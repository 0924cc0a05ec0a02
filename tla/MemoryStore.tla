---------------------------- MODULE MemoryStore -----------------------------
(***************************************************************************)
(* SQLiteMemoryStore and the scoped memories over it                       *)
(* (memory/sqlite_store.py, memory/memories.py).  Every record_* and note  *)
(* method is an append of one row followed by a prune of its scope, each   *)
(* a transaction of its own.  The processes that open the database (the    *)
(* agent, check_memory.py, and the dashboard, which only reads) share the  *)
(* file: SQLite lets one of them write at a time.  A statement may raise;  *)
(* a commit() that raises leaves its transaction open on the connection,   *)
(* to be committed by the next call that succeeds; a process may die       *)
(* between any two statements.  Of a record only its scope matters here.   *)
(***************************************************************************)
EXTENDS FiniteSetsExt, Integers

CONSTANTS
    Scope,      \* MemoryScope
    Process,    \* processes that write
    Keep,       \* keep_last of each process's memories, by scope
    Limit,      \* rows the dashboard asks for
    MaxId       \* bound: rows inserted in a behaviour

ASSUME KeepAssumption ==
    /\ Keep \in [Process -> [Scope -> Nat \ {0}]] /\ Limit \in Nat \ {0} /\ MaxId \in Nat
    /\ "idle" \notin Scope /\ "nobody" \notin Process
    /\ IsFiniteSet(Process) /\ Process # {}

VARIABLES
    db,         \* committed state: rows and the AUTOINCREMENT sequence
    owner,      \* the process with a transaction left open, or "nobody"
    txn,        \* the state that process sees
    pc,         \* scope whose prune each process still has to do, or "idle"
    returned,   \* history: rows append() reported as persisted
    unpruned,   \* history: rows committed since the scope was last pruned
    seen        \* rows of each scope the dashboard showed last

vars == <<db, owner, txn, pc, returned, unpruned, seen>>

Row == [id : Nat \ {0}, scope : Scope]
InScope(rows, s) == {r \in rows : r.scope = s}
Newer(rows, r) == {q \in InScope(rows, r.scope) : q.id > r.id}

(* SELECT ... WHERE scope = s ORDER BY id DESC LIMIT n.                    *)
Newest(rows, s, n) == {r \in InScope(rows, s) : Cardinality(Newer(rows, r)) < n}

View(p) == IF owner = p THEN txn ELSE db
CanWrite(p) == owner \in {p, "nobody"}
-----------------------------------------------------------------------------
(* Mutant: ids are not taken from a sequence.                              *)
MutInsert(state, s) ==
    [rows |-> state.rows \union {[id |-> Cardinality(InScope(state.rows, s)) + 1, scope |-> s]},
     seq |-> state.seq + 1]

(* INSERT with the next AUTOINCREMENT id.                                  *)
Insert(state, s) ==
    [rows |-> state.rows \union {[id |-> state.seq + 1, scope |-> s]}, seq |-> state.seq + 1]

(* Mutant: the rows to keep are not limited to the scope.                  *)
MutPruned(state, s, keep) ==
    [state EXCEPT !.rows =
        {r \in @ : r.scope = s => Cardinality({q \in @ : q.id > r.id}) < keep}]

(* Mutant: one row more than asked for is kept.                            *)
MutPrunedLate(state, s, keep) ==
    [state EXCEPT !.rows = (@ \ InScope(@, s)) \union Newest(@, s, keep + 1)]

(* Mutant: the oldest rows are kept (ORDER BY id without DESC).            *)
MutPrunedOldest(state, s, keep) ==
    [state EXCEPT !.rows =
        {r \in @ : r.scope = s => Cardinality({q \in InScope(@, s) : q.id < r.id}) < keep}]

(* DELETE of the scope's rows that are not among its newest keep.          *)
Pruned(state, s, keep) ==
    [state EXCEPT !.rows = (@ \ InScope(@, s)) \union Newest(@, s, keep)]

Init ==
    /\ db = [rows |-> {}, seq |-> 0]
    /\ owner = "nobody" /\ txn = db
    /\ pc = [p \in Process |-> "idle"]
    /\ returned = {}
    /\ unpruned = [s \in Scope |-> 0]
    /\ seen = [s \in Scope |-> {}]

(* commit() of a new state: what the connection had pending goes with it.  *)
Commit(state) ==
    /\ db' = state /\ txn' = state /\ owner' = "nobody"

(* commit() raises.                                                        *)
LeaveOpen(p, state) ==
    /\ txn' = state /\ owner' = p
    /\ UNCHANGED db

(* Rows a commit adds to each scope, since its last prune.                 *)
Added(state) ==
    [s \in Scope |-> unpruned[s] + Cardinality(InScope(state.rows \ db.rows, s))]

(* _append, first half: the row is stored and its id known.                *)
Append(p, s) ==
    /\ pc[p] = "idle" /\ CanWrite(p) /\ View(p).seq < MaxId
    /\ Commit(Insert(View(p), s))
    /\ pc' = [pc EXCEPT ![p] = s]
    /\ returned' = returned \union {[id |-> db'.seq, scope |-> s]}
    /\ unpruned' = Added(db')
    /\ UNCHANGED seen

(* append() raises at commit() (at INSERT it leaves nothing behind), and   *)
(* _append with it.                                                        *)
AppendRaises(p, s) ==
    /\ pc[p] = "idle" /\ CanWrite(p) /\ View(p).seq < MaxId
    /\ LeaveOpen(p, Insert(View(p), s))
    /\ UNCHANGED <<pc, returned, unpruned, seen>>

(* _append, second half: retention.                                        *)
Prune(p) ==
    /\ pc[p] # "idle" /\ CanWrite(p)
    /\ Commit(Pruned(View(p), pc[p], Keep[p][pc[p]]))
    /\ pc' = [pc EXCEPT ![p] = "idle"]
    /\ unpruned' = [Added(db') EXCEPT ![pc[p]] = 0]
    /\ UNCHANGED <<returned, seen>>

(* prune() raises, at DELETE or at commit(): the caller does not get the   *)
(* id of the row that is stored.                                           *)
PruneRaises(p) ==
    /\ pc[p] # "idle"
    /\ pc' = [pc EXCEPT ![p] = "idle"]
    /\ \/ UNCHANGED <<db, owner, txn>>
       \/ CanWrite(p) /\ LeaveOpen(p, Pruned(View(p), pc[p], Keep[p][pc[p]]))
    /\ UNCHANGED <<returned, unpruned, seen>>

(* close() or the end of the process: an open transaction is rolled back.  *)
Close(p) ==
    /\ pc[p] # "idle" \/ owner = p
    /\ pc' = [pc EXCEPT ![p] = "idle"]
    /\ IF owner = p THEN owner' = "nobody" /\ txn' = db /\ UNCHANGED db
                    ELSE UNCHANGED <<db, owner, txn>>
    /\ UNCHANGED <<returned, unpruned, seen>>

(* recent() of another process, which sees committed rows.                 *)
Recent(s) ==
    /\ seen' = [seen EXCEPT ![s] = Newest(db.rows, s, Limit)]
    /\ UNCHANGED <<db, owner, txn, pc, returned, unpruned>>

Next ==
    \/ \E p \in Process :
          \/ \E s \in Scope : Append(p, s) \/ AppendRaises(p, s)
          \/ Prune(p) \/ PruneRaises(p) \/ Close(p)
    \/ \E s \in Scope : Recent(s)

Spec == Init /\ [][Next]_vars
-----------------------------------------------------------------------------
MinKeep(s) == Min({Keep[p][s] : p \in Process})
MaxKeep(s) == Max({Keep[p][s] : p \in Process})

(* Well-formed database states, in which an id names one row (PRIMARY KEY).*)
Database(state) ==
    /\ state.rows \subseteq Row /\ state.seq \in 0..MaxId
    /\ \A q, r \in state.rows : q.id = r.id => q = r
    /\ \A r \in state.rows : r.id <= state.seq

(* Committed and pending state are databases; the other state is typed.    *)
TypeOK ==
    /\ Database(db) /\ Database(txn)
    /\ owner \in Process \union {"nobody"}
    /\ pc \in [Process -> Scope \union {"idle"}]
    /\ returned \subseteq Row
    /\ unpruned \in [Scope -> Nat]
    /\ \A s \in Scope : seen[s] \subseteq Row

(* A row that append() reported as persisted stays until as many newer     *)
(* rows of its own scope as the smallest keep_last replace it, whatever    *)
(* fails, dies or is appended to other scopes meanwhile.                   *)
ReturnedRowsStay ==
    \A r \in returned :
        r \in db.rows \/ Cardinality(Newer(db.rows, r)) >= MinKeep(r.scope)

(* Retention: a scope never holds more than keep_last rows besides those   *)
(* committed since its last prune, however prunes failed before.           *)
RetentionHolds ==
    \A s \in Scope : Cardinality(InScope(db.rows, s)) <= MaxKeep(s) + unpruned[s]

(* A row the dashboard showed disappears from a later reading only behind  *)
(* newer rows of its scope: no reading goes back in time.                  *)
ReadsAdvance ==
    [][\A s \in Scope : \A r \in seen[s] \ seen'[s] :
          seen'[s] # {} /\ \A q \in seen'[s] : q.id > r.id]_vars
=============================================================================
