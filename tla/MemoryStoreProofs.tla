-------------------------- MODULE MemoryStoreProofs -------------------------
(***************************************************************************)
(* Proofs about MemoryStore, for any number of scopes, processes, rows and *)
(* retentions.  They rest on what "the newest n rows" means for a finite   *)
(* set of rows with distinct ids, proved first for sets of rows in general *)
(* by taking a smallest counterexample.                                    *)
(***************************************************************************)
EXTENDS MemoryStore, SumProofs

(* Rows of one scope: numbered, and no number twice.                       *)
Numbered(S) == /\ IsFiniteSet(S)
               /\ \A r \in S : r.id \in Nat
               /\ \A q, r \in S : q.id = r.id => q = r
Above(S, r) == {q \in S : q.id > r.id}
Top(S, n) == {r \in S : Cardinality(Above(S, r)) < n}
-----------------------------------------------------------------------------
(* A non-empty finite set of numbers has a largest element.                *)
LEMMA HasMax ==
    ASSUME NEW S \in SUBSET Nat, IsFiniteSet(S), S # {}
    PROVE  \E x \in S : \A y \in S : x >= y
<1> DEFINE Topped(T) == \E x \in T : \A y \in T : x >= y
           F == {T \in SUBSET S : T # {} /\ ~Topped(T)}
<1> SUFFICES ASSUME ~Topped(S) PROVE FALSE
  OBVIOUS
<1>1. (\A T \in F : T \subseteq S) /\ F # {} /\ IsFiniteSet(S)
  OBVIOUS
<1>2. PICK T \in F : \A U \in F : U \subseteq T => U = T
  <2> HIDE DEF F
  <2> QED  BY <1>1, HasSmallestSubset
<1>3. PICK x \in T : TRUE
  OBVIOUS
<1>4. CASE T = {x}
  BY <1>4
<1>5. CASE T # {x}
  <2>1. T \ {x} # {} /\ T \ {x} \in SUBSET S /\ T \ {x} # T
    BY <1>3, <1>5
  <2>2. PICK m \in T \ {x} : \A y \in T \ {x} : m >= y
    BY <1>2, <2>1
  <2>3. m \in Nat /\ x \in Nat
    OBVIOUS
  <2>4. Topped(T)
    <3>1. CASE m >= x
      BY <2>2, <3>1
    <3>2. CASE x >= m
      <4>1. \A y \in T : x >= y
        BY <2>2, <2>3, <3>2
      <4> QED  BY <4>1
    <3> QED  BY <2>3, <3>1, <3>2
  <2> QED  BY <2>4
<1> QED  BY <1>4, <1>5

(* Subsets of numbered rows are numbered, and counting respects inclusion. *)
LEMMA NumberedSubset ==
    ASSUME NEW S, Numbered(S), NEW T \in SUBSET S
    PROVE  Numbered(T) /\ Cardinality(T) \in Nat /\ Cardinality(T) <= Cardinality(S)
BY FS_Subset, FS_CardinalityType DEF Numbered

(* The rows above a row, and the newest rows, are rows.                    *)
LEMMA AboveTopSubsets ==
    ASSUME NEW S, NEW r, NEW n
    PROVE  Above(S, r) \in SUBSET S /\ Top(S, n) \in SUBSET S
BY DEF Above, Top

(* A non-empty set of numbered rows has an oldest row.                     *)
LEMMA HasOldest ==
    ASSUME NEW S, Numbered(S), S # {}
    PROVE  \E m \in S : Above(S, m) = S \ {m}
<1> DEFINE ids == {r.id : r \in S}
<1>1. PICK x \in ids : \A y \in ids : x <= y
  <2>1. ids \in SUBSET Nat /\ ids # {}
    BY DEF Numbered
  <2> HIDE DEF ids
  <2> QED  BY <2>1, HasMin
<1>2. PICK m \in S : m.id = x
  OBVIOUS
<1>3. \A r \in S \ {m} : r.id > m.id
  BY <1>1, <1>2 DEF Numbered
<1>4. ~(m.id > m.id)
  BY DEF Numbered
<1> QED  BY <1>3, <1>4 DEF Above

(* Without the oldest row, the rows above every other row are the same.    *)
LEMMA AboveWithoutOldest ==
    ASSUME NEW S, Numbered(S), NEW m \in S, Above(S, m) = S \ {m}, NEW r \in S \ {m}
    PROVE  Above(S \ {m}, r) = Above(S, r)
<1>1. r.id > m.id /\ r.id \in Nat /\ m.id \in Nat
  BY DEF Above, Numbered
<1>2. ~(m.id > r.id)
  BY <1>1
<1> QED  BY <1>2 DEF Above

(* At most n rows are among the newest n.                                  *)
LEMMA TopAtMost ==
    ASSUME NEW S, Numbered(S), NEW n \in Nat
    PROVE  Cardinality(Top(S, n)) <= n
<1> DEFINE F == {T \in SUBSET S : ~(Cardinality(Top(T, n)) <= n)}
<1> SUFFICES ASSUME S \in F PROVE FALSE
  OBVIOUS
<1>1. PICK T \in F : \A U \in F : U \subseteq T => U = T
  <2>1. (\A T \in F : T \subseteq S) /\ F # {} /\ IsFiniteSet(S)
    BY DEF Numbered
  <2> HIDE DEF F
  <2> QED  BY <2>1, HasSmallestSubset
<1>2. T \in SUBSET S /\ ~(Cardinality(Top(T, n)) <= n) /\ Numbered(T) /\ IsFiniteSet(T)
  BY NumberedSubset DEF Numbered
<1>3. /\ Top(T, n) \in SUBSET T /\ Cardinality(Top(T, n)) \in Nat /\ Cardinality(T) \in Nat
      /\ Cardinality(Top(T, n)) <= Cardinality(T)
  BY <1>2, NumberedSubset, AboveTopSubsets
<1>4. T # {}
  BY <1>2, <1>3, FS_EmptySet
<1>5. PICK m \in T : Above(T, m) = T \ {m}
  BY <1>2, <1>4, HasOldest
<1>6. Cardinality(T \ {m}) = Cardinality(T) - 1
  BY <1>2, <1>5, FS_RemoveElement
<1>7. m \notin Top(T, n)
  BY <1>2, <1>3, <1>5, <1>6 DEF Top
<1>8. Top(T, n) \subseteq Top(T \ {m}, n)
  BY <1>2, <1>5, <1>7, AboveWithoutOldest DEF Top
<1>9. Cardinality(Top(T \ {m}, n)) <= n
  BY <1>1, <1>2, <1>5
<1>10. Numbered(T \ {m})
  BY <1>2, NumberedSubset
<1>11. Numbered(Top(T \ {m}, n)) /\ Cardinality(Top(T \ {m}, n)) \in Nat
  BY <1>10, NumberedSubset, AboveTopSubsets
<1>12. Cardinality(Top(T, n)) <= Cardinality(Top(T \ {m}, n))
  BY <1>8, <1>11, NumberedSubset
<1> QED  BY <1>2, <1>3, <1>9, <1>11, <1>12

(* With fewer than n rows all are among the newest n, and else n of them.  *)
LEMMA TopAtLeast ==
    ASSUME NEW S, Numbered(S), NEW n \in Nat
    PROVE  /\ Cardinality(S) <= n => Top(S, n) = S
           /\ n <= Cardinality(S) => n <= Cardinality(Top(S, n))
<1> DEFINE Full(T) == n <= Cardinality(T) => n <= Cardinality(Top(T, n))
           F == {T \in SUBSET S : ~Full(T)}
<1>1. ASSUME NEW T \in SUBSET S, Cardinality(T) <= n PROVE Top(T, n) = T
  <2>1. Numbered(T) /\ IsFiniteSet(T) /\ Cardinality(T) \in Nat
    BY NumberedSubset DEF Numbered
  <2>2. ASSUME NEW r \in T PROVE Cardinality(Above(T, r)) < n
    <3>1. r \notin Above(T, r) /\ Above(T, r) \in SUBSET (T \ {r})
      BY <2>1 DEF Above, Numbered
    <3>2. Cardinality(T \ {r}) = Cardinality(T) - 1 /\ Numbered(T \ {r})
      BY <2>1, FS_RemoveElement, NumberedSubset
    <3>3. Cardinality(Above(T, r)) \in Nat /\ Cardinality(Above(T, r)) <= Cardinality(T \ {r})
      BY <3>1, <3>2, NumberedSubset
    <3> QED  BY <1>1, <2>1, <3>2, <3>3
  <2> QED  BY <2>2 DEF Top
<1>2. S \notin F
  <2> SUFFICES ASSUME S \in F PROVE FALSE
    OBVIOUS
  <2>1. PICK T \in F : \A U \in F : U \subseteq T => U = T
    <3>1. (\A T \in F : T \subseteq S) /\ F # {} /\ IsFiniteSet(S)
      BY DEF Numbered
    <3> HIDE DEF F
    <3> QED  BY <3>1, HasSmallestSubset
  <2>2. /\ T \in SUBSET S /\ Numbered(T) /\ IsFiniteSet(T) /\ Cardinality(T) \in Nat
        /\ n <= Cardinality(T) /\ ~(n <= Cardinality(Top(T, n)))
    BY NumberedSubset DEF Numbered
  <2>3. Cardinality(T) # n
    BY <1>1, <2>2
  <2>4. T # {}
    BY <2>2, <2>3, FS_EmptySet
  <2>5. PICK m \in T : Above(T, m) = T \ {m}
    BY <2>2, <2>4, HasOldest
  <2>6. Cardinality(T \ {m}) = Cardinality(T) - 1 /\ Numbered(T \ {m})
    BY <2>2, <2>5, FS_RemoveElement, NumberedSubset
  <2>7. n <= Cardinality(Top(T \ {m}, n))
    BY <2>1, <2>2, <2>3, <2>5, <2>6
  <2>8. Top(T \ {m}, n) \subseteq Top(T, n)
    BY <2>2, <2>5, AboveWithoutOldest DEF Top
  <2>9. /\ Numbered(Top(T, n)) /\ Cardinality(Top(T, n)) \in Nat
        /\ Cardinality(Top(T \ {m}, n)) \in Nat
    BY <2>2, <2>6, NumberedSubset, AboveTopSubsets
  <2>10. Cardinality(Top(T \ {m}, n)) <= Cardinality(Top(T, n))
    BY <2>8, <2>9, NumberedSubset
  <2> QED  BY <2>2, <2>7, <2>9, <2>10
<1> QED  BY <1>1, <1>2

(* A row with n rows above it is older than each of the newest n.          *)
LEMMA TopIsAbove ==
    ASSUME NEW S, Numbered(S), NEW n \in Nat, NEW r, r.id \in Nat,
           n <= Cardinality(Above(S, r)), NEW q \in Top(S, n)
    PROVE  q.id > r.id
<1>1. q \in S /\ Cardinality(Above(S, q)) < n /\ q.id \in Nat
  BY DEF Top, Numbered
<1>2. ASSUME ~(q.id > r.id) PROVE FALSE
  <2>1. Above(S, r) \in SUBSET Above(S, q)
    BY <1>1, <1>2 DEF Above, Numbered
  <2>2. Numbered(Above(S, q)) /\ Cardinality(Above(S, q)) \in Nat
    BY NumberedSubset, AboveTopSubsets
  <2>3. Cardinality(Above(S, r)) \in Nat /\ Cardinality(Above(S, r)) <= Cardinality(Above(S, q))
    BY <2>1, <2>2, NumberedSubset
  <2> QED  BY <1>1, <2>2, <2>3
<1> QED  BY <1>2

(* The newest n >= 1 of some rows are some rows.                           *)
LEMMA TopNonEmpty ==
    ASSUME NEW S, Numbered(S), S # {}, NEW n \in Nat \ {0}
    PROVE  Top(S, n) # {}
<1>1. Cardinality(S) \in Nat
  BY FS_CardinalityType DEF Numbered
<1>2. CASE Cardinality(S) <= n
  BY <1>2, TopAtLeast
<1>3. CASE n <= Cardinality(S)
  BY <1>3, TopAtLeast, FS_EmptySet
<1> QED  BY <1>1, <1>2, <1>3

(* Keeping the newest n leaves as many rows above any row as there were,   *)
(* or n.                                                                   *)
LEMMA AboveTop ==
    ASSUME NEW S, Numbered(S), NEW n \in Nat, NEW r, r.id \in Nat, NEW k \in Nat,
           k <= n, k <= Cardinality(Above(S, r))
    PROVE  k <= Cardinality(Above(Top(S, n), r))
<1> DEFINE A == Above(S, r)
<1>1. Numbered(A) /\ Cardinality(A) \in Nat
  BY NumberedSubset, AboveTopSubsets
<1>2. ASSUME NEW q \in A PROVE Above(S, q) = Above(A, q)
  <2>1. q.id \in Nat /\ q.id > r.id /\ \A x \in S : x.id \in Nat
    BY DEF Above, Numbered
  <2> QED  BY <2>1 DEF Above
<1>3. Above(Top(S, n), r) = Top(A, n)
  BY <1>2 DEF Above, Top
<1>4. CASE Cardinality(A) <= n
  BY <1>1, <1>3, <1>4, TopAtLeast
<1>5. CASE n <= Cardinality(A)
  <2>1. n <= Cardinality(Top(A, n)) /\ Cardinality(Top(A, n)) \in Nat
    BY <1>1, <1>5, TopAtLeast, NumberedSubset, AboveTopSubsets
  <2> QED  BY <1>3, <2>1
<1> QED  BY <1>1, <1>4, <1>5
-----------------------------------------------------------------------------
(* The smallest and the largest retention of a scope.                      *)
LEMMA KeepBounds ==
    ASSUME NEW s \in Scope
    PROVE  /\ MinKeep(s) \in Nat /\ MaxKeep(s) \in Nat
           /\ \A p \in Process : /\ Keep[p][s] \in Nat \ {0}
                                 /\ MinKeep(s) <= Keep[p][s] /\ Keep[p][s] <= MaxKeep(s)
<1> DEFINE K == {Keep[p][s] : p \in Process}
<1>1. \A p \in Process : Keep[p][s] \in Nat \ {0} /\ Keep[p][s] \in K
  BY KeepAssumption
<1>2. K \in SUBSET Nat /\ K # {}
  BY <1>1, KeepAssumption
<1>3. IsFiniteSet(K)
  <2> DEFINE f == [p \in Process |-> Keep[p][s]]
  <2>1. f \in Surjection(Process, K)
    BY DEF Surjection
  <2> HIDE DEF f, K
  <2> QED  BY <2>1, KeepAssumption, FS_Surjection
<1>4. MinKeep(s) = Min(K) /\ MaxKeep(s) = Max(K)
  BY DEF MinKeep, MaxKeep
<1> HIDE DEF K
<1>5. Min(K) \in K /\ \A y \in K : Min(K) <= y
  BY <1>2, HasMin DEF Min
<1>6. Max(K) \in K /\ \A y \in K : Max(K) >= y
  BY <1>2, <1>3, HasMax DEF Max
<1>7. \A p \in Process : Keep[p][s] <= Max(K) /\ Min(K) <= Keep[p][s]
  BY <1>1, <1>2, <1>5, <1>6
<1> QED  BY <1>1, <1>2, <1>4, <1>5, <1>6, <1>7
-----------------------------------------------------------------------------
(* The inductive invariant.  A reader's rows and persisted rows must       *)
(* survive what is pending as well as what is committed, and what is       *)
(* pending must carry on from what is committed.                           *)
Good(state) ==
    /\ state \in [rows : SUBSET Row, seq : Nat]
    /\ Database(state) /\ IsFiniteSet(state.rows)

Stays(state, r) == r \in state.rows \/ Cardinality(Newer(state.rows, r)) >= MinKeep(r.scope)

(* r is there, or all there is of its scope is newer, and there is some.   *)
Follows(state, r) ==
    \/ r \in state.rows
    \/ /\ InScope(state.rows, r.scope) # {}
       /\ \A q \in InScope(state.rows, r.scope) : q.id > r.id

SeenInv ==
    \A s \in Scope : \A r \in seen[s] :
        r.scope = s /\ r.id <= db.seq /\ Follows(db, r) /\ Follows(txn, r)

IInv ==
    /\ TypeOK /\ Good(db) /\ Good(txn)
    /\ seen \in [Scope -> SUBSET Row]
    /\ owner = "nobody" => txn = db
    /\ db.seq <= txn.seq
    /\ \A r \in returned : Stays(db, r) /\ Stays(txn, r)
    /\ \A r \in db.rows : Follows(txn, r)
    /\ SeenInv
    /\ RetentionHolds

(* A state that a writer may go on to from an earlier one.                 *)
Evolves(old, new) ==
    /\ Good(new) /\ old.seq <= new.seq
    /\ \A r \in Row : Stays(old, r) => Stays(new, r)
    /\ \A r \in Row : r.id <= old.seq /\ Follows(old, r) => Follows(new, r)

(* Rows, and the rows of a scope, are numbered.                            *)
LEMMA ScopeNumbered ==
    ASSUME NEW state, Good(state), NEW s
    PROVE  /\ Numbered(InScope(state.rows, s))
           /\ \A r \in Row : r.id \in Nat /\ r.scope \in Scope
           /\ \A r \in Row : Newer(state.rows, r) = Above(InScope(state.rows, r.scope), r)
           /\ \A n : Newest(state.rows, s, n) = Top(InScope(state.rows, s), n)
<1>1. \A r \in Row : r.id \in Nat /\ r.scope \in Scope
  BY DEF Row
<1>2. state.rows \subseteq Row /\ \A q, r \in state.rows : q.id = r.id => q = r
  BY DEF Good, Database
<1>3. IsFiniteSet(InScope(state.rows, s))
  BY FS_Subset DEF Good, InScope
<1>4. Numbered(InScope(state.rows, s))
  BY <1>1, <1>2, <1>3 DEF Numbered, InScope
<1>5. \A r \in Row : Newer(state.rows, r) = Above(InScope(state.rows, r.scope), r)
  BY DEF Newer, Above
<1>6. ASSUME NEW n PROVE Newest(state.rows, s, n) = Top(InScope(state.rows, s), n)
  <2>1. \A r \in InScope(state.rows, s) : Newer(state.rows, r) = Above(InScope(state.rows, s), r)
    BY DEF InScope, Newer, Above
  <2> QED  BY <2>1 DEF Newest, Top
<1> QED  BY <1>1, <1>4, <1>5, <1>6

(* INSERT with the next id: everything stays, and the new row is newest.   *)
LEMMA InsertEvolves ==
    ASSUME NEW old, Good(old), old.seq < MaxId, NEW s \in Scope
    PROVE  /\ Evolves(old, Insert(old, s))
           /\ [id |-> Insert(old, s).seq, scope |-> s] \in Row
           /\ [id |-> Insert(old, s).seq, scope |-> s] \in Insert(old, s).rows
<1> DEFINE new == Insert(old, s)
           row == [id |-> old.seq + 1, scope |-> s]
<1>1. new.rows = old.rows \union {row} /\ new.seq = old.seq + 1 /\ old.seq \in Nat
  BY DEF Insert, Good
<1>2. row \in Row /\ row.id = old.seq + 1 /\ row.scope = s
  BY <1>1 DEF Row
<1>3. old.rows \subseteq Row /\ (\A r \in old.rows : r.id <= old.seq /\ r.id \in Nat)
  BY DEF Good, Database, Row
<1>4. Good(new)
  <2>1. new \in [rows : SUBSET Row, seq : Nat]
    BY <1>1, <1>2, <1>3 DEF Insert
  <2>2. IsFiniteSet(new.rows)
    <3>1. IsFiniteSet(old.rows)
      BY DEF Good
    <3> HIDE DEF new, row
    <3>2. IsFiniteSet(old.rows \union {row})
      BY <3>1, FS_AddElement
    <3> QED  BY <1>1, <3>2
  <2>3. new.seq \in 0..MaxId
    BY <1>1, KeepAssumption
  <2> HIDE DEF new, row
  <2>4. \A q, r \in new.rows : q.id = r.id => q = r
    BY <1>1, <1>2, <1>3 DEF Good, Database
  <2>5. \A r \in new.rows : r.id <= new.seq
    BY <1>1, <1>2, <1>3
  <2> QED  BY <2>1, <2>2, <2>3, <2>4, <2>5, <1>1, <1>2, <1>3 DEF Good, Database
<1> HIDE DEF new, row
<1>5. ASSUME NEW r \in Row, Stays(old, r) PROVE Stays(new, r)
  <2>1. CASE r \in old.rows
    BY <1>1, <2>1 DEF Stays
  <2>2. CASE Cardinality(Newer(old.rows, r)) >= MinKeep(r.scope)
    <3>1. Newer(old.rows, r) \in SUBSET Newer(new.rows, r)
      BY <1>1 DEF Newer, InScope
    <3>2. Numbered(Newer(new.rows, r)) /\ Cardinality(Newer(new.rows, r)) \in Nat
      BY <1>4, ScopeNumbered, NumberedSubset, AboveTopSubsets
    <3>3. /\ Cardinality(Newer(old.rows, r)) \in Nat
          /\ Cardinality(Newer(old.rows, r)) <= Cardinality(Newer(new.rows, r))
      BY <3>1, <3>2, NumberedSubset
    <3>4. MinKeep(r.scope) \in Nat
      BY KeepBounds DEF Row
    <3> QED  BY <2>2, <3>2, <3>3, <3>4 DEF Stays
  <2> QED  BY <1>5, <2>1, <2>2 DEF Stays
<1>6. ASSUME NEW r \in Row, r.id <= old.seq, Follows(old, r) PROVE Follows(new, r)
  <2>1. r.id \in Nat
    BY DEF Row
  <2>2. \A q \in InScope(new.rows, r.scope) : q \in InScope(old.rows, r.scope) \/ q.id > r.id
    BY <1>1, <1>2, <1>6, <2>1 DEF InScope
  <2>3. InScope(old.rows, r.scope) \subseteq InScope(new.rows, r.scope) /\ old.rows \subseteq new.rows
    BY <1>1 DEF InScope
  <2> QED  BY <1>6, <2>2, <2>3 DEF Follows
<1>7. row \in new.rows /\ row = [id |-> new.seq, scope |-> s]
  BY <1>1 DEF row
<1> QED  BY <1>1, <1>2, <1>4, <1>5, <1>6, <1>7 DEF Evolves, new

(* DELETE of all but the newest keep rows of a scope.                      *)
LEMMA PruneEvolves ==
    ASSUME NEW old, Good(old), NEW s \in Scope, NEW keep \in Nat \ {0}, MinKeep(s) <= keep
    PROVE  /\ Evolves(old, Pruned(old, s, keep))
           /\ Cardinality(InScope(Pruned(old, s, keep).rows, s)) <= keep
<1> DEFINE new == Pruned(old, s, keep)
           S == InScope(old.rows, s)
<1>1. /\ new.rows = (old.rows \ S) \union Top(S, keep) /\ new.seq = old.seq
      /\ new \in [rows : SUBSET Row, seq : Nat]
  <2>1. Newest(old.rows, s, keep) = Top(S, keep)
    BY ScopeNumbered
  <2>2. Top(S, keep) \subseteq old.rows
    BY AboveTopSubsets DEF InScope
  <2> QED  BY <2>1, <2>2 DEF Pruned, Good
<1>2. Numbered(S) /\ Top(S, keep) \in SUBSET S /\ new.rows \in SUBSET old.rows
  <2>1. Numbered(S)
    BY ScopeNumbered
  <2>2. Top(S, keep) \in SUBSET S
    BY AboveTopSubsets
  <2>3. S \subseteq old.rows
    BY DEF InScope
  <2> HIDE DEF new, S
  <2> QED  BY <1>1, <2>1, <2>2, <2>3
<1>3. Good(new)
  <2>1. IsFiniteSet(new.rows)
    BY <1>2, FS_Subset DEF Good
  <2> HIDE DEF new
  <2> QED  BY <1>1, <1>2, <2>1 DEF Good, Database
<1>4. InScope(new.rows, s) = Top(S, keep)
  <2>1. \A r \in S : r.scope = s
    BY DEF InScope
  <2>2. \A r \in old.rows \ S : r.scope # s
    BY DEF InScope
  <2> HIDE DEF new, S
  <2> QED  BY <1>1, <1>2, <2>1, <2>2 DEF InScope
<1>5. \A t : t # s => InScope(new.rows, t) = InScope(old.rows, t)
  <2>1. \A r \in S : r.scope = s
    BY DEF InScope
  <2> HIDE DEF new
  <2> QED  BY <1>1, <1>2, <2>1 DEF InScope
<1> HIDE DEF new, S
<1>6. Cardinality(InScope(new.rows, s)) <= keep
  BY <1>2, <1>4, TopAtMost
<1>7. ASSUME NEW r \in Row, Stays(old, r) PROVE Stays(new, r)
  <2>1. r.id \in Nat /\ r.scope \in Scope /\ MinKeep(r.scope) \in Nat
    BY KeepBounds DEF Row
  <2>2. /\ Newer(old.rows, r) = Above(InScope(old.rows, r.scope), r)
        /\ Newer(new.rows, r) = Above(InScope(new.rows, r.scope), r)
    BY <1>3, ScopeNumbered
  <2>3. CASE r.scope # s
    <3>1. r \in old.rows => r \in new.rows
      BY <1>1, <2>3 DEF S, InScope
    <3> QED  BY <1>5, <1>7, <2>2, <2>3, <3>1 DEF Stays
  <2>4. CASE r.scope = s
    <3>1. Cardinality(Above(S, r)) \in Nat /\ Cardinality(Above(Top(S, keep), r)) \in Nat
      BY <1>2, NumberedSubset, AboveTopSubsets
    <3>2. CASE r \in old.rows /\ Cardinality(Above(S, r)) < keep
      <4>1. r \in Top(S, keep)
        BY <2>4, <3>2 DEF Top, S, InScope
      <4> QED  BY <1>1, <4>1 DEF Stays
    <3>3. CASE MinKeep(s) <= Cardinality(Above(S, r))
      <4>1. MinKeep(s) <= Cardinality(Above(Top(S, keep), r))
        BY <1>2, <2>1, <2>4, <3>3, AboveTop
      <4> QED  BY <1>4, <2>1, <2>2, <2>4, <3>1, <4>1 DEF Stays
    <3>4. r \notin old.rows => MinKeep(s) <= Cardinality(Above(S, r))
      BY <1>7, <2>1, <2>2, <2>4, <3>1 DEF Stays, S
    <3> QED  BY <2>1, <2>4, <3>1, <3>2, <3>3, <3>4
  <2> QED  BY <2>3, <2>4
<1>8. ASSUME NEW r \in Row, r.id <= old.seq, Follows(old, r) PROVE Follows(new, r)
  <2>1. r.id \in Nat
    BY DEF Row
  <2>2. CASE r.scope # s
    <3>1. r \in old.rows => r \in new.rows
      BY <1>1, <2>2 DEF S, InScope
    <3> QED  BY <1>5, <1>8, <2>2, <3>1 DEF Follows
  <2>3. CASE r.scope = s
    <3>1. CASE r \in old.rows
      <4>1. r \in S
        BY <2>3, <3>1 DEF S, InScope
      <4>2. Top(S, keep) # {}
        BY <1>2, <4>1, TopNonEmpty
      <4>3. CASE r \in Top(S, keep)
        BY <1>1, <4>3 DEF Follows
      <4>4. CASE r \notin Top(S, keep)
        <5>1. Cardinality(Above(S, r)) \in Nat
          BY <1>2, NumberedSubset, AboveTopSubsets
        <5>2. keep <= Cardinality(Above(S, r))
          BY <4>1, <4>4, <5>1 DEF Top
        <5>3. \A q \in Top(S, keep) : q.id > r.id
          BY <1>2, <2>1, <5>2, TopIsAbove
        <5> QED  BY <1>4, <2>3, <4>2, <5>3 DEF Follows
      <4> QED  BY <4>3, <4>4
    <3>2. CASE r \notin old.rows
      <4>1. S # {} /\ \A q \in S : q.id > r.id
        BY <1>8, <2>3, <3>2 DEF Follows, S
      <4>2. Top(S, keep) # {}
        BY <1>2, <4>1, TopNonEmpty
      <4> QED  BY <1>2, <1>4, <2>3, <4>1, <4>2 DEF Follows
    <3> QED  BY <3>1, <3>2
  <2> QED  BY <2>2, <2>3
<1>9. old.seq \in Nat
  BY DEF Good
<1> QED  BY <1>1, <1>3, <1>6, <1>7, <1>8, <1>9 DEF Evolves, new
-----------------------------------------------------------------------------
(* Rows of a scope that a commit leaves are rows that were there or rows   *)
(* it adds.                                                                *)
LEMMA RowsAdded ==
    ASSUME NEW old, NEW new, Good(old), Good(new), NEW s
    PROVE  /\ Cardinality(InScope(old.rows, s)) \in Nat
           /\ Cardinality(InScope(new.rows, s)) \in Nat
           /\ Cardinality(InScope(new.rows \ old.rows, s)) \in Nat
           /\ Cardinality(InScope(new.rows, s))
                <= Cardinality(InScope(old.rows, s)) + Cardinality(InScope(new.rows \ old.rows, s))
<1> DEFINE A == InScope(old.rows, s)
           B == InScope(new.rows \ old.rows, s)
           C == InScope(new.rows, s)
<1>1. IsFiniteSet(A) /\ IsFiniteSet(C)
  BY ScopeNumbered DEF Numbered
<1>2. B \in SUBSET C /\ C \in SUBSET (A \union B)
  BY DEF InScope
<1> HIDE DEF A, B, C
<1>3. IsFiniteSet(B)
  BY <1>1, <1>2, FS_Subset
<1>4. IsFiniteSet(A \union B) /\ IsFiniteSet(A \cap B)
  BY <1>1, <1>3, FS_Union, FS_Intersection
<1>5. Cardinality(A \union B) = Cardinality(A) + Cardinality(B) - Cardinality(A \cap B)
  BY <1>1, <1>3, FS_Union
<1>6. Cardinality(C) <= Cardinality(A \union B)
  BY <1>2, <1>4, FS_Subset
<1>7. /\ Cardinality(A) \in Nat /\ Cardinality(B) \in Nat /\ Cardinality(C) \in Nat
      /\ Cardinality(A \union B) \in Nat /\ Cardinality(A \cap B) \in Nat
  BY <1>1, <1>3, <1>4, FS_CardinalityType
<1>8. Cardinality(C) <= Cardinality(A) + Cardinality(B)
  BY <1>5, <1>6, <1>7
<1> QED  BY <1>7, <1>8 DEF A, B, C

(* A writer sees the pending state, which is the committed one if nothing  *)
(* is pending.                                                             *)
LEMMA WriterView ==
    ASSUME IInv, NEW p \in Process, CanWrite(p)
    PROVE  View(p) = txn
<1>1. p # "nobody"
  BY KeepAssumption
<1> QED  BY <1>1 DEF IInv, CanWrite, View

(* The part of the invariant about rows.                                   *)
RowsInv ==
    /\ Good(db) /\ Good(txn)
    /\ owner = "nobody" => txn = db
    /\ db.seq <= txn.seq
    /\ \A r \in returned : Stays(db, r) /\ Stays(txn, r)
    /\ \A r \in db.rows : Follows(txn, r)
    /\ SeenInv

(* A statement whose commit succeeds or raises keeps it.                   *)
LEMMA StatementKeepsRows ==
    ASSUME IInv, NEW new, Evolves(txn, new), txn' = new, db' = db \/ db' = new,
           owner' = "nobody" => db' = new, seen' = seen,
           \A r \in returned' : r \in returned \/ (Stays(new, r) /\ db' = new)
    PROVE  RowsInv'
<1>1. Good(new) /\ Good(db) /\ Good(db') /\ Good(txn')
  BY DEF IInv, Evolves
<1>2. db.seq \in Nat /\ txn.seq \in Nat /\ new.seq \in Nat /\ db.seq <= txn.seq /\ txn.seq <= new.seq
  BY <1>1 DEF IInv, Evolves, Good
<1>3. db'.seq <= txn'.seq /\ db.seq <= db'.seq
  BY <1>2
<1>4. \A r \in returned' : Stays(db', r) /\ Stays(txn', r)
  <2>1. \A r \in returned : Stays(db, r) /\ Stays(new, r)
    BY DEF IInv, TypeOK, Evolves
  <2> QED  BY <2>1
<1>5. \A r \in db'.rows : Follows(txn', r)
  <2>1. \A r \in new.rows : Follows(new, r)
    BY DEF Follows
  <2>2. \A r \in db.rows : r \in Row /\ r.id \in Nat /\ r.id <= db.seq
    BY <1>1 DEF Good, Database, Row
  <2>3. \A r \in db.rows : r.id <= txn.seq
    BY <1>2, <2>2
  <2>4. \A r \in db.rows : Follows(new, r)
    BY <2>2, <2>3 DEF IInv, Evolves
  <2> QED  BY <2>1, <2>4
<1>6. SeenInv'
  <2> SUFFICES ASSUME NEW s \in Scope, NEW r \in seen[s]
               PROVE  r.scope = s /\ r.id <= db'.seq /\ Follows(db', r) /\ Follows(txn', r)
    BY DEF SeenInv
  <2>1. r.scope = s /\ r.id <= db.seq /\ Follows(db, r) /\ Follows(txn, r) /\ r \in Row
    BY DEF IInv, SeenInv
  <2>2. r.id \in Nat
    BY <2>1 DEF Row
  <2>3. r.id <= txn.seq /\ r.id <= db'.seq
    BY <1>2, <1>3, <2>1, <2>2
  <2>4. Follows(new, r)
    BY <2>1, <2>3 DEF Evolves
  <2> QED  BY <2>1, <2>3, <2>4
<1> QED  BY <1>1, <1>3, <1>4, <1>5, <1>6 DEF RowsInv

(* What a commit adds is counted.                                          *)
LEMMA CommitCounts ==
    ASSUME IInv, Good(db')
    PROVE  /\ Added(db') \in [Scope -> Nat]
           /\ \A s \in Scope : Cardinality(InScope(db'.rows, s)) <= MaxKeep(s) + Added(db')[s]
<1> SUFFICES ASSUME NEW s \in Scope
             PROVE  /\ Added(db')[s] \in Nat
                    /\ Cardinality(InScope(db'.rows, s)) <= MaxKeep(s) + Added(db')[s]
  BY DEF Added
<1>1. Added(db')[s] = unpruned[s] + Cardinality(InScope(db'.rows \ db.rows, s))
  BY DEF Added
<1>2. unpruned[s] \in Nat /\ MaxKeep(s) \in Nat
  BY KeepBounds DEF IInv, TypeOK
<1>3. Cardinality(InScope(db.rows, s)) <= MaxKeep(s) + unpruned[s]
  BY DEF IInv, RetentionHolds
<1>4. /\ Cardinality(InScope(db.rows, s)) \in Nat /\ Cardinality(InScope(db'.rows, s)) \in Nat
      /\ Cardinality(InScope(db'.rows \ db.rows, s)) \in Nat
      /\ Cardinality(InScope(db'.rows, s))
           <= Cardinality(InScope(db.rows, s)) + Cardinality(InScope(db'.rows \ db.rows, s))
  BY RowsAdded DEF IInv
<1> QED  BY <1>1, <1>2, <1>3, <1>4
-----------------------------------------------------------------------------
(* The invariant after a step, from its parts.                             *)
LEMMA FromParts ==
    ASSUME RowsInv', owner' \in Process \union {"nobody"},
           pc' \in [Process -> Scope \union {"idle"}], returned' \subseteq Row,
           unpruned' \in [Scope -> Nat], seen' \in [Scope -> SUBSET Row], RetentionHolds'
    PROVE  IInv'
<1>1. Database(db)' /\ Database(txn)'
  BY DEF RowsInv, Good
<1>2. TypeOK'
  BY <1>1 DEF TypeOK
<1> QED  BY <1>2 DEF IInv, RowsInv

(* An empty database satisfies the invariant.                              *)
LEMMA InitInv == Init => IInv
<1> SUFFICES ASSUME Init PROVE IInv
  OBVIOUS
<1> USE DEF Init
<1>1. Good(db)
  <2>1. IsFiniteSet({})
    BY FS_EmptySet
  <2> QED  BY <2>1, KeepAssumption DEF Good, Database
<1>2. RowsInv
  BY <1>1 DEF RowsInv, SeenInv, Good
<1>3. RetentionHolds
  <2> SUFFICES ASSUME NEW s \in Scope
               PROVE  Cardinality(InScope(db.rows, s)) <= MaxKeep(s) + unpruned[s]
    BY DEF RetentionHolds
  <2>1. InScope(db.rows, s) = {}
    BY DEF InScope
  <2>2. Cardinality(InScope(db.rows, s)) = 0
    BY <2>1, FS_EmptySet
  <2>3. MaxKeep(s) \in Nat /\ unpruned[s] = 0
    BY KeepBounds
  <2> QED  BY <2>2, <2>3
<1>4. TypeOK
  BY <1>1 DEF TypeOK, Good
<1> QED  BY <1>2, <1>3, <1>4 DEF RowsInv, IInv

(* The first half of _append keeps the invariant.                          *)
LEMMA AppendInv ==
    ASSUME IInv, NEW p \in Process, NEW s \in Scope, Append(p, s)
    PROVE  IInv'
<1> DEFINE new == Insert(txn, s)
<1>1. View(p) = txn
  BY WriterView DEF Append
<1>2. db' = new /\ txn' = new /\ owner' = "nobody" /\ txn.seq < MaxId
  BY <1>1 DEF Append, Commit
<1>3. returned' = returned \union {[id |-> new.seq, scope |-> s]} /\ seen' = seen
  BY <1>2 DEF Append
<1>4. /\ Evolves(txn, new) /\ [id |-> new.seq, scope |-> s] \in Row
      /\ [id |-> new.seq, scope |-> s] \in new.rows
  BY <1>2, InsertEvolves DEF IInv
<1> HIDE DEF new
<1>5. RowsInv'
  <2>1. Stays(new, [id |-> new.seq, scope |-> s])
    BY <1>4 DEF Stays
  <2> QED  BY <1>2, <1>3, <1>4, <2>1, StatementKeepsRows
<1>6. Good(db')
  BY <1>5 DEF RowsInv
<1>7. unpruned' = Added(db')
  BY DEF Append
<1>8. unpruned' \in [Scope -> Nat] /\ RetentionHolds'
  BY <1>6, <1>7, CommitCounts DEF RetentionHolds, MaxKeep
<1>9. /\ returned' \subseteq Row /\ pc' \in [Process -> Scope \union {"idle"}]
      /\ seen' \in [Scope -> SUBSET Row]
  BY <1>3, <1>4 DEF Append, IInv, TypeOK
<1> QED  BY <1>2, <1>5, <1>8, <1>9, FromParts

(* A statement that leaves its transaction open keeps it.                  *)
LEMMA LeaveOpenInv ==
    ASSUME IInv, NEW p \in Process, CanWrite(p), NEW new, Evolves(txn, new), LeaveOpen(p, new),
           pc' \in [Process -> Scope \union {"idle"}], UNCHANGED <<returned, unpruned, seen>>
    PROVE  IInv'
<1>1. txn' = new /\ owner' = p /\ db' = db /\ p # "nobody"
  BY KeepAssumption DEF LeaveOpen
<1>2. RowsInv'
  BY <1>1, StatementKeepsRows
<1>3. /\ owner' \in Process \union {"nobody"} /\ returned' \subseteq Row
      /\ unpruned' \in [Scope -> Nat] /\ seen' \in [Scope -> SUBSET Row] /\ RetentionHolds'
  BY <1>1 DEF IInv, TypeOK, RetentionHolds, MaxKeep
<1> QED  BY <1>2, <1>3, FromParts

(* So does the second half.                                                *)
LEMMA PruneInv ==
    ASSUME IInv, NEW p \in Process, Prune(p)
    PROVE  IInv'
<1> DEFINE s == pc[p]
           new == Pruned(txn, s, Keep[p][s])
<1>1. View(p) = txn
  BY WriterView DEF Prune
<1>2. db' = new /\ txn' = new /\ owner' = "nobody"
  BY <1>1 DEF Prune, Commit
<1>3. s \in Scope
  BY DEF Prune, IInv, TypeOK
<1>4. unpruned' = [Added(db') EXCEPT ![s] = 0] /\ UNCHANGED <<returned, seen>>
  BY DEF Prune
<1>5. pc' \in [Process -> Scope \union {"idle"}]
  BY DEF Prune, IInv, TypeOK
<1>6. Keep[p][s] \in Nat \ {0} /\ MinKeep(s) <= Keep[p][s] /\ Keep[p][s] <= MaxKeep(s)
  BY <1>3, KeepBounds
<1> HIDE DEF s
<1>7. Evolves(txn, new) /\ Cardinality(InScope(new.rows, s)) <= Keep[p][s]
  BY <1>3, <1>6, PruneEvolves DEF IInv
<1> HIDE DEF new
<1>8. RowsInv'
  BY <1>2, <1>4, <1>7, StatementKeepsRows
<1>9. Good(db')
  BY <1>8 DEF RowsInv
<1>10. /\ Added(db') \in [Scope -> Nat]
       /\ \A t \in Scope : Cardinality(InScope(db'.rows, t)) <= MaxKeep(t) + Added(db')[t]
  BY <1>9, CommitCounts
<1>11. unpruned' \in [Scope -> Nat] /\ unpruned'[s] = 0
       /\ \A t \in Scope : t # s => unpruned'[t] = Added(db')[t]
  BY <1>3, <1>4, <1>10
<1>12. RetentionHolds'
  <2> SUFFICES ASSUME NEW t \in Scope
               PROVE  Cardinality(InScope(db'.rows, t)) <= MaxKeep(t) + unpruned'[t]
    BY DEF RetentionHolds, MaxKeep
  <2>1. CASE t # s
    BY <1>10, <1>11, <2>1
  <2>2. CASE t = s
    <3>1. MaxKeep(s) \in Nat /\ Cardinality(InScope(new.rows, s)) \in Nat
      BY <1>2, <1>3, <1>9, KeepBounds, RowsAdded
    <3> QED  BY <1>2, <1>6, <1>7, <1>11, <2>2, <3>1
  <2> QED  BY <2>1, <2>2
<1>13. returned' \subseteq Row /\ seen' \in [Scope -> SUBSET Row]
  BY <1>4 DEF IInv, TypeOK
<1> QED  BY <1>2, <1>5, <1>8, <1>11, <1>12, <1>13, FromParts

(* A prune that raises leaves the row it follows, or its own transaction.  *)
LEMMA PruneRaisesInv ==
    ASSUME IInv, NEW p \in Process, PruneRaises(p)
    PROVE  IInv'
<1>1. pc' \in [Process -> Scope \union {"idle"}] /\ UNCHANGED <<returned, unpruned, seen>>
  BY DEF PruneRaises, IInv, TypeOK
<1>2. CASE UNCHANGED <<db, owner, txn>>
  <2>1. RowsInv'
    BY <1>1, <1>2 DEF IInv, RowsInv, SeenInv, Stays, Follows, MinKeep
  <2>2. /\ owner' \in Process \union {"nobody"} /\ returned' \subseteq Row
        /\ unpruned' \in [Scope -> Nat] /\ seen' \in [Scope -> SUBSET Row] /\ RetentionHolds'
    BY <1>1, <1>2 DEF IInv, TypeOK, RetentionHolds, MaxKeep
  <2> QED  BY <1>1, <2>1, <2>2, FromParts
<1>3. CASE CanWrite(p) /\ LeaveOpen(p, Pruned(View(p), pc[p], Keep[p][pc[p]]))
  <2> DEFINE s == pc[p]
             new == Pruned(txn, s, Keep[p][s])
  <2>1. LeaveOpen(p, new)
    BY <1>3, WriterView
  <2>2. s \in Scope
    BY DEF PruneRaises, IInv, TypeOK
  <2> HIDE DEF s
  <2>3. Keep[p][s] \in Nat \ {0} /\ MinKeep(s) <= Keep[p][s]
    BY <2>2, KeepBounds
  <2>4. Evolves(txn, new)
    BY <2>2, <2>3, PruneEvolves DEF IInv
  <2> HIDE DEF new
  <2> QED  BY <1>1, <1>3, <2>1, <2>4, LeaveOpenInv
<1> QED  BY <1>2, <1>3 DEF PruneRaises

(* A process that ends takes what it had pending with it.                  *)
LEMMA CloseInv ==
    ASSUME IInv, NEW p \in Process, Close(p)
    PROVE  IInv'
<1>1. /\ pc' \in [Process -> Scope \union {"idle"}] /\ UNCHANGED <<returned, unpruned, seen>>
      /\ db' = db
  BY DEF Close, IInv, TypeOK
<1>2. (owner' = "nobody" /\ txn' = db) \/ UNCHANGED <<owner, txn>>
  BY DEF Close
<1>3. RowsInv'
  <2>1. CASE owner' = "nobody" /\ txn' = db
    <3>1. \A r \in db.rows : Follows(db, r)
      BY DEF Follows
    <3>2. db.seq <= db.seq
      BY DEF IInv, Good
    <3> QED  BY <1>1, <2>1, <3>1, <3>2 DEF IInv, RowsInv, SeenInv, Stays, Follows, MinKeep
  <2>2. CASE UNCHANGED <<owner, txn>>
    BY <1>1, <2>2 DEF IInv, RowsInv, SeenInv, Stays, Follows, MinKeep
  <2> QED  BY <1>2, <2>1, <2>2
<1>4. /\ owner' \in Process \union {"nobody"} /\ returned' \subseteq Row
      /\ unpruned' \in [Scope -> Nat] /\ seen' \in [Scope -> SUBSET Row] /\ RetentionHolds'
  BY <1>1, <1>2 DEF IInv, TypeOK, RetentionHolds, MaxKeep
<1> QED  BY <1>1, <1>3, <1>4, FromParts

(* A reading shows committed rows of its scope.                            *)
LEMMA RecentInv ==
    ASSUME IInv, NEW s \in Scope, Recent(s)
    PROVE  IInv'
<1> DEFINE N == Newest(db.rows, s, Limit)
<1>1. seen' = [seen EXCEPT ![s] = N] /\ UNCHANGED <<db, owner, txn, pc, returned, unpruned>>
  BY DEF Recent
<1>2. N \subseteq db.rows /\ \A r \in N : r.scope = s
  BY DEF Newest, InScope
<1> HIDE DEF N
<1>3. /\ db.rows \subseteq Row /\ (\A r \in db.rows : r.id <= db.seq)
      /\ \A r \in db.rows : Follows(db, r) /\ Follows(txn, r)
  BY DEF IInv, Good, Database, Follows
<1>4. seen' \in [Scope -> SUBSET Row] /\ seen'[s] = N /\ \A t \in Scope : t # s => seen'[t] = seen[t]
  BY <1>1, <1>2, <1>3 DEF IInv
<1>5. SeenInv'
  <2> SUFFICES ASSUME NEW t \in Scope, NEW r \in seen'[t]
               PROVE  r.scope = t /\ r.id <= db.seq /\ Follows(db, r) /\ Follows(txn, r)
    BY <1>1 DEF SeenInv, Follows
  <2>1. CASE t = s
    BY <1>2, <1>3, <1>4, <2>1
  <2>2. CASE t # s
    BY <1>4, <2>2 DEF IInv, SeenInv
  <2> QED  BY <2>1, <2>2
<1>6. RowsInv'
  BY <1>1, <1>5 DEF IInv, RowsInv, Stays, Follows, MinKeep
<1>7. /\ owner' \in Process \union {"nobody"} /\ returned' \subseteq Row
      /\ pc' \in [Process -> Scope \union {"idle"}]
      /\ unpruned' \in [Scope -> Nat] /\ RetentionHolds'
  BY <1>1 DEF IInv, TypeOK, RetentionHolds, MaxKeep
<1> QED  BY <1>4, <1>6, <1>7, FromParts

(* Every step keeps the invariant.                                         *)
LEMMA NextInv == IInv /\ [Next]_vars => IInv'
<1> SUFFICES ASSUME IInv, [Next]_vars PROVE IInv'
  OBVIOUS
<1>1. ASSUME NEW p \in Process, NEW s \in Scope, Append(p, s) PROVE IInv'
  BY <1>1, AppendInv
<1>2. ASSUME NEW p \in Process, NEW s \in Scope, AppendRaises(p, s) PROVE IInv'
  <2>1. CanWrite(p) /\ View(p) = txn /\ txn.seq < MaxId
    BY <1>2, WriterView DEF AppendRaises
  <2>2. Evolves(txn, Insert(txn, s)) /\ LeaveOpen(p, Insert(txn, s))
    BY <1>2, <2>1, InsertEvolves DEF AppendRaises, IInv
  <2>3. pc' \in [Process -> Scope \union {"idle"}] /\ UNCHANGED <<returned, unpruned, seen>>
    BY <1>2 DEF AppendRaises, IInv, TypeOK
  <2> QED  BY <2>1, <2>2, <2>3, LeaveOpenInv
<1>3. ASSUME NEW p \in Process, Prune(p) PROVE IInv'
  BY <1>3, PruneInv
<1>4. ASSUME NEW p \in Process, PruneRaises(p) PROVE IInv'
  BY <1>4, PruneRaisesInv
<1>5. ASSUME NEW p \in Process, Close(p) PROVE IInv'
  BY <1>5, CloseInv
<1>6. ASSUME NEW s \in Scope, Recent(s) PROVE IInv'
  BY <1>6, RecentInv
<1>7. CASE UNCHANGED vars
  <2>1. RowsInv'
    BY <1>7 DEF vars, IInv, RowsInv, SeenInv, Stays, Follows, MinKeep
  <2>2. /\ owner' \in Process \union {"nobody"} /\ returned' \subseteq Row
        /\ pc' \in [Process -> Scope \union {"idle"}] /\ seen' \in [Scope -> SUBSET Row]
        /\ unpruned' \in [Scope -> Nat] /\ RetentionHolds'
    BY <1>7 DEF vars, IInv, TypeOK, RetentionHolds, MaxKeep
  <2> QED  BY <2>1, <2>2, FromParts
<1> QED  BY <1>1, <1>2, <1>3, <1>4, <1>5, <1>6, <1>7 DEF Next

(* The invariant holds in every reachable state.                           *)
LEMMA Invariance == Spec => []IInv
BY InitInv, NextInv, PTL DEF Spec
-----------------------------------------------------------------------------
(* The committed and the pending state are databases in which an id names  *)
(* one row, for any number of writers and failures (_append, prune, close).*)
THEOREM StoreTyped == Spec => []TypeOK
<1>1. IInv => TypeOK
  BY DEF IInv
<1> QED  BY <1>1, Invariance, PTL

(* A row append() reported as persisted stays until as many newer rows of  *)
(* its scope as the smallest keep_last replace it.                         *)
THEOREM PersistedRowsStay == Spec => []ReturnedRowsStay
<1>1. IInv => ReturnedRowsStay
  BY DEF IInv, ReturnedRowsStay, Stays
<1> QED  BY <1>1, Invariance, PTL

(* A scope never holds more than keep_last rows besides those committed    *)
(* since its last prune, however many prunes failed.                       *)
THEOREM RetentionBounded == Spec => []RetentionHolds
<1>1. IInv => RetentionHolds
  BY DEF IInv
<1> QED  BY <1>1, Invariance, PTL

(* A row recent() showed disappears from a later reading only behind newer *)
(* rows of its scope, whatever the writers did in between.                 *)
THEOREM ReadsNeverGoBack == Spec => ReadsAdvance
<1> DEFINE A == \A s \in Scope : \A r \in seen[s] \ seen'[s] :
                   seen'[s] # {} /\ \A q \in seen'[s] : q.id > r.id
<1>1. IInv /\ [Next]_vars => [A]_vars
  <2> SUFFICES ASSUME IInv, Next, NEW t \in Scope, NEW r \in seen[t] \ seen'[t]
               PROVE  seen'[t] # {} /\ \A q \in seen'[t] : q.id > r.id
    BY DEF vars
  <2>1. PICK s \in Scope : Recent(s)
    BY DEF Next, Append, AppendRaises, Prune, PruneRaises, Close
  <2>2. t = s /\ seen'[s] = Newest(db.rows, s, Limit)
    BY <2>1 DEF Recent, IInv
  <2> DEFINE S == InScope(db.rows, s)
  <2>3. seen'[s] = Top(S, Limit) /\ Numbered(S)
    BY <2>2, ScopeNumbered DEF IInv
  <2>4. r.scope = s /\ Follows(db, r) /\ r \in Row /\ r.id \in Nat
    BY <2>2 DEF IInv, SeenInv, Row
  <2>5. Limit \in Nat \ {0}
    BY KeepAssumption
  <2>6. CASE r \in db.rows
    <3>1. r \in S
      BY <2>4, <2>6 DEF InScope
    <3> HIDE DEF S
    <3>2. Cardinality(Above(S, r)) \in Nat
      BY <2>3, NumberedSubset, AboveTopSubsets
    <3>3. Limit <= Cardinality(Above(S, r))
      BY <2>2, <2>3, <2>5, <3>1, <3>2 DEF Top
    <3>4. \A q \in Top(S, Limit) : q.id > r.id
      BY <2>3, <2>4, <2>5, <3>3, TopIsAbove
    <3>5. Top(S, Limit) # {}
      BY <2>3, <2>5, <3>1, TopNonEmpty
    <3> QED  BY <2>2, <2>3, <3>4, <3>5
  <2>7. CASE r \notin db.rows
    <3>1. S # {} /\ \A q \in S : q.id > r.id
      BY <2>4, <2>7 DEF Follows
    <3> HIDE DEF S
    <3>2. Top(S, Limit) # {} /\ Top(S, Limit) \subseteq S
      BY <2>3, <2>5, <3>1, TopNonEmpty, AboveTopSubsets
    <3> QED  BY <2>2, <2>3, <3>1, <3>2
  <2> QED  BY <2>6, <2>7
<1> QED  BY <1>1, Invariance, PTL DEF Spec, ReadsAdvance
=============================================================================
