--------------------------- MODULE ProcessesProofs --------------------------
(***************************************************************************)
(* Proofs about Processes, for any number of handler threads and any       *)
(* number of changes of the environment.  The two safety properties say    *)
(* what a reply and an exit mean; the inductive invariant says what every  *)
(* read of a request in progress has established and what the main thread  *)
(* holds at each of its steps.                                             *)
(***************************************************************************)
EXTENDS Processes, TLAPS

Request ==
    [kind : Kind \union {"none"}, done : Nat, bad : SUBSET Nat, error : BOOLEAN,
     reply : {"none", "HEALTHY", "DEGRADED", "UNHEALTHY", "state", "error", "fixed"}]

(* A request is inside its calls; each call it has done failed, may be     *)
(* lost, as the lenient ones may, or found its source there since the      *)
(* request was accepted; and a page in progress has its candles.           *)
ReadsAccounted(h) ==
    /\ req[h] \in Request
    /\ req[h].kind = "none" => req[h] = NoRequest
    /\ req[h].kind # "none" =>
          /\ req[h].done <= Len(Reads[req[h].kind])
          /\ req[h].bad \subseteq 1..req[h].done
          /\ \A i \in 1..req[h].done :
                \/ i \in req[h].bad \/ Reads[req[h].kind][i].dark = "lost"
                \/ Reads[req[h].kind][i].need \in seen[h]
    /\ req[h].kind = "health" => ~req[h].error
    /\ req[h].kind = "state" /\ ~req[h].error /\ req[h].done > 0 => "terminal" \in seen[h]

(* A verdict or a state page is given after the last call only.            *)
RepliesAreComplete(h) ==
    /\ req[h].reply = "HEALTHY" =>
          req[h].kind = "health" /\ req[h].done = 6 /\ req[h].bad = {} /\ setup.llm
    /\ req[h].reply = "state" => req[h].kind = "state" /\ req[h].done = 13 /\ ~req[h].error

RequestInv ==
    /\ req \in [Handler -> Request]
    /\ \A h \in Handler : ReadsAccounted(h) /\ RepliesAreComplete(h)

(* The lock is free or with a handler that has a read of the store to do.  *)
LockInv ==
    /\ lock \in Handler \union {NoHandler}
    /\ lock \in Handler => Reading(lock) /\ NextRead(lock).need = "memory"

(* What the main thread holds, step by step.                               *)
Holding == {"wire", "work", "stop_server", "close_store"}
MainInv ==
    /\ setup.program \in {"run_agent", "serve_dashboard"}
    /\ pc \in {"start", "connect", "store", "disconnect", "leave", "exited"} \union Holding
    /\ code \in {"none", "0", "1", "2", "raised"}
    /\ pc \in {"close_store", "disconnect", "stop_server", "leave", "exited"} => code # "none"
    /\ storeOpen <=> pc \in Holding
    /\ opened => pc \in Holding \union {"disconnect", "leave", "exited"}
    /\ pc \in Holding \union {"store", "disconnect"} => connected
    /\ pc \in {"start", "connect", "leave"} => ~connected
    /\ pc = "exited" /\ connected => ~opened /\ code \in {"1", "raised"}
    /\ listening => pc \in {"work", "stop_server"} /\ setup.program = "serve_dashboard"

IInv == RequestInv /\ LockInv /\ MainInv
-----------------------------------------------------------------------------
(* What each kind of request reads.                                        *)
LEMMA ReadsFacts ==
    /\ Kind = {"state", "health", "fixed"}
    /\ Len(Reads["health"]) = 6 /\ Len(Reads["state"]) = 13 /\ Len(Reads["fixed"]) = 0
    /\ Reads["health"][1].need = "link" /\ Reads["health"][3].need = "terminal"
    /\ Reads["health"][6].need = "memory" /\ Reads["state"][1].need = "terminal"
    /\ \A i \in {1, 3, 6} : Reads["health"][i].dark = "failed"
<1>1. Kind = {"state", "health", "fixed"}
  BY DEF Kind, Reads
<1>2. Reads["health"] = <<Section("link"), LenientSection, Section("terminal"), LenientSection,
                          LenientSection, Section("memory")>>
  BY DEF Reads
<1>3. Reads["state"] = <<Core, Lenient, Lenient, Core, Lenient, Lenient, Lenient, LenientSection,
                         Section("terminal"), LenientSection, Section("memory"),
                         Section("memory"), Section("memory")>>
  BY DEF Reads
<1>4. Reads["fixed"] = <<>>
  BY DEF Reads
<1>5. \A c : Section(c).need = c /\ Section(c).dark = "failed"
  BY DEF Section
<1>6. Core.need = "terminal"
  BY DEF Core
<1> QED  BY <1>1, <1>2, <1>3, <1>4, <1>5, <1>6

(* The tables: no call of a probe or a page but its core ones ends it, and *)
(* the first call of a page is core; a call that loses an answer when the  *)
(* adapter is not connected loses it always; a section ends at or after    *)
(* its call and inside the request.                                        *)
LEMMA TableFacts ==
    ASSUME NEW k \in Kind, NEW i \in 1..Len(Reads[k])
    PROVE  /\ Reads[k][i].off \in {"error", "failed", "lost"}
           /\ Reads[k][i].dark \in {"error", "failed", "lost"}
           /\ Reads[k][i].off = "lost" => Reads[k][i].dark = "lost"
           /\ k = "health" => Reads[k][i].off # "error" /\ Reads[k][i].dark # "error"
           /\ k = "state" /\ i = 1 => Reads[k][i].off = "error" /\ Reads[k][i].dark = "error"
           /\ SectionEnd(k, i) \in i..Len(Reads[k])
<1>1. Reads["health"] = <<Section("link"), LenientSection, Section("terminal"), LenientSection,
                          LenientSection, Section("memory")>>
  BY DEF Reads
<1>2. Reads["state"] = <<Core, Lenient, Lenient, Core, Lenient, Lenient, Lenient, LenientSection,
                         Section("terminal"), LenientSection, Section("memory"),
                         Section("memory"), Section("memory")>>
  BY DEF Reads
<1> DEFINE Free(r) == /\ r.off \in {"failed", "lost"} /\ r.dark \in {"failed", "lost"}
                      /\ r.off = "lost" => r.dark = "lost"
           Kept(r) == r.off = "error" /\ r.dark \in {"error", "lost"}
<1>3. /\ \A c : Free(Section(c))
      /\ Free(LenientSection) /\ Kept(Core) /\ Kept(Lenient)
      /\ Core.dark = "error"
  BY DEF Section, LenientSection, Core, Lenient
<1> HIDE DEF Free, Kept
<1>4. CASE k = "health"
  <2>1. Len(Reads[k]) = 6 /\ i \in 1..6
    BY <1>4, ReadsFacts
  <2>2. Free(Reads[k][i])
    BY <1>1, <1>3, <1>4, <2>1
  <2>3. SectionEnd(k, i) \in i..6
    BY <1>4, <2>1 DEF SectionEnd
  <2> QED  BY <1>4, <2>1, <2>2, <2>3 DEF Free
<1>5. CASE k = "state"
  <2>1. Len(Reads[k]) = 13 /\ i \in 1..13
    BY <1>5, ReadsFacts
  <2>2. Free(Reads[k][i]) \/ Kept(Reads[k][i])
    BY <1>2, <1>3, <1>5, <2>1
  <2>3. i = 1 => Reads[k][i] = Core
    BY <1>2, <1>5
  <2>4. SectionEnd(k, i) = i
    BY <1>5 DEF SectionEnd
  <2> QED  BY <1>3, <1>5, <2>1, <2>2, <2>3, <2>4 DEF Free, Kept
<1>6. CASE k = "fixed"
  BY <1>6, ReadsFacts
<1> QED  BY <1>4, <1>5, <1>6, ReadsFacts

(* An empty slot is a request, and nothing is read in it.                  *)
LEMMA NoRequestFacts ==
    /\ NoRequest \in Request /\ NoRequest.kind = "none" /\ NoRequest.reply = "none"
    /\ NoRequest.error = FALSE
<1>1. 0 \in Nat
  OBVIOUS
<1>2. NoRequest \in Request
  BY <1>1, Zenon DEF NoRequest, Request
<1> QED  BY <1>2 DEF NoRequest

(* The initial states: nothing is held, open or in progress.               *)
LEMMA InitInv == Init => IInv
<1> SUFFICES ASSUME Init PROVE IInv
  OBVIOUS
<1>1. RequestInv
  <2>1. \A h \in Handler : req[h] = NoRequest
    BY DEF Init
  <2>2. req \in [Handler -> Request]
    BY NoRequestFacts DEF Init
  <2> QED
    BY <2>1, <2>2, NoRequestFacts DEF RequestInv, ReadsAccounted, RepliesAreComplete
<1>2. LockInv
  BY ProcessesAssumption DEF Init, LockInv
<1>3. MainInv
  BY ProcessesAssumption DEF Init, MainInv, Holding, Setup
<1> QED  BY <1>1, <1>2, <1>3 DEF IInv

(* Steps that change no request keep what requests have established: seen  *)
(* only grows while a request lasts.                                       *)
LEMMA SameRequests ==
    ASSUME RequestInv, Observed, req' = req, setup' = setup
    PROVE  RequestInv'
<1> SUFFICES ASSUME NEW h \in Handler PROVE (ReadsAccounted(h) /\ RepliesAreComplete(h))'
  BY DEF RequestInv
<1>1. ReadsAccounted(h) /\ RepliesAreComplete(h)
  BY DEF RequestInv
<1>2. req[h] # NoRequest => seen[h] \subseteq seen'[h]
  BY DEF Observed
<1>3. RepliesAreComplete(h)'
  BY <1>1 DEF RepliesAreComplete
<1>4. ReadsAccounted(h)'
  BY <1>1, <1>2, NoRequestFacts DEF ReadsAccounted
<1> QED  BY <1>3, <1>4

(* An exit drops every request and the lock.                               *)
LEMMA ExitDrops ==
    ASSUME NEW c, Exit(c)
    PROVE  RequestInv' /\ LockInv'
<1>1. req' \in [Handler -> Request] /\ \A h \in Handler : req'[h] = NoRequest
  BY NoRequestFacts DEF Exit
<1>2. RequestInv'
  BY <1>1, NoRequestFacts DEF RequestInv, ReadsAccounted, RepliesAreComplete
<1>3. LockInv'
  BY ProcessesAssumption DEF Exit, LockInv
<1> QED  BY <1>2, <1>3

(* The lock invariant looks at the lock and its holder's request only.     *)
LEMMA SameLock ==
    ASSUME LockInv, lock' = lock, lock \in Handler => req'[lock] = req[lock]
    PROVE  LockInv'
BY DEF LockInv, Reading, Busy, NextRead

(* Every step of the main thread keeps the invariant.                      *)
LEMMA MainKeeps == ASSUME IInv, Main, Observed PROVE IInv'
<1> USE DEF IInv
<1> DEFINE Quiet == req' = req /\ lock' = lock /\ setup' = setup
<1>0. Quiet => RequestInv' /\ LockInv'
  BY SameRequests, SameLock
<1>1. CASE Start
  <2>1. MainInv'
    BY <1>1 DEF Start, Exit, MainInv, Holding
  <2>2. RequestInv' /\ LockInv'
    BY <1>1, <1>0, ExitDrops DEF Start
  <2> QED  BY <2>1, <2>2
<1>2. CASE Connect
  <2>1. MainInv'
    BY <1>2 DEF Connect, Exit, MainInv, Holding
  <2>2. RequestInv' /\ LockInv'
    BY <1>2, <1>0, ExitDrops DEF Connect
  <2> QED  BY <2>1, <2>2
<1>3. CASE OpenStore
  <2>1. MainInv'
    BY <1>3 DEF OpenStore, Exit, MainInv, Holding
  <2>2. RequestInv' /\ LockInv'
    BY <1>3, <1>0, ExitDrops DEF OpenStore
  <2> QED  BY <2>1, <2>2
<1>4. CASE Wire
  <2>1. MainInv'
    <3>1. /\ pc = "wire" /\ UNCHANGED <<setup, connected, storeOpen, opened>>
          /\ \/ pc' = "work" /\ code' = code /\ Bind
             \/ pc' = "close_store" /\ code' = "1" /\ listening' = listening
             \/ pc' = "stop_server" /\ code' = "1" /\ Bind
      BY <1>4 DEF Wire
    <3>2. Bind => (listening' => setup.program = "serve_dashboard")
      BY Zenon DEF Bind
    <3> QED  BY <3>1, <3>2 DEF MainInv, Holding
  <2> QED  BY <1>4, <2>1, <1>0 DEF Wire
<1>5. CASE Work
  <2>1. MainInv'
    <3>1. CASE setup.program = "run_agent"
      BY <1>5, <3>1 DEF Work, MainInv, Holding
    <3>2. CASE setup.program = "serve_dashboard"
      BY <1>5, <3>2 DEF Work, MainInv, Holding
    <3> QED  BY <3>1, <3>2 DEF MainInv
  <2> QED  BY <1>5, <2>1, <1>0 DEF Work
<1>6. CASE StopServer
  <2>1. MainInv'
    BY <1>6 DEF StopServer, MainInv, Holding
  <2> QED  BY <1>6, <2>1, <1>0 DEF StopServer
<1>7. CASE CloseStore
  <2>1. MainInv'
    BY <1>7 DEF CloseStore, MainInv, Holding
  <2> QED  BY <1>7, <2>1, <1>0 DEF CloseStore
<1>8. CASE Disconnect
  <2>1. MainInv'
    BY <1>8 DEF Disconnect, MainInv, Holding
  <2> QED  BY <1>8, <2>1, <1>0 DEF Disconnect
<1>9. CASE Leave
  <2>1. MainInv'
    BY <1>9 DEF Leave, Exit, MainInv, Holding
  <2> QED  BY <1>9, <2>1, ExitDrops DEF Leave
<1> QED  BY <1>1, <1>2, <1>3, <1>4, <1>5, <1>6, <1>7, <1>8, <1>9 DEF Main

(* A handler step or an accepted request is about one handler: the others  *)
(* keep their requests, what was seen during them, and the lock if they    *)
(* hold it.                                                                *)
LEMMA OneHandler ==
    ASSUME RequestInv, Observed, setup' = setup, NEW h \in Handler, NEW r \in Request,
           req' = [req EXCEPT ![h] = r],
           (ReadsAccounted(h) /\ RepliesAreComplete(h))'
    PROVE  RequestInv'
<1>1. req' \in [Handler -> Request]
  BY DEF RequestInv
<1>2. ASSUME NEW g \in Handler \ {h} PROVE (ReadsAccounted(g) /\ RepliesAreComplete(g))'
  <2>1. req'[g] = req[g] /\ ReadsAccounted(g) /\ RepliesAreComplete(g)
    BY DEF RequestInv
  <2>2. req[g] # NoRequest => seen[g] \subseteq seen'[g]
    BY <2>1 DEF Observed
  <2>3. RepliesAreComplete(g)'
    BY <2>1 DEF RepliesAreComplete
  <2>4. ReadsAccounted(g)'
    BY <2>1, <2>2, NoRequestFacts DEF ReadsAccounted
  <2> QED  BY <2>3, <2>4
<1> QED  BY <1>1, <1>2 DEF RequestInv

(* The main thread's invariant does not look at the handlers.              *)
LEMMA SameMain == ASSUME MainInv, UNCHANGED mainVars PROVE MainInv'
BY DEF MainInv, mainVars, Holding

(* A request accepted starts with nothing read.                            *)
LEMMA AcceptKeeps ==
    ASSUME IInv, Observed, NEW h \in Handler, NEW kind \in Kind, Accept(h, kind)
    PROVE  IInv'
<1> DEFINE r == [NoRequest EXCEPT !.kind = kind]
<1>1. /\ r \in Request /\ r.kind = kind /\ r.done = 0 /\ r.bad = {} /\ r.reply = "none"
      /\ r.error = FALSE
  BY NoRequestFacts DEF NoRequest, Request
<1>2. req[h] = NoRequest /\ req' = [req EXCEPT ![h] = r] /\ req \in [Handler -> Request]
  BY DEF Accept, IInv, RequestInv
<1>3. req'[h] = r
  BY <1>2
<1> HIDE DEF r
<1>4. (ReadsAccounted(h) /\ RepliesAreComplete(h))'
  BY <1>1, <1>3, ReadsFacts DEF ReadsAccounted, RepliesAreComplete
<1>5. RequestInv'
  BY <1>1, <1>2, <1>4, OneHandler DEF IInv, Accept, mainVars
<1>6. LockInv'
  <2>1. lock # h
    BY <1>2, NoRequestFacts DEF IInv, LockInv, Reading, Busy
  <2>2. lock' = lock /\ (lock \in Handler => req'[lock] = req[lock])
    BY <1>2, <2>1 DEF Accept
  <2> QED  BY <2>2, SameLock DEF IInv
<1> QED  BY <1>5, <1>6, SameMain DEF IInv, Accept

(* What a call in progress can come to.                                    *)
LEMMA OutcomeFacts ==
    ASSUME IInv, NEW h \in Handler, Reading(h)
    PROVE  /\ req[h].kind \in Kind /\ req[h].done \in Nat
           /\ req[h].done + 1 \in 1..Len(Reads[req[h].kind])
           /\ NextRead(h) = Reads[req[h].kind][req[h].done + 1]
           /\ Outcome(h) \in {"answered", "error", "failed", "lost"}
           /\ Outcome(h) = "answered" => NextRead(h).need \in Alive
           /\ Outcome(h) = "lost" => NextRead(h).dark = "lost"
           /\ req[h].kind = "health" => Outcome(h) # "error"
           /\ req[h].kind = "state" /\ req[h].done = 0 => Outcome(h) \in {"answered", "error"}
<1>1. /\ req[h].kind \in Kind /\ req[h].done \in Nat
      /\ req[h].done + 1 \in 1..Len(Reads[req[h].kind])
  BY ReadsFacts DEF IInv, RequestInv, ReadsAccounted, Reading, Busy, Request
<1>2. NextRead(h) = Reads[req[h].kind][req[h].done + 1]
  BY DEF NextRead
<1>3. Outcome(h) \in {"answered", NextRead(h).dark, NextRead(h).off}
      /\ (Outcome(h) = "answered" =>
            NextRead(h).need \in Alive \/ "answered" \in {NextRead(h).dark, NextRead(h).off})
  BY DEF Outcome
<1> QED  BY <1>1, <1>2, <1>3, TableFacts

(* A finished call failed, was lost or found its source alive in this      *)
(* step.                                                                   *)
LEMMA FinishedKeeps ==
    ASSUME IInv, Observed, UNCHANGED mainVars, NEW h \in Handler, Reading(h),
           Finished(h, Outcome(h))
    PROVE  RequestInv'
<1> DEFINE k == req[h].kind
           n == req[h].done
           out == Outcome(h)
           err == (out = "error")
           m == DoneAfter(h, out)
           b == BadAfter(h, out)
           r == [req[h] EXCEPT !.done = m, !.bad = b, !.error = err]
<1>1. /\ req[h] \in Request /\ k \in Kind /\ n \in Nat /\ n + 1 \in 1..Len(Reads[k])
      /\ req[h].bad \subseteq 1..n
      /\ req[h].reply = "none" /\ ~req[h].error
      /\ \A i \in 1..n :
            i \in req[h].bad \/ Reads[k][i].dark = "lost" \/ Reads[k][i].need \in seen[h]
      /\ k = "state" /\ n > 0 => "terminal" \in seen[h]
  BY OutcomeFacts, ReadsFacts DEF IInv, RequestInv, ReadsAccounted, Reading, Busy, Request
<1>2. /\ NextRead(h) = Reads[k][n + 1] /\ out \in {"answered", "error", "failed", "lost"}
      /\ out = "answered" => Reads[k][n + 1].need \in Alive
      /\ out = "lost" => Reads[k][n + 1].dark = "lost"
      /\ k = "health" => out # "error"
      /\ k = "state" /\ n = 0 => out \in {"answered", "error"}
  BY OutcomeFacts
<1>3. req' = [req EXCEPT ![h] = r] /\ req \in [Handler -> Request] /\ req'[h] = r
  BY DEF Finished, IInv, RequestInv
<1>4. Len(Reads[k]) \in Nat
  BY <1>1, ReadsFacts
<1>5. m \in (n + 1)..Len(Reads[k]) /\ (out # "failed" => m = n + 1)
  BY <1>1, <1>4, TableFacts DEF DoneAfter
<1>6. /\ req[h].bad \subseteq b /\ b \subseteq 1..m
      /\ out \in {"failed", "error"} => (n + 1)..m \subseteq b
  BY <1>1, <1>4, <1>5 DEF BadAfter
<1>7. /\ r \in Request /\ r.kind = k /\ r.done = m /\ r.bad = b
      /\ r.reply = "none" /\ r.error = err
  <2> DEFINE q == req[h]
  <2>1. m \in Nat /\ b \in SUBSET Nat /\ err \in BOOLEAN
    BY <1>1, <1>4, <1>5, <1>6
  <2>2. q \in Request /\ q.reply = "none" /\ q.kind = k
    BY <1>1
  <2>3. r = [q EXCEPT !.done = m, !.bad = b, !.error = err]
    OBVIOUS
  <2> HIDE DEF q, m, b, err, r, k
  <2> QED  BY <2>1, <2>2, <2>3 DEF Request
<1> HIDE DEF r, m, b
<1>8. req'[h] # NoRequest /\ k # "none"
  BY <1>1, <1>3, <1>7, ReadsFacts, NoRequestFacts
<1>9. seen[h] \subseteq seen'[h] /\ Alive \subseteq seen'[h]
  BY <1>8 DEF Observed
<1> HIDE DEF out, err, n, k
<1>10. \A i \in 1..m : i \in b \/ Reads[k][i].dark = "lost" \/ Reads[k][i].need \in seen'[h]
  <2> SUFFICES ASSUME NEW i \in 1..m
               PROVE  i \in b \/ Reads[k][i].dark = "lost" \/ Reads[k][i].need \in seen'[h]
    OBVIOUS
  <2>1. CASE i \in 1..n
    BY <1>1, <1>6, <1>9, <2>1
  <2>2. CASE i \in (n + 1)..m /\ out \in {"failed", "error"}
    BY <1>6, <2>2
  <2>3. CASE i \in (n + 1)..m /\ out \in {"answered", "lost"}
    <3>1. i = n + 1
      BY <1>1, <1>5, <2>3
    <3> QED  BY <1>2, <1>9, <2>3, <3>1
  <2> QED  BY <1>1, <1>2, <1>4, <1>5, <2>1, <2>2, <2>3
<1>11. k = "health" => ~err
  BY <1>2 DEF err
<1>12. k = "state" /\ ~err => "terminal" \in seen'[h]
  <2>1. CASE n > 0
    BY <1>1, <1>9, <2>1
  <2>2. CASE n = 0
    BY <1>2, <1>9, <2>2, ReadsFacts DEF err
  <2> QED  BY <1>1, <2>1, <2>2
<1>13. ReadsAccounted(h)'
  <2>1. m <= Len(Reads[k]) /\ b \subseteq 1..m
    BY <1>1, <1>4, <1>5, <1>6
  <2>2. req'[h] = r
    BY <1>3
  <2> QED
    BY <2>1, <2>2, <1>7, <1>8, <1>10, <1>11, <1>12 DEF ReadsAccounted
<1>14. RepliesAreComplete(h)'
  BY <1>3, <1>7 DEF RepliesAreComplete
<1> QED  BY <1>3, <1>7, <1>13, <1>14, OneHandler DEF IInv, mainVars

(* Every step of a handler keeps the invariant.                            *)
LEMMA HandlerKeeps ==
    ASSUME IInv, Observed, NEW h \in Handler, Handle(h)
    PROVE  IInv'
<1>0. /\ req \in [Handler -> Request] /\ req[h] \in Request
      /\ ReadsAccounted(h) /\ RepliesAreComplete(h) /\ MainInv /\ LockInv /\ RequestInv
  BY DEF IInv, RequestInv
<1>1. ASSUME UNCHANGED mainVars PROVE MainInv' /\ setup' = setup
  BY <1>0, <1>1, SameMain DEF mainVars
<1>2. CASE ReadTerminal(h)
  <2>1. /\ Reading(h) /\ NextRead(h).need # "memory" /\ UNCHANGED mainVars /\ lock' = lock
        /\ Finished(h, Outcome(h))
    BY <1>2 DEF ReadTerminal
  <2>2. RequestInv'
    BY <2>1, FinishedKeeps
  <2>3. lock # h /\ (lock \in Handler => req'[lock] = req[lock])
    BY <1>0, <2>1 DEF LockInv, Finished
  <2>4. LockInv'
    BY <1>0, <2>1, <2>3, SameLock
  <2> QED  BY <1>1, <2>1, <2>2, <2>4 DEF IInv
<1>3. CASE TakeLock(h)
  <2>1. /\ Reading(h) /\ NextRead(h).need = "memory" /\ lock' = h /\ req' = req
        /\ UNCHANGED mainVars
    BY <1>3 DEF TakeLock
  <2>2. LockInv'
    BY <2>1 DEF LockInv, Reading, Busy, NextRead
  <2> QED  BY <1>0, <1>1, <2>1, <2>2, SameRequests DEF IInv
<1>4. CASE ReadMemory(h)
  <2>1. /\ lock = h /\ lock' = NoHandler /\ UNCHANGED mainVars
        /\ Finished(h, Outcome(h))
    BY <1>4 DEF ReadMemory
  <2>2. Reading(h) /\ NextRead(h).need = "memory"
    BY <1>0, <2>1 DEF LockInv
  <2>3. RequestInv'
    BY <2>1, <2>2, FinishedKeeps
  <2>4. LockInv'
    BY <2>1, ProcessesAssumption DEF LockInv
  <2> QED  BY <1>1, <2>1, <2>3, <2>4 DEF IInv
<1>5. CASE Answer(h)
  <2> DEFINE reply == CASE req[h].kind = "health" -> Overall(req[h].bad)
                        [] req[h].kind = "state" -> IF req[h].error THEN "error" ELSE "state"
                        [] OTHER -> "fixed"
             r == [req[h] EXCEPT !.reply = reply]
  <2>1. /\ Busy(h) /\ ~Reading(h) /\ UNCHANGED mainVars /\ lock' = lock
        /\ req' = [req EXCEPT ![h] = r]
    BY <1>0, <1>5 DEF Answer
  <2>2. /\ reply \in {"HEALTHY", "DEGRADED", "UNHEALTHY", "state", "error", "fixed"}
        /\ reply = "HEALTHY" => req[h].kind = "health" /\ req[h].bad = {} /\ setup.llm
        /\ reply = "state" => req[h].kind = "state" /\ ~req[h].error
    BY DEF Overall
  <2> HIDE DEF reply
  <2>3. /\ r \in Request /\ r.kind = req[h].kind /\ r.done = req[h].done /\ r.bad = req[h].bad
        /\ r.error = req[h].error /\ r.reply = reply
    BY <1>0, <2>2 DEF Request
  <2>4. req'[h] = r /\ setup' = setup
    BY <1>0, <1>1, <2>1
  <2> HIDE DEF r
  <2>5. req[h].kind \in Kind /\ req[h].done \in Nat
    BY <1>0, <2>1 DEF Busy, Request
  <2>6. ~req[h].error => req[h].done = Len(Reads[req[h].kind])
    BY <1>0, <2>1, <2>5, ReadsFacts DEF Reading, Busy, ReadsAccounted
  <2>7. req'[h] # NoRequest /\ seen[h] \subseteq seen'[h]
    BY <2>1, <2>3, <2>4, NoRequestFacts DEF Busy, Observed
  <2>8. ReadsAccounted(h)'
    BY <1>0, <2>1, <2>3, <2>4, <2>7 DEF ReadsAccounted, Busy
  <2>9. RepliesAreComplete(h)'
    <3>1. req[h].kind = "health" => req[h].done = 6
      BY <1>0, <2>6, ReadsFacts DEF ReadsAccounted
    <3>2. req[h].kind = "state" /\ ~req[h].error => req[h].done = 13
      BY <2>6, ReadsFacts
    <3> QED  BY <2>2, <2>3, <2>4, <3>1, <3>2 DEF RepliesAreComplete
  <2>10. RequestInv'
    BY <1>0, <2>1, <2>3, <2>4, <2>8, <2>9, OneHandler
  <2>11. LockInv'
    <3>1. lock # h /\ (lock \in Handler => req'[lock] = req[lock])
      BY <1>0, <2>1 DEF LockInv
    <3> QED  BY <1>0, <2>1, <3>1, SameLock
  <2> QED  BY <1>1, <2>1, <2>10, <2>11 DEF IInv
<1>6. CASE Done(h)
  <2>1. /\ req[h].reply # "none" /\ UNCHANGED mainVars /\ lock' = lock
        /\ req' = [req EXCEPT ![h] = NoRequest] /\ req'[h] = NoRequest
    BY <1>0, <1>6 DEF Done
  <2>2. (ReadsAccounted(h) /\ RepliesAreComplete(h))'
    BY <2>1, NoRequestFacts DEF ReadsAccounted, RepliesAreComplete
  <2>3. RequestInv'
    BY <1>0, <1>1, <2>1, <2>2, NoRequestFacts, OneHandler
  <2>4. LockInv'
    <3>1. lock # h /\ (lock \in Handler => req'[lock] = req[lock])
      BY <1>0, <2>1 DEF LockInv, Reading, Busy
    <3> QED  BY <1>0, <2>1, <3>1, SameLock
  <2> QED  BY <1>1, <2>1, <2>3, <2>4 DEF IInv
<1> QED  BY <1>2, <1>3, <1>4, <1>5, <1>6 DEF Handle

(* The invariant is inductive.                                             *)
LEMMA NextInv == IInv /\ [Next]_vars => IInv'
<1> SUFFICES ASSUME IInv, [Next]_vars PROVE IInv'
  OBVIOUS
<1>1. CASE Main /\ Observed
  BY <1>1, MainKeeps
<1>2. CASE (Signal \/ Change) /\ Observed
  <2>1. req' = req /\ lock' = lock /\ setup' = setup
    BY <1>2 DEF Signal, Change, mainVars
  <2>2. MainInv'
    BY <1>2 DEF Signal, Change, mainVars, IInv, MainInv, Holding
  <2> QED  BY <1>2, <2>1, <2>2, SameRequests, SameLock DEF IInv
<1>3. ASSUME NEW h \in Handler, Handle(h), Observed PROVE IInv'
  BY <1>3, HandlerKeeps
<1>4. ASSUME NEW h \in Handler, NEW kind \in Asked[h], Accept(h, kind), Observed PROVE IInv'
  <2>1. kind \in Kind
    BY AskedAssumption
  <2> QED  BY <1>4, <2>1, AcceptKeeps
<1>5. CASE UNCHANGED vars
  <2>1. UNCHANGED <<mainVars, lock, req, seen>>
    BY <1>5 DEF vars
  <2>2. MainInv' /\ LockInv' /\ setup' = setup
    BY <2>1, SameMain, SameLock DEF IInv, mainVars
  <2>3. RequestInv'
    BY <2>1, <2>2 DEF IInv, RequestInv, ReadsAccounted, RepliesAreComplete
  <2> QED  BY <2>2, <2>3 DEF IInv
<1> QED  BY <1>1, <1>2, <1>3, <1>4, <1>5 DEF Next, Step

(* The invariant holds in every reachable state.                           *)
LEMMA Invariance == Spec => []IInv
BY InitInv, NextInv, PTL DEF Spec
-----------------------------------------------------------------------------
(* For any number of handlers, requests stay inside their reads and the    *)
(* store's lock is only ever with a handler that is about to read it.      *)
THEOREM ProcessesTyped == Spec => []TypeOK
<1>1. IInv => TypeOK
  <2> SUFFICES ASSUME IInv PROVE TypeOK
    OBVIOUS
  <2>1. \A h \in Handler :
          req[h].kind # "none" => /\ req[h].done \in 0..Len(Reads[req[h].kind])
                                  /\ req[h].bad \subseteq 1..req[h].done
    BY ReadsFacts DEF IInv, RequestInv, ReadsAccounted, Request
  <2>2. lock \in Handler => Reading(lock) /\ NextRead(lock).need = "memory"
    BY DEF IInv, LockInv
  <2> QED  BY <2>1, <2>2 DEF IInv, MainInv, Holding, TypeOK
<1> QED  BY <1>1, Invariance, PTL

(* A HEALTHY verdict rests on a terminal, a link and a database that were  *)
(* there during that very request, a page of figures on a terminal, and    *)
(* the rows of memory on it on a database, however many requests, failures *)
(* and shutdown steps are interleaved with it.                             *)
THEOREM RepliesAreCurrent == Spec => []AnswersAreCurrent
<1>1. IInv => AnswersAreCurrent
  <2> SUFFICES ASSUME IInv, NEW h \in Handler
               PROVE  /\ req[h].reply = "HEALTHY" => setup.llm /\ Part \subseteq seen[h]
                      /\ req[h].reply = "state" =>
                            /\ "terminal" \in seen[h]
                            /\ \A i \in 1..Len(Reads.state) :
                                 Reads.state[i].need = "memory" /\ i \notin req[h].bad
                                    => "memory" \in seen[h]
    BY DEF AnswersAreCurrent
  <2>1. ReadsAccounted(h) /\ RepliesAreComplete(h)
    BY DEF IInv, RequestInv
  <2>2. ASSUME req[h].reply = "HEALTHY" PROVE setup.llm /\ Part \subseteq seen[h]
    <3>1. /\ req[h].kind = "health" /\ setup.llm
          /\ \A i \in {1, 3, 6} : Reads["health"][i].need \in seen[h]
      BY <2>1, <2>2, ReadsFacts DEF ReadsAccounted, RepliesAreComplete
    <3>2. "link" \in seen[h] /\ "terminal" \in seen[h] /\ "memory" \in seen[h]
      BY <3>1, ReadsFacts
    <3> QED  BY <3>1, <3>2 DEF Part
  <2>3. ASSUME req[h].reply = "state" PROVE "terminal" \in seen[h]
    BY <2>1, <2>3 DEF ReadsAccounted, RepliesAreComplete
  <2>4. ASSUME req[h].reply = "state", NEW i \in 1..Len(Reads.state),
               Reads.state[i].need = "memory", i \notin req[h].bad
        PROVE  "memory" \in seen[h]
    <3>1. Reads["state"][i].dark # "lost"
      <4>1. i \in 1..13 /\ Reads["state"] =
                <<Core, Lenient, Lenient, Core, Lenient, Lenient, Lenient, LenientSection,
                  Section("terminal"), LenientSection, Section("memory"),
                  Section("memory"), Section("memory")>>
        BY <2>4, ReadsFacts DEF Reads
      <4>2. /\ Core.need = "terminal" /\ Lenient.need = "terminal"
            /\ LenientSection.need = "terminal" /\ Section("memory").dark = "failed"
            /\ Section("terminal").need = "terminal"
        BY DEF Core, Lenient, LenientSection, Section
      <4> QED  BY <2>4, <4>1, <4>2
    <3>2. req[h].kind = "state" /\ i \in 1..req[h].done
      BY <2>1, <2>4, ReadsFacts DEF RepliesAreComplete
    <3> QED  BY <2>1, <2>4, <3>1, <3>2 DEF ReadsAccounted
  <2> QED  BY <2>2, <2>3, <2>4
<1> QED  BY <1>1, Invariance, PTL

(* Both programs release what they hold in order, whichever step of the    *)
(* start or of the release fails; only a start that never opened its store *)
(* leaves the connection to the end of the process.                        *)
THEOREM ReleaseIsOrdered == Spec => []ShutdownInOrder
<1>1. IInv => ShutdownInOrder
  BY DEF IInv, MainInv, Holding, ShutdownInOrder
<1> QED  BY <1>1, Invariance, PTL
=============================================================================
