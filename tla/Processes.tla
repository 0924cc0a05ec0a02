------------------------------ MODULE Processes ------------------------------
(***************************************************************************)
(* The two programs from start to exit: scripts/run_agent.py, whose work   *)
(* is TradingAgent.run (module Agent), and scripts/serve_dashboard.py,     *)
(* whose work is a threading HTTP server.  The main thread connects, opens *)
(* the memory store, wires, works until a signal and releases everything   *)
(* in order.  The dashboard's handler threads (dashboard/app.py) read the  *)
(* terminal and the store through DashboardStateProvider.build and         *)
(* HealthService.check one call at a time; they are daemons, so nothing    *)
(* waits for them, but a read of the store holds the store's lock.         *)
(***************************************************************************)
EXTENDS Integers, Sequences, FiniteSets

CONSTANTS
    Handler,        \* handler threads, as many as requests in flight
    NoHandler,      \* the store's lock is free
    Setups,         \* bound: the programs and deployments considered
    Asked,          \* bound: the kinds of requests that each handler gets
    MaxChanges      \* bound: changes of the terminal, its link or the disk

Setup == [program : {"run_agent", "serve_dashboard"}, llm : BOOLEAN]

ASSUME ProcessesAssumption ==
    NoHandler \notin Handler /\ MaxChanges \in Nat /\ Setups \subseteq Setup

VARIABLES
    setup,          \* the program, and whether llm_provider is not "none"
    pc, code,       \* the main thread and its exit code
    stop,           \* set by the signal handler
    connected,      \* the connection is open in the terminal package
    storeOpen, lock,    \* the store's SQLite connection and its lock
    opened,         \* history: the store has been opened
    listening,      \* the server accepts requests
    req,            \* the request each handler serves
    up,             \* environment: what answers when it is asked
    changes,        \* bound: changes of up so far
    seen            \* history: what could answer at some time of a request

mainVars == <<setup, pc, code, stop, connected, storeOpen, opened, listening>>
vars == <<mainVars, lock, req, up, changes, seen>>

(* What a read depends on: the terminal package answering, the terminal's  *)
(* link to the trade server, the database.                                 *)
Part == {"terminal", "link", "memory"}
Alive ==
    {c \in Part : /\ c \in up
                  /\ IF c = "memory" THEN storeOpen ELSE connected /\ "terminal" \in up}

(* A call of a request: what it needs, and what becomes of the request     *)
(* when the adapter is not connected (off) and when the call answers None  *)
(* (dark): it ends with an error state, the section or probe failed, or    *)
(* the call is lost, which leaves a quote or the account of the mt5 probe  *)
(* out and makes an empty list of positions, orders and deals (map_many).  *)
Core == [need |-> "terminal", off |-> "error", dark |-> "error"]
Lenient == [need |-> "terminal", off |-> "error", dark |-> "lost"]
Section(c) == [need |-> c, off |-> "failed", dark |-> "failed"]
LenientSection == [need |-> "terminal", off |-> "failed", dark |-> "lost"]

(* The calls in order.  build(): candles, tick and symbol of the snapshot, *)
(* account, positions, orders and deals of the account state; then the day *)
(* P&L, the symbol again, the day P&L again and three memory lists.        *)
(* check(): terminal and account of the mt5 probe, candles, tick and       *)
(* symbol of the market probe, the count of the memory probe; llm and      *)
(* executor read nothing.  The page, /health, a bad timeframe and every    *)
(* other path and verb are answered at once.                               *)
Reads ==
    [state  |-> <<Core, Lenient, Lenient, Core, Lenient, Lenient, Lenient,
                  LenientSection, Section("terminal"), LenientSection,
                  Section("memory"), Section("memory"), Section("memory")>>,
     health |-> <<Section("link"), LenientSection,
                  Section("terminal"), LenientSection, LenientSection, Section("memory")>>,
     fixed  |-> <<>>]

(* The last call of the section or probe that call i is part of.           *)
SectionEnd(kind, i) ==
    CASE kind = "health" /\ i \in 1..2 -> 2
      [] kind = "health" /\ i \in 3..5 -> 5
      [] OTHER -> i
Kind == DOMAIN Reads

ASSUME AskedAssumption == Asked \in [Handler -> SUBSET Kind]

(* A request: calls done or skipped so far, which of them failed, error    *)
(* state, reply.  A lost call leaves no trace.                             *)
NoRequest == [kind |-> "none", done |-> 0, bad |-> {}, error |-> FALSE, reply |-> "none"]
Busy(h) == req[h].kind # "none" /\ req[h].reply = "none"
NextRead(h) == Reads[req[h].kind][req[h].done + 1]
Reading(h) == Busy(h) /\ ~req[h].error /\ req[h].done < Len(Reads[req[h].kind])

Init ==
    /\ setup \in Setups
    /\ pc = "start" /\ code = "none" /\ stop = FALSE
    /\ connected = FALSE /\ storeOpen = FALSE /\ opened = FALSE /\ listening = FALSE
    /\ lock = NoHandler /\ req = [h \in Handler |-> NoRequest]
    /\ up \in SUBSET Part /\ changes = 0
    /\ seen = [h \in Handler |-> {}]
-----------------------------------------------------------------------------
Exit(c) == pc' = "exited" /\ code' = c /\ req' = [h \in Handler |-> NoRequest] /\ lock' = NoHandler

(* Arguments and settings: an unsupported timeframe ends run_agent with 2, *)
(* invalid settings or a login that is no number raise.                    *)
Start ==
    /\ pc = "start"
    /\ \/ pc' = "connect" /\ UNCHANGED <<code, req, lock>>
       \/ Exit("raised")
       \/ setup.program = "run_agent" /\ Exit("2")
    /\ UNCHANGED <<setup, stop, connected, storeOpen, opened, listening, up, changes>>

(* ensure_connected: on failure main() returns 1, and a session whose      *)
(* health check failed stays open.                                         *)
Connect ==
    /\ pc = "connect"
    /\ \/ {"terminal", "link"} \subseteq up /\ connected' = TRUE /\ pc' = "store" /\ UNCHANGED <<code, req, lock>>
       \/ connected' \in BOOLEAN /\ Exit("1")
    /\ UNCHANGED <<setup, stop, storeOpen, opened, listening, up, changes>>

(* The store's constructor is outside the try block.                       *)
OpenStore ==
    /\ pc = "store"
    /\ \/ /\ "memory" \in up /\ storeOpen' = TRUE /\ opened' = TRUE /\ pc' = "wire"
          /\ UNCHANGED <<code, req, lock>>
       \/ Exit("raised") /\ UNCHANGED <<storeOpen, opened>>
    /\ UNCHANGED <<setup, stop, connected, listening, up, changes>>

(* app.start() binds the socket and accepts in a thread of its own.        *)
Bind == listening' = (setup.program = "serve_dashboard")

(* Mutant: a failed start-up returns without the clean-up.                 *)
MutWire ==
    /\ pc = "wire"
    /\ \/ /\ pc' = "work" /\ Bind
          /\ UNCHANGED <<code, req, lock>>
       \/ Exit("1") /\ (UNCHANGED listening \/ Bind)
    /\ UNCHANGED <<setup, stop, connected, storeOpen, opened, up, changes>>

(* Services, risk config, and for the dashboard the bound socket: any of   *)
(* it may raise, before the server listens or after, which leads to the    *)
(* finally block with exit code 1.                                         *)
Wire ==
    /\ pc = "wire"
    /\ \/ /\ pc' = "work" /\ Bind
          /\ UNCHANGED code
       \/ pc' = "close_store" /\ code' = "1" /\ UNCHANGED listening
       \/ setup.program = "serve_dashboard" /\ pc' = "stop_server" /\ code' = "1" /\ Bind
    /\ UNCHANGED <<setup, stop, connected, storeOpen, opened, lock, req, up, changes>>

(* SIGINT or SIGTERM once the handler is installed.                        *)
Signal ==
    /\ pc = "work" /\ ~stop
    /\ stop' = TRUE
    /\ UNCHANGED <<setup, pc, code, connected, storeOpen, opened, listening, lock, req, up, changes>>

(* run() returns, stopped or by itself, and the cycles decide the code;    *)
(* the dashboard's loop ends on the flag only.                             *)
Work ==
    /\ pc = "work"
    /\ \/ setup.program = "run_agent" /\ pc' = "close_store" /\ code' \in {"0", "1"}
       \/ setup.program = "serve_dashboard" /\ stop /\ pc' = "stop_server" /\ code' = "0"
    /\ UNCHANGED <<setup, stop, connected, storeOpen, opened, listening, lock, req, up, changes>>

(* Mutant: server_close() joins the handler threads.                       *)
MutStopServer ==
    /\ pc = "stop_server"
    /\ \A h \in Handler : ~Busy(h)
    /\ listening' = FALSE /\ pc' = "close_store"
    /\ UNCHANGED <<setup, code, stop, connected, storeOpen, opened, lock, req, up, changes>>

(* app.stop(): shutdown() and server_close() end the accepting thread and  *)
(* leave the daemon handlers running.                                      *)
StopServer ==
    /\ pc = "stop_server"
    /\ listening' = FALSE /\ pc' = "close_store"
    /\ UNCHANGED <<setup, code, stop, connected, storeOpen, opened, lock, req, up, changes>>

(* store.close() waits for the lock.                                       *)
CloseStore ==
    /\ pc = "close_store" /\ lock = NoHandler
    /\ storeOpen' = FALSE /\ pc' = "disconnect"
    /\ UNCHANGED <<setup, code, stop, connected, opened, listening, lock, req, up, changes>>

(* disconnect() resets the flag even if shutdown() raises.                 *)
Disconnect ==
    /\ pc = "disconnect"
    /\ connected' = FALSE /\ pc' = "leave"
    /\ code' \in {code, "raised"}
    /\ UNCHANGED <<setup, stop, storeOpen, opened, listening, lock, req, up, changes>>

(* The process is gone, and its daemon threads with it.                    *)
Leave ==
    /\ pc = "leave" /\ Exit(code)
    /\ UNCHANGED <<setup, stop, connected, storeOpen, opened, listening, up, changes>>
-----------------------------------------------------------------------------
Accept(h, kind) ==
    /\ listening /\ req[h] = NoRequest
    /\ req' = [req EXCEPT ![h].kind = kind]
    /\ UNCHANGED <<mainVars, lock, up, changes>>

(* The call as things stand when it returns.                               *)
Outcome(h) ==
    LET call == NextRead(h)
    IN IF call.need \in Alive THEN "answered"
       ELSE IF connected \/ call.need = "memory" THEN call.dark ELSE call.off

(* A call that raises ends its section or probe.                           *)
DoneAfter(h, outcome) ==
    IF outcome = "failed" THEN SectionEnd(req[h].kind, req[h].done + 1) ELSE req[h].done + 1

(* Mutant: a probe or section that raises is passed over.                  *)
MutBadAfter(h, outcome) == req[h].bad

BadAfter(h, outcome) ==
    IF outcome \in {"failed", "error"}
    THEN req[h].bad \union (req[h].done + 1)..DoneAfter(h, outcome)
    ELSE req[h].bad

Finished(h, outcome) ==
    req' = [req EXCEPT ![h].done = DoneAfter(h, outcome), ![h].bad = BadAfter(h, outcome),
                       ![h].error = (outcome = "error")]

(* One call into the terminal package.                                     *)
ReadTerminal(h) ==
    /\ Reading(h) /\ NextRead(h).need # "memory"
    /\ Finished(h, Outcome(h))
    /\ UNCHANGED <<mainVars, lock, up, changes>>

(* count() and recent() under the store's lock.                            *)
TakeLock(h) ==
    /\ Reading(h) /\ NextRead(h).need = "memory" /\ lock = NoHandler
    /\ lock' = h
    /\ UNCHANGED <<mainVars, req, up, changes>>

(* Mutant: a query that raises leaves the lock taken.                      *)
MutReadMemory(h) ==
    /\ lock = h /\ Reading(h)
    /\ Finished(h, Outcome(h))
    /\ lock' = IF "memory" \in Alive THEN NoHandler ELSE h
    /\ UNCHANGED <<mainVars, up, changes>>

ReadMemory(h) ==
    /\ lock = h
    /\ Finished(h, Outcome(h))
    /\ lock' = NoHandler
    /\ UNCHANGED <<mainVars, up, changes>>

(* overall(): the worst component wins; without a provider at best         *)
(* DEGRADED.                                                               *)
Overall(bad) ==
    IF bad # {} THEN "UNHEALTHY" ELSE IF setup.llm THEN "HEALTHY" ELSE "DEGRADED"

Answer(h) ==
    /\ Busy(h) /\ ~Reading(h)
    /\ req' = [req EXCEPT ![h].reply =
                  CASE req[h].kind = "health" -> Overall(req[h].bad)
                    [] req[h].kind = "state" -> IF req[h].error THEN "error" ELSE "state"
                    [] OTHER -> "fixed"]
    /\ UNCHANGED <<mainVars, lock, up, changes>>

(* The reply is written and the thread ends.                               *)
Done(h) ==
    /\ req[h].reply # "none"
    /\ req' = [req EXCEPT ![h] = NoRequest]
    /\ UNCHANGED <<mainVars, lock, up, changes>>

(* The terminal starts or exits, its link or the disk comes and goes.      *)
Change ==
    /\ changes < MaxChanges /\ pc # "exited"
    /\ \E c \in Part : up' = (up \ {c}) \union ({c} \ up)
    /\ changes' = changes + 1
    /\ UNCHANGED <<mainVars, lock, req>>
-----------------------------------------------------------------------------
Main == Start \/ Connect \/ OpenStore \/ Wire \/ Work \/ StopServer \/ CloseStore
        \/ Disconnect \/ Leave
Handle(h) == ReadTerminal(h) \/ TakeLock(h) \/ ReadMemory(h) \/ Answer(h) \/ Done(h)

Step ==
    \/ Main \/ Signal \/ Change
    \/ \E h \in Handler : Handle(h) \/ \E kind \in Asked[h] : Accept(h, kind)

(* What is alive now or at the end of the step counts for every request in *)
(* progress.                                                               *)
Observed ==
    seen' = [h \in Handler |->
                IF req'[h] = NoRequest THEN {}
                ELSE seen[h] \union Alive \union Alive']

Next == Step /\ Observed

Spec == Init /\ [][Next]_vars

(* The main thread runs, and SQLite reads end.  Nothing is assumed of      *)
(* calls into the terminal package or of clients, which may hang.          *)
FairSpec ==
    /\ Spec
    /\ WF_vars(Main /\ Observed)
    /\ \A h \in Handler : WF_vars(ReadMemory(h) /\ Observed)
-----------------------------------------------------------------------------
(* Requests stay inside their reads, and the lock is with a reader of the  *)
(* store.                                                                  *)
TypeOK ==
    /\ pc \in {"start", "connect", "store", "wire", "work", "stop_server", "close_store",
               "disconnect", "leave", "exited"}
    /\ code \in {"none", "0", "1", "2", "raised"} /\ (code = "none" => pc # "exited")
    /\ lock \in Handler => Reading(lock) /\ NextRead(lock).need = "memory"
    /\ \A h \in Handler :
          req[h].kind # "none" => /\ req[h].done \in 0..Len(Reads[req[h].kind])
                                  /\ req[h].bad \subseteq 1..req[h].done

(* "A healthy process is not a healthy system": a HEALTHY verdict means    *)
(* that terminal, link and database were all there during this very        *)
(* request and an LLM provider is named.  A page of figures is given only  *)
(* if the terminal was there during the request, and rows of memory are    *)
(* on it only if the database was; failures, shutdown and other requests   *)
(* included.  Nothing is said of the lists of lost calls, which are on the *)
(* page as if they were empty: the day P&L is one sum of such a list.      *)
AnswersAreCurrent ==
    \A h \in Handler :
        /\ req[h].reply = "HEALTHY" => setup.llm /\ Part \subseteq seen[h]
        /\ req[h].reply = "state" =>
              /\ "terminal" \in seen[h]
              /\ \A i \in 1..Len(Reads.state) :
                    Reads.state[i].need = "memory" /\ i \notin req[h].bad => "memory" \in seen[h]

(* Shutdown is ordered: a server that accepts has its store, an open store *)
(* its terminal connection, and at the exit the store is closed and the    *)
(* connection left.  Only a start that fails before the store is open, at  *)
(* the health check of the connection or in the store's constructor, exits *)
(* with the connection open, and says so in its exit code.                 *)
ShutdownInOrder ==
    /\ listening => storeOpen
    /\ storeOpen => connected
    /\ pc = "exited" => ~storeOpen /\ (connected => ~opened /\ code \in {"1", "raised"})

(* A signal ends the process, even while handlers hang in the terminal.    *)
StopExits == stop ~> (pc = "exited")

(* Every handler thread runs on, and one that waits for the lock gets it  *)
(* in the end: a lock is held for one query, and the page polls every      *)
(* dashboard_refresh_s seconds, so it is free most of the time.            *)
HandlersRun ==
    \A h \in Handler : WF_vars(Handle(h) /\ Observed) /\ SF_vars(TakeLock(h) /\ Observed)

(* If the handler threads run, every accepted request is answered or the   *)
(* process exits, whatever fails during it: no failed read keeps the lock  *)
(* or the thread.                                                          *)
RequestsAnswered ==
    HandlersRun => \A h \in Handler : Busy(h) ~> (~Busy(h) \/ pc = "exited")
=============================================================================
