-------------------------- MODULE SupervisorProofs --------------------------
(***************************************************************************)
(* Proofs about Supervisor, for every configuration, every context and     *)
(* every interleaving of reviews with a clock that does not run backwards. *)
(***************************************************************************)
EXTENDS Supervisor, SequenceTheorems, TLAPS

(* Verdicts lie in the past, and the context under review was stamped      *)
(* after the last of them: one caller, one review at a time.               *)
TimeInv ==
    /\ \A i \in 1..Len(ledger) : ledger[i].at <= now
    /\ request.pending =>
          /\ request.c.serverTime <= now
          /\ \A i \in 1..Len(ledger) : ledger[i].at <= request.c.serverTime

IInv == TypeOK /\ TimeInv /\ DuplicatesApart /\ QuietBeforeApproval
-----------------------------------------------------------------------------
(* RiskConfig's validation makes the two windows numbers.                  *)
LEMMA WindowsAreNat == Config.duplicateWindow \in Nat /\ Config.cooldown \in Nat
BY ConfigAssumption DEF RiskConfig

(* The entries of the ledger are decision records with a time.             *)
LEMMA LedgerEntries ==
    ASSUME TypeOK
    PROVE  /\ Len(ledger) \in Nat
           /\ \A i \in 1..Len(ledger) : ledger[i] \in DecisionRecord /\ ledger[i].at \in Nat
<1>1. ledger \in Seq(DecisionRecord)
  BY DEF TypeOK
<1>2. Len(ledger) \in Nat
  BY <1>1, LenProperties
<1>3. \A i \in 1..Len(ledger) : ledger[i] \in DecisionRecord
  BY <1>1, ElementOfSeq
<1>4. \A e \in DecisionRecord : e.at \in Nat
  BY DEF DecisionRecord
<1>5. QED
  BY <1>2, <1>3, <1>4

(* A context stamped by the caller is a context.                           *)
LEMMA StampedContext ==
    ASSUME NEW c \in RiskContext, NEW t \in Nat
    PROVE  LET d == [c EXCEPT !.serverTime = t, !.recent = <<>>]
           IN d \in RiskContext /\ d.serverTime = t /\ d.recent = <<>>
<1>1. <<>> \in Seq(DecisionRecord)
  BY EmptySeq
<1>2. QED
  BY <1>1 DEF RiskContext

(* What review() sees of its own ledger is the whole ledger.               *)
LEMMA HistoryIsLedger ==
    ASSUME TypeOK, request.pending
    PROVE  /\ WithHistory(request.c, ledger).recent = ledger
           /\ WithHistory(request.c, ledger).serverTime = request.c.serverTime
           /\ WithHistory(request.c, ledger).positions = request.c.positions
<1>1. request.c.recent \o ledger = ledger
  BY ConcatEmptySeq DEF TypeOK
<1>2. QED
  BY <1>1 DEF TypeOK, WithHistory, RiskContext

(* A verdict without codes on a trade passed the duplicate and cooldown    *)
(* rules (as it did all others).                                           *)
LEMMA NoCodesNoViolation ==
    ASSUME NEW p, NEW c, NEW cfg, p.action # "HOLD", Codes(p, c, cfg) = {}
    PROVE  ~DuplicateTradeRule(p, c, cfg) /\ ~CooldownRule(p, c, cfg)
<1> DEFINE f == Failing(p, c, cfg)
<1>1. /\ "DUPLICATE_TRADE" \in DOMAIN f /\ f["DUPLICATE_TRADE"] = DuplicateTradeRule(p, c, cfg)
      /\ "COOLDOWN_ACTIVE" \in DOMAIN f /\ f["COOLDOWN_ACTIVE"] = CooldownRule(p, c, cfg)
  BY DEF Failing
<1>2. {code \in DOMAIN f : f[code]} = {}
  BY DEF Codes, Violations
<1> HIDE DEF f
<1>3. QED
  BY <1>1, <1>2

(* The same, spelled out on the ledger.                                    *)
LEMMA ApprovedIsSpaced ==
    ASSUME TypeOK, request.pending, request.p.action # "HOLD",
           Codes(request.p, WithHistory(request.c, ledger), Config) = {},
           NEW i \in 1..Len(ledger), ledger[i].symbol = request.p.symbol,
           ledger[i].at <= request.c.serverTime
    PROVE  /\ Config.cooldown > 0 => request.c.serverTime - ledger[i].at >= Config.cooldown
           /\ (Config.duplicateWindow > 0 /\ ledger[i].approved /\ ledger[i].action = request.p.action)
                 => request.c.serverTime - ledger[i].at > Config.duplicateWindow
<1> DEFINE c == WithHistory(request.c, ledger)
<1>1. ~DuplicateTradeRule(request.p, c, Config) /\ ~CooldownRule(request.p, c, Config)
  BY NoCodesNoViolation
<1>2. c.recent = ledger /\ c.serverTime = request.c.serverTime
  BY HistoryIsLedger
<1> HIDE DEF c
<1>3. request.c.serverTime \in Nat /\ ledger[i].at \in Nat
  BY LedgerEntries DEF TypeOK, RiskContext
<1>4. Config.cooldown > 0 => ~(request.c.serverTime - ledger[i].at < Config.cooldown)
  BY <1>1, <1>2 DEF CooldownRule
<1>5. (Config.duplicateWindow > 0 /\ ledger[i].approved /\ ledger[i].action = request.p.action)
          => ~(request.c.serverTime - ledger[i].at <= Config.duplicateWindow)
  BY <1>1, <1>2 DEF DuplicateTradeRule
<1>6. QED
  BY <1>3, <1>4, <1>5, WindowsAreNat

(* The initial state satisfies the inductive invariant.                    *)
LEMMA InitInv == Init => IInv
BY DEF Init, IInv, TypeOK, TimeInv, DuplicatesApart, QuietBeforeApproval, NoRequest

(* Every step keeps it.                                                    *)
LEMMA NextInv == IInv /\ [Next]_vars => IInv'
<1> SUFFICES ASSUME IInv, [Next]_vars PROVE IInv'
  OBVIOUS
<1>0. /\ TypeOK /\ now \in Nat /\ Len(ledger) \in Nat
      /\ \A i \in 1..Len(ledger) : ledger[i] \in DecisionRecord /\ ledger[i].at \in Nat
  BY LedgerEntries DEF IInv, TypeOK
<1>1. CASE Tick
  <2>1. now' = now + 1 /\ UNCHANGED <<ledger, request>>
    BY <1>1 DEF Tick
  <2>2. TypeOK'
    BY <1>0, <2>1 DEF TypeOK
  <2>3. TimeInv'
    BY <1>0, <2>1 DEF IInv, TimeInv, TypeOK, RiskContext
  <2>4. DuplicatesApart' /\ QuietBeforeApproval'
    BY <2>1 DEF IInv, DuplicatesApart, QuietBeforeApproval
  <2>5. QED
    BY <2>2, <2>3, <2>4 DEF IInv
<1>2. ASSUME NEW s \in Symbol, NEW a \in TradeAction, NEW p \in Proposals, NEW c \in Contexts,
             Submit(s, a, p, c)
      PROVE  IInv'
  <2>1. /\ UNCHANGED <<now, ledger>>
        /\ request' = [pending |-> TRUE, p |-> [p EXCEPT !.symbol = s, !.action = a],
                       c |-> [c EXCEPT !.serverTime = now, !.recent = <<>>]]
    BY <1>2 DEF Submit
  <2>2. [p EXCEPT !.symbol = s, !.action = a] \in TradeProposal
    BY ConfigAssumption DEF TradeProposal
  <2>3. /\ [c EXCEPT !.serverTime = now, !.recent = <<>>] \in RiskContext
        /\ [c EXCEPT !.serverTime = now, !.recent = <<>>].recent = <<>>
        /\ [c EXCEPT !.serverTime = now, !.recent = <<>>].serverTime = now
    <3>1. c \in RiskContext
      BY ConfigAssumption
    <3>2. QED
      BY <1>0, <3>1, StampedContext
  <2>4. TypeOK'
    BY <1>0, <2>1, <2>2, <2>3 DEF TypeOK
  <2>5. TimeInv'
    <3>1. request'.c.serverTime = now
      BY <2>1, <2>3
    <3>2. \A i \in 1..Len(ledger) : ledger[i].at <= now
      BY DEF IInv, TimeInv
    <3>3. QED
      BY <1>0, <2>1, <3>1, <3>2 DEF TimeInv
  <2>6. DuplicatesApart' /\ QuietBeforeApproval'
    BY <2>1 DEF IInv, DuplicatesApart, QuietBeforeApproval
  <2>7. QED
    BY <2>4, <2>5, <2>6 DEF IInv
<1>3. CASE Review
  <2> DEFINE ok == Codes(request.p, WithHistory(request.c, ledger), Config) = {}
             e == [symbol |-> request.p.symbol, action |-> request.p.action,
                   approved |-> ok, at |-> now]
  <2>1. /\ request.pending /\ request' = NoRequest /\ now' = now
        /\ ledger' = IF request.p.action = "HOLD" THEN ledger ELSE Append(ledger, e)
    BY <1>3 DEF Review, Recorded
  <2>2. request'.pending = FALSE
    BY <2>1 DEF NoRequest
  <2>3. CASE request.p.action = "HOLD"
    <3>1. ledger' = ledger
      BY <2>1, <2>3
    <3>2. TypeOK' /\ TimeInv'
      BY <1>0, <2>1, <2>2, <3>1 DEF IInv, TypeOK, TimeInv
    <3>3. DuplicatesApart' /\ QuietBeforeApproval'
      BY <3>1 DEF IInv, DuplicatesApart, QuietBeforeApproval
    <3>4. QED
      BY <3>2, <3>3 DEF IInv
  <2>4. CASE request.p.action # "HOLD"
    <3>1. e \in DecisionRecord
      BY <1>0, <2>1, <2>4 DEF TypeOK, TradeProposal, TradeAction, DecisionRecord
    <3>2. /\ ledger' \in Seq(DecisionRecord) /\ Len(ledger') = Len(ledger) + 1
          /\ \A i \in 1..Len(ledger) : ledger'[i] = ledger[i]
          /\ ledger'[Len(ledger) + 1] = e
      BY <1>0, <2>1, <2>4, <3>1, AppendProperties DEF TypeOK
    <3>3. e.at = now /\ e.symbol = request.p.symbol /\ e.action = request.p.action /\ e.approved = ok
      OBVIOUS
    <3> HIDE DEF e
    <3>4. request.c.serverTime \in Nat /\ request.c.serverTime <= now
      BY <1>0, <2>1 DEF IInv, TypeOK, TimeInv, RiskContext
    <3>5. ASSUME NEW i \in 1..Len(ledger), ok, ledger[i].symbol = e.symbol
          PROVE  /\ now - ledger[i].at >= Config.cooldown
                 /\ (Config.duplicateWindow > 0 /\ ledger[i].approved /\ ledger[i].action = e.action)
                       => now - ledger[i].at > Config.duplicateWindow
      <4>1. ledger[i].at <= request.c.serverTime /\ ledger[i].at \in Nat
        BY <1>0, <2>1 DEF IInv, TimeInv
      <4>2. /\ Config.cooldown > 0 => request.c.serverTime - ledger[i].at >= Config.cooldown
            /\ (Config.duplicateWindow > 0 /\ ledger[i].approved /\ ledger[i].action = request.p.action)
                  => request.c.serverTime - ledger[i].at > Config.duplicateWindow
        BY <1>0, <2>1, <2>4, <3>3, <3>5, <4>1, ApprovedIsSpaced
      <4>3. QED
        BY <1>0, <3>3, <3>4, <4>1, <4>2, WindowsAreNat
    <3>6. TypeOK'
      BY <1>0, <2>1, <2>2, <3>2 DEF TypeOK
    <3>7. TimeInv'
      BY <1>0, <2>1, <2>2, <3>2, <3>3 DEF IInv, TimeInv
    <3>8. DuplicatesApart'
      <4>1. ASSUME NEW i \in 1..Len(ledger'), NEW j \in 1..Len(ledger')
            PROVE  (/\ i < j /\ ledger'[i].approved /\ ledger'[j].approved
                    /\ ledger'[i].symbol = ledger'[j].symbol
                    /\ ledger'[i].action = ledger'[j].action
                    /\ Config.duplicateWindow > 0)
                   => ledger'[j].at - ledger'[i].at > Config.duplicateWindow
        <5>1. CASE j \in 1..Len(ledger)
          BY <1>0, <3>2, <5>1 DEF IInv, DuplicatesApart
        <5>2. CASE j = Len(ledger) + 1 /\ i \in 1..Len(ledger)
          BY <3>2, <3>3, <3>5, <5>2
        <5>3. QED
          BY <1>0, <3>2, <5>1, <5>2
      <4>2. QED
        BY <4>1 DEF DuplicatesApart
    <3>9. QuietBeforeApproval'
      <4>1. ASSUME NEW i \in 1..Len(ledger'), NEW j \in 1..Len(ledger')
            PROVE  (i < j /\ ledger'[j].approved /\ ledger'[i].symbol = ledger'[j].symbol)
                   => ledger'[j].at - ledger'[i].at >= Config.cooldown
        <5>1. CASE j \in 1..Len(ledger)
          BY <1>0, <3>2, <5>1 DEF IInv, QuietBeforeApproval
        <5>2. CASE j = Len(ledger) + 1 /\ i \in 1..Len(ledger)
          BY <3>2, <3>3, <3>5, <5>2
        <5>3. QED
          BY <1>0, <3>2, <5>1, <5>2
      <4>2. QED
        BY <4>1 DEF QuietBeforeApproval
    <3>10. QED
      BY <3>6, <3>7, <3>8, <3>9 DEF IInv
  <2>5. QED
    BY <2>3, <2>4
<1>4. CASE UNCHANGED vars
  BY <1>4 DEF vars, IInv, TypeOK, TimeInv, DuplicatesApart, QuietBeforeApproval
<1>5. QED
  BY <1>1, <1>2, <1>3, <1>4 DEF Next

(* The inductive invariant holds of every behaviour.                       *)
LEMMA Invariance == Spec => []IInv
BY InitInv, NextInv, PTL DEF Spec

(* The types of ledger, request and clock, for any contexts and proposals. *)
THEOREM SupervisorTyped == Spec => []TypeOK
<1>1. IInv => TypeOK
  BY DEF IInv
<1> QED  BY <1>1, Invariance, PTL

(* Two approvals of the same action on the same symbol are further apart   *)
(* than the duplicate window, although review() reads the clock twice.     *)
THEOREM VerdictsAreSpaced == Spec => []DuplicatesApart
<1>1. IInv => DuplicatesApart
  BY DEF IInv
<1> QED  BY <1>1, Invariance, PTL

(* Every earlier verdict on the symbol of an approval is at least the      *)
(* cooldown old.                                                           *)
THEOREM ApprovalsComeAfterQuiet == Spec => []QuietBeforeApproval
<1>1. IInv => QuietBeforeApproval
  BY DEF IInv
<1> QED  BY <1>1, Invariance, PTL
=============================================================================
