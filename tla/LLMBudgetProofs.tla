-------------------------- MODULE LLMBudgetProofs --------------------------
(***************************************************************************)
(* Safety of LLMBudget for any number of calls, months and amounts.        *)
(*                                                                         *)
(* The argument follows one call.  Phase ties what the call has done to    *)
(* the step it is in: before the insertion there is no hold, before the    *)
(* dispatch nothing was sent, before the settlement there is no usage.     *)
(* With it, every transaction of the call finds the hold either as the     *)
(* call left it or reconciled, which is what the ledger properties need.   *)
(*                                                                         *)
(* The budget itself is about sums.  The account row is a lock: a call     *)
(* holds it from its reading to its insertion (Inside), every other step   *)
(* meanwhile leaves the balance alone or is a call that does not hold it   *)
(* (MoneyMoves), so room that was found is still there (Room).  What one   *)
(* more hold adds to the balance follows from Total, a sum over a finite   *)
(* set of calls that does not depend on the order it is taken in.          *)
(***************************************************************************)
EXTENDS LLMBudget, TLAPS, FiniteSetTheorems, WellFoundedInduction

Early == {"new", "unpriced", "lock", "read", "insert"}

\* What is true of a call because of the step it is in.
Phase(c) ==
    /\ calls[c].step \in Early => holds[c].state = "absent"
    /\ calls[c].step \in Early \cup {"start", "release", "dispatch"} => c \notin sent
    /\ calls[c].step \in Early \cup {"start", "release", "dispatch", "waiting", "settle",
                                     "record"} => usage[c] = NoUsage
    /\ calls[c].step \in {"lock", "read", "insert", "start", "release", "settle",
                          "uncertain"} => HasHold(c)
    /\ calls[c].step = "record" => ~HasHold(c)
    /\ ~HasHold(c) => holds[c].state = "absent"

\* Money returned without an audit event was returned before the dispatch.
Released(c) ==
    holds[c].state = "released" =>
        c \in audited \/ (c \notin sent /\ calls[c].step = "failed")

Counted(c) ==
    holds[c].state # "absent" =>
        /\ usage[c] # NoUsage <=> holds[c].state = "settled" /\ holds[c].billed
        /\ usage[c] # NoUsage =>
              usage[c] = [cost |-> holds[c].actual, month |-> holds[c].month]

Accounted(c) ==
    calls[c].step = "returned" =>
        /\ usage[c] # NoUsage /\ usage[c].cost = calls[c].charge
        /\ HasHold(c) => holds[c].state = "settled" /\ holds[c].billed

Local(c) == Phase(c) /\ Released(c) /\ Counted(c) /\ Accounted(c)

Inv == TypeOK /\ \A c \in Calls : Local(c)

-----------------------------------------------------------------------------
(* Types.                                                                  *)

\* Moving a call to another step gives a call.
LEMMA CallType ==
    ASSUME calls \in [Calls -> Call], NEW c \in Calls, NEW step \in Steps, Goto(c, step)
    PROVE  calls' \in [Calls -> Call]
  BY DEF Call, Goto

\* A call's own records are typed, field by field.
LEMMA HoldOf ==
    ASSUME TypeOK, NEW c \in Calls
    PROVE  /\ holds[c] \in Hold
           /\ holds[c].month \in Months
           /\ calls[c].estimate \in Nat \cup {NoPrice}
           /\ calls[c].charge \in Nat
           /\ calls[c].at \in Months
<1>1. holds[c] \in Hold /\ calls[c] \in Call
  BY DEF TypeOK
<1>2. holds[c].month \in Months
  BY <1>1 DEF Hold
<1>3. /\ calls[c].estimate \in Estimates \cup {NoPrice}
      /\ calls[c].charge \in Nat
      /\ calls[c].at \in Months
  BY <1>1 DEF Call
<1>4. Estimates \subseteq Nat
  BY AmountAssumption
<1>5. calls[c].estimate \in Nat \cup {NoPrice}
  BY <1>3, <1>4
<1> QED
  BY <1>1, <1>2, <1>3, <1>5

\* Every step keeps every variable in its type.
LEMMA TypeStep == Inv /\ [Next]_vars => TypeOK'
<1> SUFFICES ASSUME Inv, [Next]_vars PROVE TypeOK'
  OBVIOUS
<1> USE DEF KeepHolds, KeepLedger, KeepWorld
<1>t. TypeOK
  BY DEF Inv
<1>i. holds \in [Calls -> Hold] /\ aged \subseteq Calls
  BY <1>t DEF TypeOK
<1>h. ASSUME NEW c \in Calls, NEW s \in HoldStates, SetHold(c, s)
      PROVE  holds' \in [Calls -> Hold] /\ aged' \subseteq Calls
  <2>1. [holds EXCEPT ![c].state = s] \in [Calls -> Hold]
    BY <1>i DEF Hold
  <2> QED
    BY <1>h, <1>i, <2>1 DEF SetHold
<1>k. ASSUME NEW c \in Calls, NEW s \in HoldStates, NEW n \in Nat, NEW b \in BOOLEAN,
             CloseHold(c, s, n, b)
      PROVE  holds' \in [Calls -> Hold] /\ aged' \subseteq Calls
  <2>1. [holds EXCEPT ![c].state = s, ![c].actual = n, ![c].billed = b] \in [Calls -> Hold]
    BY <1>i DEF Hold
  <2> QED
    BY <1>k, <1>i, <2>1 DEF CloseHold
<1>g. \A c \in Calls, s \in Steps : Goto(c, s) => calls' \in [Calls -> Call]
  BY <1>t, CallType DEF TypeOK
<1>a. ASSUME NEW c \in Calls, HasHold(c), Admit(c)
      PROVE  holds' \in [Calls -> Hold] /\ aged' \subseteq Calls
  <2>1. calls[c].estimate \in Nat /\ calls[c].at \in Months /\ "reserved" \in HoldStates
    BY <1>a, <1>t, HoldOf DEF HasHold, HoldStates
  <2>2. \A n \in Nat, m \in Months, s \in HoldStates :
           [holds EXCEPT ![c].state = s, ![c].amount = n, ![c].month = m] \in [Calls -> Hold]
    BY <1>i DEF Hold
  <2> QED
    BY <1>a, <1>i, <2>1, <2>2 DEF Admit
<1>s. ASSUME NEW c \in Calls, SettleHold(c)
      PROVE  /\ holds' \in [Calls -> Hold] /\ aged' \subseteq Calls
             /\ usage' \in [Calls -> [cost : Nat, month : Months] \cup {NoUsage}]
  <2>1. calls[c].charge \in Nat /\ holds[c].month \in Months /\ "settled" \in HoldStates
    BY <1>t, HoldOf DEF HoldStates
  <2>2. holds' \in [Calls -> Hold] /\ aged' \subseteq Calls
    BY <1>s, <1>k, <2>1 DEF SettleHold
  <2> QED
    BY <1>s, <1>t, <2>1, <2>2 DEF SettleHold, UsageMonth, TypeOK
<1>1. ASSUME NEW c \in Calls, CallStep(c) PROVE TypeOK'
  <2> USE <1>t DEF TypeOK
  <2>1. CASE Price(c)
    <3>1. \A e \in Estimates \cup {NoPrice}, s \in Steps :
             [calls EXCEPT ![c].at = month, ![c].estimate = e, ![c].step = s] \in [Calls -> Call]
      BY DEF Call
    <3>2. "unpriced" \in Steps /\ "lock" \in Steps
      BY DEF Steps
    <3>3. PICK e \in Estimates \cup {NoPrice} :
             calls' = [calls EXCEPT ![c].at = month, ![c].estimate = e,
                                    ![c].step = IF e = NoPrice THEN "unpriced" ELSE "lock"]
      BY <2>1 DEF Price
    <3>4. calls' \in [Calls -> Call]
      BY <3>1, <3>2, <3>3
    <3> QED
      BY <2>1, <3>4 DEF Price
  <2>2. CASE CheckUnpriced(c)
    BY <2>2, <1>g DEF CheckUnpriced, Steps
  <2>3. CASE LockAccount(c)
    BY <2>3, <1>g DEF LockAccount, Steps
  <2>4. CASE ReadBalance(c)
    <3>1. Fits(calls[c].at, calls[c].estimate) \in BOOLEAN
      BY DEF Fits
    <3>2. \A b \in BOOLEAN, s \in Steps :
             [calls EXCEPT ![c].step = s, ![c].room = b] \in [Calls -> Call]
      BY DEF Call
    <3>3. "insert" \in Steps
      BY DEF Steps
    <3>4. calls' \in [Calls -> Call]
      BY <2>4, <3>1, <3>2, <3>3 DEF ReadBalance
    <3> QED
      BY <2>4, <3>4 DEF ReadBalance
  <2>5. CASE InsertHold(c)
    <3>1. HasHold(c)
      BY <2>5 DEF Inv, Local, Phase, InsertHold, At
    <3>2. calls' \in [Calls -> Call]
      BY <2>5, <1>g DEF InsertHold, Steps
    <3>3. holds' \in [Calls -> Hold] /\ aged' \subseteq Calls
      BY <2>5, <3>1, <1>a DEF InsertHold
    <3> QED
      BY <2>5, <3>2, <3>3 DEF InsertHold
  <2>6. CASE Start(c)
    <3>1. calls' \in [Calls -> Call]
      BY <2>6, <1>g DEF Start, Steps
    <3>2. holds' \in [Calls -> Hold] /\ aged' \subseteq Calls
      BY <2>6, <1>h DEF Start, HoldStates
    <3> QED
      BY <2>6, <3>1, <3>2 DEF Start
  <2>7. CASE Dispatch(c)
    BY <2>7, <1>g DEF Dispatch, Steps
  <2>8. CASE Respond(c)
    <3>1. \A n \in Nat, s \in Steps :
             [calls EXCEPT ![c].charge = n, ![c].step = s] \in [Calls -> Call]
      BY DEF Call
    <3>2. PICK n \in Charges :
             calls' = [calls EXCEPT ![c].charge = n,
                                    ![c].step = IF HasHold(c) THEN "settle" ELSE "record"]
      BY <2>8 DEF Respond
    <3>3. calls' \in [Calls -> Call]
      BY <3>1, <3>2, AmountAssumption DEF Steps
    <3> QED
      BY <2>8, <3>3 DEF Respond
  <2>9. CASE Fail(c)
    BY <2>9, <1>g DEF Fail, CleanUp, Steps
  <2>10. CASE Settle(c)
    <3>1. calls' \in [Calls -> Call]
      BY <2>10, <1>g DEF Settle, Steps, AfterConflict
    <3>2. /\ holds' \in [Calls -> Hold] /\ aged' \subseteq Calls
          /\ usage' \in [Calls -> [cost : Nat, month : Months] \cup {NoUsage}]
      BY <2>10, <1>s DEF Settle
    <3> QED
      BY <2>10, <3>1, <3>2 DEF Settle
  <2>11. CASE Record(c)
    <3>1. calls' \in [Calls -> Call]
      BY <2>11, <1>g DEF Record, Steps
    <3>2. usage' \in [Calls -> [cost : Nat, month : Months] \cup {NoUsage}]
      BY <2>11, HoldOf DEF Record
    <3> QED
      BY <2>11, <3>1, <3>2 DEF Record
  <2>12. CASE MarkUncertain(c)
    <3>1. calls' \in [Calls -> Call]
      BY <2>12, <1>g DEF MarkUncertain, Steps
    <3>2. holds' \in [Calls -> Hold] /\ aged' \subseteq Calls
      BY <2>12, <1>h DEF MarkUncertain, HoldStates
    <3> QED
      BY <2>12, <3>1, <3>2 DEF MarkUncertain
  <2>13. CASE ReleaseUndispatched(c)
    <3>1. calls' \in [Calls -> Call]
      BY <2>13, <1>g DEF ReleaseUndispatched, Steps
    <3>2. holds' \in [Calls -> Hold] /\ aged' \subseteq Calls
      BY <2>13, <1>k DEF ReleaseUndispatched, HoldStates
    <3> QED
      BY <2>13, <3>1, <3>2 DEF ReleaseUndispatched
  <2> QED
    BY <1>1, <2>1, <2>2, <2>3, <2>4, <2>5, <2>6, <2>7, <2>8, <2>9, <2>10, <2>11, <2>12,
       <2>13 DEF CallStep
<1>2. ASSUME NEW c \in Calls, FaultStep(c) PROVE TypeOK'
  <2> USE <1>t DEF TypeOK
  <2>1. \A s \in Steps : Fault(c, s) =>
           /\ calls' \in [Calls -> Call] /\ faults' \in 0..MaxFaults
           /\ UNCHANGED <<month, budgets, audited, sent>>
    BY <1>g, BoundAssumption DEF Fault
  <2>2. {"failed", "release", "uncertain"} \subseteq Steps
    BY DEF Steps
  <2>3. CASE FaultyAdmission(c)
    <3>1. HasHold(c)
      BY <2>3 DEF Inv, Local, Phase, FaultyAdmission, At
    <3>2. holds' \in [Calls -> Hold] /\ aged' \subseteq Calls
      BY <2>3, <3>1, <1>a DEF FaultyAdmission
    <3> QED
      BY <2>1, <2>2, <2>3, <3>2 DEF FaultyAdmission
  <2>4. CASE FaultyStart(c)
    <3>1. holds' \in [Calls -> Hold] /\ aged' \subseteq Calls
      BY <2>4, <1>h DEF FaultyStart, HoldStates
    <3> QED
      BY <2>1, <2>2, <2>4, <3>1 DEF FaultyStart
  <2>5. CASE FaultySettlement(c)
    <3>1. /\ holds' \in [Calls -> Hold] /\ aged' \subseteq Calls
          /\ usage' \in [Calls -> [cost : Nat, month : Months] \cup {NoUsage}]
      BY <2>5, <1>s DEF FaultySettlement
    <3> QED
      BY <2>1, <2>2, <2>5, <3>1 DEF FaultySettlement
  <2>6. CASE FaultyRecord(c)
    <3>1. usage' \in [Calls -> [cost : Nat, month : Months] \cup {NoUsage}]
      BY <2>6, HoldOf DEF FaultyRecord
    <3> QED
      BY <2>1, <2>2, <2>6, <3>1 DEF FaultyRecord
  <2>7. CASE FaultyCleanUp(c)
    BY <2>1, <2>2, <2>7 DEF FaultyCleanUp
  <2>8. CASE Crash(c)
    BY <2>1, <2>2, <2>8 DEF Crash
  <2> QED
    BY <1>2, <2>3, <2>4, <2>5, <2>6, <2>7, <2>8 DEF FaultStep
<1>3. ASSUME NEW c \in Calls, Reconcile(c) PROVE TypeOK'
  <2>1. holds' \in [Calls -> Hold] /\ aged' \subseteq Calls
    <3>1. PICK cost \in Charges :
             CloseHold(c, IF cost = 0 THEN "released" ELSE "settled", cost, FALSE)
      BY <1>3 DEF Reconcile
    <3> QED
      BY <3>1, <1>k, AmountAssumption DEF HoldStates
  <2> QED
    BY <1>3, <1>t, <2>1 DEF Reconcile, TypeOK
<1>4. ASSUME NEW c \in Calls, HourPasses(c) PROVE TypeOK'
  BY <1>4, <1>t DEF HourPasses, TypeOK
<1>5. CASE CreateBudget
  BY <1>5, <1>t DEF CreateBudget, TypeOK
<1>6. CASE MonthEnds
  BY <1>6, <1>t, BoundAssumption DEF MonthEnds, TypeOK, Months
<1>7. CASE UNCHANGED vars
  BY <1>7, <1>t DEF vars, TypeOK
<1> QED
  BY <1>1, <1>2, <1>3, <1>4, <1>5, <1>6, <1>7 DEF Next

-----------------------------------------------------------------------------
(* One call at a time.                                                     *)

\* Nothing that Local speaks of changed for the call.
Untouched(c) ==
    /\ holds'[c] = holds[c] /\ usage'[c] = usage[c] /\ calls'[c] = calls[c]
    /\ c \in sent' <=> c \in sent
    /\ c \in audited => c \in audited'

\* What is known of a call survives a step that leaves its records untouched.
LEMMA LocalFrame ==
    ASSUME NEW c, Local(c), Untouched(c) PROVE Local(c)'
  BY DEF Local, Phase, Released, Counted, Accounted, HasHold, Untouched

\* A step of one call leaves every other call's rows and progress alone.
LEMMA OneCall ==
    ASSUME TypeOK, NEW c \in Calls, CallStep(c) \/ FaultStep(c) \/ Reconcile(c) \/ HourPasses(c)
    PROVE  \A d \in Calls \ {c} : Untouched(d)
<1> USE DEF TypeOK, Untouched, KeepHolds, KeepLedger, KeepWorld, Goto, SetHold, CloseHold,
            Admit, SettleHold, Fault
<1>1. CASE Price(c) \/ CheckUnpriced(c) \/ LockAccount(c) \/ ReadBalance(c)
  BY <1>1 DEF Price, CheckUnpriced, LockAccount, ReadBalance
<1>2. CASE InsertHold(c) \/ Start(c) \/ Dispatch(c)
  BY <1>2 DEF InsertHold, Start, Dispatch
<1>3. CASE Respond(c) \/ Fail(c) \/ Record(c)
  BY <1>3 DEF Respond, Fail, Record
<1>4. CASE Settle(c) \/ MarkUncertain(c) \/ ReleaseUndispatched(c)
  BY <1>4 DEF Settle, MarkUncertain, ReleaseUndispatched
<1>5. CASE FaultyAdmission(c) \/ FaultyStart(c)
  BY <1>5 DEF FaultyAdmission, FaultyStart
<1>6. CASE FaultySettlement(c) \/ FaultyRecord(c)
  BY <1>6 DEF FaultySettlement, FaultyRecord
<1>7. CASE FaultyCleanUp(c) \/ Crash(c)
  BY <1>7 DEF FaultyCleanUp, Crash
<1>8. CASE Reconcile(c) \/ HourPasses(c)
  BY <1>8 DEF Reconcile, HourPasses
<1> QED
  BY <1>1, <1>2, <1>3, <1>4, <1>5, <1>6, <1>7, <1>8 DEF CallStep, FaultStep

\* What the transactions and jumps of a call do to its rows.
SameHold(c) == holds'[c] = holds[c]
SameHoldBut(c, state) ==
    /\ holds'[c].state = state /\ holds'[c].billed = holds[c].billed
    /\ holds'[c].actual = holds[c].actual /\ holds'[c].month = holds[c].month
Closed(c, state, actual, billed) ==
    /\ holds'[c].state = state /\ holds'[c].billed = billed
    /\ holds'[c].actual = actual /\ holds'[c].month = holds[c].month
Went(c, step) ==
    /\ calls'[c].step = step /\ calls'[c].estimate = calls[c].estimate
    /\ calls'[c].charge = calls[c].charge

\* What the ways of moving a call do to its own records.
LEMMA Effects ==
    ASSUME TypeOK, NEW c \in Calls
    PROVE  /\ \A s : SetHold(c, s) => SameHoldBut(c, s)
           /\ \A s, n : CloseHold(c, s, n, FALSE) => Closed(c, s, n, FALSE)
           /\ Admit(c) => holds'[c].state = "reserved" /\ holds'[c].billed = holds[c].billed
           /\ SettleHold(c) =>
                 /\ Closed(c, "settled", calls[c].charge, TRUE)
                 /\ usage'[c] = [cost |-> calls[c].charge, month |-> holds[c].month]
           /\ \A s : Goto(c, s) => Went(c, s)
<1>1. holds[c] \in Hold /\ calls[c] \in Call
  BY DEF TypeOK
<1>2. c \in DOMAIN holds /\ c \in DOMAIN calls /\ c \in DOMAIN usage
  BY DEF TypeOK
<1>3. ASSUME NEW s, SetHold(c, s) PROVE SameHoldBut(c, s)
  BY <1>1, <1>2, <1>3 DEF SetHold, SameHoldBut, Hold
<1>4. ASSUME NEW s, NEW n, CloseHold(c, s, n, FALSE) PROVE Closed(c, s, n, FALSE)
  BY <1>1, <1>2, <1>4 DEF CloseHold, Closed, Hold
<1>5. ASSUME Admit(c) PROVE holds'[c].state = "reserved" /\ holds'[c].billed = holds[c].billed
  BY <1>1, <1>2, <1>5 DEF Admit, Hold
<1>6. ASSUME SettleHold(c) PROVE Closed(c, "settled", calls[c].charge, TRUE)
  BY <1>1, <1>2, <1>6 DEF SettleHold, CloseHold, Closed, Hold
<1>7. ASSUME SettleHold(c)
      PROVE  usage'[c] = [cost |-> calls[c].charge, month |-> holds[c].month]
  BY <1>2, <1>7 DEF SettleHold, UsageMonth
<1>8. ASSUME NEW s, Goto(c, s) PROVE Went(c, s)
  BY <1>1, <1>2, <1>8 DEF Goto, Went, Call
<1> QED
  BY <1>3, <1>4, <1>5, <1>6, <1>7, <1>8

\* A usage event is not the absence of one.
LEMMA UsageIsPresent ==
    ASSUME NEW n \in Nat, NEW m \in Months
    PROVE  [cost |-> n, month |-> m] # NoUsage
  BY UsageAssumption, BoundAssumption DEF Months

-----------------------------------------------------------------------------
(* Each step of a call keeps what is known of it.                          *)

\* A step of a call's own code keeps what is known of it.
LEMMA LocalCallStep ==
    ASSUME TypeOK, NEW c \in Calls, Local(c), CallStep(c) PROVE Local(c)'
<1> USE DEF At, HasHold, KeepHolds, KeepLedger, KeepWorld, Early, InFlight,
            Local, Phase, Released, Counted, Accounted
<1>e. holds[c] \in Hold /\ calls[c] \in Call /\ c \in DOMAIN calls
  BY DEF TypeOK
<1>1. CASE Price(c)
  <2>1. /\ holds'[c] = holds[c] /\ usage'[c] = usage[c] /\ sent' = sent /\ audited' = audited
        /\ calls'[c].step \in {"unpriced", "lock"} /\ calls'[c].charge = calls[c].charge
        /\ calls'[c].estimate = NoPrice <=> calls'[c].step = "unpriced"
    <3>1. PICK e \in Estimates \cup {NoPrice} :
             calls' = [calls EXCEPT ![c].at = month, ![c].estimate = e,
                                    ![c].step = IF e = NoPrice THEN "unpriced" ELSE "lock"]
      BY <1>1 DEF Price
    <3>2. /\ calls'[c].estimate = e /\ calls'[c].charge = calls[c].charge
          /\ calls'[c].step = IF e = NoPrice THEN "unpriced" ELSE "lock"
      BY <1>e, <3>1 DEF Call
    <3> QED
      BY <1>1, <3>2 DEF Price
  <2> QED
    BY <1>1, <2>1 DEF Price
<1>2. CASE CheckUnpriced(c)
  <2>1. Went(c, "dispatch") \/ Went(c, "failed")
    BY <1>2, Effects DEF CheckUnpriced
  <2> QED
    BY <1>2, <2>1 DEF CheckUnpriced, Went
<1>3. CASE LockAccount(c)
  <2>1. Went(c, "read")
    BY <1>3, Effects DEF LockAccount
  <2> QED
    BY <1>3, <2>1 DEF LockAccount, Went
<1>4. CASE ReadBalance(c)
  <2>1. /\ holds'[c] = holds[c] /\ usage'[c] = usage[c] /\ sent' = sent /\ audited' = audited
        /\ Went(c, "insert")
    BY <1>4, <1>e DEF ReadBalance, Call, Went
  <2> QED
    BY <1>4, <2>1 DEF ReadBalance, Went
<1>5. CASE InsertHold(c)
  <2>1. \/ holds'[c].state = "reserved" /\ holds'[c].billed = holds[c].billed /\ Went(c, "start")
        \/ SameHold(c) /\ Went(c, "failed")
    BY <1>5, Effects DEF InsertHold, SameHold
  <2> QED
    BY <1>5, <2>1 DEF InsertHold, SameHold, Went
<1>6. CASE Start(c)
  <2>1. \/ SameHoldBut(c, "in_flight") /\ holds[c].state = "reserved" /\ Went(c, "dispatch")
        \/ SameHold(c) /\ Went(c, "release")
    BY <1>6, Effects DEF Start, SameHold
  <2> QED
    BY <1>6, <2>1 DEF Start, SameHold, SameHoldBut, Went
<1>7. CASE Dispatch(c)
  <2>1. Went(c, "waiting")
    BY <1>7, Effects DEF Dispatch
  <2> QED
    BY <1>7, <2>1 DEF Dispatch, Went
<1>8. CASE Respond(c)
  <2>1. /\ holds'[c] = holds[c] /\ usage'[c] = usage[c] /\ sent' = sent /\ audited' = audited
        /\ calls'[c].estimate = calls[c].estimate
        /\ calls'[c].step = IF HasHold(c) THEN "settle" ELSE "record"
    BY <1>8, <1>e DEF Respond, Call
  <2> QED
    BY <1>8, <2>1 DEF Respond
<1>9. CASE Fail(c)
  <2>1. Went(c, CleanUp(c))
    BY <1>9, Effects DEF Fail
  <2> QED
    BY <1>9, <2>1 DEF Fail, CleanUp, Went
<1>10. CASE Settle(c)
  <2>1. CASE MaySettle(c) /\ SettleHold(c) /\ Goto(c, "returned")
    <3>1. usage'[c] # NoUsage
      BY <2>1, Effects, UsageIsPresent, HoldOf
    <3>2. /\ Closed(c, "settled", calls[c].charge, TRUE) /\ Went(c, "returned")
          /\ usage'[c] = [cost |-> calls[c].charge, month |-> holds[c].month]
      BY <2>1, Effects
    <3> QED
      BY <1>10, <3>1, <3>2 DEF Settle, Closed, Went
  <2>2. CASE ~MaySettle(c) /\ KeepHolds /\ UNCHANGED usage /\ Goto(c, AfterConflict)
    <3>1. Went(c, "uncertain")
      BY <2>2, Effects DEF AfterConflict
    <3> QED
      BY <1>10, <2>2, <3>1 DEF Settle, Went
  <2> QED
    BY <1>10, <2>1, <2>2 DEF Settle
<1>11. CASE Record(c)
  <2>1. usage'[c] # NoUsage /\ usage'[c].cost = calls[c].charge
    BY <1>11, UsageIsPresent, HoldOf DEF Record, TypeOK
  <2>2. Went(c, "returned")
    BY <1>11, Effects DEF Record
  <2> QED
    BY <1>11, <2>1, <2>2 DEF Record, Went
<1>12. CASE MarkUncertain(c)
  <2>1. SameHold(c) \/ (InFlight(c) /\ SameHoldBut(c, "uncertain"))
    BY <1>12, Effects DEF MarkUncertain, SameHold
  <2>2. Went(c, "failed")
    BY <1>12, Effects DEF MarkUncertain
  <2> QED
    BY <1>12, <2>1, <2>2 DEF MarkUncertain, SameHold, SameHoldBut, Went
<1>13. CASE ReleaseUndispatched(c)
  <2>1. SameHold(c) \/ (InFlight(c) /\ Closed(c, "released", 0, FALSE))
    BY <1>13, Effects DEF ReleaseUndispatched, SameHold
  <2>2. Went(c, "failed")
    BY <1>13, Effects DEF ReleaseUndispatched
  <2> QED
    BY <1>13, <2>1, <2>2 DEF ReleaseUndispatched, SameHold, Closed, Went
<1> QED
  BY <1>1, <1>2, <1>3, <1>4, <1>5, <1>6, <1>7, <1>8, <1>9, <1>10, <1>11, <1>12, <1>13
  DEF CallStep

\* So do faults, the operator and the calendar.
LEMMA LocalOther ==
    ASSUME TypeOK, NEW c \in Calls, Local(c), FaultStep(c) \/ Reconcile(c) \/ HourPasses(c)
    PROVE  Local(c)'
<1> USE DEF At, HasHold, KeepHolds, KeepLedger, KeepWorld, Early, InFlight, Fault,
            Local, Phase, Released, Counted, Accounted
<1>1. CASE FaultyAdmission(c)
  <2>1. \/ holds'[c].state = "reserved" /\ holds'[c].billed = holds[c].billed
        \/ SameHold(c)
    BY <1>1, Effects DEF FaultyAdmission, SameHold
  <2>2. Went(c, "failed")
    BY <1>1, Effects DEF FaultyAdmission
  <2> QED
    BY <1>1, <2>1, <2>2 DEF FaultyAdmission, SameHold, Went
<1>2. CASE FaultyStart(c)
  <2>1. SameHold(c) \/ (holds[c].state = "reserved" /\ SameHoldBut(c, "in_flight"))
    BY <1>2, Effects DEF FaultyStart, SameHold
  <2>2. Went(c, "release")
    BY <1>2, Effects DEF FaultyStart
  <2> QED
    BY <1>2, <2>1, <2>2 DEF FaultyStart, SameHold, SameHoldBut, Went
<1>3. CASE FaultySettlement(c)
  <2>w. Went(c, "uncertain")
    BY <1>3, Effects DEF FaultySettlement
  <2>1. CASE MaySettle(c) /\ SettleHold(c)
    <3>1. usage'[c] # NoUsage
      BY <2>1, Effects, UsageIsPresent, HoldOf
    <3>2. /\ Closed(c, "settled", calls[c].charge, TRUE)
          /\ usage'[c] = [cost |-> calls[c].charge, month |-> holds[c].month]
      BY <2>1, Effects
    <3> QED
      BY <1>3, <2>w, <3>1, <3>2 DEF FaultySettlement, Closed, Went
  <2>2. CASE KeepHolds /\ UNCHANGED usage
    BY <1>3, <2>2, <2>w DEF FaultySettlement, Went
  <2> QED
    BY <1>3, <2>1, <2>2 DEF FaultySettlement
<1>4. CASE FaultyRecord(c)
  <2>1. Went(c, "failed")
    BY <1>4, Effects DEF FaultyRecord
  <2> QED
    BY <1>4, <2>1 DEF FaultyRecord, Went
<1>5. CASE FaultyCleanUp(c)
  <2>1. Went(c, "failed")
    BY <1>5, Effects DEF FaultyCleanUp
  <2> QED
    BY <1>5, <2>1 DEF FaultyCleanUp, Went
<1>6. CASE Crash(c)
  <2>1. Went(c, "failed")
    BY <1>6, Effects DEF Crash
  <2> QED
    BY <1>6, <2>1 DEF Crash, Went
<1>7. CASE Reconcile(c)
  <2>1. PICK cost \in Charges :
           Closed(c, IF cost = 0 THEN "released" ELSE "settled", cost, FALSE)
    BY <1>7, Effects DEF Reconcile
  <2>2. c \in audited' /\ calls'[c] = calls[c] /\ usage'[c] = usage[c] /\ sent' = sent
    BY <1>7 DEF Reconcile
  <2>3. holds[c].state \in {"reserved", "in_flight", "uncertain"}
    BY <1>7 DEF Reconcile, MayReconcile
  <2> QED
    BY <2>1, <2>2, <2>3 DEF Closed
<1>8. CASE HourPasses(c)
  BY <1>8 DEF HourPasses
<1> QED
  BY <1>1, <1>2, <1>3, <1>4, <1>5, <1>6, <1>7, <1>8 DEF FaultStep

-----------------------------------------------------------------------------
(* The theorems.                                                           *)

\* Inv holds at the start and is kept by every step.
LEMMA Invariance == Spec => []Inv
<1>1. Init => Inv
  BY AmountAssumption, BoundAssumption
  DEF Init, Inv, TypeOK, Months, Hold, HoldStates, Call, Steps, Local, Phase, Early, Released,
      Counted, Accounted, HasHold
<1>2. Inv /\ [Next]_vars => Inv'
  <2> SUFFICES ASSUME Inv, [Next]_vars PROVE Inv'
    OBVIOUS
  <2>1. TypeOK /\ TypeOK'
    BY TypeStep DEF Inv
  <2>2. ASSUME NEW c \in Calls,
               CallStep(c) \/ FaultStep(c) \/ Reconcile(c) \/ HourPasses(c)
        PROVE  \A d \in Calls : Local(d)'
    <3>1. Local(c)'
      BY <2>1, <2>2, LocalCallStep, LocalOther DEF Inv
    <3>2. \A d \in Calls \ {c} : Local(d)'
      BY <2>1, <2>2, OneCall, LocalFrame DEF Inv
    <3> QED
      BY <3>1, <3>2
  <2>3. ASSUME CreateBudget \/ MonthEnds \/ UNCHANGED vars
        PROVE  \A d \in Calls : Local(d)'
    <3>1. \A d \in Calls : Untouched(d)
      BY <2>3 DEF CreateBudget, MonthEnds, vars, Untouched, KeepHolds, KeepLedger
    <3> QED
      BY <3>1, LocalFrame DEF Inv
  <2> QED
    BY <2>1, <2>2, <2>3 DEF Next, Inv
<1> QED
  BY <1>1, <1>2, PTL DEF Spec

\* Every variable stays in its type.
THEOREM TypeCorrect == Spec => []TypeOK
<1>1. Inv => TypeOK
  BY DEF Inv
<1> QED
  BY <1>1, Invariance, PTL

\* Reservations and usage events never disagree about a reserved call: the
\* event exists exactly when the call settled its hold, with the same cost
\* and month, so that the balance counts every call once.
THEOREM LedgerAgrees == Spec => []CountedOnce
<1>1. Inv => CountedOnce
  BY DEF Inv, Local, Counted, CountedOnce
<1> QED
  BY <1>1, Invariance, PTL

\* Money of a dispatched call returns only through an audited reconciliation.
THEOREM NoSilentRelease == Spec => []DispatchedMoneyIsKept
<1>1. Inv => DispatchedMoneyIsKept
  BY DEF Inv, Local, Released, DispatchedMoneyIsKept
<1> QED
  BY <1>1, Invariance, PTL

\* A returned result has its usage on record and its hold settled.
THEOREM NoUnaccountedResult == Spec => []ResultsAreAccounted
<1>1. Inv => ResultsAreAccounted
  BY DEF Inv, Local, Accounted, ResultsAreAccounted
<1> QED
  BY <1>1, Invariance, PTL

\* One step leaves closed holds and recorded usage as they are.
LEMMA ClosedStep ==
    ASSUME Inv, NEW c \in Calls,
           CallStep(c) \/ FaultStep(c) \/ Reconcile(c) \/ HourPasses(c)
    PROVE  /\ holds[c].state \in {"settled", "released"} => holds'[c] = holds[c]
           /\ usage[c] # NoUsage => usage'[c] = usage[c]
<1> USE DEF At, KeepHolds, KeepLedger, InFlight
<1>p. TypeOK /\ Phase(c) /\ Counted(c)
  BY DEF Inv, Local
<1>1. CASE Price(c) \/ CheckUnpriced(c) \/ LockAccount(c) \/ ReadBalance(c)
  BY <1>1 DEF Price, CheckUnpriced, LockAccount, ReadBalance
<1>2. CASE InsertHold(c) \/ FaultyAdmission(c)
  <2>1. holds[c].state = "absent" /\ usage'[c] = usage[c]
    BY <1>2, <1>p DEF InsertHold, FaultyAdmission, Phase, Early
  <2> QED
    BY <2>1
<1>3. CASE Start(c) \/ FaultyStart(c)
  BY <1>3 DEF Start, FaultyStart
<1>4. CASE Dispatch(c) \/ Respond(c) \/ Fail(c)
  BY <1>4 DEF Dispatch, Respond, Fail
<1>5. CASE Settle(c) \/ FaultySettlement(c)
  <2>1. usage[c] = NoUsage
    BY <1>5, <1>p DEF Settle, FaultySettlement, Phase
  <2> QED
    BY <1>5, <2>1 DEF Settle, FaultySettlement, MaySettle
<1>6. CASE Record(c) \/ FaultyRecord(c)
  <2>1. usage[c] = NoUsage
    BY <1>6, <1>p DEF Record, FaultyRecord, Phase
  <2> QED
    BY <1>6, <2>1 DEF Record, FaultyRecord
<1>7. CASE MarkUncertain(c) \/ ReleaseUndispatched(c)
  BY <1>7 DEF MarkUncertain, ReleaseUndispatched
<1>8. CASE FaultyCleanUp(c) \/ Crash(c)
  BY <1>8 DEF FaultyCleanUp, Crash
<1>9. CASE Reconcile(c) \/ HourPasses(c)
  BY <1>9 DEF Reconcile, MayReconcile, HourPasses
<1> QED
  BY <1>1, <1>2, <1>3, <1>4, <1>5, <1>6, <1>7, <1>8, <1>9 DEF CallStep, FaultStep

\* Settlement, reconciliation and clean-up race, and the losers change
\* nothing: a closed hold and a usage event are final.
THEOREM ClosedIsFinal == Spec => ClosedHoldsStay
<1> DEFINE Stays(c) == /\ holds[c].state \in {"settled", "released"} => holds'[c] = holds[c]
                       /\ usage[c] # NoUsage => usage'[c] = usage[c]
<1>1. Inv /\ [Next]_vars => [\A c \in Calls : Stays(c)]_vars
  <2> SUFFICES ASSUME Inv, Next PROVE \A c \in Calls : Stays(c)
    OBVIOUS
  <2>1. ASSUME NEW c \in Calls,
               CallStep(c) \/ FaultStep(c) \/ Reconcile(c) \/ HourPasses(c)
        PROVE  \A d \in Calls : Stays(d)
    <3>1. Stays(c)
      BY <2>1, ClosedStep
    <3>2. \A d \in Calls \ {c} : Untouched(d)
      BY <2>1, OneCall DEF Inv
    <3> QED
      BY <3>1, <3>2 DEF Untouched
  <2>2. ASSUME CreateBudget \/ MonthEnds PROVE \A d \in Calls : Stays(d)
    BY <2>2 DEF CreateBudget, MonthEnds, KeepHolds, KeepLedger
  <2> QED
    BY <2>1, <2>2 DEF Next
<1>2. Spec => [][\A c \in Calls : Stays(c)]_vars
  BY <1>1, Invariance, PTL DEF Spec
<1> QED
  BY <1>2 DEF ClosedHoldsStay

-----------------------------------------------------------------------------
(* Sums over sets of calls. *)

\* A set of naturals has a least element.
LEMMA LeastOf ==
    ASSUME NEW T \in SUBSET Nat, T # {}
    PROVE  \E x \in T : \A y \in T : ~ (y < x)
<1>1. \E x \in T : \A y \in T : ~ (<<y, x>> \in OpToRel(<, Nat))
  BY WFMin, NatLessThanWellFounded
<1> QED BY <1>1 DEF OpToRel

\* The element a fold takes from a set first, and those it leaves.
First(s) == CHOOSE c \in s : TRUE

Rest(s) == s \ {First(s)}

Amounts == [Calls -> Nat]

\* g adds the amounts f of the subsets of S up.
AddsUp(g, f, S) ==
    g = [s \in SUBSET S |-> IF s = {} THEN 0 ELSE f[First(s)] + g[Rest(s)]]

\* A fold takes one element and leaves a smaller set.
LEMMA RestOf ==
    ASSUME NEW s \in SUBSET Calls, s # {}
    PROVE  /\ First(s) \in s /\ First(s) \in Calls /\ Rest(s) \in SUBSET Calls /\ Rest(s) # s
           /\ Cardinality(s) \in Nat \ {0} /\ Cardinality(Rest(s)) = Cardinality(s) - 1
<1>1. First(s) \in s
  BY DEF First
<1>2. IsFiniteSet(s)
  BY CallAssumption, FS_Subset
<1>3. Cardinality(s) \in Nat /\ Cardinality(s) # 0
  BY <1>2, FS_CardinalityType, FS_EmptySet
<1>4. Cardinality(Rest(s)) = Cardinality(s) - 1
  BY <1>1, <1>2, FS_RemoveElement DEF Rest
<1> QED BY <1>1, <1>3, <1>4 DEF Rest

\* Amounts that agree on a set add up to the same there.
LEMMA SameSums ==
    ASSUME NEW S \in SUBSET Calls, NEW T \in SUBSET Calls, NEW f, NEW h, NEW a, NEW b,
           AddsUp(a, f, S), AddsUp(b, h, T), NEW s \in SUBSET S, s \subseteq T,
           \A c \in s : f[c] = h[c]
    PROVE  a[s] = b[s]
<1> DEFINE Wrong == {n \in Nat : \E u \in SUBSET s : Cardinality(u) = n /\ a[u] # b[u]}
<1>1. Wrong = {}
  <2> SUFFICES ASSUME Wrong # {} PROVE FALSE
    OBVIOUS
  <2>1. PICK n \in Wrong : \A k \in Wrong : ~(k < n)
    <3>1. Wrong \in SUBSET Nat
      OBVIOUS
    <3> HIDE DEF Wrong
    <3> QED BY <3>1, LeastOf
  <2>2. PICK u \in SUBSET s : Cardinality(u) = n /\ a[u] # b[u]
    BY <2>1
  <2>3. u \in SUBSET Calls /\ u \in SUBSET S /\ u \in SUBSET T
    OBVIOUS
  <2>4. /\ a[u] = IF u = {} THEN 0 ELSE f[First(u)] + a[Rest(u)]
        /\ b[u] = IF u = {} THEN 0 ELSE h[First(u)] + b[Rest(u)]
    BY <2>3 DEF AddsUp
  <2>5. u # {}
    BY <2>2, <2>4
  <2>6. First(u) \in u /\ Rest(u) \in SUBSET s /\ Cardinality(Rest(u)) = n - 1 /\ n \in Nat \ {0}
    BY <2>2, <2>3, <2>5, RestOf DEF Rest
  <2>7. n - 1 \in Nat /\ n - 1 < n
    BY <2>6
  <2>8. n - 1 \notin Wrong
    BY <2>1, <2>7
  <2>9. a[Rest(u)] = b[Rest(u)]
    BY <2>6, <2>7, <2>8
  <2>10. f[First(u)] = h[First(u)]
    BY <2>6
  <2> QED BY <2>2, <2>4, <2>5, <2>9, <2>10
<1>2. IsFiniteSet(s)
  BY CallAssumption, FS_Subset
<1>3. Cardinality(s) \in Nat
  BY <1>2, FS_CardinalityType
<1> QED BY <1>1, <1>3

\* For any amounts there is a function that adds them up.
LEMMA SumsExist ==
    ASSUME NEW f \in Amounts
    PROVE  \E g \in [SUBSET Calls -> Nat] : AddsUp(g, f, Calls)
<1> DEFINE Upto(n) == {s \in SUBSET Calls : Cardinality(s) <= n}
           Good(n, g) == g \in [Upto(n) -> Nat] /\ \A s \in Upto(n) :
                             g[s] = IF s = {} THEN 0 ELSE f[First(s)] + g[Rest(s)]
           Bad == {n \in Nat : ~ \E g : Good(n, g)}
<1>1. \A s \in SUBSET Calls : /\ Cardinality(s) \in Nat /\ (Cardinality(s) = 0 <=> s = {})
                              /\ Cardinality(s) <= Cardinality(Calls) /\ Cardinality(Calls) \in Nat
  BY CallAssumption, FS_Subset, FS_EmptySet, FS_CardinalityType
<1>2. \A s \in SUBSET Calls : s # {} =>
          First(s) \in Calls /\ Rest(s) \in SUBSET Calls /\ Cardinality(Rest(s)) = Cardinality(s) - 1
  BY RestOf
<1>3. Bad = {}
  <2> SUFFICES ASSUME Bad # {} PROVE FALSE
    OBVIOUS
  <2>1. PICK n \in Bad : \A k \in Bad : ~(k < n)
    <3>1. Bad \in SUBSET Nat
      OBVIOUS
    <3> HIDE DEF Bad
    <3> QED BY <3>1, LeastOf
  <2>2. n \in Nat /\ ~ \E g : Good(n, g)
    BY <2>1
  <2>3. n # 0
    <3> SUFFICES ASSUME n = 0 PROVE FALSE
      OBVIOUS
    <3> DEFINE z == [s \in Upto(0) |-> 0]
    <3>1. \A s \in Upto(0) : s = {}
      BY <1>1
    <3>2. z \in [Upto(0) -> Nat] /\ \A s \in Upto(0) : z[s] = 0
      OBVIOUS
    <3> HIDE DEF z, Upto
    <3>3. Good(0, z)
      BY <3>1, <3>2
    <3> QED BY <2>2, <3>3
  <2>4. n - 1 \in Nat /\ n - 1 < n
    BY <2>2, <2>3
  <2>5. PICK g : Good(n - 1, g)
    BY <2>1, <2>4
  <2> DEFINE h == [s \in Upto(n) |-> IF s = {} THEN 0 ELSE f[First(s)] + g[Rest(s)]]
  <2>6. \A s \in Upto(n) : s # {} => Rest(s) \in Upto(n - 1) /\ Rest(s) \in Upto(n) /\ First(s) \in Calls
    BY <1>1, <1>2, <2>2, <2>4
  <2>7. \A s \in Upto(n - 1) : s \in Upto(n)
    BY <1>1, <2>2, <2>4
  <2>8. h \in [Upto(n) -> Nat]
    <3>1. \A s \in Upto(n) : s # {} => f[First(s)] \in Nat /\ g[Rest(s)] \in Nat
      BY <2>5, <2>6 DEF Amounts
    <3> HIDE DEF Upto
    <3> QED BY <3>1
  <2>9. \A s \in Upto(n - 1) : h[s] = g[s]
    <3> HIDE DEF Upto
    <3> QED BY <2>5, <2>7
  <2>10. \A s \in Upto(n) : h[s] = IF s = {} THEN 0 ELSE f[First(s)] + h[Rest(s)]
    <3>1. \A s \in Upto(n) : h[s] = IF s = {} THEN 0 ELSE f[First(s)] + g[Rest(s)]
      OBVIOUS
    <3> HIDE DEF Upto, h
    <3> QED BY <2>6, <2>9, <3>1
  <2> HIDE DEF h, Upto
  <2>11. Good(n, h)
    BY <2>8, <2>10
  <2> QED BY <2>2, <2>11
<1>4. Cardinality(Calls) \in Nat /\ Upto(Cardinality(Calls)) = SUBSET Calls
  BY <1>1
<1>5. PICK g : Good(Cardinality(Calls), g)
  BY <1>3, <1>4
<1>6. g \in [SUBSET Calls -> Nat]
      /\ \A s \in SUBSET Calls : g[s] = IF s = {} THEN 0 ELSE f[First(s)] + g[Rest(s)]
  BY <1>4, <1>5
<1>7. AddsUp(g, f, Calls)
  BY <1>6 DEF AddsUp
<1> QED BY <1>6, <1>7

\* The sum of amounts over a set of calls.
Total(f, S) == (CHOOSE g \in [SUBSET Calls -> Nat] : AddsUp(g, f, Calls))[S]

\* Whichever element is taken first, the sum is the same.
LEMMA TotalWithout ==
    ASSUME NEW f \in Amounts, NEW S \in SUBSET Calls, NEW c \in S
    PROVE  Total(f, S) = f[c] + Total(f, S \ {c})
<1> DEFINE g == CHOOSE g \in [SUBSET Calls -> Nat] : AddsUp(g, f, Calls)
           Bad == {n \in Nat : \E s \in SUBSET Calls : \E d \in s :
                                   Cardinality(s) = n /\ g[s] # f[d] + g[s \ {d}]}
<1>1. g \in [SUBSET Calls -> Nat] /\ AddsUp(g, f, Calls)
  BY SumsExist
<1> HIDE DEF g
<1>2. \A s \in SUBSET Calls : g[s] = IF s = {} THEN 0 ELSE f[First(s)] + g[Rest(s)]
  BY <1>1 DEF AddsUp
<1>3. Bad = {}
  <2> SUFFICES ASSUME Bad # {} PROVE FALSE
    OBVIOUS
  <2>1. PICK n \in Bad : \A k \in Bad : ~(k < n)
    <3>1. Bad \in SUBSET Nat
      OBVIOUS
    <3> HIDE DEF Bad
    <3> QED BY <3>1, LeastOf
  <2>2. PICK s \in SUBSET Calls : \E d \in s : Cardinality(s) = n /\ g[s] # f[d] + g[s \ {d}]
    BY <2>1
  <2>3. PICK d \in s : Cardinality(s) = n /\ g[s] # f[d] + g[s \ {d}]
    BY <2>2
  <2> DEFINE e == First(s)
  <2>4. /\ e \in s /\ Rest(s) \in SUBSET Calls /\ Rest(s) = s \ {e}
        /\ n \in Nat \ {0} /\ Cardinality(Rest(s)) = n - 1
    BY <2>3, RestOf DEF Rest
  <2>5. g[s] = f[e] + g[Rest(s)]
    BY <1>2, <2>3
  <2>6. d # e
    BY <2>3, <2>4, <2>5
  <2>7. n - 1 \in Nat /\ n - 1 < n
    BY <2>4
  <2>8. n - 1 \notin Bad
    BY <2>1, <2>7
  <2>9. \A t \in SUBSET Calls : \A x \in t : Cardinality(t) = n - 1 => g[t] = f[x] + g[t \ {x}]
    BY <2>7, <2>8
  <2>10. IsFiniteSet(s)
    BY CallAssumption, FS_Subset
  <2>11. s \ {d} \in SUBSET Calls /\ Cardinality(s \ {d}) = n - 1
    BY <2>3, <2>10, FS_RemoveElement
  <2> HIDE DEF Bad, e
  <2>12. g[Rest(s)] = f[d] + g[Rest(s) \ {d}]
    BY <2>3, <2>4, <2>6, <2>9
  <2>13. g[s \ {d}] = f[e] + g[(s \ {d}) \ {e}]
    BY <2>4, <2>6, <2>9, <2>11
  <2>14. Rest(s) \ {d} = (s \ {d}) \ {e}
    BY <2>4
  <2>15. /\ f[d] \in Nat /\ f[e] \in Nat /\ g[Rest(s) \ {d}] \in Nat
    BY <1>1, <2>4 DEF Amounts
  <2>16. g[s] = f[d] + (f[e] + g[Rest(s) \ {d}])
    BY <2>5, <2>12, <2>15
  <2> QED BY <2>3, <2>13, <2>14, <2>16
<1>4. IsFiniteSet(S)
  BY CallAssumption, FS_Subset
<1>5. Cardinality(S) \in Nat
  BY <1>4, FS_CardinalityType
<1>6. g[S] = f[c] + g[S \ {c}]
  BY <1>3, <1>5
<1> QED BY <1>6 DEF Total, g

\* A sum depends on the amounts summed alone, and one more call adds its own.
LEMMA TotalOf ==
    ASSUME NEW f \in Amounts, NEW h \in Amounts, NEW S \in SUBSET Calls, \A c \in S : f[c] = h[c]
    PROVE  /\ Total(f, S) \in Nat /\ Total(h, S) = Total(f, S)
           /\ \A d \in Calls \ S : Total(h, S \cup {d}) = Total(f, S) + h[d]
<1> DEFINE a == CHOOSE g \in [SUBSET Calls -> Nat] : AddsUp(g, f, Calls)
           b == CHOOSE g \in [SUBSET Calls -> Nat] : AddsUp(g, h, Calls)
<1>1. a \in [SUBSET Calls -> Nat] /\ AddsUp(a, f, Calls)
  BY SumsExist
<1>2. b \in [SUBSET Calls -> Nat] /\ AddsUp(b, h, Calls)
  BY SumsExist
<1> HIDE DEF a, b
<1>3. a[S] = b[S] /\ a[S] \in Nat
  BY <1>1, <1>2, SameSums
<1>4. Total(f, S) \in Nat /\ Total(h, S) = Total(f, S)
  BY <1>3 DEF Total, a, b
<1>5. ASSUME NEW d \in Calls \ S
      PROVE  Total(h, S \cup {d}) = Total(f, S) + h[d]
  <2> DEFINE T == S \cup {d}
  <2>1. T \ {d} = S /\ T \in SUBSET Calls /\ d \in T
    OBVIOUS
  <2>2. h[d] \in Nat
    BY DEF Amounts
  <2> HIDE DEF T
  <2>3. Total(h, T) = h[d] + Total(h, T \ {d})
    BY <2>1, TotalWithout
  <2>4. Total(h, T) = h[d] + Total(f, S)
    BY <1>4, <2>1, <2>3
  <2>5. Total(h, T) = Total(f, S) + h[d]
    BY <1>4, <2>2, <2>4
  <2> QED BY <2>5 DEF T
<1> QED BY <1>4, <1>5

\* The fold over a set is the sum over it.
LEMMA FoldIsTotal ==
    ASSUME NEW f \in Amounts, NEW S \in SUBSET Calls
    PROVE  /\ \E a : AddsUp(a, f, S)
           /\ \A a : AddsUp(a, f, S) => a[S] = Total(f, S)
<1> DEFINE g == CHOOSE g \in [SUBSET Calls -> Nat] : AddsUp(g, f, Calls)
           r == [s \in SUBSET S |-> g[s]]
<1>1. g \in [SUBSET Calls -> Nat] /\ AddsUp(g, f, Calls)
  BY SumsExist
<1> HIDE DEF g
<1>2. \A s \in SUBSET Calls : g[s] = IF s = {} THEN 0 ELSE f[First(s)] + g[Rest(s)]
  BY <1>1 DEF AddsUp
<1>3. \A s \in SUBSET S : s \in SUBSET Calls /\ Rest(s) \in SUBSET S
  BY DEF Rest
<1>4. \A s \in SUBSET S : r[s] = IF s = {} THEN 0 ELSE f[First(s)] + r[Rest(s)]
  BY <1>2, <1>3
<1>5. r = [s \in SUBSET S |-> r[s]]
  OBVIOUS
<1> HIDE DEF r
<1>6. AddsUp(r, f, S)
  BY <1>4, <1>5 DEF AddsUp
<1>7. ASSUME NEW a, AddsUp(a, f, S)
      PROVE  a[S] = Total(f, S)
  <2>1. Calls \in SUBSET Calls /\ S \in SUBSET S
    OBVIOUS
  <2>2. a[S] = g[S]
    BY <1>1, <1>7, <2>1, SameSums
  <2> QED BY <2>2 DEF Total, g
<1> QED BY <1>6, <1>7

-----------------------------------------------------------------------------
(* The balance of a month. *)

\* What the balance adds up, and of which calls.
Costs == [c \in Calls |-> IF usage[c] = NoUsage THEN 0 ELSE usage[c].cost]
Actuals == [c \in Calls |-> holds[c].actual]
Held == [c \in Calls |-> holds[c].amount]

Billed(m) == {c \in Calls : usage[c] # NoUsage /\ usage[c].month = m}
Reconciled(m) ==
    {c \in Calls : holds[c].state = "settled" /\ ~holds[c].billed /\ holds[c].month = m}
Holding(m) == {c \in Calls : Open(c) /\ holds[c].month = m}

\* The amounts are natural numbers.
LEMMA BalanceType ==
    ASSUME TypeOK
    PROVE  Costs \in Amounts /\ Actuals \in Amounts /\ Held \in Amounts
<1>1. \A c \in Calls : holds[c].actual \in Nat /\ holds[c].amount \in Nat
  BY DEF TypeOK, Hold
<1>2. \A c \in Calls : usage[c] # NoUsage => usage[c].cost \in Nat
  BY DEF TypeOK
<1> QED BY <1>1, <1>2 DEF Costs, Actuals, Held, Amounts

\* The balance of a month is made of three sums.
LEMMA Balance ==
    TypeOK =>
      \A m \in Months :
        /\ Spent(m) = Total(Costs, Billed(m)) + Total(Actuals, Reconciled(m))
        /\ Reserved(m) = Total(Held, Holding(m))
<1> SUFFICES ASSUME TypeOK, NEW m \in Months
             PROVE  /\ Spent(m) = Total(Costs, Billed(m)) + Total(Actuals, Reconciled(m))
                    /\ Reserved(m) = Total(Held, Holding(m))
  OBVIOUS
<1>1. Costs \in Amounts /\ Actuals \in Amounts /\ Held \in Amounts
  BY BalanceType
<1>2. Reserved(m) = Total(Held, Holding(m))
  <2> DEFINE S == Holding(m)
             F(g) == [s \in SUBSET S |-> IF s = {} THEN 0
                          ELSE LET c == CHOOSE c \in s : TRUE IN holds[c].amount + g[s \ {c}]]
             a == CHOOSE g : g = F(g)
  <2>1. Reserved(m) = a[S]
    BY DEF MapThenSumSet, MapThenFoldSet, Reserved, Holding
  <2>2. S \in SUBSET Calls
    BY DEF Holding
  <2>3. ASSUME NEW g PROVE F(g) = [s \in SUBSET S |-> IF s = {} THEN 0 ELSE Held[First(s)] + g[Rest(s)]]
    <3>1. \A s \in SUBSET S : s # {} => First(s) \in S
      BY DEF First
    <3>2. \A c \in S : Held[c] = holds[c].amount
      BY <2>2 DEF Held, Holding
    <3>3. \A s \in SUBSET S : s # {} => Held[First(s)] = holds[First(s)].amount
      BY <3>1, <3>2
    <3> HIDE DEF S
    <3> QED BY <3>3 DEF First, Rest
  <2> HIDE DEF F
  <2>4. \A g : g = F(g) <=> AddsUp(g, Held, S)
    BY <2>3 DEF AddsUp
  <2>5. \E g : g = F(g)
    BY <1>1, <2>2, <2>4, FoldIsTotal
  <2>6. a = F(a)
    BY <2>5
  <2> HIDE DEF a
  <2>7. a[S] = Total(Held, S)
    BY <1>1, <2>2, <2>4, <2>6, FoldIsTotal
  <2> QED BY <2>1, <2>7
<1>3. MapThenSumSet(LAMBDA c : usage[c].cost, Billed(m)) = Total(Costs, Billed(m))
  <2> DEFINE S == Billed(m)
             F(g) == [s \in SUBSET S |-> IF s = {} THEN 0
                          ELSE LET c == CHOOSE c \in s : TRUE IN usage[c].cost + g[s \ {c}]]
             a == CHOOSE g : g = F(g)
  <2>1. MapThenSumSet(LAMBDA c : usage[c].cost, Billed(m)) = a[S]
    BY DEF MapThenSumSet, MapThenFoldSet, Billed
  <2>2. S \in SUBSET Calls
    BY DEF Billed
  <2>3. ASSUME NEW g PROVE F(g) = [s \in SUBSET S |-> IF s = {} THEN 0 ELSE Costs[First(s)] + g[Rest(s)]]
    <3>1. \A s \in SUBSET S : s # {} => First(s) \in S
      BY DEF First
    <3>2. \A c \in S : Costs[c] = usage[c].cost
      BY <2>2 DEF Costs, Billed
    <3>3. \A s \in SUBSET S : s # {} => Costs[First(s)] = usage[First(s)].cost
      BY <3>1, <3>2
    <3> HIDE DEF S
    <3> QED BY <3>3 DEF First, Rest
  <2> HIDE DEF F
  <2>4. \A g : g = F(g) <=> AddsUp(g, Costs, S)
    BY <2>3 DEF AddsUp
  <2>5. \E g : g = F(g)
    BY <1>1, <2>2, <2>4, FoldIsTotal
  <2>6. a = F(a)
    BY <2>5
  <2> HIDE DEF a
  <2>7. a[S] = Total(Costs, S)
    BY <1>1, <2>2, <2>4, <2>6, FoldIsTotal
  <2> QED BY <2>1, <2>7
<1>4. MapThenSumSet(LAMBDA c : holds[c].actual, Reconciled(m)) = Total(Actuals, Reconciled(m))
  <2> DEFINE S == Reconciled(m)
             F(g) == [s \in SUBSET S |-> IF s = {} THEN 0
                          ELSE LET c == CHOOSE c \in s : TRUE IN holds[c].actual + g[s \ {c}]]
             a == CHOOSE g : g = F(g)
  <2>1. MapThenSumSet(LAMBDA c : holds[c].actual, Reconciled(m)) = a[S]
    BY DEF MapThenSumSet, MapThenFoldSet, Reconciled
  <2>2. S \in SUBSET Calls
    BY DEF Reconciled
  <2>3. ASSUME NEW g PROVE F(g) = [s \in SUBSET S |-> IF s = {} THEN 0 ELSE Actuals[First(s)] + g[Rest(s)]]
    <3>1. \A s \in SUBSET S : s # {} => First(s) \in S
      BY DEF First
    <3>2. \A c \in S : Actuals[c] = holds[c].actual
      BY <2>2 DEF Actuals, Reconciled
    <3>3. \A s \in SUBSET S : s # {} => Actuals[First(s)] = holds[First(s)].actual
      BY <3>1, <3>2
    <3> HIDE DEF S
    <3> QED BY <3>3 DEF First, Rest
  <2> HIDE DEF F
  <2>4. \A g : g = F(g) <=> AddsUp(g, Actuals, S)
    BY <2>3 DEF AddsUp
  <2>5. \E g : g = F(g)
    BY <1>1, <2>2, <2>4, FoldIsTotal
  <2>6. a = F(a)
    BY <2>5
  <2> HIDE DEF a
  <2>7. a[S] = Total(Actuals, S)
    BY <1>1, <2>2, <2>4, <2>6, FoldIsTotal
  <2> QED BY <2>1, <2>7
<1>5. Spent(m) = MapThenSumSet(LAMBDA c : usage[c].cost, Billed(m))
                     + MapThenSumSet(LAMBDA c : holds[c].actual, Reconciled(m))
  BY DEF Spent, Billed, Reconciled
<1> QED BY <1>2, <1>3, <1>4, <1>5

-----------------------------------------------------------------------------
(* Admissions. *)

\* Nothing that the balance of a month is made of changes.
Kept ==
    /\ budgets' = budgets /\ usage' = usage
    /\ \A c \in Calls :
          /\ holds'[c].amount = holds[c].amount /\ holds'[c].actual = holds[c].actual
          /\ holds'[c].month = holds[c].month /\ (Open(c)' <=> Open(c))
          /\ (holds'[c].state = "settled" /\ ~holds'[c].billed)
                <=> (holds[c].state = "settled" /\ ~holds[c].billed)

\* An account is held by the one call between the lock and the insertion.
Inside(c) == calls[c].step \in {"read", "insert"} => account = c

\* Room that was found is still there at the insertion.
Room(c) == calls[c].step = "insert" /\ calls[c].room => Fits(calls[c].at, calls[c].estimate)

\* The balance of the next state, from the same definitions.
LEMMA NextBalance ==
    ASSUME TypeOK'
    PROVE  /\ \A m \in Months :
               /\ Spent(m)' = Total(Costs', Billed(m)') + Total(Actuals', Reconciled(m)')
               /\ Reserved(m)' = Total(Held', Holding(m)')
           /\ Costs' \in Amounts /\ Actuals' \in Amounts /\ Held' \in Amounts
<1>1. (TypeOK => \A m \in Months :
        /\ Spent(m) = Total(Costs, Billed(m)) + Total(Actuals, Reconciled(m))
        /\ Reserved(m) = Total(Held, Holding(m)))'
  BY Balance, PTL
<1>2. (TypeOK => Costs \in Amounts /\ Actuals \in Amounts /\ Held \in Amounts)'
  BY BalanceType, PTL
<1> QED BY <1>1, <1>2

\* The balance is as it was.
LEMMA BalanceKept ==
    ASSUME TypeOK, TypeOK', Kept
    PROVE  \A m \in Months :
              Spent(m)' = Spent(m) /\ Reserved(m)' = Reserved(m) /\ budgets'[m] = budgets[m]
<1> SUFFICES ASSUME NEW m \in Months
             PROVE  Spent(m)' = Spent(m) /\ Reserved(m)' = Reserved(m) /\ budgets'[m] = budgets[m]
  OBVIOUS
<1>1. Costs' = Costs /\ Actuals' = Actuals /\ Held' = Held
  BY DEF Kept, Costs, Actuals, Held
<1>2. Billed(m)' = Billed(m) /\ Reconciled(m)' = Reconciled(m) /\ Holding(m)' = Holding(m)
  BY DEF Kept, Billed, Reconciled, Holding
<1>3. /\ Spent(m) = Total(Costs, Billed(m)) + Total(Actuals, Reconciled(m))
      /\ Reserved(m) = Total(Held, Holding(m))
  BY Balance
<1>4. /\ Spent(m)' = Total(Costs', Billed(m)') + Total(Actuals', Reconciled(m)')
      /\ Reserved(m)' = Total(Held', Holding(m)')
  BY NextBalance
<1>5. Spent(m)' = Spent(m) /\ Reserved(m)' = Reserved(m)
  BY <1>1, <1>2, <1>3, <1>4
<1> QED BY <1>5 DEF Kept

\* A step changes the balance only with the account in hand, or at an insertion.
LEMMA MoneyMoves ==
    ASSUME TypeOK, NEW c \in Calls, CallStep(c) \/ FaultStep(c) \/ Reconcile(c) \/ HourPasses(c)
    PROVE  Kept \/ AccountFree \/ (At(c, "insert") /\ calls'[c].step # "insert")
<1> USE DEF KeepHolds, KeepLedger, KeepWorld
<1>h. holds \in [Calls -> Hold]
  BY DEF TypeOK
<1>1. CASE holds' = holds /\ usage' = usage /\ budgets' = budgets
  BY <1>1 DEF Kept, Open, InFlight
<1>2. ASSUME NEW s \in {"in_flight", "uncertain"}, SetHold(c, s), InFlight(c),
             usage' = usage /\ budgets' = budgets
      PROVE  Kept
  <2>1. \A d \in Calls : d # c => holds'[d] = holds[d]
    BY <1>h, <1>2 DEF SetHold
  <2>2. /\ holds'[c].state = s /\ holds'[c].amount = holds[c].amount
        /\ holds'[c].actual = holds[c].actual /\ holds'[c].month = holds[c].month
    BY <1>h, <1>2 DEF SetHold, Hold
  <2> QED BY <1>2, <2>1, <2>2 DEF Kept, Open, InFlight
<1>3. CASE Price(c) \/ CheckUnpriced(c) \/ LockAccount(c) \/ ReadBalance(c)
  BY <1>1, <1>3 DEF Price, CheckUnpriced, LockAccount, ReadBalance
<1>4. CASE InsertHold(c) \/ FaultyAdmission(c)
  <2>1. /\ At(c, "insert") /\ (Goto(c, "start") \/ Goto(c, "failed"))
    BY <1>4 DEF InsertHold, FaultyAdmission, Fault
  <2>2. Went(c, "start") \/ Went(c, "failed")
    <3>1. \A s : Goto(c, s) => Went(c, s)
      BY Effects
    <3> QED BY <2>1, <3>1
  <2>3. calls'[c].step # "insert"
    BY <2>2 DEF Went
  <2> QED BY <2>1, <2>3
<1>5. CASE Start(c) \/ FaultyStart(c)
  BY <1>1, <1>2, <1>5 DEF Start, FaultyStart, InFlight, Fault
<1>6. CASE Dispatch(c) \/ Respond(c) \/ Fail(c)
  BY <1>1, <1>6 DEF Dispatch, Respond, Fail
<1>7. CASE Settle(c) \/ Record(c) \/ ReleaseUndispatched(c) \/ Reconcile(c)
  BY <1>7 DEF Settle, Record, ReleaseUndispatched, Reconcile
<1>8. CASE MarkUncertain(c)
  BY <1>1, <1>2, <1>8 DEF MarkUncertain
<1>9. CASE FaultySettlement(c) \/ FaultyRecord(c)
  BY <1>9 DEF FaultySettlement, FaultyRecord
<1>10. CASE FaultyCleanUp(c) \/ Crash(c)
  BY <1>1, <1>10 DEF FaultyCleanUp, Crash, Fault
<1>11. CASE HourPasses(c)
  BY <1>1, <1>11 DEF HourPasses
<1> QED BY <1>3, <1>4, <1>5, <1>6, <1>7, <1>8, <1>9, <1>10, <1>11 DEF CallStep, FaultStep

\* How a step of a call moves it and the account.
LEMMA LockMoves ==
    ASSUME TypeOK, NEW c \in Calls, CallStep(c) \/ FaultStep(c) \/ Reconcile(c) \/ HourPasses(c)
    PROVE  /\ \/ account' = account
              \/ AccountFree
              \/ account' = Nobody /\ (At(c, "insert") \/ account = c)
           /\ calls'[c].step = "read" /\ ~(calls'[c] = calls[c] /\ account' = account) => account' = c
           /\ calls'[c].step = "insert" /\ ~(calls'[c] = calls[c] /\ account' = account) =>
                 /\ ReadBalance(c)
                 /\ calls'[c].room = Fits(calls[c].at, calls[c].estimate)
                 /\ calls'[c].at = calls[c].at /\ calls'[c].estimate = calls[c].estimate
<1> USE DEF Goto, Fault
<1>h. c \in DOMAIN calls /\ calls[c] \in Call
  BY DEF TypeOK
<1>1. CASE Price(c) \/ CheckUnpriced(c)
  <2>1. account' = account /\ calls'[c].step \in {"unpriced", "lock", "dispatch", "failed"}
    <3>1. CASE Price(c)
      BY <1>h, <3>1 DEF Price, Call
    <3>2. CASE CheckUnpriced(c)
      BY <1>h, <3>2 DEF CheckUnpriced, Call
    <3> QED BY <1>1, <3>1, <3>2
  <2> QED BY <2>1
<1>2. CASE LockAccount(c)
  BY <1>h, <1>2 DEF LockAccount, Call
<1>3. CASE ReadBalance(c)
  <2>1. calls'[c] = [calls[c] EXCEPT !.step = "insert", !.room = Fits(calls[c].at, calls[c].estimate)]
    BY <1>h, <1>3, Zenon DEF ReadBalance
  <2>2. account' = account
    BY <1>3 DEF ReadBalance
  <2> DEFINE room == Fits(calls[c].at, calls[c].estimate)
  <2>3. calls'[c] = [calls[c] EXCEPT !.step = "insert", !.room = room]
    BY <2>1
  <2> HIDE DEF room
  <2>4. /\ calls'[c].step = "insert" /\ calls'[c].room = room
        /\ calls'[c].at = calls[c].at /\ calls'[c].estimate = calls[c].estimate
    BY <1>h, <2>3 DEF Call
  <2> QED BY <1>3, <2>2, <2>4 DEF room
<1>4. CASE InsertHold(c) \/ FaultyAdmission(c)
  BY <1>h, <1>4 DEF InsertHold, FaultyAdmission, Call
<1>5. CASE Start(c) \/ FaultyStart(c) \/ Dispatch(c)
  BY <1>h, <1>5 DEF Start, FaultyStart, Dispatch, Call
<1>6. CASE Respond(c) \/ Fail(c)
  BY <1>h, <1>6 DEF Respond, Fail, CleanUp, Call
<1>7. CASE Settle(c) \/ Record(c) \/ FaultySettlement(c) \/ FaultyRecord(c)
  BY <1>h, <1>7 DEF Settle, Record, AfterConflict, FaultySettlement, FaultyRecord, Call
<1>8. CASE MarkUncertain(c) \/ ReleaseUndispatched(c) \/ FaultyCleanUp(c)
  BY <1>h, <1>8 DEF MarkUncertain, ReleaseUndispatched, FaultyCleanUp, Call
<1>9. CASE Crash(c)
  BY <1>h, <1>9 DEF Crash, Call
<1>10. CASE Reconcile(c) \/ HourPasses(c)
  BY <1>10 DEF Reconcile, HourPasses
<1> QED BY <1>1, <1>2, <1>3, <1>4, <1>5, <1>6, <1>7, <1>8, <1>9, <1>10 DEF CallStep, FaultStep

\* Only an insertion reserves money, and it adds the estimate of its call.
LEMMA Reserves ==
    ASSUME TypeOK, NEW c \in Calls, CallStep(c) \/ FaultStep(c) \/ Reconcile(c) \/ HourPasses(c),
           holds[c].state = "absent", holds'[c].state = "reserved"
    PROVE  /\ At(c, "insert") /\ calls[c].room /\ Admit(c) /\ usage' = usage /\ budgets' = budgets
<1> USE DEF KeepHolds, KeepLedger, KeepWorld
<1>h. c \in DOMAIN holds /\ holds[c] \in Hold
  BY DEF TypeOK
<1>1. CASE InsertHold(c)
  BY <1>1 DEF InsertHold
<1>2. CASE FaultyAdmission(c)
  BY <1>2 DEF FaultyAdmission, Fault
<1>3. ASSUME holds' = holds PROVE FALSE
  BY <1>3
<1>4. ASSUME NEW s \in {"in_flight", "uncertain"}, SetHold(c, s) PROVE FALSE
  BY <1>h, <1>4 DEF SetHold, Hold
<1>5. ASSUME NEW s \in {"settled", "released"}, NEW n, NEW b, CloseHold(c, s, n, b) PROVE FALSE
  BY <1>h, <1>5 DEF CloseHold, Hold
<1>6. CASE Price(c) \/ CheckUnpriced(c) \/ LockAccount(c) \/ ReadBalance(c)
  BY <1>3, <1>6 DEF Price, CheckUnpriced, LockAccount, ReadBalance
<1>7. CASE Start(c) \/ FaultyStart(c) \/ MarkUncertain(c)
  BY <1>3, <1>4, <1>7 DEF Start, FaultyStart, MarkUncertain
<1>8. CASE Dispatch(c) \/ Respond(c) \/ Fail(c) \/ Record(c) \/ FaultyRecord(c)
  BY <1>3, <1>8 DEF Dispatch, Respond, Fail, Record, FaultyRecord
<1>9. CASE Settle(c) \/ FaultySettlement(c) \/ ReleaseUndispatched(c)
  BY <1>3, <1>5, <1>9 DEF Settle, FaultySettlement, SettleHold, ReleaseUndispatched
<1>10. CASE Reconcile(c)
  <2>1. PICK cost \in Charges : CloseHold(c, IF cost = 0 THEN "released" ELSE "settled", cost, FALSE)
    BY <1>10 DEF Reconcile
  <2> QED BY <1>5, <2>1
<1>11. CASE FaultyCleanUp(c) \/ Crash(c) \/ HourPasses(c)
  BY <1>3, <1>11 DEF FaultyCleanUp, Crash, HourPasses
<1> QED BY <1>1, <1>2, <1>6, <1>7, <1>8, <1>9, <1>10, <1>11 DEF CallStep, FaultStep

\* The account and the room found are kept to the insertion.
LEMMA AdmissionStep ==
    ASSUME Inv, \A c \in Calls : Inside(c) /\ Room(c), [Next]_vars
    PROVE  \A c \in Calls : Inside(c)' /\ Room(c)'
<1>1. TypeOK /\ TypeOK'
  BY TypeStep DEF Inv
<1>t. calls \in [Calls -> Call] /\ calls' \in [Calls -> Call]
  BY <1>1 DEF TypeOK
<1>2. ASSUME NEW d \in Calls, Kept, calls'[d] = calls[d], Room(d)
      PROVE  Room(d)'
  <2>1. PICK m \in Months : m = calls[d].at
    BY <1>t DEF Call
  <2>2. Spent(m)' = Spent(m) /\ Reserved(m)' = Reserved(m) /\ budgets'[m] = budgets[m]
    BY <1>1, <1>2, BalanceKept
  <2> QED BY <1>2, <2>1, <2>2 DEF Room, Fits
<1>3. ASSUME NEW c \in Calls, CallStep(c) \/ FaultStep(c) \/ Reconcile(c) \/ HourPasses(c), NEW d \in Calls
      PROVE  Inside(d)' /\ Room(d)'
  <2>1. Kept \/ AccountFree \/ (At(c, "insert") /\ calls'[c].step # "insert")
    BY <1>1, <1>3, MoneyMoves
  <2>2. /\ account' = account \/ AccountFree \/ (account' = Nobody /\ (At(c, "insert") \/ account = c))
        /\ calls'[c].step = "read" /\ ~(calls'[c] = calls[c] /\ account' = account) => account' = c
        /\ calls'[c].step = "insert" /\ ~(calls'[c] = calls[c] /\ account' = account) => ReadBalance(c)
    BY <1>1, <1>3, LockMoves
  <2>3. Inside(c) /\ Inside(d) /\ Room(d)
    OBVIOUS
  <2>4. CASE d # c
    <3>1. calls'[d] = calls[d]
      BY <1>1, <1>3, <2>4, OneCall DEF Untouched
    <3>2. calls[d].step \in {"read", "insert"} => account = d /\ account' = account /\ Kept
      BY <2>1, <2>2, <2>3, <2>4, NobodyAssumption DEF Inside, AccountFree, At
    <3>3. Inside(d)'
      BY <3>1, <3>2 DEF Inside
    <3>4. calls[d].step # "insert" => Room(d)'
      BY <3>1 DEF Room
    <3> QED BY <1>2, <2>3, <3>1, <3>2, <3>3, <3>4
  <2>5. CASE d = c
    <3>1. CASE ReadBalance(c)
      <4>1. account' = account /\ Kept /\ account = c
        BY <2>3, <3>1 DEF ReadBalance, Kept, KeepHolds, KeepLedger, KeepWorld, Open, InFlight, Inside, At
      <4>2. calls'[c].step = "insert" /\ calls[c].step = "read"
        BY <1>t, <3>1 DEF ReadBalance, At, Call
      <4>3. /\ calls'[c].room = Fits(calls[c].at, calls[c].estimate)
            /\ calls'[c].at = calls[c].at /\ calls'[c].estimate = calls[c].estimate
        BY <1>1, <1>3, <4>2, LockMoves
      <4>4. PICK m \in Months : m = calls[c].at
        BY <1>t DEF Call
      <4>5. /\ Spent(m)' = Spent(m) /\ Reserved(m)' = Reserved(m) /\ budgets'[m] = budgets[m]
        BY <1>1, <4>1, BalanceKept
      <4>6. Room(c)'
        BY <4>3, <4>4, <4>5 DEF Room, Fits
      <4>7. Inside(c)'
        BY <4>1 DEF Inside
      <4> QED BY <2>5, <4>6, <4>7
    <3>2. CASE calls'[c] = calls[c] /\ account' = account
      <4>1. ASSUME calls[c].step = "insert" PROVE Kept
        <5>1. account = c /\ c # Nobody
          BY <2>3, <4>1, NobodyAssumption DEF Inside
        <5>2. calls'[c].step = "insert"
          BY <3>2, <4>1
        <5>3. ~AccountFree
          BY <5>1 DEF AccountFree
        <5> QED BY <2>1, <5>2, <5>3
      <4>2. calls[c].step # "insert" => Room(c)'
        BY <3>2 DEF Room
      <4>3. Inside(c)'
        BY <2>3, <3>2 DEF Inside
      <4> QED BY <1>2, <2>3, <2>5, <3>2, <4>1, <4>2, <4>3
    <3>3. CASE ~ReadBalance(c) /\ ~(calls'[c] = calls[c] /\ account' = account)
      <4>1. calls'[c].step # "insert" /\ (calls'[c].step = "read" => account' = c)
        BY <2>2, <3>3
      <4> QED BY <2>5, <4>1 DEF Inside, Room
    <3> QED BY <3>1, <3>2, <3>3
  <2> QED BY <2>4, <2>5
<1>4. ASSUME CreateBudget, NEW d \in Calls
      PROVE  Inside(d)' /\ Room(d)'
  <2>1. account = Nobody /\ account' = account /\ calls' = calls
    BY <1>4 DEF CreateBudget, AccountFree
  <2>2. calls[d].step \notin {"read", "insert"}
    BY <2>1, NobodyAssumption DEF Inside
  <2> QED BY <2>1, <2>2 DEF Inside, Room
<1>5. ASSUME MonthEnds \/ UNCHANGED vars, NEW d \in Calls
      PROVE  Inside(d)' /\ Room(d)'
  <2>1. account' = account /\ calls' = calls /\ Kept
    BY <1>5 DEF MonthEnds, vars, Kept, KeepHolds, KeepLedger, Open, InFlight
  <2>2. Inside(d) /\ Room(d)
    OBVIOUS
  <2>3. Room(d)'
    BY <1>2, <2>1, <2>2
  <2> QED BY <2>1, <2>2, <2>3 DEF Inside
<1> QED BY <1>3, <1>4, <1>5 DEF Next

\* What one admission adds to the balance.
LEMMA Admitted ==
    ASSUME TypeOK, TypeOK', NEW c \in Calls, HasHold(c), holds[c].state = "absent",
           Admit(c), usage' = usage, NEW m \in Months, m = calls[c].at
    PROVE  Spent(m)' = Spent(m) /\ Reserved(m)' = Reserved(m) + calls[c].estimate
<1>1. calls[c].estimate \in Nat
  BY HoldOf DEF HasHold
<1>h. holds \in [Calls -> Hold]
  BY DEF TypeOK
<1>2. /\ holds'[c].month = m /\ holds'[c].amount = calls[c].estimate
      /\ holds'[c].state = "reserved" /\ holds'[c].actual = holds[c].actual
  BY <1>h DEF Admit, Hold
<1>3. \A d \in Calls : d # c => holds'[d] = holds[d]
  BY <1>h DEF Admit
<1>4. /\ Spent(m) = Total(Costs, Billed(m)) + Total(Actuals, Reconciled(m))
      /\ Reserved(m) = Total(Held, Holding(m))
  BY Balance
<1>5. /\ Spent(m)' = Total(Costs', Billed(m)') + Total(Actuals', Reconciled(m)')
      /\ Reserved(m)' = Total(Held', Holding(m)')
  BY NextBalance
<1>6. Costs' = Costs /\ Actuals' = Actuals /\ Billed(m)' = Billed(m)
  BY <1>2, <1>3 DEF Costs, Actuals, Billed
<1>7. Reconciled(m)' = Reconciled(m)
  BY <1>2, <1>3 DEF Reconciled
<1>8. Holding(m)' = Holding(m) \cup {c} /\ c \notin Holding(m)
  BY <1>2, <1>3 DEF Holding, Open, InFlight
<1>9. /\ Held \in Amounts /\ Held' \in Amounts /\ Held'[c] = calls[c].estimate
      /\ \A d \in Holding(m) : Held[d] = Held'[d]
  <2>1. Held \in Amounts /\ Held' \in Amounts
    BY BalanceType, NextBalance
  <2> QED BY <1>2, <1>3, <1>8, <2>1 DEF Held, Holding
<1>10. Holding(m) \in SUBSET Calls /\ c \in Calls \ Holding(m)
  BY <1>8 DEF Holding
<1> DEFINE a == Held
           b == Held'
           S == Holding(m)
<1> HIDE DEF a, b, S
<1>11. a \in Amounts /\ b \in Amounts /\ S \in SUBSET Calls /\ c \in Calls \ S /\ \A d \in S : a[d] = b[d]
  BY <1>9, <1>10 DEF a, b, S
<1>12. Total(b, S \cup {c}) = Total(a, S) + b[c]
  BY <1>11, TotalOf
<1>13. Reserved(m)' = Reserved(m) + calls[c].estimate
  BY <1>4, <1>5, <1>8, <1>9, <1>12 DEF a, b, S
<1>14. Spent(m)' = Spent(m)
  BY <1>4, <1>5, <1>6, <1>7
<1> QED BY <1>13, <1>14

\* Whatever other processes admit, settle, reconcile or budget between the two,
\* the balance an admission read is the balance it adds to.
THEOREM BudgetsHold == Spec => AdmissionFits
<1> DEFINE Entering(c, m) == holds[c].state = "absent" /\ holds'[c].state = "reserved" /\ holds'[c].month = m
           Good(c, m) == budgets'[m] = NoBudget \/ Spent(m)' + Reserved(m)' <= budgets'[m]
           All == \A c \in Calls : Inside(c) /\ Room(c)
<1>1. Init => All
  BY DEF Init, Inside, Room
<1>2. Inv /\ All /\ [Next]_vars => All'
  BY AdmissionStep
<1>3. Inv /\ Inv' /\ All /\ [Next]_vars => [\A c \in Calls, m \in Months : Entering(c, m) => Good(c, m)]_vars
  <2> SUFFICES ASSUME Inv, Inv', All, Next, NEW c \in Calls, NEW m \in Months, Entering(c, m)
               PROVE  Good(c, m)
    OBVIOUS
  <2>1. TypeOK /\ TypeOK' /\ Phase(c)
    BY DEF Inv, Local
  <2>2. CallStep(c) \/ FaultStep(c) \/ Reconcile(c) \/ HourPasses(c)
    <3>1. ASSUME NEW d \in Calls, d # c, CallStep(d) \/ FaultStep(d) \/ Reconcile(d) \/ HourPasses(d) PROVE FALSE
      BY <2>1, <3>1, OneCall DEF Untouched
    <3>2. ASSUME CreateBudget \/ MonthEnds PROVE FALSE
      BY <3>2 DEF CreateBudget, MonthEnds, KeepHolds
    <3> QED BY <3>1, <3>2 DEF Next
  <2>3. At(c, "insert") /\ calls[c].room /\ Admit(c) /\ usage' = usage /\ budgets' = budgets
    BY <2>1, <2>2, Reserves
  <2>4. HasHold(c)
    BY <2>1, <2>3 DEF Phase, At
  <2>5. calls[c].at = m
    BY <2>1, <2>3 DEF TypeOK, Hold, Admit
  <2>6. Fits(m, calls[c].estimate)
    BY <2>3, <2>5 DEF Room, At
  <2>7. budgets[m] = NoBudget \/ Spent(m) + Reserved(m) + calls[c].estimate <= budgets[m]
    BY <2>6 DEF Fits
  <2>8. Spent(m) \in Nat /\ Reserved(m) \in Nat /\ calls[c].estimate \in Nat
    <3>1. calls[c].estimate \in Nat
      BY <2>1, <2>4, HoldOf DEF HasHold
    <3>2. /\ Costs \in Amounts /\ Actuals \in Amounts /\ Held \in Amounts
          /\ Billed(m) \in SUBSET Calls /\ Reconciled(m) \in SUBSET Calls /\ Holding(m) \in SUBSET Calls
      BY <2>1, BalanceType DEF Billed, Reconciled, Holding
    <3>3. /\ Total(Costs, Billed(m)) \in Nat /\ Total(Actuals, Reconciled(m)) \in Nat
          /\ Total(Held, Holding(m)) \in Nat
      BY <3>2, TotalOf
    <3> QED BY <2>1, <3>1, <3>3, Balance
  <2>9. Spent(m)' = Spent(m) /\ Reserved(m)' = Reserved(m) + calls[c].estimate
    BY <2>1, <2>3, <2>4, <2>5, Admitted
  <2> QED BY <2>3, <2>7, <2>8, <2>9
<1>4. (\A c \in Calls, m \in Months : Entering(c, m) => Good(c, m))
      <=> (\A c \in Calls, m \in Months :
             holds[c].state = "absent" /\ holds'[c].state = "reserved" /\ holds'[c].month = m =>
                budgets'[m] = NoBudget \/ Spent(m)' + Reserved(m)' <= budgets'[m])
  OBVIOUS
<1> QED BY <1>1, <1>2, <1>3, Invariance, PTL DEF Spec, AdmissionFits

=============================================================================
