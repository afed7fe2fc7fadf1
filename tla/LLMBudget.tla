----------------------------- MODULE LLMBudget -----------------------------
(***************************************************************************)
(* The transactional LLM budget of one tenant and currency: gateway calls  *)
(* that price, reserve, start, dispatch and settle, and the operator who   *)
(* creates budgets and reconciles what the calls left behind.              *)
(*                                                                         *)
(* Calls run in different processes, so only the database orders them.     *)
(* The account row, updated first by every transaction that moves money,   *)
(* is a lock held to the end of that transaction.  An admission reads      *)
(* before it writes and is three steps here; the other transactions are    *)
(* one step that needs the lock.                                           *)
(*                                                                         *)
(* Abstracted: tokens and prices (an estimate, or none when the model is   *)
(* undeclared or has no pricing), prompt policy and preflight, the day of  *)
(* the month, audit details.  A row of either table belongs to the call    *)
(* that created it and is indexed by it.                                   *)
(***************************************************************************)
EXTENDS Naturals, FiniteSets, FiniteSetsExt

CONSTANTS
    Calls,          \* calls of generate_structured
    Estimates,      \* what a call may be estimated to cost
    NoPrice,        \* no applicable pricing
    Charges,        \* what a provider or an operator may report; 0 is no charge
    Limits,         \* budget amounts
    NoBudget,       \* no budget is valid in the month
    NoUsage,        \* the call has no usage event
    Nobody,         \* no transaction holds the account row
    MaxMonth, MaxFaults         \* bounds

ASSUME AmountAssumption ==
    /\ Estimates \subseteq Nat /\ Charges \subseteq Nat /\ Limits \subseteq Nat
    /\ NoPrice \notin Estimates /\ NoBudget \notin Limits
ASSUME CallAssumption == IsFiniteSet(Calls)     \* the tables are finite
ASSUME NobodyAssumption == Nobody \notin Calls
ASSUME UsageAssumption == NoUsage \notin [cost : Nat, month : Nat]
ASSUME BoundAssumption == MaxMonth \in Nat \ {0} /\ MaxFaults \in Nat

VARIABLES
    month,      \* the current UTC accounting month
    budgets,    \* tenant_budgets, by month
    account,    \* the transaction that holds the llm_budget_accounts row
    holds,      \* llm_budget_reservations
    aged,       \* holds without an update for over an hour
    usage,      \* llm_usage_events
    audited,    \* holds with a finops.reservation_reconciled audit event
    calls,      \* the local state of each gateway call
    sent,       \* history: calls handed to their provider
    lost,       \* history: calls whose own clean-up never reached the database
    faults      \* how many faults have been spent

vars == <<month, budgets, account, holds, aged, usage, audited, calls, sent,
          lost, faults>>

Months == 1..MaxMonth

HoldStates == {"absent", "reserved", "in_flight", "uncertain", "settled", "released"}

\* "billed" stands for a usage_event_id that is not NULL.
Hold == [state : HoldStates, amount : Nat, month : Months, actual : Nat, billed : BOOLEAN]

Steps == {"new", "unpriced", "lock", "read", "insert", "start", "dispatch", "waiting",
          "settle", "record", "uncertain", "release", "returned", "failed"}

Call == [step : Steps, at : Months, estimate : Estimates \cup {NoPrice},
         room : BOOLEAN, charge : Nat]

Init ==
    /\ month = 1
    /\ budgets = [m \in Months |-> NoBudget]
    /\ account = Nobody
    /\ holds = [c \in Calls |-> [state |-> "absent", amount |-> 0, month |-> 1,
                                 actual |-> 0, billed |-> FALSE]]
    /\ aged = {}
    /\ usage = [c \in Calls |-> NoUsage]
    /\ audited = {}
    /\ calls = [c \in Calls |-> [step |-> "new", at |-> 1, estimate |-> NoPrice,
                                 room |-> FALSE, charge |-> 0]]
    /\ sent = {}
    /\ lost = {}
    /\ faults = 0

-----------------------------------------------------------------------------
(* The balance.                                                            *)

InFlight(c) == holds[c].state \in {"reserved", "in_flight"}
Open(c) == InFlight(c) \/ holds[c].state = "uncertain"

\* Usage of the month, and holds an operator settled without a usage event.
Spent(m) ==
    MapThenSumSet(LAMBDA c : usage[c].cost,
                  {c \in Calls : usage[c] # NoUsage /\ usage[c].month = m})
    + MapThenSumSet(LAMBDA c : holds[c].actual,
                    {c \in Calls : /\ holds[c].state = "settled" /\ ~holds[c].billed
                                   /\ holds[c].month = m})

Reserved(m) ==
    MapThenSumSet(LAMBDA c : holds[c].amount, {c \in Calls : Open(c) /\ holds[c].month = m})

Fits(m, amount) == budgets[m] = NoBudget \/ Spent(m) + Reserved(m) + amount <= budgets[m]

-----------------------------------------------------------------------------
(* Steps of a call.                                                        *)

\* Mutant: the account row is not locked first.
AccountFree_NoLock == TRUE

AccountFree == account = Nobody

At(c, step) == calls[c].step = step

Goto(c, step) == calls' = [calls EXCEPT ![c].step = step]

\* An UPDATE of the reservation row refreshes updated_at.
SetHold(c, state) ==
    /\ holds' = [holds EXCEPT ![c].state = state]
    /\ aged' = aged \ {c}

CloseHold(c, state, actual, billed) ==
    /\ holds' = [holds EXCEPT ![c].state = state, ![c].actual = actual, ![c].billed = billed]
    /\ aged' = aged \ {c}

KeepHolds == UNCHANGED <<holds, aged>>
KeepLedger == UNCHANGED <<usage, audited>>
KeepWorld == UNCHANGED <<month, budgets>>

\* The accounting moment is fixed before the model is priced.
Price(c) ==
    /\ At(c, "new")
    /\ \E estimate \in Estimates \cup {NoPrice} :
          calls' = [calls EXCEPT ![c].at = month, ![c].estimate = estimate,
                                 ![c].step = IF estimate = NoPrice THEN "unpriced" ELSE "lock"]
    /\ KeepHolds /\ KeepLedger /\ KeepWorld
    /\ UNCHANGED <<account, sent, lost, faults>>

\* has_active_budget, asked at the moment of the question.
CheckUnpriced(c) ==
    /\ At(c, "unpriced")
    /\ Goto(c, IF budgets[month] = NoBudget THEN "dispatch" ELSE "failed")
    /\ KeepHolds /\ KeepLedger /\ KeepWorld
    /\ UNCHANGED <<account, sent, lost, faults>>

LockAccount(c) ==
    /\ At(c, "lock")
    /\ AccountFree
    /\ account' = c
    /\ Goto(c, "read")
    /\ KeepHolds /\ KeepLedger /\ KeepWorld
    /\ UNCHANGED <<sent, lost, faults>>

ReadBalance(c) ==
    /\ At(c, "read")
    /\ calls' = [calls EXCEPT ![c].step = "insert",
                              ![c].room = Fits(calls[c].at, calls[c].estimate)]
    /\ KeepHolds /\ KeepLedger /\ KeepWorld
    /\ UNCHANGED <<account, sent, lost, faults>>

Admit(c) ==
    /\ holds' = [holds EXCEPT ![c].state = "reserved", ![c].amount = calls[c].estimate,
                              ![c].month = calls[c].at]
    /\ aged' = aged \ {c}

InsertHold(c) ==
    /\ At(c, "insert")
    /\ account' = Nobody
    /\ \/ calls[c].room /\ Admit(c) /\ Goto(c, "start")
       \/ ~calls[c].room /\ KeepHolds /\ Goto(c, "failed")
    /\ KeepLedger /\ KeepWorld
    /\ UNCHANGED <<sent, lost, faults>>

\* start_llm_budget_reservation; a conflict sends the call to its handler.
Start(c) ==
    /\ At(c, "start")
    /\ \/ holds[c].state = "reserved" /\ SetHold(c, "in_flight") /\ Goto(c, "dispatch")
       \/ holds[c].state # "reserved" /\ KeepHolds /\ Goto(c, "release")
    /\ KeepLedger /\ KeepWorld
    /\ UNCHANGED <<account, sent, lost, faults>>

Dispatch(c) ==
    /\ At(c, "dispatch")
    /\ sent' = sent \cup {c}
    /\ Goto(c, "waiting")
    /\ KeepHolds /\ KeepLedger /\ KeepWorld
    /\ UNCHANGED <<account, lost, faults>>

\* Did generate_structured obtain a reservation?
HasHold(c) == calls[c].estimate # NoPrice

Respond(c) ==
    /\ At(c, "waiting")
    /\ \E charge \in Charges :
          calls' = [calls EXCEPT ![c].charge = charge,
                                 ![c].step = IF HasHold(c) THEN "settle" ELSE "record"]
    /\ KeepHolds /\ KeepLedger /\ KeepWorld
    /\ UNCHANGED <<account, sent, lost, faults>>

\* The step a failed call cleans up in.  Mutants: a timeout is taken for a
\* call that never left; only the budget error has a handler.
CleanUp_ReleasesTimeouts(c) == IF HasHold(c) THEN "release" ELSE "failed"
CleanUp_BudgetErrorsOnly(c) == "failed"
CleanUp(c) == IF HasHold(c) THEN "uncertain" ELSE "failed"

\* The provider raises, times out, or answers for a model or pricing that the
\* settlement refuses before its transaction.
Fail(c) ==
    /\ At(c, "waiting")
    /\ Goto(c, CleanUp(c))
    /\ KeepHolds /\ KeepLedger /\ KeepWorld
    /\ UNCHANGED <<account, sent, lost, faults>>

MaySettle(c) == holds[c].state \in {"in_flight", "uncertain"}

\* Mutant: the usage event keeps its own timestamp.
UsageMonth_OfTheAnswer(c) == month
UsageMonth(c) == holds[c].month

\* Settlement and usage event commit together.
SettleHold(c) ==
    /\ CloseHold(c, "settled", calls[c].charge, TRUE)
    /\ usage' = [usage EXCEPT ![c] = [cost |-> calls[c].charge, month |-> UsageMonth(c)]]

\* Mutant: losing to a reconciliation is not an error.
AfterConflict_Ignored == "returned"
AfterConflict == "uncertain"

\* The early return for a hold already settled with this usage needs a second
\* settlement of one call, which the gateway never makes.
Settle(c) ==
    /\ At(c, "settle")
    /\ AccountFree
    /\ \/ MaySettle(c) /\ SettleHold(c) /\ Goto(c, "returned")
       \/ ~MaySettle(c) /\ KeepHolds /\ UNCHANGED usage /\ Goto(c, AfterConflict)
    /\ KeepWorld
    /\ UNCHANGED <<account, audited, sent, lost, faults>>

\* Usage of a call without a reservation, at the moment of the answer.
Record(c) ==
    /\ At(c, "record")
    /\ AccountFree
    /\ usage' = [usage EXCEPT ![c] = [cost |-> calls[c].charge, month |-> month]]
    /\ Goto(c, "returned")
    /\ KeepHolds /\ KeepWorld
    /\ UNCHANGED <<account, audited, sent, lost, faults>>

MarkUncertain(c) ==
    /\ At(c, "uncertain")
    /\ \/ InFlight(c) /\ SetHold(c, "uncertain")
       \/ ~InFlight(c) /\ KeepHolds
    /\ Goto(c, "failed")
    /\ KeepLedger /\ KeepWorld
    /\ UNCHANGED <<account, sent, lost, faults>>

ReleaseUndispatched(c) ==
    /\ At(c, "release")
    /\ AccountFree
    /\ \/ InFlight(c) /\ CloseHold(c, "released", 0, FALSE)
       \/ ~InFlight(c) /\ KeepHolds
    /\ Goto(c, "failed")
    /\ KeepLedger /\ KeepWorld
    /\ UNCHANGED <<account, sent, lost, faults>>

-----------------------------------------------------------------------------
(* Faults.  A transaction may fail, or commit without the caller learning. *)

Fault(c, step) ==
    /\ faults < MaxFaults
    /\ faults' = faults + 1
    /\ Goto(c, step)
    /\ KeepWorld
    /\ UNCHANGED <<audited, sent>>

\* generate_structured never saw a reservation, so nothing cleans it up.
FaultyAdmission(c) ==
    /\ At(c, "insert") /\ calls[c].room
    /\ Fault(c, "failed")
    /\ account' = Nobody
    /\ \/ Admit(c) /\ lost' = lost \cup {c}
       \/ KeepHolds /\ UNCHANGED lost
    /\ UNCHANGED usage

FaultyStart(c) ==
    /\ At(c, "start")
    /\ Fault(c, "release")
    /\ \/ holds[c].state = "reserved" /\ SetHold(c, "in_flight")
       \/ KeepHolds
    /\ UNCHANGED <<account, usage, lost>>

FaultySettlement(c) ==
    /\ At(c, "settle") /\ AccountFree
    /\ Fault(c, "uncertain")
    /\ \/ MaySettle(c) /\ SettleHold(c)
       \/ KeepHolds /\ UNCHANGED usage
    /\ UNCHANGED <<account, lost>>

FaultyRecord(c) ==
    /\ At(c, "record") /\ AccountFree
    /\ Fault(c, "failed")
    /\ usage' = [usage EXCEPT ![c] = [cost |-> calls[c].charge, month |-> month]]
    /\ KeepHolds
    /\ UNCHANGED <<account, lost>>

\* The exception handler's own write fails.
FaultyCleanUp(c) ==
    /\ calls[c].step \in {"uncertain", "release"}
    /\ Fault(c, "failed")
    /\ lost' = lost \cup {c}
    /\ KeepHolds
    /\ UNCHANGED <<account, usage>>

\* The process dies; the database rolls back its open transaction.
Crash(c) ==
    /\ calls[c].step \notin {"new", "returned", "failed"}
    /\ Fault(c, "failed")
    /\ account' = IF account = c THEN Nobody ELSE account
    /\ lost' = lost \cup {c}
    /\ KeepHolds
    /\ UNCHANGED usage

-----------------------------------------------------------------------------
(* The operator and the calendar.                                          *)

MayReconcile(c) == holds[c].state = "uncertain" \/ (InFlight(c) /\ c \in aged)

Reconcile(c) ==
    /\ AccountFree
    /\ MayReconcile(c)
    /\ \E cost \in Charges :
          CloseHold(c, IF cost = 0 THEN "released" ELSE "settled", cost, FALSE)
    /\ audited' = audited \cup {c}
    /\ KeepWorld
    /\ UNCHANGED <<account, usage, calls, sent, lost, faults>>

\* create_tenant_budget refuses an interval that overlaps another budget's.
CreateBudget ==
    /\ AccountFree
    /\ \E first, last \in Months, limit \in Limits :
          /\ first <= last
          /\ \A m \in first..last : budgets[m] = NoBudget
          /\ budgets' = [m \in Months |-> IF m \in first..last THEN limit ELSE budgets[m]]
    /\ KeepHolds /\ KeepLedger
    /\ UNCHANGED <<month, account, calls, sent, lost, faults>>

\* An hour passes without an update of the hold.
HourPasses(c) ==
    /\ InFlight(c) /\ c \notin aged
    /\ aged' = aged \cup {c}
    /\ KeepLedger /\ KeepWorld
    /\ UNCHANGED <<account, holds, calls, sent, lost, faults>>

MonthEnds ==
    /\ month < MaxMonth
    /\ month' = month + 1
    /\ KeepHolds /\ KeepLedger
    /\ UNCHANGED <<budgets, account, calls, sent, lost, faults>>

CallStep(c) ==
    \/ Price(c) \/ CheckUnpriced(c) \/ LockAccount(c) \/ ReadBalance(c) \/ InsertHold(c)
    \/ Start(c) \/ Dispatch(c) \/ Respond(c) \/ Fail(c) \/ Settle(c) \/ Record(c)
    \/ MarkUncertain(c) \/ ReleaseUndispatched(c)

FaultStep(c) ==
    \/ FaultyAdmission(c) \/ FaultyStart(c) \/ FaultySettlement(c) \/ FaultyRecord(c)
    \/ FaultyCleanUp(c) \/ Crash(c)

Next ==
    \/ \E c \in Calls : CallStep(c) \/ FaultStep(c) \/ Reconcile(c) \/ HourPasses(c)
    \/ CreateBudget
    \/ MonthEnds

Spec == Init /\ [][Next]_vars

\* A live process runs on, and every provider has a timeout.
FairSpec == Spec /\ \A c \in Calls : WF_vars(CallStep(c))

-----------------------------------------------------------------------------
(* Properties.                                                             *)

TypeOK ==
    /\ month \in Months
    /\ budgets \in [Months -> Limits \cup {NoBudget}]
    /\ account \in Calls \cup {Nobody}
    /\ holds \in [Calls -> Hold]
    /\ aged \subseteq Calls
    /\ usage \in [Calls -> [cost : Nat, month : Months] \cup {NoUsage}]
    /\ audited \subseteq Calls
    /\ calls \in [Calls -> Call]
    /\ sent \subseteq Calls
    /\ lost \subseteq Calls
    /\ faults \in 0..MaxFaults

\* "Another request cannot reuse the same available funds": whenever a hold
\* enters a month that has a budget, the month's recorded spend and all its
\* open holds, the new one included, are within the budget, whatever other
\* processes admitted, settled or budgeted meanwhile (reserve_llm_budget).
AdmissionFits ==
    [][\A c \in Calls, m \in Months :
          holds[c].state = "absent" /\ holds'[c].state = "reserved" /\ holds'[c].month = m =>
              budgets'[m] = NoBudget \/ Spent(m)' + Reserved(m)' <= budgets'[m]]_vars

\* The two tables agree: a reserved call has a usage event exactly when its
\* hold was settled by the call itself, for the same cost and in the month
\* that admitted it, so the balance counts the call once (llm_budget_balance).
CountedOnce ==
    \A c \in Calls :
        holds[c].state # "absent" =>
            /\ usage[c] # NoUsage <=> holds[c].state = "settled" /\ holds[c].billed
            /\ usage[c] # NoUsage =>
                  usage[c] = [cost |-> holds[c].actual, month |-> holds[c].month]

\* Money held for a call that reached its provider comes back only through an
\* operator's audited decision: a timeout can still be charged
\* (generate_structured's handler, release_undispatched_llm_budget).
DispatchedMoneyIsKept ==
    \A c \in Calls : holds[c].state = "released" /\ c \in sent => c \in audited

\* A call that returned a result has its usage on record, at the cost of the
\* answer; if it was reserved, its own settlement closed the hold
\* (generate_structured returns only after settle or record_llm_usage).
ResultsAreAccounted ==
    \A c \in Calls :
        calls[c].step = "returned" =>
            /\ usage[c] # NoUsage /\ usage[c].cost = calls[c].charge
            /\ HasHold(c) => holds[c].state = "settled" /\ holds[c].billed

\* Whoever loses the race between settlement, reconciliation and clean-up
\* changes nothing: a closed hold and a usage event are final.
ClosedHoldsStay ==
    [][\A c \in Calls :
          /\ holds[c].state \in {"settled", "released"} => holds'[c] = holds[c]
          /\ usage[c] # NoUsage => usage'[c] = usage[c]]_vars

\* A hold does not stay in flight behind a finished call: it is settled,
\* released or marked uncertain, unless the process died or its clean-up or
\* its admission failed (then only reconciliation frees it).
HoldsLeaveFlight ==
    \A c \in Calls : InFlight(c) ~> (~InFlight(c) \/ c \in lost)

=============================================================================
