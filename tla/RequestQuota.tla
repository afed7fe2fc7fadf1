---------------------------- MODULE RequestQuota ----------------------------
(***************************************************************************)
(* Request quotas shared by the API replicas: every HTTP request takes a   *)
(* lease in each of its scopes (user, tenant, DataSource), renews it while *)
(* it runs and releases it at the end; operational retention deletes idle  *)
(* scope rows under its feet.                                              *)
(*                                                                         *)
(* A request reads the clock of its replica before it talks to the         *)
(* database, and acts on that reading however much later its transaction   *)
(* runs.  The replicas' clocks differ: `clock` is the one furthest ahead,  *)
(* in ticks, and a reading is up to Lag ticks behind it.  A lease is alive *)
(* until that clock has passed it, since from then on a replica may delete *)
(* it.  Transactions of one scope are ordered by the scope's row lock.  An *)
(* acquisition counts and then inserts, so it is two steps here; the other *)
(* transactions are one step that needs the locks of their scopes.         *)
(*                                                                         *)
(* Abstracted: authentication and the HTTP answers.                        *)
(***************************************************************************)
EXTENDS Naturals, Sequences, FiniteSets, TLC

CONSTANTS
    Requests,       \* clients, each with one HTTP request (and lease id) at a time
    Scopes,         \* scope keys
    ScopesOf,       \* the scopes of a request, in the order they are acquired
    MaxConcurrent,  \* per scope
    MaxRequests,    \* per scope and window
    Window,         \* window_seconds, in ticks
    TTL,            \* lease_seconds, in ticks
    Lag,            \* how far the replicas' clocks may be apart, in ticks
    NoRow, Nobody,
    MaxTime, MaxSent, MaxFaults     \* bounds

ASSUME ScopeAssumption ==
    /\ ScopesOf \in [Requests -> Seq(Scopes)]
    /\ \A r \in Requests : ScopesOf[r] # <<>>
    /\ {MaxConcurrent, MaxRequests} \subseteq [Scopes -> Nat \ {0}]
ASSUME TimeAssumption ==
    {Window, TTL, MaxTime} \subseteq Nat \ {0} /\ {Lag, MaxSent, MaxFaults} \subseteq Nat
ASSUME NobodyAssumption == Nobody \notin Requests
ASSUME RequestsAssumption == IsFiniteSet(Requests)

VARIABLES
    clock,      \* now, by the clock that is furthest ahead
    rows,       \* request_quota_windows
    leases,     \* request_concurrency_leases: expires_at, 0 if there is none
    locks,      \* the acquisition that holds a scope's row
    req,        \* each request's progress through acquire and run_with_lease
    admitted,   \* history: leases granted per scope and window
    sent,       \* how many requests have been sent
    purged,     \* history: scopes and windows whose row retention deleted
    faults      \* how many faults have been spent

vars == <<clock, rows, leases, locks, req, admitted, sent, purged, faults>>

Windows == 0..(MaxTime \div Window)
\* Mutant: the window number is the time itself.
WindowOf_Undivided(time) == time
WindowOf(time) == time \div Window

Row == [window : Windows, count : Nat, updated : 0..MaxTime]

ASSUME NoRowAssumption == NoRow \notin Row

Steps == {"new", "lock", "admit", "running", "release", "over", "crashed"}

\* "taken" counts the scopes acquired so far; "now" is the clock reading of the
\* acquisition, "beat" the renewal under way and "beatNow" its reading, both 0
\* once they are used; "leaked": a fault kept the request from freeing a lease.
Req == [step : Steps, now : 0..MaxTime, taken : Nat, full : BOOLEAN,
        beat : {"asleep", "renewing"}, beatNow : 0..MaxTime, leaked : BOOLEAN]

Init ==
    /\ clock = 1
    /\ rows = [s \in Scopes |-> NoRow]
    /\ leases = [s \in Scopes |-> [r \in Requests |-> 0]]
    /\ locks = [s \in Scopes |-> Nobody]
    /\ req = [r \in Requests |-> [step |-> "new", now |-> 0, taken |-> 0, full |-> FALSE,
                                  beat |-> "asleep", beatNow |-> 0, leaked |-> FALSE]]
    /\ admitted = [s \in Scopes |-> [w \in Windows |-> 0]]
    /\ sent = 0
    /\ purged = {}
    /\ faults = 0

-----------------------------------------------------------------------------
(* Acquisition.                                                            *)

\* The scope r acquires next, and the one it acquired last.
NextScope(r) == ScopesOf[r][req[r].taken + 1]
LastScope(r) == ScopesOf[r][req[r].taken]

Unlocked(s) == locks[s] = Nobody

HoldersAt(s, now) == {r \in Requests : leases[s][r] > now}

\* What the clock of some replica may read.
Readings == {time \in 0..clock : time + Lag >= clock}

\* A client sends its next request, to any replica, when the last one is over
\* (and left nothing, not even a thread that still renews).
Begin(r) ==
    /\ req[r].step \in {"new", "over"} /\ ~req[r].leaked /\ req[r].beat = "asleep"
    /\ sent < MaxSent
    /\ sent' = sent + 1
    /\ \E now \in Readings :
          req' = [req EXCEPT ![r] = [req[r] EXCEPT !.step = "lock", !.now = now]]
    /\ UNCHANGED <<clock, rows, leases, locks, admitted, purged, faults>>

\* Mutant: the scope row is not locked before the leases are counted.
MayLock_Always(r) == TRUE
MayLock(r) == Unlocked(NextScope(r))

\* Insert the scope row if it is missing, lock it, count the leases that are
\* live by the request's own clock reading.
LockScope(r) ==
    /\ req[r].step = "lock"
    /\ MayLock(r)
    /\ LET s == NextScope(r)
           window == IF rows[s] = NoRow THEN WindowOf(req[r].now) ELSE rows[s].window
           count == IF rows[s] = NoRow THEN 0 ELSE rows[s].count
       IN  /\ locks' = [locks EXCEPT ![s] = r]
           /\ rows' = [rows EXCEPT ![s] =
                          [window |-> window, count |-> count, updated |-> req[r].now]]
           /\ req' = [req EXCEPT ![r] = [req[r] EXCEPT
                        !.step = "admit",
                        !.full = Cardinality(HoldersAt(s, req[r].now)) >= MaxConcurrent[s]]]
    /\ UNCHANGED <<clock, leases, admitted, sent, purged, faults>>

\* The conditional update of the window counter.  Mutant: a request that read
\* its clock in an earlier window restarts the counter.
InRate_AnyWindow(s, window) == rows[s].window # window \/ rows[s].count < MaxRequests[s]
InRate(s, window) ==
    rows[s].window < window \/ (rows[s].window = window /\ rows[s].count < MaxRequests[s])

\* The scope's leases without those that expired by r's clock reading, and
\* with r's own if it is granted.
LeasesAfter(s, r, granted) ==
    [q \in Requests |->
        IF q = r /\ granted THEN req[r].now + TTL
        ELSE IF leases[s][q] <= req[r].now THEN 0 ELSE leases[s][q]]

Grant(r, s) ==
    LET window == WindowOf(req[r].now)
        again == rows[s].window = window
    IN  /\ rows' = [rows EXCEPT ![s] = [rows[s] EXCEPT !.window = window,
                                                !.count = IF again THEN @ + 1 ELSE 1]]
        /\ leases' = [leases EXCEPT ![s] = LeasesAfter(s, r, TRUE)]
        /\ admitted' = [admitted EXCEPT ![s][window] = @ + 1]

AfterDenial(r) == IF req[r].taken = 0 THEN "over" ELSE "release"
Denied(r) == [req[r] EXCEPT !.step = AfterDenial(r), !.now = 0]

Admit(r) ==
    /\ req[r].step = "admit"
    /\ LET s == NextScope(r)
           granted == ~req[r].full /\ InRate(s, WindowOf(req[r].now))
           last == req[r].taken + 1 = Len(ScopesOf[r])
       IN  /\ locks' = [locks EXCEPT ![s] = Nobody]
           /\ \/ /\ granted
                 /\ Grant(r, s)
                 /\ req' = [req EXCEPT ![r] = [req[r] EXCEPT
                                !.taken = @ + 1, !.now = IF last THEN 0 ELSE @,
                                !.step = IF last THEN "running" ELSE "lock"]]
              \/ /\ ~granted
                 /\ leases' = [leases EXCEPT ![s] = LeasesAfter(s, r, FALSE)]
                 /\ req' = [req EXCEPT ![r] = Denied(r)]
                 /\ UNCHANGED <<rows, admitted>>
    /\ UNCHANGED <<clock, sent, purged, faults>>

-----------------------------------------------------------------------------
(* The operation, its heartbeat, and the release.                          *)

RequestScopes(r) == {ScopesOf[r][i] : i \in 1..Len(ScopesOf[r])}

\* The operation ends, by itself or cancelled.  The heartbeat task is cancelled
\* with it, but not the thread of a renewal under way.
Finish(r) ==
    /\ req[r].step = "running"
    /\ req' = [req EXCEPT ![r].step = "release"]
    /\ UNCHANGED <<clock, rows, leases, locks, admitted, sent, purged, faults>>

StartRenewal(r) ==
    /\ req[r].step = "running" /\ req[r].beat = "asleep"
    /\ \E now \in Readings :
          req' = [req EXCEPT ![r] = [req[r] EXCEPT !.beat = "renewing", !.beatNow = now]]
    /\ UNCHANGED <<clock, rows, leases, locks, admitted, sent, purged, faults>>

\* Mutant: it is enough that one scope still has the lease.
MayRenew_SomeScope(r) == \E s \in RequestScopes(r) : leases[s][r] > req[r].beatNow
MayRenew(r) == \A s \in RequestScopes(r) : leases[s][r] > req[r].beatNow

\* The scope rows, locked and hence touched.
Touched(scopes, time) ==
    [s \in Scopes |-> IF s \in scopes /\ rows[s] # NoRow
                      THEN [rows[s] EXCEPT !.updated = time] ELSE rows[s]]

\* An UPDATE reaches only the lease rows that exist.
Renewed(r) ==
    [s \in Scopes |-> IF s \in RequestScopes(r) /\ leases[s][r] > 0
                      THEN [leases[s] EXCEPT ![r] = req[r].beatNow + TTL] ELSE leases[s]]

\* What a refused renewal does to the operation, if it still runs.  Mutant:
\* nothing.
AfterRefusal_Ignored(r) == req[r].step
AfterRefusal(r) == IF req[r].step = "running" THEN "release" ELSE req[r].step

\* The renewal is done.
Rested(r) == [req[r] EXCEPT !.beat = "asleep", !.beatNow = 0]

FinishRenewal(r) ==
    /\ req[r].beat = "renewing"
    /\ \A s \in RequestScopes(r) : Unlocked(s)
    /\ rows' = Touched(RequestScopes(r), req[r].beatNow)
    /\ \/ /\ MayRenew(r)
          /\ leases' = Renewed(r)
          /\ req' = [req EXCEPT ![r] = Rested(r)]
       \/ /\ ~MayRenew(r)
          /\ req' = [req EXCEPT ![r] = [Rested(r) EXCEPT !.step = AfterRefusal(r)]]
          /\ UNCHANGED leases
    /\ UNCHANGED <<clock, locks, admitted, sent, purged, faults>>

\* Mutant: the scope's leases are deleted without matching the lease id.
Freed_WholeScope(s, r) == [leases EXCEPT ![s] = [q \in Requests |-> 0]]
Freed(s, r) == [leases EXCEPT ![s][r] = 0]

\* Scopes are released in reverse order, each in its transaction.
Release(r) ==
    /\ req[r].step = "release"
    /\ Unlocked(LastScope(r))
    /\ leases' = Freed(LastScope(r), r)
    /\ \E now \in Readings : rows' = Touched({LastScope(r)}, now)
    /\ req' = [req EXCEPT ![r] = [req[r] EXCEPT
                    !.taken = @ - 1, !.step = IF req[r].taken = 1 THEN "over" ELSE "release"]]
    /\ UNCHANGED <<clock, locks, admitted, sent, purged, faults>>

-----------------------------------------------------------------------------
(* Faults, time, retention.                                                *)

Fault == faults < MaxFaults /\ faults' = faults + 1 /\ UNCHANGED <<clock, sent, purged>>

\* The acquiring transaction fails, or commits unnoticed: the scope is not
\* among those acquire gives back.
FaultyAdmit(r) ==
    /\ req[r].step = "admit"
    /\ Fault
    /\ locks' = [locks EXCEPT ![NextScope(r)] = Nobody]
    /\ \/ /\ ~req[r].full /\ InRate(NextScope(r), WindowOf(req[r].now))
          /\ Grant(r, NextScope(r))
          /\ req' = [req EXCEPT ![r] = [Denied(r) EXCEPT !.leaked = TRUE]]
       \/ /\ req' = [req EXCEPT ![r] = Denied(r)]
          /\ UNCHANGED <<rows, leases, admitted>>

\* A renewal that raises stops the operation like a refused one.
FaultyRenewal(r) ==
    /\ req[r].beat = "renewing"
    /\ Fault
    /\ req' = [req EXCEPT ![r] = [Rested(r) EXCEPT !.step = AfterRefusal(r)]]
    /\ UNCHANGED <<rows, leases, locks, admitted>>

\* A release that raises leaves the remaining scopes to expiry.
FaultyRelease(r) ==
    /\ req[r].step = "release"
    /\ Fault
    /\ req' = [req EXCEPT ![r] = [req[r] EXCEPT !.step = "over", !.leaked = TRUE]]
    /\ UNCHANGED <<rows, leases, locks, admitted>>

Crash(r) ==
    /\ req[r].step \notin {"new", "over", "crashed"}
    /\ Fault
    /\ req' = [req EXCEPT ![r] = [Rested(r) EXCEPT !.step = "crashed", !.now = 0, !.leaked = TRUE]]
    /\ locks' = [s \in Scopes |-> IF locks[s] = r THEN Nobody ELSE locks[s]]
    /\ UNCHANGED <<rows, leases, admitted>>

Tick ==
    /\ clock < MaxTime
    /\ clock' = clock + 1
    /\ UNCHANGED <<rows, leases, locks, req, admitted, sent, purged, faults>>

Purgeable(s, cutoff) == rows[s].updated < cutoff /\ HoldersAt(s, cutoff) = {}

\* purge_operational_records; the lease rows cascade with their scope row.
Purge(s) ==
    /\ rows[s] # NoRow /\ Unlocked(s)
    /\ \E cutoff \in 0..(clock - 1) : Purgeable(s, cutoff)
    /\ rows' = [rows EXCEPT ![s] = NoRow]
    /\ leases' = [leases EXCEPT ![s] = [r \in Requests |-> 0]]
    /\ purged' = purged \cup {<<s, rows[s].window>>}
    /\ UNCHANGED <<clock, locks, req, admitted, sent, faults>>

RequestStep(r) ==
    \/ Begin(r) \/ LockScope(r) \/ Admit(r) \/ Finish(r) \/ StartRenewal(r)
    \/ FinishRenewal(r) \/ Release(r)

Next ==
    \/ \E r \in Requests : \/ RequestStep(r) \/ FaultyAdmit(r) \/ FaultyRenewal(r)
                           \/ FaultyRelease(r) \/ Crash(r)
    \/ \E s \in Scopes : Purge(s)
    \/ Tick

Spec == Init /\ [][Next]_vars

\* The heartbeat fires every third of the TTL, a transaction that holds a lock
\* ends, and the database queues those that wait for one; nothing is assumed of
\* the operation itself.
FairSpec ==
    /\ Spec
    /\ \A r \in Requests :
          WF_vars(Admit(r)) /\ WF_vars(StartRenewal(r)) /\ SF_vars(FinishRenewal(r))

-----------------------------------------------------------------------------
(* Properties.                                                             *)

TypeOK ==
    /\ clock \in 0..MaxTime
    /\ rows \in [Scopes -> Row \cup {NoRow}]
    /\ leases \in [Scopes -> [Requests -> 0..(MaxTime + TTL)]]
    /\ locks \in [Scopes -> Requests \cup {Nobody}]
    /\ req \in [Requests -> Req]
    /\ admitted \in [Scopes -> [Windows -> Nat]]
    /\ sent \in 0..MaxSent
    /\ purged \subseteq (Scopes \X Windows)
    /\ faults \in 0..MaxFaults

\* The concurrency quota: a scope never has more live leases than it allows,
\* across replicas, clocks that differ, stale readings, renewals and retention
\* (try_acquire_request_quota).
ConcurrencyIsBounded ==
    \A s \in Scopes : Cardinality(HoldersAt(s, clock)) <= MaxConcurrent[s]

\* Retention deleted the scope's counter when it had reached the window.
CounterLost(s, w) == \E v \in Windows : v >= w /\ <<s, v>> \in purged

\* The rate quota: no window of a scope admits more requests than allowed, even
\* when requests of an earlier window arrive late, unless retention deleted the
\* counter (try_acquire_request_quota).
RateIsBounded ==
    \A s \in Scopes, w \in Windows : ~CounterLost(s, w) => admitted[s][w] <= MaxRequests[s]

\* Both quotas hold.
QuotasHold == ConcurrencyIsBounded /\ RateIsBounded

\* "Late and duplicate releases cannot affect a replacement request"
\* (docs/operations-runbook.md:77): a lease disappears only by its own
\* request's release, or after it expired by some replica's clock.
OnlyOwnerFreesLiveLease ==
    [][\A s \in Scopes, r \in Requests :
          leases[s][r] > clock /\ leases'[s][r] = 0 =>
              req[r].step = "release" /\ req'[r].taken < req[r].taken]_vars

\* Leases follow their request through all of its scopes.  While one of a
\* running request's leases counts, all do, so a late renewal never revives one
\* scope after another request has taken the slot in the next; and a request
\* that is over has given back every scope it acquired, also when a later scope
\* denied it (renew_request_quota, RequestQuotaManager.acquire, run_with_lease).
LeasesFollowRequests ==
    \A r \in Requests :
        /\ req[r].step = "running" /\ (\E s \in RequestScopes(r) : leases[s][r] > clock) =>
              \A s \in RequestScopes(r) : leases[s][r] > clock
        /\ req[r].step = "over" /\ ~req[r].leaked => \A s \in Scopes : leases[s][r] = 0

\* An operation whose lease someone else may already have replaced is stopped
\* (run_with_lease).
LostWorkStops ==
    \A r \in Requests :
        (req[r].step = "running" /\ \E s \in RequestScopes(r) : leases[s][r] = 0)
            ~> req[r].step # "running"

=============================================================================
