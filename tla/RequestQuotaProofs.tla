------------------------- MODULE RequestQuotaProofs -------------------------
(***************************************************************************)
(* Both quotas hold, and leases belong to their requests, for any number   *)
(* of requests, scopes, windows, lease lengths and faults, and however far *)
(* apart the clocks of the replicas are.                                   *)
(***************************************************************************)
EXTENDS RequestQuota, FiniteSetTheorems, TLAPS

\* The scopes a request has acquired and not given back.
Taken(r) == {ScopesOf[r][i] : i \in 1..req[r].taken}

\* Where a request stands; no clock it reads is ahead of the one furthest ahead.
ReqShape(r) ==
    /\ req[r].taken <= Len(ScopesOf[r])
    /\ req[r].now <= clock /\ req[r].beatNow <= clock
    /\ req[r].step = "new" => req[r].taken = 0 /\ ~req[r].leaked
    /\ req[r].step = "over" /\ ~req[r].leaked => req[r].taken = 0
    /\ req[r].step \in {"lock", "admit"} => req[r].taken < Len(ScopesOf[r])
    /\ req[r].step = "running" => req[r].taken = Len(ScopesOf[r])
    /\ req[r].step = "release" => req[r].taken > 0
    /\ req[r].beat = "renewing" => req[r].step \in {"running", "release", "over"}

\* A request that has counted the leases of a scope holds its row.
Holding(r) ==
    req[r].step = "admit" =>
        /\ locks[NextScope(r)] = r /\ rows[NextScope(r)] # NoRow

Shape == \A r \in Requests : ReqShape(r) /\ Holding(r)

-----------------------------------------------------------------------------
(* Types.                                                                  *)

\* The scopes of a request are scopes.
LEMMA ScopeType ==
    ASSUME NEW r \in Requests
    PROVE  /\ Len(ScopesOf[r]) \in Nat /\ Len(ScopesOf[r]) > 0
           /\ \A i \in 1..Len(ScopesOf[r]) : ScopesOf[r][i] \in Scopes
           /\ RequestScopes(r) \subseteq Scopes
<1>1. ScopesOf[r] \in Seq(Scopes) /\ ScopesOf[r] # <<>> BY ScopeAssumption
<1>2. Len(ScopesOf[r]) > 0 BY <1>1
<1> QED BY <1>1, <1>2 DEF RequestScopes

\* Every time in the bounds has a window.
LEMMA WindowType == ASSUME NEW time \in 0..MaxTime PROVE WindowOf(time) \in Windows
<1>1. Window \in Nat \ {0} /\ MaxTime \in Nat BY TimeAssumption
<1> DEFINE q == time \div Window
           p == MaxTime \div Window
<1>2. q \in Int /\ p \in Int BY <1>1
<1>3. time = Window * q + (time % Window) /\ time % Window \in 0..(Window - 1)
  BY <1>1
<1>4. MaxTime = Window * p + (MaxTime % Window) /\ MaxTime % Window \in 0..(Window - 1)
  BY <1>1
<1>5. q >= 0
  BY <1>1, <1>2, <1>3
<1>6. q <= p
  BY <1>1, <1>2, <1>3, <1>4
<1> QED BY <1>2, <1>5, <1>6 DEF WindowOf, Windows

\* The scope a request at work on one is about to acquire, or to give back.
LEMMA StepScopes ==
    ASSUME TypeOK, Shape, NEW r \in Requests
    PROVE  /\ req[r].step \in {"lock", "admit"} => NextScope(r) \in Scopes
           /\ req[r].step = "release" => LastScope(r) \in Scopes
<1>1. req[r].taken \in Nat BY DEF TypeOK, Req
<1> QED BY <1>1, ScopeType DEF Shape, ReqShape, NextScope, LastScope

\* The names of the steps.
LEMMA StepNames ==
    /\ "new" \in Steps /\ "lock" \in Steps /\ "admit" \in Steps /\ "running" \in Steps
    /\ "release" \in Steps /\ "over" \in Steps /\ "crashed" \in Steps
BY DEF Steps

\* Init has the declared types.
LEMMA InitType == Init => TypeOK /\ Shape
<1> SUFFICES ASSUME Init PROVE TypeOK /\ Shape OBVIOUS
<1>1. TypeOK BY StepNames, TimeAssumption DEF Init, TypeOK, Req
<1>2. Shape BY ScopeType DEF Init, Shape, ReqShape, Holding
<1> QED BY <1>1, <1>2

\* Moving a request along keeps the type of req.
LEMMA ReqType ==
    ASSUME TypeOK, NEW r \in Requests
    PROVE  /\ req[r] \in Req /\ req \in [Requests -> Req]
           /\ clock \in 0..MaxTime
           /\ \A q \in Req : [req EXCEPT ![r] = q] \in [Requests -> Req]
BY DEF TypeOK

\* A reading is a time not ahead of the clock.
LEMMA ReadingType ==
    ASSUME TypeOK, NEW now \in Readings PROVE now \in 0..MaxTime /\ now \in Nat /\ now <= clock
BY TimeAssumption DEF TypeOK, Readings

LEMMA ZeroIsTime == 0 \in 0..MaxTime
BY TimeAssumption

\* What a request is after a denial.
LEMMA DeniedType ==
    ASSUME TypeOK, NEW r \in Requests PROVE Denied(r) \in Req
<1>1. req[r] \in Req BY DEF TypeOK
<1>2. AfterDenial(r) \in Steps BY StepNames DEF AfterDenial
<1> QED BY <1>1, <1>2, ZeroIsTime DEF Denied, Req

\* What it is after a renewal.
LEMMA RestedType ==
    ASSUME TypeOK, NEW r \in Requests
    PROVE  /\ Rested(r) \in Req /\ [Rested(r) EXCEPT !.step = AfterRefusal(r)] \in Req
           /\ Rested(r).beat = "asleep" /\ Rested(r).beatNow = 0
           /\ Rested(r).step = req[r].step /\ Rested(r).now = req[r].now
           /\ Rested(r).taken = req[r].taken /\ Rested(r).leaked = req[r].leaked
           /\ AfterRefusal(r) \in {req[r].step, "release"}
<1>1. req[r] \in Req BY DEF TypeOK
<1>2. AfterRefusal(r) \in Steps BY <1>1, StepNames DEF AfterRefusal, Req
<1>3. /\ Rested(r) \in Req
      /\ Rested(r).step = req[r].step /\ Rested(r).now = req[r].now
      /\ Rested(r).taken = req[r].taken /\ Rested(r).leaked = req[r].leaked
      /\ Rested(r).full = req[r].full
      /\ Rested(r).beat = "asleep" /\ Rested(r).beatNow = 0
  BY <1>1, ZeroIsTime DEF Rested, Req
<1>4. [Rested(r) EXCEPT !.step = AfterRefusal(r)] \in Req
  <2> SUFFICES ASSUME NEW step \in Steps, NEW rested \in Req
               PROVE  [rested EXCEPT !.step = step] \in Req
    BY <1>2, <1>3
  <2> QED BY DEF Req
<1>5. AfterRefusal(r) \in {req[r].step, "release"} BY DEF AfterRefusal
<1> QED BY <1>3, <1>4, <1>5

\* Granting a scope keeps the types of the tables.
LEMMA GrantType ==
    ASSUME TypeOK, Shape, NEW r \in Requests, req[r].step = "admit", Grant(r, NextScope(r))
    PROVE  /\ rows' \in [Scopes -> Row \cup {NoRow}]
           /\ leases' \in [Scopes -> [Requests -> 0..(MaxTime + TTL)]]
           /\ admitted' \in [Scopes -> [Windows -> Nat]]
<1> DEFINE s == NextScope(r)
           window == WindowOf(req[r].now)
<1>1. s \in Scopes /\ req[r].now \in 0..MaxTime BY StepScopes DEF TypeOK, Req
<1>2. window \in Windows BY <1>1, WindowType
<1>3. rows[s] \in Row BY <1>1 DEF Shape, Holding, TypeOK
<1> HIDE DEF s, window
<1>4. rows[s].count \in Nat BY <1>3 DEF Row
<1> DEFINE count == IF rows[s].window = window THEN rows[s].count + 1 ELSE 1
           row == [rows[s] EXCEPT !.window = window, !.count = count]
<1>5. row \in Row
  <2>1. count \in Nat BY <1>4
  <2> HIDE DEF count
  <2> QED BY <1>2, <1>3, <2>1 DEF Row
<1>6. rows' = [rows EXCEPT ![s] = row]
  BY DEF Grant, s, window
<1>7. rows' \in [Scopes -> Row \cup {NoRow}]
  <2> HIDE DEF row
  <2> QED BY <1>1, <1>5, <1>6 DEF TypeOK
<1>8. LeasesAfter(s, r, TRUE) \in [Requests -> 0..(MaxTime + TTL)]
  BY <1>1, TimeAssumption DEF LeasesAfter, TypeOK
<1>9. leases' \in [Scopes -> [Requests -> 0..(MaxTime + TTL)]]
  BY <1>1, <1>8 DEF Grant, TypeOK, s
<1>10. admitted' \in [Scopes -> [Windows -> Nat]]
  BY <1>1, <1>2 DEF Grant, TypeOK, s, window
<1> QED BY <1>7, <1>9, <1>10

\* So does denying it.
LEMMA DenialType ==
    ASSUME TypeOK, NEW r \in Requests, NEW s \in Scopes
    PROVE  LeasesAfter(s, r, FALSE) \in [Requests -> 0..(MaxTime + TTL)]
BY TimeAssumption DEF LeasesAfter, TypeOK

\* Touching rows keeps their type.
LEMMA TouchType ==
    ASSUME TypeOK, NEW scopes, NEW time \in 0..MaxTime
    PROVE  Touched(scopes, time) \in [Scopes -> Row \cup {NoRow}]
<1> SUFFICES ASSUME NEW s \in Scopes, s \in scopes, rows[s] # NoRow
             PROVE  [rows[s] EXCEPT !.updated = time] \in Row
  BY DEF Touched, TypeOK
<1> QED BY DEF TypeOK, Row

\* Every step of a request keeps the types.
LEMMA RequestType ==
    ASSUME TypeOK, Shape, NEW r \in Requests, RequestStep(r) PROVE TypeOK'
<1> USE StepNames, ReqType
<1>1. CASE Begin(r)
  <2>1. PICK now \in Readings : req' = [req EXCEPT ![r] = [req[r] EXCEPT !.step = "lock", !.now = now]]
    BY <1>1 DEF Begin
  <2>4. now \in 0..MaxTime BY ReadingType
  <2>3. [req[r] EXCEPT !.step = "lock", !.now = now] \in Req BY <2>4 DEF Req
  <2>2. req' \in [Requests -> Req] BY <2>1, <2>3
  <2> QED BY <1>1, <2>2, TimeAssumption DEF Begin, TypeOK
<1>2. CASE LockScope(r)
  <2> DEFINE s == NextScope(r)
  <2>1. s \in Scopes /\ req[r].now \in 0..MaxTime BY <1>2, StepScopes DEF LockScope, Req
  <2>2. WindowOf(req[r].now) \in Windows BY <2>1, WindowType
  <2>3. rows' \in [Scopes -> Row \cup {NoRow}]
    BY <1>2, <2>1, <2>2 DEF LockScope, TypeOK, Row
  <2> DEFINE full == Cardinality(HoldersAt(s, req[r].now)) >= MaxConcurrent[s]
             counted == [req[r] EXCEPT !.step = "admit", !.full = full]
  <2>4. counted \in Req
    <3>1. full \in BOOLEAN OBVIOUS
    <3> HIDE DEF full
    <3> QED BY <3>1 DEF Req
  <2>5. req' \in [Requests -> Req]
    <3>1. req' = [req EXCEPT ![r] = counted] BY <1>2 DEF LockScope
    <3> HIDE DEF counted
    <3> QED BY <2>4, <3>1
  <2> QED BY <1>2, <2>1, <2>3, <2>5 DEF LockScope, TypeOK
<1>3. CASE Admit(r)
  <2>1. NextScope(r) \in Scopes BY <1>3, StepScopes DEF Admit
  <2> DEFINE step == IF req[r].taken + 1 = Len(ScopesOf[r]) THEN "running" ELSE "lock"
             now == IF req[r].taken + 1 = Len(ScopesOf[r]) THEN 0 ELSE req[r].now
             granted == [req[r] EXCEPT !.taken = @ + 1, !.now = now, !.step = step]
  <2>2. granted \in Req
    <3>1. step \in Steps /\ req[r].taken + 1 \in Nat /\ now \in 0..MaxTime BY TimeAssumption DEF Req
    <3> HIDE DEF step, now
    <3> QED BY <3>1 DEF Req
  <2>3. Denied(r) \in Req BY DeniedType
  <2>4. req' = [req EXCEPT ![r] = granted] \/ req' = [req EXCEPT ![r] = Denied(r)]
    BY <1>3 DEF Admit
  <2>5. req' \in [Requests -> Req]
    <3> HIDE DEF granted
    <3> QED BY <2>2, <2>3, <2>4
  <2>6. /\ rows' \in [Scopes -> Row \cup {NoRow}]
        /\ leases' \in [Scopes -> [Requests -> 0..(MaxTime + TTL)]]
        /\ admitted' \in [Scopes -> [Windows -> Nat]]
    <3>1. CASE Grant(r, NextScope(r)) BY <1>3, <3>1, GrantType DEF Admit
    <3>2. CASE /\ leases' = [leases EXCEPT ![NextScope(r)] = LeasesAfter(NextScope(r), r, FALSE)]
               /\ UNCHANGED <<rows, admitted>>
      BY <2>1, <3>2, DenialType DEF TypeOK
    <3> QED BY <1>3, <3>1, <3>2 DEF Admit
  <2>7. locks' \in [Scopes -> Requests \cup {Nobody}] BY <1>3, <2>1 DEF Admit, TypeOK
  <2> QED BY <1>3, <2>5, <2>6, <2>7 DEF Admit, TypeOK
<1>4. CASE Finish(r) BY <1>4 DEF Finish, TypeOK, Req
<1>5. CASE StartRenewal(r)
  <2>1. PICK now \in Readings :
           req' = [req EXCEPT ![r] = [req[r] EXCEPT !.beat = "renewing", !.beatNow = now]]
    BY <1>5 DEF StartRenewal
  <2>4. now \in 0..MaxTime BY ReadingType
  <2>3. [req[r] EXCEPT !.beat = "renewing", !.beatNow = now] \in Req BY <2>4 DEF Req
  <2>2. req' \in [Requests -> Req] BY <2>1, <2>3
  <2> QED BY <1>5, <2>2 DEF StartRenewal, TypeOK
<1>6. CASE FinishRenewal(r)
  <2>1. req[r].beatNow \in 0..MaxTime BY DEF Req
  <2>2. rows' \in [Scopes -> Row \cup {NoRow}] BY <1>6, <2>1, TouchType DEF FinishRenewal
  <2>3. Renewed(r) \in [Scopes -> [Requests -> 0..(MaxTime + TTL)]]
    BY <2>1, TimeAssumption DEF Renewed, TypeOK
  <2>4. Rested(r) \in Req /\ [Rested(r) EXCEPT !.step = AfterRefusal(r)] \in Req
    BY RestedType
  <2>5. req' \in [Requests -> Req] BY <1>6, <2>4 DEF FinishRenewal
  <2> QED BY <1>6, <2>2, <2>3, <2>5 DEF FinishRenewal, TypeOK
<1>7. CASE Release(r)
  <2>1. rows' \in [Scopes -> Row \cup {NoRow}]
    <3>1. PICK now \in Readings : rows' = Touched({LastScope(r)}, now) BY <1>7 DEF Release
    <3>2. now \in 0..MaxTime BY ReadingType
    <3> QED BY <3>1, <3>2, TouchType
  <2>2. Freed(LastScope(r), r) \in [Scopes -> [Requests -> 0..(MaxTime + TTL)]]
    <3> DEFINE s == LastScope(r)
    <3>1. s \in Scopes BY <1>7, StepScopes DEF Release
    <3>2. [leases[s] EXCEPT ![r] = 0] \in [Requests -> 0..(MaxTime + TTL)]
      BY <3>1, TimeAssumption DEF TypeOK
    <3> QED BY <3>1, <3>2 DEF Freed, TypeOK
  <2>3. req[r].taken - 1 \in Nat BY <1>7 DEF Release, Req, Shape, ReqShape
  <2> DEFINE step == IF req[r].taken = 1 THEN "over" ELSE "release"
             released == [req[r] EXCEPT !.taken = @ - 1, !.step = step]
  <2>4. released \in Req
    <3>1. step \in Steps OBVIOUS
    <3> HIDE DEF step
    <3> QED BY <2>3, <3>1 DEF Req
  <2>5. req' \in [Requests -> Req]
    <3>1. req' = [req EXCEPT ![r] = released] BY <1>7 DEF Release
    <3> HIDE DEF released
    <3> QED BY <2>4, <3>1
  <2> QED BY <1>7, <2>1, <2>2, <2>5 DEF Release, TypeOK
<1> QED BY <1>1, <1>2, <1>3, <1>4, <1>5, <1>6, <1>7 DEF RequestStep

\* Faults keep them too.
LEMMA FaultType ==
    ASSUME TypeOK, Shape, NEW r \in Requests,
           FaultyAdmit(r) \/ FaultyRenewal(r) \/ FaultyRelease(r) \/ Crash(r)
    PROVE  TypeOK'
<1> USE StepNames, ReqType
<1>1. Fault => faults' \in 0..MaxFaults /\ UNCHANGED <<clock, sent, purged>>
  BY TimeAssumption DEF TypeOK, Fault
<1>2. CASE FaultyAdmit(r)
  <2>1. Denied(r) \in Req BY DeniedType
  <2>2. [Denied(r) EXCEPT !.leaked = TRUE] \in Req BY <2>1 DEF Req
  <2>3. req' \in [Requests -> Req] BY <1>2, <2>1, <2>2 DEF FaultyAdmit
  <2>4. /\ rows' \in [Scopes -> Row \cup {NoRow}]
        /\ leases' \in [Scopes -> [Requests -> 0..(MaxTime + TTL)]]
        /\ admitted' \in [Scopes -> [Windows -> Nat]]
    <3>1. CASE Grant(r, NextScope(r)) BY <1>2, <3>1, GrantType DEF FaultyAdmit
    <3>2. CASE UNCHANGED <<rows, leases, admitted>> BY <3>2 DEF TypeOK
    <3> QED BY <1>2, <3>1, <3>2 DEF FaultyAdmit
  <2> QED BY <1>1, <1>2, <2>3, <2>4 DEF FaultyAdmit, TypeOK
<1>3. CASE FaultyRenewal(r)
  <2>2. req' \in [Requests -> Req] BY <1>3, RestedType DEF FaultyRenewal
  <2> QED BY <1>1, <1>3, <2>2 DEF FaultyRenewal, TypeOK
<1>4. CASE FaultyRelease(r)
  <2>1. [req[r] EXCEPT !.step = "over", !.leaked = TRUE] \in Req BY DEF Req
  <2>2. req' \in [Requests -> Req] BY <1>4, <2>1 DEF FaultyRelease
  <2> QED BY <1>1, <1>4, <2>2 DEF FaultyRelease, TypeOK
<1>5. CASE Crash(r)
  <2>1. [Rested(r) EXCEPT !.step = "crashed", !.now = 0, !.leaked = TRUE] \in Req
    BY RestedType, TimeAssumption DEF Req
  <2>2. req' \in [Requests -> Req] BY <1>5, <2>1 DEF Crash
  <2> QED BY <1>1, <1>5, <2>2 DEF Crash, TypeOK
<1> QED BY <1>2, <1>3, <1>4, <1>5

\* So do time and retention.
LEMMA OtherType ==
    ASSUME TypeOK, Shape, Tick \/ \E s \in Scopes : Purge(s) PROVE TypeOK'
<1>1. CASE Tick BY <1>1, TimeAssumption DEF Tick, TypeOK
<1>2. ASSUME NEW s \in Scopes, Purge(s) PROVE TypeOK'
  <2>1. rows[s] \in Row BY <1>2 DEF Purge, TypeOK
  <2>2. <<s, rows[s].window>> \in Scopes \X Windows BY <2>1 DEF Row
  <2>3. leases' \in [Scopes -> [Requests -> 0..(MaxTime + TTL)]]
    BY <1>2, TimeAssumption DEF Purge, TypeOK
  <2> QED BY <1>2, <2>2, <2>3 DEF Purge, TypeOK
<1> QED BY <1>1, <1>2

-----------------------------------------------------------------------------
(* Where requests stand.                                                   *)

\* A request that does nothing stays where it is, and a row it holds is neither
\* locked by another request nor deleted.
LEMMA StandStill ==
    ASSUME TypeOK, Shape, NEW q \in Requests, req'[q] = req[q], clock' \in Nat, clock' >= clock,
           req[q].step = "admit" =>
              /\ locks'[NextScope(q)] = q
              /\ rows[NextScope(q)] # NoRow => rows'[NextScope(q)] # NoRow
    PROVE  (ReqShape(q) /\ Holding(q))'
<1>1. ReqShape(q) /\ Holding(q) BY DEF Shape
<1>2. ReqShape(q)'
  <2>1. req[q].now \in Nat /\ req[q].beatNow \in Nat /\ clock \in Nat
    BY DEF TypeOK, Req
  <2> QED BY <1>1, <2>1 DEF ReqShape
<1>3. NextScope(q)' = NextScope(q) BY DEF NextScope
<1> QED BY <1>1, <1>2, <1>3 DEF Holding

\* Touching rows deletes none.
LEMMA RowsStay ==
    ASSUME TypeOK, NEW scopes, NEW time \in 0..MaxTime, NEW s \in Scopes, rows[s] # NoRow
    PROVE  Touched(scopes, time)[s] # NoRow
<1>1. [rows[s] EXCEPT !.updated = time] \in Row BY DEF TypeOK, Row
<1> QED BY <1>1, NoRowAssumption DEF Touched, TypeOK

\* A step of a request leaves it where its shape says.
LEMMA RequestShape ==
    ASSUME TypeOK, TypeOK', Shape, NEW r \in Requests, RequestStep(r)
    PROVE  (ReqShape(r) /\ Holding(r))'
<1>1. /\ ReqShape(r) /\ Holding(r) /\ req[r] \in Req /\ clock \in 0..MaxTime
      /\ req \in [Requests -> Req]
  BY DEF Shape, TypeOK
<1>2. Len(ScopesOf[r]) \in Nat /\ Len(ScopesOf[r]) > 0 BY ScopeType
<1>3. req[r].taken \in Nat /\ req[r].now \in Nat /\ req[r].beatNow \in Nat /\ clock \in Nat
  BY <1>1 DEF Req
<1>4. clock' = clock
  BY DEF RequestStep, Begin, LockScope, Admit, Finish, StartRenewal, FinishRenewal, Release
<1>5. CASE Begin(r)
  <2>1. PICK now \in Readings : req'[r] = [req[r] EXCEPT !.step = "lock", !.now = now]
    BY <1>1, <1>5 DEF Begin
  <2>2. now \in Nat /\ now <= clock BY ReadingType
  <2>3. ReqShape(r)' BY <1>1, <1>2, <1>3, <1>4, <1>5, <2>1, <2>2 DEF Begin, ReqShape, Req
  <2> QED BY <1>1, <2>1, <2>3 DEF Holding, Req
<1>6. CASE LockScope(r)
  <2> DEFINE s == NextScope(r)
  <2>1. s \in Scopes BY <1>6, StepScopes DEF LockScope
  <2>2. /\ req'[r].step = "admit"
        /\ \A f \in {"now", "taken", "beat", "beatNow", "leaked"} : req'[r][f] = req[r][f]
    BY <1>1, <1>6 DEF LockScope, Req
  <2>3. ReqShape(r)' BY <1>1, <1>3, <1>4, <1>6, <2>2 DEF LockScope, ReqShape
  <2>4. NextScope(r)' = s BY <2>2 DEF NextScope
  <2>5. locks'[s] = r BY <1>6, <2>1 DEF LockScope, TypeOK
  <2>6. rows'[s] # NoRow
    <3>1. req[r].now \in 0..MaxTime BY <1>1 DEF Req
    <3>2. WindowOf(req[r].now) \in Windows BY <3>1, WindowType
    <3>3. rows'[s] \in Row BY <1>6, <2>1, <3>1, <3>2 DEF LockScope, TypeOK, Row
    <3> QED BY <3>3, NoRowAssumption
  <2> QED BY <2>3, <2>4, <2>5, <2>6 DEF Holding
<1>7. CASE Admit(r)
  <2>1. \/ /\ req'[r].step = IF req[r].taken + 1 = Len(ScopesOf[r]) THEN "running" ELSE "lock"
           /\ req'[r].taken = req[r].taken + 1
        \/ req'[r].step = AfterDenial(r) /\ req'[r].taken = req[r].taken
    BY <1>1, <1>7 DEF Admit, Denied, Req
  <2>2. /\ \A f \in {"beat", "beatNow", "leaked"} : req'[r][f] = req[r][f]
        /\ req'[r].now \in {req[r].now, 0}
    <3>1. \/ \E step : \E now \in {req[r].now, 0} :
               req'[r] = [req[r] EXCEPT !.taken = @ + 1, !.now = now, !.step = step]
          \/ req'[r] = Denied(r)
      BY <1>1, <1>7 DEF Admit
    <3> QED BY <1>1, <3>1 DEF Req, Denied
  <2>3. req[r].step = "admit" BY <1>7 DEF Admit
  <2>4. ReqShape(r)' BY <1>1, <1>2, <1>3, <1>4, <2>1, <2>2, <2>3 DEF AfterDenial, ReqShape
  <2> QED BY <2>1, <2>4 DEF Holding, AfterDenial
<1>8. CASE Finish(r)
  <2>1. req'[r] = [req[r] EXCEPT !.step = "release"] BY <1>1, <1>8 DEF Finish
  <2>2. ReqShape(r)' BY <1>1, <1>2, <1>3, <1>4, <1>8, <2>1 DEF Finish, ReqShape, Req
  <2> QED BY <1>1, <2>1, <2>2 DEF Holding, Req
<1>9. CASE StartRenewal(r)
  <2>1. PICK now \in Readings : req'[r] = [req[r] EXCEPT !.beat = "renewing", !.beatNow = now]
    BY <1>1, <1>9 DEF StartRenewal
  <2>4. now \in Nat /\ now <= clock BY ReadingType
  <2>2. ReqShape(r)' BY <1>1, <1>2, <1>3, <1>4, <1>9, <2>1, <2>4 DEF StartRenewal, ReqShape, Req
  <2>3. req'[r].step = "running" BY <1>1, <1>9, <2>1 DEF StartRenewal, Req
  <2> QED BY <2>2, <2>3 DEF Holding
<1>10. CASE FinishRenewal(r)
  <2>1. /\ req'[r].beat = "asleep" /\ req'[r].step \in {req[r].step, AfterRefusal(r)}
        /\ req'[r].beatNow = 0
        /\ \A f \in {"now", "taken", "leaked"} : req'[r][f] = req[r][f]
    <3>1. \/ req'[r] = Rested(r)
          \/ req'[r] = [Rested(r) EXCEPT !.step = AfterRefusal(r)]
      BY <1>1, <1>10 DEF FinishRenewal
    <3> QED BY <1>1, <3>1, RestedType DEF Req
  <2>2. req[r].beat = "renewing" BY <1>10 DEF FinishRenewal
  <2>3. ReqShape(r)' BY <1>1, <1>2, <1>3, <1>4, <2>1, <2>2 DEF ReqShape, AfterRefusal
  <2> QED BY <1>1, <2>1, <2>2, <2>3 DEF Holding, ReqShape, AfterRefusal
<1>11. CASE Release(r)
  <2>1. /\ req'[r].step = IF req[r].taken = 1 THEN "over" ELSE "release"
        /\ req'[r].taken = req[r].taken - 1
        /\ \A f \in {"now", "beat", "beatNow", "leaked"} : req'[r][f] = req[r][f]
    BY <1>1, <1>11 DEF Release, Req
  <2>2. ReqShape(r)' BY <1>1, <1>2, <1>3, <1>4, <1>11, <2>1 DEF Release, ReqShape
  <2> QED BY <2>1, <2>2 DEF Holding
<1> QED BY <1>5, <1>6, <1>7, <1>8, <1>9, <1>10, <1>11 DEF RequestStep

\* A faulty step leaves it there too.
LEMMA FaultShape ==
    ASSUME TypeOK, TypeOK', Shape, NEW r \in Requests,
           FaultyAdmit(r) \/ FaultyRenewal(r) \/ FaultyRelease(r) \/ Crash(r)
    PROVE  (ReqShape(r) /\ Holding(r))'
<1>1. /\ ReqShape(r) /\ Holding(r) /\ req[r] \in Req /\ clock \in 0..MaxTime
      /\ req \in [Requests -> Req]
  BY DEF Shape, TypeOK
<1>2. /\ req[r].taken \in Nat /\ req[r].now \in Nat /\ req[r].beatNow \in Nat /\ clock \in Nat
      /\ clock' = clock
  BY <1>1 DEF Req, FaultyAdmit, FaultyRenewal, FaultyRelease, Crash, Fault
<1>3. /\ req'[r].taken = req[r].taken /\ req'[r].now \in {req[r].now, 0}
      /\ req'[r].beatNow \in {req[r].beatNow, 0}
      /\ req'[r].beat = req[r].beat \/ req'[r].beat = "asleep"
      /\ \/ /\ req[r].step = "admit" /\ req'[r].step = AfterDenial(r)
            /\ req'[r].beat = req[r].beat /\ req'[r].leaked \in {req[r].leaked, TRUE}
         \/ /\ req[r].beat = "renewing" /\ req'[r].beat = "asleep"
            /\ req'[r].step = AfterRefusal(r) /\ req'[r].leaked = req[r].leaked
         \/ /\ req[r].step = "release" /\ req'[r].step = "over" /\ req'[r].leaked
         \/ req'[r].step = "crashed" /\ req'[r].beat = "asleep"
  <2>1. CASE FaultyAdmit(r)
    <3>1. \/ req'[r] = [Denied(r) EXCEPT !.leaked = TRUE]
          \/ req'[r] = Denied(r)
      BY <1>1, <2>1 DEF FaultyAdmit
    <3> QED BY <1>1, <2>1, <3>1 DEF FaultyAdmit, Denied, Req
  <2>2. CASE FaultyRenewal(r)
    <3>1. req'[r] = [Rested(r) EXCEPT !.step = AfterRefusal(r)]
      BY <1>1, <2>2 DEF FaultyRenewal
    <3> QED BY <1>1, <2>2, <3>1, RestedType DEF FaultyRenewal, Req
  <2>3. CASE FaultyRelease(r)
    <3>1. req'[r] = [req[r] EXCEPT !.step = "over", !.leaked = TRUE]
      BY <1>1, <2>3 DEF FaultyRelease
    <3> QED BY <1>1, <2>3, <3>1 DEF FaultyRelease, Req
  <2>4. CASE Crash(r)
    <3>1. req'[r] = [Rested(r) EXCEPT !.step = "crashed", !.now = 0, !.leaked = TRUE]
      BY <1>1, <2>4 DEF Crash
    <3> QED BY <1>1, <3>1, RestedType DEF Req
  <2> QED BY <2>1, <2>2, <2>3, <2>4
<1>4. ReqShape(r)'
  <2>1. Len(ScopesOf[r]) \in Nat /\ Len(ScopesOf[r]) > 0 BY ScopeType
  <2>2. CASE req[r].step = "admit" /\ req'[r].step = AfterDenial(r) /\ req'[r].beat = req[r].beat
    BY <1>1, <1>2, <1>3, <2>1, <2>2 DEF ReqShape, AfterDenial
  <2>3. CASE /\ req[r].beat = "renewing" /\ req'[r].beat = "asleep"
             /\ req'[r].step = AfterRefusal(r) /\ req'[r].leaked = req[r].leaked
    BY <1>1, <1>2, <1>3, <2>1, <2>3 DEF ReqShape, AfterRefusal
  <2>4. CASE req'[r].step \in {"over", "crashed"}
                /\ (req'[r].step = "over" => req'[r].leaked)
                /\ (req'[r].step = "crashed" => req'[r].beat = "asleep")
    BY <1>1, <1>2, <1>3, <2>1, <2>4 DEF ReqShape
  <2> QED BY <1>3, <2>2, <2>3, <2>4
<1> QED BY <1>1, <1>3, <1>4 DEF Holding, AfterDenial, AfterRefusal, ReqShape

\* The step of another request, or of retention, takes no row from its holder.
LEMMA HolderKeeps ==
    ASSUME TypeOK, Shape, NEW q \in Requests, req[q].step = "admit", Next,
           \A r \in Requests : RequestStep(r) \/ FaultyAdmit(r) \/ FaultyRenewal(r)
                               \/ FaultyRelease(r) \/ Crash(r) => r # q
    PROVE  /\ req'[q] = req[q]
           /\ locks'[NextScope(q)] = q
           /\ rows'[NextScope(q)] # NoRow
           /\ leases'[NextScope(q)] = leases[NextScope(q)]
<1> DEFINE s == NextScope(q)
<1>1. s \in Scopes BY StepScopes
<1>2. locks[s] = q /\ rows[s] # NoRow /\ q # Nobody
  BY NobodyAssumption DEF Shape, Holding
<1> HIDE DEF s
<1>3. ASSUME NEW r \in Requests, r # q, RequestStep(r)
      PROVE  req'[q] = req[q] /\ locks'[s] = q /\ rows'[s] # NoRow /\ leases'[s] = leases[s]
  <2>1. CASE Begin(r) \/ Finish(r) \/ StartRenewal(r)
    BY <1>2, <1>3, <2>1 DEF Begin, Finish, StartRenewal, TypeOK
  <2>2. CASE LockScope(r)
    <3>1. NextScope(r) # s BY <1>2, <2>2, NobodyAssumption DEF LockScope, MayLock, Unlocked
    <3> QED BY <1>1, <1>2, <1>3, <2>2, <3>1 DEF LockScope, TypeOK
  <2>3. CASE Admit(r)
    <3>1. NextScope(r) # s BY <1>2, <1>3, <2>3 DEF Admit, Shape, Holding
    <3> QED BY <1>1, <1>2, <1>3, <2>3, <3>1 DEF Admit, Grant, TypeOK
  <2>4. CASE FinishRenewal(r)
    <3>1. s \notin RequestScopes(r) BY <1>2, <2>4 DEF FinishRenewal, Unlocked
    <3>2. Touched(RequestScopes(r), req[r].beatNow)[s] = rows[s] BY <1>1, <3>1 DEF Touched
    <3>3. Renewed(r)[s] = leases[s] BY <1>1, <3>1 DEF Renewed
    <3> QED BY <1>2, <1>3, <2>4, <3>2, <3>3 DEF FinishRenewal, TypeOK
  <2>5. CASE Release(r)
    <3>1. LastScope(r) # s BY <1>2, <2>5 DEF Release, Unlocked
    <3>2. \A now \in Readings : Touched({LastScope(r)}, now)[s] = rows[s] BY <1>1, <3>1 DEF Touched
    <3> QED BY <1>1, <1>2, <1>3, <2>5, <3>1, <3>2 DEF Release, Freed, TypeOK
  <2> QED BY <1>3, <2>1, <2>2, <2>3, <2>4, <2>5 DEF RequestStep
<1>4. ASSUME NEW r \in Requests, r # q,
             FaultyAdmit(r) \/ FaultyRenewal(r) \/ FaultyRelease(r) \/ Crash(r)
      PROVE  req'[q] = req[q] /\ locks'[s] = q /\ rows'[s] # NoRow /\ leases'[s] = leases[s]
  <2>1. CASE FaultyAdmit(r)
    <3>1. NextScope(r) # s BY <1>2, <1>4, <2>1 DEF FaultyAdmit, Shape, Holding
    <3> QED BY <1>1, <1>2, <1>4, <2>1, <3>1 DEF FaultyAdmit, Grant, TypeOK
  <2>2. CASE FaultyRenewal(r) \/ FaultyRelease(r)
    BY <1>2, <1>4, <2>2 DEF FaultyRenewal, FaultyRelease, TypeOK
  <2>3. CASE Crash(r) BY <1>1, <1>2, <1>4, <2>3 DEF Crash, TypeOK
  <2> QED BY <1>4, <2>1, <2>2, <2>3
<1>5. ASSUME NEW t \in Scopes, Purge(t)
      PROVE  req'[q] = req[q] /\ locks'[s] = q /\ rows'[s] # NoRow /\ leases'[s] = leases[s]
  <2>1. t # s BY <1>2, <1>5 DEF Purge, Unlocked
  <2> QED BY <1>1, <1>2, <1>5, <2>1 DEF Purge, TypeOK
<1>6. CASE Tick BY <1>2, <1>6 DEF Tick, s
<1> QED BY <1>3, <1>4, <1>5, <1>6 DEF Next, s

\* The request whose step it is.
Acts(r) == RequestStep(r) \/ FaultyAdmit(r) \/ FaultyRenewal(r) \/ FaultyRelease(r) \/ Crash(r)

\* A step of one request leaves the progress of the others alone.
LEMMA OthersStay ==
    ASSUME TypeOK, NEW r \in Requests, Acts(r), NEW q \in Requests, q # r
    PROVE  req'[q] = req[q]
<1>1. CASE RequestStep(r)
  BY <1>1 DEF RequestStep, Begin, LockScope, Admit, Finish, StartRenewal, FinishRenewal, Release, TypeOK
<1>2. CASE ~RequestStep(r)
  BY <1>2 DEF Acts, FaultyAdmit, FaultyRenewal, FaultyRelease, Crash, TypeOK
<1> QED BY <1>1, <1>2

\* Time does not go back.
LEMMA ClockAdvances ==
    ASSUME TypeOK, [Next]_vars PROVE clock \in Nat /\ clock' \in Nat /\ clock' >= clock
<1>1. clock \in Nat BY DEF TypeOK
<1>2. ASSUME NEW r \in Requests, RequestStep(r) PROVE clock' = clock
  BY <1>2 DEF RequestStep, Begin, LockScope, Admit, Finish, StartRenewal, FinishRenewal, Release
<1>3. ASSUME NEW r \in Requests, FaultyAdmit(r) \/ FaultyRenewal(r) \/ FaultyRelease(r) \/ Crash(r)
      PROVE  clock' = clock
  BY <1>3 DEF FaultyAdmit, FaultyRenewal, FaultyRelease, Crash, Fault
<1>4. ASSUME NEW s \in Scopes, Purge(s) PROVE clock' = clock BY <1>4 DEF Purge
<1>5. CASE Tick BY <1>1, <1>5 DEF Tick
<1>6. CASE UNCHANGED vars BY <1>1, <1>6 DEF vars
<1> QED BY <1>1, <1>2, <1>3, <1>4, <1>5, <1>6 DEF Next

\* Types and shape are an inductive invariant.
LEMMA ShapeStep == TypeOK /\ Shape /\ [Next]_vars => TypeOK' /\ Shape'
<1> SUFFICES ASSUME TypeOK, Shape, [Next]_vars PROVE TypeOK' /\ Shape' OBVIOUS
<1>1. CASE UNCHANGED vars
  BY <1>1 DEF vars, TypeOK, Shape, ReqShape, Holding, NextScope
<1>2. CASE Next
  <2>1. TypeOK' BY <1>2, RequestType, FaultType, OtherType DEF Next
  <2>2. ASSUME NEW q \in Requests PROVE (ReqShape(q) /\ Holding(q))'
    <3>1. CASE Acts(q) BY <2>1, <3>1, RequestShape, FaultShape DEF Acts
    <3>2. CASE ~Acts(q)
      <4>1. req'[q] = req[q]
        <5>1. CASE Tick \/ \E s \in Scopes : Purge(s) BY <5>1 DEF Tick, Purge
        <5> QED BY <1>2, <3>2, <5>1, OthersStay DEF Next, Acts
      <4>2. req[q].step = "admit" => locks'[NextScope(q)] = q /\ rows'[NextScope(q)] # NoRow
        BY <1>2, <3>2, HolderKeeps DEF Acts
      <4> QED BY <4>1, <4>2, ClockAdvances, StandStill
    <3> QED BY <3>1, <3>2
  <2> QED BY <2>1, <2>2 DEF Shape
<1> QED BY <1>1, <1>2

\* The state has its declared types, and requests hold the rows they work on
\* (try_acquire_request_quota, run_with_lease).
THEOREM TypeCorrect == Spec => [](TypeOK /\ Shape)
BY InitType, ShapeStep, PTL DEF Spec

-----------------------------------------------------------------------------
(* Leases.                                                                 *)

\* Leases of q disappear at most when they have expired.
Kept(q) ==
    \A s \in Scopes : leases'[s][q] # leases[s][q] =>
        leases'[s][q] = 0 /\ leases[s][q] <= clock

\* Granting a scope writes one lease and drops expired ones.
LEMMA GrantLeases ==
    ASSUME TypeOK, Shape, NEW r \in Requests, req[r].step = "admit", Grant(r, NextScope(r))
    PROVE  /\ leases'[NextScope(r)][r] = req[r].now + TTL
           /\ \A t \in Scopes : t # NextScope(r) => leases'[t] = leases[t]
           /\ \A q \in Requests : q # r => Kept(q)
           /\ \A q \in Requests : q # r /\ leases'[NextScope(r)][q] > 0 =>
                 leases[NextScope(r)][q] > req[r].now
<1> DEFINE s == NextScope(r)
<1>1. s \in Scopes BY StepScopes
<1>2. req[r].now \in Nat /\ clock \in Nat /\ req[r].now <= clock
  BY DEF TypeOK, Req, Shape, ReqShape
<1>3. leases' = [leases EXCEPT ![s] = LeasesAfter(s, r, TRUE)] BY DEF Grant
<1> HIDE DEF s
<1>4. leases'[s] = LeasesAfter(s, r, TRUE) BY <1>1, <1>3 DEF TypeOK
<1>5. \A t \in Scopes : t # s => leases'[t] = leases[t] BY <1>3 DEF TypeOK
<1>6. leases'[s][r] = req[r].now + TTL BY <1>4 DEF LeasesAfter
<1>7. ASSUME NEW q \in Requests, q # r
      PROVE  leases'[s][q] = IF leases[s][q] <= req[r].now THEN 0 ELSE leases[s][q]
  BY <1>4, <1>7 DEF LeasesAfter
<1>8. \A q \in Requests : leases[s][q] \in Nat BY <1>1, TimeAssumption DEF TypeOK
<1>9. ASSUME NEW q \in Requests, q # r PROVE Kept(q)
  BY <1>2, <1>5, <1>7, <1>8, <1>9 DEF Kept
<1> QED BY <1>2, <1>5, <1>6, <1>7, <1>8, <1>9 DEF s

\* Denying one only drops expired leases.
LEMMA DenialLeases ==
    ASSUME TypeOK, Shape, NEW r \in Requests, NEW s \in Scopes,
           leases' = [leases EXCEPT ![s] = LeasesAfter(s, r, FALSE)]
    PROVE  \A q \in Requests : Kept(q)
<1>1. req[r].now \in Nat /\ clock \in Nat /\ req[r].now <= clock
  BY DEF TypeOK, Req, Shape, ReqShape
<1>2. \A t \in Scopes : t # s => leases'[t] = leases[t] BY DEF TypeOK
<1>3. leases'[s] = LeasesAfter(s, r, FALSE) BY DEF TypeOK
<1>4. \A q \in Requests : leases[s][q] \in Nat BY TimeAssumption DEF TypeOK
<1>5. \A q \in Requests : leases'[s][q] = IF leases[s][q] <= req[r].now THEN 0 ELSE leases[s][q]
  BY <1>3 DEF LeasesAfter
<1>6. \A q \in Requests : leases'[s][q] # leases[s][q] =>
         leases'[s][q] = 0 /\ leases[s][q] <= clock
  <2> TAKE q \in Requests
  <2>1. CASE leases[s][q] <= req[r].now
    <3>1. leases'[s][q] = 0 BY <1>5, <2>1
    <3>2. leases[s][q] <= clock BY <1>1, <1>4, <2>1
    <3> QED BY <3>1, <3>2
  <2>2. CASE ~(leases[s][q] <= req[r].now) BY <1>5, <2>2
  <2> QED BY <2>1, <2>2
<1> QED BY <1>2, <1>6 DEF Kept

\* Retention frees expired leases only.
LEMMA PurgeLeases ==
    ASSUME TypeOK, NEW s \in Scopes, Purge(s) PROVE \A q \in Requests : Kept(q)
<1>1. clock \in Nat /\ \A q \in Requests : leases[s][q] \in Nat BY TimeAssumption DEF TypeOK
<1>2. \A t \in Scopes : t # s => leases'[t] = leases[t] BY DEF Purge, TypeOK
<1>3. \A q \in Requests : leases'[s][q] = 0 BY DEF Purge, TypeOK
<1>4. PICK cutoff \in 0..(clock - 1) : Purgeable(s, cutoff) BY DEF Purge
<1>5. \A q \in Requests : leases[s][q] <= cutoff
  BY <1>1, <1>4 DEF Purgeable, HoldersAt
<1> QED BY <1>1, <1>2, <1>3, <1>5 DEF Kept

\* What the renewal of a lease writes, and what a release frees.
LEMMA RenewalLeases ==
    ASSUME TypeOK, NEW r \in Requests, MayRenew(r), leases' = Renewed(r)
    PROVE  /\ \A q \in Requests : q # r => Kept(q)
           /\ \A s \in RequestScopes(r) : leases[s][r] > 0 /\ leases'[s][r] = req[r].beatNow + TTL
           /\ \A s \in Scopes : s \notin RequestScopes(r) => leases'[s][r] = leases[s][r]
<1>1. req[r].beatNow \in Nat BY DEF TypeOK, Req
<1>2. RequestScopes(r) \subseteq Scopes BY ScopeType
<1>3. \A s \in Scopes, q \in Requests : leases[s][q] \in Nat BY TimeAssumption DEF TypeOK
<1>4. \A s \in RequestScopes(r) : leases[s][r] > 0 BY <1>1, <1>2, <1>3 DEF MayRenew
<1>5. \A s \in RequestScopes(r) : leases'[s] = [leases[s] EXCEPT ![r] = req[r].beatNow + TTL]
  BY <1>2, <1>4 DEF Renewed
<1>6. \A s \in Scopes : s \notin RequestScopes(r) => leases'[s] = leases[s] BY DEF Renewed
<1>7. ASSUME NEW s \in RequestScopes(r)
      PROVE  /\ leases'[s][r] = req[r].beatNow + TTL
             /\ \A q \in Requests : q # r => leases'[s][q] = leases[s][q]
  BY <1>2, <1>5 DEF TypeOK
<1> QED BY <1>2, <1>4, <1>6, <1>7 DEF Kept

LEMMA ReleaseLeases ==
    ASSUME TypeOK, NEW r \in Requests, NEW s \in Scopes, leases' = Freed(s, r)
    PROVE  /\ \A q \in Requests : q # r => Kept(q)
           /\ leases'[s][r] = 0
           /\ \A t \in Scopes : t # s => leases'[t][r] = leases[t][r]
<1>1. \A t \in Scopes : t # s => leases'[t] = leases[t] BY DEF Freed, TypeOK
<1>2. leases'[s] = [leases[s] EXCEPT ![r] = 0] BY DEF Freed, TypeOK
<1>3. leases'[s][r] = 0 /\ \A q \in Requests : q # r => leases'[s][q] = leases[s][q]
  BY <1>2 DEF TypeOK
<1> QED BY <1>1, <1>3 DEF Kept

\* Whoever acts, only a lease's own request prolongs it or frees it early.
LEMMA OthersKept ==
    ASSUME TypeOK, Shape, NEW r \in Requests, Acts(r), NEW q \in Requests, q # r
    PROVE  Kept(q)
<1>1. CASE leases' = leases BY <1>1 DEF Kept
<1>2. CASE req[r].step = "admit" /\ Grant(r, NextScope(r)) BY <1>2, GrantLeases
<1>3. CASE /\ req[r].step = "admit"
           /\ leases' = [leases EXCEPT ![NextScope(r)] = LeasesAfter(NextScope(r), r, FALSE)]
  BY <1>3, StepScopes, DenialLeases
<1>4. CASE MayRenew(r) /\ leases' = Renewed(r) BY <1>4, RenewalLeases
<1>5. CASE req[r].step = "release" /\ leases' = Freed(LastScope(r), r)
  BY <1>5, StepScopes, ReleaseLeases
<1>6. CASE RequestStep(r)
  BY <1>1, <1>2, <1>3, <1>4, <1>5, <1>6
     DEF RequestStep, Begin, LockScope, Admit, Finish, StartRenewal, FinishRenewal, Release
<1>7. CASE ~RequestStep(r)
  BY <1>1, <1>2, <1>7 DEF Acts, FaultyAdmit, FaultyRenewal, FaultyRelease, Crash
<1> QED BY <1>6, <1>7

\* Leases lie in acquired scopes, and those of one request move in step: they
\* have one expiry T, and are missing at most when it is past.
InStep(r, T) ==
    \A s \in Taken(r) : leases[s][r] = T \/ (leases[s][r] = 0 /\ T <= clock)

Listed(r) == ~req[r].leaked => \A s \in Scopes : leases[s][r] > 0 => s \in Taken(r)

Together(r) ==
    /\ req[r].step \in {"lock", "admit"} => InStep(r, req[r].now + TTL)
    /\ req[r].step = "running" => \E T \in Nat : InStep(r, T)

Belonging == \A r \in Requests : Listed(r) /\ Together(r)

\* A running request has every one of its scopes.
LEMMA RunningTakesAll ==
    ASSUME NEW r \in Requests, req[r].taken = Len(ScopesOf[r]) PROVE Taken(r) = RequestScopes(r)
BY DEF Taken, RequestScopes

\* What a request has acquired are scopes.
LEMMA TakenType ==
    ASSUME TypeOK, Shape, NEW r \in Requests PROVE Taken(r) \subseteq Scopes
<1>1. req[r].taken \in Nat /\ req[r].taken <= Len(ScopesOf[r]) BY DEF TypeOK, Req, Shape, ReqShape
<1> QED BY <1>1, ScopeType DEF Taken

\* Losing expired leases leaves a request in step.
LEMMA KeptInStep ==
    ASSUME TypeOK, Shape, NEW r \in Requests, Kept(r), NEW T \in Nat, InStep(r, T),
           Taken(r)' = Taken(r), clock' \in Nat, clock' >= clock
    PROVE  InStep(r, T)'
<1>1. clock \in Nat /\ Taken(r) \subseteq Scopes BY TakenType DEF TypeOK
<1> QED BY <1>1 DEF InStep, Kept

\* A request that stands still, or only gives up, keeps what belongs to it.
LEMMA KeptBelonging ==
    ASSUME TypeOK, Shape, NEW r \in Requests, Listed(r), Together(r), Kept(r),
           clock' \in Nat, clock' >= clock,
           req'[r].taken = req[r].taken, req[r].leaked => req'[r].leaked,
           req'[r].step \in {"lock", "admit"} => req'[r].now = req[r].now,
           \/ req'[r].step = req[r].step
           \/ req'[r].step \in {"admit", "lock"} /\ req[r].step \in {"admit", "lock"}
           \/ req'[r].step \notin {"lock", "admit", "running"}
    PROVE  (Listed(r) /\ Together(r))'
<1>1. Taken(r)' = Taken(r) BY DEF Taken
<1>2. \A s \in Scopes : leases[s][r] \in Nat BY TimeAssumption DEF TypeOK
<1>3. Listed(r)' BY <1>1, <1>2 DEF Listed, Kept
<1>4. req[r].now + TTL \in Nat BY TimeAssumption DEF TypeOK, Req
<1>5. Together(r)' BY <1>1, <1>4, KeptInStep DEF Together
<1> QED BY <1>3, <1>5

\* The last scope acquired joins the earlier ones.
LEMMA TakenGrows ==
    ASSUME NEW r \in Requests, req[r].taken \in Nat, req'[r].taken = req[r].taken + 1
    PROVE  Taken(r)' = Taken(r) \cup {NextScope(r)}
<1>1. 1..(req[r].taken + 1) = 1..req[r].taken \cup {req[r].taken + 1} OBVIOUS
<1> QED BY <1>1 DEF Taken, NextScope

LEMMA TakenShrinks ==
    ASSUME NEW r \in Requests, req[r].taken \in Nat, req[r].taken > 0,
           req'[r].taken = req[r].taken - 1
    PROVE  Taken(r) = Taken(r)' \cup {LastScope(r)}
<1>1. 1..req[r].taken = 1..(req[r].taken - 1) \cup {req[r].taken} OBVIOUS
<1> QED BY <1>1 DEF Taken, LastScope

\* A scope that is granted joins the leases of its request.
LEMMA GrantBelonging ==
    ASSUME TypeOK, Shape, NEW r \in Requests, Listed(r), Together(r), req[r].step = "admit",
           Grant(r, NextScope(r)), clock' = clock,
           req'[r].taken = req[r].taken + 1, req'[r].leaked = req[r].leaked,
           req'[r].step = "lock" => req'[r].now = req[r].now, req'[r].step \in {"lock", "running"}
    PROVE  (Listed(r) /\ Together(r))'
<1>1. req[r].taken \in Nat /\ req[r].now + TTL \in Nat BY TimeAssumption DEF TypeOK, Req
<1>2. Taken(r)' = Taken(r) \cup {NextScope(r)} BY <1>1, TakenGrows
<1>3. /\ leases'[NextScope(r)][r] = req[r].now + TTL
      /\ \A t \in Scopes : t # NextScope(r) => leases'[t] = leases[t]
  BY GrantLeases
<1>4. Listed(r)' BY <1>2, <1>3 DEF Listed
<1>5. PICK T \in Nat : T = req[r].now + TTL BY <1>1
<1>6. Taken(r) \subseteq Scopes BY TakenType
<1>7. InStep(r, T) BY <1>5 DEF Together
<1>8. InStep(r, T)' BY <1>2, <1>3, <1>5, <1>6, <1>7 DEF InStep
<1> QED BY <1>4, <1>5, <1>8 DEF Together

\* A renewal that fails leaves a request its leases.
LEMMA RefusalBelonging ==
    ASSUME TypeOK, Shape, NEW r \in Requests, Listed(r), Together(r), req[r].beat = "renewing",
           clock' = clock, leases' = leases, req'[r] = [Rested(r) EXCEPT !.step = AfterRefusal(r)]
    PROVE  (Listed(r) /\ Together(r))'
<1>1. /\ req'[r].step = AfterRefusal(r) /\ req'[r].taken = req[r].taken
      /\ req'[r].leaked = req[r].leaked
  <2> DEFINE step == AfterRefusal(r)
             rested == Rested(r)
  <2>1. /\ rested \in Req /\ rested.taken = req[r].taken /\ rested.leaked = req[r].leaked
        /\ req'[r] = [rested EXCEPT !.step = step]
    BY RestedType
  <2> HIDE DEF step, rested
  <2>2. req'[r].step = step /\ req'[r].taken = req[r].taken /\ req'[r].leaked = req[r].leaked
    BY <2>1 DEF Req
  <2> QED BY <2>2 DEF step
<1>2. req'[r].step \in {"release", "over"} BY <1>1 DEF Shape, ReqShape, AfterRefusal
<1>3. Kept(r) BY DEF Kept
<1>4. clock' \in Nat /\ clock' >= clock BY DEF TypeOK
<1>5. /\ req'[r].step \notin {"lock", "admit", "running"}
      /\ req'[r].step \in {"lock", "admit"} => req'[r].now = req[r].now
      /\ req[r].leaked => req'[r].leaked
  BY <1>1, <1>2
<1> QED BY <1>1, <1>3, <1>4, <1>5, KeptBelonging

\* A step of a request keeps its own leases its own.
LEMMA OwnBelonging ==
    ASSUME TypeOK, Shape, NEW r \in Requests, Acts(r), Listed(r), Together(r)
    PROVE  (Listed(r) /\ Together(r))'
<1>1. /\ req[r] \in Req /\ req \in [Requests -> Req] /\ ReqShape(r)
      /\ clock \in Nat /\ req[r].taken \in Nat
  BY DEF Shape, TypeOK, Req
<1>2. clock' = clock
  BY DEF Acts, RequestStep, Begin, LockScope, Admit, Finish, StartRenewal, FinishRenewal, Release,
         FaultyAdmit, FaultyRenewal, FaultyRelease, Crash, Fault
<1>4. CASE Begin(r)
  <2>1. \E now : req'[r] = [req[r] EXCEPT !.step = "lock", !.now = now] BY <1>1, <1>4 DEF Begin
  <2>2. req[r].taken = 0 /\ req'[r].taken = 0 /\ ~req[r].leaked /\ leases' = leases
    BY <1>1, <1>4, <2>1 DEF Begin, ReqShape, Req
  <2>3. Taken(r) = {} /\ Taken(r)' = {} BY <2>2 DEF Taken
  <2> QED BY <1>1, <2>1, <2>2, <2>3 DEF Listed, Together, InStep, Req
<1>5. CASE LockScope(r)
  <2>1. /\ req'[r].step = "admit" /\ req[r].step = "lock" /\ leases' = leases
        /\ \A f \in {"now", "taken", "leaked"} : req'[r][f] = req[r][f]
    BY <1>1, <1>5 DEF LockScope, Req
  <2>2. Kept(r) BY <2>1 DEF Kept
  <2> QED BY <1>1, <1>2, <2>1, <2>2, KeptBelonging
<1>6. CASE Admit(r)
  <2>1. CASE /\ Grant(r, NextScope(r))
             /\ \/ req'[r] = [req[r] EXCEPT !.taken = @ + 1, !.now = 0, !.step = "running"]
                \/ req'[r] = [req[r] EXCEPT !.taken = @ + 1, !.now = @, !.step = "lock"]
    <3>1. /\ req'[r].step \in {"lock", "running"} /\ req'[r].taken = req[r].taken + 1
          /\ req'[r].leaked = req[r].leaked /\ (req'[r].step = "lock" => req'[r].now = req[r].now)
      BY <1>1, <2>1 DEF Req
    <3> QED BY <1>2, <1>6, <2>1, <3>1, GrantBelonging DEF Admit
  <2>2. CASE /\ leases' = [leases EXCEPT ![NextScope(r)] = LeasesAfter(NextScope(r), r, FALSE)]
             /\ req'[r] = Denied(r)
    <3>1. Kept(r) BY <1>6, <2>2, StepScopes, DenialLeases DEF Admit
    <3>2. /\ req'[r].step \in {"over", "release"} /\ req'[r].taken = req[r].taken
          /\ req'[r].leaked = req[r].leaked
      BY <1>1, <2>2 DEF Req, Denied, AfterDenial
    <3> QED BY <1>1, <1>2, <3>1, <3>2, KeptBelonging
  <2> QED BY <1>1, <1>6, <2>1, <2>2 DEF Admit
<1>7. CASE Finish(r)
  <2>1. req'[r] = [req[r] EXCEPT !.step = "release"] /\ leases' = leases BY <1>1, <1>7 DEF Finish
  <2>2. /\ req'[r].step = "release" /\ req'[r].taken = req[r].taken
        /\ req'[r].leaked = req[r].leaked /\ req'[r].now = req[r].now
    BY <1>1, <2>1 DEF Req
  <2>3. Kept(r) BY <2>1 DEF Kept
  <2> QED BY <1>1, <1>2, <2>2, <2>3, KeptBelonging
<1>8. CASE StartRenewal(r)
  <2>1. leases' = leases /\ \E now : req'[r] = [req[r] EXCEPT !.beat = "renewing", !.beatNow = now]
    BY <1>1, <1>8 DEF StartRenewal
  <2>2. /\ req'[r].step = req[r].step /\ req'[r].taken = req[r].taken
        /\ req'[r].leaked = req[r].leaked /\ req'[r].now = req[r].now
    BY <1>1, <2>1 DEF Req
  <2>3. Kept(r) BY <2>1 DEF Kept
  <2> QED BY <1>1, <1>2, <2>2, <2>3, KeptBelonging
<1>9. CASE FinishRenewal(r)
  <2>1. CASE MayRenew(r) /\ leases' = Renewed(r) /\ req'[r] = Rested(r)
    <3>1. /\ req'[r].step = req[r].step /\ req'[r].taken = req[r].taken
          /\ req'[r].leaked = req[r].leaked
      BY <1>1, <2>1, RestedType
    <3>2. Taken(r)' = Taken(r) BY <3>1 DEF Taken
    <3>3. /\ \A s \in RequestScopes(r) : leases[s][r] > 0 /\ leases'[s][r] = req[r].beatNow + TTL
          /\ \A s \in Scopes : s \notin RequestScopes(r) => leases'[s][r] = leases[s][r]
      BY <2>1, RenewalLeases
    <3>4. Listed(r)' BY <3>1, <3>2, <3>3 DEF Listed
    <3>5. CASE req[r].step = "running"
      <4>1. Taken(r)' = RequestScopes(r) BY <1>1, <3>2, <3>5, RunningTakesAll DEF ReqShape
      <4>2. PICK T \in Nat : T = req[r].beatNow + TTL BY TimeAssumption DEF TypeOK, Req
      <4>3. InStep(r, T)' BY <3>3, <4>1, <4>2 DEF InStep
      <4> QED BY <3>1, <3>4, <3>5, <4>3 DEF Together
    <3>6. CASE req[r].step # "running"
      <4>1. req[r].step \in {"release", "over"} BY <1>1, <1>9, <3>6 DEF FinishRenewal, ReqShape
      <4> QED BY <3>1, <3>4, <4>1 DEF Together
    <3> QED BY <3>5, <3>6
  <2>2. CASE leases' = leases /\ req'[r] = [Rested(r) EXCEPT !.step = AfterRefusal(r)]
    BY <1>2, <1>9, <2>2, RefusalBelonging DEF FinishRenewal
  <2> QED BY <1>1, <1>9, <2>1, <2>2 DEF FinishRenewal
<1>10. CASE Release(r)
  <2>1. /\ req'[r].step \in {"over", "release"}
        /\ req'[r].taken = req[r].taken - 1 /\ req'[r].leaked = req[r].leaked
    BY <1>1, <1>10 DEF Release, Req
  <2>2. req[r].taken > 0 BY <1>1, <1>10 DEF Release, ReqShape
  <2>3. Taken(r) = Taken(r)' \cup {LastScope(r)} BY <1>1, <2>1, <2>2, TakenShrinks
  <2>4. /\ leases'[LastScope(r)][r] = 0
        /\ \A t \in Scopes : t # LastScope(r) => leases'[t][r] = leases[t][r]
    BY <1>10, StepScopes, ReleaseLeases DEF Release
  <2>5. Listed(r)' BY <2>1, <2>3, <2>4 DEF Listed
  <2> QED BY <2>1, <2>5 DEF Together
<1>11. CASE FaultyAdmit(r)
  <2>1. CASE req'[r] = [Denied(r) EXCEPT !.leaked = TRUE]
    <3>1. req'[r].leaked /\ req'[r].step \in {"over", "release"}
      BY <1>1, <2>1 DEF Req, Denied, AfterDenial
    <3> QED BY <3>1 DEF Listed, Together
  <2>2. CASE leases' = leases /\ req'[r] = Denied(r)
    <3>1. /\ req'[r].step \in {"over", "release"} /\ req'[r].taken = req[r].taken
          /\ req'[r].leaked = req[r].leaked
      BY <1>1, <2>2 DEF Req, Denied, AfterDenial
    <3>2. Kept(r) BY <2>2 DEF Kept
    <3> QED BY <1>1, <1>2, <3>1, <3>2, KeptBelonging
  <2> QED BY <1>1, <1>11, <2>1, <2>2 DEF FaultyAdmit
<1>12. CASE FaultyRenewal(r)
  <2>1. leases' = leases /\ req'[r] = [Rested(r) EXCEPT !.step = AfterRefusal(r)]
    BY <1>1, <1>12 DEF FaultyRenewal
  <2> QED BY <1>2, <1>12, <2>1, RefusalBelonging DEF FaultyRenewal
<1>13. CASE FaultyRelease(r)
  <2>1. req'[r] = [req[r] EXCEPT !.step = "over", !.leaked = TRUE] BY <1>1, <1>13 DEF FaultyRelease
  <2> QED BY <1>1, <2>1 DEF Req, Listed, Together
<1>14. CASE Crash(r)
  <2>1. req'[r] = [Rested(r) EXCEPT !.step = "crashed", !.now = 0, !.leaked = TRUE]
    BY <1>1, <1>14 DEF Crash
  <2> QED BY <1>1, <2>1, RestedType DEF Req, Listed, Together
<1> QED
  BY <1>4, <1>5, <1>6, <1>7, <1>8, <1>9, <1>10, <1>11, <1>12, <1>13, <1>14 DEF Acts, RequestStep

\* Leases stay with their requests.
LEMMA BelongingStep == TypeOK /\ Shape /\ Belonging /\ [Next]_vars => Belonging'
<1> SUFFICES ASSUME TypeOK, Shape, Belonging, [Next]_vars PROVE Belonging' OBVIOUS
<1> SUFFICES ASSUME NEW q \in Requests PROVE (Listed(q) /\ Together(q))' BY DEF Belonging
<1>1. Listed(q) /\ Together(q) BY DEF Belonging
<1>2. CASE Next /\ Acts(q) BY <1>1, <1>2, OwnBelonging
<1>3. CASE UNCHANGED vars \/ ~Acts(q)
  <2>1. req'[q] = req[q] /\ Kept(q)
    <3>1. CASE UNCHANGED vars \/ Tick BY <3>1 DEF vars, Tick, Kept
    <3>2. CASE \E s \in Scopes : Purge(s) BY <3>2, PurgeLeases DEF Purge
    <3>3. CASE \E r \in Requests : Acts(r) /\ r # q BY <3>3, OthersStay, OthersKept
    <3> QED BY <1>3, <3>1, <3>2, <3>3 DEF Next, Acts
  <2> QED BY <1>1, <2>1, ClockAdvances, KeptBelonging
<1> QED BY <1>2, <1>3 DEF vars

\* However far the clocks of the replicas are apart, a lease that none of them
\* has passed disappears only by its own request's release
\* (renew_request_quota, release_request_quota, purge_operational_records).
THEOREM LeasesAreOwned == Spec => OnlyOwnerFreesLiveLease
<1> DEFINE Frees(s, r) == leases[s][r] > clock /\ leases'[s][r] = 0 =>
                            req[r].step = "release" /\ req'[r].taken < req[r].taken
<1>1. TypeOK /\ Shape /\ [Next]_vars => [\A s \in Scopes, r \in Requests : Frees(s, r)]_vars
  <2> SUFFICES ASSUME TypeOK, Shape, Next, NEW s \in Scopes, NEW r \in Requests,
                      leases[s][r] > clock, leases'[s][r] = 0
               PROVE  req[r].step = "release" /\ req'[r].taken < req[r].taken
    OBVIOUS
  <2>1. clock \in Nat /\ leases[s][r] \in Nat BY TimeAssumption DEF TypeOK
  <2>2. ~Kept(r) BY <2>1 DEF Kept
  <2>3. Acts(r)
    <3>1. CASE Tick BY <2>2, <3>1 DEF Tick, Kept
    <3>2. CASE \E t \in Scopes : Purge(t) BY <2>2, <3>2, PurgeLeases
    <3>3. CASE \E q \in Requests : Acts(q) BY <2>2, <3>3, OthersKept
    <3> QED BY <3>1, <3>2, <3>3 DEF Next, Acts
  <2>4. leases' # leases BY <2>2 DEF Kept
  <2>5. ~(req[r].step = "admit" /\ Grant(r, NextScope(r)))
    <3>1. req[r].now + TTL > 0
      <4>1. req[r].now \in Nat BY DEF TypeOK, Req
      <4> QED BY <4>1, TimeAssumption
    <3>2. SUFFICES ASSUME req[r].step = "admit", Grant(r, NextScope(r)) PROVE FALSE OBVIOUS
    <3>3. /\ leases'[NextScope(r)][r] = req[r].now + TTL
          /\ \A t \in Scopes : t # NextScope(r) => leases'[t] = leases[t]
      BY <3>2, GrantLeases
    <3> QED BY <2>1, <3>1, <3>3
  <2>6. ~(MayRenew(r) /\ leases' = Renewed(r))
    <3>1. req[r].beatNow + TTL > 0
      <4>1. req[r].beatNow \in Nat BY DEF TypeOK, Req
      <4> QED BY <4>1, TimeAssumption
    <3>2. SUFFICES ASSUME MayRenew(r), leases' = Renewed(r) PROVE FALSE OBVIOUS
    <3>3. /\ \A t \in RequestScopes(r) : leases'[t][r] = req[r].beatNow + TTL
          /\ \A t \in Scopes : t \notin RequestScopes(r) => leases'[t][r] = leases[t][r]
      BY <3>2, RenewalLeases
    <3> QED BY <2>1, <3>1, <3>3
  <2>7. ~ /\ req[r].step = "admit"
          /\ leases' = [leases EXCEPT ![NextScope(r)] = LeasesAfter(NextScope(r), r, FALSE)]
    BY <2>2, StepScopes, DenialLeases
  <2>8. Release(r)
    <3>1. CASE RequestStep(r)
      BY <2>4, <2>5, <2>6, <2>7, <3>1
         DEF RequestStep, Begin, LockScope, Admit, Finish, StartRenewal, FinishRenewal
    <3>2. CASE ~RequestStep(r)
      BY <2>3, <2>4, <2>5, <3>2 DEF Acts, FaultyAdmit, FaultyRenewal, FaultyRelease, Crash
    <3> QED BY <3>1, <3>2
  <2>9. req'[r].taken = req[r].taken - 1 /\ req[r].taken \in Nat /\ req[r].step = "release"
    BY <2>8 DEF Release, TypeOK, Req
  <2> QED BY <2>9
<1> QED BY <1>1, TypeCorrect, PTL DEF Spec, OnlyOwnerFreesLiveLease

\* While one lease of a running request counts, all do, and a request that is
\* over has given back what it took (RequestQuotaManager.acquire, run_with_lease).
THEOREM LeasesBelong == Spec => []LeasesFollowRequests
<1>1. Init => Belonging
  <2> SUFFICES ASSUME Init, NEW r \in Requests PROVE Listed(r) /\ Together(r) BY DEF Belonging
  <2> QED BY DEF Init, Listed, Together
<1>2. TypeOK /\ Shape /\ Belonging => LeasesFollowRequests
  <2> SUFFICES ASSUME TypeOK, Shape, Belonging, NEW r \in Requests
               PROVE  /\ req[r].step = "running" /\ (\E s \in RequestScopes(r) : leases[s][r] > clock) =>
                            \A s \in RequestScopes(r) : leases[s][r] > clock
                      /\ req[r].step = "over" /\ ~req[r].leaked => \A s \in Scopes : leases[s][r] = 0
    BY DEF LeasesFollowRequests
  <2>1. clock \in Nat /\ \A s \in Scopes : leases[s][r] \in Nat BY TimeAssumption DEF TypeOK
  <2>2. ASSUME req[r].step = "running", NEW s \in RequestScopes(r), leases[s][r] > clock
        PROVE  \A t \in RequestScopes(r) : leases[t][r] > clock
    <3>1. Taken(r) = RequestScopes(r) BY <2>2, RunningTakesAll DEF Shape, ReqShape
    <3>2. PICK T \in Nat : InStep(r, T) BY <2>2 DEF Belonging, Together
    <3>3. leases[s][r] = T BY <2>1, <2>2, <3>1, <3>2 DEF InStep
    <3> QED BY <2>1, <2>2, <3>1, <3>2, <3>3 DEF InStep
  <2>3. ASSUME req[r].step = "over", ~req[r].leaked PROVE \A s \in Scopes : leases[s][r] = 0
    <3>1. Taken(r) = {} BY <2>3 DEF Shape, ReqShape, Taken
    <3> QED BY <2>1, <2>3, <3>1 DEF Belonging, Listed
  <2> QED BY <2>2, <2>3
<1> QED BY <1>1, <1>2, BelongingStep, TypeCorrect, PTL DEF Spec

-----------------------------------------------------------------------------
(* The concurrency quota.                                                  *)

\* The requests that have a lease row in a scope, live or not.
LeasedAt(s) == {r \in Requests : leases[s][r] > 0}

\* There are never more lease rows than slots: a request that may still be
\* admitted has counted fewer than that, and its insert drops what it did not count.
Slots == \A s \in Scopes : Cardinality(LeasedAt(s)) <= MaxConcurrent[s]

Room(r) == Cardinality(HoldersAt(NextScope(r), req[r].now)) < MaxConcurrent[NextScope(r)]

Counted == \A r \in Requests : req[r].step = "admit" /\ ~req[r].full => Room(r)

\* Sets of requests are finite, and smaller ones have fewer elements.
LEMMA RequestSets ==
    ASSUME NEW B \in SUBSET Requests, NEW A \in SUBSET B
    PROVE  /\ Cardinality(A) \in Nat /\ Cardinality(B) \in Nat
           /\ Cardinality(A) <= Cardinality(B)
           /\ \A r : Cardinality(B \cup {r}) <= Cardinality(B) + 1
<1>1. IsFiniteSet(B) BY RequestsAssumption, FS_Subset
<1>2. IsFiniteSet(A) /\ Cardinality(A) <= Cardinality(B) BY <1>1, FS_Subset
<1>3. Cardinality(A) \in Nat /\ Cardinality(B) \in Nat BY <1>1, <1>2, FS_CardinalityType
<1>4. \A r : Cardinality(B \cup {r}) = IF r \in B THEN Cardinality(B) ELSE Cardinality(B) + 1
  BY <1>1, FS_AddElement
<1> QED BY <1>2, <1>3, <1>4

\* No step but a grant creates a lease row.
LEMMA NoNewLease ==
    ASSUME TypeOK, Shape, NEW r \in Requests, Acts(r),
           ~(req[r].step = "admit" /\ ~req[r].full /\ Grant(r, NextScope(r))),
           NEW s \in Scopes, leases'[s][r] > 0
    PROVE  leases[s][r] > 0
<1>1. leases[s][r] \in Nat BY TimeAssumption DEF TypeOK
<1>2. CASE leases' = leases BY <1>2
<1>3. CASE Kept(r) BY <1>3 DEF Kept
<1>4. CASE MayRenew(r) /\ leases' = Renewed(r)
  <2>1. CASE s \in RequestScopes(r) BY <1>4, <2>1, RenewalLeases
  <2>2. CASE s \notin RequestScopes(r)
    <3>1. leases'[s][r] = leases[s][r] BY <1>4, <2>2, RenewalLeases
    <3> QED BY <3>1
  <2> QED BY <2>1, <2>2
<1>5. CASE req[r].step = "release" /\ leases' = Freed(LastScope(r), r)
  <2>1. /\ leases'[LastScope(r)][r] = 0
        /\ \A t \in Scopes : t # LastScope(r) => leases'[t][r] = leases[t][r]
    BY <1>5, StepScopes, ReleaseLeases
  <2> QED BY <2>1
<1>6. CASE Admit(r)
  <2>1. CASE leases' = [leases EXCEPT ![NextScope(r)] = LeasesAfter(NextScope(r), r, FALSE)]
    BY <1>3, <1>6, <2>1, StepScopes, DenialLeases DEF Admit
  <2> QED BY <1>6, <2>1 DEF Admit
<1>7. CASE RequestStep(r) /\ ~Admit(r)
  BY <1>2, <1>4, <1>5, <1>7
     DEF RequestStep, Begin, LockScope, Finish, StartRenewal, FinishRenewal, Release
<1>8. CASE ~RequestStep(r)
  BY <1>2, <1>8 DEF Acts, FaultyAdmit, FaultyRenewal, FaultyRelease, Crash
<1> QED BY <1>6, <1>7, <1>8

\* A grant leaves room: whatever it did not count, it drops.
LEMMA GrantFits ==
    ASSUME TypeOK, Shape, Slots, Counted, NEW r \in Requests, req[r].step = "admit",
           ~req[r].full, Grant(r, NextScope(r))
    PROVE  Slots'
<1>0. PICK t \in Scopes : t = NextScope(r) BY StepScopes
<1>1. req[r].now \in Nat BY DEF TypeOK, Req
<1>2. /\ \A s \in Scopes : s # t => leases'[s] = leases[s]
      /\ \A q \in Requests : q # r /\ leases'[t][q] > 0 => leases[t][q] > req[r].now
  BY <1>0, GrantLeases
<1>3. LeasedAt(t)' \in SUBSET (HoldersAt(t, req[r].now) \cup {r})
  BY <1>2 DEF LeasedAt, HoldersAt
<1>4. Cardinality(HoldersAt(t, req[r].now)) < MaxConcurrent[t] BY <1>0 DEF Counted, Room
<1>5. MaxConcurrent[t] \in Nat BY ScopeAssumption
<1>6. HoldersAt(t, req[r].now) \in SUBSET Requests BY DEF HoldersAt
<1>7. /\ Cardinality(HoldersAt(t, req[r].now) \cup {r}) <= Cardinality(HoldersAt(t, req[r].now)) + 1
      /\ Cardinality(HoldersAt(t, req[r].now)) \in Nat
  BY <1>6, RequestSets
<1>8. /\ Cardinality(LeasedAt(t)') <= Cardinality(HoldersAt(t, req[r].now) \cup {r})
      /\ Cardinality(LeasedAt(t)') \in Nat
      /\ Cardinality(HoldersAt(t, req[r].now) \cup {r}) \in Nat
  <2>1. HoldersAt(t, req[r].now) \cup {r} \in SUBSET Requests BY <1>6
  <2> QED BY <1>3, <2>1, RequestSets
<1>9. Cardinality(LeasedAt(t)') <= MaxConcurrent[t] BY <1>4, <1>5, <1>7, <1>8
<1>10. \A s \in Scopes : s # t => LeasedAt(s)' = LeasedAt(s) BY <1>2 DEF LeasedAt
<1> QED BY <1>9, <1>10 DEF Slots

\* Dropping lease rows makes room.
LEMMA FewerFit ==
    ASSUME Slots, \A s \in Scopes, q \in Requests : leases'[s][q] > 0 => leases[s][q] > 0
    PROVE  Slots'
<1> SUFFICES ASSUME NEW s \in Scopes PROVE Cardinality(LeasedAt(s)') <= MaxConcurrent[s]
  BY DEF Slots
<1>1. LeasedAt(s)' \in SUBSET LeasedAt(s) /\ LeasedAt(s) \in SUBSET Requests BY DEF LeasedAt
<1>2. /\ Cardinality(LeasedAt(s)') <= Cardinality(LeasedAt(s))
      /\ Cardinality(LeasedAt(s)') \in Nat /\ Cardinality(LeasedAt(s)) \in Nat
  BY <1>1, RequestSets
<1>3. Cardinality(LeasedAt(s)) <= MaxConcurrent[s] /\ MaxConcurrent[s] \in Nat
  BY ScopeAssumption DEF Slots
<1> QED BY <1>2, <1>3

\* Lease rows stay within the slots, and so do the counts.
LEMMA SlotsStep == TypeOK /\ Shape /\ Slots /\ Counted /\ [Next]_vars => Slots' /\ Counted'
<1> SUFFICES ASSUME TypeOK, Shape, Slots, Counted, [Next]_vars PROVE Slots' /\ Counted' OBVIOUS
<1>1. Slots'
  <2>1. CASE \A q \in Requests : Kept(q) BY <2>1, FewerFit DEF Kept
  <2>2. CASE UNCHANGED vars \/ Tick BY <2>1, <2>2 DEF vars, Tick, Kept
  <2>3. CASE \E s \in Scopes : Purge(s) BY <2>1, <2>3, PurgeLeases
  <2>4. ASSUME NEW r \in Requests, Acts(r) PROVE Slots'
    <3>1. CASE req[r].step = "admit" /\ ~req[r].full /\ Grant(r, NextScope(r)) BY <3>1, GrantFits
    <3>2. CASE ~(req[r].step = "admit" /\ ~req[r].full /\ Grant(r, NextScope(r)))
      <4>1. \A s \in Scopes, q \in Requests : leases'[s][q] > 0 => leases[s][q] > 0
        BY <2>4, <3>2, NoNewLease, OthersKept DEF Kept
      <4> QED BY <4>1, FewerFit
    <3> QED BY <3>1, <3>2
  <2> QED BY <2>2, <2>3, <2>4 DEF Next, Acts
<1>2. ASSUME NEW q \in Requests, req'[q].step = "admit", ~req'[q].full
      PROVE  Room(q)'
  <2>1. CASE /\ req'[q] = req[q] /\ leases'[NextScope(q)] = leases[NextScope(q)]
    <3>1. NextScope(q)' = NextScope(q) BY <2>1 DEF NextScope
    <3>2. HoldersAt(NextScope(q), req[q].now)' = HoldersAt(NextScope(q), req[q].now)
      BY <2>1, <3>1 DEF HoldersAt
    <3> QED BY <1>2, <2>1, <3>1, <3>2 DEF Counted, Room
  <2>2. CASE LockScope(q)
    <3>1. req'[q] = [req[q] EXCEPT !.step = "admit",
              !.full = Cardinality(HoldersAt(NextScope(q), req[q].now)) >= MaxConcurrent[NextScope(q)]]
      BY <2>2 DEF LockScope, TypeOK
    <3>2. /\ req'[q].now = req[q].now /\ req'[q].taken = req[q].taken
          /\ req'[q].full = (Cardinality(HoldersAt(NextScope(q), req[q].now))
                                >= MaxConcurrent[NextScope(q)])
      BY <3>1 DEF TypeOK, Req
    <3>3. NextScope(q)' = NextScope(q) BY <3>2 DEF NextScope
    <3>4. HoldersAt(NextScope(q), req[q].now)' = HoldersAt(NextScope(q), req[q].now)
      BY <2>2, <3>2, <3>3 DEF HoldersAt, LockScope
    <3>5. NextScope(q) \in Scopes BY <2>2, StepScopes DEF LockScope
    <3>6. /\ Cardinality(HoldersAt(NextScope(q), req[q].now)) \in Nat
          /\ MaxConcurrent[NextScope(q)] \in Nat
      <4>1. HoldersAt(NextScope(q), req[q].now) \in SUBSET Requests BY DEF HoldersAt
      <4> QED BY <3>5, <4>1, RequestSets, ScopeAssumption
    <3>7. ~(Cardinality(HoldersAt(NextScope(q), req[q].now)) >= MaxConcurrent[NextScope(q)])
      BY <1>2, <3>2
    <3>8. Cardinality(HoldersAt(NextScope(q), req[q].now)) < MaxConcurrent[NextScope(q)]
      BY <3>6, <3>7
    <3> QED BY <3>3, <3>4, <3>8 DEF Room
  <2>3. CASE Acts(q) /\ ~LockScope(q)
    <3>1. CASE RequestStep(q)
      <4>1. /\ req[q] \in Req /\ req \in [Requests -> Req] BY DEF TypeOK
      <4>2. CASE Begin(q) \/ Finish(q) \/ StartRenewal(q) \/ Release(q)
        BY <1>2, <4>1, <4>2 DEF Begin, Finish, StartRenewal, Release, Req
      <4>3. CASE Admit(q)
        <5>1. \/ \E step \in {"running", "lock"} : \E now :
                     req'[q] = [req[q] EXCEPT !.taken = @ + 1, !.now = now, !.step = step]
              \/ req'[q] = Denied(q)
          BY <4>1, <4>3 DEF Admit
        <5> QED BY <1>2, <4>1, <5>1 DEF Req, Denied, AfterDenial
      <4>4. CASE FinishRenewal(q)
        <5>1. req[q].step # "admit" BY <4>4 DEF FinishRenewal, Shape, ReqShape
        <5>2. \/ req'[q] = Rested(q)
              \/ req'[q] = [Rested(q) EXCEPT !.step = AfterRefusal(q)]
          BY <4>1, <4>4 DEF FinishRenewal
        <5> QED BY <1>2, <4>1, <5>1, <5>2, RestedType DEF Req
      <4> QED BY <2>3, <3>1, <4>2, <4>3, <4>4 DEF RequestStep
    <3>2. CASE ~RequestStep(q)
      <4>1. /\ req[q] \in Req /\ req \in [Requests -> Req] BY DEF TypeOK
      <4>2. \/ req'[q].step = AfterDenial(q)
            \/ req'[q].step \in {"release", "over", "crashed"}
        <5>1. CASE FaultyAdmit(q) BY <4>1, <5>1 DEF FaultyAdmit, Denied, Req
        <5>2. CASE FaultyRenewal(q)
          <6>1. req'[q].step = AfterRefusal(q) BY <4>1, <5>2, RestedType DEF FaultyRenewal, Req
          <6> QED BY <5>2, <6>1 DEF FaultyRenewal, AfterRefusal, Shape, ReqShape
        <5>3. CASE FaultyRelease(q) BY <4>1, <5>3 DEF FaultyRelease, Req
        <5>4. CASE Crash(q) BY <4>1, <5>4, RestedType DEF Crash, Req
        <5> QED BY <2>3, <3>2, <5>1, <5>2, <5>3, <5>4 DEF Acts
      <4> QED BY <1>2, <4>2 DEF AfterDenial
    <3> QED BY <3>1, <3>2
  <2>4. CASE Next /\ ~Acts(q)
    <3>1. req'[q] = req[q]
      <4>1. CASE Tick \/ \E s \in Scopes : Purge(s) BY <4>1 DEF Tick, Purge
      <4> QED BY <2>4, <4>1, OthersStay DEF Next, Acts
    <3>2. leases'[NextScope(q)] = leases[NextScope(q)]
      BY <1>2, <2>4, <3>1, HolderKeeps DEF Acts
    <3> QED BY <2>1, <3>1, <3>2
  <2>5. CASE UNCHANGED vars BY <2>1, <2>5 DEF vars
  <2> QED BY <2>2, <2>3, <2>4, <2>5
<1>3. Counted'
  BY <1>2 DEF Counted
<1> QED BY <1>1, <1>3

-----------------------------------------------------------------------------
(* The rate quota.                                                         *)

\* The counter of a scope's row covers what its window has admitted, and no
\* later window has admitted anything, unless retention deleted the counter.
CounterSound(s) ==
    /\ rows[s] # NoRow => rows[s].count <= MaxRequests[s]
    /\ \A w \in Windows : ~CounterLost(s, w) /\ admitted[s][w] > 0 =>
          /\ rows[s] # NoRow
          /\ w <= rows[s].window
          /\ admitted[s][w] <= MaxRequests[s]
          /\ rows[s].window = w => admitted[s][w] <= rows[s].count

\* A row that appears counts nothing, and a touched one counts what it did.
LEMMA CounterKept ==
    ASSUME TypeOK, NEW s \in Scopes, CounterSound(s),
           admitted'[s] = admitted[s], purged' = purged,
           \/ rows'[s] = rows[s]
           \/ /\ rows[s] # NoRow /\ rows'[s] # NoRow
              /\ rows'[s].window = rows[s].window /\ rows'[s].count = rows[s].count
           \/ rows[s] = NoRow /\ rows'[s].count = 0
    PROVE  CounterSound(s)'
<1>1. MaxRequests[s] \in Nat \ {0} BY ScopeAssumption
<1>2. \A w \in Windows : CounterLost(s, w)' = CounterLost(s, w) BY DEF CounterLost
<1> QED BY <1>1, <1>2 DEF CounterSound

\* Touching rows changes no counter.
LEMMA TouchCounts ==
    ASSUME TypeOK, NEW scopes, NEW time \in 0..MaxTime, rows' = Touched(scopes, time),
           NEW s \in Scopes
    PROVE  \/ rows'[s] = rows[s]
           \/ /\ rows[s] # NoRow /\ rows'[s] # NoRow
              /\ rows'[s].window = rows[s].window /\ rows'[s].count = rows[s].count
<1>1. CASE s \in scopes /\ rows[s] # NoRow
  <2>1. rows'[s] = [rows[s] EXCEPT !.updated = time] /\ rows[s] \in Row
    BY <1>1 DEF Touched, TypeOK
  <2>2. rows'[s] # NoRow BY <1>1, RowsStay
  <2>3. rows'[s].window = rows[s].window /\ rows'[s].count = rows[s].count
    BY <2>1 DEF Row
  <2> QED BY <1>1, <2>2, <2>3
<1>2. CASE ~(s \in scopes /\ rows[s] # NoRow) BY <1>2 DEF Touched
<1> QED BY <1>1, <1>2

\* A grant is counted in the window of its request, or starts a later one.
LEMMA GrantCounts ==
    ASSUME TypeOK, Shape, NEW r \in Requests, req[r].step = "admit", Grant(r, NextScope(r)),
           InRate(NextScope(r), WindowOf(req[r].now)), purged' = purged,
           \A s \in Scopes : CounterSound(s)
    PROVE  \A s \in Scopes : CounterSound(s)'
<1>1. PICK t \in Scopes : t = NextScope(r) BY StepScopes
<1>2. req[r].now \in 0..MaxTime BY DEF TypeOK, Req
<1>3. PICK window \in Windows : window = WindowOf(req[r].now) BY <1>2, WindowType
<1>4. rows[t] \in Row BY <1>1 DEF Shape, Holding, TypeOK
<1>5. MaxRequests[t] \in Nat \ {0} /\ Windows \subseteq Int
  BY ScopeAssumption DEF Windows
<1>6. rows[t].window \in Windows /\ rows[t].count \in Nat BY <1>4 DEF Row
<1>7. /\ admitted'[t][window] = admitted[t][window] + 1
      /\ \A w \in Windows : w # window => admitted'[t][w] = admitted[t][w]
      /\ \A s \in Scopes : s # t => admitted'[s] = admitted[s] /\ rows'[s] = rows[s]
  BY <1>1, <1>3 DEF Grant, TypeOK
<1>8. rows'[t] = [rows[t] EXCEPT !.window = window,
                     !.count = IF rows[t].window = window THEN rows[t].count + 1 ELSE 1]
  BY <1>1, <1>3 DEF Grant, TypeOK
<1>9. /\ rows'[t].window = window
      /\ rows'[t].count = IF rows[t].window = window THEN rows[t].count + 1 ELSE 1
  BY <1>4, <1>8 DEF Row
<1>10. rows'[t] # NoRow
  <2>1. rows' \in [Scopes -> Row \cup {NoRow}] BY GrantType
  <2>2. rows'[t] \in Row
    <3> DEFINE n == IF rows[t].window = window THEN rows[t].count + 1 ELSE 1
    <3>1. n \in Nat BY <1>6
    <3>2. rows'[t] = [rows[t] EXCEPT !.window = window, !.count = n] BY <1>8
    <3> HIDE DEF n
    <3> QED BY <1>4, <3>1, <3>2 DEF Row
  <2> QED BY <2>2, NoRowAssumption
<1>11. \/ rows[t].window < window
       \/ rows[t].window = window /\ rows[t].count < MaxRequests[t]
  BY <1>1, <1>3 DEF InRate
<1>12. \A s \in Scopes, w \in Windows : CounterLost(s, w)' = CounterLost(s, w) BY DEF CounterLost
<1>13. CounterSound(t)'
  <2>1. rows'[t].count <= MaxRequests[t] BY <1>5, <1>6, <1>9, <1>11
  <2>2. ASSUME NEW w \in Windows, ~CounterLost(t, w), admitted'[t][w] > 0
        PROVE  /\ w <= rows'[t].window
               /\ admitted'[t][w] <= MaxRequests[t]
               /\ rows'[t].window = w => admitted'[t][w] <= rows'[t].count
    <3>1. /\ admitted[t][w] \in Nat
          /\ admitted[t][w] > 0 =>
                /\ w <= rows[t].window
                /\ admitted[t][w] <= MaxRequests[t]
                /\ rows[t].window = w => admitted[t][w] <= rows[t].count
      BY <2>2 DEF CounterSound, TypeOK
    <3>2. w \in Int /\ window \in Int /\ rows[t].window \in Int BY <1>5, <1>6
    <3>3. CASE w # window BY <1>5, <1>7, <1>9, <1>11, <2>2, <3>1, <3>2, <3>3
    <3>4. CASE w = window /\ rows[t].window < window
      BY <1>5, <1>7, <1>9, <2>2, <3>1, <3>2, <3>4
    <3>5. CASE w = window /\ rows[t].window = window
      BY <1>5, <1>6, <1>7, <1>9, <1>11, <2>2, <3>1, <3>5
    <3> QED BY <1>11, <3>3, <3>4, <3>5
  <2> QED BY <1>10, <1>12, <2>1, <2>2 DEF CounterSound
<1>14. ASSUME NEW s \in Scopes, s # t PROVE CounterSound(s)'
  BY <1>7, <1>14, CounterKept
<1> QED BY <1>13, <1>14

\* Whatever happens to the rows of a scope, its counter stays sound.
LEMMA CounterStep ==
    TypeOK /\ Shape /\ (\A s \in Scopes : CounterSound(s)) /\ [Next]_vars
        => \A s \in Scopes : CounterSound(s)'
<1> SUFFICES ASSUME TypeOK, Shape, \A s \in Scopes : CounterSound(s), [Next]_vars
             PROVE  \A s \in Scopes : CounterSound(s)'
  OBVIOUS
<1>1. CASE UNCHANGED <<rows, admitted, purged>>
  BY <1>1, CounterKept
<1>2. ASSUME NEW t \in Scopes, Purge(t), NEW s \in Scopes PROVE CounterSound(s)'
  <2>1. rows[t] \in Row BY <1>2 DEF Purge, TypeOK
  <2>2. purged' = purged \cup {<<t, rows[t].window>>} /\ admitted' = admitted BY <1>2 DEF Purge
  <2>3. ASSUME NEW w \in Windows, CounterLost(s, w) PROVE CounterLost(s, w)'
    BY <2>2, <2>3 DEF CounterLost
  <2>4. CASE s # t
    <3>1. rows'[s] = rows[s] BY <1>2, <2>4 DEF Purge, TypeOK
    <3> QED BY <2>2, <2>3, <3>1 DEF CounterSound
  <2>5. CASE s = t
    <3>1. rows'[s] = NoRow BY <1>2, <2>5 DEF Purge, TypeOK
    <3>2. rows[s].window \in Windows /\ <<s, rows[s].window>> \in purged'
      BY <2>1, <2>2, <2>5 DEF Row
    <3>3. ASSUME NEW w \in Windows, ~CounterLost(s, w)', admitted[s][w] > 0 PROVE FALSE
      <4>1. w <= rows[s].window BY <2>3, <3>3 DEF CounterSound
      <4>2. w \in Int /\ rows[s].window \in Int BY <3>2 DEF Windows
      <4> QED BY <3>2, <3>3, <4>1, <4>2 DEF CounterLost
    <3> QED BY <2>2, <3>1, <3>3 DEF CounterSound
  <2> QED BY <2>4, <2>5
<1>3. ASSUME NEW r \in Requests, Acts(r), NEW s \in Scopes PROVE CounterSound(s)'
  <2>1. CASE /\ req[r].step = "admit" /\ Grant(r, NextScope(r))
             /\ InRate(NextScope(r), WindowOf(req[r].now)) /\ purged' = purged
    BY <2>1, GrantCounts
  <2>2. CASE LockScope(r)
    <3>1. /\ rows' = [rows EXCEPT ![NextScope(r)] =
                [window |-> IF rows[NextScope(r)] = NoRow THEN WindowOf(req[r].now)
                            ELSE rows[NextScope(r)].window,
                 count |-> IF rows[NextScope(r)] = NoRow THEN 0 ELSE rows[NextScope(r)].count,
                 updated |-> req[r].now]]
          /\ admitted' = admitted /\ purged' = purged
      BY <2>2 DEF LockScope
    <3>2. CASE s # NextScope(r)
      <4>1. rows'[s] = rows[s] BY <3>1, <3>2 DEF TypeOK
      <4> QED BY <3>1, <4>1, CounterKept
    <3>3. CASE s = NextScope(r) /\ rows[s] = NoRow
      <4>1. rows'[s].count = 0 BY <3>1, <3>3 DEF TypeOK
      <4> QED BY <3>1, <3>3, <4>1, CounterKept
    <3>4. CASE s = NextScope(r) /\ rows[s] # NoRow
      <4>1. rows'[s].window = rows[s].window /\ rows'[s].count = rows[s].count
        BY <3>1, <3>4 DEF TypeOK
      <4>2. rows'[s] # NoRow
        <5>1. (ReqShape(r) /\ Holding(r))'
          BY <2>2, ShapeStep DEF Shape
        <5>2. req'[r].step = "admit" /\ req'[r].taken = req[r].taken BY <2>2 DEF LockScope, TypeOK, Req
        <5>3. NextScope(r)' = NextScope(r) BY <5>2 DEF NextScope
        <5> QED BY <3>4, <5>1, <5>2, <5>3 DEF Holding
      <4> QED BY <3>1, <3>4, <4>1, <4>2, CounterKept
    <3> QED BY <3>2, <3>3, <3>4
  <2>3. ASSUME NEW scopes, NEW time \in 0..MaxTime, rows' = Touched(scopes, time),
               admitted' = admitted, purged' = purged
        PROVE  CounterSound(s)'
    BY <2>3, TouchCounts, CounterKept
  <2>4. CASE FinishRenewal(r)
    <3>1. req[r].beatNow \in 0..MaxTime BY DEF TypeOK, Req
    <3> QED BY <2>3, <2>4, <3>1 DEF FinishRenewal
  <2>5. CASE Release(r)
    <3> QED BY <2>3, <2>5, ReadingType DEF Release
  <2>6. CASE Admit(r) \/ FaultyAdmit(r)
    BY <1>1, <2>1, <2>6 DEF Admit, FaultyAdmit, Fault
  <2>7. CASE Begin(r) \/ Finish(r) \/ StartRenewal(r) \/ FaultyRenewal(r) \/ FaultyRelease(r) \/ Crash(r)
    BY <1>1, <2>7 DEF Begin, Finish, StartRenewal, FaultyRenewal, FaultyRelease, Crash, Fault
  <2> QED BY <1>3, <2>2, <2>4, <2>5, <2>6, <2>7 DEF Acts, RequestStep
<1> QED BY <1>1, <1>2, <1>3 DEF Next, Acts, Tick, vars

\* Both quotas hold on any number of replicas: a scope never has more live
\* leases than slots, and no window admits more requests than its limit unless
\* retention deleted its counter (try_acquire_request_quota).
THEOREM QuotasAreBounds == Spec => []QuotasHold
<1> DEFINE Sound == \A s \in Scopes : CounterSound(s)
<1>1. Init => Slots /\ Counted /\ Sound
  <2> SUFFICES ASSUME Init PROVE Slots /\ Counted /\ Sound OBVIOUS
  <2>1. ASSUME NEW s \in Scopes PROVE Cardinality(LeasedAt(s)) <= MaxConcurrent[s] /\ CounterSound(s)
    <3>1. LeasedAt(s) = {} BY DEF Init, LeasedAt
    <3>2. MaxConcurrent[s] \in Nat BY ScopeAssumption
    <3> QED BY <3>1, <3>2, FS_EmptySet DEF Init, CounterSound
  <2>2. Counted BY DEF Init, Counted
  <2> QED BY <2>1, <2>2 DEF Slots
<1>2. TypeOK /\ Slots /\ Sound => QuotasHold
  <2> SUFFICES ASSUME TypeOK, Slots, Sound PROVE QuotasHold OBVIOUS
  <2>1. ASSUME NEW s \in Scopes PROVE Cardinality(HoldersAt(s, clock)) <= MaxConcurrent[s]
    <3>1. clock \in Nat /\ \A q \in Requests : leases[s][q] \in Nat BY TimeAssumption DEF TypeOK
    <3>2. HoldersAt(s, clock) \in SUBSET LeasedAt(s) /\ LeasedAt(s) \in SUBSET Requests
      BY <3>1 DEF HoldersAt, LeasedAt
    <3>3. Cardinality(LeasedAt(s)) <= MaxConcurrent[s] /\ MaxConcurrent[s] \in Nat
      BY ScopeAssumption DEF Slots
    <3>4. /\ Cardinality(HoldersAt(s, clock)) <= Cardinality(LeasedAt(s))
          /\ Cardinality(HoldersAt(s, clock)) \in Nat /\ Cardinality(LeasedAt(s)) \in Nat
      BY <3>2, RequestSets
    <3> QED BY <3>3, <3>4
  <2>2. ASSUME NEW s \in Scopes, NEW w \in Windows, ~CounterLost(s, w)
        PROVE  admitted[s][w] <= MaxRequests[s]
    <3>1. admitted[s][w] \in Nat /\ MaxRequests[s] \in Nat BY ScopeAssumption DEF TypeOK
    <3> QED BY <2>2, <3>1 DEF CounterSound
  <2> QED BY <2>1, <2>2 DEF QuotasHold, ConcurrencyIsBounded, RateIsBounded
<1>3. TypeOK /\ Shape /\ Sound /\ [Next]_vars => Sound' BY CounterStep
<1> QED BY <1>1, <1>2, <1>3, SlotsStep, TypeCorrect, PTL DEF Spec
=============================================================================
