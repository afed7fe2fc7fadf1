------------------------ MODULE BackgroundJobsProofs ------------------------
(***************************************************************************)
(* Late workers change nothing and continuations are neither lost nor      *)
(* doubled, for any number of workers, jobs, batches, attempts and faults. *)
(***************************************************************************)
EXTENDS BackgroundJobs, SequenceTheorems, FiniteSetTheorems, TLAPS

Busy == {"handling", "completing", "failing"}

\* Exactly a running row carries a worker, and only a job that succeeded has
\* targets left.
RowSound(x) ==
    /\ x \in Job
    /\ x.worker # Nobody <=> x.status = "running"
    /\ x.more => x.status \in {"succeeded", "purged"}

\* A job at a later cursor follows one that left targets, and its batch before
\* has been persisted.
Follows(j) ==
    /\ jobs[j].after # 0 =>
          /\ jobs[j].after \in Rows /\ jobs[j].after # j
          /\ jobs[jobs[j].after].more
    /\ jobs[j].cursor > 1 => jobs[j].cursor - 1 \in done

\* A job that left targets has its one continuation.
Continues(j) ==
    /\ jobs[j].more => \E k \in Rows : jobs[k].after = j
    /\ \A k, l \in Rows : jobs[k].after = j /\ jobs[l].after = j => k = l

\* A worker at work has a job; if it is still its own, its attempt is the
\* latest; and a handler that left targets persisted its batch.
WorkerSound(w) ==
    /\ worker[w].step \in Busy => worker[w].job \in Rows
    /\ Owns(w) => worker[w].attempt = jobs[worker[w].job].attempts
    /\ worker[w].step = "completing" /\ worker[w].more =>
          /\ jobs[worker[w].job].cursor < Batches
          /\ jobs[worker[w].job].cursor \in done

Sound ==
    /\ TypeOK
    /\ \A j \in Rows : RowSound(jobs[j]) /\ Follows(j) /\ Continues(j)
    /\ \A w \in Workers : WorkerSound(w)

-----------------------------------------------------------------------------
(* What a transaction does to the table.                                   *)

\* One row changes, and remains the same job.
Updates(j, x) ==
    /\ jobs' = [jobs EXCEPT ![j] = x]
    /\ RowSound(x)
    /\ x.cursor = jobs[j].cursor /\ x.after = jobs[j].after /\ x.more = jobs[j].more

\* It is not claimed.
Releases(j, x) ==
    /\ x.attempts = jobs[j].attempts
    /\ x.worker \in {jobs[j].worker, Nobody}

\* The rows are numbered.
LEMMA RowNumbers ==
    ASSUME TypeOK
    PROVE  /\ Rows = 1..Len(jobs) /\ Len(jobs) \in Nat
           /\ \A j \in Rows : jobs[j] \in Job
BY DEF TypeOK, Rows

\* An update keeps the other rows.
LEMMA UpdatedRows ==
    ASSUME TypeOK, NEW j \in Rows, NEW x, Updates(j, x)
    PROVE  /\ jobs' \in Seq(Job) /\ Rows' = Rows
           /\ jobs'[j] = x
           /\ \A k \in Rows : k # j => jobs'[k] = jobs[k]
<1>1. jobs \in Seq(Job) /\ j \in 1..Len(jobs) /\ x \in Job /\ Rows = 1..Len(jobs)
  BY RowNumbers DEF TypeOK, Updates, RowSound
<1>2. /\ jobs' \in Seq(Job) /\ Len(jobs') = Len(jobs)
      /\ \A k \in 1..Len(jobs) : jobs'[k] = IF k = j THEN x ELSE jobs[k]
  BY <1>1, ExceptSeq DEF Updates
<1>3. Rows' = 1..Len(jobs') BY <1>2 DEF Rows
<1> QED BY <1>1, <1>2, <1>3

\* A new row is added behind the others.
LEMMA AddedRows ==
    ASSUME TypeOK, NEW x \in Job, jobs' = Append(jobs, x)
    PROVE  /\ jobs' \in Seq(Job) /\ Rows' = Rows \cup {Len(jobs) + 1}
           /\ Len(jobs) + 1 \notin Rows /\ Len(jobs) + 1 \in Nat \ {0}
           /\ jobs'[Len(jobs) + 1] = x
           /\ \A k \in Rows : jobs'[k] = jobs[k]
<1>1. jobs \in Seq(Job) /\ Rows = 1..Len(jobs) /\ Len(jobs) \in Nat BY RowNumbers DEF TypeOK
<1>2. /\ jobs' \in Seq(Job) /\ Len(jobs') = Len(jobs) + 1
      /\ \A k \in 1..Len(jobs) : jobs'[k] = jobs[k]
      /\ jobs'[Len(jobs) + 1] = x
  BY <1>1, AppendProperties
<1>3. Rows' = 1..Len(jobs') BY <1>2 DEF Rows
<1> QED BY <1>1, <1>2, <1>3

\* The chain of jobs survives an update of a row.
LEMMA UpdateChain ==
    ASSUME Sound, NEW j \in Rows, NEW x, Updates(j, x), done \subseteq done'
    PROVE  \A k \in Rows' : (RowSound(jobs[k]) /\ Follows(k) /\ Continues(k))'
<1>1. /\ Rows' = Rows /\ jobs'[j] = x /\ RowSound(x)
      /\ x.cursor = jobs[j].cursor /\ x.after = jobs[j].after /\ x.more = jobs[j].more
      /\ \A k \in Rows : k # j => jobs'[k] = jobs[k]
  BY UpdatedRows DEF Sound, Updates
<1>2. ASSUME NEW k \in Rows
      PROVE  /\ RowSound(jobs'[k])
             /\ jobs'[k].cursor = jobs[k].cursor /\ jobs'[k].after = jobs[k].after
             /\ jobs'[k].more = jobs[k].more
  BY <1>1 DEF Sound
<1>3. ASSUME NEW k \in Rows PROVE Follows(k)'
  BY <1>1, <1>2 DEF Sound, Follows
<1>4. ASSUME NEW k \in Rows PROVE Continues(k)'
  BY <1>1, <1>2 DEF Sound, Continues
<1>5. ASSUME NEW k \in Rows PROVE RowSound(jobs[k])'
  BY <1>2 DEF RowSound
<1> QED BY <1>1, <1>3, <1>4, <1>5

\* The chain survives a table that stays as it is.
LEMMA SameChain ==
    ASSUME Sound, jobs' = jobs, done \subseteq done'
    PROVE  \A k \in Rows' : (RowSound(jobs[k]) /\ Follows(k) /\ Continues(k))'
<1>1. Rows' = Rows BY DEF Rows
<1> QED BY <1>1 DEF Sound, RowSound, Follows, Continues

\* A row that continues nothing changes nothing for the others.
LEMMA AddChain ==
    ASSUME Sound, NEW n \in Nat \ {0}, n \notin Rows, Rows' = Rows \cup {n},
           \A k \in Rows : jobs'[k] = jobs[k], RowSound(jobs'[n]),
           jobs'[n].after = 0, jobs'[n].cursor = 1, ~jobs'[n].more, done \subseteq done'
    PROVE  \A k \in Rows' : (RowSound(jobs[k]) /\ Follows(k) /\ Continues(k))'
<1>1. \A k \in Rows' : RowSound(jobs'[k]) BY DEF Sound
<1>2. ASSUME NEW k \in Rows PROVE Follows(k)' BY DEF Sound, Follows
<1>3. Follows(n)' BY DEF Follows
<1>4. ASSUME NEW k \in Rows PROVE Continues(k)'
  <2>1. k # 0 BY RowNumbers DEF Sound
  <2>2. Continues(k) BY DEF Sound
  <2> QED BY <2>1, <2>2 DEF Continues
<1>5. Continues(n)'
  <2>1. \A l \in Rows : jobs'[l].after # n BY DEF Sound, Follows
  <2> QED BY <2>1 DEF Continues
<1> QED BY <1>1, <1>2, <1>3, <1>4, <1>5 DEF RowSound

\* So a client's job joins the table.
LEMMA EnqueueChain ==
    ASSUME Sound, jobs' = Append(jobs, NewJob(1, 0)), done \subseteq done'
    PROVE  /\ \A k \in Rows' : (RowSound(jobs[k]) /\ Follows(k) /\ Continues(k))'
           /\ jobs' \in Seq(Job)
<1> DEFINE x == NewJob(1, 0)
<1>1. RowSound(x) /\ x.after = 0 /\ x.cursor = 1 /\ ~x.more
  BY BoundAssumption DEF NewJob, Job, RowSound, Statuses
<1> HIDE DEF x
<1>2. x \in Job BY <1>1 DEF RowSound
<1>3. PICK n : n = Len(jobs) + 1 OBVIOUS
<1>4. /\ jobs' \in Seq(Job) /\ Rows' = Rows \cup {n} /\ n \notin Rows /\ n \in Nat \ {0}
      /\ jobs'[n] = x /\ \A k \in Rows : jobs'[k] = jobs[k]
  BY <1>2, <1>3, AddedRows DEF x, Sound
<1> QED BY <1>1, <1>4, AddChain

\* The row of a job that succeeds.
Success(w) == [Unclaimed(jobs[worker[w].job], "succeeded") EXCEPT !.more = worker[w].more]

LEMMA SuccessRow ==
    ASSUME Sound, NEW w \in Workers, Owns(w)
    PROVE  /\ worker[w].job \in Rows /\ ~jobs[worker[w].job].more
           /\ worker[w].more \in BOOLEAN
           /\ RowSound(Success(w)) /\ Success(w).cursor = jobs[worker[w].job].cursor
           /\ Success(w).after = jobs[worker[w].job].after /\ Success(w).more = worker[w].more
           /\ Success(w).attempts = jobs[worker[w].job].attempts /\ Success(w).worker = Nobody
<1> DEFINE y == jobs[worker[w].job]
<1>1. worker[w].job \in Rows /\ RowSound(y) /\ y.status = "running" /\ y \in Job
  BY DEF Owns, Sound, RowSound
<1>2. worker[w].more \in BOOLEAN BY DEF Sound, TypeOK, Worker
<1>3. ~y.more BY <1>1 DEF RowSound
<1> HIDE DEF y
<1>4. Success(w) = [[y EXCEPT !.status = "succeeded", !.expired = FALSE, !.worker = Nobody]
                      EXCEPT !.more = worker[w].more]
  BY DEF Success, Unclaimed, y
<1>5. "succeeded" \in Statuses BY DEF Statuses
<1>6. Success(w) \in Job BY <1>1, <1>2, <1>4, <1>5 DEF Job
<1>7. /\ Success(w).cursor = y.cursor /\ Success(w).after = y.after
      /\ Success(w).more = worker[w].more /\ Success(w).attempts = y.attempts
      /\ Success(w).worker = Nobody /\ Success(w).status = "succeeded"
  BY <1>1, <1>4 DEF Job
<1> QED BY <1>1, <1>2, <1>3, <1>6, <1>7 DEF RowSound, y

\* What a completion with targets left makes of the table.
LEMMA ContinuedRows ==
    ASSUME Sound, NEW w \in Workers, worker[w].step = "completing", Owns(w), Finished(w),
           worker[w].more
    PROVE  LET j == worker[w].job
               n == Len(jobs) + 1
               x == NewJob(jobs[j].cursor + 1, j)
           IN  /\ jobs' \in Seq(Job) /\ Rows' = Rows \cup {n}
               /\ n \notin Rows /\ n \in Nat \ {0}
               /\ jobs'[j] = Success(w) /\ jobs'[n] = x /\ RowSound(x)
               /\ jobs[j].cursor \in done
               /\ \A k \in Rows : k # j => jobs'[k] = jobs[k]
<1> DEFINE j == worker[w].job
           n == Len(jobs) + 1
           x == NewJob(jobs[j].cursor + 1, j)
           table == [jobs EXCEPT ![j] = Success(w)]
<1>1. j \in Rows /\ RowSound(Success(w)) /\ Success(w).cursor = jobs[j].cursor BY SuccessRow
<1>2. jobs \in Seq(Job) /\ Rows = 1..Len(jobs) /\ Len(jobs) \in Nat BY RowNumbers DEF Sound, TypeOK
<1>3. Success(w) \in Job BY <1>1 DEF RowSound
<1>4. /\ table \in Seq(Job) /\ Len(table) = Len(jobs)
      /\ \A k \in 1..Len(jobs) : table[k] = IF k = j THEN Success(w) ELSE jobs[k]
  BY <1>1, <1>2, <1>3, ExceptSeq
<1>5. jobs[j].cursor < Batches /\ jobs[j].cursor \in done BY DEF Sound, WorkerSound
<1>6. jobs[j].cursor \in Nat /\ jobs[j].cursor + 1 \in 1..Batches /\ j \in Nat
  <2>1. jobs[j] \in Job /\ j \in Nat BY <1>1, <1>2, RowNumbers DEF Sound
  <2>2. jobs[j].cursor \in 1..Batches BY <2>1 DEF Job
  <2> QED BY <1>5, <2>1, <2>2, BoundAssumption
<1>7. RowSound(x) BY <1>6 DEF NewJob, RowSound, Job, Statuses
<1>8. x \in Job BY <1>7 DEF RowSound
<1>9. jobs' = Append(table, x)
  <2>1. Succeeded(w) = table BY DEF Succeeded, Success
  <2>2. table[j].cursor = jobs[j].cursor BY <1>1, <1>2, <1>4
  <2> QED BY <2>1, <2>2 DEF Finished, Continued
<1> HIDE DEF x, table
<1>10. /\ jobs' \in Seq(Job) /\ Len(jobs') = n
       /\ \A k \in 1..Len(jobs) : jobs'[k] = table[k]
       /\ jobs'[n] = x
  BY <1>4, <1>8, <1>9, AppendProperties
<1>11. Rows' = 1..Len(jobs') BY <1>10 DEF Rows
<1>12. Rows' = Rows \cup {n} /\ n \notin Rows /\ n \in Nat \ {0} BY <1>2, <1>10, <1>11
<1>13. jobs'[j] = Success(w) /\ \A k \in Rows : k # j => jobs'[k] = jobs[k]
  BY <1>1, <1>2, <1>4, <1>10
<1> QED BY <1>5, <1>7, <1>10, <1>12, <1>13 DEF x

\* Completion continues the chain: nothing continued a running job, and its
\* continuation comes with its success.
LEMMA FinishChain ==
    ASSUME Sound, NEW w \in Workers, worker[w].step = "completing", Owns(w), Finished(w),
           done' = done
    PROVE  /\ \A k \in Rows' : (RowSound(jobs[k]) /\ Follows(k) /\ Continues(k))'
           /\ jobs' \in Seq(Job)
<1>1. CASE ~worker[w].more
  <2>1. Updates(worker[w].job, Success(w))
    <3>1. jobs' = [jobs EXCEPT ![worker[w].job] = Success(w)]
      BY <1>1 DEF Finished, Continued, Succeeded, Success
    <3>2. Success(w).more = jobs[worker[w].job].more
      <4>1. jobs[worker[w].job] \in Job BY SuccessRow DEF Sound, RowSound
      <4> QED BY <1>1, <4>1, SuccessRow DEF Job
    <3> QED BY <3>1, <3>2, SuccessRow DEF Updates
  <2>2. worker[w].job \in Rows BY SuccessRow
  <2> QED BY <2>1, <2>2, UpdateChain, UpdatedRows DEF Sound
<1>2. CASE worker[w].more
  <2>0. PICK n : n = Len(jobs) + 1 OBVIOUS
  <2>1. PICK j \in Rows : j = worker[w].job BY SuccessRow
  <2>2. PICK x : x = NewJob(jobs[j].cursor + 1, j) OBVIOUS
  <2>3. /\ jobs' \in Seq(Job) /\ Rows' = Rows \cup {n} /\ n \notin Rows /\ n \in Nat \ {0}
        /\ jobs'[j] = Success(w) /\ jobs'[n] = x /\ RowSound(x)
        /\ jobs[j].cursor \in done
        /\ \A k \in Rows : k # j => jobs'[k] = jobs[k]
    BY <1>2, <2>0, <2>1, <2>2, ContinuedRows
  <2>4. /\ RowSound(Success(w)) /\ Success(w).cursor = jobs[j].cursor
        /\ Success(w).after = jobs[j].after /\ Success(w).more /\ ~jobs[j].more
    BY <1>2, <2>1, SuccessRow
  <2>5. x.after = j /\ x.cursor = jobs[j].cursor + 1 /\ ~x.more BY <2>2 DEF NewJob
  <2>6. \A k \in Rows : /\ jobs'[k].after = jobs[k].after /\ jobs'[k].cursor = jobs[k].cursor
                        /\ jobs[k].more => jobs'[k].more
    BY <2>3, <2>4
  <2>7. \A k \in Rows : jobs[k].after # j
    <3> SUFFICES ASSUME NEW k \in Rows, jobs[k].after = j PROVE FALSE OBVIOUS
    <3>1. j # 0 BY RowNumbers DEF Sound
    <3> QED BY <2>4, <3>1 DEF Sound, Follows
  <2>8. \A k \in Rows : jobs[k].after # n
    <3> SUFFICES ASSUME NEW k \in Rows, jobs[k].after = n PROVE FALSE OBVIOUS
    <3> QED BY <2>3 DEF Sound, Follows
  <2>9. \A k \in Rows' : RowSound(jobs'[k])
    BY <2>3, <2>4 DEF Sound
  <2>10. ASSUME NEW k \in Rows PROVE Follows(k)'
    BY <2>3, <2>6 DEF Sound, Follows
  <2>11. Follows(n)'
    <3>1. jobs[j].cursor \in Nat BY RowNumbers DEF Sound, Job
    <3> QED BY <2>3, <2>4, <2>5, <3>1 DEF Follows
  <2>12. Continues(j)' BY <2>3, <2>5, <2>6, <2>7 DEF Continues
  <2>13. Continues(n)' BY <2>3, <2>5, <2>6, <2>8 DEF Continues
  <2>14. ASSUME NEW k \in Rows, k # j PROVE Continues(k)'
    BY <2>3, <2>5, <2>6, <2>14 DEF Sound, Continues
  <2> QED BY <2>3, <2>9, <2>10, <2>11, <2>12, <2>13, <2>14 DEF RowSound
<1> QED BY <1>1, <1>2

-----------------------------------------------------------------------------
(* Workers.                                                                *)

\* Whatever v still owns, it owned before, under the same attempt.
OwnsNoMore(v) ==
    \A k \in Rows' : jobs'[k].worker = v =>
        k \in Rows /\ jobs[k].worker = v /\ jobs'[k].attempts = jobs[k].attempts

\* No row moves, and each remains the same job.
SameCursors == \A k \in Rows : k \in Rows' /\ jobs'[k].cursor = jobs[k].cursor

\* What a worker holds is true for as long as it holds it.
LEMMA WorkerStays ==
    ASSUME Sound, NEW v \in Workers, OwnsNoMore(v), SameCursors, done \subseteq done',
           worker'[v].job = worker[v].job, worker'[v].attempt = worker[v].attempt,
           worker[v].step \in Busy \/ worker'[v].step \notin Busy,
           worker'[v].step = "completing" /\ worker'[v].more =>
              /\ jobs[worker[v].job].cursor < Batches
              /\ jobs[worker[v].job].cursor \in done'
    PROVE  WorkerSound(v)'
<1>1. WorkerSound(v) /\ v # Nobody BY WorkerAssumption DEF Sound
<1>2. worker'[v].step \in Busy => worker[v].job \in Rows BY <1>1 DEF WorkerSound
<1>3. Owns(v)' => Owns(v) /\ jobs'[worker[v].job].attempts = jobs[worker[v].job].attempts
  <2> SUFFICES ASSUME Owns(v)'
               PROVE  Owns(v) /\ jobs'[worker[v].job].attempts = jobs[worker[v].job].attempts
    OBVIOUS
  <2>1. worker[v].job \in Rows' /\ jobs'[worker[v].job].worker = v BY DEF Owns
  <2>2. /\ worker[v].job \in Rows /\ jobs[worker[v].job].worker = v
        /\ jobs'[worker[v].job].attempts = jobs[worker[v].job].attempts
    BY <2>1 DEF OwnsNoMore
  <2>3. jobs[worker[v].job].status = "running" BY <1>1, <2>2 DEF Sound, RowSound
  <2> QED BY <2>2, <2>3 DEF Owns
<1>4. worker'[v].step \in Busy => worker[v].job \in Rows' /\ jobs'[worker[v].job].cursor = jobs[worker[v].job].cursor
  BY <1>2 DEF SameCursors
<1>5. worker'[v].step = "completing" => worker'[v].step \in Busy BY DEF Busy
<1> QED BY <1>1, <1>3, <1>4, <1>5 DEF WorkerSound

\* A worker between two jobs owns none.
LEMMA FreeWorker ==
    ASSUME NEW v, NEW step, step \notin Busy, worker'[v] = [Free EXCEPT !.step = step],
           Rows' \subseteq Nat \ {0}
    PROVE  WorkerSound(v)'
BY DEF Free, WorkerSound, Owns, Busy

\* An update that claims nothing takes jobs from workers only.
LEMMA UpdateOwners ==
    ASSUME Sound, NEW j \in Rows, NEW x, Updates(j, x)
    PROVE  /\ SameCursors
           /\ Releases(j, x) => \A v \in Workers : OwnsNoMore(v)
<1>1. /\ Rows' = Rows /\ jobs'[j] = x /\ x.cursor = jobs[j].cursor
      /\ \A k \in Rows : k # j => jobs'[k] = jobs[k]
  BY UpdatedRows DEF Sound, Updates
<1>2. SameCursors BY <1>1 DEF SameCursors
<1>3. ASSUME Releases(j, x), NEW v \in Workers PROVE OwnsNoMore(v)
  BY <1>1, <1>3, WorkerAssumption DEF Releases, OwnsNoMore
<1> QED BY <1>2, <1>3

\* Nor does a table that stays, a new row, or a completion.
LEMMA SameOwners ==
    ASSUME jobs' = jobs PROVE SameCursors /\ \A v \in Workers : OwnsNoMore(v)
<1>1. Rows' = Rows BY DEF Rows
<1> QED BY <1>1 DEF SameCursors, OwnsNoMore

LEMMA EnqueueOwners ==
    ASSUME Sound, jobs' = Append(jobs, NewJob(1, 0))
    PROVE  SameCursors /\ \A v \in Workers : OwnsNoMore(v)
<1> DEFINE x == NewJob(1, 0)
<1>1. x \in Job /\ x.worker = Nobody BY BoundAssumption DEF NewJob, Job, Statuses
<1> HIDE DEF x
<1>2. PICK n : n = Len(jobs) + 1 OBVIOUS
<1>3. /\ Rows' = Rows \cup {n} /\ jobs'[n] = x
      /\ \A k \in Rows : jobs'[k] = jobs[k]
  BY <1>1, <1>2, AddedRows DEF x, Sound
<1>4. SameCursors BY <1>3 DEF SameCursors
<1>5. jobs'[n].worker = Nobody BY <1>1, <1>3
<1>6. ASSUME NEW v \in Workers, NEW k \in Rows', jobs'[k].worker = v
      PROVE  k \in Rows /\ jobs[k].worker = v /\ jobs'[k].attempts = jobs[k].attempts
  <2>1. k # n BY <1>5, <1>6, WorkerAssumption
  <2>2. k \in Rows BY <1>3, <2>1
  <2>3. jobs'[k] = jobs[k] BY <1>3, <2>2
  <2> QED BY <1>6, <2>2, <2>3
<1> QED BY <1>4, <1>6 DEF OwnsNoMore

LEMMA FinishOwners ==
    ASSUME Sound, NEW w \in Workers, worker[w].step = "completing", Owns(w), Finished(w)
    PROVE  SameCursors /\ \A v \in Workers : OwnsNoMore(v)
<1>1. CASE ~worker[w].more
  <2>1. Updates(worker[w].job, Success(w))
    <3>1. jobs' = [jobs EXCEPT ![worker[w].job] = Success(w)]
      BY <1>1 DEF Finished, Continued, Succeeded, Success
    <3>2. Success(w).more = jobs[worker[w].job].more
      <4>1. jobs[worker[w].job] \in Job BY SuccessRow DEF Sound, RowSound
      <4> QED BY <1>1, <4>1, SuccessRow DEF Job
    <3> QED BY <3>1, <3>2, SuccessRow DEF Updates
  <2>2. worker[w].job \in Rows /\ Releases(worker[w].job, Success(w))
    BY SuccessRow DEF Releases
  <2> QED BY <2>1, <2>2, UpdateOwners
<1>2. CASE worker[w].more
  <2>0. PICK n : n = Len(jobs) + 1 OBVIOUS
  <2>1. PICK j \in Rows : j = worker[w].job BY SuccessRow
  <2>2. PICK x : x = NewJob(jobs[j].cursor + 1, j) OBVIOUS
  <2>3. /\ Rows' = Rows \cup {n} /\ jobs'[j] = Success(w) /\ jobs'[n] = x
        /\ \A k \in Rows : k # j => jobs'[k] = jobs[k]
    BY <1>2, <2>0, <2>1, <2>2, ContinuedRows
  <2>4. Success(w).cursor = jobs[j].cursor /\ Success(w).worker = Nobody
    BY <2>1, SuccessRow
  <2>5. x.worker = Nobody BY <2>2 DEF NewJob
  <2> QED BY <2>3, <2>4, <2>5, WorkerAssumption DEF SameCursors, OwnsNoMore
<1> QED BY <1>1, <1>2

-----------------------------------------------------------------------------
(* Each step, seen from the table.                                         *)

\* The statuses of a row.
LEMMA StatusNames ==
    /\ "queued" \in Statuses /\ "running" \in Statuses /\ "failed" \in Statuses
    /\ "cancelled" \in Statuses /\ "purged" \in Statuses
BY DEF Statuses

\* Ending a claim other than by success, and postponing the next one.
LEMMA UnclaimedRow ==
    ASSUME NEW y, RowSound(y), y.status \in {"queued", "running"},
           NEW status \in {"queued", "failed", "cancelled"}, NEW x, x = Unclaimed(y, status)
    PROVE  /\ RowSound(x) /\ x.cursor = y.cursor /\ x.after = y.after /\ x.more = y.more
           /\ x.attempts = y.attempts /\ x.worker = Nobody /\ x.status = status
<1>1. y \in Job /\ ~y.more BY DEF RowSound
<1>2. status \in Statuses BY StatusNames
<1>3. x = [y EXCEPT !.status = status, !.expired = FALSE, !.worker = Nobody] BY DEF Unclaimed
<1>4. x \in Job BY <1>1, <1>2, <1>3 DEF Job
<1>5. /\ x.cursor = y.cursor /\ x.after = y.after /\ x.more = y.more
      /\ x.attempts = y.attempts /\ x.worker = Nobody /\ x.status = status
  BY <1>1, <1>3 DEF Job
<1> QED BY <1>1, <1>4, <1>5 DEF RowSound

LEMMA RetriedRow ==
    ASSUME NEW y, RowSound(y), NEW due \in BOOLEAN, NEW x, x = [y EXCEPT !.due = due]
    PROVE  /\ RowSound(x) /\ x.cursor = y.cursor /\ x.after = y.after /\ x.more = y.more
           /\ x.attempts = y.attempts /\ x.worker = y.worker /\ x.status = y.status
<1>1. y \in Job BY DEF RowSound
<1>2. x \in Job BY <1>1 DEF Job
<1>3. /\ x.cursor = y.cursor /\ x.after = y.after /\ x.more = y.more
      /\ x.attempts = y.attempts /\ x.worker = y.worker /\ x.status = y.status
  BY <1>1 DEF Job
<1> QED BY <1>2, <1>3 DEF RowSound

\* Changing a flag of a row, or deleting a finished one.
LEMMA FlaggedRow ==
    ASSUME NEW y, RowSound(y), NEW x,
           \/ \E b \in BOOLEAN : x = [y EXCEPT !.due = b] \/ x = [y EXCEPT !.expired = b]
           \/ y.status \in Final /\ x = [y EXCEPT !.status = "purged"]
    PROVE  /\ RowSound(x) /\ x.cursor = y.cursor /\ x.after = y.after /\ x.more = y.more
           /\ x.attempts = y.attempts /\ x.worker = y.worker
           /\ x.status = y.status \/ (y.status \in Final /\ x.status = "purged")
<1>1. y \in Job BY DEF RowSound
<1>2. ASSUME NEW b \in BOOLEAN, x = [y EXCEPT !.due = b] \/ x = [y EXCEPT !.expired = b]
      PROVE  /\ x \in Job /\ x.cursor = y.cursor /\ x.after = y.after /\ x.more = y.more
             /\ x.attempts = y.attempts /\ x.worker = y.worker /\ x.status = y.status
  <2>1. CASE x = [y EXCEPT !.due = b] BY <1>1, <2>1 DEF Job
  <2>2. CASE x = [y EXCEPT !.expired = b] BY <1>1, <2>2 DEF Job
  <2> QED BY <1>2, <2>1, <2>2
<1>3. ASSUME y.status \in Final, x = [y EXCEPT !.status = "purged"]
      PROVE  /\ x \in Job /\ x.cursor = y.cursor /\ x.after = y.after /\ x.more = y.more
             /\ x.attempts = y.attempts /\ x.worker = y.worker /\ x.status = "purged"
  BY <1>1, <1>3, StatusNames DEF Job
<1>4. CASE \E b \in BOOLEAN : x = [y EXCEPT !.due = b] \/ x = [y EXCEPT !.expired = b]
  <2>1. /\ x \in Job /\ x.cursor = y.cursor /\ x.after = y.after /\ x.more = y.more
        /\ x.attempts = y.attempts /\ x.worker = y.worker /\ x.status = y.status
    BY <1>2, <1>4
  <2>2. x.worker # Nobody <=> x.status = "running" BY <2>1 DEF RowSound
  <2>3. x.more => x.status \in {"succeeded", "purged"} BY <2>1 DEF RowSound
  <2>4. RowSound(x) BY <2>1, <2>2, <2>3 DEF RowSound
  <2> QED BY <2>1, <2>4
<1>5. CASE y.status \in Final /\ x = [y EXCEPT !.status = "purged"]
  BY <1>3, <1>5 DEF RowSound, Final
<1> QED BY <1>4, <1>5

\* The transactions that write one row without claiming it.
Writes(j) ==
    \/ Cancel(j) \/ Purge(j) \/ Stall(j) \/ BecomesDue(j) \/ LeaseExpires(j)
    \/ \E w \in Workers : worker[w].job = j /\ Owns(w) /\ (Failed(w) \/ Heartbeat(w))

\* Only retention takes a final status away, and only the owner a running one.
Written(j, x) ==
    /\ Updates(j, x) /\ Releases(j, x)
    /\ jobs[j].status \in Final => x = [jobs[j] EXCEPT !.status = "purged"]
    /\ jobs[j].status = "running" /\ x.status # "running" =>
          \E w \in Workers : worker[w].job = j /\ Owns(w) /\ Failed(w)

LEMMA WrittenRow ==
    ASSUME Sound, NEW j \in Rows, Writes(j)
    PROVE  \E x : Written(j, x)
<1>1. RowSound(jobs[j]) BY DEF Sound
<1>2. ASSUME NEW x, jobs' = [jobs EXCEPT ![j] = x], jobs[j].status \notin Final,
             \E b \in BOOLEAN : x = [jobs[j] EXCEPT !.due = b] \/ x = [jobs[j] EXCEPT !.expired = b]
      PROVE  Updates(j, x) /\ Releases(j, x) /\ x.status = jobs[j].status
  BY <1>1, <1>2, FlaggedRow DEF Updates, Releases
<1>3. CASE Cancel(j)
  <2>1. PICK x : x = Unclaimed(jobs[j], "cancelled") OBVIOUS
  <2>2. jobs' = [jobs EXCEPT ![j] = x] /\ jobs[j].status = "queued"
    BY <1>3, <2>1 DEF Cancel
  <2>3. Updates(j, x) /\ Releases(j, x)
    <3>1. "cancelled" \in {"queued", "failed", "cancelled"} OBVIOUS
    <3>2. /\ RowSound(x) /\ x.cursor = jobs[j].cursor /\ x.after = jobs[j].after
          /\ x.more = jobs[j].more /\ x.attempts = jobs[j].attempts /\ x.worker = Nobody
      BY <1>1, <2>1, <2>2, <3>1, UnclaimedRow
    <3> QED BY <2>2, <3>2 DEF Updates, Releases
  <2> QED BY <2>2, <2>3 DEF Final, Written
<1>4. CASE Purge(j)
  <2>1. PICK x : x = [jobs[j] EXCEPT !.status = "purged"] OBVIOUS
  <2>2. jobs' = [jobs EXCEPT ![j] = x] /\ jobs[j].status \in Final BY <1>4, <2>1 DEF Purge
  <2>3. Updates(j, x) /\ Releases(j, x)
    BY <1>1, <2>1, <2>2, FlaggedRow DEF Updates, Releases
  <2> QED BY <2>1, <2>2, <2>3 DEF Final, Written
<1>5. CASE Stall(j) \/ LeaseExpires(j)
  <2>1. PICK x : x = [jobs[j] EXCEPT !.expired = TRUE] OBVIOUS
  <2>2. jobs' = [jobs EXCEPT ![j] = x] /\ jobs[j].status = "running"
    BY <1>5, <2>1 DEF Stall, LeaseExpires
  <2>3. Updates(j, x) /\ Releases(j, x) /\ x.status = "running" BY <1>2, <2>1, <2>2 DEF Final
  <2> QED BY <2>2, <2>3 DEF Final, Written
<1>6. CASE BecomesDue(j)
  <2>1. PICK x : x = [jobs[j] EXCEPT !.due = TRUE] OBVIOUS
  <2>2. jobs' = [jobs EXCEPT ![j] = x] /\ jobs[j].status = "queued" BY <1>6, <2>1 DEF BecomesDue
  <2>3. Updates(j, x) /\ Releases(j, x) BY <1>2, <2>1, <2>2 DEF Final
  <2> QED BY <2>2, <2>3 DEF Final, Written
<1>7. ASSUME NEW w \in Workers, worker[w].job = j, Owns(w), Heartbeat(w)
      PROVE  \E x : Updates(j, x) /\ Releases(j, x) /\ jobs[j].status = "running" /\ x.status = "running"
  <2>1. PICK x : x = [jobs[j] EXCEPT !.expired = FALSE] OBVIOUS
  <2>2. jobs' = [jobs EXCEPT ![j] = x] /\ jobs[j].status = "running"
    BY <1>7, <2>1 DEF Heartbeat, Owns
  <2> QED BY <1>2, <2>1, <2>2 DEF Final
<1>8. ASSUME NEW w \in Workers, worker[w].job = j, Owns(w), Failed(w)
      PROVE  \E x : Updates(j, x) /\ Releases(j, x) /\ jobs[j].status = "running"
  <2> DEFINE again == jobs[j].attempts < MaxAttempts
             due == ~again
             status == IF again THEN "queued" ELSE "failed"
  <2>1. due \in BOOLEAN OBVIOUS
  <2>2. status \in {"queued", "failed"} OBVIOUS
  <2>3. PICK x : x = [Unclaimed(jobs[j], status) EXCEPT !.due = due] OBVIOUS
  <2>4. jobs' = [jobs EXCEPT ![j] = x] BY <1>8, <2>3 DEF Failed
  <2>5. jobs[j].status = "running" BY <1>8 DEF Owns
  <2> HIDE DEF due, status
  <2>6. PICK y : y = Unclaimed(jobs[j], status) OBVIOUS
  <2>7. /\ RowSound(y) /\ y.cursor = jobs[j].cursor /\ y.after = jobs[j].after
        /\ y.more = jobs[j].more /\ y.attempts = jobs[j].attempts /\ y.worker = Nobody
    BY <1>1, <2>2, <2>5, <2>6, UnclaimedRow
  <2>8. /\ RowSound(x) /\ x.cursor = y.cursor /\ x.after = y.after
        /\ x.more = y.more /\ x.attempts = y.attempts /\ x.worker = y.worker
    BY <2>1, <2>3, <2>6, <2>7, RetriedRow
  <2>9. Updates(j, x) /\ Releases(j, x)
    BY <2>4, <2>7, <2>8 DEF Updates, Releases
  <2> QED BY <2>5, <2>9
<1> QED BY <1>3, <1>4, <1>5, <1>6, <1>7, <1>8 DEF Writes, Final, Written

\* Claiming a row makes its worker the owner of the next attempt.
LEMMA ClaimedRow ==
    ASSUME Sound, NEW w \in Workers, NEW j \in Rows, Claim(w, j)
    PROVE  \E x : /\ Updates(j, x)
                 /\ x.worker = w /\ x.attempts = jobs[j].attempts + 1 /\ x.status = "running"
                 /\ jobs[j].status \in {"queued", "running"}
<1>1. RowSound(jobs[j]) /\ jobs[j] \in Job BY DEF Sound, RowSound
<1>2. jobs[j].status \in {"queued", "running"} BY DEF Claim, Claimable
<1>0. PICK n : n = jobs[j].attempts + 1 OBVIOUS
<1>3. PICK x : x = [jobs[j] EXCEPT !.status = "running", !.worker = w, !.expired = FALSE,
                                   !.attempts = n]
  OBVIOUS
<1>4. jobs' = [jobs EXCEPT ![j] = x] BY <1>0, <1>3 DEF Claim
<1>5. x \in Job
  <2>1. n \in Nat BY <1>0, <1>1 DEF Job
  <2> QED BY <1>1, <1>3, <2>1, StatusNames DEF Job
<1>6. /\ x.cursor = jobs[j].cursor /\ x.after = jobs[j].after /\ x.more = jobs[j].more
      /\ x.attempts = jobs[j].attempts + 1 /\ x.worker = w /\ x.status = "running"
  BY <1>0, <1>1, <1>3 DEF Job
<1>7. RowSound(x)
  <2>1. ~jobs[j].more BY <1>1, <1>2 DEF RowSound
  <2> QED BY <1>5, <1>6, <2>1, WorkerAssumption DEF RowSound
<1> QED BY <1>2, <1>4, <1>6, <1>7 DEF Updates

\* The steps of the system, by what they do to the table.
LEMMA TableStep ==
    ASSUME Sound, Next
    PROVE  \/ jobs' = jobs /\ done \subseteq done'
           \/ /\ done' = done
              /\ \/ \E j \in Rows : Writes(j)
                 \/ \E w \in Workers, j \in Rows : Claim(w, j)
                 \/ jobs' = Append(jobs, NewJob(1, 0))
                 \/ \E w \in Workers :
                       worker[w].step = "completing" /\ Owns(w) /\ Finished(w)
<1>1. CASE Enqueue \/ ResolveConflict BY <1>1 DEF Enqueue, ResolveConflict
<1>2. ASSUME NEW j \in Rows, Cancel(j) \/ Purge(j) \/ Stall(j) \/ BecomesDue(j) \/ LeaseExpires(j)
      PROVE  Writes(j) /\ done' = done
  BY <1>2 DEF Writes, Cancel, Purge, Stall, BecomesDue, LeaseExpires, Fault
<1>3. ASSUME NEW w \in Workers, Fail(w) \/ FaultyFail(w) \/ Heartbeat(w)
      PROVE  done' = done /\ (jobs' = jobs \/ \E j \in Rows : Writes(j))
  <2>1. done' = done BY <1>3 DEF Fail, FaultyFail, Heartbeat, Fault
  <2>2. jobs' = jobs \/ (Owns(w) /\ (Failed(w) \/ Heartbeat(w)))
    BY <1>3 DEF Fail, FaultyFail, Heartbeat
  <2> QED BY <2>1, <2>2 DEF Writes, Owns
<1>4. ASSUME NEW w \in Workers, Complete(w) \/ FaultyComplete(w)
      PROVE  /\ done' = done
             /\ \/ jobs' = jobs
                \/ worker[w].step = "completing" /\ Owns(w) /\ Finished(w)
  BY <1>4 DEF Complete, FaultyComplete, Fault
<1>5. ASSUME NEW w \in Workers, Handle(w) \/ Crash(w) PROVE jobs' = jobs /\ done \subseteq done'
  <2>1. CASE Handle(w)
    <3>1. jobs' = jobs BY <2>1 DEF Handle
    <3>2. \E outcome : done' = IF outcome.persisted THEN done \cup {jobs[worker[w].job].cursor} ELSE done
      BY <2>1 DEF Handle
    <3> QED BY <3>1, <3>2
  <2>2. CASE Crash(w) BY <2>2 DEF Crash, Fault
  <2> QED BY <1>5, <2>1, <2>2
<1>6. ASSUME NEW w \in Workers, NEW j \in Rows, Claim(w, j) PROVE done' = done
  BY <1>6 DEF Claim
<1> QED BY <1>1, <1>2, <1>3, <1>4, <1>5, <1>6 DEF Next, WorkerStep, TimeStep

\* The chain of jobs, and whose they are, survive every step.
LEMMA ChainStep ==
    ASSUME Sound, Next
    PROVE  /\ jobs' \in Seq(Job) /\ done \subseteq done'
           /\ \A k \in Rows' : (RowSound(jobs[k]) /\ Follows(k) /\ Continues(k))'
           /\ SameCursors
           /\ \A v \in Workers : OwnsNoMore(v) \/ \E j \in Rows : Claim(v, j)
<1>1. CASE jobs' = jobs /\ done \subseteq done'
  BY <1>1, SameChain, SameOwners DEF Sound, TypeOK
<1>2. CASE done' = done /\ \E j \in Rows : Writes(j)
  <2>1. PICK j \in Rows : Writes(j) BY <1>2
  <2>2. PICK x : Written(j, x) BY <2>1, WrittenRow
  <2>3. jobs' \in Seq(Job) BY <2>2, UpdatedRows DEF Sound, Written
  <2> QED BY <1>2, <2>2, <2>3, UpdateChain, UpdateOwners DEF Written
<1>3. CASE done' = done /\ \E w \in Workers, j \in Rows : Claim(w, j)
  <2>1. PICK w \in Workers, j \in Rows : Claim(w, j) BY <1>3
  <2>2. PICK x : Updates(j, x) /\ x.worker = w BY <2>1, ClaimedRow
  <2>3. /\ jobs' \in Seq(Job) /\ Rows' = Rows /\ jobs'[j] = x
        /\ \A k \in Rows : k # j => jobs'[k] = jobs[k]
    BY <2>2, UpdatedRows DEF Sound
  <2>4. ASSUME NEW v \in Workers, v # w PROVE OwnsNoMore(v)
    BY <2>2, <2>3, <2>4 DEF OwnsNoMore
  <2> QED BY <1>3, <2>1, <2>2, <2>3, <2>4, UpdateChain, UpdateOwners
<1>4. CASE done' = done /\ jobs' = Append(jobs, NewJob(1, 0))
  BY <1>4, EnqueueChain, EnqueueOwners
<1>5. CASE done' = done /\ \E w \in Workers :
                             worker[w].step = "completing" /\ Owns(w) /\ Finished(w)
  BY <1>5, FinishChain, FinishOwners
<1> QED BY <1>1, <1>2, <1>3, <1>4, <1>5, TableStep

-----------------------------------------------------------------------------
(* Each step, seen from its worker.                                        *)

\* A worker that does not claim keeps what it owns, if anything.
LEMMA NonClaimingWorker ==
    ASSUME Sound, Next, NEW v \in Workers,
           worker[v].step # "idle" \/ worker'[v] = worker[v]
    PROVE  OwnsNoMore(v)
<1> SUFFICES ASSUME NEW j \in Rows, Claim(v, j) PROVE FALSE BY ChainStep
<1>1. worker[v].step = "idle" /\ worker' = [worker EXCEPT ![v] = [Free EXCEPT !.step = "handling", !.job = j,
                                                    !.attempt = jobs[j].attempts + 1]]
  BY DEF Claim
<1>2. worker \in [Workers -> Worker] BY DEF Sound, TypeOK
<1>3. worker'[v].step = "handling" BY <1>1, <1>2 DEF Free
<1> QED BY <1>1, <1>3

\* A worker that does nothing.
LEMMA StandingWorker ==
    ASSUME Sound, Next, NEW v \in Workers, worker'[v] = worker[v]
    PROVE  WorkerSound(v)'
<1>1. OwnsNoMore(v) /\ SameCursors /\ done \subseteq done' BY NonClaimingWorker, ChainStep
<1>2. WorkerSound(v) BY DEF Sound
<1>3. worker'[v].step = "completing" /\ worker'[v].more =>
              /\ jobs[worker[v].job].cursor < Batches
              /\ jobs[worker[v].job].cursor \in done'
  BY <1>1, <1>2 DEF WorkerSound
<1> QED BY <1>1, <1>3, WorkerStays

\* One worker moves.
LEMMA MovedWorker ==
    ASSUME Sound, Next, NEW w \in Workers, NEW z \in Worker,
           worker' = [worker EXCEPT ![w] = z], WorkerSound(w)'
    PROVE  worker' \in [Workers -> Worker] /\ \A v \in Workers : WorkerSound(v)'
<1>1. worker \in [Workers -> Worker] BY DEF Sound, TypeOK
<1>2. worker' \in [Workers -> Worker] /\ \A v \in Workers : v # w => worker'[v] = worker[v]
  BY <1>1
<1> QED BY <1>2, StandingWorker

\* The steps of a worker.
LEMMA StepNames ==
    /\ "idle" \in WorkerSteps /\ "handling" \in WorkerSteps /\ "completing" \in WorkerSteps
    /\ "failing" \in WorkerSteps /\ "dead" \in WorkerSteps
BY DEF WorkerSteps

LEMMA FreeRecord ==
    ASSUME NEW step \in WorkerSteps
    PROVE  [Free EXCEPT !.step = step] \in Worker
BY DEF Free, Worker

\* The rows are numbered after a step, too.
LEMMA NextRows ==
    ASSUME Sound, Next PROVE Rows' \subseteq Nat \ {0}
<1>1. jobs' \in Seq(Job) BY ChainStep
<1>2. Rows' = 1..Len(jobs') /\ Len(jobs') \in Nat BY <1>1 DEF Rows
<1> QED BY <1>2

\* A worker that is done, or dead, has no job.
LEMMA LeavingWorker ==
    ASSUME Sound, Next, NEW w \in Workers, NEW step \in {"idle", "dead"},
           worker' = [worker EXCEPT ![w] = [Free EXCEPT !.step = step]]
    PROVE  worker' \in [Workers -> Worker] /\ \A v \in Workers : WorkerSound(v)'
<1>1. PICK z : z = [Free EXCEPT !.step = step] OBVIOUS
<1>2. z \in Worker BY <1>1, FreeRecord, StepNames
<1>3. worker'[w] = [Free EXCEPT !.step = step] BY <1>1 DEF Sound, TypeOK
<1>4. step \notin Busy BY DEF Busy
<1>5. WorkerSound(w)' BY <1>3, <1>4, NextRows, FreeWorker
<1> QED BY <1>1, <1>2, <1>5, MovedWorker

\* A worker whose handler or completion went wrong.
LEMMA FailingWorker ==
    ASSUME Sound, Next, NEW w \in Workers, worker[w].step \in Busy, Goto(w, "failing")
    PROVE  worker' \in [Workers -> Worker] /\ \A v \in Workers : WorkerSound(v)'
<1>0. worker \in [Workers -> Worker] BY DEF Sound, TypeOK
<1>1. PICK z : z = [worker[w] EXCEPT !.step = "failing"] OBVIOUS
<1>2. worker' = [worker EXCEPT ![w] = z] BY <1>1 DEF Goto
<1>3. /\ z \in Worker /\ z.step = "failing" /\ z.job = worker[w].job
      /\ z.attempt = worker[w].attempt
  BY <1>0, <1>1, StepNames DEF Worker
<1>4. worker'[w] = z BY <1>0, <1>2
<1>5. OwnsNoMore(w) /\ SameCursors /\ done \subseteq done'
  BY NonClaimingWorker, ChainStep DEF Busy
<1>6. WorkerSound(w)' BY <1>3, <1>4, <1>5, WorkerStays
<1> QED BY <1>2, <1>3, <1>6, MovedWorker

\* A worker that has run its handler.
LEMMA HandlingWorker ==
    ASSUME Sound, Next, NEW w \in Workers, Handle(w)
    PROVE  worker' \in [Workers -> Worker] /\ \A v \in Workers : WorkerSound(v)'
<1>0. worker \in [Workers -> Worker] BY DEF Sound, TypeOK
<1>1. worker[w].step = "handling" BY DEF Handle
<1>2. PICK batch : batch = jobs[worker[w].job].cursor OBVIOUS
<1>3. PICK outcome \in Outcomes(batch) :
              /\ done' = IF outcome.persisted THEN done \cup {batch} ELSE done
              /\ worker' = [worker EXCEPT ![w] = [worker[w] EXCEPT
                                !.step = outcome.step, !.more = outcome.more]]
  BY <1>2 DEF Handle
<1>4. batch \in Nat
  <2>1. worker[w].job \in Rows BY <1>1 DEF Sound, WorkerSound, Busy
  <2> QED BY <1>2, <2>1, RowNumbers DEF Sound, Job
<1>5. /\ outcome.step \in {"completing", "failing"} /\ outcome.more \in BOOLEAN
      /\ outcome.more => outcome.persisted /\ batch < Batches
  <2>1. CASE outcome = [step |-> "completing", more |-> batch < Batches, persisted |-> TRUE]
    <3>1. outcome.step = "completing" /\ outcome.more = (batch < Batches) /\ outcome.persisted
      BY <2>1
    <3>2. (batch < Batches) \in BOOLEAN OBVIOUS
    <3> QED BY <3>1, <3>2
  <2>2. CASE outcome = [step |-> "completing", more |-> FALSE, persisted |-> FALSE]
    <3>1. outcome.step = "completing" /\ outcome.more = FALSE BY <2>2
    <3> QED BY <3>1
  <2>3. ASSUME NEW p \in BOOLEAN, outcome = [step |-> "failing", more |-> FALSE, persisted |-> p]
        PROVE  outcome.step = "failing" /\ outcome.more = FALSE
    BY <2>3
  <2> QED BY <1>3, <2>1, <2>2, <2>3 DEF Outcomes
<1>6. PICK z : z = [worker[w] EXCEPT !.step = outcome.step, !.more = outcome.more] OBVIOUS
<1>7. outcome.step \in WorkerSteps BY <1>5, StepNames
<1>8. /\ z \in Worker /\ z.step = outcome.step /\ z.more = outcome.more
      /\ z.job = worker[w].job /\ z.attempt = worker[w].attempt
  BY <1>0, <1>5, <1>6, <1>7 DEF Worker
<1>9. worker' = [worker EXCEPT ![w] = z] BY <1>3, <1>6
<1>10. worker'[w] = z BY <1>0, <1>9
<1>11. OwnsNoMore(w) /\ SameCursors /\ done \subseteq done'
  BY <1>1, NonClaimingWorker, ChainStep
<1>12. z.more => batch < Batches /\ batch \in done' BY <1>3, <1>5, <1>8
<1>13. worker[w].step \in Busy BY <1>1 DEF Busy
<1>14. WorkerSound(w)' BY <1>2, <1>8, <1>10, <1>11, <1>12, <1>13, WorkerStays
<1> QED BY <1>8, <1>9, <1>14, MovedWorker

\* A worker that has claimed a job.
LEMMA ClaimingWorker ==
    ASSUME Sound, Next, NEW w \in Workers, NEW j \in Rows, Claim(w, j)
    PROVE  worker' \in [Workers -> Worker] /\ \A v \in Workers : WorkerSound(v)'
<1>0. worker \in [Workers -> Worker] BY DEF Sound, TypeOK
<1>1. PICK x : Updates(j, x) /\ x.attempts = jobs[j].attempts + 1 BY ClaimedRow
<1>2. Rows' = Rows /\ jobs'[j] = x BY <1>1, UpdatedRows DEF Sound
<1>3. PICK n : n = jobs[j].attempts + 1 OBVIOUS
<1>4. n \in Nat /\ j \in Nat
  <2>1. jobs[j] \in Job /\ j \in Nat BY RowNumbers DEF Sound
  <2> QED BY <1>3, <2>1 DEF Job
<1>5. PICK z : z = [Free EXCEPT !.step = "handling", !.job = j, !.attempt = n] OBVIOUS
<1>6. worker' = [worker EXCEPT ![w] = z] BY <1>3, <1>5 DEF Claim
<1>7. z \in Worker /\ z.step = "handling" /\ z.job = j /\ z.attempt = n
  BY <1>4, <1>5, StepNames DEF Free, Worker
<1>8. worker'[w] = z BY <1>0, <1>6
<1>9. WorkerSound(w)' BY <1>1, <1>2, <1>3, <1>7, <1>8 DEF WorkerSound
<1> QED BY <1>6, <1>7, <1>9, MovedWorker

\* Every step keeps the workers sound.
LEMMA WorkersStep ==
    ASSUME Sound, Next
    PROVE  worker' \in [Workers -> Worker] /\ \A v \in Workers : WorkerSound(v)'
<1>1. CASE worker' = worker
  BY <1>1, StandingWorker DEF Sound, TypeOK
<1>2. ASSUME NEW w \in Workers,
             Complete(w) \/ Fail(w) \/ FaultyComplete(w) \/ FaultyFail(w) \/ Crash(w)
      PROVE  worker' \in [Workers -> Worker] /\ \A v \in Workers : WorkerSound(v)'
  <2>1. CASE Return(w)
    <3>1. Free = [Free EXCEPT !.step = "idle"] BY DEF Free
    <3>2. worker' = [worker EXCEPT ![w] = [Free EXCEPT !.step = "idle"]] BY <2>1, <3>1 DEF Return
    <3> QED BY <3>2, LeavingWorker
  <2>2. CASE worker[w].step = "completing" /\ Goto(w, "failing")
    BY <2>2, FailingWorker DEF Busy
  <2>3. CASE worker' = [worker EXCEPT ![w] = [Free EXCEPT !.step = "dead"]]
    BY <2>3, LeavingWorker
  <2> QED BY <1>2, <2>1, <2>2, <2>3 DEF Complete, Fail, FaultyComplete, FaultyFail, Crash
<1>3. ASSUME NEW w \in Workers, WorkerStep(w)
      PROVE  worker' \in [Workers -> Worker] /\ \A v \in Workers : WorkerSound(v)'
  <2>1. CASE Heartbeat(w) BY <1>1, <2>1 DEF Heartbeat
  <2> QED BY <1>2, <1>3, <2>1, HandlingWorker, ClaimingWorker DEF WorkerStep
<1>4. CASE Enqueue \/ ResolveConflict BY <1>1, <1>4 DEF Enqueue, ResolveConflict
<1>5. ASSUME NEW j \in Rows, Cancel(j) \/ Purge(j) \/ Stall(j) \/ BecomesDue(j) \/ LeaseExpires(j)
      PROVE  worker' = worker
  BY <1>5 DEF Cancel, Purge, Stall, BecomesDue, LeaseExpires
<1> QED BY <1>1, <1>2, <1>3, <1>4, <1>5 DEF Next, TimeStep

-----------------------------------------------------------------------------
(* The invariant, and what it says.                                        *)

LEMMA InitSound == Init => Sound
<1> SUFFICES ASSUME Init PROVE Sound OBVIOUS
<1>1. Rows = {} BY DEF Init, Rows
<1>2. jobs \in Seq(Job) BY DEF Init
<1>3. Free \in Worker BY StepNames DEF Free, Worker
<1>4. \A w \in Workers : worker[w] = Free BY DEF Init
<1>5. ASSUME NEW w \in Workers PROVE WorkerSound(w)
  BY <1>1, <1>4 DEF WorkerSound, Owns, Free, Busy
<1>6. TypeOK BY <1>1, <1>2, <1>3, BoundAssumption DEF Init, TypeOK
<1> QED BY <1>1, <1>5, <1>6 DEF Sound

\* The rest of the state.
LEMMA OthersStep ==
    ASSUME Sound, Next
    PROVE  /\ client' \in {"ready", "conflict", "refused"}
           /\ done' \subseteq 1..Batches /\ faults' \in 0..MaxFaults
<1>0. /\ client \in {"ready", "conflict", "refused"}
      /\ done \subseteq 1..Batches /\ faults \in 0..MaxFaults
  BY DEF Sound, TypeOK
<1>1. CASE Fault
  BY <1>0, <1>1, BoundAssumption DEF Fault
<1>2. CASE UNCHANGED <<done, faults>> /\ client' \in {client, "ready", "conflict", "refused"}
  BY <1>0, <1>2
<1>3. ASSUME NEW w \in Workers, Handle(w)
      PROVE  UNCHANGED <<client, faults>> /\ done' \subseteq 1..Batches
  <2>1. worker[w].job \in Rows BY <1>3 DEF Handle, Sound, WorkerSound, Busy
  <2>2. jobs[worker[w].job].cursor \in 1..Batches BY <2>1, RowNumbers DEF Sound, Job
  <2>3. \E outcome : done' = IF outcome.persisted THEN done \cup {jobs[worker[w].job].cursor} ELSE done
    BY <1>3 DEF Handle
  <2>4. UNCHANGED <<client, faults>> BY <1>3 DEF Handle
  <2> QED BY <1>0, <2>2, <2>3, <2>4
<1>4. CASE Enqueue \/ ResolveConflict
  BY <1>2, <1>4 DEF Enqueue, ResolveConflict
<1>5. ASSUME NEW j \in Rows, Cancel(j) \/ Purge(j) \/ BecomesDue(j) \/ LeaseExpires(j)
      PROVE  UNCHANGED <<client, done, faults>>
  BY <1>5 DEF Cancel, Purge, BecomesDue, LeaseExpires
<1>6. ASSUME NEW w \in Workers,
             Complete(w) \/ Fail(w) \/ Heartbeat(w) \/ \E j \in Rows : Claim(w, j)
      PROVE  UNCHANGED <<client, done, faults>>
  BY <1>6 DEF Complete, Fail, Heartbeat, Claim
<1>7. ASSUME NEW w \in Workers, FaultyComplete(w) \/ FaultyFail(w) \/ Crash(w) PROVE Fault
  BY <1>7 DEF FaultyComplete, FaultyFail, Crash
<1>8. ASSUME NEW j \in Rows, Stall(j) PROVE Fault BY <1>8 DEF Stall
<1> QED BY <1>0, <1>1, <1>2, <1>3, <1>4, <1>5, <1>6, <1>7, <1>8 DEF Next, WorkerStep, TimeStep

LEMMA SoundStep == Sound /\ [Next]_vars => Sound'
<1>1. ASSUME Sound, Next PROVE Sound'
  <2>1. /\ jobs' \in Seq(Job)
        /\ \A k \in Rows' : (RowSound(jobs[k]) /\ Follows(k) /\ Continues(k))'
    BY <1>1, ChainStep
  <2>2. \A k \in Rows' : jobs'[k].worker # Nobody <=> jobs'[k].status = "running"
    BY <2>1 DEF RowSound
  <2>3. TypeOK' BY <1>1, <2>1, <2>2, WorkersStep, OthersStep DEF TypeOK
  <2> QED BY <1>1, <2>1, <2>3, WorkersStep DEF Sound
<1>2. ASSUME Sound, UNCHANGED vars PROVE Sound'
  <2>1. Rows' = Rows BY <1>2 DEF vars, Rows
  <2> QED BY <1>2, <2>1 DEF vars, Sound, TypeOK, RowSound, Follows, Continues, WorkerSound, Owns
<1> QED BY <1>1, <1>2

LEMMA AlwaysSound == Spec => []Sound
BY InitSound, SoundStep, PTL DEF Spec

\* Type correctness of the table, the workers and the client, and the row
\* format of background_jobs: exactly a running row carries a worker.
THEOREM TypeCorrect == Spec => []TypeOK
<1>1. Sound => TypeOK BY DEF Sound
<1> QED BY <1>1, AlwaysSound, PTL

\* complete_background_job continues a job exactly if it succeeded with
\* targets left, exactly once, and only behind a batch that has been persisted.
THEOREM ContinuationsAreDurable == Spec => []ContinuationIsDurable
<1>1. ASSUME Sound, NEW j \in Rows
      PROVE  /\ Cardinality({k \in Rows : jobs[k].after = j}) = IF jobs[j].more THEN 1 ELSE 0
             /\ jobs[j].cursor > 1 => jobs[j].cursor - 1 \in done
  <2>1. Follows(j) /\ Continues(j) BY <1>1 DEF Sound
  <2>2. jobs[j].more \in BOOLEAN /\ j # 0 BY <1>1, RowNumbers DEF Sound, Job
  <2>3. CASE jobs[j].more
    <3>1. PICK k \in Rows : jobs[k].after = j BY <2>1, <2>3 DEF Continues
    <3>2. {l \in Rows : jobs[l].after = j} = {k} BY <2>1, <3>1 DEF Continues
    <3> QED BY <2>1, <2>3, <3>2, FS_Singleton DEF Follows
  <2>4. CASE ~jobs[j].more
    <3>1. \A k \in Rows : jobs[k].after # j
      <4> SUFFICES ASSUME NEW k \in Rows, jobs[k].after = j PROVE FALSE OBVIOUS
      <4> QED BY <1>1, <2>2, <2>4 DEF Sound, Follows
    <3>2. {l \in Rows : jobs[l].after = j} = {} BY <3>1
    <3> QED BY <2>1, <2>4, <3>2, FS_EmptySet DEF Follows
  <2> QED BY <2>2, <2>3, <2>4
<1>2. Sound => ContinuationIsDurable BY <1>1 DEF ContinuationIsDurable
<1> QED BY <1>2, AlwaysSound, PTL

-----------------------------------------------------------------------------
(* Late workers.                                                           *)

\* The worker of j's latest attempt moves.
OwnerMoves(j) ==
    \E w \in Workers :
        /\ worker'[w] # worker[w]
        /\ worker[w].job = j /\ worker[w].attempt = jobs[j].attempts

\* Only the owner takes a running job away, and a finished one is only purged.
Refused(j) ==
    /\ jobs[j].status = "running" /\ jobs'[j].status # "running" => OwnerMoves(j)
    /\ jobs[j].status \in Final =>
          jobs'[j] \in {jobs[j], [jobs[j] EXCEPT !.status = "purged"]}

LEMMA WriteRefused ==
    ASSUME Sound, NEW j \in Rows, NEW k \in Rows, NEW x, Updates(k, x),
           jobs[k].status \in Final => x = [jobs[k] EXCEPT !.status = "purged"],
           jobs[k].status = "running" /\ x.status # "running" => OwnerMoves(k)
    PROVE  Refused(j)
<1>1. jobs'[k] = x /\ \A i \in Rows : i # k => jobs'[i] = jobs[i]
  BY UpdatedRows DEF Sound
<1>2. CASE j = k BY <1>1, <1>2 DEF Refused
<1>3. CASE j # k
  <2>1. jobs'[j] = jobs[j] BY <1>1, <1>3
  <2> QED BY <2>1 DEF Refused
<1> QED BY <1>2, <1>3

\* The owner of a claim holds its latest attempt.
LEMMA OwnersAttempt ==
    ASSUME Sound, NEW w \in Workers, Owns(w), worker'[w] # worker[w]
    PROVE  OwnerMoves(worker[w].job)
BY DEF Sound, WorkerSound, OwnerMoves

\* A worker that returns, gives up or dies changes.
LEMMA MovingWorker ==
    ASSUME Sound, NEW w \in Workers,
           \/ worker[w].step # "idle" /\ Return(w)
           \/ worker[w].step # "failing" /\ Goto(w, "failing")
    PROVE  worker'[w] # worker[w]
<1>1. worker \in [Workers -> Worker] BY DEF Sound, TypeOK
<1>2. CASE worker[w].step # "idle" /\ Return(w)
  <2>1. worker'[w] = Free BY <1>1, <1>2 DEF Return
  <2>2. Free.step = "idle" BY DEF Free
  <2> QED BY <1>2, <2>1, <2>2
<1>3. CASE worker[w].step # "failing" /\ Goto(w, "failing")
  <2>1. PICK z : z = [worker[w] EXCEPT !.step = "failing"] OBVIOUS
  <2>2. worker'[w] = z BY <1>1, <1>3, <2>1 DEF Goto
  <2>3. z.step = "failing" BY <1>1, <2>1 DEF Worker
  <2> QED BY <1>3, <2>2, <2>3
<1> QED BY <1>2, <1>3

\* Completing a job.
LEMMA FinishRefused ==
    ASSUME Sound, NEW j \in Rows, NEW w \in Workers, worker[w].step = "completing",
           Owns(w), Finished(w), worker'[w] # worker[w]
    PROVE  Refused(j)
<1>1. PICK k \in Rows : k = worker[w].job BY SuccessRow
<1>2. OwnerMoves(k) BY <1>1, OwnersAttempt
<1>3. jobs[k].status = "running" BY <1>1 DEF Owns
<1>4. \A i \in Rows : i # k => jobs'[i] = jobs[i]
  <2>1. CASE ~worker[w].more
    <3>1. jobs' = [jobs EXCEPT ![k] = Success(w)]
      BY <1>1, <2>1 DEF Finished, Continued, Succeeded, Success
    <3>2. Success(w).more = jobs[k].more
      <4>1. jobs[k] \in Job BY DEF Sound, RowSound
      <4> QED BY <1>1, <2>1, <4>1, SuccessRow DEF Job
    <3>3. Updates(k, Success(w)) BY <1>1, <3>1, <3>2, SuccessRow DEF Updates
    <3> QED BY <3>3, UpdatedRows DEF Sound
  <2>2. CASE worker[w].more BY <1>1, <2>2, ContinuedRows
  <2> QED BY <2>1, <2>2
<1>5. CASE j = k BY <1>2, <1>3, <1>5 DEF Refused, Final
<1>6. CASE j # k
  <2>1. jobs'[j] = jobs[j] BY <1>4, <1>6
  <2> QED BY <2>1 DEF Refused
<1> QED BY <1>5, <1>6

\* Every write but a failure leaves a running job running.
LEMMA WritesRefused ==
    ASSUME Sound, NEW j \in Rows, NEW k \in Rows,
           \/ Cancel(k) \/ Purge(k) \/ Stall(k) \/ BecomesDue(k) \/ LeaseExpires(k)
           \/ \E w \in Workers : worker[w].job = k /\ Heartbeat(w)
    PROVE  Refused(j)
<1>1. CASE Cancel(k) \/ Purge(k) \/ BecomesDue(k)
  <2>1. Writes(k) /\ jobs[k].status # "running"
    BY <1>1 DEF Writes, Cancel, Purge, BecomesDue, Final
  <2>2. PICK x : Written(k, x) BY <2>1, WrittenRow
  <2> QED BY <2>1, <2>2, WriteRefused DEF Written
<1>2. ASSUME NEW b \in BOOLEAN, jobs' = [jobs EXCEPT ![k].expired = b], jobs[k].status = "running"
      PROVE  Refused(j)
  <2>1. PICK x : x = [jobs[k] EXCEPT !.expired = b] OBVIOUS
  <2>2. jobs' = [jobs EXCEPT ![k] = x] BY <1>2, <2>1
  <2>3. RowSound(jobs[k]) BY DEF Sound
  <2>4. Updates(k, x) /\ x.status = jobs[k].status
    <3>1. jobs[k].status \notin Final BY <1>2 DEF Final
    <3> QED BY <2>1, <2>2, <2>3, <3>1, FlaggedRow DEF Updates
  <2> QED BY <1>2, <2>4, WriteRefused DEF Final
<1>3. CASE Stall(k) \/ LeaseExpires(k) BY <1>2, <1>3 DEF Stall, LeaseExpires
<1>4. ASSUME NEW w \in Workers, worker[w].job = k, Heartbeat(w) PROVE Refused(j)
  BY <1>2, <1>4 DEF Heartbeat, Owns
<1> QED BY <1>1, <1>3, <1>4

\* A failure is the owner's.
LEMMA FailRefused ==
    ASSUME Sound, NEW j \in Rows, NEW w \in Workers, Owns(w), Failed(w), worker'[w] # worker[w]
    PROVE  Refused(j)
<1>1. PICK k \in Rows : k = worker[w].job BY DEF Owns
<1>2. Writes(k) BY <1>1 DEF Writes
<1>3. PICK x : Written(k, x) BY <1>2, WrittenRow
<1>4. OwnerMoves(k) BY <1>1, OwnersAttempt
<1> QED BY <1>3, <1>4, WriteRefused DEF Written

LEMMA RefusedStep ==
    ASSUME Sound, Next, NEW j \in Rows
    PROVE  Refused(j)
<1>1. CASE jobs' = jobs BY <1>1 DEF Refused
<1>2. CASE jobs' = Append(jobs, NewJob(1, 0))
  <2> DEFINE x == NewJob(1, 0)
  <2>1. x \in Job BY BoundAssumption DEF NewJob, Job, Statuses
  <2> HIDE DEF x
  <2>2. jobs'[j] = jobs[j] BY <1>2, <2>1, AddedRows DEF x, Sound
  <2> QED BY <2>2 DEF Refused
<1>3. ASSUME NEW w \in Workers, Complete(w) \/ FaultyComplete(w) PROVE Refused(j)
  <2>1. CASE Owns(w) /\ Finished(w)
    <3>1. worker[w].step = "completing" /\ (Return(w) \/ Goto(w, "failing"))
      BY <1>3, <2>1 DEF Complete, FaultyComplete
    <3> QED BY <2>1, <3>1, MovingWorker, FinishRefused
  <2> QED BY <1>1, <1>3, <2>1 DEF Complete, FaultyComplete
<1>4. ASSUME NEW w \in Workers, Fail(w) \/ FaultyFail(w) PROVE Refused(j)
  <2>1. CASE Owns(w) /\ Failed(w)
    <3>1. worker[w].step = "failing" /\ Return(w) BY <1>4 DEF Fail, FaultyFail
    <3> QED BY <2>1, <3>1, MovingWorker, FailRefused
  <2> QED BY <1>1, <1>4, <2>1 DEF Fail, FaultyFail
<1>5. ASSUME NEW w \in Workers, Heartbeat(w) PROVE Refused(j)
  BY <1>5, WritesRefused DEF Heartbeat, Owns
<1>6. ASSUME NEW w \in Workers, NEW k \in Rows, Claim(w, k) PROVE Refused(j)
  <2>1. PICK x : /\ Updates(k, x) /\ x.status = "running"
                 /\ jobs[k].status \in {"queued", "running"}
    BY <1>6, ClaimedRow
  <2> QED BY <2>1, WriteRefused DEF Final
<1>7. ASSUME NEW w \in Workers, Handle(w) \/ Crash(w) PROVE Refused(j)
  BY <1>1, <1>7 DEF Handle, Crash
<1>8. ASSUME NEW k \in Rows, Cancel(k) \/ Purge(k) \/ Stall(k) \/ BecomesDue(k) \/ LeaseExpires(k)
      PROVE  Refused(j)
  BY <1>8, WritesRefused
<1>9. CASE Enqueue \/ ResolveConflict
  BY <1>1, <1>2, <1>9 DEF Enqueue, ResolveConflict
<1> QED BY <1>3, <1>4, <1>5, <1>6, <1>7, <1>8, <1>9 DEF Next, WorkerStep, TimeStep

\* claim_background_job, complete_background_job and fail_background_job keep a
\* worker that lost its lease away from its successor's claim and from the
\* outcome of a finished job.
THEOREM LateWorkersRefused == Spec => LateWorkersAreRefused
<1>1. Sound /\ [Next]_vars =>
        [\A j \in Rows :
          /\ jobs[j].status = "running" /\ jobs'[j].status # "running" =>
                \E w \in Workers :
                    /\ worker'[w] # worker[w]
                    /\ worker[w].job = j /\ worker[w].attempt = jobs[j].attempts
          /\ jobs[j].status \in Final =>
                jobs'[j] \in {jobs[j], [jobs[j] EXCEPT !.status = "purged"]}]_vars
  BY RefusedStep DEF Refused, OwnerMoves
<1> QED BY <1>1, AlwaysSound, PTL DEF Spec, LateWorkersAreRefused
=============================================================================
