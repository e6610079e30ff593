---------------------------- MODULE JobSet_proofs ----------------------------
(***************************************************************************)
(* Theorems about JobSet, for every number of children, incarnations and   *)
(* pods.                                                                   *)
(*                                                                         *)
(* That a Completed JobSet is right does not follow from TypeOK: the       *)
(* counters have to be tied to the children they were counted from         *)
(* (Tallied), and cached object, running reconcile and children to the     *)
(* JobSet they belong to (Belongs), because a reconcile looks at none of   *)
(* them twice.                                                             *)
(***************************************************************************)
EXTENDS JobSet, TLAPS

\* Uids are given out in order; where there is no JobSet there is none at all.
Numbered ==
  /\ js.live => js.uid = uids /\ uids # 0
  /\ ~js.live => js = NoJobSet

\* Before the first JobSet there is nothing.
Fresh ==
  uids = 0 => cache = NoJobSet /\ work = Idle /\ \A i \in Index : ~jobs[i].live

\* While the first JobSet exists, all that the controller knows or made is its own.
Belongs ==
  js.uid = 1 =>
    /\ cache.live => cache.uid = 1 /\ cache.replicas = js.replicas
    /\ work.pc # "idle" => work.uid = 1 /\ work.replicas = js.replicas
    /\ \A i \in Index : jobs[i].live => jobs[i].owner = 1

\* If every child so far was counted as succeeded, every one of them has.
Tallied ==
  js.uid = 1 /\ work.pc # "idle" /\ work.succeeded_jobs = work.total_jobs =>
    \A i \in Index : i < work.total_jobs => jobs[i].live /\ jobs[i].succeeded > 0

IInv == TypeOK /\ Numbered /\ Fresh /\ Belongs /\ Tallied /\ CompletedMeansSucceeded

\* Nothing, as a JobSet, as a Job and as a reconcile.
LEMMA Nothing ==
  NoJobSet \in JobSetObject /\ NoJob \in Job /\ Idle \in Work
<1>1. 0 \in 0..MaxUid /\ 0 \in 0..MaxReplicas /\ 0 \in 0..MaxPods
  BY JobSetAssumption DEF JobSetAssumption
<1>2. NoJobSet \in JobSetObject
  BY <1>1 DEF NoJobSet, JobSetObject
<1>3. NoJob \in Job
  BY <1>1 DEF NoJob, Job
<1>4. Idle \in Work
  BY <1>1 DEF Idle, Work
<1> QED
  BY <1>2, <1>3, <1>4

\* What the loop does next keeps the counters and is no end of the reconcile.
LEMMA LoopedWork ==
  ASSUME NEW w \in Work, w.total_jobs <= w.replicas
  PROVE  /\ Looped(w) \in Work
         /\ Looped(w).pc = IF w.total_jobs < w.replicas THEN "get" ELSE "patch"
         /\ Looped(w).uid = w.uid /\ Looped(w).replicas = w.replicas
         /\ Looped(w).total_jobs = w.total_jobs
         /\ Looped(w).succeeded_jobs = w.succeeded_jobs
         /\ Looped(w).failed_jobs = w.failed_jobs
  BY DEF Looped, Work

\* One more child is counted, as succeeded, as failed or as neither.
LEMMA CountedWork ==
  ASSUME JobSetAssumption, NEW w \in Work, NEW job \in Job, w.total_jobs < w.replicas,
         w.succeeded_jobs + w.failed_jobs <= w.total_jobs
  PROVE  /\ Count(w, job) \in Work
         /\ Count(w, job).uid = w.uid /\ Count(w, job).replicas = w.replicas
         /\ Count(w, job).total_jobs = w.total_jobs + 1
         /\ Count(w, job).succeeded_jobs = IF job.succeeded > 0 THEN w.succeeded_jobs + 1
                                           ELSE w.succeeded_jobs
         /\ Count(w, job).succeeded_jobs + Count(w, job).failed_jobs <= w.total_jobs + 1
<1>1. /\ w.total_jobs \in 0..MaxReplicas /\ w.replicas \in 0..MaxReplicas
      /\ w.succeeded_jobs \in 0..MaxReplicas /\ w.failed_jobs \in 0..MaxReplicas
      /\ job.succeeded \in 0..MaxPods /\ job.failed \in 0..MaxPods
  BY DEF Work, Job
<1>2. /\ w.total_jobs + 1 \in 0..MaxReplicas
      /\ w.succeeded_jobs < w.total_jobs + 1 => w.succeeded_jobs + 1 \in 0..MaxReplicas
      /\ w.failed_jobs < w.total_jobs + 1 => w.failed_jobs + 1 \in 0..MaxReplicas
  BY <1>1 DEF JobSetAssumption
<1>3. w.succeeded_jobs < w.total_jobs + 1 /\ w.failed_jobs < w.total_jobs + 1
  BY <1>1 DEF JobSetAssumption
<1>4. /\ Count(w, job).uid = w.uid /\ Count(w, job).replicas = w.replicas
      /\ Count(w, job).total_jobs = w.total_jobs + 1
      /\ Count(w, job).succeeded_jobs = IF job.succeeded > 0 THEN w.succeeded_jobs + 1
                                        ELSE w.succeeded_jobs
      /\ Count(w, job).failed_jobs = IF job.succeeded = 0 /\ job.failed > 0
                                      THEN w.failed_jobs + 1 ELSE w.failed_jobs
  BY DEF Count, Work
<1>5. Count(w, job) \in Work
  BY <1>1, <1>2, <1>3 DEF Count, Work
<1>6. Count(w, job).succeeded_jobs + Count(w, job).failed_jobs <= w.total_jobs + 1
  BY <1>1, <1>4 DEF JobSetAssumption
<1> QED
  BY <1>4, <1>5, <1>6

\* The types, action by action.
LEMMA TypeStep ==
  ASSUME TypeOK, [Next]_vars
  PROVE  TypeOK'
<1> USE JobSetAssumption
<1>1. CASE Observe
  BY <1>1 DEF Observe, cluster, TypeOK, JobSetObject
<1>2. CASE reconcile_jobset
  <2>1. CASE work' = Idle
    BY <1>2, <2>1 DEF reconcile_jobset, cluster, TypeOK, Idle, Work
  <2>2. CASE work' # Idle
    <3> DEFINE w == [Idle EXCEPT !.uid = cache.uid, !.replicas = cache.replicas]
    <3>1. work' = Looped(w) /\ cache.replicas # None
      BY <1>2, <2>2 DEF reconcile_jobset
    <3>2. /\ w \in Work /\ w.total_jobs = 0 /\ w.succeeded_jobs = 0 /\ w.failed_jobs = 0
          /\ w.total_jobs <= w.replicas
      <4>1. cache.uid \in 0..MaxUid /\ cache.replicas \in 0..MaxReplicas
        BY <3>1 DEF TypeOK, JobSetObject
      <4>2. w \in Work
        BY <4>1, Nothing DEF Work
      <4>3. w.total_jobs = 0 /\ w.succeeded_jobs = 0 /\ w.failed_jobs = 0
        BY DEF Idle
      <4>4. w.replicas = cache.replicas
        BY DEF Idle
      <4> QED
        BY <4>1, <4>2, <4>3, <4>4
    <3> HIDE DEF w
    <3>3. w.replicas \in Nat
      BY <3>2 DEF Work
    <3>4. /\ work' \in Work /\ work'.succeeded_jobs + work'.failed_jobs <= work'.total_jobs
          /\ work'.pc \in {"get", "create"} => work'.total_jobs < work'.replicas
          /\ work'.pc = "patch" => work'.total_jobs = work'.replicas
      BY <3>1, <3>2, <3>3, LoopedWork
    <3> QED
      BY <1>2, <3>4 DEF reconcile_jobset, cluster, TypeOK
  <2> QED
    BY <2>1, <2>2
<1>3. CASE GetJob
  <2>1. /\ work \in Work /\ work.total_jobs < work.replicas /\ work.total_jobs \in Index
        /\ work.succeeded_jobs + work.failed_jobs <= work.total_jobs
    BY <1>3 DEF GetJob, TypeOK, Work, Index
  <2>2. jobs[work.total_jobs] \in Job
    BY <2>1 DEF TypeOK
  <2>3. CASE jobs[work.total_jobs].live
    <3> DEFINE w == Count(work, jobs[work.total_jobs])
    <3>1. /\ w \in Work /\ w.replicas = work.replicas /\ w.total_jobs = work.total_jobs + 1
          /\ w.succeeded_jobs + w.failed_jobs <= w.total_jobs
      BY <2>1, <2>2, CountedWork
    <3>2. work' = Looped(w)
      BY <1>3, <2>3 DEF GetJob
    <3> HIDE DEF w
    <3>3. w.total_jobs <= w.replicas /\ w.total_jobs \in Nat /\ w.replicas \in Nat
      BY <2>1, <3>1 DEF Work
    <3>4. /\ work' \in Work /\ work'.succeeded_jobs + work'.failed_jobs <= work'.total_jobs
          /\ work'.pc \in {"get", "create"} => work'.total_jobs < work'.replicas
          /\ work'.pc = "patch" => work'.total_jobs = work'.replicas
      BY <3>1, <3>2, <3>3, LoopedWork
    <3> QED
      BY <1>3, <3>4 DEF GetJob, cluster, TypeOK
  <2>4. CASE ~jobs[work.total_jobs].live
    BY <1>3, <2>1, <2>4 DEF GetJob, cluster, TypeOK, Work
  <2> QED
    BY <2>3, <2>4
<1>4. CASE CreateJob
  <2> DEFINE w == [work EXCEPT !.total_jobs = @ + 1]
  <2>1. /\ work \in Work /\ work.total_jobs < work.replicas /\ work.total_jobs \in Index
        /\ work.succeeded_jobs + work.failed_jobs <= work.total_jobs
    BY <1>4 DEF CreateJob, TypeOK, Work, Index
  <2>2. /\ w \in Work /\ w.total_jobs = work.total_jobs + 1 /\ w.replicas = work.replicas
        /\ w.succeeded_jobs = work.succeeded_jobs /\ w.failed_jobs = work.failed_jobs
    BY <2>1 DEF Work
  <2>3. work' = Looped(w)
    BY <1>4 DEF CreateJob
  <2> HIDE DEF w
  <2>4. /\ w.total_jobs <= w.replicas /\ w.total_jobs \in Nat /\ w.replicas \in Nat
        /\ w.succeeded_jobs + w.failed_jobs <= w.total_jobs
    BY <2>1, <2>2 DEF Work
  <2>5. /\ work' \in Work /\ work'.succeeded_jobs + work'.failed_jobs <= work'.total_jobs
        /\ work'.pc \in {"get", "create"} => work'.total_jobs < work'.replicas
        /\ work'.pc = "patch" => work'.total_jobs = work'.replicas
    BY <2>2, <2>3, <2>4, LoopedWork
  <2>6. [NoJob EXCEPT !.live = TRUE, !.owner = work.uid] \in Job
    <3>1. work.uid \in 0..MaxUid
      BY <2>1 DEF Work
    <3> QED
      BY <3>1, Nothing DEF Job
  <2>7. jobs' \in [Index -> Job]
    BY <1>4, <2>1, <2>6 DEF CreateJob, TypeOK
  <2> QED
    BY <1>4, <2>5, <2>7 DEF CreateJob, TypeOK
<1>5. CASE PatchTerminal
  <2>1. js' \in JobSetObject
    BY <1>5 DEF PatchTerminal, TypeOK, JobSetObject
  <2> QED
    BY <1>5, <2>1 DEF PatchTerminal, TypeOK, Idle, Work
<1>6. CASE PatchRunning
  BY <1>6 DEF PatchRunning, cluster, TypeOK, Idle, Work
<1>7. CASE error_policy
  BY <1>7 DEF error_policy, cluster, TypeOK, Idle, Work
<1>8. ASSUME NEW n \in 0..MaxReplicas \cup {None}, NEW suspend \in BOOLEAN,
             CreateJobSet(n, suspend)
      PROVE  TypeOK'
  <2>1. uids + 1 \in 0..MaxUid
    BY <1>8 DEF CreateJobSet, TypeOK
  <2>2. js' \in JobSetObject /\ uids' \in 0..MaxUid
    BY <1>8, <2>1 DEF CreateJobSet, NoJobSet, JobSetObject
  <2> QED
    BY <1>8, <2>2 DEF CreateJobSet, TypeOK
<1>9. ASSUME NEW suspend \in BOOLEAN, SetSuspend(suspend)
      PROVE  TypeOK'
  <2>1. js' \in JobSetObject
    BY <1>9 DEF SetSuspend, TypeOK, JobSetObject
  <2> QED
    BY <1>9, <2>1 DEF SetSuspend, TypeOK
<1>10. CASE DeleteJobSet
  BY <1>10 DEF DeleteJobSet, TypeOK, NoJobSet, JobSetObject
<1>11. ASSUME NEW i \in Index, PodSucceeds(i) \/ PodFails(i) \/ FinishJob(i) \/ CollectJob(i)
       PROVE  TypeOK'
  <2>1. \E job \in Job : Children(i, job)
    <3>1. jobs[i] \in Job
      BY DEF TypeOK
    <3>2. CASE PodSucceeds(i)
      BY <3>1, <3>2 DEF PodSucceeds, Job
    <3>3. CASE PodFails(i)
      BY <3>1, <3>3 DEF PodFails, Job
    <3>4. CASE FinishJob(i)
      BY <3>1, <3>4 DEF FinishJob, Job
    <3>5. CASE CollectJob(i)
      BY <3>5, Nothing DEF CollectJob
    <3> QED
      BY <1>11, <3>2, <3>3, <3>4, <3>5
  <2> QED
    BY <2>1 DEF Children, TypeOK
<1>12. CASE Restart
  <2>1. work'.succeeded_jobs + work'.failed_jobs <= work'.total_jobs /\ work'.pc = "idle"
    BY <1>12 DEF Restart, Idle
  <2> QED
    BY <1>12, <2>1, Nothing DEF Restart, cluster, TypeOK
<1>13. CASE UNCHANGED vars
  BY <1>13 DEF vars, cluster, TypeOK
<1> QED
  BY <1>1, <1>2, <1>3, <1>4, <1>5, <1>6, <1>7, <1>8, <1>9, <1>10, <1>11, <1>12, <1>13
     DEF Next, Undisturbed, Controller, NotFound, ApiFails

\* What the controller knows and made stays its own.
LEMMA BelongsStep ==
  ASSUME IInv, [Next]_vars
  PROVE  Numbered' /\ Fresh' /\ Belongs'
<1> USE JobSetAssumption
<1>0. TypeOK /\ Numbered /\ Fresh /\ Belongs
  BY DEF IInv
<1>1. CASE Observe
  BY <1>0, <1>1 DEF Observe, cluster, Numbered, Fresh, Belongs
<1>2. CASE reconcile_jobset
  <2>1. CASE work' = Idle
    BY <1>0, <1>2, <2>1 DEF reconcile_jobset, cluster, Numbered, Fresh, Belongs, Idle
  <2>2. CASE work' # Idle
    <3> DEFINE w == [Idle EXCEPT !.uid = cache.uid, !.replicas = cache.replicas]
    <3>1. work' = Looped(w) /\ cache.live
      BY <1>2, <2>2 DEF reconcile_jobset
    <3>2. work'.uid = cache.uid /\ work'.replicas = cache.replicas
      BY <3>1 DEF Looped, Idle
    <3>3. uids # 0
      BY <1>0, <3>1 DEF Fresh, NoJobSet
    <3> QED
      BY <1>0, <1>2, <3>1, <3>2, <3>3 DEF reconcile_jobset, cluster, Numbered, Fresh, Belongs
  <2> QED
    BY <2>1, <2>2
<1>3. CASE GetJob
  <2>1. work'.uid = work.uid /\ work'.replicas = work.replicas /\ work.pc # "idle"
    BY <1>0, <1>3 DEF GetJob, Looped, Count, TypeOK, Work
  <2>2. uids # 0
    BY <1>0, <2>1 DEF Fresh, Idle
  <2> QED
    BY <1>0, <1>3, <2>1, <2>2 DEF GetJob, cluster, Numbered, Fresh, Belongs
<1>4. CASE CreateJob
  <2>1. work'.uid = work.uid /\ work'.replicas = work.replicas /\ work.pc # "idle"
    BY <1>0, <1>4 DEF CreateJob, Looped, TypeOK, Work
  <2>2. uids # 0
    BY <1>0, <2>1 DEF Fresh, Idle
  <2>3. ASSUME NEW i \in Index
        PROVE  jobs'[i] = jobs[i] \/ jobs'[i].owner = work.uid
    BY <1>0, <1>4 DEF CreateJob, TypeOK, NoJob
  <2> QED
    BY <1>0, <1>4, <2>1, <2>2, <2>3 DEF CreateJob, Numbered, Fresh, Belongs
<1>5. CASE PatchTerminal
  <2>1. js'.live = js.live /\ js'.uid = js.uid /\ js'.replicas = js.replicas
    BY <1>0, <1>5 DEF PatchTerminal, TypeOK, JobSetObject
  <2> QED
    BY <1>0, <1>5, <2>1 DEF PatchTerminal, Numbered, Fresh, Belongs, Idle
<1>6. CASE PatchRunning
  BY <1>0, <1>6 DEF PatchRunning, cluster, Numbered, Fresh, Belongs, Idle
<1>7. CASE error_policy
  BY <1>0, <1>7 DEF error_policy, cluster, Numbered, Fresh, Belongs, Idle
<1>8. ASSUME NEW n \in 0..MaxReplicas \cup {None}, NEW suspend \in BOOLEAN,
             CreateJobSet(n, suspend)
      PROVE  Numbered' /\ Fresh' /\ Belongs'
  <2>1. js'.live /\ js'.uid = uids + 1 /\ uids' = uids + 1 /\ uids \in Nat
    BY <1>0, <1>8 DEF CreateJobSet, NoJobSet, TypeOK
  <2>2. js'.uid = 1 => uids = 0
    BY <2>1
  <2>3. uids' # 0
    BY <2>1
  <2> QED
    BY <1>0, <1>8, <2>1, <2>2, <2>3
       DEF CreateJobSet, Numbered, Fresh, Belongs, NoJobSet, Idle
<1>9. ASSUME NEW suspend \in BOOLEAN, SetSuspend(suspend)
      PROVE  Numbered' /\ Fresh' /\ Belongs'
  <2>1. js'.live = js.live /\ js'.uid = js.uid /\ js'.replicas = js.replicas
    BY <1>0, <1>9 DEF SetSuspend, TypeOK, JobSetObject
  <2> QED
    BY <1>0, <1>9, <2>1 DEF SetSuspend, Numbered, Fresh, Belongs
<1>10. CASE DeleteJobSet
  BY <1>0, <1>10 DEF DeleteJobSet, Numbered, Fresh, Belongs, NoJobSet
<1>11. ASSUME NEW i \in Index, PodSucceeds(i) \/ PodFails(i) \/ FinishJob(i) \/ CollectJob(i)
       PROVE  Numbered' /\ Fresh' /\ Belongs'
  <2>1. jobs[i].live /\ UNCHANGED <<js, uids, unseen, cache, pending, work>>
    BY <1>11 DEF PodSucceeds, PodFails, FinishJob, CollectJob, Children
  <2>2. ASSUME NEW k \in Index
        PROVE  jobs'[k].live => jobs[k].live /\ jobs'[k].owner = jobs[k].owner
    BY <1>0, <1>11 DEF PodSucceeds, PodFails, FinishJob, CollectJob, Children, TypeOK, Job, NoJob
  <2> QED
    BY <1>0, <2>1, <2>2 DEF Numbered, Fresh, Belongs
<1>12. CASE Restart
  BY <1>0, <1>12 DEF Restart, cluster, Numbered, Fresh, Belongs, NoJobSet, Idle
<1>13. CASE UNCHANGED vars
  BY <1>0, <1>13 DEF vars, cluster, Numbered, Fresh, Belongs
<1> QED
  BY <1>1, <1>2, <1>3, <1>4, <1>5, <1>6, <1>7, <1>8, <1>9, <1>10, <1>11, <1>12, <1>13
     DEF Next, Undisturbed, Controller, NotFound, ApiFails

\* A child of the first JobSet that has succeeded stays, and has succeeded for good.
LEMMA SucceededStays ==
  ASSUME IInv, [Next]_vars, js.uid = 1, NEW k \in Index, jobs[k].live, jobs[k].succeeded > 0
  PROVE  jobs'[k].live /\ jobs'[k].succeeded > 0
<1>0. TypeOK /\ Numbered /\ Belongs
  BY DEF IInv
<1>1. js.live /\ jobs[k].owner = js.uid
  BY <1>0 DEF Numbered, Belongs, NoJobSet
<1>2. jobs[k] \in Job /\ jobs[k].succeeded \in Nat
  BY <1>0 DEF TypeOK, Job
<1>3. CASE jobs' = jobs
  BY <1>3
<1>4. CASE CreateJob
  BY <1>0, <1>4 DEF CreateJob, TypeOK
<1>5. ASSUME NEW i \in Index, PodSucceeds(i) \/ PodFails(i) \/ FinishJob(i) \/ CollectJob(i)
      PROVE  jobs'[k].live /\ jobs'[k].succeeded > 0
  <2>1. CASE i # k
    BY <1>0, <1>5, <2>1
       DEF PodSucceeds, PodFails, FinishJob, CollectJob, Children, TypeOK
  <2>2. CASE i = k
    BY <1>0, <1>1, <1>2, <1>5, <2>2
       DEF PodSucceeds, PodFails, FinishJob, CollectJob, Children, TypeOK, Job
  <2> QED
    BY <2>1, <2>2
<1> QED
  BY <1>3, <1>4, <1>5
     DEF Next, Undisturbed, Controller, Observe, reconcile_jobset, GetJob, PatchTerminal, PatchRunning,
         NotFound, ApiFails, error_policy, CreateJobSet, SetSuspend, DeleteJobSet, Restart,
         cluster, vars

\* The counters stay tied to the children they were counted from.
LEMMA TalliedStep ==
  ASSUME IInv, [Next]_vars
  PROVE  Tallied'
<1> USE JobSetAssumption
<1>0. TypeOK /\ Numbered /\ Fresh /\ Belongs /\ Tallied
  BY DEF IInv
<1>a. work \in Work /\ work.succeeded_jobs \in Nat /\ work.failed_jobs \in Nat
      /\ work.total_jobs \in Nat /\ work.succeeded_jobs + work.failed_jobs <= work.total_jobs
  BY <1>0 DEF TypeOK, Work
<1> SUFFICES ASSUME js'.uid = 1, work'.pc # "idle", work'.succeeded_jobs = work'.total_jobs,
                    NEW k \in Index, k < work'.total_jobs
             PROVE  jobs'[k].live /\ jobs'[k].succeeded > 0
  BY DEF Tallied
<1>b. k \in Nat
  BY DEF Index
<1>1. CASE work' = work /\ js.uid = 1
  <2>1. jobs[k].live /\ jobs[k].succeeded > 0
    BY <1>0, <1>1 DEF Tallied
  <2> QED
    BY <1>1, <2>1, SucceededStays
<1>2. CASE reconcile_jobset
  <2>1. work'.total_jobs = 0
    BY <1>2 DEF reconcile_jobset, Looped, Idle
  <2> QED
    BY <1>b, <2>1
<1>3. CASE GetJob
  <2>0. js.uid = 1 /\ jobs' = jobs /\ work.pc # "idle"
    BY <1>3 DEF GetJob, cluster
  <2>1. CASE jobs[work.total_jobs].live
    <3> DEFINE job == jobs[work.total_jobs]
    <3>1. /\ work'.total_jobs = work.total_jobs + 1
          /\ work'.succeeded_jobs = IF job.succeeded > 0 THEN work.succeeded_jobs + 1
                                    ELSE work.succeeded_jobs
      BY <1>3, <1>a, <2>1 DEF GetJob, Looped, Count, Work
    <3>2. job.succeeded > 0 /\ work.succeeded_jobs = work.total_jobs
      BY <1>a, <3>1
    <3>3. k < work.total_jobs \/ k = work.total_jobs
      BY <1>a, <1>b, <3>1
    <3> QED
      BY <1>0, <2>0, <2>1, <3>2, <3>3 DEF Tallied
  <2>2. CASE ~jobs[work.total_jobs].live
    <3>1. work'.total_jobs = work.total_jobs /\ work'.succeeded_jobs = work.succeeded_jobs
      BY <1>3, <1>a, <2>2 DEF GetJob, Work
    <3> QED
      BY <1>0, <2>0, <3>1 DEF Tallied
  <2> QED
    BY <2>1, <2>2
<1>4. CASE CreateJob
  <2>1. work'.total_jobs = work.total_jobs + 1 /\ work'.succeeded_jobs = work.succeeded_jobs
    BY <1>4, <1>a DEF CreateJob, Looped, Work
  <2> QED
    BY <1>a, <2>1
<1>5. CASE work' = Idle
  BY <1>5 DEF Idle
<1>6. ASSUME NEW n \in 0..MaxReplicas \cup {None}, NEW suspend \in BOOLEAN,
             CreateJobSet(n, suspend)
      PROVE  FALSE
  <2>1. js'.uid = uids + 1 /\ uids \in Nat
    BY <1>0, <1>6 DEF CreateJobSet, NoJobSet, TypeOK
  <2>2. uids = 0
    BY <2>1
  <2> QED
    BY <1>0, <1>6, <2>2 DEF CreateJobSet, Fresh, Idle
<1>7. ASSUME NEW suspend \in BOOLEAN, SetSuspend(suspend)
      PROVE  work' = work /\ js.uid = 1
  BY <1>0, <1>7 DEF SetSuspend, TypeOK, JobSetObject
<1>8. CASE DeleteJobSet
  BY <1>8 DEF DeleteJobSet, NoJobSet
<1>9. ASSUME NEW i \in Index, PodSucceeds(i) \/ PodFails(i) \/ FinishJob(i) \/ CollectJob(i)
      PROVE  work' = work /\ js.uid = 1
  BY <1>9 DEF PodSucceeds, PodFails, FinishJob, CollectJob, Children
<1>10. CASE Observe \/ UNCHANGED vars
  BY <1>1, <1>10 DEF Observe, cluster, vars
<1> QED
  BY <1>1, <1>2, <1>3, <1>4, <1>5, <1>6, <1>7, <1>8, <1>9, <1>10
     DEF Next, Undisturbed, Controller, PatchTerminal, PatchRunning, NotFound, ApiFails, error_policy, Restart

\* What PatchTerminal writes is right when it writes it, and stays right.
LEMMA CompletedStep ==
  ASSUME IInv, [Next]_vars
  PROVE  CompletedMeansSucceeded'
<1> USE JobSetAssumption
<1>0. TypeOK /\ Numbered /\ Belongs /\ Tallied /\ CompletedMeansSucceeded
  BY DEF IInv
<1> SUFFICES ASSUME js'.uid = 1, js'.terminalState = "Completed",
                    NEW k \in Index, k < js'.replicas
             PROVE  jobs'[k].live /\ jobs'[k].succeeded > 0
  BY DEF CompletedMeansSucceeded
<1>1. CASE js'.uid = js.uid /\ js'.replicas = js.replicas
           /\ js'.terminalState = js.terminalState
  <2>1. jobs[k].live /\ jobs[k].succeeded > 0
    BY <1>0, <1>1 DEF CompletedMeansSucceeded
  <2> QED
    BY <1>1, <2>1, SucceededStays
<1>2. CASE PatchTerminal
  <2>1. js.uid = 1 /\ js'.replicas = js.replicas /\ ~(work.failed_jobs > 0)
    BY <1>0, <1>2 DEF PatchTerminal, TypeOK, JobSetObject
  <2>2. /\ work.succeeded_jobs \in Nat /\ work.failed_jobs \in Nat /\ work.total_jobs \in Nat
        /\ work.total_jobs = work.replicas
        /\ work.succeeded_jobs + work.failed_jobs = work.total_jobs
    BY <1>0, <1>2 DEF PatchTerminal, AllCounted, TypeOK, Work
  <2>3. work.succeeded_jobs = work.total_jobs
    BY <2>1, <2>2
  <2>4. work.pc # "idle" /\ work.replicas = js.replicas /\ jobs' = jobs
    BY <1>0, <1>2, <2>1 DEF PatchTerminal, Belongs
  <2> QED
    BY <1>0, <2>1, <2>2, <2>3, <2>4 DEF Tallied
<1>3. ASSUME NEW n \in 0..MaxReplicas \cup {None}, NEW suspend \in BOOLEAN,
             CreateJobSet(n, suspend)
      PROVE  FALSE
  BY <1>3 DEF CreateJobSet, NoJobSet, JobSetAssumption
<1>4. ASSUME NEW suspend \in BOOLEAN, SetSuspend(suspend)
      PROVE  js'.uid = js.uid /\ js'.replicas = js.replicas
             /\ js'.terminalState = js.terminalState
  BY <1>0, <1>4 DEF SetSuspend, TypeOK, JobSetObject
<1>5. CASE DeleteJobSet
  BY <1>5 DEF DeleteJobSet, NoJobSet
<1>6. CASE js' = js
  BY <1>1, <1>6
<1> QED
  BY <1>1, <1>2, <1>3, <1>4, <1>5, <1>6
     DEF Next, Undisturbed, Controller, Observe, reconcile_jobset, GetJob, CreateJob, PatchRunning, NotFound,
         ApiFails, error_policy, PodSucceeds, PodFails, FinishJob, CollectJob, Children, Restart,
         cluster, vars

\* Nothing has happened yet.
LEMMA InitIInv ==
  Init => IInv
<1> SUFFICES ASSUME Init PROVE IInv
  OBVIOUS
<1> USE JobSetAssumption
<1>1. TypeOK
  <2>1. 0 \in 0..MaxUid
    BY DEF JobSetAssumption
  <2>2. /\ work.succeeded_jobs + work.failed_jobs <= work.total_jobs
        /\ work.pc = "idle"
    BY DEF Init, Idle
  <2> QED
    BY <2>1, <2>2, Nothing DEF Init, TypeOK
<1>2. Numbered /\ Fresh /\ Belongs /\ Tallied /\ CompletedMeansSucceeded
  BY DEF Init, NoJobSet, NoJob, Idle, Numbered, Fresh, Belongs, Tallied, CompletedMeansSucceeded
<1> QED
  BY <1>1, <1>2 DEF IInv

\* The invariant that implies the others holds in every state.
THEOREM Inductive ==
  Spec => []IInv
<1>1. Init => IInv
  BY InitIInv
<1>2. IInv /\ [Next]_vars => IInv'
  <2> SUFFICES ASSUME IInv, [Next]_vars PROVE IInv'
    OBVIOUS
  <2>1. TypeOK'
    BY TypeStep DEF IInv
  <2> QED
    BY <2>1, BelongsStep, TalliedStep, CompletedStep DEF IInv
<1> QED
  BY <1>1, <1>2, PTL DEF Spec

\* Every reconcile counts each child once, as succeeded, failed or neither, and
\* patches the status after the last one: the controller never leaves its types.
THEOREM TypeCorrect ==
  Spec => []TypeOK
<1>1. IInv => TypeOK
  BY DEF IInv
<1> QED
  BY <1>1, Inductive, PTL

\* PatchTerminal: the first JobSet of its name is Completed only when each of its
\* children exists and had a pod that succeeded.
THEOREM CompletedRight ==
  Spec => []CompletedMeansSucceeded
<1>1. IInv => CompletedMeansSucceeded
  BY DEF IInv
<1> QED
  BY <1>1, Inductive, PTL
==============================================================================
