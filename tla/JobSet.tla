-------------------------------- MODULE JobSet --------------------------------
(***************************************************************************)
(* The JobSet controller (simulator/src/jobset.rs) on one JobSet name: it  *)
(* creates the child Jobs, counts how they do and ends the JobSet.  The    *)
(* children of all replicatedJobs are numbered through; nobody but the     *)
(* controller and the garbage collector creates or removes them.  A child  *)
(* Job runs its pods by itself: pods fail and are tried again until the    *)
(* Job is finished.                                                        *)
(***************************************************************************)
EXTENDS Naturals

CONSTANTS
  MaxReplicas,  \* bound: children of a JobSet
  MaxUid,       \* bound: how often the JobSet is created
  MaxPods,      \* bound: pods of one Job counted as succeeded, and as failed
  ApiMayFail,   \* whether an API call may fail for no visible reason
  None

ASSUME JobSetAssumption ==
  /\ MaxReplicas \in Nat /\ MaxUid \in Nat /\ MaxPods \in Nat
  /\ ApiMayFail \in BOOLEAN
  /\ None \notin Nat \cup {"Completed", "Failed", "Complete"}

VARIABLES
  js,       \* cluster: the JobSet
  uids,     \* cluster: uids given out so far
  jobs,     \* cluster: the child Jobs
  unseen,   \* the JobSet changed since the controller last looked
  cache,    \* the JobSet as the controller knows it
  pending,  \* the JobSet is queued, or waits for its requeue
  work      \* the running reconcile_jobset

cluster == <<js, uids, jobs>>
vars == <<cluster, unseen, cache, pending, work>>

Index == 0..(MaxReplicas - 1)
JobSetObject == [live : BOOLEAN, uid : 0..MaxUid, suspend : BOOLEAN,
                 replicas : 0..MaxReplicas \cup {None}, \* None: no replicatedJobs
                 terminalState : {"Completed", "Failed", None}]
NoJobSet == [live |-> FALSE, uid |-> 0, suspend |-> FALSE, replicas |-> None, terminalState |-> None]
Job == [live : BOOLEAN, owner : 0..MaxUid, succeeded : 0..MaxPods, failed : 0..MaxPods,
        finished : {"Complete", "Failed", None}]
NoJob == [live |-> FALSE, owner |-> 0, succeeded |-> 0, failed |-> 0, finished |-> None]
Work == [pc : {"idle", "get", "create", "patch"}, uid : 0..MaxUid, replicas : 0..MaxReplicas,
         total_jobs : 0..MaxReplicas, succeeded_jobs : 0..MaxReplicas, failed_jobs : 0..MaxReplicas]
Idle == [pc |-> "idle", uid |-> 0, replicas |-> 0, total_jobs |-> 0, succeeded_jobs |-> 0,
         failed_jobs |-> 0]

TypeOK ==
  /\ js \in JobSetObject /\ cache \in JobSetObject
  /\ uids \in 0..MaxUid
  /\ jobs \in [Index -> Job]
  /\ unseen \in BOOLEAN /\ pending \in BOOLEAN
  /\ work \in Work
  /\ work.succeeded_jobs + work.failed_jobs <= work.total_jobs
  /\ work.pc \in {"get", "create"} => work.total_jobs < work.replicas
  /\ work.pc = "patch" => work.total_jobs = work.replicas

Init ==
  /\ js = NoJobSet /\ cache = NoJobSet
  /\ uids = 0
  /\ jobs = [i \in Index |-> NoJob]
  /\ unseen = FALSE /\ pending = FALSE
  /\ work = Idle

------------------------------------------------------------------------------
(***************************************************************************)
(* The controller.                                                         *)
(***************************************************************************)
Observe ==
  /\ unseen
  /\ unseen' = FALSE
  /\ cache' = js
  /\ pending' = (pending \/ js.live)
  /\ UNCHANGED <<cluster, work>>

\* What the loop does next: the child that follows, or the status.
Looped(w) == [w EXCEPT !.pc = IF w.total_jobs < w.replicas THEN "get" ELSE "patch"]

\* Up to the loop; a suspended or ended JobSet, or one without jobs, is left.
reconcile_jobset ==
  /\ pending /\ work = Idle
  /\ pending' = FALSE
  /\ work' = IF /\ cache.live /\ ~cache.suspend
                /\ cache.terminalState = None /\ cache.replicas # None
               THEN Looped([Idle EXCEPT !.uid = cache.uid, !.replicas = cache.replicas])
               ELSE Idle
  /\ UNCHANGED <<cluster, unseen, cache>>

\* A child counts as succeeded or failed by its pods.
Count(w, job) ==
  [w EXCEPT !.total_jobs = @ + 1,
            !.succeeded_jobs = IF job.succeeded > 0 THEN @ + 1 ELSE @,
            !.failed_jobs = IF job.succeeded = 0 /\ job.failed > 0 THEN @ + 1 ELSE @]

GetJob ==
  LET job == jobs[work.total_jobs]
  IN /\ work.pc = "get"
     /\ work' = IF job.live THEN Looped(Count(work, job)) ELSE [work EXCEPT !.pc = "create"]
     /\ UNCHANGED <<cluster, unseen, cache, pending>>

\* A new child is neither succeeded nor failed; one that is there by now stays.
CreateJob ==
  LET i == work.total_jobs
  IN /\ work.pc = "create"
     /\ jobs' = IF jobs[i].live THEN jobs
                ELSE [jobs EXCEPT ![i] = [NoJob EXCEPT !.live = TRUE, !.owner = work.uid]]
     /\ work' = Looped([work EXCEPT !.total_jobs = @ + 1])
     /\ UNCHANGED <<js, uids, unseen, cache, pending>>

AllCounted_Any(w) == w.succeeded_jobs + w.failed_jobs > 0 /\ w.total_jobs > 0

AllCounted(w) == w.succeeded_jobs + w.failed_jobs = w.total_jobs /\ w.total_jobs > 0

\* The merge patch goes to the JobSet that has the name by now.
PatchTerminal ==
  /\ work.pc = "patch" /\ AllCounted(work) /\ js.live
  /\ js' = [js EXCEPT !.terminalState = IF work.failed_jobs > 0 THEN "Failed" ELSE "Completed"]
  /\ unseen' = TRUE
  /\ work' = Idle
  /\ UNCHANGED <<uids, jobs, cache, pending>>

\* The condition Running, and the requeue after 5 s.  Without children there is
\* no condition to write.
PatchRunning_AwaitsChange ==
  /\ work.pc = "patch" /\ ~AllCounted(work) /\ (js.live \/ work.total_jobs = 0)
  /\ work' = Idle
  /\ UNCHANGED <<cluster, cache, unseen, pending>>

PatchRunning ==
  /\ work.pc = "patch" /\ ~AllCounted(work) /\ (js.live \/ work.total_jobs = 0)
  /\ unseen' = (unseen \/ work.total_jobs > 0)
  /\ pending' = TRUE
  /\ work' = Idle
  /\ UNCHANGED <<cluster, cache>>

\* error_policy: once more after 10 s.
error_policy ==
  /\ pending' = TRUE
  /\ work' = Idle
  /\ UNCHANGED <<cluster, unseen, cache>>

NotFound == work.pc = "patch" /\ work.total_jobs > 0 /\ ~js.live /\ error_policy

ApiFails == ApiMayFail /\ work.pc # "idle" /\ error_policy

------------------------------------------------------------------------------
(***************************************************************************)
(* The cluster, and restarts.                                              *)
(***************************************************************************)
CreateJobSet(n, suspend) ==
  /\ ~js.live /\ uids < MaxUid
  /\ uids' = uids + 1
  /\ js' = [NoJobSet EXCEPT !.live = TRUE, !.uid = uids + 1, !.suspend = suspend, !.replicas = n]
  /\ unseen' = TRUE
  /\ UNCHANGED <<jobs, cache, pending, work>>

SetSuspend(suspend) ==
  /\ js.live
  /\ js' = [js EXCEPT !.suspend = suspend]
  /\ unseen' = TRUE
  /\ UNCHANGED <<uids, jobs, cache, pending, work>>

DeleteJobSet ==
  /\ js.live
  /\ js' = NoJobSet
  /\ unseen' = TRUE
  /\ UNCHANGED <<uids, jobs, cache, pending, work>>

Children(i, job) ==
  /\ jobs[i].live
  /\ jobs' = [jobs EXCEPT ![i] = job]
  /\ UNCHANGED <<js, uids, unseen, cache, pending, work>>

PodSucceeds(i) ==
  /\ jobs[i].finished = None /\ jobs[i].succeeded < MaxPods
  /\ Children(i, [jobs[i] EXCEPT !.succeeded = @ + 1])

PodFails(i) ==
  /\ jobs[i].finished = None /\ jobs[i].failed < MaxPods
  /\ Children(i, [jobs[i] EXCEPT !.failed = @ + 1])

FinishJob(i) ==
  /\ jobs[i].finished = None
  /\ \/ jobs[i].succeeded > 0 /\ Children(i, [jobs[i] EXCEPT !.finished = "Complete"])
     \/ jobs[i].failed > 0 /\ Children(i, [jobs[i] EXCEPT !.finished = "Failed"])

\* The garbage collector removes a Job whose owner is gone.
CollectJob(i) ==
  /\ ~js.live \/ jobs[i].owner # js.uid
  /\ Children(i, NoJob)

Restart ==
  /\ unseen' = TRUE
  /\ cache' = NoJobSet
  /\ pending' = FALSE
  /\ work' = Idle
  /\ UNCHANGED cluster

Controller ==
  reconcile_jobset \/ GetJob \/ CreateJob \/ PatchTerminal \/ PatchRunning \/ NotFound

\* The controller, the users of the cluster, its Job controller and its garbage
\* collector; then what disturbs them.
Undisturbed ==
  \/ Observe
  \/ Controller
  \/ \E n \in 0..MaxReplicas \cup {None}, suspend \in BOOLEAN : CreateJobSet(n, suspend)
  \/ \E suspend \in BOOLEAN : SetSuspend(suspend)
  \/ DeleteJobSet
  \/ \E i \in Index : PodSucceeds(i) \/ PodFails(i) \/ FinishJob(i) \/ CollectJob(i)

Next ==
  \/ Undisturbed
  \/ ApiFails
  \/ Restart

\* The watch delivers, the queue is served and API calls return; Jobs come to an
\* end and the garbage collector works.
Fairness ==
  /\ WF_vars(Observe) /\ WF_vars(Controller)
  /\ \A i \in Index : /\ WF_vars(PodSucceeds(i) \/ PodFails(i))
                      /\ WF_vars(FinishJob(i)) /\ WF_vars(CollectJob(i))

Spec == Init /\ [][Next]_vars
FairSpec == Spec /\ Fairness

------------------------------------------------------------------------------
(***************************************************************************)
(* Properties.                                                             *)
(***************************************************************************)

\* PatchTerminal: the first JobSet of its name is Completed only when each of its
\* children exists and had a pod that succeeded, although children are counted
\* one by one while pods come and go, from an object that may be out of date.
\* (A successor may count children of the JobSet before it.)
CompletedMeansSucceeded ==
  js.uid = 1 /\ js.terminalState = "Completed" =>
    \A i \in Index : i < js.replicas => jobs[i].live /\ jobs[i].succeeded > 0

\* The JobSet has children and may run them.
Running == js.live /\ ~js.suspend /\ js.replicas # None /\ js.replicas # 0

\* From some time on the process stays up, and no call fails but those that the
\* API server must refuse.
Calm == <>[][Undisturbed]_vars

\* reconcile_jobset and its requeue: a JobSet that is not suspended ends, also
\* when it was suspended before, when it was created anew while Jobs of its
\* predecessor were still there, and when calls failed.
EventuallyTerminal ==
  Calm => (Running ~> ~Running \/ js.terminalState # None)
==============================================================================
