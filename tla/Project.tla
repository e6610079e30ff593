-------------------------------- MODULE Project -------------------------------
(***************************************************************************)
(* The Project controller (simulator/src/project.rs): every Namespace is   *)
(* mirrored as a Project, and a Project without a Namespace gets one.  Two *)
(* controllers, one per kind; the names are independent of each other, so  *)
(* there is one name here.  Labels are functions from keys to values.  The *)
(* API server records who owns a label of the Project: a server-side apply *)
(* replaces the labels this controller applied before, leaves the others,  *)
(* and is refused if it would give another value to one that somebody else *)
(* owns.  Nobody but the controller writes the phase.                      *)
(***************************************************************************)
EXTENDS Naturals, TLC

CONSTANTS
  Keys,         \* of labels
  Values,       \* of labels
  ApiMayFail,   \* whether an API call may fail for no visible reason
  MaxWrites,    \* bound: writes by the users of the cluster
  None

ASSUME ProjectAssumption ==
  /\ ApiMayFail \in BOOLEAN /\ MaxWrites \in Nat
  /\ None \notin {"Active", "Terminating"}

Kinds == {"ns", "proj"}

VARIABLES
  ns,       \* cluster: the Namespace
  proj,     \* cluster: the Project
  unseen,   \* kinds whose object changed since its controller last looked
  cache,    \* what the controllers know
  pending,  \* kinds queued for a reconcile
  job,      \* the running reconcile of each kind
  undone,   \* history: somebody changed or deleted the Project since the Namespace
            \* last changed or the process started
  writes    \* how often users wrote

cluster == <<ns, proj>>
vars == <<cluster, unseen, cache, pending, job, undone, writes>>

Labels == UNION {[K -> Values] : K \in SUBSET Keys}
NoLabels == [k \in {} |-> None]

\* The labels of a Project are owned by the controller, by others or by both.
Namespace == [phase : {"Active", "Terminating", None}, labels : Labels]
ProjectObject == [phase : {"Active", "Terminating", None}, live : BOOLEAN, labels : Labels,
                  applied : SUBSET Keys, theirs : SUBSET Keys]
NoNamespace == [phase |-> None, labels |-> NoLabels]
NoProject == [phase |-> None, live |-> FALSE, labels |-> NoLabels, applied |-> {}, theirs |-> {}]

\* The labels and phase a reconcile carries from its cached object.
Job == [pc : {"idle", "apply", "get", "create"}, labels : Labels,
        phase : {"Active", "Terminating", None}]
Idle == [pc |-> "idle", labels |-> NoLabels, phase |-> None]

TypeOK ==
  /\ ns \in Namespace /\ proj \in ProjectObject
  /\ proj.applied \cup proj.theirs = DOMAIN proj.labels
  /\ unseen \subseteq Kinds /\ pending \subseteq Kinds
  /\ cache \in [ns : Namespace, proj : ProjectObject]
  /\ job \in [Kinds -> Job]
  /\ job["ns"].pc \in {"idle", "apply"} /\ job["proj"].pc \in {"idle", "get", "create"}
  /\ undone \in BOOLEAN /\ writes \in 0..MaxWrites

Init ==
  /\ ns = NoNamespace /\ proj = NoProject
  /\ unseen = {} /\ pending = {}
  /\ cache = [ns |-> NoNamespace, proj |-> NoProject]
  /\ job = [k \in Kinds |-> Idle]
  /\ undone = FALSE /\ writes = 0

Live(k) == IF k = "ns" THEN ns.phase # None ELSE proj.live

Observe(k) ==
  /\ k \in unseen
  /\ unseen' = unseen \ {k}
  /\ cache' = [cache EXCEPT ![k] = IF k = "ns" THEN ns ELSE proj]
  /\ pending' = IF Live(k) THEN pending \cup {k} ELSE pending
  /\ UNCHANGED <<cluster, job, undone, writes>>

Start(k, j) ==
  /\ k \in pending /\ job[k] = Idle
  /\ pending' = pending \ {k}
  /\ job' = [job EXCEPT ![k] = j]
  /\ UNCHANGED <<cluster, unseen, cache, undone, writes>>

reconcile_namespace ==
  Start("ns", IF cache.ns.phase = None THEN Idle
              ELSE [pc |-> "apply", labels |-> cache.ns.labels, phase |-> cache.ns.phase])

reconcile_project ==
  Start("proj", IF ~cache.proj.live THEN Idle
                ELSE [Idle EXCEPT !.pc = "get", !.labels = cache.proj.labels])

\* Somebody else owns one of these labels, with another value.
Contested(labels) == \E k \in proj.theirs \cap DOMAIN labels : proj.labels[k] # labels[k]

\* The server-side apply; it creates the Project if there is none.
ApplyProject_Merges ==
  LET j == job["ns"]
      new == [proj EXCEPT !.live = TRUE, !.phase = j.phase, !.applied = @ \cup DOMAIN j.labels,
                          !.labels = j.labels @@ @]
  IN /\ j.pc = "apply" /\ ~Contested(j.labels)
     /\ proj' = new
     /\ unseen' = IF new # proj THEN unseen \cup {"proj"} ELSE unseen
     /\ job' = [job EXCEPT !["ns"] = Idle]
     /\ UNCHANGED <<ns, cache, pending, undone, writes>>

ApplyProject ==
  LET j == job["ns"]
      new == [proj EXCEPT !.live = TRUE, !.phase = j.phase, !.applied = DOMAIN j.labels,
                          !.labels = j.labels @@ [k \in proj.theirs |-> proj.labels[k]]]
  IN /\ j.pc = "apply" /\ ~Contested(j.labels)
     /\ proj' = new
     /\ unseen' = IF new # proj THEN unseen \cup {"proj"} ELSE unseen
     /\ job' = [job EXCEPT !["ns"] = Idle]
     /\ UNCHANGED <<ns, cache, pending, undone, writes>>

GetNamespace ==
  /\ job["proj"].pc = "get"
  /\ job' = [job EXCEPT !["proj"] = IF ns.phase = None THEN [@ EXCEPT !.pc = "create"] ELSE Idle]
  /\ UNCHANGED <<cluster, unseen, cache, pending, undone, writes>>

\* 409, for a Namespace that is there by now, is no error.
CreateNamespace ==
  /\ job["proj"].pc = "create"
  /\ IF ns.phase = None
       THEN /\ ns' = [phase |-> "Active", labels |-> job["proj"].labels]
            /\ unseen' = unseen \cup {"ns"} /\ undone' = FALSE
       ELSE UNCHANGED <<ns, unseen, undone>>
  /\ job' = [job EXCEPT !["proj"] = Idle]
  /\ UNCHANGED <<proj, cache, pending, writes>>

\* Both error policies: once more after 10 s.
error_policy_Forgets(k) ==
  /\ job' = [job EXCEPT ![k] = Idle]
  /\ UNCHANGED <<cluster, unseen, cache, pending, undone, writes>>

error_policy(k) ==
  /\ job' = [job EXCEPT ![k] = Idle]
  /\ pending' = pending \cup {k}
  /\ UNCHANGED <<cluster, unseen, cache, undone, writes>>

\* 409, as the apply is not forced.
Refused == job["ns"].pc = "apply" /\ Contested(job["ns"].labels) /\ error_policy("ns")

ApiFails(k) == ApiMayFail /\ job[k] # Idle /\ error_policy(k)

------------------------------------------------------------------------------
(***************************************************************************)
(* The users of the cluster, and restarts.                                 *)
(***************************************************************************)
Write(k) ==
  /\ writes < MaxWrites /\ writes' = writes + 1
  /\ undone' = (k = "proj" /\ (undone \/ proj.live))
  /\ unseen' = unseen \cup {k}
  /\ UNCHANGED <<cache, pending, job>>

WriteNamespace(labels) ==
  /\ ns.phase # "Terminating"
  /\ ns' = [phase |-> "Active", labels |-> labels] /\ ns' # ns
  /\ Write("ns") /\ UNCHANGED proj

\* A Project that somebody makes or edits by hand; who gives a label a value owns it.
WriteProject(labels) ==
  LET given == {k \in DOMAIN labels : k \in DOMAIN proj.labels => proj.labels[k] # labels[k]}
  IN /\ proj' = [proj EXCEPT !.live = TRUE, !.labels = labels,
                             !.applied = (@ \cap DOMAIN labels) \ given,
                             !.theirs = (@ \cap DOMAIN labels) \cup given]
     /\ proj' # proj
     /\ Write("proj") /\ UNCHANGED ns

DeleteProject ==
  /\ proj.live
  /\ proj' = NoProject
  /\ Write("proj") /\ UNCHANGED ns

\* A Namespace is Terminating until its contents are gone.
DeleteNamespace ==
  /\ ns.phase = "Active"
  /\ ns' = [ns EXCEPT !.phase = "Terminating"]
  /\ Write("ns") /\ UNCHANGED proj

FinalizeNamespace ==
  /\ ns.phase = "Terminating"
  /\ ns' = NoNamespace
  /\ unseen' = unseen \cup {"ns"} /\ undone' = FALSE
  /\ UNCHANGED <<proj, cache, pending, job, writes>>

Restart ==
  /\ unseen' = Kinds
  /\ cache' = [ns |-> NoNamespace, proj |-> NoProject]
  /\ pending' = {}
  /\ job' = [k \in Kinds |-> Idle]
  /\ undone' = FALSE
  /\ UNCHANGED <<cluster, writes>>

NsController == reconcile_namespace \/ ApplyProject \/ Refused
ProjController == reconcile_project \/ GetNamespace \/ CreateNamespace

\* The controllers, the users of the cluster and its namespace controller; then
\* what disturbs them.
Undisturbed ==
  \/ \E k \in Kinds : Observe(k)
  \/ NsController
  \/ ProjController
  \/ \E labels \in Labels : WriteNamespace(labels) \/ WriteProject(labels)
  \/ DeleteProject \/ DeleteNamespace
  \/ FinalizeNamespace

Next ==
  \/ Undisturbed
  \/ \E k \in Kinds : ApiFails(k)
  \/ Restart

\* Watches deliver, queued reconciles run, Namespaces are finalized.
Fairness ==
  /\ \A k \in Kinds : WF_vars(Observe(k))
  /\ WF_vars(NsController) /\ WF_vars(ProjController) /\ WF_vars(FinalizeNamespace)

Spec == Init /\ [][Next]_vars
FairSpec == Spec /\ Fairness

------------------------------------------------------------------------------
(***************************************************************************)
(* Properties.                                                             *)
(***************************************************************************)
\* From some time on the process stays up, and no call fails but those that the
\* API server must refuse.
Calm == <>[][Undisturbed]_vars

\* reconcile_namespace: every Namespace comes to have a Project, with the values of
\* its labels and its phase and with no label that the Namespace had once and
\* lost, whatever failed, was refused, restarted or was deleted and made anew on
\* the way; unless somebody changes the Project and leaves the Namespace as it
\* was, or owns one of the labels and keeps another value in it, which has every
\* apply refused.
EventuallyMirrored ==
  Calm => \A labels \in Labels :
    <>[](ns = [phase |-> "Active", labels |-> labels] /\ ~undone /\ ~Contested(labels))
      => <>[](/\ proj.live /\ proj.phase = "Active" /\ proj.applied = DOMAIN labels
              /\ \A k \in DOMAIN labels : proj.labels[k] = labels[k])

\* reconcile_project: a Project that was just made, or seen again, gets its
\* Namespace, also when creates fail; one that is still being deleted counts,
\* because the create is answered 409.
EventuallyBacked ==
  Calm => (("proj" \in unseen /\ proj.live) ~> (~proj.live \/ ns.phase # None))
==============================================================================
