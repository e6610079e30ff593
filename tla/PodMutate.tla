------------------------------- MODULE PodMutate ------------------------------
(***************************************************************************)
(* The stand-in for OpenShift's SCC admission (simulator/src/pod_mutate.rs *)
(* with get_node_ip of util.rs): a mutating webhook that gives Pods an     *)
(* fsGroup, its registration at the start of the process, and the          *)
(* controller that annotates Namespaces with their UID range.              *)
(*                                                                         *)
(* Every start makes a new CA.  The API server reaches the webhook only if *)
(* the registration names the address the process listens at and the CA    *)
(* that signed its certificate; else a Pod is admitted as it is            *)
(* (failurePolicy Ignore).                                                 *)
(***************************************************************************)
EXTENDS Integers

CONSTANTS
  Namespaces,
  SKIP_NAMESPACES,
  Hash,         \* what DefaultHasher makes of the name of a Namespace
  OtherRange,   \* a range, or an fsGroup, that somebody else chose
  Addresses,    \* the addresses the node can have
  ApiMayFail,   \* whether an API call may fail for no visible reason
  None

VARIABLES
  ns,       \* cluster: Namespaces with their UID range annotation
  mwc,      \* cluster: the MutatingWebhookConfiguration, None when absent
  node,     \* cluster: the address of the node
  proc,     \* how far run has got in this process, and the address it found
  unseen,   \* Namespaces that changed since the controller last looked
  cache,    \* what the controller knows
  pending,  \* Namespaces queued for a reconcile
  job       \* Namespaces whose patch is under way

controller == <<unseen, cache, pending, job>>
vars == <<ns, mwc, node, proc, controller>>

\* The base of a range of 10000 ids.
uid_range_for_namespace(n) == 1000000000 + (Hash[n] % 100000) * 10000

Ranges == {uid_range_for_namespace(n) : n \in Namespaces} \cup {OtherRange}
Namespace == [live : BOOLEAN, uidRange : Ranges \cup {None}]
NoNamespace == [live |-> FALSE, uidRange |-> None]
Process == [pc : {"address", "register", "bind", "listening"}, address : Addresses \cup {None},
            registered : BOOLEAN]
Starting == [pc |-> "address", address |-> None, registered |-> FALSE]

TypeOK ==
  /\ ns \in [Namespaces -> Namespace] /\ cache \in [Namespaces -> Namespace]
  /\ mwc \in [address : Addresses, currentCA : BOOLEAN] \cup {None}
  /\ node \in Addresses /\ proc \in Process
  /\ unseen \subseteq Namespaces /\ pending \subseteq Namespaces /\ job \subseteq Namespaces

Init ==
  /\ ns = [n \in Namespaces |-> NoNamespace] /\ mwc = None /\ node \in Addresses
  /\ proc = Starting
  /\ unseen = {} /\ pending = {} /\ job = {}
  /\ cache = [n \in Namespaces |-> NoNamespace]

------------------------------------------------------------------------------
(***************************************************************************)
(* The admission of Pods.  A Pod is what compute_patch looks at: whether   *)
(* it has a securityContext, the fsGroup in it, and where runAsNonRoot is  *)
(* asked for.                                                              *)
(***************************************************************************)
Pod == {p \in [context : BOOLEAN, fsGroup : Ranges \cup {None}, podNonRoot : BOOLEAN,
               containerNonRoot : BOOLEAN] : ~p.context => p.fsGroup = None /\ ~p.podNonRoot}

\* The Pod once the patch is applied: an fsGroup added to the securityContext, or
\* a securityContext that has nothing else.
compute_patch(p, n) ==
  IF p.fsGroup # None \/ ~(p.podNonRoot \/ p.containerNonRoot) THEN p
  ELSE [p EXCEPT !.fsGroup = uid_range_for_namespace(n), !.context = TRUE]

\* The API server asks for Namespaces that are not skipped.
handle_request(p, n) ==
  IF /\ n \notin SKIP_NAMESPACES /\ proc.pc = "listening"
     /\ mwc = [address |-> node, currentCA |-> TRUE]
    THEN compute_patch(p, n) ELSE p

------------------------------------------------------------------------------
(***************************************************************************)
(* run: the address of the node goes into the certificate and into the     *)
(* registration; a registration that fails is tried again at the next      *)
(* start only.  Then the controller starts, and the port is bound.         *)
(***************************************************************************)
get_node_ip ==
  /\ proc.pc = "address"
  /\ proc' = [proc EXCEPT !.pc = "register", !.address = node]
  /\ UNCHANGED <<ns, mwc, node, controller>>

StartController ==
  /\ unseen' = {n \in Namespaces : ns[n].live}
  /\ UNCHANGED <<cache, pending, job>>

setup_webhook_CreatesOnly ==
  /\ proc.pc = "register"
  /\ mwc' = IF mwc = None THEN [address |-> proc.address, currentCA |-> TRUE] ELSE mwc
  /\ proc' = [proc EXCEPT !.pc = "bind", !.registered = TRUE]
  /\ StartController
  /\ UNCHANGED <<ns, node>>

setup_webhook ==
  /\ proc.pc = "register"
  /\ mwc' = [address |-> proc.address, currentCA |-> TRUE]
  /\ proc' = [proc EXCEPT !.pc = "bind", !.registered = TRUE]
  /\ StartController
  /\ UNCHANGED <<ns, node>>

setup_webhook_fails ==
  /\ ApiMayFail /\ proc.pc = "register"
  /\ proc' = [proc EXCEPT !.pc = "bind"]
  /\ StartController
  /\ UNCHANGED <<ns, mwc, node>>

Bind ==
  /\ proc.pc = "bind"
  /\ proc' = [proc EXCEPT !.pc = "listening"]
  /\ UNCHANGED <<ns, mwc, node, controller>>

------------------------------------------------------------------------------
(***************************************************************************)
(* The annotation controller.                                              *)
(***************************************************************************)
Observe(n) ==
  /\ n \in unseen
  /\ unseen' = unseen \ {n}
  /\ cache' = [cache EXCEPT ![n] = ns[n]]
  /\ pending' = IF ns[n].live THEN pending \cup {n} ELSE pending
  /\ UNCHANGED <<ns, mwc, node, proc, job>>

reconcile_namespace(n) ==
  /\ n \in pending /\ n \notin job
  /\ pending' = pending \ {n}
  /\ job' = IF n \in SKIP_NAMESPACES \/ ~cache[n].live \/ cache[n].uidRange # None
              THEN job ELSE job \cup {n}
  /\ UNCHANGED <<ns, mwc, node, proc, unseen, cache>>

\* A merge patch; the annotation for the supplemental groups, which it also sets,
\* is read by nobody here.
PatchNamespace(n) ==
  LET new == [ns[n] EXCEPT !.uidRange = uid_range_for_namespace(n)]
  IN /\ n \in job /\ ns[n].live
     /\ ns' = [ns EXCEPT ![n] = new]
     /\ unseen' = IF new = ns[n] THEN unseen ELSE unseen \cup {n}
     /\ job' = job \ {n}
     /\ UNCHANGED <<mwc, node, proc, cache, pending>>

\* Once more after 10 s.
error_policy_ns_Forgets(n) ==
  /\ job' = job \ {n}
  /\ UNCHANGED <<ns, mwc, node, proc, unseen, cache, pending>>

error_policy_ns(n) ==
  /\ job' = job \ {n}
  /\ pending' = pending \cup {n}
  /\ UNCHANGED <<ns, mwc, node, proc, unseen, cache>>

\* 404: the Namespace is gone by now.
Refused(n) == n \in job /\ ~ns[n].live /\ error_policy_ns(n)

ApiFails(n) == ApiMayFail /\ n \in job /\ error_policy_ns(n)

------------------------------------------------------------------------------
(***************************************************************************)
(* The cluster, and restarts of the process.                               *)
(***************************************************************************)
WriteNamespace(n, v) ==
  /\ v # ns[n]
  /\ ns' = [ns EXCEPT ![n] = v]
  /\ unseen' = IF proc.pc \in {"bind", "listening"} THEN unseen \cup {n} ELSE unseen
  /\ UNCHANGED <<mwc, node, proc, cache, pending, job>>

\* Users set a range of their own, take one away, and delete.
Edits(n) == {NoNamespace} \cup [live : {TRUE}, uidRange : {ns[n].uidRange, None, OtherRange}]

NodeMoves(a) ==
  /\ a # node /\ node' = a
  /\ UNCHANGED <<ns, mwc, proc, controller>>

Restart ==
  /\ proc # Starting
  /\ proc' = Starting
  /\ mwc' = IF mwc = None THEN None ELSE [mwc EXCEPT !.currentCA = FALSE]
  /\ unseen' = {} /\ pending' = {} /\ job' = {}
  /\ cache' = [n \in Namespaces |-> NoNamespace]
  /\ UNCHANGED <<ns, node>>

Run == get_node_ip \/ setup_webhook \/ setup_webhook_fails \/ Bind
Call(n) == PatchNamespace(n) \/ Refused(n)

\* The process, its controller and the cluster; then what disturbs them.
Undisturbed ==
  \/ Run
  \/ \E n \in Namespaces : Observe(n) \/ reconcile_namespace(n) \/ Call(n)
  \/ \E n \in Namespaces : \E v \in Edits(n) : WriteNamespace(n, v)
  \/ \E a \in Addresses : NodeMoves(a)

Next ==
  \/ Undisturbed
  \/ \E n \in Namespaces : ApiFails(n)
  \/ Restart

\* Tasks are polled, watches deliver, API calls return.
ControllerFairness ==
  \A n \in Namespaces : WF_vars(Observe(n)) /\ WF_vars(reconcile_namespace(n)) /\ WF_vars(Call(n))
Fairness == WF_vars(Run) /\ ControllerFairness

Spec == Init /\ [][Next]_vars
FairSpec == Spec /\ Fairness

------------------------------------------------------------------------------
(***************************************************************************)
(* Properties.                                                             *)
(***************************************************************************)
\* The range of n is the one reconcile_namespace gave it, or none yet.
OurRange(n) == ns[n].uidRange \in {uid_range_for_namespace(n), None}

\* setup_webhook_with_ip and compute_patch: in a process whose registration
\* succeeded, and as long as the node keeps its address, a Pod that runs as
\* non-root and brings no fsGroup gets one out of the range its Namespace is
\* annotated with and keeps all else it asks for, whatever earlier processes
\* registered; unless the annotation was made by somebody else.
PodsGetTheirGroup ==
  proc.pc = "listening" /\ proc.registered /\ proc.address = node =>
    \A n \in Namespaces \ SKIP_NAMESPACES : \A p \in Pod :
      (p.podNonRoot \/ p.containerNonRoot) /\ p.fsGroup = None /\ OurRange(n) =>
        LET admitted == handle_request(p, n)
        IN /\ [admitted EXCEPT !.fsGroup = None, !.context = p.context] = p
           /\ IF ns[n].uidRange = None THEN admitted.fsGroup # None
              ELSE admitted.fsGroup - ns[n].uidRange \in 0..9999

\* From some time on the process stays up, and no call fails but those that the
\* API server must refuse.
Calm == <>[][Undisturbed]_vars

\* reconcile_namespace: no Namespace but the skipped ones stays without a range,
\* also when patches fail, annotations are removed and Namespaces are deleted
\* and made anew.
EventuallyAnnotated ==
  Calm => \A n \in Namespaces \ SKIP_NAMESPACES :
    ns[n].live ~> ~ns[n].live \/ ns[n].uidRange # None
==============================================================================
