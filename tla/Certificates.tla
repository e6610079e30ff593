----------------------------- MODULE Certificates -----------------------------
(***************************************************************************)
(* Two parts that share no state, and that every start of the process      *)
(* gives another CA: the service CA (ServiceCA) and the SCC webhook with   *)
(* the annotation of Namespaces (PodMutate).  A behaviour is one of one of *)
(* them.                                                                   *)
(***************************************************************************)
EXTENDS ServiceCA

CONSTANTS Namespaces, SKIP_NAMESPACES, Hash, OtherRange, Addresses

VARIABLES part, podNs, mwc, node, proc, podUnseen, podCache, podPending, podJob

Pods == INSTANCE PodMutate WITH
  ns <- podNs, unseen <- podUnseen, cache <- podCache, pending <- podPending, job <- podJob

\* A hash is a u64, a range starts at an id.
ASSUME PodMutateAssumption == Hash \in [Namespaces -> Nat] /\ OtherRange \in Nat

podVars == <<podNs, mwc, node, proc, podUnseen, podCache, podPending, podJob>>
allVars == <<part, vars, podVars>>

bothInit == part \in {"services", "pods"} /\ Init /\ Pods!Init

bothNext ==
  \/ part = "services" /\ Next /\ UNCHANGED <<part, podVars>>
  \/ part = "pods" /\ Pods!Next /\ UNCHANGED <<part, vars>>

\* The fairness of the part at hand.  Of the other part only run could go on, which
\* is why its fairness names the part; controllers have nothing to do at first.
bothFairness ==
  Fairness /\ WF_podVars(part = "pods" /\ Pods!Run) /\ Pods!ControllerFairness

\* Pods are given the group of their Namespace (PodMutate).
PodsGetTheirGroup == Pods!PodsGetTheirGroup

\* Every Namespace comes to have its range (PodMutate).
EventuallyAnnotated == Pods!EventuallyAnnotated
==============================================================================
