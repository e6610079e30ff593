----------------------------- MODULE LoadBalancer -----------------------------
(***************************************************************************)
(* The LoadBalancer controller (simulator/src/loadbalancer.rs): one task   *)
(* that takes the events of a Service watch one by one and patches an IP   *)
(* of the pool 10.254.0.0/24 into the status of a LoadBalancer Service     *)
(* that, in the event, has none.  An IP is its last octet; the counter is  *)
(* an AtomicU8 that wraps, PoolSize is its 256 values.                     *)
(***************************************************************************)
EXTENDS Naturals, Sequences

CONSTANTS
  Services,
  PoolSize,
  PatchMayFail,  \* whether the API server may refuse a status patch
  MaxEvents,     \* bound: events of one Service not yet taken
  MaxAllocs,     \* bound: addresses taken by one process
  None

ASSUME LoadBalancerAssumption ==
  /\ PoolSize \in Nat /\ PoolSize > 1
  /\ PatchMayFail \in BOOLEAN
  /\ MaxEvents \in Nat /\ MaxAllocs \in Nat
  /\ None \notin Services /\ None \notin 0 .. (PoolSize - 1)

VARIABLES
  svc,         \* cluster: the Services
  events,      \* for each Service, the snapshots the watch has yet to hand over
  nextOctet,   \* NEXT_OCTET
  patching,    \* what the task waits for: the patch it sent, or idle
  allocs,      \* history: addresses this process has taken
  nth,         \* history: which of them a Service carries, 0 for none
  missed       \* history: Services whose patch failed, with no event since

vars == <<svc, events, nextOctet, patching, allocs, nth, missed>>

Octets == 0 .. (PoolSize - 1)
Snapshot == [lb : BOOLEAN, ip : Octets \cup {None}]
Service == [live : BOOLEAN, lb : BOOLEAN, ip : Octets \cup {None}]
Patch == [name : Services \cup {None}, ip : Octets, nth : Nat]

Absent == [live |-> FALSE, lb |-> FALSE, ip |-> None]
NoPatch == [name |-> None, ip |-> 0, nth |-> 0]

TypeOK ==
  /\ svc \in [Services -> Service]
  /\ events \in [Services -> Seq(Snapshot)]
  /\ nextOctet \in Octets
  /\ patching \in Patch
  /\ allocs \in Nat
  /\ nth \in [Services -> Nat]
  /\ missed \subseteq Services

\* What the watch reports of a Service.
Seen(v) == [lb |-> v.lb, ip |-> v.ip]

Init ==
  /\ svc = [s \in Services |-> Absent]
  /\ events = [s \in Services |-> << >>]
  /\ nextOctet = 1
  /\ patching = NoPatch
  /\ allocs = 0
  /\ nth = [s \in Services |-> 0]
  /\ missed = {}

------------------------------------------------------------------------------
needs_ip_WrongType(event) == ~event.lb /\ event.ip = None

needs_ip(event) == event.lb /\ event.ip = None

\* fetch_add on a u8.
Successor(n) == IF n = PoolSize - 1 THEN 0 ELSE n + 1

\* next_lb_ip, and the patch that is sent with it.
next_lb_ip_Reused(s) ==
  /\ nextOctet' = nextOctet
  /\ patching' = [name |-> s, ip |-> nextOctet, nth |-> allocs + 1]

next_lb_ip(s) ==
  /\ nextOctet' = Successor(nextOctet)
  /\ patching' = [name |-> s, ip |-> nextOctet, nth |-> allocs + 1]

\* The task takes the next event of s; it looks at nothing but the event.
Skip(s) ==
  /\ patching = NoPatch /\ events[s] # << >>
  /\ ~needs_ip(Head(events[s]))
  /\ events' = [events EXCEPT ![s] = Tail(@)]
  /\ UNCHANGED <<svc, nextOctet, patching, allocs, nth, missed>>

Take(s) ==
  /\ patching = NoPatch /\ events[s] # << >>
  /\ needs_ip(Head(events[s])) /\ allocs < MaxAllocs
  /\ events' = [events EXCEPT ![s] = Tail(@)]
  /\ next_lb_ip(s)
  /\ allocs' = allocs + 1
  /\ UNCHANGED <<svc, nth, missed>>

\* The status patch is a merge: it writes whatever the status holds by now.
\* The API server drops the load balancer status of a Service that is none.
PatchStatus(s) ==
  LET patched == [svc[s] EXCEPT !.ip = IF svc[s].lb THEN patching.ip ELSE None]
  IN /\ patching.name = s /\ svc[s].live
     /\ svc' = [svc EXCEPT ![s] = patched]
     /\ events' = [events EXCEPT ![s] = Append(@, Seen(patched))]
     /\ nth' = [nth EXCEPT ![s] = IF svc[s].lb THEN patching.nth ELSE 0]
     /\ patching' = NoPatch
     /\ missed' = missed \ {s}
     /\ UNCHANGED <<nextOctet, allocs>>

\* It fails when the Service is gone, or for any other reason: a warning, and
\* the address is not given back.
PatchFailed(s) ==
  /\ patching.name = s
  /\ PatchMayFail \/ ~svc[s].live
  /\ patching' = NoPatch
  /\ missed' = IF events[s] = << >> THEN missed \cup {s} ELSE missed
  /\ UNCHANGED <<svc, events, nextOctet, allocs, nth>>

------------------------------------------------------------------------------
(***************************************************************************)
(* The cluster: Services come, change and go; the watch may list again;    *)
(* the process may be restarted, which sets the counter back to 1.         *)
(***************************************************************************)
Change(s, v) ==
  /\ Len(events[s]) < MaxEvents
  /\ svc' = [svc EXCEPT ![s] = v]
  /\ events' = [events EXCEPT ![s] = Append(@, Seen(v))]
  /\ missed' = missed \ {s}
  /\ UNCHANGED <<nextOctet, patching, allocs>>

CreateService(s, lb) ==
  /\ ~svc[s].live
  /\ Change(s, [live |-> TRUE, lb |-> lb, ip |-> None])
  /\ UNCHANGED nth

\* Labels, annotations, ports: an event with the status as it is.
TouchService(s) == svc[s].live /\ Change(s, svc[s]) /\ UNCHANGED nth

ChangeType(s) ==
  /\ svc[s].live
  /\ Change(s, [live |-> TRUE, lb |-> ~svc[s].lb, ip |-> None])
  /\ nth' = [nth EXCEPT ![s] = 0]

\* applied_objects() passes no deletion on.
DeleteService(s) ==
  /\ svc[s].live
  /\ svc' = [svc EXCEPT ![s] = Absent]
  /\ nth' = [nth EXCEPT ![s] = 0]
  /\ UNCHANGED <<events, nextOctet, patching, allocs, missed>>

Listed == [s \in Services |-> IF svc[s].live THEN <<Seen(svc[s])>> ELSE << >>]

WatchRestart ==
  /\ events' = Listed
  /\ missed' = {}
  /\ UNCHANGED <<svc, nextOctet, patching, allocs, nth>>

Restart ==
  /\ events' = Listed
  /\ missed' = {}
  /\ nextOctet' = 1
  /\ patching' = NoPatch
  /\ allocs' = 0
  /\ nth' = [s \in Services |-> 0]
  /\ UNCHANGED svc

Run(s) == Skip(s) \/ Take(s) \/ PatchStatus(s) \/ PatchFailed(s)

Cluster(s) ==
  \/ \E lb \in BOOLEAN : CreateService(s, lb)
  \/ TouchService(s)
  \/ ChangeType(s)
  \/ DeleteService(s)

Next ==
  \/ \E s \in Services : Run(s) \/ Cluster(s)
  \/ WatchRestart
  \/ Restart

\* One task, always polled; the watch hands over what it has.
Fairness == \A s \in Services : SF_vars(Run(s))

Spec == Init /\ [][Next]_vars
FairSpec == Spec /\ Fairness

------------------------------------------------------------------------------
(***************************************************************************)
(* Properties.                                                             *)
(***************************************************************************)

\* next_lb_ip: as long as the process has not taken more addresses than the
\* pool holds, no two Services carry the same one of them, whatever order
\* events, failed patches, deletions and type changes come in.  After a
\* restart the counter starts over, so it says nothing about addresses that
\* an earlier process handed out.
UniqueWithinPool ==
  allocs <= PoolSize =>
    \A s, t \in Services : s # t /\ nth[s] # 0 /\ nth[t] # 0 => svc[s].ip # svc[t].ip

\* A LoadBalancer Service does not stay without an address, whatever happens
\* to it, unless the last patch it was sent failed and nothing about it has
\* changed since; if the process does not keep restarting and has not run into
\* the bound.
EventuallyAssigned ==
  <>[][~Restart]_vars => \A s \in Services :
    (svc[s].live /\ svc[s].lb /\ svc[s].ip = None)
      ~> (~svc[s].live \/ ~svc[s].lb \/ svc[s].ip # None \/ s \in missed \/ allocs = MaxAllocs)
==============================================================================
