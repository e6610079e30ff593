---------------------------- MODULE Ingress_proofs ----------------------------
(***************************************************************************)
(* Theorems about the ways into the cluster: LoadBalancer addresses, for   *)
(* every set of Services, every pool size and every bound, and connections *)
(* through the reverse proxy, for every number of pieces and every size of *)
(* the buffers.                                                            *)
(***************************************************************************)
EXTENDS Ingress, SequenceTheorems, FiniteSetTheorems, TLAPS

------------------------------------------------------------------------------
(***************************************************************************)
(* LoadBalancer addresses.  UniqueWithinPool is not inductive: that two    *)
(* Services carry different addresses follows from which of the process's  *)
(* allocations each of them carries.  Counted says so, for the Services,   *)
(* for the patch on its way and for the counter.                           *)
(***************************************************************************)
\* The octet of the n-th address a process takes; n runs from 1 to PoolSize.
Octet(n) == IF n = PoolSize THEN 0 ELSE n

\* As long as the pool lasts, counter, patch and Services agree on which
\* allocation is which, and no allocation is carried twice.
Counted ==
  allocs <= PoolSize =>
    /\ nextOctet = IF allocs = PoolSize THEN 1 ELSE Octet(allocs + 1)
    /\ patching.name # None => /\ patching.nth \in 1 .. allocs
                               /\ patching.ip = Octet(patching.nth)
                               /\ \A s \in Services : nth[s] # patching.nth
    /\ \A s \in Services : nth[s] # 0 => nth[s] \in 1 .. allocs /\ svc[s].ip = Octet(nth[s])
    /\ \A s, t \in Services : s # t /\ nth[s] # 0 => nth[s] # nth[t]

\* A Service that does not exist carries nothing.
GoneCarriesNothing == \A s \in Services : ~svc[s].live => nth[s] = 0

IInv == TypeOK /\ Counted /\ GoneCarriesNothing

\* The queue of a Service stays a sequence of snapshots, whatever is taken
\* from its front or put at its end.
LEMMA QueueTypes ==
  ASSUME NEW q \in [Services -> Seq(Snapshot)], NEW s \in Services
  PROVE  /\ q[s] # << >> => [q EXCEPT ![s] = Tail(@)] \in [Services -> Seq(Snapshot)]
         /\ q[s] # << >> => Head(q[s]) \in Snapshot
         /\ \A v \in Snapshot : [q EXCEPT ![s] = Append(@, v)] \in [Services -> Seq(Snapshot)]
  OBVIOUS

\* A snapshot of a Service has the type of one.
LEMMA SeenType ==
  ASSUME NEW v \in Service
  PROVE  Seen(v) \in Snapshot
  BY DEF Seen, Service, Snapshot

\* What a list delivers has the type of the queues.
LEMMA ListedType ==
  ASSUME svc \in [Services -> Service]
  PROVE  Listed \in [Services -> Seq(Snapshot)]
<1>1. ASSUME NEW s \in Services
      PROVE  (IF svc[s].live THEN <<Seen(svc[s])>> ELSE << >>) \in Seq(Snapshot)
  <2>1. Seen(svc[s]) \in Snapshot
    BY SeenType
  <2> QED
    BY <2>1
<1> QED
  BY <1>1 DEF Listed

\* TypeOK is inductive by itself.
LEMMA TypeStep ==
  ASSUME TypeOK, [Next]_vars
  PROVE  TypeOK'
<1> USE LoadBalancerAssumption
<1>1. ASSUME NEW s \in Services, Skip(s)
      PROVE  TypeOK'
  BY <1>1, QueueTypes DEF TypeOK, Skip
<1>2. ASSUME NEW s \in Services, Take(s)
      PROVE  TypeOK'
  <2>1. events' \in [Services -> Seq(Snapshot)]
    BY <1>2, QueueTypes DEF TypeOK, Take
  <2>2. nextOctet' \in Octets
    BY <1>2 DEF TypeOK, Take, next_lb_ip, Successor, Octets
  <2>3. patching' \in Patch /\ allocs' \in Nat
    BY <1>2 DEF TypeOK, Take, next_lb_ip, Patch
  <2> QED
    BY <1>2, <2>1, <2>2, <2>3 DEF TypeOK, Take
<1>3. ASSUME NEW s \in Services, PatchStatus(s)
      PROVE  TypeOK'
  <2> DEFINE patched == [svc[s] EXCEPT !.ip = IF svc[s].lb THEN patching.ip ELSE None]
  <2>1. patched \in Service
    BY DEF TypeOK, Service, Patch
  <2>2. events' \in [Services -> Seq(Snapshot)]
    BY <1>3, <2>1, QueueTypes, SeenType DEF TypeOK, PatchStatus
  <2>3. nth' \in [Services -> Nat] /\ patching' \in Patch
    BY <1>3 DEF TypeOK, PatchStatus, Patch, NoPatch, Octets
  <2>4. svc' \in [Services -> Service]
    BY <1>3, <2>1 DEF TypeOK, PatchStatus
  <2> QED
    BY <1>3, <2>2, <2>3, <2>4 DEF TypeOK, PatchStatus
<1>4. ASSUME NEW s \in Services, PatchFailed(s)
      PROVE  TypeOK'
  BY <1>4 DEF TypeOK, PatchFailed, Patch, NoPatch, Octets
<1>5. ASSUME NEW s \in Services, NEW v \in Service, Change(s, v)
      PROVE  /\ svc' \in [Services -> Service] /\ events' \in [Services -> Seq(Snapshot)]
             /\ nextOctet' \in Octets /\ patching' \in Patch /\ allocs' \in Nat
             /\ missed' \subseteq Services
  BY <1>5, QueueTypes, SeenType DEF TypeOK, Change
<1>6. ASSUME NEW s \in Services, Cluster(s)
      PROVE  TypeOK'
  <2>1. ASSUME NEW lb \in BOOLEAN, CreateService(s, lb)
        PROVE  TypeOK'
    <3>1. [live |-> TRUE, lb |-> lb, ip |-> None] \in Service
      BY DEF Service
    <3> QED
      BY <2>1, <3>1, <1>5 DEF CreateService, TypeOK
  <2>2. CASE TouchService(s)
    BY <2>2, <1>5 DEF TouchService, TypeOK
  <2>3. CASE ChangeType(s)
    <3>1. [live |-> TRUE, lb |-> ~svc[s].lb, ip |-> None] \in Service
      BY DEF Service
    <3>2. nth' \in [Services -> Nat]
      BY <2>3 DEF ChangeType, TypeOK
    <3> QED
      BY <2>3, <3>1, <3>2, <1>5 DEF ChangeType, TypeOK
  <2>4. CASE DeleteService(s)
    BY <2>4 DEF DeleteService, TypeOK, Absent, Service
  <2> QED
    BY <1>6, <2>1, <2>2, <2>3, <2>4 DEF Cluster
<1>7. CASE WatchRestart
  BY <1>7, ListedType DEF WatchRestart, TypeOK
<1>8. CASE Restart
  BY <1>8, ListedType DEF Restart, TypeOK, Octets, Patch, NoPatch
<1>9. CASE UNCHANGED vars
  BY <1>9 DEF vars, TypeOK
<1> QED
  BY <1>1, <1>2, <1>3, <1>4, <1>6, <1>7, <1>8, <1>9 DEF Next, Run

\* Every step keeps count of the addresses.  Only Take, PatchStatus and the
\* steps that clear a Service's address change anything Counted looks at.
LEMMA CountedStep ==
  ASSUME IInv, [Next]_vars
  PROVE  Counted' /\ GoneCarriesNothing'
<1> USE LoadBalancerAssumption DEF IInv
<1>1. ASSUME NEW s \in Services, Skip(s)
      PROVE  Counted' /\ GoneCarriesNothing'
  BY <1>1 DEF Skip, Counted, GoneCarriesNothing
<1>2. ASSUME NEW s \in Services, Take(s)
      PROVE  Counted' /\ GoneCarriesNothing'
  <2> SUFFICES ASSUME allocs + 1 <= PoolSize
               PROVE  Counted'
    BY <1>2 DEF Take, GoneCarriesNothing, Counted, TypeOK
  <2>1. allocs \in Nat /\ allocs' = allocs + 1 /\ nth' = nth /\ svc' = svc
    BY <1>2 DEF Take, TypeOK
  <2>2. nextOctet = Octet(allocs + 1)
    BY <2>1 DEF Counted
  <2>3. nextOctet' = IF allocs' = PoolSize THEN 1 ELSE Octet(allocs' + 1)
    BY <1>2, <2>1, <2>2 DEF Take, next_lb_ip, Successor, Octet
  <2>4. patching' = [name |-> s, ip |-> Octet(allocs'), nth |-> allocs']
    BY <1>2, <2>1, <2>2 DEF Take, next_lb_ip
  <2>5. \A t \in Services : nth[t] # 0 => nth[t] \in 1 .. allocs
    BY <2>1 DEF Counted
  <2>6. \A t \in Services : nth[t] # allocs'
    BY <2>1, <2>5
  <2>7. \A t \in Services : nth'[t] # 0 => nth'[t] \in 1 .. allocs' /\ svc'[t].ip = Octet(nth'[t])
    BY <2>1 DEF Counted, TypeOK
  <2> QED
    BY <2>1, <2>3, <2>4, <2>6, <2>7 DEF Counted
<1>3. ASSUME NEW s \in Services, PatchStatus(s)
      PROVE  Counted' /\ GoneCarriesNothing'
  <2>1. /\ patching.name = s /\ s # None /\ svc[s].live /\ patching' = NoPatch
        /\ nextOctet' = nextOctet /\ allocs' = allocs
    BY <1>3 DEF PatchStatus
  <2>2. nth' = [nth EXCEPT ![s] = IF svc[s].lb THEN patching.nth ELSE 0]
    BY <1>3 DEF PatchStatus
  <2>3. /\ svc'[s].live = svc[s].live
        /\ svc'[s].ip = IF svc[s].lb THEN patching.ip ELSE None
        /\ \A t \in Services \ {s} : svc'[t] = svc[t]
    BY <1>3 DEF PatchStatus, TypeOK, Service
  <2>4. GoneCarriesNothing'
    BY <2>1, <2>2, <2>3 DEF GoneCarriesNothing, TypeOK
  <2>5. Counted'
    BY <2>1, <2>2, <2>3 DEF Counted, NoPatch, TypeOK
  <2> QED
    BY <2>4, <2>5
<1>4. ASSUME NEW s \in Services, PatchFailed(s)
      PROVE  Counted' /\ GoneCarriesNothing'
  BY <1>4 DEF PatchFailed, Counted, GoneCarriesNothing, NoPatch
<1>5. ASSUME NEW s \in Services, Cluster(s)
      PROVE  Counted' /\ GoneCarriesNothing'
  \* The address of s is left alone, or s carries nothing afterwards.
  <2>1. /\ UNCHANGED <<nextOctet, patching, allocs>>
        /\ \A t \in Services \ {s} : svc'[t] = svc[t] /\ nth'[t] = nth[t]
        /\ \/ svc'[s] = svc[s] /\ nth'[s] = nth[s]
           \/ nth'[s] = 0
    BY <1>5 DEF Cluster, CreateService, TouchService, ChangeType, DeleteService, Change,
                TypeOK, GoneCarriesNothing
  <2>2. GoneCarriesNothing'
    BY <2>1 DEF GoneCarriesNothing
  <2>3. Counted'
    <3> SUFFICES ASSUME allocs <= PoolSize
                 PROVE  Counted'
      BY <2>1 DEF Counted
    <3>1. patching.name # None => patching.nth \in 1 .. allocs
                                  /\ \A t \in Services : nth'[t] # patching.nth
      BY <2>1 DEF Counted
    <3>2. \A t \in Services : nth'[t] # 0 => nth'[t] \in 1 .. allocs /\ svc'[t].ip = Octet(nth'[t])
      BY <2>1 DEF Counted
    <3>3. \A t, u \in Services : t # u /\ nth'[t] # 0 => nth'[t] # nth'[u]
      BY <2>1 DEF Counted
    <3> QED
      BY <2>1, <3>1, <3>2, <3>3 DEF Counted
  <2> QED
    BY <2>2, <2>3
<1>6. CASE WatchRestart
  BY <1>6 DEF WatchRestart, Counted, GoneCarriesNothing
<1>7. CASE Restart
  BY <1>7 DEF Restart, Counted, GoneCarriesNothing, NoPatch, Octet
<1>8. CASE UNCHANGED vars
  BY <1>8 DEF vars, Counted, GoneCarriesNothing
<1> QED
  BY <1>1, <1>2, <1>3, <1>4, <1>5, <1>6, <1>7, <1>8 DEF Next, Run

\* The initial states.
LEMMA InitIInv ==
  ASSUME Init
  PROVE  IInv
  BY LoadBalancerAssumption DEF Init, IInv, TypeOK, Counted, GoneCarriesNothing, Absent, Service,
     Octets, Patch, NoPatch, Octet

\* The inductive invariant holds of every behaviour.
THEOREM Inductive == Spec => []IInv
<1>1. IInv /\ [Next]_vars => IInv'
  BY TypeStep, CountedStep DEF IInv
<1> QED
  BY InitIInv, <1>1, PTL DEF Spec

\* loadbalancer.rs keeps its counter within the pool and its patches and
\* queues well-formed, for every number of Services and every pool size.
THEOREM TypeCorrect == Spec => []TypeOK
  BY Inductive, PTL DEF IInv

\* next_lb_ip: for every pool size, a process hands out PoolSize addresses
\* before any two Services can carry the same one of them.
THEOREM AddressesUnique == Spec => []UniqueWithinPool
<1>1. IInv => UniqueWithinPool
  <2> SUFFICES ASSUME IInv, allocs <= PoolSize, NEW s \in Services, NEW t \in Services,
                      s # t, nth[s] # 0, nth[t] # 0
               PROVE  svc[s].ip # svc[t].ip
    BY DEF UniqueWithinPool
  <2>1. /\ svc[s].ip = Octet(nth[s]) /\ svc[t].ip = Octet(nth[t])
        /\ nth[s] \in 1 .. PoolSize /\ nth[t] \in 1 .. PoolSize /\ nth[s] # nth[t]
    BY LoadBalancerAssumption DEF IInv, Counted, TypeOK
  <2> QED
    BY <2>1, LoadBalancerAssumption DEF Octet
<1> QED
  BY Inductive, <1>1, PTL

------------------------------------------------------------------------------
(***************************************************************************)
(* Connections.  TunnelFaithful speaks of what arrived.  That it arrived in *)
(* order follows from where every piece of a stream is: StreamInv splits   *)
(* the stream of a side into the part that was taken for the head, the part *)
(* that was handed over, the part in the copy's buffer and the part on the *)
(* wire, and says which piece is at each place.  HeadInv says that no piece *)
(* is copied before the head is complete, and TunnelInv that the side whose *)
(* end of input ended the tunnel has nothing left in the last two parts.   *)
(***************************************************************************)
\* A piece in its place in the stream of a side: the backend's starts with the
\* head of its answer.
Piece(s, p, i) ==
  IF s = "client" THEN p = Proxy!Data(i)
  ELSE IF i = 1 THEN p \in Proxy!Lines
  ELSE IF i = 2 THEN p = Proxy!Blank
  ELSE p = Proxy!Data(i - 2)

\* How many pieces of a side's stream were taken for the head, the tunnel wrote,
\* and the proxy has read.
Headed(s) == IF s = "client" THEN 0 ELSE Len(resp_buf)
Written(s) == Headed(s) + Len(got[Proxy!Other(s)])
Taken(s) == Written(s) + Len(buf[s])

\* The stream of a side, piece by piece: in the head, handed over, in the copy, on
\* the wire.
StreamInv(s) ==
  /\ sent[s] = Taken(s) + Len(wire[s])
  /\ \A i \in 1 .. Len(wire[s]) : Piece(s, wire[s][i], Taken(s) + i)
  /\ \A i \in 1 .. Len(buf[s]) : Piece(s, buf[s][i], Written(s) + i)
  /\ \A i \in 1 .. Len(got[Proxy!Other(s)]) :
       got[Proxy!Other(s)][i] = IF s = "client" THEN i ELSE Len(resp_buf) + i - 2

\* The head of the answer.
HeadInv ==
  /\ \A i \in 1 .. Len(resp_buf) : Piece("backend", resp_buf[i], i)
  /\ got["client"] # << >> \/ buf["backend"] # << >> => Len(resp_buf) >= 2
  /\ pc \in {"switch", "tunnel"} =>
       Len(resp_buf) >= 2 \/ (wire["backend"] = << >> /\ state["backend"] = "eof")

\* Nothing is copied before the tunnel; a side whose end ended it has nothing left.
TunnelInv ==
  /\ pc \notin {"tunnel", "closed"} => \A s \in Proxy!Sides : buf[s] = << >> /\ got[s] = << >>
  /\ \A s \in Proxy!Sides : ending = s => pc = "closed" /\ wire[s] = << >> /\ buf[s] = << >>

PxInv ==
  /\ Proxy!TypeOK /\ sent["client"] <= MaxPieces
  /\ HeadInv /\ TunnelInv
  /\ \A s \in Proxy!Sides : StreamInv(s)

\* The two sides.
LEMMA TwoSides ==
  /\ Proxy!Sides = {"client", "backend"}
  /\ Proxy!Other("client") = "backend" /\ Proxy!Other("backend") = "client"
  BY DEF Proxy!Sides, Proxy!Other

\* The variables of a connection have their types, the streams as well.
LEMMA Types ==
  ASSUME Proxy!TypeOK, NEW s \in Proxy!Sides
  PROVE  /\ wire[s] \in Seq(Proxy!Pieces) /\ buf[s] \in Seq(Proxy!Pieces) /\ resp_buf \in Seq(Proxy!Pieces)
         /\ got[s] \in Seq(1 .. MaxPieces)
         /\ Len(wire[s]) \in Nat /\ Len(buf[s]) \in Nat /\ Len(resp_buf) \in Nat /\ Len(got[s]) \in Nat
         /\ Proxy!Other(s) \in Proxy!Sides /\ Len(got[Proxy!Other(s)]) \in Nat
         /\ Headed(s) \in Nat /\ Written(s) \in Nat /\ Taken(s) \in Nat /\ sent[s] \in Nat
<1>1. Proxy!Other(s) \in Proxy!Sides
  BY TwoSides
<1>2. /\ wire[s] \in Seq(Proxy!Pieces) /\ buf[s] \in Seq(Proxy!Pieces) /\ resp_buf \in Seq(Proxy!Pieces)
      /\ got[s] \in Seq(1 .. MaxPieces) /\ got[Proxy!Other(s)] \in Seq(1 .. MaxPieces)
      /\ sent[s] \in 0 .. MaxPieces + 2
  BY <1>1 DEF Proxy!TypeOK
<1>3. /\ Len(wire[s]) \in Nat /\ Len(buf[s]) \in Nat /\ Len(resp_buf) \in Nat
      /\ Len(got[s]) \in Nat /\ Len(got[Proxy!Other(s)]) \in Nat
  BY <1>2, LenProperties
<1>4. Headed(s) \in Nat
  BY <1>3 DEF Headed
<1>5. Written(s) \in Nat
  BY <1>3, <1>4 DEF Written
<1>6. Taken(s) \in Nat
  BY <1>3, <1>5 DEF Taken
<1>7. sent[s] \in Nat
  BY <1>2, ProxyAssumption
<1> QED
  BY <1>1, <1>2, <1>3, <1>4, <1>5, <1>6, <1>7

\* What comes before and after the tunnel leaves the streams alone.
LEMMA QuietInv ==
  ASSUME PxInv, Proxy!TypeOK', UNCHANGED <<wire, sent, resp_buf, buf, got, ending>>, pc # "closed",
         pc = "tunnel" => pc' \in {"tunnel", "closed"},
         pc' \in {"switch", "tunnel"} => pc \in {"switch", "tunnel"},
         state["backend"] = "eof" => state'["backend"] = "eof"
  PROVE  PxInv'
<1>1. \A s \in Proxy!Sides : StreamInv(s)'
  BY DEF PxInv, StreamInv, Taken, Written, Headed
<1>2. HeadInv'
  BY DEF PxInv, HeadInv
<1>3. TunnelInv'
  BY DEF PxInv, TunnelInv
<1> QED
  BY <1>1, <1>2, <1>3 DEF PxInv

\* From the lookup to the backend, and what the client and the backend do.
LEMMA RequestInv ==
  ASSUME PxInv,
         \/ \E k \in Proxy!Kinds : Proxy!proxy_request(k)
         \/ Proxy!resolve_service \/ Proxy!resolve_endpoints \/ Proxy!collect_body
         \/ Proxy!connect \/ Proxy!connect_tls \/ Proxy!send_request \/ Proxy!collect_response
         \/ Proxy!write_request \/ Proxy!on_upgrade \/ Proxy!Abandon
  PROVE  PxInv'
<1>1. /\ UNCHANGED <<state, wire, sent, got, unread, resp_buf, buf, ending>>
      /\ kind' = kind \/ kind' \in Proxy!Kinds
      /\ answer' \in {answer, "proxy", "backend"}
  BY DEF Proxy!proxy_request, Proxy!resolve_service, Proxy!resolve_endpoints, Proxy!collect_body,
         Proxy!connect, Proxy!connect_tls, Proxy!send_request, Proxy!collect_response,
         Proxy!write_request, Proxy!on_upgrade, Proxy!Abandon, Proxy!To, Proxy!Answer, Proxy!peers
<1>2. /\ pc \notin {"closed", "tunnel"}
      /\ pc' \in {"idle", "answered", "closed", "service", "endpoints", "body", "connect", "tls",
                  "handshake", "send", "collect", "write", "head", "tunnel"}
      /\ pc' = "tunnel" => pc = "switch"
  BY DEF Proxy!proxy_request, Proxy!resolve_service, Proxy!resolve_endpoints, Proxy!collect_body,
         Proxy!connect, Proxy!connect_tls, Proxy!send_request, Proxy!collect_response,
         Proxy!write_request, Proxy!on_upgrade, Proxy!Abandon, Proxy!To, Proxy!Answer,
         Proxy!Resolved, Proxy!Connected, Proxy!Over
<1>3. Proxy!TypeOK'
  BY <1>1, <1>2 DEF PxInv, Proxy!TypeOK, Proxy!Over
<1> QED
  BY <1>1, <1>2, <1>3, QuietInv

\* A side reads, or leaves.
LEMMA PeerInv ==
  ASSUME PxInv, NEW s \in Proxy!Sides, Proxy!Reads(s) \/ Proxy!Leaves(s)
  PROVE  PxInv'
<1>1. UNCHANGED <<pc, kind, answer, wire, sent, got, resp_buf, buf, ending>> /\ pc # "closed"
  BY DEF Proxy!Reads, Proxy!Leaves, Proxy!Talking, Proxy!Over
<1>2. CASE Proxy!Reads(s)
  <2>1. unread[s] \in 0 .. Room /\ unread[s] > 0 /\ Room \in Nat
    BY <1>2, ProxyAssumption DEF Proxy!Reads, PxInv, Proxy!TypeOK
  <2>2. unread[s] - 1 \in 0 .. Room
    BY <2>1
  <2>3. unread' \in [Proxy!Sides -> 0 .. Room] /\ state' = state
    BY <1>2, <2>2 DEF Proxy!Reads, PxInv, Proxy!TypeOK
  <2>4. Proxy!TypeOK'
    BY <1>1, <2>3 DEF PxInv, Proxy!TypeOK
  <2> QED
    BY <1>1, <2>3, <2>4, QuietInv
<1>3. CASE Proxy!Leaves(s)
  <2>1. /\ state' \in [Proxy!Sides -> {"open", "eof", "reset"}] /\ unread' = unread
        /\ \A t \in Proxy!Sides : state[t] # "open" => state'[t] = state[t]
    BY <1>3 DEF Proxy!Leaves, PxInv, Proxy!TypeOK
  <2>2. Proxy!TypeOK'
    BY <1>1, <2>1 DEF PxInv, Proxy!TypeOK
  <2> QED
    BY <1>1, <2>1, <2>2, TwoSides, QuietInv
<1> QED
  BY <1>2, <1>3

\* A stream of which nothing is touched.
LEMMA StreamFrame ==
  ASSUME NEW t \in Proxy!Sides, StreamInv(t),
         wire'[t] = wire[t], buf'[t] = buf[t], sent'[t] = sent[t],
         got'[Proxy!Other(t)] = got[Proxy!Other(t)], t = "backend" => resp_buf' = resp_buf
  PROVE  StreamInv(t)'
<1>1. CASE t = "client"
  BY <1>1, TwoSides DEF StreamInv, Taken, Written, Headed
<1>2. CASE t = "backend"
  BY <1>2, TwoSides DEF StreamInv, Taken, Written, Headed
<1> QED
  BY <1>1, <1>2, TwoSides

\* A copy reads the next piece off the wire.
LEMMA CopyReadInv ==
  ASSUME PxInv, NEW s \in Proxy!Sides, Proxy!copy_read(s)
  PROVE  PxInv'
<1>0. /\ pc = "tunnel" /\ Len(buf[s]) < BufSize /\ wire[s] # << >>
      /\ wire' = [wire EXCEPT ![s] = Tail(@)]
      /\ buf' = [buf EXCEPT ![s] = Append(@, Head(wire[s]))]
      /\ pc' = pc /\ kind' = kind /\ answer' = answer /\ state' = state /\ sent' = sent
      /\ got' = got /\ unread' = unread /\ resp_buf' = resp_buf /\ ending' = ending
  BY DEF Proxy!copy_read
<1>1. /\ wire[s] \in Seq(Proxy!Pieces) /\ buf[s] \in Seq(Proxy!Pieces) /\ wire[s] # << >>
      /\ wire \in [Proxy!Sides -> Seq(Proxy!Pieces)] /\ buf \in [Proxy!Sides -> Seq(Proxy!Pieces)]
  BY <1>0 DEF PxInv, Proxy!TypeOK
<1>2. Proxy!TypeOK
  BY DEF PxInv
<1>3. PICK w \in Nat, b \in Nat, T \in Nat, W \in Nat :
        w = Len(wire[s]) /\ b = Len(buf[s]) /\ T = Taken(s) /\ W = Written(s)
  BY <1>2, Types
<1>4. /\ w > 0 /\ T = W + b /\ sent[s] = T + w
  BY <1>1, <1>3 DEF PxInv, StreamInv, Taken
<1>5. /\ wire'[s] = Tail(wire[s]) /\ wire'[s] \in Seq(Proxy!Pieces) /\ Len(wire'[s]) = w - 1
      /\ \A i \in 1 .. w - 1 : wire'[s][i] = wire[s][i + 1]
  BY <1>0, <1>1, <1>3, <1>4
<1>6. /\ buf'[s] = Append(buf[s], wire[s][1]) /\ buf'[s] \in Seq(Proxy!Pieces) /\ Len(buf'[s]) = b + 1
      /\ \A i \in 1 .. b : buf'[s][i] = buf[s][i]
      /\ buf'[s][b + 1] = wire[s][1]
  <2>1. buf'[s] = Append(buf[s], Head(wire[s]))
    BY <1>0, <1>1
  <2>2. Head(wire[s]) = wire[s][1] /\ wire[s][1] \in Proxy!Pieces
    BY <1>1
  <2> QED
    BY <1>1, <1>3, <2>1, <2>2
<1>7. Proxy!TypeOK'
  <2>1. /\ wire' \in [Proxy!Sides -> Seq(Proxy!Pieces)] /\ buf' \in [Proxy!Sides -> Seq(Proxy!Pieces)]
        /\ \A t \in Proxy!Sides : t # s => wire'[t] = wire[t] /\ buf'[t] = buf[t]
    BY <1>0, <1>1, <1>5, <1>6
  <2>2. Len(buf'[s]) <= BufSize
    BY <1>0, <1>3, <1>6, ProxyAssumption
  <2> QED
    BY <1>0, <2>1, <2>2 DEF PxInv, Proxy!TypeOK
<1>8. Written(s)' = W /\ Taken(s)' = T + 1
  <2>1. Written(s)' = Written(s)
    BY <1>0 DEF Written, Headed
  <2>2. Taken(s)' = Written(s)' + Len(buf'[s])
    BY DEF Taken
  <2>3. W + (b + 1) = T + 1
    BY <1>4
  <2> QED
    BY <1>3, <1>6, <2>1, <2>2, <2>3
<1>9. StreamInv(s)'
  <2>1. sent'[s] = T + 1 + (w - 1)
    <3>1. T + w = T + 1 + (w - 1)
      OBVIOUS
    <3> QED
      BY <1>0, <1>4, <3>1
  <2>2. \A i \in 1 .. w : Piece(s, wire[s][i], T + i)
    BY <1>3 DEF PxInv, StreamInv
  <2>3. ASSUME NEW i \in 1 .. w - 1 PROVE Piece(s, wire'[s][i], T + 1 + i)
    <3>1. i + 1 \in 1 .. w /\ T + (i + 1) = T + 1 + i
      OBVIOUS
    <3> QED
      BY <1>5, <2>2, <3>1
  <2>4. ASSUME NEW i \in 1 .. b + 1 PROVE Piece(s, buf'[s][i], W + i)
    <3>1. CASE i \in 1 .. b
      BY <1>3, <1>6, <3>1 DEF PxInv, StreamInv
    <3>2. CASE i = b + 1
      <4>1. 1 \in 1 .. w /\ T + 1 = W + i
        BY <1>4, <3>2
      <4>2. Piece(s, wire[s][1], T + 1)
        BY <2>2, <4>1
      <4>3. buf'[s][i] = wire[s][1]
        BY <1>6, <3>2
      <4> QED
        BY <4>1, <4>2, <4>3
    <3> QED
      BY <3>1, <3>2, b + 1 \in Nat
  <2>5. \A i \in 1 .. Len(got[Proxy!Other(s)]) :
           got[Proxy!Other(s)][i] = IF s = "client" THEN i ELSE Len(resp_buf) + i - 2
    BY DEF PxInv, StreamInv
  <2> QED
    BY <1>0, <1>5, <1>6, <1>8, <2>1, <2>3, <2>4, <2>5 DEF StreamInv
<1>10. \A t \in Proxy!Sides : t # s => StreamInv(t)'
  BY <1>0, <1>1, TwoSides, StreamFrame DEF PxInv
<1>11. HeadInv'
  <2>1. s = "backend" => Len(resp_buf) >= 2
    BY <1>0 DEF PxInv, HeadInv
  <2>2. s # "backend" => wire'["backend"] = wire["backend"] /\ buf'["backend"] = buf["backend"]
    BY <1>0, <1>1, TwoSides
  <2> QED
    BY <1>0, <2>1, <2>2 DEF PxInv, HeadInv
<1>12. TunnelInv'
  BY <1>0, <1>1 DEF PxInv, TunnelInv
<1> QED
  BY <1>0, <1>7, <1>9, <1>10, <1>11, <1>12 DEF PxInv

\* A copy ends, and with it the other.
LEMMA CopyEndsInv ==
  ASSUME PxInv, NEW s \in Proxy!Sides, Proxy!copy_ends(s)
  PROVE  PxInv'
<1> USE DEF Proxy!copy_ends, Proxy!peers
<1>1. Proxy!TypeOK'
  BY DEF PxInv, Proxy!TypeOK, Proxy!Over
<1>2. \A t \in Proxy!Sides : StreamInv(t)'
  BY DEF PxInv, StreamInv, Taken, Written, Headed
<1>3. HeadInv'
  BY DEF PxInv, HeadInv
<1>4. TunnelInv'
  BY DEF PxInv, TunnelInv
<1> QED
  BY <1>1, <1>2, <1>3, <1>4 DEF PxInv

\* The number of the piece that a copy writes next.
LEMMA NextPiece ==
  ASSUME PxInv, NEW s \in Proxy!Sides, buf[s] # << >>
  PROVE  LET G == Len(got[Proxy!Other(s)])
         IN /\ Head(buf[s]).n \in 1 .. MaxPieces
            /\ Head(buf[s]).n = IF s = "client" THEN G + 1 ELSE Len(resp_buf) + (G + 1) - 2
            /\ s = "backend" => Len(resp_buf) >= 2
<1>1. Proxy!TypeOK
  BY DEF PxInv
<1>2. PICK G \in Nat, r \in Nat, b \in Nat, w \in Nat, W \in Nat, m \in Nat :
        /\ G = Len(got[Proxy!Other(s)]) /\ r = Len(resp_buf) /\ b = Len(buf[s]) /\ w = Len(wire[s])
        /\ W = Written(s) /\ m = sent[s]
  BY <1>1, Types
<1>3. b >= 1 /\ Head(buf[s]) = buf[s][1] /\ MaxPieces \in Nat
  BY <1>1, <1>2, ProxyAssumption DEF Proxy!TypeOK
<1>4. Piece(s, Head(buf[s]), W + 1)
  BY <1>2, <1>3 DEF PxInv, StreamInv
<1>5. m = W + b + w
  BY <1>2 DEF PxInv, StreamInv, Taken
<1>6. CASE s = "client"
  <2>1. W = G /\ m <= MaxPieces
    BY <1>2, <1>6 DEF Written, Headed, PxInv
  <2>2. G + 1 \in 1 .. MaxPieces
    BY <1>3, <1>5, <2>1
  <2>3. Head(buf[s]).n = G + 1
    BY <1>4, <1>6, <2>1 DEF Piece, Proxy!Data
  <2> QED
    BY <1>2, <1>6, <2>2, <2>3
<1>7. CASE s = "backend"
  <2>1. r >= 2
    BY <1>2, <1>7 DEF PxInv, HeadInv
  <2>2. W = r + G /\ m <= MaxPieces + 2
    BY <1>1, <1>2, <1>3, <1>7, TwoSides DEF Written, Headed, Proxy!TypeOK
  <2>3. /\ W + 1 # 1 /\ W + 1 # 2 /\ W + 1 - 2 = r + (G + 1) - 2
        /\ W + 1 - 2 \in 1 .. MaxPieces
    BY <1>3, <1>5, <2>1, <2>2
  <2>4. Head(buf[s]) = Proxy!Data(W + 1 - 2)
    BY <1>4, <1>7, <2>3 DEF Piece
  <2>5. Head(buf[s]).n = W + 1 - 2
    BY <2>4 DEF Proxy!Data
  <2> QED
    BY <1>2, <1>7, <2>1, <2>3, <2>5
<1> QED
  BY <1>6, <1>7, TwoSides

\* A copy writes the first piece it holds.
LEMMA CopyWriteInv ==
  ASSUME PxInv, NEW s \in Proxy!Sides, Proxy!copy_write(s)
  PROVE  PxInv'
<1>0. PICK to \in Proxy!Sides :
      /\ to = Proxy!Other(s)
      /\ pc = "tunnel" /\ buf[s] # << >> /\ unread[to] < Room
      /\ buf' = [buf EXCEPT ![s] = Tail(@)]
      /\ got' = [got EXCEPT ![to] = Append(@, Head(buf[s]).n)]
      /\ unread' = [unread EXCEPT ![to] = @ + 1]
      /\ pc' = pc /\ kind' = kind /\ answer' = answer /\ state' = state /\ sent' = sent
      /\ wire' = wire /\ resp_buf' = resp_buf /\ ending' = ending
  BY TwoSides DEF Proxy!copy_write
<1>1. /\ buf[s] \in Seq(Proxy!Pieces) /\ buf \in [Proxy!Sides -> Seq(Proxy!Pieces)]
      /\ got \in [Proxy!Sides -> Seq(1 .. MaxPieces)] /\ got[to] \in Seq(1 .. MaxPieces)
      /\ unread \in [Proxy!Sides -> 0 .. Room]
  BY <1>0 DEF PxInv, Proxy!TypeOK
<1>2. Proxy!TypeOK
  BY DEF PxInv
<1>3. PICK b \in Nat, G \in Nat, T \in Nat, W \in Nat, r \in Nat :
        b = Len(buf[s]) /\ G = Len(got[to]) /\ T = Taken(s) /\ W = Written(s) /\ r = Len(resp_buf)
  BY <1>0, <1>2, Types
<1>4. b > 0 /\ T = W + b /\ W = Headed(s) + G
  BY <1>0, <1>1, <1>3 DEF Taken, Written
<1>5. PICK n \in 1 .. MaxPieces :
        n = Head(buf[s]).n /\ n = (IF s = "client" THEN G + 1 ELSE r + (G + 1) - 2)
        /\ (s = "backend" => r >= 2)
  BY <1>0, <1>3, NextPiece
<1>6. /\ buf'[s] = Tail(buf[s]) /\ buf'[s] \in Seq(Proxy!Pieces) /\ Len(buf'[s]) = b - 1
      /\ \A i \in 1 .. b - 1 : buf'[s][i] = buf[s][i + 1]
  BY <1>0, <1>1, <1>3, <1>4
<1>7. /\ got'[to] = Append(got[to], n) /\ got'[to] \in Seq(1 .. MaxPieces) /\ Len(got'[to]) = G + 1
      /\ \A i \in 1 .. G : got'[to][i] = got[to][i]
      /\ got'[to][G + 1] = n
  <2>1. got'[to] = Append(got[to], n)
    BY <1>0, <1>1, <1>5
  <2> QED
    BY <1>1, <1>3, <2>1
<1>8. /\ \A t \in Proxy!Sides : t # s => buf'[t] = buf[t] /\ Proxy!Other(t) # to
      /\ \A t \in Proxy!Sides : t # to => got'[t] = got[t]
  BY <1>0, <1>1, TwoSides
<1>9. Proxy!TypeOK'
  <2>1. buf' \in [Proxy!Sides -> Seq(Proxy!Pieces)]
    BY <1>0, <1>1, <1>6
  <2>2. got' \in [Proxy!Sides -> Seq(1 .. MaxPieces)]
    BY <1>0, <1>1, <1>7
  <2>3. unread' \in [Proxy!Sides -> 0 .. Room]
    <3>1. unread[to] + 1 \in 0 .. Room
      BY <1>0, <1>1, ProxyAssumption
    <3> QED
      BY <1>0, <1>1, <3>1
  <2>4. \A t \in Proxy!Sides : Len(buf'[t]) <= BufSize
    <3>1. Len(buf'[s]) <= BufSize
      BY <1>2, <1>3, <1>6, ProxyAssumption DEF Proxy!TypeOK
    <3> QED
      BY <1>2, <1>8, <3>1 DEF Proxy!TypeOK
  <2> QED
    BY <1>0, <1>2, <2>1, <2>2, <2>3, <2>4 DEF Proxy!TypeOK
<1>10. Written(s)' = W + 1 /\ Taken(s)' = T
  <2>1. Headed(s)' = Headed(s) /\ Headed(s) \in Nat
    BY <1>0, <1>2, Types DEF Headed
  <2>2. Written(s)' = Headed(s)' + Len(got'[to]) /\ Taken(s)' = Written(s)' + Len(buf'[s])
    BY <1>0 DEF Written, Taken
  <2>3. Written(s)' = Headed(s) + (G + 1) /\ Taken(s)' = Written(s)' + (b - 1)
    BY <1>6, <1>7, <2>1, <2>2
  <2> QED
    BY <1>4, <2>1, <2>3
<1>11. StreamInv(s)'
  <2>1. sent'[s] = T + Len(wire'[s])
    BY <1>0, <1>3 DEF PxInv, StreamInv
  <2>2. \A i \in 1 .. Len(wire'[s]) : Piece(s, wire'[s][i], T + i)
    BY <1>0, <1>3 DEF PxInv, StreamInv
  <2>3. ASSUME NEW i \in 1 .. b - 1 PROVE Piece(s, buf'[s][i], W + 1 + i)
    <3>1. i + 1 \in 1 .. b /\ W + (i + 1) = W + 1 + i
      OBVIOUS
    <3>2. \A j \in 1 .. b : Piece(s, buf[s][j], W + j)
      BY <1>3 DEF PxInv, StreamInv
    <3> QED
      BY <1>6, <3>1, <3>2
  <2>4. ASSUME NEW i \in 1 .. G + 1 PROVE got'[to][i] = IF s = "client" THEN i ELSE r + i - 2
    <3>1. CASE i \in 1 .. G
      BY <1>0, <1>3, <1>7, <3>1 DEF PxInv, StreamInv
    <3>2. CASE i = G + 1
      BY <1>5, <1>7, <3>2
    <3> QED
      BY <3>1, <3>2
  <2> QED
    BY <1>0, <1>3, <1>6, <1>7, <1>10, <2>1, <2>2, <2>3, <2>4 DEF StreamInv
<1>12. \A t \in Proxy!Sides : t # s => StreamInv(t)'
  BY <1>0, <1>8, TwoSides, StreamFrame DEF PxInv
<1>13. HeadInv'
  <2>1. s = "client" => got'["client"] = got["client"] /\ buf'["backend"] = buf["backend"]
    BY <1>0, <1>8, TwoSides
  <2> QED
    BY <1>0, <1>3, <1>5, <2>1, TwoSides DEF PxInv, HeadInv
<1>14. TunnelInv'
  BY <1>0, <1>1 DEF PxInv, TunnelInv
<1> QED
  BY <1>0, <1>9, <1>11, <1>12, <1>13, <1>14 DEF PxInv

\* The blank line is not the first piece of an answer.
LEMMA BlankIsSecond ==
  ASSUME NEW p, Piece("backend", p, 1)
  PROVE  p # Proxy!Blank
  BY DEF Piece, Proxy!Lines, Proxy!Line, Proxy!Blank

\* Where the head leads to.
LEMMA ParsedTo ==
  ASSUME NEW h, Proxy!Parsed(h)
  PROVE  /\ pc' \in {"answered", "closed", "switch"} /\ ending' = ending
         /\ answer' \in {answer, "proxy", "backend"}
  BY DEF Proxy!Parsed, Proxy!Answer, Proxy!To

\* A chunk of the answer is taken for its head.
LEMMA ChunkInv ==
  ASSUME PxInv, Proxy!read_head, NEW n \in 1 .. Len(wire["backend"]),
         resp_buf' = resp_buf \o SubSeq(wire["backend"], 1, n),
         wire' = [wire EXCEPT !["backend"] = SubSeq(@, n + 1, Len(@))],
         IF \E i \in 1 .. Len(resp_buf') : resp_buf'[i] = Proxy!Blank
         THEN Proxy!Parsed(resp_buf') ELSE Proxy!To("head")
  PROVE  PxInv'
<1>0. /\ pc = "head" /\ kind' = kind /\ state' = state /\ sent' = sent
      /\ got' = got /\ unread' = unread /\ buf' = buf
  BY DEF Proxy!read_head
<1>1. /\ pc' \in {"head", "answered", "closed", "switch"} /\ ending' = ending
      /\ answer' \in {answer, "proxy", "backend"}
      /\ pc' = "switch" => \E i \in 1 .. Len(resp_buf') : resp_buf'[i] = Proxy!Blank
  BY ParsedTo DEF Proxy!To
<1>2. /\ Proxy!TypeOK /\ "backend" \in Proxy!Sides /\ "client" \in Proxy!Sides
      /\ wire \in [Proxy!Sides -> Seq(Proxy!Pieces)] /\ wire["backend"] \in Seq(Proxy!Pieces)
      /\ resp_buf \in Seq(Proxy!Pieces)
  BY TwoSides DEF PxInv, Proxy!TypeOK
<1>3. PICK w \in Nat, r \in Nat : w = Len(wire["backend"]) /\ r = Len(resp_buf)
  BY <1>2, Types
<1>4. /\ wire'["backend"] = SubSeq(wire["backend"], n + 1, w) /\ wire'["client"] = wire["client"]
      /\ n \in 1 .. w
  BY <1>2, <1>3
<1>5. /\ wire'["backend"] \in Seq(Proxy!Pieces) /\ Len(wire'["backend"]) = w - n
      /\ \A i \in 1 .. w - n : wire'["backend"][i] = wire["backend"][n + i]
  <2>1. /\ n + 1 \in 1 .. w + 1 /\ w \in n .. w /\ w - (n + 1) + 1 = w - n /\ n + 1 \in Int /\ w \in Int
        /\ \A j \in n + 1 .. w : j \in 1 .. w
        /\ \A i \in 1 .. w - n : n + 1 + i - 1 = n + i
        /\ (n + 1 > w => w - n = 0) /\ (n + 1 <= w => w - n >= 0)
    BY <1>4
  <2> QED
    BY <1>2, <1>3, <1>4, <2>1
<1>6. /\ resp_buf' \in Seq(Proxy!Pieces) /\ Len(resp_buf') = r + n
      /\ \A i \in 1 .. r : resp_buf'[i] = resp_buf[i]
      /\ \A i \in 1 .. n : resp_buf'[r + i] = wire["backend"][i]
  <2> DEFINE c == SubSeq(wire["backend"], 1, n)
  <2>1. c \in Seq(Proxy!Pieces) /\ Len(c) = n /\ \A i \in 1 .. n : c[i] = wire["backend"][i]
    BY <1>2, <1>3, <1>4
  <2> HIDE DEF c
  <2>2. resp_buf' = resp_buf \o c
    BY DEF c
  <2>3. \A i \in 1 .. n : r + i > r /\ r + i <= r + n /\ (r + i) - r = i /\ n \in Nat
    BY <1>4
  <2> QED
    BY <1>2, <1>3, <2>1, <2>2, <2>3
<1>7. Proxy!TypeOK'
  <2>1. wire' \in [Proxy!Sides -> Seq(Proxy!Pieces)]
    BY <1>2, <1>4, <1>5
  <2> QED
    BY <1>0, <1>1, <1>2, <1>6, <2>1 DEF Proxy!TypeOK, Proxy!Over
<1>8. \A s \in Proxy!Sides : buf[s] = << >> /\ got[s] = << >>
  BY <1>0 DEF PxInv, TunnelInv
<1>9. Taken("backend") = r /\ Taken("backend")' = r + n /\ Written("backend")' = r + n
  <2>1. Len(buf["backend"]) = 0 /\ Len(got["client"]) = 0
    BY <1>2, <1>8
  <2>2. Headed("backend") = r /\ Headed("backend")' = r + n
    BY <1>3, <1>6 DEF Headed
  <2>3. Written("backend") = r + 0 /\ Written("backend")' = r + n + 0
    BY <1>0, <2>1, <2>2, TwoSides DEF Written
  <2>4. Taken("backend") = r + 0 /\ Taken("backend")' = r + n + 0
    BY <1>0, <2>1, <2>3 DEF Taken
  <2> QED
    BY <2>3, <2>4
<1>10. /\ sent["backend"] = r + w
       /\ \A i \in 1 .. w : Piece("backend", wire["backend"][i], r + i)
       /\ \A i \in 1 .. r : Piece("backend", resp_buf[i], i)
  BY <1>2, <1>3, <1>9 DEF PxInv, StreamInv, HeadInv
<1>11. StreamInv("backend")'
  <2>1. sent'["backend"] = r + n + (w - n)
    BY <1>0, <1>4, <1>10
  <2>2. ASSUME NEW i \in 1 .. w - n PROVE Piece("backend", wire'["backend"][i], r + n + i)
    <3>1. n + i \in 1 .. w /\ r + (n + i) = r + n + i
      BY <1>4
    <3> QED
      BY <1>5, <1>10, <3>1
  <2>3. buf'["backend"] = << >> /\ got'["client"] = << >>
    BY <1>0, <1>2, <1>8
  <2>4. 1 .. Len(buf'["backend"]) = {} /\ 1 .. Len(got'["client"]) = {}
    BY <2>3
  <2>5. \A i \in 1 .. Len(wire'["backend"]) : Piece("backend", wire'["backend"][i], Taken("backend")' + i)
    BY <1>5, <1>9, <2>2
  <2>6. sent'["backend"] = Taken("backend")' + Len(wire'["backend"])
    BY <1>5, <1>9, <2>1
  <2> QED
    BY <2>4, <2>5, <2>6, TwoSides DEF StreamInv
<1>12. StreamInv("client")'
  BY <1>0, <1>2, <1>4, StreamFrame DEF PxInv
<1>13. HeadInv'
  <2>1. ASSUME NEW i \in 1 .. r + n PROVE Piece("backend", resp_buf'[i], i)
    <3>1. CASE i \in 1 .. r
      BY <1>6, <1>10, <3>1
    <3>2. CASE i \notin 1 .. r
      <4>1. PICK k \in 1 .. n : i = r + k
        <5>1. i - r \in 1 .. n /\ i = r + (i - r)
          BY <3>2
        <5> QED
          BY <5>1
      <4>2. k \in 1 .. w
        BY <1>4
      <4> QED
        BY <1>6, <1>10, <4>1, <4>2
    <3> QED
      BY <3>1, <3>2
  <2>2. pc' = "switch" => Len(resp_buf') >= 2
    <3>1. SUFFICES ASSUME NEW i \in 1 .. r + n, resp_buf'[i] = Proxy!Blank PROVE r + n >= 2
      BY <1>1, <1>6
    <3>2. i # 1
      BY <2>1, <3>1, BlankIsSecond
    <3> QED
      BY <1>4, <3>2
  <2>3. buf'["backend"] = << >> /\ got'["client"] = << >>
    BY <1>0, <1>2, <1>8
  <2> QED
    BY <1>1, <1>6, <2>1, <2>2, <2>3 DEF HeadInv
<1>14. TunnelInv'
  BY <1>0, <1>1, <1>8 DEF PxInv, TunnelInv
<1> QED
  BY <1>0, <1>7, <1>11, <1>12, <1>13, <1>14, TwoSides DEF PxInv

\* The head of the answer is read.
LEMMA ReadHeadInv ==
  ASSUME PxInv, Proxy!read_head
  PROVE  PxInv'
<1>1. CASE \E n \in 1 .. Len(wire["backend"]) :
             LET h == resp_buf \o SubSeq(wire["backend"], 1, n)
             IN /\ resp_buf' = h
                /\ wire' = [wire EXCEPT !["backend"] = SubSeq(@, n + 1, Len(@))]
                /\ IF \E i \in 1 .. Len(h) : h[i] = Proxy!Blank THEN Proxy!Parsed(h) ELSE Proxy!To("head")
  <2>1. PICK n \in 1 .. Len(wire["backend"]) :
             LET h == resp_buf \o SubSeq(wire["backend"], 1, n)
             IN /\ resp_buf' = h
                /\ wire' = [wire EXCEPT !["backend"] = SubSeq(@, n + 1, Len(@))]
                /\ IF \E i \in 1 .. Len(h) : h[i] = Proxy!Blank THEN Proxy!Parsed(h) ELSE Proxy!To("head")
    BY <1>1
  <2>2. /\ resp_buf' = resp_buf \o SubSeq(wire["backend"], 1, n)
        /\ wire' = [wire EXCEPT !["backend"] = SubSeq(@, n + 1, Len(@))]
    BY <2>1
  <2>3. IF \E i \in 1 .. Len(resp_buf') : resp_buf'[i] = Proxy!Blank
        THEN Proxy!Parsed(resp_buf') ELSE Proxy!To("head")
    BY <2>1, <2>2
  <2> QED
    BY <2>2, <2>3, ChunkInv
<1>2. CASE /\ wire["backend"] = << >> /\ state["backend"] = "eof"
           /\ Proxy!Parsed(resp_buf) /\ UNCHANGED <<wire, resp_buf>>
  <2>1. /\ pc = "head" /\ UNCHANGED <<kind, state, wire, sent, resp_buf, got, unread, buf, ending>>
        /\ pc' \in {"answered", "closed", "switch"}
        /\ answer' \in {answer, "proxy", "backend"}
    BY <1>2, ParsedTo DEF Proxy!read_head
  <2>2. Proxy!TypeOK'
    BY <2>1 DEF PxInv, Proxy!TypeOK, Proxy!Over
  <2>3. \A s \in Proxy!Sides : StreamInv(s)'
    BY <2>1 DEF PxInv, StreamInv, Taken, Written, Headed
  <2>4. HeadInv' /\ TunnelInv'
    BY <1>2, <2>1 DEF PxInv, HeadInv, TunnelInv
  <2> QED
    BY <2>1, <2>2, <2>3, <2>4 DEF PxInv
<1>3. CASE state["backend"] = "reset" /\ Proxy!Answer("proxy") /\ UNCHANGED <<wire, resp_buf>>
  <2>1. /\ UNCHANGED <<kind, state, wire, sent, resp_buf, got, unread, buf, ending>>
        /\ pc = "head" /\ pc' = "answered" /\ answer' = "proxy"
    BY <1>3 DEF Proxy!read_head, Proxy!Answer
  <2>2. Proxy!TypeOK'
    BY <2>1 DEF PxInv, Proxy!TypeOK, Proxy!Over
  <2> QED
    BY <2>1, <2>2, QuietInv
<1> QED
  BY <1>1, <1>2, <1>3 DEF Proxy!read_head

\* A side sends its next piece.
LEMMA SendsInv ==
  ASSUME PxInv, NEW s \in Proxy!Sides, NEW p \in Proxy!Pieces, Proxy!Sends(s, p),
         Piece(s, p, sent[s] + 1), sent[s] + 1 <= MaxPieces + 2,
         s = "client" => sent[s] + 1 <= MaxPieces
  PROVE  PxInv'
<1>0. /\ pc \in {"head", "switch", "tunnel"} /\ state[s] = "open"
      /\ wire' = [wire EXCEPT ![s] = Append(@, p)]
      /\ sent' = [sent EXCEPT ![s] = @ + 1]
      /\ pc' = pc /\ kind' = kind /\ answer' = answer /\ state' = state /\ got' = got
      /\ unread' = unread /\ resp_buf' = resp_buf /\ buf' = buf /\ ending' = ending
  BY DEF Proxy!Sends, Proxy!Talking
<1>1. /\ Proxy!TypeOK /\ wire \in [Proxy!Sides -> Seq(Proxy!Pieces)] /\ wire[s] \in Seq(Proxy!Pieces)
      /\ sent \in [Proxy!Sides -> 0 .. MaxPieces + 2] /\ MaxPieces \in Nat
  BY ProxyAssumption DEF PxInv, Proxy!TypeOK
<1>2. PICK w \in Nat, T \in Nat, m \in Nat : w = Len(wire[s]) /\ T = Taken(s) /\ m = sent[s]
  BY <1>1, Types
<1>3. m = T + w
  BY <1>2 DEF PxInv, StreamInv
<1>4. /\ wire'[s] = Append(wire[s], p) /\ wire'[s] \in Seq(Proxy!Pieces) /\ Len(wire'[s]) = w + 1
      /\ \A i \in 1 .. w : wire'[s][i] = wire[s][i]
      /\ wire'[s][w + 1] = p
  <2>1. wire'[s] = Append(wire[s], p)
    BY <1>0, <1>1
  <2> QED
    BY <1>1, <1>2, <2>1
<1>5. sent'[s] = m + 1 /\ m + 1 \in 0 .. MaxPieces + 2
  <2>1. sent'[s] = m + 1
    BY <1>0, <1>1, <1>2
  <2> QED
    BY <1>1, <1>2, <2>1
<1>6. \A t \in Proxy!Sides : t # s => wire'[t] = wire[t] /\ sent'[t] = sent[t]
  BY <1>0, <1>1
<1>7. Proxy!TypeOK'
  <2>1. wire' \in [Proxy!Sides -> Seq(Proxy!Pieces)]
    BY <1>0, <1>1, <1>4
  <2>2. sent' \in [Proxy!Sides -> 0 .. MaxPieces + 2]
    BY <1>0, <1>1, <1>2, <1>5
  <2> QED
    BY <1>0, <1>1, <2>1, <2>2 DEF Proxy!TypeOK
<1>8. StreamInv(s)'
  <2>1. Written(s)' = Written(s) /\ Taken(s)' = T
    BY <1>0, <1>2 DEF Written, Taken, Headed
  <2>2. ASSUME NEW i \in 1 .. w + 1 PROVE Piece(s, wire'[s][i], T + i)
    <3>1. CASE i \in 1 .. w
      BY <1>2, <1>4, <3>1 DEF PxInv, StreamInv
    <3>2. CASE i = w + 1
      <4>1. T + (w + 1) = m + 1
        BY <1>3
      <4> QED
        BY <1>2, <1>4, <3>2, <4>1
    <3> QED
      BY <3>1, <3>2
  <2>3. sent'[s] = T + (w + 1)
    BY <1>3, <1>5
  <2>4. /\ \A i \in 1 .. Len(buf[s]) : Piece(s, buf[s][i], Written(s) + i)
        /\ \A i \in 1 .. Len(got[Proxy!Other(s)]) :
             got[Proxy!Other(s)][i] = IF s = "client" THEN i ELSE Len(resp_buf) + i - 2
    BY DEF PxInv, StreamInv
  <2>5. /\ \A i \in 1 .. Len(buf'[s]) : Piece(s, buf'[s][i], Written(s)' + i)
        /\ \A i \in 1 .. Len(got'[Proxy!Other(s)]) :
             got'[Proxy!Other(s)][i] = IF s = "client" THEN i ELSE Len(resp_buf') + i - 2
    BY <1>0, <2>1, <2>4
  <2>6. /\ \A i \in 1 .. Len(wire'[s]) : Piece(s, wire'[s][i], Taken(s)' + i)
        /\ sent'[s] = Taken(s)' + Len(wire'[s])
    BY <1>4, <2>1, <2>2, <2>3
  <2> QED
    BY <2>5, <2>6 DEF StreamInv
<1>9. \A t \in Proxy!Sides : t # s => StreamInv(t)'
  BY <1>0, <1>6, StreamFrame DEF PxInv
<1>10. HeadInv'
  <2>1. s # "backend" => wire'["backend"] = wire["backend"]
    BY <1>6, TwoSides
  <2> QED
    BY <1>0, <2>1 DEF PxInv, HeadInv
<1>11. TunnelInv'
  BY <1>0 DEF PxInv, TunnelInv
<1>12. sent'["client"] <= MaxPieces
  BY <1>2, <1>5, <1>6, TwoSides DEF PxInv
<1> QED
  BY <1>7, <1>8, <1>9, <1>10, <1>11, <1>12 DEF PxInv

\* The client sends its next piece.
LEMMA ClientSendsInv ==
  ASSUME PxInv, Proxy!ClientSends
  PROVE  PxInv'
<1>1. PICK m \in Nat : m = sent["client"]
  BY Types, TwoSides DEF PxInv
<1>2. m < MaxPieces /\ MaxPieces \in Nat /\ Proxy!Sends("client", Proxy!Data(m + 1))
  BY <1>1, ProxyAssumption DEF Proxy!ClientSends
<1>3. m + 1 \in 1 .. MaxPieces /\ m + 1 <= MaxPieces + 2
  BY <1>2
<1>4. Proxy!Data(m + 1) \in Proxy!Pieces
  BY <1>3 DEF Proxy!Pieces
<1>5. Piece("client", Proxy!Data(m + 1), m + 1)
  BY DEF Piece
<1> QED
  BY <1>1, <1>2, <1>3, <1>4, <1>5, TwoSides, SendsInv

\* The backend sends the next piece of its answer, or of what follows it.
LEMMA BackendSendsInv ==
  ASSUME PxInv, Proxy!BackendSends
  PROVE  PxInv'
<1>1. PICK m \in Nat : m = sent["backend"]
  BY Types, TwoSides DEF PxInv
<1>2. SUFFICES ASSUME NEW p \in Proxy!Pieces, Proxy!Sends("backend", p), Piece("backend", p, m + 1),
                      m + 1 <= MaxPieces + 2
               PROVE  PxInv'
  <2>1. CASE m = 0 /\ \E line \in Proxy!Lines : Proxy!Sends("backend", line)
    <3>1. PICK line \in Proxy!Lines : Proxy!Sends("backend", line)
      BY <2>1
    <3>2. line \in Proxy!Pieces /\ Piece("backend", line, m + 1)
      BY <2>1 DEF Proxy!Pieces, Piece
    <3>3. m + 1 <= MaxPieces + 2
      BY <2>1, ProxyAssumption
    <3> QED
      BY <1>2, <3>1, <3>2, <3>3
  <2>2. CASE m = 1 /\ Proxy!Sends("backend", Proxy!Blank)
    <3>1. Proxy!Blank \in Proxy!Pieces /\ Piece("backend", Proxy!Blank, m + 1)
      BY <2>2 DEF Proxy!Pieces, Piece
    <3>2. m + 1 <= MaxPieces + 2
      BY <2>2, ProxyAssumption
    <3> QED
      BY <1>2, <2>2, <3>1, <3>2
  <2>3. CASE m \in 2 .. MaxPieces + 1 /\ Proxy!Sends("backend", Proxy!Data(m - 1))
    <3>1. /\ m - 1 \in 1 .. MaxPieces /\ m + 1 <= MaxPieces + 2
          /\ m + 1 # 1 /\ m + 1 # 2 /\ m + 1 - 2 = m - 1
      BY <2>3, ProxyAssumption
    <3>2. Proxy!Data(m - 1) \in Proxy!Pieces
      BY <3>1 DEF Proxy!Pieces
    <3>3. Piece("backend", Proxy!Data(m - 1), m + 1)
      BY <3>1 DEF Piece
    <3> QED
      BY <1>2, <2>3, <3>1, <3>2, <3>3
  <2> QED
    BY <1>1, <2>1, <2>2, <2>3 DEF Proxy!BackendSends
<1> QED
  BY <1>1, <1>2, TwoSides, SendsInv

\* Before the first piece.
LEMMA FreshInv == Proxy!Init => PxInv
<1> SUFFICES ASSUME Proxy!Init PROVE PxInv
  OBVIOUS
<1>1. \A s \in Proxy!Sides : /\ wire[s] = << >> /\ buf[s] = << >> /\ got[s] = << >>
                             /\ got[Proxy!Other(s)] = << >> /\ sent[s] = 0 /\ unread[s] = 0
  BY TwoSides DEF Proxy!Init
<1>2. Proxy!TypeOK
  <2>1. /\ wire \in [Proxy!Sides -> Seq(Proxy!Pieces)] /\ buf \in [Proxy!Sides -> Seq(Proxy!Pieces)]
        /\ got \in [Proxy!Sides -> Seq(1 .. MaxPieces)] /\ resp_buf \in Seq(Proxy!Pieces)
        /\ \A s \in Proxy!Sides : Len(buf[s]) <= BufSize
    BY ProxyAssumption DEF Proxy!Init
  <2>2. /\ sent \in [Proxy!Sides -> 0 .. MaxPieces + 2] /\ unread \in [Proxy!Sides -> 0 .. Room]
    BY ProxyAssumption DEF Proxy!Init
  <2>3. kind \in Proxy!Kinds /\ state \in [Proxy!Sides -> {"open", "eof", "reset"}]
    BY DEF Proxy!Init, Proxy!Kinds
  <2> QED
    BY <2>1, <2>2, <2>3 DEF Proxy!TypeOK, Proxy!Init, Proxy!Over
<1>3. ASSUME NEW s \in Proxy!Sides PROVE StreamInv(s)
  <2>1. /\ Len(wire[s]) = 0 /\ Len(buf[s]) = 0 /\ Len(got[Proxy!Other(s)]) = 0 /\ Headed(s) = 0
        /\ sent[s] = 0
    BY <1>1 DEF Headed, Proxy!Init
  <2>2. Written(s) = 0 /\ Taken(s) = 0
    BY <2>1 DEF Written, Taken
  <2>3. 1 .. 0 = {}
    OBVIOUS
  <2> QED
    BY <2>1, <2>2, <2>3 DEF StreamInv
<1>4. HeadInv
  BY <1>1, TwoSides DEF HeadInv, Proxy!Init
<1>5. TunnelInv
  BY <1>1, TwoSides, ProxyAssumption DEF TunnelInv, Proxy!Init
<1>6. sent["client"] <= MaxPieces
  BY <1>1, TwoSides, ProxyAssumption
<1> QED
  BY <1>2, <1>3, <1>4, <1>5, <1>6 DEF PxInv

\* The next request starts with nothing of the one before.
LEMMA AcceptInv ==
  ASSUME Proxy!accept
  PROVE  PxInv'
<1>1. Proxy!Init'
  BY DEF Proxy!accept, Proxy!Init
<1>2. (Proxy!Init => PxInv)'
  BY FreshInv, PTL
<1> QED
  BY <1>1, <1>2

\* PxInv is inductive for a connection.
THEOREM ProxyInductive == Proxy!Spec => []PxInv
<1>1. Proxy!Init => PxInv
  BY FreshInv
<1>2. PxInv /\ [Proxy!Next]_Proxy!vars => PxInv'
  <2> SUFFICES ASSUME PxInv, [Proxy!Next]_Proxy!vars PROVE PxInv'
    OBVIOUS
  <2>1. CASE \/ \E k \in Proxy!Kinds : Proxy!proxy_request(k)
             \/ Proxy!resolve_service \/ Proxy!resolve_endpoints \/ Proxy!collect_body
             \/ Proxy!connect \/ Proxy!connect_tls \/ Proxy!send_request \/ Proxy!collect_response
             \/ Proxy!write_request \/ Proxy!on_upgrade \/ Proxy!Abandon
    BY <2>1, RequestInv
  <2>2. CASE Proxy!read_head
    BY <2>2, ReadHeadInv
  <2>3. CASE \E s \in Proxy!Sides : Proxy!Copy(s)
    BY <2>3, CopyReadInv, CopyWriteInv, CopyEndsInv DEF Proxy!Copy
  <2>4. CASE Proxy!accept
    BY <2>4, AcceptInv
  <2>5. CASE Proxy!ClientSends \/ Proxy!BackendSends
    BY <2>5, ClientSendsInv, BackendSendsInv
  <2>6. CASE \E s \in Proxy!Sides : Proxy!Reads(s) \/ Proxy!Leaves(s)
    BY <2>6, PeerInv
  <2>7. CASE UNCHANGED Proxy!vars
    <3>1. UNCHANGED <<pc, kind, answer, state, wire, sent, resp_buf, buf, got, unread, ending>>
      BY <2>7 DEF Proxy!vars, Proxy!peers
    <3> QED
      BY <3>1, StreamFrame DEF PxInv, Proxy!TypeOK, HeadInv, TunnelInv
  <2> QED
    BY <2>1, <2>2, <2>3, <2>4, <2>5, <2>6, <2>7 DEF Proxy!Next
<1> QED
  BY <1>1, <1>2, PTL DEF Proxy!Spec

\* What came with the head of the answer is what resp_buf holds after the blank line.
LEMMA SwallowedIs ==
  ASSUME PxInv
  PROVE  /\ Len(resp_buf) >= 2 => Proxy!Swallowed = Len(resp_buf) - 2
         /\ Len(resp_buf) < 2 => Proxy!Swallowed = 0
<1>1. PICK r \in Nat : r = Len(resp_buf) /\ DOMAIN resp_buf = 1 .. r
  BY LenProperties DEF PxInv, Proxy!TypeOK
<1>2. \A i \in 1 .. r : Piece("backend", resp_buf[i], i)
  BY <1>1 DEF PxInv, HeadInv
<1>3. ASSUME NEW i \in 1 .. r PROVE (resp_buf[i].what = "data") <=> i >= 3
  <2>1. CASE i = 1
    BY <1>2, <2>1 DEF Piece, Proxy!Lines, Proxy!Line
  <2>2. CASE i = 2
    BY <1>2, <2>2 DEF Piece, Proxy!Blank
  <2>3. CASE i >= 3
    <3>1. i # 1 /\ i # 2
      BY <2>3
    <3>2. resp_buf[i] = Proxy!Data(i - 2)
      BY <1>2, <3>1 DEF Piece
    <3> QED
      BY <2>3, <3>2 DEF Proxy!Data
  <2> QED
    BY <2>1, <2>2, <2>3
<1>4. {i \in DOMAIN resp_buf : resp_buf[i].what = "data"} = {i \in 1 .. r : i >= 3}
  BY <1>1, <1>3
<1>5. {i \in 1 .. r : i >= 3} = 3 .. r
  OBVIOUS
<1>6. Proxy!Swallowed = IF 3 > r THEN 0 ELSE r - 3 + 1
  <2>1. Cardinality(3 .. r) = IF 3 > r THEN 0 ELSE r - 3 + 1
    BY 3 \in Int, r \in Int, FS_Interval
  <2>2. Proxy!Swallowed = Cardinality(3 .. r)
    <3>1. \A S : Proxy!Cardinality(S) = Cardinality(S)
      BY DEF Cardinality, Proxy!Cardinality
    <3> QED
      BY <1>4, <1>5, <3>1 DEF Proxy!Swallowed
  <2> QED
    BY <2>1, <2>2
<1> QED
  BY <1>1, <1>6

\* A tunnel passes on what it is given (TunnelFaithful).
LEMMA TunnelFollows == PxInv => TunnelFaithful
<1> SUFFICES ASSUME PxInv PROVE TunnelFaithful
  OBVIOUS
<1>1. Proxy!TypeOK /\ "client" \in Proxy!Sides /\ "backend" \in Proxy!Sides
  BY TwoSides DEF PxInv
<1>2. PICK r \in Nat, c \in Nat, b \in Nat, mc \in Nat, mb \in Nat :
        /\ r = Len(resp_buf) /\ c = Len(got["client"]) /\ b = Len(got["backend"])
        /\ mc = sent["client"] /\ mb = sent["backend"]
  BY <1>1, Types
<1>3. PICK sw \in Nat : sw = Proxy!Swallowed /\ (r >= 2 => sw = r - 2) /\ (r < 2 => sw = 0)
  <2>1. (r >= 2 => r - 2 \in Nat) /\ (r >= 2 \/ r < 2)
    OBVIOUS
  <2> QED
    BY <1>2, <2>1, SwallowedIs
<1>4. got["client"] \in Seq(1 .. MaxPieces) /\ got["backend"] \in Seq(1 .. MaxPieces)
  BY <1>1, Types
<1>5. got["backend"] = Proxy!Numbered(0, Len(got["backend"]))
  <2>1. \A i \in 1 .. b : got["backend"][i] = i
    BY <1>1, <1>2, TwoSides DEF PxInv, StreamInv
  <2>2. got["backend"] = [i \in 1 .. b |-> got["backend"][i]]
    BY <1>2, <1>4
  <2>3. b - 0 = b /\ \A i \in 1 .. b : 0 + i = i
    OBVIOUS
  <2> QED
    BY <1>2, <2>1, <2>2, <2>3 DEF Proxy!Numbered
<1>6. got["client"] = Proxy!Numbered(Proxy!Swallowed, Proxy!Swallowed + Len(got["client"]))
  <2>1. \A i \in 1 .. c : got["client"][i] = r + i - 2
    BY <1>1, <1>2, TwoSides DEF PxInv, StreamInv
  <2>2. got["client"] = [i \in 1 .. c |-> got["client"][i]]
    BY <1>2, <1>4
  <2>3. c > 0 => r >= 2
    BY <1>2 DEF PxInv, HeadInv
  <2>4. sw + c - sw = c /\ \A i \in 1 .. c : r + i - 2 = sw + i
    BY <1>3, <2>3
  <2>5. [i \in 1 .. c |-> got["client"][i]] = [i \in 1 .. c |-> sw + i]
    BY <2>1, <2>4
  <2>6. Proxy!Numbered(sw, sw + c) = [i \in 1 .. c |-> sw + i]
    BY <2>4 DEF Proxy!Numbered
  <2> QED
    BY <1>2, <1>3, <2>2, <2>5, <2>6
<1>7. ASSUME ending = "client" PROVE Len(got["backend"]) = Proxy!DataSent["client"]
  <2>1. wire["client"] = << >> /\ buf["client"] = << >>
    BY <1>1, <1>7 DEF PxInv, TunnelInv
  <2>2. mc = b
    <3>1. Len(wire["client"]) = 0 /\ Len(buf["client"]) = 0
      BY <2>1
    <3>2. Written("client") = b
      BY <1>2, TwoSides DEF Written, Headed
    <3>3. Taken("client") = b
      BY <1>2, <3>1, <3>2 DEF Taken
    <3>4. mc = Taken("client") + Len(wire["client"])
      BY <1>1, <1>2 DEF PxInv, StreamInv
    <3> QED
      BY <3>1, <3>3, <3>4
  <2> QED
    BY <1>2, <2>2 DEF Proxy!DataSent
<1>8. ASSUME ending = "backend" PROVE Proxy!Swallowed + Len(got["client"]) = Proxy!DataSent["backend"]
  <2>1. wire["backend"] = << >> /\ buf["backend"] = << >>
    BY <1>1, <1>8 DEF PxInv, TunnelInv
  <2>2. mb = r + c
    <3>1. Len(wire["backend"]) = 0 /\ Len(buf["backend"]) = 0
      BY <2>1
    <3>2. Written("backend") = r + c
      BY <1>2, TwoSides DEF Written, Headed
    <3>3. Taken("backend") = r + c
      BY <1>2, <3>1, <3>2 DEF Taken
    <3>4. mb = Taken("backend") + Len(wire["backend"])
      BY <1>1, <1>2 DEF PxInv, StreamInv
    <3> QED
      BY <3>1, <3>3, <3>4
  <2>3. c > 0 => r >= 2
    BY <1>2 DEF PxInv, HeadInv
  <2>4. sw + c = IF mb > 2 THEN mb - 2 ELSE 0
    BY <1>3, <2>2, <2>3
  <2> QED
    BY <1>2, <1>3, <2>4 DEF Proxy!DataSent
<1> QED
  BY <1>5, <1>6, <1>7, <1>8 DEF TunnelFaithful, Proxy!TunnelFaithful

\* ws_handshake_and_tunnel and its two copies: each side gets what the other
\* sent, in order and without a gap, and all of it when the tunnel ends with the
\* end of its input (TunnelFaithful), for every number of pieces, every size of
\* the copies' buffers and every amount that a side takes before it reads.
THEOREM TunnelsFaithful == Proxy!Spec => []TunnelFaithful
<1>1. PxInv => TunnelFaithful
  BY TunnelFollows
<1> QED
  BY <1>1, ProxyInductive, PTL
==============================================================================
