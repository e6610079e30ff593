------------------------------- MODULE Ingress --------------------------------
(***************************************************************************)
(* Two parts that share no state, the ways into the cluster: LoadBalancer  *)
(* addresses (LoadBalancer) and the connections of the reverse proxy       *)
(* (ProxyConnection).  A behaviour is one of one of them.                  *)
(***************************************************************************)
EXTENDS LoadBalancer

CONSTANTS MaxPieces, BufSize, Room

VARIABLES part, pc, kind, answer, state, wire, sent, resp_buf, buf, got, unread, ending

Proxy == INSTANCE ProxyConnection

\* Where nobody has answered, or nobody's end was the end, None stands for it.
ASSUME ProxyAssumption ==
  /\ MaxPieces \in Nat /\ BufSize \in Nat /\ Room \in Nat
  /\ None \notin {"client", "backend", "proxy"}

proxyVars == <<pc, kind, answer, state, wire, sent, resp_buf, buf, got, unread, ending>>
allVars == <<part, vars, proxyVars>>

bothInit == part \in {"addresses", "connections"} /\ Init /\ Proxy!Init

bothNext ==
  \/ part = "addresses" /\ Next /\ UNCHANGED <<part, proxyVars>>
  \/ part = "connections" /\ Proxy!Next /\ UNCHANGED <<part, vars>>

\* The fairness of the part at hand.
bothSpec ==
  /\ bothInit /\ [][bothNext]_allVars
  /\ part = "addresses" => Fairness
  /\ part = "connections" => Proxy!Fairness

\* A tunnel passes on what it is given, in order and to the end (ProxyConnection).
TunnelFaithful == Proxy!TunnelFaithful

\* A request comes to its end, or waits for the client or the backend
\* (ProxyConnection).
NothingHangs == Proxy!NothingHangs
==============================================================================
