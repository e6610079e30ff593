------------------------------ MODULE OAuthInfra ------------------------------
(***************************************************************************)
(* What the OAuth server sets up in the cluster before it listens          *)
(* (simulator/src/oauth/infra.rs): Service, Endpoints and Route of its     *)
(* host, the entry of the host in CoreDNS, and the Endpoints of the API    *)
(* server.  It is a sequence of calls, repeated at every start.  Some      *)
(* failures are logged and passed over, others end the sequence; the       *)
(* server listens in any case.  In byoidc mode the host is the provider's, *)
(* and what another mode left behind is deleted first.                     *)
(***************************************************************************)
EXTENDS Naturals, Sequences

CONSTANTS
  Modes,       \* the auth modes that processes are started with
  Ips,         \* addresses that the node can have
  ApiMayFail,  \* whether an API call may fail for no visible reason
  None

ASSUME OAuthInfraAssumption ==
  /\ Modes \subseteq {"legacy", "oidc", "byoidc"} /\ Modes # {}
  /\ Ips # {} /\ None \notin Ips
  /\ ApiMayFail \in BOOLEAN

OAUTH_HOST == "oauth-openshift"
Hosts == {OAUTH_HOST, "entra"}
Parts == {"service", "endpoints", "route"}

VARIABLES
  mode,      \* auth mode of the process
  nodeIp,    \* cluster: address of the node
  objects,   \* cluster: for each host its Service, Endpoints and Route
  corefile,  \* cluster: the entry for apps.ocp-sim.test in the Corefile
  dns,       \* what the CoreDNS pods have loaded of it
  apiIp,     \* cluster: the address in the Endpoints `kubernetes`
  proc       \* setup_infrastructure: the next call, the address it read, and
             \* whether every call succeeded so far

vars == <<mode, nodeIp, objects, corefile, dns, apiIp, proc>>

\* A part is None if it does not exist; Endpoints are the address they lead to.
Part == [service : {TRUE, None}, endpoints : Ips \cup {None}, route : {TRUE, None}]
Nothing == [p \in Parts |-> None]
Entry == [host : Hosts, ip : Ips] \cup {None}

ASSUME EntryAssumption == None \notin [host : Hosts, ip : Ips]

Host(m) == IF m = "byoidc" THEN "entra" ELSE OAUTH_HOST

\* setup_infrastructure, call by call.  Deletions come first, in byoidc mode only.
Deletions == [delete_service |-> "service", delete_endpoints |-> "endpoints", delete_route |-> "route"]
Calls(m) ==
  <<"namespace", "node_ip">>
    \o (IF m = "byoidc" THEN <<"delete_service", "delete_endpoints", "delete_route">> ELSE << >>)
    \o <<"service", "endpoints", "route", "get_corefile", "patch_corefile", "dns_pods",
         "kubernetes", "listening">>

Start == [pc |-> "namespace", ip |-> None, ok |-> TRUE]

TypeOK ==
  /\ mode \in Modes /\ nodeIp \in Ips
  /\ objects \in [Hosts -> Part]
  /\ corefile \in Entry /\ dns \in Entry
  /\ dns # None => corefile # None
  /\ apiIp \in Ips \cup {None}
  /\ \E i \in DOMAIN Calls(mode) : proc.pc = Calls(mode)[i]
  /\ proc.ip \in Ips \cup {None} /\ proc.ok \in BOOLEAN
  /\ (proc.ip = None \/ proc.ip = nodeIp)
  /\ (proc.ip = None /\ proc.ok) => proc.pc \in {"namespace", "node_ip"}

Init ==
  /\ mode \in Modes /\ nodeIp \in Ips
  /\ objects = [h \in Hosts |-> Nothing]
  /\ corefile = None /\ dns = None /\ apiIp = None
  /\ proc = Start

------------------------------------------------------------------------------
(***************************************************************************)
(* The calls.                                                              *)
(***************************************************************************)
\* The call that follows pc.
After(pc) ==
  LET c == Calls(mode)
      i == CHOOSE j \in DOMAIN c : c[j] = pc
  IN c[i + 1]

Advance == proc' = [proc EXCEPT !.pc = After(@)]

\* 409 is as good as a namespace that was created.
create_namespace ==
  /\ proc.pc = "namespace"
  /\ Advance
  /\ UNCHANGED <<mode, nodeIp, objects, corefile, dns, apiIp>>

get_node_ip ==
  /\ proc.pc = "node_ip"
  /\ proc' = [proc EXCEPT !.pc = After(@), !.ip = nodeIp]
  /\ UNCHANGED <<mode, nodeIp, objects, corefile, dns, apiIp>>

\* 404 is as good as an object that was deleted.
delete_leftover_OwnHost ==
  /\ proc.pc \in DOMAIN Deletions
  /\ objects' = [objects EXCEPT ![Host(mode)][Deletions[proc.pc]] = None]
  /\ Advance
  /\ UNCHANGED <<mode, nodeIp, corefile, dns, apiIp>>

delete_leftover ==
  /\ proc.pc \in DOMAIN Deletions
  /\ objects' = [objects EXCEPT ![OAUTH_HOST][Deletions[proc.pc]] = None]
  /\ Advance
  /\ UNCHANGED <<mode, nodeIp, corefile, dns, apiIp>>

apply_object_KeepsAddress ==
  /\ proc.pc \in {"service", "endpoints"}
  /\ objects' = [objects EXCEPT ![Host(mode)][proc.pc] =
                   IF @ # None THEN @ ELSE IF proc.pc = "endpoints" THEN proc.ip ELSE TRUE]
  /\ Advance
  /\ UNCHANGED <<mode, nodeIp, corefile, dns, apiIp>>

\* The server-side applies of Service and Endpoints.
apply_object ==
  /\ proc.pc \in {"service", "endpoints"}
  /\ objects' = [objects EXCEPT ![Host(mode)][proc.pc] =
                   IF proc.pc = "endpoints" THEN proc.ip ELSE TRUE]
  /\ Advance
  /\ UNCHANGED <<mode, nodeIp, corefile, dns, apiIp>>

create_oauth_route ==
  /\ proc.pc = "route"
  /\ objects' = [objects EXCEPT ![Host(mode)].route = TRUE]
  /\ Advance
  /\ UNCHANGED <<mode, nodeIp, corefile, dns, apiIp>>

\* patch_coredns: a Corefile that knows the domain is left as it is.
get_corefile ==
  /\ proc.pc = "get_corefile"
  /\ proc' = [proc EXCEPT !.pc = IF corefile # None THEN "kubernetes" ELSE "patch_corefile"]
  /\ UNCHANGED <<mode, nodeIp, objects, corefile, dns, apiIp>>

patch_corefile ==
  /\ proc.pc = "patch_corefile"
  /\ corefile' = [host |-> Host(mode), ip |-> proc.ip]
  /\ Advance
  /\ UNCHANGED <<mode, nodeIp, objects, dns, apiIp>>

restart_dns_pods ==
  /\ proc.pc = "dns_pods"
  /\ dns' = corefile
  /\ Advance
  /\ UNCHANGED <<mode, nodeIp, objects, corefile, apiIp>>

patch_kubernetes ==
  /\ proc.pc = "kubernetes"
  /\ apiIp' = proc.ip
  /\ Advance
  /\ UNCHANGED <<mode, nodeIp, objects, corefile, dns>>

\* A warning; the sequence goes on.  Here belong the deletions of single pods.
Warned ==
  /\ ApiMayFail /\ proc.pc \in DOMAIN Deletions \cup Parts \cup {"dns_pods", "kubernetes"}
  /\ proc' = [proc EXCEPT !.pc = After(@), !.ok = FALSE]
  /\ UNCHANGED <<mode, nodeIp, objects, corefile, dns, apiIp>>

\* An error that setup_infrastructure returns; run logs it and goes on to listen.
Abandoned ==
  /\ ApiMayFail
  /\ proc.pc \in {"namespace", "node_ip", "get_corefile", "patch_corefile", "dns_pods"}
  /\ proc' = [proc EXCEPT !.pc = "listening", !.ok = FALSE]
  /\ UNCHANGED <<mode, nodeIp, objects, corefile, dns, apiIp>>

------------------------------------------------------------------------------
(***************************************************************************)
(* The cluster, and restarts.                                              *)
(***************************************************************************)
DnsPodRestarts ==
  /\ dns' = corefile
  /\ UNCHANGED <<mode, nodeIp, objects, corefile, apiIp, proc>>

\* The process ends anywhere; the next one may have another mode, and the node
\* another address.
Restart(m, ip) ==
  /\ mode' = m /\ nodeIp' = ip
  /\ proc' = Start
  /\ UNCHANGED <<objects, corefile, dns, apiIp>>

Setup ==
  \/ create_namespace \/ get_node_ip \/ delete_leftover \/ apply_object \/ create_oauth_route
  \/ get_corefile \/ patch_corefile \/ restart_dns_pods \/ patch_kubernetes
  \/ Warned \/ Abandoned

Next ==
  \/ Setup
  \/ DnsPodRestarts
  \/ \E m \in Modes, ip \in Ips : Restart(m, ip)

Spec == Init /\ [][Next]_vars

------------------------------------------------------------------------------
(***************************************************************************)
(* Properties.                                                             *)
(***************************************************************************)
Served(h, ip) == objects[h] = [service |-> TRUE, endpoints |-> ip, route |-> TRUE]

\* setup_infrastructure: a start in which every call succeeded makes up for
\* whatever earlier processes left undone: the host of its mode leads to the
\* node as it is now, nothing of the server's own host is left in byoidc mode,
\* the domain is in the Corefile, and the API server is reached through the node.
CompleteStart ==
  proc.pc = "listening" /\ proc.ok =>
    /\ Served(Host(mode), nodeIp)
    /\ mode = "byoidc" => objects[OAUTH_HOST] = Nothing
    /\ corefile # None /\ apiIp = nodeIp

\* setup_infrastructure: repeating the sequence interrupts nothing.  A host that
\* is served stays served while processes of its mode start, fail and end on the
\* same node.
StaysServed ==
  [][\A h \in Hosts, ip \in Ips :
       Served(h, ip) /\ h = Host(mode') /\ ip = nodeIp' => Served(h, ip)']_vars
==============================================================================
