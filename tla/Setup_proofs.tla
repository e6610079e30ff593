----------------------------- MODULE Setup_proofs -----------------------------
(***************************************************************************)
(* Theorems about the set-up of the cluster objects, for every set of      *)
(* modes and of addresses, and about the commands that change users, for   *)
(* every number of them, of users and of passwords.                        *)
(***************************************************************************)
EXTENDS Setup, SequenceTheorems, TLAPS

------------------------------------------------------------------------------
(***************************************************************************)
(* The set-up.  CompleteStart speaks of the end of the sequence.  What     *)
(* makes it true is what each call finds done by those before it (Behind,  *)
(* Removed) as long as none of them failed, and that the address is read   *)
(* before any call that writes it (ProcInv).  The order of the calls comes *)
(* from the sequence Calls, so the first lemmas say which call follows     *)
(* which.                                                                  *)
(***************************************************************************)
\* The calls before the deletions, up to their end, and after them; then the
\* calls of the modes without and with deletions.
First == <<"namespace", "node_ip">>
Cleaned == <<"namespace", "node_ip", "delete_service", "delete_endpoints", "delete_route">>
Rest == <<"service", "endpoints", "route", "get_corefile", "patch_corefile", "dns_pods",
          "kubernetes", "listening">>
Plain == <<"namespace", "node_ip", "service", "endpoints", "route", "get_corefile",
           "patch_corefile", "dns_pods", "kubernetes", "listening">>
Full == <<"namespace", "node_ip", "delete_service", "delete_endpoints", "delete_route",
          "service", "endpoints", "route", "get_corefile", "patch_corefile", "dns_pods",
          "kubernetes", "listening">>

\* The calls that come after the applies of Service, Endpoints and Route.
Late == {"get_corefile", "patch_corefile", "dns_pods", "kubernetes", "listening"}
Applies == {"service", "endpoints", "route"}

\* The next call is one of the mode's; the address is read before it is used.
ProcInv ==
  /\ proc \in [pc : DOMAIN Deletions \cup {"namespace", "node_ip"} \cup Applies \cup Late,
              ip : Ips \cup {None}, ok : BOOLEAN]
  /\ proc.pc \in DOMAIN Deletions => mode = "byoidc"
  /\ proc.ip = None \/ proc.ip = nodeIp
  /\ proc.ip = None => proc.pc \in {"namespace", "node_ip", "listening"}
  /\ proc.ip = None /\ proc.pc = "listening" => ~proc.ok

\* What the calls that are behind have left, if all of them succeeded.
Behind ==
  /\ proc.pc \in {"endpoints", "route"} \cup Late => objects[Host(mode)].service = TRUE
  /\ proc.pc \in {"route"} \cup Late => objects[Host(mode)].endpoints = nodeIp
  /\ proc.pc \in Late => objects[Host(mode)].route = TRUE
  /\ proc.pc \in {"dns_pods", "kubernetes", "listening"} => corefile # None
  /\ proc.pc = "listening" => apiIp = nodeIp

\* What they have removed of the server's own host.
Removed ==
  mode = "byoidc" =>
    /\ proc.pc \in {"delete_endpoints", "delete_route"} \cup Applies \cup Late
         => objects[OAUTH_HOST].service = None
    /\ proc.pc \in {"delete_route"} \cup Applies \cup Late => objects[OAUTH_HOST].endpoints = None
    /\ proc.pc \in Applies \cup Late => objects[OAUTH_HOST].route = None

\* The types of the cluster's objects.
ObjectsInv ==
  /\ mode \in Modes /\ nodeIp \in Ips /\ objects \in [Hosts -> Part]
  /\ corefile \in Entry /\ dns \in Entry /\ (dns # None => corefile # None)
  /\ apiIp \in Ips \cup {None}

IInv == ObjectsInv /\ ProcInv /\ (proc.ok => Behind /\ Removed)

\* A concatenation, element by element.
LEMMA Joined ==
  ASSUME NEW S, NEW s \in Seq(S), NEW t \in Seq(S), NEW u \in Seq(S),
         Len(u) = Len(s) + Len(t),
         \A i \in 1 .. Len(s) : u[i] = s[i],
         \A i \in 1 .. Len(t) : u[Len(s) + i] = t[i]
  PROVE  s \o t = u
<1> DEFINE n == Len(s)
           k == Len(t)
<1>1. /\ s \o t \in Seq(S) /\ Len(s \o t) = n + k /\ n \in Nat /\ k \in Nat
      /\ \A i \in 1 .. n + k : (s \o t)[i] = IF i <= n THEN s[i] ELSE t[i - n]
  BY ConcatProperties
<1>2. Len(u) = n + k /\ (\A i \in 1 .. n : u[i] = s[i]) /\ \A i \in 1 .. k : u[n + i] = t[i]
  OBVIOUS
<1> HIDE DEF n, k
<1>3. ASSUME NEW i \in 1 .. n + k
      PROVE  (s \o t)[i] = u[i]
  <2>1. CASE i <= n
    BY <1>1, <1>2, <2>1
  <2>2. CASE i > n
    <3>1. i - n \in 1 .. k /\ n + (i - n) = i
      BY <1>1, <2>2
    <3> QED
      BY <1>1, <1>2, <2>2, <3>1
  <2> QED
    BY <1>1, <2>1, <2>2
<1> QED
  BY <1>1, <1>2, <1>3, SeqEqual

\* setup_infrastructure: the calls in each mode, one by one.
LEMMA CallsListed ==
  /\ Calls("byoidc") = Full
  /\ \A m : m # "byoidc" => Calls(m) = Plain
<1> DEFINE S == {"namespace", "node_ip", "delete_service", "delete_endpoints", "delete_route",
                 "service", "endpoints", "route", "get_corefile", "patch_corefile", "dns_pods",
                 "kubernetes", "listening"}
           D == <<"delete_service", "delete_endpoints", "delete_route">>
<1>1. /\ First \in Seq(S) /\ D \in Seq(S) /\ Cleaned \in Seq(S)
      /\ Rest \in Seq(S) /\ Plain \in Seq(S) /\ Full \in Seq(S)
  BY DEF First, Cleaned, Rest, Plain, Full
<1>2. /\ Len(First) = 2 /\ Len(D) = 3 /\ Len(Cleaned) = 5 /\ Len(Rest) = 8
      /\ Len(Plain) = 10 /\ Len(Full) = 13
  BY DEF First, Cleaned, Rest, Plain, Full
<1>3. /\ \A i \in 1 .. 2 : Cleaned[i] = First[i]
      /\ \A i \in 1 .. 3 : Cleaned[2 + i] = D[i]
  BY DEF First, Cleaned
<1>4. /\ \A i \in 1 .. 5 : Full[i] = Cleaned[i]
      /\ \A i \in 1 .. 8 : Full[5 + i] = Rest[i]
  BY DEF Cleaned, Rest, Full
<1>5. /\ \A i \in 1 .. 2 : Plain[i] = First[i]
      /\ \A i \in 1 .. 8 : Plain[2 + i] = Rest[i]
  BY DEF First, Rest, Plain
<1> HIDE DEF S, D
<1>6. First \o D = Cleaned
  <2>1. /\ Len(Cleaned) = Len(First) + Len(D)
        /\ \A i \in 1 .. Len(First) : Cleaned[i] = First[i]
        /\ \A i \in 1 .. Len(D) : Cleaned[Len(First) + i] = D[i]
    BY <1>2, <1>3
  <2> QED
    BY <1>1, <2>1, Joined
<1>7. Cleaned \o Rest = Full
  <2>1. /\ Len(Full) = Len(Cleaned) + Len(Rest)
        /\ \A i \in 1 .. Len(Cleaned) : Full[i] = Cleaned[i]
        /\ \A i \in 1 .. Len(Rest) : Full[Len(Cleaned) + i] = Rest[i]
    BY <1>2, <1>4
  <2> QED
    BY <1>1, <2>1, Joined
<1>8. First \o << >> = First
  BY <1>1, ConcatEmptySeq
<1>9. First \o Rest = Plain
  <2>1. /\ Len(Plain) = Len(First) + Len(Rest)
        /\ \A i \in 1 .. Len(First) : Plain[i] = First[i]
        /\ \A i \in 1 .. Len(Rest) : Plain[Len(First) + i] = Rest[i]
    BY <1>2, <1>5
  <2> QED
    BY <1>1, <2>1, Joined
<1> QED
  BY <1>6, <1>7, <1>8, <1>9 DEF Calls, First, Rest, D

\* A call that occurs once is followed by the one at the next place.
LEMMA AfterAt ==
  ASSUME NEW c, Calls(mode) = c,
         NEW i \in DOMAIN c, \A j \in DOMAIN c : c[j] = c[i] => j = i
  PROVE  After(c[i]) = c[i + 1]
<1>1. (CHOOSE j \in DOMAIN c : c[j] = c[i]) = i
  OBVIOUS
<1> QED
  BY <1>1 DEF After

\* Which call follows which, in byoidc mode.
LEMMA FullAfter ==
  ASSUME mode = "byoidc"
  PROVE  /\ After("namespace") = "node_ip" /\ After("node_ip") = "delete_service"
         /\ After("delete_service") = "delete_endpoints"
         /\ After("delete_endpoints") = "delete_route" /\ After("delete_route") = "service"
         /\ After("service") = "endpoints" /\ After("endpoints") = "route"
         /\ After("route") = "get_corefile" /\ After("patch_corefile") = "dns_pods"
         /\ After("dns_pods") = "kubernetes" /\ After("kubernetes") = "listening"
<1>1. DOMAIN Full = 1 .. 13 /\ \A i, j \in 1 .. 13 : Full[i] = Full[j] => i = j
  BY DEF Full
<1>2. \A i \in 1 .. 13 : After(Full[i]) = Full[i + 1]
  BY <1>1, CallsListed, AfterAt
<1> QED
  BY <1>2 DEF Full

\* Which call follows which, in the other modes.
LEMMA PlainAfter ==
  ASSUME mode # "byoidc"
  PROVE  /\ After("namespace") = "node_ip" /\ After("node_ip") = "service"
         /\ After("service") = "endpoints" /\ After("endpoints") = "route"
         /\ After("route") = "get_corefile" /\ After("patch_corefile") = "dns_pods"
         /\ After("dns_pods") = "kubernetes" /\ After("kubernetes") = "listening"
<1>1. DOMAIN Plain = 1 .. 10 /\ \A i, j \in 1 .. 10 : Plain[i] = Plain[j] => i = j
  BY DEF Plain
<1>2. \A i \in 1 .. 10 : After(Plain[i]) = Plain[i + 1]
  BY <1>1, CallsListed, AfterAt
<1> QED
  BY <1>2 DEF Plain

\* Writing v into part p of host h, the values of a part, and what is then
\* true of the parts before and after.
Put(o, h, p, v) == [o EXCEPT ![h][p] = v]
Values(p) == IF p = "endpoints" THEN Ips \cup {None} ELSE {TRUE, None}
Replaced(o, n, h, p, v) ==
  /\ n \in [Hosts -> Part]
  /\ n[h].service = (IF p = "service" THEN v ELSE o[h].service)
  /\ n[h].endpoints = (IF p = "endpoints" THEN v ELSE o[h].endpoints)
  /\ n[h].route = (IF p = "route" THEN v ELSE o[h].route)
  /\ \A k \in Hosts \ {h} : n[k] = o[k]

\* One part of one host is written.
LEMMA Written ==
  ASSUME NEW o \in [Hosts -> Part], NEW h \in Hosts, NEW p \in Parts, NEW v \in Values(p)
  PROVE  Replaced(o, Put(o, h, p, v), h, p, v)
<1> DEFINE new == [o[h] EXCEPT ![p] = v]
<1>1. Put(o, h, p, v) = [o EXCEPT ![h] = new]
  BY DEF Put
<1>2. /\ new \in Part
      /\ new.service = (IF p = "service" THEN v ELSE o[h].service)
      /\ new.endpoints = (IF p = "endpoints" THEN v ELSE o[h].endpoints)
      /\ new.route = (IF p = "route" THEN v ELSE o[h].route)
  <2>1. o[h] \in Part
    OBVIOUS
  <2>2. CASE p = "service"
    BY <2>1, <2>2 DEF Part, Values
  <2>3. CASE p = "endpoints"
    BY <2>1, <2>3 DEF Part, Values
  <2>4. CASE p = "route"
    BY <2>1, <2>4 DEF Part, Values
  <2> QED
    BY <2>2, <2>3, <2>4 DEF Parts
<1> HIDE DEF new
<1> QED
  BY <1>1, <1>2 DEF Replaced

\* The host of a mode; in byoidc mode it is not the server's own.
LEMMA HostOf ==
  /\ Host(mode) \in Hosts /\ OAUTH_HOST \in Hosts
  /\ mode = "byoidc" => Host(mode) # OAUTH_HOST
  /\ mode # "byoidc" => Host(mode) = OAUTH_HOST
  BY DEF Host, Hosts, OAUTH_HOST

\* The names of the deletions.
LEMMA DeletionNames ==
  /\ DOMAIN Deletions = {"delete_service", "delete_endpoints", "delete_route"}
  /\ Deletions["delete_service"] = "service"
  /\ Deletions["delete_endpoints"] = "endpoints"
  /\ Deletions["delete_route"] = "route"
  BY DEF Deletions

\* The call after the one at hand, in either mode.
LEMMA AfterCall ==
  /\ After("namespace") = "node_ip"
  /\ After("node_ip") = IF mode = "byoidc" THEN "delete_service" ELSE "service"
  /\ mode = "byoidc" => /\ After("delete_service") = "delete_endpoints"
                        /\ After("delete_endpoints") = "delete_route"
                        /\ After("delete_route") = "service"
  /\ After("service") = "endpoints" /\ After("endpoints") = "route"
  /\ After("route") = "get_corefile" /\ After("patch_corefile") = "dns_pods"
  /\ After("dns_pods") = "kubernetes" /\ After("kubernetes") = "listening"
  BY FullAfter, PlainAfter

\* A start of the sequence has nothing behind it.
LEMMA StartInv ==
  ASSUME ObjectsInv, proc = Start
  PROVE  IInv
  BY DeletionNames DEF IInv, ProcInv, Behind, Removed, Start, Late, Applies

\* Each call leaves what those after it rely on.
LEMMA SetupInv ==
  ASSUME IInv, Setup
  PROVE  IInv'
<1>0. /\ objects \in [Hosts -> Part] /\ nodeIp \in Ips /\ None \notin Ips
      /\ proc.ip \in {None, nodeIp} /\ proc.ok \in BOOLEAN
      /\ proc = [pc |-> proc.pc, ip |-> proc.ip, ok |-> proc.ok]
  BY OAuthInfraAssumption DEF IInv, ObjectsInv, ProcInv
<1>1. CASE create_namespace
  <2>1. /\ proc.pc = "namespace" /\ proc' = [proc EXCEPT !.pc = "node_ip"]
        /\ UNCHANGED <<mode, nodeIp, objects, corefile, dns, apiIp>>
    BY <1>1, AfterCall DEF create_namespace, Advance
  <2> QED
    BY <2>1, DeletionNames DEF IInv, ObjectsInv, ProcInv, Behind, Removed, Late, Applies
<1>2. CASE get_node_ip
  <2>1. /\ proc.pc = "node_ip"
        /\ proc' = [proc EXCEPT !.pc = IF mode = "byoidc" THEN "delete_service" ELSE "service",
                                !.ip = nodeIp]
        /\ UNCHANGED <<mode, nodeIp, objects, corefile, dns, apiIp>>
    BY <1>2, AfterCall DEF get_node_ip
  <2> QED
    BY <1>0, <2>1, DeletionNames DEF IInv, ObjectsInv, ProcInv, Behind, Removed, Late, Applies
<1>3. CASE delete_leftover
  <2> DEFINE p == Deletions[proc.pc]
  <2>1. /\ proc.pc \in DOMAIN Deletions /\ mode = "byoidc"
        /\ objects' = Put(objects, OAUTH_HOST, p, None)
        /\ proc' = [proc EXCEPT !.pc = After(@)]
        /\ UNCHANGED <<mode, nodeIp, corefile, dns, apiIp>>
    BY <1>3 DEF delete_leftover, Advance, Put, IInv, ProcInv
  <2>2. p \in Parts
    BY <2>1, DeletionNames DEF Parts
  <2> HIDE DEF p
  <2>3. Replaced(objects, objects', OAUTH_HOST, p, None)
    <3>1. None \in Values(p)
      BY DEF Values
    <3> QED
      BY <1>0, <2>1, <2>2, <3>1, HostOf, Written
  <2>4. /\ proc'.ip = proc.ip /\ proc'.ok = proc.ok
        /\ proc' = [pc |-> proc'.pc, ip |-> proc'.ip, ok |-> proc'.ok]
        /\ \/ proc.pc = "delete_service" /\ proc'.pc = "delete_endpoints" /\ p = "service"
           \/ proc.pc = "delete_endpoints" /\ proc'.pc = "delete_route" /\ p = "endpoints"
           \/ proc.pc = "delete_route" /\ proc'.pc = "service" /\ p = "route"
    BY <1>0, <2>1, DeletionNames, AfterCall DEF p
  <2>5. ProcInv' /\ Behind' /\ ObjectsInv'
    BY <1>0, <2>1, <2>3, <2>4, DeletionNames
    DEF Replaced, IInv, ObjectsInv, ProcInv, Behind, Late, Applies
  <2>6. proc.ok => Removed'
    BY <2>1, <2>3, <2>4 DEF Replaced, IInv, Removed, Late, Applies
  <2> QED
    BY <2>4, <2>5, <2>6 DEF IInv
<1>4. ASSUME NEW p \in Parts, NEW v, proc.pc = p,
             v = IF p = "endpoints" THEN proc.ip ELSE TRUE,
             objects' = Put(objects, Host(mode), p, v),
             Advance, UNCHANGED <<mode, nodeIp, corefile, dns, apiIp>>
      PROVE  IInv'
  <2>1. proc.ip = nodeIp
    BY <1>4 DEF IInv, ProcInv, Parts
  <2>2. v \in Values(p)
    BY <1>0, <1>4, <2>1 DEF Values
  <2>3. Replaced(objects, objects', Host(mode), p, v)
    BY <1>0, <1>4, <2>2, HostOf, Written
  <2>4. /\ proc'.ip = proc.ip /\ proc'.ok = proc.ok
        /\ proc' = [pc |-> proc'.pc, ip |-> proc'.ip, ok |-> proc'.ok]
        /\ \/ p = "service" /\ proc'.pc = "endpoints"
           \/ p = "endpoints" /\ proc'.pc = "route"
           \/ p = "route" /\ proc'.pc = "get_corefile"
    BY <1>0, <1>4, AfterCall DEF Advance, Parts
  <2>5. ProcInv' /\ ObjectsInv'
    BY <1>0, <1>4, <2>1, <2>3, <2>4, DeletionNames DEF Replaced, IInv, ObjectsInv, ProcInv, Late, Applies
  <2>6. proc.ok => Behind'
    <3>1. Host(mode)' = Host(mode) /\ nodeIp' = nodeIp
      BY <1>4 DEF Host
    <3>2. ASSUME proc.ok
          PROVE  /\ p = "endpoints" => objects[Host(mode)].service = TRUE
                 /\ p = "route" => /\ objects[Host(mode)].service = TRUE
                                   /\ objects[Host(mode)].endpoints = nodeIp
      BY <1>4, <3>2 DEF IInv, Behind, Late
    <3> QED
      BY <1>4, <2>1, <2>3, <2>4, <3>1, <3>2 DEF Replaced, Behind, Late
  <2>7. proc.ok => Removed'
    <3>1. mode = "byoidc" => objects'[OAUTH_HOST] = objects[OAUTH_HOST]
      BY <2>3, HostOf DEF Replaced
    <3>2. proc.ok => Removed
      BY DEF IInv
    <3> QED
      BY <1>4, <2>4, <3>1, <3>2 DEF Removed, Late, Applies
  <2> QED
    BY <2>4, <2>5, <2>6, <2>7 DEF IInv
<1>5. CASE apply_object
  BY <1>4, <1>5 DEF apply_object, Put, Parts
<1>6. CASE create_oauth_route
  BY <1>4, <1>6 DEF create_oauth_route, Put, Parts
<1>7. CASE get_corefile
  <2>1. /\ proc.pc = "get_corefile"
        /\ proc' = [proc EXCEPT !.pc = IF corefile # None THEN "kubernetes" ELSE "patch_corefile"]
        /\ UNCHANGED <<mode, nodeIp, objects, corefile, dns, apiIp>>
    BY <1>7 DEF get_corefile
  <2> QED
    BY <1>0, <2>1, DeletionNames DEF IInv, ObjectsInv, ProcInv, Behind, Removed, Host, Late, Applies
<1>8. CASE patch_corefile
  <2>1. /\ proc.pc = "patch_corefile" /\ proc' = [proc EXCEPT !.pc = "dns_pods"]
        /\ corefile' = [host |-> Host(mode), ip |-> proc.ip]
        /\ UNCHANGED <<mode, nodeIp, objects, dns, apiIp>>
    BY <1>8, AfterCall DEF patch_corefile, Advance
  <2>2. proc.ip = nodeIp
    BY <2>1 DEF IInv, ProcInv
  <2>3. corefile' \in [host : Hosts, ip : Ips]
    BY <1>0, <2>1, <2>2, HostOf
  <2>4. corefile' \in Entry /\ corefile' # None
    BY <2>3, EntryAssumption DEF Entry
  <2>5. ProcInv' /\ ObjectsInv' /\ (proc.ok => Behind' /\ Removed') /\ proc'.ok = proc.ok
    BY <1>0, <2>1, <2>4, DeletionNames
    DEF IInv, ObjectsInv, ProcInv, Behind, Removed, Host, Late, Applies
  <2> QED
    BY <2>5 DEF IInv
<1>9. CASE restart_dns_pods
  <2>1. /\ proc.pc = "dns_pods" /\ proc' = [proc EXCEPT !.pc = "kubernetes"]
        /\ dns' = corefile /\ UNCHANGED <<mode, nodeIp, objects, corefile, apiIp>>
    BY <1>9, AfterCall DEF restart_dns_pods, Advance
  <2> QED
    BY <1>0, <2>1, DeletionNames DEF IInv, ObjectsInv, ProcInv, Behind, Removed, Host, Late, Applies
<1>10. CASE patch_kubernetes
  <2>1. /\ proc.pc = "kubernetes" /\ proc' = [proc EXCEPT !.pc = "listening"]
        /\ apiIp' = proc.ip /\ UNCHANGED <<mode, nodeIp, objects, corefile, dns>>
    BY <1>10, AfterCall DEF patch_kubernetes, Advance
  <2>2. proc.ip = nodeIp
    BY <2>1 DEF IInv, ProcInv
  <2> QED
    BY <1>0, <2>1, <2>2, DeletionNames
    DEF IInv, ObjectsInv, ProcInv, Behind, Removed, Host, Late, Applies
<1>11. CASE Warned
  <2>1. /\ proc.pc \in DOMAIN Deletions \cup Parts \cup {"dns_pods", "kubernetes"}
        /\ proc' = [proc EXCEPT !.pc = After(@), !.ok = FALSE]
        /\ UNCHANGED <<mode, nodeIp, objects, corefile, dns, apiIp>>
    BY <1>11 DEF Warned
  <2>2. /\ proc.ip = nodeIp
        /\ proc.pc \in DOMAIN Deletions => mode = "byoidc"
    BY <2>1, DeletionNames DEF IInv, ProcInv, Parts
  <2>3. /\ proc'.ip = proc.ip /\ ~proc'.ok
        /\ proc' = [pc |-> proc'.pc, ip |-> proc'.ip, ok |-> FALSE]
        /\ proc'.pc \in DOMAIN Deletions \cup Applies \cup Late
        /\ proc'.pc \in DOMAIN Deletions => mode = "byoidc"
    BY <1>0, <2>1, <2>2, DeletionNames, AfterCall DEF Parts, Applies, Late
  <2> QED
    BY <1>0, <2>1, <2>2, <2>3 DEF IInv, ObjectsInv, ProcInv
<1>12. CASE Abandoned
  <2>1. /\ proc' = [proc EXCEPT !.pc = "listening", !.ok = FALSE]
        /\ UNCHANGED <<mode, nodeIp, objects, corefile, dns, apiIp>>
    BY <1>12 DEF Abandoned
  <2> QED
    BY <1>0, <2>1, DeletionNames DEF IInv, ObjectsInv, ProcInv, Late
<1> QED
  BY <1>1, <1>2, <1>3, <1>5, <1>6, <1>7, <1>8, <1>9, <1>10, <1>11, <1>12 DEF Setup

\* A host is served when its three parts are what they should be.
LEMMA ServedParts ==
  ASSUME NEW o \in Part, NEW ip
  PROVE  /\ o = [service |-> TRUE, endpoints |-> ip, route |-> TRUE]
              <=> o.service = TRUE /\ o.endpoints = ip /\ o.route = TRUE
         /\ o = Nothing <=> o.service = None /\ o.endpoints = None /\ o.route = None
<1>1. o = [service |-> o.service, endpoints |-> o.endpoints, route |-> o.route]
  BY DEF Part
<1>2. Nothing = [service |-> None, endpoints |-> None, route |-> None]
  BY DEF Nothing, Parts
<1> QED
  BY <1>1, <1>2

\* Every step, the restarts of the CoreDNS pods and of the process included.
LEMMA NextInv ==
  ASSUME IInv, [Next]_vars
  PROVE  IInv'
<1>1. CASE Setup
  BY <1>1, SetupInv
<1>2. CASE DnsPodRestarts
  BY <1>2 DEF DnsPodRestarts, IInv, ObjectsInv, ProcInv, Behind, Removed, Host
<1>3. ASSUME NEW m \in Modes, NEW ip \in Ips, Restart(m, ip)
      PROVE  IInv'
  <2>1. ObjectsInv' /\ proc' = Start
    BY <1>3 DEF Restart, IInv, ObjectsInv
  <2>2. ObjectsInv' /\ (proc = Start)' => IInv'
    BY StartInv, PTL
  <2> QED
    BY <2>1, <2>2
<1>4. CASE UNCHANGED vars
  BY <1>4 DEF vars, IInv, ObjectsInv, ProcInv, Behind, Removed, Host
<1> QED
  BY <1>1, <1>2, <1>3, <1>4 DEF Next

\* setup_infrastructure keeps IInv, in every mode and whichever calls fail.
THEOREM Inductive == Spec => []IInv
<1>1. Init => IInv
  <2> SUFFICES ASSUME Init PROVE IInv
    OBVIOUS
  <2>1. Nothing \in Part
    BY DEF Nothing, Parts, Part
  <2>2. ObjectsInv /\ proc = Start
    BY <2>1 DEF Init, ObjectsInv, Entry
  <2> QED
    BY <2>2, StartInv
<1> QED
  BY <1>1, NextInv, PTL DEF Spec

\* The cluster's objects and the state of the sequence have their types.
THEOREM TypeCorrect == Spec => []TypeOK
<1>1. IInv => TypeOK
  <2> SUFFICES ASSUME IInv PROVE TypeOK
    OBVIOUS
  <2>1. \E i \in DOMAIN Calls(mode) : proc.pc = Calls(mode)[i]
    <3>1. CASE mode = "byoidc"
      <4>1. \E i \in DOMAIN Full : proc.pc = Full[i]
        BY DeletionNames DEF IInv, ProcInv, Late, Applies, Full
      <4> QED
        BY <3>1, <4>1, CallsListed
    <3>2. CASE mode # "byoidc"
      <4>1. \E i \in DOMAIN Plain : proc.pc = Plain[i]
        BY <3>2, DeletionNames DEF IInv, ProcInv, Late, Applies, Plain
      <4> QED
        BY <3>2, <4>1, CallsListed
    <3> QED
      BY <3>1, <3>2
  <2> QED
    BY <2>1, OAuthInfraAssumption DEF IInv, ObjectsInv, ProcInv, TypeOK
<1> QED
  BY <1>1, Inductive, PTL

\* setup_infrastructure: a start in which every call succeeds leaves the cluster
\* set up for its mode and the node's address, whatever was there before.
THEOREM StartsComplete == Spec => []CompleteStart
<1>1. IInv => CompleteStart
  <2> SUFFICES ASSUME IInv, proc.pc = "listening", proc.ok
               PROVE  /\ Served(Host(mode), nodeIp)
                      /\ mode = "byoidc" => objects[OAUTH_HOST] = Nothing
                      /\ corefile # None /\ apiIp = nodeIp
    BY DEF CompleteStart
  <2>1. objects[Host(mode)] \in Part /\ objects[OAUTH_HOST] \in Part
    BY HostOf DEF IInv, ObjectsInv
  <2>2. Behind /\ Removed
    BY DEF IInv
  <2>3. Served(Host(mode), nodeIp) /\ corefile # None /\ apiIp = nodeIp
    BY <2>1, <2>2, ServedParts DEF Behind, Served, Late
  <2>4. mode = "byoidc" => objects[OAUTH_HOST] = Nothing
    BY <2>1, <2>2, ServedParts DEF Removed, Late
  <2> QED
    BY <2>3, <2>4
<1> QED
  BY <1>1, Inductive, PTL

\* An object that is applied again is as it was.
LEMMA AppliedAgain ==
  ASSUME objects \in [Hosts -> Part], NEW h \in Hosts, NEW ip \in Ips,
         NEW p \in Parts, NEW v, Served(h, ip),
         (p = "endpoints" /\ v = ip) \/ (p # "endpoints" /\ v = TRUE),
         objects' = Put(objects, h, p, v)
  PROVE  Served(h, ip)'
<1>1. v \in Values(p)
  BY DEF Values
<1>2. Replaced(objects, objects', h, p, v)
  BY <1>1, Written
<1>3. objects[h].service = TRUE /\ objects[h].endpoints = ip /\ objects[h].route = TRUE
  BY DEF Served
<1>4. objects'[h].service = TRUE /\ objects'[h].endpoints = ip /\ objects'[h].route = TRUE
  <2>1. CASE p = "endpoints"
    BY <1>2, <1>3, <2>1 DEF Replaced
  <2>2. CASE p # "endpoints"
    BY <1>2, <1>3, <2>2 DEF Replaced
  <2> QED
    BY <2>1, <2>2
<1>5. objects'[h] \in Part
  BY <1>2 DEF Replaced
<1>6. objects'[h] = [service |-> TRUE, endpoints |-> ip, route |-> TRUE]
  BY <1>4, <1>5, ServedParts
<1> QED
  BY <1>6 DEF Served

\* What StaysServed says of one step.
Uninterrupted ==
  \A h \in Hosts, ip \in Ips :
    Served(h, ip) /\ h = Host(mode') /\ ip = nodeIp' => Served(h, ip)'

\* setup_infrastructure: the sequence can be repeated, broken off and repeated
\* again without interrupting a host that is served.
THEOREM RepeatsSafely == Spec => StaysServed
<1>1. ASSUME IInv, [Next]_vars
      PROVE  Uninterrupted
  <2> SUFFICES ASSUME NEW h \in Hosts, NEW ip \in Ips, Served(h, ip), h = Host(mode'), ip = nodeIp'
               PROVE  Served(h, ip)'
    BY DEF Uninterrupted
  <2>0. IInv' /\ objects \in [Hosts -> Part] /\ objects' \in [Hosts -> Part]
    BY <1>1, NextInv DEF IInv, ObjectsInv
  <2>1. ASSUME objects'[h] = objects[h]
        PROVE  Served(h, ip)'
    BY <2>1 DEF Served
  <2>2. CASE delete_leftover
    <3>1. h # OAUTH_HOST
      BY <1>1, <2>2, HostOf DEF delete_leftover, IInv, ProcInv
    <3> QED
      BY <2>0, <2>1, <2>2, <3>1 DEF delete_leftover
  <2>3. ASSUME NEW p \in Parts, proc.pc = p, UNCHANGED <<mode, nodeIp>>,
               objects' = Put(objects, Host(mode), p, IF p = "endpoints" THEN proc.ip ELSE TRUE)
        PROVE  Served(h, ip)'
    <3>1. proc.ip = nodeIp /\ ip = nodeIp /\ h = Host(mode)
      BY <1>1, <2>3 DEF IInv, ProcInv, Parts, Host
    <3>2. PICK v : /\ (p = "endpoints" /\ v = ip) \/ (p # "endpoints" /\ v = TRUE)
                   /\ objects' = Put(objects, h, p, v)
      BY <2>3, <3>1
    <3> QED
      BY <2>0, <3>2, AppliedAgain
  <2>4. CASE apply_object
    BY <2>3, <2>4 DEF apply_object, Put, Parts
  <2>5. CASE create_oauth_route
    BY <2>3, <2>5 DEF create_oauth_route, Put, Parts
  <2>6. CASE objects' = objects
    BY <2>1, <2>6
  <2>7. \/ delete_leftover \/ apply_object \/ create_oauth_route
        \/ objects' = objects
    BY <1>1 DEF Next, Setup, create_namespace, get_node_ip, get_corefile, patch_corefile,
                restart_dns_pods, patch_kubernetes, Warned, Abandoned, DnsPodRestarts, Restart, vars
  <2> QED
    BY <2>2, <2>4, <2>5, <2>6, <2>7
<1>2. Spec => [][Uninterrupted]_vars
  BY <1>1, Inductive, PTL DEF Spec
<1> QED
  BY <1>2 DEF StaysServed, Uninterrupted

------------------------------------------------------------------------------
(***************************************************************************)
(* The commands.  Both properties are true of a command's end because of   *)
(* what was true all along: the Secret holds what the latest command wrote *)
(* (LinesInv), a command that met no failure is alone with its user and    *)
(* goes the way of the cluster's mode (Undisturbed), and no command adds a *)
(* user that counts as deleted (RemovedInv).                               *)
(***************************************************************************)
\* A command under way has a user, and to add one a password.
Formed(k) ==
  /\ k.pc = "idle" => k = Cli!Idle
  /\ k.pc # "idle" => k.user \in Users /\ (k.op = "add" => k.password \in Passwords)
  /\ k.pc \in {"post", "bind"} => k.op = "add"
  /\ k.pc \in {"list", "remove"} => k.op = "delete"

\* What the Secret holds of a user some command wrote is what it gave him; the
\* server has the Secret unless it is about to get it.
LinesInv ==
  /\ unseen => secret # None
  /\ ~unseen /\ secret # None => store = secret
  /\ \A u \in Users : wanted[u] # None =>
       /\ secret # None
       /\ u \notin lost => Cli!Of(secret, u) = IF wanted[u] = "deleted" THEN {} ELSE {<<u, wanted[u]>>}

\* A deleted user has been taken out of where this cluster keeps its users.
Dropped(u) == IF cliMode = "byoidc" THEN provider[u] = 0 ELSE wanted[u] = "deleted"

\* A command that met no failure is the only one that handles its user, goes the
\* way of the cluster's mode, and has done its work when it unbinds the user.
Undisturbed(c) ==
  LET k == cmd[c]
  IN k.pc # "idle" /\ k.clean =>
       /\ \A d \in Cmds : d # c => cmd[d].user # k.user
       /\ IF cliMode = "byoidc" THEN k.pc \notin {"read", "apply"} ELSE k.pc \notin {"post", "list", "remove"}
       /\ k.pc = "remove" => k.id = provider[k.user]
       /\ k.pc = "unbind" /\ k.op = "delete" => Dropped(k.user)

\* Nobody adds a user that counts as deleted.
RemovedInv ==
  \A u \in removed :
    /\ Cli!Own(u) \notin bindings /\ Dropped(u)
    /\ \A c \in Cmds : cmd[c].user = u => cmd[c].op = "delete"

CliInv ==
  /\ Cli!TypeOK /\ LinesInv /\ RemovedInv
  /\ \A c \in Cmds : Formed(cmd[c]) /\ Undisturbed(c)

\* The steps of the commands.
CommandStep(c) ==
  \/ Cli!GetAuthMode(c) \/ Cli!readHtpasswd(c) \/ Cli!applyHtpasswdSecret(c)
  \/ Cli!entraMockAddUser(c) \/ Cli!entraMockDeleteUser_list(c) \/ Cli!entraMockDeleteUser(c)
  \/ Cli!Unbind(c) \/ Cli!Bind(c) \/ Cli!Abort(c)

\* A command and its fields, and what its steps make of it.
LEMMA CommandTypes ==
  ASSUME NEW k \in Cli!Command
  PROVE  /\ k.pc \in {"idle", "mode", "read", "apply", "post", "list", "remove", "unbind", "bind"}
         /\ k.op \in {"add", "delete"} /\ k.clean \in BOOLEAN /\ k.admin \in BOOLEAN
         /\ k.user \in Users \cup {None} /\ k.password \in Passwords \cup {None}
         /\ k.lines \in SUBSET (Users \X Passwords)
         /\ k.seq \in 0 .. MaxCommands /\ k.id \in 0 .. MaxCommands + 1
  BY DEF Cli!Command, Cli!Lines

\* No command is one of no user.
LEMMA IdleTypes ==
  /\ Cli!Idle \in Cli!Command /\ Cli!Idle.pc = "idle" /\ Cli!Idle.user = None /\ Formed(Cli!Idle)
<1>1. 0 \in 0 .. MaxCommands /\ 0 \in 0 .. MaxCommands + 1
  BY UserCliAssumption
<1>2. Cli!Idle \in Cli!Command /\ Cli!Idle.pc = "idle" /\ Cli!Idle.user = None
  BY <1>1 DEF Cli!Idle, Cli!Command, Cli!Lines
<1> QED
  BY <1>2 DEF Formed

\* A command goes on for its user, or has ended.
Follows(k, old) == k = Cli!Idle \/ (k.pc # "idle" /\ k.user = old.user /\ k.op = old.op /\ (k.clean => old.clean))

\* What a step leaves of a command that met no failure.
Proper(k) ==
  k.pc # "idle" /\ k.clean =>
    /\ IF cliMode' = "byoidc" THEN k.pc \notin {"read", "apply"}
       ELSE k.pc \notin {"post", "list", "remove"}
    /\ k.pc = "remove" => k.id = provider'[k.user]
    /\ k.pc = "unbind" /\ k.op = "delete" => Dropped(k.user)'

\* A step of one command does not disturb those of other users.
LEMMA MoveInv ==
  ASSUME CliInv, NEW c \in Cmds, NEW k \in Cli!Command, Formed(k), Follows(k, cmd[c]), Proper(k),
         cmd[c].pc # "idle", cmd' = [cmd EXCEPT ![c] = k], cliMode' = cliMode,
         \A u \in Users : u # cmd[c].user => wanted'[u] = wanted[u] /\ provider'[u] = provider[u]
  PROVE  /\ cmd' \in [Cmds -> Cli!Command]
         /\ \A d \in Cmds : Formed(cmd'[d]) /\ Undisturbed(d)'
<1>1. /\ cmd \in [Cmds -> Cli!Command] /\ \A d \in Cmds : Formed(cmd[d]) /\ Undisturbed(d)
      /\ cmd[c].user \in Users
  BY DEF CliInv, Cli!TypeOK, Formed
<1>2. /\ cmd' \in [Cmds -> Cli!Command] /\ cmd'[c] = k
      /\ \A d \in Cmds \ {c} : cmd'[d] = cmd[d]
  BY <1>1
<1>3. k.user \in {None, cmd[c].user}
  BY IdleTypes DEF Follows
<1>4. \A d \in Cmds : Formed(cmd'[d])
  BY <1>1, <1>2
<1>5. Undisturbed(c)'
  <2> SUFFICES ASSUME k.pc # "idle", k.clean
               PROVE  \A d \in Cmds : d # c => cmd'[d].user # k.user
    BY <1>2 DEF Undisturbed, Proper
  <2>1. k.user = cmd[c].user /\ cmd[c].clean
    BY IdleTypes DEF Follows
  <2> QED
    BY <1>1, <1>2, <2>1 DEF Undisturbed
<1>6. ASSUME NEW d \in Cmds, d # c
      PROVE  Undisturbed(d)'
  <2> SUFFICES ASSUME cmd[d].pc # "idle", cmd[d].clean
               PROVE  Undisturbed(d)'
    BY <1>2, <1>6 DEF Undisturbed
  <2>1. cmd[d].user \in Users
    BY <1>1 DEF Formed
  <2>2. cmd[d].user # cmd[c].user /\ \A e \in Cmds : e # d => cmd[e].user # cmd[d].user
    BY <1>1, <1>6 DEF Undisturbed
  <2>3. /\ wanted'[cmd[d].user] = wanted[cmd[d].user] /\ provider'[cmd[d].user] = provider[cmd[d].user]
        /\ cmd'[d] = cmd[d]
    BY <1>2, <1>6, <2>1, <2>2
  <2>4. \A e \in Cmds : e # d => cmd'[e].user # cmd[d].user
    BY <1>2, <1>3, <2>1, <2>2, UserCliAssumption
  <2> QED
    BY <1>1, <2>3, <2>4 DEF Undisturbed, Dropped
<1> QED
  BY <1>2, <1>4, <1>5, <1>6

\* A step of one command keeps the deleted users deleted, or deletes its own.
LEMMA RemovedStep ==
  ASSUME CliInv, NEW c \in Cmds, NEW k \in Cli!Command, Follows(k, cmd[c]),
         cmd[c].pc # "idle", cmd' = [cmd EXCEPT ![c] = k], removed' \subseteq Users,
         \A u \in removed' : Cli!Own(u) \notin bindings' /\ Dropped(u)',
         \A u \in removed' : u \in removed \/ (u = cmd[c].user /\ cmd[c].clean /\ k = Cli!Idle)
  PROVE  RemovedInv'
<1>1. cmd \in [Cmds -> Cli!Command] /\ None \notin Users
  BY UserCliAssumption DEF CliInv, Cli!TypeOK
<1>2. /\ cmd'[c] = k /\ \A d \in Cmds \ {c} : cmd'[d] = cmd[d]
  BY <1>1
<1>3. ASSUME NEW u \in removed', NEW d \in Cmds, cmd'[d].user = u
      PROVE  cmd'[d].op = "delete"
  <2>1. u \in Users
    OBVIOUS
  <2>2. CASE d = c
    <3>1. k.user = cmd[c].user /\ k.op = cmd[c].op /\ k # Cli!Idle
      BY <1>1, <1>2, <1>3, <2>1, <2>2, IdleTypes DEF Follows
    <3> QED
      BY <1>2, <1>3, <2>2, <3>1 DEF CliInv, RemovedInv
  <2>3. CASE d # c
    BY <1>2, <1>3, <2>3 DEF CliInv, RemovedInv, Undisturbed
  <2> QED
    BY <2>2, <2>3
<1> QED
  BY <1>3 DEF RemovedInv

\* A command with another place in its sequence, or another value of one field.
Placed(n, k, pc) ==
  /\ n \in Cli!Command /\ n.pc = pc
  /\ n.user = k.user /\ n.op = k.op /\ n.password = k.password

\* What a step of a command sets leaves its user, its operation and its password.
LEMMA CommandMoves ==
  ASSUME NEW k \in Cli!Command
  PROVE  /\ \A pc \in {"read", "post", "list", "unbind", "bind"} :
              /\ Placed([k EXCEPT !.pc = pc], k, pc)
              /\ [k EXCEPT !.pc = pc].clean = k.clean
         /\ Placed([k EXCEPT !.pc = "read", !.clean = FALSE], k, "read")
         /\ [k EXCEPT !.pc = "read", !.clean = FALSE].clean = FALSE
         /\ \A lines \in SUBSET (Users \X Passwords) :
              /\ Placed([k EXCEPT !.pc = "apply", !.lines = lines], k, "apply")
              /\ [k EXCEPT !.pc = "apply", !.lines = lines].clean = k.clean
         /\ \A id \in 0 .. MaxCommands + 1 :
              /\ Placed([k EXCEPT !.pc = "remove", !.id = id], k, "remove")
              /\ [k EXCEPT !.pc = "remove", !.id = id].clean = k.clean
              /\ [k EXCEPT !.pc = "remove", !.id = id].id = id
  BY ZenonT(60) DEF Placed, Cli!Command, Cli!Lines

\* A command of a user.
LEMMA Busy ==
  ASSUME CliInv, NEW c \in Cmds, cmd[c].pc # "idle"
  PROVE  /\ cmd[c] \in Cli!Command /\ Formed(cmd[c]) /\ Undisturbed(c)
         /\ cmd[c].user \in Users /\ (cmd[c].op = "add" => cmd[c].password \in Passwords)
  BY DEF CliInv, Cli!TypeOK, Formed

\* Reading the mode, the Secret and the provider's users, and giving up, leave
\* everything else as it is.
LEMMA ReadInv ==
  ASSUME CliInv, NEW c \in Cmds,
         Cli!GetAuthMode(c) \/ Cli!readHtpasswd(c) \/ Cli!entraMockDeleteUser_list(c) \/ Cli!Abort(c)
  PROVE  CliInv'
<1> DEFINE old == cmd[c]
<1>1. /\ UNCHANGED <<cliMode, secret, store, unseen, bindings, provider>>
      /\ UNCHANGED <<started, wanted, lost, removed>>
  BY DEF Cli!GetAuthMode, Cli!readHtpasswd, Cli!entraMockDeleteUser_list, Cli!Abort, Cli!cluster, Cli!history
<1>2. old.pc # "idle"
  <2>1. Cli!Abort(c) => old.pc # "idle"
    BY DEF Cli!Abort, CliInv, Formed
  <2> QED
    BY <2>1 DEF Cli!GetAuthMode, Cli!readHtpasswd, Cli!entraMockDeleteUser_list, Cli!At
<1>3. /\ old \in Cli!Command /\ Formed(old) /\ Undisturbed(c) /\ old.user \in Users
      /\ (old.op = "add" => old.password \in Passwords)
  BY <1>2, Busy
<1>4. \E k \in Cli!Command : /\ cmd' = [cmd EXCEPT ![c] = k]
                             /\ Formed(k) /\ Follows(k, old) /\ Proper(k)
  <2>1. CASE cmd' = [cmd EXCEPT ![c] = Cli!Idle]
    BY <2>1, IdleTypes DEF Follows, Proper
  <2>2. CASE Cli!GetAuthMode(c)
    <3>1. old.pc = "mode" /\ old.op \in {"add", "delete"}
      BY <1>3, <2>2, CommandTypes DEF Cli!GetAuthMode, Cli!At
    <3> DEFINE pc == IF cliMode # "byoidc" THEN "read" ELSE IF old.op = "add" THEN "post" ELSE "list"
               k == [old EXCEPT !.pc = pc]
               f == [old EXCEPT !.pc = "read", !.clean = FALSE]
    <3>2. cmd' = [cmd EXCEPT ![c] = k] \/ cmd' = [cmd EXCEPT ![c] = f]
      BY <2>2 DEF Cli!GetAuthMode, Cli!To, Cli!Move
    <3>3. pc \in {"read", "post", "list"} /\ (pc = "post" => old.op = "add") /\ (pc = "list" => old.op = "delete")
          /\ IF cliMode = "byoidc" THEN pc # "read" ELSE pc = "read"
      BY <3>1
    <3> HIDE DEF pc
    <3>4. Placed(k, old, pc) /\ k.clean = old.clean
      BY <1>3, <3>3, CommandMoves
    <3>5. Placed(f, old, "read") /\ f.clean = FALSE
      BY <1>3, CommandMoves
    <3> HIDE DEF k, f, old
    <3>6. k \in Cli!Command /\ Formed(k) /\ Follows(k, old) /\ Proper(k)
      BY <1>1, <1>3, <3>3, <3>4 DEF Placed, Formed, Follows, Proper
    <3>7. f \in Cli!Command /\ Formed(f) /\ Follows(f, old) /\ Proper(f)
      BY <1>3, <3>5 DEF Placed, Formed, Follows, Proper
    <3> QED
      BY <3>2, <3>6, <3>7
  <2>3. CASE Cli!readHtpasswd(c) /\ cmd' # [cmd EXCEPT ![c] = Cli!Idle]
    <3>1. PICK lines \in {IF secret = None THEN {} ELSE secret, {}} :
            cmd' = [cmd EXCEPT ![c] = [old EXCEPT !.pc = "apply", !.lines = lines]]
      BY <2>3 DEF Cli!readHtpasswd, Cli!End, Cli!Move
    <3> DEFINE k == [old EXCEPT !.pc = "apply", !.lines = lines]
    <3>2. lines \in SUBSET (Users \X Passwords)
      BY DEF CliInv, Cli!TypeOK, Cli!Lines
    <3>3. Placed(k, old, "apply") /\ k.clean = old.clean
      BY <1>3, <3>2, CommandMoves
    <3>4. old.pc = "read" /\ (old.clean => cliMode # "byoidc")
      BY <1>3, <2>3 DEF Cli!readHtpasswd, Cli!At, Undisturbed
    <3>5. cmd' = [cmd EXCEPT ![c] = k]
      BY <3>1
    <3> HIDE DEF k, old
    <3> QED
      BY <1>1, <1>3, <3>3, <3>4, <3>5 DEF Placed, Formed, Follows, Proper
  <2>4. CASE Cli!entraMockDeleteUser_list(c) /\ cmd' # [cmd EXCEPT ![c] = Cli!Idle]
    <3> DEFINE id == provider[old.user]
               k == [old EXCEPT !.pc = "remove", !.id = id]
    <3>1. cmd' = [cmd EXCEPT ![c] = k] /\ old.pc = "list"
      BY <2>4 DEF Cli!entraMockDeleteUser_list, Cli!End, Cli!Move, Cli!At
    <3>2. id \in 0 .. MaxCommands + 1
      BY <1>3 DEF CliInv, Cli!TypeOK
    <3> HIDE DEF id
    <3>3. Placed(k, old, "remove") /\ k.clean = old.clean /\ k.id = id
      BY <1>3, <3>2, CommandMoves
    <3>4. old.op = "delete" /\ (old.clean => cliMode = "byoidc")
      BY <1>3, <3>1 DEF Formed, Undisturbed
    <3> HIDE DEF k, old
    <3> QED
      BY <1>1, <1>3, <3>1, <3>3, <3>4 DEF Placed, Formed, Follows, Proper, id
  <2> QED
    BY <2>1, <2>2, <2>3, <2>4 DEF Cli!Abort, Cli!End, Cli!Move
<1>5. PICK k \in Cli!Command : /\ cmd' = [cmd EXCEPT ![c] = k]
                               /\ Formed(k) /\ Follows(k, old) /\ Proper(k)
  BY <1>4
<1> HIDE DEF old
<1>6. /\ cmd' \in [Cmds -> Cli!Command]
      /\ \A d \in Cmds : Formed(cmd'[d]) /\ Undisturbed(d)'
  BY <1>1, <1>2, <1>5, MoveInv DEF old
<1>7. RemovedInv'
  <2>1. removed' \subseteq Users /\ \A u \in removed' : u \in removed /\ Cli!Own(u) \notin bindings' /\ Dropped(u)'
    BY <1>1 DEF CliInv, Cli!TypeOK, RemovedInv, Dropped
  <2> QED
    BY <1>2, <1>5, <2>1, RemovedStep DEF old
<1>8. LinesInv'
  BY <1>1 DEF CliInv, LinesInv, Cli!Of
<1>9. Cli!TypeOK'
  BY <1>1, <1>6 DEF CliInv, Cli!TypeOK
<1> QED
  BY <1>6, <1>7, <1>8, <1>9 DEF CliInv

\* After the user comes his ClusterRoleBinding, or the end.
LEMMA AfterUserMoves ==
  ASSUME NEW k \in Cli!Command, k.pc # "idle", Formed(k)
  PROVE  LET n == Cli!AfterUser(k)
         IN /\ n \in Cli!Command /\ Formed(n) /\ Follows(n, k)
            /\ n.pc # "idle" => n.pc = "unbind" /\ n.user = k.user /\ n.op = k.op
<1> DEFINE n == [k EXCEPT !.pc = "unbind"]
<1>1. Placed(n, k, "unbind") /\ n.clean = k.clean
  BY CommandMoves
<1>2. Cli!AfterUser(k) = n \/ Cli!AfterUser(k) = Cli!Idle
  BY DEF Cli!AfterUser
<1> HIDE DEF n
<1>3. n \in Cli!Command /\ Formed(n) /\ Follows(n, k)
  BY <1>1 DEF Placed, Formed, Follows
<1>4. Cli!Idle \in Cli!Command /\ Formed(Cli!Idle) /\ Follows(Cli!Idle, k) /\ Cli!Idle.pc = "idle"
  BY IdleTypes DEF Follows
<1> QED
  BY <1>1, <1>2, <1>3, <1>4 DEF Placed

\* The Secret is written back: the user's line is what the command says, and the
\* other lines are as they were if they were read as they were.
LEMMA ApplyInv ==
  ASSUME CliInv, NEW c \in Cmds, Cli!applyHtpasswdSecret(c)
  PROVE  CliInv'
<1> DEFINE old == cmd[c]
           now == IF secret = None THEN {} ELSE secret
           given == IF old.op = "add" THEN old.password ELSE "deleted"
           new == Cli!Updated(old)
<1>1. /\ old.pc = "apply" /\ secret' = new /\ unseen' = TRUE
      /\ wanted' = [wanted EXCEPT ![old.user] = given]
      /\ lost' = (IF old.lines = now THEN lost ELSE Users) \ {old.user}
      /\ cmd' = [cmd EXCEPT ![c] = Cli!AfterUser(old)]
      /\ UNCHANGED <<cliMode, store, bindings, provider, started, removed>>
  BY DEF Cli!applyHtpasswdSecret, Cli!At, Cli!Move
<1>2. /\ old \in Cli!Command /\ Formed(old) /\ Undisturbed(c) /\ old.user \in Users
      /\ (old.op = "add" => old.password \in Passwords)
  BY <1>1, Busy
<1>3. PICK k \in Cli!Command :
        /\ cmd' = [cmd EXCEPT ![c] = k] /\ Formed(k) /\ Follows(k, old)
        /\ k.pc # "idle" => k.pc = "unbind" /\ k.user = old.user /\ k.op = old.op
  BY <1>1, <1>2, AfterUserMoves
<1>4. old.op \in {"add", "delete"} /\ old.lines \in SUBSET (Users \X Passwords)
  BY <1>2, CommandTypes
<1>5. /\ new \in SUBSET (Users \X Passwords)
      /\ Cli!Of(new, old.user) = IF old.op = "add" THEN {<<old.user, old.password>>} ELSE {}
      /\ \A u \in Users : u # old.user => Cli!Of(new, u) = Cli!Of(old.lines, u)
  BY <1>2, <1>4 DEF Cli!Updated, Cli!Of
<1>6. given \in Passwords \cup {"deleted"} /\ (given = "deleted" <=> old.op = "delete")
      /\ (old.op = "add" => given = old.password) /\ given # None
  BY <1>2, <1>4, UserCliAssumption
<1>7. wanted \in [Users -> Passwords \cup {"deleted", None}] /\ new # None
  BY <1>5, UserCliAssumption DEF CliInv, Cli!TypeOK
<1> HIDE DEF old, given, new
<1>8. /\ wanted' \in [Users -> Passwords \cup {"deleted", None}] /\ wanted'[old.user] = given
      /\ \A u \in Users : u # old.user => wanted'[u] = wanted[u]
  BY <1>1, <1>2, <1>6, <1>7
<1>9. LinesInv'
  <2>1. ASSUME NEW u \in Users, wanted'[u] # None, u \notin lost'
        PROVE  Cli!Of(new, u) = IF wanted'[u] = "deleted" THEN {} ELSE {<<u, wanted'[u]>>}
    <3>1. CASE u = old.user
      BY <1>4, <1>5, <1>6, <1>8, <3>1
    <3>2. CASE u # old.user
      <4>1. old.lines = now /\ u \notin lost /\ wanted'[u] = wanted[u]
        BY <1>1, <1>8, <2>1, <3>2
      <4>2. now = secret /\ Cli!Of(secret, u) = IF wanted[u] = "deleted" THEN {} ELSE {<<u, wanted[u]>>}
        BY <2>1, <4>1 DEF CliInv, LinesInv
      <4> QED
        BY <1>5, <3>2, <4>1, <4>2
    <3> QED
      BY <3>1, <3>2
  <2>2. \A u \in Users : Cli!Of(secret, u)' = Cli!Of(new, u)
    BY <1>1 DEF Cli!Of
  <2> QED
    BY <1>1, <1>7, <2>1, <2>2 DEF LinesInv
<1>10. Proper(k)
  <2> SUFFICES ASSUME k.pc # "idle", k.clean, k.op = "delete"
               PROVE  Dropped(k.user)'
    BY <1>3 DEF Proper
  <2>1. old.clean /\ old.pc # "idle"
    BY <1>1, <1>3, IdleTypes DEF Follows
  <2>2. cliMode # "byoidc"
    BY <1>1, <1>2, <2>1 DEF Undisturbed, old
  <2>3. k.user = old.user /\ wanted'[old.user] = "deleted" /\ cliMode' # "byoidc"
    <3>1. k.user = old.user /\ old.op = "delete"
      BY <1>3
    <3>2. given = "deleted"
      BY <1>6, <3>1
    <3>3. cliMode' = cliMode
      BY <1>1
    <3> QED
      BY <1>8, <2>2, <3>1, <3>2, <3>3
  <2> QED
    BY <2>3 DEF Dropped
<1>11. /\ cmd' \in [Cmds -> Cli!Command]
       /\ \A d \in Cmds : Formed(cmd'[d]) /\ Undisturbed(d)'
  BY <1>1, <1>3, <1>8, <1>10, MoveInv DEF old
<1>12. RemovedInv'
  <2>1. ASSUME NEW u \in removed
        PROVE  Cli!Own(u) \notin bindings' /\ Dropped(u)'
    <3>1. u \in Users /\ Cli!Own(u) \notin bindings /\ Dropped(u) /\ (old.user = u => old.op = "delete")
      BY DEF CliInv, Cli!TypeOK, RemovedInv, old
    <3> QED
      BY <1>1, <1>6, <1>8, <3>1 DEF Dropped
  <2>2. removed' = removed /\ removed \subseteq Users
    BY <1>1 DEF CliInv, Cli!TypeOK
  <2> QED
    BY <1>1, <1>3, <2>1, <2>2, RemovedStep DEF old
<1>13. Cli!TypeOK'
  <2>1. lost' \subseteq Users
    BY <1>1 DEF CliInv, Cli!TypeOK
  <2> QED
    BY <1>1, <1>5, <1>8, <1>11, <2>1 DEF CliInv, Cli!TypeOK, Cli!Lines
<1> QED
  BY <1>9, <1>11, <1>12, <1>13 DEF CliInv

\* The provider adds a user it does not have, or deletes the one with the id.
LEMMA ProviderInv ==
  ASSUME CliInv, NEW c \in Cmds, Cli!entraMockAddUser(c) \/ Cli!entraMockDeleteUser(c)
  PROVE  CliInv'
<1> DEFINE old == cmd[c]
<1>1. /\ old.pc \in {"post", "remove"}
      /\ UNCHANGED <<cliMode, secret, store, unseen, bindings, started, wanted, lost, removed>>
  BY DEF Cli!entraMockAddUser, Cli!entraMockDeleteUser, Cli!At, Cli!history
<1>2. /\ old \in Cli!Command /\ Formed(old) /\ Undisturbed(c) /\ old.user \in Users
      /\ old.pc = "post" => old.op = "add"
      /\ old.pc = "remove" => old.op = "delete"
      /\ old.seq \in 0 .. MaxCommands + 1
  <2>1. old \in Cli!Command /\ Formed(old) /\ Undisturbed(c) /\ old.user \in Users
    BY <1>1, Busy
  <2>2. old.seq \in 0 .. MaxCommands
    BY <2>1, CommandTypes
  <2> QED
    BY <2>1, <2>2, UserCliAssumption DEF Formed
<1> DEFINE n == Cli!AfterUser(old)
<1>3. /\ n \in Cli!Command /\ Formed(n) /\ Follows(n, old)
      /\ n.pc # "idle" => n.pc = "unbind" /\ n.user = old.user /\ n.op = old.op
  BY <1>1, <1>2, AfterUserMoves
<1>4. PICK id \in 0 .. MaxCommands + 1, k \in {n, Cli!Idle} :
        /\ provider' = [provider EXCEPT ![old.user] = id] /\ cmd' = [cmd EXCEPT ![c] = k]
        /\ old.pc = "remove" => id = IF provider[old.user] = old.id THEN 0 ELSE provider[old.user]
  <2>0. provider \in [Users -> 0 .. MaxCommands + 1] /\ 0 \in 0 .. MaxCommands + 1
    BY UserCliAssumption DEF CliInv, Cli!TypeOK
  <2> HIDE DEF n
  <2>1. CASE Cli!entraMockAddUser(c)
    <3>1. old.pc = "post"
      BY <2>1 DEF Cli!entraMockAddUser, Cli!At
    <3>2. CASE provider[old.user] = 0
      BY <1>2, <2>1, <3>1, <3>2 DEF Cli!entraMockAddUser, Cli!Move, n
    <3>3. CASE provider[old.user] # 0
      <4>1. provider' = [provider EXCEPT ![old.user] = provider[old.user]]
        BY <1>2, <2>0, <2>1, <3>3 DEF Cli!entraMockAddUser
      <4> QED
        BY <1>2, <2>0, <2>1, <3>1, <3>3, <4>1 DEF Cli!entraMockAddUser, Cli!Move, Cli!End
    <3> QED
      BY <3>2, <3>3
  <2>2. CASE Cli!entraMockDeleteUser(c)
    BY <1>2, <2>0, <2>2 DEF Cli!entraMockDeleteUser, Cli!Move, n
  <2> QED
    BY <2>1, <2>2
<1> HIDE DEF n
<1>5. /\ k \in Cli!Command /\ Formed(k) /\ Follows(k, old)
      /\ k.pc # "idle" => k.pc = "unbind" /\ k.user = old.user /\ k.op = old.op
  BY <1>3, IdleTypes DEF Follows
<1>6. /\ provider' \in [Users -> 0 .. MaxCommands + 1] /\ provider'[old.user] = id
      /\ \A u \in Users : u # old.user => provider'[u] = provider[u]
  BY <1>2, <1>4 DEF CliInv, Cli!TypeOK
<1> HIDE DEF old
<1>7. Proper(k)
  <2> SUFFICES ASSUME k.pc # "idle", k.clean, k.op = "delete"
               PROVE  Dropped(k.user)'
    BY <1>5 DEF Proper
  <2>1. old.pc = "remove" /\ old.clean /\ old.pc # "idle"
    BY <1>1, <1>2, <1>5, IdleTypes DEF Follows
  <2>2. cliMode = "byoidc" /\ old.id = provider[old.user]
    BY <1>2, <2>1 DEF Undisturbed, old
  <2> QED
    BY <1>1, <1>4, <1>5, <1>6, <2>1, <2>2 DEF Dropped
<1>8. /\ cmd' \in [Cmds -> Cli!Command]
      /\ \A d \in Cmds : Formed(cmd'[d]) /\ Undisturbed(d)'
  BY <1>1, <1>4, <1>5, <1>6, <1>7, MoveInv DEF old
<1>9. RemovedInv'
  <2>1. ASSUME NEW u \in removed
        PROVE  Cli!Own(u) \notin bindings' /\ Dropped(u)'
    <3>1. u \in Users /\ Cli!Own(u) \notin bindings /\ Dropped(u) /\ (old.user = u => old.op = "delete")
      BY DEF CliInv, Cli!TypeOK, RemovedInv, old
    <3>2. old.user = u => old.pc = "remove"
      BY <1>1, <1>2, <3>1
    <3> QED
      BY <1>1, <1>4, <1>6, <3>1, <3>2 DEF Dropped
  <2>2. removed' = removed /\ removed \subseteq Users
    BY <1>1 DEF CliInv, Cli!TypeOK
  <2> QED
    BY <1>1, <1>4, <1>5, <2>1, <2>2, RemovedStep DEF old
<1>10. LinesInv'
  BY <1>1 DEF CliInv, LinesInv, Cli!Of
<1>11. Cli!TypeOK'
  BY <1>1, <1>6, <1>8 DEF CliInv, Cli!TypeOK
<1> QED
  BY <1>8, <1>9, <1>10, <1>11 DEF CliInv

\* The ClusterRoleBinding goes, and comes if the command is to add one.
LEMMA BindingInv ==
  ASSUME CliInv, NEW c \in Cmds, Cli!Unbind(c) \/ Cli!Bind(c)
  PROVE  CliInv'
<1> DEFINE old == cmd[c]
           n == [old EXCEPT !.pc = "bind"]
<1>1. /\ old.pc \in {"unbind", "bind"}
      /\ UNCHANGED <<cliMode, secret, store, unseen, provider, started, wanted, lost>>
  BY DEF Cli!Unbind, Cli!Bind, Cli!At, Cli!history
<1>2. /\ old \in Cli!Command /\ Formed(old) /\ Undisturbed(c) /\ old.user \in Users
      /\ old.op \in {"add", "delete"}
  BY <1>1, Busy, CommandTypes
<1>3. PICK k \in {n, Cli!Idle} :
        /\ cmd' = [cmd EXCEPT ![c] = k]
        /\ old.op = "delete" => k = Cli!Idle
        /\ \/ removed' = removed /\ bindings' \in {bindings, bindings \ {Cli!Own(old.user)}}
           \/ /\ removed' = removed \cup {old.user} /\ bindings' = bindings \ {Cli!Own(old.user)}
              /\ old.op = "delete" /\ old.clean /\ old.pc = "unbind"
           \/ removed' = removed /\ bindings' = bindings \cup {Cli!Own(old.user)} /\ old.pc = "bind"
  <2>1. CASE Cli!Unbind(c)
    BY <1>2, <2>1 DEF Cli!Unbind, Cli!At, Cli!End, Cli!To, Cli!Move
  <2>2. CASE Cli!Bind(c)
    BY <2>2 DEF Cli!Bind, Cli!At, Cli!End, Cli!Move, Cli!history
  <2> QED
    BY <2>1, <2>2
<1>4. Placed(n, old, "bind") /\ n.clean = old.clean
  BY <1>2, CommandMoves
<1> HIDE DEF n, old
<1>5. k \in Cli!Command /\ Formed(k) /\ Follows(k, old) /\ Proper(k)
  <2>1. CASE k = Cli!Idle
    BY <2>1, IdleTypes DEF Follows, Proper
  <2>2. CASE k = n /\ k # Cli!Idle
    <3>1. old.op = "add"
      BY <1>2, <1>3, <2>2
    <3> QED
      BY <1>1, <1>2, <1>4, <2>2, <3>1 DEF Placed, Formed, Follows, Proper
  <2> QED
    BY <1>3, <2>1, <2>2
<1>6. /\ cmd' \in [Cmds -> Cli!Command]
      /\ \A d \in Cmds : Formed(cmd'[d]) /\ Undisturbed(d)'
  BY <1>1, <1>3, <1>5, MoveInv DEF old
<1>7. \A u \in removed' : u \in removed \/ (u = old.user /\ old.clean /\ k = Cli!Idle)
  BY <1>3
<1>8. ASSUME NEW u \in removed'
      PROVE  u \in Users /\ Cli!Own(u) \notin bindings' /\ Dropped(u)'
  <2>1. Dropped(u)' <=> Dropped(u)
    BY <1>1 DEF Dropped
  <2>2. CASE u \in removed
    <3>1. u \in Users /\ Cli!Own(u) \notin bindings /\ Dropped(u) /\ (old.user = u => old.op = "delete")
      BY <2>2 DEF CliInv, Cli!TypeOK, RemovedInv, old
    <3>2. old.pc = "bind" => old.user # u
      BY <1>2, <3>1 DEF Formed
    <3>3. old.user # u => Cli!Own(old.user) # Cli!Own(u)
      BY DEF Cli!Own
    <3> QED
      BY <1>3, <2>1, <3>1, <3>2, <3>3
  <2>3. CASE u \notin removed
    <3>1. u = old.user /\ bindings' = bindings \ {Cli!Own(u)} /\ old.clean /\ old.pc = "unbind" /\ old.op = "delete"
      BY <1>3, <2>3
    <3>2. Dropped(u)
      BY <1>2, <3>1 DEF Undisturbed, old
    <3> QED
      BY <1>2, <2>1, <3>1, <3>2
  <2> QED
    BY <2>2, <2>3
<1>9. RemovedInv'
  BY <1>1, <1>3, <1>5, <1>7, <1>8, RemovedStep DEF old
<1>10. LinesInv'
  BY <1>1 DEF CliInv, LinesInv, Cli!Of
<1>11. Cli!TypeOK'
  <2>1. bindings' \subseteq Cli!Bindings /\ removed' \subseteq Users
    BY <1>2, <1>3 DEF CliInv, Cli!TypeOK, Cli!Bindings, Cli!Own
  <2> QED
    BY <1>1, <1>6, <2>1 DEF CliInv, Cli!TypeOK
<1> QED
  BY <1>6, <1>9, <1>10, <1>11 DEF CliInv

\* A command begins.  Commands that are about its user already count as disturbed
\* from now on, and so does the new one if there are any.
LEMMA BeginInv ==
  ASSUME CliInv, NEW c \in Cmds, NEW in \in Inputs, Cli!Begin(c, in)
  PROVE  CliInv'
<1> DEFINE others == {d \in Cmds : cmd[d].user = in.user}
           new == [Cli!Idle EXCEPT !.pc = "mode", !.op = in.op, !.user = in.user, !.password = in.password,
                                   !.admin = in.admin, !.seq = started + 1, !.clean = (others = {})]
           kept(d) == [cmd[d] EXCEPT !.clean = @ /\ d \notin others]
<1>1. /\ started < MaxCommands /\ started' = started + 1
      /\ cmd[c] = Cli!Idle
      /\ cmd' = [d \in Cmds |-> IF d = c THEN new ELSE kept(d)]
      /\ removed' = IF in.op = "add" THEN removed \ {in.user} ELSE removed
      /\ UNCHANGED <<cliMode, secret, store, unseen, bindings, provider, wanted, lost>>
  BY DEF Cli!Begin, Cli!cluster
<1>2. /\ in \in [op : {"add", "delete"}, user : Users, password : Passwords \cup {None}, admin : BOOLEAN]
      /\ in.op = "add" => in.password \in Passwords
  BY UserCliAssumption
<1>3. /\ in.op \in {"add", "delete"} /\ in.user \in Users /\ in.password \in Passwords \cup {None}
      /\ in.admin \in BOOLEAN
  BY <1>2
<1>4. started' \in 0 .. MaxCommands
  <2>1. started \in 0 .. MaxCommands
    BY DEF CliInv, Cli!TypeOK
  <2>2. MaxCommands \in Nat
    BY UserCliAssumption
  <2>3. started < MaxCommands /\ started' = started + 1
    BY DEF Cli!Begin
  <2> QED
    BY <2>1, <2>2, <2>3
<1>5. /\ new \in Cli!Command /\ new.pc = "mode" /\ new.user = in.user /\ new.op = in.op
      /\ new.password = in.password /\ new.clean = (others = {})
  <2>1. Cli!Idle \in Cli!Command /\ started + 1 \in 0 .. MaxCommands /\ (others = {}) \in BOOLEAN
    BY <1>1, <1>4, IdleTypes
  <2> HIDE DEF others
  <2> QED
    BY <1>3, <2>1 DEF Cli!Command
<1>6. ASSUME NEW d \in Cmds
      PROVE  /\ kept(d) \in Cli!Command /\ kept(d).clean = (cmd[d].clean /\ d \notin others)
             /\ kept(d).pc = cmd[d].pc /\ kept(d).user = cmd[d].user /\ kept(d).op = cmd[d].op
             /\ kept(d).password = cmd[d].password /\ kept(d).id = cmd[d].id
             /\ d \notin others => kept(d) = cmd[d]
  <2> DEFINE old == cmd[d]
             b == d \notin others
  <2>1. old \in Cli!Command
    BY DEF CliInv, Cli!TypeOK
  <2>2. old.clean \in BOOLEAN
    BY <2>1, CommandTypes
  <2>3. b \in BOOLEAN
    OBVIOUS
  <2> HIDE DEF old, b
  <2> DEFINE k == [old EXCEPT !.clean = old.clean /\ b]
  <2>4. (old.clean /\ b) \in BOOLEAN
    BY <2>2, <2>3
  <2>5. /\ k \in Cli!Command /\ k.clean = (old.clean /\ b)
        /\ k.pc = old.pc /\ k.user = old.user /\ k.op = old.op
        /\ k.password = old.password /\ k.id = old.id
    BY <2>1, <2>4 DEF Cli!Command
  <2>6. b => k = old
    BY <2>1, <2>2 DEF Cli!Command
  <2> QED
    BY <2>5, <2>6 DEF old, b
<1> HIDE DEF new, kept
<1>7. /\ cmd' \in [Cmds -> Cli!Command] /\ cmd'[c] = new
      /\ \A d \in Cmds : d # c => cmd'[d] = kept(d)
  BY <1>1, <1>5, <1>6
<1>8. \A d \in Cmds : Formed(cmd[d]) /\ Undisturbed(d)
  BY DEF CliInv
<1>9. ASSUME NEW d \in Cmds
      PROVE  Formed(cmd'[d])
  <2>1. CASE d = c
    BY <1>2, <1>3, <1>5, <1>7, <2>1 DEF Formed
  <2>2. CASE d # c
    <3>1. cmd[d].pc = "idle" => kept(d) = cmd[d]
      <4>1. cmd[d].pc = "idle" => cmd[d].user = None
        BY <1>8, IdleTypes DEF Formed
      <4> QED
        BY <1>3, <1>6, <4>1, UserCliAssumption
    <3> QED
      BY <1>6, <1>7, <1>8, <2>2, <3>1 DEF Formed
  <2> QED
    BY <2>1, <2>2
<1>10. ASSUME NEW d \in Cmds, cmd'[d].pc # "idle", cmd'[d].clean
       PROVE  Undisturbed(d)'
  <2>1. CASE d = c
    <3>0. others = {}
      BY <1>5, <1>7, <1>10, <2>1
    <3>1. \A e \in Cmds : e # c => cmd'[e].user # in.user
      <4> SUFFICES ASSUME NEW e \in Cmds, e # c PROVE cmd'[e].user # in.user
        OBVIOUS
      <4>1. cmd'[e].user = cmd[e].user
        BY <1>6, <1>7
      <4> QED
        BY <3>0, <4>1
    <3> QED
      BY <1>5, <1>7, <2>1, <3>1 DEF Undisturbed
  <2>2. CASE d # c
    <3>1. d \notin others /\ cmd'[d] = cmd[d] /\ cmd[d].user # in.user
      BY <1>6, <1>7, <1>10, <2>2
    <3>2. \A e \in Cmds : e # d => cmd'[e].user # cmd[d].user
      BY <1>5, <1>6, <1>7, <1>8, <1>10, <3>1 DEF Undisturbed
    <3> QED
      BY <1>1, <1>8, <1>10, <3>1, <3>2 DEF Undisturbed, Dropped
  <2> QED
    BY <2>1, <2>2
<1>11. \A d \in Cmds : Undisturbed(d)'
  BY <1>10 DEF Undisturbed
<1>12. RemovedInv'
  <2>1. \A u \in removed' : u \in removed /\ (u = in.user => in.op = "delete")
    BY <1>1, <1>3
  <2>2. \A u \in removed' : Cli!Own(u) \notin bindings' /\ Dropped(u)'
    BY <1>1, <2>1 DEF CliInv, RemovedInv, Dropped
  <2>3. ASSUME NEW u \in removed', NEW d \in Cmds, cmd'[d].user = u
        PROVE  cmd'[d].op = "delete"
    BY <1>5, <1>6, <1>7, <2>1, <2>3 DEF CliInv, RemovedInv
  <2> QED
    BY <2>2, <2>3 DEF RemovedInv
<1>13. LinesInv'
  BY <1>1 DEF CliInv, LinesInv, Cli!Of
<1>14. Cli!TypeOK'
  BY <1>1, <1>4, <1>7 DEF CliInv, Cli!TypeOK
<1> QED
  BY <1>9, <1>11, <1>12, <1>13, <1>14 DEF CliInv

\* The server takes the Secret, or starts again with the users of the cluster's
\* creation.
LEMMA ServerInv ==
  ASSUME CliInv, Cli!watch_htpasswd_secret \/ Cli!Restart
  PROVE  CliInv'
<1>1. UNCHANGED <<cliMode, secret, bindings, provider, cmd, started, wanted, lost, removed>>
  BY DEF Cli!watch_htpasswd_secret, Cli!Restart, Cli!history
<1>2. /\ unseen' \in BOOLEAN /\ store' \in SUBSET (Users \X Passwords)
      /\ unseen' => secret # None
      /\ ~unseen' /\ secret # None => store' = secret
  <2>1. CASE Cli!watch_htpasswd_secret
    BY <2>1 DEF Cli!watch_htpasswd_secret, CliInv, LinesInv, Cli!TypeOK, Cli!Lines
  <2>2. CASE Cli!Restart
    BY <2>2, UserCliAssumption DEF Cli!Restart
  <2> QED
    BY <2>1, <2>2
<1>3. Cli!TypeOK'
  BY <1>1, <1>2 DEF CliInv, Cli!TypeOK, Cli!Lines
<1>4. LinesInv'
  BY <1>1, <1>2 DEF CliInv, LinesInv, Cli!Of
<1>5. RemovedInv' /\ \A c \in Cmds : Formed(cmd'[c]) /\ Undisturbed(c)'
  BY <1>1 DEF CliInv, RemovedInv, Undisturbed, Dropped
<1> QED
  BY <1>3, <1>4, <1>5 DEF CliInv

\* Every step of the commands and of the server keeps the invariant, however
\* many commands run at once.
THEOREM CliInductive == Cli!Spec => []CliInv
<1>1. Cli!Init => CliInv
  <2> SUFFICES ASSUME Cli!Init PROVE CliInv
    OBVIOUS
  <2>1. cmd \in [Cmds -> Cli!Command] /\ \A c \in Cmds : cmd[c] = Cli!Idle
    BY IdleTypes DEF Cli!Init
  <2>2. provider \in [Users -> 0 .. MaxCommands + 1]
    <3>1. 0 \in 0 .. MaxCommands + 1 /\ MaxCommands + 1 \in 0 .. MaxCommands + 1
      BY UserCliAssumption
    <3> QED
      BY <3>1 DEF Cli!Init
  <2>3. Cli!TypeOK
    BY <2>1, <2>2, UserCliAssumption DEF Cli!Init, Cli!TypeOK, Cli!Lines, Cli!Bindings
  <2>4. LinesInv /\ RemovedInv
    BY DEF Cli!Init, LinesInv, RemovedInv
  <2>5. \A c \in Cmds : Formed(cmd[c]) /\ Undisturbed(c)
    BY <2>1, IdleTypes DEF Undisturbed
  <2> QED
    BY <2>3, <2>4, <2>5 DEF CliInv
<1>2. CliInv /\ [Cli!Next]_(Cli!vars) => CliInv'
  <2> SUFFICES ASSUME CliInv, [Cli!Next]_(Cli!vars) PROVE CliInv'
    OBVIOUS
  <2>1. ASSUME NEW c \in Cmds, NEW in \in Inputs, Cli!Begin(c, in)
        PROVE  CliInv'
    BY <2>1, BeginInv
  <2>2. ASSUME NEW c \in Cmds, CommandStep(c)
        PROVE  CliInv'
    BY <2>2, ReadInv, ApplyInv, ProviderInv, BindingInv DEF CommandStep
  <2>3. CASE Cli!watch_htpasswd_secret \/ Cli!Restart
    BY <2>3, ServerInv
  <2>4. CASE UNCHANGED Cli!vars
    <3>1. UNCHANGED <<cliMode, secret, store, unseen, bindings, provider, cmd, started, wanted, lost, removed>>
      BY <2>4 DEF Cli!vars, Cli!cluster, Cli!history
    <3> QED
      BY <3>1 DEF CliInv, Cli!TypeOK, LinesInv, RemovedInv, Undisturbed, Dropped, Cli!Of
  <2> QED
    BY <2>1, <2>2, <2>3, <2>4 DEF Cli!Next, CommandStep
<1> QED
  BY <1>1, <1>2, PTL DEF Cli!Spec

\* htpasswdAddUser, htpasswdDeleteUser, the watcher and authenticate: with any
\* number of commands at once, a user logs in with the password the latest of them
\* gave him and no other, unless a line was written back unread.
THEOREM LatestPasswords == Cli!Spec => []LatestPasswordOnly
<1>1. CliInv => LatestPasswordOnly
  BY DEF CliInv, LinesInv, LatestPasswordOnly, Cli!LatestPasswordOnly
<1> QED
  BY <1>1, CliInductive, PTL

\* newUserDeleteCmd: the ClusterRoleBinding and the login that an undisturbed delete
\* took away do not come back.
THEOREM DeletesLast == Cli!Spec => []DeleteLasts
<1>1. CliInv => DeleteLasts
  <2> SUFFICES ASSUME CliInv, NEW u \in removed
               PROVE  /\ Cli!Own(u) \notin bindings
                      /\ cliMode = "byoidc" => provider[u] = 0
                      /\ cliMode # "byoidc" /\ u \notin lost /\ ~unseen => Cli!Of(store, u) = {}
    BY DEF DeleteLasts, Cli!DeleteLasts
  <2>1. u \in Users /\ Cli!Own(u) \notin bindings /\ Dropped(u)
    BY DEF CliInv, RemovedInv, Cli!TypeOK
  <2>2. ASSUME cliMode # "byoidc", u \notin lost, ~unseen
        PROVE  Cli!Of(store, u) = {}
    BY <2>1, <2>2, UserCliAssumption DEF CliInv, LinesInv, Dropped
  <2> QED
    BY <2>1, <2>2 DEF Dropped
<1> QED
  BY <1>1, CliInductive, PTL
==============================================================================
