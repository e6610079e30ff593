------------------------------- MODULE Gateway --------------------------------
(***************************************************************************)
(* The built-in Gateway API controller (simulator/src/gateway.rs): four    *)
(* controllers, for GatewayClasses, Gateways, HTTPRoutes and               *)
(* DestinationRules, that create the Envoy objects of a Gateway and write  *)
(* the one ConfigMap, envoy-xds-config, that Envoy is configured from.     *)
(*                                                                         *)
(* Reconciles of one object follow each other; reconciles of two objects   *)
(* interleave at every API call.  All Gateways are in openshift-ingress.   *)
(* The prefixes of HTTPRoute rules are nested in one another, so that a    *)
(* prefix is its length.  A backend is a Service with its port, and is     *)
(* the name of its Envoy cluster.                                          *)
(***************************************************************************)
EXTENDS Naturals, FiniteSets, SequencesExt

CONSTANTS
  Classes,
  Gateways,
  MainGateway,   \* GATEWAY_NAME, the one HTTPRoutes refer to
  HttpRouteList, \* the names of HTTPRoutes, in the order the API server lists them
  DestRules,
  Hosts,
  Backends,
  Port,          \* the port of a backend
  RuleLists,     \* the rules an HTTPRoute can have
  Populations,   \* sets of objects that are looked at together
  ApiMayFail,    \* whether an API call may fail for no visible reason
  MayDelete,     \* whether objects are deleted
  MaxWrites,     \* bound: objects created, edited or deleted
  None

HttpRoutes == Range(HttpRouteList)
Objects == Classes \cup Gateways \cup HttpRoutes \cup DestRules
Ports == {Port[b] : b \in Backends}
Rule == [prefix : Nat, backends : Seq(Backends)]

ASSUME GatewayAssumption ==
  /\ MainGateway \in Gateways
  /\ HttpRouteList \in Seq(HttpRoutes) /\ IsInjective(HttpRouteList)
  /\ Classes \cap (Gateways \cup HttpRoutes \cup DestRules) = {}
  /\ Gateways \cap (HttpRoutes \cup DestRules) = {} /\ HttpRoutes \cap DestRules = {}
  /\ DOMAIN Port = Backends
  /\ RuleLists \subseteq Seq(Rule)
  /\ Populations \subseteq SUBSET Objects /\ Populations # {}
  /\ ApiMayFail \in BOOLEAN /\ MayDelete \in BOOLEAN /\ MaxWrites \in Nat
  /\ None \notin Hosts \cup Objects

VARIABLES
  obj,      \* cluster: GatewayClasses, Gateways, HTTPRoutes, DestinationRules
  infra,    \* cluster: the Envoy objects that exist
  xds,      \* cluster: the data of envoy-xds-config
  unseen,   \* objects that changed since their controller last looked
  cache,    \* what the controllers know of them
  pending,  \* objects queued for a reconcile
  job,      \* the running reconcile of each object
  writes,   \* how often the cluster's users wrote
  names     \* the objects that exist at some time in this behaviour

vars == <<obj, infra, xds, unseen, cache, pending, job, writes, names>>

\* The versions of an object: `ours` is the controllerName of a class, the
\* gatewayClassName of a Gateway, the parentRef of an HTTPRoute.
Version(o) ==
  CASE o \in Classes    -> [live : {TRUE}, ours : BOOLEAN, accepted : BOOLEAN]
    [] o \in Gateways   -> [live : {TRUE}, ours : BOOLEAN, accepted : BOOLEAN, host : Hosts \cup {None}]
    [] o \in HttpRoutes -> [live : {TRUE}, ours : BOOLEAN, rules : RuleLists]
    [] o \in DestRules  -> [live : {TRUE}, tls : SUBSET Ports]
Absent == [live |-> FALSE]

\* What reconcile_gateway ensures, in its order; Deployment and Service carry
\* the name of the Gateway, the ConfigMaps do not.
Infra(g) == << <<"envoy-bootstrap">>, <<"envoy-xds-config">>, <<"deployment", g>>, <<"service", g>> >>

Steps == {"idle", "get", "create", "gateway", "routes", "rules", "patch", "accept"}
Job == [pc : Steps, step : 0..4, host : Hosts \cup {None}, accepted : BOOLEAN,
        rules : Seq(Rule), tls : SUBSET Ports]
Idle == [pc |-> "idle", step |-> 0, host |-> None, accepted |-> TRUE, rules |-> << >>, tls |-> {}]
Config == [host : Hosts \cup {None}, rds : Seq([prefix : Nat, cluster : Backends]),
           cds : SUBSET [cluster : Backends, tls : BOOLEAN], current : BOOLEAN]

ASSUME ConfigAssumption == None \notin Config

TypeOK ==
  /\ DOMAIN obj = Objects /\ DOMAIN cache = Objects
  /\ \A o \in Objects : obj[o] \in Version(o) \cup {Absent} /\ cache[o] \in Version(o) \cup {Absent}
  /\ infra \subseteq UNION {Range(Infra(g)) : g \in Gateways}
  /\ xds \in Config \cup {None}
  /\ xds # None <=> <<"envoy-xds-config">> \in infra
  /\ unseen \subseteq Objects /\ pending \subseteq Objects
  /\ job \in [Objects -> Job]
  /\ \A o \in Objects : job[o].pc \in {"get", "create"} => o \in Gateways /\ job[o].step # 0
  /\ writes \in 0..MaxWrites /\ names \in Populations

Init ==
  /\ obj = [o \in Objects |-> Absent]
  /\ infra = {} /\ xds = None
  /\ unseen = {} /\ pending = {}
  /\ cache = [o \in Objects |-> Absent]
  /\ job = [o \in Objects |-> Idle]
  /\ writes = 0 /\ names \in Populations

------------------------------------------------------------------------------
(***************************************************************************)
(* The configuration of Envoy.                                             *)
(***************************************************************************)
\* Rule i comes before rule j: longer prefixes first, otherwise as listed.
Before(rules, i, j) ==
  \/ rules[i].prefix > rules[j].prefix
  \/ rules[i].prefix = rules[j].prefix /\ i < j

\* The k-th of the rules with the indices in kept, in that order.
Nth(rules, kept, k) ==
  CHOOSE j \in kept : Cardinality({i \in kept : Before(rules, i, j)}) = k - 1

\* One route per rule that has a backend, to the first of its backends.
generate_rds_yaml_Unsorted(rules) ==
  LET routed == SelectSeq(rules, LAMBDA r : r.backends # << >>)
  IN [k \in DOMAIN routed |-> [prefix |-> routed[k].prefix, cluster |-> routed[k].backends[1]]]

\* The sort is stable, so rules without a backend may be left out before it.
generate_rds_yaml(rules) ==
  LET kept == {j \in DOMAIN rules : rules[j].backends # << >>}
  IN [k \in 1 .. Cardinality(kept) |->
       LET r == rules[Nth(rules, kept, k)] IN [prefix |-> r.prefix, cluster |-> r.backends[1]]]

\* One cluster per backend.
generate_cds_yaml(rules, tls) ==
  {[cluster |-> b, tls |-> Port[b] \in tls] : b \in UNION {Range(rules[i].backends) : i \in DOMAIN rules}}

\* What is written into the ConfigMap.  `current` is history: whether the rules
\* were those of the HTTPRoutes when it was written.
Generate(host, rules, tls, current) ==
  [host |-> host, rds |-> generate_rds_yaml(rules), cds |-> generate_cds_yaml(rules, tls),
   current |-> current]

\* The rules of all HTTPRoutes that refer to MainGateway.
AllRules ==
  FlattenSeq([k \in DOMAIN HttpRouteList |->
    LET v == obj[HttpRouteList[k]] IN IF v.live /\ v.ours THEN v.rules ELSE << >>])

TlsPorts == UNION {obj[d].tls : d \in {d \in DestRules : obj[d].live}}

------------------------------------------------------------------------------
(***************************************************************************)
(* The reconciles.  Each starts from the cached object.                    *)
(***************************************************************************)
Observe(o) ==
  /\ o \in unseen
  /\ unseen' = unseen \ {o}
  /\ cache' = [cache EXCEPT ![o] = obj[o]]
  /\ pending' = IF obj[o].live THEN pending \cup {o} ELSE pending
  /\ UNCHANGED <<obj, infra, xds, job, writes, names>>

Start(o, j) ==
  /\ o \in pending /\ job[o] = Idle
  /\ pending' = pending \ {o}
  /\ job' = [job EXCEPT ![o] = IF cache[o].live THEN j ELSE Idle]
  /\ UNCHANGED <<obj, infra, xds, unseen, cache, writes, names>>

reconcile_gateway_class(c) ==
  Start(c, IF cache[c].ours /\ ~cache[c].accepted
             THEN [Idle EXCEPT !.pc = "accept", !.accepted = FALSE] ELSE Idle)

reconcile_gateway(g) ==
  Start(g, IF cache[g].ours
             THEN [Idle EXCEPT !.pc = "get", !.step = 1, !.host = cache[g].host,
                               !.accepted = cache[g].accepted]
             ELSE Idle)

reconcile_httproute_AcceptedOnly(x) ==
  Start(x, IF cache[x].ours /\ cache[MainGateway].live /\ cache[MainGateway].accepted
             THEN [Idle EXCEPT !.pc = "gateway"] ELSE Idle)

reconcile_httproute(x) ==
  Start(x, IF cache[x].ours THEN [Idle EXCEPT !.pc = "gateway"] ELSE Idle)

reconcile_destination_rule(d) == Start(d, [Idle EXCEPT !.pc = "gateway"])

Continue(o, j) ==
  /\ job' = [job EXCEPT ![o] = j]
  /\ UNCHANGED <<unseen, cache, pending>>

\* After a get that finds the object, or a create: the next one.
Ensured_SkipsService(j) == IF j.step >= 3 THEN [j EXCEPT !.pc = "routes"]
                           ELSE [j EXCEPT !.pc = "get", !.step = @ + 1]

Ensured(j) == IF j.step = 4 THEN [j EXCEPT !.pc = "routes"]
              ELSE [j EXCEPT !.pc = "get", !.step = @ + 1]

\* ensure_envoy_configmaps, ensure_envoy_deployment, ensure_envoy_service.
EnsureGet(g) ==
  /\ job[g].pc = "get"
  /\ Continue(g, IF Infra(g)[job[g].step] \in infra THEN Ensured(job[g])
                 ELSE [job[g] EXCEPT !.pc = "create"])
  /\ UNCHANGED <<obj, infra, xds, writes, names>>

EnsureCreate(g) ==
  LET e == Infra(g)[job[g].step]
  IN /\ job[g].pc = "create" /\ e \notin infra
     /\ infra' = infra \cup {e}
     /\ xds' = IF e = <<"envoy-xds-config">> THEN Generate(job[g].host, << >>, {}, AllRules = << >>) ELSE xds
     /\ Continue(g, Ensured(job[g]))
     /\ UNCHANGED <<obj, writes, names>>

\* reconcile_httproute and reconcile_destination_rule read the host.
ReadGateway(o) ==
  /\ job[o].pc = "gateway"
  /\ Continue(o, [job[o] EXCEPT !.pc = "routes",
                    !.host = IF obj[MainGateway].live THEN obj[MainGateway].host ELSE None])
  /\ UNCHANGED <<obj, infra, xds, writes, names>>

\* sync_httproute_config: two lists and a patch.
ListHttpRoutes(o) ==
  /\ job[o].pc = "routes"
  /\ Continue(o, [job[o] EXCEPT !.pc = "rules", !.rules = AllRules])
  /\ UNCHANGED <<obj, infra, xds, writes, names>>

\* If this list fails, no port is taken to be TLS.
ListDestinationRules(o) ==
  /\ job[o].pc = "rules"
  /\ \E tls \in {TlsPorts} \cup (IF ApiMayFail THEN {{}} ELSE {}) :
       Continue(o, [job[o] EXCEPT !.pc = "patch", !.tls = tls])
  /\ UNCHANGED <<obj, infra, xds, writes, names>>

PatchXds(o) ==
  /\ job[o].pc = "patch" /\ xds # None
  /\ xds' = Generate(job[o].host, job[o].rules, job[o].tls, job[o].rules = AllRules)
  /\ Continue(o, IF o \in Gateways /\ ~job[o].accepted THEN [job[o] EXCEPT !.pc = "accept"]
                 ELSE Idle)
  /\ UNCHANGED <<obj, infra, writes, names>>

\* The conditions of a class or a Gateway, with a merge patch.
PatchStatus(o) ==
  /\ job[o].pc = "accept" /\ obj[o].live
  /\ obj' = [obj EXCEPT ![o].accepted = TRUE]
  /\ unseen' = unseen \cup {o}
  /\ job' = [job EXCEPT ![o] = Idle]
  /\ UNCHANGED <<infra, xds, cache, pending, writes, names>>

\* error_policy: the reconcile starts again after 10 s.
error_policy_Forgets(o) ==
  /\ job' = [job EXCEPT ![o] = Idle]
  /\ UNCHANGED <<obj, infra, xds, unseen, cache, pending, writes, names>>

error_policy(o) ==
  /\ job' = [job EXCEPT ![o] = Idle]
  /\ pending' = pending \cup {o}
  /\ UNCHANGED <<obj, infra, xds, unseen, cache, writes, names>>

\* 409 for a create, 404 for a patch.
Refused(o) ==
  /\ \/ job[o].pc = "create" /\ Infra(o)[job[o].step] \in infra
     \/ job[o].pc = "patch" /\ xds = None
     \/ job[o].pc = "accept" /\ ~obj[o].live
  /\ error_policy(o)

ApiFails(o) ==
  /\ ApiMayFail /\ job[o].pc \notin {"idle", "rules"}
  /\ error_policy(o)

------------------------------------------------------------------------------
(***************************************************************************)
(* The cluster, and restarts.                                              *)
(***************************************************************************)
\* The status belongs to the controllers.
Write(o, v) ==
  /\ o \in names /\ writes < MaxWrites /\ writes' = writes + 1
  /\ obj' = [obj EXCEPT ![o] = v]
  /\ o \in Classes \cup Gateways => v.accepted = (obj[o].live /\ obj[o].accepted)
  /\ unseen' = unseen \cup {o}
  /\ UNCHANGED <<infra, xds, cache, pending, job, names>>

Delete(o) ==
  /\ MayDelete /\ obj[o].live
  /\ writes < MaxWrites /\ writes' = writes + 1
  /\ obj' = [obj EXCEPT ![o] = Absent]
  /\ unseen' = unseen \cup {o}
  /\ UNCHANGED <<infra, xds, cache, pending, job, names>>

Restart ==
  /\ unseen' = names
  /\ cache' = [o \in Objects |-> Absent]
  /\ pending' = {}
  /\ job' = [o \in Objects |-> Idle]
  /\ UNCHANGED <<obj, infra, xds, writes, names>>

Reconcile(o) ==
  \/ o \in Classes /\ reconcile_gateway_class(o)
  \/ o \in Gateways /\ reconcile_gateway(o)
  \/ o \in HttpRoutes /\ reconcile_httproute(o)
  \/ o \in DestRules /\ reconcile_destination_rule(o)

Call(o) ==
  \/ o \in Gateways /\ (EnsureGet(o) \/ EnsureCreate(o))
  \/ ReadGateway(o) \/ ListHttpRoutes(o) \/ ListDestinationRules(o)
  \/ PatchXds(o) \/ PatchStatus(o) \/ Refused(o)

\* The controllers and the users of the cluster; then what disturbs them.
Undisturbed ==
  \/ \E o \in Objects : Observe(o) \/ Reconcile(o) \/ Call(o) \/ Delete(o)
  \/ \E o \in Objects : \E v \in Version(o) : Write(o, v)

Next ==
  \/ Undisturbed
  \/ \E o \in Objects : ApiFails(o)
  \/ Restart

\* Watches deliver, queued reconciles start, API calls return.
Fairness ==
  \A o \in Objects : WF_vars(Observe(o)) /\ WF_vars(Reconcile(o)) /\ WF_vars(Call(o))

Spec == Init /\ [][Next]_vars
FairSpec == Spec /\ Fairness

------------------------------------------------------------------------------
(***************************************************************************)
(* Properties.                                                             *)
(***************************************************************************)
\* From some time on the process stays up, and no call fails but those that the
\* API server must refuse.
Calm == <>[][Undisturbed]_vars

\* reconcile_gateway: a Gateway is reported Accepted and Programmed only when its
\* ConfigMaps, Deployment and Service all exist, whatever failed or was created
\* by another Gateway's reconcile in between.
AcceptedMeansServed ==
  \A g \in Gateways : obj[g].live /\ obj[g].accepted => Range(Infra(g)) \subseteq infra

\* The routes of a configuration that a path of length p matches.
Matching(config, p) == {k \in DOMAIN config.rds : config.rds[k].prefix <= p}

\* generate_rds_yaml and generate_cds_yaml: Envoy takes the first route that
\* matches; for every path that is one with the longest matching prefix, and its
\* cluster is defined in the same configuration.
RoutesResolve ==
  xds # None => \A p \in {r.prefix : r \in UNION {Range(rs) : rs \in RuleLists}} :
    Matching(xds, p) # {} =>
      LET first == xds.rds[CHOOSE k \in Matching(xds, p) : \A l \in Matching(xds, p) : k <= l]
      IN /\ \A k \in Matching(xds, p) : xds.rds[k].prefix <= first.prefix
         /\ \E c \in xds.cds : c.cluster = first.cluster

\* reconcile_gateway_class and reconcile_gateway: a class or Gateway of this
\* controller is accepted, even if creates clash with those of another Gateway
\* and calls fail on the way.
EventuallyAccepted ==
  Calm => \A o \in Classes \cup Gateways :
    obj[o].live /\ obj[o].ours ~> ~obj[o].live \/ ~obj[o].ours \/ obj[o].accepted

\* x refers to the Gateway, with these rules.
Asks(x, rules) == obj[x].live /\ obj[x].ours /\ obj[x].rules = rules

\* Every rule that has a backend is a route of the configuration.
Routed(rules) ==
  xds # None /\ \A i \in DOMAIN rules : rules[i].backends # << >> =>
    [prefix |-> rules[i].prefix, cluster |-> rules[i].backends[1]] \in Range(xds.rds)

\* reconcile_httproute: once the ConfigMap exists, every change of an HTTPRoute
\* that refers to the Gateway gets into the configuration of Envoy and stays
\* there until the HTTPRoute is changed again, also when a call fails half way;
\* except while the configuration is one that another reconcile wrote last from
\* a list that was out of date by then, which nothing but the next change of some
\* object puts right.
EventuallyRouted ==
  Calm => \A x \in HttpRoutes, rules \in RuleLists :
    (x \in unseen /\ xds # None /\ Asks(x, rules))
      ~> (~Asks(x, rules) \/ [](Routed(rules) \/ (xds # None /\ ~xds.current)))
==============================================================================
