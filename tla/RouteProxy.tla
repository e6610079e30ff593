------------------------------ MODULE RouteProxy ------------------------------
(***************************************************************************)
(* Hostnames: the admission controller that stamps a host into the status  *)
(* of a Route (simulator/src/route.rs), and the table from hosts to        *)
(* backends that the reverse proxy builds from Route and HTTPRoute events  *)
(* and looks hosts up in (simulator/src/proxy.rs).                         *)
(*                                                                         *)
(* The controller works on its cache, which it brings up to date one       *)
(* object at a time; the proxy has watches of its own and sees every       *)
(* version of an object, in order.  A backend is a Service with its port   *)
(* and TLS flag.                                                           *)
(***************************************************************************)
EXTENDS Naturals, Sequences

CONSTANTS
  Routes,
  HttpRoutes,
  Gateways,
  Hosts,
  GeneratedHost, \* the host compute_host makes up from name and namespace
  OAuthHosts,    \* the hosts of the OAuth server and of the provider it stands for
  OAuthServer,   \* the OAuth server of this process, seen as a backend
  Backends,
  ParentRefs,    \* the parentRefs an HTTPRoute can have: sequences of Gateways
  Listeners,     \* the sets of hostnames that the listeners of a Gateway can have
  ServiceOf,     \* the Service that is made for a Gateway
  Populations,   \* which of these objects the users of a cluster create
  ApiMayFail,    \* whether an API call may fail for no visible reason
  MaxEvents,     \* bound: events of one object not yet taken
  None

ASSUME RouteProxyAssumption ==
  /\ GeneratedHost \in [Routes -> Hosts]
  /\ OAuthHosts \subseteq Hosts
  /\ ParentRefs \subseteq Seq(Gateways)
  /\ Listeners \subseteq SUBSET Hosts /\ ServiceOf \in [Gateways -> Backends]
  /\ Populations \subseteq SUBSET (Routes \cup HttpRoutes \cup Gateways)
  /\ ApiMayFail \in BOOLEAN
  /\ MaxEvents \in Nat
  /\ None \notin Hosts \cup Backends \cup Routes \cup HttpRoutes
  /\ Routes \cap HttpRoutes = {}

VARIABLES
  names,       \* the objects that the users of the cluster create
  route,       \* cluster: Routes
  unseen,      \* Routes that changed since the controller last looked
  cache,       \* the controller's cache
  pending,     \* Routes queued for reconcile_route
  patching,    \* the host each running reconcile_route is about to write
  events,      \* Route versions on their way to build_route_table
  table,       \* RouteTable
  http,        \* cluster: HTTPRoutes
  httpEvents,  \* HTTPRoute versions on their way to build_gateway_route_table
  gateway,     \* cluster: Gateways, each with the Service that was made for it
  task,        \* what build_gateway_route_table is doing
  writers,     \* history: the objects that ever wrote a host's entry
  missed       \* history: HTTPRoutes for which a call failed in their last event

routeVars == <<route, unseen, cache, pending, patching, events>>
httpVars == <<names, http, httpEvents, gateway, task, missed>>
vars == <<routeVars, httpVars, table, writers>>

Route == [live : BOOLEAN, host : Hosts \cup {None}, to : Backends \cup {None},
          status : Hosts \cup {None}]
HttpRoute == [live : BOOLEAN, hostnames : SUBSET Hosts, parents : Seq(Gateways)]
Gateway == [live : BOOLEAN, listeners : SUBSET Hosts, service : Backends \cup {None},
            labelled : BOOLEAN]
Task == [name : HttpRoutes \cup {None}, pc : {"idle", "gateway", "services", "insert"},
         hostnames : SUBSET Hosts, parents : Seq(Gateways), todo : SUBSET Hosts,
         backend : Backends \cup {None}]

NoRoute == [live |-> FALSE, host |-> None, to |-> None, status |-> None]
NoHttpRoute == [live |-> FALSE, hostnames |-> {}, parents |-> << >>]
NoGateway == [live |-> FALSE, listeners |-> {}, service |-> None, labelled |-> FALSE]
Resting == [name |-> None, pc |-> "idle", hostnames |-> {}, parents |-> << >>, todo |-> {},
            backend |-> None]

TypeOK ==
  /\ names \in Populations /\ missed \subseteq HttpRoutes
  /\ route \in [Routes -> Route]
  /\ unseen \subseteq Routes /\ pending \subseteq Routes
  /\ cache \in [Routes -> Route]
  /\ patching \in [Routes -> Hosts \cup {None}]
  /\ events \in [Routes -> Seq(Route)]
  /\ table \in [Hosts -> Backends \cup {None}]
  /\ http \in [HttpRoutes -> HttpRoute]
  /\ httpEvents \in [HttpRoutes -> Seq(HttpRoute)]
  /\ gateway \in [Gateways -> Gateway]
  /\ task \in Task
  /\ task.pc = "idle" => task = Resting
  /\ task.pc # "idle" => task.parents # << >>
  /\ task.pc = "insert" => task.backend # None
  /\ writers \in [Hosts -> SUBSET (Routes \cup HttpRoutes)]

Init ==
  /\ names \in Populations /\ missed = {}
  /\ route = [r \in Routes |-> NoRoute]
  /\ unseen = {} /\ pending = {}
  /\ cache = [r \in Routes |-> NoRoute]
  /\ patching = [r \in Routes |-> None]
  /\ events = [r \in Routes |-> << >>]
  /\ table = [h \in Hosts |-> None]
  /\ http = [x \in HttpRoutes |-> NoHttpRoute]
  /\ httpEvents = [x \in HttpRoutes |-> << >>]
  /\ gateway = [g \in Gateways |-> NoGateway]
  /\ task = Resting
  /\ writers = [h \in Hosts |-> {}]

------------------------------------------------------------------------------
(***************************************************************************)
(* route.rs.                                                               *)
(***************************************************************************)
is_admitted(v) == v.status # None

compute_host(r, v) == IF v.host # None THEN v.host ELSE GeneratedHost[r]

\* A version of r that the API server stores: both watches will deliver it.
Store(r, v) ==
  /\ route' = [route EXCEPT ![r] = v]
  /\ unseen' = unseen \cup {r}
  /\ events' = IF v.live THEN [events EXCEPT ![r] = Append(@, v)] ELSE events

\* The cache catches up and, unless r is gone, r is queued.
Observe(r) ==
  /\ r \in unseen
  /\ unseen' = unseen \ {r}
  /\ cache' = [cache EXCEPT ![r] = route[r]]
  /\ pending' = IF route[r].live THEN pending \cup {r} ELSE pending
  /\ UNCHANGED <<route, patching, events, httpVars, table, writers>>

\* reconcile_route up to its patch; it looks at nothing but the cache.
reconcile_route_HostOnly(r) ==
  /\ r \in pending /\ patching[r] = None
  /\ pending' = pending \ {r}
  /\ patching' = IF cache[r].live /\ ~is_admitted(cache[r])
                   THEN [patching EXCEPT ![r] = cache[r].host] ELSE patching
  /\ UNCHANGED <<route, unseen, cache, events, httpVars, table, writers>>

reconcile_route(r) ==
  /\ r \in pending /\ patching[r] = None
  /\ pending' = pending \ {r}
  /\ patching' = IF cache[r].live /\ ~is_admitted(cache[r])
                   THEN [patching EXCEPT ![r] = compute_host(r, cache[r])] ELSE patching
  /\ UNCHANGED <<route, unseen, cache, events, httpVars, table, writers>>

\* The merge patch goes to the Route that has the name by now.
patch_status(r) ==
  /\ patching[r] # None /\ route[r].live
  /\ Store(r, [route[r] EXCEPT !.status = patching[r]])
  /\ patching' = [patching EXCEPT ![r] = None]
  /\ UNCHANGED <<cache, pending, httpVars, table, writers>>

\* error_policy: a failed patch is tried again after 10 s.
error_policy(r) ==
  /\ patching[r] # None /\ (ApiMayFail \/ ~route[r].live)
  /\ patching' = [patching EXCEPT ![r] = None]
  /\ pending' = pending \cup {r}
  /\ UNCHANGED <<route, unseen, cache, events, httpVars, table, writers>>

------------------------------------------------------------------------------
(***************************************************************************)
(* proxy.rs: the table.                                                    *)
(***************************************************************************)
extract_host(v) == IF v.status # None THEN v.status ELSE v.host

Insert(h, b, writer) ==
  /\ table' = [table EXCEPT ![h] = b]
  /\ writers' = [writers EXCEPT ![h] = @ \cup {writer}]

\* One Route event.  Without a host or a Service it is skipped.
build_route_table_FirstWins(r) ==
  LET v == Head(events[r])
      h == extract_host(v)
  IN /\ events[r] # << >>
     /\ events' = [events EXCEPT ![r] = Tail(@)]
     /\ IF h # None /\ v.to # None /\ table[h] = None THEN Insert(h, v.to, r)
        ELSE UNCHANGED <<table, writers>>
     /\ UNCHANGED <<route, unseen, cache, pending, patching, httpVars>>

build_route_table(r) ==
  LET v == Head(events[r])
      h == extract_host(v)
  IN /\ events[r] # << >>
     /\ events' = [events EXCEPT ![r] = Tail(@)]
     /\ IF h # None /\ v.to # None THEN Insert(h, v.to, r) ELSE UNCHANGED <<table, writers>>
     /\ UNCHANGED <<route, unseen, cache, pending, patching, httpVars>>

\* The next parentRef of the HTTPRoute at hand, or the end of the event.
NextParent(t) ==
  IF t.parents = << >> THEN Resting
  ELSE [t EXCEPT !.pc = IF t.hostnames = {} THEN "gateway" ELSE "services",
                 !.todo = t.hostnames, !.backend = None]

build_gateway_route_table(x) ==
  LET v == Head(httpEvents[x])
  IN /\ task = Resting /\ httpEvents[x] # << >>
     /\ httpEvents' = [httpEvents EXCEPT ![x] = Tail(@)]
     /\ task' = NextParent([Resting EXCEPT !.name = x, !.hostnames = v.hostnames,
                                           !.parents = v.parents])
     /\ missed' = missed \ {x}
     /\ UNCHANGED <<names, http, gateway, routeVars, table, writers>>

\* No hostnames of its own: those of the Gateway's listeners, if it is there.
ListenerHostnames ==
  /\ task.pc = "gateway"
  /\ \/ /\ task' = [task EXCEPT !.pc = "services",
                             !.todo = LET g == gateway[Head(task.parents)]
                                      IN IF g.live THEN g.listeners ELSE {}]
        /\ UNCHANGED missed
     \/ /\ ApiMayFail
        /\ task' = [task EXCEPT !.pc = "services"] /\ missed' = missed \cup {task.name}
  /\ UNCHANGED <<names, http, httpEvents, gateway, routeVars, table, writers>>

\* The Service labelled with the Gateway's name.
Labelled(g) == IF gateway[g].labelled THEN gateway[g].service ELSE None

\* If there is none, or the list fails, this parentRef is passed over.
GatewayService_OwnHostsOnly ==
  LET rest == NextParent([task EXCEPT !.parents = Tail(@)])
      b == Labelled(Head(task.parents))
  IN /\ task.pc = "services"
     /\ \/ b # None /\ task' = [task EXCEPT !.pc = "insert", !.backend = b, !.todo = task.hostnames] /\ UNCHANGED missed
        \/ b = None /\ task' = rest /\ UNCHANGED missed
        \/ ApiMayFail /\ task' = rest /\ missed' = missed \cup {task.name}
     /\ UNCHANGED <<names, http, httpEvents, gateway, routeVars, table, writers>>

GatewayService ==
  LET rest == NextParent([task EXCEPT !.parents = Tail(@)])
      b == Labelled(Head(task.parents))
  IN /\ task.pc = "services"
     /\ \/ b # None /\ task' = [task EXCEPT !.pc = "insert", !.backend = b] /\ UNCHANGED missed
        \/ b = None /\ task' = rest /\ UNCHANGED missed
        \/ ApiMayFail /\ task' = rest /\ missed' = missed \cup {task.name}
     /\ UNCHANGED <<names, http, httpEvents, gateway, routeVars, table, writers>>

InsertGatewayHost ==
  /\ task.pc = "insert"
  /\ \/ \E h \in task.todo : /\ Insert(h, task.backend, task.name)
                             /\ task' = [task EXCEPT !.todo = @ \ {h}]
     \/ /\ task.todo = {}
        /\ task' = NextParent([task EXCEPT !.parents = Tail(@)])
        /\ UNCHANGED <<table, writers>>
  /\ UNCHANGED <<names, missed, http, httpEvents, gateway, routeVars>>

\* proxy_request: where a request for h is sent, None for the answer 502.
Target(h) == IF h \in OAuthHosts THEN OAuthServer ELSE table[h]

------------------------------------------------------------------------------
(***************************************************************************)
(* The cluster, re-lists and restarts.                                     *)
(***************************************************************************)
Roomy(q) == Len(q) < MaxEvents

\* Created or edited; the status belongs to the controller.
WriteRoute(r, host, to) ==
  /\ r \in names /\ Roomy(events[r])
  /\ Store(r, [live |-> TRUE, host |-> host, to |-> to, status |-> route[r].status])
  /\ UNCHANGED <<cache, pending, patching, httpVars, table, writers>>

DeleteRoute(r) ==
  /\ route[r].live
  /\ Store(r, NoRoute)
  /\ UNCHANGED <<cache, pending, patching, httpVars, table, writers>>

WriteHttpRoute(x, hostnames, parents) ==
  LET v == [live |-> TRUE, hostnames |-> hostnames, parents |-> parents]
  IN /\ x \in names /\ Roomy(httpEvents[x])
     /\ http' = [http EXCEPT ![x] = v]
     /\ httpEvents' = [httpEvents EXCEPT ![x] = Append(@, v)]
     /\ UNCHANGED <<names, missed, gateway, task, routeVars, table, writers>>

DeleteHttpRoute(x) ==
  /\ http[x].live
  /\ http' = [http EXCEPT ![x] = NoHttpRoute]
  /\ UNCHANGED <<names, missed, httpEvents, gateway, task, routeVars, table, writers>>

Change(g, v) ==
  /\ g \in names
  /\ gateway' = [gateway EXCEPT ![g] = v]
  /\ UNCHANGED <<names, missed, http, httpEvents, task, routeVars, table, writers>>

WriteGateway(g, listeners) ==
  Change(g, [gateway[g] EXCEPT !.live = TRUE, !.listeners = listeners])

\* The Service of gateway.rs has no owner and stays.
DeleteGateway(g) ==
  /\ gateway[g].live
  /\ Change(g, [gateway[g] EXCEPT !.live = FALSE, !.listeners = {}])

\* gateway.rs makes a Service for a Gateway of its own classes, without the label.
ensure_envoy_service(g) ==
  /\ gateway[g].live /\ gateway[g].service = None
  /\ Change(g, [gateway[g] EXCEPT !.service = ServiceOf[g], !.labelled = FALSE])

\* deploy/seed/maas-post-deploy.sh labels it afterwards.
label_service(g) ==
  /\ gateway[g].service # None
  /\ Change(g, [gateway[g] EXCEPT !.labelled = TRUE])

\* Istio makes a Service that has the label for a Gateway of its class.
IstioService(g) ==
  /\ gateway[g].live /\ gateway[g].service = None
  /\ Change(g, [gateway[g] EXCEPT !.service = ServiceOf[g], !.labelled = TRUE])

DeleteService(g) ==
  /\ gateway[g].service # None
  /\ Change(g, [gateway[g] EXCEPT !.service = None, !.labelled = FALSE])

Listed(objects) == [k \in DOMAIN objects |-> IF objects[k].live THEN <<objects[k]>> ELSE << >>]

\* A watch error makes a watcher list again; what it had not delivered is lost.
WatchRestart ==
  /\ events' = Listed(route)
  /\ httpEvents' = Listed(http)
  /\ UNCHANGED <<names, missed, route, unseen, cache, pending, patching, http, gateway, task, table, writers>>

Restart ==
  /\ table' = [h \in Hosts |-> None]
  /\ writers' = [h \in Hosts |-> {}]
  /\ task' = Resting
  /\ events' = Listed(route) /\ httpEvents' = Listed(http)
  /\ cache' = [r \in Routes |-> NoRoute]
  /\ unseen' = Routes \cap names
  /\ pending' = {} /\ patching' = [r \in Routes |-> None]
  /\ missed' = {}
  /\ UNCHANGED <<names, route, http, gateway>>

Controller(r) == Observe(r) \/ reconcile_route(r) \/ patch_status(r) \/ error_policy(r)

GatewayTask ==
  \/ \E x \in HttpRoutes : build_gateway_route_table(x)
  \/ ListenerHostnames
  \/ GatewayService
  \/ InsertGatewayHost

Cluster ==
  \/ \E r \in Routes, host \in Hosts \cup {None}, to \in Backends \cup {None} : WriteRoute(r, host, to)
  \/ \E r \in Routes : DeleteRoute(r)
  \/ \E x \in HttpRoutes, hostnames \in SUBSET Hosts, parents \in ParentRefs :
       WriteHttpRoute(x, hostnames, parents)
  \/ \E x \in HttpRoutes : DeleteHttpRoute(x)
  \/ \E g \in Gateways, listeners \in Listeners : WriteGateway(g, listeners)
  \/ \E g \in Gateways : \/ DeleteGateway(g) \/ ensure_envoy_service(g) \/ label_service(g)
                         \/ IstioService(g) \/ DeleteService(g)

Next ==
  \/ \E r \in Routes : Controller(r) \/ build_route_table(r)
  \/ GatewayTask
  \/ Cluster
  \/ WatchRestart
  \/ Restart

\* The tasks are polled, the watches deliver, and a patch that is retried for
\* ever succeeds some time.  A watch hands objects over in the order in which
\* they changed, so none waits behind the others for ever.
Fairness ==
  /\ \A r \in Routes : /\ WF_vars(Observe(r)) /\ WF_vars(reconcile_route(r))
                       /\ SF_vars(patch_status(r)) /\ WF_vars(error_policy(r))
                       /\ WF_vars(build_route_table(r))
  /\ \A x \in HttpRoutes : SF_vars(build_gateway_route_table(x))
  /\ WF_vars(ListenerHostnames \/ GatewayService \/ InsertGatewayHost)

Spec == Init /\ [][Next]_vars
FairSpec == Spec /\ Fairness

------------------------------------------------------------------------------
(***************************************************************************)
(* Properties.                                                             *)
(***************************************************************************)

\* build_route_table: once the proxy has taken the events of an admitted Route,
\* and no other object ever wrote the entry of its host, requests for that
\* host go to the backend the Route names now, however often it was edited,
\* deleted, created anew or listed again.
RoutesToBackend ==
  \A r \in Routes :
    LET h == route[r].status
    IN /\ route[r].live /\ route[r].to # None /\ events[r] = << >>
       /\ h # None /\ h \notin OAuthHosts
       => (writers[h] \subseteq {r} => Target(h) = route[r].to)

\* Admission and proxy together: a Route that names a backend gets a host that
\* the proxy sends somewhere, also when its spec names no host and when patches
\* fail, as long as the process stays up.
EventuallyServed ==
  <>[][~Restart]_vars => \A r \in Routes :
    (route[r].live /\ route[r].to # None)
      ~> \/ ~route[r].live \/ route[r].to = None
         \/ is_admitted(route[r]) /\ Target(route[r].status) # None

\* x asks its one Gateway to serve h, and the Gateway has a Service with its label.
AsksFor(x, g, h) ==
  /\ http[x].live /\ http[x].parents = <<g>>
  /\ gateway[g].live /\ Labelled(g) # None
  /\ h \in IF http[x].hostnames = {} THEN gateway[g].listeners ELSE http[x].hostnames

\* build_gateway_route_table: a host that an HTTPRoute asks its Gateway to serve,
\* when that has a labelled Service before the proxy takes the HTTPRoute's event,
\* is sent to some backend in the end, also when the hostnames are those of the
\* listeners and Gateways change meanwhile; unless one of the calls the proxy
\* makes for it fails.  The Service that gateway.rs itself makes has no label: its
\* Gateway counts only once somebody has labelled it.
GatewayHostsServed ==
  <>[][~Restart]_vars => \A x \in HttpRoutes, g \in Gateways, h \in Hosts :
    AsksFor(x, g, h) /\ httpEvents[x] # << >>
      ~> ~AsksFor(x, g, h) \/ Target(h) # None \/ x \in missed
==============================================================================
