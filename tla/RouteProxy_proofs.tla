-------------------------- MODULE RouteProxy_proofs --------------------------
(***************************************************************************)
(* Theorems about RouteProxy for every set of Routes, HTTPRoutes, Gateways *)
(* and hosts, and queues of events of every length.                        *)
(*                                                                         *)
(* RoutesToBackend is not inductive: it speaks of a Route whose events     *)
(* have all been taken.  What is true all the time is that the last event  *)
(* of a Route that exists is the Route as it is now, and that once there   *)
(* is none left the table agrees with it (QueueInv).                       *)
(***************************************************************************)
EXTENDS RouteProxy, SequenceTheorems, TLAPS

\* The proxy has the entry of an admitted Route right, unless another object
\* wrote it.
Settled(r) ==
  LET h == route[r].status
  IN h # None /\ route[r].to # None /\ writers[h] \subseteq {r} => table[h] = route[r].to

QueueInv ==
  \A r \in Routes : route[r].live =>
    /\ events[r] # << >> => events[r][Len(events[r])] = route[r]
    /\ events[r] = << >> => Settled(r)

\* The event at hand is that of an HTTPRoute.
TaskInv == task.pc # "idle" => task.name \in HttpRoutes

IInv == TypeOK /\ QueueInv /\ TaskInv

\* Objects that do not exist have their types.
LEMMA AbsentTypes ==
  /\ NoRoute \in Route /\ NoHttpRoute \in HttpRoute /\ NoGateway \in Gateway
  /\ Resting \in Task /\ Resting.pc = "idle" /\ ~NoRoute.live
<1>1. << >> \in Seq(Gateways)
  BY EmptySeq
<1> QED
  BY <1>1 DEF NoRoute, NoHttpRoute, NoGateway, Resting, Route, HttpRoute, Gateway, Task

\* Taking the first of several events leaves the last one last; the only
\* event is first and last.
LEMMA LastStaysLast ==
  ASSUME NEW S, NEW q \in Seq(S), q # << >>
  PROVE  /\ Head(q) \in S /\ Tail(q) \in Seq(S)
         /\ \/ Tail(q) = << >> /\ Head(q) = q[Len(q)]
            \/ Tail(q) # << >> /\ Tail(q)[Len(Tail(q))] = q[Len(q)]
<1>1. Len(q) \in Nat \ {0}
  BY EmptySeq
<1>2. /\ Head(q) \in S /\ Tail(q) \in Seq(S) /\ Len(Tail(q)) = Len(q) - 1
      /\ \A i \in 1 .. Len(Tail(q)) : Tail(q)[i] = q[i + 1]
  BY HeadTailProperties
<1>3. CASE Tail(q) = << >>
  <2>0. Len(Tail(q)) = 0
    BY <1>3, EmptySeq
  <2>1. Len(q) = 1
    <3> DEFINE n == Len(q)
               m == Len(Tail(q))
    <3>1. n \in Nat /\ m = n - 1 /\ m = 0
      BY <1>1, <1>2, <2>0
    <3> HIDE DEF n, m
    <3>2. n = 1
      BY <3>1
    <3> QED
      BY <3>2 DEF n
  <2>2. Head(q) = q[1]
    BY <1>1
  <2> QED
    BY <1>2, <1>3, <2>1, <2>2
<1>4. CASE Tail(q) # << >>
  <2>1. Len(Tail(q)) \in Nat \ {0}
    BY <1>2, <1>4, EmptySeq
  <2>2. Tail(q)[Len(Tail(q))] = q[Len(q)]
    BY <1>1, <1>2, <2>1
  <2> QED
    BY <1>2, <1>4, <2>2
<1> QED
  BY <1>3, <1>4

\* An event that is appended is the last one.
LEMMA AppendedIsLast ==
  ASSUME NEW S, NEW q \in Seq(S), NEW v \in S
  PROVE  /\ Append(q, v) \in Seq(S) /\ Append(q, v) # << >>
         /\ Append(q, v)[Len(Append(q, v))] = v
  BY AppendProperties

\* What a list delivers: each object that exists, once.
LEMMA ListedTypes ==
  ASSUME TypeOK
  PROVE  /\ Listed(route) \in [Routes -> Seq(Route)]
         /\ Listed(http) \in [HttpRoutes -> Seq(HttpRoute)]
         /\ \A r \in Routes : route[r].live => /\ Listed(route)[r] # << >>
                                               /\ Listed(route)[r][Len(Listed(route)[r])] = route[r]
<1>1. \A v \in Route : <<v>> \in Seq(Route) /\ <<v>> # << >> /\ <<v>>[Len(<<v>>)] = v
  OBVIOUS
<1>2. \A v \in HttpRoute : <<v>> \in Seq(HttpRoute)
  OBVIOUS
<1>3. << >> \in Seq(Route) /\ << >> \in Seq(HttpRoute)
  BY EmptySeq
<1>4. route \in [Routes -> Route] /\ http \in [HttpRoutes -> HttpRoute]
  BY DEF TypeOK
<1>5. /\ \A r \in Routes : Listed(route)[r] = IF route[r].live THEN <<route[r]>> ELSE << >>
      /\ Listed(route) = [r \in Routes |-> IF route[r].live THEN <<route[r]>> ELSE << >>]
  BY <1>4 DEF Listed
<1>6. Listed(http) = [x \in HttpRoutes |-> IF http[x].live THEN <<http[x]>> ELSE << >>]
  BY <1>4 DEF Listed
<1>7. Listed(route) \in [Routes -> Seq(Route)]
  BY <1>1, <1>3, <1>4, <1>5
<1>8. Listed(http) \in [HttpRoutes -> Seq(HttpRoute)]
  BY <1>2, <1>3, <1>4, <1>6
<1>9. \A r \in Routes : route[r].live => Listed(route)[r] = <<route[r]>>
  BY <1>5
<1> QED
  BY <1>1, <1>4, <1>7, <1>8, <1>9

\* The table keeps its type, and only the entry that is written changes.
LEMMA InsertTypes ==
  ASSUME TypeOK, NEW h \in Hosts, NEW b \in Backends, NEW w \in Routes \cup HttpRoutes, Insert(h, b, w)
  PROVE  /\ table' \in [Hosts -> Backends \cup {None}]
         /\ writers' \in [Hosts -> SUBSET (Routes \cup HttpRoutes)]
         /\ table'[h] = b /\ w \in writers'[h]
         /\ \A g \in Hosts \ {h} : table'[g] = table[g] /\ writers'[g] = writers[g]
  BY DEF TypeOK, Insert

\* The next parentRef of an HTTPRoute.
LEMMA NextParentTypes ==
  ASSUME NEW t \in Task
  PROVE  LET n == NextParent(t)
         IN /\ n \in Task
            /\ n.pc = "idle" => n = Resting
            /\ n.pc # "idle" => n.parents # << >> /\ n.name = t.name
            /\ n.pc # "insert"
<1>1. CASE t.parents = << >>
  BY <1>1, AbsentTypes DEF NextParent
<1>2. CASE t.parents # << >>
  <2> DEFINE pc == IF t.hostnames = {} THEN "gateway" ELSE "services"
             n == [t EXCEPT !.pc = pc, !.todo = t.hostnames, !.backend = None]
  <2>1. NextParent(t) = n /\ pc \in {"gateway", "services"}
    BY <1>2 DEF NextParent
  <2> HIDE DEF pc
  <2>2. n \in Task /\ n.pc = pc /\ n.parents = t.parents /\ n.name = t.name
    BY <2>1 DEF Task
  <2> HIDE DEF n
  <2> QED
    BY <1>2, <2>1, <2>2
<1> QED
  BY <1>1, <1>2

\* A version of a Route is stored, and delivered unless it is a deletion.
LEMMA StoreInv ==
  ASSUME IInv, NEW r \in Routes, NEW v \in Route, Store(r, v), UNCHANGED <<table, writers>>
  PROVE  /\ route' \in [Routes -> Route] /\ unseen' \subseteq Routes
         /\ events' \in [Routes -> Seq(Route)] /\ QueueInv'
<1>1. /\ route \in [Routes -> Route] /\ unseen \subseteq Routes /\ events \in [Routes -> Seq(Route)]
  BY DEF IInv, TypeOK
<1>2. /\ route' = [route EXCEPT ![r] = v] /\ unseen' = unseen \cup {r}
      /\ events' = IF v.live THEN [events EXCEPT ![r] = Append(@, v)] ELSE events
  BY DEF Store
<1>3. /\ Append(events[r], v) \in Seq(Route) /\ Append(events[r], v) # << >>
      /\ Append(events[r], v)[Len(Append(events[r], v))] = v
  BY <1>1, AppendedIsLast
<1>4. /\ route' \in [Routes -> Route] /\ unseen' \subseteq Routes
      /\ events' \in [Routes -> Seq(Route)]
  BY <1>1, <1>2, <1>3
<1>5. /\ route'[r] = v /\ (v.live => events'[r] = Append(events[r], v))
      /\ \A s \in Routes \ {r} : route'[s] = route[s] /\ events'[s] = events[s]
  BY <1>1, <1>2
<1>6. ASSUME NEW s \in Routes, route'[s].live
      PROVE  /\ events'[s] # << >> => events'[s][Len(events'[s])] = route'[s]
             /\ events'[s] = << >> => Settled(s)'
  <2>1. CASE s = r
    BY <1>3, <1>5, <1>6, <2>1
  <2>2. CASE s # r
    BY <1>5, <1>6, <2>2 DEF IInv, QueueInv, Settled
  <2> QED
    BY <2>1, <2>2
<1> QED
  BY <1>4, <1>6 DEF QueueInv

\* An entry that something other than the Route writes is no longer the
\* Route's alone.
LEMMA SettledKept ==
  ASSUME IInv, NEW s \in Routes, Settled(s), route' = route,
         NEW h \in Hosts, NEW b \in Backends, NEW w \in Routes \cup HttpRoutes, w # s, Insert(h, b, w)
  PROVE  Settled(s)'
<1>1. /\ table'[h] = b /\ w \in writers'[h]
      /\ \A g \in Hosts \ {h} : table'[g] = table[g] /\ writers'[g] = writers[g]
  BY InsertTypes DEF IInv
<1>2. route[s].status \in Hosts \cup {None}
  BY DEF IInv, TypeOK, Route
<1>3. CASE route[s].status = h
  BY <1>1, <1>3 DEF Settled
<1>4. CASE route[s].status # h
  BY <1>1, <1>2, <1>4 DEF Settled
<1> QED
  BY <1>3, <1>4

\* build_route_table: the last event of a Route settles its entry.
LEMMA BuildInv ==
  ASSUME IInv, NEW r \in Routes, build_route_table(r)
  PROVE  IInv'
<1> DEFINE v == Head(events[r])
           h == extract_host(v)
<1>1. /\ events[r] # << >> /\ events' = [events EXCEPT ![r] = Tail(@)]
      /\ IF h # None /\ v.to # None THEN Insert(h, v.to, r) ELSE UNCHANGED <<table, writers>>
      /\ UNCHANGED <<route, unseen, cache, pending, patching, httpVars>>
  BY DEF build_route_table
<1>2. events \in [Routes -> Seq(Route)] /\ route \in [Routes -> Route]
  BY DEF IInv, TypeOK
<1>3. /\ v \in Route /\ Tail(events[r]) \in Seq(Route)
      /\ \/ Tail(events[r]) = << >> /\ v = events[r][Len(events[r])]
         \/ /\ Tail(events[r]) # << >>
            /\ Tail(events[r])[Len(Tail(events[r]))] = events[r][Len(events[r])]
  BY <1>1, <1>2, LastStaysLast
<1>4. /\ events' \in [Routes -> Seq(Route)] /\ events'[r] = Tail(events[r])
      /\ \A s \in Routes \ {r} : events'[s] = events[s]
  BY <1>1, <1>2, <1>3
<1>5. v.to \in Backends \cup {None} /\ h \in Hosts \cup {None}
  BY <1>3 DEF extract_host, Route
<1> HIDE DEF v, h
<1>6. TypeOK'
  <2>1. table' \in [Hosts -> Backends \cup {None}] /\ writers' \in [Hosts -> SUBSET (Routes \cup HttpRoutes)]
    BY <1>1, <1>5, InsertTypes DEF IInv, TypeOK
  <2> QED
    BY <1>1, <1>4, <2>1 DEF IInv, TypeOK, httpVars
<1>7. ASSUME NEW s \in Routes \ {r}, route[s].live
      PROVE  /\ events'[s] # << >> => events'[s][Len(events'[s])] = route'[s]
             /\ events'[s] = << >> => Settled(s)'
  <2>1. ASSUME events[s] = << >>
        PROVE  Settled(s)'
    <3>1. Settled(s)
      BY <1>7, <2>1 DEF IInv, QueueInv
    <3>2. CASE UNCHANGED <<table, writers>>
      BY <1>1, <3>1, <3>2 DEF Settled
    <3>3. CASE h # None /\ v.to # None
      BY <1>1, <1>5, <3>1, <3>3, SettledKept
    <3> QED
      BY <1>1, <3>2, <3>3
  <2> QED
    BY <1>1, <1>4, <1>7, <2>1 DEF IInv, QueueInv
<1>8. ASSUME route[r].live
      PROVE  /\ events'[r] # << >> => events'[r][Len(events'[r])] = route'[r]
             /\ events'[r] = << >> => Settled(r)'
  <2>1. events[r][Len(events[r])] = route[r]
    BY <1>1, <1>8 DEF IInv, QueueInv
  <2>2. CASE Tail(events[r]) # << >>
    BY <1>1, <1>3, <1>4, <2>1, <2>2
  <2>3. CASE Tail(events[r]) = << >>
    <3>1. v = route[r]
      BY <1>3, <2>1, <2>3
    <3>2. ASSUME route[r].status # None, route[r].to # None
          PROVE  table'[route[r].status] = route[r].to
      <4>1. h = route[r].status
        BY <3>1, <3>2 DEF extract_host, h
      <4>2. Insert(h, v.to, r) /\ h \in Hosts /\ v.to \in Backends
        BY <1>1, <1>5, <3>1, <3>2, <4>1
      <4> QED
        BY <3>1, <4>1, <4>2, InsertTypes DEF IInv
    <3>3. Settled(r)'
      BY <1>1, <3>2 DEF Settled
    <3> QED
      BY <1>4, <2>3, <3>3
  <2> QED
    BY <2>2, <2>3
<1>9. QueueInv'
  BY <1>1, <1>7, <1>8 DEF QueueInv
<1> QED
  BY <1>1, <1>6, <1>9 DEF IInv, TaskInv, httpVars

\* The admission controller.
LEMMA ControllerInv ==
  ASSUME IInv, NEW r \in Routes, Controller(r)
  PROVE  IInv'
<1>0. /\ route \in [Routes -> Route] /\ cache \in [Routes -> Route] /\ unseen \subseteq Routes
      /\ patching \in [Routes -> Hosts \cup {None}] /\ pending \subseteq Routes
  BY DEF IInv, TypeOK
<1>1. ASSUME UNCHANGED <<route, events, table, writers>>
      PROVE  QueueInv'
  BY <1>1 DEF IInv, QueueInv, Settled
<1>2. CASE Observe(r)
  <2>1. cache' \in [Routes -> Route] /\ unseen' \subseteq Routes /\ pending' \subseteq Routes
    BY <1>0, <1>2 DEF Observe
  <2> QED
    BY <1>1, <1>2, <2>1 DEF Observe, IInv, TypeOK, TaskInv, httpVars
<1>3. CASE reconcile_route(r)
  <2>1. compute_host(r, cache[r]) \in Hosts
    BY <1>0, RouteProxyAssumption DEF compute_host, Route
  <2>2. patching' \in [Routes -> Hosts \cup {None}] /\ pending' \subseteq Routes
    BY <1>0, <1>3, <2>1 DEF reconcile_route
  <2> QED
    BY <1>1, <1>3, <2>2 DEF reconcile_route, IInv, TypeOK, TaskInv, httpVars
<1>4. CASE patch_status(r)
  <2> DEFINE v == [route[r] EXCEPT !.status = patching[r]]
  <2>0. route[r] \in Route /\ patching[r] \in Hosts \cup {None}
    BY <1>0
  <2>1. v \in Route
    BY <2>0 DEF Route
  <2>2. Store(r, v) /\ UNCHANGED <<cache, pending, httpVars, table, writers>>
    BY <1>4 DEF patch_status
  <2>3. patching' \in [Routes -> Hosts \cup {None}]
    BY <1>0, <1>4 DEF patch_status
  <2> HIDE DEF v
  <2> QED
    BY <2>1, <2>2, <2>3, StoreInv DEF IInv, TypeOK, TaskInv, httpVars
<1>5. CASE error_policy(r)
  <2>1. patching' \in [Routes -> Hosts \cup {None}] /\ pending' \subseteq Routes
    BY <1>0, <1>5 DEF error_policy
  <2> QED
    BY <1>1, <1>5, <2>1 DEF error_policy, IInv, TypeOK, TaskInv, httpVars
<1> QED
  BY <1>2, <1>3, <1>4, <1>5 DEF Controller

\* Steps that leave Routes, their events and the table alone.
LEMMA QueueKept ==
  ASSUME QueueInv, UNCHANGED <<route, events, table, writers>>
  PROVE  QueueInv'
  BY DEF QueueInv, Settled

\* build_gateway_route_table: what it writes is not a Route's alone, and the
\* rest of its steps touch no Route.
LEMMA GatewayTaskInv ==
  ASSUME IInv, GatewayTask
  PROVE  IInv'
<1>0. /\ task \in Task /\ missed \subseteq HttpRoutes /\ gateway \in [Gateways -> Gateway]
      /\ httpEvents \in [HttpRoutes -> Seq(HttpRoute)]
      /\ QueueInv /\ TaskInv
      /\ task.pc # "idle" => task.parents # << >>
  BY DEF IInv, TypeOK
<1>1. ASSUME task.pc # "idle"
      PROVE  /\ task.name \in HttpRoutes
             /\ Head(task.parents) \in Gateways
             /\ [task EXCEPT !.parents = Tail(@)] \in Task
             /\ LET n == NextParent([task EXCEPT !.parents = Tail(@)])
                IN /\ n \in Task
                   /\ n.pc = "idle" => n = Resting
                   /\ n.pc # "idle" => n.parents # << >> /\ n.name = task.name
                   /\ n.pc # "insert"
  <2>1. task.name \in HttpRoutes /\ task.parents \in Seq(Gateways) /\ task.parents # << >>
    BY <1>0, <1>1 DEF TaskInv, Task
  <2>2. Head(task.parents) \in Gateways /\ Tail(task.parents) \in Seq(Gateways)
    BY <2>1, LastStaysLast
  <2> DEFINE t == [task EXCEPT !.parents = Tail(@)]
  <2>3. t \in Task /\ t.name = task.name
    BY <1>0, <2>2 DEF Task
  <2> HIDE DEF t
  <2>4. LET n == NextParent(t)
        IN /\ n \in Task
           /\ n.pc = "idle" => n = Resting
           /\ n.pc # "idle" => n.parents # << >> /\ n.name = t.name
           /\ n.pc # "insert"
    BY <2>3, NextParentTypes
  <2> QED
    BY <2>1, <2>2, <2>3, <2>4 DEF t
<1>2. ASSUME NEW x \in HttpRoutes, build_gateway_route_table(x)
      PROVE  IInv'
  <2> DEFINE v == Head(httpEvents[x])
             t == [Resting EXCEPT !.name = x, !.hostnames = v.hostnames, !.parents = v.parents]
  <2>1. /\ httpEvents[x] # << >> /\ httpEvents' = [httpEvents EXCEPT ![x] = Tail(@)]
        /\ task' = NextParent(t) /\ missed' = missed \ {x}
        /\ UNCHANGED <<names, http, gateway, routeVars, table, writers>>
    BY <1>2 DEF build_gateway_route_table
  <2>2. v \in HttpRoute /\ Tail(httpEvents[x]) \in Seq(HttpRoute)
    BY <1>0, <2>1, LastStaysLast
  <2>3. t \in Task /\ t.name = x
    BY <2>2, AbsentTypes DEF Task, HttpRoute, Resting
  <2> HIDE DEF v, t
  <2>4. /\ task' \in Task
        /\ task'.pc = "idle" => task' = Resting
        /\ task'.pc # "idle" => task'.parents # << >> /\ task'.name = x
        /\ task'.pc # "insert"
    BY <2>1, <2>3, NextParentTypes
  <2>5. httpEvents' \in [HttpRoutes -> Seq(HttpRoute)] /\ missed' \subseteq HttpRoutes
    BY <1>0, <2>1, <2>2
  <2>6. QueueInv'
    BY <1>0, <2>1, QueueKept DEF routeVars
  <2> QED
    BY <2>1, <2>4, <2>5, <2>6 DEF IInv, TypeOK, TaskInv, routeVars
<1>3. CASE ListenerHostnames
  <2> DEFINE g == gateway[Head(task.parents)]
             found == IF g.live THEN g.listeners ELSE {}
  <2>1. /\ task.pc = "gateway"
        /\ UNCHANGED <<names, http, httpEvents, gateway, routeVars, table, writers>>
        /\ \/ task' = [task EXCEPT !.pc = "services", !.todo = found] /\ missed' = missed
           \/ task' = [task EXCEPT !.pc = "services"] /\ missed' = missed \cup {task.name}
    BY <1>3 DEF ListenerHostnames
  <2>2. g \in Gateway /\ task.name \in HttpRoutes /\ task.parents # << >>
    BY <1>0, <1>1, <2>1
  <2>3. found \in SUBSET Hosts
    BY <2>2 DEF Gateway
  <2> HIDE DEF found
  <2>4. /\ task' \in Task /\ task'.pc = "services" /\ task'.name = task.name
        /\ task'.parents = task.parents
    BY <1>0, <2>1, <2>3 DEF Task
  <2>5. QueueInv' /\ missed' \subseteq HttpRoutes
    BY <1>0, <2>1, <2>2, QueueKept DEF routeVars
  <2> QED
    BY <2>1, <2>2, <2>4, <2>5 DEF IInv, TypeOK, TaskInv, routeVars
<1>4. CASE GatewayService
  <2> DEFINE rest == NextParent([task EXCEPT !.parents = Tail(@)])
             b == Labelled(Head(task.parents))
  <2>1. /\ task.pc = "services"
        /\ UNCHANGED <<names, http, httpEvents, gateway, routeVars, table, writers>>
        /\ missed' \in {missed, missed \cup {task.name}}
        /\ \/ b # None /\ task' = [task EXCEPT !.pc = "insert", !.backend = b]
           \/ task' = rest
    BY <1>4 DEF GatewayService
  <2>2. /\ task.name \in HttpRoutes /\ task.parents # << >>
        /\ gateway[Head(task.parents)] \in Gateway
        /\ rest \in Task
        /\ rest.pc = "idle" => rest = Resting
        /\ rest.pc # "idle" => rest.parents # << >> /\ rest.name = task.name
        /\ rest.pc # "insert"
    BY <1>0, <1>1, <2>1
  <2>3. b \in Backends \cup {None}
    BY <2>2 DEF Gateway, Labelled
  <2> HIDE DEF rest, b
  <2>4. /\ task' \in Task
        /\ task'.pc = "idle" => task' = Resting
        /\ task'.pc # "idle" => task'.parents # << >> /\ task'.name = task.name
        /\ task'.pc = "insert" => task'.backend # None
    <3>1. CASE task' = rest
      BY <2>2, <3>1
    <3>2. CASE b # None /\ task' = [task EXCEPT !.pc = "insert", !.backend = b]
      BY <1>0, <2>2, <2>3, <3>2 DEF Task
    <3> QED
      BY <2>1, <3>1, <3>2
  <2>5. QueueInv' /\ missed' \subseteq HttpRoutes
    BY <1>0, <2>1, <2>2, QueueKept DEF routeVars
  <2> QED
    BY <2>1, <2>2, <2>4, <2>5 DEF IInv, TypeOK, TaskInv, routeVars
<1>5. CASE InsertGatewayHost
  <2>1. task.pc = "insert" /\ UNCHANGED <<names, missed, http, httpEvents, gateway, routeVars>>
    BY <1>5 DEF InsertGatewayHost
  <2>2. /\ task.name \in HttpRoutes /\ task.parents # << >>
        /\ task.todo \subseteq Hosts /\ task.backend \in Backends
    BY <1>0, <1>1, <2>1 DEF IInv, TypeOK, Task
  <2>3. ASSUME NEW h \in task.todo, Insert(h, task.backend, task.name),
               task' = [task EXCEPT !.todo = @ \ {h}]
        PROVE  IInv'
    <3>1. /\ task' \in Task /\ task'.pc = "insert" /\ task'.name = task.name
          /\ task'.parents = task.parents /\ task'.backend = task.backend
      BY <1>0, <2>1, <2>3 DEF Task
    <3>2. /\ table' \in [Hosts -> Backends \cup {None}]
          /\ writers' \in [Hosts -> SUBSET (Routes \cup HttpRoutes)]
      BY <2>2, <2>3, InsertTypes DEF IInv
    <3>3. TypeOK' /\ TaskInv'
      BY <2>1, <2>2, <3>1, <3>2 DEF IInv, TypeOK, TaskInv, routeVars
    <3>4. ASSUME NEW s \in Routes, Settled(s)
          PROVE  Settled(s)'
      <4>1. task.name # s /\ route' = route
        BY <2>1, <2>2, RouteProxyAssumption DEF routeVars
      <4> QED
        BY <2>2, <2>3, <3>4, <4>1, SettledKept
    <3>5. QueueInv'
      BY <1>0, <2>1, <3>4 DEF QueueInv, routeVars
    <3> QED
      BY <3>3, <3>5 DEF IInv
  <2>4. ASSUME task' = NextParent([task EXCEPT !.parents = Tail(@)]), UNCHANGED <<table, writers>>
        PROVE  IInv'
    <3>1. /\ task' \in Task
          /\ task'.pc = "idle" => task' = Resting
          /\ task'.pc # "idle" => task'.parents # << >> /\ task'.name = task.name
          /\ task'.pc # "insert"
      BY <1>1, <2>1, <2>4
    <3>2. QueueInv'
      BY <1>0, <2>1, <2>4, QueueKept DEF routeVars
    <3> QED
      BY <2>1, <2>2, <2>4, <3>1, <3>2 DEF IInv, TypeOK, TaskInv, routeVars
  <2> QED
    BY <1>5, <2>3, <2>4 DEF InsertGatewayHost
<1> QED
  BY <1>2, <1>3, <1>4, <1>5 DEF GatewayTask

\* What users write.
LEMMA ClusterInv ==
  ASSUME IInv, Cluster
  PROVE  IInv'
<1>0. /\ route \in [Routes -> Route] /\ http \in [HttpRoutes -> HttpRoute]
      /\ gateway \in [Gateways -> Gateway] /\ httpEvents \in [HttpRoutes -> Seq(HttpRoute)]
      /\ QueueInv
  BY DEF IInv, TypeOK
<1>1. ASSUME NEW r \in Routes, NEW v \in Route, Store(r, v),
             UNCHANGED <<cache, pending, patching, httpVars, table, writers>>
      PROVE  IInv'
  BY <1>1, StoreInv DEF IInv, TypeOK, TaskInv, httpVars
<1>2. ASSUME NEW r \in Routes, NEW host \in Hosts \cup {None}, NEW to \in Backends \cup {None},
             WriteRoute(r, host, to)
      PROVE  IInv'
  <2> DEFINE v == [live |-> TRUE, host |-> host, to |-> to, status |-> route[r].status]
  <2>1. v \in Route
    BY <1>0 DEF Route
  <2>2. Store(r, v) /\ UNCHANGED <<cache, pending, patching, httpVars, table, writers>>
    BY <1>2 DEF WriteRoute
  <2> HIDE DEF v
  <2> QED
    BY <1>1, <2>1, <2>2
<1>3. ASSUME NEW r \in Routes, DeleteRoute(r)
      PROVE  IInv'
  BY <1>1, <1>3, AbsentTypes DEF DeleteRoute
<1>4. ASSUME NEW x \in HttpRoutes, NEW hostnames \in SUBSET Hosts, NEW parents \in ParentRefs,
             WriteHttpRoute(x, hostnames, parents)
      PROVE  IInv'
  <2> DEFINE v == [live |-> TRUE, hostnames |-> hostnames, parents |-> parents]
  <2>1. v \in HttpRoute
    BY RouteProxyAssumption DEF HttpRoute
  <2>2. /\ http' = [http EXCEPT ![x] = v]
        /\ httpEvents' = [httpEvents EXCEPT ![x] = Append(@, v)]
        /\ UNCHANGED <<names, missed, gateway, task, routeVars, table, writers>>
    BY <1>4 DEF WriteHttpRoute
  <2> HIDE DEF v
  <2>3. Append(httpEvents[x], v) \in Seq(HttpRoute)
    BY <1>0, <2>1, AppendedIsLast
  <2>4. http' \in [HttpRoutes -> HttpRoute] /\ httpEvents' \in [HttpRoutes -> Seq(HttpRoute)]
    BY <1>0, <2>1, <2>2, <2>3
  <2>5. QueueInv'
    BY <1>0, <2>2, QueueKept DEF routeVars
  <2> QED
    BY <2>2, <2>4, <2>5 DEF IInv, TypeOK, TaskInv, routeVars
<1>5. ASSUME NEW x \in HttpRoutes, DeleteHttpRoute(x)
      PROVE  IInv'
  <2>1. http' \in [HttpRoutes -> HttpRoute]
    BY <1>0, <1>5, AbsentTypes DEF DeleteHttpRoute
  <2>2. QueueInv'
    BY <1>0, <1>5, QueueKept DEF DeleteHttpRoute, routeVars
  <2> QED
    BY <1>5, <2>1, <2>2 DEF DeleteHttpRoute, IInv, TypeOK, TaskInv, routeVars
<1>6. ASSUME NEW g \in Gateways, NEW v \in Gateway, Change(g, v)
      PROVE  IInv'
  <2>1. gateway' \in [Gateways -> Gateway]
    BY <1>0, <1>6 DEF Change
  <2>2. QueueInv'
    BY <1>0, <1>6, QueueKept DEF Change, routeVars
  <2> QED
    BY <1>6, <2>1, <2>2 DEF Change, IInv, TypeOK, TaskInv, routeVars
<1>7. ASSUME NEW g \in Gateways, NEW listeners \in Listeners, WriteGateway(g, listeners)
      PROVE  IInv'
  <2>1. [gateway[g] EXCEPT !.live = TRUE, !.listeners = listeners] \in Gateway
    <3>1. listeners \in SUBSET Hosts
      BY RouteProxyAssumption
    <3> QED
      BY <1>0, <3>1 DEF Gateway
  <2> QED
    BY <1>6, <1>7, <2>1 DEF WriteGateway
<1>8. ASSUME NEW g \in Gateways, DeleteGateway(g)
      PROVE  IInv'
  <2>1. [gateway[g] EXCEPT !.live = FALSE, !.listeners = {}] \in Gateway
    BY <1>0 DEF Gateway
  <2> QED
    BY <1>6, <1>8, <2>1 DEF DeleteGateway
<1>9. ASSUME NEW g \in Gateways, \/ ensure_envoy_service(g) \/ label_service(g)
                                \/ IstioService(g) \/ DeleteService(g)
      PROVE  IInv'
  <2>1. \A labelled \in BOOLEAN :
          /\ \A b \in Backends \cup {None} :
               [gateway[g] EXCEPT !.service = b, !.labelled = labelled] \in Gateway
          /\ [gateway[g] EXCEPT !.labelled = labelled] \in Gateway
    BY <1>0 DEF Gateway
  <2>2. ServiceOf[g] \in Backends
    BY RouteProxyAssumption
  <2> QED
    BY <1>6, <1>9, <2>1, <2>2 DEF ensure_envoy_service, label_service, IstioService, DeleteService
<1> QED
  BY <1>2, <1>3, <1>4, <1>5, <1>7, <1>8, <1>9 DEF Cluster

\* A watch that lists again delivers every Route as it is; so does a start,
\* with an empty table.
LEMMA ListInv ==
  ASSUME IInv, WatchRestart \/ Restart
  PROVE  IInv'
<1>1. /\ Listed(route) \in [Routes -> Seq(Route)] /\ Listed(http) \in [HttpRoutes -> Seq(HttpRoute)]
      /\ \A r \in Routes : route[r].live => /\ Listed(route)[r] # << >>
                                            /\ Listed(route)[r][Len(Listed(route)[r])] = route[r]
  BY ListedTypes DEF IInv
<1>2. events' = Listed(route) /\ httpEvents' = Listed(http) /\ route' = route
  BY DEF WatchRestart, Restart
<1>3. QueueInv'
  BY <1>1, <1>2 DEF QueueInv
<1>4. CASE WatchRestart
  BY <1>1, <1>2, <1>3, <1>4 DEF WatchRestart, IInv, TypeOK, TaskInv
<1>5. CASE Restart
  <2>1. /\ task' = Resting /\ Resting \in Task /\ Resting.pc = "idle"
    BY <1>5, AbsentTypes DEF Restart
  <2>2. /\ cache' \in [Routes -> Route] /\ patching' \in [Routes -> Hosts \cup {None}]
        /\ table' \in [Hosts -> Backends \cup {None}]
        /\ writers' \in [Hosts -> SUBSET (Routes \cup HttpRoutes)]
        /\ missed' = {} /\ pending' = {} /\ unseen' \subseteq Routes
        /\ UNCHANGED <<names, route, http, gateway>>
    BY <1>5, AbsentTypes DEF Restart
  <2> QED
    BY <1>1, <1>2, <1>3, <2>1, <2>2 DEF IInv, TypeOK, TaskInv
<1> QED
  BY <1>4, <1>5

\* At the first start there is no Route, no event and no entry.
LEMMA InitInv ==
  ASSUME Init
  PROVE  IInv
<1>1. << >> \in Seq(Route) /\ << >> \in Seq(HttpRoute)
  BY EmptySeq
<1>2. TypeOK /\ TaskInv
  BY <1>1, AbsentTypes DEF Init, TypeOK, TaskInv
<1>3. QueueInv
  BY AbsentTypes DEF Init, QueueInv
<1> QED
  BY <1>2, <1>3 DEF IInv

\* The queues, the table and the tasks of the proxy and of the controller keep
\* the invariant from the first step on, across watch errors and restarts.
THEOREM Inductive == Spec => []IInv
<1>1. Init => IInv
  BY InitInv
<1>2. IInv /\ [Next]_vars => IInv'
  <2> SUFFICES ASSUME IInv, [Next]_vars PROVE IInv'
    OBVIOUS
  <2>1. CASE UNCHANGED vars
    BY <2>1 DEF IInv, TypeOK, QueueInv, Settled, TaskInv, vars, routeVars, httpVars
  <2>2. CASE Next
    BY <2>2, ControllerInv, BuildInv, GatewayTaskInv, ClusterInv, ListInv DEF Next
  <2> QED
    BY <2>1, <2>2
<1> QED
  BY <1>1, <1>2, PTL DEF Spec

\* Every queue, cache entry and table entry has its type.
THEOREM TypeCorrect == Spec => []TypeOK
<1>1. IInv => TypeOK
  BY DEF IInv
<1> QED
  BY <1>1, Inductive, PTL

\* build_route_table: when the events of an admitted Route have been taken and
\* nothing else wrote the entry of its host, requests go to the backend that
\* the Route names now.
THEOREM BackendsRight == Spec => []RoutesToBackend
<1>1. IInv => RoutesToBackend
  BY DEF IInv, QueueInv, Settled, RoutesToBackend, Target
<1> QED
  BY <1>1, Inductive, PTL
==============================================================================
