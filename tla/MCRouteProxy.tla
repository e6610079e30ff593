----------------------------- MODULE MCRouteProxy -----------------------------
(***************************************************************************)
(* RouteProxy for a Route and for an HTTPRoute with its Gateway, over two  *)
(* hosts and two backends.  The two kinds meet only in a host that both of *)
(* them write, of which no property speaks.                                *)
(***************************************************************************)
EXTENDS RouteProxy

CONSTANTS ha, b1, r1, x1, g1

mcGeneratedHost == [r \in Routes |-> ha]
mcParentRefs == {<<g>> : g \in Gateways}
mcListeners == {{}, {ha}}
mcServiceOf == [g \in Gateways |-> b1]
mcApart == {{r1}, {x1, g1}}
==============================================================================
