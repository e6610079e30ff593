------------------------------ MODULE MCGateway -------------------------------
(***************************************************************************)
(* Gateway with rules of two nested prefixes and two backends on different *)
(* ports.  A class shares nothing with the other objects, so it is looked  *)
(* at alone; two Gateways share their ConfigMaps, and an HTTPRoute shares  *)
(* the configuration with the Gateway it refers to.                        *)
(***************************************************************************)
EXTENDS Gateway

CONSTANTS c1, g1, g2, x1, x2, b1, b2

mcPort == b1 :> 8080 @@ b2 :> 8443
mcOneRoute == <<x1>>
mcTwoRoutes == <<x1, x2>>
mcApart == {{c1}, {g1, g2}, {g1, x1}}
mcTogether == {Objects}

\* One rule each; a rule without a backend; two rules, the general one first.
mcRules == {
  <<[prefix |-> 0, backends |-> <<b1>>]>>,
  <<[prefix |-> 0, backends |-> <<b1, b2>>], [prefix |-> 1, backends |-> <<b2>>]>>,
  <<[prefix |-> 1, backends |-> << >>]>> }
\* A rule whose backend changes.
mcOneRule == {<<[prefix |-> 0, backends |-> <<b>>]>> : b \in Backends}
==============================================================================
