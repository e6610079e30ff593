------------------------------- MODULE MCByoidc -------------------------------
(***************************************************************************)
(* Byoidc with a provider that signs with its one RSA key, or that         *)
(* publishes another and signs with one that is not RSA.                   *)
(***************************************************************************)
EXTENDS Byoidc

CONSTANTS k1, k2, ec

mcProviders == {
  [publishes |-> {k1}, signs |-> k1],
  [publishes |-> {k2, ec}, signs |-> ec] }
==============================================================================
