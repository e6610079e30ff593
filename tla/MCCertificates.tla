---------------------------- MODULE MCCertificates ----------------------------
(***************************************************************************)
(* Certificates.  The service CA has one Service, two Services that name   *)
(* one Secret, or a ConfigMap and a webhook configuration: objects that    *)
(* share nothing do not affect each other, so they need not be there       *)
(* together.  Of two Namespaces the webhook skips one.  The part that a    *)
(* behaviour is not about rests in one initial state.                      *)
(***************************************************************************)
EXTENDS Certificates, TLC

CONSTANTS s1, s2, sec1, c1, w1, n1, n2, a1

mcSecretOf == [s \in Services |-> sec1]
mcPopulations == {{s1}, {s1, s2}, {c1, w1}}

\* One of the hashes is more than the number of ranges.
mcHash == n1 :> 1234500007 @@ n2 :> 99999

mcInit ==
  /\ bothInit
  /\ part # "services" => names = {s1}
  /\ part # "pods" => node = a1

mcSpec == mcInit /\ [][bothNext]_allVars /\ bothFairness
==============================================================================
