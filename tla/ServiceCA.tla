------------------------------- MODULE ServiceCA ------------------------------
(***************************************************************************)
(* The service CA (simulator/src/service_ca.rs): serving certificates in   *)
(* Secrets for annotated Services, and the CA certificate in ConfigMaps    *)
(* and webhook configurations.  The CA is made when the process starts     *)
(* (CaState::generate), so every restart has a new one; CAs are numbered.  *)
(* Mutating and validating webhook configurations are treated alike.       *)
(***************************************************************************)
EXTENDS Naturals, Sequences

CONSTANTS
  Services,
  Secrets,
  SecretOf,     \* the Secret the annotation of a Service names
  ConfigMaps,   \* those that ask for the CA
  Webhooks,     \* webhook configurations that ask for the CA
  Populations,  \* which of them the users of a cluster create
  MaxHooks,     \* bound: webhooks of one configuration
  MaxUid,       \* bound: how often a Service is created
  MaxCa,        \* bound: processes
  ApiMayFail,   \* whether an API call may fail for no visible reason
  None

Objects == Services \cup ConfigMaps \cup Webhooks

ASSUME ServiceCAAssumption ==
  /\ SecretOf \in [Services -> Secrets] /\ Populations \subseteq SUBSET Objects
  /\ MaxHooks \in Nat /\ MaxUid \in Nat /\ MaxCa \in Nat \ {0}
  /\ ApiMayFail \in BOOLEAN
  /\ None \notin Nat

VARIABLES
  names,    \* the objects that the users of the cluster create
  ca,       \* CaState of the process
  service,  \* cluster: uid of each Service, 0 if there is none
  uids,     \* cluster: uids given out to each Service
  secret,   \* cluster: Secrets, with the CA that signed and the owner
  bundle,   \* cluster: the CA certificates in each ConfigMap and webhook configuration
  unseen,   \* objects that changed since their controller last looked
  cache,    \* what the controllers know of them
  pending,  \* objects queued for a reconcile
  job       \* the running reconcile of each object

cluster == <<service, uids, secret, bundle>>
vars == <<names, ca, cluster, unseen, cache, pending, job>>

\* Bundles are sequences: one entry in a ConfigMap, one per webhook otherwise.
\* 0 stands for an empty one, and << >> for an object that does not exist.
Bundles == UNION {[1..n -> 0..MaxCa] : n \in 0..MaxHooks}
Secret == [ca : 1..MaxCa, service : Services, uid : 1..MaxUid] \cup {None}

\* What the watches show of an object: a Service is its uid.
Object(o) ==
  IF o \notin Services THEN bundle[o] ELSE IF service[o] = 0 THEN << >> ELSE <<service[o]>>
Cached(o) == IF o \in Services THEN {<< >>} \cup {<<u>> : u \in 1..MaxUid} ELSE Bundles

TypeOK ==
  /\ names \in Populations
  /\ ca \in 1..MaxCa
  /\ service \in [Services -> 0..MaxUid] /\ uids \in [Services -> 0..MaxUid]
  /\ secret \in [Secrets -> Secret]
  /\ \A n \in Secrets : secret[n] # None => secret[n].ca <= ca /\ SecretOf[secret[n].service] = n
  /\ bundle \in [ConfigMaps \cup Webhooks -> Bundles]
  /\ unseen \subseteq Objects /\ pending \subseteq Objects
  /\ DOMAIN cache = Objects /\ DOMAIN job = Objects
  /\ \A o \in Objects :
       /\ cache[o] \in Cached(o)
       /\ job[o] \in [pc : {"idle", "get", "delete", "create", "patch"}, of : Cached(o)]

NotCached == [o \in Objects |-> << >>]
Idle == [pc |-> "idle", of |-> << >>]

Init ==
  /\ names \in Populations
  /\ ca = 1
  /\ service = [s \in Services |-> 0] /\ uids = [s \in Services |-> 0]
  /\ secret = [n \in Secrets |-> None]
  /\ bundle = [o \in ConfigMaps \cup Webhooks |-> << >>]
  /\ unseen = {} /\ pending = {}
  /\ cache = NotCached
  /\ job = [o \in Objects |-> Idle]

------------------------------------------------------------------------------
(***************************************************************************)
(* The controllers.                                                        *)
(***************************************************************************)
Observe(o) ==
  /\ o \in unseen
  /\ unseen' = unseen \ {o}
  /\ cache' = [cache EXCEPT ![o] = Object(o)]
  /\ pending' = IF Object(o) # << >> THEN pending \cup {o} ELSE pending
  /\ UNCHANGED <<names, ca, cluster, job>>

\* A reconcile begins, with the cached object, unless there is nothing to do.
Start(o, pc) ==
  /\ o \in pending /\ job[o] = Idle
  /\ pending' = pending \ {o}
  /\ job' = [job EXCEPT ![o] = IF cache[o] # << >> /\ pc # "idle" THEN [pc |-> pc, of |-> cache[o]]
                               ELSE Idle]
  /\ UNCHANGED <<names, ca, cluster, unseen, cache>>

reconcile_service(s) == Start(s, "get")

\* Any CA certificate at all will do.
reconcile_configmap(c) == Start(c, IF cache[c] # << >> /\ cache[c][1] = 0 THEN "patch" ELSE "idle")

\* The first webhook stands for all of them.
reconcile_webhook_NonEmpty(w) ==
  Start(w, IF cache[w] # << >> /\ cache[w][1] = 0 THEN "patch" ELSE "idle")

reconcile_webhook(w) ==
  Start(w, IF cache[w] # << >> /\ cache[w][1] # ca THEN "patch" ELSE "idle")

Goto(s, pc) ==
  /\ job' = [job EXCEPT ![s] = IF pc = "idle" THEN Idle ELSE [@ EXCEPT !.pc = pc]]
  /\ UNCHANGED <<names, ca, service, uids, bundle, unseen, cache, pending>>

\* The Secret is kept if its fingerprint is that of the CA.
GetSecret_NoFingerprint(s) ==
  /\ job[s].pc = "get"
  /\ Goto(s, IF secret[SecretOf[s]] = None THEN "create" ELSE "idle")
  /\ UNCHANGED secret

GetSecret_AlwaysRenews(s) ==
  /\ job[s].pc = "get"
  /\ Goto(s, IF secret[SecretOf[s]] = None THEN "create" ELSE "delete")
  /\ UNCHANGED secret

GetSecret(s) ==
  LET e == secret[SecretOf[s]]
  IN /\ job[s].pc = "get"
     /\ Goto(s, IF e = None THEN "create" ELSE IF e.ca = ca THEN "idle" ELSE "delete")
     /\ UNCHANGED secret

DeleteSecret(s) ==
  /\ job[s].pc = "delete" /\ secret[SecretOf[s]] # None
  /\ secret' = [secret EXCEPT ![SecretOf[s]] = None]
  /\ Goto(s, "create")

\* sign_cert, and the Secret that is owned by the Service as it was cached.
CreateSecret(s) ==
  /\ job[s].pc = "create" /\ secret[SecretOf[s]] = None
  /\ secret' = [secret EXCEPT ![SecretOf[s]] = [ca |-> ca, service |-> s, uid |-> job[s].of[1]]]
  /\ Goto(s, "idle")

\* A merge patch for a ConfigMap; for webhooks a JSON patch that names the
\* entries by number, and that is refused if one of them is gone.
PatchBundle(o) ==
  /\ job[o].pc = "patch" /\ Len(bundle[o]) >= Len(job[o].of)
  /\ bundle' = [bundle EXCEPT ![o] = [i \in DOMAIN @ |-> IF i <= Len(job[o].of) THEN ca ELSE @[i]]]
  /\ unseen' = IF bundle' = bundle THEN unseen ELSE unseen \cup {o}
  /\ job' = [job EXCEPT ![o] = Idle]
  /\ UNCHANGED <<names, ca, service, uids, secret, cache, pending>>

\* The error policies: the reconcile starts again after 10 s.
error_policy_svc(o) ==
  /\ job' = [job EXCEPT ![o] = Idle]
  /\ pending' = pending \cup {o}
  /\ UNCHANGED <<names, ca, cluster, unseen, cache>>

\* 404 for a delete, 409 for a create, 404 or 422 for a patch.
Refused(o) ==
  /\ \/ job[o].pc = "delete" /\ secret[SecretOf[o]] = None
     \/ job[o].pc = "create" /\ secret[SecretOf[o]] # None
     \/ job[o].pc = "patch" /\ Len(bundle[o]) < Len(job[o].of)
  /\ error_policy_svc(o)

ApiFails(o) == ApiMayFail /\ job[o].pc # "idle" /\ error_policy_svc(o)

------------------------------------------------------------------------------
(***************************************************************************)
(* The cluster, and restarts.                                              *)
(***************************************************************************)
CreateService(s) ==
  /\ s \in names /\ service[s] = 0 /\ uids[s] < MaxUid
  /\ service' = [service EXCEPT ![s] = uids[s] + 1]
  /\ uids' = [uids EXCEPT ![s] = @ + 1]
  /\ unseen' = unseen \cup {s}
  /\ UNCHANGED <<names, ca, secret, bundle, cache, pending, job>>

TouchService(s) ==
  /\ service[s] # 0
  /\ unseen' = unseen \cup {s}
  /\ UNCHANGED <<names, ca, cluster, cache, pending, job>>

DeleteService(s) ==
  /\ service[s] # 0
  /\ service' = [service EXCEPT ![s] = 0]
  /\ unseen' = unseen \cup {s}
  /\ UNCHANGED <<names, ca, uids, secret, bundle, cache, pending, job>>

\* The garbage collector removes a Secret whose owner is gone.
CollectSecret(n) ==
  /\ secret[n] # None
  /\ service[secret[n].service] # secret[n].uid
  /\ secret' = [secret EXCEPT ![n] = None]
  /\ UNCHANGED <<names, ca, service, uids, bundle, unseen, cache, pending, job>>

\* An operator writes its object anew, or deletes it.
WriteBundle(o, b) ==
  /\ o \in names /\ (o \in ConfigMaps => Len(b) <= 1)
  /\ bundle' = [bundle EXCEPT ![o] = b]
  /\ unseen' = unseen \cup {o}
  /\ UNCHANGED <<names, ca, service, uids, secret, cache, pending, job>>

Restart ==
  /\ ca < MaxCa
  /\ ca' = ca + 1
  /\ unseen' = names
  /\ cache' = NotCached
  /\ pending' = {}
  /\ job' = [o \in Objects |-> Idle]
  /\ UNCHANGED <<names, cluster>>

Reconcile(o) ==
  \/ o \in Services /\ reconcile_service(o)
  \/ o \in ConfigMaps /\ reconcile_configmap(o)
  \/ o \in Webhooks /\ reconcile_webhook(o)

Call(o) ==
  \/ o \in Services /\ (GetSecret(o) \/ DeleteSecret(o) \/ CreateSecret(o))
  \/ o \in ConfigMaps \cup Webhooks /\ PatchBundle(o)
  \/ Refused(o)

\* The controllers, the users of the cluster and its garbage collector; then what
\* disturbs them.
Undisturbed ==
  \/ \E o \in Objects : Observe(o) \/ Reconcile(o) \/ Call(o)
  \/ \E s \in Services : CreateService(s) \/ TouchService(s) \/ DeleteService(s)
  \/ \E n \in Secrets : CollectSecret(n)
  \/ \E o \in ConfigMaps \cup Webhooks : \E n \in 0..MaxHooks : WriteBundle(o, [i \in 1..n |-> 0])

Next ==
  \/ Undisturbed
  \/ \E o \in Objects : ApiFails(o)
  \/ Restart

\* Watches deliver, queued reconciles start, API calls return.
Fairness ==
  /\ \A o \in Objects : WF_vars(Observe(o)) /\ WF_vars(Reconcile(o)) /\ WF_vars(Call(o))
  /\ \A n \in Secrets : WF_vars(CollectSecret(n))

Spec == Init /\ [][Next]_vars
FairSpec == Spec /\ Fairness

------------------------------------------------------------------------------
(***************************************************************************)
(* Properties.                                                             *)
(***************************************************************************)
\* From some time on the process stays up, and no call fails but those that the
\* API server must refuse.
Calm == <>[][Undisturbed]_vars

Certified(n) == secret[n] # None /\ secret[n].ca = ca

\* Every Service that names the Secret n is the first of its name and is there.
NeverDeleted(n) == \A s \in Services : SecretOf[s] = n => uids[s] <= 1 /\ service[s] = uids[s]

\* reconcile_service: the Secret that a Service asks for is there in the end,
\* signed by the CA of the running process, also when the process ended between
\* the delete and the create, and when two Services share the Secret.
EventuallyCertified ==
  Calm => \A s \in Services :
    <>[](service[s] # 0 /\ NeverDeleted(SecretOf[s])) => <>[]Certified(SecretOf[s])

\* reconcile_service: a Secret that one Service asks for, that is signed by the
\* CA of the running process and whose owner is there is not taken away.
CertifiedStays ==
  [][\A n \in Secrets :
       (/\ Certified(n) /\ service[secret[n].service] = secret[n].uid
        /\ \A s \in names \cap Services : SecretOf[s] = n => s = secret[n].service
        /\ ca' = ca)
       => secret'[n] = secret[n]]_vars

\* The operator of w goes on rewriting it, or not, but with no fewer webhooks.
NoLongerShortened(w) == <>[][Len(bundle'[w]) >= Len(bundle[w])]_vars

\* reconcile_webhook: the API server comes to trust the CA of the running process
\* for the first webhook of each configuration, also after restarts, and after
\* patches that were refused because the list was shortened under the
\* controller's hands; provided that this ends, as every patch of an operator's
\* longer list may be refused while it does not.
FirstWebhookTrusted ==
  Calm => \A w \in Webhooks :
    NoLongerShortened(w) => (bundle[w] # << >> ~> bundle[w] = << >> \/ bundle[w][1] = ca)
==============================================================================
