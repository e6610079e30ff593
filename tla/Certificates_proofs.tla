-------------------------- MODULE Certificates_proofs -------------------------
(***************************************************************************)
(* Theorems about the service CA, for every set of Services, Secrets and   *)
(* bundles, and about the SCC webhook, for every set of Namespaces and of  *)
(* addresses; both for any number of restarts.                             *)
(***************************************************************************)
EXTENDS Certificates, SequenceTheorems, TLAPS

------------------------------------------------------------------------------
(***************************************************************************)
(* The service CA.  A reconcile deletes a Secret some time after it has    *)
(* read it.  That what it deletes is not what it should keep rests on      *)
(* DeleteInv: the CA has not changed since, so a Secret that is of the     *)
(* present CA was created in between, and not by this reconcile.           *)
(***************************************************************************)
\* A reconcile that has begun has an object to work on.
OfInv == \A o \in Objects : job[o].pc # "idle" => job[o].of # << >>

\* Only Services that users create are there, are seen and are reconciled.
NamesInv ==
  \A s \in Services : service[s] # 0 \/ cache[s] # << >> \/ job[s].pc # "idle" => s \in names

\* A Secret that a reconcile is about to delete is signed by an earlier CA, or
\* was created by the reconcile of another Service since it was read.
DeleteInv ==
  \A s \in Services :
    job[s].pc = "delete" /\ Certified(SecretOf[s]) => secret[SecretOf[s]].service # s

IInv == TypeOK /\ OfInv /\ NamesInv /\ DeleteInv

JobOf(o) == [pc : {"idle", "get", "delete", "create", "patch"}, of : Cached(o)]

\* The watches show objects of their types, or none.
LEMMA ObjectTypes ==
  ASSUME TypeOK, NEW o \in Objects
  PROVE  Object(o) \in Cached(o) /\ << >> \in Cached(o)
<1>1. CASE o \in Services
  <2>1. service[o] \in 0 .. MaxUid /\ MaxUid \in Nat
    BY <1>1, ServiceCAAssumption DEF TypeOK
  <2>2. service[o] # 0 => service[o] \in 1 .. MaxUid
    BY <2>1
  <2> QED
    BY <1>1, <2>2 DEF Object, Cached
<1>2. CASE o \notin Services
  <2>1. bundle[o] \in Bundles
    BY <1>2 DEF TypeOK, Objects
  <2>2. << >> \in [1 .. 0 -> 0 .. MaxCa]
    OBVIOUS
  <2>3. 0 \in 0 .. MaxHooks
    BY ServiceCAAssumption
  <2>4. << >> \in Bundles
    BY <2>2, <2>3 DEF Bundles
  <2> QED
    BY <1>2, <2>1, <2>4 DEF Object, Cached
<1> QED
  BY <1>1, <1>2

\* A job is one of the kind of its object, and an idle one is of every kind.
LEMMA JobTypes ==
  ASSUME TypeOK, NEW o \in Objects
  PROVE  /\ Idle \in JobOf(o) /\ Idle.pc = "idle"
         /\ \A pc \in {"get", "delete", "create", "patch"}, c \in Cached(o) :
              [pc |-> pc, of |-> c] \in JobOf(o)
         /\ \A pc \in {"get", "delete", "create", "patch"}, j \in JobOf(o) :
              /\ [j EXCEPT !.pc = pc] \in JobOf(o)
              /\ [j EXCEPT !.pc = pc].pc = pc /\ [j EXCEPT !.pc = pc].of = j.of
  BY ObjectTypes DEF Idle, JobOf

\* What the certificate of a Service says of its owner.
LEMMA OwnerTypes ==
  ASSUME NEW s \in Services, NEW c \in Cached(s), c # << >>
  PROVE  c[1] \in 1 .. MaxUid
  BY DEF Cached

\* The job of an object is replaced by one with an object to work on.
LEMMA JobParts ==
  ASSUME IInv, NEW o \in Objects, NEW j \in JobOf(o), j.pc # "idle" => j.of # << >>,
         job' = [job EXCEPT ![o] = j]
  PROVE  /\ DOMAIN job' = Objects /\ \A q \in Objects : job'[q] \in JobOf(q)
         /\ OfInv'
         /\ job'[o] = j /\ \A q \in Objects \ {o} : job'[q] = job[q]
<1>1. /\ DOMAIN job' = Objects
      /\ job'[o] = j /\ \A q \in Objects \ {o} : job'[q] = job[q]
  BY DEF IInv, TypeOK
<1>2. \A q \in Objects : job'[q] \in JobOf(q)
  BY <1>1 DEF IInv, TypeOK, JobOf
<1>3. OfInv'
  BY <1>1 DEF IInv, OfInv
<1> QED
  BY <1>1, <1>2, <1>3

\* A step of a reconcile that leaves the cluster as it is.
LEMMA JobStep ==
  ASSUME IInv, NEW o \in Objects, NEW j \in JobOf(o), j.pc # "idle" => j.of # << >>,
         job' = [job EXCEPT ![o] = j],
         o \in Services /\ j.pc # "idle" => o \in names,
         o \in Services /\ j.pc = "delete" /\ Certified(SecretOf[o]) => secret[SecretOf[o]].service # o,
         pending' \subseteq Objects, unseen' \subseteq Objects,
         UNCHANGED <<names, ca, service, uids, secret, cache>>,
         bundle' \in [ConfigMaps \cup Webhooks -> Bundles]
  PROVE  IInv'
<1>0. Services \subseteq Objects
  BY DEF Objects
<1>1. /\ DOMAIN job' = Objects /\ \A q \in Objects : job'[q] \in JobOf(q)
      /\ OfInv'
      /\ job'[o] = j /\ \A q \in Objects \ {o} : job'[q] = job[q]
  BY JobParts
<1>2. TypeOK'
  BY <1>1 DEF IInv, TypeOK, JobOf, Cached
<1>3. NamesInv'
  BY <1>0, <1>1 DEF IInv, NamesInv
<1>4. DeleteInv'
  BY <1>0, <1>1 DEF IInv, DeleteInv, Certified
<1> QED
  BY <1>1, <1>2, <1>3, <1>4 DEF IInv

\* A reconcile begins with the object as it was seen.
LEMMA ReconcileInv ==
  ASSUME IInv, NEW o \in Objects, Reconcile(o)
  PROVE  IInv'
<1>1. PICK pc \in {"idle", "get", "patch"} : Start(o, pc)
  BY DEF Reconcile, reconcile_service, reconcile_configmap, reconcile_webhook
<1> DEFINE j == IF cache[o] # << >> /\ pc # "idle" THEN [pc |-> pc, of |-> cache[o]] ELSE Idle
<1>2. /\ job' = [job EXCEPT ![o] = j] /\ pending' \subseteq Objects /\ unseen' \subseteq Objects
      /\ UNCHANGED <<names, ca, service, uids, secret, cache, bundle>>
      /\ bundle' \in [ConfigMaps \cup Webhooks -> Bundles]
  BY <1>1 DEF Start, cluster, IInv, TypeOK
<1>3. /\ j \in JobOf(o) /\ (j.pc # "idle" => j.of # << >> /\ cache[o] # << >>)
      /\ j.pc # "delete"
  <2>1. cache[o] \in Cached(o)
    BY DEF IInv, TypeOK
  <2>2. CASE cache[o] # << >> /\ pc # "idle"
    BY <2>1, <2>2, JobTypes DEF IInv
  <2>3. CASE ~(cache[o] # << >> /\ pc # "idle")
    BY <2>3, JobTypes DEF IInv
  <2> QED
    BY <2>2, <2>3
<1> HIDE DEF j
<1>4. o \in Services /\ j.pc # "idle" => o \in names
  BY <1>3 DEF IInv, NamesInv
<1> QED
  BY <1>2, <1>3, <1>4, JobStep

\* The error policies give a job up.
LEMMA GiveUpInv ==
  ASSUME IInv, NEW o \in Objects, error_policy_svc(o)
  PROVE  IInv'
<1>1. /\ job' = [job EXCEPT ![o] = Idle] /\ pending' \subseteq Objects /\ unseen' \subseteq Objects
      /\ UNCHANGED <<names, ca, service, uids, secret, cache>>
      /\ bundle' \in [ConfigMaps \cup Webhooks -> Bundles]
  BY DEF error_policy_svc, cluster, IInv, TypeOK
<1>2. Idle \in JobOf(o) /\ Idle.pc = "idle"
  BY JobTypes DEF IInv
<1> QED
  BY <1>1, <1>2, JobStep

\* The CA goes into a ConfigMap or a webhook configuration.
LEMMA PatchInv ==
  ASSUME IInv, NEW o \in ConfigMaps \cup Webhooks, PatchBundle(o)
  PROVE  IInv'
<1>0. o \in Objects
  BY DEF Objects
<1> DEFINE b == [i \in DOMAIN bundle[o] |-> IF i <= Len(job[o].of) THEN ca ELSE bundle[o][i]]
<1>1. /\ job' = [job EXCEPT ![o] = Idle] /\ pending' \subseteq Objects /\ unseen' \subseteq Objects
      /\ UNCHANGED <<names, ca, service, uids, secret, cache>>
      /\ bundle' = [bundle EXCEPT ![o] = b]
  <2>1. unseen' \in {unseen, unseen \cup {o}}
    BY DEF PatchBundle
  <2> QED
    BY <1>0, <2>1 DEF PatchBundle, IInv, TypeOK
<1>2. b \in Bundles
  <2>0. bundle[o] \in Bundles
    BY DEF IInv, TypeOK
  <2>1. PICK n \in 0 .. MaxHooks : bundle[o] \in [1 .. n -> 0 .. MaxCa]
    BY <2>0, Zenon DEF Bundles
  <2>2. ca \in 0 .. MaxCa
    BY ServiceCAAssumption DEF IInv, TypeOK
  <2>3. b \in [1 .. n -> 0 .. MaxCa]
    BY <2>1, <2>2
  <2> QED
    BY <2>3 DEF Bundles
<1> HIDE DEF b
<1>3. bundle' \in [ConfigMaps \cup Webhooks -> Bundles]
  BY <1>1, <1>2 DEF IInv, TypeOK
<1>4. Idle \in JobOf(o) /\ Idle.pc = "idle"
  BY <1>0, JobTypes DEF IInv
<1> QED
  BY <1>0, <1>1, <1>3, <1>4, JobStep

\* The Secret is read, deleted and created; only what an earlier CA signed is
\* deleted.
LEMMA SecretInv ==
  ASSUME IInv, NEW s \in Services, GetSecret(s) \/ DeleteSecret(s) \/ CreateSecret(s)
  PROVE  IInv'
<1> DEFINE n == SecretOf[s]
           e == secret[n]
<1>0. /\ s \in Objects /\ n \in Secrets /\ Services \subseteq Objects
      /\ \A t \in Services : SecretOf[t] \in Secrets
  BY ServiceCAAssumption DEF Objects
<1>1. /\ job[s] \in JobOf(s) /\ job[s].pc \in {"get", "delete", "create"} /\ job[s].of # << >>
      /\ s \in names /\ job[s].of \in Cached(s)
  <2>1. job[s] \in JobOf(s) /\ job[s].pc \in {"get", "delete", "create"}
    BY <1>0 DEF IInv, TypeOK, JobOf, GetSecret, DeleteSecret, CreateSecret
  <2> QED
    BY <1>0, <2>1 DEF IInv, OfInv, NamesInv, JobOf
<1>2. ASSUME NEW pc \in {"idle", "create", "delete"}, Goto(s, pc)
      PROVE  \E j \in JobOf(s) : /\ job' = [job EXCEPT ![s] = j]
                                 /\ j.pc = pc /\ (j.pc # "idle" => j.of # << >>)
  <2>1. CASE pc = "idle"
    BY <1>0, <1>2, <2>1, JobTypes DEF Goto, IInv
  <2>2. CASE pc # "idle"
    <3> DEFINE j == [job[s] EXCEPT !.pc = pc]
    <3>1. job' = [job EXCEPT ![s] = j]
      BY <1>2, <2>2 DEF Goto
    <3>2. j \in JobOf(s) /\ j.pc = pc /\ j.of = job[s].of
      BY <1>0, <1>1, <2>2, JobTypes DEF IInv
    <3> QED
      BY <1>1, <3>1, <3>2
  <2> QED
    BY <2>1, <2>2
<1>3. CASE GetSecret(s)
  <2> DEFINE pc == IF e = None THEN "create" ELSE IF e.ca = ca THEN "idle" ELSE "delete"
  <2>1. Goto(s, pc) /\ secret' = secret
    BY <1>3 DEF GetSecret
  <2>2. pc \in {"idle", "create", "delete"} /\ (pc = "delete" => ~Certified(n))
    BY DEF Certified
  <2> HIDE DEF pc, n
  <2>3. PICK j \in JobOf(s) : /\ job' = [job EXCEPT ![s] = j]
                              /\ j.pc = pc /\ (j.pc # "idle" => j.of # << >>)
    BY <1>2, <2>1, <2>2
  <2>4. /\ pending' \subseteq Objects /\ unseen' \subseteq Objects
        /\ UNCHANGED <<names, ca, service, uids, secret, cache>>
        /\ bundle' \in [ConfigMaps \cup Webhooks -> Bundles]
    BY <2>1 DEF Goto, IInv, TypeOK
  <2> QED
    BY <1>0, <1>1, <2>2, <2>3, <2>4, JobStep DEF n
<1>4. ASSUME NEW v \in Secret, NEW pc \in {"idle", "create"}, Goto(s, pc),
             secret' = [secret EXCEPT ![n] = v],
             v # None => v.ca = ca /\ v.service = s
      PROVE  IInv'
  <2>1. PICK j \in JobOf(s) : /\ job' = [job EXCEPT ![s] = j]
                              /\ j.pc = pc /\ (j.pc # "idle" => j.of # << >>)
    BY <1>2, <1>4
  <2>2. /\ DOMAIN job' = Objects /\ \A q \in Objects : job'[q] \in JobOf(q)
        /\ OfInv'
        /\ job'[s] = j /\ \A q \in Objects \ {s} : job'[q] = job[q]
    BY <1>0, <2>1, JobParts
  <2>3. UNCHANGED <<names, ca, service, uids, bundle, unseen, cache, pending>>
    BY <1>4 DEF Goto
  <2>4. /\ secret' \in [Secrets -> Secret] /\ secret'[n] = v
        /\ \A m \in Secrets \ {n} : secret'[m] = secret[m]
    BY <1>0, <1>4 DEF IInv, TypeOK
  <2>5. TypeOK'
    <3>1. \A m \in Secrets : secret'[m] # None => secret'[m].ca <= ca /\ SecretOf[secret'[m].service] = m
      <4>1. ca \in Nat /\ ca <= ca
        BY ServiceCAAssumption DEF IInv, TypeOK
      <4>2. v # None => v.ca <= ca /\ SecretOf[v.service] = n
        BY <1>4, <4>1
      <4> HIDE DEF n
      <4> QED
        BY <2>4, <4>2 DEF IInv, TypeOK
    <3> QED
      BY <2>2, <2>3, <2>4, <3>1 DEF IInv, TypeOK, JobOf, Cached
  <2>6. NamesInv'
    BY <1>0, <1>1, <2>2, <2>3 DEF IInv, NamesInv
  <2>7. DeleteInv'
    <3> SUFFICES ASSUME NEW t \in Services, job'[t].pc = "delete", Certified(SecretOf[t])'
                 PROVE  secret'[SecretOf[t]].service # t
      BY DEF DeleteInv
    <3>1. t # s
      BY <1>4, <2>1, <2>2
    <3>2. CASE SecretOf[t] = n
      BY <1>4, <2>4, <3>1, <3>2 DEF Certified
    <3>3. CASE SecretOf[t] # n
      BY <1>0, <2>2, <2>3, <2>4, <3>1, <3>3 DEF Certified, IInv, DeleteInv
    <3> QED
      BY <3>2, <3>3
  <2> QED
    BY <2>2, <2>5, <2>6, <2>7 DEF IInv
<1>5. CASE DeleteSecret(s)
  <2>1. None \in Secret
    BY DEF Secret
  <2> QED
    BY <1>4, <1>5, <2>1 DEF DeleteSecret
<1>6. CASE CreateSecret(s)
  <2> DEFINE v == [ca |-> ca, service |-> s, uid |-> job[s].of[1]]
  <2>1. job[s].of[1] \in 1 .. MaxUid
    BY <1>1, OwnerTypes
  <2>2. v \in Secret /\ v.ca = ca /\ v.service = s
    BY <2>1 DEF Secret, IInv, TypeOK
  <2> HIDE DEF v
  <2>3. secret' = [secret EXCEPT ![n] = v] /\ Goto(s, "idle")
    BY <1>6 DEF CreateSecret, v
  <2> QED
    BY <1>4, <2>2, <2>3
<1> QED
  BY <1>3, <1>5, <1>6

\* Users create, touch and delete Services; the garbage collector follows.
LEMMA ClusterInv ==
  ASSUME IInv,
         \/ \E s \in Services : CreateService(s) \/ TouchService(s) \/ DeleteService(s)
         \/ \E n \in Secrets : CollectSecret(n)
         \/ \E o \in ConfigMaps \cup Webhooks : \E n \in 0..MaxHooks : WriteBundle(o, [i \in 1..n |-> 0])
  PROVE  IInv'
<1>0. Services \subseteq Objects /\ ConfigMaps \subseteq Objects /\ Webhooks \subseteq Objects
  BY DEF Objects
<1>1. UNCHANGED <<names, ca, cache, pending, job>>
  BY DEF CreateService, TouchService, DeleteService, CollectSecret, WriteBundle
<1>2. OfInv'
  BY <1>1 DEF IInv, OfInv
<1>3. ASSUME NEW s \in Services, CreateService(s) \/ TouchService(s) \/ DeleteService(s)
      PROVE  IInv'
  <2>1. /\ service' \in [Services -> 0 .. MaxUid] /\ uids' \in [Services -> 0 .. MaxUid]
        /\ \A t \in Services : service'[t] # 0 => t \in names
    <3>1. CASE CreateService(s)
      <4>1. uids[s] + 1 \in 0 .. MaxUid
        BY <3>1, ServiceCAAssumption DEF CreateService, IInv, TypeOK
      <4> QED
        BY <3>1, <4>1 DEF CreateService, IInv, TypeOK, NamesInv
    <3>2. CASE TouchService(s)
      BY <3>2 DEF TouchService, cluster, IInv, TypeOK, NamesInv
    <3>3. CASE DeleteService(s)
      <4>1. 0 \in 0 .. MaxUid
        BY ServiceCAAssumption
      <4> QED
        BY <3>3, <4>1 DEF DeleteService, IInv, TypeOK, NamesInv
    <3> QED
      BY <1>3, <3>1, <3>2, <3>3
  <2>2. UNCHANGED <<secret, bundle>> /\ unseen' \subseteq Objects
    BY <1>0, <1>3 DEF CreateService, TouchService, DeleteService, cluster, IInv, TypeOK
  <2>3. TypeOK'
    BY <1>1, <2>1, <2>2 DEF IInv, TypeOK, Cached
  <2>4. NamesInv' /\ DeleteInv'
    BY <1>1, <2>1, <2>2 DEF IInv, NamesInv, DeleteInv, Certified
  <2> QED
    BY <1>2, <2>3, <2>4 DEF IInv
<1>4. ASSUME NEW n \in Secrets, CollectSecret(n)
      PROVE  IInv'
  <2>1. UNCHANGED <<service, uids, bundle, unseen>>
    BY <1>4 DEF CollectSecret
  <2>2. /\ secret' \in [Secrets -> Secret] /\ secret'[n] = None
        /\ \A m \in Secrets \ {n} : secret'[m] = secret[m]
    BY <1>4 DEF CollectSecret, IInv, TypeOK, Secret
  <2>3. TypeOK'
    BY <1>1, <2>1, <2>2 DEF IInv, TypeOK, Cached
  <2>4. NamesInv'
    BY <1>1, <2>1 DEF IInv, NamesInv
  <2>5. DeleteInv'
    <3>1. \A t \in Services : SecretOf[t] \in Secrets
      BY ServiceCAAssumption
    <3> QED
      BY <1>1, <2>2, <3>1 DEF IInv, DeleteInv, Certified
  <2> QED
    BY <1>2, <2>3, <2>4, <2>5 DEF IInv
<1>5. ASSUME NEW o \in ConfigMaps \cup Webhooks, NEW n \in 0 .. MaxHooks,
             WriteBundle(o, [i \in 1 .. n |-> 0])
      PROVE  IInv'
  <2>1. UNCHANGED <<service, uids, secret>> /\ unseen' \subseteq Objects
    BY <1>0, <1>5 DEF WriteBundle, IInv, TypeOK
  <2>2. [i \in 1 .. n |-> 0] \in Bundles
    <3>1. [i \in 1 .. n |-> 0] \in [1 .. n -> 0 .. MaxCa]
      BY ServiceCAAssumption
    <3> QED
      BY <3>1 DEF Bundles
  <2> DEFINE b == [i \in 1 .. n |-> 0]
  <2>3. bundle' = [bundle EXCEPT ![o] = b]
    BY <1>5 DEF WriteBundle
  <2> HIDE DEF b
  <2>4. bundle' \in [ConfigMaps \cup Webhooks -> Bundles]
    BY <2>2, <2>3 DEF IInv, TypeOK, b
  <2>5. TypeOK'
    BY <1>1, <2>1, <2>4 DEF IInv, TypeOK, Cached
  <2>6. NamesInv' /\ DeleteInv'
    BY <1>1, <2>1 DEF IInv, NamesInv, DeleteInv, Certified
  <2> QED
    BY <1>2, <2>5, <2>6 DEF IInv
<1> QED
  BY <1>3, <1>4, <1>5

\* Watches deliver, and a restart forgets every job and makes a new CA.
LEMMA ProcessInv ==
  ASSUME IInv, Restart \/ \E o \in Objects : Observe(o)
  PROVE  IInv'
<1>0. Services \subseteq Objects
  BY DEF Objects
<1>1. UNCHANGED <<names, service, uids, secret, bundle>>
  BY DEF Restart, Observe, cluster
<1>2. CASE \E o \in Objects : Observe(o)
  <2>1. PICK o \in Objects : Observe(o)
    BY <1>2
  <2>2. /\ ca' = ca /\ job' = job /\ unseen' \subseteq Objects /\ pending' \subseteq Objects
        /\ DOMAIN cache' = Objects /\ cache'[o] = Object(o)
        /\ \A q \in Objects \ {o} : cache'[q] = cache[q]
    BY <2>1 DEF Observe, IInv, TypeOK
  <2>3. \A q \in Objects : cache'[q] \in Cached(q)
    BY <2>2, ObjectTypes DEF IInv, TypeOK
  <2>4. TypeOK'
    BY <1>1, <2>2, <2>3 DEF IInv, TypeOK, Cached
  <2>5. NamesInv'
    <3>1. o \in Services /\ Object(o) # << >> => service[o] # 0
      BY DEF Object
    <3> QED
      BY <1>0, <1>1, <2>2, <3>1 DEF IInv, NamesInv
  <2>6. OfInv' /\ DeleteInv'
    BY <1>1, <2>2 DEF IInv, OfInv, DeleteInv, Certified
  <2> QED
    BY <2>4, <2>5, <2>6 DEF IInv
<1>3. CASE Restart
  <2>1. /\ ca \in Nat /\ ca' = ca + 1 /\ ca' \in 1 .. MaxCa
    BY <1>3, ServiceCAAssumption DEF Restart, IInv, TypeOK
  <2>2. /\ DOMAIN job' = Objects /\ DOMAIN cache' = Objects
        /\ \A q \in Objects : /\ job'[q] \in JobOf(q) /\ job'[q].pc = "idle"
                              /\ cache'[q] \in Cached(q) /\ cache'[q] = << >>
    BY <1>3, JobTypes, ObjectTypes DEF Restart, NotCached, IInv
  <2>3. unseen' \subseteq Objects /\ pending' \subseteq Objects
    BY <1>3, ServiceCAAssumption DEF Restart, IInv, TypeOK
  <2>4. \A n \in Secrets : secret[n] # None => secret[n].ca <= ca'
    <3>1. \A n \in Secrets : secret[n] # None => secret[n].ca \in 1 .. MaxCa /\ secret[n].ca <= ca
      BY DEF IInv, TypeOK, Secret
    <3> QED
      BY <2>1, <3>1, ServiceCAAssumption
  <2>5. TypeOK'
    BY <1>1, <2>1, <2>2, <2>3, <2>4 DEF IInv, TypeOK, JobOf, Cached
  <2>6. OfInv' /\ NamesInv' /\ DeleteInv'
    BY <1>0, <1>1, <2>2 DEF IInv, OfInv, NamesInv, DeleteInv
  <2> QED
    BY <2>5, <2>6 DEF IInv
<1> QED
  BY <1>2, <1>3

\* Every call of a reconcile to the API server.
LEMMA CallInv ==
  ASSUME IInv, NEW o \in Objects, Call(o) \/ ApiFails(o)
  PROVE  IInv'
<1>1. CASE o \in Services /\ (GetSecret(o) \/ DeleteSecret(o) \/ CreateSecret(o))
  BY <1>1, SecretInv
<1>2. CASE o \in ConfigMaps \cup Webhooks /\ PatchBundle(o)
  BY <1>2, PatchInv
<1>3. CASE Refused(o) \/ ApiFails(o)
  BY <1>3, GiveUpInv DEF Refused, ApiFails
<1> QED
  BY <1>1, <1>2, <1>3 DEF Call

\* Every step of a controller, of the cluster and every restart keeps the
\* invariant.
LEMMA StepInv ==
  ASSUME IInv, Next
  PROVE  IInv'
<1>1. CASE \E o \in Objects : Reconcile(o)
  BY <1>1, ReconcileInv
<1>2. CASE \E o \in Objects : Call(o) \/ ApiFails(o)
  BY <1>2, CallInv
<1>3. CASE Restart \/ \E o \in Objects : Observe(o)
  BY <1>3, ProcessInv
<1>4. CASE \/ \E s \in Services : CreateService(s) \/ TouchService(s) \/ DeleteService(s)
           \/ \E n \in Secrets : CollectSecret(n)
           \/ \E o \in ConfigMaps \cup Webhooks : \E n \in 0..MaxHooks : WriteBundle(o, [i \in 1..n |-> 0])
  BY <1>4, ClusterInv
<1> QED
  BY <1>1, <1>2, <1>3, <1>4 DEF Next, Undisturbed

\* The service CA stays within its invariant, with any number of Services,
\* Secrets, bundles and restarts.
THEOREM Inductive == Spec => []IInv
<1>1. Init => IInv
  <2> SUFFICES ASSUME Init PROVE IInv
    OBVIOUS
  <2>1. /\ << >> \in Bundles /\ \A o \in Objects : << >> \in Cached(o)
    <3>1. << >> \in [1 .. 0 -> 0 .. MaxCa] /\ 0 \in 0 .. MaxHooks
      BY ServiceCAAssumption
    <3>2. << >> \in Bundles
      BY <3>1 DEF Bundles
    <3> QED
      BY <3>2 DEF Cached
  <2>2. /\ DOMAIN job = Objects /\ DOMAIN cache = Objects
        /\ \A o \in Objects : job[o] = Idle /\ cache[o] = << >>
    BY DEF Init, NotCached
  <2>3. Idle.pc = "idle" /\ \A o \in Objects : Idle \in JobOf(o)
    BY <2>1 DEF Idle, JobOf
  <2>4. /\ service \in [Services -> 0 .. MaxUid] /\ uids \in [Services -> 0 .. MaxUid]
        /\ \A s \in Services : service[s] = 0
    BY ServiceCAAssumption DEF Init
  <2>5. /\ secret \in [Secrets -> Secret] /\ \A n \in Secrets : secret[n] = None
        /\ bundle \in [ConfigMaps \cup Webhooks -> Bundles]
    BY <2>1 DEF Init, Secret
  <2>6. ca \in 1 .. MaxCa /\ names \in Populations /\ unseen = {} /\ pending = {}
    BY ServiceCAAssumption DEF Init
  <2>7. TypeOK
    BY <2>1, <2>2, <2>3, <2>4, <2>5, <2>6 DEF TypeOK, JobOf
  <2>8. Services \subseteq Objects
    BY DEF Objects
  <2>9. OfInv /\ NamesInv /\ DeleteInv
    BY <2>2, <2>3, <2>4, <2>8 DEF OfInv, NamesInv, DeleteInv
  <2> QED
    BY <2>7, <2>9 DEF IInv
<1>2. IInv /\ [Next]_vars => IInv'
  <2> SUFFICES ASSUME IInv, [Next]_vars PROVE IInv'
    OBVIOUS
  <2>1. CASE Next
    BY <2>1, StepInv
  <2>2. CASE UNCHANGED vars
    BY <2>2 DEF vars, cluster, IInv, TypeOK, OfInv, NamesInv, DeleteInv, Certified, Cached
  <2> QED
    BY <2>1, <2>2
<1> QED
  BY <1>1, <1>2, PTL DEF Spec

\* The Secrets, the bundles and the jobs of the service CA have their types; no
\* certificate is of a CA that there has not been yet.
THEOREM TypeCorrect == Spec => []TypeOK
<1>1. IInv => TypeOK
  BY DEF IInv
<1> QED
  BY <1>1, Inductive, PTL

\* What a single step may do to a Secret that need not be renewed.
Stays(n) ==
  (/\ Certified(n) /\ service[secret[n].service] = secret[n].uid
   /\ \A s \in names \cap Services : SecretOf[s] = n => s = secret[n].service
   /\ ca' = ca)
  => secret'[n] = secret[n]

\* reconcile_service: a Secret of one Service that is signed by the CA of the
\* running process and whose owner is there is not taken away, whatever was read
\* before it was created, however often the reconcile is repeated.
THEOREM CertificatesStay == Spec => CertifiedStays
<1>1. IInv /\ [Next]_vars => [\A n \in Secrets : Stays(n)]_vars
  <2> SUFFICES ASSUME IInv, Next, NEW n \in Secrets, Certified(n),
                      service[secret[n].service] = secret[n].uid,
                      \A s \in names \cap Services : SecretOf[s] = n => s = secret[n].service
               PROVE  secret'[n] = secret[n]
    BY DEF Stays
  <2>1. ASSUME NEW s \in Services, DeleteSecret(s)
        PROVE  SecretOf[s] # n
    <3> SUFFICES ASSUME SecretOf[s] = n PROVE FALSE
      OBVIOUS
    <3>1. job[s].pc = "delete"
      BY <2>1 DEF DeleteSecret
    <3>2. s \in names /\ secret[n].service # s
      BY <3>1 DEF IInv, NamesInv, DeleteInv
    <3> QED
      BY <3>2
  <2>2. ASSUME NEW s \in Services, CreateSecret(s)
        PROVE  SecretOf[s] # n
    BY <2>2 DEF CreateSecret, Certified
  <2>3. secret \in [Secrets -> Secret] /\ \A s \in Services : SecretOf[s] \in Secrets
    BY ServiceCAAssumption DEF IInv, TypeOK
  <2>4. CASE \E o \in Objects : Call(o) \/ ApiFails(o)
    <3>1. PICK o \in Objects : Call(o) \/ ApiFails(o)
      BY <2>4
    <3>2. CASE o \in Services /\ DeleteSecret(o)
      BY <2>1, <2>3, <3>2 DEF DeleteSecret
    <3>3. CASE o \in Services /\ CreateSecret(o)
      BY <2>2, <2>3, <3>3 DEF CreateSecret
    <3>4. CASE GetSecret(o) \/ PatchBundle(o) \/ Refused(o) \/ ApiFails(o)
      BY <3>4 DEF GetSecret, PatchBundle, Refused, ApiFails, error_policy_svc, cluster
    <3> QED
      BY <3>1, <3>2, <3>3, <3>4 DEF Call
  <2>5. CASE \E m \in Secrets : CollectSecret(m)
    BY <2>3, <2>5 DEF CollectSecret
  <2>6. CASE \/ Restart \/ \E o \in Objects : Observe(o) \/ Reconcile(o)
             \/ \E s \in Services : CreateService(s) \/ TouchService(s) \/ DeleteService(s)
             \/ \E o \in ConfigMaps \cup Webhooks :
                  \E k \in 0..MaxHooks : WriteBundle(o, [i \in 1..k |-> 0])
    BY <2>6 DEF Restart, Observe, Reconcile, reconcile_service, reconcile_configmap,
                reconcile_webhook, Start, CreateService, TouchService, DeleteService, WriteBundle,
                cluster
  <2> QED
    BY <2>4, <2>5, <2>6 DEF Next, Undisturbed
<1>2. [][\A n \in Secrets : Stays(n)]_vars => CertifiedStays
  BY PTL DEF CertifiedStays, Stays
<1> QED
  BY <1>1, <1>2, Inductive, PTL DEF Spec

------------------------------------------------------------------------------
(***************************************************************************)
(* The SCC webhook.  PodsGetTheirGroup speaks of a process that listens.   *)
(* RegisteredInv carries what it needs from the registration on, over the  *)
(* bind and all that happens meanwhile, and says what a restart undoes.    *)
(***************************************************************************)
\* A process that registered itself did so with the address it found and the CA it
\* made, and no other process has written the registration since.
RegisteredInv ==
  /\ proc.pc # "address" => proc.address \in Addresses
  /\ proc.registered => /\ proc.pc \in {"bind", "listening"}
                        /\ mwc = [address |-> proc.address, currentCA |-> TRUE]

PodInv == Pods!TypeOK /\ RegisteredInv

\* A range starts at a number.
LEMMA RangeIsNumber ==
  ASSUME NEW n \in Namespaces
  PROVE  /\ Pods!uid_range_for_namespace(n) \in Nat /\ Pods!uid_range_for_namespace(n) # None
         /\ Pods!uid_range_for_namespace(n) \in Pods!Ranges
<1>1. Hash[n] \in Nat
  BY PodMutateAssumption
<1>2. Hash[n] % 100000 \in Nat
  BY <1>1
<1>3. 1000000000 + (Hash[n] % 100000) * 10000 \in Nat
  BY <1>2
<1>4. Pods!uid_range_for_namespace(n) \in Nat
  BY <1>3 DEF Pods!uid_range_for_namespace
<1> QED
  BY <1>4, ServiceCAAssumption DEF Pods!Ranges

\* The start of the process.
LEMMA RunInv ==
  ASSUME PodInv, Pods!Run
  PROVE  PodInv'
<1> USE DEF PodInv, RegisteredInv, Pods!TypeOK
<1>1. proc \in Pods!Process /\ node \in Addresses
  OBVIOUS
<1>2. CASE Pods!get_node_ip
  <2>1. proc' = [proc EXCEPT !.pc = "register", !.address = node] /\ ~proc.registered
        /\ UNCHANGED <<podNs, mwc, node, podUnseen, podCache, podPending, podJob>>
    BY <1>1, <1>2 DEF Pods!get_node_ip, Pods!controller, Pods!Process
  <2>2. proc' \in Pods!Process /\ proc'.pc = "register" /\ proc'.address = node /\ ~proc'.registered
    BY <1>1, <2>1 DEF Pods!Process
  <2> QED
    BY <2>1, <2>2
<1>3. CASE Pods!setup_webhook
  <2>1. /\ proc.pc = "register"
        /\ proc' = [proc EXCEPT !.pc = "bind", !.registered = TRUE]
        /\ mwc' = [address |-> proc.address, currentCA |-> TRUE]
        /\ podUnseen' = {n \in Namespaces : podNs[n].live}
        /\ UNCHANGED <<podNs, node, podCache, podPending, podJob>>
    BY <1>3 DEF Pods!setup_webhook, Pods!StartController
  <2>2. proc' \in Pods!Process /\ proc'.pc = "bind" /\ proc'.address = proc.address
    BY <1>1, <2>1 DEF Pods!Process
  <2>3. proc.address \in Addresses
    BY <2>1
  <2>4. mwc' \in [address : Addresses, currentCA : BOOLEAN]
    BY <2>1, <2>3
  <2> QED
    BY <2>1, <2>2, <2>3, <2>4
<1>4. CASE Pods!setup_webhook_fails
  <2>1. /\ proc.pc = "register" /\ ~proc.registered
        /\ proc' = [proc EXCEPT !.pc = "bind"]
        /\ podUnseen' = {n \in Namespaces : podNs[n].live}
        /\ UNCHANGED <<podNs, mwc, node, podCache, podPending, podJob>>
    BY <1>1, <1>4 DEF Pods!setup_webhook_fails, Pods!StartController, Pods!Process
  <2>2. proc' \in Pods!Process /\ proc'.pc = "bind" /\ proc'.address = proc.address /\ ~proc'.registered
    BY <1>1, <2>1 DEF Pods!Process
  <2> QED
    BY <2>1, <2>2
<1>5. CASE Pods!Bind
  <2>1. /\ proc.pc = "bind" /\ proc' = [proc EXCEPT !.pc = "listening"]
        /\ UNCHANGED <<podNs, mwc, node, podUnseen, podCache, podPending, podJob>>
    BY <1>5 DEF Pods!Bind, Pods!controller
  <2>2. /\ proc' \in Pods!Process /\ proc'.pc = "listening" /\ proc'.address = proc.address
        /\ proc'.registered = proc.registered
    BY <1>1, <2>1 DEF Pods!Process
  <2> QED
    BY <2>1, <2>2
<1> QED
  BY <1>2, <1>3, <1>4, <1>5 DEF Pods!Run

\* The annotation controller, and the writes of users.
LEMMA AnnotateInv ==
  ASSUME PodInv, NEW n \in Namespaces,
         \/ Pods!Observe(n) \/ Pods!reconcile_namespace(n) \/ Pods!Call(n) \/ Pods!ApiFails(n)
         \/ \E v \in Pods!Edits(n) : Pods!WriteNamespace(n, v)
  PROVE  PodInv'
<1>1. UNCHANGED <<mwc, node, proc>>
  BY DEF Pods!Observe, Pods!reconcile_namespace, Pods!Call, Pods!PatchNamespace, Pods!Refused,
         Pods!ApiFails, Pods!error_policy_ns, Pods!WriteNamespace
<1>2. /\ podUnseen' \subseteq Namespaces /\ podPending' \subseteq Namespaces /\ podJob' \subseteq Namespaces
  BY DEF PodInv, Pods!TypeOK, Pods!Observe, Pods!reconcile_namespace, Pods!Call, Pods!PatchNamespace,
         Pods!Refused, Pods!ApiFails, Pods!error_policy_ns, Pods!WriteNamespace
<1>3. podNs \in [Namespaces -> Pods!Namespace] /\ podCache \in [Namespaces -> Pods!Namespace]
  BY DEF PodInv, Pods!TypeOK
<1>4. podNs' \in [Namespaces -> Pods!Namespace]
  <2>1. CASE Pods!PatchNamespace(n)
    <3>1. [podNs[n] EXCEPT !.uidRange = Pods!uid_range_for_namespace(n)] \in Pods!Namespace
      BY <1>3, RangeIsNumber DEF Pods!Namespace
    <3> QED
      BY <1>3, <2>1, <3>1 DEF Pods!PatchNamespace
  <2>2. CASE \E v \in Pods!Edits(n) : Pods!WriteNamespace(n, v)
    <3>1. PICK v \in Pods!Edits(n) : podNs' = [podNs EXCEPT ![n] = v]
      BY <2>2 DEF Pods!WriteNamespace
    <3>2. podNs[n].uidRange \in Pods!Ranges \cup {None} /\ OtherRange \in Pods!Ranges
      BY <1>3 DEF Pods!Namespace, Pods!Ranges
    <3>3. v \in Pods!Namespace
      <4>1. CASE v = Pods!NoNamespace
        BY <4>1 DEF Pods!NoNamespace, Pods!Namespace
      <4>2. CASE v \in [live : {TRUE}, uidRange : {podNs[n].uidRange, None, OtherRange}]
        <5>1. {podNs[n].uidRange, None, OtherRange} \subseteq Pods!Ranges \cup {None}
          BY <3>2
        <5> QED
          BY <4>2, <5>1 DEF Pods!Namespace
      <4> QED
        BY <4>1, <4>2 DEF Pods!Edits
    <3> QED
      BY <1>3, <3>1, <3>3
  <2>3. CASE \/ Pods!Observe(n) \/ Pods!reconcile_namespace(n) \/ Pods!Refused(n) \/ Pods!ApiFails(n)
    BY <1>3, <2>3 DEF Pods!Observe, Pods!reconcile_namespace, Pods!Refused, Pods!ApiFails,
                      Pods!error_policy_ns
  <2> QED
    BY <2>1, <2>2, <2>3 DEF Pods!Call
<1>5. podCache' \in [Namespaces -> Pods!Namespace]
  BY <1>3 DEF Pods!Observe, Pods!reconcile_namespace, Pods!Call, Pods!PatchNamespace,
              Pods!Refused, Pods!ApiFails, Pods!error_policy_ns, Pods!WriteNamespace
<1> QED
  BY <1>1, <1>2, <1>4, <1>5 DEF PodInv, RegisteredInv, Pods!TypeOK

\* The process starts anew: its registration is of a CA that nobody has any more.
LEMMA PodRestartInv ==
  ASSUME PodInv, Pods!Restart
  PROVE  PodInv'
<1>1. /\ proc' = Pods!Starting /\ podUnseen' = {} /\ podPending' = {} /\ podJob' = {}
      /\ podCache' = [n \in Namespaces |-> Pods!NoNamespace] /\ UNCHANGED <<podNs, node>>
      /\ mwc' = IF mwc = None THEN None ELSE [mwc EXCEPT !.currentCA = FALSE]
  BY DEF Pods!Restart
<1>2. proc' \in Pods!Process /\ proc'.pc = "address" /\ ~proc'.registered
  BY <1>1 DEF Pods!Starting, Pods!Process
<1>3. podCache' \in [Namespaces -> Pods!Namespace]
  BY <1>1 DEF Pods!NoNamespace, Pods!Namespace
<1>4. mwc' \in [address : Addresses, currentCA : BOOLEAN] \cup {None}
  BY <1>1 DEF PodInv, Pods!TypeOK
<1> QED
  BY <1>1, <1>2, <1>3, <1>4 DEF PodInv, RegisteredInv, Pods!TypeOK

\* PodInv is inductive for the webhook and the annotation of Namespaces.
THEOREM PodInductive == Pods!Spec => []PodInv
<1>1. Pods!Init => PodInv
  <2> SUFFICES ASSUME Pods!Init PROVE PodInv
    OBVIOUS
  <2>1. proc \in Pods!Process /\ proc.pc = "address" /\ ~proc.registered
    BY DEF Pods!Init, Pods!Starting, Pods!Process
  <2>2. podNs \in [Namespaces -> Pods!Namespace] /\ podCache \in [Namespaces -> Pods!Namespace]
    BY DEF Pods!Init, Pods!NoNamespace, Pods!Namespace
  <2> QED
    BY <2>1, <2>2 DEF Pods!Init, PodInv, RegisteredInv, Pods!TypeOK
<1>2. PodInv /\ [Pods!Next]_Pods!vars => PodInv'
  <2> SUFFICES ASSUME PodInv, [Pods!Next]_Pods!vars PROVE PodInv'
    OBVIOUS
  <2>1. CASE Pods!Run
    BY <2>1, RunInv
  <2>2. CASE \/ \E n \in Namespaces : \/ Pods!Observe(n) \/ Pods!reconcile_namespace(n)
                                      \/ Pods!Call(n) \/ Pods!ApiFails(n)
             \/ \E n \in Namespaces : \E v \in Pods!Edits(n) : Pods!WriteNamespace(n, v)
    BY <2>2, AnnotateInv
  <2>3. CASE \E a \in Addresses : Pods!NodeMoves(a)
    BY <2>3 DEF Pods!NodeMoves, Pods!controller, PodInv, RegisteredInv, Pods!TypeOK
  <2>4. CASE Pods!Restart
    BY <2>4, PodRestartInv
  <2>5. CASE UNCHANGED Pods!vars
    BY <2>5 DEF Pods!vars, Pods!controller, PodInv, RegisteredInv, Pods!TypeOK
  <2> QED
    BY <2>1, <2>2, <2>3, <2>4, <2>5 DEF Pods!Next, Pods!Undisturbed
<1> QED
  BY <1>1, <1>2, PTL DEF Pods!Spec

\* What PodsGetTheirGroup says of a Pod of a Namespace: it keeps all else, and its
\* group is of the range u.
Kept(n, p) == [Pods!handle_request(p, n) EXCEPT !.fsGroup = None, !.context = p.context] = p
InRange(u, g) == IF u = None THEN g # None ELSE g - u \in 0..9999

\* setup_webhook_with_ip and compute_patch: in a process whose registration
\* succeeded, and as long as the node keeps its address, a Pod that runs as non-root
\* and brings no fsGroup gets one out of the range of its Namespace
\* (PodsGetTheirGroup), for every set of Namespaces, every hash and every address.
THEOREM PodsGrouped == Pods!Spec => []PodsGetTheirGroup
<1>1. PodInv => PodsGetTheirGroup
  <2>0. PodsGetTheirGroup = (proc.pc = "listening" /\ proc.registered /\ proc.address = node =>
          \A n \in Namespaces \ SKIP_NAMESPACES : \A p \in Pods!Pod :
            (p.podNonRoot \/ p.containerNonRoot) /\ p.fsGroup = None /\ Pods!OurRange(n)
            => Kept(n, p) /\ InRange(podNs[n].uidRange, Pods!handle_request(p, n).fsGroup))
    BY DEF PodsGetTheirGroup, Pods!PodsGetTheirGroup, Kept, InRange
  <2> SUFFICES ASSUME PodInv, proc.pc = "listening", proc.registered, proc.address = node,
                      NEW n \in Namespaces \ SKIP_NAMESPACES, NEW p \in Pods!Pod,
                      p.podNonRoot \/ p.containerNonRoot, p.fsGroup = None, Pods!OurRange(n)
               PROVE  Kept(n, p) /\ InRange(podNs[n].uidRange, Pods!handle_request(p, n).fsGroup)
    BY <2>0
  <2> DEFINE range == Pods!uid_range_for_namespace(n)
             admitted == Pods!handle_request(p, n)
  <2>1. range \in Nat /\ range # None
    BY RangeIsNumber
  <2>2. mwc = [address |-> node, currentCA |-> TRUE]
    BY DEF PodInv, RegisteredInv
  <2>3. admitted = [p EXCEPT !.fsGroup = range, !.context = TRUE]
    BY <2>2 DEF Pods!handle_request, Pods!compute_patch
  <2>4. p \in [context : BOOLEAN, fsGroup : Pods!Ranges \cup {None}, podNonRoot : BOOLEAN,
               containerNonRoot : BOOLEAN]
    BY DEF Pods!Pod
  <2> HIDE DEF range, admitted
  <2>5. admitted.fsGroup = range
    BY <2>3, <2>4
  <2>6. Kept(n, p)
    <3>1. [admitted EXCEPT !.fsGroup = None, !.context = p.context] = p
      BY <2>3, <2>4
    <3> QED
      BY <3>1 DEF Kept, admitted
  <2>7. podNs[n].uidRange \in {range, None}
    BY DEF Pods!OurRange, range
  <2>8. ASSUME NEW r \in Nat, r # None, NEW u \in {r, None} PROVE InRange(u, r)
    <3>1. r - r \in 0..9999
      OBVIOUS
    <3> QED
      BY <2>8, <3>1 DEF InRange
  <2>9. InRange(podNs[n].uidRange, admitted.fsGroup)
    BY <2>1, <2>5, <2>7, <2>8
  <2> QED
    BY <2>6, <2>9 DEF admitted
<1> QED
  BY <1>1, PodInductive, PTL
==============================================================================
