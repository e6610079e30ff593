---------------------------- MODULE Gateway_proofs ----------------------------
(***************************************************************************)
(* Proofs about the Gateway API controller.                                *)
(*                                                                         *)
(* The configuration.  The k-th route is that of the rule with k - 1 rules *)
(* before it.  The numbers of rules before them grow along the order, so   *)
(* they are all different, and as many as there are rules: each of         *)
(* 0 .. n - 1 is the number of one rule (NthExists), and the routes are    *)
(* sorted (RoutesSorted).  What holds of all lengths of a list is shown    *)
(* with a least counterexample (Smallest), on numbers (Joined).            *)
(*                                                                         *)
(* The reconciles.  AcceptedMeansServed is not inductive: the step that    *)
(* accepts a Gateway does not look at its objects.  EnsuredInv says what   *)
(* the reconcile has seen or created before, XdsInv that the configuration *)
(* is always one that was generated as a whole.                            *)
(***************************************************************************)
EXTENDS Gateway, SequenceTheorems, FunctionTheorems, FiniteSetTheorems, TLAPS

------------------------------------------------------------------------------
(***************************************************************************)
(* The order of the routes.                                                *)
(***************************************************************************)
\* A set of numbers has a least one.
LEMMA Smallest ==
  ASSUME NEW T \in SUBSET Nat, T # {}
  PROVE  \E n \in T : \A m \in T : n <= m
<1> DEFINE R == OpToRel(<, Nat)
<1>1. IsWellFoundedOn(R, Nat)
  BY NatLessThanWellFounded
<1> HIDE DEF R
<1>2. PICK n \in T : \A m \in T : ~(<<m, n>> \in R)
  BY <1>1, WFMin
<1>3. \A m \in T : ~(m < n)
  BY <1>2 DEF R, OpToRel
<1> QED
  BY <1>3

\* What precedes the rule j among those in kept.
Lower(rules, kept, j) == {i \in kept : Before(rules, i, j)}

\* Rules of equal length keep their order, so that every two are ordered.
LEMMA BeforeOrders ==
  ASSUME NEW rules \in Seq(Rule)
  PROVE  \A i, j, k \in DOMAIN rules :
           /\ ~Before(rules, i, i)
           /\ i # j => Before(rules, i, j) \/ Before(rules, j, i)
           /\ Before(rules, i, j) /\ Before(rules, j, k) => Before(rules, i, k)
           /\ rules[i].prefix < rules[j].prefix => Before(rules, j, i)
<1>1. \A i \in DOMAIN rules : i \in Nat /\ rules[i] \in Rule
  OBVIOUS
<1>2. \A i \in DOMAIN rules : rules[i].prefix \in Nat
  BY <1>1 DEF Rule
<1> QED
  BY <1>1, <1>2 DEF Before

\* The number of rules that precede one is smaller for a rule before it.
LEMMA LowerGrows ==
  ASSUME NEW rules \in Seq(Rule), NEW kept \in SUBSET DOMAIN rules
  PROVE  /\ IsFiniteSet(kept) /\ Cardinality(kept) \in Nat
         /\ \A j \in kept : /\ Cardinality(Lower(rules, kept, j)) \in Nat
                            /\ Cardinality(Lower(rules, kept, j)) < Cardinality(kept)
         /\ \A i, j \in kept : Before(rules, i, j) =>
              Cardinality(Lower(rules, kept, i)) < Cardinality(Lower(rules, kept, j))
<1>1. IsFiniteSet(kept) /\ Cardinality(kept) \in Nat
  <2>1. Len(rules) \in Nat /\ DOMAIN rules = 1 .. Len(rules)
    OBVIOUS
  <2>2. IsFiniteSet(DOMAIN rules)
    BY <2>1, FS_Interval
  <2>3. IsFiniteSet(kept)
    BY <2>2, FS_Subset
  <2> QED
    BY <2>3, FS_CardinalityType
<1>2. ASSUME NEW S \in SUBSET kept, NEW T \in SUBSET S, T # S
      PROVE  Cardinality(T) \in Nat /\ Cardinality(S) \in Nat /\ Cardinality(T) < Cardinality(S)
  <2>1. IsFiniteSet(S)
    BY <1>1, FS_Subset
  <2>2. IsFiniteSet(T) /\ Cardinality(T) <= Cardinality(S) /\ Cardinality(S) # Cardinality(T)
    BY <1>2, <2>1, FS_Subset
  <2>3. Cardinality(T) \in Nat /\ Cardinality(S) \in Nat
    BY <2>1, <2>2, FS_CardinalityType
  <2> QED
    BY <2>2, <2>3
<1>3. ASSUME NEW j \in kept
      PROVE  /\ Cardinality(Lower(rules, kept, j)) \in Nat
             /\ Cardinality(Lower(rules, kept, j)) < Cardinality(kept)
  <2>1. Lower(rules, kept, j) \in SUBSET kept /\ j \notin Lower(rules, kept, j)
    BY BeforeOrders DEF Lower
  <2> QED
    BY <1>2, <2>1
<1>4. ASSUME NEW i \in kept, NEW j \in kept, Before(rules, i, j)
      PROVE  Cardinality(Lower(rules, kept, i)) < Cardinality(Lower(rules, kept, j))
  <2>1. /\ Lower(rules, kept, j) \in SUBSET kept
        /\ Lower(rules, kept, i) \in SUBSET Lower(rules, kept, j)
        /\ i \in Lower(rules, kept, j) /\ i \notin Lower(rules, kept, i)
    BY <1>4, BeforeOrders DEF Lower
  <2> QED
    BY <1>2, <2>1
<1> QED
  BY <1>1, <1>3, <1>4

\* Nth is defined for every place, and later places have rules that are not
\* before those of earlier ones.
LEMMA NthExists ==
  ASSUME NEW rules \in Seq(Rule), NEW kept \in SUBSET DOMAIN rules,
         NEW k \in 1 .. Cardinality(kept)
  PROVE  /\ Nth(rules, kept, k) \in kept
         /\ Cardinality(Lower(rules, kept, Nth(rules, kept, k))) = k - 1
<1> DEFINE n == Cardinality(kept)
           rank == [j \in kept |-> Cardinality(Lower(rules, kept, j))]
<1>1. /\ IsFiniteSet(kept) /\ n \in Nat
      /\ \A j \in kept : rank[j] \in Nat /\ rank[j] < n
      /\ \A i, j \in kept : Before(rules, i, j) => rank[i] < rank[j]
  BY LowerGrows
<1>2. IsFiniteSet(0 .. n - 1) /\ Cardinality(0 .. n - 1) = n
  <2> HIDE DEF n
  <2> DEFINE b == n - 1
  <2>1. 0 \in Int /\ b \in Int
    BY <1>1
  <2> HIDE DEF b
  <2>2. IsFiniteSet(0 .. b) /\ Cardinality(0 .. b) = IF 0 > b THEN 0 ELSE b - 0 + 1
    BY <2>1, FS_Interval
  <2> QED
    BY <1>1, <2>2 DEF b
<1>3. rank \in [kept -> 0 .. n - 1]
  BY <1>1
<1>4. \A i, j \in kept : rank[i] = rank[j] => i = j
  <2> SUFFICES ASSUME NEW i \in kept, NEW j \in kept, i # j
               PROVE  rank[i] # rank[j]
    OBVIOUS
  <2>1. Before(rules, i, j) \/ Before(rules, j, i)
    BY BeforeOrders
  <2> HIDE DEF rank, n
  <2> QED
    BY <1>1, <2>1
<1> HIDE DEF rank, n
<1>5. rank \in Injection(kept, 0 .. n - 1)
  BY <1>3, <1>4, Fun_IsInj
<1>6. rank \in Surjection(kept, 0 .. n - 1)
  BY <1>2, <1>5, FS_Injection DEF n
<1>7. k - 1 \in 0 .. n - 1
  BY <1>1 DEF n
<1>8. \E j \in kept : rank[j] = k - 1
  <2> DEFINE I == 0 .. n - 1
  <2>1. rank \in Surjection(kept, I)
    BY <1>6
  <2> HIDE DEF I
  <2>2. \A t \in I : \E j \in kept : rank[j] = t
    BY <2>1, Fun_SurjectionProperties
  <2> QED
    BY <1>7, <2>2 DEF I
<1>9. \E j \in kept : Cardinality({i \in kept : Before(rules, i, j)}) = k - 1
  BY <1>8 DEF rank, Lower
<1> QED
  BY <1>9 DEF Nth, Lower

RouteEntry == [prefix : Nat, cluster : Backends]

\* generate_rds_yaml: longer prefixes come first, and each route leads to a
\* backend of one of the rules.
LEMMA RoutesSorted ==
  ASSUME NEW rules \in Seq(Rule)
  PROVE  LET rds == generate_rds_yaml(rules)
         IN /\ rds \in Seq(RouteEntry)
            /\ \A k, l \in DOMAIN rds : k < l => rds[l].prefix <= rds[k].prefix
            /\ \A k \in DOMAIN rds : \E i \in DOMAIN rules :
                 rds[k].cluster \in Range(rules[i].backends)
<1> DEFINE kept == {j \in DOMAIN rules : rules[j].backends # << >>}
           n == Cardinality(kept)
           at(k) == Nth(rules, kept, k)
           rds == [k \in 1 .. n |->
                    [prefix |-> rules[at(k)].prefix, cluster |-> rules[at(k)].backends[1]]]
<1>1. generate_rds_yaml(rules) = rds
  BY DEF generate_rds_yaml
<1>2. kept \in SUBSET DOMAIN rules /\ \A j \in kept : rules[j].backends # << >>
  OBVIOUS
<1> HIDE DEF kept
<1>3. n \in Nat
  BY <1>2, LowerGrows
<1>4. \A k \in 1 .. n : at(k) \in kept /\ Cardinality(Lower(rules, kept, at(k))) = k - 1
  BY <1>2, NthExists
<1>5. \A j \in kept : /\ j \in DOMAIN rules /\ rules[j].prefix \in Nat
                      /\ rules[j].backends[1] \in Backends
                      /\ rules[j].backends[1] \in Range(rules[j].backends)
  <2> SUFFICES ASSUME NEW j \in kept
               PROVE  /\ j \in DOMAIN rules /\ rules[j].prefix \in Nat
                      /\ rules[j].backends[1] \in Backends
                      /\ rules[j].backends[1] \in Range(rules[j].backends)
    OBVIOUS
  <2>1. j \in DOMAIN rules /\ rules[j] \in Rule /\ rules[j].backends # << >>
    BY <1>2
  <2> DEFINE b == rules[j].backends
  <2>2. rules[j].prefix \in Nat /\ b \in Seq(Backends) /\ b # << >>
    BY <2>1 DEF Rule
  <2> HIDE DEF b
  <2>3. 1 \in DOMAIN b /\ b[1] \in Backends
    <3>1. Len(b) \in Nat /\ Len(b) # 0
      BY <2>2, EmptySeq
    <3> QED
      BY <2>2, <3>1
  <2> QED
    BY <2>1, <2>2, <2>3 DEF Range, b
<1> HIDE DEF n, at
<1>6. DOMAIN rds = 1 .. n /\ \A k \in 1 .. n : /\ rds[k] \in RouteEntry
                                               /\ rds[k].prefix = rules[at(k)].prefix
                                               /\ rds[k].cluster = rules[at(k)].backends[1]
  BY <1>4, <1>5 DEF RouteEntry
<1>7. rds \in Seq(RouteEntry)
  BY <1>3, <1>4, <1>5 DEF RouteEntry
<1>8. ASSUME NEW k \in 1 .. n, NEW l \in 1 .. n, k < l
      PROVE  rds[l].prefix <= rds[k].prefix
  <2>1. at(k) \in kept /\ at(l) \in kept
    BY <1>4
  <2>2. ~Before(rules, at(l), at(k))
    <3>1. ASSUME Before(rules, at(l), at(k))
          PROVE  FALSE
      <4>1. Cardinality(Lower(rules, kept, at(l))) < Cardinality(Lower(rules, kept, at(k)))
        BY <1>2, <2>1, <3>1, LowerGrows
      <4>2. l - 1 < k - 1
        BY <1>4, <4>1
      <4> QED
        BY <1>3, <1>8, <4>2
    <3> QED
      BY <3>1
  <2>3. ~(rules[at(k)].prefix < rules[at(l)].prefix)
    BY <1>2, <2>1, <2>2, BeforeOrders
  <2> QED
    BY <1>5, <1>6, <2>1, <2>3
<1>9. ASSUME NEW k \in 1 .. n
      PROVE  \E i \in DOMAIN rules : rds[k].cluster \in Range(rules[i].backends)
  BY <1>4, <1>5, <1>6
<1> HIDE DEF rds
<1> QED
  BY <1>1, <1>6, <1>7, <1>8, <1>9

\* generate_cds_yaml: one cluster for each backend of a rule.
LEMMA ClustersDefined ==
  ASSUME NEW rules \in Seq(Rule), NEW tls \in SUBSET Ports
  PROVE  /\ generate_cds_yaml(rules, tls) \in SUBSET [cluster : Backends, tls : BOOLEAN]
         /\ \A i \in DOMAIN rules : \A b \in Range(rules[i].backends) :
              \E c \in generate_cds_yaml(rules, tls) : c.cluster = b
<1> DEFINE all == UNION {Range(rules[i].backends) : i \in DOMAIN rules}
           cds == {[cluster |-> b, tls |-> Port[b] \in tls] : b \in all}
<1>1. generate_cds_yaml(rules, tls) = cds
  BY DEF generate_cds_yaml
<1>2. \A i \in DOMAIN rules : Range(rules[i].backends) \in SUBSET Backends
  <2> SUFFICES ASSUME NEW i \in DOMAIN rules
               PROVE  Range(rules[i].backends) \in SUBSET Backends
    OBVIOUS
  <2>1. rules[i] \in Rule
    OBVIOUS
  <2>2. rules[i].backends \in Seq(Backends)
    BY <2>1 DEF Rule
  <2> QED
    BY <2>2 DEF Range
<1>3. all \in SUBSET Backends
  BY <1>2
<1>4. \A i \in DOMAIN rules : \A b \in Range(rules[i].backends) : b \in all
  OBVIOUS
<1> HIDE DEF all
<1>5. \A b \in all : [cluster |-> b, tls |-> Port[b] \in tls] \in cds
  OBVIOUS
<1>6. cds \in SUBSET [cluster : Backends, tls : BOOLEAN]
  <2>1. ASSUME NEW b \in all
        PROVE  [cluster |-> b, tls |-> Port[b] \in tls] \in [cluster : Backends, tls : BOOLEAN]
    <3>1. b \in Backends /\ (Port[b] \in tls) \in BOOLEAN
      BY <1>3
    <3> QED
      BY <3>1, Zenon
  <2> QED
    BY <2>1, Zenon
<1> HIDE DEF cds
<1>7. \A b \in all : \E c \in cds : c.cluster = b
  <2> SUFFICES ASSUME NEW b \in all PROVE \E c \in cds : c.cluster = b
    OBVIOUS
  <2> DEFINE c == [cluster |-> b, tls |-> Port[b] \in tls]
  <2>1. c \in cds /\ c.cluster = b
    BY <1>5
  <2> QED
    BY <2>1
<1> QED
  BY <1>1, <1>4, <1>6, <1>7

\* The sequences joined up to the m-th.
Joined(seqs, m, f) == f = [i \in 1 .. m |-> IF i = 1 THEN seqs[i] ELSE f[i - 1] \o seqs[i]]

\* Sequences can be joined one after the other.
LEMMA JoinedExists ==
  ASSUME NEW seqs, NEW n \in Nat \ {0}
  PROVE  \E f : Joined(seqs, n, f)
<1> DEFINE Bad == {m \in Nat \ {0} : ~\E f : Joined(seqs, m, f)}
<1>1. Bad \in SUBSET Nat
  OBVIOUS
<1>2. \A m \in Nat \ {0} : m \notin Bad => \E f : Joined(seqs, m, f)
  OBVIOUS
<1>3. ASSUME NEW m \in Bad, \A k \in Bad : m <= k
      PROVE  FALSE
  <2>1. m \in Nat \ {0} /\ ~\E f : Joined(seqs, m, f)
    OBVIOUS
  <2> HIDE DEF Bad
  <2>2. CASE m = 1
    <3> DEFINE f == [i \in 1 .. 1 |-> seqs[1]]
    <3>1. f = [i \in 1 .. 1 |-> IF i = 1 THEN seqs[i] ELSE f[i - 1] \o seqs[i]]
      OBVIOUS
    <3>2. Joined(seqs, 1, f)
      BY <3>1 DEF Joined
    <3> QED
      BY <2>1, <2>2, <3>2
  <2>3. CASE m # 1
    <3> DEFINE p == m - 1
    <3>1. p \in Nat \ {0} /\ m = p + 1 /\ p \notin Bad
      BY <1>3, <2>1, <2>3
    <3> HIDE DEF p
    <3>2. PICK f : Joined(seqs, p, f)
      BY <1>2, <3>1
    <3>3. \A i \in 1 .. p : f[i] = IF i = 1 THEN seqs[i] ELSE f[i - 1] \o seqs[i]
      BY <3>2 DEF Joined
    <3> DEFINE last == f[p] \o seqs[p + 1]
    <3> HIDE DEF last
    <3> DEFINE g == [i \in 1 .. p + 1 |-> IF i = p + 1 THEN last ELSE f[i]]
    <3>4. \A i \in 1 .. p : g[i] = f[i]
      BY <3>1
    <3>5. g[p + 1] = last
      BY <3>1
    <3>6. DOMAIN g = 1 .. p + 1 /\ g = [i \in 1 .. p + 1 |-> g[i]]
      OBVIOUS
    <3> HIDE DEF g
    <3>7. ASSUME NEW i \in 1 .. p + 1
          PROVE  g[i] = IF i = 1 THEN seqs[i] ELSE g[i - 1] \o seqs[i]
      <4>1. CASE i = p + 1
        <5>1. i # 1 /\ i - 1 = p /\ p \in 1 .. p
          BY <3>1, <4>1
        <5>2. g[i - 1] = f[p]
          BY <3>4, <5>1
        <5> QED
          BY <3>5, <4>1, <5>1, <5>2 DEF last
      <4>2. CASE i # p + 1
        <5>1. i \in 1 .. p /\ (i # 1 => i - 1 \in 1 .. p)
          BY <3>1, <4>2
        <5>2. g[i] = f[i] /\ (i # 1 => g[i - 1] = f[i - 1])
          BY <3>4, <5>1
        <5> QED
          BY <3>3, <5>1, <5>2
      <4> QED
        BY <4>1, <4>2
    <3>8. Joined(seqs, p + 1, g)
      BY <3>6, <3>7 DEF Joined
    <3> QED
      BY <2>1, <3>1, <3>8
  <2> QED
    BY <2>2, <2>3
<1>4. Bad = {}
  <2> HIDE DEF Bad
  <2> QED
    BY <1>1, <1>3, Smallest
<1> QED
  BY <1>2, <1>4

\* What is joined of sequences over S is one over S.
LEMMA JoinedTypes ==
  ASSUME NEW S, NEW seqs \in Seq(Seq(S)), NEW f, Joined(seqs, Len(seqs), f), Len(seqs) # 0
  PROVE  f[Len(seqs)] \in Seq(S)
<1> DEFINE n == Len(seqs)
           Bad == {m \in 1 .. n : f[m] \notin Seq(S)}
<1>1. n \in Nat \ {0} /\ \A i \in 1 .. n : seqs[i] \in Seq(S)
  OBVIOUS
<1>2. \A i \in 1 .. n : f[i] = IF i = 1 THEN seqs[i] ELSE f[i - 1] \o seqs[i]
  BY DEF Joined
<1> HIDE DEF n
<1>3. Bad \in SUBSET Nat
  BY <1>1
<1>4. ASSUME NEW m \in Bad, \A k \in Bad : m <= k
      PROVE  FALSE
  <2>1. m \in 1 .. n /\ m \in Nat /\ f[m] \notin Seq(S)
    BY <1>1
  <2>2. CASE m = 1
    BY <1>1, <1>2, <2>1, <2>2
  <2>3. CASE m # 1
    <3> DEFINE p == m - 1
    <3>1. p \in 1 .. n /\ p < m /\ p \notin Bad
      BY <1>1, <1>4, <2>1, <2>3
    <3>2. f[p] \in Seq(S) /\ seqs[m] \in Seq(S)
      BY <1>1, <2>1, <3>1
    <3>3. f[m] = f[p] \o seqs[m]
      BY <1>2, <2>1, <2>3
    <3> HIDE DEF p
    <3>4. f[p] \o seqs[m] \in Seq(S)
      BY <3>2, ConcatProperties
    <3> QED
      BY <2>1, <3>3, <3>4
  <2> QED
    BY <2>2, <2>3
<1>5. Bad = {}
  <2> HIDE DEF Bad
  <2> QED
    BY <1>3, <1>4, Smallest
<1>6. f[n] \in Seq(S)
  BY <1>1, <1>5
<1> QED
  BY <1>6 DEF n

\* The rules of all HTTPRoutes together.
LEMMA FlattenTypes ==
  ASSUME NEW S, NEW seqs \in Seq(Seq(S))
  PROVE  FlattenSeq(seqs) \in Seq(S)
<1>1. CASE Len(seqs) = 0
  BY <1>1, EmptySeq DEF FlattenSeq
<1>2. CASE Len(seqs) # 0
  <2> DEFINE f == CHOOSE g : Joined(seqs, Len(seqs), g)
  <2>1. FlattenSeq(seqs) = f[Len(seqs)]
    BY <1>2 DEF FlattenSeq, Joined
  <2>2. Joined(seqs, Len(seqs), f)
    <3>1. Len(seqs) \in Nat \ {0}
      BY <1>2
    <3>2. \E g : Joined(seqs, Len(seqs), g)
      BY <3>1, JoinedExists, Zenon
    <3> QED
      BY <3>2, Zenon
  <2> HIDE DEF f
  <2> QED
    BY <1>2, <2>1, <2>2, JoinedTypes
<1> QED
  BY <1>1, <1>2

\* What RoutesResolve says of a configuration and one path.
Resolves(c, p) ==
  Matching(c, p) # {} =>
    LET first == c.rds[CHOOSE k \in Matching(c, p) : \A l \in Matching(c, p) : k <= l]
    IN /\ \A k \in Matching(c, p) : c.rds[k].prefix <= first.prefix
       /\ \E d \in c.cds : d.cluster = first.cluster

\* generate_rds_yaml and generate_cds_yaml together: a
\* configuration sends every path to the longest prefix, and to a cluster it
\* defines.
LEMMA ConfigResolves ==
  ASSUME NEW host \in Hosts \cup {None}, NEW rules \in Seq(Rule), NEW tls \in SUBSET Ports,
         NEW current \in BOOLEAN, NEW c, c = Generate(host, rules, tls, current)
  PROVE  c \in Config /\ \A p \in Nat : Resolves(c, p)
<1> DEFINE rds == generate_rds_yaml(rules)
           cds == generate_cds_yaml(rules, tls)
<1>1. c = [host |-> host, rds |-> rds, cds |-> cds, current |-> current]
  BY DEF Generate
<1>2. /\ rds \in Seq(RouteEntry)
      /\ \A k, l \in DOMAIN rds : k < l => rds[l].prefix <= rds[k].prefix
      /\ \A k \in DOMAIN rds : \E i \in DOMAIN rules : rds[k].cluster \in Range(rules[i].backends)
  BY RoutesSorted
<1>3. /\ cds \in SUBSET [cluster : Backends, tls : BOOLEAN]
      /\ \A i \in DOMAIN rules : \A b \in Range(rules[i].backends) : \E d \in cds : d.cluster = b
  BY ClustersDefined
<1> HIDE DEF rds, cds
<1>4. c.rds = rds /\ c.cds = cds
  BY <1>1
<1>5. c \in Config
  BY <1>1, <1>2, <1>3 DEF Config, RouteEntry
<1>6. \A k \in DOMAIN rds : k \in Nat /\ rds[k].prefix \in Nat
  <2>1. \A k \in DOMAIN rds : k \in Nat /\ rds[k] \in RouteEntry
    BY <1>2
  <2>2. \A e \in RouteEntry : e.prefix \in Nat
    BY DEF RouteEntry
  <2> QED
    BY <2>1, <2>2
<1>7. ASSUME NEW p \in Nat, Matching(c, p) # {}
      PROVE  Resolves(c, p)
  <2> DEFINE M == Matching(c, p)
             f == CHOOSE k \in M : \A l \in M : k <= l
  <2>1. M \in SUBSET DOMAIN rds
    BY <1>4 DEF Matching
  <2>2. M \in SUBSET Nat /\ M # {}
    BY <1>6, <1>7, <2>1
  <2> HIDE DEF M
  <2>3. \E k \in M : \A l \in M : k <= l
    BY <2>2, Smallest
  <2>4. f \in M /\ \A l \in M : f <= l
    BY <2>3
  <2> HIDE DEF f
  <2>5. \A k \in M : rds[k].prefix <= rds[f].prefix
    <3> SUFFICES ASSUME NEW k \in M PROVE rds[k].prefix <= rds[f].prefix
      OBVIOUS
    <3>1. k \in DOMAIN rds /\ f \in DOMAIN rds /\ (k = f \/ f < k)
      BY <1>6, <2>1, <2>4
    <3> QED
      BY <1>2, <1>6, <3>1
  <2>6. \E d \in cds : d.cluster = rds[f].cluster
    BY <1>2, <1>3, <2>1, <2>4
  <2> QED
    BY <1>4, <2>5, <2>6 DEF f, M, Resolves
<1>8. ASSUME NEW p \in Nat, Matching(c, p) = {}
      PROVE  Resolves(c, p)
  BY <1>8 DEF Resolves
<1> QED
  BY <1>5, <1>7, <1>8

------------------------------------------------------------------------------
(***************************************************************************)
(* The reconciles.                                                         *)
(***************************************************************************)
\* The configuration was generated from the rules of some HTTPRoutes.
XdsInv ==
  xds # None => \E host \in Hosts \cup {None}, rules \in Seq(Rule), tls \in SUBSET Ports,
                   current \in BOOLEAN : xds = Generate(host, rules, tls, current)

\* What a reconcile of a Gateway has left behind exists; only classes and
\* Gateways are accepted.
EnsuredInv ==
  /\ \A g \in Gateways :
       /\ job[g].pc \in {"get", "create"} => \A i \in 1 .. job[g].step - 1 : Infra(g)[i] \in infra
       /\ job[g].pc \in {"routes", "rules", "patch", "accept"} => Range(Infra(g)) \subseteq infra
       /\ job[g].pc # "gateway"
  /\ \A o \in Objects : job[o].pc = "accept" => o \in Classes \cup Gateways

IInv == TypeOK /\ EnsuredInv /\ XdsInv /\ AcceptedMeansServed

\* The four objects of a Gateway.
LEMMA InfraParts ==
  ASSUME NEW g \in Gateways
  PROVE  /\ Range(Infra(g)) = {Infra(g)[1], Infra(g)[2], Infra(g)[3], Infra(g)[4]}
         /\ \A i \in 1 .. 4 : Infra(g)[i] = <<"envoy-xds-config">> <=> i = 2
<1>1. DOMAIN Infra(g) = 1 .. 4
  BY DEF Infra
<1>2. Range(Infra(g)) = {Infra(g)[i] : i \in 1 .. 4}
  BY <1>1 DEF Range
<1>3. /\ Infra(g)[1] = <<"envoy-bootstrap">> /\ Infra(g)[2] = <<"envoy-xds-config">>
      /\ Infra(g)[3] = <<"deployment", g>> /\ Infra(g)[4] = <<"service", g>>
  BY DEF Infra
<1>4. /\ <<"envoy-bootstrap">> # <<"envoy-xds-config">>
      /\ <<"deployment", g>> # <<"envoy-xds-config">> /\ <<"service", g>> # <<"envoy-xds-config">>
  OBVIOUS
<1>5. \A i \in 1 .. 4 : i = 1 \/ i = 2 \/ i = 3 \/ i = 4
  OBVIOUS
<1> HIDE DEF Infra
<1> QED
  BY <1>2, <1>3, <1>4, <1>5

\* The kinds of objects, and the versions of each.
LEMMA Versions ==
  ASSUME NEW o \in Objects
  PROVE  /\ o \in Classes => Version(o) = [live : {TRUE}, ours : BOOLEAN, accepted : BOOLEAN]
         /\ o \in Gateways => Version(o) = [live : {TRUE}, ours : BOOLEAN, accepted : BOOLEAN,
                                            host : Hosts \cup {None}]
         /\ o \in HttpRoutes => Version(o) = [live : {TRUE}, ours : BOOLEAN, rules : RuleLists]
         /\ o \in DestRules => Version(o) = [live : {TRUE}, tls : SUBSET Ports]
         /\ \A v \in Version(o) : v.live = TRUE
         /\ Absent.live = FALSE
<1>1. o \in Classes \/ o \in Gateways \/ o \in HttpRoutes \/ o \in DestRules
  BY DEF Objects
<1>2. CASE o \in Classes
  BY <1>2, GatewayAssumption DEF Version, Absent
<1>3. CASE o \in Gateways
  BY <1>3, GatewayAssumption DEF Version, Absent
<1>4. CASE o \in HttpRoutes
  BY <1>4, GatewayAssumption DEF Version, Absent
<1>5. CASE o \in DestRules
  BY <1>5, GatewayAssumption DEF Version, Absent
<1> QED
  BY <1>1, <1>2, <1>3, <1>4, <1>5

\* What there is in a version.
LEMMA Fields ==
  ASSUME NEW o \in Objects, NEW v \in Version(o)
  PROVE  /\ v.live = TRUE
         /\ o \in Gateways => v.host \in Hosts \cup {None} /\ v.accepted \in BOOLEAN
         /\ o \in Classes \cup Gateways =>
              [v EXCEPT !.accepted = TRUE] \in Version(o) /\ [v EXCEPT !.accepted = TRUE].live = TRUE
         /\ o \in HttpRoutes => v.rules \in RuleLists
         /\ o \in DestRules => v.tls \in SUBSET Ports
<1>1. v.live = TRUE
  BY Versions
<1>2. ASSUME o \in Gateways
      PROVE  /\ v.host \in Hosts \cup {None} /\ v.accepted \in BOOLEAN
             /\ [v EXCEPT !.accepted = TRUE] \in Version(o) /\ [v EXCEPT !.accepted = TRUE].live = TRUE
  <2>1. v \in [live : {TRUE}, ours : BOOLEAN, accepted : BOOLEAN, host : Hosts \cup {None}]
    BY <1>2, Versions
  <2>2. [v EXCEPT !.accepted = TRUE]
          \in [live : {TRUE}, ours : BOOLEAN, accepted : BOOLEAN, host : Hosts \cup {None}]
    BY <2>1
  <2> QED
    BY <1>2, <2>1, <2>2, Versions
<1>3. ASSUME o \in Classes
      PROVE  [v EXCEPT !.accepted = TRUE] \in Version(o) /\ [v EXCEPT !.accepted = TRUE].live = TRUE
  <2>1. v \in [live : {TRUE}, ours : BOOLEAN, accepted : BOOLEAN]
    BY <1>3, Versions
  <2>2. [v EXCEPT !.accepted = TRUE] \in [live : {TRUE}, ours : BOOLEAN, accepted : BOOLEAN]
    BY <2>1
  <2> QED
    BY <1>3, <2>1, <2>2, Versions
<1>4. ASSUME o \in HttpRoutes
      PROVE  v.rules \in RuleLists
  <2>1. v \in [live : {TRUE}, ours : BOOLEAN, rules : RuleLists]
    BY <1>4, Versions
  <2> QED
    BY <2>1
<1>5. ASSUME o \in DestRules
      PROVE  v.tls \in SUBSET Ports
  <2>1. v \in [live : {TRUE}, tls : SUBSET Ports]
    BY <1>5, Versions
  <2> QED
    BY <2>1
<1> QED
  BY <1>1, <1>2, <1>3, <1>4, <1>5

\* What a job starts from.
LEMMA IdleTypes ==
  Idle \in Job /\ Idle.pc = "idle"
<1>1. << >> \in Seq(Rule)
  BY EmptySeq
<1> QED
  BY <1>1 DEF Idle, Job, Steps

\* The lists that sync_httproute_config makes have their types.
LEMMA ListTypes ==
  ASSUME TypeOK
  PROVE  /\ AllRules \in Seq(Rule) /\ TlsPorts \in SUBSET Ports
         /\ obj[MainGateway].live => obj[MainGateway].host \in Hosts \cup {None}
<1>1. \A o \in Objects : obj[o] \in Version(o) \cup {Absent}
  BY DEF TypeOK
<1>2. AllRules \in Seq(Rule)
  <2> DEFINE one(k) == LET v == obj[HttpRouteList[k]]
                       IN IF v.live /\ v.ours THEN v.rules ELSE << >>
             n == Len(HttpRouteList)
  <2>1. /\ HttpRouteList \in Seq(HttpRoutes) /\ RuleLists \subseteq Seq(Rule)
    BY GatewayAssumption
  <2>2. n \in Nat /\ DOMAIN HttpRouteList = 1 .. n /\ \A k \in 1 .. n : HttpRouteList[k] \in HttpRoutes
    BY <2>1
  <2>3. ASSUME NEW k \in 1 .. n
        PROVE  one(k) \in Seq(Rule)
    <3> DEFINE x == HttpRouteList[k]
    <3>1. x \in HttpRoutes /\ x \in Objects
      BY <2>2 DEF Objects
    <3> HIDE DEF x
    <3>2. obj[x] \in Version(x) \cup {Absent}
      BY <1>1, <3>1
    <3>3. CASE obj[x] \in Version(x)
      <4>1. obj[x].rules \in RuleLists
        BY <3>1, <3>3, Fields
      <4>2. << >> \in Seq(Rule)
        BY EmptySeq
      <4> QED
        BY <2>1, <4>1, <4>2 DEF x
    <3>4. CASE obj[x] = Absent
      <4>1. ~obj[x].live /\ << >> \in Seq(Rule)
        BY <3>4, EmptySeq DEF Absent
      <4> QED
        BY <4>1 DEF x
    <3> QED
      BY <3>2, <3>3, <3>4
  <2> DEFINE all == [k \in DOMAIN HttpRouteList |-> one(k)]
  <2>4. AllRules = FlattenSeq(all)
    BY DEF AllRules
  <2> HIDE DEF one, n
  <2>5. all \in Seq(Seq(Rule))
    BY <2>2, <2>3
  <2> HIDE DEF all
  <2> QED
    BY <2>4, <2>5, FlattenTypes
<1>3. TlsPorts \in SUBSET Ports
  <2>1. ASSUME NEW d \in DestRules, obj[d].live
        PROVE  obj[d].tls \in SUBSET Ports
    <3>1. d \in Objects
      BY DEF Objects
    <3>2. obj[d] \in Version(d)
      BY <1>1, <2>1, <3>1 DEF Absent
    <3> QED
      BY <3>1, <3>2, Fields
  <2> QED
    BY <2>1 DEF TlsPorts
<1>4. obj[MainGateway].live => obj[MainGateway].host \in Hosts \cup {None}
  <2>1. MainGateway \in Gateways /\ MainGateway \in Objects
    BY GatewayAssumption DEF Objects
  <2>2. obj[MainGateway].live => obj[MainGateway] \in Version(MainGateway)
    BY <1>1, <2>1 DEF Absent
  <2> QED
    BY <2>1, <2>2, Fields
<1> QED
  BY <1>2, <1>3, <1>4

\* The job of an object is replaced by one that is right for it.
Fits(o, j) ==
  /\ j \in Job
  /\ j.pc \in {"get", "create"} => o \in Gateways /\ j.step # 0
  /\ o \in Gateways =>
       /\ j.pc \in {"get", "create"} => \A i \in 1 .. j.step - 1 : Infra(o)[i] \in infra'
       /\ j.pc \in {"routes", "rules", "patch", "accept"} => Range(Infra(o)) \subseteq infra'
       /\ j.pc # "gateway"
  /\ j.pc = "accept" => o \in Classes \cup Gateways

\* A job is given another state; the objects of the cluster only grow in number.
LEMMA JobInv ==
  ASSUME TypeOK, EnsuredInv, infra \subseteq infra', NEW o \in Objects, NEW j, Fits(o, j),
         job' = [job EXCEPT ![o] = j]
  PROVE  /\ job' \in [Objects -> Job]
         /\ \A q \in Objects : job'[q].pc \in {"get", "create"} => q \in Gateways /\ job'[q].step # 0
         /\ EnsuredInv'
<1>1. job \in [Objects -> Job] /\ j \in Job
  BY DEF TypeOK, Fits
<1>2. /\ job' \in [Objects -> Job] /\ job'[o] = j
      /\ \A q \in Objects \ {o} : job'[q] = job[q]
  BY <1>1
<1>3. \A q \in Objects : job'[q].pc \in {"get", "create"} => q \in Gateways /\ job'[q].step # 0
  BY <1>2 DEF Fits, TypeOK
<1>4. \A q \in Objects : job'[q].pc = "accept" => q \in Classes \cup Gateways
  BY <1>2 DEF Fits, EnsuredInv
<1>5. ASSUME NEW g \in Gateways
      PROVE  /\ job'[g].pc \in {"get", "create"} =>
                  \A i \in 1 .. job'[g].step - 1 : Infra(g)[i] \in infra'
             /\ job'[g].pc \in {"routes", "rules", "patch", "accept"} => Range(Infra(g)) \subseteq infra'
             /\ job'[g].pc # "gateway"
  <2>1. g \in Objects
    BY DEF Objects
  <2>2. CASE g = o
    BY <1>2, <2>2 DEF Fits
  <2>3. CASE g # o
    BY <1>2, <2>1, <2>3 DEF EnsuredInv
  <2> QED
    BY <2>2, <2>3
<1> QED
  BY <1>2, <1>3, <1>4, <1>5 DEF EnsuredInv

\* A step that changes one job and the queues.
LEMMA JobStep ==
  ASSUME IInv, NEW o \in Objects, NEW j, Fits(o, j), job' = [job EXCEPT ![o] = j],
         pending' \subseteq Objects, unseen' \subseteq Objects,
         UNCHANGED <<obj, infra, xds, cache, writes, names>>
  PROVE  IInv'
<1>1. /\ job' \in [Objects -> Job]
      /\ \A q \in Objects : job'[q].pc \in {"get", "create"} => q \in Gateways /\ job'[q].step # 0
      /\ EnsuredInv'
  BY JobInv DEF IInv
<1>2. TypeOK'
  BY <1>1 DEF IInv, TypeOK
<1>3. XdsInv' /\ AcceptedMeansServed'
  BY DEF IInv, XdsInv, AcceptedMeansServed
<1> QED
  BY <1>1, <1>2, <1>3 DEF IInv

\* An idle job is right for every object.
LEMMA IdleFits ==
  ASSUME NEW o \in Objects
  PROVE  Fits(o, Idle)
  BY IdleTypes DEF Fits

\* A reconcile starts from the cached object.
LEMMA ReconcileInv ==
  ASSUME IInv, NEW o \in Objects, Reconcile(o)
  PROVE  IInv'
<1>0. /\ cache[o] \in Version(o) \cup {Absent} /\ pending \subseteq Objects /\ unseen \subseteq Objects
  BY DEF IInv, TypeOK
<1>1. ASSUME NEW j, Start(o, j), cache[o].live => Fits(o, j)
      PROVE  IInv'
  <2> DEFINE i == IF cache[o].live THEN j ELSE Idle
  <2>1. /\ job' = [job EXCEPT ![o] = i] /\ pending' \subseteq Objects /\ unseen' \subseteq Objects
        /\ UNCHANGED <<obj, infra, xds, cache, writes, names>>
    BY <1>0, <1>1 DEF Start
  <2>2. Fits(o, i)
    BY <1>1, IdleFits
  <2> HIDE DEF i
  <2> QED
    BY <2>1, <2>2, JobStep
<1>2. CASE o \in Classes /\ reconcile_gateway_class(o)
  <2> DEFINE j == IF cache[o].ours /\ ~cache[o].accepted
                    THEN [Idle EXCEPT !.pc = "accept", !.accepted = FALSE] ELSE Idle
  <2>1. j \in Job /\ j.pc \in {"idle", "accept"}
    BY IdleTypes DEF Job, Steps
  <2>2. Start(o, j) /\ o \notin Gateways
    BY <1>2, GatewayAssumption DEF reconcile_gateway_class
  <2> HIDE DEF j
  <2>3. Fits(o, j)
    BY <1>2, <2>1, <2>2 DEF Fits
  <2> QED
    BY <1>1, <2>2, <2>3
<1>3. CASE o \in Gateways /\ reconcile_gateway(o)
  <2> DEFINE j == IF cache[o].ours
                    THEN [Idle EXCEPT !.pc = "get", !.step = 1, !.host = cache[o].host,
                                      !.accepted = cache[o].accepted]
                    ELSE Idle
  <2>1. Start(o, j)
    BY <1>3 DEF reconcile_gateway
  <2>2. ASSUME cache[o].live
        PROVE  Fits(o, j)
    <3>1. cache[o].host \in Hosts \cup {None} /\ cache[o].accepted \in BOOLEAN
      <4>1. cache[o] \in Version(o)
        BY <1>0, <2>2 DEF Absent
      <4> QED
        BY <1>3, <4>1, Fields
    <3> DEFINE h == cache[o].host
               a == cache[o].accepted
               new == [pc |-> "get", step |-> 1, host |-> h, accepted |-> a, rules |-> << >>, tls |-> {}]
    <3>2. j = new \/ j = Idle
      BY DEF Idle
    <3> HIDE DEF j, h, a
    <3>3. /\ "get" \in Steps /\ 1 \in 0 .. 4 /\ h \in Hosts \cup {None} /\ a \in BOOLEAN
          /\ << >> \in Seq(Rule) /\ {} \in SUBSET Ports
      BY <3>1, EmptySeq DEF Steps, h, a
    <3>4. new \in Job
      BY <3>3, Zenon DEF Job
    <3>5. new.pc = "get" /\ new.step = 1
      OBVIOUS
    <3> HIDE DEF new
    <3>6. j \in Job /\ (j.pc = "idle" \/ (j.pc = "get" /\ j.step = 1))
      BY <3>2, <3>4, <3>5, IdleTypes
    <3>7. j.step = 1 => 1 .. j.step - 1 = {}
      OBVIOUS
    <3> QED
      BY <1>3, <3>6, <3>7 DEF Fits
  <2> HIDE DEF j
  <2> QED
    BY <1>1, <2>1, <2>2
<1>4. ASSUME NEW j, j \in {Idle, [Idle EXCEPT !.pc = "gateway"]}, o \in HttpRoutes \cup DestRules
      PROVE  Fits(o, j)
  <2>1. j \in Job /\ j.pc \in {"idle", "gateway"} /\ o \notin Gateways
    BY <1>4, IdleTypes, GatewayAssumption DEF Job, Steps
  <2> QED
    BY <2>1 DEF Fits
<1>5. CASE o \in HttpRoutes /\ reconcile_httproute(o)
  <2> DEFINE j == IF cache[o].ours THEN [Idle EXCEPT !.pc = "gateway"] ELSE Idle
  <2>1. Start(o, j)
    BY <1>5 DEF reconcile_httproute
  <2>2. j \in {Idle, [Idle EXCEPT !.pc = "gateway"]}
    OBVIOUS
  <2> HIDE DEF j
  <2> QED
    BY <1>1, <1>4, <1>5, <2>1, <2>2
<1>6. CASE o \in DestRules /\ reconcile_destination_rule(o)
  <2> DEFINE j == [Idle EXCEPT !.pc = "gateway"]
  <2>1. Start(o, j) /\ j \in {Idle, [Idle EXCEPT !.pc = "gateway"]}
    BY <1>6 DEF reconcile_destination_rule
  <2> HIDE DEF j
  <2> QED
    BY <1>1, <1>4, <1>6, <2>1
<1> QED
  BY <1>2, <1>3, <1>5, <1>6 DEF Reconcile

\* error_policy gives a job up; what it created stays.
LEMMA GiveUpInv ==
  ASSUME IInv, NEW o \in Objects, error_policy(o)
  PROVE  IInv'
<1>1. /\ job' = [job EXCEPT ![o] = Idle] /\ pending' \subseteq Objects /\ unseen' \subseteq Objects
      /\ UNCHANGED <<obj, infra, xds, cache, writes, names>>
  BY DEF error_policy, IInv, TypeOK
<1> QED
  BY <1>1, IdleFits, JobStep

\* The job at hand and its fields.
LEMMA JobFields ==
  ASSUME NEW j \in Job
  PROVE  /\ j.pc \in Steps /\ j.step \in 0 .. 4 /\ j.host \in Hosts \cup {None}
         /\ j.accepted \in BOOLEAN /\ j.rules \in Seq(Rule) /\ j.tls \in SUBSET Ports
         /\ \A pc \in Steps : [j EXCEPT !.pc = pc] \in Job
         /\ \A pc \in Steps, h \in Hosts \cup {None} : [j EXCEPT !.pc = pc, !.host = h] \in Job
         /\ \A pc \in Steps, r \in Seq(Rule) : [j EXCEPT !.pc = pc, !.rules = r] \in Job
         /\ \A pc \in Steps, t \in SUBSET Ports : [j EXCEPT !.pc = pc, !.tls = t] \in Job
         /\ \A pc \in Steps, s \in 0 .. 4 : [j EXCEPT !.pc = pc, !.step = s] \in Job
  BY DEF Job

\* After an object that exists comes the next one; after the last, the lists.
LEMMA EnsuredFits ==
  ASSUME NEW g \in Gateways, NEW j \in Job, j.step # 0,
         \A i \in 1 .. j.step - 1 : Infra(g)[i] \in infra', Infra(g)[j.step] \in infra'
  PROVE  Fits(g, Ensured(j))
<1>0. j.step \in 0 .. 4
  BY JobFields
<1>1. \A i \in 1 .. j.step : Infra(g)[i] \in infra'
  <2> SUFFICES ASSUME NEW i \in 1 .. j.step PROVE Infra(g)[i] \in infra'
    OBVIOUS
  <2>1. i \in 1 .. j.step - 1 \/ i = j.step
    BY <1>0
  <2> QED
    BY <2>1
<1>2. CASE j.step = 4
  <2> DEFINE n == [j EXCEPT !.pc = "routes"]
  <2>1. Ensured(j) = n
    BY <1>2 DEF Ensured
  <2>2. n \in Job /\ n.pc = "routes"
    <3>1. n.pc = "routes"
      BY DEF Job
    <3> QED
      BY <3>1, JobFields DEF Steps
  <2> HIDE DEF n
  <2>3. Range(Infra(g)) \subseteq infra'
    <3>1. /\ Infra(g)[1] \in infra' /\ Infra(g)[2] \in infra'
          /\ Infra(g)[3] \in infra' /\ Infra(g)[4] \in infra'
      BY <1>1, <1>2
    <3> QED
      BY <3>1, InfraParts
  <2> QED
    BY <2>1, <2>2, <2>3 DEF Fits
<1>3. CASE j.step # 4
  <2> DEFINE s == j.step + 1
             n == [j EXCEPT !.pc = "get", !.step = s]
  <2>1. Ensured(j) = n
    BY <1>3 DEF Ensured
  <2>2. s \in 0 .. 4 /\ s # 0 /\ s - 1 = j.step
    BY <1>0, <1>3
  <2> HIDE DEF s
  <2>3. n \in Job /\ n.pc = "get" /\ n.step = s
    <3>1. n.pc = "get" /\ n.step = s
      BY DEF Job
    <3> QED
      BY <2>2, <3>1, JobFields DEF Steps
  <2> HIDE DEF n
  <2> QED
    BY <1>1, <2>1, <2>2, <2>3 DEF Fits
<1> QED
  BY <1>2, <1>3

\* ensure_envoy_configmaps, ensure_envoy_deployment, ensure_envoy_service.
LEMMA EnsureInv ==
  ASSUME IInv, NEW g \in Gateways, EnsureGet(g) \/ EnsureCreate(g)
  PROVE  IInv'
<1> DEFINE j == job[g]
           e == Infra(g)[j.step]
<1>0. g \in Objects
  BY DEF Objects
<1>1. /\ j \in Job /\ j.pc \in {"get", "create"} /\ j.step # 0 /\ j.step \in 0 .. 4
      /\ \A i \in 1 .. j.step - 1 : Infra(g)[i] \in infra
  <2>1. j.pc \in {"get", "create"}
    BY DEF EnsureGet, EnsureCreate
  <2>2. j \in Job
    BY <1>0 DEF IInv, TypeOK
  <2>3. j.step # 0 /\ \A i \in 1 .. j.step - 1 : Infra(g)[i] \in infra
    BY <1>0, <2>1 DEF IInv, TypeOK, EnsuredInv
  <2> QED
    BY <2>1, <2>2, <2>3, JobFields
<1>2. j.step \in 1 .. 4
  BY <1>1
<1>3. CASE EnsureGet(g)
  <2> DEFINE n == IF e \in infra THEN Ensured(j) ELSE [j EXCEPT !.pc = "create"]
  <2>1. /\ job' = [job EXCEPT ![g] = n]
        /\ UNCHANGED <<unseen, cache, pending, obj, infra, xds, writes, names>>
    BY <1>3 DEF EnsureGet, Continue
  <2>2. CASE e \in infra
    <3>1. Fits(g, Ensured(j))
      BY <1>1, <2>1, <2>2, EnsuredFits
    <3> QED
      BY <1>0, <2>1, <2>2, <3>1, JobStep DEF IInv, TypeOK
  <2>3. CASE e \notin infra
    <3> DEFINE c == [j EXCEPT !.pc = "create"]
    <3>1. c \in Job /\ c.pc = "create" /\ c.step = j.step
      BY <1>1 DEF Job, Steps
    <3>2. n = c
      BY <2>3
    <3> HIDE DEF c, n, j
    <3>3. Fits(g, c)
      BY <1>1, <2>1, <3>1 DEF Fits
    <3> QED
      BY <1>0, <2>1, <3>2, <3>3, JobStep DEF IInv, TypeOK
  <2> QED
    BY <2>2, <2>3
<1>4. CASE EnsureCreate(g)
  <2>1. /\ infra' = infra \cup {e}
        /\ xds' = IF e = <<"envoy-xds-config">> THEN Generate(j.host, << >>, {}, AllRules = << >>) ELSE xds
        /\ job' = [job EXCEPT ![g] = Ensured(j)]
        /\ e \notin infra
        /\ UNCHANGED <<unseen, cache, pending, obj, writes, names>>
    BY <1>4 DEF EnsureCreate, Continue
  <2>2. Fits(g, Ensured(j))
    BY <1>1, <2>1, EnsuredFits
  <2> DEFINE n == Ensured(j)
  <2> HIDE DEF n
  <2>3. /\ job' \in [Objects -> Job]
        /\ \A q \in Objects : job'[q].pc \in {"get", "create"} => q \in Gateways /\ job'[q].step # 0
        /\ EnsuredInv'
    BY <1>0, <2>1, <2>2, JobInv DEF IInv, n
  <2>4. e \in Range(Infra(g))
    <3>1. e \in {Infra(g)[1], Infra(g)[2], Infra(g)[3], Infra(g)[4]}
      BY <1>2
    <3> QED
      BY <3>1, InfraParts
  <2>5. infra' \subseteq UNION {Range(Infra(h)) : h \in Gateways}
    BY <2>1, <2>4 DEF IInv, TypeOK
  <2> DEFINE c == Generate(j.host, << >>, {}, AllRules = << >>)
  <2>6. c \in Config /\ c # None
    <3>1. j.host \in Hosts \cup {None} /\ << >> \in Seq(Rule) /\ {} \in SUBSET Ports
      BY <1>1, JobFields, EmptySeq
    <3>2. c \in Config
      BY <3>1, ConfigResolves
    <3> QED
      BY <3>2, ConfigAssumption
  <2>7. XdsInv'
    <3>1. j.host \in Hosts \cup {None} /\ << >> \in Seq(Rule) /\ {} \in SUBSET Ports
      BY <1>1, JobFields, EmptySeq
    <3>2. CASE xds' = c
      BY <3>1, <3>2 DEF XdsInv
    <3>3. CASE xds' = xds
      BY <3>3 DEF IInv, XdsInv
    <3> QED
      BY <2>1, <3>2, <3>3
  <2> HIDE DEF c, e, j
  <2>8. xds' \in Config \cup {None} /\ (xds' # None <=> <<"envoy-xds-config">> \in infra')
    BY <2>1, <2>6 DEF IInv, TypeOK, c
  <2>9. TypeOK'
    BY <2>1, <2>3, <2>5, <2>8 DEF IInv, TypeOK
  <2>10. AcceptedMeansServed'
    BY <2>1 DEF IInv, AcceptedMeansServed
  <2> QED
    BY <2>3, <2>7, <2>9, <2>10 DEF IInv
<1> QED
  BY <1>3, <1>4

\* The Gateway of the hostname and the lists of sync_httproute_config are read.
LEMMA ReadInv ==
  ASSUME IInv, NEW o \in Objects, ReadGateway(o) \/ ListHttpRoutes(o) \/ ListDestinationRules(o)
  PROVE  IInv'
<1> DEFINE j == job[o]
<1>0. /\ j \in Job /\ unseen \subseteq Objects /\ pending \subseteq Objects
      /\ o \in Gateways => /\ j.pc \in {"routes", "rules"} => Range(Infra(o)) \subseteq infra
                           /\ j.pc # "gateway"
  BY DEF IInv, TypeOK, EnsuredInv
<1>1. /\ AllRules \in Seq(Rule) /\ TlsPorts \in SUBSET Ports /\ {} \in SUBSET Ports
      /\ obj[MainGateway].live => obj[MainGateway].host \in Hosts \cup {None}
  BY ListTypes DEF IInv
<1>2. ASSUME NEW n \in Job, n.pc \in {"routes", "rules", "patch"}, Continue(o, n),
             UNCHANGED <<obj, infra, xds, writes, names>>,
             o \in Gateways => j.pc \in {"routes", "rules"}
      PROVE  IInv'
  <2>1. Fits(o, n)
    BY <1>0, <1>2 DEF Fits
  <2> QED
    BY <1>0, <1>2, <2>1, JobStep DEF Continue
<1>3. CASE ReadGateway(o)
  <2> DEFINE h == IF obj[MainGateway].live THEN obj[MainGateway].host ELSE None
             n == [j EXCEPT !.pc = "routes", !.host = h]
  <2>1. j.pc = "gateway" /\ Continue(o, n) /\ UNCHANGED <<obj, infra, xds, writes, names>>
    BY <1>3 DEF ReadGateway
  <2>2. h \in Hosts \cup {None}
    BY <1>1
  <2> HIDE DEF h
  <2>3. n.pc = "routes"
    BY <1>0 DEF Job
  <2>4. n \in Job
    BY <1>0, <2>2, JobFields DEF Steps
  <2> HIDE DEF n, j
  <2> QED
    BY <1>0, <1>2, <2>1, <2>3, <2>4
<1>4. CASE ListHttpRoutes(o)
  <2> DEFINE n == [j EXCEPT !.pc = "rules", !.rules = AllRules]
  <2>1. j.pc = "routes" /\ Continue(o, n) /\ UNCHANGED <<obj, infra, xds, writes, names>>
    BY <1>4 DEF ListHttpRoutes
  <2>2. n.pc = "rules"
    BY <1>0 DEF Job
  <2>3. n \in Job
    BY <1>0, <1>1, JobFields DEF Steps
  <2> HIDE DEF n, j
  <2> QED
    BY <1>2, <2>1, <2>2, <2>3
<1>5. CASE ListDestinationRules(o)
  <2>1. PICK t \in {TlsPorts, {}} : Continue(o, [j EXCEPT !.pc = "patch", !.tls = t])
    BY <1>5 DEF ListDestinationRules
  <2> DEFINE n == [j EXCEPT !.pc = "patch", !.tls = t]
  <2>2. j.pc = "rules" /\ Continue(o, n) /\ UNCHANGED <<obj, infra, xds, writes, names>>
    BY <1>5, <2>1 DEF ListDestinationRules
  <2>3. n.pc = "patch"
    BY <1>0 DEF Job
  <2>4. t \in SUBSET Ports
    BY <1>1
  <2>5. n \in Job
    BY <1>0, <2>4, JobFields DEF Steps
  <2> HIDE DEF n, j
  <2> QED
    BY <1>2, <2>2, <2>3, <2>5
<1> QED
  BY <1>3, <1>4, <1>5

\* sync_httproute_config writes the configuration anew, as a whole.
LEMMA PatchXdsInv ==
  ASSUME IInv, NEW o \in Objects, PatchXds(o)
  PROVE  IInv'
<1> DEFINE j == job[o]
           n == IF o \in Gateways /\ ~j.accepted THEN [j EXCEPT !.pc = "accept"] ELSE Idle
           c == Generate(j.host, j.rules, j.tls, j.rules = AllRules)
<1>1. /\ j.pc = "patch" /\ xds # None /\ xds' = c
      /\ job' = [job EXCEPT ![o] = n]
      /\ UNCHANGED <<unseen, cache, pending, obj, infra, writes, names>>
  BY DEF PatchXds, Continue
<1>2. j \in Job /\ (o \in Gateways => Range(Infra(o)) \subseteq infra)
  BY <1>1 DEF IInv, TypeOK, EnsuredInv
<1>3. j.host \in Hosts \cup {None} /\ j.rules \in Seq(Rule) /\ j.tls \in SUBSET Ports
  BY <1>2, JobFields
<1>4. c \in Config /\ c # None
  BY <1>3, ConfigResolves, ConfigAssumption
<1>5. XdsInv'
  BY <1>1, <1>3 DEF XdsInv
<1>6. Fits(o, n)
  <2>1. CASE n = Idle
    BY <2>1, IdleFits
  <2>2. CASE o \in Gateways /\ n = [j EXCEPT !.pc = "accept"]
    <3>1. n.pc = "accept"
      BY <1>2, <2>2 DEF Job
    <3>2. "accept" \in Steps
      BY DEF Steps
    <3> HIDE DEF n, j
    <3>3. n \in Job
      BY <1>2, <2>2, <3>2, JobFields
    <3> QED
      BY <1>1, <1>2, <2>2, <3>1, <3>3 DEF Fits
  <2> QED
    BY <2>1, <2>2
<1> HIDE DEF n, c, j
<1>7. /\ job' \in [Objects -> Job]
      /\ \A q \in Objects : job'[q].pc \in {"get", "create"} => q \in Gateways /\ job'[q].step # 0
      /\ EnsuredInv'
  BY <1>1, <1>6, JobInv DEF IInv
<1>8. TypeOK'
  BY <1>1, <1>4, <1>7 DEF IInv, TypeOK
<1>9. AcceptedMeansServed'
  BY <1>1 DEF IInv, AcceptedMeansServed
<1> QED
  BY <1>5, <1>7, <1>8, <1>9 DEF IInv

\* An object is given another version; a Gateway is accepted only if all it
\* needs exists.
LEMMA ObjectInv ==
  ASSUME IInv, NEW o \in Objects, NEW v, v \in Version(o) \cup {Absent}, obj' = [obj EXCEPT ![o] = v],
         o \in Gateways /\ v.live /\ v.accepted => Range(Infra(o)) \subseteq infra,
         UNCHANGED <<infra, xds, cache, names>>,
         unseen' \subseteq Objects, pending' \subseteq Objects, writes' \in 0 .. MaxWrites,
         EnsuredInv', job' \in [Objects -> Job],
         \A q \in Objects : job'[q].pc \in {"get", "create"} => q \in Gateways /\ job'[q].step # 0
  PROVE  IInv'
<1>1. DOMAIN obj' = Objects /\ obj'[o] = v /\ \A q \in Objects \ {o} : obj'[q] = obj[q]
  BY DEF IInv, TypeOK
<1>2. \A q \in Objects : obj'[q] \in Version(q) \cup {Absent}
  BY <1>1 DEF IInv, TypeOK
<1>3. TypeOK'
  BY <1>1, <1>2 DEF IInv, TypeOK
<1>4. AcceptedMeansServed'
  <2> SUFFICES ASSUME NEW g \in Gateways, obj'[g].live, obj'[g].accepted
               PROVE  Range(Infra(g)) \subseteq infra
    BY DEF AcceptedMeansServed
  <2>1. g \in Objects
    BY DEF Objects
  <2>2. CASE g = o
    BY <1>1, <2>2
  <2>3. CASE g # o
    BY <1>1, <2>1, <2>3 DEF IInv, AcceptedMeansServed
  <2> QED
    BY <2>2, <2>3
<1>5. XdsInv'
  BY DEF IInv, XdsInv
<1> QED
  BY <1>3, <1>4, <1>5 DEF IInv

\* The conditions of a Gateway are patched at the end of a reconcile that left
\* all its objects behind.
LEMMA PatchStatusInv ==
  ASSUME IInv, NEW o \in Objects, PatchStatus(o)
  PROVE  IInv'
<1> DEFINE v == [obj[o] EXCEPT !.accepted = TRUE]
<1>1. /\ job[o].pc = "accept" /\ obj[o].live /\ obj' = [obj EXCEPT ![o] = v]
      /\ unseen' = unseen \cup {o} /\ job' = [job EXCEPT ![o] = Idle]
      /\ UNCHANGED <<infra, xds, cache, pending, writes, names>>
  BY DEF PatchStatus
<1>2. o \in Classes \cup Gateways /\ (o \in Gateways => Range(Infra(o)) \subseteq infra)
  BY <1>1 DEF IInv, EnsuredInv
<1>3. obj[o] \in Version(o)
  BY <1>1 DEF IInv, TypeOK, Absent
<1>4. v \in Version(o)
  BY <1>2, <1>3, Fields
<1> HIDE DEF v
<1>5. Fits(o, Idle)
  BY IdleFits
<1>6. /\ job' \in [Objects -> Job]
      /\ \A q \in Objects : job'[q].pc \in {"get", "create"} => q \in Gateways /\ job'[q].step # 0
      /\ EnsuredInv'
  BY <1>1, <1>5, JobInv DEF IInv
<1>7. unseen' \subseteq Objects /\ pending' \subseteq Objects /\ writes' \in 0 .. MaxWrites
  BY <1>1 DEF IInv, TypeOK
<1> QED
  BY <1>1, <1>2, <1>4, <1>6, <1>7, ObjectInv

\* Every call of a reconcile to the API server.
LEMMA CallInv ==
  ASSUME IInv, NEW o \in Objects, Call(o) \/ ApiFails(o)
  PROVE  IInv'
<1>1. CASE o \in Gateways /\ (EnsureGet(o) \/ EnsureCreate(o))
  BY <1>1, EnsureInv
<1>2. CASE ReadGateway(o) \/ ListHttpRoutes(o) \/ ListDestinationRules(o)
  BY <1>2, ReadInv
<1>3. CASE PatchXds(o)
  BY <1>3, PatchXdsInv
<1>4. CASE PatchStatus(o)
  BY <1>4, PatchStatusInv
<1>5. CASE Refused(o) \/ ApiFails(o)
  BY <1>5, GiveUpInv DEF Refused, ApiFails
<1> QED
  BY <1>1, <1>2, <1>3, <1>4, <1>5 DEF Call

\* Users write and delete objects; the conditions are not theirs to write.
LEMMA UserInv ==
  ASSUME IInv, NEW o \in Objects, Delete(o) \/ \E v \in Version(o) : Write(o, v)
  PROVE  IInv'
<1>1. PICK v \in Version(o) \cup {Absent} :
        /\ obj' = [obj EXCEPT ![o] = v]
        /\ v.live /\ o \in Classes \cup Gateways => v.accepted = (obj[o].live /\ obj[o].accepted)
        /\ writes < MaxWrites /\ writes' = writes + 1 /\ unseen' = unseen \cup {o}
        /\ UNCHANGED <<infra, xds, cache, pending, job, names>>
  <2>1. CASE Delete(o)
    BY <2>1 DEF Delete, Absent
  <2>2. CASE \E v \in Version(o) : Write(o, v)
    BY <2>2 DEF Write
  <2> QED
    BY <2>1, <2>2
<1>2. ASSUME o \in Gateways, v.live, v.accepted
      PROVE  Range(Infra(o)) \subseteq infra
  BY <1>1, <1>2 DEF IInv, AcceptedMeansServed
<1>3. writes' \in 0 .. MaxWrites
  BY <1>1, GatewayAssumption DEF IInv, TypeOK
<1>4. unseen' \subseteq Objects /\ pending' \subseteq Objects
  BY <1>1 DEF IInv, TypeOK
<1>5. EnsuredInv'
  BY <1>1 DEF IInv, EnsuredInv
<1>6. /\ job' \in [Objects -> Job]
      /\ \A q \in Objects : job'[q].pc \in {"get", "create"} => q \in Gateways /\ job'[q].step # 0
  BY <1>1 DEF IInv, TypeOK
<1> QED
  BY <1>1, <1>2, <1>3, <1>4, <1>5, <1>6, ObjectInv

\* Watches deliver, and a restart forgets every job half way.
LEMMA ProcessInv ==
  ASSUME IInv, Restart \/ \E o \in Objects : Observe(o)
  PROVE  IInv'
<1>1. UNCHANGED <<obj, infra, xds, writes, names>>
  BY DEF Restart, Observe
<1>2. XdsInv' /\ AcceptedMeansServed'
  BY <1>1 DEF IInv, XdsInv, AcceptedMeansServed
<1>3. CASE \E o \in Objects : Observe(o)
  <2>1. PICK o \in Objects : Observe(o)
    BY <1>3
  <2>2. /\ DOMAIN cache' = Objects
        /\ \A q \in Objects : cache'[q] \in Version(q) \cup {Absent}
    BY <2>1 DEF Observe, IInv, TypeOK
  <2>3. unseen' \subseteq Objects /\ pending' \subseteq Objects /\ job' = job
    BY <2>1 DEF Observe, IInv, TypeOK
  <2>4. TypeOK' /\ EnsuredInv'
    BY <1>1, <2>2, <2>3 DEF IInv, TypeOK, EnsuredInv
  <2> QED
    BY <1>2, <2>4 DEF IInv
<1>4. CASE Restart
  <2>1. /\ job' \in [Objects -> Job] /\ \A q \in Objects : job'[q].pc = "idle"
    BY <1>4, IdleTypes DEF Restart
  <2>2. EnsuredInv'
    <3>1. Gateways \subseteq Objects
      BY DEF Objects
    <3> QED
      BY <2>1, <3>1 DEF EnsuredInv
  <2>3. /\ DOMAIN cache' = Objects
        /\ \A q \in Objects : cache'[q] \in Version(q) \cup {Absent}
    BY <1>4 DEF Restart
  <2>4. unseen' \subseteq Objects /\ pending' \subseteq Objects
    BY <1>4, GatewayAssumption DEF Restart, IInv, TypeOK
  <2>5. TypeOK'
    BY <1>1, <2>1, <2>3, <2>4 DEF IInv, TypeOK
  <2> QED
    BY <1>2, <2>2, <2>5 DEF IInv
<1> QED
  BY <1>3, <1>4

------------------------------------------------------------------------------
(***************************************************************************)
(* The theorems.                                                           *)
(***************************************************************************)
\* Every step of a controller, of the cluster's users and every restart keeps
\* the invariant.
THEOREM Inductive == Spec => []IInv
<1>1. Init => IInv
  <2> SUFFICES ASSUME Init PROVE IInv
    OBVIOUS
  <2>1. /\ DOMAIN obj = Objects /\ \A o \in Objects : obj[o] = Absent
        /\ DOMAIN cache = Objects /\ \A o \in Objects : cache[o] = Absent
        /\ job \in [Objects -> Job] /\ \A q \in Objects : job[q].pc = "idle"
        /\ Gateways \subseteq Objects /\ infra = {} /\ xds = None
    BY IdleTypes DEF Init, Objects
  <2>2. TypeOK
    BY <2>1, GatewayAssumption DEF Init, TypeOK
  <2>3. EnsuredInv
    BY <2>1 DEF EnsuredInv
  <2>4. XdsInv /\ AcceptedMeansServed
    BY <2>1 DEF XdsInv, AcceptedMeansServed, Absent
  <2> QED
    BY <2>2, <2>3, <2>4 DEF IInv
<1>2. IInv /\ [Next]_vars => IInv'
  <2> SUFFICES ASSUME IInv, [Next]_vars PROVE IInv'
    OBVIOUS
  <2>1. CASE \E o \in Objects : Reconcile(o)
    BY <2>1, ReconcileInv
  <2>2. CASE \E o \in Objects : Call(o) \/ ApiFails(o)
    BY <2>2, CallInv
  <2>3. CASE \E o \in Objects : Delete(o) \/ \E v \in Version(o) : Write(o, v)
    BY <2>3, UserInv
  <2>4. CASE Restart \/ \E o \in Objects : Observe(o)
    BY <2>4, ProcessInv
  <2>5. CASE UNCHANGED vars
    BY <2>5 DEF vars, IInv, TypeOK, EnsuredInv, XdsInv, AcceptedMeansServed
  <2> QED
    BY <2>1, <2>2, <2>3, <2>4, <2>5 DEF Next, Undisturbed
<1> QED
  BY <1>1, <1>2, PTL DEF Spec

\* The objects, the configuration and the jobs of the four controllers have
\* their types; the configuration exists exactly when its ConfigMap does.
THEOREM TypeCorrect == Spec => []TypeOK
<1>1. IInv => TypeOK
  BY DEF IInv
<1> QED
  BY <1>1, Inductive, PTL

\* reconcile_gateway: a Gateway that is reported Accepted and Programmed has all
\* its Envoy objects, whatever failed and whoever created them.
THEOREM AcceptedServed == Spec => []AcceptedMeansServed
<1>1. IInv => AcceptedMeansServed
  BY DEF IInv
<1> QED
  BY <1>1, Inductive, PTL

\* generate_rds_yaml and generate_cds_yaml: whatever rules the HTTPRoutes hold,
\* the first route of the configuration that matches a path is one with the
\* longest matching prefix, and its cluster is defined.
THEOREM RoutesRight == Spec => []RoutesResolve
<1>1. IInv => RoutesResolve
  <2> DEFINE Lengths == {r.prefix : r \in UNION {Range(rs) : rs \in RuleLists}}
  <2> SUFFICES ASSUME IInv, xds # None, NEW p \in Lengths
               PROVE  Resolves(xds, p)
    BY DEF RoutesResolve, Resolves
  <2>1. p \in Nat
    <3>1. PICK rs \in RuleLists : \E r \in Range(rs) : p = r.prefix
      OBVIOUS
    <3>2. rs \in Seq(Rule)
      BY GatewayAssumption
    <3>3. \A r \in Range(rs) : r \in Rule
      BY <3>2 DEF Range
    <3> QED
      BY <3>1, <3>3 DEF Rule
  <2>2. PICK host \in Hosts \cup {None}, rules \in Seq(Rule), tls \in SUBSET Ports,
             current \in BOOLEAN : xds = Generate(host, rules, tls, current)
    BY DEF IInv, XdsInv
  <2> QED
    BY <2>1, <2>2, ConfigResolves
<1> QED
  BY <1>1, Inductive, PTL
==============================================================================
