---------------------------- MODULE Byoidc_proofs ----------------------------
(***************************************************************************)
(* Theorems about Byoidc for every number of connections, every set of     *)
(* keys, every provider and every number of rotations and attempts.        *)
(*                                                                         *)
(* None of the three invariants the run checks is inductive.  The proofs   *)
(* need to know, besides the types,                                        *)
(*  - that no request is handled and no key is known while the server is   *)
(*    still starting (BootInv): this is what the handlers' unguarded use   *)
(*    of keys and discovery rests on;                                      *)
(*  - that keys loaded since the last rotation are exactly the RSA keys    *)
(*    the provider publishes (KeysInv);                                    *)
(*  - of each request, which tokens it can hold: genuine ones were signed  *)
(*    by the provider, and while the keys are current they are signed with *)
(*    the provider's present key, so that validation cannot fail for want  *)
(*    of the key (RequestInv).                                             *)
(***************************************************************************)
EXTENDS Byoidc, TLAPS

Vouched(u) == \E pair \in issued : pair[2] \in IF u = Unknown THEN {u, None} ELSE {u}

\* The keys were loaded since the provider last changed its own.
Current == keys # {} /\ loadedAt = rotations

BootInv ==
  /\ boot.pc # "listening" => keys = {} /\ \A r \in Reqs : req[r] = Idle
  /\ boot.pc = "jwks" => "jwks" \in discovery
  /\ KeysComeWithEndpoints

KeysInv == loadedAt <= rotations /\ (Current => keys = provider.publishes \cap Keys)

\* Genuine tokens come from the provider.
TokenInv(t) ==
  /\ Acceptable(t) /\ t.genuine => <<t.key, t.claim>> \in issued
  /\ Current /\ t \in JWT => t.genuine /\ t.key = provider.signs

RequestInv(q) ==
  /\ q \in Request /\ TokenInv(q.access) /\ TokenInv(q.id)
  /\ q.pc = "user" => q.user \in Named /\ Vouched(q.user)
  /\ Current /\ q.pc = "id" => ~Acceptable(q.access)
  /\ Current /\ (q.pc = "user" \/ (q.pc = "respond" /\ q.access # None)) =>
       /\ Acceptable(q.access) => q.user = username(q.access)
       /\ ~Acceptable(q.access) /\ Acceptable(q.id) => q.user = username(q.id)

IInv ==
  /\ TypeOK /\ BootInv /\ KeysInv
  /\ \A r \in Reqs : RequestInv(req[r])
  /\ \A u \in named : Vouched(u)

\* Whoever a token of the provider names is vouched for, "unknown" too.
LEMMA UsernameInv ==
  ASSUME NEW t \in JWT, <<t.key, t.claim>> \in issued
  PROVE  username(t) \in Named /\ Vouched(username(t))
<1>1. t.claim \in Users \cup {None} /\ <<t.key, t.claim>>[2] = t.claim
  BY DEF JWT, Claims
<1>2. username(t) \in Named /\ t.claim \in IF username(t) = Unknown THEN {username(t), None} ELSE {username(t)}
  BY <1>1 DEF username, Named
<1> QED
  BY <1>1, <1>2 DEF Vouched

\* A request that is not being handled has nothing to be checked.
LEMMA IdleInv == RequestInv(Idle) /\ Idle.pc = "idle"
<1>1. Idle \in Request /\ Idle.pc = "idle" /\ Idle.access = None /\ Idle.id = None
  BY DEF Idle, Request, PC, Token
<1>2. TokenInv(None)
  BY TokenAssumption DEF TokenInv, Acceptable
<1> QED
  BY <1>1, <1>2 DEF RequestInv

\* A handler goes on to a request in order, and names or creates no user that
\* the provider did not vouch for.
LEMMA NamingInv ==
  ASSUME IInv, NEW r \in Reqs, NEW q, Move(r, q), RequestInv(q),
         req[r].pc # "idle" \/ boot.pc = "listening", UNCHANGED <<outside, cache, boot>>,
         \A u \in named' : u \in named \/ (u \in Named /\ Vouched(u))
  PROVE  IInv'
<1>0. /\ UNCHANGED <<provider, rotations, issued, keys, discovery, loadedAt, boot>>
      /\ req \in [Reqs -> Request] /\ q \in Request
  BY DEF outside, cache, IInv, TypeOK, RequestInv
<1>1. boot.pc = "listening"
  BY IdleInv DEF IInv, BootInv
<1>2. req' \in [Reqs -> Request] /\ \A s \in Reqs : req'[s] = q \/ req'[s] = req[s]
  BY <1>0 DEF Move
<1>3. ASSUME NEW s \in Reqs
      PROVE  RequestInv(req[s])'
  <2>1. RequestInv(req[s]) /\ RequestInv(q)
    BY DEF IInv
  <2> QED
    BY <1>0, <1>2, <2>1 DEF RequestInv, TokenInv, Current, Vouched
<1>4. TypeOK'
  <2>1. named' \subseteq Named
    BY DEF IInv, TypeOK
  <2> QED
    BY <1>0, <1>2, <2>1 DEF IInv, TypeOK
<1>5. BootInv' /\ KeysInv'
  BY <1>0, <1>1 DEF IInv, BootInv, KeysComeWithEndpoints, KeysInv, Current
<1>6. \A u \in named' : Vouched(u)'
  BY <1>0 DEF IInv, Vouched
<1> QED
  BY <1>3, <1>4, <1>5, <1>6 DEF IInv

\* A handler that changes nothing but its request.
LEMMA MoveInv ==
  ASSUME IInv, NEW r \in Reqs, NEW q, Move(r, q), RequestInv(q),
         req[r].pc # "idle" \/ boot.pc = "listening", UNCHANGED allButReq
  PROVE  IInv'
  BY NamingInv DEF allButReq

\* Answering a request.
LEMMA AnswerInv ==
  ASSUME IInv, NEW r \in Reqs, Answer(r), req[r].pc # "idle" \/ boot.pc = "listening",
         UNCHANGED allButReq
  PROVE  IInv'
  BY IdleInv, MoveInv DEF Answer

\* An attempt that is over leaves a counter within its bound, and ends the
\* start when there are keys.
LEMMA AttemptEndsInv ==
  ASSUME TypeOK, NEW ks, AttemptEnds(ks)
  PROVE  /\ boot' \in [pc : {"discovery", "jwks", "listening"}, attempt : 1 .. Attempts]
         /\ boot'.pc \in {"discovery", "listening"} /\ (ks # {} => boot'.pc = "listening")
<1>1. boot \in [pc : {"discovery", "jwks", "listening"}, attempt : 1 .. Attempts]
  BY DEF TypeOK
<1>2. boot.attempt # Attempts => boot.attempt + 1 \in 1 .. Attempts
  BY <1>1, ByoidcAssumption
<1>3. CASE ks # {} \/ boot.attempt = Attempts
  <2>1. boot' = [boot EXCEPT !.pc = "listening"]
    BY <1>3 DEF AttemptEnds
  <2> QED
    BY <1>1, <2>1
<1>4. CASE ~(ks # {} \/ boot.attempt = Attempts)
  <2>1. boot' = [pc |-> "discovery", attempt |-> boot.attempt + 1]
    BY <1>4 DEF AttemptEnds
  <2> QED
    BY <1>2, <1>4, <2>1
<1> QED
  BY <1>3, <1>4

\* The start: nothing is being handled yet, so only the keys, the document and
\* the attempt have to be looked at.
LEMMA StartInv ==
  ASSUME IInv, boot.pc # "listening", UNCHANGED <<outside, req, named>>,
         keys' \subseteq Keys, discovery' \subseteq Endpoints, loadedAt' \in 0 .. MaxRotations,
         boot' \in [pc : {"discovery", "jwks", "listening"}, attempt : 1 .. Attempts],
         KeysInv', keys' # {} => boot'.pc = "listening" /\ "jwks" \in discovery',
         boot'.pc = "jwks" => "jwks" \in discovery'
  PROVE  IInv'
<1>1. \A r \in Reqs : req'[r] = Idle
  BY DEF IInv, BootInv
<1>2. RequestInv(Idle)'
  BY IdleInv, PTL
<1>3. \A r \in Reqs : RequestInv(req[r])'
  BY <1>1, <1>2, Zenon DEF RequestInv
<1>4. TypeOK'
  BY DEF outside, IInv, TypeOK
<1>5. BootInv'
  BY <1>1 DEF BootInv, KeysComeWithEndpoints
<1>6. \A u \in named' : Vouched(u)'
  BY DEF IInv, outside, Vouched
<1> QED
  BY <1>3, <1>4, <1>5, <1>6 DEF IInv

\* ExternalJwksCache::new.
LEMMA BootStep ==
  ASSUME IInv, Boot
  PROVE  IInv'
<1>0. boot \in [pc : {"discovery", "jwks", "listening"}, attempt : 1 .. Attempts]
  BY DEF IInv, TypeOK
<1>1. boot.pc # "listening" /\ keys = {} /\ keys \subseteq Keys
  BY DEF Boot, refresh_fails, refresh_discovery, refresh_jwks, IInv, BootInv, TypeOK
<1>2. UNCHANGED <<outside, req, named>>
  BY DEF Boot, refresh_fails, refresh_discovery, refresh_jwks
<1>3. CASE refresh_fails
  <2>1. UNCHANGED <<keys, discovery, loadedAt>> /\ AttemptEnds(keys)
    BY <1>3 DEF refresh_fails, cache
  <2>2. KeysInv'
    BY <1>2, <2>1 DEF IInv, KeysInv, Current, outside
  <2> QED
    BY <1>1, <1>2, <2>1, <2>2, AttemptEndsInv, StartInv DEF IInv, TypeOK
<1>4. ASSUME NEW doc \in SUBSET Endpoints, refresh_discovery(doc)
      PROVE  IInv'
  <2>1. /\ UNCHANGED <<keys, loadedAt>> /\ discovery' = doc
        /\ IF "jwks" \in doc THEN boot' = [boot EXCEPT !.pc = "jwks"] ELSE AttemptEnds(keys)
    BY <1>4 DEF refresh_discovery
  <2>2. KeysInv'
    BY <1>2, <2>1 DEF IInv, KeysInv, Current, outside
  <2>3. /\ boot' \in [pc : {"discovery", "jwks", "listening"}, attempt : 1 .. Attempts]
        /\ boot'.pc = "jwks" => "jwks" \in doc
    <3>1. CASE "jwks" \in doc
      BY <1>0, <2>1, <3>1
    <3>2. CASE "jwks" \notin doc
      BY <2>1, <3>2, AttemptEndsInv DEF IInv
    <3> QED
      BY <3>1, <3>2
  <2> QED
    BY <1>1, <1>2, <2>1, <2>2, <2>3, StartInv DEF IInv, TypeOK
<1>5. ASSUME NEW jwks \in {provider.publishes, {}}, refresh_jwks(jwks)
      PROVE  IInv'
  <2>1. /\ boot.pc = "jwks" /\ keys' = jwks \cap Keys /\ loadedAt' = rotations
        /\ discovery' = discovery /\ AttemptEnds(keys')
    BY <1>5 DEF refresh_jwks
  <2>2. "jwks" \in discovery
    BY <2>1 DEF IInv, BootInv
  <2>3. KeysInv'
    BY <1>2, <2>1, ByoidcAssumption DEF IInv, TypeOK, KeysInv, Current, outside
  <2>4. /\ boot' \in [pc : {"discovery", "jwks", "listening"}, attempt : 1 .. Attempts]
        /\ boot'.pc \in {"discovery", "listening"} /\ (keys' # {} => boot'.pc = "listening")
    BY <2>1, AttemptEndsInv DEF IInv
  <2> QED
    BY <1>1, <1>2, <2>1, <2>2, <2>3, <2>4, StartInv DEF IInv, TypeOK
<1> QED
  BY <1>3, <1>4, <1>5 DEF Boot

\* Requests that hold no token and are not at an await point that depends on
\* one: being accepted, forwarded, relayed.
LEMMA EmptyInv ==
  ASSUME NEW pc \in PC \ {"user"}
  PROVE  RequestInv([Idle EXCEPT !.pc = pc])
<1> DEFINE q == [Idle EXCEPT !.pc = pc]
<1>1. q \in Request /\ q.pc = pc /\ q.access = None /\ q.id = None
  BY DEF Idle, Request, Token
<1>2. TokenInv(None) /\ ~Acceptable(None)
  BY TokenAssumption DEF TokenInv, Acceptable
<1> HIDE DEF q
<1> QED
  BY <1>1, <1>2 DEF RequestInv, q

\* validate_token and what its caller does with the outcome.  A token of an
\* exchange that the keys should be able to validate is validated.
LEMMA ValidatedInv ==
  ASSUME IInv, NEW r \in Reqs, NEW t, NEW otherwise \in {"id", "respond"},
         \/ req[r].pc = "access" /\ t = req[r].access /\ (otherwise = "id" \/ req[r].id = None)
         \/ req[r].pc = "id" /\ t = req[r].id /\ otherwise = "respond",
         Validated(r, t, otherwise), UNCHANGED allButReq
  PROVE  IInv'
<1> DEFINE known == [req[r] EXCEPT !.pc = "user", !.user = username(t)]
           unknown == [req[r] EXCEPT !.pc = otherwise]
<1>0. RequestInv(req[r]) /\ req[r] \in Request /\ TokenInv(t)
  BY DEF IInv, RequestInv
<1>1. Move(r, IF validate_token(t) THEN known ELSE unknown)
  BY DEF Validated
<1>2. CASE validate_token(t)
  <2>1. t \in JWT /\ t.genuine /\ Acceptable(t)
    BY <1>2 DEF validate_token, Acceptable, IInv, TypeOK
  <2>2. username(t) \in Named /\ Vouched(username(t))
    BY <1>0, <2>1, UsernameInv DEF TokenInv
  <2>3. /\ known \in Request /\ known.pc = "user" /\ known.user = username(t)
        /\ known.access = req[r].access /\ known.id = req[r].id
    BY <1>0, <2>2 DEF Request, PC
  <2>4. Move(r, known)
    BY <1>1, <1>2
  <2> HIDE DEF known
  <2>5. RequestInv(known)
    BY <1>0, <2>1, <2>2, <2>3 DEF RequestInv
  <2> QED
    BY <2>4, <2>5, MoveInv
<1>3. CASE ~validate_token(t)
  <2>1. Current => ~Acceptable(t)
    <3>1. ASSUME Current, Acceptable(t)
          PROVE  FALSE
      <4>1. t \in JWT /\ t.key \in Keys /\ t.valid /\ t.genuine /\ t.key = provider.signs
        BY <1>0, <3>1 DEF Acceptable, TokenInv
      <4>2. keys = provider.publishes \cap Keys /\ provider.signs \in provider.publishes
        BY <3>1, ByoidcAssumption DEF IInv, KeysInv, TypeOK
      <4> QED
        BY <1>3, <4>1, <4>2 DEF validate_token
    <3> QED
      BY <3>1
  <2>2. /\ unknown \in Request /\ unknown.pc = otherwise /\ unknown.user = req[r].user
        /\ unknown.access = req[r].access /\ unknown.id = req[r].id
    BY <1>0 DEF Request, PC
  <2>3. Move(r, unknown)
    BY <1>1, <1>3
  <2>4. ~Acceptable(None)
    BY TokenAssumption DEF Acceptable
  <2> HIDE DEF unknown
  <2>5. RequestInv(unknown)
    BY <1>0, <2>1, <2>2, <2>4 DEF RequestInv
  <2> QED
    BY <2>3, <2>5, MoveInv
<1> QED
  BY <1>2, <1>3

\* The handlers.
LEMMA HandleStep ==
  ASSUME IInv, NEW r \in Reqs, Handle(r)
  PROVE  IInv'
<1>0. RequestInv(req[r]) /\ req[r] \in Request
  BY DEF IInv, RequestInv
<1>1. CASE handle_byoidc_authorize(r) \/ Respond(r)
  BY <1>1, AnswerInv DEF handle_byoidc_authorize, Respond, At
<1>2. CASE handle_byoidc_token(r) \/ handle_byoidc_proxy(r) \/ handle_byoidc_jwks(r)
  <2>1. /\ req[r].pc \in {"accepted", "post"} /\ UNCHANGED allButReq
        /\ Answer(r) \/ \E pc \in {"post", "forward", "relay", "jwks"} : Move(r, [Idle EXCEPT !.pc = pc])
    BY <1>2 DEF handle_byoidc_token, handle_byoidc_proxy, handle_byoidc_jwks, At
  <2>2. {"post", "forward", "relay", "jwks"} \subseteq PC \ {"user"}
    BY DEF PC
  <2> QED
    BY <2>1, <2>2, EmptyInv, MoveInv, AnswerInv
<1>3. CASE handle_byoidc_token_access(r)
  <2>1. req[r].pc = "access" /\ UNCHANGED allButReq
        /\ Validated(r, req[r].access, IF req[r].id = None THEN "respond" ELSE "id")
    BY <1>3 DEF handle_byoidc_token_access, At
  <2>2. CASE req[r].id = None
    BY <2>1, <2>2, ValidatedInv
  <2>3. CASE req[r].id # None
    BY <2>1, <2>3, ValidatedInv
  <2> QED
    BY <2>2, <2>3
<1>4. CASE handle_byoidc_token_id(r)
  BY <1>4, ValidatedInv DEF handle_byoidc_token_id, At
<1>5. CASE ensure_user_and_identity(r)
  <2> DEFINE q == [req[r] EXCEPT !.pc = "respond"]
  <2>1. /\ req[r].pc = "user" /\ Move(r, q) /\ named' = named \cup {req[r].user}
        /\ UNCHANGED <<outside, cache, boot>>
    BY <1>5 DEF ensure_user_and_identity, At
  <2>2. req[r].user \in Named /\ Vouched(req[r].user)
    BY <1>0, <2>1 DEF RequestInv
  <2>3. /\ q \in Request /\ q.pc = "respond" /\ q.user = req[r].user
        /\ q.access = req[r].access /\ q.id = req[r].id
    BY <1>0 DEF Request, PC
  <2> HIDE DEF q
  <2>4. RequestInv(q)
    BY <1>0, <2>1, <2>2, <2>3 DEF RequestInv
  <2> QED
    BY <2>1, <2>2, <2>4, NamingInv
<1>6. ASSUME NEW t \in JWT, handle_byoidc_userinfo(r, t)
      PROVE  IInv'
  <2>1. /\ req[r].pc = "accepted" /\ Move(r, Idle)
        /\ t.genuine /\ Acceptable(t) => <<t.key, t.claim>> \in issued
        /\ named' = IF validate_token(t) THEN named \cup {username(t)} ELSE named
        /\ UNCHANGED <<outside, cache, boot>>
    BY <1>6 DEF handle_byoidc_userinfo, At, Answer
  <2>2. validate_token(t) => username(t) \in Named /\ Vouched(username(t))
    BY <2>1, UsernameInv DEF validate_token, Acceptable, IInv, TypeOK
  <2> QED
    BY <2>1, <2>2, IdleInv, NamingInv
<1> QED
  BY <1>1, <1>2, <1>3, <1>4, <1>5, <1>6 DEF Handle

\* The provider's answers.  What it signs it has vouched for, and with its
\* present key.
LEMMA ProvideStep ==
  ASSUME IInv, NEW r \in Reqs, Provide(r)
  PROVE  IInv'
<1>1. CASE ProviderFails(r)
  BY <1>1, AnswerInv DEF ProviderFails
<1>2. CASE ProviderAnswers(r)
  <2>1. /\ req[r].pc \in {"forward", "relay", "jwks"} /\ UNCHANGED allButReq
        /\ Answer(r) \/ Move(r, [Idle EXCEPT !.pc = "respond"])
    BY <1>2 DEF ProviderAnswers, At
  <2>2. "respond" \in PC \ {"user"}
    BY DEF PC
  <2> QED
    BY <2>1, <2>2, EmptyInv, MoveInv, AnswerInv
<1>3. ASSUME NEW access \in Signed \cup {None}, NEW id \in Signed \cup {None},
             ProviderIssues(r, access, id)
      PROVE  IInv'
  <2> DEFINE pc == IF access = None THEN "respond" ELSE "access"
             q == [Idle EXCEPT !.pc = pc, !.access = access, !.id = id]
  <2>1. /\ req[r].pc = "forward"
        /\ issued' = issued \cup {<<t.key, t.claim>> : t \in {t \in {access, id} : Acceptable(t)}}
        /\ Move(r, q)
        /\ UNCHANGED <<provider, rotations, keys, discovery, loadedAt, boot, named>>
    BY <1>3 DEF ProviderIssues, At, cache
  <2>2. /\ \A t \in Signed : t \in JWT /\ t.key = provider.signs /\ t.genuine
        /\ access \in Token /\ id \in Token
    BY ByoidcAssumption DEF IInv, TypeOK, JWT, Signed, Token
  <2>3. issued \subseteq issued' /\ issued' \subseteq Keys \X Claims
    <3>1. \A t : Acceptable(t) => <<t.key, t.claim>> \in Keys \X Claims
      BY DEF Acceptable, JWT
    <3> QED
      BY <2>1, <3>1 DEF IInv, TypeOK
  <2>4. ASSUME NEW t \in {access, id}
        PROVE  TokenInv(t)'
    <3>1. Acceptable(t) => <<t.key, t.claim>> \in issued'
      BY <2>1
    <3>2. t \in JWT => t.genuine /\ t.key = provider.signs
      BY <2>2, TokenAssumption
    <3> QED
      BY <2>1, <3>1, <3>2 DEF TokenInv, Current
  <2>5. /\ q \in Request /\ q.pc = pc /\ q.access = access /\ q.id = id /\ pc \in {"respond", "access"}
        /\ pc = "respond" => access = None
    BY <2>2 DEF Idle, Request, PC
  <2> HIDE DEF q, pc
  <2>6. RequestInv(q)'
    BY <2>4, <2>5 DEF RequestInv
  <2>7. boot.pc = "listening"
    BY <2>1, IdleInv DEF IInv, BootInv
  <2>8. req' \in [Reqs -> Request] /\ \A s \in Reqs : req'[s] = q \/ req'[s] = req[s]
    BY <2>1, <2>5 DEF Move, IInv, TypeOK
  <2>9. ASSUME NEW s \in Reqs
        PROVE  RequestInv(req[s])'
    <3>1. RequestInv(req[s])
      BY DEF IInv
    <3>2. CASE req'[s] = q
      BY <2>6, <3>2 DEF RequestInv
    <3>3. CASE req'[s] = req[s]
      BY <2>1, <2>3, <3>1, <3>3 DEF RequestInv, TokenInv, Current, Vouched
    <3> QED
      BY <2>8, <3>2, <3>3
  <2>10. TypeOK'
    BY <2>1, <2>3, <2>8 DEF IInv, TypeOK
  <2>11. BootInv' /\ KeysInv'
    BY <2>1, <2>7 DEF IInv, BootInv, KeysComeWithEndpoints, KeysInv, Current
  <2>12. \A v \in named' : Vouched(v)'
    BY <2>1, <2>3 DEF IInv, Vouched
  <2> QED
    BY <2>9, <2>10, <2>11, <2>12 DEF IInv
<1> QED
  BY <1>1, <1>2, <1>3 DEF Provide

\* A rotation makes the loaded keys out of date, whatever they are.
LEMMA RotateStep ==
  ASSUME IInv, NEW p \in Providers, Rotate(p)
  PROVE  IInv'
<1>1. /\ rotations < MaxRotations /\ rotations' = rotations + 1 /\ provider' = p
      /\ UNCHANGED <<issued, keys, discovery, loadedAt, boot, req, named>>
  BY DEF Rotate, cache
<1>2. loadedAt \in Nat /\ rotations \in Nat /\ loadedAt <= rotations /\ rotations' \in 0 .. MaxRotations
  BY <1>1, ByoidcAssumption DEF IInv, TypeOK, KeysInv
<1>3. loadedAt' # rotations' /\ loadedAt' <= rotations'
  BY <1>1, <1>2
<1>4. ~Current'
  BY <1>3 DEF Current
<1>5. ASSUME NEW s \in Reqs
      PROVE  RequestInv(req[s])'
  <2>1. RequestInv(req[s])
    BY DEF IInv
  <2> QED
    BY <1>1, <1>4, <2>1 DEF RequestInv, TokenInv, Vouched
<1>6. TypeOK'
  BY <1>1, <1>2 DEF IInv, TypeOK
<1>7. BootInv' /\ KeysInv'
  BY <1>1, <1>3, <1>4 DEF IInv, BootInv, KeysComeWithEndpoints, KeysInv
<1>8. \A u \in named' : Vouched(u)'
  BY <1>1 DEF IInv, Vouched
<1> QED
  BY <1>5, <1>6, <1>7, <1>8 DEF IInv

\* A restart forgets the keys and all requests.
LEMMA RestartStep ==
  ASSUME IInv, Restart
  PROVE  IInv'
<1>1. /\ keys' = {} /\ discovery' = {} /\ loadedAt' = 0
      /\ boot' = [pc |-> "discovery", attempt |-> 1] /\ req' = [s \in Reqs |-> Idle]
      /\ UNCHANGED <<provider, rotations, issued, named>>
  BY DEF Restart, outside
<1>2. RequestInv(Idle)' /\ Idle \in Request
  <2>1. RequestInv(Idle)'
    BY IdleInv, PTL
  <2> QED
    BY <2>1 DEF RequestInv
<1>3. \A s \in Reqs : RequestInv(req[s])'
  BY <1>1, <1>2, Zenon DEF RequestInv
<1>4. TypeOK'
  BY <1>1, <1>2, ByoidcAssumption DEF IInv, TypeOK
<1>5. BootInv' /\ KeysInv'
  BY <1>1, ByoidcAssumption DEF IInv, TypeOK, BootInv, KeysComeWithEndpoints, KeysInv, Current
<1>6. \A u \in named' : Vouched(u)'
  BY <1>1 DEF IInv, Vouched
<1> QED
  BY <1>3, <1>4, <1>5, <1>6 DEF IInv

\* The invariant holds of every behaviour.
THEOREM Inductive == Spec => []IInv
<1>1. ASSUME Init
      PROVE  IInv
  <2>1. TypeOK /\ KeysInv
    BY <1>1, IdleInv, ByoidcAssumption DEF Init, Started, TypeOK, KeysInv, Current, RequestInv
  <2>2. BootInv /\ \A u \in named : Vouched(u)
    BY <1>1 DEF Init, Started, BootInv, KeysComeWithEndpoints
  <2>3. \A r \in Reqs : req[r] = Idle
    BY <1>1 DEF Init, Started
  <2>4. \A r \in Reqs : RequestInv(req[r])
    BY <2>3, IdleInv
  <2> QED
    BY <2>1, <2>2, <2>4 DEF IInv
<1>2. IInv /\ [Next]_vars => IInv'
  <2> SUFFICES ASSUME IInv, [Next]_vars
               PROVE  IInv'
    OBVIOUS
  <2>1. ASSUME NEW r \in Reqs, Accept(r)
        PROVE  IInv'
    <3>1. "accepted" \in PC \ {"user"}
      BY DEF PC
    <3> QED
      BY <2>1, <3>1, EmptyInv, MoveInv DEF Accept
  <2>2. ASSUME NEW r \in Reqs, Disconnect(r)
        PROVE  IInv'
    <3>1. req[r] # Idle /\ Answer(r) /\ UNCHANGED allButReq
      BY <2>2 DEF Disconnect
    <3>2. boot.pc = "listening"
      BY <3>1 DEF IInv, BootInv
    <3> QED
      BY <3>1, <3>2, AnswerInv
  <2>3. CASE UNCHANGED vars
    <3>1. UNCHANGED <<provider, rotations, issued, keys, discovery, loadedAt, boot, req, named>>
      BY <2>3 DEF vars, outside, cache
    <3>2. ASSUME NEW s \in Reqs
          PROVE  RequestInv(req[s])'
      BY <3>1 DEF IInv, RequestInv, TokenInv, Current, Vouched
    <3> QED
      BY <3>1, <3>2 DEF IInv, TypeOK, BootInv, KeysComeWithEndpoints, KeysInv, Current, Vouched
  <2> QED
    BY <2>1, <2>2, <2>3, BootStep, HandleStep, ProvideStep, RotateStep, RestartStep DEF Next
<1> QED
  BY <1>1, <1>2, PTL DEF Spec

\* The key cache and the requests keep their types.
THEOREM TypeCorrect == Spec => []TypeOK
  BY Inductive, PTL DEF IInv

\* validate_token and its callers: whoever is created in the cluster or named
\* by userinfo, the provider has signed a valid token for, with an RSA key; and
\* if it is "unknown", one that may name nobody.
THEOREM UsersAreVouchedFor == Spec => []UsersVouchedFor
<1>1. IInv => UsersVouchedFor
  BY DEF IInv, Vouched, UsersVouchedFor
<1> QED
  BY <1>1, Inductive, PTL

\* ExternalJwksCache::new, for every number of attempts and every way they can
\* fail: keys are never left without the document that names their endpoint.
THEOREM KeysHaveEndpoints == Spec => []KeysComeWithEndpoints
  BY Inductive, PTL DEF IInv, BootInv

\* handle_byoidc_token: an exchange with a token that the server should accept
\* is not answered before the user whom it names was ensured, for every
\* interleaving with rotations, restarts and other exchanges.
THEOREM ExchangesEnsureUser == Spec => []ExchangeEnsuresUser
<1>1. IInv => ExchangeEnsuresUser
  <2> SUFFICES ASSUME IInv, NEW r \in Reqs, req[r].pc = "respond", req[r].access # None, Current
               PROVE  /\ Acceptable(req[r].access) => req[r].user = username(req[r].access)
                      /\ ~Acceptable(req[r].access) /\ Acceptable(req[r].id)
                           => req[r].user = username(req[r].id)
    BY DEF ExchangeEnsuresUser, At, Current
  <2> QED
    BY DEF IInv, RequestInv
<1> QED
  BY <1>1, Inductive, PTL
==============================================================================
