-------------------------------- MODULE Byoidc --------------------------------
(***************************************************************************)
(* The OAuth server in front of an external OIDC provider                  *)
(* (simulator/src/oauth/byoidc.rs): the discovery document and the signing *)
(* keys it loads from the provider while it starts, and the handlers that  *)
(* redirect, forward and validate with them.  The server listens only once *)
(* the loading is over, and nothing is loaded again until the next start,  *)
(* although the provider may change its keys at any time.                  *)
(*                                                                         *)
(* A key stands for its kid.  A JWT names a key and is `genuine` if it was *)
(* signed with it; only the provider makes genuine ones.  It may claim     *)
(* nobody, and it may be out of date.  The URLs of the discovery document  *)
(* lead back to this process, whose reverse proxy hands them to            *)
(* handle_byoidc_proxy: the exchange of a code is a request of the server  *)
(* to itself.                                                              *)
(***************************************************************************)
EXTENDS Naturals

CONSTANTS
  Reqs,         \* connections that can be in flight at once
  Keys,         \* RSA keys of the provider
  OtherKeys,    \* keys of other types, or that do not parse
  Providers,    \* what the provider can publish and sign with
  Users,
  Unknown,      \* the user "unknown", whom every token without a name stands for
  Attempts,     \* how often ExternalJwksCache::new tries
  MaxRotations, \* bound: how often the provider changes its keys
  None

ASSUME ByoidcAssumption ==
  /\ Attempts \in Nat \ {0} /\ MaxRotations \in Nat
  /\ Keys \cap OtherKeys = {} /\ None \notin Users \cup {Unknown}
  /\ \A p \in Providers : p.signs \in p.publishes /\ p.publishes \subseteq Keys \cup OtherKeys

\* What a discovery document can name; where it sends browsers decides nothing.
Endpoints == {"token", "jwks"}

VARIABLES
  provider,   \* external: the keys it publishes and the one it signs with
  rotations,  \* how often those changed
  keys,       \* ExternalJwksCache.keys
  discovery,  \* ExternalJwksCache.discovery: the endpoints that are not empty
  boot,       \* where ExternalJwksCache::new is
  req,        \* the requests in flight
  named,      \* history: the users that it set out to create, or named in answers of userinfo
  issued,     \* history: the provider signed a valid token with this RSA key and claim
  loadedAt    \* history: the rotation at which the keys were loaded

cache == <<keys, discovery, loadedAt>>
outside == <<provider, rotations, issued>>
vars == <<outside, cache, boot, req, named>>

\* A JWT names the key it claims to be signed with.  Its claim is the string
\* under the first of preferred_username, email and sub that it has, or None if
\* there is no such string.  It is `valid` if it says RS256 and has an expiry
\* that has not passed when the server looks at it; what is no JWT counts as one
\* that is not.
Claims == Users \cup {None}
JWT == [key : Keys \cup OtherKeys, claim : Claims, genuine : BOOLEAN, valid : BOOLEAN]
Token == JWT \cup {None}

\* The absence of a token is none.
ASSUME TokenAssumption == None \notin JWT

\* A token that the server should accept if the provider signed it.
Acceptable(t) == t \in JWT /\ t.key \in Keys /\ t.valid

PC == {"idle", "accepted", "post", "forward", "access", "id", "user", "respond", "jwks", "relay"}
Named == Users \cup {Unknown}
Request == [pc : PC, access : Token, id : Token, user : Named \cup {None}]
Idle == [pc |-> "idle", access |-> None, id |-> None, user |-> None]

TypeOK ==
  /\ provider \in Providers /\ rotations \in 0..MaxRotations
  /\ issued \subseteq Keys \X Claims /\ loadedAt \in 0..MaxRotations
  /\ keys \subseteq Keys /\ discovery \subseteq Endpoints
  /\ boot \in [pc : {"discovery", "jwks", "listening"}, attempt : 1..Attempts]
  /\ req \in [Reqs -> Request]
  /\ named \subseteq Named

Started ==
  /\ keys = {} /\ discovery = {} /\ loadedAt = 0
  /\ boot = [pc |-> "discovery", attempt |-> 1]
  /\ req = [r \in Reqs |-> Idle]

Init ==
  /\ provider \in Providers /\ rotations = 0 /\ issued = {}
  /\ Started
  /\ named = {}

At(r, pc) == req[r].pc = pc
Move(r, next) == req' = [req EXCEPT ![r] = next]
Answer(r) == Move(r, Idle)

------------------------------------------------------------------------------
(***************************************************************************)
(* ExternalJwksCache::new: attempts of refresh, until there are keys.      *)
(***************************************************************************)

\* An attempt is over, with ks in the map of keys.
AttemptEnds_Persists(ks) ==
  boot' = IF ks # {} THEN [boot EXCEPT !.pc = "listening"]
          ELSE [pc |-> "discovery", attempt |-> boot.attempt]

AttemptEnds_NeverBreaks(ks) ==
  boot' = IF boot.attempt = Attempts THEN [boot EXCEPT !.pc = "listening"]
          ELSE [pc |-> "discovery", attempt |-> boot.attempt + 1]

AttemptEnds(ks) ==
  boot' = IF ks # {} \/ boot.attempt = Attempts
            THEN [boot EXCEPT !.pc = "listening"]
            ELSE [pc |-> "discovery", attempt |-> boot.attempt + 1]

\* The request or the parsing fails.
refresh_fails ==
  /\ boot.pc \in {"discovery", "jwks"}
  /\ AttemptEnds(keys)
  /\ UNCHANGED <<outside, cache, req, named>>

\* Any JSON document is taken, an error message too; what it does not name is
\* stored as empty.
refresh_discovery(doc) ==
  /\ boot.pc = "discovery"
  /\ discovery' = doc
  /\ IF "jwks" \in doc THEN boot' = [boot EXCEPT !.pc = "jwks"] ELSE AttemptEnds(keys)
  /\ UNCHANGED <<outside, keys, loadedAt, req, named>>

\* The keys as the provider publishes them now; an error message has none.
refresh_jwks(jwks) ==
  /\ boot.pc = "jwks" /\ jwks \in {provider.publishes, {}}
  /\ keys' = jwks \cap Keys /\ loadedAt' = rotations
  /\ AttemptEnds(keys')
  /\ UNCHANGED <<outside, discovery, req, named>>

Boot ==
  \/ refresh_fails
  \/ \E doc \in SUBSET Endpoints : refresh_discovery(doc)
  \/ \E jwks \in {provider.publishes, {}} : refresh_jwks(jwks)

------------------------------------------------------------------------------
(***************************************************************************)
(* The handlers.  An answer that depends on nothing but the discovery      *)
(* document, such as the redirect of handle_byoidc_authorize, changes      *)
(* nothing here.                                                           *)
(***************************************************************************)
allButReq == <<outside, cache, boot, named>>

validate_token_Unsigned(t) == t \in JWT /\ t.key \in keys /\ t.valid

validate_token(t) == t \in JWT /\ t.key \in keys /\ t.genuine /\ t.valid

\* Whom the claims name.
username(t) == IF t.claim = None THEN Unknown ELSE t.claim

Accept(r) ==
  /\ req[r] = Idle /\ boot.pc = "listening"
  /\ Move(r, [Idle EXCEPT !.pc = "accepted"])
  /\ UNCHANGED allButReq

handle_byoidc_authorize(r) ==
  /\ At(r, "accepted")
  /\ Answer(r)
  /\ UNCHANGED allButReq

\* 502 without a token endpoint.  The read guard of `discovery` is kept from
\* here to the answer.
handle_byoidc_token(r) ==
  /\ At(r, "accepted")
  /\ IF "token" \in discovery THEN Move(r, [Idle EXCEPT !.pc = "post"]) ELSE Answer(r)
  /\ UNCHANGED allButReq

\* The connection the server made to itself, or one of a browser.
handle_byoidc_proxy(r) ==
  /\ \/ At(r, "post") /\ Move(r, [Idle EXCEPT !.pc = "forward"])
     \/ At(r, "accepted") /\ Move(r, [Idle EXCEPT !.pc = "relay"])
  /\ UNCHANGED allButReq

\* What the provider can sign now.  The claims of a token that is not valid are
\* never looked at.
Signed ==
  {t \in [key : {provider.signs}, claim : Claims, genuine : {TRUE}, valid : BOOLEAN] :
     t.valid \/ t.claim = None}

\* The provider exchanges the code for tokens, of which each has its own claims.
ProviderIssues(r, access, id) ==
  /\ At(r, "forward")
  /\ access \in Signed \cup {None} /\ id \in Signed \cup {None}
  /\ issued' = issued \cup {<<t.key, t.claim>> : t \in {t \in {access, id} : Acceptable(t)}}
  /\ Move(r, [Idle EXCEPT !.pc = IF access = None THEN "respond" ELSE "access",
                          !.access = access, !.id = id])
  /\ UNCHANGED <<provider, rotations, cache, boot, named>>

\* The request fails, or what comes back is no JSON.
ProviderFails(r) ==
  /\ req[r].pc \in {"forward", "relay", "jwks"}
  /\ Answer(r)
  /\ UNCHANGED allButReq

\* The provider answers what is only passed on: a refusal of the code, a page,
\* its keys.
ProviderAnswers(r) ==
  /\ \/ At(r, "forward") /\ Move(r, [Idle EXCEPT !.pc = "respond"])
     \/ req[r].pc \in {"relay", "jwks"} /\ Answer(r)
  /\ UNCHANGED allButReq

\* The claims of the access token, or else of the ID token, name the user.
Validated(r, t, otherwise) ==
  Move(r, IF validate_token(t) THEN [req[r] EXCEPT !.pc = "user", !.user = username(t)]
          ELSE [req[r] EXCEPT !.pc = otherwise])

handle_byoidc_token_access_Only(r) ==
  /\ At(r, "access")
  /\ Validated(r, req[r].access, "respond")
  /\ UNCHANGED allButReq

handle_byoidc_token_access(r) ==
  /\ At(r, "access")
  /\ Validated(r, req[r].access, IF req[r].id = None THEN "respond" ELSE "id")
  /\ UNCHANGED allButReq

handle_byoidc_token_id(r) ==
  /\ At(r, "id")
  /\ Validated(r, req[r].id, "respond")
  /\ UNCHANGED allButReq

\* ensure_user_and_identity, of which OAuthServer has the details, deletions of
\* Users among them; a failed call is only logged.
ensure_user_and_identity(r) ==
  /\ At(r, "user")
  /\ named' = named \cup {req[r].user}
  /\ Move(r, [req[r] EXCEPT !.pc = "respond"])
  /\ UNCHANGED <<outside, cache, boot>>

\* The client gets the provider's answer with status 200, whatever it says.
Respond(r) ==
  /\ At(r, "respond")
  /\ Answer(r)
  /\ UNCHANGED allButReq

\* 401 for a token that is not valid.
handle_byoidc_userinfo(r, t) ==
  /\ At(r, "accepted")
  /\ t.genuine /\ Acceptable(t) => <<t.key, t.claim>> \in issued
  /\ named' = IF validate_token(t) THEN named \cup {username(t)} ELSE named
  /\ Answer(r)
  /\ UNCHANGED <<outside, cache, boot>>

\* An empty list without the endpoint.  This one, too, keeps the read guard.
handle_byoidc_jwks(r) ==
  /\ At(r, "accepted")
  /\ IF "jwks" \in discovery THEN Move(r, [Idle EXCEPT !.pc = "jwks"]) ELSE Answer(r)
  /\ UNCHANGED allButReq

Handle(r) ==
  \/ handle_byoidc_authorize(r) \/ handle_byoidc_token(r) \/ handle_byoidc_proxy(r)
  \/ handle_byoidc_token_access(r) \/ handle_byoidc_token_id(r)
  \/ ensure_user_and_identity(r) \/ Respond(r) \/ handle_byoidc_jwks(r)
  \/ \E t \in JWT : handle_byoidc_userinfo(r, t)

Provide(r) ==
  \/ ProviderFails(r) \/ ProviderAnswers(r)
  \/ \E access, id \in Signed \cup {None} : ProviderIssues(r, access, id)

------------------------------------------------------------------------------
(***************************************************************************)
(* The environment.                                                        *)
(***************************************************************************)

\* The client goes away: hyper drops the handler at its await point.
Disconnect(r) ==
  /\ req[r] # Idle
  /\ Answer(r)
  /\ UNCHANGED allButReq

Rotate(p) ==
  /\ rotations < MaxRotations /\ rotations' = rotations + 1
  /\ p # provider /\ provider' = p
  /\ UNCHANGED <<issued, cache, boot, req, named>>

Restart ==
  /\ keys' = {} /\ discovery' = {} /\ loadedAt' = 0
  /\ boot' = [pc |-> "discovery", attempt |-> 1]
  /\ req' = [r \in Reqs |-> Idle]
  /\ UNCHANGED <<outside, named>>

Next ==
  \/ Boot
  \/ \E r \in Reqs : Accept(r) \/ Handle(r) \/ Provide(r) \/ Disconnect(r)
  \/ \E p \in Providers : Rotate(p)
  \/ Restart

\* Tasks are polled.  Nothing makes the provider answer: the clients the server
\* calls it with have no timeout.
Fairness == \A r \in Reqs : WF_vars(Handle(r))

Spec == Init /\ [][Next]_vars
FairSpec == Spec /\ Fairness

------------------------------------------------------------------------------
(***************************************************************************)
(* Properties.                                                             *)
(***************************************************************************)

\* validate_token and its callers: a User is created, or named to a client of
\* userinfo, only if the provider did sign a token for that user with an RSA
\* key, or, of the user "unknown", a token that names nobody, whatever tokens
\* clients present and however often keys change and the server starts.
UsersVouchedFor ==
  \A u \in named : \E pair \in issued :
    pair[2] \in IF u = Unknown THEN {u, None} ELSE {u}

\* ExternalJwksCache::new: loaded keys come with the document that names them.
\* An attempt that fails half way, or gets an error message for a document,
\* must not undo an earlier one that succeeded.
KeysComeWithEndpoints == keys # {} => "jwks" \in discovery

\* handle_byoidc_token: when the answer to an exchange that brought an access
\* token is sent, the user whom that token names was looked after, or, if it is
\* not acceptable, the one whom an acceptable ID token names, which may be
\* another; unless no keys could be loaded at start or the provider changed its
\* keys since.
ExchangeEnsuresUser ==
  \A r \in Reqs :
    LET decisive == IF Acceptable(req[r].access) THEN req[r].access ELSE req[r].id
    IN /\ At(r, "respond") /\ req[r].access # None /\ Acceptable(decisive)
       => req[r].user = username(decisive) \/ keys = {} \/ loadedAt # rotations

\* ExternalJwksCache::new and the handlers, with a provider that refuses, talks
\* nonsense or breaks the connection, and that may also keep silent for ever:
\* if it is not silent while the server starts, the server comes up, and if it
\* is not silent to a request, that request gets its answer, however many
\* others hang, and although requests the server makes to itself are among them.
Responsive ==
  <>[][~Restart]_vars =>
    /\ WF_vars(Boot) => <>[](boot.pc = "listening")
    /\ \A r \in Reqs : WF_vars(Provide(r)) => (req[r] # Idle ~> req[r] = Idle)
==============================================================================
