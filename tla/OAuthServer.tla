----------------------------- MODULE OAuthServer -----------------------------
(***************************************************************************)
(* The OAuth server of ocp-sim (simulator/src/oauth): authorization codes, *)
(* access tokens, the user store that the htpasswd watcher replaces, and   *)
(* the User and Identity objects a login creates in the cluster.           *)
(*                                                                         *)
(* Every HTTP request is a tokio task of its own; `req` holds, for each    *)
(* one in flight, the await point it has reached and the locals that are   *)
(* still needed after it.  An action is what a handler does between two    *)
(* await points.  A parameter of a request (password, redirect_uri,        *)
(* code_verifier, client_secret ...) is chosen where the handler first     *)
(* looks at it.  A handler that answers without having changed anything is *)
(* back in Idle.                                                           *)
(*                                                                         *)
(* Time is kept as ages: `created.elapsed()` of an entry is its age in     *)
(* ticks, capped just above the largest age anything is compared with.     *)
(* Code and token strings are random, so a name that no map and no request *)
(* refers to any more may stand for the next string that is generated.     *)
(***************************************************************************)
EXTENDS Naturals, Sequences, FiniteSets

CONSTANTS
  Reqs,          \* connections that can be in flight at once
  CodeIds,       \* names for authorization codes
  TokenIds,      \* names for access tokens
  Users,         \* user names
  Passwords,
  Clients,       \* OAuthClient names
  Secrets,       \* client secrets, NoSecret (the empty string) included
  NoSecret,
  URIs,          \* redirect URIs
  ClientObjects, \* the contents an OAuthClient can have
  PrefixOf,      \* the pairs <<u, v>> where v starts with u
  Challenges,    \* code_challenge together with its method
  Verifiers,     \* code_verifier strings
  Matching,      \* the pairs <<verifier, challenge>> that belong together
  Stores,        \* the user stores the program can hold: sequences of entries
  BootStore,     \* what UserStore::load returns at start
  Mode,          \* "legacy", "oidc" or "byoidc"
  CODE_TTL, TOKEN_TTL, SWEEP_PERIOD,
  MaxEvents,     \* bound: undelivered events of the htpasswd Secret
  MaxUid,        \* bound: how often a User object is created anew
  NoKey,         \* the content of a Secret that lacks the htpasswd key
  None

ASSUME OAuthAssumption ==
  /\ CODE_TTL \in Nat \ {0} /\ TOKEN_TTL \in Nat \ {0} /\ SWEEP_PERIOD \in Nat \ {0}
  /\ MaxEvents \in Nat /\ MaxUid \in Nat \ {0}
  /\ Mode \in {"legacy", "oidc", "byoidc"}
  /\ BootStore \in Stores
  /\ NoSecret \in Secrets
  /\ ClientObjects \subseteq [secret : Secrets, redirectURIs : SUBSET URIs]
  /\ None \notin CodeIds \cup TokenIds \cup Users \cup Clients \cup Challenges
  /\ None \notin Verifiers \cup Stores \cup ClientObjects \cup {NoKey} /\ NoKey \notin Stores

VARIABLES
  codes,         \* OAuthState.codes
  tokens,        \* OAuthState.tokens
  userStore,     \* OAuthState.user_store
  writer,        \* the store the watcher waits to write, None when it does not
  req,           \* the requests in flight
  sweeper,       \* where the eviction task is
  sinceSweep,    \* ticks since its interval last fired
  secret,        \* cluster: the htpasswd Secret
  htEvents,      \* watch events of that Secret, not yet taken
  oauthClients,  \* cluster: OAuthClient objects
  users,         \* cluster: User objects, with the uid of the latest one
  identities,    \* cluster: the uid each Identity refers to, 0 when absent
  redeemed       \* history: tokens handed out for each code

server == <<codes, tokens, userStore, writer, req, sweeper, sinceSweep>>
cluster == <<secret, htEvents, oauthClients, users, identities>>
\* All that a step changes nothing of when it only moves a request on.
allButReq == <<codes, tokens, userStore, writer, sweeper, sinceSweep, cluster, redeemed>>
vars == <<server, cluster, redeemed>>

(***************************************************************************)
(* Data.                                                                   *)
(***************************************************************************)
CodeAges == 0 .. (CODE_TTL + SWEEP_PERIOD)
TokenAges == 0 .. (TOKEN_TTL + SWEEP_PERIOD)

AuthCode == [username : Users, client_id : Clients,
             challenge : Challenges \cup {None}, age : CodeAges]
TokenInfo == [username : Users, age : TokenAges]

\* An entry is never mistaken for the absence of one.
ASSUME EntryAssumption == None \notin AuthCode \cup TokenInfo

\* What the Secret can hold: nothing (it does not exist), no htpasswd key,
\* or lines that from_htpasswd turns into one of the stores.
SecretContents == Stores \cup {NoKey, None}

PC == {"idle", "form", "basic", "validate", "user", "identity", "issue",
       "client", "claims", "insert", "profile", "external"}

Request == [pc : PC, user : Users \cup {None}, client : Clients \cup {None},
            challenge : Challenges \cup {None}, code : CodeIds \cup {None},
            basic : BOOLEAN, uid : 0 .. MaxUid]

Idle == [pc |-> "idle", user |-> None, client |-> None, challenge |-> None,
         code |-> None, basic |-> FALSE, uid |-> 0]

TypeOK ==
  /\ codes \in [CodeIds -> AuthCode \cup {None}]
  /\ tokens \in [TokenIds -> TokenInfo \cup {None}]
  /\ userStore \in Stores
  /\ writer \in Stores \cup {None}
  /\ req \in [Reqs -> Request]
  /\ sweeper \in {"wait", "codes", "tokens"}
  /\ sinceSweep \in 0 .. SWEEP_PERIOD
  /\ secret \in SecretContents
  /\ htEvents \in Seq(Stores \cup {NoKey})
  /\ oauthClients \in [Clients -> ClientObjects \cup {None}]
  /\ users \in [Users -> [live : BOOLEAN, uid : 0 .. MaxUid]]
  /\ identities \in [Users -> 0 .. MaxUid]
  /\ redeemed \in [CodeIds -> Nat]

(***************************************************************************)
(* UserStore, OAuthClient and PKCE look-ups.                               *)
(***************************************************************************)
authenticate(store, u, p) ==
  \E i \in DOMAIN store : store[i].username = u /\ store[i].password = p

UriMatches(object, uri) == \E u \in object.redirectURIs : <<u, uri>> \in PrefixOf

verify_pkce(verifier, challenge) == <<verifier, challenge>> \in Matching

\* validate_client: the object as it is now, None also when the API call fails.
validate_client(c) == {oauthClients[c], None}

\* tokio's RwLock queues: read() waits while the watcher waits to write.
CanRead_ReadersFirst == TRUE
CanRead == writer = None

\* The read guards that are kept across API calls: in handle_authorize_get the
\* guard is a temporary of the `if let` and lives until the code is issued.
Guards_Dropped == {}
Guards == {r \in Reqs : req[r].basic /\ req[r].pc \in {"user", "identity", "issue"}}

FreeCodes == {c \in CodeIds : codes[c] = None /\ \A r \in Reqs : req[r].code # c}
FreeTokens == {t \in TokenIds : tokens[t] = None}

\* Bounds: a login or an exchange starts only if a name is left for its result.
Logins == {r \in Reqs : \/ req[r].pc \in {"form", "basic", "validate"}
                        \/ req[r].pc \in {"user", "identity", "issue"} /\ req[r].client # None}
Exchanges == {r \in Reqs : req[r].pc \in {"client", "claims", "insert"}}
RoomForCode == Cardinality(Logins) < Cardinality(FreeCodes)
RoomForToken == Cardinality(Exchanges) < Cardinality(FreeTokens)

At(r, pc) == req[r].pc = pc
Move(r, next) == req' = [req EXCEPT ![r] = next]
Answer(r) == Move(r, Idle)

------------------------------------------------------------------------------
(***************************************************************************)
(* GET /oauth/authorize with credentials (oc login).  In byoidc mode the   *)
(* requests that carry no such header are redirected to the provider.      *)
(***************************************************************************)
handle_authorize_get(r, c, uri, challenge) ==
  /\ req[r] = Idle /\ RoomForCode
  /\ \E object \in validate_client(c) \ {None} :
       /\ UriMatches(object, uri)
       /\ Move(r, [Idle EXCEPT !.pc = "basic", !.client = c, !.challenge = challenge,
                               !.basic = TRUE])
  /\ UNCHANGED allButReq

\* From here on the request is one of the Guards; bad credentials get a 401.
handle_authorize_get_authenticate(r, u, p) ==
  /\ At(r, "basic") /\ CanRead
  /\ \/ /\ authenticate(userStore, u, p)
        /\ Move(r, [req[r] EXCEPT !.pc = "user", !.user = u])
     \/ /\ ~authenticate(userStore, u, p)
        /\ Answer(r)
  /\ UNCHANGED allButReq

(***************************************************************************)
(* POST /oauth/authorize (the login form).  The guard is dropped with the  *)
(* condition, before validate_client is called.                            *)
(***************************************************************************)
handle_authorize_post(r) ==
  /\ req[r] = Idle /\ RoomForCode
  /\ Move(r, [Idle EXCEPT !.pc = "form"])
  /\ UNCHANGED allButReq

handle_authorize_post_authenticate(r, u, p) ==
  /\ At(r, "form") /\ CanRead
  /\ \/ /\ authenticate(userStore, u, p)
        /\ Move(r, [req[r] EXCEPT !.pc = "validate", !.user = u])
     \/ /\ ~authenticate(userStore, u, p)
        /\ Answer(r)
  /\ UNCHANGED allButReq

handle_authorize_post_validate(r, c, uri, challenge) ==
  /\ At(r, "validate")
  /\ \E object \in validate_client(c) :
       IF object # None /\ UriMatches(object, uri)
         THEN Move(r, [req[r] EXCEPT !.pc = "user", !.client = c, !.challenge = challenge])
         ELSE Answer(r)
  /\ UNCHANGED allButReq

(***************************************************************************)
(* ensure_user_and_identity: two server-side applies; the Identity gets    *)
(* the uid that came back with the User.  A failed call is only logged.    *)
(* A login goes on to issue its code, a byoidc exchange is answered.       *)
(***************************************************************************)
AfterEnsure(r) ==
  IF req[r].client = None THEN Idle ELSE [req[r] EXCEPT !.pc = "issue", !.uid = 0]

ensure_user_Recreates(r) ==
  LET u == req[r].user
      uid == users[u].uid + 1
  IN /\ At(r, "user")
     /\ users' = [users EXCEPT ![u] = [live |-> TRUE, uid |-> uid]]
     /\ Move(r, [req[r] EXCEPT !.pc = "identity", !.uid = uid])
     /\ UNCHANGED <<codes, tokens, userStore, writer, sweeper, sinceSweep>>
     /\ UNCHANGED <<secret, htEvents, oauthClients, identities, redeemed>>

ensure_user_GuessesUid(r) ==
  /\ At(r, "user")
  /\ users[req[r].user].uid < MaxUid
  /\ Move(r, [req[r] EXCEPT !.pc = "identity", !.uid = users[req[r].user].uid + 1])
  /\ UNCHANGED allButReq

ensure_user(r) ==
  LET u == req[r].user
      uid == IF users[u].live THEN users[u].uid ELSE users[u].uid + 1
  IN /\ At(r, "user")
     /\ \/ /\ users' = [users EXCEPT ![u] = [live |-> TRUE, uid |-> uid]]
           /\ Move(r, [req[r] EXCEPT !.pc = "identity", !.uid = uid])
        \/ /\ Move(r, AfterEnsure(r))
           /\ UNCHANGED users
     /\ UNCHANGED <<codes, tokens, userStore, writer, sweeper, sinceSweep>>
     /\ UNCHANGED <<secret, htEvents, oauthClients, identities, redeemed>>

ensure_identity(r) ==
  /\ At(r, "identity")
  /\ \/ identities' = [identities EXCEPT ![req[r].user] = req[r].uid]
     \/ UNCHANGED identities
  /\ Move(r, AfterEnsure(r))
  /\ UNCHANGED <<codes, tokens, userStore, writer, sweeper, sinceSweep>>
  /\ UNCHANGED <<secret, htEvents, oauthClients, users, redeemed>>

issue_auth_code_RereadsStore(r, c) ==
  /\ At(r, "issue") /\ c \in FreeCodes /\ CanRead
  /\ codes' = [codes EXCEPT ![c] = [username |-> req[r].user, client_id |-> req[r].client,
                                    challenge |-> req[r].challenge, age |-> 0]]
  /\ redeemed' = [redeemed EXCEPT ![c] = 0]
  /\ Answer(r)
  /\ UNCHANGED <<tokens, userStore, writer, sweeper, sinceSweep, cluster>>

issue_auth_code(r, c) ==
  /\ At(r, "issue") /\ c \in FreeCodes
  /\ codes' = [codes EXCEPT ![c] = [username |-> req[r].user, client_id |-> req[r].client,
                                    challenge |-> req[r].challenge, age |-> 0]]
  /\ redeemed' = [redeemed EXCEPT ![c] = 0]
  /\ Answer(r)
  /\ UNCHANGED <<tokens, userStore, writer, sweeper, sinceSweep, cluster>>

------------------------------------------------------------------------------
(***************************************************************************)
(* POST /oauth/token.  The code is removed from the map first, under the   *)
(* write lock, so whatever goes wrong afterwards has used it up.           *)
(***************************************************************************)
Minting == IF Mode = "oidc" THEN "claims" ELSE "insert"

\* The proof of possession, once the code is out of the map.
PkceVerified(code, verifier) ==
  verifier # None /\ verify_pkce(verifier, code.challenge)

handle_token_Peeks(r, c, client_id, verifier) ==
  LET code == codes[c]
      holding == [Idle EXCEPT !.user = code.username, !.client = client_id, !.code = c]
  IN /\ Mode # "byoidc"
     /\ req[r] = Idle /\ code # None /\ RoomForToken
     /\ code.age <= CODE_TTL /\ code.client_id = client_id
     /\ Move(r, [holding EXCEPT !.pc = IF code.challenge = None THEN "client" ELSE Minting])
     /\ UNCHANGED allButReq

handle_token_AnyClient(r, c, client_id, verifier) ==
  LET code == codes[c]
      holding == [Idle EXCEPT !.user = code.username, !.client = client_id, !.code = c]
  IN /\ Mode # "byoidc"
     /\ req[r] = Idle /\ code # None /\ RoomForToken
     /\ codes' = [codes EXCEPT ![c] = None]
     /\ Move(r, [holding EXCEPT !.pc = IF code.challenge = None THEN "client" ELSE Minting])
     /\ UNCHANGED <<tokens, userStore, writer, sweeper, sinceSweep, cluster, redeemed>>

handle_token(r, c, client_id, verifier) ==
  LET code == codes[c]
      holding == [Idle EXCEPT !.user = code.username, !.client = client_id, !.code = c]
  IN /\ Mode # "byoidc"
     /\ req[r] = Idle /\ code # None /\ RoomForToken
     /\ codes' = [codes EXCEPT ![c] = None]
     /\ IF code.age > CODE_TTL \/ code.client_id # client_id THEN Answer(r)
        ELSE IF code.challenge = None THEN Move(r, [holding EXCEPT !.pc = "client"])
        ELSE IF PkceVerified(code, verifier) THEN Move(r, [holding EXCEPT !.pc = Minting])
        ELSE Answer(r)
     /\ UNCHANGED <<tokens, userStore, writer, sweeper, sinceSweep, cluster, redeemed>>

\* Without PKCE the client is looked up again and has to know its secret.
handle_token_client(r, client_secret) ==
  /\ At(r, "client")
  /\ \E object \in validate_client(req[r].client) :
       IF object # None /\ object.secret \in {NoSecret, client_secret}
         THEN Move(r, [req[r] EXCEPT !.pc = Minting])
         ELSE Answer(r)
  /\ UNCHANGED allButReq

\* oidc: the claims are read from the user store, then the JWT is signed;
\* a failure to encode it answers 500.
handle_token_claims(r) ==
  /\ At(r, "claims") /\ CanRead
  /\ \/ Move(r, [req[r] EXCEPT !.pc = "insert"])
     \/ Answer(r)
  /\ UNCHANGED allButReq

\* An opaque token is a fresh random string.  Two JWTs with the same claims
\* signed in the same second are the same string.
NewToken(r) ==
  FreeTokens \cup
  {t \in TokenIds : Mode = "oidc" /\ tokens[t] = [username |-> req[r].user, age |-> 0]}

handle_token_insert(r, t) ==
  /\ At(r, "insert") /\ t \in NewToken(r)
  /\ tokens' = [tokens EXCEPT ![t] = [username |-> req[r].user, age |-> 0]]
  /\ redeemed' = [redeemed EXCEPT ![req[r].code] = @ + 1]
  /\ Answer(r)
  /\ UNCHANGED <<codes, userStore, writer, sweeper, sinceSweep, cluster>>

(***************************************************************************)
(* GET /oauth/userinfo: an opaque token has to be in the map and younger   *)
(* than its TTL; of a JWT only the user name in its claims is read, the    *)
(* map is not looked at.  Then the profile is read from the user store.    *)
(***************************************************************************)
handle_userinfo(r, t) ==
  /\ Mode # "byoidc" /\ req[r] = Idle
  /\ tokens[t] # None /\ tokens[t].age < TOKEN_TTL
  /\ Move(r, [Idle EXCEPT !.pc = "profile", !.user = tokens[t].username])
  /\ UNCHANGED allButReq

handle_userinfo_jwt(r, u) ==
  /\ Mode # "byoidc" /\ req[r] = Idle
  /\ Move(r, [Idle EXCEPT !.pc = "profile", !.user = u])
  /\ UNCHANGED allButReq

handle_userinfo_profile(r) ==
  /\ At(r, "profile") /\ CanRead
  /\ Answer(r)
  /\ UNCHANGED allButReq

(***************************************************************************)
(* POST /oauth/token in byoidc mode: whatever code it carries is sent to   *)
(* the external provider (None stands for any code that is not a live      *)
(* local one, the provider's own codes among them).  The provider refuses  *)
(* a code it did not issue; if it answers with a token that validates, the *)
(* user is ensured in the cluster.                                         *)
(***************************************************************************)
handle_byoidc_token(r, c) ==
  /\ Mode = "byoidc" /\ req[r] = Idle
  /\ c # None => codes[c] # None
  /\ Move(r, [Idle EXCEPT !.pc = "external", !.code = c])
  /\ UNCHANGED allButReq

handle_byoidc_token_answer(r, u) ==
  /\ At(r, "external")
  /\ \/ /\ req[r].code = None
        /\ Move(r, [Idle EXCEPT !.pc = "user", !.user = u])
     \/ Answer(r)
  /\ UNCHANGED allButReq

------------------------------------------------------------------------------
(***************************************************************************)
(* Background tasks: the htpasswd watcher and the eviction of old entries. *)
(***************************************************************************)

\* An event without the htpasswd key is skipped; otherwise the new store is
\* built and the task queues for the write lock.
watch_htpasswd_secret_TryWrite(event) ==
  /\ writer = None /\ htEvents # << >> /\ event = Head(htEvents)
  /\ htEvents' = Tail(htEvents)
  /\ writer' = IF event = NoKey \/ Guards # {} THEN None ELSE event
  /\ UNCHANGED <<codes, tokens, userStore, req, sweeper, sinceSweep>>
  /\ UNCHANGED <<secret, oauthClients, users, identities, redeemed>>

watch_htpasswd_secret(event) ==
  /\ writer = None /\ htEvents # << >> /\ event = Head(htEvents)
  /\ htEvents' = Tail(htEvents)
  /\ writer' = IF event = NoKey THEN None ELSE event
  /\ UNCHANGED <<codes, tokens, userStore, req, sweeper, sinceSweep>>
  /\ UNCHANGED <<secret, oauthClients, users, identities, redeemed>>

ReloadStore ==
  /\ writer # None /\ Guards = {}
  /\ userStore' = writer
  /\ writer' = None
  /\ UNCHANGED <<codes, tokens, req, sweeper, sinceSweep, cluster, redeemed>>

\* A watch error makes the watcher list again.
Relist == IF secret = None THEN << >> ELSE <<secret>>

WatchRestart ==
  /\ writer = None /\ MaxEvents > 0
  /\ htEvents' = Relist
  /\ UNCHANGED <<server, secret, oauthClients, users, identities, redeemed>>

\* The interval fires, then the two maps are swept one after the other.
SweepTick ==
  /\ sweeper = "wait" /\ sinceSweep = SWEEP_PERIOD
  /\ sweeper' = "codes" /\ sinceSweep' = 0
  /\ UNCHANGED <<codes, tokens, userStore, writer, req, cluster, redeemed>>

Retained_Late(map, ttl) ==
  [k \in DOMAIN map |-> IF map[k] # None /\ map[k].age <= ttl THEN map[k] ELSE None]

Retained(map, ttl) ==
  [k \in DOMAIN map |-> IF map[k] # None /\ map[k].age < ttl THEN map[k] ELSE None]

SweepCodes ==
  /\ sweeper = "codes"
  /\ codes' = Retained(codes, CODE_TTL)
  /\ sweeper' = "tokens"
  /\ UNCHANGED <<tokens, userStore, writer, req, sinceSweep, cluster, redeemed>>

SweepTokens ==
  /\ sweeper = "tokens"
  /\ tokens' = Retained(tokens, TOKEN_TTL)
  /\ sweeper' = "wait"
  /\ UNCHANGED <<codes, userStore, writer, req, sinceSweep, cluster, redeemed>>

(***************************************************************************)
(* The environment.                                                        *)
(***************************************************************************)
Older(map, cap) ==
  [k \in DOMAIN map |-> IF map[k] # None /\ map[k].age < cap
                          THEN [map[k] EXCEPT !.age = @ + 1] ELSE map[k]]

\* Time passes.  The sweeper is taken to run when its interval is due.
Tick ==
  /\ sweeper = "wait" /\ sinceSweep < SWEEP_PERIOD
  /\ sinceSweep' = sinceSweep + 1
  /\ codes' = Older(codes, CODE_TTL + SWEEP_PERIOD)
  /\ tokens' = Older(tokens, TOKEN_TTL + SWEEP_PERIOD)
  /\ UNCHANGED <<userStore, writer, req, sweeper, cluster, redeemed>>

\* The client goes away: hyper drops the handler at its await point, and
\* with it the guard it holds.
Disconnect(r) ==
  /\ req[r] # Idle
  /\ Answer(r)
  /\ UNCHANGED allButReq

WriteSecret(s) ==
  /\ Len(htEvents) < MaxEvents
  /\ secret' = s
  /\ htEvents' = IF s = None THEN htEvents ELSE Append(htEvents, s)
  /\ UNCHANGED <<server, oauthClients, users, identities, redeemed>>

WriteClient(c, object) ==
  /\ oauthClients' = [oauthClients EXCEPT ![c] = object]
  /\ UNCHANGED <<server, secret, htEvents, users, identities, redeemed>>

\* picoshift user delete removes the User, then the Identity.
DeleteUser(u) ==
  /\ users[u].live /\ users[u].uid < MaxUid
  /\ users' = [users EXCEPT ![u].live = FALSE]
  /\ UNCHANGED <<server, secret, htEvents, oauthClients, identities, redeemed>>

DeleteIdentity(u) ==
  /\ identities[u] # 0 /\ MaxUid > 1
  /\ identities' = [identities EXCEPT ![u] = 0]
  /\ UNCHANGED <<server, secret, htEvents, oauthClients, users, redeemed>>

\* The process ends and the DaemonSet starts it again: all memory is lost,
\* the watcher lists the Secret, the interval fires at once.
Restart ==
  /\ codes' = [c \in CodeIds |-> None]
  /\ tokens' = [t \in TokenIds |-> None]
  /\ userStore' = BootStore
  /\ writer' = None
  /\ req' = [r \in Reqs |-> Idle]
  /\ sweeper' = "wait" /\ sinceSweep' = SWEEP_PERIOD
  /\ htEvents' = Relist
  /\ UNCHANGED <<secret, oauthClients, users, identities, redeemed>>

------------------------------------------------------------------------------
Init ==
  /\ codes = [c \in CodeIds |-> None]
  /\ tokens = [t \in TokenIds |-> None]
  /\ userStore = BootStore
  /\ writer = None
  /\ req = [r \in Reqs |-> Idle]
  /\ sweeper = "wait" /\ sinceSweep = SWEEP_PERIOD
  /\ secret = None
  /\ htEvents = << >>
  /\ oauthClients \in [Clients -> ClientObjects \cup {None}]
  /\ users = [u \in Users |-> [live |-> FALSE, uid |-> 0]]
  /\ identities = [u \in Users |-> 0]
  /\ redeemed = [c \in CodeIds |-> 0]

\* What the server does with requests it has already accepted.
Serve(r) ==
  \/ \E u \in Users, p \in Passwords : handle_authorize_get_authenticate(r, u, p)
  \/ \E u \in Users, p \in Passwords : handle_authorize_post_authenticate(r, u, p)
  \/ \E c \in Clients, uri \in URIs, challenge \in Challenges \cup {None} :
       handle_authorize_post_validate(r, c, uri, challenge)
  \/ ensure_user(r)
  \/ ensure_identity(r)
  \/ \E c \in CodeIds : issue_auth_code(r, c)
  \/ \E s \in Secrets : handle_token_client(r, s)
  \/ handle_token_claims(r)
  \/ \E t \in TokenIds : handle_token_insert(r, t)
  \/ handle_userinfo_profile(r)
  \/ \E u \in Users : handle_byoidc_token_answer(r, u)

Accept(r) ==
  \/ \E c \in Clients, uri \in URIs, challenge \in Challenges \cup {None} :
       handle_authorize_get(r, c, uri, challenge)
  \/ handle_authorize_post(r)
  \/ \E c \in CodeIds, client_id \in Clients, verifier \in Verifiers \cup {None} :
       handle_token(r, c, client_id, verifier)
  \/ \E t \in TokenIds : handle_userinfo(r, t)
  \/ \E u \in Users : handle_userinfo_jwt(r, u)
  \/ \E c \in CodeIds \cup {None} : handle_byoidc_token(r, c)

Watch == \E event \in Stores \cup {NoKey} : watch_htpasswd_secret(event)

Sweep == SweepTick \/ SweepCodes \/ SweepTokens

Environment ==
  \/ Tick
  \/ \E r \in Reqs : Disconnect(r)
  \/ \E s \in SecretContents : WriteSecret(s)
  \/ \E c \in Clients, object \in ClientObjects \cup {None} : WriteClient(c, object)
  \/ \E u \in Users : DeleteUser(u) \/ DeleteIdentity(u)
  \/ WatchRestart
  \/ Restart

Next ==
  \/ \E r \in Reqs : Accept(r) \/ Serve(r)
  \/ Watch \/ ReloadStore \/ Sweep
  \/ Environment

\* The runtime polls every task that can go on, and API calls return.  The
\* lock of the user store serves its queue in order, so a request that waits
\* for it is not overtaken for ever by one reload after another: strong
\* fairness for the requests.
Fairness ==
  /\ \A r \in Reqs : SF_vars(Serve(r))
  /\ WF_vars(Watch)
  /\ WF_vars(ReloadStore)
  /\ WF_vars(Sweep)

Spec == Init /\ [][Next]_vars
FairSpec == Spec /\ Fairness

------------------------------------------------------------------------------
(***************************************************************************)
(* Properties.                                                             *)
(***************************************************************************)

\* handle_token: one authorization code yields at most one access token,
\* however many exchanges of it run at the same time, and whatever the
\* sweeper, a restart or a disconnect does in between.
SingleUse == \A c \in CodeIds : redeemed[c] <= 1

\* Where a code is: in the map, with one exchange, or nowhere.  A code that
\* is in the map or with an exchange has not been paid out yet.
Holds(r, c) == req[r].code = c /\ req[r].pc \in {"client", "claims", "insert"}

CodeInOnePlace ==
  \A c \in CodeIds :
    /\ codes[c] # None => redeemed[c] = 0 /\ \A r \in Reqs : ~Holds(r, c)
    /\ \A r, s \in Reqs : Holds(r, c) /\ Holds(s, c) => r = s
    /\ \A r \in Reqs : Holds(r, c) => redeemed[c] = 0

\* The mapping to CodeLifecycle: a code in the map is issued, one that an
\* exchange took out of it is presented, any other is gone.
Exchange(c) == CHOOSE r \in Reqs : Holds(r, c)
codePhase == [c \in CodeIds |-> IF codes[c] # None THEN "issued"
                               ELSE IF \E r \in Reqs : Holds(r, c) THEN "presented"
                               ELSE "gone"]
codeOwner == [c \in CodeIds |-> IF codes[c] # None THEN <<codes[c].username, codes[c].client_id>>
                               ELSE IF \E r \in Reqs : Holds(r, c)
                                 THEN <<req[Exchange(c)].user, req[Exchange(c)].client>>
                               ELSE None]

Lifecycle == INSTANCE CodeLifecycle
               WITH phase <- codePhase, owner <- codeOwner, paid <- redeemed,
                    Owners <- Users \X Clients, Nobody <- None

\* issue_auth_code, handle_token, the sweeper and a restart together treat a
\* code as CodeLifecycle says: presented once, paid once, for the user who
\* logged in and by the client the code was issued to.
ImplementsLifecycle == Lifecycle!Spec

\* handle_authorize_get: because the read guard is held across the two API
\* calls, the user whose code it is about to issue still has a password in
\* the store that is in force; no reload can slip in between.
GuardedLoginIsCurrent ==
  \A r \in Reqs : req[r].basic /\ req[r].pc \in {"user", "identity", "issue"} =>
    \E p \in Passwords : authenticate(userStore, req[r].user, p)

\* watch_htpasswd_secret: once the watcher has caught up, logins are checked
\* against the content of the Secret.
StoreFollowsSecret ==
  writer = None /\ htEvents = << >> /\ secret \in Stores => userStore = secret

\* The eviction task runs every SWEEP_PERIOD and keeps what is younger than
\* its TTL, so no code or token ever gets as old as its TTL plus one period.
BoundedRetention ==
  /\ \A c \in CodeIds : codes[c] # None => codes[c].age < CODE_TTL + SWEEP_PERIOD
  /\ \A t \in TokenIds : tokens[t] # None => tokens[t].age < TOKEN_TTL + SWEEP_PERIOD

\* The write lock of the user store: a reload that is waiting is not starved
\* by logins that keep coming, although each holds its guard across API calls.
ReloadNotStarved == writer # None ~> writer = None

\* No handler waits for ever: not for the store while the watcher waits for
\* the guards, nor the other way round.
RequestsAnswered == \A r \in Reqs : req[r] # Idle ~> req[r] = Idle

\* ensure_user_and_identity: an Identity names a uid that the API server
\* really gave to the User of that name, although the User may be deleted and
\* created anew between the two calls, by this login or by another one.
IdentityUidIsReal == \A u \in Users : identities[u] <= users[u].uid
==============================================================================
