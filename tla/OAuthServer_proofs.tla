-------------------------- MODULE OAuthServer_proofs --------------------------
(***************************************************************************)
(* Theorems about OAuthServer for every set of requests, codes, tokens,    *)
(* users and clients, every mode and every bound.                          *)
(*                                                                         *)
(* TypeOK is not inductive: which fields of a request are set depends on   *)
(* the await point it has reached (WellFormed), and a uid stays within its *)
(* bound because only a User that was deleted is created anew (RoomForUid).*)
(*                                                                         *)
(* The sections: types; logins; authorization codes; how long codes and    *)
(* tokens stay; and CodeLifecycle, which the server implements.            *)
(***************************************************************************)
EXTENDS OAuthServer, SequenceTheorems, TLAPS

\* The locals a handler has at the await point it has reached.
Formed(q) ==
  /\ q.pc \in {"validate", "user", "identity", "issue", "client", "claims", "insert"}
       => q.user \in Users
  /\ q.pc \in {"issue", "client", "claims", "insert"} => q.client \in Clients
  /\ q.pc \in {"client", "claims", "insert"} => q.code \in CodeIds

WellFormed == \A r \in Reqs : Formed(req[r])

RoomForUid == \A u \in Users : ~users[u].live => users[u].uid < MaxUid

TypeInv == TypeOK /\ WellFormed /\ RoomForUid

\* Moving one request to a well-formed one keeps all of them well-formed.
LEMMA MoveFormed ==
  ASSUME TypeInv, NEW r \in Reqs, NEW q \in Request, Formed(q), Move(r, q)
  PROVE  req' \in [Reqs -> Request] /\ WellFormed'
  BY DEF TypeInv, TypeOK, WellFormed, Move, Formed

\* A request that is not being handled is well-formed.
LEMMA IdleFormed == Idle \in Request /\ Formed(Idle)
  BY OAuthAssumption DEF Idle, Request, Formed, PC

\* Answering a request keeps all of them well-formed.
LEMMA AnswerFormed ==
  ASSUME TypeInv, NEW r \in Reqs, Answer(r)
  PROVE  req' \in [Reqs -> Request] /\ WellFormed'
  BY MoveFormed, IdleFormed DEF Answer

\* What a request becomes when ensure_user_and_identity returns.
LEMMA AfterEnsureFormed ==
  ASSUME TypeInv, NEW r \in Reqs, req[r].pc \in {"user", "identity"}
  PROVE  AfterEnsure(r) \in Request /\ Formed(AfterEnsure(r))
<1>1. req[r] \in Request /\ req[r].user \in Users
  BY DEF TypeInv, TypeOK, WellFormed, Formed
<1>2. CASE req[r].client = None
  BY <1>2, IdleFormed DEF AfterEnsure
<1>3. CASE req[r].client # None
  <2>0. 0 \in 0 .. MaxUid
    BY OAuthAssumption
  <2>1. [req[r] EXCEPT !.pc = "issue", !.uid = 0] \in Request
    BY <1>1, <2>0 DEF Request, PC
  <2>2. Formed([req[r] EXCEPT !.pc = "issue", !.uid = 0])
    BY <1>1, <1>3 DEF Request, Formed
  <2> QED
    BY <1>3, <2>1, <2>2 DEF AfterEnsure
<1> QED
  BY <1>2, <1>3

\* The steps that change nothing but one request.
LEMMA RequestOnly ==
  ASSUME TypeInv, UNCHANGED allButReq, req' \in [Reqs -> Request], WellFormed'
  PROVE  TypeInv'
  BY DEF TypeInv, TypeOK, RoomForUid, allButReq, cluster

\* Accepting a request.
LEMMA AcceptType ==
  ASSUME TypeInv, NEW r \in Reqs, Accept(r)
  PROVE  TypeInv'
<1>1. ASSUME NEW c \in Clients, NEW uri \in URIs, NEW challenge \in Challenges \cup {None},
             handle_authorize_get(r, c, uri, challenge)
      PROVE  TypeInv'
  <2> DEFINE q == [Idle EXCEPT !.pc = "basic", !.client = c, !.challenge = challenge, !.basic = TRUE]
  <2>1. q \in Request /\ Formed(q)
    BY IdleFormed DEF Request, Formed, PC
  <2>2. Move(r, q) /\ UNCHANGED allButReq
    BY <1>1 DEF handle_authorize_get
  <2> QED
    BY <2>1, <2>2, MoveFormed, RequestOnly
<1>2. CASE handle_authorize_post(r)
  <2>1. [Idle EXCEPT !.pc = "form"] \in Request /\ Formed([Idle EXCEPT !.pc = "form"])
    BY IdleFormed DEF Request, Formed, PC
  <2> QED
    BY <1>2, <2>1, MoveFormed, RequestOnly DEF handle_authorize_post
<1>3. ASSUME NEW c \in CodeIds, NEW client_id \in Clients, NEW verifier \in Verifiers \cup {None},
             handle_token(r, c, client_id, verifier)
      PROVE  TypeInv'
  <2> DEFINE code == codes[c]
             holding == [Idle EXCEPT !.user = code.username, !.client = client_id, !.code = c]
             q(pc) == [holding EXCEPT !.pc = pc]
  <2>1. code \in AuthCode
    BY <1>3 DEF handle_token, TypeInv, TypeOK
  <2>2. \A pc \in {"client", "claims", "insert"} : q(pc) \in Request /\ Formed(q(pc))
    BY <2>1, IdleFormed DEF AuthCode, Request, Formed, PC
  <2>3. Answer(r) \/ \E pc \in {"client", "claims", "insert"} : Move(r, q(pc))
    BY <1>3 DEF handle_token, Minting
  <2>4. req' \in [Reqs -> Request] /\ WellFormed'
    BY <2>2, <2>3, MoveFormed, AnswerFormed
  <2>5. codes' \in [CodeIds -> AuthCode \cup {None}]
    BY <1>3 DEF handle_token, TypeInv, TypeOK
  <2> QED
    BY <1>3, <2>4, <2>5 DEF handle_token, TypeInv, TypeOK, RoomForUid, cluster
<1>4. ASSUME NEW t \in TokenIds, handle_userinfo(r, t)
      PROVE  TypeInv'
  <2> DEFINE q == [Idle EXCEPT !.pc = "profile", !.user = tokens[t].username]
  <2>1. tokens[t] \in TokenInfo
    BY <1>4 DEF handle_userinfo, TypeInv, TypeOK
  <2>2. q \in Request /\ Formed(q)
    BY <2>1, IdleFormed DEF TokenInfo, Request, Formed, PC
  <2> QED
    BY <1>4, <2>2, MoveFormed, RequestOnly DEF handle_userinfo
<1>5. ASSUME NEW u \in Users, handle_userinfo_jwt(r, u)
      PROVE  TypeInv'
  <2>1. /\ [Idle EXCEPT !.pc = "profile", !.user = u] \in Request
        /\ Formed([Idle EXCEPT !.pc = "profile", !.user = u])
    BY IdleFormed DEF Request, Formed, PC
  <2> QED
    BY <1>5, <2>1, MoveFormed, RequestOnly DEF handle_userinfo_jwt
<1>6. ASSUME NEW c \in CodeIds \cup {None}, handle_byoidc_token(r, c)
      PROVE  TypeInv'
  <2>1. /\ [Idle EXCEPT !.pc = "external", !.code = c] \in Request
        /\ Formed([Idle EXCEPT !.pc = "external", !.code = c])
    BY IdleFormed DEF Request, Formed, PC
  <2> QED
    BY <1>6, <2>1, MoveFormed, RequestOnly DEF handle_byoidc_token
<1> QED
  BY <1>1, <1>2, <1>3, <1>4, <1>5, <1>6 DEF Accept

\* Serving a request.
LEMMA ServeType ==
  ASSUME TypeInv, NEW r \in Reqs, Serve(r)
  PROVE  TypeInv'
<1>0. req[r] \in Request /\ Formed(req[r])
  BY DEF TypeInv, TypeOK, WellFormed
<1>1. ASSUME NEW u \in Users, NEW p \in Passwords, handle_authorize_get_authenticate(r, u, p)
      PROVE  TypeInv'
  <2>1. /\ [req[r] EXCEPT !.pc = "user", !.user = u] \in Request
        /\ Formed([req[r] EXCEPT !.pc = "user", !.user = u])
    BY <1>0 DEF Request, Formed, PC
  <2> QED
    BY <1>1, <2>1, MoveFormed, AnswerFormed, RequestOnly DEF handle_authorize_get_authenticate
<1>2. ASSUME NEW u \in Users, NEW p \in Passwords, handle_authorize_post_authenticate(r, u, p)
      PROVE  TypeInv'
  <2>1. /\ [req[r] EXCEPT !.pc = "validate", !.user = u] \in Request
        /\ Formed([req[r] EXCEPT !.pc = "validate", !.user = u])
    BY <1>0 DEF Request, Formed, PC
  <2> QED
    BY <1>2, <2>1, MoveFormed, AnswerFormed, RequestOnly DEF handle_authorize_post_authenticate
<1>3. ASSUME NEW c \in Clients, NEW uri \in URIs, NEW challenge \in Challenges \cup {None},
             handle_authorize_post_validate(r, c, uri, challenge)
      PROVE  TypeInv'
  <2> DEFINE q == [req[r] EXCEPT !.pc = "user", !.client = c, !.challenge = challenge]
  <2>1. At(r, "validate") /\ UNCHANGED allButReq /\ (Move(r, q) \/ Answer(r))
    BY <1>3 DEF handle_authorize_post_validate
  <2>2. q \in Request /\ Formed(q)
    BY <1>0, <2>1 DEF At, Request, Formed, PC
  <2> QED
    BY <2>1, <2>2, MoveFormed, AnswerFormed, RequestOnly
<1>4. CASE ensure_user(r)
  <2> DEFINE u == req[r].user
             uid == IF users[u].live THEN users[u].uid ELSE users[u].uid + 1
             q == [req[r] EXCEPT !.pc = "identity", !.uid = uid]
  <2>1. u \in Users /\ req[r].pc = "user"
    BY <1>0, <1>4 DEF ensure_user, At, Formed
  <2>2. uid \in 0 .. MaxUid
    <3>1. users[u] \in [live : BOOLEAN, uid : 0 .. MaxUid] /\ (~users[u].live => users[u].uid < MaxUid)
      BY <2>1 DEF TypeInv, TypeOK, RoomForUid
    <3> QED
      BY <3>1, OAuthAssumption
  <2>3. q \in Request /\ Formed(q)
    <3> HIDE DEF uid
    <3> QED
      BY <1>0, <2>1, <2>2 DEF Request, Formed, PC
  <2>4. req' \in [Reqs -> Request] /\ WellFormed'
    <3>1. Move(r, q) \/ Move(r, AfterEnsure(r))
      BY <1>4 DEF ensure_user
    <3> QED
      BY <2>1, <2>3, <3>1, MoveFormed, AfterEnsureFormed
  <2>5. users' \in [Users -> [live : BOOLEAN, uid : 0 .. MaxUid]] /\ RoomForUid'
    <3>1. users' = [users EXCEPT ![u] = [live |-> TRUE, uid |-> uid]] \/ users' = users
      BY <1>4 DEF ensure_user
    <3> HIDE DEF uid, u, q
    <3>2. users' \in [Users -> [live : BOOLEAN, uid : 0 .. MaxUid]]
      <4>1. [live |-> TRUE, uid |-> uid] \in [live : BOOLEAN, uid : 0 .. MaxUid]
        BY <2>2
      <4> QED
        BY <2>1, <3>1, <4>1 DEF TypeInv, TypeOK
    <3>3. \A v \in Users : users'[v] = users[v] \/ users'[v] = [live |-> TRUE, uid |-> uid]
      BY <2>1, <3>1 DEF TypeInv, TypeOK
    <3>4. RoomForUid'
      BY <3>3 DEF TypeInv, RoomForUid
    <3> QED
      BY <3>2, <3>4
  <2> QED
    BY <1>4, <2>4, <2>5 DEF ensure_user, TypeInv, TypeOK
<1>5. CASE ensure_identity(r)
  <2>1. req[r].user \in Users /\ req[r].pc = "identity"
    BY <1>0, <1>5 DEF ensure_identity, At, Formed
  <2>2. req' \in [Reqs -> Request] /\ WellFormed'
    BY <1>5, <2>1, MoveFormed, AfterEnsureFormed DEF ensure_identity
  <2>3. identities' \in [Users -> 0 .. MaxUid]
    BY <1>0, <1>5, <2>1 DEF ensure_identity, TypeInv, TypeOK, Request
  <2> QED
    BY <1>5, <2>2, <2>3 DEF ensure_identity, TypeInv, TypeOK, RoomForUid
<1>6. ASSUME NEW c \in CodeIds, issue_auth_code(r, c)
      PROVE  TypeInv'
  <2> DEFINE code == [username |-> req[r].user, client_id |-> req[r].client,
                      challenge |-> req[r].challenge, age |-> 0]
  <2>1. 0 \in CodeAges
    BY OAuthAssumption DEF CodeAges
  <2>2. code \in AuthCode
    BY <1>0, <1>6, <2>1 DEF issue_auth_code, At, Formed, Request, AuthCode
  <2>3. codes' \in [CodeIds -> AuthCode \cup {None}] /\ redeemed' \in [CodeIds -> Nat]
    BY <1>6, <2>2 DEF issue_auth_code, TypeInv, TypeOK
  <2>4. req' \in [Reqs -> Request] /\ WellFormed'
    BY <1>6, AnswerFormed DEF issue_auth_code
  <2> QED
    BY <1>6, <2>3, <2>4 DEF issue_auth_code, TypeInv, TypeOK, RoomForUid, cluster
<1>7. ASSUME NEW secr \in Secrets, handle_token_client(r, secr)
      PROVE  TypeInv'
  <2>1. /\ At(r, "client") /\ UNCHANGED allButReq
        /\ Answer(r) \/ \E pc \in {"claims", "insert"} : Move(r, [req[r] EXCEPT !.pc = pc])
    BY <1>7 DEF handle_token_client, Minting
  <2>2. \A pc \in {"claims", "insert"} : /\ [req[r] EXCEPT !.pc = pc] \in Request
                                        /\ Formed([req[r] EXCEPT !.pc = pc])
    BY <1>0, <2>1 DEF At, Request, Formed, PC
  <2> QED
    BY <2>1, <2>2, MoveFormed, AnswerFormed, RequestOnly
<1>8. CASE handle_token_claims(r)
  <2>1. /\ [req[r] EXCEPT !.pc = "insert"] \in Request
        /\ Formed([req[r] EXCEPT !.pc = "insert"])
    BY <1>0, <1>8 DEF handle_token_claims, At, Request, Formed, PC
  <2> QED
    BY <1>8, <2>1, MoveFormed, AnswerFormed, RequestOnly DEF handle_token_claims
<1>9. ASSUME NEW t \in TokenIds, handle_token_insert(r, t)
      PROVE  TypeInv'
  <2>1. 0 \in TokenAges
    BY OAuthAssumption DEF TokenAges
  <2>2. [username |-> req[r].user, age |-> 0] \in TokenInfo /\ req[r].code \in CodeIds
    BY <1>0, <1>9, <2>1 DEF handle_token_insert, At, Formed, TokenInfo
  <2>3. tokens' \in [TokenIds -> TokenInfo \cup {None}] /\ redeemed' \in [CodeIds -> Nat]
    BY <1>9, <2>2 DEF handle_token_insert, TypeInv, TypeOK
  <2>4. req' \in [Reqs -> Request] /\ WellFormed'
    BY <1>9, AnswerFormed DEF handle_token_insert
  <2> QED
    BY <1>9, <2>3, <2>4 DEF handle_token_insert, TypeInv, TypeOK, RoomForUid, cluster
<1>10. CASE handle_userinfo_profile(r)
  BY <1>10, AnswerFormed, RequestOnly DEF handle_userinfo_profile
<1>11. ASSUME NEW u \in Users, handle_byoidc_token_answer(r, u)
       PROVE  TypeInv'
  <2>1. /\ [Idle EXCEPT !.pc = "user", !.user = u] \in Request
        /\ Formed([Idle EXCEPT !.pc = "user", !.user = u])
    BY IdleFormed DEF Request, Formed, PC
  <2> QED
    BY <1>11, <2>1, MoveFormed, AnswerFormed, RequestOnly DEF handle_byoidc_token_answer
<1> QED
  BY <1>1, <1>2, <1>3, <1>4, <1>5, <1>6, <1>7, <1>8, <1>9, <1>10, <1>11 DEF Serve

\* The background tasks.
LEMMA TasksType ==
  ASSUME TypeInv, Watch \/ ReloadStore \/ Sweep
  PROVE  TypeInv'
<1>1. ASSUME NEW event \in Stores \cup {NoKey}, watch_htpasswd_secret(event)
      PROVE  TypeInv'
  <2>1. htEvents' \in Seq(Stores \cup {NoKey})
    BY <1>1 DEF watch_htpasswd_secret, TypeInv, TypeOK
  <2>2. writer' \in Stores \cup {None}
    BY <1>1 DEF watch_htpasswd_secret
  <2> QED
    BY <1>1, <2>1, <2>2 DEF watch_htpasswd_secret, TypeInv, TypeOK, WellFormed, RoomForUid
<1>2. CASE ReloadStore
  BY <1>2 DEF ReloadStore, TypeInv, TypeOK, WellFormed, RoomForUid, cluster
<1>3. CASE SweepTick
  <2>1. 0 \in 0 .. SWEEP_PERIOD
    BY OAuthAssumption
  <2> QED
    BY <1>3, <2>1 DEF SweepTick, TypeInv, TypeOK, WellFormed, RoomForUid, cluster
<1>4. CASE SweepCodes
  <2>1. codes' \in [CodeIds -> AuthCode \cup {None}]
    BY <1>4 DEF SweepCodes, Retained, TypeInv, TypeOK
  <2> QED
    BY <1>4, <2>1 DEF SweepCodes, TypeInv, TypeOK, WellFormed, RoomForUid, cluster
<1>5. CASE SweepTokens
  <2>1. tokens' \in [TokenIds -> TokenInfo \cup {None}]
    BY <1>5 DEF SweepTokens, Retained, TypeInv, TypeOK
  <2> QED
    BY <1>5, <2>1 DEF SweepTokens, TypeInv, TypeOK, WellFormed, RoomForUid, cluster
<1> QED
  BY <1>1, <1>2, <1>3, <1>4, <1>5 DEF Watch, Sweep

\* Entries of the maps stay entries when they get older.
LEMMA OlderTypes ==
  ASSUME TypeInv
  PROVE  /\ Older(codes, CODE_TTL + SWEEP_PERIOD) \in [CodeIds -> AuthCode \cup {None}]
         /\ Older(tokens, TOKEN_TTL + SWEEP_PERIOD) \in [TokenIds -> TokenInfo \cup {None}]
<1>1. ASSUME NEW c \in CodeIds, codes[c] # None, codes[c].age < CODE_TTL + SWEEP_PERIOD
      PROVE  [codes[c] EXCEPT !.age = @ + 1] \in AuthCode
  <2>1. codes[c] \in AuthCode
    BY <1>1 DEF TypeInv, TypeOK
  <2>2. codes[c].age + 1 \in CodeAges
    BY <1>1, <2>1, OAuthAssumption DEF AuthCode, CodeAges
  <2> QED
    BY <2>1, <2>2 DEF AuthCode
<1>2. ASSUME NEW t \in TokenIds, tokens[t] # None, tokens[t].age < TOKEN_TTL + SWEEP_PERIOD
      PROVE  [tokens[t] EXCEPT !.age = @ + 1] \in TokenInfo
  <2>1. tokens[t] \in TokenInfo
    BY <1>2 DEF TypeInv, TypeOK
  <2>2. tokens[t].age + 1 \in TokenAges
    BY <1>2, <2>1, OAuthAssumption DEF TokenInfo, TokenAges
  <2> QED
    BY <2>1, <2>2 DEF TokenInfo
<1> QED
  BY <1>1, <1>2 DEF Older, TypeInv, TypeOK

\* What a list of the Secret delivers.
LEMMA RelistType ==
  ASSUME TypeInv
  PROVE  Relist \in Seq(Stores \cup {NoKey})
<1>1. secret = None \/ secret \in Stores \cup {NoKey}
  BY DEF TypeInv, TypeOK, SecretContents
<1>2. CASE secret = None
  <2>1. Relist = << >>
    BY <1>2 DEF Relist
  <2> QED
    BY <2>1
<1>3. CASE secret # None
  <2>1. Relist = <<secret>>
    BY <1>3 DEF Relist
  <2>2. secret \in Stores \cup {NoKey}
    BY <1>1, <1>3
  <2> QED
    BY <2>1, <2>2
<1> QED
  BY <1>2, <1>3

\* The environment.
LEMMA EnvironmentType ==
  ASSUME TypeInv, Environment
  PROVE  TypeInv'
<1>1. CASE Tick
  <2>1. sinceSweep' \in 0 .. SWEEP_PERIOD
    BY <1>1, OAuthAssumption DEF Tick, TypeInv, TypeOK
  <2> QED
    BY <1>1, <2>1, OlderTypes DEF Tick, TypeInv, TypeOK, WellFormed, RoomForUid, cluster
<1>2. ASSUME NEW r \in Reqs, Disconnect(r)
      PROVE  TypeInv'
  BY <1>2, AnswerFormed, RequestOnly DEF Disconnect
<1>3. ASSUME NEW s \in SecretContents, WriteSecret(s)
      PROVE  TypeInv'
  <2>1. htEvents' \in Seq(Stores \cup {NoKey})
    BY <1>3 DEF WriteSecret, TypeInv, TypeOK, SecretContents
  <2> QED
    BY <1>3, <2>1 DEF WriteSecret, TypeInv, TypeOK, WellFormed, RoomForUid, server
<1>4. ASSUME NEW c \in Clients, NEW object \in ClientObjects \cup {None}, WriteClient(c, object)
      PROVE  TypeInv'
  BY <1>4 DEF WriteClient, TypeInv, TypeOK, WellFormed, RoomForUid, server
<1>5. ASSUME NEW u \in Users, DeleteUser(u)
      PROVE  TypeInv'
  <2>1. users[u] \in [live : BOOLEAN, uid : 0 .. MaxUid] /\ users[u].uid < MaxUid
    BY <1>5 DEF DeleteUser, TypeInv, TypeOK
  <2>2. /\ \A v \in Users \ {u} : users'[v] = users[v]
        /\ users'[u] = [users[u] EXCEPT !.live = FALSE]
    BY <1>5 DEF DeleteUser, TypeInv, TypeOK
  <2>3. users' \in [Users -> [live : BOOLEAN, uid : 0 .. MaxUid]]
    BY <1>5, <2>1 DEF DeleteUser, TypeInv, TypeOK
  <2>4. RoomForUid'
    BY <2>1, <2>2 DEF RoomForUid, TypeInv
  <2> QED
    BY <1>5, <2>3, <2>4 DEF DeleteUser, TypeInv, TypeOK, WellFormed, server
<1>6. ASSUME NEW u \in Users, DeleteIdentity(u)
      PROVE  TypeInv'
  <2>1. 0 \in 0 .. MaxUid
    BY OAuthAssumption
  <2> QED
    BY <1>6, <2>1 DEF DeleteIdentity, TypeInv, TypeOK, WellFormed, RoomForUid, server
<1>7. CASE WatchRestart
  BY <1>7, RelistType DEF WatchRestart, TypeInv, TypeOK, WellFormed, RoomForUid, server
<1>8. CASE Restart
  <2>1. BootStore \in Stores /\ SWEEP_PERIOD \in 0 .. SWEEP_PERIOD
    BY OAuthAssumption
  <2> QED
    BY <1>8, <2>1, RelistType, IdleFormed DEF Restart, TypeInv, TypeOK, WellFormed, RoomForUid
<1> QED
  BY <1>1, <1>2, <1>3, <1>4, <1>5, <1>6, <1>7, <1>8 DEF Environment

\* The initial states.
LEMMA InitType ==
  ASSUME Init
  PROVE  TypeInv
<1>1. /\ BootStore \in Stores /\ SWEEP_PERIOD \in 0 .. SWEEP_PERIOD
      /\ 0 \in 0 .. MaxUid /\ 0 < MaxUid
  BY OAuthAssumption
<1>2. TypeOK
  BY <1>1, IdleFormed DEF Init, TypeOK, SecretContents
<1>3. WellFormed /\ RoomForUid
  BY <1>1, IdleFormed DEF Init, WellFormed, RoomForUid
<1> QED
  BY <1>2, <1>3 DEF TypeInv

\* Every step keeps the type invariant.
LEMMA TypeStep ==
  ASSUME TypeInv, [Next]_vars
  PROVE  TypeInv'
<1>1. CASE UNCHANGED vars
  BY <1>1 DEF vars, server, cluster, TypeInv, TypeOK, WellFormed, RoomForUid
<1> QED
  BY <1>1, AcceptType, ServeType, TasksType, EnvironmentType DEF Next

\* A handler always has the locals its await point needs, and a uid can be
\* given to every User that does not exist.
THEOREM TypeInductive == Spec => []TypeInv
  BY InitType, TypeStep, PTL DEF Spec

\* The OAuth server's maps, requests, queue of events and cluster objects
\* keep their types.
THEOREM TypeCorrect == Spec => []TypeOK
  BY TypeInductive, PTL DEF TypeInv

------------------------------------------------------------------------------
(***************************************************************************)
(* Logins.  Three invariants the runs check are proved together, since the *)
(* same paths of a request bear on all of them:                            *)
(*  - that an Identity names a uid the User really had needs to be known   *)
(*    of the uid a handler has in its hands between the two applies        *)
(*    (UidKnown), and that uids only grow;                                 *)
(*  - that a guarded login is current needs to be known to begin with an   *)
(*    authentication under the guard: no request comes to hold the guard   *)
(*    by any other way (GuardedPath);                                      *)
(*  - that the store follows the Secret needs to be known of everything    *)
(*    that is under way: the last event, or else the store the watcher     *)
(*    waits to write, or else the store in force is the Secret's content   *)
(*    (SecretOnItsWay).                                                    *)
(***************************************************************************)
UidKnown == \A r \in Reqs : req[r].pc = "identity" => req[r].uid <= users[req[r].user].uid

GuardedPath == \A r \in Reqs : req[r].basic => req[r].pc \in {"basic", "user", "identity", "issue"}

SecretOnItsWay ==
  secret \in Stores =>
    /\ htEvents # << >> => htEvents[Len(htEvents)] = secret
    /\ htEvents = << >> /\ writer # None => writer = secret
    /\ htEvents = << >> /\ writer = None => userStore = secret

LoginInv == /\ UidKnown /\ IdentityUidIsReal
            /\ GuardedPath /\ GuardedLoginIsCurrent
            /\ SecretOnItsWay

\* The ways a request can go, as far as its guard and its uid are concerned:
\* it stays, it is unguarded and before or after the applies, it is a login
\* before its guard, or it goes on under the guard it has, from a successful
\* authentication, for the same user and with the uid of the User.
Path(r) ==
  LET q == req[r]
      n == req'[r]
  IN \/ n = q
     \/ ~n.basic /\ n.pc # "identity"
     \/ n.pc = "basic"
     \/ /\ q.pc \in {"form", "validate", "client", "claims"}
        /\ n.basic = q.basic /\ n.pc # "identity"
     \/ /\ n.pc = "user" /\ userStore' = userStore
        /\ \E p \in Passwords : authenticate(userStore, n.user, p)
     \/ /\ q.pc \in {"user", "identity"} /\ n.pc \in {"identity", "issue"}
        /\ n.basic = q.basic /\ n.user = q.user /\ userStore' = userStore
        /\ n.pc = "identity" => n.uid = users'[n.user].uid

\* A step that moves one request leaves the others where they are.
LEMMA MovePath ==
  ASSUME TypeInv, NEW r \in Reqs, NEW q, Move(r, q), Path(r)
  PROVE  \A s \in Reqs : Path(s)
<1>1. \A s \in Reqs \ {r} : req'[s] = req[s]
  BY DEF Move, TypeInv, TypeOK
<1> QED
  BY <1>1 DEF Path

\* A request that is answered is unguarded.
LEMMA AnswerPath ==
  ASSUME TypeInv, NEW r \in Reqs, Answer(r)
  PROVE  \A s \in Reqs : Path(s)
<1>1. req'[r] = Idle
  BY DEF Answer, Move, TypeInv, TypeOK
<1>2. Path(r)
  BY <1>1 DEF Path, Idle
<1> QED
  BY <1>2, MovePath DEF Answer

\* A request that is accepted holds no guard yet.
LEMMA AcceptPath ==
  ASSUME TypeInv, NEW r \in Reqs, Accept(r)
  PROVE  \A s \in Reqs : Path(s)
<1>0. Idle \in Request /\ ~Idle.basic
  BY IdleFormed DEF Idle
<1>1. ASSUME NEW q, Move(r, q), q.pc = "basic" \/ (~q.basic /\ q.pc # "identity")
      PROVE  \A s \in Reqs : Path(s)
  <2>1. req'[r] = q
    BY <1>1 DEF Move, TypeInv, TypeOK
  <2>2. Path(r)
    BY <1>1, <2>1 DEF Path
  <2> QED
    BY <1>1, <2>2, MovePath
<1>2. ASSUME NEW c \in Clients, NEW uri \in URIs, NEW challenge \in Challenges \cup {None},
             handle_authorize_get(r, c, uri, challenge)
      PROVE  \A s \in Reqs : Path(s)
  <2> DEFINE q == [Idle EXCEPT !.pc = "basic", !.client = c, !.challenge = challenge, !.basic = TRUE]
  <2>1. Move(r, q) /\ q.pc = "basic"
    BY <1>0, <1>2 DEF handle_authorize_get, Request
  <2> HIDE DEF q
  <2> QED
    BY <1>1, <2>1
<1>3. CASE handle_authorize_post(r)
  <2>1. [Idle EXCEPT !.pc = "form"].pc = "form" /\ ~[Idle EXCEPT !.pc = "form"].basic
    BY <1>0 DEF Request
  <2> QED
    BY <1>1, <1>3, <2>1 DEF handle_authorize_post
<1>4. ASSUME NEW c \in CodeIds, NEW client_id \in Clients, NEW verifier \in Verifiers \cup {None},
             handle_token(r, c, client_id, verifier)
      PROVE  \A s \in Reqs : Path(s)
  <2> DEFINE holding == [Idle EXCEPT !.user = codes[c].username, !.client = client_id, !.code = c]
             q(pc) == [holding EXCEPT !.pc = pc]
  <2>1. \A pc \in {"client", "claims", "insert"} : q(pc).pc = pc /\ ~q(pc).basic
    BY <1>0 DEF Request
  <2>2. Answer(r) \/ \E pc \in {"client", "claims", "insert"} : Move(r, q(pc))
    BY <1>4 DEF handle_token, Minting
  <2> HIDE DEF q
  <2> QED
    BY <1>1, <2>1, <2>2, AnswerPath
<1>5. ASSUME NEW u, Move(r, [Idle EXCEPT !.pc = "profile", !.user = u])
      PROVE  \A s \in Reqs : Path(s)
  <2> DEFINE q == [Idle EXCEPT !.pc = "profile", !.user = u]
  <2>1. q.pc = "profile" /\ ~q.basic
    BY <1>0 DEF Request
  <2> QED
    BY <1>1, <1>5, <2>1
<1>6. ASSUME NEW c, Move(r, [Idle EXCEPT !.pc = "external", !.code = c])
      PROVE  \A s \in Reqs : Path(s)
  <2> DEFINE q == [Idle EXCEPT !.pc = "external", !.code = c]
  <2>1. q.pc = "external" /\ ~q.basic
    BY <1>0 DEF Request
  <2> QED
    BY <1>1, <1>6, <2>1
<1> QED
  BY <1>2, <1>3, <1>4, <1>5, <1>6 DEF Accept, handle_userinfo, handle_userinfo_jwt, handle_byoidc_token

\* Serving a request takes it along one of the paths.
LEMMA ServePath ==
  ASSUME TypeInv, NEW r \in Reqs, Serve(r)
  PROVE  \A s \in Reqs : Path(s)
<1>0. req[r] \in Request /\ Formed(req[r]) /\ Idle \in Request /\ ~Idle.basic
  BY IdleFormed DEF TypeInv, TypeOK, WellFormed, Idle
<1>1. ASSUME NEW q, Move(r, q)
      PROVE  req'[r] = q
  BY <1>1 DEF Move, TypeInv, TypeOK
<1>2. ASSUME NEW u \in Users, NEW p \in Passwords, handle_authorize_get_authenticate(r, u, p)
      PROVE  \A s \in Reqs : Path(s)
  <2> DEFINE q == [req[r] EXCEPT !.pc = "user", !.user = u]
  <2>1. q.pc = "user" /\ q.user = u
    BY <1>0 DEF Request
  <2>2. ASSUME authenticate(userStore, u, p), Move(r, q)
        PROVE  Path(r)
    <3> HIDE DEF q
    <3> QED
      BY <1>1, <1>2, <2>1, <2>2 DEF Path, handle_authorize_get_authenticate, allButReq
  <2> QED
    BY <1>2, <2>2, MovePath, AnswerPath DEF handle_authorize_get_authenticate
<1>3. ASSUME NEW q, Move(r, q), q.basic = req[r].basic, q.pc # "identity",
             req[r].pc \in {"form", "validate", "client", "claims"}
      PROVE  \A s \in Reqs : Path(s)
  <2>1. Path(r)
    BY <1>1, <1>3 DEF Path
  <2> QED
    BY <1>3, <2>1, MovePath
<1>4. ASSUME NEW u \in Users, NEW p \in Passwords, handle_authorize_post_authenticate(r, u, p)
      PROVE  \A s \in Reqs : Path(s)
  <2> DEFINE q == [req[r] EXCEPT !.pc = "validate", !.user = u]
  <2>1. q.pc = "validate" /\ q.basic = req[r].basic
    BY <1>0 DEF Request
  <2>2. req[r].pc = "form" /\ (Move(r, q) \/ Answer(r))
    BY <1>4 DEF handle_authorize_post_authenticate, At
  <2> HIDE DEF q
  <2> QED
    BY <1>3, <2>1, <2>2, AnswerPath
<1>5. ASSUME NEW c \in Clients, NEW uri \in URIs, NEW challenge \in Challenges \cup {None},
             handle_authorize_post_validate(r, c, uri, challenge)
      PROVE  \A s \in Reqs : Path(s)
  <2> DEFINE q == [req[r] EXCEPT !.pc = "user", !.client = c, !.challenge = challenge]
  <2>1. q.pc = "user" /\ q.basic = req[r].basic
    BY <1>0 DEF Request
  <2>2. req[r].pc = "validate" /\ (Move(r, q) \/ Answer(r))
    BY <1>5 DEF handle_authorize_post_validate, At
  <2> HIDE DEF q
  <2> QED
    BY <1>3, <2>1, <2>2, AnswerPath
<1>6. ASSUME req[r].pc \in {"user", "identity"}, Move(r, AfterEnsure(r)), userStore' = userStore
      PROVE  \A s \in Reqs : Path(s)
  <2>1. CASE AfterEnsure(r) = Idle
    BY <1>6, <2>1, AnswerPath DEF Answer
  <2>2. CASE AfterEnsure(r) = [req[r] EXCEPT !.pc = "issue", !.uid = 0]
    <3>1. /\ AfterEnsure(r).pc = "issue" /\ AfterEnsure(r).user = req[r].user
          /\ AfterEnsure(r).basic = req[r].basic
      BY <1>0, <2>2 DEF Request
    <3>2. Path(r)
      BY <1>1, <1>6, <3>1 DEF Path
    <3> QED
      BY <1>6, <3>2, MovePath
  <2> QED
    BY <2>1, <2>2 DEF AfterEnsure
<1>7. CASE ensure_user(r)
  <2> DEFINE u == req[r].user
             uid == IF users[u].live THEN users[u].uid ELSE users[u].uid + 1
             q == [req[r] EXCEPT !.pc = "identity", !.uid = uid]
  <2>1. u \in Users /\ req[r].pc = "user" /\ userStore' = userStore
    BY <1>0, <1>7 DEF ensure_user, At, Formed
  <2>2. q.pc = "identity" /\ q.user = u /\ q.basic = req[r].basic /\ q.uid = uid
    BY <1>0 DEF Request
  <2>3. ASSUME users' = [users EXCEPT ![u] = [live |-> TRUE, uid |-> uid]], Move(r, q)
        PROVE  Path(r)
    <3>1. users'[u].uid = uid
      BY <2>1, <2>3 DEF TypeInv, TypeOK
    <3> HIDE DEF q, uid
    <3> QED
      BY <1>1, <2>1, <2>2, <2>3, <3>1 DEF Path
  <2>4. \/ users' = [users EXCEPT ![u] = [live |-> TRUE, uid |-> uid]] /\ Move(r, q)
        \/ Move(r, AfterEnsure(r))
    BY <1>7 DEF ensure_user
  <2> HIDE DEF q, uid
  <2> QED
    BY <1>6, <2>1, <2>3, <2>4, MovePath
<1>8. CASE ensure_identity(r)
  BY <1>6, <1>8 DEF ensure_identity, At
<1>9. ASSUME NEW pc \in {"claims", "insert"}, req[r].pc \in {"client", "claims"},
             Move(r, [req[r] EXCEPT !.pc = pc])
      PROVE  \A s \in Reqs : Path(s)
  <2> DEFINE q == [req[r] EXCEPT !.pc = pc]
  <2>1. q.pc = pc /\ q.basic = req[r].basic
    BY <1>0 DEF Request
  <2> HIDE DEF q
  <2> QED
    BY <1>3, <1>9, <2>1 DEF q
<1>10. ASSUME NEW secr \in Secrets, handle_token_client(r, secr)
       PROVE  \A s \in Reqs : Path(s)
  <2>1. /\ req[r].pc = "client"
        /\ Answer(r) \/ \E pc \in {"claims", "insert"} : Move(r, [req[r] EXCEPT !.pc = pc])
    BY <1>10 DEF handle_token_client, Minting, At
  <2> QED
    BY <1>9, <2>1, AnswerPath
<1>11. CASE handle_token_claims(r)
  BY <1>9, <1>11, AnswerPath DEF handle_token_claims, At
<1>12. ASSUME NEW u \in Users, handle_byoidc_token_answer(r, u)
       PROVE  \A s \in Reqs : Path(s)
  <2> DEFINE q == [Idle EXCEPT !.pc = "user", !.user = u]
  <2>1. q.pc = "user" /\ ~q.basic
    BY <1>0 DEF Request
  <2>2. Move(r, q) \/ Answer(r)
    BY <1>12 DEF handle_byoidc_token_answer
  <2>3. ASSUME Move(r, q)
        PROVE  Path(r)
    <3> HIDE DEF q
    <3> QED
      BY <1>1, <2>1, <2>3 DEF Path
  <2> HIDE DEF q
  <2> QED
    BY <2>2, <2>3, MovePath, AnswerPath
<1>13. CASE \/ \E c \in CodeIds : issue_auth_code(r, c)
            \/ \E t \in TokenIds : handle_token_insert(r, t)
            \/ handle_userinfo_profile(r)
  BY <1>13, AnswerPath DEF issue_auth_code, handle_token_insert, handle_userinfo_profile
<1> QED
  BY <1>2, <1>4, <1>5, <1>7, <1>8, <1>10, <1>11, <1>12, <1>13 DEF Serve

\* Every request goes along one of the paths in every step.
LEMMA StepPath ==
  ASSUME TypeInv, [Next]_vars
  PROVE  \A s \in Reqs : Path(s)
<1>1. ASSUME req' = req
      PROVE  \A s \in Reqs : Path(s)
  BY <1>1 DEF Path
<1>2. CASE UNCHANGED vars \/ Watch \/ ReloadStore \/ Sweep
  BY <1>1, <1>2 DEF vars, server, Watch, watch_htpasswd_secret, ReloadStore, Sweep,
                    SweepTick, SweepCodes, SweepTokens
<1>3. CASE Restart
  BY <1>3 DEF Restart, Path, Idle
<1>4. CASE \E r \in Reqs : Disconnect(r)
  BY <1>4, AnswerPath DEF Disconnect
<1>5. CASE \/ Tick \/ WatchRestart
           \/ \E s \in SecretContents : WriteSecret(s)
           \/ \E c \in Clients, object \in ClientObjects \cup {None} : WriteClient(c, object)
           \/ \E u \in Users : DeleteUser(u) \/ DeleteIdentity(u)
  BY <1>1, <1>5 DEF Tick, WatchRestart, WriteSecret, WriteClient, DeleteUser, DeleteIdentity, server
<1> QED
  BY <1>2, <1>3, <1>4, <1>5, AcceptPath, ServePath DEF Next, Environment

\* A handler that begins changes no store and nothing in the cluster.
LEMMA AcceptLeaves ==
  ASSUME NEW r \in Reqs, Accept(r)
  PROVE  userStore' = userStore /\ users' = users /\ identities' = identities
<1>1. CASE \/ \E c \in Clients, uri \in URIs, challenge \in Challenges \cup {None} :
                handle_authorize_get(r, c, uri, challenge)
           \/ handle_authorize_post(r)
  BY <1>1 DEF handle_authorize_get, handle_authorize_post, allButReq, cluster
<1>2. CASE \E c \in CodeIds, client_id \in Clients, verifier \in Verifiers \cup {None} :
             handle_token(r, c, client_id, verifier)
  BY <1>2 DEF handle_token, cluster
<1>3. CASE \/ \E t \in TokenIds : handle_userinfo(r, t)
           \/ \E u \in Users : handle_userinfo_jwt(r, u)
           \/ \E c \in CodeIds \cup {None} : handle_byoidc_token(r, c)
  BY <1>3 DEF handle_userinfo, handle_userinfo_jwt, handle_byoidc_token, allButReq, cluster
<1> QED
  BY <1>1, <1>2, <1>3 DEF Accept

\* Between the two applies of one login the User object may be deleted and
\* created anew, but a uid is never taken back.
LEMMA UidsGrow ==
  ASSUME TypeInv, [Next]_vars
  PROVE  \A u \in Users : users[u].uid \in Nat /\ users'[u].uid \in Nat /\ users[u].uid <= users'[u].uid
<1>0. users \in [Users -> [live : BOOLEAN, uid : 0 .. MaxUid]]
  BY DEF TypeInv, TypeOK
<1>1. \A u \in Users : users[u].uid \in Nat
  BY <1>0, OAuthAssumption
<1>2. ASSUME users' = users
      PROVE  \A u \in Users : users[u].uid <= users'[u].uid /\ users'[u].uid \in Nat
  BY <1>1, <1>2
<1>3. ASSUME NEW r \in Reqs, ensure_user(r)
      PROVE  \A u \in Users : users[u].uid <= users'[u].uid /\ users'[u].uid \in Nat
  <2> DEFINE u == req[r].user
             uid == IF users[u].live THEN users[u].uid ELSE users[u].uid + 1
  <2>1. u \in Users
    BY <1>3 DEF ensure_user, At, TypeInv, WellFormed, Formed
  <2>2. users' = users \/ users' = [users EXCEPT ![u] = [live |-> TRUE, uid |-> uid]]
    BY <1>3 DEF ensure_user
  <2>3. uid \in Nat /\ users[u].uid <= uid
    BY <1>1, <2>1
  <2>4. \A v \in Users : users'[v] = users[v] \/ (v = u /\ users'[v].uid = uid)
    <3> HIDE DEF u, uid
    <3> QED
      BY <1>0, <2>1, <2>2
  <2> HIDE DEF u, uid
  <2> QED
    BY <1>1, <2>3, <2>4
<1>4. ASSUME NEW u \in Users, DeleteUser(u)
      PROVE  \A v \in Users : users[v].uid <= users'[v].uid /\ users'[v].uid \in Nat
  <2>1. \A v \in Users : users'[v].uid = users[v].uid
    BY <1>0, <1>4 DEF DeleteUser
  <2> QED
    BY <1>1, <2>1
<1>5. \/ users' = users
      \/ \E r \in Reqs : ensure_user(r)
      \/ \E u \in Users : DeleteUser(u)
  <2>1. CASE UNCHANGED vars \/ Watch \/ ReloadStore \/ Sweep
    BY <2>1 DEF vars, cluster, Watch, watch_htpasswd_secret, ReloadStore, Sweep,
                SweepTick, SweepCodes, SweepTokens
  <2>2. CASE Environment
    BY <2>2 DEF Environment, Tick, Disconnect, WriteSecret, WriteClient, DeleteIdentity,
                WatchRestart, Restart, allButReq, cluster
  <2>3. CASE \E r \in Reqs : Accept(r)
    BY <2>3, AcceptLeaves
  <2>4. CASE \E r \in Reqs : Serve(r)
    BY <2>4 DEF Serve, handle_authorize_get_authenticate, handle_authorize_post_authenticate,
                handle_authorize_post_validate, ensure_identity, issue_auth_code,
                handle_token_client, handle_token_claims, handle_token_insert,
                handle_userinfo_profile, handle_byoidc_token_answer, allButReq, cluster
  <2> QED
    BY <2>1, <2>2, <2>3, <2>4 DEF Next
<1> QED
  BY <1>1, <1>2, <1>3, <1>4, <1>5

\* What a step can do to an Identity: nothing, remove it, or write into it the
\* uid that a handler got with the User of that name.
LEMMA IdentityStep ==
  ASSUME TypeInv, [Next]_vars
  PROVE  \A u \in Users :
           \/ identities'[u] = identities[u]
           \/ identities'[u] = 0
           \/ \E r \in Reqs : /\ req[r].pc = "identity" /\ req[r].user = u
                              /\ identities'[u] = req[r].uid
<1>0. identities \in [Users -> 0 .. MaxUid]
  BY DEF TypeInv, TypeOK
<1>1. CASE UNCHANGED vars \/ Watch \/ ReloadStore \/ Sweep
  BY <1>1 DEF vars, cluster, Watch, watch_htpasswd_secret, ReloadStore, Sweep,
              SweepTick, SweepCodes, SweepTokens
<1>2. ASSUME NEW v \in Users, DeleteIdentity(v)
      PROVE  \A u \in Users : identities'[u] = identities[u] \/ identities'[u] = 0
  BY <1>0, <1>2 DEF DeleteIdentity
<1>3. CASE Environment
  BY <1>2, <1>3 DEF Environment, Tick, Disconnect, WriteSecret, WriteClient, DeleteUser,
                    WatchRestart, Restart, allButReq, cluster
<1>4. CASE \E r \in Reqs : Accept(r)
  BY <1>4, AcceptLeaves
<1>5. ASSUME NEW r \in Reqs, ensure_identity(r)
      PROVE  \A u \in Users : \/ identities'[u] = identities[u]
                              \/ /\ req[r].pc = "identity" /\ req[r].user = u
                                 /\ identities'[u] = req[r].uid
  BY <1>0, <1>5 DEF ensure_identity, At
<1>6. ASSUME NEW r \in Reqs, Serve(r)
      PROVE  identities' = identities \/ ensure_identity(r)
  BY <1>6 DEF Serve, handle_authorize_get_authenticate, handle_authorize_post_authenticate,
              handle_authorize_post_validate, ensure_user, issue_auth_code,
              handle_token_client, handle_token_claims, handle_token_insert,
              handle_userinfo_profile, handle_byoidc_token_answer, allButReq, cluster
<1>7. CASE \E r \in Reqs : Serve(r)
  BY <1>5, <1>6, <1>7
<1> QED
  BY <1>1, <1>3, <1>4, <1>7 DEF Next

\* The store in force changes only when nobody holds the guard: the watcher
\* gets the write lock, or the process starts anew.
LEMMA StoreStep ==
  ASSUME TypeInv, [Next]_vars
  PROVE  \/ userStore' = userStore
         \/ Guards = {} /\ req' = req
         \/ \A r \in Reqs : req'[r] = Idle
<1>1. CASE UNCHANGED vars \/ Watch \/ ReloadStore \/ Sweep
  BY <1>1 DEF vars, server, Watch, watch_htpasswd_secret, ReloadStore, Sweep,
              SweepTick, SweepCodes, SweepTokens
<1>2. CASE Environment
  BY <1>2 DEF Environment, Tick, Disconnect, WriteSecret, WriteClient, DeleteUser, DeleteIdentity,
              WatchRestart, Restart, allButReq, server
<1>3. CASE \E r \in Reqs : Accept(r)
  BY <1>3, AcceptLeaves
<1>4. CASE \E r \in Reqs : Serve(r)
  BY <1>4 DEF Serve, handle_authorize_get_authenticate, handle_authorize_post_authenticate,
              handle_authorize_post_validate, ensure_user, ensure_identity, issue_auth_code,
              handle_token_client, handle_token_claims, handle_token_insert,
              handle_userinfo_profile, handle_byoidc_token_answer, allButReq
<1> QED
  BY <1>1, <1>2, <1>3, <1>4 DEF Next

\* The uid a handler holds between its two applies stays one the User has had.
LEMMA UidStep ==
  ASSUME TypeInv, LoginInv, [Next]_vars
  PROVE  UidKnown' /\ IdentityUidIsReal'
<1>1. TypeInv'
  BY TypeStep
<1>2. ASSUME NEW r \in Reqs, req'[r].pc = "identity"
      PROVE  req'[r].uid <= users'[req'[r].user].uid
  <2>1. /\ req'[r] \in Request /\ req'[r].user \in Users /\ req'[r].uid \in Nat
        /\ users'[req'[r].user].uid \in Nat
    <3>1. req'[r] \in Request /\ req'[r].user \in Users
      BY <1>1, <1>2 DEF TypeInv, TypeOK, WellFormed, Formed
    <3> QED
      BY <3>1, UidsGrow, OAuthAssumption DEF Request
  <2>2. CASE req'[r] = req[r]
    <3>1. /\ users[req[r].user].uid <= users'[req[r].user].uid /\ users[req[r].user].uid \in Nat
      BY <2>1, <2>2, UidsGrow
    <3>2. req[r].uid <= users[req[r].user].uid
      BY <1>2, <2>2 DEF LoginInv, UidKnown
    <3> QED
      BY <2>1, <2>2, <3>1, <3>2
  <2>3. CASE req'[r] # req[r]
    <3>1. Path(r)
      BY StepPath
    <3>2. req'[r].uid = users'[req'[r].user].uid
      BY <1>2, <2>3, <3>1 DEF Path
    <3> QED
      BY <2>1, <3>2
  <2> QED
    BY <2>2, <2>3
<1>3. ASSUME NEW u \in Users
      PROVE  identities'[u] <= users'[u].uid
  <2>1. /\ users[u].uid \in Nat /\ users'[u].uid \in Nat /\ users[u].uid <= users'[u].uid
    BY UidsGrow
  <2>2. CASE identities'[u] = identities[u]
    <3>1. identities[u] \in Nat /\ identities[u] <= users[u].uid
      BY OAuthAssumption DEF LoginInv, IdentityUidIsReal, TypeInv, TypeOK
    <3> QED
      BY <2>1, <2>2, <3>1
  <2>3. CASE identities'[u] = 0
    BY <2>1, <2>3
  <2>4. ASSUME NEW r \in Reqs, req[r].pc = "identity", req[r].user = u, identities'[u] = req[r].uid
        PROVE  identities'[u] <= users'[u].uid
    <3>1. req[r].uid \in Nat
      BY OAuthAssumption DEF TypeInv, TypeOK, Request
    <3>2. req[r].uid <= users[u].uid
      BY <2>4 DEF LoginInv, UidKnown
    <3> QED
      BY <2>1, <2>4, <3>1, <3>2
  <2> QED
    BY <2>2, <2>3, <2>4, IdentityStep
<1> QED
  BY <1>2, <1>3 DEF UidKnown, IdentityUidIsReal

\* No reload slips in while a guarded login is at its API calls.
LEMMA GuardStep ==
  ASSUME TypeInv, LoginInv, [Next]_vars
  PROVE  GuardedPath' /\ GuardedLoginIsCurrent'
<1>1. ASSUME NEW r \in Reqs, req'[r].basic
      PROVE  req'[r].pc \in {"basic", "user", "identity", "issue"}
  <2>1. Path(r)
    BY StepPath
  <2>2. req[r].basic => req[r].pc \in {"basic", "user", "identity", "issue"}
    BY DEF LoginInv, GuardedPath
  <2> QED
    BY <1>1, <2>1, <2>2 DEF Path
<1>2. ASSUME NEW r \in Reqs, req'[r].basic, req'[r].pc \in {"user", "identity", "issue"}
      PROVE  \E p \in Passwords : authenticate(userStore', req'[r].user, p)
  <2>1. Path(r)
    BY StepPath
  <2>2. req[r].basic => req[r].pc \in {"basic", "user", "identity", "issue"}
    BY DEF LoginInv, GuardedPath
  <2>3. ASSUME req[r].basic, req[r].pc \in {"user", "identity", "issue"}
        PROVE  \E p \in Passwords : authenticate(userStore, req[r].user, p)
    BY <2>3 DEF LoginInv, GuardedLoginIsCurrent
  <2>4. CASE req'[r] = req[r]
    <3>1. r \in Guards
      BY <1>2, <2>4 DEF Guards
    <3>2. req'[r] # Idle
      BY <1>2 DEF Idle
    <3>3. userStore' = userStore
      BY <3>1, <3>2, StoreStep
    <3> QED
      BY <1>2, <2>3, <2>4, <3>3
  <2>5. CASE req'[r] # req[r]
    BY <1>2, <2>1, <2>2, <2>3, <2>5 DEF Path
  <2> QED
    BY <2>4, <2>5
<1> QED
  BY <1>1, <1>2 DEF GuardedPath, GuardedLoginIsCurrent

\* The steps that bear on the Secret and its way to the store.
LEMMA SecretStep ==
  ASSUME [Next]_vars
  PROVE  \/ UNCHANGED <<secret, htEvents, writer, userStore>>
         \/ Watch \/ ReloadStore \/ WatchRestart \/ Restart
         \/ \E s \in SecretContents : WriteSecret(s)
<1>1. CASE UNCHANGED vars \/ Sweep
  BY <1>1 DEF vars, server, cluster, Sweep, SweepTick, SweepCodes, SweepTokens
<1>2. CASE Environment
  BY <1>2 DEF Environment, Tick, Disconnect, WriteClient, DeleteUser, DeleteIdentity,
              allButReq, server, cluster
<1>3. ASSUME NEW r \in Reqs, Accept(r)
      PROVE  UNCHANGED <<secret, htEvents, writer, userStore>>
  BY <1>3 DEF Accept, handle_authorize_get, handle_authorize_post, handle_token, handle_userinfo,
              handle_userinfo_jwt, handle_byoidc_token, allButReq, cluster
<1>4. ASSUME NEW r \in Reqs, Serve(r)
      PROVE  UNCHANGED <<secret, htEvents, writer, userStore>>
  BY <1>4 DEF Serve, handle_authorize_get_authenticate, handle_authorize_post_authenticate,
              handle_authorize_post_validate, ensure_user, ensure_identity, issue_auth_code,
              handle_token_client, handle_token_claims, handle_token_insert,
              handle_userinfo_profile, handle_byoidc_token_answer, allButReq, cluster
<1> QED
  BY <1>1, <1>2, <1>3, <1>4 DEF Next

\* Taking the first of several events leaves the last one last; the only
\* event is first and last.
LEMMA LastStaysLast ==
  ASSUME NEW S, NEW q \in Seq(S), q # << >>
  PROVE  \/ Tail(q) = << >> /\ Head(q) = q[Len(q)]
         \/ Tail(q) # << >> /\ Tail(q)[Len(Tail(q))] = q[Len(q)]
<1>1. Len(q) \in Nat \ {0}
  BY EmptySeq
<1>2. /\ Tail(q) \in Seq(S) /\ Len(Tail(q)) = Len(q) - 1
      /\ \A i \in 1 .. Len(Tail(q)) : Tail(q)[i] = q[i + 1]
  BY HeadTailProperties
<1>3. CASE Tail(q) = << >>
  <2>0. Len(Tail(q)) = 0
    BY <1>3, EmptySeq
  <2>1. Len(q) = 1
    <3> DEFINE n == Len(q)
               m == Len(Tail(q))
    <3>1. n \in Nat /\ m = n - 1 /\ m = 0
      BY <1>1, <1>2, <2>0
    <3> HIDE DEF n, m
    <3>2. n = 1
      BY <3>1
    <3> QED
      BY <3>2 DEF n
  <2>2. Head(q) = q[1]
    BY <1>1
  <2> QED
    BY <1>3, <2>1, <2>2
<1>4. CASE Tail(q) # << >>
  <2>1. Len(Tail(q)) \in Nat \ {0}
    BY <1>2, <1>4, EmptySeq
  <2>2. Tail(q)[Len(Tail(q))] = q[Len(q)]
    BY <1>1, <1>2, <2>1
  <2> QED
    BY <1>4, <2>2
<1> QED
  BY <1>3, <1>4

\* What the Secret holds is in force or under way.
LEMMA WayStep ==
  ASSUME TypeInv, SecretOnItsWay, [Next]_vars
  PROVE  SecretOnItsWay'
<1>0. /\ htEvents \in Seq(Stores \cup {NoKey}) /\ writer \in Stores \cup {None}
      /\ secret \in SecretContents /\ None \notin Stores /\ NoKey \notin Stores
  BY OAuthAssumption DEF TypeInv, TypeOK
<1>1. CASE UNCHANGED <<secret, htEvents, writer, userStore>>
  BY <1>1 DEF SecretOnItsWay
<1>2. ASSUME NEW event \in Stores \cup {NoKey}, watch_htpasswd_secret(event)
      PROVE  SecretOnItsWay'
  <2>1. /\ writer = None /\ htEvents # << >> /\ event = Head(htEvents) /\ htEvents' = Tail(htEvents)
        /\ writer' = IF event = NoKey THEN None ELSE event
        /\ secret' = secret /\ userStore' = userStore
    BY <1>2 DEF watch_htpasswd_secret
  <2>2. SUFFICES ASSUME secret \in Stores
                 PROVE  /\ htEvents' # << >> => htEvents'[Len(htEvents')] = secret
                        /\ htEvents' = << >> => writer' = secret
    BY <1>0, <2>1 DEF SecretOnItsWay
  <2>3. htEvents[Len(htEvents)] = secret
    BY <2>1, <2>2 DEF SecretOnItsWay
  <2>4. \/ htEvents' = << >> /\ event = secret
        \/ htEvents' # << >> /\ htEvents'[Len(htEvents')] = secret
    BY <1>0, <2>1, <2>3, LastStaysLast
  <2>5. event = secret => writer' = secret
    BY <1>0, <2>1, <2>2
  <2> QED
    BY <2>4, <2>5
<1>3. CASE ReloadStore
  BY <1>0, <1>3 DEF ReloadStore, cluster, SecretOnItsWay
<1>4. ASSUME NEW s \in SecretContents, WriteSecret(s)
      PROVE  SecretOnItsWay'
  <2>1. secret' = s /\ htEvents' = IF s = None THEN htEvents ELSE Append(htEvents, s)
    BY <1>4 DEF WriteSecret
  <2>2. CASE s \in Stores
    <3>1. htEvents' = Append(htEvents, s)
      BY <1>0, <2>1, <2>2
    <3>2. htEvents' # << >> /\ htEvents'[Len(htEvents')] = s
      BY <1>0, <2>2, <3>1
    <3> QED
      BY <2>1, <3>2 DEF SecretOnItsWay
  <2>3. CASE s \notin Stores
    BY <2>1, <2>3 DEF SecretOnItsWay
  <2> QED
    BY <2>2, <2>3
<1>5. CASE WatchRestart \/ Restart
  <2>1. htEvents' = Relist /\ secret' = secret
    BY <1>5 DEF WatchRestart, Restart
  <2>2. CASE secret \in Stores
    <3>1. htEvents' = <<secret>>
      BY <1>0, <2>1, <2>2 DEF Relist
    <3>2. htEvents' # << >> /\ htEvents'[Len(htEvents')] = secret
      BY <3>1
    <3> QED
      BY <2>1, <3>2 DEF SecretOnItsWay
  <2>3. CASE secret \notin Stores
    BY <2>1, <2>3 DEF SecretOnItsWay
  <2> QED
    BY <2>2, <2>3
<1> QED
  BY <1>1, <1>2, <1>3, <1>4, <1>5, SecretStep DEF Watch

\* The invariant about logins holds of every behaviour.
THEOREM LoginInductive == Spec => [](TypeInv /\ LoginInv)
<1>1. ASSUME Init
      PROVE  LoginInv
  <2>1. /\ \A r \in Reqs : req[r].pc = "idle" /\ ~req[r].basic
        /\ \A u \in Users : identities[u] <= users[u].uid
    BY <1>1 DEF Init, Idle
  <2>2. secret \notin Stores
    BY <1>1, OAuthAssumption DEF Init
  <2> QED
    BY <2>1, <2>2 DEF LoginInv, UidKnown, IdentityUidIsReal, GuardedPath,
                      GuardedLoginIsCurrent, SecretOnItsWay
<1>2. TypeInv /\ LoginInv /\ [Next]_vars => LoginInv'
  BY UidStep, GuardStep, WayStep DEF LoginInv
<1> QED
  BY <1>1, <1>2, TypeInductive, PTL DEF Spec

\* ensure_user_and_identity, for every number of logins and of users that are
\* deleted meanwhile: an Identity names a uid its User really was given.
THEOREM IdentitiesReal == Spec => []IdentityUidIsReal
  BY LoginInductive, PTL DEF LoginInv

\* handle_authorize_get: whoever is about to get a code has a password in the
\* store in force, whatever the watcher does in the meantime.
THEOREM GuardedLoginsCurrent == Spec => []GuardedLoginIsCurrent
  BY LoginInductive, PTL DEF LoginInv

\* watch_htpasswd_secret, for every sequence of contents, lost watches and
\* restarts: a watcher that has caught up has put the Secret's content in force.
THEOREM StoreFollows == Spec => []StoreFollowsSecret
<1>1. SecretOnItsWay => StoreFollowsSecret
  BY DEF SecretOnItsWay, StoreFollowsSecret
<1> QED
  BY <1>1, LoginInductive, PTL DEF LoginInv

------------------------------------------------------------------------------
(***************************************************************************)
(* Authorization codes: a code is paid out at most once.  SingleUse alone  *)
(* is not inductive: it needs to be known that a code that is still in the *)
(* map, or with an exchange, has not been paid out, and that it is never   *)
(* with two exchanges (CodeInOnePlace).                                    *)
(***************************************************************************)
CodeInv == CodeInOnePlace /\ SingleUse

\* The steps that neither put a code anywhere nor pay one out.
LEMMA NoCodeGained ==
  ASSUME CodeInv, redeemed' = redeemed,
         \A c \in CodeIds : codes'[c] # None => codes[c] # None,
         \A s \in Reqs, c \in CodeIds : Holds(s, c)' => Holds(s, c)
  PROVE  CodeInv'
  BY DEF CodeInv, CodeInOnePlace, SingleUse

\* Moving a request makes no difference to the others.
LEMMA MoveHolds ==
  ASSUME TypeInv, NEW r \in Reqs, NEW q, Move(r, q)
  PROVE  /\ \A s \in Reqs \ {r}, c \in CodeIds : Holds(s, c)' <=> Holds(s, c)
         /\ \A c \in CodeIds : Holds(r, c)' <=> q.code = c /\ q.pc \in {"client", "claims", "insert"}
  BY DEF TypeInv, TypeOK, Move, Holds

\* A request that is moved to a point outside an exchange holds no code.
LEMMA MoveOutside ==
  ASSUME TypeInv, NEW r \in Reqs, NEW q, Move(r, q), q.pc \notin {"client", "claims", "insert"}
  PROVE  \A s \in Reqs, c \in CodeIds : Holds(s, c)' => Holds(s, c)
  BY MoveHolds

\* A request that goes on with the code it has.
LEMMA MoveWithin ==
  ASSUME TypeInv, NEW r \in Reqs, NEW q, Move(r, q), q.code = req[r].code,
         req[r].pc \in {"client", "claims", "insert"}
  PROVE  \A s \in Reqs, c \in CodeIds : Holds(s, c)' => Holds(s, c)
  BY MoveHolds DEF Holds

\* An answered request holds no code.
LEMMA AnswerHolds ==
  ASSUME TypeInv, NEW r \in Reqs, Answer(r)
  PROVE  /\ \A s \in Reqs, c \in CodeIds : Holds(s, c)' => Holds(s, c)
         /\ \A c \in CodeIds : ~Holds(r, c)'
<1>1. Idle.pc = "idle"
  BY DEF Idle
<1> QED
  BY <1>1, MoveHolds, MoveOutside DEF Answer

\* Accepting a request: only handle_token touches a code.
LEMMA AcceptCodes ==
  ASSUME TypeInv, CodeInv, NEW r \in Reqs, Accept(r)
  PROVE  CodeInv'
<1>0. Idle \in Request
  BY IdleFormed
<1>1. ASSUME NEW c \in Clients, NEW uri \in URIs, NEW challenge \in Challenges \cup {None},
             handle_authorize_get(r, c, uri, challenge)
      PROVE  CodeInv'
  <2> DEFINE q == [Idle EXCEPT !.pc = "basic", !.client = c, !.challenge = challenge, !.basic = TRUE]
  <2>1. Move(r, q) /\ q.pc = "basic"
    BY <1>0, <1>1 DEF handle_authorize_get, Request
  <2> HIDE DEF q
  <2> QED
    BY <1>1, <2>1, MoveOutside, NoCodeGained DEF handle_authorize_get, allButReq
<1>2. CASE handle_authorize_post(r)
  <2>1. [Idle EXCEPT !.pc = "form"].pc = "form"
    BY <1>0 DEF Request
  <2> QED
    BY <1>2, <2>1, MoveOutside, NoCodeGained DEF handle_authorize_post, allButReq
<1>3. ASSUME NEW c \in CodeIds, NEW client_id \in Clients, NEW verifier \in Verifiers \cup {None},
             handle_token(r, c, client_id, verifier)
      PROVE  CodeInv'
  <2>1. /\ codes[c] # None /\ redeemed' = redeemed
        /\ codes'[c] = None /\ \A d \in CodeIds \ {c} : codes'[d] = codes[d]
    BY <1>3 DEF handle_token, TypeInv, TypeOK
  <2>2. CASE Answer(r)
    BY <2>1, <2>2, AnswerHolds, NoCodeGained
  <2>3. ASSUME NEW q, Move(r, q), q.code = c
        PROVE  CodeInv'
    <3>1. \A s \in Reqs, d \in CodeIds : Holds(s, d)' => Holds(s, d) \/ (s = r /\ d = c)
      BY <2>3, MoveHolds
    <3>2. \A s \in Reqs : ~Holds(s, c)
      BY <2>1 DEF CodeInv, CodeInOnePlace
    <3>3. redeemed[c] = 0
      BY <2>1 DEF CodeInv, CodeInOnePlace
    <3> QED
      BY <2>1, <3>1, <3>2, <3>3 DEF CodeInv, CodeInOnePlace, SingleUse
  <2>4. Answer(r) \/ \E q : Move(r, q) /\ q.code = c
    <3> DEFINE holding == [Idle EXCEPT !.user = codes[c].username, !.client = client_id, !.code = c]
    <3>1. \A pc \in PC : [holding EXCEPT !.pc = pc].code = c
      BY <1>0 DEF Request
    <3>2. \/ Answer(r) \/ Move(r, [holding EXCEPT !.pc = "client"])
          \/ Move(r, [holding EXCEPT !.pc = Minting])
      BY <1>3 DEF handle_token
    <3>3. Minting \in PC /\ "client" \in PC
      BY DEF Minting, PC
    <3> HIDE DEF holding
    <3> QED
      BY <3>1, <3>2, <3>3
  <2> QED
    BY <2>2, <2>3, <2>4
<1>4. ASSUME NEW t \in TokenIds, handle_userinfo(r, t)
      PROVE  CodeInv'
  <2>1. [Idle EXCEPT !.pc = "profile", !.user = tokens[t].username].pc = "profile"
    BY <1>0 DEF Request
  <2> QED
    BY <1>4, <2>1, MoveOutside, NoCodeGained DEF handle_userinfo, allButReq
<1>5. ASSUME NEW u \in Users, handle_userinfo_jwt(r, u)
      PROVE  CodeInv'
  <2>1. [Idle EXCEPT !.pc = "profile", !.user = u].pc = "profile"
    BY <1>0 DEF Request
  <2> QED
    BY <1>5, <2>1, MoveOutside, NoCodeGained DEF handle_userinfo_jwt, allButReq
<1>6. ASSUME NEW c \in CodeIds \cup {None}, handle_byoidc_token(r, c)
      PROVE  CodeInv'
  <2>1. [Idle EXCEPT !.pc = "external", !.code = c].pc = "external"
    BY <1>0 DEF Request
  <2> QED
    BY <1>6, <2>1, MoveOutside, NoCodeGained DEF handle_byoidc_token, allButReq
<1> QED
  BY <1>1, <1>2, <1>3, <1>4, <1>5, <1>6 DEF Accept

\* Serving a request: issue_auth_code puts a code nobody has into the map,
\* handle_token_insert pays out the one its exchange holds.
LEMMA ServeCodes ==
  ASSUME TypeInv, CodeInv, NEW r \in Reqs, Serve(r)
  PROVE  CodeInv'
<1>0. req[r] \in Request /\ Formed(req[r]) /\ Idle \in Request
  BY IdleFormed DEF TypeInv, TypeOK, WellFormed
<1>1. ASSUME NEW u \in Users, NEW p \in Passwords, handle_authorize_get_authenticate(r, u, p)
      PROVE  CodeInv'
  <2>1. [req[r] EXCEPT !.pc = "user", !.user = u].pc = "user"
    BY <1>0 DEF Request
  <2> QED
    BY <1>1, <2>1, MoveOutside, AnswerHolds, NoCodeGained
       DEF handle_authorize_get_authenticate, allButReq
<1>2. ASSUME NEW u \in Users, NEW p \in Passwords, handle_authorize_post_authenticate(r, u, p)
      PROVE  CodeInv'
  <2>1. [req[r] EXCEPT !.pc = "validate", !.user = u].pc = "validate"
    BY <1>0 DEF Request
  <2> QED
    BY <1>2, <2>1, MoveOutside, AnswerHolds, NoCodeGained
       DEF handle_authorize_post_authenticate, allButReq
<1>3. ASSUME NEW c \in Clients, NEW uri \in URIs, NEW challenge \in Challenges \cup {None},
             handle_authorize_post_validate(r, c, uri, challenge)
      PROVE  CodeInv'
  <2> DEFINE q == [req[r] EXCEPT !.pc = "user", !.client = c, !.challenge = challenge]
  <2>1. q.pc = "user"
    BY <1>0 DEF Request
  <2>2. UNCHANGED allButReq /\ (Move(r, q) \/ Answer(r))
    BY <1>3 DEF handle_authorize_post_validate
  <2> HIDE DEF q
  <2> QED
    BY <2>1, <2>2, MoveOutside, AnswerHolds, NoCodeGained DEF allButReq
<1>4. ASSUME req[r].pc \in {"user", "identity"}, Move(r, AfterEnsure(r)), UNCHANGED <<codes, redeemed>>
      PROVE  CodeInv'
  <2>1. AfterEnsure(r).pc \in {"idle", "issue"}
    BY <1>0 DEF AfterEnsure, Idle, Request
  <2> HIDE DEF AfterEnsure
  <2> QED
    BY <1>4, <2>1, MoveOutside, NoCodeGained
<1>5. CASE ensure_user(r)
  <2>1. PICK uid : Move(r, [req[r] EXCEPT !.pc = "identity", !.uid = uid]) \/ Move(r, AfterEnsure(r))
    BY <1>5 DEF ensure_user
  <2>2. [req[r] EXCEPT !.pc = "identity", !.uid = uid].pc = "identity"
    BY <1>0 DEF Request
  <2>3. req[r].pc = "user" /\ UNCHANGED <<codes, redeemed>>
    BY <1>5 DEF ensure_user, At
  <2> QED
    BY <1>4, <2>1, <2>2, <2>3, MoveOutside, NoCodeGained
<1>6. CASE ensure_identity(r)
  BY <1>4, <1>6 DEF ensure_identity, At
<1>7. ASSUME NEW c \in CodeIds, issue_auth_code(r, c)
      PROVE  CodeInv'
  <2>1. /\ redeemed'[c] = 0
        /\ \A d \in CodeIds \ {c} : codes'[d] = codes[d] /\ redeemed'[d] = redeemed[d]
    BY <1>7 DEF issue_auth_code, TypeInv, TypeOK
  <2>2. \A s \in Reqs : ~Holds(s, c)
    BY <1>7 DEF issue_auth_code, FreeCodes, Holds
  <2>3. \A s \in Reqs, d \in CodeIds : Holds(s, d)' => Holds(s, d)
    BY <1>7, AnswerHolds DEF issue_auth_code
  <2> QED
    BY <2>1, <2>2, <2>3 DEF CodeInv, CodeInOnePlace, SingleUse
<1>8. ASSUME NEW secr \in Secrets, handle_token_client(r, secr)
      PROVE  CodeInv'
  <2>1. [req[r] EXCEPT !.pc = Minting].code = req[r].code
    BY <1>0 DEF Request
  <2>2. /\ req[r].pc = "client" /\ UNCHANGED allButReq
        /\ Move(r, [req[r] EXCEPT !.pc = Minting]) \/ Answer(r)
    BY <1>8 DEF handle_token_client, At
  <2> QED
    BY <2>1, <2>2, MoveWithin, AnswerHolds, NoCodeGained DEF allButReq
<1>9. CASE handle_token_claims(r)
  <2>1. [req[r] EXCEPT !.pc = "insert"].code = req[r].code
    BY <1>0 DEF Request
  <2> QED
    BY <1>9, <2>1, MoveWithin, AnswerHolds, NoCodeGained DEF handle_token_claims, At, allButReq
<1>10. ASSUME NEW t \in TokenIds, handle_token_insert(r, t)
       PROVE  CodeInv'
  <2>0. PICK c \in CodeIds : c = req[r].code
    BY <1>0, <1>10 DEF handle_token_insert, At, Formed
  <2>1. Holds(r, c)
    BY <1>10, <2>0 DEF handle_token_insert, At, Holds
  <2>2. codes[c] = None /\ redeemed[c] = 0 /\ \A s \in Reqs \ {r} : ~Holds(s, c)
    BY <2>1 DEF CodeInv, CodeInOnePlace
  <2>3. /\ codes' = codes /\ redeemed'[c] = 1
        /\ \A d \in CodeIds \ {c} : redeemed'[d] = redeemed[d]
    BY <1>10, <2>0, <2>2 DEF handle_token_insert, TypeInv, TypeOK
  <2>4. /\ \A s \in Reqs, d \in CodeIds : Holds(s, d)' => Holds(s, d)
        /\ ~Holds(r, c)'
    BY <1>10, AnswerHolds DEF handle_token_insert
  <2> QED
    BY <2>1, <2>2, <2>3, <2>4 DEF CodeInv, CodeInOnePlace, SingleUse
<1>11. CASE handle_userinfo_profile(r)
  BY <1>11, AnswerHolds, NoCodeGained DEF handle_userinfo_profile, allButReq
<1>12. ASSUME NEW u \in Users, handle_byoidc_token_answer(r, u)
       PROVE  CodeInv'
  <2>1. [Idle EXCEPT !.pc = "user", !.user = u].pc = "user"
    BY <1>0 DEF Request
  <2> QED
    BY <1>12, <2>1, MoveOutside, AnswerHolds, NoCodeGained DEF handle_byoidc_token_answer, allButReq
<1> QED
  BY <1>1, <1>2, <1>3, <1>5, <1>6, <1>7, <1>8, <1>9, <1>10, <1>11, <1>12 DEF Serve

\* The tasks and the environment only ever remove codes.
LEMMA OtherCodes ==
  ASSUME TypeInv, CodeInv, Watch \/ ReloadStore \/ Sweep \/ Environment
  PROVE  CodeInv'
<1>1. ASSUME req' = req, redeemed' = redeemed,
             \A c \in CodeIds : codes'[c] # None => codes[c] # None
      PROVE  CodeInv'
  BY <1>1, NoCodeGained DEF Holds
<1>2. CASE Watch \/ ReloadStore \/ SweepTick \/ SweepTokens
  BY <1>1, <1>2 DEF Watch, watch_htpasswd_secret, ReloadStore, SweepTick, SweepTokens
<1>3. CASE SweepCodes
  BY <1>1, <1>3 DEF SweepCodes, Retained, TypeInv, TypeOK
<1>4. CASE Tick
  BY <1>1, <1>4 DEF Tick, Older, TypeInv, TypeOK
<1>5. ASSUME NEW r \in Reqs, Disconnect(r)
      PROVE  CodeInv'
  BY <1>5, AnswerHolds, NoCodeGained DEF Disconnect, allButReq
<1>6. CASE \/ \E s \in SecretContents : WriteSecret(s)
           \/ \E c \in Clients, object \in ClientObjects \cup {None} : WriteClient(c, object)
           \/ \E u \in Users : DeleteUser(u) \/ DeleteIdentity(u)
           \/ WatchRestart
  BY <1>1, <1>6 DEF WriteSecret, WriteClient, DeleteUser, DeleteIdentity, WatchRestart, server
<1>7. CASE Restart
  <2>1. \A s \in Reqs, c \in CodeIds : ~Holds(s, c)'
    BY <1>7 DEF Restart, Holds, Idle
  <2>2. redeemed' = redeemed /\ \A c \in CodeIds : codes'[c] = None
    BY <1>7 DEF Restart
  <2> QED
    BY <2>1, <2>2, NoCodeGained
<1> QED
  BY <1>2, <1>3, <1>4, <1>5, <1>6, <1>7 DEF Sweep, Environment

\* The invariant about codes holds of every behaviour.
THEOREM CodeInductive == Spec => [](TypeInv /\ CodeInv)
<1>1. Init => CodeInv
  BY DEF Init, CodeInv, CodeInOnePlace, SingleUse, Holds, Idle
<1>2. TypeInv /\ CodeInv /\ [Next]_vars => CodeInv'
  <2>1. ASSUME CodeInv, UNCHANGED vars
        PROVE  CodeInv'
    BY <2>1 DEF vars, server, CodeInv, CodeInOnePlace, SingleUse, Holds
  <2> QED
    BY <2>1, AcceptCodes, ServeCodes, OtherCodes DEF Next
<1> QED
  BY <1>1, <1>2, TypeInductive, PTL DEF Spec

\* handle_token, for every number of concurrent exchanges: a code that is in
\* the map or with an exchange is in no other place and not paid out.
THEOREM CodesInOnePlace == Spec => []CodeInOnePlace
  BY CodeInductive, PTL DEF CodeInv

\* handle_token: one code never yields two access tokens.
THEOREM CodesSingleUse == Spec => []SingleUse
  BY CodeInductive, PTL DEF CodeInv

------------------------------------------------------------------------------
(***************************************************************************)
(* How long entries stay.  BoundedRetention is not inductive: how old an   *)
(* entry can be depends on how long ago the maps were swept and on which   *)
(* of the two the sweeper has dealt with in this round (AgesBounded).      *)
(***************************************************************************)
CodeBound == CODE_TTL + IF sweeper = "wait" THEN sinceSweep
                        ELSE IF sweeper = "codes" THEN SWEEP_PERIOD ELSE 0

TokenBound == TOKEN_TTL + IF sweeper = "wait" THEN sinceSweep ELSE SWEEP_PERIOD

AgesBounded ==
  /\ \A c \in CodeIds : codes[c] # None => codes[c].age < CodeBound
  /\ \A t \in TokenIds : tokens[t] # None => tokens[t].age < TokenBound

\* What a handler can do to an entry: put a new one, or take the code it was
\* given out of the map.
EntriesServed ==
  /\ UNCHANGED <<sweeper, sinceSweep>>
  /\ \A c \in CodeIds :
       \/ codes'[c] = codes[c]
       \/ codes'[c] \in AuthCode /\ codes'[c].age = 0
       \/ /\ codes'[c] = None
          /\ \E r \in Reqs, client_id \in Clients, v \in Verifiers \cup {None} :
               handle_token(r, c, client_id, v)
  /\ \A t \in TokenIds : tokens'[t] = tokens[t] \/ (tokens'[t] \in TokenInfo /\ tokens'[t].age = 0)

\* Everything but time, the sweeper and a restart treats entries that way.
LEMMA EntriesStep ==
  ASSUME TypeInv, [Next]_vars
  PROVE  EntriesServed \/ Tick \/ Sweep \/ Restart
<1>0. /\ codes \in [CodeIds -> AuthCode \cup {None}]
      /\ tokens \in [TokenIds -> TokenInfo \cup {None}]
  BY DEF TypeInv, TypeOK
<1>1. ASSUME UNCHANGED <<codes, tokens, sweeper, sinceSweep>>
      PROVE  EntriesServed
  BY <1>1 DEF EntriesServed
<1>2. CASE UNCHANGED vars \/ Watch \/ ReloadStore
  <2>1. UNCHANGED <<codes, tokens, sweeper, sinceSweep>>
    BY <1>2 DEF vars, server, Watch, watch_htpasswd_secret, ReloadStore
  <2> QED
    BY <1>1, <2>1
<1>3. CASE Environment
  <2>1. CASE \/ \E r \in Reqs : Disconnect(r)
             \/ \E s \in SecretContents : WriteSecret(s)
             \/ \E c \in Clients, object \in ClientObjects \cup {None} : WriteClient(c, object)
             \/ \E u \in Users : DeleteUser(u) \/ DeleteIdentity(u)
             \/ WatchRestart
    <3>1. UNCHANGED <<codes, tokens, sweeper, sinceSweep>>
      BY <2>1 DEF Disconnect, WriteSecret, WriteClient, DeleteUser, DeleteIdentity, WatchRestart,
                  allButReq, server
    <3> QED
      BY <1>1, <3>1
  <2> QED
    BY <1>3, <2>1 DEF Environment
<1>4. ASSUME NEW r \in Reqs, NEW c \in CodeIds, NEW client_id \in Clients,
             NEW verifier \in Verifiers \cup {None}, handle_token(r, c, client_id, verifier)
      PROVE  EntriesServed
  <2>1. codes'[c] = None /\ \A d \in CodeIds \ {c} : codes'[d] = codes[d]
    BY <1>0, <1>4 DEF handle_token
  <2>2. UNCHANGED <<tokens, sweeper, sinceSweep>>
    BY <1>4 DEF handle_token
  <2> QED
    BY <1>4, <2>1, <2>2 DEF EntriesServed
<1>5. ASSUME NEW r \in Reqs, Accept(r)
      PROVE  EntriesServed
  <2>1. \/ UNCHANGED <<codes, tokens, sweeper, sinceSweep>>
        \/ \E c \in CodeIds, client_id \in Clients, verifier \in Verifiers \cup {None} :
             handle_token(r, c, client_id, verifier)
    BY <1>5 DEF Accept, handle_authorize_get, handle_authorize_post, handle_userinfo,
                handle_userinfo_jwt, handle_byoidc_token, allButReq
  <2> QED
    BY <1>1, <1>4, <2>1
<1>6. ASSUME NEW r \in Reqs, NEW c \in CodeIds, issue_auth_code(r, c)
      PROVE  EntriesServed
  <2> DEFINE code == [username |-> req[r].user, client_id |-> req[r].client,
                      challenge |-> req[r].challenge, age |-> 0]
  <2>1. codes' = [codes EXCEPT ![c] = code] /\ UNCHANGED <<tokens, sweeper, sinceSweep>>
    BY <1>6 DEF issue_auth_code
  <2>2. codes'[c] = code /\ \A d \in CodeIds \ {c} : codes'[d] = codes[d]
    BY <1>0, <2>1
  <2>3. code \in AuthCode /\ code.age = 0
    <3>1. req[r] \in Request /\ req[r].user \in Users /\ req[r].client \in Clients
      BY <1>6 DEF issue_auth_code, At, TypeInv, TypeOK, WellFormed, Formed
    <3>2. 0 \in CodeAges
      BY OAuthAssumption DEF CodeAges
    <3> QED
      BY <3>1, <3>2 DEF Request, AuthCode
  <2> HIDE DEF code
  <2> QED
    BY <2>1, <2>2, <2>3 DEF EntriesServed
<1>7. ASSUME NEW r \in Reqs, NEW t \in TokenIds, handle_token_insert(r, t)
      PROVE  EntriesServed
  <2> DEFINE token == [username |-> req[r].user, age |-> 0]
  <2>1. tokens' = [tokens EXCEPT ![t] = token] /\ UNCHANGED <<codes, sweeper, sinceSweep>>
    BY <1>7 DEF handle_token_insert
  <2>2. tokens'[t] = token /\ \A d \in TokenIds \ {t} : tokens'[d] = tokens[d]
    BY <1>0, <2>1
  <2>3. token \in TokenInfo /\ token.age = 0
    <3>1. req[r].user \in Users
      BY <1>7 DEF handle_token_insert, At, TypeInv, WellFormed, Formed
    <3>2. 0 \in TokenAges
      BY OAuthAssumption DEF TokenAges
    <3> QED
      BY <3>1, <3>2 DEF TokenInfo
  <2> HIDE DEF token
  <2> QED
    BY <2>1, <2>2, <2>3 DEF EntriesServed
<1>8. ASSUME NEW r \in Reqs, Serve(r)
      PROVE  EntriesServed
  <2>1. \/ UNCHANGED <<codes, tokens, sweeper, sinceSweep>>
        \/ \E c \in CodeIds : issue_auth_code(r, c)
        \/ \E t \in TokenIds : handle_token_insert(r, t)
    BY <1>8 DEF Serve, handle_authorize_get_authenticate, handle_authorize_post_authenticate,
                handle_authorize_post_validate, ensure_user, ensure_identity, handle_token_client,
                handle_token_claims, handle_userinfo_profile, handle_byoidc_token_answer, allButReq
  <2> QED
    BY <1>1, <1>6, <1>7, <2>1
<1> QED
  BY <1>2, <1>3, <1>5, <1>8 DEF Next

\* The sweeper and the passing of time keep the ages within their bounds.
LEMMA AgesStep ==
  ASSUME TypeInv, AgesBounded, [Next]_vars
  PROVE  AgesBounded'
<1>0. /\ codes \in [CodeIds -> AuthCode \cup {None}]
      /\ tokens \in [TokenIds -> TokenInfo \cup {None}]
      /\ sinceSweep \in Nat /\ sinceSweep <= SWEEP_PERIOD
      /\ SWEEP_PERIOD \in Nat \ {0} /\ CODE_TTL \in Nat \ {0} /\ TOKEN_TTL \in Nat \ {0}
  BY OAuthAssumption DEF TypeInv, TypeOK
<1>1. /\ \A c \in CodeIds : codes[c] # None => codes[c] \in AuthCode /\ codes[c].age \in Nat
      /\ \A t \in TokenIds : tokens[t] # None => tokens[t] \in TokenInfo /\ tokens[t].age \in Nat
  BY <1>0 DEF AuthCode, TokenInfo, CodeAges, TokenAges
<1>2. CASE EntriesServed
  <2>1. CodeBound' = CodeBound /\ TokenBound' = TokenBound /\ 0 < CodeBound /\ 0 < TokenBound
    BY <1>0, <1>2 DEF EntriesServed, CodeBound, TokenBound
  <2>2. /\ \A c \in CodeIds : codes'[c] = codes[c] \/ codes'[c] = None \/ codes'[c].age = 0
        /\ \A t \in TokenIds : tokens'[t] = tokens[t] \/ tokens'[t].age = 0
    BY <1>2 DEF EntriesServed
  <2> HIDE DEF CodeBound, TokenBound
  <2> QED
    BY <2>1, <2>2 DEF AgesBounded
<1>3. CASE SweepTick
  <2>1. CodeBound' = CodeBound /\ TokenBound' = TokenBound /\ UNCHANGED <<codes, tokens>>
    BY <1>0, <1>3 DEF SweepTick, CodeBound, TokenBound
  <2> QED
    BY <2>1 DEF AgesBounded
<1>4. CASE SweepCodes
  <2>1. CodeBound' = CODE_TTL /\ TokenBound' = TokenBound /\ tokens' = tokens
    BY <1>0, <1>4 DEF SweepCodes, CodeBound, TokenBound
  <2>2. \A c \in CodeIds : codes'[c] # None => codes'[c].age < CODE_TTL
    BY <1>0, <1>4 DEF SweepCodes, Retained
  <2> QED
    BY <2>1, <2>2 DEF AgesBounded
<1>5. CASE SweepTokens
  <2>1. CodeBound = CODE_TTL /\ CODE_TTL <= CodeBound' /\ TOKEN_TTL <= TokenBound' /\ codes' = codes
    BY <1>0, <1>5 DEF SweepTokens, CodeBound, TokenBound
  <2>2. CodeBound' \in Nat /\ TokenBound' \in Nat
    BY <1>0, <1>5 DEF SweepTokens, CodeBound, TokenBound
  <2>3. \A t \in TokenIds : tokens'[t] = None \/ (tokens'[t] = tokens[t] /\ tokens[t] # None /\ tokens[t].age < TOKEN_TTL)
    BY <1>0, <1>5 DEF SweepTokens, Retained
  <2>4. \A t \in TokenIds : tokens'[t] # None => tokens'[t].age < TokenBound'
    BY <1>0, <1>1, <2>1, <2>2, <2>3
  <2>5. \A c \in CodeIds : codes'[c] # None => codes'[c].age < CodeBound'
    <3>1. \A c \in CodeIds : codes[c] # None => codes[c].age < CODE_TTL
      BY <2>1 DEF AgesBounded
    <3> QED
      BY <1>0, <1>1, <2>1, <2>2, <3>1
  <2> QED
    BY <2>4, <2>5 DEF AgesBounded
<1>6. CASE Tick
  <2>1. /\ CodeBound \in Nat /\ TokenBound \in Nat
        /\ CodeBound' = CodeBound + 1 /\ TokenBound' = TokenBound + 1
    BY <1>0, <1>6 DEF Tick, CodeBound, TokenBound
  <2>2. ASSUME NEW c \in CodeIds, codes'[c] # None
        PROVE  codes'[c].age < CodeBound'
    <3>1. codes'[c] = codes[c] \/ codes'[c] = [codes[c] EXCEPT !.age = @ + 1]
      BY <1>0, <1>6 DEF Tick, Older
    <3>2. codes[c] # None
      BY <1>0, <1>6, <2>2 DEF Tick, Older
    <3>3. codes[c] \in AuthCode /\ codes[c].age \in Nat /\ codes[c].age < CodeBound
      BY <1>1, <3>2 DEF AgesBounded
    <3>4. codes'[c].age = codes[c].age \/ codes'[c].age = codes[c].age + 1
      BY <3>1, <3>3 DEF AuthCode
    <3> QED
      BY <2>1, <3>3, <3>4
  <2>3. ASSUME NEW t \in TokenIds, tokens'[t] # None
        PROVE  tokens'[t].age < TokenBound'
    <3>1. tokens'[t] = tokens[t] \/ tokens'[t] = [tokens[t] EXCEPT !.age = @ + 1]
      BY <1>0, <1>6 DEF Tick, Older
    <3>2. tokens[t] # None
      BY <1>0, <1>6, <2>3 DEF Tick, Older
    <3>3. tokens[t] \in TokenInfo /\ tokens[t].age \in Nat /\ tokens[t].age < TokenBound
      BY <1>1, <3>2 DEF AgesBounded
    <3>4. tokens'[t].age = tokens[t].age \/ tokens'[t].age = tokens[t].age + 1
      BY <3>1, <3>3 DEF TokenInfo
    <3> QED
      BY <2>1, <3>3, <3>4
  <2> QED
    BY <2>2, <2>3 DEF AgesBounded
<1>7. CASE Restart
  BY <1>7 DEF Restart, AgesBounded
<1> QED
  BY <1>2, <1>3, <1>4, <1>5, <1>6, <1>7, EntriesStep DEF Sweep

\* The eviction task, for every TTL and period: nothing gets as old as its TTL
\* plus one period.
THEOREM RetentionBounded == Spec => []BoundedRetention
<1>1. Init => AgesBounded
  BY DEF Init, AgesBounded
<1>2. TypeInv /\ AgesBounded => BoundedRetention
  <2> SUFFICES ASSUME TypeInv, AgesBounded
               PROVE  BoundedRetention
    OBVIOUS
  <2>0. /\ sinceSweep \in Nat /\ sinceSweep <= SWEEP_PERIOD
        /\ SWEEP_PERIOD \in Nat \ {0} /\ CODE_TTL \in Nat \ {0} /\ TOKEN_TTL \in Nat \ {0}
    BY OAuthAssumption DEF TypeInv, TypeOK
  <2>1. /\ CodeBound \in Nat /\ CodeBound <= CODE_TTL + SWEEP_PERIOD
        /\ TokenBound \in Nat /\ TokenBound <= TOKEN_TTL + SWEEP_PERIOD
    BY <2>0 DEF CodeBound, TokenBound
  <2>2. /\ \A c \in CodeIds : codes[c] # None => codes[c].age \in Nat
        /\ \A t \in TokenIds : tokens[t] # None => tokens[t].age \in Nat
    BY <2>0 DEF TypeInv, TypeOK, AuthCode, TokenInfo, CodeAges, TokenAges
  <2> QED
    BY <2>0, <2>1, <2>2 DEF AgesBounded, BoundedRetention
<1> QED
  BY <1>1, <1>2, AgesStep, TypeInductive, PTL DEF Spec

\* An entry that gets older is still there, for the same user and client.
LEMMA OlderKeeps ==
  ASSUME TypeInv, Tick
  PROVE  /\ \A c \in CodeIds : codes[c] # None =>
              /\ codes'[c] \in AuthCode
              /\ codes'[c].username = codes[c].username /\ codes'[c].client_id = codes[c].client_id
         /\ \A t \in TokenIds : tokens[t] # None => tokens'[t] \in TokenInfo
<1>0. /\ codes \in [CodeIds -> AuthCode \cup {None}]
      /\ tokens \in [TokenIds -> TokenInfo \cup {None}]
      /\ CODE_TTL + SWEEP_PERIOD \in Nat /\ TOKEN_TTL + SWEEP_PERIOD \in Nat
  BY OAuthAssumption DEF TypeInv, TypeOK
<1>1. /\ codes' = Older(codes, CODE_TTL + SWEEP_PERIOD)
      /\ tokens' = Older(tokens, TOKEN_TTL + SWEEP_PERIOD)
  BY DEF Tick
<1>2. ASSUME NEW c \in CodeIds, codes[c] # None
      PROVE  /\ codes'[c] \in AuthCode
             /\ codes'[c].username = codes[c].username /\ codes'[c].client_id = codes[c].client_id
  <2>1. codes[c] \in AuthCode
    BY <1>0, <1>2
  <2>2. CASE codes[c].age < CODE_TTL + SWEEP_PERIOD
    <3>1. codes'[c] = [codes[c] EXCEPT !.age = @ + 1]
      BY <1>0, <1>1, <1>2, <2>2 DEF Older
    <3>2. codes[c].age + 1 \in CodeAges
      BY <1>0, <2>1, <2>2 DEF AuthCode, CodeAges
    <3> QED
      BY <2>1, <3>1, <3>2 DEF AuthCode
  <2>3. CASE ~(codes[c].age < CODE_TTL + SWEEP_PERIOD)
    <3>1. codes'[c] = codes[c]
      BY <1>0, <1>1, <2>3 DEF Older
    <3> QED
      BY <2>1, <3>1
  <2> QED
    BY <2>2, <2>3
<1>3. ASSUME NEW t \in TokenIds, tokens[t] # None
      PROVE  tokens'[t] \in TokenInfo
  <2>1. tokens[t] \in TokenInfo
    BY <1>0, <1>3
  <2>2. CASE tokens[t].age < TOKEN_TTL + SWEEP_PERIOD
    <3>1. tokens'[t] = [tokens[t] EXCEPT !.age = @ + 1]
      BY <1>0, <1>1, <1>3, <2>2 DEF Older
    <3>2. tokens[t].age + 1 \in TokenAges
      BY <1>0, <2>1, <2>2 DEF TokenInfo, TokenAges
    <3> QED
      BY <2>1, <3>1, <3>2 DEF TokenInfo
  <2>3. CASE ~(tokens[t].age < TOKEN_TTL + SWEEP_PERIOD)
    <3>1. tokens'[t] = tokens[t]
      BY <1>0, <1>1, <2>3 DEF Older
    <3> QED
      BY <2>1, <3>1
  <2> QED
    BY <2>2, <2>3
<1> QED
  BY <1>2, <1>3

------------------------------------------------------------------------------
(***************************************************************************)
(* The OAuth server implements CodeLifecycle.  What a step does to a code  *)
(* is one of five things, stated here of the server's own state; the       *)
(* refinement mapping turns them into the actions of CodeLifecycle.  That  *)
(* a code is never with two exchanges makes its owner well-defined.        *)
(***************************************************************************)
Unheld(c) == \A r \in Reqs : ~Holds(r, c)

Kept(c) == /\ redeemed'[c] = redeemed[c]
           /\ codes[c] # None =>
                /\ codes'[c] # None
                /\ codes'[c].username = codes[c].username
                /\ codes'[c].client_id = codes[c].client_id
           /\ codes[c] = None => codes'[c] = None
           /\ \A r \in Reqs : /\ Holds(r, c)' <=> Holds(r, c)
                              /\ Holds(r, c) => /\ req'[r].user = req[r].user
                                                /\ req'[r].client = req[r].client

Issued(c) == codes[c] = None /\ Unheld(c) /\ codes'[c] \in AuthCode /\ redeemed'[c] = 0

Presented(c) == /\ codes[c] # None /\ codes'[c] = None /\ redeemed'[c] = redeemed[c]
                /\ \E r \in Reqs : /\ Holds(r, c)' /\ req'[r].user = codes[c].username
                                   /\ req'[r].client = codes[c].client_id

Dropped(c) == /\ codes[c] # None \/ ~Unheld(c)
              /\ codes'[c] = None /\ Unheld(c)' /\ redeemed'[c] = redeemed[c]

Paid(c) == /\ ~Unheld(c) /\ redeemed[c] = 0
           /\ codes'[c] = None /\ Unheld(c)' /\ redeemed'[c] = 1

Treated == \A c \in CodeIds : Kept(c) \/ Issued(c) \/ Presented(c) \/ Dropped(c) \/ Paid(c)

\* Only the code a request holds can be affected when that request moves.
LEMMA MoveTreats ==
  ASSUME TypeInv, CodeInv, NEW r \in Reqs, NEW q, Move(r, q), UNCHANGED <<codes, redeemed>>,
         \/ q.pc \notin {"client", "claims", "insert"}
         \/ /\ req[r].pc \in {"client", "claims", "insert"}
            /\ q.code = req[r].code /\ q.user = req[r].user /\ q.client = req[r].client
  PROVE  Treated
<1>1. /\ \A s \in Reqs \ {r}, c \in CodeIds : Holds(s, c)' <=> Holds(s, c)
      /\ \A c \in CodeIds : Holds(r, c)' <=> q.code = c /\ q.pc \in {"client", "claims", "insert"}
  BY MoveHolds
<1>2. req'[r] = q /\ \A s \in Reqs \ {r} : req'[s] = req[s]
  BY DEF Move, TypeInv, TypeOK
<1> SUFFICES ASSUME NEW c \in CodeIds
             PROVE  Kept(c) \/ Dropped(c)
  BY DEF Treated
<1>3. CASE Holds(r, c)' <=> Holds(r, c)
  <2>1. Holds(r, c) => q.user = req[r].user /\ q.client = req[r].client
    BY <1>1, <1>3
  <2> QED
    BY <1>1, <1>2, <1>3, <2>1 DEF Kept
<1>4. CASE ~(Holds(r, c)' <=> Holds(r, c))
  <2>1. Holds(r, c) /\ ~Holds(r, c)'
    BY <1>1, <1>4 DEF Holds
  <2>2. codes[c] = None /\ \A s \in Reqs \ {r} : ~Holds(s, c)
    BY <2>1 DEF CodeInv, CodeInOnePlace
  <2> QED
    BY <1>1, <2>1, <2>2 DEF Dropped, Unheld
<1> QED
  BY <1>3, <1>4

\* Answering a request drops the code it may hold.
LEMMA AnswerTreats ==
  ASSUME TypeInv, CodeInv, NEW r \in Reqs, Answer(r), UNCHANGED <<codes, redeemed>>
  PROVE  Treated
<1>1. Idle.pc = "idle"
  BY DEF Idle
<1> QED
  BY <1>1, MoveTreats DEF Answer

\* The steps that change no code and no request.
LEMMA NothingTreated ==
  ASSUME UNCHANGED <<codes, redeemed, req>>
  PROVE  Treated
  BY DEF Treated, Kept, Holds

\* handle_token presents a code for the user it was issued to and by the
\* client it was issued to, or uses it up; nothing happens to the others.
LEMMA TokenTreats ==
  ASSUME TypeInv, CodeInv, NEW r \in Reqs, NEW c \in CodeIds, NEW client_id \in Clients,
         NEW verifier \in Verifiers \cup {None}, handle_token(r, c, client_id, verifier)
  PROVE  Treated
<1> DEFINE holding == [Idle EXCEPT !.user = codes[c].username, !.client = client_id, !.code = c]
           q(pc) == [holding EXCEPT !.pc = pc]
<1>1. /\ codes[c] # None /\ redeemed' = redeemed /\ req[r] = Idle
      /\ codes'[c] = None /\ \A d \in CodeIds \ {c} : codes'[d] = codes[d]
  BY DEF handle_token, TypeInv, TypeOK
<1>2. \/ Answer(r)
      \/ codes[c].client_id = client_id /\ \E pc \in {"client", "claims", "insert"} : Move(r, q(pc))
  BY DEF handle_token, Minting
<1>3. \A s \in Reqs : ~Holds(s, c)
  BY <1>1 DEF CodeInv, CodeInOnePlace
<1>4. \A d \in CodeIds : ~Holds(r, d)
  BY <1>1 DEF Holds, Idle
<1>5. \A n : Move(r, n) => req'[r] = n /\ \A s \in Reqs \ {r} : req'[s] = req[s]
  BY DEF Move, TypeInv, TypeOK
<1>6. CASE Answer(r)
  <2>1. \A s \in Reqs, d \in CodeIds : Holds(s, d)' => Holds(s, d)
    BY <1>6, AnswerHolds
  <2>2. Dropped(c)
    BY <1>1, <1>3, <2>1 DEF Dropped, Unheld
  <2>3. \A s \in Reqs \ {r} : req'[s] = req[s]
    BY <1>5, <1>6 DEF Answer
  <2>4. \A s \in Reqs, d \in CodeIds : Holds(s, d)' <=> Holds(s, d)
    BY <1>4, <2>1, <2>3 DEF Holds
  <2>5. \A d \in CodeIds \ {c} : Kept(d)
    BY <1>1, <1>4, <2>3, <2>4 DEF Kept
  <2> QED
    BY <2>2, <2>5 DEF Treated
<1>7. ASSUME NEW pc \in {"client", "claims", "insert"}, Move(r, q(pc)), codes[c].client_id = client_id
      PROVE  Treated
  <2>1. /\ q(pc).pc = pc /\ q(pc).code = c /\ q(pc).user = codes[c].username
        /\ q(pc).client = client_id
    BY IdleFormed DEF Request
  <2> HIDE DEF q
  <2>2. req'[r] = q(pc) /\ \A s \in Reqs \ {r} : req'[s] = req[s]
    BY <1>5, <1>7
  <2>3. Presented(c)
    <3>1. Holds(r, c)'
      BY <2>1, <2>2 DEF Holds
    <3> QED
      BY <1>1, <1>7, <2>1, <2>2, <3>1 DEF Presented
  <2>4. \A s \in Reqs, d \in CodeIds \ {c} : Holds(s, d)' <=> Holds(s, d)
    BY <1>4, <2>1, <2>2 DEF Holds
  <2>5. \A d \in CodeIds \ {c} : Kept(d)
    BY <1>1, <1>4, <2>2, <2>4 DEF Kept
  <2> QED
    BY <2>3, <2>5 DEF Treated
<1> HIDE DEF q
<1> QED
  BY <1>2, <1>6, <1>7

\* Accepting a request.
LEMMA AcceptTreats ==
  ASSUME TypeInv, CodeInv, NEW r \in Reqs, Accept(r)
  PROVE  Treated
<1>0. Idle \in Request
  BY IdleFormed
<1>1. ASSUME NEW c \in Clients, NEW uri \in URIs, NEW challenge \in Challenges \cup {None},
             handle_authorize_get(r, c, uri, challenge)
      PROVE  Treated
  <2> DEFINE q == [Idle EXCEPT !.pc = "basic", !.client = c, !.challenge = challenge, !.basic = TRUE]
  <2>1. Move(r, q) /\ q.pc = "basic"
    BY <1>0, <1>1 DEF handle_authorize_get, Request
  <2> HIDE DEF q
  <2> QED
    BY <1>1, <2>1, MoveTreats DEF handle_authorize_get, allButReq
<1>2. CASE handle_authorize_post(r)
  <2>1. [Idle EXCEPT !.pc = "form"].pc = "form"
    BY <1>0 DEF Request
  <2> QED
    BY <1>2, <2>1, MoveTreats DEF handle_authorize_post, allButReq
<1>3. ASSUME NEW u, Move(r, [Idle EXCEPT !.pc = "profile", !.user = u]), UNCHANGED allButReq
      PROVE  Treated
  <2>1. [Idle EXCEPT !.pc = "profile", !.user = u].pc = "profile"
    BY <1>0 DEF Request
  <2> QED
    BY <1>3, <2>1, MoveTreats DEF allButReq
<1>4. ASSUME NEW c, Move(r, [Idle EXCEPT !.pc = "external", !.code = c]), UNCHANGED allButReq
      PROVE  Treated
  <2>1. [Idle EXCEPT !.pc = "external", !.code = c].pc = "external"
    BY <1>0 DEF Request
  <2> QED
    BY <1>4, <2>1, MoveTreats DEF allButReq
<1> QED
  BY <1>1, <1>2, <1>3, <1>4, TokenTreats
     DEF Accept, handle_userinfo, handle_userinfo_jwt, handle_byoidc_token

\* Serving a request.
LEMMA ServeTreats ==
  ASSUME TypeInv, CodeInv, NEW r \in Reqs, Serve(r)
  PROVE  Treated
<1>0. req[r] \in Request /\ Formed(req[r]) /\ Idle \in Request
  BY IdleFormed DEF TypeInv, TypeOK, WellFormed
<1>1. ASSUME NEW u \in Users, NEW p \in Passwords, handle_authorize_get_authenticate(r, u, p)
      PROVE  Treated
  <2>1. [req[r] EXCEPT !.pc = "user", !.user = u].pc = "user"
    BY <1>0 DEF Request
  <2> QED
    BY <1>1, <2>1, MoveTreats, AnswerTreats DEF handle_authorize_get_authenticate, allButReq
<1>2. ASSUME NEW u \in Users, NEW p \in Passwords, handle_authorize_post_authenticate(r, u, p)
      PROVE  Treated
  <2>1. [req[r] EXCEPT !.pc = "validate", !.user = u].pc = "validate"
    BY <1>0 DEF Request
  <2> QED
    BY <1>2, <2>1, MoveTreats, AnswerTreats DEF handle_authorize_post_authenticate, allButReq
<1>3. ASSUME NEW c \in Clients, NEW uri \in URIs, NEW challenge \in Challenges \cup {None},
             handle_authorize_post_validate(r, c, uri, challenge)
      PROVE  Treated
  <2> DEFINE q == [req[r] EXCEPT !.pc = "user", !.client = c, !.challenge = challenge]
  <2>1. q.pc = "user"
    BY <1>0 DEF Request
  <2>2. UNCHANGED allButReq /\ (Move(r, q) \/ Answer(r))
    BY <1>3 DEF handle_authorize_post_validate
  <2> HIDE DEF q
  <2> QED
    BY <2>1, <2>2, MoveTreats, AnswerTreats DEF allButReq
<1>4. ASSUME Move(r, AfterEnsure(r)), UNCHANGED <<codes, redeemed>>
      PROVE  Treated
  <2>1. AfterEnsure(r).pc \in {"idle", "issue"}
    BY <1>0 DEF AfterEnsure, Idle, Request
  <2> HIDE DEF AfterEnsure
  <2> QED
    BY <1>4, <2>1, MoveTreats
<1>5. CASE ensure_user(r)
  <2>1. PICK uid : Move(r, [req[r] EXCEPT !.pc = "identity", !.uid = uid]) \/ Move(r, AfterEnsure(r))
    BY <1>5 DEF ensure_user
  <2>2. [req[r] EXCEPT !.pc = "identity", !.uid = uid].pc = "identity"
    BY <1>0 DEF Request
  <2>3. UNCHANGED <<codes, redeemed>>
    BY <1>5 DEF ensure_user
  <2> QED
    BY <1>4, <2>1, <2>2, <2>3, MoveTreats
<1>6. CASE ensure_identity(r)
  BY <1>4, <1>6 DEF ensure_identity
<1>7. ASSUME NEW c \in CodeIds, issue_auth_code(r, c)
      PROVE  Treated
  <2> DEFINE code == [username |-> req[r].user, client_id |-> req[r].client,
                      challenge |-> req[r].challenge, age |-> 0]
  <2>1. /\ codes[c] = None /\ codes'[c] = code /\ redeemed'[c] = 0
        /\ \A d \in CodeIds \ {c} : codes'[d] = codes[d] /\ redeemed'[d] = redeemed[d]
    BY <1>7 DEF issue_auth_code, FreeCodes, TypeInv, TypeOK
  <2>2. code \in AuthCode
    <3>1. req[r].user \in Users /\ req[r].client \in Clients /\ 0 \in CodeAges
      BY <1>0, <1>7, OAuthAssumption DEF issue_auth_code, At, Formed, CodeAges
    <3> QED
      BY <1>0, <3>1 DEF Request, AuthCode
  <2> HIDE DEF code
  <2>3. Issued(c)
    <3>1. Unheld(c)
      BY <1>7 DEF issue_auth_code, FreeCodes, Holds, Unheld
    <3> QED
      BY <2>1, <2>2, <3>1 DEF Issued
  <2>4. \A s \in Reqs, d \in CodeIds : Holds(s, d)' => Holds(s, d)
    BY <1>7, AnswerHolds DEF issue_auth_code
  <2>5. \A d \in CodeIds : ~Holds(r, d)
    BY <1>7 DEF issue_auth_code, At, Holds
  <2>6. \A s \in Reqs \ {r} : req'[s] = req[s]
    BY <1>7 DEF issue_auth_code, Answer, Move, TypeInv, TypeOK
  <2>7. \A s \in Reqs, d \in CodeIds : Holds(s, d)' <=> Holds(s, d)
    BY <2>4, <2>5, <2>6 DEF Holds
  <2>8. \A d \in CodeIds \ {c} : Kept(d)
    BY <2>1, <2>5, <2>6, <2>7 DEF Kept
  <2> QED
    BY <2>3, <2>8 DEF Treated
<1>8. ASSUME NEW pc, Move(r, [req[r] EXCEPT !.pc = pc]), req[r].pc \in {"client", "claims"},
             UNCHANGED allButReq
      PROVE  Treated
  <2> DEFINE q == [req[r] EXCEPT !.pc = pc]
  <2>1. q.code = req[r].code /\ q.user = req[r].user /\ q.client = req[r].client
    BY <1>0 DEF Request
  <2> HIDE DEF q
  <2>2. Move(r, q) /\ UNCHANGED <<codes, redeemed>>
    BY <1>8 DEF q, allButReq
  <2> QED
    BY <1>8, <2>1, <2>2, MoveTreats
<1>9. ASSUME NEW secr \in Secrets, handle_token_client(r, secr)
      PROVE  Treated
  <2>1. /\ req[r].pc = "client" /\ UNCHANGED allButReq
        /\ Move(r, [req[r] EXCEPT !.pc = Minting]) \/ Answer(r)
    BY <1>9 DEF handle_token_client, At
  <2> QED
    BY <1>8, <2>1, AnswerTreats DEF allButReq
<1>10. CASE handle_token_claims(r)
  BY <1>8, <1>10, AnswerTreats DEF handle_token_claims, At, allButReq
<1>11. ASSUME NEW t \in TokenIds, handle_token_insert(r, t)
       PROVE  Treated
  <2>0. PICK c \in CodeIds : c = req[r].code
    BY <1>0, <1>11 DEF handle_token_insert, At, Formed
  <2>1. Holds(r, c)
    BY <1>11, <2>0 DEF handle_token_insert, At, Holds
  <2>2. codes[c] = None /\ redeemed[c] = 0 /\ \A s \in Reqs \ {r} : ~Holds(s, c)
    BY <2>1 DEF CodeInv, CodeInOnePlace
  <2>3. /\ codes' = codes /\ redeemed'[c] = 1
        /\ \A d \in CodeIds \ {c} : redeemed'[d] = redeemed[d]
    BY <1>11, <2>0, <2>2 DEF handle_token_insert, TypeInv, TypeOK
  <2>4. /\ \A s \in Reqs, d \in CodeIds : Holds(s, d)' => Holds(s, d)
        /\ ~Holds(r, c)'
    BY <1>11, AnswerHolds DEF handle_token_insert
  <2>5. Paid(c)
    BY <2>1, <2>2, <2>3, <2>4 DEF Paid, Unheld
  <2>6. \A s \in Reqs \ {r} : req'[s] = req[s]
    BY <1>11 DEF handle_token_insert, Answer, Move, TypeInv, TypeOK
  <2>7. \A d \in CodeIds \ {c} : ~Holds(r, d)
    BY <2>0 DEF Holds
  <2>8. \A s \in Reqs, d \in CodeIds \ {c} : Holds(s, d)' <=> Holds(s, d)
    BY <2>4, <2>6, <2>7 DEF Holds
  <2>9. \A d \in CodeIds \ {c} : Kept(d)
    BY <2>3, <2>6, <2>7, <2>8 DEF Kept
  <2> QED
    BY <2>5, <2>9 DEF Treated
<1>12. CASE handle_userinfo_profile(r)
  BY <1>12, AnswerTreats DEF handle_userinfo_profile, allButReq
<1>13. ASSUME NEW u \in Users, handle_byoidc_token_answer(r, u)
       PROVE  Treated
  <2>1. [Idle EXCEPT !.pc = "user", !.user = u].pc = "user"
    BY <1>0 DEF Request
  <2> QED
    BY <1>13, <2>1, MoveTreats, AnswerTreats DEF handle_byoidc_token_answer, allButReq
<1> QED
  BY <1>1, <1>2, <1>3, <1>5, <1>6, <1>7, <1>9, <1>10, <1>11, <1>12, <1>13 DEF Serve

\* The tasks, the environment and stuttering: the sweeper and a restart drop
\* codes, time changes nothing but their age.
LEMMA OtherTreats ==
  ASSUME TypeInv, CodeInv, Watch \/ ReloadStore \/ Sweep \/ Environment \/ UNCHANGED vars
  PROVE  Treated
<1>0. codes \in [CodeIds -> AuthCode \cup {None}]
  BY DEF TypeInv, TypeOK
<1>1. CASE Watch \/ ReloadStore \/ SweepTick \/ SweepTokens \/ UNCHANGED vars
  BY <1>1, NothingTreated DEF Watch, watch_htpasswd_secret, ReloadStore, SweepTick, SweepTokens,
                              vars, server
<1>2. CASE SweepCodes
  <2>1. /\ UNCHANGED <<req, redeemed>>
        /\ \A c \in CodeIds : codes'[c] = codes[c] \/ (codes'[c] = None /\ codes[c] # None)
    BY <1>0, <1>2 DEF SweepCodes, Retained
  <2>2. \A s \in Reqs, c \in CodeIds : Holds(s, c)' <=> Holds(s, c)
    BY <2>1 DEF Holds
  <2>3. \A c \in CodeIds : codes'[c] = codes[c] => Kept(c)
    BY <2>1, <2>2 DEF Kept
  <2>4. \A c \in CodeIds : codes'[c] = None /\ codes[c] # None => Dropped(c)
    BY <2>1, <2>2 DEF Dropped, Unheld, CodeInv, CodeInOnePlace
  <2> QED
    BY <2>1, <2>3, <2>4 DEF Treated
<1>3. CASE Tick
  <2>1. UNCHANGED <<req, redeemed>>
    BY <1>3 DEF Tick
  <2>2. \A c \in CodeIds : codes[c] = None => codes'[c] = None
    BY <1>0, <1>3 DEF Tick, Older
  <2>3. \A c \in CodeIds : codes[c] # None =>
          /\ codes'[c] # None /\ codes'[c].username = codes[c].username
          /\ codes'[c].client_id = codes[c].client_id
    BY <1>3, OlderKeeps, EntryAssumption
  <2>4. \A s \in Reqs, c \in CodeIds : Holds(s, c)' <=> Holds(s, c)
    BY <2>1 DEF Holds
  <2> QED
    BY <2>1, <2>2, <2>3, <2>4 DEF Treated, Kept
<1>4. ASSUME NEW r \in Reqs, Disconnect(r)
      PROVE  Treated
  BY <1>4, AnswerTreats DEF Disconnect, allButReq
<1>5. CASE \/ \E s \in SecretContents : WriteSecret(s)
           \/ \E c \in Clients, object \in ClientObjects \cup {None} : WriteClient(c, object)
           \/ \E u \in Users : DeleteUser(u) \/ DeleteIdentity(u)
           \/ WatchRestart
  BY <1>5, NothingTreated DEF WriteSecret, WriteClient, DeleteUser, DeleteIdentity, WatchRestart, server
<1>6. CASE Restart
  <2>1. \A c \in CodeIds : Unheld(c)'
    BY <1>6 DEF Restart, Unheld, Holds, Idle
  <2>2. redeemed' = redeemed /\ \A c \in CodeIds : codes'[c] = None
    BY <1>6 DEF Restart
  <2>3. \A c \in CodeIds : (codes[c] # None \/ ~Unheld(c)) => Dropped(c)
    BY <2>1, <2>2 DEF Dropped
  <2>4. \A c \in CodeIds : (codes[c] = None /\ Unheld(c)) => Kept(c)
    BY <2>1, <2>2 DEF Kept, Unheld
  <2> QED
    BY <2>3, <2>4 DEF Treated
<1> QED
  BY <1>1, <1>2, <1>3, <1>4, <1>5, <1>6 DEF Sweep, Environment

\* What the mapping makes of a code that is in the map, with an exchange, or
\* in neither place.
View(c) ==
  /\ codes[c] # None => /\ codePhase[c] = "issued"
                        /\ codeOwner[c] = <<codes[c].username, codes[c].client_id>>
                        /\ codeOwner[c] \in Users \X Clients
  /\ codes[c] = None =>
       /\ \A r \in Reqs : Holds(r, c) =>
            /\ codePhase[c] = "presented" /\ codeOwner[c] = <<req[r].user, req[r].client>>
            /\ codeOwner[c] \in Users \X Clients
       /\ Unheld(c) => codePhase[c] = "gone" /\ codeOwner[c] = None
  /\ redeemed[c] \in 0 .. 1

Views == /\ DOMAIN codePhase = CodeIds /\ codePhase = [c \in CodeIds |-> codePhase[c]]
         /\ DOMAIN codeOwner = CodeIds /\ codeOwner = [c \in CodeIds |-> codeOwner[c]]
         /\ redeemed = [c \in CodeIds |-> redeemed[c]]
         /\ \A c \in CodeIds : View(c)

\* The mapping is well-defined wherever the invariant about codes holds.
LEMMA MappingViews == TypeInv /\ CodeInv => Views
<1> SUFFICES ASSUME TypeInv, CodeInv
             PROVE  Views
  OBVIOUS
<1>1. ASSUME NEW c \in CodeIds
      PROVE  View(c)
  <2>1. CASE codes[c] # None
    <3>1. codes[c] \in AuthCode
      BY <2>1 DEF TypeInv, TypeOK
    <3>2. codePhase[c] = "issued" /\ codeOwner[c] = <<codes[c].username, codes[c].client_id>>
      BY <2>1 DEF codePhase, codeOwner
    <3>3. <<codes[c].username, codes[c].client_id>> \in Users \X Clients
      BY <3>1 DEF AuthCode
    <3>4. redeemed[c] \in 0 .. 1
      BY <2>1 DEF CodeInv, CodeInOnePlace
    <3> QED
      BY <2>1, <3>2, <3>3, <3>4 DEF View
  <2>2. CASE codes[c] = None
    <3>1. ASSUME NEW r \in Reqs, Holds(r, c)
          PROVE  /\ codePhase[c] = "presented" /\ codeOwner[c] = <<req[r].user, req[r].client>>
                 /\ codeOwner[c] \in Users \X Clients
      <4>1. \A s \in Reqs : Holds(s, c) => s = r
        BY <3>1 DEF CodeInv, CodeInOnePlace
      <4>2. Exchange(c) = r
        BY <3>1, <4>1 DEF Exchange
      <4>3. req[r].user \in Users /\ req[r].client \in Clients
        BY <3>1 DEF Holds, TypeInv, WellFormed, Formed
      <4>4. codePhase[c] = "presented"
        BY <2>2, <3>1 DEF codePhase
      <4>5. codeOwner[c] = <<req[Exchange(c)].user, req[Exchange(c)].client>>
        BY <2>2, <3>1 DEF codeOwner
      <4> QED
        BY <4>2, <4>3, <4>4, <4>5
    <3>2. ASSUME Unheld(c)
          PROVE  codePhase[c] = "gone" /\ codeOwner[c] = None
      BY <2>2, <3>2 DEF codePhase, codeOwner, Unheld
    <3>3. redeemed[c] \in 0 .. 1
      BY DEF CodeInv, SingleUse, TypeInv, TypeOK
    <3> QED
      BY <2>2, <3>1, <3>2, <3>3 DEF View
  <2> QED
    BY <2>1, <2>2
<1>2. redeemed = [c \in CodeIds |-> redeemed[c]]
  BY DEF TypeInv, TypeOK
<1>3. /\ DOMAIN codePhase = CodeIds /\ codePhase = [c \in CodeIds |-> codePhase[c]]
      /\ DOMAIN codeOwner = CodeIds /\ codeOwner = [c \in CodeIds |-> codeOwner[c]]
  BY DEF codePhase, codeOwner
<1> QED
  BY <1>1, <1>2, <1>3 DEF Views

\* issue_auth_code, handle_token, the sweeper and a restart implement the
\* life of an authorization code that CodeLifecycle specifies.
THEOREM LifecycleImplemented == Spec => ImplementsLifecycle
<1>1. ASSUME Init, Views
      PROVE  Lifecycle!Init
  <2>1. \A c \in CodeIds : codes[c] = None /\ Unheld(c) /\ redeemed[c] = 0
    BY <1>1 DEF Init, Unheld, Holds, Idle
  <2>2. \A c \in CodeIds : codePhase[c] = "gone" /\ codeOwner[c] = None
    BY <1>1, <2>1 DEF Views, View
  <2>3. /\ codePhase = [c \in CodeIds |-> "gone"] /\ codeOwner = [c \in CodeIds |-> None]
        /\ redeemed = [c \in CodeIds |-> 0]
    <3> HIDE DEF codePhase, codeOwner
    <3> QED
      BY <1>1, <2>1, <2>2 DEF Views
  <2> QED
    BY <2>3 DEF Lifecycle!Init
<1>2. ASSUME TypeInv, CodeInv, Views, Views', [Next]_vars
      PROVE  Lifecycle!Next
  <2>1. Treated
    BY <1>2, AcceptTreats, ServeTreats, OtherTreats DEF Next
  <2>2. ASSUME NEW c \in CodeIds
        PROVE  \/ Lifecycle!Stays(c) \/ Lifecycle!Issue(c) \/ Lifecycle!Present(c)
               \/ Lifecycle!Drop(c) \/ Lifecycle!Pay(c)
    <3>0. View(c) /\ View(c)'
      BY <1>2 DEF Views
    <3>1. CASE Kept(c)
      BY <3>0, <3>1 DEF Kept, View, Unheld, Lifecycle!Stays
    <3>2. CASE Issued(c)
      BY <3>0, <3>2, EntryAssumption DEF Issued, View, Lifecycle!Issue
    <3>3. CASE Presented(c)
      BY <3>0, <3>3 DEF Presented, View, Lifecycle!Present
    <3>4. CASE Dropped(c)
      BY <3>0, <3>4 DEF Dropped, View, Unheld, Lifecycle!Drop
    <3>5. CASE Paid(c)
      BY <1>2, <3>0, <3>5 DEF Paid, View, Unheld, CodeInv, CodeInOnePlace, Lifecycle!Pay
    <3> QED
      BY <2>1, <3>1, <3>2, <3>3, <3>4, <3>5 DEF Treated
  <2>3. \A c \in CodeIds : /\ codePhase'[c] \in {"gone", "issued", "presented"}
                           /\ codeOwner'[c] \in (Users \X Clients) \cup {None}
                           /\ redeemed'[c] \in 0 .. 1
    BY <1>2 DEF Views, View, Unheld
  <2>4. /\ codePhase' \in [CodeIds -> {"gone", "issued", "presented"}]
        /\ codeOwner' \in [CodeIds -> (Users \X Clients) \cup {None}]
        /\ redeemed' \in [CodeIds -> 0 .. 1]
    <3> HIDE DEF codePhase, codeOwner
    <3> QED
      BY <1>2, <2>3 DEF Views
  <2> QED
    BY <2>2, <2>4 DEF Lifecycle!Next
<1>3. TypeInv /\ CodeInv => Views
  BY MappingViews
<1> QED
  BY <1>1, <1>2, <1>3, CodeInductive, PTL DEF Spec, ImplementsLifecycle, Lifecycle!Spec
==============================================================================
