-------------------------------- MODULE UserCli -------------------------------
(***************************************************************************)
(* picoshift user add and picoshift user delete (cli/cmd/user.go), each of *)
(* them a process that runs one kubectl after the other, together with the *)
(* server whose user store follows the htpasswd Secret                     *)
(* (simulator/src/oauth/watcher.rs, types.rs).                             *)
(*                                                                         *)
(* The Secret is read, changed and written back as a whole, without regard *)
(* to what others wrote in between.  Its content is a set of lines, a line *)
(* a user with a password.  In byoidc mode the users are kept by the       *)
(* provider instead, each under an id.  A kubectl may fail, and a command  *)
(* may be interrupted, at any point.  The User and Identity objects that a *)
(* delete also removes are those of OAuthServer.  Names and passwords are  *)
(* such as a line can carry: no colon in the name, no # before it, no      *)
(* blanks around either, which from_htpasswd would take off.               *)
(***************************************************************************)
EXTENDS Naturals

CONSTANTS
  Cmds,         \* commands that can run at once
  Users,
  Passwords,
  Inputs,       \* what the commands can be asked to do
  Modes,        \* the authentication modes a cluster can have
  BootLines,    \* the users that a cluster is created with: in the file that the server
                \* loads at its start and in the Secret, or at the provider in byoidc mode
  SeedAdmins,   \* the users that scripts/setup-admin-rbac.py makes cluster-admin
  MaxCommands,  \* bound: commands started
  None

VARIABLES
  mode,      \* the authentication mode of this cluster
  secret,    \* cluster: the lines of the htpasswd Secret, None when absent
  store,     \* the user store of the server
  unseen,    \* whether the watcher has an event of the Secret to take
  bindings,  \* cluster: ClusterRoleBindings to cluster-admin
  provider,  \* external: the id of each user at the provider, 0 when absent
  cmd,       \* the commands under way
  started,   \* how many there were
  wanted,    \* history: the password the last command that wrote a user's line
             \* gave him, "deleted" or None when there was no such command
  lost,      \* history: users whose line was since written back by a command
             \* that had not read the current Secret
  removed    \* history: users deleted without a hitch and not added since

cluster == <<mode, secret, store, unseen, bindings, provider>>
history == <<wanted, lost, removed>>
vars == <<cluster, cmd, started, history>>

Lines == Users \X Passwords
Of(lines, u) == {l \in lines : l[1] = u}

\* A ClusterRoleBinding is the kind of its name and the user it binds.
Bindings == {"ocp-sim-admin", "picoshift-admin"} \X Users
Own(u) == <<"picoshift-admin", u>>

Command == [pc : {"idle", "mode", "read", "apply", "post", "list", "remove", "unbind", "bind"},
            op : {"add", "delete"}, user : Users \cup {None}, password : Passwords \cup {None},
            admin : BOOLEAN, lines : SUBSET Lines, seq : 0..MaxCommands, id : 0..MaxCommands + 1,
            clean : BOOLEAN]
Idle == [pc |-> "idle", op |-> "add", user |-> None, password |-> None, admin |-> FALSE,
         lines |-> {}, seq |-> 0, id |-> 0, clean |-> TRUE]

TypeOK ==
  /\ mode \in Modes /\ secret \in {None} \cup SUBSET Lines /\ store \subseteq Lines
  /\ unseen \in BOOLEAN /\ bindings \subseteq Bindings
  /\ provider \in [Users -> 0..MaxCommands + 1]
  /\ cmd \in [Cmds -> Command] /\ started \in 0..MaxCommands
  /\ wanted \in [Users -> Passwords \cup {"deleted", None}]
  /\ lost \subseteq Users /\ removed \subseteq Users

Init ==
  /\ mode \in Modes /\ store = BootLines
  /\ secret = IF mode = "byoidc" THEN None ELSE BootLines
  /\ unseen = (secret # None)
  /\ bindings = {"ocp-sim-admin"} \X SeedAdmins
  /\ provider = [u \in Users |-> IF mode = "byoidc" /\ Of(BootLines, u) # {} THEN MaxCommands + 1 ELSE 0]
  /\ cmd = [c \in Cmds |-> Idle] /\ started = 0
  /\ wanted = [u \in Users |-> None] /\ lost = {} /\ removed = {}

At(c, pc) == cmd[c].pc = pc
Move(c, next) == cmd' = [cmd EXCEPT ![c] = next]
To(c, pc) == Move(c, [cmd[c] EXCEPT !.pc = pc])
End(c) == Move(c, Idle)

------------------------------------------------------------------------------
(***************************************************************************)
(* Both commands find out the mode first.  If that fails, the answer is    *)
(* "unknown", which goes the way of htpasswd.                              *)
(***************************************************************************)
Begin(c, in) ==
  /\ cmd[c] = Idle /\ started < MaxCommands /\ started' = started + 1
  /\ LET others == {d \in Cmds : cmd[d].user = in.user}
         new == [Idle EXCEPT !.pc = "mode", !.op = in.op, !.user = in.user, !.password = in.password,
                             !.admin = in.admin, !.seq = started + 1, !.clean = (others = {})]
     IN cmd' = [d \in Cmds |-> IF d = c THEN new
                               ELSE [cmd[d] EXCEPT !.clean = @ /\ d \notin others]]
  /\ removed' = IF in.op = "add" THEN removed \ {in.user} ELSE removed
  /\ UNCHANGED <<cluster, wanted, lost>>

GetAuthMode(c) ==
  /\ At(c, "mode")
  /\ \/ To(c, IF mode # "byoidc" THEN "read" ELSE IF cmd[c].op = "add" THEN "post" ELSE "list")
     \/ Move(c, [cmd[c] EXCEPT !.pc = "read", !.clean = FALSE])
  /\ UNCHANGED <<cluster, started, history>>

\* Any failure of kubectl counts as a Secret that is not there.
readHtpasswd(c) ==
  /\ At(c, "read")
  /\ \E lines \in {IF secret = None THEN {} ELSE secret, {}} :
       IF cmd[c].op = "delete" /\ Of(lines, cmd[c].user) = {} THEN End(c)
       ELSE Move(c, [cmd[c] EXCEPT !.pc = "apply", !.lines = lines])
  /\ UNCHANGED <<cluster, started, history>>

\* The lines of the others as they were read, with the user's own replaced,
\* added or left out.
Updated_Appends(k) ==
  IF k.op = "add" THEN k.lines \cup {<<k.user, k.password>>} ELSE k.lines \ Of(k.lines, k.user)

Updated(k) ==
  (k.lines \ Of(k.lines, k.user)) \cup (IF k.op = "add" THEN {<<k.user, k.password>>} ELSE {})

AfterUser(k) == IF k.op = "delete" \/ k.admin THEN [k EXCEPT !.pc = "unbind"] ELSE Idle

applyHtpasswdSecret(c) ==
  LET k == cmd[c]
  IN /\ At(c, "apply")
     /\ secret' = Updated(k)
     /\ unseen' = TRUE
     /\ wanted' = [wanted EXCEPT ![k.user] = IF k.op = "add" THEN k.password ELSE "deleted"]
     /\ lost' = (IF k.lines = IF secret = None THEN {} ELSE secret THEN lost ELSE Users) \ {k.user}
     /\ Move(c, AfterUser(k))
     /\ UNCHANGED <<mode, store, bindings, provider, started, removed>>

------------------------------------------------------------------------------
(***************************************************************************)
(* The provider's users.  It refuses to add one that it has.               *)
(***************************************************************************)
entraMockAddUser(c) ==
  LET k == cmd[c]
  IN /\ At(c, "post")
     /\ IF provider[k.user] = 0
          THEN provider' = [provider EXCEPT ![k.user] = k.seq] /\ Move(c, AfterUser(k))
          ELSE UNCHANGED provider /\ End(c)
     /\ UNCHANGED <<mode, secret, store, unseen, bindings, started, history>>

entraMockDeleteUser_list(c) ==
  LET k == cmd[c]
  IN /\ At(c, "list")
     /\ IF provider[k.user] = 0 THEN End(c)
        ELSE Move(c, [k EXCEPT !.pc = "remove", !.id = provider[k.user]])
     /\ UNCHANGED <<cluster, started, history>>

\* curl -s does not tell that the id is gone by now.
entraMockDeleteUser(c) ==
  LET k == cmd[c]
  IN /\ At(c, "remove")
     /\ provider' = [provider EXCEPT ![k.user] = IF @ = k.id THEN 0 ELSE @]
     /\ Move(c, AfterUser(k))
     /\ UNCHANGED <<mode, secret, store, unseen, bindings, started, history>>

------------------------------------------------------------------------------
(***************************************************************************)
(* The user's own ClusterRoleBinding: deleted by a delete, deleted and     *)
(* created by an add with --cluster-admin.  A deletion that fails is       *)
(* passed over.  No command touches ocp-sim-admin.                         *)
(***************************************************************************)
Unbind_AddsOnly(c) ==
  LET k == cmd[c]
  IN /\ At(c, "unbind")
     /\ bindings' = IF k.op = "add" THEN bindings \ {Own(k.user)} ELSE bindings
     /\ removed' = IF k.op = "delete" /\ k.clean THEN removed \cup {k.user} ELSE removed
     /\ IF k.op = "delete" THEN End(c) ELSE To(c, "bind")
     /\ UNCHANGED <<mode, secret, store, unseen, provider, started, wanted, lost>>

Unbind(c) ==
  LET k == cmd[c]
  IN /\ At(c, "unbind")
     /\ \/ /\ bindings' = bindings \ {Own(k.user)}
           /\ removed' = IF k.op = "delete" /\ k.clean THEN removed \cup {k.user} ELSE removed
        \/ UNCHANGED <<bindings, removed>>
     /\ IF k.op = "delete" THEN End(c) ELSE To(c, "bind")
     /\ UNCHANGED <<mode, secret, store, unseen, provider, started, wanted, lost>>

\* 409 when there is one makes the command fail, after the user was added.
Bind(c) ==
  /\ At(c, "bind")
  /\ bindings' = bindings \cup {Own(cmd[c].user)}
  /\ End(c)
  /\ UNCHANGED <<mode, secret, store, unseen, provider, started, history>>

\* kubectl fails where that ends the command, or the command is interrupted.
Abort(c) ==
  /\ cmd[c] # Idle
  /\ End(c)
  /\ UNCHANGED <<cluster, started, history>>

------------------------------------------------------------------------------
(***************************************************************************)
(* The server.                                                             *)
(***************************************************************************)
watch_htpasswd_secret ==
  /\ unseen /\ unseen' = FALSE
  /\ store' = secret
  /\ UNCHANGED <<mode, secret, bindings, provider, cmd, started, history>>

\* UserStore::load; then the watcher lists the Secret.
Restart ==
  /\ store' = BootLines
  /\ unseen' = (secret # None)
  /\ UNCHANGED <<mode, secret, bindings, provider, cmd, started, history>>

Next ==
  \/ \E c \in Cmds :
       \/ \E in \in Inputs : Begin(c, in)
       \/ GetAuthMode(c) \/ readHtpasswd(c) \/ applyHtpasswdSecret(c)
       \/ entraMockAddUser(c) \/ entraMockDeleteUser_list(c) \/ entraMockDeleteUser(c)
       \/ Unbind(c) \/ Bind(c) \/ Abort(c)
  \/ watch_htpasswd_secret
  \/ Restart

Spec == Init /\ [][Next]_vars

------------------------------------------------------------------------------
(***************************************************************************)
(* Properties.                                                             *)
(***************************************************************************)

\* htpasswdAddUser and htpasswdDeleteUser, the watcher and authenticate: once
\* the server has taken the last event, a user that some command wrote can log
\* in with the password the latest of them gave him and no other, or not at all
\* if it was a delete, whatever other commands ran, failed or were interrupted
\* meanwhile; unless one of those had not read the Secret it wrote back.
LatestPasswordOnly ==
  \A u \in Users :
    ~unseen /\ wanted[u] # None /\ u \notin lost
      => Of(store, u) = IF wanted[u] = "deleted" THEN {} ELSE {<<u, wanted[u]>>}

\* newUserDeleteCmd: of a user who was deleted by a command that met no failure,
\* and whom no other command was handling at the same time or is adding since,
\* nothing comes back that the command took away, whatever others do: his own
\* ClusterRoleBinding, so that he is cluster-admin at most through ocp-sim-admin,
\* and his login, at the provider in byoidc mode and at the server otherwise.  (In
\* byoidc mode the command leaves the server's own store alone, in which a user
\* of the file the server started with goes on to log in from the command line.)
DeleteLasts ==
  \A u \in removed :
    /\ Own(u) \notin bindings
    /\ mode = "byoidc" => provider[u] = 0
    /\ mode # "byoidc" /\ u \notin lost /\ ~unseen => Of(store, u) = {}
==============================================================================
