-------------------------------- MODULE Setup ---------------------------------
(***************************************************************************)
(* Two parts that share no state: what the server sets up in the cluster   *)
(* when it starts (OAuthInfra), and the commands that change users         *)
(* (UserCli).  A behaviour is one of one of them.                          *)
(***************************************************************************)
EXTENDS OAuthInfra

CONSTANTS Cmds, Users, Passwords, Inputs, BootLines, SeedAdmins, MaxCommands

VARIABLES
  part,
  cliMode, secret, store, unseen, bindings, provider, cmd, started, wanted, lost, removed

Cli == INSTANCE UserCli WITH mode <- cliMode

\* A password is given to add a user; what stands for no line and for no Secret
\* is neither a password nor a user nor a set of lines.
ASSUME UserCliAssumption ==
  /\ None \notin Users \cup Passwords \cup {"deleted"} /\ "deleted" \notin Passwords
  /\ BootLines \subseteq Users \X Passwords /\ SeedAdmins \subseteq Users
  /\ \A lines \in SUBSET (Users \X Passwords) : lines # None
  /\ Inputs \subseteq [op : {"add", "delete"}, user : Users, password : Passwords \cup {None},
                       admin : BOOLEAN]
  /\ \A in \in Inputs : in.op = "add" => in.password \in Passwords
  /\ MaxCommands \in Nat

userVars == <<cliMode, secret, store, unseen, bindings, provider, cmd, started, wanted, lost, removed>>

bothInit == Init /\ Cli!Init

bothNext ==
  \/ part = "setup" /\ Next /\ UNCHANGED <<part, userVars>>
  \/ part = "users" /\ Cli!Next /\ UNCHANGED <<part, vars>>

\* A user logs in with the password he was given last, and no other (UserCli).
LatestPasswordOnly == Cli!LatestPasswordOnly

\* What an undisturbed delete took away does not come back (UserCli).
DeleteLasts == Cli!DeleteLasts
==============================================================================
