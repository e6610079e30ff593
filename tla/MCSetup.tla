------------------------------- MODULE MCSetup --------------------------------
(***************************************************************************)
(* Setup with two users and two passwords.  The part that a behaviour is   *)
(* not about rests in one initial state.                                   *)
(***************************************************************************)
EXTENDS Setup

CONSTANTS ip1, u1, u2, p1, p2

\* A user is made administrator, given another password and deleted; another one
\* is changed and deleted.
mcInputs ==
  { [op |-> "add", user |-> u1, password |-> p1, admin |-> TRUE],
    [op |-> "add", user |-> u1, password |-> p2, admin |-> FALSE],
    [op |-> "add", user |-> u2, password |-> p2, admin |-> FALSE],
    [op |-> "delete", user |-> u1, password |-> None, admin |-> FALSE],
    [op |-> "delete", user |-> u2, password |-> None, admin |-> FALSE] }

mcBootLines == {u1, u2} \X {p1}

mcInit ==
  /\ part \in {"setup", "users"}
  /\ bothInit
  /\ part = "users" => mode = "legacy" /\ nodeIp = ip1
  /\ part = "setup" => cliMode = "legacy"

mcSpec == mcInit /\ [][bothNext]_<<part, vars, userVars>>
==============================================================================
