---------------------------- MODULE CodeLifecycle ----------------------------
(***************************************************************************)
(* What the OAuth server promises about an authorization code: it belongs  *)
(* to the user who logged in and the client that asked, it is presented at *)
(* most once, by that client, and a token is paid out for it at most once  *)
(* and only while it is being presented.                                   *)
(* Several codes may change in one step (an eviction, a restart).          *)
(***************************************************************************)
EXTENDS Naturals

CONSTANTS CodeIds, Owners, Nobody

VARIABLES
  phase,   \* "gone", "issued" or "presented"
  owner,   \* the user and the client it was issued to, Nobody when it is gone
  paid     \* tokens paid out for it since it was issued

vars == <<phase, owner, paid>>

Stays(c) == phase'[c] = phase[c] /\ owner'[c] = owner[c] /\ paid'[c] = paid[c]

Issue(c) == /\ phase[c] = "gone" /\ phase'[c] = "issued"
            /\ owner'[c] \in Owners /\ paid'[c] = 0

Present(c) == /\ phase[c] = "issued" /\ phase'[c] = "presented"
              /\ owner'[c] = owner[c] /\ paid'[c] = paid[c]

Drop(c) == /\ phase[c] # "gone" /\ phase'[c] = "gone"
           /\ owner'[c] = Nobody /\ paid'[c] = paid[c]

Pay(c) == /\ phase[c] = "presented" /\ phase'[c] = "gone"
          /\ paid[c] = 0 /\ paid'[c] = 1 /\ owner'[c] = Nobody

Init == /\ phase = [c \in CodeIds |-> "gone"]
        /\ owner = [c \in CodeIds |-> Nobody]
        /\ paid = [c \in CodeIds |-> 0]

Next == /\ phase' \in [CodeIds -> {"gone", "issued", "presented"}]
        /\ owner' \in [CodeIds -> Owners \cup {Nobody}]
        /\ paid' \in [CodeIds -> 0 .. 1]
        /\ \A c \in CodeIds : Stays(c) \/ Issue(c) \/ Present(c) \/ Drop(c) \/ Pay(c)

Spec == Init /\ [][Next]_vars
==============================================================================
