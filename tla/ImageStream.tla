------------------------------ MODULE ImageStream -----------------------------
(***************************************************************************)
(* The ImageStream controller (simulator/src/imagestream.rs), which copies *)
(* the tags of the spec into the status.  ImageStreams are independent of  *)
(* each other, so there is one.  Every patch carries the time, so that it  *)
(* always changes the object and wakes the controller again.               *)
(***************************************************************************)
EXTENDS Sequences

CONSTANTS
  Specs,        \* the spec.tags an ImageStream can have
  ApiMayFail,   \* whether an API call may fail for no visible reason
  None

VARIABLES
  stream,   \* cluster: the ImageStream
  unseen,   \* whether it changed since the controller last looked
  cache,    \* what the controller knows
  pending,  \* whether a reconcile is queued
  job       \* the status.tags a reconcile is about to write, None when none runs

vars == <<stream, unseen, cache, pending, job>>

\* A tag of the spec has a name and an image, each of which may be missing.
WellFormed(tag) == tag.name # None /\ tag.image # None
Imported(spec) == SelectSeq(spec, WellFormed)

Absent == [live |-> FALSE, spec |-> << >>, status |-> None]

TypeOK ==
  /\ stream \in [live : BOOLEAN, spec : Specs \cup {<< >>}, status : {Imported(s) : s \in Specs} \cup {None}]
  /\ cache \in [live : BOOLEAN, spec : Specs \cup {<< >>}, status : {Imported(s) : s \in Specs} \cup {None}]
  /\ unseen \in BOOLEAN /\ pending \in BOOLEAN
  /\ job \in {Imported(s) : s \in Specs} \cup {None}

Init ==
  /\ stream = Absent /\ cache = Absent
  /\ unseen = FALSE /\ pending = FALSE /\ job = None

Observe ==
  /\ unseen /\ unseen' = FALSE
  /\ cache' = stream
  /\ pending' = (stream.live \/ pending)
  /\ UNCHANGED <<stream, job>>

\* A name or an image that is missing is compared as the empty string, which no
\* tag of the status has.
status_needs_update_Names(is) ==
  /\ is.spec # << >>
  /\ \/ is.status = None
     \/ Len(is.spec) # Len(is.status)
     \/ \E i \in DOMAIN is.spec : \A k \in DOMAIN is.status : is.status[k].name # is.spec[i].name

status_needs_update(is) ==
  /\ is.spec # << >>
  /\ \/ is.status = None
     \/ Len(is.spec) # Len(is.status)
     \/ \E i \in DOMAIN is.spec : \A k \in DOMAIN is.status : is.status[k] # is.spec[i]

reconcile_imagestream ==
  /\ pending /\ job = None
  /\ pending' = FALSE
  /\ job' = IF cache.live /\ status_needs_update(cache) THEN Imported(cache.spec) ELSE None
  /\ UNCHANGED <<stream, unseen, cache>>

PatchStatus ==
  /\ job # None /\ stream.live
  /\ stream' = [stream EXCEPT !.status = job]
  /\ unseen' = TRUE
  /\ job' = None
  /\ UNCHANGED <<cache, pending>>

\* Once more after 30 s.
error_policy ==
  /\ job' = None
  /\ pending' = TRUE
  /\ UNCHANGED <<stream, unseen, cache>>

\* 404: the ImageStream is gone by now.
Refused == job # None /\ ~stream.live /\ error_policy

ApiFails == ApiMayFail /\ job # None /\ error_policy

Write(spec) ==
  /\ spec # stream.spec \/ ~stream.live
  /\ stream' = [stream EXCEPT !.live = TRUE, !.spec = spec]
  /\ unseen' = TRUE
  /\ UNCHANGED <<cache, pending, job>>

Delete ==
  /\ stream.live
  /\ stream' = Absent
  /\ unseen' = TRUE
  /\ UNCHANGED <<cache, pending, job>>

Restart ==
  /\ unseen' = stream.live
  /\ cache' = Absent /\ pending' = FALSE /\ job' = None
  /\ UNCHANGED stream

Call == PatchStatus \/ Refused

\* The controller and the users of the cluster; then what disturbs them.
Undisturbed ==
  \/ Observe \/ reconcile_imagestream \/ Call
  \/ \E spec \in Specs : Write(spec)
  \/ Delete

Next == Undisturbed \/ ApiFails \/ Restart

\* Watches deliver, queued reconciles run, API calls return.
Fairness == WF_vars(Observe) /\ WF_vars(reconcile_imagestream) /\ WF_vars(Call)

Spec == Init /\ [][Next]_vars
FairSpec == Spec /\ Fairness

------------------------------------------------------------------------------
(***************************************************************************)
(* Properties.                                                             *)
(***************************************************************************)
\* From some time on the process stays up, and no call fails but those that the
\* API server must refuse.
Calm == <>[][Undisturbed]_vars

\* status_needs_update and reconcile_imagestream: for a spec whose tags all have
\* a name and an image and are not repeated, the status comes to list exactly
\* these and then is left alone, whatever it listed before, also when a patch
\* was prepared from an older spec or failed.
EventuallyImported ==
  Calm => \A spec \in Specs \ {<< >>} :
    /\ Imported(spec) = spec
    /\ \A i, k \in DOMAIN spec : spec[i] = spec[k] => i = k
    /\ <>[](stream.live /\ stream.spec = spec)
    => <>[](/\ ~unseen /\ job = None /\ stream.status # None
            /\ {stream.status[k] : k \in DOMAIN stream.status} = {spec[i] : i \in DOMAIN spec})
==============================================================================
