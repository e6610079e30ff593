----------------------------- MODULE MCControllers ----------------------------
(***************************************************************************)
(* Two parts that share no state: the Project controller and the           *)
(* ImageStream controller.  A behaviour is one of one of them.             *)
(***************************************************************************)
EXTENDS Project, Sequences

CONSTANTS t1, t2, i1, i2

VARIABLES part, stream, isUnseen, isCache, isPending, isJob

\* No tag, one, two in either order, one twice, and one without an image.
Tag(t, i) == [name |-> t, image |-> i]
mcSpecs == {
  << >>, <<Tag(t1, i1)>>, <<Tag(t1, i2)>>, <<Tag(t1, i1), Tag(t2, i2)>>, <<Tag(t2, i1), Tag(t1, i1)>>,
  <<Tag(t1, i1), Tag(t1, i1)>>, <<Tag(t1, i1), Tag(t2, None)>> }

Streams == INSTANCE ImageStream WITH
  Specs <- mcSpecs,
  unseen <- isUnseen, cache <- isCache, pending <- isPending, job <- isJob

streamVars == <<stream, isUnseen, isCache, isPending, isJob>>
allVars == <<part, vars, streamVars>>

mcInit ==
  /\ part \in {"projects", "streams"}
  /\ Init /\ Streams!Init

mcNext ==
  \/ part = "projects" /\ Next /\ UNCHANGED <<part, streamVars>>
  \/ part = "streams" /\ Streams!Next /\ UNCHANGED <<part, vars>>

\* The fairness of each part.
mcSpec == mcInit /\ [][mcNext]_allVars /\ Fairness /\ Streams!Fairness

\* The status of an ImageStream comes to list the tags of its spec (ImageStream).
EventuallyImported == Streams!EventuallyImported
==============================================================================
