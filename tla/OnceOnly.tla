------------------------------ MODULE OnceOnly ------------------------------
(***************************************************************************)
(* What the mutation engine promises its callers, without records, caches, *)
(* documents or trackers.                                                  *)
(*                                                                         *)
(* The model is at a version: the revision it has reached in the present   *)
(* life of an identity.  It moves to higher revisions, and on to the next  *)
(* life, of any identity, at revision 0.  An operation names the version   *)
(* it was computed from; in a life it is done at most once under its id.   *)
(* One that writes the model is done only while the model is at the        *)
(* identity and revision it names, and moves it on.                        *)
(***************************************************************************)
EXTENDS Naturals

CONSTANTS
  Writes          \* the kinds of operations that write the model

VARIABLES
  version,        \* where the model is: life, guid and revision
  done            \* the operations that were done: id, op, guid, revision, life

abstractVars == <<version, done>>

Init ==
  /\ version.revision = 0
  /\ done = {}

Advanced ==
  /\ version'.life = version.life
  /\ version'.guid = version.guid
  /\ version'.revision > version.revision

NextLife == version'.life = version.life + 1 /\ version'.revision = 0

Move == (Advanced \/ NextLife) /\ done' = done

Do ==
  \E e \in done' :
    /\ done' = done \cup {e}
    /\ \A d \in done : ~(d.id = e.id /\ d.life = e.life)
    /\ IF e.op \in Writes
       THEN version = [life |-> e.life, guid |-> e.guid, revision |-> e.revision] /\ Advanced
       ELSE e.life <= version.life /\ version' = version

Next == Move \/ Do

Spec == Init /\ [][Next]_abstractVars
=============================================================================
