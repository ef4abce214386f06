------------------------------ MODULE LiveRun ------------------------------
(***************************************************************************)
(* The live acceptance client (cmd/live-layout-e2e) against a model that   *)
(* its user goes on editing.                                               *)
(*                                                                         *)
(* A run reads the model's identity and revision, brings the model's       *)
(* presentation state (section planes and scenes) to what a fixture asks   *)
(* for by listing what is there and creating only what is missing, does    *)
(* so again and expects to find everything, saves a copy of the model and  *)
(* draws from it.  It is stopped by the first call that fails or check     *)
(* that is not met, and may be started again on the model as it is.  Every *)
(* call is one step of the bridge; the user acts between any two.          *)
(*                                                                         *)
(* The model is an identity and what it holds of each item of the fixture: *)
(* nothing of its name, exactly it, or something else: another definition  *)
(* under its name, or more than one.  An edit, an undo or a redo of the    *)
(* user leaves anything.  Identities do not recur here: a document that is *)
(* left and comes back at the same revision looks to the run as it was.    *)
(* `touched' is a history variable: the user has acted since the run read  *)
(* the revision.                                                           *)
(***************************************************************************)
EXTENDS Naturals, FiniteSets

CONSTANTS
  Guids,          \* identities a document can have
  Sections,       \* section planes of the fixture
  Scenes,         \* scenes of the fixture, each cut by every section
  MaxStep,        \* the most commits SketchUp splits one API operation into
  MaxRevision,    \* bound: no transaction happens at this revision
  MaxDrawn        \* bound: the operations that draw from the copy

ASSUME RunAssumption ==
  /\ IsFiniteSet(Sections) /\ IsFiniteSet(Scenes)
  /\ Sections \cap Scenes = {} /\ Sections \cup Scenes # {}
  /\ MaxStep \in Nat \ {0}
  /\ MaxDrawn \in Nat \ {0}

VARIABLES
  doc,            \* external: the active document
  used,           \* external: the identities that have been active
  ms,             \* the tracker
  run,            \* the Runner
  copy,           \* external: what the saved copy holds
  touched         \* history

\* The tracker's operators; documents have no stamps here.
Model == INSTANCE ModelState WITH
  kept <- 0, clock <- 0, seen <- {}, life <- 0, MaxClock <- 0, MaxLives <- 0

vars == <<doc, used, ms, run, copy, touched>>

Items == Sections \cup Scenes

Holdings == {"nothing", "match", "other"}

\* A scene that matches refers to its sections.
Contents ==
  {f \in [Items -> Holdings] :
     (\E c \in Scenes : f[c] = "match") => \A i \in Sections : f[i] # "nothing"}

-----------------------------------------------------------------------------
Here == doc.holds

Over == run.at \in {"passed", "failed"}

\* Every call to the bridge takes a snapshot.
Call == ms' = Model!Capture /\ UNCHANGED <<doc, used>>

\* The model is where the run believes it to be.
Current == Model!Capture = [guid |-> run.guid, revision |-> run.revision]

Fresh ==
  [at       |-> "start",
   guid     |-> doc.guid,                  \* modelGuid
   revision |-> 0,
   pass     |-> 1,                         \* of the preparation, 1 or 2
   todo     |-> {},                        \* listed items not looked at yet
   item     |-> CHOOSE i \in Items : TRUE, \* the last one found missing
   refs     |-> 0,                         \* the revision of sectionRefs
   created  |-> 0,                         \* items created in this pass
   reused   |-> 0,
   drawn    |-> 0]

\* The process has ended.
Failed == [Fresh EXCEPT !.at = "failed"]

Init ==
  /\ doc \in [guid : Guids, holds : Contents]
  /\ used = {doc.guid}
  /\ ms = Model!Track(doc.guid)
  /\ run = Fresh
  /\ copy = [i \in Items |-> "nothing"]
  /\ touched = FALSE

MayChange == ms.revision + MaxStep <= MaxRevision

\* A commit, an undo or a redo; a save, which rotates the identity unheard;
\* opening another document.
User ==
  /\ \E f \in Contents :
       \/ /\ MayChange
          /\ doc' = [doc EXCEPT !.holds = f]
          /\ ms' = Model!TransactionChanged(ms, doc.guid)
          /\ used' = used
       \/ \E g \in Guids \ used :
            /\ used' = used \cup {g}
            /\ \/ doc' = [doc EXCEPT !.guid = g] /\ ms' = ms
               \/ doc' = [guid |-> g, holds |-> f] /\ ms' = Model!Track(g)
  /\ touched' = (touched \/ ~Over)
  /\ UNCHANGED <<run, copy>>

-----------------------------------------------------------------------------
\* discoverTarget, readSummary.
Discover ==
  /\ run.at = "start"
  /\ Call
  /\ run' = [run EXCEPT !.at = "bounds", !.guid = Model!Capture.guid,
                        !.revision = Model!Capture.revision]
  /\ touched' = FALSE
  /\ UNCHANGED copy

\* A call that reads, and must find the model current.
Read(at, next) ==
  /\ run.at = at
  /\ Call
  /\ Current
  /\ run' = next
  /\ UNCHANGED <<copy, touched>>

ReadBounds == Read("bounds", [run EXCEPT !.at = "list_sections"])

List(items) == {<<i, Here[i]>> : i \in items}

ListSections ==
  Read("list_sections", [run EXCEPT !.at = "sections", !.todo = List(Sections)])

ListScenes ==
  Read("list_scenes", [run EXCEPT !.at = "scenes", !.todo = List(Scenes)])

\* refreshSectionRefs: after the sections, and before a scene is created
\* with references of another revision.
RefreshSectionRefs ==
  /\ \A s \in Sections : Here[s] = "match"
  /\ \/ /\ run.todo = {}
        /\ Read("sections", [run EXCEPT !.at = "list_scenes", !.refs = run.revision])
     \/ /\ run.item \in Scenes
        /\ run.refs # run.revision
        /\ Read("create", [run EXCEPT !.refs = run.revision])

\* The body of the loops over sections and scenes.
Reuse ==
  /\ run.at \in {"sections", "scenes"}
  /\ \E i \in Items :
       /\ <<i, "match">> \in run.todo
       /\ run' = [run EXCEPT !.todo = @ \ {<<i, "match">>}, !.reused = @ + 1]
  /\ UNCHANGED <<doc, used, ms, copy, touched>>

Miss ==
  /\ run.at \in {"sections", "scenes"}
  /\ \E i \in Items :
       /\ <<i, "nothing">> \in run.todo
       /\ run' = [run EXCEPT !.todo = @ \ {<<i, "nothing">>}, !.item = i, !.at = "create"]
  /\ UNCHANGED <<doc, used, ms, copy, touched>>

\* What may be there once item i has been created.  SketchUp keeps the name
\* it is given; whether the rest is as asked for only a later list shows.
Created(i) ==
  {[Here EXCEPT ![i] = h] :
     h \in IF Here[i] = "nothing" THEN {"match", "other"} ELSE {"other"}}

\* Mutant: the call is admitted whatever has been committed meanwhile.
CreateAnyRevision ==
  /\ run.at = "create"
  /\ run.item \in Scenes => run.refs = run.revision
  /\ MayChange
  /\ Model!Capture.guid = run.guid
  /\ \E f \in Created(run.item) : doc' = [doc EXCEPT !.holds = f]
  /\ \E k \in 1..MaxStep :
       /\ ms' = [Model!Capture EXCEPT !.revision = @ + k]
       /\ run' = IF k = 1 THEN [run EXCEPT !.at = "confirm"] ELSE Failed
  /\ UNCHANGED <<used, copy, touched>>

\* callMutation with section_plane.create or scene.create: it is admitted if
\* the model is current, and its answer must be the next revision.
Create ==
  /\ run.at = "create"
  /\ run.item \in Scenes => run.refs = run.revision
  /\ MayChange
  /\ Current
  /\ \E f \in Created(run.item) : doc' = [doc EXCEPT !.holds = f]
  /\ \E k \in 1..MaxStep :
       /\ ms' = [Model!Capture EXCEPT !.revision = @ + k]
       /\ run' = IF k = 1 THEN [run EXCEPT !.at = "confirm"] ELSE Failed
  /\ UNCHANGED <<used, copy, touched>>

Loop == IF run.item \in Sections THEN "sections" ELSE "scenes"

\* Mutant: whatever revision the summary has is taken over.
ConfirmAny ==
  /\ run.at = "confirm"
  /\ Call
  /\ Model!Capture.guid = run.guid
  /\ run' = [run EXCEPT !.at = Loop, !.revision = Model!Capture.revision,
                        !.created = @ + 1]
  /\ UNCHANGED <<copy, touched>>

\* The model.summary after a mutation must show the answered revision.
Confirm ==
  /\ run.at = "confirm"
  /\ Call
  /\ Model!Capture = [guid |-> run.guid, revision |-> run.revision + 1]
  /\ run' = [run EXCEPT !.at = Loop, !.revision = @ + 1, !.created = @ + 1]
  /\ UNCHANGED <<copy, touched>>

\* Mutant: the first pass is not repeated.
EndPassOnce ==
  /\ run.at = "scenes"
  /\ run.todo = {}
  /\ run' = [run EXCEPT !.at = "verify_sections"]
  /\ UNCHANGED <<doc, used, ms, copy, touched>>

\* The first pass is repeated; the second must have reused everything.
EndPass ==
  /\ run.at = "scenes"
  /\ run.todo = {}
  /\ \/ /\ run.pass = 1
        /\ run' = [run EXCEPT !.at = "list_sections", !.pass = 2,
                              !.created = 0, !.reused = 0]
     \/ /\ run.pass = 2
        /\ run.created = 0
        /\ run.reused = Cardinality(Items)
        /\ run' = [run EXCEPT !.at = "verify_sections"]
  /\ UNCHANGED <<doc, used, ms, copy, touched>>

\* verifyPresentationUnique.
VerifySections ==
  /\ \A s \in Sections : Here[s] # "nothing"
  /\ Read("verify_sections", [run EXCEPT !.at = "verify_scenes"])

VerifyScenes ==
  /\ \A c \in Scenes : Here[c] # "nothing"
  /\ Read("verify_scenes", [run EXCEPT !.at = "copy"])

\* saveModelCopy.
Copy ==
  /\ run.at = "copy"
  /\ Call
  /\ Current
  /\ copy' = Here
  /\ run' = [run EXCEPT !.at = "draw"]
  /\ UNCHANGED touched

\* createLayout, addViewports, addDimensions, addAnnotations, exportOutputs:
\* mutations that must leave the model current.
Draw ==
  /\ run.at = "draw"
  /\ Call
  /\ Current
  /\ run' = [run EXCEPT !.drawn = @ + 1,
                        !.at = IF run.drawn + 1 = MaxDrawn THEN "passed" ELSE @]
  /\ UNCHANGED <<copy, touched>>

\* A call fails, times out or is not answered, or a check is not met.
Fail ==
  /\ ~Over
  /\ Call \/ UNCHANGED <<doc, used, ms>>
  /\ run' = Failed
  /\ UNCHANGED <<copy, touched>>

\* The harness is run again.
Restart ==
  /\ Over
  /\ run' = Fresh
  /\ UNCHANGED <<doc, used, ms, copy, touched>>

Runner ==
  \/ Discover \/ ReadBounds
  \/ ListSections \/ ListScenes \/ RefreshSectionRefs
  \/ Reuse \/ Miss \/ Create \/ Confirm \/ EndPass
  \/ VerifySections \/ VerifyScenes
  \/ Copy \/ Draw \/ Fail \/ Restart

Next == User \/ Runner

Spec == Init /\ [][Next]_vars

-----------------------------------------------------------------------------
(* The client creates an item only where there is nothing of its name: the *)
(* list it goes by was made before its own earlier creations, and the user *)
(* edits between the list and the call.                                    *)
CreatesOnlyWhatIsMissing ==
  [][run.at = "create" /\ run'.at = "confirm" =>
       Here[run.item] = "nothing"]_vars

(* The repeated pass finds every item the first one left, whatever the     *)
(* user does meanwhile: it never starts to create one.                     *)
RepeatCreatesNothing == run.pass = 2 => run.at # "create"

(* A run passes only if nobody else touched the model from the first       *)
(* reading of the revision to the last drawing, so that everything it      *)
(* reports is of one model.                                                *)
PassedUndisturbed == run.at = "passed" => ~touched

(* The copy that everything is drawn from holds each item of the fixture   *)
(* exactly once and as the fixture defines it, although no creation is     *)
(* known to have made what it was asked for.                               *)
CopyIsPrepared ==
  run.at \in {"draw", "passed"} => \A i \in Items : copy[i] = "match"
=============================================================================
