----------------------------- MODULE ModelState -----------------------------
(***************************************************************************)
(* The revision tracker of the SketchUp extension (model_state.rb) beside  *)
(* the application it watches.                                             *)
(*                                                                         *)
(* The application is external: one active document, with an identity      *)
(* (Model#guid), a content and undo and redo stacks.  A content is a stamp *)
(* taken from a clock, so two contents are equal only if one was restored  *)
(* from the other.  The user commits, undoes, redoes, saves (which rotates *)
(* the identity of a modified document) and switches documents.  The       *)
(* tracker hears of commits, undos, redos and switches; it learns of a     *)
(* rotated identity only at the next transaction or snapshot.              *)
(*                                                                         *)
(* Identities come back: a document that was left, or is opened a second   *)
(* time, has the one it had.  Each time a document becomes the active one, *)
(* or rotates its identity, a life begins.  `life' counts them; it is a    *)
(* history variable, since nothing in the code tells one life of an        *)
(* identity from the next.  So is `seen': every snapshot handed out, with  *)
(* its life and the content it stood for.  Callers name that content by    *)
(* guid and revision alone, so within a life everything rests on the       *)
(* revision naming one content.                                            *)
(***************************************************************************)
EXTENDS Naturals, Sequences, SequencesExt

CONSTANTS
  Guids,          \* identities a document can have
  MaxStep,        \* the most commits SketchUp splits one API operation into
  MaxRevision,    \* bound: no transaction happens at this revision
  MaxClock,       \* bound: the most stamps taken
  MaxLives        \* bound: the most lives

ASSUME ModelAssumption ==
  /\ MaxStep \in Nat \ {0}
  /\ MaxRevision \in Nat
  /\ MaxClock \in Nat
  /\ MaxLives \in Nat

VARIABLES
  doc,            \* external: the active document
  kept,           \* external: the documents as they would come back
  used,           \* external: the identities that have been active
  life,           \* history: the number of the present life
  clock,          \* history: the next stamp
  ms,             \* @guid and @revision
  seen            \* history: snapshots handed out

modelVars == <<doc, kept, used, life, clock, ms, seen>>

Documents ==
  [guid : Guids, content : Nat, file : Nat, past : Seq(Nat), future : Seq(Nat)]
Snapshots == [guid : Guids, revision : Nat]
Sightings == [guid : Guids, revision : Nat, content : Nat, life : Nat]

ModelTypeOK ==
  /\ doc \in Documents
  /\ kept \in [Guids -> Documents] /\ \A g \in Guids : kept[g].guid = g
  /\ used \in SUBSET Guids
  /\ life \in Nat
  /\ clock \in Nat
  /\ ms \in Snapshots
  /\ seen \in SUBSET Sightings

-----------------------------------------------------------------------------
(* The tracker. *)

Track(g) == [guid |-> g, revision |-> 0]

\* Mutant: every snapshot attaches the tracker anew.
CaptureAlwaysTracks == Track(doc.guid)

Capture == IF ms.guid = doc.guid THEN ms ELSE Track(doc.guid)

TransactionChanged(s, g) ==
  IF s.guid = g THEN [s EXCEPT !.revision = @ + 1] ELSE Track(g)

\* What a caller who was told snapshot s of content c now knows.
Sighting(s, c) ==
  [guid |-> s.guid, revision |-> s.revision, content |-> c, life |-> life]

-----------------------------------------------------------------------------
(* The document. *)

Opened(g, c) ==
  [guid |-> g, content |-> c, file |-> c, past |-> <<>>, future |-> <<>>]

Committed(d) ==
  [d EXCEPT !.content = clock, !.past = Append(@, d.content), !.future = <<>>]

Undone(d) ==
  [d EXCEPT !.content = Last(d.past), !.past = Front(@), !.future = Append(@, d.content)]

Redone(d) ==
  [d EXCEPT !.content = Last(d.future), !.future = Front(@), !.past = Append(@, d.content)]

MayChange == ms.revision + MaxStep <= MaxRevision /\ clock < MaxClock

-----------------------------------------------------------------------------
ModelInit ==
  \E g \in Guids :
    /\ doc = Opened(g, 0)
    /\ kept = [h \in Guids |-> Opened(h, 0)]
    /\ used = {g}
    /\ life = 1
    /\ clock = 1
    /\ ms = Track(g)
    /\ seen = {}

UserCommit ==
  /\ MayChange
  /\ doc' = Committed(doc)
  /\ clock' = clock + 1
  /\ ms' = TransactionChanged(ms, doc.guid)
  /\ UNCHANGED <<kept, used, life, seen>>

\* Mutant: onTransactionUndo is not observed.
UserUndoUnobserved ==
  /\ MayChange
  /\ doc.past # <<>>
  /\ doc' = Undone(doc)
  /\ UNCHANGED <<kept, used, life, clock, ms, seen>>

UserUndo ==
  /\ MayChange
  /\ doc.past # <<>>
  /\ doc' = Undone(doc)
  /\ ms' = TransactionChanged(ms, doc.guid)
  /\ UNCHANGED <<kept, used, life, clock, seen>>

UserRedo ==
  /\ MayChange
  /\ doc.future # <<>>
  /\ doc' = Redone(doc)
  /\ ms' = TransactionChanged(ms, doc.guid)
  /\ UNCHANGED <<kept, used, life, clock, seen>>

MayBegin == life < MaxLives

\* Saving a modified document gives it an identity never used before.  No
\* observer callback tells the tracker.
UserSave ==
  /\ MayBegin
  /\ doc.content # doc.file
  /\ \E g \in Guids \ used :
       /\ doc' = [doc EXCEPT !.guid = g, !.file = doc.content]
       /\ kept' = [kept EXCEPT ![g] = Opened(g, doc.content)]
       /\ used' = used \cup {g}
  /\ life' = life + 1
  /\ UNCHANGED <<clock, ms, seen>>

\* onNewModel, onOpenModel, onActivateModel, for any document, the present
\* one included.  The one left behind stays open, or is closed unsaved and
\* comes back as its file.
SwitchModel ==
  /\ MayBegin
  /\ \E g \in Guids, left \in {doc, Opened(doc.guid, doc.file)} :
       /\ kept' = [kept EXCEPT ![doc.guid] = left]
       /\ doc' = kept'[g]
       /\ used' = used \cup {g}
       /\ ms' = Track(g)
  /\ life' = life + 1
  /\ UNCHANGED <<clock, seen>>

\* A command reads the model and its snapshot.
Snapshot ==
  /\ ms' = Capture
  /\ seen' = seen \cup {Sighting(Capture, doc.content)}
  /\ UNCHANGED <<doc, kept, used, life, clock>>

UserStep == UserCommit \/ UserUndo \/ UserRedo \/ UserSave \/ SwitchModel

ModelNext == UserStep \/ Snapshot

ModelSpec == ModelInit /\ [][ModelNext]_modelVars

-----------------------------------------------------------------------------
(* In a life of an identity, two snapshots with the same revision stood    *)
(* for the same content: the pair model_state.rb hands out identifies what *)
(* the caller read, through undo and redo, rotated identities and late     *)
(* attachment.  (A later life of the identity counts from 0 again.)        *)
SnapshotsNameContents ==
  \A s, t \in seen :
    s.life = t.life /\ s.revision = t.revision => s.content = t.content

(* Once the tracker has met a life its revision never falls while the life *)
(* lasts, nor does it attach to another identity (model_state.rb: "a       *)
(* monotonic revision inside one SketchUp Model#guid identity epoch").     *)
RevisionMonotonic ==
  [][life' = life /\ ms.guid = doc.guid =>
       ms'.guid = ms.guid /\ ms'.revision >= ms.revision]_modelVars

(* Why: callers know of the present life only what lies behind the         *)
(* tracker, and at its very revision the document as it is; they know      *)
(* nothing of a life the tracker has not met.                              *)
ModelInv ==
  /\ {doc.guid, ms.guid} \subseteq used
  /\ \A s \in seen :
       /\ s.life <= life
       /\ s.life = life =>
            /\ ms.guid = doc.guid
            /\ s.revision <= ms.revision
            /\ s.revision = ms.revision => s.content = doc.content
  /\ SnapshotsNameContents
=============================================================================
