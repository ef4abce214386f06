-------------------------- MODULE LayoutDocuments --------------------------
(***************************************************************************)
(* LayOut operations (layout_primitive_engine.rb): the file operations of  *)
(* MutationEngine, with the files they work on.                            *)
(*                                                                         *)
(* There is one LayOut document and one sheet it is exported to.  An       *)
(* operation opens the document into memory, changes it there, and saves   *)
(* it whole; if LayOut pumps events meanwhile, other operations open and   *)
(* save the same document in between.  An entity is the operation that     *)
(* added it: its id, which is also the entity's id in the file, the model  *)
(* identity the operation ran under, and (history) the life of it.  Which  *)
(* viewport a dimension measures, layers, styles and geometry are left     *)
(* out: what is wrong with them makes the body raise.  Only these          *)
(* operations write the files.                                             *)
(*                                                                         *)
(* `told' is a history variable: the final answers of the operations.      *)
(***************************************************************************)
EXTENDS MutationEngine

CONSTANT Absent   \* no document

Calls == {"create", "add", "export"}
Entities == [id : Ids, guid : Guids, life : Nat]

ASSUME LayoutAssumption == Absent \notin Seq(Entities)

VARIABLES
  drawing,        \* the document's file
  sheet,          \* the exported file
  opened,         \* per executing operation: its call and its document
  told            \* history: how operations that executed were answered

layoutVars == <<drawing, sheet, opened, told>>
allVars == <<vars, layoutVars>>

Documents2D == {Absent} \cup Seq(Entities)
Opens == [call : Calls, doc : Documents2D]
Answers ==
  [id : Ids, life : Nat, call : Calls, depth : Nat \ {0},
   result : {"completed", "stale", "failed"}]

LayoutTypeOK ==
  /\ EngineTypeOK
  /\ drawing \in Documents2D
  /\ sheet \in Documents2D
  /\ opened \in Seq(Opens)
  /\ told \in SUBSET Answers
  /\ Len(opened) = Len(stack)

-----------------------------------------------------------------------------
Holds(d, a) ==
  d # Absent /\ \E i \in DOMAIN d : d[i].id = a.id /\ d[i].life = a.life

\* Mutant: every body begins with a new document.
OpenFresh(call) == IF call = "export" /\ sheet # Absent THEN Absent ELSE <<>>

\* What the body opens; Absent if it raises before it has a document: there
\* is none, or there is a file where it would export to.
Open(call) ==
  CASE call = "create" -> <<>>
    [] call = "add" -> drawing
    [] call = "export" -> IF sheet = Absent THEN drawing ELSE Absent

\* tag_layout_entity.
Tagged(f) == [id |-> f.request.id, guid |-> f.request.guid, life |-> f.life]

Answered(result) ==
  told \cup {[id |-> Frame.request.id, life |-> Frame.life,
              call |-> Last(opened).call, depth |-> Len(stack), result |-> result]}

-----------------------------------------------------------------------------
LayoutInit ==
  /\ EngineInit
  /\ drawing \in {Absent, <<>>}
  /\ sheet = Absent
  /\ opened = <<>>
  /\ told = {}

\* Mutant: create does not look for an existing document.
BeginUnlooked(q, call) ==
  /\ BeginFile(q)
  /\ opened' = Append(opened, [call |-> call, doc |-> Open(call)])
  /\ UNCHANGED <<drawing, sheet, told>>

\* A document that exists is not created: that error is an Answer.
Begin(q, call) ==
  /\ call = "create" => drawing = Absent
  /\ BeginFile(q)
  /\ opened' = Append(opened, [call |-> call, doc |-> Open(call)])
  /\ UNCHANGED <<drawing, sheet, told>>

\* doc.save or doc.export.
Save ==
  /\ WriteFile
  /\ Last(opened).doc # Absent
  /\ LET d == Last(opened).doc IN
     CASE Last(opened).call = "create" -> drawing' = d /\ sheet' = sheet
       [] Last(opened).call = "add" ->
            drawing' = Append(d, Tagged(Frame)) /\ sheet' = sheet
       [] Last(opened).call = "export" -> sheet' = d /\ drawing' = drawing
  /\ UNCHANGED <<opened, told>>

\* Mutant: the document is not closed.
FinishOpen ==
  /\ FinishFile
  /\ opened' = opened
  /\ told' = Answered("completed")
  /\ UNCHANGED <<drawing, sheet>>

\* perform_layout_file_operation after the body: it has saved, and is
\* answered with STALE_REVISION if the model has moved.
Finish ==
  /\ FinishFile
  /\ opened' = Front(opened)
  /\ told' = Answered(
       IF records'[Frame.request.id].state = "completed" THEN "completed" ELSE "stale")
  /\ UNCHANGED <<drawing, sheet>>

Fail ==
  /\ FailFile
  /\ opened' = Front(opened)
  /\ told' = Answered("failed")
  /\ UNCHANGED <<drawing, sheet>>

\* What does not touch the files: the user, reads, model operations, and
\* requests that are answered without executing.
Elsewhere ==
  /\ \/ User
     \/ Read
     \/ Answer
     \/ \E q \in Sendable : FailModelOp(q) \/ Write(q) \/ Undo(q)
  /\ UNCHANGED layoutVars

LayoutNext ==
  \/ Elsewhere
  \/ \E q \in Sendable, call \in Calls : Begin(q, call)
  \/ Save
  \/ Finish
  \/ Fail

LayoutSpec == LayoutInit /\ [][LayoutNext]_allVars

-----------------------------------------------------------------------------
(* The operations that were not nested in another one and succeeded.       *)
Acknowledged == {t \in told : t.result = "completed" /\ t.depth = 1}

(* An entity whose addition was acknowledged stays in the document,        *)
(* whatever is added, created, exported or fails later: every save writes  *)
(* back what it opened.  (Operations nested in another one on the same     *)
(* document are lost when that one saves.)                                 *)
AcknowledgedStay ==
  \A t \in Acknowledged :
    /\ t.call \in {"create", "add"} => drawing # Absent
    /\ t.call = "add" => Holds(drawing, t)

(* In a life of an identity an operation adds at most one entity to the    *)
(* document however often it is sent, failures that come after the save    *)
(* included.                                                               *)
EntitiesAreUnique ==
  drawing # Absent =>
    \A i, j \in DOMAIN drawing : drawing[i] = drawing[j] => i = j

(* A sheet that an export reports shows everything acknowledged before.    *)
SheetsAreComplete ==
  [][\A t \in told' \ told :
       t.call = "export" /\ t.depth = 1 /\ t.result = "completed" =>
         \A a \in Acknowledged : a.call = "add" => Holds(sheet, a)]_allVars

(* An operation refused with STALE_REVISION added nothing: callers are     *)
(* told to retry the write under a new operation id (docs/demo.md).        *)
StaleAddedNothing ==
  \A t \in told : t.result = "stale" => ~Holds(drawing, t)
=============================================================================
