--------------------------- MODULE MutationEngine ---------------------------
(***************************************************************************)
(* The mutation engine of the extension (mutation_engine.rb and the file   *)
(* operations of presentation_engine.rb and layout_primitive_engine.rb)    *)
(* on top of the revision tracker.                                         *)
(*                                                                         *)
(* A request names the snapshot it was computed from and an operation id.  *)
(* The engine captures the current snapshot, forgets its records if the    *)
(* identity changed, refuses or replays, or executes and records the       *)
(* outcome.  A write or an undo is one step: it runs to its end on the     *)
(* application's main thread, inside one SketchUp operation.  A file       *)
(* operation is not inside one: it begins, writes its file and finishes,   *)
(* and if the library it calls pumps events (Pumps), user steps and other  *)
(* requests run between, nested on the same stack.                         *)
(*                                                                         *)
(* `applied' and `files' are history variables: what executed, with the    *)
(* content it executed on, and the files reported as good.  An operation   *)
(* is of the life it was admitted in; a file operation may end in another. *)
(***************************************************************************)
EXTENDS ModelState

CONSTANTS
  Ids,            \* operation ids
  Pumps,          \* do file operations let other steps run meanwhile?
  MaxNest         \* bound: file operations nested in one another

ASSUME EngineAssumption ==
  /\ Pumps \in BOOLEAN
  /\ MaxNest \in Nat

VARIABLES
  cacheGuid,      \* @cache_model_guid; "nil" at first
  records,        \* @records
  stack,          \* file operations being executed, innermost last
  applied,        \* history: the operations that took effect
  files           \* history: the files reported as good

engineVars == <<cacheGuid, records, stack, applied, files>>
vars == <<modelVars, engineVars>>

ModelOps == {"write", "undo"}
Ops == ModelOps \cup {"file"}

Requests == [id : Ids, op : Ops, guid : Guids, revision : Nat]

\* fingerprint_for: everything but the operation id.
Prints == [op : Ops, guid : Guids, revision : Nat]
Fingerprint(q) == [op |-> q.op, guid |-> q.guid, revision |-> q.revision]

NoRecord == [state |-> "none"]
\* Mutant: the fingerprint is not recorded.
RecordBare(q, s) == [state |-> s]

Record(q, s) == [state |-> s, print |-> Fingerprint(q)]
Records ==
  {NoRecord} \cup [state : {"running", "completed", "failed"}, print : Prints]

FileRequests == {q \in Requests : q.op = "file"}
Frames == [request : FileRequests, content : Nat, written : BOOLEAN, life : Nat]

Applications ==
  [id : Ids, print : Prints, content : Nat, stamp : Nat, life : Nat]

Reports ==
  [guid : Guids, revision : Nat, content : Nat, began : Nat, ended : Nat]

EngineTypeOK ==
  /\ ModelTypeOK
  /\ cacheGuid \in Guids \cup {"nil"}
  /\ records \in [Ids -> Records]
  /\ stack \in Seq(Frames)
  /\ applied \in SUBSET Applications
  /\ files \in SUBSET Reports

-----------------------------------------------------------------------------
(* prepare_request. *)

\* The records after sync_cache_epoch with the captured guid.
EpochRecords ==
  IF cacheGuid = Capture.guid THEN records ELSE [i \in Ids |-> NoRecord]

SyncCacheEpoch == cacheGuid' = Capture.guid

\* Mutant: the revision is not checked.
AdmittedAnyRevision(q) ==
  /\ q.guid = Capture.guid
  /\ EpochRecords[q.id] = NoRecord

\* Mutant: records are not looked up.
AdmittedUnrecorded(q) ==
  /\ q.guid = Capture.guid
  /\ q.revision = Capture.revision

\* Mutant: a recorded failure may be tried again.
AdmittedFailed(q) ==
  /\ q.guid = Capture.guid
  /\ EpochRecords[q.id].state \in {"none", "failed"}
  /\ q.revision = Capture.revision

Admitted(q) ==
  /\ q.guid = Capture.guid
  /\ EpochRecords[q.id] = NoRecord
  /\ q.revision = Capture.revision

\* mark_running and record_terminal.
Enter(table, q, s) == records' = [table EXCEPT ![q.id] = Record(q, s)]

Application(q, c, l) ==
  [id |-> q.id, print |-> Fingerprint(q), content |-> c, stamp |-> clock, life |-> l]

Began(q) == [request |-> q, content |-> 0, written |-> FALSE, life |-> life]

Report(q, f) ==
  [guid |-> q.guid, revision |-> q.revision, content |-> f.content,
   began |-> f.life, ended |-> life]

-----------------------------------------------------------------------------
EngineInit ==
  /\ ModelInit
  /\ cacheGuid = "nil"
  /\ records = [i \in Ids |-> NoRecord]
  /\ stack = <<>>
  /\ applied = {}
  /\ files = {}

\* Nothing is executing, or what is executing pumps events.
Responsive == stack = <<>> \/ Pumps

User == Responsive /\ UserStep /\ UNCHANGED engineVars

Read == Responsive /\ Snapshot /\ UNCHANGED engineVars

\* A request answered without executing: an error of prepare_request, a
\* recorded result replayed, or a precondition of the operation not met.
Answer ==
  /\ Responsive
  /\ ms' = Capture
  /\ SyncCacheEpoch
  /\ records' = EpochRecords
  /\ UNCHANGED <<doc, kept, used, life, clock, seen, stack, applied, files>>

\* Mutant: the advance of the revision is not checked.
FailModelOpUnchecked(q) ==
  /\ Responsive
  /\ q.op \in ModelOps
  /\ Admitted(q)
  /\ ms' = Capture
  /\ SyncCacheEpoch
  /\ Enter(EpochRecords, q, "completed")
  /\ UNCHANGED <<doc, kept, used, life, clock, seen, stack, applied, files>>

\* The operation could not start, its body raised, SketchUp refused the
\* commit (all aborted), nothing was changed, or there was nothing to undo.
FailModelOp(q) ==
  /\ Responsive
  /\ q.op \in ModelOps
  /\ Admitted(q)
  /\ ms' = Capture
  /\ SyncCacheEpoch
  /\ Enter(EpochRecords, q, "failed")
  /\ UNCHANGED <<doc, kept, used, life, clock, seen, stack, applied, files>>

\* The effect common to a write and an undo, k transactions long.
Apply(q, d, k, s) ==
  /\ doc' = d
  /\ clock' = clock + 1
  /\ ms' = [Capture EXCEPT !.revision = @ + k]
  /\ SyncCacheEpoch
  /\ Enter(EpochRecords, q, s)
  /\ applied' = applied \cup {Application(q, doc.content, life)}
  /\ seen' = IF s = "completed" THEN seen \cup {Sighting(ms', d.content)} ELSE seen
  /\ UNCHANGED <<kept, used, life, stack, files>>

\* The result is built after the commit; if building it raises, the failure
\* is recorded and the commit stays.
Write(q) ==
  /\ Responsive
  /\ MayChange
  /\ q.op = "write"
  /\ Admitted(q)
  /\ \E k \in 1..MaxStep, s \in {"completed", "failed"} :
       Apply(q, Committed(doc), k, s)

Undo(q) ==
  /\ Responsive
  /\ MayChange
  /\ q.op = "undo"
  /\ Admitted(q)
  /\ doc.past # <<>>
  /\ \E k \in 1..MaxStep : Apply(q, Undone(doc), k, "completed")

-----------------------------------------------------------------------------
(* perform_model_file_operation and perform_layout_file_operation. *)

\* Mutant: mark_running is forgotten.
BeginFileUnmarked(q) ==
  /\ Responsive
  /\ Len(stack) < MaxNest
  /\ q.op = "file"
  /\ Admitted(q)
  /\ ms' = Capture
  /\ SyncCacheEpoch
  /\ records' = EpochRecords
  /\ stack' = Append(stack, Began(q))
  /\ UNCHANGED <<doc, kept, used, life, clock, seen, applied, files>>

BeginFile(q) ==
  /\ Responsive
  /\ Len(stack) < MaxNest
  /\ q.op = "file"
  /\ Admitted(q)
  /\ ms' = Capture
  /\ SyncCacheEpoch
  /\ Enter(EpochRecords, q, "running")
  /\ stack' = Append(stack, Began(q))
  /\ UNCHANGED <<doc, kept, used, life, clock, seen, applied, files>>

Frame == Last(stack)

WriteFile ==
  /\ stack # <<>>
  /\ ~Frame.written
  /\ clock < MaxClock
  /\ stack' = [stack EXCEPT ![Len(stack)] =
                 [@ EXCEPT !.content = doc.content, !.written = TRUE]]
  /\ applied' = applied \cup {Application(Frame.request, doc.content, Frame.life)}
  /\ clock' = clock + 1
  /\ UNCHANGED <<doc, kept, used, life, ms, seen, cacheGuid, records, files>>

\* Mutant: the model is not looked at again after the file was written.
FinishFileUnchecked ==
  /\ stack # <<>>
  /\ Frame.written
  /\ LET q == Frame.request IN
     /\ Enter(records, q, "completed")
     /\ files' = files \cup {Report(q, Frame)}
  /\ ms' = Capture
  /\ stack' = Front(stack)
  /\ UNCHANGED <<doc, kept, used, life, clock, seen, cacheGuid, applied>>

\* The file counts only if the model is where it was: guid and revision.
FinishFile ==
  /\ stack # <<>>
  /\ Frame.written
  /\ LET q    == Frame.request
         good == Capture = [guid |-> q.guid, revision |-> q.revision]
     IN  /\ Enter(records, q, IF good THEN "completed" ELSE "failed")
         /\ files' = IF good THEN files \cup {Report(q, Frame)} ELSE files
  /\ ms' = Capture
  /\ stack' = Front(stack)
  /\ UNCHANGED <<doc, kept, used, life, clock, seen, cacheGuid, applied>>

\* The body raised, before its file was written or after.
FailFile ==
  /\ stack # <<>>
  /\ Enter(records, Frame.request, "failed")
  /\ stack' = Front(stack)
  /\ UNCHANGED <<modelVars, cacheGuid, applied, files>>

-----------------------------------------------------------------------------
\* What callers can send: requests computed from a snapshot they were given.
Sendable ==
  {q \in [id : Ids, op : Ops, guid : Guids, revision : 0..MaxRevision] :
     \E s \in seen : s.guid = q.guid /\ s.revision = q.revision}

Request(q) == FailModelOp(q) \/ Write(q) \/ Undo(q) \/ BeginFile(q)

Next ==
  \/ User
  \/ Read
  \/ Answer
  \/ \E q \in Sendable : Request(q)
  \/ WriteFile
  \/ FinishFile
  \/ FailFile

Spec == EngineInit /\ [][Next]_vars

-----------------------------------------------------------------------------
(* An operation takes effect at most once in a life of an identity,        *)
(* however often it is retried, whatever runs between the retries and      *)
(* while it executes (prepare_request's record check, mark_running).       *)
AtMostOnce ==
  \A a, b \in applied : a.id = b.id /\ a.life = b.life => a = b

(* Two distinct writes that name the same revision cannot both take effect *)
(* in a life: the revision check is a compare-and-set on the model.        *)
OneWriterPerRevision ==
  \A a, b \in applied :
    /\ {a.print.op, b.print.op} \subseteq ModelOps
    /\ a.life = b.life
    /\ a.print.revision = b.print.revision
    => a = b

(* A write or an undo executes on the content its caller was shown, in     *)
(* this life, at the revision it names: no change made in between is       *)
(* silently built upon or undone.                                          *)
NoLostUpdate ==
  \A a \in applied, s \in seen :
    /\ a.print.op \in ModelOps
    /\ s.life = a.life
    /\ s.revision = a.print.revision
    => s.content = a.content

(* A file reported as written for a revision, by an operation that ended   *)
(* in the life it began in, holds the content callers saw in that life at  *)
(* that revision, although the model could change while it was being       *)
(* written (the check after the body of a file operation).                 *)
FilesHoldTheirRevision ==
  \A f \in files, s \in seen :
    f.began = f.ended /\ s.life = f.ended /\ s.revision = f.revision
    => s.content = f.content

(* A recorded success, the answer every retry gets, stands for something   *)
(* that took effect under the same id and with the same parameters.        *)
SuccessWasApplied ==
  \A i \in Ids : records[i].state = "completed" =>
    \E a \in applied : a.id = i /\ a.print = records[i].print

(* A recorded failure of a write left the model as it was: after a started *)
(* operation every exception aborts (docs/research/safe-mutations.md).     *)
FailureChangedNothing ==
  \A i \in Ids : records[i].state = "failed" /\ records[i].print.op = "write" =>
    ~ \E a \in applied : a.id = i /\ a.print = records[i].print

(* The inductive invariant behind the first three: nothing is of a life    *)
(* to come, and if the tracker has not met the present one, of that one    *)
(* either; what callers saw and what was applied in it lies at or below    *)
(* the tracked revision; and everything executed or executing in it is     *)
(* still recorded.                                                         *)
OfPastLives ==
  /\ {doc.guid, ms.guid} \subseteq used
  /\ \A s \in seen : s.life <= life
  /\ \A a \in applied : a.life <= life
  /\ \A i \in 1..Len(stack) : stack[i].life <= life

UntrackedIsNew ==
  ms.guid # doc.guid =>
    /\ \A s \in seen : s.life # life
    /\ \A a \in applied : a.life # life
    /\ \A i \in 1..Len(stack) : stack[i].life # life

SeenMatchesDocument ==
  ms.guid = doc.guid =>
    \A s \in seen : s.life = life =>
      /\ s.revision <= ms.revision
      /\ s.revision = ms.revision => s.content = doc.content

WritesArePast ==
  ms.guid = doc.guid =>
    \A a \in applied : a.life = life /\ a.print.op \in ModelOps =>
      a.print.revision < ms.revision

ExecutedIsRecorded ==
  /\ \A a \in applied : a.life = life =>
       cacheGuid = doc.guid /\ records[a.id] # NoRecord
  /\ \A i \in 1..Len(stack) :
       LET f == stack[i] IN
       /\ f.life = life => cacheGuid = doc.guid /\ records[f.request.id] # NoRecord
       /\ ~f.written => \A a \in applied : ~(a.id = f.request.id /\ a.life = f.life)
       /\ \A j \in 1..Len(stack) :
            f.request.id = stack[j].request.id /\ f.life = stack[j].life => i = j

EngineInv ==
  /\ OfPastLives
  /\ UntrackedIsNew
  /\ SeenMatchesDocument
  /\ WritesArePast
  /\ ExecutedIsRecorded

Done(a) ==
  [id |-> a.id, op |-> a.print.op, guid |-> a.print.guid, revision |-> a.print.revision,
   life |-> a.life]

Version == [life |-> life, guid |-> doc.guid, revision |-> Capture.revision]

Promise == INSTANCE OnceOnly WITH
  Writes <- ModelOps, version <- Version, done <- {Done(a) : a \in applied}

(* The engine keeps the promise of OnceOnly: at every step of the user, of *)
(* a reader and of an operation, with its retries, the model is at one     *)
(* version, an operation is done at most once and a write only on the      *)
(* version it names.                                                       *)
KeepsPromise == Promise!Spec

(* While the cache epoch lasts a recorded result never changes: every      *)
(* retry of an operation gets the answer of its first execution.           *)
ResultsStick ==
  [][\A i \in Ids :
       /\ records[i].state \in {"completed", "failed"}
       /\ cacheGuid' = cacheGuid
       => records'[i] = records[i]]_vars
=============================================================================
