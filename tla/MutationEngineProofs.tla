------------------------ MODULE MutationEngineProofs ------------------------
(***************************************************************************)
(* Theorems about the mutation engine, for every set of identities and     *)
(* operation ids and every bound: what it does at most once and on what,   *)
(* what it reports, and that it implements OnceOnly.                       *)
(***************************************************************************)
EXTENDS MutationEngine, ModelStateProofs

(* Type correctness. *)

LEMMA RecordTypes ==
  ASSUME EngineTypeOK, NEW q \in Requests
  PROVE  /\ EpochRecords \in [Ids -> Records]
         /\ \A s \in {"running", "completed", "failed"} :
              /\ Record(q, s) \in Records
              /\ Record(q, s) # NoRecord
              /\ [EpochRecords EXCEPT ![q.id] = Record(q, s)] \in [Ids -> Records]
              /\ [records EXCEPT ![q.id] = Record(q, s)] \in [Ids -> Records]
         /\ \A l \in Nat : Application(q, doc.content, l) \in Applications
<1>1. Fingerprint(q) \in Prints
  BY DEF Fingerprint, Prints, Requests
<1>2. doc.content \in Nat /\ clock \in Nat /\ q.id \in Ids
  BY DEF EngineTypeOK, ModelTypeOK, Documents, Requests
<1>3. \A l \in Nat : Application(q, doc.content, l) \in Applications
  BY <1>1, <1>2 DEF Application, Applications
<1>4. EpochRecords \in [Ids -> Records]
  BY DEF EngineTypeOK, EpochRecords, Records
<1>5. ASSUME NEW s \in {"running", "completed", "failed"}
      PROVE  Record(q, s) \in Records /\ Record(q, s) # NoRecord
  BY <1>1 DEF Record, Records, NoRecord
<1> QED
  BY <1>2, <1>3, <1>4, <1>5 DEF EngineTypeOK

LEMMA FrameFacts ==
  ASSUME EngineTypeOK, stack # <<>>
  PROVE  /\ Len(stack) \in 1..Len(stack)
         /\ Frame = stack[Len(stack)]
         /\ Frame \in Frames /\ Frame.life \in Nat
         /\ Frame.request \in Requests /\ Frame.request.op = "file"
         /\ Front(stack) \in Seq(Frames)
         /\ Len(Front(stack)) = Len(stack) - 1
         /\ \A i \in 1..(Len(stack) - 1) : Front(stack)[i] = stack[i]
<1>1. stack \in Seq(Frames)
  BY DEF EngineTypeOK
<1>2. /\ Len(stack) \in 1..Len(stack)
      /\ Last(stack) = stack[Len(stack)]
      /\ Last(stack) \in Frames
      /\ Front(stack) \in Seq(Frames)
      /\ Len(Front(stack)) = Len(stack) - 1
      /\ \A i \in 1..(Len(stack) - 1) : Front(stack)[i] = stack[i]
  BY <1>1, FrontLast
<1>3. /\ Last(stack).request \in Requests /\ Last(stack).request.op = "file"
      /\ Last(stack).life \in Nat
  BY <1>2 DEF Frames, FileRequests
<1> QED
  BY <1>2, <1>3 DEF Frame

LEMMA SendableTypes == Sendable \subseteq Requests
BY ModelAssumption DEF Sendable, Requests

LEMMA ApplyType ==
  ASSUME EngineTypeOK, NEW q \in Requests, NEW d \in Documents,
         NEW k \in 1..MaxStep, NEW s \in {"completed", "failed"},
         Apply(q, d, k, s)
  PROVE  EngineTypeOK'
<1>1. ModelTypeOK
  BY DEF EngineTypeOK
<1>2. ms' \in Snapshots
  BY <1>1, ReadTypes DEF Apply
<1>3. Sighting(ms', d.content) \in Sightings
  BY <1>1, <1>2 DEF Sighting, Sightings, Snapshots, Documents, ModelTypeOK
<1>4. ModelTypeOK'
  BY <1>1, <1>2, <1>3 DEF Apply, ModelTypeOK
<1>5. cacheGuid' \in Guids
  BY <1>1, CaptureFacts DEF Apply, SyncCacheEpoch, ModelTypeOK, Documents
<1>6. records' \in [Ids -> Records] /\ applied' \in SUBSET Applications
  BY <1>1, RecordTypes DEF Apply, Enter, EngineTypeOK, ModelTypeOK
<1> QED
  BY <1>4, <1>5, <1>6 DEF EngineTypeOK, Apply

LEMMA RequestType ==
  ASSUME EngineTypeOK, NEW q \in Requests, Request(q)
  PROVE  EngineTypeOK'
<1>1. ModelTypeOK
  BY DEF EngineTypeOK
<1>2. Capture \in Snapshots /\ Capture.guid \in Guids
  BY <1>1, CaptureFacts DEF ModelTypeOK, Documents
<1>4. CASE FailModelOp(q)
  BY <1>2, <1>4, RecordTypes
     DEF FailModelOp, Enter, SyncCacheEpoch, EngineTypeOK, ModelTypeOK
<1>5. CASE Write(q)
  BY <1>1, <1>5, DocumentTypes, ApplyType DEF Write
<1>6. CASE Undo(q)
  BY <1>1, <1>6, DocumentTypes, ApplyType DEF Undo
<1>7. CASE BeginFile(q)
  <2>1. Began(q) \in Frames
    BY <1>1, <1>7 DEF BeginFile, Began, Frames, FileRequests, ModelTypeOK
  <2>2. stack' \in Seq(Frames)
    BY <1>7, <2>1 DEF BeginFile, EngineTypeOK
  <2> QED
    BY <1>2, <1>7, <2>2, RecordTypes
       DEF BeginFile, Enter, SyncCacheEpoch, EngineTypeOK, ModelTypeOK
<1> QED
  BY <1>4, <1>5, <1>6, <1>7 DEF Request

LEMMA NextType == EngineTypeOK /\ [Next]_vars => EngineTypeOK'
<1> SUFFICES ASSUME EngineTypeOK, [Next]_vars PROVE EngineTypeOK'
  OBVIOUS
<1>1. ModelTypeOK
  BY DEF EngineTypeOK
<1>2. CASE User
  BY <1>1, <1>2, UserStepType DEF User, engineVars, EngineTypeOK
<1>3. CASE Read
  <2>1. ModelTypeOK'
    BY <1>1, <1>3, CaptureFacts, ReadTypes DEF Read, Snapshot, ModelTypeOK
  <2> QED
    BY <1>3, <2>1 DEF Read, engineVars, EngineTypeOK
<1>4. CASE \E q \in Sendable : Request(q)
  BY <1>4, SendableTypes, RequestType
<1>9. CASE Answer
  <2>1. /\ Capture \in Snapshots /\ Capture.guid \in Guids
        /\ EpochRecords \in [Ids -> Records]
    BY <1>1, CaptureFacts DEF ModelTypeOK, Documents, EngineTypeOK, EpochRecords, Records
  <2> QED
    BY <1>9, <2>1 DEF Answer, SyncCacheEpoch, EngineTypeOK, ModelTypeOK
<1>5. CASE WriteFile
  <2> DEFINE f == [Frame EXCEPT !.content = doc.content, !.written = TRUE]
  <2>0. doc.content \in Nat /\ clock \in Nat
    BY <1>1 DEF ModelTypeOK, Documents
  <2>1. stack # <<>> /\ Frame \in Frames /\ Len(stack) \in 1..Len(stack)
    BY <1>5, FrameFacts DEF WriteFile
  <2>2. f \in Frames
    BY <2>0, <2>1 DEF Frames
  <2>3. stack' = [stack EXCEPT ![Len(stack)] = f]
    BY <1>5, <2>1, FrameFacts DEF WriteFile
  <2>4. stack' \in Seq(Frames)
    BY <2>1, <2>2, <2>3, ExceptSeq DEF EngineTypeOK
  <2>5. applied' \in SUBSET Applications
    BY <1>5, <2>1, FrameFacts, RecordTypes DEF WriteFile, EngineTypeOK
  <2> QED
    BY <1>5, <2>0, <2>4, <2>5 DEF WriteFile, EngineTypeOK, ModelTypeOK
<1>6. CASE FinishFile
  <2>1. Frame \in Frames /\ Frame.request \in Requests /\ Front(stack) \in Seq(Frames)
    BY <1>6, FrameFacts DEF FinishFile
  <2>2. records' \in [Ids -> Records]
    BY <1>6, <2>1, RecordTypes DEF FinishFile, Enter
  <2>3. Report(Frame.request, Frame) \in Reports /\ Capture \in Snapshots
    BY <1>1, <2>1, CaptureFacts DEF Report, Reports, Frames, Requests, ModelTypeOK
  <2>4. files' \in SUBSET Reports
    BY <1>6, <2>3 DEF FinishFile, EngineTypeOK
  <2> QED
    BY <1>6, <2>1, <2>2, <2>3, <2>4 DEF FinishFile, EngineTypeOK, ModelTypeOK
<1>7. CASE FailFile
  <2>1. Frame.request \in Requests /\ Front(stack) \in Seq(Frames)
    BY <1>7, FrameFacts DEF FailFile
  <2>2. records' \in [Ids -> Records]
    BY <1>7, <2>1, RecordTypes DEF FailFile, Enter
  <2> QED
    BY <1>7, <2>1, <2>2 DEF FailFile, modelVars, EngineTypeOK, ModelTypeOK
<1>8. CASE UNCHANGED vars
  BY <1>8 DEF vars, modelVars, engineVars, EngineTypeOK, ModelTypeOK
<1> QED
  BY <1>2, <1>3, <1>4, <1>5, <1>6, <1>7, <1>8, <1>9 DEF Next

LEMMA InitType == EngineInit => EngineTypeOK
<1> SUFFICES ASSUME EngineInit PROVE EngineTypeOK
  OBVIOUS
<1>1. ModelTypeOK
  BY InitModelType DEF EngineInit
<1>2. <<>> \in Seq(Frames)
  BY EmptySeq
<1> QED
  BY <1>1, <1>2 DEF EngineInit, EngineTypeOK, Records

(* Every reachable state of the mutation engine is well typed.             *)
THEOREM TypeCorrect == Spec => []EngineTypeOK
BY InitType, NextType, PTL DEF Spec

-----------------------------------------------------------------------------
(* The inductive invariant. *)

LEMMA LifeTypes ==
  ASSUME EngineTypeOK
  PROVE  /\ life \in Nat
         /\ \A t \in seen : t.life \in Nat
         /\ \A a \in applied : a.life \in Nat
         /\ \A i \in 1..Len(stack) : stack[i].life \in Nat
<1>1. ASSUME NEW i \in 1..Len(stack) PROVE stack[i].life \in Nat
  <2>1. stack[i] \in Frames
    BY ElementOfSeq DEF EngineTypeOK
  <2> QED
    BY <2>1 DEF Frames
<1> QED
  BY <1>1 DEF EngineTypeOK, ModelTypeOK, Sightings, Applications

LEMMA InitInv == EngineInit => EngineInv
<1> SUFFICES ASSUME EngineInit PROVE EngineInv
  OBVIOUS
<1>1. PICK g \in Guids :
        doc = Opened(g, 0) /\ used = {g} /\ ms = Track(g) /\ seen = {}
  BY DEF EngineInit, ModelInit
<1> QED
  BY <1>1 DEF EngineInit, Opened, Track, EngineInv, OfPastLives, UntrackedIsNew,
              SeenMatchesDocument, WritesArePast, ExecutedIsRecorded

(* A transaction of the user's moves the tracker past everything seen and  *)
(* written in the present life.                                            *)
LEMMA TransactionInv ==
  ASSUME EngineTypeOK, EngineInv,
         doc'.guid = doc.guid, ms' = TransactionChanged(ms, doc.guid),
         UNCHANGED <<used, life, seen>>, UNCHANGED engineVars
  PROVE  EngineInv'
<1>1. ms \in Snapshots /\ seen \subseteq Sightings /\ applied \subseteq Applications
  BY DEF EngineTypeOK, ModelTypeOK
<1>2. ms'.guid = doc.guid
  BY <1>1 DEF TransactionChanged, Track, Snapshots
<1>3. ms.guid = doc.guid => ms'.revision = ms.revision + 1
  BY <1>1 DEF TransactionChanged, Snapshots
<1>4. OfPastLives' /\ UntrackedIsNew'
  BY <1>2 DEF EngineInv, OfPastLives, UntrackedIsNew, engineVars
<1>5. SeenMatchesDocument'
  <2> SUFFICES ASSUME NEW t \in seen, t.life = life
               PROVE  t.revision < ms'.revision /\ t.revision <= ms'.revision
    BY <1>1, <1>2, <1>3 DEF SeenMatchesDocument, Sightings, Snapshots, engineVars
  <2>1. ms.guid = doc.guid /\ t.revision <= ms.revision
    BY DEF EngineInv, UntrackedIsNew, SeenMatchesDocument
  <2> QED
    BY <1>1, <1>3, <2>1 DEF Sightings, Snapshots
<1>6. WritesArePast'
  <2> SUFFICES ASSUME NEW a \in applied, a.life = life, a.print.op \in ModelOps
               PROVE  a.print.revision < ms'.revision
    BY <1>2 DEF WritesArePast, engineVars
  <2>1. ms.guid = doc.guid /\ a.print.revision < ms.revision
    BY DEF EngineInv, UntrackedIsNew, WritesArePast
  <2> QED
    BY <1>1, <1>3, <2>1 DEF Applications, Prints, Snapshots
<1>7. ExecutedIsRecorded'
  BY DEF EngineInv, ExecutedIsRecorded, engineVars
<1> QED
  BY <1>4, <1>5, <1>6, <1>7 DEF EngineInv

(* A life that begins has no past.                                         *)
LEMMA NewLifeInv ==
  ASSUME EngineTypeOK, EngineInv,
         life' = life + 1, {doc'.guid, ms'.guid} \subseteq used',
         UNCHANGED seen, UNCHANGED engineVars
  PROVE  EngineInv'
<1>1. /\ \A t \in seen : t.life # life' /\ t.life <= life'
      /\ \A a \in applied : a.life # life' /\ a.life <= life'
      /\ \A i \in 1..Len(stack) : stack[i].life # life' /\ stack[i].life <= life'
  BY LifeTypes DEF EngineInv, OfPastLives
<1>2. OfPastLives'
  BY <1>1 DEF OfPastLives, engineVars
<1>3. UntrackedIsNew' /\ SeenMatchesDocument' /\ WritesArePast'
  BY <1>1 DEF UntrackedIsNew, SeenMatchesDocument, WritesArePast, engineVars
<1>4. ExecutedIsRecorded'
  BY <1>1 DEF EngineInv, ExecutedIsRecorded, engineVars
<1> QED
  BY <1>2, <1>3, <1>4 DEF EngineInv

LEMMA UserInv ==
  ASSUME EngineTypeOK, EngineInv, User
  PROVE  EngineInv'
<1>1. doc \in Documents
  BY DEF EngineTypeOK, ModelTypeOK
<1>2. CASE UserCommit
  BY <1>1, <1>2, TransactionInv DEF User, UserCommit, Committed, Documents
<1>3. CASE UserUndo
  BY <1>1, <1>3, TransactionInv DEF User, UserUndo, Undone, Documents
<1>4. CASE UserRedo
  BY <1>1, <1>4, TransactionInv DEF User, UserRedo, Redone, Documents
<1>5. CASE UserSave \/ SwitchModel
  BY <1>5, NewLife, NewLifeInv DEF User, EngineTypeOK, EngineInv, OfPastLives
<1> QED
  BY <1>2, <1>3, <1>4, <1>5 DEF User, UserStep

(* Taking a snapshot attaches the tracker to the identity in use and moves *)
(* nothing else.                                                           *)
LEMMA CaptureInv ==
  ASSUME EngineTypeOK, EngineInv, ms' = Capture,
         UNCHANGED <<doc, used, life>>, UNCHANGED <<seen, applied>>
  PROVE  /\ ms'.guid = doc.guid
         /\ UntrackedIsNew'
         /\ SeenMatchesDocument'
         /\ WritesArePast'
<1>1. ModelTypeOK
  BY DEF EngineTypeOK
<1>2. Capture.guid = doc.guid /\ (ms.guid = doc.guid => Capture = ms)
  BY <1>1, CaptureFacts
<1> QED
  BY <1>2 DEF EngineInv, UntrackedIsNew, SeenMatchesDocument, WritesArePast

(* What was executed or is executing in the present life survives          *)
(* sync_cache_epoch.                                                       *)
LEMMA EpochKeepsExecuted ==
  ASSUME EngineTypeOK, EngineInv
  PROVE  /\ Capture.guid = doc.guid
         /\ \A a \in applied : a.life = life => EpochRecords[a.id] # NoRecord
         /\ \A i \in 1..Len(stack) : stack[i].life = life =>
              EpochRecords[stack[i].request.id] # NoRecord
<1>1. Capture.guid = doc.guid
  BY CaptureFacts DEF EngineTypeOK
<1> QED
  BY <1>1 DEF EngineInv, ExecutedIsRecorded, EpochRecords

LEMMA ExecutedIds ==
  ASSUME EngineTypeOK
  PROVE  /\ \A a \in applied : a.id \in Ids
         /\ \A i \in 1..Len(stack) : stack[i].request.id \in Ids
<1>1. ASSUME NEW i \in 1..Len(stack) PROVE stack[i].request.id \in Ids
  <2>1. stack[i] \in Frames
    BY ElementOfSeq DEF EngineTypeOK
  <2> QED
    BY <2>1 DEF Frames, FileRequests, Requests
<1> QED
  BY <1>1 DEF EngineTypeOK, Applications

(* The cases in which the operation executes nothing.                      *)
LEMMA NothingAppliedInv ==
  ASSUME EngineTypeOK, EngineInv,
         Answer \/ \E q \in Requests : FailModelOp(q)
  PROVE  EngineInv'
<1>1. /\ ms' = Capture
      /\ cacheGuid' = doc.guid
      /\ UNCHANGED <<doc, used, life, seen, applied, stack, files>>
      /\ \/ records' = EpochRecords
         \/ \E i \in Ids, r \in Records \ {NoRecord} :
              records' = [EpochRecords EXCEPT ![i] = r]
  BY EpochKeepsExecuted, RecordTypes DEF Requests, Answer, FailModelOp, SyncCacheEpoch, Enter
<1>2. ms'.guid = doc.guid /\ UntrackedIsNew' /\ SeenMatchesDocument' /\ WritesArePast'
  BY <1>1, CaptureInv
<1>3. OfPastLives'
  BY <1>1, <1>2 DEF EngineInv, OfPastLives
<1>4. \A i \in Ids : EpochRecords[i] # NoRecord => records'[i] # NoRecord
  BY <1>1 DEF EngineTypeOK, EpochRecords
<1>5. /\ \A a \in applied : a.id \in Ids
      /\ \A i \in 1..Len(stack) : stack[i].request.id \in Ids
  BY ExecutedIds
<1>6. ExecutedIsRecorded'
  BY <1>1, <1>4, <1>5, EpochKeepsExecuted DEF EngineInv, ExecutedIsRecorded
<1> QED
  BY <1>2, <1>3, <1>6 DEF EngineInv

LEMMA ApplyInv ==
  ASSUME EngineTypeOK, EngineInv, NEW q \in Requests, NEW d \in Documents,
         d.guid = doc.guid, NEW k \in 1..MaxStep,
         NEW s \in {"completed", "failed"},
         Admitted(q), q.op \in ModelOps, Apply(q, d, k, s)
  PROVE  EngineInv'
<1> DEFINE new == Application(q, doc.content, life)
<1>1. /\ ms \in Snapshots /\ Capture \in Snapshots
      /\ seen \subseteq Sightings /\ applied \subseteq Applications
      /\ k \in Nat /\ k > 0
  BY CaptureFacts, ModelAssumption DEF EngineTypeOK, ModelTypeOK
<1>2. /\ ms'.guid = doc.guid
      /\ ms'.revision = Capture.revision + k
      /\ doc'.guid = doc.guid
      /\ cacheGuid' = doc.guid
      /\ UNCHANGED <<used, life>>
      /\ stack' = stack
      /\ files' = files
  BY <1>1, EpochKeepsExecuted DEF Apply, SyncCacheEpoch, Snapshots
<1>3. /\ q.guid = doc.guid
      /\ q.revision = Capture.revision
      /\ EpochRecords[q.id] = NoRecord
  BY EpochKeepsExecuted DEF Admitted
<1>4. /\ new.life = life /\ new.print.revision = Capture.revision
      /\ new.id = q.id
      /\ applied' = applied \cup {new}
  BY <1>3 DEF Application, Fingerprint, Apply
<1>5. seen' = seen \/ seen' = seen \cup {Sighting(ms', d.content)}
  BY DEF Apply
<1>6. doc.guid \in used
  BY DEF EngineInv, OfPastLives
<1>7. OfPastLives'
  BY <1>2, <1>4, <1>5, <1>6, LifeTypes DEF EngineInv, OfPastLives, Sighting
<1>8. UntrackedIsNew'
  BY <1>2 DEF UntrackedIsNew
<1>9. SeenMatchesDocument'
  <2>1. \A t \in seen : t.life = life => t.revision < ms'.revision
    <3> SUFFICES ASSUME NEW t \in seen, t.life = life
                 PROVE  t.revision < ms'.revision
      OBVIOUS
    <3>1. ms.guid = doc.guid /\ t.revision <= ms.revision
      BY DEF EngineInv, UntrackedIsNew, SeenMatchesDocument
    <3>2. Capture = ms
      BY <3>1 DEF Capture
    <3> QED
      BY <1>1, <1>2, <3>1, <3>2 DEF Snapshots, Sightings
  <2>2. doc' = d /\ ms'.revision \in Nat
    BY <1>1, <1>2 DEF Apply, Snapshots
  <2> QED
    BY <1>1, <1>2, <1>5, <2>1, <2>2 DEF SeenMatchesDocument, Sighting, Sightings
<1>10. WritesArePast'
  <2> SUFFICES ASSUME NEW a \in applied', a.life = life, a.print.op \in ModelOps
               PROVE  a.print.revision < ms'.revision
    BY <1>2 DEF WritesArePast
  <2>1. CASE a = new
    BY <1>1, <1>2, <1>4, <2>1 DEF Snapshots
  <2>2. CASE a \in applied
    <3>1. ms.guid = doc.guid /\ a.print.revision < ms.revision
      BY <2>2 DEF EngineInv, UntrackedIsNew, WritesArePast
    <3>2. Capture = ms
      BY <3>1 DEF Capture
    <3> QED
      BY <1>1, <1>2, <2>2, <3>1, <3>2 DEF Snapshots, Applications, Prints
  <2> QED
    BY <1>4, <2>1, <2>2
<1>11. ExecutedIsRecorded'
  <2>1. /\ records'[q.id] # NoRecord
        /\ \A i \in Ids : EpochRecords[i] # NoRecord => records'[i] # NoRecord
    BY RecordTypes DEF Apply, Enter, Requests
  <2>2. /\ \A a \in applied : a.id \in Ids
        /\ \A i \in 1..Len(stack) : stack[i].request.id \in Ids
    BY ExecutedIds
  <2>3. \A a \in applied' : a.life = life' =>
          cacheGuid' = doc'.guid /\ records'[a.id] # NoRecord
    BY <1>2, <1>4, <2>1, <2>2, EpochKeepsExecuted
  <2>4. \A i \in 1..Len(stack) :
          ~(stack[i].request.id = q.id /\ stack[i].life = life)
    BY <1>3, EpochKeepsExecuted
  <2>5. \A i \in 1..Len(stack) : stack[i].life = life =>
          records'[stack[i].request.id] # NoRecord
    BY <2>1, <2>2, EpochKeepsExecuted
  <2>6. \A i \in 1..Len(stack) : ~stack[i].written =>
          \A a \in applied' : ~(a.id = stack[i].request.id /\ a.life = stack[i].life)
    BY <1>3, <1>4, <2>4 DEF EngineInv, ExecutedIsRecorded
  <2> QED
    BY <1>2, <2>3, <2>5, <2>6 DEF EngineInv, ExecutedIsRecorded
<1> QED
  BY <1>7, <1>8, <1>9, <1>10, <1>11 DEF EngineInv

LEMMA BeginFileInv ==
  ASSUME EngineTypeOK, EngineInv, NEW q \in Requests, BeginFile(q)
  PROVE  EngineInv'
<1> DEFINE n == Len(stack)
           new == Began(q)
<1>1. /\ ms' = Capture
      /\ cacheGuid' = doc.guid
      /\ UNCHANGED <<doc, used, life, seen, applied, files>>
      /\ stack' = Append(stack, new)
      /\ \E r \in Records \ {NoRecord} :
           records' = [EpochRecords EXCEPT ![q.id] = r]
  BY EpochKeepsExecuted, RecordTypes DEF BeginFile, SyncCacheEpoch, Enter
<1>11. new.request = q /\ new.life = life /\ ~new.written
  BY DEF Began
<1> HIDE DEF new
<1>2. /\ n \in Nat
      /\ Len(stack') = n + 1
      /\ \A i \in 1..n : stack'[i] = stack[i]
      /\ stack'[n + 1] = new
  BY <1>1 DEF EngineTypeOK
<1>3. \A i \in 1..Len(stack') : i \in 1..n \/ i = n + 1
  BY <1>2
<1>4. q.guid = doc.guid /\ EpochRecords[q.id] = NoRecord
  BY EpochKeepsExecuted DEF BeginFile, Admitted
<1>5. ms'.guid = doc.guid /\ UntrackedIsNew' /\ SeenMatchesDocument' /\ WritesArePast'
  <2>1. ms'.guid = doc.guid /\ SeenMatchesDocument' /\ WritesArePast'
    BY <1>1, CaptureInv
  <2> QED
    BY <1>1, <2>1 DEF UntrackedIsNew
<1>6. OfPastLives'
  <2>1. \A i \in 1..Len(stack') : stack'[i].life <= life
    BY <1>2, <1>3, <1>11, LifeTypes DEF EngineInv, OfPastLives
  <2> QED
    BY <1>1, <1>5, <2>1 DEF EngineInv, OfPastLives
<1>7. /\ records'[q.id] # NoRecord
      /\ \A i \in Ids : EpochRecords[i] # NoRecord => records'[i] # NoRecord
  BY <1>1, RecordTypes DEF Requests
<1>8. \A i \in 1..n :
        ~(stack[i].request.id = q.id /\ stack[i].life = life)
  BY <1>4, EpochKeepsExecuted
<1>9. \A a \in applied : ~(a.id = q.id /\ a.life = life)
  BY <1>4, EpochKeepsExecuted
<1>10. ExecutedIsRecorded'
  <2>1. \A a \in applied : a.life = life => records'[a.id] # NoRecord
    BY <1>7, EpochKeepsExecuted, ExecutedIds
  <2>2. ASSUME NEW i \in 1..Len(stack')
        PROVE  /\ stack'[i].life = life =>
                    records'[stack'[i].request.id] # NoRecord
               /\ ~stack'[i].written =>
                    \A a \in applied : ~(/\ a.id = stack'[i].request.id
                                         /\ a.life = stack'[i].life)
               /\ \A j \in 1..Len(stack') :
                    /\ stack'[i].request.id = stack'[j].request.id
                    /\ stack'[i].life = stack'[j].life
                    => i = j
    <3>1. CASE i = n + 1
      BY <1>2, <1>3, <1>7, <1>8, <1>9, <1>11, <3>1
    <3>2. CASE i \in 1..n
      <4>1. stack'[i] = stack[i]
        BY <1>2, <3>2
      <4>2. stack[i].life = life => records'[stack[i].request.id] # NoRecord
        BY <1>7, <3>2, EpochKeepsExecuted, ExecutedIds
      <4> QED
        BY <1>2, <1>3, <1>8, <1>11, <3>2, <4>1, <4>2 DEF EngineInv, ExecutedIsRecorded
    <3> QED
      BY <1>3, <3>1, <3>2
  <2> QED
    BY <1>1, <2>1, <2>2 DEF ExecutedIsRecorded
<1> QED
  BY <1>5, <1>6, <1>10 DEF EngineInv

LEMMA WriteFileInv ==
  ASSUME EngineTypeOK, EngineInv, WriteFile
  PROVE  EngineInv'
<1> DEFINE n == Len(stack)
           q == Frame.request
           new == Application(q, doc.content, Frame.life)
<1>1. /\ stack # <<>> /\ n \in 1..n /\ Frame = stack[n] /\ ~stack[n].written
      /\ Frame \in Frames /\ q \in Requests
  BY FrameFacts DEF WriteFile
<1>2. /\ UNCHANGED <<doc, used, life, ms, seen, cacheGuid, records, files>>
      /\ applied' = applied \cup {new}
      /\ stack' = [stack EXCEPT ![n] = [@ EXCEPT !.content = doc.content, !.written = TRUE]]
  BY DEF WriteFile
<1>3. /\ Len(stack') = n
      /\ \A i \in 1..n : stack'[i].request = stack[i].request /\ stack'[i].life = stack[i].life
      /\ \A i \in 1..n : ~stack'[i].written => ~stack[i].written /\ i # n
  <2> DEFINE f == [stack[n] EXCEPT !.content = doc.content, !.written = TRUE]
  <2>1. f \in Frames /\ f.request = stack[n].request /\ f.life = stack[n].life /\ f.written
    BY <1>1 DEF Frames, EngineTypeOK, ModelTypeOK, Documents
  <2>2. stack' = [stack EXCEPT ![n] = f]
    BY <1>1, <1>2
  <2>3. /\ Len([stack EXCEPT ![n] = f]) = n
        /\ \A i \in 1..n : [stack EXCEPT ![n] = f][i] = IF i = n THEN f ELSE stack[i]
    BY <1>1, <2>1, ExceptSeq DEF EngineTypeOK
  <2> QED
    BY <2>1, <2>2, <2>3
<1>4. new.id = q.id /\ new.life = Frame.life /\ new.print.op = q.op
  BY DEF Application, Fingerprint
<1>5. OfPastLives'
  BY <1>1, <1>2, <1>3, <1>4 DEF EngineInv, OfPastLives
<1>6. UntrackedIsNew' /\ SeenMatchesDocument'
  BY <1>1, <1>2, <1>3, <1>4 DEF EngineInv, UntrackedIsNew, SeenMatchesDocument
<1>7. WritesArePast'
  <2>1. new.print.op \notin ModelOps
    BY <1>4, FrameFacts DEF WriteFile, ModelOps
  <2> QED
    BY <1>2, <2>1 DEF EngineInv, WritesArePast
<1>8. ExecutedIsRecorded'
  <2>1. \A a \in applied' : a.life = life =>
          cacheGuid = doc.guid /\ records[a.id] # NoRecord
    BY <1>1, <1>2, <1>4 DEF EngineInv, ExecutedIsRecorded
  <2>2. ASSUME NEW i \in 1..n, ~stack'[i].written, NEW a \in applied'
        PROVE  ~(a.id = stack[i].request.id /\ a.life = stack[i].life)
    BY <1>1, <1>2, <1>3, <1>4, <2>2 DEF EngineInv, ExecutedIsRecorded
  <2>3. ASSUME NEW i \in 1..n
        PROVE  /\ stack[i].life = life =>
                    cacheGuid = doc.guid /\ records[stack[i].request.id] # NoRecord
               /\ \A j \in 1..n :
                    /\ stack[i].request.id = stack[j].request.id
                    /\ stack[i].life = stack[j].life
                    => i = j
    BY DEF EngineInv, ExecutedIsRecorded
  <2>4. \A i \in 1..n : stack'[i].request = stack[i].request /\ stack'[i].life = stack[i].life
    BY <1>3
  <2> QED
    BY <1>2, <1>3, <2>1, <2>2, <2>3, <2>4 DEF ExecutedIsRecorded
<1> QED
  BY <1>5, <1>6, <1>7, <1>8 DEF EngineInv

(* A file operation leaves the stack recorded, whatever its outcome.       *)
LEMMA EndFileInv ==
  ASSUME EngineTypeOK, EngineInv, FinishFile \/ FailFile
  PROVE  EngineInv'
<1> DEFINE n == Len(stack)
           q == Frame.request
<1>1. /\ n \in 1..n /\ n \in Nat /\ q \in Requests
      /\ Len(Front(stack)) = n - 1
      /\ \A i \in 1..(n - 1) : Front(stack)[i] = stack[i]
  BY FrameFacts, LenProperties DEF FinishFile, FailFile, EngineTypeOK
<1>2. /\ UNCHANGED <<doc, used, life, seen, cacheGuid, applied>>
      /\ stack' = Front(stack)
      /\ ms' = Capture \/ ms' = ms
      /\ \E r \in Records \ {NoRecord} : records' = [records EXCEPT ![q.id] = r]
  BY <1>1, RecordTypes DEF FinishFile, FailFile, Enter, modelVars
<1>3. /\ Len(stack') = n - 1
      /\ \A i \in 1..(n - 1) : stack'[i] = stack[i] /\ i \in 1..n
  BY <1>1, <1>2
<1>4. UntrackedIsNew' /\ SeenMatchesDocument' /\ WritesArePast' /\ ms'.guid \in used
  <2>1. CASE ms' = Capture
    <3>1. doc.guid \in used
      BY DEF EngineInv, OfPastLives
    <3> QED
      BY <1>2, <2>1, <3>1, CaptureInv DEF UntrackedIsNew
  <2>2. CASE ms' = ms
    BY <1>2, <1>3, <2>2
       DEF EngineInv, OfPastLives, UntrackedIsNew, SeenMatchesDocument, WritesArePast
  <2> QED
    BY <1>2, <2>1, <2>2
<1>6. OfPastLives'
  BY <1>2, <1>3, <1>4 DEF EngineInv, OfPastLives
<1>7. \A i \in Ids : records[i] # NoRecord => records'[i] # NoRecord
  BY <1>2 DEF EngineTypeOK
<1>8. ExecutedIsRecorded'
  <2>1. \A a \in applied : a.life = life =>
          cacheGuid = doc.guid /\ records'[a.id] # NoRecord
    BY <1>7, ExecutedIds DEF EngineInv, ExecutedIsRecorded
  <2>2. ASSUME NEW i \in 1..(n - 1)
        PROVE  LET f == stack[i] IN
               /\ f.life = life => cacheGuid = doc.guid /\ records'[f.request.id] # NoRecord
               /\ ~f.written => \A a \in applied : ~(a.id = f.request.id /\ a.life = f.life)
               /\ \A j \in 1..(n - 1) :
                    f.request.id = stack[j].request.id /\ f.life = stack[j].life => i = j
    <3>1. i \in 1..n /\ 1..(n - 1) \subseteq 1..n
      BY <1>1
    <3> QED
      BY <1>7, <3>1, ExecutedIds DEF EngineInv, ExecutedIsRecorded
  <2>3. Len(stack') = n - 1 /\ \A i \in 1..(n - 1) : stack'[i] = stack[i]
    BY <1>3
  <2>4. \A i \in 1..Len(stack') :
          LET f == stack'[i] IN
          /\ f.life = life' => cacheGuid' = doc'.guid /\ records'[f.request.id] # NoRecord
          /\ ~f.written => \A a \in applied' : ~(a.id = f.request.id /\ a.life = f.life)
          /\ \A j \in 1..Len(stack') :
               f.request.id = stack'[j].request.id /\ f.life = stack'[j].life => i = j
    BY <1>2, <2>2, <2>3
  <2> QED
    BY <1>2, <2>1, <2>4 DEF ExecutedIsRecorded
<1> QED
  BY <1>4, <1>6, <1>8 DEF EngineInv

LEMMA NextInv ==
  ASSUME EngineTypeOK, EngineInv, [Next]_vars
  PROVE  EngineInv'
<1>1. doc \in Documents /\ ModelTypeOK
  BY DEF EngineTypeOK, ModelTypeOK
<1>2. CASE User
  BY <1>2, UserInv
<1>3. CASE Read
  <2>1. /\ ms' = Capture /\ Capture.guid = doc.guid
        /\ (ms.guid = doc.guid => Capture = ms)
        /\ (ms.guid # doc.guid => Capture.revision = 0)
        /\ Capture \in Snapshots
        /\ seen' = seen \cup {Sighting(Capture, doc.content)}
        /\ UNCHANGED <<doc, used, life, cacheGuid, records, stack, applied, files>>
    BY <1>1, <1>3, CaptureFacts DEF Read, Snapshot, engineVars
  <2>2. OfPastLives' /\ UntrackedIsNew' /\ ExecutedIsRecorded'
    BY <2>1, LifeTypes DEF EngineInv, OfPastLives, UntrackedIsNew, ExecutedIsRecorded, Sighting
  <2>3. WritesArePast'
    BY <2>1 DEF EngineInv, UntrackedIsNew, WritesArePast
  <2>4. SeenMatchesDocument'
    BY <2>1 DEF EngineInv, UntrackedIsNew, SeenMatchesDocument, Sighting, Snapshots
  <2> QED
    BY <2>2, <2>3, <2>4 DEF EngineInv
<1>4. ASSUME NEW q \in Sendable, Request(q) PROVE EngineInv'
  <2>1. q \in Requests
    BY SendableTypes
  <2>2. CASE Write(q)
    <3>1. PICK k \in 1..MaxStep, s \in {"completed", "failed"} :
            Apply(q, Committed(doc), k, s)
      BY <2>2 DEF Write
    <3>2. /\ Committed(doc) \in Documents /\ Committed(doc).guid = doc.guid
          /\ Admitted(q) /\ q.op \in ModelOps
      BY <1>1, <2>2, DocumentTypes DEF Write, Committed, ModelOps, Documents
    <3> QED
      BY <2>1, <3>1, <3>2, ApplyInv
  <2>3. CASE Undo(q)
    <3>1. PICK k \in 1..MaxStep : Apply(q, Undone(doc), k, "completed")
      BY <2>3 DEF Undo
    <3>2. /\ Undone(doc) \in Documents /\ Undone(doc).guid = doc.guid
          /\ Admitted(q) /\ q.op \in ModelOps
      BY <1>1, <2>3, DocumentTypes DEF Undo, Undone, ModelOps, Documents
    <3> QED
      BY <2>1, <3>1, <3>2, ApplyInv
  <2> QED
    BY <1>4, <2>1, <2>2, <2>3, NothingAppliedInv, BeginFileInv DEF Request
<1>5. CASE WriteFile
  BY <1>5, WriteFileInv
<1>6. CASE FinishFile \/ FailFile
  BY <1>6, EndFileInv
<1>8. CASE Answer
  BY <1>8, NothingAppliedInv
<1>7. CASE UNCHANGED vars
  BY <1>7 DEF vars, modelVars, engineVars, EngineInv, OfPastLives, UntrackedIsNew,
              SeenMatchesDocument, WritesArePast, ExecutedIsRecorded
<1> QED
  BY <1>2, <1>3, <1>4, <1>5, <1>6, <1>7, <1>8 DEF Next

(* The inductive invariant behind what follows (sync_cache_epoch,          *)
(* transaction_changed, mark_running).                                     *)
THEOREM EngineInvariant == Spec => []EngineInv
<1>1. EngineTypeOK /\ EngineInv /\ [Next]_vars => EngineInv'
  BY NextInv
<1> QED
  BY <1>1, InitInv, TypeCorrect, PTL DEF Spec

-----------------------------------------------------------------------------
(* What a step can add to the history of applications: nothing, a write or *)
(* an undo of an admitted request on the present content, or the file of   *)
(* the innermost frame.                                                    *)
LEMMA AppliedStep ==
  ASSUME EngineTypeOK, [Next]_vars
  PROVE  \/ applied' = applied
         \/ \E q \in Requests :
              /\ Admitted(q) /\ q.op \in ModelOps
              /\ applied' = applied \cup {Application(q, doc.content, life)}
         \/ /\ stack # <<>> /\ ~Frame.written
            /\ applied' = applied \cup {Application(Frame.request, doc.content, Frame.life)}
<1>1. CASE \E q \in Sendable : Request(q)
  <2>1. PICK q \in Requests : Request(q)
    BY <1>1, SendableTypes
  <2>2. CASE Write(q) \/ Undo(q)
    BY <2>2 DEF Write, Undo, Apply, ModelOps
  <2>3. CASE FailModelOp(q) \/ BeginFile(q)
    BY <2>3 DEF FailModelOp, BeginFile
  <2> QED
    BY <2>1, <2>2, <2>3 DEF Request
<1>2. CASE WriteFile
  BY <1>2 DEF WriteFile
<1>3. CASE User \/ Read \/ Answer \/ FinishFile \/ FailFile \/ UNCHANGED vars
  BY <1>3 DEF User, Read, Answer, engineVars, FinishFile, FailFile, vars
<1> QED
  BY <1>1, <1>2, <1>3 DEF Next

(* However often an operation is retried, it takes effect at most once in  *)
(* a life of a model identity, whatever runs while a file is written       *)
(* (prepare_request, mark_running).                                        *)
THEOREM OperationsApplyAtMostOnce == Spec => []AtMostOnce
<1>1. EngineInit => AtMostOnce
  BY DEF EngineInit, AtMostOnce
<1>2. ASSUME EngineTypeOK, EngineInv, AtMostOnce, [Next]_vars
      PROVE  AtMostOnce'
  <2> DEFINE Fresh(q, l) == \A a \in applied : ~(a.id = q.id /\ a.life = l)
  <2>1. ASSUME NEW q, NEW l, Fresh(q, l), applied' = applied \cup {Application(q, doc.content, l)}
        PROVE  AtMostOnce'
    BY <1>2, <2>1 DEF AtMostOnce, Application, Fingerprint
  <2>2. ASSUME NEW q \in Requests, Admitted(q) PROVE Fresh(q, life)
    BY <1>2, <2>2, EpochKeepsExecuted DEF Admitted
  <2>3. ASSUME stack # <<>>, ~Frame.written PROVE Fresh(Frame.request, Frame.life)
    BY <1>2, <2>3, FrameFacts DEF EngineInv, ExecutedIsRecorded
  <2>4. applied' = applied => AtMostOnce'
    BY <1>2 DEF AtMostOnce
  <2> QED
    BY <1>2, <2>1, <2>2, <2>3, <2>4, AppliedStep
<1> QED
  BY <1>1, <1>2, EngineInvariant, TypeCorrect, PTL DEF Spec

(* The revision check is a compare-and-set: no two writes that name the    *)
(* same revision both take effect in a life (prepare_request,              *)
(* transaction_changed).                                                   *)
THEOREM RevisionIsCompareAndSet == Spec => []OneWriterPerRevision
<1>1. EngineInit => OneWriterPerRevision
  BY DEF EngineInit, OneWriterPerRevision
<1>2. ASSUME EngineTypeOK, EngineInv, OneWriterPerRevision, [Next]_vars
      PROVE  OneWriterPerRevision'
  <2>1. ASSUME NEW q \in Requests, Admitted(q),
               applied' = applied \cup {Application(q, doc.content, life)}
        PROVE  OneWriterPerRevision'
    <3>1. /\ q.guid = doc.guid /\ q.revision = Capture.revision
          /\ ms.guid = doc.guid => Capture = ms
      BY <1>2, <2>1, EpochKeepsExecuted, CaptureFacts DEF Admitted, EngineTypeOK
    <3>2. ASSUME NEW a \in applied, a.print.op \in ModelOps, a.life = life
          PROVE  a.print.revision # q.revision
      <4>1. ms.guid = doc.guid /\ a.print.revision < ms.revision
        BY <1>2, <3>1, <3>2 DEF EngineInv, UntrackedIsNew, WritesArePast
      <4>2. a.print.revision \in Nat /\ ms.revision \in Nat
        BY <1>2, <3>2 DEF EngineTypeOK, ModelTypeOK, Applications, Prints, Snapshots
      <4> QED
        BY <3>1, <4>1, <4>2
    <3>3. /\ Application(q, doc.content, life).life = life
          /\ Application(q, doc.content, life).print.revision = q.revision
      BY DEF Application, Fingerprint
    <3> QED
      BY <1>2, <2>1, <3>2, <3>3 DEF OneWriterPerRevision
  <2>2. ASSUME stack # <<>>,
               applied' = applied \cup {Application(Frame.request, doc.content, Frame.life)}
        PROVE  OneWriterPerRevision'
    <3>1. Application(Frame.request, doc.content, Frame.life).print.op = "file"
      BY <1>2, <2>2, FrameFacts DEF Application, Fingerprint
    <3> QED
      BY <1>2, <2>2, <3>1 DEF OneWriterPerRevision, ModelOps
  <2>3. applied' = applied => OneWriterPerRevision'
    BY <1>2 DEF OneWriterPerRevision
  <2> QED
    BY <1>2, <2>1, <2>2, <2>3, AppliedStep
<1> QED
  BY <1>1, <1>2, EngineInvariant, TypeCorrect, PTL DEF Spec

(* What a step can show a caller: nothing, or the snapshot it ends in.     *)
LEMMA SeenStep ==
  ASSUME EngineTypeOK, [Next]_vars
  PROVE  \/ seen' = seen
         \/ /\ ms'.guid = doc'.guid /\ life' = life
            /\ seen' = seen \cup {Sighting(ms', doc'.content)}
<1>1. Capture.guid = doc.guid /\ Capture \in Snapshots /\ doc \in Documents
  BY CaptureFacts DEF EngineTypeOK, ModelTypeOK
<1>2. CASE Read
  BY <1>1, <1>2 DEF Read, Snapshot
<1>3. CASE \E q \in Sendable : Request(q)
  <2>1. PICK q \in Requests : Request(q)
    BY <1>3, SendableTypes
  <2>2. CASE Write(q)
    <3>1. Committed(doc).guid = doc.guid
      BY <1>1 DEF Committed, Documents
    <3> QED
      BY <1>1, <2>2, <3>1 DEF Write, Apply, Snapshots
  <2>3. CASE Undo(q)
    <3>1. Undone(doc).guid = doc.guid
      BY <1>1 DEF Undone, Documents
    <3> QED
      BY <1>1, <2>3, <3>1 DEF Undo, Apply, Snapshots
  <2>4. CASE FailModelOp(q) \/ BeginFile(q)
    BY <2>4 DEF FailModelOp, BeginFile
  <2> QED
    BY <2>1, <2>2, <2>3, <2>4 DEF Request
<1>4. CASE User
  BY <1>4 DEF User, UserStep, UserCommit, UserUndo, UserRedo, UserSave, SwitchModel
<1>5. CASE Answer \/ WriteFile \/ FinishFile \/ FailFile \/ UNCHANGED vars
  BY <1>5 DEF Answer, WriteFile, FinishFile, FailFile, vars, modelVars
<1> QED
  BY <1>2, <1>3, <1>4, <1>5 DEF Next

(* A write or an undo executes on the content its caller was shown in this *)
(* life at the revision it names (model_state.rb's pair of guid and        *)
(* revision, prepare_request's check).                                     *)
THEOREM WritesApplyToWhatWasSeen == Spec => []NoLostUpdate
<1>1. EngineInit => NoLostUpdate
  BY DEF EngineInit, NoLostUpdate
<1>2. ASSUME EngineTypeOK, EngineInv, NoLostUpdate, [Next]_vars
      PROVE  NoLostUpdate'
  <2> SUFFICES ASSUME NEW a \in applied', NEW t \in seen',
                      a.print.op \in ModelOps,
                      t.life = a.life, t.revision = a.print.revision
               PROVE  t.content = a.content
    BY DEF NoLostUpdate
  <2>1. EngineTypeOK' /\ EngineInv'
    BY <1>2, NextType, NextInv
  <2>2. t \in seen
    <3> SUFFICES ASSUME t \notin seen PROVE FALSE
      OBVIOUS
    <3>1. ms'.guid = doc'.guid /\ t = Sighting(ms', doc'.content) /\ life' = life
      BY <1>2, SeenStep
    <3>2. a.print.revision < ms'.revision
      BY <2>1, <3>1 DEF EngineInv, WritesArePast, Sighting
    <3>3. ms'.revision \in Nat
      BY <2>1 DEF EngineTypeOK, ModelTypeOK, Snapshots
    <3> QED
      BY <3>1, <3>2, <3>3 DEF Sighting
  <2>3. CASE a \in applied
    BY <1>2, <2>2, <2>3 DEF NoLostUpdate
  <2>4. ASSUME NEW q \in Requests, Admitted(q), a = Application(q, doc.content, life)
        PROVE  t.content = a.content
    <3>1. /\ q.guid = doc.guid /\ q.revision = Capture.revision
          /\ t.life = life /\ t.revision = q.revision
          /\ a.content = doc.content
      BY <1>2, <2>4, EpochKeepsExecuted DEF Admitted, Application, Fingerprint
    <3>2. ms.guid = doc.guid /\ Capture = ms
      BY <1>2, <2>2, <3>1 DEF EngineInv, UntrackedIsNew, Capture
    <3> QED
      BY <1>2, <2>2, <3>1, <3>2 DEF EngineInv, SeenMatchesDocument
  <2>5. ASSUME stack # <<>>, a = Application(Frame.request, doc.content, Frame.life)
        PROVE  FALSE
    BY <1>2, <2>5, FrameFacts DEF Application, Fingerprint, ModelOps
  <2> QED
    BY <1>2, <2>3, <2>4, <2>5, AppliedStep
<1> QED
  BY <1>1, <1>2, EngineInvariant, TypeCorrect, PTL DEF Spec

-----------------------------------------------------------------------------
(* What the engine reports: recorded successes, files written for a        *)
(* revision, and snapshots.                                                *)

(* What a step does to the stack of file operations.                       *)
LEMMA StackStep ==
  ASSUME EngineTypeOK, [Next]_vars
  PROVE  \/ stack' = stack
         \/ \E q \in Requests : BeginFile(q)
         \/ WriteFile
         \/ /\ FinishFile \/ FailFile
            /\ Len(stack') = Len(stack) - 1
            /\ \A i \in 1..Len(stack') : stack'[i] = stack[i] /\ i \in 1..Len(stack)
<1>1. CASE \E q \in Sendable : Request(q)
  <2>1. PICK q \in Requests : Request(q)
    BY <1>1, SendableTypes
  <2>2. BeginFile(q) \/ stack' = stack
    BY <2>1 DEF Request, FailModelOp, Write, Undo, Apply
  <2> QED
    BY <2>2
<1>2. CASE FinishFile \/ FailFile
  <2>1. /\ stack # <<>> /\ stack' = Front(stack)
        /\ Len(stack) \in Nat
    BY <1>2, LenProperties DEF FinishFile, FailFile, EngineTypeOK
  <2> QED
    BY <1>2, <2>1, FrameFacts
<1>3. CASE User \/ Read \/ Answer \/ UNCHANGED vars
  BY <1>3 DEF User, Read, Answer, engineVars, vars
<1> QED
  BY <1>1, <1>2, <1>3 DEF Next

(* BeginFile puts one frame that is not written on top.                    *)
LEMMA BegunStack ==
  ASSUME EngineTypeOK, NEW q \in Requests, BeginFile(q)
  PROVE  \A i \in 1..Len(stack') :
           \/ i \in 1..Len(stack) /\ stack'[i] = stack[i]
           \/ /\ stack'[i].request = q /\ ~stack'[i].written
              /\ stack'[i].life = life
              /\ stack'[i].request.revision = Capture.revision
<1> DEFINE new == Began(q)
<1>1. stack' = Append(stack, new) /\ stack \in Seq(Frames) /\ Len(stack) \in Nat
  BY LenProperties DEF BeginFile, EngineTypeOK
<1>2. /\ Len(stack') = Len(stack) + 1
      /\ \A i \in 1..Len(stack) : stack'[i] = stack[i]
      /\ stack'[Len(stack) + 1] = new
  BY <1>1
<1>3. q.revision = Capture.revision /\ new.life = life /\ new.request = q /\ ~new.written
  BY DEF BeginFile, Admitted, Began
<1> HIDE DEF new
<1> QED
  BY <1>1, <1>2, <1>3

(* WriteFile marks the innermost frame and changes no other.               *)
LEMMA WrittenStack ==
  ASSUME EngineTypeOK, WriteFile
  PROVE  /\ Len(stack') = Len(stack)
         /\ Len(stack) \in 1..Len(stack)
         /\ Frame = stack[Len(stack)]
         /\ \A i \in 1..Len(stack) :
              /\ stack'[i].request = stack[i].request
              /\ stack'[i].life = stack[i].life
              /\ i # Len(stack) => stack'[i] = stack[i]
         /\ stack'[Len(stack)].content = doc.content
<1> DEFINE n == Len(stack)
           f == [stack[n] EXCEPT !.content = doc.content, !.written = TRUE]
<1>1. stack # <<>> /\ n \in 1..n /\ Frame = stack[n] /\ Frame \in Frames
  BY FrameFacts DEF WriteFile
<1>2. /\ f \in Frames /\ f.request = stack[n].request /\ f.life = stack[n].life
      /\ f.content = doc.content
  BY <1>1 DEF Frames, EngineTypeOK, ModelTypeOK, Documents
<1>3. stack' = [stack EXCEPT ![n] = f]
  BY <1>1 DEF WriteFile
<1>4. /\ Len([stack EXCEPT ![n] = f]) = n
      /\ \A i \in 1..n : [stack EXCEPT ![n] = f][i] = IF i = n THEN f ELSE stack[i]
  BY <1>1, <1>2, ExceptSeq DEF EngineTypeOK
<1> QED
  BY <1>1, <1>2, <1>3, <1>4

-----------------------------------------------------------------------------
(* Recorded successes. *)

Executed(set, q) == \E a \in set : a.id = q.id /\ a.print = Fingerprint(q)

WrittenIsApplied ==
  \A i \in 1..Len(stack) : stack[i].written => Executed(applied, stack[i].request)

LEMMA AddedIsExecuted ==
  ASSUME NEW q, NEW c, NEW l
  PROVE  Executed(applied \cup {Application(q, c, l)}, q)
<1>1. Application(q, c, l).id = q.id /\ Application(q, c, l).print = Fingerprint(q)
  BY DEF Application
<1> QED
  BY <1>1 DEF Executed

(* What a step can record as completed.                                    *)
LEMMA RecordsStep ==
  ASSUME EngineTypeOK, [Next]_vars
  PROVE  \A i \in Ids : records'[i].state = "completed" =>
           \/ records'[i] = records[i]
           \/ \E q \in Requests :
                /\ records'[i] = Record(q, "completed") /\ i = q.id
                /\ \/ \E c \in Nat : applied' = applied \cup {Application(q, c, life)}
                   \/ stack # <<>> /\ Frame.written /\ q = Frame.request
<1> SUFFICES ASSUME NEW i \in Ids, records'[i].state = "completed"
             PROVE  \/ records'[i] = records[i]
                    \/ \E q \in Requests :
                         /\ records'[i] = Record(q, "completed") /\ i = q.id
                         /\ \/ \E c \in Nat : applied' = applied \cup {Application(q, c, life)}
                            \/ stack # <<>> /\ Frame.written /\ q = Frame.request
  OBVIOUS
<1>1. /\ records \in [Ids -> Records] /\ EpochRecords \in [Ids -> Records]
      /\ EpochRecords[i] = records[i] \/ EpochRecords[i] = NoRecord
      /\ NoRecord.state # "completed"
      /\ doc.content \in Nat
  BY DEF EngineTypeOK, ModelTypeOK, Documents, EpochRecords, NoRecord, Records
<1>2. \A q, s : Record(q, s).state = s
  BY DEF Record
<1>3. ASSUME NEW q \in Requests, NEW s \in {"running", "completed", "failed"},
             NEW table \in {records, EpochRecords}, Enter(table, q, s)
      PROVE  \/ records'[i] = records[i]
             \/ records'[i] = Record(q, s) /\ i = q.id /\ s = "completed"
  <2>1. table \in [Ids -> Records] /\ table[i] \in {records[i], NoRecord}
    BY <1>1
  <2>2. records' = [table EXCEPT ![q.id] = Record(q, s)]
    BY <1>3 DEF Enter
  <2>3. CASE i = q.id
    BY <1>2, <2>1, <2>2, <2>3
  <2>4. CASE i # q.id
    BY <1>1, <2>1, <2>2, <2>4
  <2> QED
    BY <2>3, <2>4
<1>4. CASE \E q \in Sendable : Request(q)
  <2>1. PICK q \in Requests : Request(q)
    BY <1>4, SendableTypes
  <2>2. CASE FailModelOp(q)
    BY <1>3, <2>2 DEF FailModelOp
  <2>3. CASE BeginFile(q)
    BY <1>3, <2>3 DEF BeginFile
  <2>4. CASE Write(q) \/ Undo(q)
    <3>1. PICK s \in {"completed", "failed"} :
            /\ Enter(EpochRecords, q, s)
            /\ applied' = applied \cup {Application(q, doc.content, life)}
      BY <2>4 DEF Write, Undo, Apply
    <3> QED
      BY <1>1, <1>3, <3>1
  <2> QED
    BY <2>1, <2>2, <2>3, <2>4 DEF Request
<1>5. CASE FinishFile
  <2>1. PICK s \in {"completed", "failed"} : Enter(records, Frame.request, s)
    BY <1>5 DEF FinishFile
  <2>2. stack # <<>> /\ Frame.written /\ Frame.request \in Requests
    BY <1>5, FrameFacts DEF FinishFile
  <2> QED
    BY <1>3, <2>1, <2>2
<1>6. CASE FailFile
  <2>1. Frame.request \in Requests
    BY <1>6, FrameFacts DEF FailFile
  <2> QED
    BY <1>3, <1>6, <2>1 DEF FailFile
<1>7. CASE Answer
  BY <1>1, <1>7 DEF Answer
<1>8. CASE User \/ Read \/ WriteFile \/ UNCHANGED vars
  BY <1>8 DEF User, Read, WriteFile, engineVars, vars
<1> QED
  BY <1>4, <1>5, <1>6, <1>7, <1>8 DEF Next

LEMMA AppliedGrows ==
  ASSUME EngineTypeOK, [Next]_vars
  PROVE  applied \subseteq applied'
BY AppliedStep

LEMMA WrittenInv ==
  ASSUME EngineTypeOK, WrittenIsApplied, [Next]_vars
  PROVE  WrittenIsApplied'
<1>1. \A q : Executed(applied, q) => Executed(applied', q)
  BY AppliedGrows DEF Executed
<1>2. CASE stack' = stack
  BY <1>1, <1>2 DEF WrittenIsApplied
<1>3. ASSUME NEW q \in Requests, BeginFile(q) PROVE WrittenIsApplied'
  BY <1>1, <1>3, BegunStack DEF WrittenIsApplied
<1>4. CASE WriteFile
  <2>1. applied' = applied \cup {Application(Frame.request, doc.content, Frame.life)}
    BY <1>4 DEF WriteFile
  <2>2. Executed(applied', Frame.request)
    BY <2>1, AddedIsExecuted
  <2> QED
    BY <1>1, <1>4, <2>2, WrittenStack DEF WrittenIsApplied
<1>5. CASE \A i \in 1..Len(stack') : stack'[i] = stack[i] /\ i \in 1..Len(stack)
  BY <1>1, <1>5 DEF WrittenIsApplied
<1> QED
  BY <1>2, <1>3, <1>4, <1>5, StackStep

(* A recorded success, which every retry is answered with, stands for an   *)
(* execution under the same id with the same parameters (record_terminal,  *)
(* perform_operation, perform_model_file_operation).                       *)
THEOREM SuccessesAreTrue == Spec => []SuccessWasApplied
<1>1. EngineInit => SuccessWasApplied /\ WrittenIsApplied
  BY DEF EngineInit, SuccessWasApplied, WrittenIsApplied, NoRecord
<1>2. ASSUME EngineTypeOK, WrittenIsApplied, SuccessWasApplied, [Next]_vars
      PROVE  SuccessWasApplied'
  <2> SUFFICES ASSUME NEW i \in Ids, records'[i].state = "completed"
               PROVE  \E a \in applied' : a.id = i /\ a.print = records'[i].print
    BY DEF SuccessWasApplied
  <2>1. CASE records'[i] = records[i]
    BY <1>2, <2>1, AppliedGrows DEF SuccessWasApplied
  <2>2. ASSUME NEW q \in Requests, records'[i] = Record(q, "completed"), i = q.id
        PROVE  Executed(applied', q) => \E a \in applied' : a.id = i /\ a.print = records'[i].print
    BY <2>2 DEF Executed, Record
  <2>3. ASSUME NEW q \in Requests, NEW c \in Nat,
               applied' = applied \cup {Application(q, c, life)}
        PROVE  Executed(applied', q)
    BY <2>3, AddedIsExecuted
  <2>4. ASSUME stack # <<>>, Frame.written PROVE Executed(applied', Frame.request)
    <3>1. Executed(applied, Frame.request)
      BY <1>2, <2>4, FrameFacts DEF WrittenIsApplied
    <3> QED
      BY <1>2, <3>1, AppliedGrows DEF Executed
  <2> QED
    BY <1>2, <2>1, <2>2, <2>3, <2>4, RecordsStep
<1> QED
  BY <1>1, <1>2, WrittenInv, TypeCorrect, PTL DEF Spec

-----------------------------------------------------------------------------
(* Recorded results stay. *)

(* If file operations pump no events, what is executing is alone and       *)
(* recorded as running: its end finds no result to replace.                *)
RunningAlone ==
  /\ Len(stack) <= 1
  /\ stack # <<>> => records[Frame.request.id].state = "running"

(* A request is recorded in a table that has nothing under its id, and     *)
(* leaves every other record of the epoch as it was.                       *)
LEMMA RequestSticks ==
  ASSUME EngineTypeOK, NEW q \in Requests, Request(q),
         NEW i \in Ids, records[i].state \in {"completed", "failed"}, cacheGuid' = cacheGuid
  PROVE  records'[i] = records[i]
<1>1. /\ Admitted(q)
      /\ SyncCacheEpoch
      /\ \E s \in {"running", "completed", "failed"} : Enter(EpochRecords, q, s)
  BY DEF Request, FailModelOp, BeginFile, Write, Undo, Apply
<1>2. EpochRecords = records
  BY <1>1 DEF SyncCacheEpoch, EpochRecords
<1>3. i # q.id
  BY <1>1, <1>2 DEF Admitted, NoRecord
<1> QED
  BY <1>1, <1>2, <1>3 DEF Enter, EngineTypeOK

LEMMA RunningAloneStep ==
  ASSUME ~Pumps, EngineTypeOK, RunningAlone, [Next]_vars
  PROVE  RunningAlone'
<1>1. /\ stack \in Seq(Frames) /\ Len(stack) \in Nat
      /\ records \in [Ids -> Records] /\ EpochRecords \in [Ids -> Records]
  BY DEF EngineTypeOK, EpochRecords, Records
<1>2. CASE stack' = <<>>
  BY <1>2 DEF RunningAlone
<1>3. ASSUME stack = <<>>, stack' = stack PROVE RunningAlone'
  BY <1>3 DEF RunningAlone
<1>4. CASE \E q \in Sendable : Request(q)
  <2>1. PICK q \in Requests : Request(q)
    BY <1>4, SendableTypes
  <2>2. stack = <<>>
    BY <2>1 DEF Request, FailModelOp, BeginFile, Write, Undo, Responsive
  <2>3. CASE BeginFile(q)
    <3> DEFINE f == Began(q)
    <3>1. stack' = <<f>> /\ records' = [EpochRecords EXCEPT ![q.id] = Record(q, "running")]
      BY <2>2, <2>3 DEF BeginFile, Enter
    <3>2. Len(stack') = 1 /\ Last(stack') = f
      BY <3>1 DEF Last
    <3>3. q.id \in Ids /\ records'[q.id].state = "running"
      BY <1>1, <3>1 DEF Requests, Record
    <3>4. f.request = q
      BY DEF Began
    <3> HIDE DEF f
    <3> QED
      BY <3>2, <3>3, <3>4 DEF RunningAlone, Frame
  <2>4. CASE FailModelOp(q) \/ Write(q) \/ Undo(q)
    BY <1>3, <2>2, <2>4 DEF FailModelOp, Write, Undo, Apply
  <2> QED
    BY <2>1, <2>3, <2>4 DEF Request
<1>5. CASE WriteFile
  <2>1. /\ stack # <<>> /\ records' = records
        /\ stack' = [stack EXCEPT ![Len(stack)] =
                       [@ EXCEPT !.content = doc.content, !.written = TRUE]]
    BY <1>5 DEF WriteFile
  <2>2. /\ Len(stack') = Len(stack) /\ stack' # <<>>
        /\ stack'[Len(stack)].request = stack[Len(stack)].request
    BY <1>1, <2>1, FrameFacts DEF Frames
  <2> QED
    BY <2>1, <2>2 DEF RunningAlone, Frame, Last
<1>6. CASE FinishFile \/ FailFile
  <2>1. stack # <<>> /\ stack' = Front(stack)
    BY <1>6 DEF FinishFile, FailFile
  <2>2. Front(stack) \in Seq(Frames) /\ Len(Front(stack)) = 0
    BY <1>1, <2>1, FrameFacts DEF RunningAlone
  <2> QED
    BY <1>2, <2>1, <2>2
<1>7. CASE User \/ Read \/ Answer
  BY <1>3, <1>7 DEF User, Read, Answer, Responsive, engineVars
<1>8. CASE UNCHANGED vars
  BY <1>8 DEF vars, engineVars, RunningAlone, Frame
<1> QED
  BY <1>4, <1>5, <1>6, <1>7, <1>8 DEF Next

(* While the cache epoch lasts a recorded result is never replaced: every  *)
(* retry of an operation is answered as its first execution was            *)
(* (prepare_request, record_terminal).  It needs that file operations pump *)
(* no events.                                                              *)
THEOREM RecordedResultsStick ==
  ASSUME ~Pumps
  PROVE  Spec => ResultsStick
<1>1. EngineInit => RunningAlone
  BY DEF EngineInit, RunningAlone
<1>2. ASSUME EngineTypeOK, RunningAlone, [Next]_vars
      PROVE  [\A i \in Ids :
                /\ records[i].state \in {"completed", "failed"}
                /\ cacheGuid' = cacheGuid
                => records'[i] = records[i]]_vars
  <2> SUFFICES ASSUME NEW i \in Ids, records[i].state \in {"completed", "failed"},
                      cacheGuid' = cacheGuid
               PROVE  records'[i] = records[i]
    OBVIOUS
  <2>1. CASE \E q \in Sendable : Request(q)
    BY <1>2, <2>1, RequestSticks, SendableTypes
  <2>2. CASE Answer
    BY <1>2, <2>2 DEF Answer, SyncCacheEpoch, EpochRecords
  <2>3. CASE FinishFile \/ FailFile
    <3>1. /\ stack # <<>>
          /\ \E s \in {"completed", "failed"} : Enter(records, Frame.request, s)
      BY <2>3 DEF FinishFile, FailFile
    <3>2. i # Frame.request.id
      BY <1>2, <3>1 DEF RunningAlone
    <3> QED
      BY <1>2, <3>1, <3>2 DEF Enter, EngineTypeOK
  <2>4. CASE User \/ Read \/ WriteFile \/ UNCHANGED vars
    BY <2>4 DEF User, Read, WriteFile, engineVars, vars
  <2> QED
    BY <1>2, <2>1, <2>2, <2>3, <2>4 DEF Next
<1> QED
  BY <1>1, <1>2, RunningAloneStep, TypeCorrect, PTL DEF Spec, ResultsStick

(* If file operations pump events, what is executing began in the present  *)
(* life, is recorded as running and has only operations of this life       *)
(* nested in it, or it began in a life that is past.                       *)
RunningOfLife ==
  \A i \in 1..Len(stack) : stack[i].life = life =>
    /\ records[stack[i].request.id].state = "running"
    /\ \A j \in i..Len(stack) : stack[j].life = life

(* sync_cache_epoch keeps the records of a life in which something is      *)
(* executing.                                                              *)
LEMMA SyncKeepsRunning ==
  ASSUME EngineTypeOK, EngineInv, RunningOfLife
  PROVE  \A i \in 1..Len(stack) : stack[i].life = life =>
           /\ EpochRecords[stack[i].request.id].state = "running"
           /\ \A j \in i..Len(stack) : stack[j].life = life
<1>1. Capture.guid = doc.guid
  BY EpochKeepsExecuted
<1>2. ASSUME NEW i \in 1..Len(stack), stack[i].life = life PROVE cacheGuid = doc.guid
  BY <1>2 DEF EngineInv, ExecutedIsRecorded
<1> QED
  BY <1>1, <1>2 DEF RunningOfLife, EpochRecords

(* A request that is recorded takes an id under which nothing of the life  *)
(* is executing.                                                           *)
LEMMA EnterKeepsRunning ==
  ASSUME EngineTypeOK, EngineInv, RunningOfLife,
         NEW q \in Requests, Admitted(q), NEW s, Enter(EpochRecords, q, s),
         NEW i \in 1..Len(stack), stack[i].life = life
  PROVE  records'[stack[i].request.id].state = "running"
<1>1. EpochRecords[stack[i].request.id].state = "running"
  BY SyncKeepsRunning
<1>2. stack[i].request.id # q.id
  BY <1>1 DEF Admitted, NoRecord
<1>3. EpochRecords \in [Ids -> Records] /\ stack[i].request.id \in Ids
  BY ExecutedIds DEF EngineTypeOK, EpochRecords, Records
<1> QED
  BY <1>1, <1>2, <1>3 DEF Enter

LEMMA RunningOfLifeStep ==
  ASSUME EngineTypeOK, EngineInv, RunningOfLife, [Next]_vars
  PROVE  RunningOfLife'
<1>1. Len(stack) \in Nat /\ records \in [Ids -> Records]
  BY LenProperties DEF EngineTypeOK
<1>2. CASE \E q \in Sendable : Request(q)
  <2>1. PICK q \in Requests : Request(q)
    BY <1>2, SendableTypes
  <2>2. /\ Admitted(q) /\ life' = life
        /\ \E s \in {"running", "completed", "failed"} : Enter(EpochRecords, q, s)
    BY <2>1 DEF Request, FailModelOp, BeginFile, Write, Undo, Apply
  <2>3. ASSUME NEW i \in 1..Len(stack), stack[i].life = life
        PROVE  /\ records'[stack[i].request.id].state = "running"
               /\ \A j \in i..Len(stack) : stack[j].life = life
    BY <1>2, <2>2, <2>3, EnterKeepsRunning, SyncKeepsRunning
  <2>4. CASE stack' = stack
    BY <2>2, <2>3, <2>4 DEF RunningOfLife
  <2>5. CASE BeginFile(q)
    <3> DEFINE new == Began(q)
               n == Len(stack) + 1
    <3>1. /\ stack' = Append(stack, new) /\ stack \in Seq(Frames)
          /\ records' = [EpochRecords EXCEPT ![q.id] = Record(q, "running")]
      BY <2>5 DEF BeginFile, Enter, EngineTypeOK
    <3>2. /\ Len(stack') = n
          /\ \A i \in 1..Len(stack) : stack'[i] = stack[i]
          /\ stack'[n].request = q /\ stack'[n].life = life
      BY <3>1 DEF Began
    <3>4. records'[q.id].state = "running"
      BY <3>1 DEF Requests, Record, EngineTypeOK, EpochRecords
    <3>5. \A i \in 1..n : i \in 1..Len(stack) \/ i = n
      BY <1>1
    <3>6. ASSUME NEW i \in 1..n, stack'[i].life = life
          PROVE  /\ records'[stack'[i].request.id].state = "running"
                 /\ \A j \in i..n : stack'[j].life = life
      <4>1. CASE i = n
        BY <1>1, <3>2, <3>4, <4>1
      <4>2. CASE i \in 1..Len(stack)
        <5>1. \A j \in i..n : (j \in i..Len(stack) /\ j \in 1..Len(stack)) \/ j = n
          BY <1>1, <4>2
        <5> QED
          BY <2>3, <3>2, <3>6, <4>2, <5>1
      <4> QED
        BY <3>5, <4>1, <4>2
    <3> QED
      BY <2>2, <3>2, <3>6 DEF RunningOfLife
  <2> QED
    BY <2>1, <2>4, <2>5 DEF Request, FailModelOp, Write, Undo, Apply
<1>3. CASE Answer
  BY <1>3, SyncKeepsRunning DEF Answer, RunningOfLife
<1>4. CASE WriteFile
  <2>1. records' = records /\ life' = life
    BY <1>4 DEF WriteFile
  <2> QED
    BY <1>1, <1>4, <2>1, WrittenStack DEF RunningOfLife
<1>5. CASE FinishFile \/ FailFile
  <2> DEFINE n == Len(stack)
  <2>1. PICK s \in {"completed", "failed"} : Enter(records, Frame.request, s)
    BY <1>5 DEF FinishFile, FailFile
  <2>2. /\ stack # <<>> /\ stack' = Front(stack) /\ life' = life
    BY <1>5 DEF FinishFile, FailFile, modelVars
  <2>3. /\ Len(stack') = n - 1 /\ n \in 1..n /\ Frame = stack[n]
        /\ \A i \in 1..(n - 1) : stack'[i] = stack[i]
    BY <2>2, FrameFacts
  <2>4. ASSUME NEW i \in 1..(n - 1), stack[i].life = life
        PROVE  /\ records'[stack[i].request.id].state = "running"
               /\ \A j \in i..(n - 1) : stack[j].life = life
    <3>1. i \in 1..n /\ n \in i..n /\ i # n /\ \A j \in i..(n - 1) : j \in i..n
      BY <1>1, <2>3
    <3>2. /\ records[stack[i].request.id].state = "running"
          /\ \A j \in i..n : stack[j].life = life
      BY <2>4, <3>1 DEF RunningOfLife
    <3>3. stack[i].request.id # Frame.request.id
      BY <2>3, <2>4, <3>1, <3>2 DEF EngineInv, ExecutedIsRecorded
    <3>4. stack[i].request.id \in Ids
      BY <3>1, ExecutedIds
    <3> QED
      BY <1>1, <2>1, <3>1, <3>2, <3>3, <3>4 DEF Enter
  <2>5. \A i \in 1..(n - 1) : \A j \in i..(n - 1) : j \in 1..(n - 1)
    BY <1>1
  <2> QED
    BY <2>2, <2>3, <2>4, <2>5 DEF RunningOfLife
<1>6. CASE User
  <2>1. records' = records /\ stack' = stack
    BY <1>6 DEF User, engineVars
  <2>2. CASE life' = life
    BY <2>1, <2>2 DEF RunningOfLife
  <2>3. CASE UserSave \/ SwitchModel
    <3>1. life' = life + 1
      BY <2>3 DEF UserSave, SwitchModel
    <3>2. \A i \in 1..Len(stack) : stack[i].life # life'
      BY <3>1, LifeTypes DEF EngineInv, OfPastLives
    <3> QED
      BY <2>1, <3>2 DEF RunningOfLife
  <2> QED
    BY <1>6, <2>2, <2>3 DEF User, UserStep, UserCommit, UserUndo, UserRedo
<1>7. CASE Read \/ UNCHANGED vars
  BY <1>7 DEF Read, Snapshot, engineVars, vars, modelVars, RunningOfLife
<1> QED
  BY <1>2, <1>3, <1>4, <1>5, <1>6, <1>7 DEF Next

(* If file operations do pump events, only one thing replaces a recorded   *)
(* result: the end of an operation that began in a former life and has the *)
(* same id (perform_model_file_operation and record_terminal, which do not *)
(* look at the identity).                                                  *)
ReplacedAcrossLives ==
  [][\A i \in Ids :
       /\ records[i].state \in {"completed", "failed"}
       /\ cacheGuid' = cacheGuid
       => \/ records'[i] = records[i]
          \/ /\ FinishFile \/ FailFile
             /\ Frame.request.id = i
             /\ Frame.life < life]_vars

THEOREM ResultsStickWithinLife == Spec => ReplacedAcrossLives
<1>1. EngineInit => RunningOfLife
  BY DEF EngineInit, RunningOfLife
<1>2. ASSUME EngineTypeOK, EngineInv, RunningOfLife, [Next]_vars
      PROVE  [\A i \in Ids :
                /\ records[i].state \in {"completed", "failed"}
                /\ cacheGuid' = cacheGuid
                => \/ records'[i] = records[i]
                   \/ /\ FinishFile \/ FailFile
                      /\ Frame.request.id = i
                      /\ Frame.life < life]_vars
  <2> SUFFICES ASSUME NEW i \in Ids, records[i].state \in {"completed", "failed"},
                      cacheGuid' = cacheGuid, records'[i] # records[i]
               PROVE  /\ FinishFile \/ FailFile
                      /\ Frame.request.id = i
                      /\ Frame.life < life
    OBVIOUS
  <2>1. ~\E q \in Sendable : Request(q)
    BY <1>2, RequestSticks, SendableTypes
  <2>2. ~Answer
    BY DEF Answer, SyncCacheEpoch, EpochRecords
  <2>3. ~(User \/ Read \/ WriteFile \/ UNCHANGED vars)
    BY DEF User, Read, WriteFile, engineVars, vars
  <2>4. FinishFile \/ FailFile
    BY <1>2, <2>1, <2>2, <2>3 DEF Next
  <2>5. /\ stack # <<>>
        /\ \E s \in {"completed", "failed"} : Enter(records, Frame.request, s)
    BY <2>4 DEF FinishFile, FailFile
  <2>6. Frame.request.id = i
    BY <1>2, <2>5 DEF Enter, EngineTypeOK
  <2>7. Frame.life # life
    BY <1>2, <2>5, <2>6, FrameFacts DEF RunningOfLife
  <2>8. Frame.life <= life /\ Frame.life \in Nat /\ life \in Nat
    BY <1>2, <2>5, FrameFacts, LifeTypes DEF EngineInv, OfPastLives
  <2> QED
    BY <2>4, <2>6, <2>7, <2>8
<1> QED
  BY <1>1, <1>2, RunningOfLifeStep, EngineInvariant, TypeCorrect, PTL DEF Spec, ReplacedAcrossLives

-----------------------------------------------------------------------------
(* Snapshots and files. *)

(* The inductive core of both: a revision of the present life lies at or   *)
(* below the tracked one, and at that very one it stands for the present   *)
(* content.                                                                *)
Behind(l, r) == l = life => ms.guid = doc.guid /\ r <= ms.revision

Matches(l, r, c) ==
  l = life => /\ ms.guid = doc.guid
              /\ r <= ms.revision
              /\ r = ms.revision => c = doc.content

FileInv ==
  /\ \A f \in files :
       f.ended <= life /\ (f.began = f.ended => Matches(f.ended, f.revision, f.content))
  /\ \A i \in 1..Len(stack) :
       LET f == stack[i] IN
       /\ Behind(f.life, f.request.revision)
       /\ f.written => Matches(f.life, f.request.revision, f.content)

(* What a step does to the document and the tracker.                       *)
LEMMA DocumentStep ==
  ASSUME EngineTypeOK, [Next]_vars
  PROVE  \/ doc' = doc /\ ms' \in {ms, Capture} /\ life' = life
         \/ /\ doc'.guid = doc.guid /\ ms'.guid = doc.guid /\ life' = life
            /\ ms.guid = doc.guid => ms'.revision > ms.revision
         \/ life' = life + 1
<1>1. /\ doc \in Documents /\ ms \in Snapshots /\ Capture \in Snapshots
      /\ Capture.guid = doc.guid /\ (ms.guid = doc.guid => Capture = ms)
  BY CaptureFacts DEF EngineTypeOK, ModelTypeOK
<1>2. CASE User
  <2>1. /\ TransactionChanged(ms, doc.guid).guid = doc.guid
        /\ ms.guid = doc.guid => TransactionChanged(ms, doc.guid).revision > ms.revision
    BY <1>1 DEF TransactionChanged, Track, Snapshots
  <2>2. CASE UserCommit
    BY <1>1, <2>1, <2>2 DEF UserCommit, Committed, Documents
  <2>3. CASE UserUndo
    BY <1>1, <2>1, <2>3 DEF UserUndo, Undone, Documents
  <2>4. CASE UserRedo
    BY <1>1, <2>1, <2>4 DEF UserRedo, Redone, Documents
  <2>5. CASE UserSave \/ SwitchModel
    BY <2>5 DEF UserSave, SwitchModel
  <2> QED
    BY <1>2, <2>2, <2>3, <2>4, <2>5 DEF User, UserStep
<1>3. CASE \E q \in Sendable : Request(q)
  <2>1. PICK q \in Requests : Request(q)
    BY <1>3, SendableTypes
  <2>2. ASSUME NEW d, d.guid = doc.guid, NEW k \in 1..MaxStep, NEW s, Apply(q, d, k, s)
        PROVE  /\ doc'.guid = doc.guid /\ ms'.guid = doc.guid /\ life' = life
               /\ ms.guid = doc.guid => ms'.revision > ms.revision
    <3>1. doc' = d /\ ms' = [Capture EXCEPT !.revision = @ + k] /\ life' = life
      BY <2>2 DEF Apply
    <3>2. k \in Nat /\ k > 0
      BY ModelAssumption
    <3> QED
      BY <1>1, <2>2, <3>1, <3>2 DEF Snapshots
  <2>3. Committed(doc).guid = doc.guid /\ Undone(doc).guid = doc.guid
    BY <1>1 DEF Committed, Undone, Documents
  <2>4. CASE Write(q)
    <3>1. PICK k \in 1..MaxStep, s \in {"completed", "failed"} :
            Apply(q, Committed(doc), k, s)
      BY <2>4 DEF Write
    <3> QED
      BY <2>2, <2>3, <3>1
  <2>6. CASE Undo(q)
    <3>1. PICK k \in 1..MaxStep : Apply(q, Undone(doc), k, "completed")
      BY <2>6 DEF Undo
    <3> QED
      BY <2>2, <2>3, <3>1
  <2>5. CASE FailModelOp(q) \/ BeginFile(q)
    BY <2>5 DEF FailModelOp, BeginFile
  <2> QED
    BY <2>1, <2>4, <2>5, <2>6 DEF Request
<1>4. CASE Read \/ Answer \/ WriteFile \/ FinishFile \/ FailFile \/ UNCHANGED vars
  BY <1>4 DEF Read, Snapshot, Answer, WriteFile, FinishFile, FailFile, vars, modelVars
<1> QED
  BY <1>2, <1>3, <1>4 DEF Next

LEMMA BehindPersists ==
  ASSUME EngineTypeOK, [Next]_vars,
         NEW l \in Nat, l <= life, NEW r \in Nat, NEW c
  PROVE  /\ Behind(l, r) => Behind(l, r)'
         /\ Matches(l, r, c) => Matches(l, r, c)'
         /\ l <= life'
<1>1. /\ ms.revision \in Nat /\ ms'.revision \in Nat /\ life \in Nat
      /\ ms.guid = doc.guid => Capture = ms
  BY NextType DEF EngineTypeOK, ModelTypeOK, Snapshots, Capture
<1>2. CASE life' = life + 1
  BY <1>1, <1>2 DEF Behind, Matches
<1>3. CASE life' = life
  BY <1>1, <1>3, DocumentStep DEF Behind, Matches
<1> QED
  BY <1>2, <1>3, DocumentStep

LEMMA RevisionTypes ==
  ASSUME EngineTypeOK
  PROVE  /\ \A f \in files : f.revision \in Nat /\ f.ended \in Nat
         /\ \A i \in 1..Len(stack) : stack[i].request.revision \in Nat
<1>1. ASSUME NEW i \in 1..Len(stack) PROVE stack[i].request.revision \in Nat
  <2>1. stack[i] \in Frames
    BY ElementOfSeq DEF EngineTypeOK
  <2> QED
    BY <2>1 DEF Frames, FileRequests, Requests
<1> QED
  BY <1>1 DEF EngineTypeOK, Reports

(* The check after a file was written: what is reported by an operation of *)
(* this life is the present content at the present snapshot.               *)
LEMMA FilesStep ==
  ASSUME EngineTypeOK, FileInv, [Next]_vars, NEW f \in files', f \notin files
  PROVE  /\ f.ended = life
         /\ UNCHANGED <<doc, life, seen>> /\ ms' = Capture
         /\ f.began = f.ended =>
              ms.guid = doc.guid /\ f.revision = ms.revision /\ f.content = doc.content
<1>1. CASE FinishFile
  <2> DEFINE q == Frame.request
  <2>1. /\ stack # <<>> /\ Frame = stack[Len(stack)] /\ Len(stack) \in 1..Len(stack)
        /\ Frame.written
    BY <1>1, FrameFacts DEF FinishFile
  <2>2. /\ Capture = [guid |-> q.guid, revision |-> q.revision]
        /\ f = Report(q, Frame)
        /\ UNCHANGED <<doc, life, seen>> /\ ms' = Capture
    BY <1>1 DEF FinishFile
  <2>3. /\ f.began = Frame.life /\ f.ended = life
        /\ f.revision = q.revision /\ f.content = Frame.content
        /\ Capture.revision = q.revision
    BY <2>2 DEF Report
  <2>4. ASSUME Frame.life = life
        PROVE  ms.guid = doc.guid /\ q.revision = ms.revision /\ Frame.content = doc.content
    <3>1. Behind(Frame.life, q.revision) /\ Matches(Frame.life, q.revision, Frame.content)
      BY <2>1 DEF FileInv
    <3>2. ms.guid = doc.guid /\ Capture = ms
      BY <2>4, <3>1 DEF Behind, Capture
    <3> QED
      BY <2>3, <2>4, <3>1, <3>2 DEF Matches
  <2> QED
    BY <2>2, <2>3, <2>4
<1>2. CASE \E q \in Sendable : Request(q)
  BY <1>2 DEF Request, FailModelOp, Write, Undo, Apply, BeginFile
<1>3. CASE User \/ Read \/ Answer \/ WriteFile \/ FailFile \/ UNCHANGED vars
  BY <1>3 DEF User, Read, Answer, WriteFile, FailFile, engineVars, vars
<1> QED
  BY <1>1, <1>2, <1>3 DEF Next

LEMMA FileInvStep ==
  ASSUME EngineTypeOK, EngineInv, FileInv, [Next]_vars
  PROVE  FileInv'
<1>1. EngineTypeOK' /\ ms \in Snapshots /\ ms' \in Snapshots
  BY NextType DEF EngineTypeOK, ModelTypeOK
<1>2. ASSUME NEW f \in files'
      PROVE  f.ended <= life' /\ (f.began = f.ended => Matches(f.ended, f.revision, f.content)')
  <2>1. CASE f \in files
    <3>1. /\ f.ended <= life /\ f.ended \in Nat /\ f.revision \in Nat
          /\ f.began = f.ended => Matches(f.ended, f.revision, f.content)
      BY <2>1, RevisionTypes DEF FileInv
    <3> QED
      BY <3>1, BehindPersists
  <2>2. CASE f \notin files
    <3>1. /\ f.ended = life /\ UNCHANGED <<doc, life>> /\ ms' = Capture
          /\ f.began = f.ended =>
               ms.guid = doc.guid /\ f.revision = ms.revision /\ f.content = doc.content
      BY <2>2, FilesStep
    <3>2. ms.guid = doc.guid => ms' = ms
      BY <3>1 DEF Capture
    <3>3. ms.revision \in Nat /\ life \in Nat
      BY <1>1, LifeTypes DEF Snapshots
    <3> QED
      BY <3>1, <3>2, <3>3 DEF Matches
  <2> QED
    BY <2>1, <2>2
<1> DEFINE Good(e) ==
      /\ Behind(e.life, e.request.revision)
      /\ e.written => Matches(e.life, e.request.revision, e.content)
<1>3. ASSUME NEW i \in 1..Len(stack)
      PROVE  /\ Behind(stack[i].life, stack[i].request.revision)
             /\ stack[i].written =>
                  Matches(stack[i].life, stack[i].request.revision, stack[i].content)
             /\ stack[i].life <= life /\ stack[i].life \in Nat /\ stack[i].request.revision \in Nat
  BY RevisionTypes, LifeTypes DEF FileInv, EngineInv, OfPastLives
<1>4. ASSUME NEW i \in 1..Len(stack), NEW e, e = stack[i]
      PROVE  Good(e)'
  <2> DEFINE l == e.life
             r == e.request.revision
  <2>1. /\ Behind(l, r) /\ (e.written => Matches(l, r, e.content))
        /\ l <= life /\ l \in Nat /\ r \in Nat
    BY <1>3, <1>4
  <2> QED
    BY <2>1, BehindPersists
<1>5. ASSUME NEW i \in 1..Len(stack'), NEW e, e = stack'[i]
      PROVE  Good(e)'
  <2>1. CASE i \in 1..Len(stack) /\ stack'[i] = stack[i]
    BY <1>4, <1>5, <2>1
  <2>2. ASSUME NEW q \in Requests, BeginFile(q), ~e.written,
               e.life = life, e.request.revision = Capture.revision
        PROVE  Good(e)'
    <3>1. doc' = doc /\ ms' = Capture
      BY <2>2 DEF BeginFile
    <3>2. ms'.guid = doc'.guid /\ e.request.revision <= ms'.revision
      BY <1>1, <2>2, <3>1, CaptureFacts DEF EngineTypeOK, Snapshots
    <3> QED
      BY <2>2, <3>2 DEF Behind
  <2>3. CASE WriteFile
    <3>1. /\ i \in 1..Len(stack) /\ e.request = stack[i].request /\ e.life = stack[i].life
          /\ i # Len(stack) => stack'[i] = stack[i]
          /\ i = Len(stack) => e.content = doc.content
      BY <1>5, <2>3, WrittenStack
    <3>2. doc' = doc /\ ms' = ms /\ life' = life
      BY <2>3 DEF WriteFile
    <3>3. Behind(e.life, e.request.revision)
      BY <1>3, <3>1
    <3>4. CASE i = Len(stack)
      BY <3>1, <3>2, <3>3, <3>4 DEF Behind, Matches
    <3> QED
      BY <2>1, <3>1, <3>4
  <2> QED
    BY <1>5, <2>1, <2>2, <2>3, StackStep, BegunStack
<1>6. \A i \in 1..Len(stack') :
        /\ Behind(stack[i].life, stack[i].request.revision)'
        /\ stack'[i].written =>
             Matches(stack[i].life, stack[i].request.revision, stack[i].content)'
  <2> TAKE i \in 1..Len(stack')
  <2>1. PICK e : e = stack'[i]
    OBVIOUS
  <2>2. Good(e)'
    BY <1>5, <2>1
  <2> QED
    BY <2>1, <2>2 DEF Behind, Matches
<1> QED
  BY <1>2, <1>6 DEF FileInv

LEMMA FileInvariant == Spec => []FileInv
<1>1. EngineInit => FileInv
  BY DEF EngineInit, FileInv
<1>2. EngineTypeOK /\ EngineInv /\ FileInv /\ [Next]_vars => FileInv'
  BY FileInvStep
<1> QED
  BY <1>1, <1>2, EngineInvariant, TypeCorrect, PTL DEF Spec

(* A file reported as written for a revision, by an operation that ended   *)
(* in the life it began in, holds the content callers saw at that          *)
(* revision, although the model may change and other operations may run    *)
(* while it is written (the check after the body in                        *)
(* perform_model_file_operation and perform_layout_file_operation).        *)
THEOREM FilesAreOfTheirRevision == Spec => []FilesHoldTheirRevision
<1>1. EngineInit => FilesHoldTheirRevision
  BY DEF EngineInit, FilesHoldTheirRevision
<1>2. ASSUME EngineTypeOK, EngineInv, FileInv, FilesHoldTheirRevision, [Next]_vars
      PROVE  FilesHoldTheirRevision'
  <2> SUFFICES ASSUME NEW f \in files', NEW t \in seen',
                      f.began = f.ended, t.life = f.ended, t.revision = f.revision
               PROVE  t.content = f.content
    BY DEF FilesHoldTheirRevision
  <2>1. FileInv' /\ EngineInv'
    BY <1>2, FileInvStep, NextInv
  <2>2. CASE f \in files /\ t \in seen
    BY <1>2, <2>2 DEF FilesHoldTheirRevision
  <2>3. CASE t \notin seen
    <3>1. ms'.guid = doc'.guid /\ t = Sighting(ms', doc'.content) /\ life' = life
      BY <1>2, <2>3, SeenStep
    <3> QED
      BY <2>1, <3>1 DEF FileInv, Matches, Sighting
  <2>4. CASE f \notin files /\ t \in seen
    <3>1. /\ f.ended = life
          /\ ms.guid = doc.guid /\ f.revision = ms.revision /\ f.content = doc.content
      BY <1>2, <2>4, FilesStep
    <3> QED
      BY <1>2, <2>4, <3>1 DEF EngineInv, SeenMatchesDocument
  <2> QED
    BY <2>2, <2>3, <2>4
<1> QED
  BY <1>1, <1>2, FileInvariant, EngineInvariant, TypeCorrect, PTL DEF Spec

(* With operations among the steps too, a snapshot's revision identifies   *)
(* the content read in its life (model_state.rb, perform_operation).       *)
THEOREM SnapshotsIdentifyContentsOfTheEngine == Spec => []SnapshotsNameContents
<1>1. EngineInit => SnapshotsNameContents
  BY DEF EngineInit, ModelInit, SnapshotsNameContents
<1>2. ASSUME EngineTypeOK, EngineInv, SnapshotsNameContents, [Next]_vars
      PROVE  SnapshotsNameContents'
  <2>1. EngineInv'
    BY <1>2, NextInv
  <2>2. CASE seen' = seen
    BY <1>2, <2>2 DEF SnapshotsNameContents
  <2>3. CASE /\ ms'.guid = doc'.guid /\ life' = life
             /\ seen' = seen \cup {Sighting(ms', doc'.content)}
    <3>1. \A t \in seen' : t.life = life /\ t.revision = ms'.revision =>
            t.content = doc'.content
      BY <2>1, <2>3 DEF EngineInv, SeenMatchesDocument
    <3>2. /\ Sighting(ms', doc'.content).life = life
          /\ Sighting(ms', doc'.content).revision = ms'.revision
          /\ Sighting(ms', doc'.content).content = doc'.content
      BY DEF Sighting
    <3> QED
      BY <1>2, <2>3, <3>1, <3>2 DEF SnapshotsNameContents
  <2> QED
    BY <1>2, <2>2, <2>3, SeenStep
<1> QED
  BY <1>1, <1>2, EngineInvariant, TypeCorrect, PTL DEF Spec

-----------------------------------------------------------------------------
(* The engine implements OnceOnly: a step of the user moves the version or *)
(* leaves it, an application is the abstract Do, and everything else       *)
(* stutters.                                                               *)

doneNow == {Done(a) : a \in applied}

(* Where a step leaves the version, from what it does to the document, the *)
(* tracker and the life.                                                   *)
LEMMA VersionStays ==
  ASSUME EngineTypeOK, doc'.guid = doc.guid, ms' = ms \/ ms' = Capture, life' = life
  PROVE  Version' = Version
<1>1. Capture' = Capture
  BY CaptureFacts DEF EngineTypeOK, Capture
<1> QED
  BY <1>1 DEF Version

VersionAdvanced ==
  /\ Version'.life = Version.life
  /\ Version'.guid = Version.guid
  /\ Version'.revision > Version.revision

LEMMA VersionAdvances ==
  ASSUME EngineTypeOK, NEW k \in Nat \ {0}, doc'.guid = doc.guid,
         ms' = [Capture EXCEPT !.revision = @ + k], life' = life
  PROVE  VersionAdvanced
<1>1. /\ Capture \in Snapshots /\ Capture.guid = doc.guid
      /\ Capture.revision \in Nat
  BY CaptureFacts DEF EngineTypeOK, Snapshots
<1>2. ms'.guid = doc.guid /\ ms'.revision = Capture.revision + k
  BY <1>1 DEF Snapshots
<1>3. Capture' = ms'
  BY <1>2 DEF Capture
<1> QED
  BY <1>1, <1>2, <1>3 DEF Version, VersionAdvanced

LEMMA TransactionMoves ==
  ASSUME EngineTypeOK, doc'.guid = doc.guid, ms' = TransactionChanged(ms, doc.guid),
         life' = life
  PROVE  Version' = Version \/ VersionAdvanced
<1>1. ms \in Snapshots
  BY DEF EngineTypeOK, ModelTypeOK
<1>2. CASE ms.guid = doc.guid
  <2>1. Capture = ms /\ ms' = [Capture EXCEPT !.revision = @ + 1]
    BY <1>2 DEF Capture, TransactionChanged
  <2> QED
    BY <2>1, VersionAdvances
<1>3. CASE ms.guid # doc.guid
  BY <1>3 DEF Capture, TransactionChanged, Track, Version
<1> QED
  BY <1>2, <1>3

LEMMA UserKeepsPromise ==
  ASSUME EngineTypeOK, EngineInv, User
  PROVE  [Promise!Next]_Promise!abstractVars
<1>1. doc \in Documents /\ doneNow' = doneNow
  BY DEF EngineTypeOK, ModelTypeOK, User, engineVars, doneNow
<1>2. CASE UserCommit \/ UserUndo \/ UserRedo
  <2>1. /\ doc'.guid = doc.guid /\ ms' = TransactionChanged(ms, doc.guid)
        /\ life' = life
    BY <1>1, <1>2 DEF UserCommit, UserUndo, UserRedo, Committed, Undone, Redone, Documents
  <2> QED
    BY <1>1, <2>1, TransactionMoves
       DEF doneNow, VersionAdvanced, Promise!Next, Promise!Move, Promise!Advanced,
           Promise!abstractVars
<1>3. CASE UserSave \/ SwitchModel
  <2>1. /\ life' = life + 1
        /\ \/ ms' = ms /\ ms'.guid # doc'.guid
           \/ ms' = Track(doc'.guid)
    BY <1>3, NewLife DEF EngineTypeOK, EngineInv, OfPastLives
  <2>2. Capture'.revision = 0
    BY <2>1 DEF Capture, Track
  <2>3. Version'.life = Version.life + 1 /\ Version'.revision = 0
    BY <2>1, <2>2 DEF Version
  <2> QED
    BY <1>1, <2>3 DEF doneNow, Promise!Next, Promise!Move, Promise!NextLife
<1> QED
  BY <1>2, <1>3 DEF User, UserStep

(* An application that is new is the abstract Do.                          *)
LEMMA ApplicationIsDone ==
  ASSUME EngineTypeOK, EngineInv, NEW q \in Requests, NEW l,
         applied' = applied \cup {Application(q, doc.content, l)},
         \A a \in applied : ~(a.id = q.id /\ a.life = l),
         IF q.op \in ModelOps
         THEN /\ Version = [life |-> l, guid |-> q.guid, revision |-> q.revision]
              /\ VersionAdvanced
         ELSE l <= life /\ Version' = Version
  PROVE  Promise!Next
<1> DEFINE e == Done(Application(q, doc.content, l))
<1>1. e = [id |-> q.id, op |-> q.op, guid |-> q.guid, revision |-> q.revision, life |-> l]
  BY DEF Done, Application, Fingerprint
<1>2. doneNow' = doneNow \cup {e}
  BY DEF doneNow, Done
<1>3. \A d \in doneNow : ~(d.id = e.id /\ d.life = e.life)
  BY <1>1 DEF doneNow, Done
<1>4. e.life = l /\ e.op = q.op /\ e.guid = q.guid /\ e.revision = q.revision
  BY <1>1
<1>5. Version.life = life
  BY DEF Version
<1> HIDE DEF e
<1>6. Promise!Do
  BY <1>2, <1>3, <1>4, <1>5 DEF doneNow, VersionAdvanced, Promise!Do, Promise!Advanced
<1> QED
  BY <1>6 DEF Promise!Next

LEMMA RequestKeepsPromise ==
  ASSUME EngineTypeOK, EngineInv, NEW q \in Requests, Request(q)
  PROVE  [Promise!Next]_Promise!abstractVars
<1>1. doc \in Documents /\ Capture.guid = doc.guid /\ Capture \in Snapshots
  BY CaptureFacts DEF EngineTypeOK, ModelTypeOK
<1>2. CASE FailModelOp(q) \/ BeginFile(q)
  <2>1. doc' = doc /\ ms' = Capture /\ life' = life /\ applied' = applied
    BY <1>2 DEF FailModelOp, BeginFile
  <2> QED
    BY <2>1, VersionStays DEF Promise!abstractVars
<1>3. ASSUME NEW d, d.guid = doc.guid, NEW k \in 1..MaxStep, NEW s,
             Apply(q, d, k, s), Admitted(q), q.op \in ModelOps
      PROVE  Promise!Next
  <2>1. /\ doc'.guid = doc.guid /\ life' = life
        /\ ms' = [Capture EXCEPT !.revision = @ + k]
        /\ applied' = applied \cup {Application(q, doc.content, life)}
    BY <1>3 DEF Apply
  <2>2. k \in Nat \ {0}
    BY ModelAssumption
  <2>3. VersionAdvanced
    BY <2>1, <2>2, VersionAdvances
  <2>4. Version = [life |-> life, guid |-> q.guid, revision |-> q.revision]
    BY <1>1, <1>3 DEF Admitted, Version
  <2>5. \A a \in applied : ~(a.id = q.id /\ a.life = life)
    BY <1>3, EpochKeepsExecuted DEF Admitted
  <2> QED
    BY <1>3, <2>1, <2>3, <2>4, <2>5, ApplicationIsDone
<1>4. CASE Write(q)
  <2>1. Committed(doc).guid = doc.guid /\ q.op \in ModelOps
    BY <1>1, <1>4 DEF Committed, Documents, Write, ModelOps
  <2> QED
    BY <1>3, <1>4, <2>1 DEF Write
<1>5. CASE Undo(q)
  <2>1. Undone(doc).guid = doc.guid /\ q.op \in ModelOps
    BY <1>1, <1>5 DEF Undone, Documents, Undo, ModelOps
  <2> QED
    BY <1>3, <1>5, <2>1 DEF Undo
<1> QED
  BY <1>2, <1>4, <1>5 DEF Request

LEMMA StepKeepsPromise ==
  ASSUME EngineTypeOK, EngineInv, [Next]_vars
  PROVE  [Promise!Next]_Promise!abstractVars
<1>1. CASE User
  BY <1>1, UserKeepsPromise
<1>2. CASE \E q \in Sendable : Request(q)
  BY <1>2, SendableTypes, RequestKeepsPromise
<1>3. CASE WriteFile
  <2>1. /\ Frame.request \in Requests /\ Frame.request.op = "file"
        /\ Len(stack) \in 1..Len(stack) /\ Frame = stack[Len(stack)]
    BY <1>3, FrameFacts DEF WriteFile
  <2>2. Frame.life <= life
    BY <2>1 DEF EngineInv, OfPastLives
  <2>3. \A a \in applied : ~(a.id = Frame.request.id /\ a.life = Frame.life)
    BY <1>3, <2>1 DEF WriteFile, EngineInv, ExecutedIsRecorded
  <2>4. /\ applied' = applied \cup {Application(Frame.request, doc.content, Frame.life)}
        /\ life' = life /\ doc' = doc /\ ms' = ms
    BY <1>3 DEF WriteFile
  <2>5. Version' = Version
    BY <2>4, VersionStays
  <2> QED
    BY <2>1, <2>2, <2>3, <2>4, <2>5, ApplicationIsDone DEF ModelOps
<1>4. CASE Read \/ Answer \/ FinishFile \/ FailFile \/ UNCHANGED vars
  <2>1. /\ doc' = doc /\ life' = life /\ applied' = applied
        /\ ms' = ms \/ ms' = Capture
    BY <1>4 DEF Read, Snapshot, Answer, FinishFile, FailFile, vars, modelVars, engineVars
  <2> QED
    BY <2>1, VersionStays DEF Promise!abstractVars
<1> QED
  BY <1>1, <1>2, <1>3, <1>4 DEF Next

(* The engine implements its promise (KeepsPromise): whatever the user     *)
(* does, whatever is retried and whatever runs while a file is written, an *)
(* operation is done at most once in a life of an identity, and a write    *)
(* only on the version it names, which it moves on (prepare_request,       *)
(* mark_running, transaction_changed).                                     *)
THEOREM EngineImplementsOnceOnly == Spec => KeepsPromise
<1>1. EngineInit => Promise!Init
  BY DEF EngineInit, ModelInit, Opened, Track, Capture, Version, Promise!Init
<1>2. EngineTypeOK /\ EngineInv /\ [Next]_vars => [Promise!Next]_Promise!abstractVars
  BY StepKeepsPromise
<1> QED
  BY <1>1, <1>2, EngineInvariant, TypeCorrect, PTL DEF Spec, KeepsPromise, Promise!Spec
=============================================================================
