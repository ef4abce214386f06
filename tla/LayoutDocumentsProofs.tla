----------------------- MODULE LayoutDocumentsProofs -----------------------
(***************************************************************************)
(* Theorems about the LayOut operations, for every set of identities and   *)
(* operation ids, every bound and any nesting.                             *)
(***************************************************************************)
EXTENDS LayoutDocuments, MutationEngineProofs

(* Each step of the LayOut operations is a step of the mutation engine.    *)
LEMMA LayoutStep == [LayoutNext]_allVars => [Next]_vars
<1>1. CASE Elsewhere
  BY <1>1 DEF Elsewhere, Next, Request
<1>2. ASSUME NEW q \in Sendable, NEW call \in Calls, Begin(q, call)
      PROVE  Next
  BY <1>2 DEF Begin, Next, Request
<1>3. CASE Save \/ Finish \/ Fail
  BY <1>3 DEF Save, Finish, Fail, Next
<1>4. CASE UNCHANGED allVars
  BY <1>4 DEF allVars
<1> QED
  BY <1>1, <1>2, <1>3, <1>4 DEF LayoutNext

(* The LayOut operations implement the mutation engine, so what is proved  *)
(* of its file operations holds for theirs                                 *)
(* (perform_layout_file_operation).                                        *)
THEOREM LayoutImplementsEngine == LayoutSpec => Spec
<1>1. LayoutInit => EngineInit
  BY DEF LayoutInit
<1> QED
  BY <1>1, LayoutStep, PTL DEF LayoutSpec, Spec

-----------------------------------------------------------------------------
(* Type correctness. *)

(* What the steps do to the stack and to what is open on it.               *)
LEMMA ElsewhereStack ==
  ASSUME Elsewhere
  PROVE  UNCHANGED <<stack, drawing, sheet, opened, told>>
BY DEF Elsewhere, layoutVars, User, Read, engineVars, Answer, FailModelOp, Write, Undo, Apply

LEMMA OpenedFacts ==
  ASSUME LayoutTypeOK, stack # <<>>
  PROVE  /\ opened # <<>>
         /\ Len(stack) \in 1..Len(opened)
         /\ Last(opened) = opened[Len(stack)]
         /\ Last(opened) \in Opens
         /\ Front(opened) \in Seq(Opens)
         /\ Len(Front(opened)) = Len(stack) - 1
         /\ \A i \in 1..(Len(stack) - 1) : Front(opened)[i] = opened[i]
<1>1. opened \in Seq(Opens) /\ Len(opened) = Len(stack) /\ stack \in Seq(Frames)
  BY DEF LayoutTypeOK, EngineTypeOK
<1>2. opened # <<>>
  BY <1>1, EmptySeq
<1> QED
  BY <1>1, <1>2, FrontLast

LEMMA OpenType ==
  ASSUME LayoutTypeOK, NEW call \in Calls
  PROVE  [call |-> call, doc |-> Open(call)] \in Opens
<1>1. <<>> \in Seq(Entities)
  BY EmptySeq
<1> QED
  BY <1>1 DEF LayoutTypeOK, Open, Opens, Calls, Documents2D

LEMMA AnsweredType ==
  ASSUME LayoutTypeOK, stack # <<>>, NEW r \in {"completed", "stale", "failed"}
  PROVE  Answered(r) \in SUBSET Answers
<1>1. /\ Last(opened).call \in Calls
      /\ Frame.request.id \in Ids /\ Frame.life \in Nat
      /\ Len(stack) \in Nat \ {0}
  BY OpenedFacts, FrameFacts, LenProperties
     DEF LayoutTypeOK, EngineTypeOK, Opens, Requests, Frames, FileRequests
<1> QED
  BY <1>1 DEF Answered, Answers, LayoutTypeOK

LEMMA TaggedType ==
  ASSUME LayoutTypeOK, stack # <<>>
  PROVE  Tagged(Frame) \in Entities
BY FrameFacts DEF LayoutTypeOK, Tagged, Entities, Requests, Frames, FileRequests

LEMMA LayoutNextType ==
  ASSUME LayoutTypeOK, [LayoutNext]_allVars
  PROVE  LayoutTypeOK'
<1>1. EngineTypeOK'
  BY LayoutStep, NextType DEF LayoutTypeOK
<1>2. CASE Elsewhere
  BY <1>1, <1>2, ElsewhereStack DEF LayoutTypeOK
<1>3. ASSUME NEW q \in Sendable, NEW call \in Calls, Begin(q, call)
      PROVE  LayoutTypeOK'
  <2> DEFINE o == [call |-> call, doc |-> Open(call)]
  <2>1. /\ opened' = Append(opened, o) /\ o \in Opens
        /\ UNCHANGED <<drawing, sheet, told>>
    BY <1>3, OpenType DEF Begin
  <2>2. \E f \in Frames : stack' = Append(stack, f)
    <3>1. Began(q) \in Frames
      BY <1>3, SendableTypes, LifeTypes
         DEF Begin, BeginFile, Began, Frames, FileRequests, LayoutTypeOK
    <3> QED
      BY <1>3, <3>1 DEF Begin, BeginFile
  <2>3. opened' \in Seq(Opens) /\ Len(opened') = Len(stack')
    BY <2>1, <2>2 DEF LayoutTypeOK, EngineTypeOK
  <2> QED
    BY <1>1, <2>1, <2>3 DEF LayoutTypeOK
<1>4. CASE Save
  <2>1. stack # <<>> /\ Len(stack') = Len(stack)
    BY <1>4, WrittenStack DEF Save, WriteFile, LayoutTypeOK
  <2>2. Last(opened) \in Opens /\ Last(opened).doc # Absent
    BY <1>4, <2>1, OpenedFacts DEF Save
  <2>3. Last(opened).doc \in Seq(Entities)
    BY <2>2 DEF Opens, Documents2D
  <2>4. Append(Last(opened).doc, Tagged(Frame)) \in Seq(Entities)
    BY <2>1, <2>3, TaggedType
  <2>5. drawing' \in Documents2D /\ sheet' \in Documents2D
    BY <1>4, <2>2, <2>3, <2>4 DEF Save, LayoutTypeOK, Opens, Calls, Documents2D
  <2> QED
    BY <1>1, <1>4, <2>1, <2>5 DEF Save, LayoutTypeOK
<1>5. CASE Finish \/ Fail
  <2>1. /\ stack # <<>> /\ stack' = Front(stack) /\ opened' = Front(opened)
        /\ UNCHANGED <<drawing, sheet>>
    BY <1>5 DEF Finish, FinishFile, Fail, FailFile
  <2>2. told' \in SUBSET Answers
    BY <1>5, <2>1, AnsweredType DEF Finish, Fail
  <2>3. opened' \in Seq(Opens) /\ Len(opened') = Len(stack')
    BY <2>1, OpenedFacts, FrameFacts DEF LayoutTypeOK
  <2> QED
    BY <1>1, <2>1, <2>2, <2>3 DEF LayoutTypeOK
<1>6. CASE UNCHANGED allVars
  BY <1>1, <1>6 DEF allVars, layoutVars, vars, engineVars, LayoutTypeOK
<1> QED
  BY <1>2, <1>3, <1>4, <1>5, <1>6 DEF LayoutNext

(* Every reachable state of the LayOut operations is well typed.           *)
THEOREM LayoutTypeCorrect == LayoutSpec => []LayoutTypeOK
<1>1. LayoutInit => LayoutTypeOK
  <2> SUFFICES ASSUME LayoutInit PROVE LayoutTypeOK
    OBVIOUS
  <2>1. <<>> \in Seq(Entities) /\ <<>> \in Seq(Opens)
    BY EmptySeq
  <2>2. EngineTypeOK /\ stack = <<>>
    BY InitType DEF LayoutInit, EngineInit
  <2> QED
    BY <2>1, <2>2 DEF LayoutInit, LayoutTypeOK, Documents2D
<1> QED
  BY <1>1, LayoutNextType, PTL DEF LayoutSpec

-----------------------------------------------------------------------------
(* Entities. *)

Distinct(d) == d # Absent => \A i, j \in DOMAIN d : d[i] = d[j] => i = j

(* Every entity of d was added by an operation that took effect.           *)
Drawn(d, set) ==
  d # Absent =>
    \A i \in DOMAIN d : \E a \in set : a.id = d[i].id /\ a.life = d[i].life

Sound(d, set) == Distinct(d) /\ Drawn(d, set)

EntityInv ==
  /\ Sound(drawing, applied)
  /\ \A k \in 1..Len(opened) : Sound(opened[k].doc, applied)

LEMMA EmptySound ==
  ASSUME NEW set
  PROVE  Sound(<<>>, set) /\ Sound(Absent, set)
<1>1. DOMAIN <<>> = {}
  BY EmptySeq
<1> QED
  BY <1>1 DEF Sound, Distinct, Drawn

(* A document to which an operation that took no effect before adds its    *)
(* entity stays sound.                                                     *)
LEMMA AppendSound ==
  ASSUME NEW d \in Seq(Entities), d # Absent,
         NEW set, NEW a, Sound(d, set), NEW e \in Entities,
         a.id = e.id, a.life = e.life,
         \A b \in set : ~(b.id = e.id /\ b.life = e.life)
  PROVE  Sound(Append(d, e), set \cup {a})
<1> DEFINE n == Len(d)
           t == Append(d, e)
<1>1. /\ n \in Nat /\ DOMAIN d = 1..n /\ DOMAIN t = 1..(n + 1)
      /\ \A i \in 1..n : t[i] = d[i]
      /\ t[n + 1] = e
  BY LenProperties, AppendProperties
<1>2. \A i \in 1..n : d[i] # e
  BY <1>1 DEF Sound, Drawn
<1>3. \A i, j \in 1..n : d[i] = d[j] => i = j
  BY <1>1 DEF Sound, Distinct
<1>4. Distinct(t)
  BY <1>1, <1>2, <1>3 DEF Distinct
<1>5. Drawn(t, set \cup {a})
  <2>1. \A i \in 1..n : \E b \in set : b.id = d[i].id /\ b.life = d[i].life
    BY <1>1 DEF Sound, Drawn
  <2> QED
    BY <1>1, <2>1 DEF Drawn
<1> QED
  BY <1>4, <1>5 DEF Sound

LEMMA SoundGrows ==
  ASSUME NEW d, NEW set, NEW more, set \subseteq more, Sound(d, set)
  PROVE  Sound(d, more)
BY DEF Sound, Drawn

LEMMA EntityInvStep ==
  ASSUME LayoutTypeOK, EngineInv, EntityInv, [LayoutNext]_allVars
  PROVE  EntityInv'
<1>1. applied \subseteq applied'
  BY LayoutStep, AppliedGrows DEF LayoutTypeOK
<1>2. /\ Sound(drawing, applied')
      /\ \A k \in 1..Len(opened) : Sound(opened[k].doc, applied')
  BY <1>1, SoundGrows DEF EntityInv
<1>3. CASE Elsewhere
  BY <1>2, <1>3, ElsewhereStack DEF EntityInv
<1>4. ASSUME NEW q \in Sendable, NEW call \in Calls, Begin(q, call)
      PROVE  EntityInv'
  <2> DEFINE o == [call |-> call, doc |-> Open(call)]
  <2>1. Sound(o.doc, applied')
    BY <1>2, EmptySound DEF Open, Calls
  <2>2. drawing' = drawing /\ opened' = Append(opened, o) /\ opened \in Seq(Opens)
    BY <1>4 DEF Begin, LayoutTypeOK
  <2>3. o \in Opens
    BY OpenType
  <2>4. \A k \in 1..Len(opened') :
          \/ opened'[k] = o
          \/ k \in 1..Len(opened) /\ opened'[k] = opened[k]
    BY <2>2, <2>3, AppendProperties, LenProperties
  <2> QED
    BY <1>2, <2>1, <2>2, <2>4 DEF EntityInv
<1>5. CASE Save
  <2> DEFINE d == Last(opened).doc
             q == Frame.request
             e == Tagged(Frame)
             a == Application(q, doc.content, Frame.life)
  <2>1. /\ stack # <<>> /\ ~Frame.written /\ applied' = applied \cup {a}
        /\ opened' = opened
        /\ d # Absent
    BY <1>5 DEF Save, WriteFile
  <2>2. /\ Last(opened) = opened[Len(stack)] /\ Len(stack) \in 1..Len(opened)
        /\ Last(opened).call \in Calls /\ d \in Seq(Entities)
    BY <2>1, OpenedFacts DEF Opens, Documents2D
  <2>3. Sound(d, applied) /\ Sound(d, applied')
    BY <1>2, <2>2 DEF EntityInv
  <2>4. Sound(Append(d, e), applied')
    <3>1. \A b \in applied : ~(b.id = e.id /\ b.life = e.life)
      BY <2>1, FrameFacts DEF EngineInv, ExecutedIsRecorded, LayoutTypeOK, Tagged
    <3>2. e \in Entities /\ a.id = e.id /\ a.life = e.life
      BY <2>1, TaggedType DEF Tagged, Application
    <3> QED
      BY <2>1, <2>2, <2>3, <3>1, <3>2, AppendSound
  <2>5. Sound(drawing', applied')
    BY <1>2, <1>5, <2>2, <2>3, <2>4 DEF Save, Calls
  <2> QED
    BY <1>2, <2>1, <2>5 DEF EntityInv
<1>6. CASE Finish \/ Fail
  <2>1. /\ stack # <<>> /\ opened' = Front(opened) /\ drawing' = drawing
    BY <1>6 DEF Finish, FinishFile, Fail, FailFile
  <2>2. /\ Len(opened) = Len(stack) /\ Len(opened') = Len(opened) - 1
        /\ \A k \in 1..(Len(opened) - 1) : opened'[k] = opened[k]
        /\ Len(opened) \in Nat
    BY <2>1, OpenedFacts DEF LayoutTypeOK
  <2>3. \A k \in 1..Len(opened') : opened'[k] = opened[k] /\ k \in 1..Len(opened)
    BY <2>2
  <2> QED
    BY <1>2, <2>1, <2>3 DEF EntityInv
<1>7. CASE UNCHANGED allVars
  BY <1>2, <1>7 DEF allVars, layoutVars, EntityInv
<1> QED
  BY <1>3, <1>4, <1>5, <1>6, <1>7 DEF LayoutNext

(* In a life of an identity an operation adds at most one entity to the    *)
(* document however often it is sent, and whatever is nested in what: its  *)
(* failure after the save is recorded and replayed (mark_running,          *)
(* record_terminal, perform_layout_file_operation).  In a later life the   *)
(* records are gone, and the same id adds another entity.                  *)
THEOREM EntitiesAreAddedOnce == LayoutSpec => []EntitiesAreUnique
<1>1. LayoutInit => EntityInv
  BY EmptySound, EmptySeq DEF LayoutInit, EntityInv
<1>2. EntityInv => EntitiesAreUnique
  BY DEF EntityInv, Sound, Distinct, EntitiesAreUnique
<1>3. LayoutTypeOK /\ EngineInv /\ EntityInv /\ [LayoutNext]_allVars => EntityInv'
  BY EntityInvStep
<1> QED
  BY <1>1, <1>2, <1>3, LayoutTypeCorrect, LayoutImplementsEngine, EngineInvariant, PTL
     DEF LayoutSpec

-----------------------------------------------------------------------------
(* What has been acknowledged. *)

(* A document keeps the promise of an answer p; an open one carries it if  *)
(* saving it would keep it.                                                *)
Keeps(d, p) ==
  /\ p.call \in {"create", "add"} => d # Absent
  /\ p.call = "add" => Holds(d, p)

Carries(o, p) ==
  /\ p.call \in {"create", "add"} => o.call # "create"
  /\ o.call # "create" /\ o.doc # Absent => Keeps(o.doc, p)

\* What the outermost operation will promise.
Outermost ==
  [id |-> stack[1].request.id, life |-> stack[1].life, call |-> opened[1].call]

(* Only the end of the outermost operation adds to what is acknowledged.   *)
(* From its own save on, everything opened inside it carries its promise   *)
(* too.                                                                    *)
KeepInv ==
  /\ \A t \in Acknowledged :
       /\ Keeps(drawing, t)
       /\ \A k \in 1..Len(opened) : Carries(opened[k], t)
  /\ stack # <<>> /\ stack[1].written =>
       /\ Keeps(drawing, Outermost)
       /\ \A k \in 2..Len(opened) : Carries(opened[k], Outermost)
       /\ Outermost.call = "export" =>
            \A t \in Acknowledged : t.call = "add" => Holds(sheet, t)

LEMMA OpenCarries ==
  ASSUME NEW p, NEW call \in Calls, Keeps(drawing, p),
         call = "create" => drawing = Absent
  PROVE  Carries([call |-> call, doc |-> Open(call)], p)
BY DEF Keeps, Carries, Open, Calls

LEMMA AppendHolds ==
  ASSUME NEW d \in Seq(Entities), NEW e \in Entities, Append(d, e) # Absent
  PROVE  /\ \A p : Holds(d, p) => Holds(Append(d, e), p)
         /\ \A p : p.id = e.id /\ p.life = e.life => Holds(Append(d, e), p)
<1> DEFINE n == Len(d)
           t == Append(d, e)
<1>1. /\ n \in Nat /\ DOMAIN d = 1..n /\ DOMAIN t = 1..(n + 1)
      /\ \A i \in 1..n : t[i] = d[i]
      /\ t[n + 1] = e
  BY LenProperties, AppendProperties
<1> QED
  BY <1>1 DEF Holds

(* What Save writes, by the call it is made for.                           *)
LEMMA SaveFacts ==
  ASSUME LayoutTypeOK, Save
  PROVE  LET o == opened[Len(opened)] IN
         /\ Len(opened) = Len(stack) /\ Len(stack) \in 1..Len(stack)
         /\ o.doc # Absent /\ o.doc \in Seq(Entities) /\ o.call \in Calls
         /\ Frame = stack[Len(stack)]
         /\ o.call = "create" => drawing' = o.doc /\ sheet' = sheet
         /\ o.call = "add" =>
              /\ drawing' = Append(o.doc, Tagged(Frame))
              /\ drawing' # Absent
              /\ sheet' = sheet
         /\ o.call = "export" => sheet' = o.doc /\ drawing' = drawing
         /\ UNCHANGED <<opened, told>>
<1>1. stack # <<>>
  BY DEF Save, WriteFile
<1>2. /\ Last(opened) = opened[Len(stack)] /\ Last(opened) \in Opens
      /\ Len(opened) = Len(stack) /\ Len(stack) \in 1..Len(stack)
      /\ Frame = stack[Len(stack)]
  BY <1>1, OpenedFacts, FrameFacts DEF LayoutTypeOK
<1>3. Last(opened).doc \in Seq(Entities) /\ Last(opened).call \in Calls
  BY <1>2 DEF Save, Opens, Documents2D
<1>4. Append(Last(opened).doc, Tagged(Frame)) # Absent
  BY <1>1, <1>3, TaggedType, LayoutAssumption
<1> QED
  BY <1>2, <1>3, <1>4 DEF Save, Calls

LEMMA SaveKeeps ==
  ASSUME LayoutTypeOK, Save, NEW p, Keeps(drawing, p),
         Carries(opened[Len(opened)], p)
  PROVE  Keeps(drawing', p)
<1> DEFINE o == opened[Len(opened)]
<1>1. Tagged(Frame) \in Entities
  BY TaggedType DEF Save, WriteFile
<1>2. CASE o.call = "create"
  BY <1>2, SaveFacts DEF Keeps, Carries
<1>3. CASE o.call = "add"
  <2>1. /\ drawing' = Append(o.doc, Tagged(Frame)) /\ drawing' # Absent
        /\ o.doc \in Seq(Entities) /\ Keeps(o.doc, p)
    BY <1>3, SaveFacts DEF Carries
  <2>2. Holds(o.doc, p) => Holds(drawing', p)
    BY <1>1, <2>1, AppendHolds
  <2> QED
    BY <2>1, <2>2 DEF Keeps
<1>4. CASE o.call = "export"
  BY <1>4, SaveFacts
<1> QED
  BY <1>2, <1>3, <1>4, SaveFacts DEF Calls

LEMMA KeepInvSave ==
  ASSUME LayoutTypeOK, KeepInv, Save
  PROVE  KeepInv'
<1> DEFINE n == Len(opened)
           o == opened[n]
<1>1. /\ n = Len(stack) /\ n \in 1..n /\ n \in Nat
      /\ UNCHANGED <<opened, told>> /\ Acknowledged' = Acknowledged
      /\ Len(stack') = n
      /\ \A i \in 1..n : stack'[i].request = stack[i].request /\ stack'[i].life = stack[i].life
      /\ \A i \in 1..n : i # n => stack'[i] = stack[i]
      /\ Frame = stack[n]
  BY SaveFacts, WrittenStack, LenProperties DEF Save, Acknowledged, LayoutTypeOK
<1>2. ASSUME NEW t \in Acknowledged
      PROVE  Keeps(drawing', t) /\ \A k \in 1..n : Carries(opened[k], t)
  BY <1>1, <1>2, SaveKeeps DEF KeepInv
<1>3. Outermost' = Outermost
  BY <1>1 DEF Outermost
<1>4. ASSUME NEW t \in Acknowledged, t.call = "add", o.call = "export"
      PROVE  Holds(sheet', t)
  <2>1. sheet' = o.doc /\ o.doc # Absent
    BY <1>4, SaveFacts
  <2>2. Carries(o, t)
    BY <1>1, <1>4 DEF KeepInv
  <2> QED
    BY <1>4, <2>1, <2>2 DEF Carries, Keeps
<1>5. CASE n = 1
  <2>1. Outermost.call = o.call
    BY <1>5 DEF Outermost
  <2>2. Keeps(drawing', Outermost)
    <3>1. /\ Outermost.id = Tagged(Frame).id
          /\ Outermost.life = Tagged(Frame).life
          /\ Tagged(Frame) \in Entities
      BY <1>1, <1>5, TaggedType DEF Outermost, Tagged, Save, WriteFile
    <3>2. o.call = "add" => Holds(drawing', Outermost)
      BY <3>1, SaveFacts, AppendHolds
    <3> QED
      BY <2>1, <3>2, SaveFacts DEF Keeps
  <2>3. 2..n = {}
    BY <1>5
  <2> QED
    BY <1>1, <1>2, <1>3, <1>4, <2>1, <2>2, <2>3 DEF KeepInv
<1>6. CASE n # 1
  <2>1. stack'[1] = stack[1] /\ n \in 2..n /\ stack # <<>>
    BY <1>1, <1>6 DEF Save, WriteFile
  <2>2. ASSUME stack[1].written
        PROVE  /\ Keeps(drawing', Outermost)
               /\ Outermost.call = "export" =>
                    \A t \in Acknowledged : t.call = "add" => Holds(sheet', t)
    <3>1. Keeps(drawing, Outermost) /\ Carries(o, Outermost)
      BY <2>1, <2>2 DEF KeepInv
    <3>2. ASSUME Outermost.call = "export", NEW t \in Acknowledged, t.call = "add"
          PROVE  Holds(sheet', t)
      <4>1. o.call # "export" => sheet' = sheet
        BY SaveFacts DEF Calls
      <4> QED
        BY <1>4, <2>1, <2>2, <3>2, <4>1 DEF KeepInv
    <3> QED
      BY <3>1, <3>2, SaveKeeps
  <2> QED
    BY <1>1, <1>2, <1>3, <2>1, <2>2 DEF KeepInv
<1> QED
  BY <1>5, <1>6

LEMMA KeepInvBegin ==
  ASSUME LayoutTypeOK, KeepInv, NEW q \in Sendable, NEW call \in Calls, Begin(q, call)
  PROVE  KeepInv'
<1> DEFINE n == Len(opened)
           o == [call |-> call, doc |-> Open(call)]
           f == Began(q)
<1>1. /\ UNCHANGED <<drawing, sheet, told>> /\ Acknowledged' = Acknowledged
      /\ opened' = Append(opened, o) /\ stack' = Append(stack, f)
      /\ call = "create" => drawing = Absent
  BY DEF Begin, BeginFile, Acknowledged
<1>2. o \in Opens /\ f \in Frames
  BY OpenType, SendableTypes, LifeTypes
     DEF Begin, BeginFile, Began, Frames, FileRequests, LayoutTypeOK
<1>3. /\ n \in Nat /\ Len(stack) = n
      /\ Len(opened') = n + 1 /\ Len(stack') = n + 1
      /\ \A k \in 1..n : opened'[k] = opened[k] /\ stack'[k] = stack[k]
      /\ opened'[n + 1] = o /\ stack'[n + 1] = f
  BY <1>1, <1>2, AppendProperties, LenProperties DEF LayoutTypeOK, EngineTypeOK
<1>4. \A p : Keeps(drawing, p) => Carries(o, p)
  BY <1>1, OpenCarries
<1>5. ASSUME NEW t \in Acknowledged
      PROVE  Keeps(drawing, t) /\ \A k \in 1..(n + 1) : Carries(opened'[k], t)
  BY <1>3, <1>4, <1>5 DEF KeepInv
<1>6. CASE n = 0
  <2>1. ~stack'[1].written
    BY <1>3, <1>6 DEF Began
  <2> QED
    BY <1>1, <1>3, <1>5, <1>6, <2>1 DEF KeepInv
<1>7. CASE n # 0
  <2>1. /\ stack # <<>> /\ stack'[1] = stack[1] /\ Outermost' = Outermost
    BY <1>3, <1>7, EmptySeq DEF Outermost
  <2>2. ASSUME stack[1].written, NEW k \in 2..(n + 1)
        PROVE  Carries(opened'[k], Outermost)
    BY <1>3, <1>4, <2>1, <2>2 DEF KeepInv
  <2> QED
    BY <1>1, <1>3, <1>5, <2>1, <2>2 DEF KeepInv
<1> QED
  BY <1>6, <1>7

(* What the end of an operation acknowledges.                              *)
LEMMA EndFacts ==
  ASSUME LayoutTypeOK, KeepInv, Finish \/ Fail
  PROVE  LET n == Len(stack) IN
         /\ stack # <<>> /\ n \in 1..n /\ n \in Nat
         /\ UNCHANGED <<drawing, sheet>>
         /\ Len(opened) = n /\ Len(stack') = n - 1 /\ Len(opened') = n - 1
         /\ \A k \in 1..(n - 1) : opened'[k] = opened[k] /\ stack'[k] = stack[k]
         /\ \A t \in told' \ told :
              t.depth = n /\ t.result = "completed" =>
                stack[n].written /\ (n = 1 =>
                  t.id = Outermost.id /\ t.life = Outermost.life /\ t.call = Outermost.call)
         /\ \A t \in told' \ told : t.depth = n
<1> DEFINE n == Len(stack)
<1>1. /\ stack # <<>> /\ stack' = Front(stack) /\ opened' = Front(opened)
      /\ UNCHANGED <<drawing, sheet>>
  BY DEF Finish, FinishFile, Fail, FailFile
<1>2. /\ n \in 1..n /\ n \in Nat /\ Len(opened) = n
      /\ Len(stack') = n - 1 /\ Len(opened') = n - 1
      /\ \A k \in 1..(n - 1) : opened'[k] = opened[k] /\ stack'[k] = stack[k]
      /\ Frame = stack[n] /\ Last(opened) = opened[n]
  BY <1>1, OpenedFacts, FrameFacts, LenProperties DEF LayoutTypeOK, EngineTypeOK
<1>3. ASSUME NEW t \in told' \ told
      PROVE  /\ t.depth = n /\ t.id = stack[n].request.id
             /\ t.life = stack[n].life /\ t.call = opened[n].call
             /\ t.result = "completed" => stack[n].written
  <2>1. CASE Finish
    BY <1>2, <1>3, <2>1 DEF Finish, FinishFile, Answered
  <2>2. CASE Fail
    BY <1>2, <1>3, <2>2 DEF Fail, Answered
  <2> QED
    BY <2>1, <2>2
<1> QED
  BY <1>1, <1>2, <1>3 DEF Outermost

LEMMA KeepInvEnd ==
  ASSUME LayoutTypeOK, KeepInv, Finish \/ Fail
  PROVE  KeepInv'
<1> DEFINE n == Len(stack)
<1>1. /\ stack # <<>> /\ n \in 1..n /\ n \in Nat
      /\ UNCHANGED <<drawing, sheet>>
      /\ Len(opened) = n /\ Len(stack') = n - 1 /\ Len(opened') = n - 1
      /\ \A k \in 1..(n - 1) : opened'[k] = opened[k] /\ stack'[k] = stack[k]
  BY EndFacts
<1>2. CASE n = 1
  <2>1. ASSUME NEW t \in Acknowledged', t \notin told PROVE Keeps(drawing, t)
    <3>1. /\ stack[1].written
          /\ t.id = Outermost.id /\ t.life = Outermost.life /\ t.call = Outermost.call
      BY <1>2, <2>1, EndFacts DEF Acknowledged
    <3>2. Keeps(drawing, Outermost)
      BY <1>1, <3>1 DEF KeepInv
    <3> QED
      BY <3>1, <3>2 DEF Keeps, Holds
  <2>2. \A t \in Acknowledged' : Keeps(drawing, t)
    BY <2>1 DEF KeepInv, Acknowledged
  <2>3. Len(stack') = 0 /\ Len(opened') = 0 /\ stack' = <<>>
    <3>1. stack' \in Seq(Frames)
      BY LayoutStep, NextType DEF LayoutTypeOK, LayoutNext, Finish, Fail, FinishFile, FailFile,
         EngineTypeOK, Next
    <3> QED
      BY <1>1, <1>2, <3>1, EmptySeq
  <2> QED
    BY <1>1, <2>2, <2>3 DEF KeepInv
<1>3. CASE n # 1
  <2>1. Acknowledged' \subseteq Acknowledged
    BY <1>1, <1>3, EndFacts DEF Acknowledged
  <2>2. stack'[1] = stack[1] /\ Outermost' = Outermost
    BY <1>1, <1>3 DEF Outermost
  <2>3. 1..(n - 1) \subseteq 1..n /\ 2..(n - 1) \subseteq 2..n /\ 2..(n - 1) \subseteq 1..(n - 1)
    BY <1>1
  <2>4. \A t \in Acknowledged' :
          Keeps(drawing, t) /\ \A k \in 1..(n - 1) : Carries(opened'[k], t)
    BY <1>1, <2>1, <2>3 DEF KeepInv
  <2>5. stack[1].written =>
          /\ Keeps(drawing, Outermost)
          /\ \A k \in 2..(n - 1) : Carries(opened'[k], Outermost)
          /\ Outermost.call = "export" =>
               \A t \in Acknowledged' : t.call = "add" => Holds(sheet, t)
    BY <1>1, <2>1, <2>3 DEF KeepInv
  <2> QED
    BY <1>1, <2>2, <2>4, <2>5 DEF KeepInv
<1> QED
  BY <1>2, <1>3

LEMMA KeepInvStep ==
  ASSUME LayoutTypeOK, KeepInv, [LayoutNext]_allVars
  PROVE  KeepInv'
<1>1. CASE Elsewhere \/ UNCHANGED allVars
  <2>1. UNCHANGED <<stack, drawing, sheet, opened, told>>
    BY <1>1, ElsewhereStack DEF allVars, layoutVars, vars, engineVars
  <2>2. Outermost' = Outermost /\ Acknowledged' = Acknowledged
    BY <2>1 DEF Outermost, Acknowledged
  <2> QED
    BY <2>1, <2>2 DEF KeepInv
<1> QED
  BY <1>1, KeepInvSave, KeepInvBegin, KeepInvEnd DEF LayoutNext

LEMMA KeepInvariant == LayoutSpec => []KeepInv
<1>1. LayoutInit => KeepInv
  BY DEF LayoutInit, EngineInit, KeepInv, Acknowledged
<1> QED
  BY <1>1, KeepInvStep, LayoutTypeCorrect, PTL DEF LayoutSpec

(* What was acknowledged stays: no later save, however operations nest and *)
(* fail, loses an entity whose addition was reported                       *)
(* (open_layout_document, perform_layout_file_operation).                  *)
THEOREM AcknowledgedEntitiesStay == LayoutSpec => []AcknowledgedStay
<1>1. KeepInv => AcknowledgedStay
  BY DEF KeepInv, Keeps, AcknowledgedStay
<1> QED
  BY <1>1, KeepInvariant, PTL

(* An export that is reported shows everything acknowledged before         *)
(* (export_layout_document).                                               *)
THEOREM ReportedSheetsAreComplete == LayoutSpec => SheetsAreComplete
<1> DEFINE Step ==
      \A t \in told' \ told :
        t.call = "export" /\ t.depth = 1 /\ t.result = "completed" =>
          \A a \in Acknowledged : a.call = "add" => Holds(sheet, a)
<1>1. ASSUME LayoutTypeOK, KeepInv, [LayoutNext]_allVars
      PROVE  Step
  <2>1. CASE Finish \/ Fail
    <3> SUFFICES ASSUME NEW t \in told' \ told,
                        t.call = "export", t.depth = 1, t.result = "completed"
                 PROVE  \A a \in Acknowledged : a.call = "add" => Holds(sheet, a)
      OBVIOUS
    <3>1. stack # <<>> /\ stack[1].written /\ Outermost.call = "export"
      BY <1>1, <2>1, EndFacts
    <3> QED
      BY <1>1, <3>1 DEF KeepInv
  <2>2. CASE Elsewhere \/ Save \/ UNCHANGED allVars
    BY <2>2, ElsewhereStack DEF Save, allVars, layoutVars
  <2>3. ASSUME NEW q, NEW call, Begin(q, call) PROVE told' = told
    BY <2>3 DEF Begin
  <2> QED
    BY <1>1, <2>1, <2>2, <2>3 DEF LayoutNext
<1>2. LayoutTypeOK /\ KeepInv /\ [LayoutNext]_allVars => [Step]_allVars
  BY <1>1
<1> QED
  BY <1>2, LayoutTypeCorrect, KeepInvariant, PTL DEF LayoutSpec, SheetsAreComplete
=============================================================================
