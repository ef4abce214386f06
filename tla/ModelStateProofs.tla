-------------------------- MODULE ModelStateProofs --------------------------
(***************************************************************************)
(* Theorems about the revision tracker, for every set of identities, which *)
(* may come back, and every bound.                                         *)
(***************************************************************************)
EXTENDS ModelState, SequenceTheorems, TLAPS

(* The last element of a non-empty sequence, and what is left without it.  *)
LEMMA FrontLast ==
  ASSUME NEW S, NEW s \in Seq(S), s # <<>>
  PROVE  /\ Len(s) \in 1..Len(s)
         /\ Last(s) = s[Len(s)]
         /\ Last(s) \in S
         /\ Front(s) \in Seq(S)
         /\ Len(Front(s)) = Len(s) - 1
         /\ \A i \in 1..(Len(s) - 1) : Front(s)[i] = s[i]
<1>1. Len(s) \in Nat \ {0}
  BY EmptySeq
<1>2. \A i \in 1..(Len(s) - 1) : s[i] \in S
  BY <1>1, ElementOfSeq
<1>3. /\ Front(s) \in Seq(S)
      /\ Len(Front(s)) = Len(s) - 1
      /\ \A i \in 1..(Len(s) - 1) : Front(s)[i] = s[i]
  <2> DEFINE n == Len(s) - 1
  <2>1. n \in Nat /\ n - 1 + 1 = n
    BY <1>1
  <2>2. /\ SubSeq(s, 1, n) \in Seq(S)
        /\ Len(SubSeq(s, 1, n)) = IF 1 <= n THEN n - 1 + 1 ELSE 0
        /\ \A i \in 1..(n - 1 + 1) : SubSeq(s, 1, n)[i] = s[1 + i - 1]
    BY <1>2, <2>1, SubSeqProperties
  <2> QED
    BY <2>1, <2>2 DEF Front
<1> QED
  BY <1>1, <1>3, ElementOfSeq DEF Last

-----------------------------------------------------------------------------
(* Type correctness. *)

LEMMA CaptureFacts ==
  ASSUME ModelTypeOK
  PROVE  /\ Capture \in Snapshots
         /\ Capture.guid = doc.guid
         /\ ms.guid = doc.guid => Capture = ms
         /\ ms.guid # doc.guid => Capture.revision = 0
BY DEF ModelTypeOK, Capture, Track, Snapshots, Documents

LEMMA DocumentTypes ==
  ASSUME ModelTypeOK
  PROVE  /\ Committed(doc) \in Documents
         /\ doc.past # <<>> => Undone(doc) \in Documents
         /\ doc.future # <<>> => Redone(doc) \in Documents
         /\ \A g \in Guids, c \in Nat : Opened(g, c) \in Documents
<1>1. /\ doc.guid \in Guids
      /\ doc.content \in Nat
      /\ doc.file \in Nat
      /\ doc.past \in Seq(Nat)
      /\ doc.future \in Seq(Nat)
      /\ clock \in Nat
      /\ <<>> \in Seq(Nat)
  BY EmptySeq DEF ModelTypeOK, Documents
<1>2. Append(doc.past, doc.content) \in Seq(Nat)
  BY <1>1
<1>3. Append(doc.future, doc.content) \in Seq(Nat)
  BY <1>1
<1>4. Committed(doc) \in Documents
  BY <1>1, <1>2 DEF ModelTypeOK, Committed, Documents
<1>5. ASSUME doc.past # <<>> PROVE Undone(doc) \in Documents
  <2>1. Last(doc.past) \in Nat /\ Front(doc.past) \in Seq(Nat)
    BY <1>1, <1>5, FrontLast
  <2> QED
    BY <1>1, <1>3, <2>1 DEF ModelTypeOK, Undone, Documents
<1>6. ASSUME doc.future # <<>> PROVE Redone(doc) \in Documents
  <2>1. Last(doc.future) \in Nat /\ Front(doc.future) \in Seq(Nat)
    BY <1>1, <1>6, FrontLast
  <2> QED
    BY <1>1, <1>2, <2>1 DEF ModelTypeOK, Redone, Documents
<1>7. \A g \in Guids, c \in Nat : Opened(g, c) \in Documents
  BY <1>1 DEF Opened, Documents
<1> QED
  BY <1>4, <1>5, <1>6, <1>7

LEMMA UserStepType == ModelTypeOK /\ UserStep => ModelTypeOK'
<1> SUFFICES ASSUME ModelTypeOK, UserStep PROVE ModelTypeOK'
  OBVIOUS
<1> USE DocumentTypes DEF ModelTypeOK
<1>1. doc.guid \in Guids /\ doc.content \in Nat /\ doc.file \in Nat
  BY DEF Documents
<1>2. TransactionChanged(ms, doc.guid) \in Snapshots
  BY <1>1 DEF TransactionChanged, Track, Snapshots
<1>3. CASE UserCommit
  BY <1>2, <1>3 DEF UserCommit
<1>4. CASE UserUndo
  BY <1>2, <1>4 DEF UserUndo
<1>5. CASE UserRedo
  BY <1>2, <1>5 DEF UserRedo
<1>6. CASE UserSave
  <2>1. PICK g \in Guids \ used :
          /\ doc' = [doc EXCEPT !.guid = g, !.file = doc.content]
          /\ kept' = [kept EXCEPT ![g] = Opened(g, doc.content)]
          /\ used' = used \cup {g}
    BY <1>6 DEF UserSave
  <2>2. doc' \in Documents
    BY <1>1, <2>1 DEF Documents
  <2>3. Opened(g, doc.content) \in Documents /\ Opened(g, doc.content).guid = g
    BY <1>1 DEF Opened
  <2>4. kept' \in [Guids -> Documents] /\ \A h \in Guids : kept'[h].guid = h
    BY <2>1, <2>3
  <2> QED
    BY <1>6, <2>1, <2>2, <2>4 DEF UserSave
<1>7. CASE SwitchModel
  <2>1. PICK g \in Guids, left \in {doc, Opened(doc.guid, doc.file)} :
          /\ kept' = [kept EXCEPT ![doc.guid] = left]
          /\ doc' = kept'[g]
          /\ used' = used \cup {g}
          /\ ms' = Track(g)
    BY <1>7 DEF SwitchModel
  <2>2. left \in Documents /\ left.guid = doc.guid
    <3>1. Opened(doc.guid, doc.file) \in Documents
      BY <1>1
    <3>2. Opened(doc.guid, doc.file).guid = doc.guid
      BY DEF Opened
    <3> QED
      BY <2>1, <3>1, <3>2
  <2>3. kept' \in [Guids -> Documents]
    BY <1>1, <2>1, <2>2
  <2>5. ASSUME NEW h \in Guids PROVE kept'[h].guid = h
    <3>1. kept'[h] = IF h = doc.guid THEN left ELSE kept[h]
      BY <1>1, <2>1
    <3> QED
      BY <2>2, <3>1
  <2>4. Track(g) \in Snapshots
    BY DEF Track, Snapshots
  <2> QED
    BY <1>7, <2>1, <2>3, <2>4, <2>5 DEF SwitchModel
<1> QED
  BY <1>3, <1>4, <1>5, <1>6, <1>7 DEF UserStep

LEMMA ReadTypes ==
  ASSUME ModelTypeOK
  PROVE  /\ Sighting(Capture, doc.content) \in Sightings
         /\ \A k \in 1..MaxStep : [Capture EXCEPT !.revision = @ + k] \in Snapshots
<1>1. /\ Capture \in Snapshots
      /\ Capture.guid \in Guids
      /\ Capture.revision \in Nat
      /\ doc.content \in Nat
      /\ life \in Nat
  BY CaptureFacts DEF ModelTypeOK, Snapshots, Documents
<1>2. Sighting(Capture, doc.content) \in Sightings
  BY <1>1 DEF Sighting, Sightings
<1>3. ASSUME NEW k \in 1..MaxStep
      PROVE  [Capture EXCEPT !.revision = @ + k] \in Snapshots
  <2>1. k \in Nat
    BY ModelAssumption
  <2> QED
    BY <1>1, <2>1 DEF Snapshots
<1> QED
  BY <1>2, <1>3

LEMMA SnapshotType == ModelTypeOK /\ Snapshot => ModelTypeOK'
BY CaptureFacts, ReadTypes DEF Snapshot, ModelTypeOK

LEMMA InitModelType == ModelInit => ModelTypeOK
<1> SUFFICES ASSUME ModelInit PROVE ModelTypeOK
  OBVIOUS
<1>1. PICK g \in Guids :
        /\ doc = Opened(g, 0)
        /\ kept = [h \in Guids |-> Opened(h, 0)]
        /\ used = {g}
        /\ life = 1
        /\ clock = 1
        /\ ms = Track(g)
        /\ seen = {}
  BY DEF ModelInit
<1>2. \A h \in Guids : Opened(h, 0) \in Documents /\ Opened(h, 0).guid = h
  BY EmptySeq DEF Opened, Documents
<1>3. Track(g) \in Snapshots
  BY DEF Track, Snapshots
<1> QED
  BY <1>1, <1>2, <1>3 DEF ModelTypeOK

LEMMA ModelNextType == ModelTypeOK /\ [ModelNext]_modelVars => ModelTypeOK'
<1> SUFFICES ASSUME ModelTypeOK, [ModelNext]_modelVars PROVE ModelTypeOK'
  OBVIOUS
<1>1. CASE UserStep \/ Snapshot
  BY <1>1, UserStepType, SnapshotType
<1>2. CASE UNCHANGED modelVars
  BY <1>2 DEF modelVars, ModelTypeOK
<1> QED
  BY <1>1, <1>2 DEF ModelNext

(* Every reachable state of the tracker is well typed.                     *)
THEOREM ModelTypeCorrect == ModelSpec => []ModelTypeOK
BY InitModelType, ModelNextType, PTL DEF ModelSpec

-----------------------------------------------------------------------------
(* The inductive invariant. *)

LEMMA InitModelInv == ModelInit => ModelInv
BY DEF ModelInit, ModelInv, SnapshotsNameContents, Opened, Track

(* A new life: of an identity the tracker has not met, or attached to it.  *)
LEMMA NewLife ==
  ASSUME ModelTypeOK, {doc.guid, ms.guid} \subseteq used, UserSave \/ SwitchModel
  PROVE  /\ life' = life + 1
         /\ seen' = seen
         /\ {doc'.guid, ms'.guid} \subseteq used'
         /\ \/ ms' = ms /\ ms'.guid # doc'.guid
            \/ ms' = Track(doc'.guid)
<1>1. doc \in Documents /\ doc.guid \in Guids
  BY DEF ModelTypeOK, Documents
<1>2. CASE UserSave
  <2>1. PICK g \in Guids \ used :
          /\ doc' = [doc EXCEPT !.guid = g, !.file = doc.content]
          /\ used' = used \cup {g}
    BY <1>2 DEF UserSave
  <2>2. doc'.guid = g
    BY <1>1, <2>1 DEF Documents
  <2> QED
    BY <1>2, <2>1, <2>2 DEF UserSave
<1>3. CASE SwitchModel
  <2>1. PICK g \in Guids, left \in {doc, Opened(doc.guid, doc.file)} :
          /\ kept' = [kept EXCEPT ![doc.guid] = left]
          /\ doc' = kept'[g]
          /\ used' = used \cup {g}
          /\ ms' = Track(g)
    BY <1>3 DEF SwitchModel
  <2>2. left.guid = doc.guid
    BY <2>1 DEF Opened
  <2>3. doc'.guid = g
    BY <1>1, <2>1, <2>2 DEF ModelTypeOK
  <2> QED
    BY <1>3, <2>1, <2>3 DEF SwitchModel, Track
<1> QED
  BY <1>2, <1>3

LEMMA ModelNextInv ==
  ASSUME ModelTypeOK, ModelInv, [ModelNext]_modelVars
  PROVE  /\ ModelInv'
         /\ life' = life /\ ms.guid = doc.guid =>
              ms'.guid = ms.guid /\ ms'.revision >= ms.revision
<1>1. /\ doc \in Documents /\ ms \in Snapshots /\ seen \subseteq Sightings
      /\ ms.revision \in Nat /\ life \in Nat
      /\ \A s \in seen : s.life \in Nat /\ s.revision \in Nat
  BY DEF ModelTypeOK, Snapshots, Sightings
<1>2. CASE UserCommit \/ UserUndo \/ UserRedo
  <2>1. /\ doc'.guid = doc.guid
        /\ ms' = TransactionChanged(ms, doc.guid)
        /\ UNCHANGED <<used, seen, life>>
    BY <1>1, <1>2
       DEF UserCommit, UserUndo, UserRedo, Committed, Undone, Redone, Documents
  <2>2. CASE ms.guid = doc.guid
    <3>1. ms'.guid = ms.guid /\ ms'.revision = ms.revision + 1
      BY <1>1, <2>1, <2>2 DEF TransactionChanged, Snapshots
    <3>2. \A s \in seen : s.life = life => s.revision < ms'.revision
      BY <1>1, <2>2, <3>1 DEF ModelInv
    <3>3. ms'.revision >= ms.revision /\ ms'.revision \in Nat
      BY <1>1, <3>1
    <3> QED
      BY <1>1, <2>1, <2>2, <3>1, <3>2, <3>3 DEF ModelInv, SnapshotsNameContents
  <2>3. CASE ms.guid # doc.guid
    BY <1>1, <2>1, <2>3 DEF ModelInv, SnapshotsNameContents, TransactionChanged, Track
  <2> QED
    BY <2>2, <2>3
<1>3. CASE UserSave \/ SwitchModel
  <2>1. /\ life' = life + 1 /\ seen' = seen
        /\ {doc'.guid, ms'.guid} \subseteq used'
    BY <1>3, NewLife DEF ModelInv
  <2>2. \A s \in seen' : s.life <= life' /\ s.life # life'
    BY <1>1, <2>1 DEF ModelInv
  <2> QED
    BY <1>1, <2>1, <2>2 DEF ModelInv, SnapshotsNameContents
<1>4. CASE Snapshot
  <2>1. /\ ms' = Capture /\ Capture.guid = doc.guid /\ Capture.revision \in Nat
        /\ ms.guid = doc.guid => Capture = ms
        /\ seen' = seen \cup {Sighting(Capture, doc.content)}
        /\ UNCHANGED <<doc, used, life>>
    BY <1>4, CaptureFacts DEF Snapshot, Snapshots
  <2> DEFINE s0 == Sighting(Capture, doc.content)
  <2>2. /\ s0.life = life /\ s0.revision = Capture.revision
        /\ s0.content = doc.content
    BY DEF Sighting
  <2>3. \A s \in seen : s.life = life /\ s.revision = Capture.revision
                           => s.content = doc.content
    BY <2>1 DEF ModelInv
  <2>4. SnapshotsNameContents'
    BY <2>1, <2>2, <2>3 DEF ModelInv, SnapshotsNameContents
  <2>5. \A s \in seen' :
          /\ s.life <= life'
          /\ s.life = life' =>
               /\ ms'.guid = doc'.guid
               /\ s.revision <= ms'.revision
               /\ s.revision = ms'.revision => s.content = doc'.content
    BY <1>1, <2>1, <2>2 DEF ModelInv
  <2>6. {doc'.guid, ms'.guid} \subseteq used'
    BY <2>1 DEF ModelInv
  <2>7. ModelInv'
    BY <2>4, <2>5, <2>6 DEF ModelInv
  <2>8. ms.guid = doc.guid => ms'.guid = ms.guid /\ ms'.revision >= ms.revision
    BY <1>1, <2>1
  <2> QED
    BY <2>7, <2>8
<1>5. CASE UNCHANGED modelVars
  BY <1>1, <1>5 DEF modelVars, ModelInv, SnapshotsNameContents
<1> QED
  BY <1>2, <1>3, <1>4, <1>5 DEF ModelNext, UserStep

LEMMA ModelInvariant == ModelSpec => []ModelInv
<1>1. ModelTypeOK /\ ModelInv /\ [ModelNext]_modelVars => ModelInv'
  BY ModelNextInv
<1> QED
  BY <1>1, InitModelInv, ModelTypeCorrect, PTL DEF ModelSpec

(* The revision that a snapshot hands out identifies, in the present life  *)
(* of the identity, the content the caller read (capture,                  *)
(* transaction_changed).                                                   *)
THEOREM SnapshotsIdentifyContents == ModelSpec => []SnapshotsNameContents
<1>1. ModelInv => SnapshotsNameContents
  BY DEF ModelInv
<1> QED
  BY <1>1, ModelInvariant, PTL

(* While a life lasts that the tracker has met, it stays attached and the  *)
(* revision never falls (transaction_changed, rebase_guid).                *)
THEOREM RevisionNeverFalls == ModelSpec => RevisionMonotonic
<1>1. ModelTypeOK /\ ModelInv /\ [ModelNext]_modelVars
        => [life' = life /\ ms.guid = doc.guid =>
              ms'.guid = ms.guid /\ ms'.revision >= ms.revision]_modelVars
  BY ModelNextInv
<1> QED
  BY <1>1, ModelInvariant, ModelTypeCorrect, PTL DEF ModelSpec, RevisionMonotonic
=============================================================================
