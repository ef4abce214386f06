--------------------------- MODULE LiveRunProofs ---------------------------
(***************************************************************************)
(* Theorems about the live client's runs, for every fixture, any number of *)
(* identities and every bound.                                             *)
(***************************************************************************)
EXTENDS LiveRun, TLAPS

-----------------------------------------------------------------------------
(* The inductive invariant *)

Steps ==
  {"bounds", "list_sections", "sections", "create", "confirm", "list_scenes", "scenes",
   "verify_sections", "verify_scenes", "copy", "draw"}

Runs ==
  [at       : Steps \cup {"start", "passed", "failed"},
   guid     : Guids,
   revision : Nat,
   pass     : {1, 2},
   todo     : SUBSET (Items \X Holdings),
   item     : Items,
   refs     : Nat,
   created  : Nat,
   reused   : Nat,
   drawn    : Nat]

RunTypeOK ==
  /\ doc \in [guid : Guids, holds : [Items -> Holdings]]
  /\ used \in SUBSET Guids /\ doc.guid \in used
  /\ ms \in [guid : Guids, revision : Nat]
  /\ run \in Runs
  /\ copy \in [Items -> Holdings]
  /\ touched \in BOOLEAN

(* As long as only the run has acted the tracker is where the run believes *)
(* it to be, a created item ahead while its creation is not confirmed;     *)
(* once the user has acted it never is again.                              *)
Expected == IF run.at = "confirm" THEN run.revision + 1 ELSE run.revision

Undisturbed ==
  doc.guid = run.guid /\ ms = [guid |-> run.guid, revision |-> Expected]

Overtaken ==
  doc.guid = run.guid => ms.guid = run.guid /\ ms.revision > Expected

PositionInv ==
  /\ run.at \in Steps =>
       /\ run.guid \in used
       /\ IF touched THEN Overtaken ELSE Undisturbed
  /\ PassedUndisturbed

(* What the list of the loop in progress says of the model.                *)
Creating == run.at \in {"create", "confirm"}
InLoop == run.at \in {"sections", "scenes"} \/ Creating
AtScenes == run.at = "scenes" \/ (Creating /\ run.item \notin Sections)
Listed == IF AtScenes THEN Scenes ELSE Sections

\* Made in the first pass, an item may be another than was asked for.
Settled(i) == Here[i] = "match" \/ (run.pass = 1 /\ Here[i] = "other")

ListIsTrue ==
  /\ \A e \in run.todo : e[1] \in Listed /\ e[2] = Here[e[1]]
  /\ \A i \in Listed :
       \/ <<i, Here[i]>> \in run.todo
       \/ Settled(i)
       \/ run.at = "create" /\ i = run.item
  /\ Creating => \A e \in run.todo : e[1] # run.item
  /\ run.at = "create" => Here[run.item] = "nothing"

SectionsAreThere == \A i \in Sections : Here[i] = "match"

(* What the run has brought about stays, while nobody else acts.           *)
PreparedInv ==
  run.at \in Steps /\ ~touched =>
    /\ InLoop => ListIsTrue
    /\ run.at = "list_scenes" \/ AtScenes => SectionsAreThere
    /\ run.pass = 2 => \A i \in Items : Here[i] # "nothing"
    /\ run.at \in {"verify_sections", "verify_scenes", "copy"} =>
         \A i \in Items : Here[i] = "match"

(* The second pass has listed what the first one left.                     *)
RepeatInv ==
  /\ run.at \in {"start", "bounds"} => run.pass = 1
  /\ run.pass = 2 => ~Creating /\ \A e \in run.todo : e[2] # "nothing"
  /\ run.at \in {"verify_sections", "verify_scenes", "copy", "draw"} => run.pass = 2

RunInv == RunTypeOK /\ PositionInv /\ PreparedInv /\ RepeatInv /\ CopyIsPrepared

-----------------------------------------------------------------------------
(* What the steps do *)

LEMMA ItemFacts ==
  /\ Items # {} /\ (CHOOSE i \in Items : TRUE) \in Items
  /\ Sections \cap Scenes = {}
  /\ MaxStep \in Nat \ {0}
BY RunAssumption DEF Items

LEMMA CaptureFacts ==
  ASSUME RunTypeOK
  PROVE  /\ Model!Capture \in [guid : Guids, revision : Nat]
         /\ Model!Capture.guid = doc.guid
         /\ ms.guid = doc.guid => Model!Capture = ms
BY DEF RunTypeOK, Model!Capture, Model!Track

LEMMA FreshType == ASSUME RunTypeOK PROVE Fresh \in Runs /\ Failed \in Runs
BY ItemFacts DEF RunTypeOK, Fresh, Failed, Runs, Steps

\* A call that finds the model current shows that only the run has acted.
LEMMA OnlyTheRun ==
  ASSUME RunTypeOK, PositionInv, run.at \in Steps, Model!Capture.guid = run.guid,
         Model!Capture.revision = Expected
  PROVE  ~touched /\ Undisturbed /\ Model!Capture = ms
<1>1. doc.guid = run.guid
  BY CaptureFacts
<1>2. CASE touched
  <2>1. ms.guid = run.guid /\ ms.revision > Expected
    BY <1>1, <1>2 DEF PositionInv, Overtaken
  <2>2. Model!Capture.revision > Expected
    BY <1>1, <2>1, CaptureFacts
  <2>3. Expected \in Nat
    BY DEF RunTypeOK, Runs, Expected
  <2> QED BY <2>2, <2>3
<1>3. CASE ~touched
  BY <1>1, <1>3, CaptureFacts DEF PositionInv, Undisturbed
<1> QED BY <1>2, <1>3

LEMMA CurrentAlone ==
  ASSUME RunTypeOK, PositionInv, run.at \in Steps, run.at # "confirm", Current
  PROVE  ~touched /\ Undisturbed /\ Model!Capture = ms
BY OnlyTheRun, CaptureFacts DEF Current, Expected

LEMMA ReadEffect ==
  ASSUME RunTypeOK, PositionInv, NEW at \in Steps \ {"confirm"}, NEW next, Read(at, next)
  PROVE  /\ run.at = at /\ run' = next /\ ~touched /\ Undisturbed
         /\ UNCHANGED <<doc, used, ms, copy, touched>>
BY CurrentAlone DEF Read, Call

\* While the run goes on and nobody acts, the position is kept if the model,
\* the tracker and the revision are.
LEMMA PositionKept ==
  ASSUME RunTypeOK, PositionInv, UNCHANGED <<doc, used, ms, touched>>,
         run'.guid = run.guid,
         run.at \in Steps, Expected' = Expected,
         run'.at = "passed" => ~touched
  PROVE  PositionInv'
BY DEF PositionInv, Undisturbed, Overtaken, PassedUndisturbed

-----------------------------------------------------------------------------
(* Every step preserves the invariant *)

LEMMA UserInv == ASSUME RunInv, User PROVE RunInv'
<1>1. /\ RunTypeOK /\ PositionInv /\ RepeatInv /\ CopyIsPrepared
  BY DEF RunInv
<1>2. /\ run' = run /\ copy' = copy /\ touched' = (touched \/ ~Over)
      /\ Expected' = Expected
  BY DEF User, Expected
<1>3. PICK f \in Contents :
        \/ /\ doc' = [doc EXCEPT !.holds = f]
           /\ ms' = Model!TransactionChanged(ms, doc.guid)
           /\ used' = used
        \/ \E g \in Guids \ used :
             /\ used' = used \cup {g}
             /\ \/ doc' = [doc EXCEPT !.guid = g] /\ ms' = ms
                \/ doc' = [guid |-> g, holds |-> f] /\ ms' = Model!Track(g)
  BY DEF User
<1>4. /\ f \in [Items -> Holdings]
      /\ doc \in [guid : Guids, holds : [Items -> Holdings]] /\ doc.guid \in used
      /\ ms \in [guid : Guids, revision : Nat] /\ used \in SUBSET Guids
  BY <1>1 DEF Contents, RunTypeOK
<1>5. RunTypeOK'
  <2>1. /\ doc' \in [guid : Guids, holds : [Items -> Holdings]]
        /\ used' \in SUBSET Guids /\ doc'.guid \in used'
        /\ ms' \in [guid : Guids, revision : Nat]
    BY <1>3, <1>4 DEF Model!TransactionChanged, Model!Track
  <2>2. touched' \in BOOLEAN
    BY <1>1, <1>2 DEF RunTypeOK
  <2> QED BY <1>1, <1>2, <2>1, <2>2 DEF RunTypeOK
<1>6. PositionInv'
  <2>1. PassedUndisturbed'
    BY <1>1, <1>2 DEF PositionInv, PassedUndisturbed, Over
  <2>2. ASSUME run.at \in Steps
        PROVE  run.guid \in used' /\ touched' /\ Overtaken'
    <3>1. touched' /\ run.guid \in used
      BY <1>1, <1>2, <2>2 DEF PositionInv, Over, Steps
    <3>2. doc.guid = run.guid => ms.guid = run.guid /\ ms.revision >= Expected
      BY <1>1, <1>4, <2>2 DEF PositionInv, Undisturbed, Overtaken, RunTypeOK, Runs, Expected
    <3>3. Expected \in Nat
      BY <1>1 DEF RunTypeOK, Runs, Expected
    <3>4. ASSUME doc'.guid = doc.guid, ms' = Model!TransactionChanged(ms, doc.guid)
          PROVE  Overtaken'
      <4> SUFFICES ASSUME doc.guid = run.guid
                   PROVE  ms'.guid = run.guid /\ ms'.revision > Expected
        BY <1>2, <3>4 DEF Overtaken, Expected
      <4>1. ms' = [ms EXCEPT !.revision = ms.revision + 1]
        BY <3>2, <3>4 DEF Model!TransactionChanged
      <4> QED BY <1>4, <3>2, <3>3, <4>1
    <3>5. ASSUME doc'.guid \notin used PROVE Overtaken'
      BY <1>2, <3>1, <3>5 DEF Overtaken, Expected
    <3>6. used \subseteq used'
      BY <1>3
    <3>7. \/ doc'.guid = doc.guid /\ ms' = Model!TransactionChanged(ms, doc.guid)
          \/ doc'.guid \notin used
      BY <1>3, <1>4
    <3>8. Overtaken'
      BY <3>4, <3>5, <3>7
    <3> QED BY <3>1, <3>6, <3>8
  <2> QED BY <1>2, <2>1, <2>2 DEF PositionInv
<1>7. PreparedInv'
  BY <1>2 DEF PreparedInv, Over, Steps
<1>8. RepeatInv' /\ CopyIsPrepared'
  BY <1>1, <1>2 DEF RepeatInv, CopyIsPrepared, Creating
<1> QED BY <1>5, <1>6, <1>7, <1>8 DEF RunInv

\* The run ends, or is started.
LEMMA OutsideInv ==
  ASSUME RunInv, RunTypeOK', run'.at \in {"start", "failed"}, run'.pass = 1
  PROVE  RunInv'
<1>1. run'.at \notin Steps /\ run'.at \notin {"passed", "draw"}
  BY DEF Steps
<1>2. PositionInv' /\ PreparedInv' /\ CopyIsPrepared'
  BY <1>1 DEF PositionInv, PassedUndisturbed, PreparedInv, CopyIsPrepared
<1>3. RepeatInv'
  BY DEF RepeatInv, Creating
<1> QED BY <1>2, <1>3 DEF RunInv

LEMMA FailInv == ASSUME RunInv, Fail PROVE RunInv'
<1>1. RunTypeOK
  BY DEF RunInv
<1>2. /\ doc' = doc /\ used' = used /\ copy' = copy /\ touched' = touched /\ run' = Failed
      /\ ms' = ms \/ ms' = Model!Capture
  BY DEF Fail, Call
<1>3. RunTypeOK'
  BY <1>1, <1>2, CaptureFacts, FreshType DEF RunTypeOK
<1>4. run'.at = "failed" /\ run'.pass = 1
  BY <1>2 DEF Failed, Fresh
<1> QED BY <1>3, <1>4, OutsideInv

LEMMA RestartInv == ASSUME RunInv, Restart PROVE RunInv'
<1>1. RunTypeOK
  BY DEF RunInv
<1>2. UNCHANGED <<doc, used, ms, copy, touched>> /\ run' = Fresh
  BY DEF Restart
<1>3. RunTypeOK'
  BY <1>1, <1>2, FreshType DEF RunTypeOK
<1>4. run'.at = "start" /\ run'.pass = 1
  BY <1>2 DEF Fresh
<1> QED BY <1>3, <1>4, OutsideInv

LEMMA DiscoverInv == ASSUME RunInv, Discover PROVE RunInv'
<1>1. RunTypeOK /\ RepeatInv
  BY DEF RunInv
<1>2. /\ run.at = "start" /\ doc' = doc /\ used' = used /\ copy' = copy /\ ~touched'
      /\ ms' = Model!Capture
      /\ run' = [run EXCEPT !.at = "bounds", !.guid = Model!Capture.guid,
                            !.revision = Model!Capture.revision]
      /\ touched' = FALSE
  BY DEF Discover, Call
<1>3. /\ run' \in Runs /\ run'.at = "bounds" /\ run'.guid = doc.guid
      /\ run'.revision = ms'.revision /\ run'.pass = run.pass
  BY <1>1, <1>2, CaptureFacts DEF RunTypeOK, Runs, Steps
<1>4. RunTypeOK'
  BY <1>1, <1>2, <1>3, CaptureFacts DEF RunTypeOK
<1>5. ms' = [guid |-> doc.guid, revision |-> ms'.revision]
  BY <1>1, <1>2, CaptureFacts
<1>6. PositionInv'
  BY <1>1, <1>2, <1>3, <1>5 DEF PositionInv, PassedUndisturbed, Undisturbed, Expected, RunTypeOK
<1>7. PreparedInv' /\ RepeatInv' /\ CopyIsPrepared'
  BY <1>1, <1>2, <1>3
     DEF PreparedInv, RepeatInv, CopyIsPrepared, InLoop, Creating, AtScenes
<1> QED BY <1>4, <1>6, <1>7 DEF RunInv

LEMMA ReadBoundsInv == ASSUME RunInv, ReadBounds PROVE RunInv'
<1>1. RunTypeOK /\ PositionInv /\ PreparedInv /\ RepeatInv
  BY DEF RunInv
<1>2. /\ run.at = "bounds" /\ run' = [run EXCEPT !.at = "list_sections"]
      /\ UNCHANGED <<doc, used, ms, copy, touched>>
  BY <1>1, ReadEffect DEF ReadBounds, Steps
<1>3. /\ run' \in Runs /\ run'.at = "list_sections" /\ run'.guid = run.guid
      /\ run'.revision = run.revision /\ run'.pass = run.pass
  BY <1>1, <1>2 DEF RunTypeOK, Runs, Steps
<1>4. RunTypeOK'
  BY <1>1, <1>2, <1>3 DEF RunTypeOK
<1>5. PositionInv'
  BY <1>1, <1>2, <1>3, PositionKept DEF Expected, Steps
<1>6. PreparedInv' /\ RepeatInv' /\ CopyIsPrepared'
  BY <1>1, <1>2, <1>3
     DEF PreparedInv, RepeatInv, CopyIsPrepared, InLoop, Creating, AtScenes
<1> QED BY <1>4, <1>5, <1>6 DEF RunInv

LEMMA ListFacts ==
  ASSUME RunTypeOK, NEW items \in SUBSET Items
  PROVE  /\ List(items) \in SUBSET (Items \X Holdings)
         /\ \A e \in List(items) : e[1] \in items /\ e[2] = Here[e[1]]
         /\ \A i \in items : <<i, Here[i]>> \in List(items)
BY DEF List, Here, RunTypeOK

LEMMA ListSectionsInv == ASSUME RunInv, ListSections PROVE RunInv'
<1>1. RunTypeOK /\ PositionInv /\ PreparedInv /\ RepeatInv
  BY DEF RunInv
<1>2. /\ run.at = "list_sections"
      /\ run' = [run EXCEPT !.at = "sections", !.todo = List(Sections)]
      /\ UNCHANGED <<doc, used, ms, copy, touched>> /\ ~touched
  BY <1>1, ReadEffect DEF ListSections, Steps
<1>3. Sections \in SUBSET Items
  BY DEF Items
<1>4. /\ run' \in Runs /\ run'.at = "sections" /\ run'.guid = run.guid
      /\ run'.revision = run.revision /\ run'.pass = run.pass /\ run'.todo = List(Sections)
  BY <1>1, <1>2, <1>3, ListFacts DEF RunTypeOK, Runs, Steps
<1>5. RunTypeOK'
  BY <1>1, <1>2, <1>4 DEF RunTypeOK
<1>6. PositionInv'
  BY <1>1, <1>2, <1>4, PositionKept DEF Expected, Steps
<1>7. Here' = Here /\ Listed' = Sections /\ ~Creating' /\ ~AtScenes'
  BY <1>2, <1>4 DEF Here, Listed, AtScenes, Creating
<1>8. ListIsTrue'
  BY <1>1, <1>3, <1>4, <1>7, ListFacts DEF ListIsTrue, Creating
<1>9. run.pass = 2 => \A i \in Items : Here[i] # "nothing"
  BY <1>1, <1>2 DEF PreparedInv, Steps
<1>10. PreparedInv'
  BY <1>2, <1>4, <1>7, <1>8, <1>9 DEF PreparedInv
<1>11. RepeatInv'
  BY <1>1, <1>3, <1>4, <1>7, <1>9, ListFacts DEF RepeatInv
<1>12. CopyIsPrepared'
  BY <1>4 DEF CopyIsPrepared
<1> QED BY <1>5, <1>6, <1>10, <1>11, <1>12 DEF RunInv

LEMMA ListScenesInv == ASSUME RunInv, ListScenes PROVE RunInv'
<1>1. RunTypeOK /\ PositionInv /\ PreparedInv /\ RepeatInv
  BY DEF RunInv
<1>2. /\ run.at = "list_scenes"
      /\ run' = [run EXCEPT !.at = "scenes", !.todo = List(Scenes)]
      /\ UNCHANGED <<doc, used, ms, copy, touched>> /\ ~touched
  BY <1>1, ReadEffect DEF ListScenes, Steps
<1>3. Scenes \in SUBSET Items
  BY DEF Items
<1>4. /\ run' \in Runs /\ run'.at = "scenes" /\ run'.guid = run.guid
      /\ run'.revision = run.revision /\ run'.pass = run.pass /\ run'.todo = List(Scenes)
  BY <1>1, <1>2, <1>3, ListFacts DEF RunTypeOK, Runs, Steps
<1>5. RunTypeOK'
  BY <1>1, <1>2, <1>4 DEF RunTypeOK
<1>6. PositionInv'
  BY <1>1, <1>2, <1>4, PositionKept DEF Expected, Steps
<1>7. Here' = Here /\ Listed' = Scenes /\ ~Creating'
  BY <1>2, <1>4 DEF Here, Listed, AtScenes, Creating
<1>8. ListIsTrue'
  BY <1>1, <1>3, <1>4, <1>7, ListFacts DEF ListIsTrue, Creating
<1>9. /\ SectionsAreThere
      /\ run.pass = 2 => \A i \in Items : Here[i] # "nothing"
  BY <1>1, <1>2 DEF PreparedInv, Steps
<1>10. PreparedInv'
  BY <1>2, <1>4, <1>7, <1>8, <1>9 DEF PreparedInv, SectionsAreThere
<1>11. RepeatInv'
  BY <1>1, <1>3, <1>4, <1>7, <1>9, ListFacts DEF RepeatInv
<1>12. CopyIsPrepared'
  BY <1>4 DEF CopyIsPrepared
<1> QED BY <1>5, <1>6, <1>10, <1>11, <1>12 DEF RunInv

LEMMA VerifyInv ==
  ASSUME RunInv, VerifySections \/ VerifyScenes PROVE RunInv'
<1>1. RunTypeOK /\ PositionInv /\ PreparedInv /\ RepeatInv
  BY DEF RunInv
<1>2. /\ run.at \in {"verify_sections", "verify_scenes"}
      /\ run' = [run EXCEPT !.at = IF run.at = "verify_sections" THEN "verify_scenes" ELSE "copy"]
      /\ UNCHANGED <<doc, used, ms, copy, touched>>
  BY <1>1, ReadEffect DEF VerifySections, VerifyScenes, Steps
<1>3. /\ run' \in Runs /\ run'.at \in {"verify_scenes", "copy"} /\ run'.guid = run.guid
      /\ run'.revision = run.revision /\ run'.pass = run.pass /\ run'.todo = run.todo
  BY <1>1, <1>2 DEF RunTypeOK, Runs, Steps
<1>4. RunTypeOK'
  BY <1>1, <1>2, <1>3 DEF RunTypeOK
<1>5. PositionInv'
  BY <1>1, <1>2, <1>3, PositionKept DEF Expected, Steps
<1>6. PreparedInv'
  BY <1>1, <1>2, <1>3 DEF PreparedInv, InLoop, Creating, AtScenes, Steps, Here
<1>7. RepeatInv' /\ CopyIsPrepared'
  BY <1>1, <1>2, <1>3 DEF RepeatInv, CopyIsPrepared, Creating
<1> QED BY <1>4, <1>5, <1>6, <1>7 DEF RunInv

LEMMA CopyInv == ASSUME RunInv, Copy PROVE RunInv'
<1>1. RunTypeOK /\ PositionInv /\ PreparedInv /\ RepeatInv
  BY DEF RunInv
<1>2. /\ run.at = "copy" /\ copy' = Here /\ ~touched
      /\ run' = [run EXCEPT !.at = "draw"]
      /\ UNCHANGED <<doc, used, ms, touched>>
  BY <1>1, CurrentAlone DEF Copy, Call, Steps
<1>3. /\ run' \in Runs /\ run'.at = "draw" /\ run'.guid = run.guid
      /\ run'.revision = run.revision /\ run'.pass = run.pass /\ run'.todo = run.todo
  BY <1>1, <1>2 DEF RunTypeOK, Runs, Steps
<1>4. RunTypeOK'
  BY <1>1, <1>2, <1>3 DEF RunTypeOK, Here
<1>5. PositionInv'
  BY <1>1, <1>2, <1>3, PositionKept DEF Expected, Steps
<1>6. \A i \in Items : Here[i] = "match"
  BY <1>1, <1>2 DEF PreparedInv, RepeatInv, Steps
<1>7. PreparedInv' /\ CopyIsPrepared'
  BY <1>2, <1>3, <1>6 DEF PreparedInv, CopyIsPrepared, InLoop, Creating, AtScenes, Here
<1>8. RepeatInv'
  BY <1>1, <1>2, <1>3 DEF RepeatInv, Creating
<1> QED BY <1>4, <1>5, <1>7, <1>8 DEF RunInv

LEMMA DrawInv == ASSUME RunInv, Draw PROVE RunInv'
<1> DEFINE next == IF run.drawn + 1 = MaxDrawn THEN "passed" ELSE "draw"
<1>1. RunTypeOK /\ PositionInv /\ PreparedInv /\ RepeatInv /\ CopyIsPrepared
  BY DEF RunInv
<1>2. /\ run.at = "draw" /\ ~touched
      /\ run' = [run EXCEPT !.drawn = run.drawn + 1, !.at = next]
      /\ UNCHANGED <<doc, used, ms, copy, touched>>
  BY <1>1, CurrentAlone DEF Draw, Call, Steps
<1> next \in {"draw", "passed"}
  OBVIOUS
<1> HIDE DEF next
<1>3. /\ run' \in Runs /\ run'.at \in {"draw", "passed"} /\ run'.guid = run.guid
      /\ run'.revision = run.revision /\ run'.pass = run.pass /\ run'.todo = run.todo
  <2>1. run \in Runs /\ run.drawn + 1 \in Nat
    BY <1>1 DEF RunTypeOK, Runs
  <2> QED BY <1>2, <2>1 DEF Runs, Steps
<1>4. RunTypeOK'
  BY <1>1, <1>2, <1>3 DEF RunTypeOK
<1>5. PositionInv'
  BY <1>1, <1>2, <1>3, PositionKept DEF Expected, Steps
<1>6. PreparedInv'
  BY <1>1, <1>2, <1>3 DEF PreparedInv, InLoop, Creating, AtScenes, Steps, Here
<1>7. RepeatInv' /\ CopyIsPrepared'
  BY <1>1, <1>2, <1>3 DEF RepeatInv, CopyIsPrepared, Creating
<1> QED BY <1>4, <1>5, <1>6, <1>7 DEF RunInv

LEMMA RefreshSectionRefsInv == ASSUME RunInv, RefreshSectionRefs PROVE RunInv'
<1>1. RunTypeOK /\ PositionInv /\ PreparedInv /\ RepeatInv
  BY DEF RunInv
<1>2. SectionsAreThere
  BY DEF RefreshSectionRefs, SectionsAreThere
<1>3. CASE Read("sections", [run EXCEPT !.at = "list_scenes", !.refs = run.revision])
  <2>1. /\ run.at = "sections"
        /\ run' = [run EXCEPT !.at = "list_scenes", !.refs = run.revision]
        /\ UNCHANGED <<doc, used, ms, copy, touched>>
    BY <1>1, <1>3, ReadEffect DEF Steps
  <2>2. /\ run' \in Runs /\ run'.at = "list_scenes" /\ run'.guid = run.guid
        /\ run'.revision = run.revision /\ run'.pass = run.pass /\ run'.todo = run.todo
    BY <1>1, <2>1 DEF RunTypeOK, Runs, Steps
  <2>3. RunTypeOK'
    BY <1>1, <2>1, <2>2 DEF RunTypeOK
  <2>4. PositionInv'
    BY <1>1, <2>1, <2>2, PositionKept DEF Expected, Steps
  <2>5. PreparedInv'
    BY <1>1, <1>2, <2>1, <2>2
       DEF PreparedInv, SectionsAreThere, InLoop, Creating, AtScenes, Steps, Here
  <2>6. RepeatInv' /\ CopyIsPrepared'
    BY <1>1, <2>1, <2>2 DEF RepeatInv, CopyIsPrepared, Creating
  <2> QED BY <2>3, <2>4, <2>5, <2>6 DEF RunInv
<1>4. CASE Read("create", [run EXCEPT !.refs = run.revision])
  <2>1. /\ run.at = "create" /\ run' = [run EXCEPT !.refs = run.revision]
        /\ UNCHANGED <<doc, used, ms, copy, touched>>
    BY <1>1, <1>4, ReadEffect DEF Steps
  <2>2. /\ run' \in Runs /\ run'.at = run.at /\ run'.guid = run.guid /\ run'.item = run.item
        /\ run'.revision = run.revision /\ run'.pass = run.pass /\ run'.todo = run.todo
    BY <1>1, <2>1 DEF RunTypeOK, Runs
  <2>3. RunTypeOK'
    BY <1>1, <2>1, <2>2 DEF RunTypeOK
  <2>4. PositionInv'
    BY <1>1, <2>1, <2>2, PositionKept DEF Expected, Steps
  <2>5. PreparedInv'
    <3>1. ListIsTrue => ListIsTrue'
      BY <2>1, <2>2 DEF ListIsTrue, Settled, Listed, AtScenes, Creating, Here
    <3> QED BY <1>1, <2>1, <2>2, <3>1
            DEF PreparedInv, SectionsAreThere, InLoop, Creating, AtScenes, Here
  <2>6. RepeatInv' /\ CopyIsPrepared'
    BY <1>1, <2>1, <2>2 DEF RepeatInv, CopyIsPrepared, Creating
  <2> QED BY <2>3, <2>4, <2>5, <2>6 DEF RunInv
<1> QED BY <1>3, <1>4 DEF RefreshSectionRefs

LEMMA ReuseInv == ASSUME RunInv, Reuse PROVE RunInv'
<1>1. RunTypeOK /\ PositionInv /\ PreparedInv /\ RepeatInv
  BY DEF RunInv
<1>2. PICK i \in Items :
        /\ <<i, "match">> \in run.todo
        /\ run' = [run EXCEPT !.todo = run.todo \ {<<i, "match">>}, !.reused = run.reused + 1]
  BY DEF Reuse
<1>3. run.at \in {"sections", "scenes"} /\ UNCHANGED <<doc, used, ms, copy, touched>>
  BY DEF Reuse
<1>4. /\ run' \in Runs /\ run'.at = run.at /\ run'.guid = run.guid /\ run'.item = run.item
      /\ run'.revision = run.revision /\ run'.pass = run.pass
      /\ run'.todo = run.todo \ {<<i, "match">>}
  <2>1. /\ run \in Runs /\ run.reused + 1 \in Nat
        /\ run.todo \ {<<i, "match">>} \in SUBSET (Items \X Holdings)
    BY <1>1 DEF RunTypeOK, Runs
  <2> QED BY <1>2, <2>1 DEF Runs
<1>5. RunTypeOK'
  BY <1>1, <1>3, <1>4 DEF RunTypeOK
<1>6. PositionInv'
  BY <1>1, <1>3, <1>4, PositionKept DEF Expected, Steps
<1>7. Here' = Here /\ Listed' = Listed /\ ~Creating /\ ~Creating'
  BY <1>3, <1>4 DEF Here, Listed, AtScenes, Creating
<1>8. ListIsTrue => ListIsTrue'
  <2> SUFFICES ASSUME ListIsTrue PROVE ListIsTrue'
    OBVIOUS
  <2>1. \A e \in run'.todo : e[1] \in Listed /\ e[2] = Here[e[1]]
    BY <1>4 DEF ListIsTrue
  <2>2. ASSUME NEW j \in Listed PROVE <<j, Here[j]>> \in run'.todo \/ Settled(j)
    <3>1. <<j, Here[j]>> \in run.todo \/ Settled(j)
      BY <1>3 DEF ListIsTrue
    <3> QED BY <1>4, <3>1 DEF Settled
  <2>3. \A j : Settled(j) => Settled(j)'
    BY <1>4, <1>7 DEF Settled
  <2> QED BY <1>3, <1>4, <1>7, <2>1, <2>2, <2>3 DEF ListIsTrue, Creating
<1>9. PreparedInv'
  <2>1. AtScenes' = AtScenes
    BY <1>4 DEF AtScenes, Creating
  <2> QED BY <1>1, <1>3, <1>4, <1>7, <1>8, <2>1
          DEF PreparedInv, SectionsAreThere, InLoop, Steps
<1>10. RepeatInv' /\ CopyIsPrepared'
  BY <1>1, <1>3, <1>4 DEF RepeatInv, CopyIsPrepared, Creating
<1> QED BY <1>5, <1>6, <1>9, <1>10 DEF RunInv

LEMMA MissInv == ASSUME RunInv, Miss PROVE RunInv'
<1>1. RunTypeOK /\ PositionInv /\ PreparedInv /\ RepeatInv
  BY DEF RunInv
<1>2. PICK i \in Items :
        /\ <<i, "nothing">> \in run.todo
        /\ run' = [run EXCEPT !.todo = run.todo \ {<<i, "nothing">>}, !.item = i, !.at = "create"]
  BY DEF Miss
<1>3. run.at \in {"sections", "scenes"} /\ UNCHANGED <<doc, used, ms, copy, touched>>
  BY DEF Miss
<1>4. /\ run' \in Runs /\ run'.at = "create" /\ run'.guid = run.guid /\ run'.item = i
      /\ run'.revision = run.revision /\ run'.pass = run.pass
      /\ run'.todo = run.todo \ {<<i, "nothing">>}
  BY <1>1, <1>2 DEF RunTypeOK, Runs, Steps
<1>5. RunTypeOK'
  BY <1>1, <1>3, <1>4 DEF RunTypeOK
<1>6. PositionInv'
  BY <1>1, <1>3, <1>4, PositionKept DEF Expected, Steps
<1>7. run.pass = 1
  <2>1. run.pass # 2
    BY <1>1, <1>2 DEF RepeatInv
  <2> QED BY <1>1, <2>1 DEF RunTypeOK, Runs
<1>8. PreparedInv'
  <2> SUFFICES ASSUME ~touched PROVE ListIsTrue' /\ (AtScenes' => SectionsAreThere')
    BY <1>3, <1>4, <1>7 DEF PreparedInv
  <2>1. ListIsTrue /\ (AtScenes => SectionsAreThere)
    BY <1>1, <1>3 DEF PreparedInv, InLoop, Steps
  <2>2. i \in Listed /\ Here[i] = "nothing"
    BY <1>2, <2>1 DEF ListIsTrue
  <2>3. Here' = Here /\ Listed' = Listed /\ AtScenes' = AtScenes
    BY <1>3, <1>4, <2>2, ItemFacts DEF Here, Listed, AtScenes, Creating
  <2>4. \A e \in run'.todo : e[1] \in Listed /\ e[2] = Here[e[1]] /\ e[1] # i
    <3> SUFFICES ASSUME NEW e \in run.todo, e # <<i, "nothing">>
                 PROVE  e[1] \in Listed /\ e[2] = Here[e[1]] /\ e[1] # i
      BY <1>4
    <3>1. e[1] \in Listed /\ e[2] = Here[e[1]]
      BY <2>1 DEF ListIsTrue
    <3>2. e = <<e[1], e[2]>>
      BY <1>1 DEF RunTypeOK, Runs
    <3> QED BY <2>2, <3>1, <3>2
  <2>5. ASSUME NEW j \in Listed
        PROVE  <<j, Here[j]>> \in run'.todo \/ Settled(j)' \/ j = i
    <3>1. <<j, Here[j]>> \in run.todo \/ Settled(j)
      BY <1>3, <2>1 DEF ListIsTrue
    <3>2. Settled(j) => Settled(j)'
      BY <1>4, <2>3 DEF Settled
    <3> QED BY <1>4, <3>1, <3>2
  <2>6. ListIsTrue'
    BY <1>4, <2>2, <2>3, <2>4, <2>5 DEF ListIsTrue
  <2>7. AtScenes' => SectionsAreThere'
    BY <2>1, <2>3 DEF SectionsAreThere
  <2> QED BY <2>6, <2>7
<1>9. RepeatInv' /\ CopyIsPrepared'
  BY <1>4, <1>7 DEF RepeatInv, CopyIsPrepared
<1> QED BY <1>5, <1>6, <1>8, <1>9 DEF RunInv

\* Creating takes place on the model the list was made of.
LEMMA MissingStill ==
  ASSUME RunInv, Create
  PROVE  /\ ~touched /\ Undisturbed /\ Model!Capture = ms
         /\ run.pass = 1 /\ ListIsTrue /\ (AtScenes => SectionsAreThere)
         /\ Here[run.item] = "nothing"
<1>1. RunTypeOK /\ PositionInv /\ PreparedInv /\ RepeatInv
  BY DEF RunInv
<1>2. run.at = "create" /\ Current
  BY DEF Create
<1>3. ~touched /\ Undisturbed /\ Model!Capture = ms
  BY <1>1, <1>2, CurrentAlone DEF Steps
<1>4. ListIsTrue /\ (AtScenes => SectionsAreThere)
  BY <1>1, <1>2, <1>3 DEF PreparedInv, InLoop, Creating, Steps
<1>5. run.pass = 1
  BY <1>1, <1>2 DEF RepeatInv, Creating, RunTypeOK, Runs
<1> QED BY <1>2, <1>3, <1>4, <1>5 DEF ListIsTrue

LEMMA CreateInv == ASSUME RunInv, Create PROVE RunInv'
<1>1. RunTypeOK /\ PositionInv /\ PreparedInv /\ RepeatInv
  BY DEF RunInv
<1>2. /\ ~touched /\ Undisturbed
      /\ run.pass = 1 /\ ListIsTrue /\ (AtScenes => SectionsAreThere)
      /\ Here[run.item] = "nothing"
  BY MissingStill
<1>3. run.at = "create" /\ UNCHANGED <<used, copy, touched>>
      /\ \E h \in {"match", "other"} :
           doc' = [doc EXCEPT !.holds = [Here EXCEPT ![run.item] = h]]
  BY MissingStill DEF Create, Created
<1>4. PICK k \in 1..MaxStep :
        /\ ms' = [ms EXCEPT !.revision = ms.revision + k]
        /\ run' = IF k = 1 THEN [run EXCEPT !.at = "confirm"] ELSE Failed
  BY MissingStill DEF Create
<1>5. /\ ms \in [guid : Guids, revision : Nat] /\ run \in Runs /\ run.item \in Items
      /\ Here \in [Items -> Holdings] /\ k \in Nat
  BY <1>1, <1>4, ItemFacts DEF RunTypeOK, Runs, Here
<1>6. PICK h \in {"match", "other"} :
        doc' = [doc EXCEPT !.holds = [Here EXCEPT ![run.item] = h]]
  BY <1>3
<1>7. /\ Here' \in [Items -> Holdings] /\ Here'[run.item] = h
      /\ \A j \in Items \ {run.item} : Here'[j] = Here[j]
      /\ doc'.guid = doc.guid
      /\ doc' \in [guid : Guids, holds : [Items -> Holdings]]
  <2>1. [Here EXCEPT ![run.item] = h] \in [Items -> Holdings]
    BY <1>5 DEF Holdings
  <2>2. Here' = [Here EXCEPT ![run.item] = h] /\ doc'.guid = doc.guid
        /\ doc' \in [guid : Guids, holds : [Items -> Holdings]]
    BY <1>1, <1>6, <2>1 DEF RunTypeOK, Here
  <2> QED BY <1>5, <2>1, <2>2
<1>8. ms' \in [guid : Guids, revision : Nat]
      /\ ms'.guid = ms.guid /\ ms'.revision = ms.revision + k
  BY <1>4, <1>5
<1>9. run' \in Runs
  BY <1>1, <1>4, <1>5, FreshType DEF Runs, Steps
<1>10. RunTypeOK'
  BY <1>1, <1>3, <1>7, <1>8, <1>9 DEF RunTypeOK
<1>11. CASE k # 1
  BY <1>4, <1>10, <1>11, OutsideInv DEF Failed, Fresh
<1>12. CASE k = 1
  <2>1. /\ run'.at = "confirm" /\ run'.guid = run.guid /\ run'.item = run.item
        /\ run'.revision = run.revision /\ run'.pass = run.pass /\ run'.todo = run.todo
    BY <1>4, <1>5, <1>12 DEF Runs
  <2>2. PositionInv'
    <3>1. Expected = run.revision /\ Expected' = run.revision + 1
      BY <1>3, <2>1 DEF Expected
    <3>2. ms' = [guid |-> run.guid, revision |-> run.revision + 1]
      BY <1>2, <1>8, <1>12, <3>1 DEF Undisturbed
    <3>3. doc.guid = run.guid /\ run.guid \in used
      BY <1>1, <1>2 DEF Undisturbed, RunTypeOK
    <3> QED BY <1>2, <1>3, <1>7, <2>1, <3>1, <3>2, <3>3
            DEF PositionInv, Undisturbed, PassedUndisturbed
  <2>3. Listed' = Listed /\ AtScenes' = AtScenes /\ Listed \subseteq Items
    BY <1>3, <2>1 DEF Listed, AtScenes, Creating, Items
  <2>4. \A e \in run.todo : e[1] # run.item /\ e[1] \in Listed /\ e[2] = Here[e[1]]
    BY <1>2, <1>3 DEF ListIsTrue, Creating
  <2>5. ASSUME NEW j \in Listed PROVE <<j, Here'[j]>> \in run.todo \/ Settled(j)'
    <3>1. <<j, Here[j]>> \in run.todo \/ Settled(j) \/ j = run.item
      BY <1>2 DEF ListIsTrue
    <3>2. CASE j = run.item
      BY <1>2, <1>7, <2>1, <3>2 DEF Settled
    <3>3. CASE j # run.item
      BY <1>7, <2>1, <2>3, <3>1, <3>3 DEF Settled
    <3> QED BY <3>2, <3>3
  <2>6. ListIsTrue'
    BY <1>7, <2>1, <2>3, <2>4, <2>5 DEF ListIsTrue
  <2>7. AtScenes' => SectionsAreThere'
    <3>1. AtScenes => run.item \notin Sections
      BY <1>3 DEF AtScenes
    <3> QED BY <1>2, <1>7, <2>3, <3>1 DEF SectionsAreThere, Items
  <2>8. PreparedInv'
    BY <1>2, <2>1, <2>6, <2>7 DEF PreparedInv
  <2>9. RepeatInv' /\ CopyIsPrepared'
    BY <1>2, <2>1 DEF RepeatInv, CopyIsPrepared
  <2> QED BY <1>10, <2>2, <2>8, <2>9 DEF RunInv
<1> QED BY <1>11, <1>12

LEMMA ConfirmInv == ASSUME RunInv, Confirm PROVE RunInv'
<1>1. RunTypeOK /\ PositionInv /\ PreparedInv /\ RepeatInv
  BY DEF RunInv
<1>2. /\ run.at = "confirm" /\ Expected = run.revision + 1
      /\ Model!Capture = [guid |-> run.guid, revision |-> run.revision + 1]
  BY DEF Confirm, Expected
<1>3. ~touched /\ Undisturbed /\ Model!Capture = ms
  BY <1>1, <1>2, OnlyTheRun DEF Steps
<1>4. /\ UNCHANGED <<doc, used, ms, copy, touched>>
      /\ run' = [run EXCEPT !.at = Loop, !.revision = run.revision + 1,
                            !.created = run.created + 1]
  BY <1>3 DEF Confirm, Call
<1>5. Loop \in {"sections", "scenes"} /\ (Loop = "sections" <=> run.item \in Sections)
  BY DEF Loop
<1>6. /\ run' \in Runs /\ run'.at = Loop /\ run'.guid = run.guid /\ run'.item = run.item
      /\ run'.revision = run.revision + 1 /\ run'.pass = run.pass /\ run'.todo = run.todo
  <2>1. run \in Runs /\ run.revision + 1 \in Nat /\ run.created + 1 \in Nat
    BY <1>1 DEF RunTypeOK, Runs
  <2>2. Loop \in Steps
    BY <1>5 DEF Steps
  <2> QED BY <1>4, <2>1, <2>2 DEF Runs
<1>7. RunTypeOK'
  BY <1>1, <1>4, <1>6 DEF RunTypeOK
<1>8. PositionInv'
  BY <1>1, <1>2, <1>4, <1>5, <1>6, PositionKept DEF Expected, Steps
<1>9. run.pass = 1
  BY <1>1, <1>2 DEF RepeatInv, Creating, RunTypeOK, Runs
<1>10. Here' = Here /\ Listed' = Listed /\ AtScenes' = AtScenes
  BY <1>2, <1>4, <1>5, <1>6 DEF Here, Listed, AtScenes, Creating
<1>11. ListIsTrue /\ (AtScenes => SectionsAreThere)
  BY <1>1, <1>2, <1>3 DEF PreparedInv, InLoop, Creating, Steps
<1>12. ListIsTrue'
  <2>1. \A j : Settled(j) => Settled(j)'
    BY <1>6, <1>10 DEF Settled
  <2> QED BY <1>2, <1>5, <1>6, <1>10, <1>11, <2>1 DEF ListIsTrue, Creating
<1>13. PreparedInv'
  BY <1>5, <1>6, <1>9, <1>10, <1>11, <1>12 DEF PreparedInv, SectionsAreThere
<1>14. RepeatInv' /\ CopyIsPrepared'
  BY <1>5, <1>6, <1>9 DEF RepeatInv, CopyIsPrepared
<1> QED BY <1>7, <1>8, <1>13, <1>14 DEF RunInv

LEMMA EndPassInv == ASSUME RunInv, EndPass PROVE RunInv'
<1>1. RunTypeOK /\ PositionInv /\ PreparedInv /\ RepeatInv
  BY DEF RunInv
<1>2. /\ run.at = "scenes" /\ run.todo = {} /\ UNCHANGED <<doc, used, ms, copy, touched>>
      /\ \/ run' = [run EXCEPT !.at = "list_sections", !.pass = 2, !.created = 0, !.reused = 0]
         \/ run.pass = 2 /\ run' = [run EXCEPT !.at = "verify_sections"]
  BY DEF EndPass
<1>3. /\ run' \in Runs /\ run'.at \in {"list_sections", "verify_sections"}
      /\ run'.at = "verify_sections" => run.pass = 2
      /\ run'.guid = run.guid /\ run'.revision = run.revision
      /\ run'.pass = 2 /\ run'.todo = {}
  <2>1. run \in Runs
    BY <1>1 DEF RunTypeOK
  <2>2. CASE run' = [run EXCEPT !.at = "list_sections", !.pass = 2, !.created = 0, !.reused = 0]
    BY <1>2, <2>1, <2>2 DEF Runs, Steps
  <2>3. CASE run.pass = 2 /\ run' = [run EXCEPT !.at = "verify_sections"]
    BY <1>2, <2>1, <2>3 DEF Runs, Steps
  <2> QED BY <1>2, <2>2, <2>3
<1>4. RunTypeOK'
  BY <1>1, <1>2, <1>3 DEF RunTypeOK
<1>5. PositionInv'
  BY <1>1, <1>2, <1>3, PositionKept DEF Expected, Steps
<1>6. ASSUME ~touched
      PROVE  /\ \A i \in Items : Here[i] # "nothing"
             /\ run.pass = 2 => \A i \in Items : Here[i] = "match"
  <2>1. ListIsTrue /\ SectionsAreThere /\ Listed = Scenes
    BY <1>1, <1>2, <1>6 DEF PreparedInv, InLoop, AtScenes, Listed, Steps
  <2>2. \A i \in Scenes : Settled(i)
    BY <1>2, <2>1 DEF ListIsTrue
  <2> QED BY <2>1, <2>2 DEF SectionsAreThere, Settled, Items
<1>7. PreparedInv'
  BY <1>2, <1>3, <1>6 DEF PreparedInv, InLoop, Creating, AtScenes, Here
<1>8. RepeatInv' /\ CopyIsPrepared'
  BY <1>3 DEF RepeatInv, CopyIsPrepared, Creating
<1> QED BY <1>4, <1>5, <1>7, <1>8 DEF RunInv

LEMMA InitRunInv == Init => RunInv
<1> SUFFICES ASSUME Init PROVE RunInv
  OBVIOUS
<1>1. /\ doc \in [guid : Guids, holds : [Items -> Holdings]] /\ used = {doc.guid}
      /\ ms = [guid |-> doc.guid, revision |-> 0]
      /\ run = Fresh /\ copy \in [Items -> Holdings] /\ touched = FALSE
  BY DEF Init, Contents, Holdings, Model!Track
<1>2. Fresh.at = "start" /\ Fresh.pass = 1 /\ Fresh.todo = {}
  BY DEF Fresh
<1>3. Fresh \in Runs
  BY <1>1, ItemFacts DEF Fresh, Runs, Steps
<1>4. RunTypeOK
  BY <1>1, <1>3 DEF RunTypeOK
<1> QED BY <1>1, <1>2, <1>4 DEF RunInv, PositionInv, PassedUndisturbed, PreparedInv, RepeatInv,
        CopyIsPrepared, Creating, Steps

LEMMA StutterRunInv == ASSUME RunInv, UNCHANGED vars PROVE RunInv'
BY DEF RunInv, vars, RunTypeOK, PositionInv, PassedUndisturbed, Undisturbed, Overtaken, Expected,
   PreparedInv, ListIsTrue, Settled, SectionsAreThere, InLoop, Creating, AtScenes, Listed, Here,
   RepeatInv, CopyIsPrepared

LEMMA NextRunInv == RunInv /\ [Next]_vars => RunInv'
BY UserInv, DiscoverInv, ReadBoundsInv, ListSectionsInv, ListScenesInv, RefreshSectionRefsInv,
   ReuseInv, MissInv, CreateInv, ConfirmInv, EndPassInv, VerifyInv, CopyInv, DrawInv, FailInv,
   RestartInv, StutterRunInv DEF Next, Runner

-----------------------------------------------------------------------------
(* The theorems *)

(* Whatever the user does between any two calls: the run knows the         *)
(* tracker's revision exactly as long as nobody else has acted, and until  *)
(* then what it listed and created is in the model as it believes          *)
(* (runner.go ensurePresentation, requireCurrent).                         *)
THEOREM RunInvariant == Spec => []RunInv
BY InitRunInv, NextRunInv, PTL DEF Spec

(* A run passes only if nobody else touched the model from the first       *)
(* reading of the revision to the last drawing.                            *)
THEOREM PassingRunsAlone == Spec => []PassedUndisturbed
<1>1. RunInv => PassedUndisturbed
  BY DEF RunInv, PositionInv
<1> QED BY <1>1, RunInvariant, PTL

(* The copy everything is drawn from holds each item of the fixture once   *)
(* and as it is defined.  The guards that compare revisions make the list  *)
(* of the second pass true of the copy; that list, not the creations,      *)
(* shows that the items are what they should be (repeatPresentation).      *)
THEOREM CopiesArePrepared == Spec => []CopyIsPrepared
<1>1. RunInv => CopyIsPrepared
  BY DEF RunInv
<1> QED BY <1>1, RunInvariant, PTL

(* The repeated pass never starts to create an item.                       *)
THEOREM RepeatsCreateNothing == Spec => []RepeatCreatesNothing
<1>1. RunInv => RepeatCreatesNothing
  BY DEF RunInv, RepeatInv, RepeatCreatesNothing, Creating
<1> QED BY <1>1, RunInvariant, PTL

(* The client creates an item only where there is nothing of its name,     *)
(* although its list was made before its own creations and the user's      *)
(* edits.                                                                  *)
THEOREM CreationsAreOfTheMissing == Spec => CreatesOnlyWhatIsMissing
<1>1. RunInv /\ [Next]_vars =>
        [run.at = "create" /\ run'.at = "confirm" => Here[run.item] = "nothing"]_vars
  <2> SUFFICES ASSUME RunInv, Next, run.at = "create", run'.at = "confirm"
               PROVE  Here[run.item] = "nothing"
    OBVIOUS
  <2>1. run \in Runs
    BY DEF RunInv, RunTypeOK
  <2>2. ~User /\ ~Fail /\ ~Restart
    BY DEF User, Fail, Failed, Restart, Fresh
  <2>3. ~Discover /\ ~ReadBounds /\ ~ListSections /\ ~ListScenes
        /\ ~VerifySections /\ ~VerifyScenes /\ ~Copy /\ ~Draw
    BY DEF Discover, ReadBounds, ListSections, ListScenes, VerifySections, VerifyScenes, Read,
       Copy, Draw
  <2>4. ~RefreshSectionRefs
    BY <2>1 DEF RefreshSectionRefs, Read, Runs
  <2>5. ~Reuse /\ ~Miss /\ ~Confirm /\ ~EndPass
    BY DEF Reuse, Miss, Confirm, EndPass
  <2>6. Create
    BY <2>2, <2>3, <2>4, <2>5 DEF Next, Runner
  <2> QED BY <2>6, MissingStill
<1> QED BY <1>1, RunInvariant, PTL DEF Spec, CreatesOnlyWhatIsMissing
=============================================================================
