-------------------------- MODULE DrawingRunProofs --------------------------
(***************************************************************************)
(* Theorems about drawing runs, for any runs, fixtures and templates.      *)
(*                                                                         *)
(* Between creating its document and passing, a run is the only one that   *)
(* can touch the document and the files named after it: the names are      *)
(* taken, so no other run gets past creating its own, and no call a dead   *)
(* run left behind can still be pending, because the creation waited for   *)
(* all of them (FilesAreOwned, LateCallsAreOfNoRun).  What the run then    *)
(* knows of its document stays true (SheetIsDrawn).                        *)
(***************************************************************************)
EXTENDS DrawingRun, SequenceTheorems, TLAPS

-----------------------------------------------------------------------------
(* Fixtures *)

LEMMA DrawingOf ==
  ASSUME NEW f \in Fixtures
  PROVE  /\ Len(f.viewports) \in Nat /\ Len(f.dimensions) \in Nat /\ Len(f.annotations) \in Nat
         /\ DOMAIN f.viewports = 1..Len(f.viewports)
         /\ DOMAIN f.dimensions = 1..Len(f.dimensions)
         /\ DOMAIN f.annotations = 1..Len(f.annotations)
         /\ Len(Drawing(f)) = Len(f.viewports) + Len(f.dimensions) + Len(f.annotations)
         /\ DOMAIN Drawing(f) = 1..Len(Drawing(f))
         /\ \A i \in 1..Len(f.viewports) : Drawing(f)[i] = f.viewports[i]
         /\ \A i \in 1..Len(f.dimensions) :
              Drawing(f)[Len(f.viewports) + i] = f.dimensions[i]
         /\ \A i \in 1..Len(f.annotations) :
              Drawing(f)[Len(f.viewports) + Len(f.dimensions) + i] = f.annotations[i]
<1> DEFINE v == f.viewports
           d == f.dimensions
           a == f.annotations
           V == {v[i] : i \in DOMAIN v}
           D == {d[i] : i \in DOMAIN d}
           A == {a[i] : i \in DOMAIN a}
           U == V \cup D \cup A
<1>1. v \in Seq(V) /\ d \in Seq(D) /\ a \in Seq(A)
  <2>1. \A k \in {"viewports", "dimensions", "annotations"} :
          f[k] \in Seq({f[k][i] : i \in DOMAIN f[k]})
    BY DrawingAssumption
  <2> QED BY <2>1
<1>2. V \subseteq U /\ D \subseteq U /\ A \subseteq U
  OBVIOUS
<1> HIDE DEF V, D, A, U, v, d, a
<1>3. v \in Seq(U) /\ d \in Seq(U) /\ a \in Seq(U)
  BY <1>1, <1>2, SeqMonotonic
<1>4. /\ Len(v) \in Nat /\ Len(d) \in Nat /\ Len(a) \in Nat
      /\ DOMAIN v = 1..Len(v) /\ DOMAIN d = 1..Len(d) /\ DOMAIN a = 1..Len(a)
  BY <1>3, LenProperties
<1>5. /\ d \o a \in Seq(U) /\ Len(d \o a) = Len(d) + Len(a)
      /\ \A i \in 1..Len(d) + Len(a) : (d \o a)[i] = IF i <= Len(d) THEN d[i] ELSE a[i - Len(d)]
  BY <1>3, ConcatProperties
<1>6. Drawing(f) = v \o (d \o a)
  <2>1. (v \o d) \o a = v \o (d \o a)
    BY <1>3, ConcatAssociative
  <2> QED BY <2>1 DEF Drawing, v, d, a
<1> DEFINE t == d \o a
<1> HIDE DEF t
<1>7. t \in Seq(U) /\ Len(t) = Len(d) + Len(a)
      /\ \A i \in 1..Len(d) + Len(a) : t[i] = IF i <= Len(d) THEN d[i] ELSE a[i - Len(d)]
  BY <1>5 DEF t
<1>8. /\ v \o t \in Seq(U) /\ Len(v \o t) = Len(v) + Len(t)
      /\ \A i \in 1..Len(v) + Len(t) : (v \o t)[i] = IF i <= Len(v) THEN v[i] ELSE t[i - Len(v)]
  <2>1. v \in Seq(U) /\ t \in Seq(U)
    BY <1>3, <1>7
  <2> QED BY <2>1, ConcatProperties, Zenon
<1>9. DOMAIN (v \o t) = 1..Len(v \o t)
  BY <1>8, LenProperties
<1>10. \A i \in 1..Len(v) : (v \o t)[i] = v[i]
  BY <1>4, <1>7, <1>8
<1>11. \A i \in 1..Len(d) : (v \o t)[Len(v) + i] = d[i]
  BY <1>4, <1>7, <1>8
<1>12. \A i \in 1..Len(a) : (v \o t)[Len(v) + Len(d) + i] = a[i]
  <2> SUFFICES ASSUME NEW i \in 1..Len(a)
               PROVE  (v \o t)[Len(v) + Len(d) + i] = a[i]
    OBVIOUS
  <2>1. (v \o t)[Len(v) + Len(d) + i] = t[Len(d) + i]
    BY <1>4, <1>7, <1>8
  <2>2. t[Len(d) + i] = a[i]
    BY <1>4, <1>7
  <2> QED BY <2>1, <2>2
<1>13. Len(v \o t) = Len(v) + Len(d) + Len(a)
  BY <1>4, <1>7, <1>8
<1> QED BY <1>4, <1>6, <1>9, <1>10, <1>11, <1>12, <1>13 DEF v, d, a, t

LEMMA ItemKinds ==
  ASSUME NEW f \in Fixtures
  PROVE  /\ \A i \in DOMAIN f.viewports : f.viewports[i].kind # "dimension"
         /\ \A i \in DOMAIN f.annotations : f.annotations[i].kind # "dimension"
BY DrawingAssumption

LEMMA ItemsAreItems ==
  ASSUME NEW f \in Fixtures, NEW k \in Drawn, NEW i \in DOMAIN f[k]
  PROVE  f[k][i] \in ItemsOf(f)
<1> DEFINE v == f.viewports
           d == f.dimensions
           a == f.annotations
           D == Drawing(f)
<1>1. /\ Len(v) \in Nat /\ Len(d) \in Nat /\ Len(a) \in Nat
      /\ DOMAIN v = 1..Len(v) /\ DOMAIN d = 1..Len(d) /\ DOMAIN a = 1..Len(a)
      /\ Len(D) = Len(v) + Len(d) + Len(a) /\ DOMAIN D = 1..Len(D)
      /\ \A j \in 1..Len(v) : D[j] = v[j]
      /\ \A j \in 1..Len(d) : D[Len(v) + j] = d[j]
      /\ \A j \in 1..Len(a) : D[Len(v) + Len(d) + j] = a[j]
  BY DrawingOf
<1>2. \A j \in DOMAIN D : D[j] \in ItemsOf(f)
  BY DEF ItemsOf
<1>3. f[k] \in {v, d, a}
  BY DEF Drawn
<1> HIDE DEF v, d, a, D
<1>4. CASE f[k] = v
  BY <1>1, <1>2, <1>4
<1>5. CASE f[k] = d
  <2>1. i \in 1..Len(d)
    BY <1>1, <1>5
  <2>2. Len(v) + i \in DOMAIN D
    BY <1>1, <2>1
  <2> QED BY <1>1, <1>2, <1>5, <2>1, <2>2
<1>6. CASE f[k] = a
  <2>1. i \in 1..Len(a)
    BY <1>1, <1>6
  <2>2. Len(v) + Len(d) + i \in DOMAIN D
    BY <1>1, <2>1
  <2> QED BY <1>1, <1>2, <1>6, <2>1, <2>2
<1> QED BY <1>3, <1>4, <1>5, <1>6

-----------------------------------------------------------------------------
(* Types *)

LEMMA InitTypes == Init => TypeOK
<1> SUFFICES ASSUME Init PROVE TypeOK
  OBVIOUS
<1>1. run \in [Runs -> Processes]
  BY DEF Init, Processes, Stages, Drawn
<1>2. disk \in Directories
  BY EmptySeq DEF Init, Directories, NoSheet, Sheets
<1> QED BY <1>1, <1>2 DEF Init, TypeOK

\* What adding an item does to the directory.
LEMMA AddEffect ==
  ASSUME TypeOK, NEW r \in Runs, NEW item \in ItemsOf(Fixture(r)), Add(r, item)
  PROVE  \E e \in Entities :
           /\ e.by = r /\ e.item = item /\ (item.kind # "dimension" => e.connected)
           /\ disk.layout.by # None
           /\ disk' \in Directories
           /\ disk'.skp = disk.skp /\ disk'.png = disk.png /\ disk'.pdf = disk.pdf
           /\ disk'.report = disk.report
           /\ disk'.layout.by = disk.layout.by
           /\ disk'.layout.on = Append(disk.layout.on, e)
<1>1. PICK inside \in BOOLEAN, connected \in BOOLEAN :
        /\ item.kind # "dimension" => connected
        /\ disk' = [disk EXCEPT !.layout.on =
             Append(@, [by |-> r, item |-> item, inside |-> inside, connected |-> connected])]
  BY DEF Add
<1> DEFINE e == [by |-> r, item |-> item, inside |-> inside, connected |-> connected]
           on == Append(disk.layout.on, e)
<1>2. Fixture(r) \in Fixtures
  BY DEF TypeOK, Processes, Fixture
<1>3. e \in Entities /\ e.by = r /\ e.item = item /\ e.connected = connected
  BY <1>2 DEF Entities
<1>4. disk \in Directories /\ disk.layout \in Sheets /\ disk.layout.on \in Seq(Entities)
  BY DEF TypeOK, Directories, Sheets
<1> HIDE DEF e
<1>5. on \in Seq(Entities)
  BY <1>3, <1>4, AppendProperties
<1>6. disk' = [disk EXCEPT !.layout.on = on]
  BY <1>1 DEF e
<1>7. disk.layout.by # None
  BY DEF Add
<1> HIDE DEF on
<1>8. /\ disk' \in Directories
      /\ disk'.skp = disk.skp /\ disk'.png = disk.png /\ disk'.pdf = disk.pdf
      /\ disk'.report = disk.report
      /\ disk'.layout.by = disk.layout.by
      /\ disk'.layout.on = on
  BY <1>4, <1>5, <1>6 DEF Directories, Sheets
<1> QED BY <1>1, <1>3, <1>7, <1>8 DEF on

LEMMA AddType ==
  ASSUME TypeOK, NEW r \in Runs, NEW k \in Drawn, HasNext(r, k), Add(r, Item(r, k))
  PROVE  /\ Item(r, k) \in ItemsOf(Fixture(r))
         /\ disk' \in Directories
<1>1. Fixture(r) \in Fixtures
  BY DEF TypeOK, Processes, Fixture
<1>2. Item(r, k) \in ItemsOf(Fixture(r))
  BY <1>1, ItemsAreItems DEF Item, HasNext
<1> QED BY <1>2, AddEffect

LEMMA ToType ==
  ASSUME TypeOK, NEW r \in Runs, NEW at \in Stages, To(r, at)
  PROVE  /\ run' \in [Runs -> Processes]
         /\ run'[r].at = at /\ run'[r].next = 1 /\ run'[r].fixture = run[r].fixture
         /\ run'[r].refs = run[r].refs /\ run'[r].panels = run[r].panels
         /\ \A q \in Runs \ {r} : run'[q] = run[q]
<1>1. run \in [Runs -> Processes] /\ run[r] \in Processes
  BY DEF TypeOK
<1>2. run' = [run EXCEPT ![r].at = at, ![r].next = 1]
  BY DEF To
<1> QED BY <1>1, <1>2 DEF Processes

LEMMA RunTypes ==
  ASSUME TypeOK, NEW r \in Runs
  PROVE  /\ run[r] \in Processes /\ run[r].at \in Stages /\ run[r].next \in Nat
         /\ Fixture(r) \in Fixtures
         /\ disk \in Directories /\ disk.layout \in Sheets
         /\ disk.layout.on \in Seq(Entities)
         /\ disk.layout.by \in Runs \cup {None}
BY DEF TypeOK, Processes, Directories, Sheets, Fixture

LEMMA LeaveType ==
  ASSUME TypeOK, NEW r \in Runs, Leave(r)
  PROVE  late' \subseteq [by : Runs, at : Stages, next : Nat]
BY DEF TypeOK, Processes, Leave

LEMMA ReportType ==
  ASSUME TypeOK, NEW r \in Runs, NEW status \in {"pass", "fail"}, disk' = Report(r, status)
  PROVE  /\ disk' \in Directories
         /\ disk'.skp = disk.skp /\ disk'.layout = disk.layout
         /\ disk'.png = disk.png /\ disk'.pdf = disk.pdf
BY DEF TypeOK, Directories, Report

\* A file is made under a name nothing has.
LEMMA FileTypes ==
  ASSUME TypeOK, NEW r \in Runs
  PROVE  /\ [disk EXCEPT !.skp = r] \in Directories
         /\ [disk EXCEPT !.layout = [by |-> r, on |-> <<>>]] \in Directories
         /\ [disk EXCEPT !.png = [disk.layout EXCEPT !.by = r]] \in Directories
         /\ [disk EXCEPT !.pdf = [disk.layout EXCEPT !.by = r]] \in Directories
<1>1. disk \in Directories /\ disk.layout \in Sheets
  BY DEF TypeOK, Directories
<1>2. [by |-> r, on |-> <<>>] \in Sheets /\ [disk.layout EXCEPT !.by = r] \in Sheets
  BY <1>1, EmptySeq DEF Sheets
<1> QED BY <1>1, <1>2 DEF Directories

\* The effect of a call nobody waits for.
LEMMA LateEffect ==
  ASSUME TypeOK, Late
  PROVE  /\ run' = run /\ late' \subseteq late
         /\ disk' \in Directories
         /\ \/ disk' = disk
            \/ /\ disk.skp = None
               /\ disk'.layout = disk.layout /\ disk'.png = disk.png /\ disk'.pdf = disk.pdf
            \/ disk.layout.by = None /\ disk'.skp = disk.skp
            \/ disk'.skp = disk.skp /\ \E c \in late : c.at \in Drawn \cup {"png", "pdf"}
<1>1. PICK c \in late :
        /\ late' = late \ {c}
        /\ UNCHANGED run
        /\ \/ UNCHANGED disk
           \/ c.at = "copy" /\ disk.skp = None /\ disk' = [disk EXCEPT !.skp = c.by]
           \/ /\ c.at = "layout" /\ disk.layout.by = None
              /\ disk' = [disk EXCEPT !.layout = [by |-> c.by, on |-> <<>>]]
           \/ /\ c.at \in Drawn /\ c.next \in DOMAIN Fixture(c.by)[c.at]
              /\ Add(c.by, Fixture(c.by)[c.at][c.next])
           \/ /\ c.at = "png" /\ disk.layout.by # None /\ disk.png.by = None
              /\ disk' = [disk EXCEPT !.png = [disk.layout EXCEPT !.by = c.by]]
           \/ /\ c.at = "pdf" /\ disk.layout.by # None /\ disk.pdf.by = None
              /\ disk' = [disk EXCEPT !.pdf = [disk.layout EXCEPT !.by = c.by]]
  BY DEF Late
<1>2. c.by \in Runs /\ disk \in Directories
  BY DEF TypeOK
<1>3. CASE UNCHANGED disk
  BY <1>1, <1>2, <1>3
<1>4. CASE c.at = "copy" /\ disk.skp = None /\ disk' = [disk EXCEPT !.skp = c.by]
  <2>1. disk'.layout = disk.layout /\ disk'.png = disk.png /\ disk'.pdf = disk.pdf
    BY <1>2, <1>4 DEF Directories
  <2> QED BY <1>1, <1>2, <1>4, <2>1, FileTypes
<1>5. CASE /\ c.at = "layout" /\ disk.layout.by = None
           /\ disk' = [disk EXCEPT !.layout = [by |-> c.by, on |-> <<>>]]
  <2>1. disk'.skp = disk.skp
    BY <1>2, <1>5 DEF Directories
  <2> QED BY <1>1, <1>2, <1>5, <2>1, FileTypes
<1>6. CASE /\ c.at \in Drawn /\ c.next \in DOMAIN Fixture(c.by)[c.at]
           /\ Add(c.by, Fixture(c.by)[c.at][c.next])
  <2>1. Fixture(c.by)[c.at][c.next] \in ItemsOf(Fixture(c.by))
    BY <1>2, <1>6, RunTypes, ItemsAreItems
  <2>2. disk' \in Directories /\ disk'.skp = disk.skp
    BY <1>2, <1>6, <2>1, AddEffect
  <2> QED BY <1>1, <1>6, <2>2
<1>7. CASE c.at = "png" /\ disk' = [disk EXCEPT !.png = [disk.layout EXCEPT !.by = c.by]]
  <2>1. disk'.skp = disk.skp
    BY <1>2, <1>7 DEF Directories
  <2> QED BY <1>1, <1>2, <1>7, <2>1, FileTypes
<1>8. CASE c.at = "pdf" /\ disk' = [disk EXCEPT !.pdf = [disk.layout EXCEPT !.by = c.by]]
  <2>1. disk'.skp = disk.skp
    BY <1>2, <1>8 DEF Directories
  <2> QED BY <1>1, <1>2, <1>8, <2>1, FileTypes
<1> QED BY <1>1, <1>3, <1>4, <1>5, <1>6, <1>7, <1>8

-----------------------------------------------------------------------------
(* The invariant, run by run *)

OwnFiles(r) ==
  /\ run[r].at \in {"layout"} \cup PastLayout => disk.skp = r
  /\ run[r].at \in PastLayout => disk.layout.by = r
  /\ run[r].at \in {"pdf", "responsive"} => disk.png = disk.layout
  /\ run[r].at = "responsive" => disk.pdf = disk.layout

OwnEntity(r, i) ==
  LET e == disk.layout.on[i] IN
  /\ e.by = r /\ e.item = Drawing(Fixture(r))[i] /\ e.connected
  /\ run[r].at \notin Drawn /\ e.item.panel # "" =>
       e.inside \/ (run[r].at = "panels" /\ e.item.panel \in run[r].panels)

OwnSheet(r) ==
  run[r].at \in PastLayout =>
    /\ run[r].at \in Drawn => run[r].next \in 1..(Len(Fixture(r)[run[r].at]) + 1)
    /\ Len(disk.layout.on) = Done(r)
    /\ \A i \in DOMAIN disk.layout.on : OwnEntity(r, i)

OwnViewports(r) ==
  /\ run[r].at \in {"new", "template", "copy", "layout"} => run[r].refs = {}
  /\ r \in Active => FixtureValid(Fixture(r))
  /\ run[r].at = "viewports" =>
       run[r].refs = {Fixture(r).viewports[i].id : i \in 1..(run[r].next - 1)}
  /\ run[r].at = "dimensions" => run[r].refs = Ids(Fixture(r).viewports)

RunOK(r) == OwnFiles(r) /\ OwnSheet(r) /\ OwnViewports(r)

LEMMA DrawingInvParts ==
  DrawingInv <=> TypeOK /\ LateCallsAreOfNoRun /\ \A r \in Runs : RunOK(r)
<1>1. FilesAreOwned <=> \A r \in Runs : OwnFiles(r)
  BY DEF FilesAreOwned, OwnFiles
<1>2. SheetIsDrawn <=> \A r \in Runs : OwnSheet(r)
  BY Zenon DEF SheetIsDrawn, OwnSheet, OwnEntity
<1>3. ViewportsAreKnown <=> \A r \in Runs : OwnViewports(r)
  BY Zenon DEF ViewportsAreKnown, OwnViewports
<1> QED BY <1>1, <1>2, <1>3 DEF DrawingInv, RunOK

LEMMA DrawingInvPartsPrimed ==
  DrawingInv' <=> TypeOK' /\ LateCallsAreOfNoRun' /\ \A r \in Runs : RunOK(r)'
<1>1. DrawingInv' <=> TypeOK' /\ LateCallsAreOfNoRun' /\ (\A r \in Runs : RunOK(r))'
  BY DrawingInvParts, PTL
<1> QED BY <1>1

\* A run keeps what it has when it does not move and nothing touches its files.
LEMMA Unmoved ==
  ASSUME NEW q \in Runs, RunOK(q), run'[q] = run[q],
         run[q].at \in {"layout"} \cup PastLayout => disk'.skp = disk.skp,
         run[q].at \in PastLayout =>
           disk'.layout = disk.layout /\ disk'.png = disk.png /\ disk'.pdf = disk.pdf
  PROVE  RunOK(q)'
<1>1. OwnFiles(q)'
  BY DEF RunOK, OwnFiles, PastLayout
<1>2. OwnSheet(q)'
  <2> SUFFICES ASSUME run'[q].at \in PastLayout
               PROVE  /\ run'[q].at \in Drawn =>
                           run'[q].next \in 1..(Len(Fixture(q)'[run'[q].at]) + 1)
                      /\ Len(disk'.layout.on) = Done(q)'
                      /\ \A i \in DOMAIN disk'.layout.on : OwnEntity(q, i)'
    BY DEF OwnSheet
  <2>1. Fixture(q)' = Fixture(q) /\ disk'.layout = disk.layout
    BY DEF Fixture
  <2>2. Done(q)' = Done(q)
    BY <2>1, Zenon DEF Done
  <2>3. \A i : OwnEntity(q, i)' <=> OwnEntity(q, i)
    BY <2>1 DEF OwnEntity
  <2> QED BY <2>1, <2>2, <2>3 DEF RunOK, OwnSheet
<1>3. OwnViewports(q)'
  <2>1. Fixture(q)' = Fixture(q)
    BY DEF Fixture
  <2>2. q \in Active' <=> q \in Active
    BY DEF Active
  <2> QED BY <2>1, <2>2 DEF RunOK, OwnViewports
<1> QED BY <1>1, <1>2, <1>3 DEF RunOK

\* Run r takes a step that leaves it well; the others are not disturbed.
LEMMA OneMoves ==
  ASSUME DrawingInv, NEW r \in Runs, TypeOK', RunOK(r)',
         \A q \in Runs \ {r} : run'[q] = run[q],
         late' = late,
         late = {} \/ (run'[r].at \in PastLayout => run[r].at \in PastLayout),
         disk'.skp = disk.skp \/ disk.skp = None,
         \/ disk'.layout = disk.layout /\ disk'.png = disk.png /\ disk'.pdf = disk.pdf
         \/ disk.layout.by \in {None, r}
  PROVE  DrawingInv'
<1>1. LateCallsAreOfNoRun'
  <2>1. LateCallsAreOfNoRun
    BY DEF DrawingInv
  <2> QED BY <2>1 DEF LateCallsAreOfNoRun
<1>2. \A q \in Runs : RunOK(q)'
  <2> SUFFICES ASSUME NEW q \in Runs, q # r PROVE RunOK(q)'
    OBVIOUS
  <2>1. RunOK(q) /\ q # None
    BY DrawingInvParts, DrawingAssumption
  <2>2. run[q].at \in {"layout"} \cup PastLayout => disk'.skp = disk.skp
    BY <2>1 DEF RunOK, OwnFiles
  <2>3. run[q].at \in PastLayout =>
          disk'.layout = disk.layout /\ disk'.png = disk.png /\ disk'.pdf = disk.pdf
    BY <2>1 DEF RunOK, OwnFiles
  <2> QED BY <2>1, <2>2, <2>3, Unmoved
<1> QED BY <1>1, <1>2, DrawingInvPartsPrimed

-----------------------------------------------------------------------------
(* The invariant is kept by each action *)

LEMMA InitInv == Init => DrawingInv
<1> SUFFICES ASSUME Init PROVE DrawingInv
  OBVIOUS
<1>1. TypeOK
  BY InitTypes
<1>2. LateCallsAreOfNoRun
  BY DEF Init, LateCallsAreOfNoRun
<1>3. \A r \in Runs : run[r].at = "new" /\ run[r].refs = {}
  BY DEF Init
<1>4. \A r \in Runs : RunOK(r)
  BY <1>3 DEF RunOK, OwnFiles, OwnSheet, OwnViewports, PastLayout, Drawn, Active
<1> QED BY <1>1, <1>2, <1>4, DrawingInvParts

LEMMA EarlyOK ==
  ASSUME NEW r \in Runs, run'[r].at \in {"template", "copy"}, run'[r].refs = {},
         FixtureValid(Fixture(r)')
  PROVE  RunOK(r)'
BY DEF RunOK, OwnFiles, OwnSheet, OwnViewports, PastLayout, Drawn, Active

LEMMA EndedOK ==
  ASSUME NEW r \in Runs, run'[r].at \in {"passed", "failed", "gone"}
  PROVE  RunOK(r)'
BY DEF RunOK, OwnFiles, OwnSheet, OwnViewports, PastLayout, Drawn, Active

LEMMA StartInv ==
  ASSUME DrawingInv, NEW r \in Runs, Start(r)
  PROVE  DrawingInv'
<1> DEFINE at == IF FixtureValid(Fixture(r)) THEN "template" ELSE "gone"
<1>1. TypeOK /\ RunOK(r) /\ at \in Stages /\ To(r, at) /\ run[r].at = "new"
      /\ disk' = disk /\ late' = late
  BY DrawingInvParts DEF Start, Stages
<1>2. /\ run' \in [Runs -> Processes]
      /\ run'[r].at = at /\ run'[r].fixture = run[r].fixture /\ run'[r].refs = run[r].refs
      /\ \A q \in Runs \ {r} : run'[q] = run[q]
  BY <1>1, ToType
<1>3. TypeOK'
  BY <1>1, <1>2 DEF TypeOK
<1>4. Fixture(r)' = Fixture(r) /\ run'[r].refs = {}
  BY <1>1, <1>2 DEF Fixture, RunOK, OwnViewports
<1>5. RunOK(r)'
  <2>1. CASE FixtureValid(Fixture(r))
    BY <1>2, <1>4, <2>1, EarlyOK
  <2>2. CASE ~FixtureValid(Fixture(r))
    BY <1>2, <2>2, EndedOK
  <2> QED BY <2>1, <2>2
<1>6. run'[r].at \notin PastLayout
  BY <1>2 DEF PastLayout, Drawn
<1> QED BY <1>1, <1>2, <1>3, <1>5, <1>6, OneMoves

LEMMA InspectTemplateInv ==
  ASSUME DrawingInv, NEW r \in Runs, InspectTemplate(r)
  PROVE  DrawingInv'
<1>1. TypeOK /\ RunOK(r) /\ "copy" \in Stages /\ To(r, "copy") /\ run[r].at = "template"
      /\ disk' = disk /\ late' = late /\ late = {}
  BY DrawingInvParts DEF InspectTemplate, Calls, Stages
<1>2. /\ run' \in [Runs -> Processes]
      /\ run'[r].at = "copy" /\ run'[r].fixture = run[r].fixture /\ run'[r].refs = run[r].refs
      /\ \A q \in Runs \ {r} : run'[q] = run[q]
  BY <1>1, ToType
<1>3. TypeOK'
  BY <1>1, <1>2 DEF TypeOK
<1>4. Fixture(r)' = Fixture(r) /\ run'[r].refs = {} /\ FixtureValid(Fixture(r))
  BY <1>1, <1>2 DEF Fixture, RunOK, OwnViewports, Active
<1>5. RunOK(r)'
  BY <1>2, <1>4, EarlyOK
<1> QED BY <1>1, <1>2, <1>3, <1>5, OneMoves

LEMMA SaveModelCopyInv ==
  ASSUME DrawingInv, NEW r \in Runs, SaveModelCopy(r)
  PROVE  DrawingInv'
<1>1. TypeOK /\ RunOK(r) /\ "layout" \in Stages /\ To(r, "layout") /\ run[r].at = "copy"
      /\ disk.skp = None /\ disk' = [disk EXCEPT !.skp = r] /\ late' = late /\ late = {}
  BY DrawingInvParts DEF SaveModelCopy, Calls, Stages
<1>2. /\ run' \in [Runs -> Processes]
      /\ run'[r].at = "layout" /\ run'[r].fixture = run[r].fixture /\ run'[r].refs = run[r].refs
      /\ \A q \in Runs \ {r} : run'[q] = run[q]
  BY <1>1, ToType
<1>3. disk \in Directories
  BY <1>1 DEF TypeOK
<1>4. disk'.skp = r /\ disk'.layout = disk.layout /\ disk'.png = disk.png
      /\ disk'.pdf = disk.pdf
  BY <1>1, <1>3 DEF Directories
<1>5. TypeOK'
  BY <1>1, <1>2, FileTypes DEF TypeOK
<1>6. Fixture(r)' = Fixture(r) /\ run'[r].refs = {} /\ FixtureValid(Fixture(r))
  BY <1>1, <1>2 DEF Fixture, RunOK, OwnViewports, Active
<1>7. RunOK(r)'
  BY <1>2, <1>4, <1>6 DEF RunOK, OwnFiles, OwnSheet, OwnViewports, PastLayout, Drawn, Active
<1> QED BY <1>1, <1>2, <1>4, <1>5, <1>7, OneMoves

LEMMA CreateLayoutInv ==
  ASSUME DrawingInv, NEW r \in Runs, CreateLayout(r)
  PROVE  DrawingInv'
<1>1. TypeOK /\ RunOK(r) /\ "viewports" \in Stages /\ To(r, "viewports")
      /\ run[r].at = "layout" /\ disk.layout.by = None
      /\ disk' = [disk EXCEPT !.layout = [by |-> r, on |-> <<>>]] /\ late' = late /\ late = {}
  BY DrawingInvParts DEF CreateLayout, Calls, Stages, Drawn
<1>2. /\ run' \in [Runs -> Processes]
      /\ run'[r].at = "viewports" /\ run'[r].next = 1
      /\ run'[r].fixture = run[r].fixture /\ run'[r].refs = run[r].refs
      /\ \A q \in Runs \ {r} : run'[q] = run[q]
  BY <1>1, ToType
<1>3. disk \in Directories
  BY <1>1 DEF TypeOK
<1>4. disk'.skp = disk.skp /\ disk'.layout.by = r /\ disk'.layout.on = <<>>
  BY <1>1, <1>3 DEF Directories
<1>5. TypeOK'
  BY <1>1, <1>2, FileTypes DEF TypeOK
<1>6. Fixture(r)' = Fixture(r) /\ run'[r].refs = {} /\ FixtureValid(Fixture(r))
      /\ disk.skp = r
  BY <1>1, <1>2 DEF Fixture, RunOK, OwnViewports, OwnFiles, Active
<1>7. OwnFiles(r)'
  BY <1>2, <1>4, <1>6 DEF OwnFiles
<1>8. OwnSheet(r)'
  <2>1. Len(Fixture(r).viewports) \in Nat
    BY <1>1, RunTypes, DrawingOf
  <2>2. run'[r].next \in 1..(Len(Fixture(r)'[run'[r].at]) + 1)
    BY <1>2, <1>6, <2>1
  <2>3. Done(r)' = 0
    BY <1>2 DEF Done
  <2>4. Len(disk'.layout.on) = 0 /\ DOMAIN disk'.layout.on = {}
    BY <1>4, EmptySeq
  <2> QED BY <2>2, <2>3, <2>4 DEF OwnSheet
<1>9. OwnViewports(r)'
  BY <1>2, <1>6 DEF OwnViewports, Active
<1> QED BY <1>1, <1>2, <1>4, <1>5, <1>7, <1>8, <1>9, OneMoves DEF RunOK

\* A run draws the next item of its stage.
LEMMA DrawSheet ==
  ASSUME DrawingInv, NEW r \in Runs, NEW k \in Drawn, run[r].at = k, HasNext(r, k),
         Add(r, Item(r, k)),
         k = "dimensions" => disk'.layout.on[Len(disk'.layout.on)].connected,
         run'[r].at = k, run'[r].next = run[r].next + 1, run'[r].fixture = run[r].fixture
  PROVE  /\ disk' \in Directories
         /\ disk'.skp = disk.skp /\ disk.layout.by = r
         /\ OwnFiles(r)' /\ OwnSheet(r)'
<1> DEFINE f == Fixture(r)
           item == Item(r, k)
           D == Drawing(f)
           on == disk.layout.on
<1>1. TypeOK /\ RunOK(r)
  BY DrawingInvParts
<1>2. f \in Fixtures /\ f' = f /\ on \in Seq(Entities) /\ run[r].next \in Nat
  BY <1>1, RunTypes DEF Fixture
<1>3. item \in ItemsOf(f)
  BY <1>1, AddType
<1>4. PICK e \in Entities :
        /\ e.by = r /\ e.item = item /\ (item.kind # "dimension" => e.connected)
        /\ disk' \in Directories
        /\ disk'.skp = disk.skp /\ disk'.png = disk.png /\ disk'.pdf = disk.pdf
        /\ disk'.layout.by = disk.layout.by
        /\ disk'.layout.on = Append(on, e)
  BY <1>1, <1>3, AddEffect
<1>5. /\ Len(on) \in Nat /\ DOMAIN on = 1..Len(on)
      /\ Len(disk'.layout.on) = Len(on) + 1
      /\ DOMAIN disk'.layout.on = 1..(Len(on) + 1)
      /\ \A i \in 1..Len(on) : disk'.layout.on[i] = on[i]
      /\ disk'.layout.on[Len(on) + 1] = e
  <2>1. Append(on, e) \in Seq(Entities)
    BY <1>2, <1>4, AppendProperties
  <2> QED BY <1>2, <1>4, <2>1, AppendProperties, LenProperties
<1>6. e.connected
  BY <1>2, <1>4, <1>5, ItemKinds DEF Item, HasNext, Drawn
<1>7. disk.skp = r /\ disk.layout.by = r /\ Len(on) = Done(r)
      /\ \A i \in DOMAIN on : OwnEntity(r, i)
  BY <1>1 DEF RunOK, OwnFiles, OwnSheet, PastLayout
<1>8. OwnFiles(r)'
  BY <1>4, <1>7 DEF OwnFiles, Drawn
<1>9. /\ run[r].next \in 1..Len(f[k])
      /\ Len(f[k]) \in Nat
      /\ Done(r)' = Done(r) + 1
      /\ D[Done(r) + 1] = item
  <2> DEFINE n == run[r].next
  <2>1. /\ Len(f.viewports) \in Nat /\ Len(f.dimensions) \in Nat /\ Len(f.annotations) \in Nat
        /\ DOMAIN f.viewports = 1..Len(f.viewports)
        /\ DOMAIN f.dimensions = 1..Len(f.dimensions)
        /\ DOMAIN f.annotations = 1..Len(f.annotations)
        /\ \A i \in 1..Len(f.viewports) : D[i] = f.viewports[i]
        /\ \A i \in 1..Len(f.dimensions) : D[Len(f.viewports) + i] = f.dimensions[i]
        /\ \A i \in 1..Len(f.annotations) :
              D[Len(f.viewports) + Len(f.dimensions) + i] = f.annotations[i]
    BY <1>2, DrawingOf
  <2>2. item = f[k][n] /\ n \in DOMAIN f[k] /\ n \in Nat
    BY <1>2 DEF Item, HasNext
  <2>3. CASE k = "viewports"
    <3>1. n \in 1..Len(f.viewports)
      BY <2>1, <2>2, <2>3
    <3>2. Done(r) = n - 1 /\ Done(r)' = (n + 1) - 1
      BY <2>3 DEF Done
    <3>3. Done(r) + 1 = n /\ Done(r)' = Done(r) + 1
      BY <3>1, <3>2
    <3> QED BY <2>1, <2>2, <2>3, <3>1, <3>3
  <2>4. CASE k = "dimensions"
    <3>1. n \in 1..Len(f.dimensions)
      BY <2>1, <2>2, <2>4
    <3>2. Done(r) = Len(f.viewports) + n - 1 /\ Done(r)' = Len(f.viewports) + (n + 1) - 1
      BY <1>2, <2>4 DEF Done
    <3>3. Done(r) + 1 = Len(f.viewports) + n /\ Done(r)' = Done(r) + 1
      BY <2>1, <2>2, <3>2
    <3> QED BY <2>1, <2>2, <2>4, <3>1, <3>3
  <2>5. CASE k = "annotations"
    <3>1. n \in 1..Len(f.annotations)
      BY <2>1, <2>2, <2>5
    <3>2. /\ Done(r) = Len(f.viewports) + Len(f.dimensions) + n - 1
          /\ Done(r)' = Len(f.viewports) + Len(f.dimensions) + (n + 1) - 1
      BY <1>2, <2>5 DEF Done
    <3>3. Done(r) + 1 = Len(f.viewports) + Len(f.dimensions) + n /\ Done(r)' = Done(r) + 1
      <4> DEFINE a == Len(f.viewports)
                 b == Len(f.dimensions)
                 x == Done(r)
                 y == Done(r)'
      <4>1. a \in Nat /\ b \in Nat /\ n \in Nat
        BY <2>1, <2>2
      <4>2. x = a + b + n - 1 /\ y = a + b + (n + 1) - 1
        BY <3>2
      <4> HIDE DEF a, b, n, x, y
      <4>3. x + 1 = a + b + n /\ y = x + 1
        BY <4>1, <4>2
      <4> QED BY <4>3 DEF a, b, x, y
    <3> QED BY <2>1, <2>2, <2>5, <3>1, <3>3, ZenonT(40)
  <2> QED BY <2>3, <2>4, <2>5 DEF Drawn
<1>10. OwnSheet(r)'
  <2>1. run'[r].next \in 1..(Len(f[k]) + 1)
    BY <1>2, <1>9
  <2>2. Len(disk'.layout.on) = Done(r)'
    BY <1>5, <1>7, <1>9
  <2>3. ASSUME NEW i \in DOMAIN disk'.layout.on
        PROVE  OwnEntity(r, i)'
    <3>1. CASE i \in 1..Len(on)
      <4>1. disk'.layout.on[i] = on[i] /\ OwnEntity(r, i)
        BY <1>5, <1>7, <3>1
      <4> QED BY <1>2, <4>1 DEF OwnEntity
    <3>2. CASE i = Len(on) + 1
      <4>1. disk'.layout.on[i] = e /\ e.item = D[i] /\ e.by = r
        BY <1>4, <1>5, <1>7, <1>9, <3>2
      <4> QED BY <1>2, <1>6, <4>1 DEF OwnEntity
    <3> QED BY <1>5, <2>3, <3>1, <3>2
  <2> HIDE DEF f, on
  <2>4. Fixture(r)' = f /\ run'[r].at = k
    BY <1>2 DEF f
  <2> QED BY <2>1, <2>2, <2>3, <2>4 DEF OwnSheet
<1> QED BY <1>4, <1>7, <1>8, <1>10

LEMMA AddViewportInv ==
  ASSUME DrawingInv, NEW r \in Runs, AddViewport(r)
  PROVE  DrawingInv'
<1> DEFINE item == Item(r, "viewports")
           f == Fixture(r)
           n == run[r].next
<1>1. TypeOK /\ RunOK(r) /\ "viewports" \in Drawn /\ run[r].at = "viewports"
      /\ HasNext(r, "viewports") /\ Add(r, item) /\ late' = late /\ late = {}
      /\ run' = [run EXCEPT ![r].next = n + 1, ![r].refs = run[r].refs \cup {item.id}]
  BY DrawingInvParts DEF AddViewport, Calls, Drawn
<1>2. run \in [Runs -> Processes] /\ run[r] \in Processes /\ f \in Fixtures
  BY <1>1, RunTypes DEF TypeOK
<1>3. n \in 1..Len(f.viewports) /\ Len(f.viewports) \in Nat /\ item = f.viewports[n]
  BY <1>1, <1>2, DrawingOf DEF HasNext, Item
<1>4. item.id \in UNION {Ids(g.viewports) : g \in Fixtures}
  <2>1. DOMAIN f.viewports = 1..Len(f.viewports)
    BY <1>2, DrawingOf
  <2>2. item.id \in Ids(f.viewports)
    BY <1>3, <2>1 DEF Ids
  <2> QED BY <1>2, <2>2
<1> HIDE DEF item, n
<1>5. /\ run' \in [Runs -> Processes]
      /\ run'[r].at = "viewports" /\ run'[r].next = n + 1
      /\ run'[r].fixture = run[r].fixture /\ run'[r].refs = run[r].refs \cup {item.id}
      /\ \A q \in Runs \ {r} : run'[q] = run[q]
  <2>1. n \in Nat
    BY <1>3
  <2> DEFINE refs == run[r].refs \cup {item.id}
  <2>2. refs \in SUBSET UNION {Ids(g.viewports) : g \in Fixtures}
    BY <1>2, <1>4 DEF Processes
  <2>3. run' = [run EXCEPT ![r].next = n + 1, ![r].refs = refs]
    BY <1>1
  <2> DEFINE R == UNION {Ids(g.viewports) : g \in Fixtures}
             P == UNION {PopulatedPanels(g) : g \in Fixtures}
  <2>4. Processes = [at : Stages, fixture : Fixtures, next : Nat, refs : SUBSET R,
                     panels : SUBSET P]
    BY DEF Processes
  <2> HIDE DEF refs, R, P
  <2>5. /\ run'[r].at = run[r].at /\ run'[r].next = n + 1
        /\ run'[r].fixture = run[r].fixture /\ run'[r].refs = refs
        /\ \A q \in Runs \ {r} : run'[q] = run[q]
    BY <1>2, <2>3, <2>4
  <2>6. run' \in [Runs -> Processes]
    <3>1. n + 1 \in Nat /\ refs \in SUBSET R
      BY <2>1, <2>2 DEF R
    <3> QED BY <1>2, <2>3, <2>4, <3>1
  <2> QED BY <1>1, <2>5, <2>6 DEF refs
<1>6. /\ disk' \in Directories /\ disk'.skp = disk.skp /\ disk.layout.by = r
      /\ OwnFiles(r)' /\ OwnSheet(r)'
  BY <1>1, <1>5, DrawSheet DEF item, n
<1>7. OwnViewports(r)'
  <2>1. Fixture(r)' = f /\ FixtureValid(f)
        /\ run[r].refs = {f.viewports[i].id : i \in 1..(n - 1)}
    BY <1>1, <1>5 DEF RunOK, OwnViewports, Fixture, Active, n
  <2>2. 1..((n + 1) - 1) = 1..(n - 1) \cup {n}
    BY <1>3
  <2>3. run'[r].refs = {f.viewports[i].id : i \in 1..((n + 1) - 1)}
    BY <1>3, <1>5, <2>1, <2>2
  <2> QED BY <1>5, <2>1, <2>3 DEF OwnViewports
<1>8. TypeOK'
  BY <1>1, <1>5, <1>6 DEF TypeOK
<1> QED BY <1>1, <1>5, <1>6, <1>7, <1>8, OneMoves DEF RunOK

\* Drawing what no one refers to.
LEMMA DrawOther ==
  ASSUME DrawingInv, NEW r \in Runs, NEW k \in {"dimensions", "annotations"},
         run[r].at = k, HasNext(r, k), Add(r, Item(r, k)),
         k = "dimensions" => disk'.layout.on[Len(disk'.layout.on)].connected,
         run' = [run EXCEPT ![r].next = run[r].next + 1], late' = late, late = {}
  PROVE  DrawingInv'
<1>1. TypeOK /\ RunOK(r) /\ k \in Drawn
  BY DrawingInvParts DEF Drawn
<1>2. run \in [Runs -> Processes] /\ run[r] \in Processes /\ run[r].next \in Nat
  BY <1>1, RunTypes DEF TypeOK
<1>3. /\ run' \in [Runs -> Processes]
      /\ run'[r].at = k /\ run'[r].next = run[r].next + 1
      /\ run'[r].fixture = run[r].fixture /\ run'[r].refs = run[r].refs
      /\ \A q \in Runs \ {r} : run'[q] = run[q]
  BY <1>2 DEF Processes
<1>4. /\ disk' \in Directories /\ disk'.skp = disk.skp /\ disk.layout.by = r
      /\ OwnFiles(r)' /\ OwnSheet(r)'
  BY <1>1, <1>3, DrawSheet
<1>5. OwnViewports(r)'
  BY <1>1, <1>3 DEF RunOK, OwnViewports, Fixture, Active
<1>6. TypeOK'
  BY <1>1, <1>3, <1>4 DEF TypeOK
<1> QED BY <1>3, <1>4, <1>5, <1>6, OneMoves DEF RunOK

LEMMA AddDimensionInv ==
  ASSUME DrawingInv, NEW r \in Runs, AddDimension(r)
  PROVE  DrawingInv'
BY DrawOther DEF AddDimension, Calls

LEMMA AddAnnotationInv ==
  ASSUME DrawingInv, NEW r \in Runs, AddAnnotation(r)
  PROVE  DrawingInv'
BY DrawOther DEF AddAnnotation, Calls

\* When the loop of a stage has ended, all of its items are drawn.
LEMMA EndStageInv ==
  ASSUME DrawingInv, NEW r \in Runs, EndStage(r)
  PROVE  DrawingInv'
<1> DEFINE f == Fixture(r)
           at == run[r].at
           n == run[r].next
           on == disk.layout.on
<1>1. TypeOK /\ RunOK(r) /\ disk' = disk /\ late' = late /\ at \in PastLayout
  BY DrawingInvParts DEF EndStage, PastLayout, Drawn
<1>2. run \in [Runs -> Processes] /\ run[r] \in Processes /\ f \in Fixtures /\ n \in Nat
  BY <1>1, RunTypes DEF TypeOK
<1>3. /\ Len(f.viewports) \in Nat /\ Len(f.dimensions) \in Nat /\ Len(f.annotations) \in Nat
      /\ DOMAIN f.viewports = 1..Len(f.viewports)
      /\ DOMAIN f.dimensions = 1..Len(f.dimensions)
      /\ DOMAIN f.annotations = 1..Len(f.annotations)
      /\ Len(Drawing(f)) = Len(f.viewports) + Len(f.dimensions) + Len(f.annotations)
      /\ DOMAIN Drawing(f) = 1..Len(Drawing(f))
  BY <1>2, DrawingOf
<1>4. /\ disk.skp = r /\ disk.layout.by = r /\ Len(on) = Done(r)
      /\ at \in Drawn => n \in 1..(Len(f[at]) + 1)
      /\ \A i \in DOMAIN on : OwnEntity(r, i)
      /\ FixtureValid(f)
  BY <1>1 DEF RunOK, OwnFiles, OwnSheet, OwnViewports, PastLayout, Drawn, Active
<1>5. SUFFICES /\ TypeOK'
               /\ \A q \in Runs \ {r} : run'[q] = run[q]
               /\ OwnSheet(r)' /\ OwnViewports(r)'
               /\ run'[r].at \in Drawn \cup {"panels", "png"}
  <2>1. OwnFiles(r)'
    BY <1>1, <1>4, <1>5 DEF OwnFiles, Drawn
  <2> QED BY <1>1, <1>5, <2>1, OneMoves DEF RunOK
<1>6. CASE at = "viewports" /\ ~HasNext(r, "viewports") /\ To(r, "dimensions")
  <2>1. /\ run' \in [Runs -> Processes]
        /\ run'[r].at = "dimensions" /\ run'[r].next = 1
        /\ run'[r].fixture = run[r].fixture /\ run'[r].refs = run[r].refs
        /\ \A q \in Runs \ {r} : run'[q] = run[q]
    BY <1>1, <1>6, ToType DEF Stages, Drawn
  <2>2. n = Len(f.viewports) + 1
    BY <1>3, <1>4, <1>6 DEF HasNext, Drawn
  <2>3. Done(r) = n - 1 /\ Done(r)' = Len(f.viewports) + 1 - 1
    BY <1>6, <2>1 DEF Done, Fixture
  <2>4. Done(r)' = Done(r)
    BY <1>3, <2>2, <2>3
  <2>5. \A i \in DOMAIN on : OwnEntity(r, i)'
    BY <1>1, <1>4, <2>1 DEF OwnEntity, Fixture, Drawn
  <2>6. Fixture(r)' = f
    BY <2>1 DEF Fixture
  <2>7. OwnSheet(r)'
    BY <1>1, <1>3, <1>4, <2>1, <2>4, <2>5, <2>6 DEF OwnSheet
  <2>8. OwnViewports(r)'
    <3>1. run[r].refs = {f.viewports[i].id : i \in 1..(n - 1)}
      BY <1>1, <1>6 DEF RunOK, OwnViewports
    <3>2. run[r].refs = Ids(f.viewports)
      BY <1>3, <2>2, <3>1 DEF Ids
    <3> QED BY <1>4, <2>1, <2>6, <3>2 DEF OwnViewports
  <2> QED BY <1>1, <2>1, <2>7, <2>8 DEF TypeOK, Drawn
<1>7. CASE at = "dimensions" /\ ~HasNext(r, "dimensions") /\ To(r, "annotations")
  <2>1. /\ run' \in [Runs -> Processes]
        /\ run'[r].at = "annotations" /\ run'[r].next = 1
        /\ run'[r].fixture = run[r].fixture
        /\ \A q \in Runs \ {r} : run'[q] = run[q]
    BY <1>1, <1>7, ToType DEF Stages, Drawn
  <2>2. n = Len(f.dimensions) + 1
    BY <1>3, <1>4, <1>7 DEF HasNext, Drawn
  <2>3. /\ Done(r) = Len(f.viewports) + n - 1
        /\ Done(r)' = Len(f.viewports) + Len(f.dimensions) + 1 - 1
    BY <1>7, <2>1 DEF Done, Fixture
  <2>4. Done(r)' = Done(r)
    BY <1>3, <2>2, <2>3
  <2>5. \A i \in DOMAIN on : OwnEntity(r, i)'
    BY <1>1, <1>4, <2>1 DEF OwnEntity, Fixture, Drawn
  <2>6. Fixture(r)' = f
    BY <2>1 DEF Fixture
  <2>7. OwnSheet(r)'
    BY <1>1, <1>3, <1>4, <2>1, <2>4, <2>5, <2>6 DEF OwnSheet
  <2>8. OwnViewports(r)'
    BY <1>4, <2>1, <2>6 DEF OwnViewports
  <2> QED BY <1>1, <2>1, <2>7, <2>8 DEF TypeOK, Drawn
<1>8. CASE /\ at = "annotations" /\ ~HasNext(r, "annotations")
           /\ run' = [run EXCEPT ![r].at = "panels", ![r].panels = PopulatedPanels(f)]
  <2>1. /\ run' \in [Runs -> Processes]
        /\ run'[r].at = "panels" /\ run'[r].panels = PopulatedPanels(f)
        /\ run'[r].fixture = run[r].fixture
        /\ \A q \in Runs \ {r} : run'[q] = run[q]
    <3> DEFINE R == UNION {Ids(g.viewports) : g \in Fixtures}
               P == UNION {PopulatedPanels(g) : g \in Fixtures}
               panels == PopulatedPanels(f)
    <3>1. Processes = [at : Stages, fixture : Fixtures, next : Nat, refs : SUBSET R,
                       panels : SUBSET P]
      BY DEF Processes
    <3>2. panels \in SUBSET P
      BY <1>2
    <3>3. run' = [run EXCEPT ![r].at = "panels", ![r].panels = panels]
      BY <1>8
    <3>4. "panels" \in Stages
      BY DEF Stages
    <3> HIDE DEF R, P, panels
    <3>5. run' \in [Runs -> Processes]
      BY <1>2, <3>1, <3>2, <3>3, <3>4
    <3>6. /\ run'[r].at = "panels" /\ run'[r].panels = panels
          /\ run'[r].fixture = run[r].fixture
          /\ \A q \in Runs \ {r} : run'[q] = run[q]
      BY <1>2, <3>1, <3>3
    <3> QED BY <3>5, <3>6 DEF panels
  <2>2. n = Len(f.annotations) + 1
    BY <1>3, <1>4, <1>8 DEF HasNext, Drawn
  <2>3. /\ Done(r) = Len(f.viewports) + Len(f.dimensions) + n - 1
        /\ Done(r)' = Len(Drawing(f))
    BY <1>8, <2>1 DEF Done, Fixture
  <2>4. Done(r)' = Done(r)
    BY <1>3, <2>2, <2>3
  <2>6. Fixture(r)' = f
    BY <2>1 DEF Fixture
  <2>5. ASSUME NEW i \in DOMAIN on
        PROVE  OwnEntity(r, i)'
    <3>1. DOMAIN on = 1..Len(on)
      BY <1>1, RunTypes, LenProperties
    <3>2. i \in DOMAIN Drawing(f)
      BY <1>3, <1>4, <2>3, <2>4, <3>1
    <3>3. OwnEntity(r, i)
      BY <1>4
    <3>4. on[i].item = Drawing(f)[i] /\ on[i].by = r /\ on[i].connected
      BY <3>3 DEF OwnEntity
    <3>5. on[i].item.panel # "" => on[i].item.panel \in PopulatedPanels(f)
      BY <3>2, <3>4 DEF PopulatedPanels, ItemsOf
    <3> QED BY <1>1, <2>1, <2>6, <3>4, <3>5 DEF OwnEntity
  <2>7. OwnSheet(r)'
    BY <1>1, <1>4, <2>1, <2>4, <2>5 DEF OwnSheet, Drawn
  <2>8. OwnViewports(r)'
    BY <1>4, <2>1, <2>6 DEF OwnViewports
  <2> QED BY <1>1, <2>1, <2>7, <2>8 DEF TypeOK, Drawn
<1>9. CASE at = "panels" /\ run[r].panels = {} /\ To(r, "png")
  <2>1. /\ run' \in [Runs -> Processes]
        /\ run'[r].at = "png" /\ run'[r].fixture = run[r].fixture
        /\ \A q \in Runs \ {r} : run'[q] = run[q]
    BY <1>1, <1>9, ToType DEF Stages, Drawn
  <2>2. Done(r)' = Done(r)
    BY <1>9, <2>1, Zenon DEF Done, Fixture
  <2>3. Fixture(r)' = f
    BY <2>1 DEF Fixture
  <2>4. \A i \in DOMAIN on : OwnEntity(r, i)'
    BY <1>1, <1>4, <1>9, <2>1, <2>3 DEF OwnEntity, Drawn
  <2>5. OwnSheet(r)'
    BY <1>1, <1>4, <2>1, <2>2, <2>4 DEF OwnSheet, Drawn
  <2>6. OwnViewports(r)'
    BY <1>4, <2>1, <2>3 DEF OwnViewports
  <2> QED BY <1>1, <2>1, <2>5, <2>6 DEF TypeOK
<1> QED BY <1>6, <1>7, <1>8, <1>9 DEF EndStage

\* A panel that is validated is on one page only, so that all of its items
\* have been looked at.
LEMMA ValidatePanelInv ==
  ASSUME DrawingInv, NEW r \in Runs, ValidatePanel(r)
  PROVE  DrawingInv'
<1> DEFINE f == Fixture(r)
           on == disk.layout.on
<1>1. TypeOK /\ RunOK(r) /\ disk' = disk /\ late' = late /\ run[r].at = "panels"
  BY DrawingInvParts DEF ValidatePanel, Calls
<1>2. PICK p \in run[r].panels : \E page \in PanelPages(f, p) :
        /\ PanelPages(f, p) = {page}
        /\ \A i \in DOMAIN on : on[i].item.panel = p /\ Page(on[i].item) = page => on[i].inside
        /\ run' = [run EXCEPT ![r].panels = run[r].panels \ {p}]
  BY DEF ValidatePanel
<1>3. PICK page :
        /\ PanelPages(f, p) = {page}
        /\ \A i \in DOMAIN on : on[i].item.panel = p /\ Page(on[i].item) = page => on[i].inside
        /\ run' = [run EXCEPT ![r].panels = run[r].panels \ {p}]
  BY <1>2
<1>4. run \in [Runs -> Processes] /\ run[r] \in Processes /\ f \in Fixtures
  BY <1>1, RunTypes DEF TypeOK
<1>5. /\ disk.skp = r /\ disk.layout.by = r /\ Len(on) = Done(r)
      /\ \A i \in DOMAIN on : OwnEntity(r, i)
      /\ FixtureValid(f)
  BY <1>1 DEF RunOK, OwnFiles, OwnSheet, OwnViewports, PastLayout, Drawn, Active
<1>6. /\ run' \in [Runs -> Processes]
      /\ run'[r].at = "panels" /\ run'[r].panels = run[r].panels \ {p}
      /\ run'[r].fixture = run[r].fixture
      /\ \A q \in Runs \ {r} : run'[q] = run[q]
  <2> DEFINE R == UNION {Ids(g.viewports) : g \in Fixtures}
             P == UNION {PopulatedPanels(g) : g \in Fixtures}
             panels == run[r].panels \ {p}
  <2>1. Processes = [at : Stages, fixture : Fixtures, next : Nat, refs : SUBSET R,
                     panels : SUBSET P]
    BY DEF Processes
  <2> HIDE DEF R, P
  <2>2. panels \in SUBSET P
    BY <1>4, <2>1
  <2>3. run' = [run EXCEPT ![r].panels = panels]
    BY <1>3
  <2> HIDE DEF panels
  <2>4. run' \in [Runs -> Processes]
    BY <1>4, <2>1, <2>2, <2>3
  <2>5. /\ run'[r].at = run[r].at /\ run'[r].panels = panels
        /\ run'[r].fixture = run[r].fixture
        /\ \A q \in Runs \ {r} : run'[q] = run[q]
    BY <1>4, <2>1, <2>3
  <2> QED BY <1>1, <2>4, <2>5 DEF panels
<1>7. Fixture(r)' = f
  BY <1>6 DEF Fixture
<1>8. OwnFiles(r)'
  BY <1>1, <1>5, <1>6 DEF OwnFiles
<1>9. OwnSheet(r)'
  <2>1. Done(r)' = Done(r)
    BY <1>1, <1>6, Zenon DEF Done, Fixture
  <2>2. ASSUME NEW i \in DOMAIN on
        PROVE  OwnEntity(r, i)'
    <3>1. /\ on[i].by = r /\ on[i].item = Drawing(f)[i] /\ on[i].connected
          /\ on[i].item.panel # "" => on[i].inside \/ on[i].item.panel \in run[r].panels
      <4>1. OwnEntity(r, i)
        BY <1>5
      <4> QED BY <1>1, <4>1 DEF OwnEntity, Drawn
    <3>2. on[i].item.panel = p => on[i].inside
      <4> SUFFICES ASSUME on[i].item.panel = p PROVE on[i].inside
        OBVIOUS
      <4>1. i \in DOMAIN Drawing(f)
        <5>1. DOMAIN on = 1..Len(on)
          BY <1>1, RunTypes, LenProperties
        <5>2. Done(r) = Len(Drawing(f)) /\ DOMAIN Drawing(f) = 1..Len(Drawing(f))
          BY <1>1, <1>4, DrawingOf DEF Done
        <5> QED BY <1>5, <5>1, <5>2
      <4>2. Page(on[i].item) \in PanelPages(f, p)
        BY <3>1, <4>1 DEF PanelPages, ItemsOf
      <4> QED BY <1>3, <4>2
    <3>3. on[i].item.panel # "" => on[i].inside \/ on[i].item.panel \in run'[r].panels
      BY <1>6, <3>1, <3>2
    <3> QED BY <1>1, <1>6, <1>7, <3>1, <3>3 DEF OwnEntity
  <2> QED BY <1>1, <1>5, <1>6, <2>1, <2>2 DEF OwnSheet, Drawn
<1>10. OwnViewports(r)'
  BY <1>5, <1>6, <1>7 DEF OwnViewports
<1>11. TypeOK'
  BY <1>1, <1>6 DEF TypeOK
<1> QED BY <1>1, <1>6, <1>8, <1>9, <1>10, <1>11, OneMoves DEF RunOK, PastLayout

\* What is on the sheet of a run that has drawn it all.
LEMMA SheetKept ==
  ASSUME NEW r \in Runs, OwnSheet(r), run[r].at \in {"png", "pdf"},
         run'[r].at \in {"pdf", "responsive"}, run'[r].fixture = run[r].fixture,
         disk'.layout = disk.layout
  PROVE  OwnSheet(r)'
<1>1. Fixture(r)' = Fixture(r)
  BY DEF Fixture
<1>2. Done(r)' = Done(r)
  BY <1>1, Zenon DEF Done
<1>3. Len(disk.layout.on) = Done(r) /\ \A i \in DOMAIN disk.layout.on : OwnEntity(r, i)
  BY DEF OwnSheet, PastLayout
<1>4. \A i \in DOMAIN disk.layout.on : OwnEntity(r, i)'
  BY <1>1, <1>3 DEF OwnEntity, Drawn
<1> QED BY <1>2, <1>3, <1>4 DEF OwnSheet, Drawn

LEMMA ExportPNGInv ==
  ASSUME DrawingInv, NEW r \in Runs, ExportPNG(r)
  PROVE  DrawingInv'
<1>1. TypeOK /\ RunOK(r) /\ "pdf" \in Stages /\ To(r, "pdf") /\ run[r].at = "png"
      /\ disk' = [disk EXCEPT !.png = [disk.layout EXCEPT !.by = r]]
      /\ late' = late /\ late = {}
  BY DrawingInvParts DEF ExportPNG, Calls, Stages
<1>2. /\ run' \in [Runs -> Processes]
      /\ run'[r].at = "pdf" /\ run'[r].fixture = run[r].fixture
      /\ \A q \in Runs \ {r} : run'[q] = run[q]
  BY <1>1, ToType
<1>3. disk \in Directories /\ disk.layout \in Sheets
  BY <1>1, RunTypes
<1>4. disk.skp = r /\ disk.layout.by = r /\ OwnSheet(r) /\ FixtureValid(Fixture(r))
  BY <1>1 DEF RunOK, OwnFiles, OwnViewports, PastLayout, Active
<1>5. disk'.skp = disk.skp /\ disk'.layout = disk.layout /\ disk'.png = disk.layout
  BY <1>1, <1>3, <1>4 DEF Directories, Sheets
<1>6. Fixture(r)' = Fixture(r)
  BY <1>2 DEF Fixture
<1>7. OwnFiles(r)'
  BY <1>2, <1>4, <1>5 DEF OwnFiles
<1>8. OwnSheet(r)'
  BY <1>1, <1>2, <1>4, <1>5, SheetKept
<1>9. OwnViewports(r)'
  BY <1>2, <1>4, <1>6 DEF OwnViewports
<1>10. TypeOK'
  BY <1>1, <1>2, FileTypes DEF TypeOK
<1> QED BY <1>1, <1>2, <1>4, <1>5, <1>7, <1>8, <1>9, <1>10, OneMoves DEF RunOK

LEMMA ExportPDFInv ==
  ASSUME DrawingInv, NEW r \in Runs, ExportPDF(r)
  PROVE  DrawingInv'
<1>1. TypeOK /\ RunOK(r) /\ "responsive" \in Stages /\ To(r, "responsive")
      /\ run[r].at = "pdf"
      /\ disk' = [disk EXCEPT !.pdf = [disk.layout EXCEPT !.by = r]]
      /\ late' = late /\ late = {}
  BY DrawingInvParts DEF ExportPDF, Calls, Stages
<1>2. /\ run' \in [Runs -> Processes]
      /\ run'[r].at = "responsive" /\ run'[r].fixture = run[r].fixture
      /\ \A q \in Runs \ {r} : run'[q] = run[q]
  BY <1>1, ToType
<1>3. disk \in Directories /\ disk.layout \in Sheets
  BY <1>1, RunTypes
<1>4. disk.skp = r /\ disk.layout.by = r /\ disk.png = disk.layout
      /\ OwnSheet(r) /\ FixtureValid(Fixture(r))
  BY <1>1 DEF RunOK, OwnFiles, OwnViewports, PastLayout, Active
<1>5. disk'.skp = disk.skp /\ disk'.layout = disk.layout /\ disk'.png = disk.png
      /\ disk'.pdf = disk.layout
  BY <1>1, <1>3, <1>4 DEF Directories, Sheets
<1>6. Fixture(r)' = Fixture(r)
  BY <1>2 DEF Fixture
<1>7. OwnFiles(r)'
  BY <1>2, <1>4, <1>5 DEF OwnFiles
<1>8. OwnSheet(r)'
  BY <1>1, <1>2, <1>4, <1>5, SheetKept
<1>9. OwnViewports(r)'
  BY <1>2, <1>4, <1>6 DEF OwnViewports
<1>10. TypeOK'
  BY <1>1, <1>2, FileTypes DEF TypeOK
<1> QED BY <1>1, <1>2, <1>4, <1>5, <1>7, <1>8, <1>9, <1>10, OneMoves DEF RunOK

LEMMA PassInv ==
  ASSUME DrawingInv, NEW r \in Runs, Pass(r)
  PROVE  DrawingInv'
<1>1. TypeOK /\ "passed" \in Stages /\ To(r, "passed") /\ disk' = Report(r, "pass")
      /\ late' = late
  BY DrawingInvParts DEF Pass, Stages
<1>2. /\ run' \in [Runs -> Processes] /\ run'[r].at = "passed"
      /\ \A q \in Runs \ {r} : run'[q] = run[q]
  BY <1>1, ToType
<1>3. /\ disk' \in Directories
      /\ disk'.skp = disk.skp /\ disk'.layout = disk.layout
      /\ disk'.png = disk.png /\ disk'.pdf = disk.pdf
  BY <1>1, ReportType
<1>4. RunOK(r)'
  BY <1>2, EndedOK
<1>5. TypeOK'
  BY <1>1, <1>2, <1>3 DEF TypeOK
<1> QED BY <1>1, <1>2, <1>3, <1>4, <1>5, OneMoves DEF PastLayout, Drawn

\* A run that ends may leave a call behind; while it drew, no other run did.
LEMMA EndingInv ==
  ASSUME DrawingInv, NEW r \in Runs, NEW at \in {"failed", "gone"}, To(r, at), Leave(r),
         disk' = disk \/ disk' = Report(r, "fail")
  PROVE  DrawingInv'
<1>1. TypeOK /\ at \in Stages /\ LateCallsAreOfNoRun
  BY DrawingInvParts DEF Stages
<1>2. /\ run' \in [Runs -> Processes] /\ run'[r].at = at
      /\ \A q \in Runs \ {r} : run'[q] = run[q]
  BY <1>1, ToType
<1>3. /\ disk' \in Directories
      /\ disk'.skp = disk.skp /\ disk'.layout = disk.layout
      /\ disk'.png = disk.png /\ disk'.pdf = disk.pdf
  BY <1>1, ReportType DEF TypeOK
<1>4. TypeOK'
  BY <1>1, <1>2, <1>3, LeaveType DEF TypeOK
<1>5. LateCallsAreOfNoRun'
  <2> SUFFICES ASSUME NEW c \in late', c.at \in Drawn \cup {"png", "pdf"}, NEW q \in Runs
               PROVE  run'[q].at \notin PastLayout
    BY DEF LateCallsAreOfNoRun
  <2>1. CASE q = r
    BY <1>2, <2>1 DEF PastLayout, Drawn
  <2>2. CASE q # r /\ c \in late
    BY <1>1, <1>2, <2>2 DEF LateCallsAreOfNoRun
  <2>3. CASE q # r /\ c \notin late
    <3>1. c.at = run[r].at
      BY <2>3 DEF Leave
    <3>2. run[r].at \in PastLayout
      BY <3>1 DEF PastLayout
    <3>3. disk.layout.by = r
      BY <3>2, DrawingInvParts DEF RunOK, OwnFiles
    <3>4. run[q].at \in PastLayout => disk.layout.by = q
      BY DrawingInvParts DEF RunOK, OwnFiles
    <3> QED BY <1>2, <2>3, <3>3, <3>4
  <2> QED BY <2>1, <2>2, <2>3
<1>6. \A q \in Runs : RunOK(q)'
  <2>1. RunOK(r)'
    BY <1>2, EndedOK
  <2>2. ASSUME NEW q \in Runs, q # r PROVE RunOK(q)'
    BY <1>2, <1>3, <2>2, DrawingInvParts, Unmoved
  <2> QED BY <2>1, <2>2
<1> QED BY <1>4, <1>5, <1>6, DrawingInvPartsPrimed

\* A call nobody waits for finds the name of its file taken, or no run that
\* draws.
LEMMA LateInv ==
  ASSUME DrawingInv, Late
  PROVE  DrawingInv'
<1>1. TypeOK /\ LateCallsAreOfNoRun
  BY DrawingInvParts
<1>2. run' = run /\ late' \subseteq late /\ disk' \in Directories
  BY <1>1, LateEffect
<1>3. TypeOK' /\ LateCallsAreOfNoRun'
  BY <1>1, <1>2 DEF TypeOK, LateCallsAreOfNoRun
<1>4. ASSUME NEW q \in Runs PROVE RunOK(q)'
  <2>1. RunOK(q) /\ q # None
    BY DrawingInvParts, DrawingAssumption
  <2>2. CASE disk' = disk
    BY <1>2, <2>1, <2>2, Unmoved
  <2>3. CASE /\ disk.skp = None
             /\ disk'.layout = disk.layout /\ disk'.png = disk.png /\ disk'.pdf = disk.pdf
    <3>1. run[q].at \notin {"layout"} \cup PastLayout
      BY <2>1, <2>3 DEF RunOK, OwnFiles
    <3> QED BY <1>2, <2>1, <3>1, Unmoved
  <2>4. CASE disk.layout.by = None /\ disk'.skp = disk.skp
    <3>1. run[q].at \notin PastLayout
      BY <2>1, <2>4 DEF RunOK, OwnFiles
    <3> QED BY <1>2, <2>1, <2>4, <3>1, Unmoved
  <2>5. CASE disk'.skp = disk.skp /\ \E c \in late : c.at \in Drawn \cup {"png", "pdf"}
    <3>1. run[q].at \notin PastLayout
      BY <1>1, <2>5 DEF LateCallsAreOfNoRun
    <3> QED BY <1>2, <2>1, <2>5, <3>1, Unmoved
  <2> QED BY <1>1, <2>2, <2>3, <2>4, <2>5, LateEffect
<1> QED BY <1>3, <1>4, DrawingInvPartsPrimed

LEMMA RemoveInv ==
  ASSUME DrawingInv, Remove
  PROVE  DrawingInv'
<1>1. TypeOK /\ LateCallsAreOfNoRun /\ Active = {} /\ run' = run /\ late' = late
  BY DrawingInvParts DEF Remove
<1>2. disk \in Directories /\ NoSheet \in Sheets
  BY <1>1, EmptySeq DEF TypeOK, NoSheet, Sheets
<1>3. disk' \in Directories
  <2>1. CASE disk' = [disk EXCEPT !.skp = None]
    BY <1>2, <2>1 DEF Directories
  <2>2. CASE disk' = [disk EXCEPT !["layout"] = NoSheet]
    BY <1>2, <2>2 DEF Directories
  <2>3. CASE disk' = [disk EXCEPT !["png"] = NoSheet]
    BY <1>2, <2>3 DEF Directories
  <2>4. CASE disk' = [disk EXCEPT !["pdf"] = NoSheet]
    BY <1>2, <2>4 DEF Directories
  <2> QED BY <2>1, <2>2, <2>3, <2>4 DEF Remove
<1>4. TypeOK' /\ LateCallsAreOfNoRun'
  BY <1>1, <1>3 DEF TypeOK, LateCallsAreOfNoRun
<1>5. ASSUME NEW q \in Runs PROVE RunOK(q)'
  <2>1. run[q].at \notin {"layout"} \cup PastLayout
    BY <1>1 DEF Active, PastLayout, Drawn
  <2> QED BY <1>1, <2>1, DrawingInvParts, Unmoved
<1> QED BY <1>4, <1>5, DrawingInvPartsPrimed

LEMMA NextInv ==
  ASSUME DrawingInv, [Next]_vars
  PROVE  DrawingInv'
<1>1. CASE UNCHANGED vars
  <2>1. run' = run /\ disk' = disk /\ late' = late
    BY <1>1 DEF vars
  <2>2. TypeOK' /\ LateCallsAreOfNoRun'
    BY <2>1, DrawingInvParts DEF TypeOK, LateCallsAreOfNoRun
  <2>3. \A q \in Runs : RunOK(q)'
    BY <2>1, DrawingInvParts, Unmoved
  <2> QED BY <2>2, <2>3, DrawingInvPartsPrimed
<1>2. ASSUME NEW r \in Runs, Start(r) PROVE DrawingInv'
  BY <1>2, StartInv
<1>3. ASSUME NEW r \in Runs, InspectTemplate(r) PROVE DrawingInv'
  BY <1>3, InspectTemplateInv
<1>4. ASSUME NEW r \in Runs, SaveModelCopy(r) PROVE DrawingInv'
  BY <1>4, SaveModelCopyInv
<1>5. ASSUME NEW r \in Runs, CreateLayout(r) PROVE DrawingInv'
  BY <1>5, CreateLayoutInv
<1>6. ASSUME NEW r \in Runs, AddViewport(r) PROVE DrawingInv'
  BY <1>6, AddViewportInv
<1>7. ASSUME NEW r \in Runs, AddDimension(r) PROVE DrawingInv'
  BY <1>7, AddDimensionInv
<1>8. ASSUME NEW r \in Runs, AddAnnotation(r) PROVE DrawingInv'
  BY <1>8, AddAnnotationInv
<1>9. ASSUME NEW r \in Runs, EndStage(r) PROVE DrawingInv'
  BY <1>9, EndStageInv
<1>10. ASSUME NEW r \in Runs, ValidatePanel(r) PROVE DrawingInv'
  BY <1>10, ValidatePanelInv
<1>11. ASSUME NEW r \in Runs, ExportPNG(r) PROVE DrawingInv'
  BY <1>11, ExportPNGInv
<1>12. ASSUME NEW r \in Runs, ExportPDF(r) PROVE DrawingInv'
  BY <1>12, ExportPDFInv
<1>13. ASSUME NEW r \in Runs, Pass(r) PROVE DrawingInv'
  BY <1>13, PassInv
<1>14. ASSUME NEW r \in Runs, Fail(r) PROVE DrawingInv'
  BY <1>14, EndingInv DEF Fail
<1>15. ASSUME NEW r \in Runs, Kill(r) PROVE DrawingInv'
  BY <1>15, EndingInv DEF Kill
<1>16. CASE Late
  BY <1>16, LateInv
<1>17. CASE Remove
  BY <1>17, RemoveInv
<1> QED BY <1>1, <1>2, <1>3, <1>4, <1>5, <1>6, <1>7, <1>8, <1>9, <1>10, <1>11, <1>12, <1>13,
        <1>14, <1>15, <1>16, <1>17, Zenon DEF Next

-----------------------------------------------------------------------------
(* The report *)

AfterCopy == {"layout", "png", "pdf"} \cup Drawn

Files == {"layout", "png", "pdf"}

FilesStand == Reported => \A file \in Files : disk'[file] \in {disk[file], NoSheet}

\* A run past its copy is not the one whose report stands.
LEMMA NotReported ==
  ASSUME DrawingInv, ReportInv, NEW r \in Runs, run[r].at \in {"layout"} \cup PastLayout
  PROVE  ~Reported
<1>1. disk.skp = r
  BY DrawingInvParts DEF RunOK, OwnFiles
<1> QED BY <1>1 DEF ReportInv, Reported, PastLayout, Drawn

\* A run that has not ended takes a step and is no report's.
LEMMA StepReport ==
  ASSUME TypeOK, ReportInv, NEW r \in Runs, late' = late,
         run[r].at \notin {"passed", "failed", "gone"},
         \A q \in Runs \ {r} : run'[q] = run[q],
         disk'.report = disk.report,
         \/ late = {}
         \/ disk'.skp = disk.skp /\ (run'[r].at \in PastLayout => run[r].at \in PastLayout)
  PROVE  ReportInv'
<1>1. ASSUME disk'.report.status = "pass"
      PROVE  disk'.report.by \in Runs /\ run'[disk'.report.by].at = "passed"
  BY <1>1 DEF ReportInv
<1>2. CASE late = {}
  BY <1>1, <1>2 DEF ReportInv
<1>3. CASE disk'.skp = disk.skp /\ (run'[r].at \in PastLayout => run[r].at \in PastLayout)
  <2> SUFFICES ASSUME NEW c \in late
               PROVE  /\ run'[c.by].at \in {"failed", "gone"}
                      /\ c.at \in AfterCopy =>
                           ~Reported' /\ \A q \in Runs : run'[q].at \notin PastLayout
    BY <1>1 DEF ReportInv, AfterCopy
  <2>1. /\ run[c.by].at \in {"failed", "gone"}
        /\ c.at \in AfterCopy => ~Reported /\ \A q \in Runs : run[q].at \notin PastLayout
    BY DEF ReportInv, AfterCopy
  <2>2. Reported' = Reported
    BY <1>3 DEF Reported
  <2>3. ASSUME NEW q \in Runs, run'[q].at \in PastLayout PROVE run[q].at \in PastLayout
    BY <1>3, <2>3
  <2>4. c.by \in Runs \ {r} /\ run'[c.by].at \in {"failed", "gone"}
    BY <2>1 DEF TypeOK
  <2> QED BY <2>1, <2>2, <2>3, <2>4
<1> QED BY <1>2, <1>3

\* The steps of a run but its end.
LEMMA GoingOn ==
  ASSUME DrawingInv, ReportInv, NEW r \in Runs,
         \/ Start(r) \/ InspectTemplate(r) \/ SaveModelCopy(r) \/ CreateLayout(r)
         \/ AddViewport(r) \/ AddDimension(r) \/ AddAnnotation(r) \/ EndStage(r)
         \/ ValidatePanel(r) \/ ExportPNG(r) \/ ExportPDF(r)
  PROVE  ReportInv' /\ FilesStand
<1>1. TypeOK /\ run \in [Runs -> Processes] /\ disk \in Directories
  BY DrawingInvParts DEF TypeOK
<1>2. ASSUME NEW k \in Drawn, run[r].at = k, HasNext(r, k), Add(r, Item(r, k)),
             late = {}, late' = late, \A q \in Runs \ {r} : run'[q] = run[q]
      PROVE  ReportInv' /\ FilesStand
  <2>1. disk'.report = disk.report
    BY <1>1, <1>2, AddType, AddEffect
  <2>2. ~Reported /\ k \notin {"passed", "failed", "gone"}
    BY <1>2, NotReported DEF PastLayout, Drawn
  <2> QED BY <1>1, <1>2, <2>1, <2>2, StepReport DEF FilesStand
<1>3. ASSUME run[r].at \in {"layout", "png", "pdf"}, late = {}, late' = late,
             disk'.report = disk.report, \A q \in Runs \ {r} : run'[q] = run[q]
      PROVE  ReportInv' /\ FilesStand
  <2>1. ~Reported /\ run[r].at \notin {"passed", "failed", "gone"}
    BY <1>3, NotReported DEF PastLayout
  <2> QED BY <1>1, <1>3, <2>1, StepReport DEF FilesStand
<1>4. ASSUME run[r].at \notin {"passed", "failed", "gone"}, late' = late,
             \A q \in Runs \ {r} : run'[q] = run[q],
             disk'.report = disk.report, \A file \in Files : disk'[file] = disk[file],
             \/ late = {}
             \/ disk'.skp = disk.skp /\ (run'[r].at \in PastLayout => run[r].at \in PastLayout)
      PROVE  ReportInv' /\ FilesStand
  BY <1>1, <1>4, StepReport DEF FilesStand
<1>5. CASE Start(r)
  <2>1. \E at \in {"template", "gone"} : To(r, at)
    BY <1>5 DEF Start
  <2>2. /\ run'[r].at \in {"template", "gone"} /\ \A q \in Runs \ {r} : run'[q] = run[q]
    BY <1>1, <2>1, ToType DEF Stages
  <2> QED BY <1>4, <1>5, <2>2 DEF Start, PastLayout, Drawn
<1>6. CASE InspectTemplate(r)
  <2>1. \A q \in Runs \ {r} : run'[q] = run[q]
    BY <1>1, <1>6, ToType DEF InspectTemplate, Stages
  <2> QED BY <1>4, <1>6, <2>1 DEF InspectTemplate, Calls
<1>7. CASE SaveModelCopy(r)
  <2>1. \A q \in Runs \ {r} : run'[q] = run[q]
    BY <1>1, <1>7, ToType DEF SaveModelCopy, Stages
  <2>2. disk'.report = disk.report /\ \A file \in Files : disk'[file] = disk[file]
    BY <1>1, <1>7 DEF SaveModelCopy, Directories, Files
  <2> QED BY <1>4, <1>7, <2>1, <2>2 DEF SaveModelCopy, Calls
<1>8. CASE CreateLayout(r)
  <2>1. \A q \in Runs \ {r} : run'[q] = run[q]
    BY <1>1, <1>8, ToType DEF CreateLayout, Stages, Drawn
  <2>2. disk'.report = disk.report
    BY <1>1, <1>8 DEF CreateLayout, Directories
  <2> QED BY <1>3, <1>8, <2>1, <2>2 DEF CreateLayout, Calls
<1>9. CASE AddViewport(r) \/ AddDimension(r) \/ AddAnnotation(r)
  <2>1. \A q \in Runs \ {r} : run'[q] = run[q]
    BY <1>1, <1>9 DEF AddViewport, AddDimension, AddAnnotation
  <2> QED BY <1>2, <1>9, <2>1 DEF AddViewport, AddDimension, AddAnnotation, Calls, Drawn
<1>10. CASE EndStage(r)
  <2>1. UNCHANGED <<disk, late>> /\ run[r].at \in PastLayout
    BY <1>10 DEF EndStage, PastLayout, Drawn
  <2>2. \A q \in Runs \ {r} : run'[q] = run[q]
    BY <1>1, <1>10 DEF EndStage, To
  <2> QED BY <1>4, <2>1, <2>2 DEF PastLayout, Drawn
<1>11. CASE ValidatePanel(r)
  <2>1. UNCHANGED <<disk, late>> /\ run[r].at = "panels" /\ late = {}
    BY <1>11 DEF ValidatePanel, Calls
  <2>2. \A q \in Runs \ {r} : run'[q] = run[q]
    BY <1>1, <1>11 DEF ValidatePanel
  <2> QED BY <1>4, <2>1, <2>2
<1>12. CASE ExportPNG(r) \/ ExportPDF(r)
  <2>1. \A q \in Runs \ {r} : run'[q] = run[q]
    BY <1>1, <1>12, ToType DEF ExportPNG, ExportPDF, Stages
  <2>2. disk'.report = disk.report
    BY <1>1, <1>12 DEF ExportPNG, ExportPDF, Directories
  <2> QED BY <1>3, <1>12, <2>1, <2>2 DEF ExportPNG, ExportPDF, Calls
<1> QED BY <1>5, <1>6, <1>7, <1>8, <1>9, <1>10, <1>11, <1>12

\* A run passes: no call of the dead is left that could reach its files.
LEMMA PassReport ==
  ASSUME DrawingInv, ReportInv, NEW r \in Runs, Pass(r)
  PROVE  ReportInv' /\ FilesStand
<1>1. TypeOK /\ run[r].at = "responsive" /\ To(r, "passed")
      /\ disk' = Report(r, "pass") /\ late' = late
  BY DrawingInvParts DEF Pass
<1>2. /\ run'[r].at = "passed" /\ \A q \in Runs \ {r} : run'[q] = run[q]
  BY <1>1, ToType DEF Stages
<1>3. disk'.report = [by |-> r, status |-> "pass"]
      /\ \A file \in Files : disk'[file] = disk[file]
  BY <1>1 DEF TypeOK, Directories, Report, Files
<1>4. ASSUME NEW c \in late
      PROVE  run'[c.by].at \in {"failed", "gone"} /\ c.at \notin AfterCopy
  <2>1. c.by \in Runs /\ run[c.by].at \in {"failed", "gone"}
    BY <1>1 DEF ReportInv, TypeOK
  <2>2. run[r].at \in PastLayout
    BY <1>1 DEF PastLayout
  <2> QED BY <1>1, <1>2, <2>1, <2>2 DEF ReportInv, AfterCopy
<1>5. ReportInv'
  BY <1>1, <1>2, <1>3, <1>4 DEF ReportInv, AfterCopy
<1> QED BY <1>3, <1>5 DEF FilesStand

\* What a run leaves behind past its copy belongs to that copy.
LEMMA EndingReport ==
  ASSUME DrawingInv, ReportInv, NEW r \in Active, NEW at \in {"failed", "gone"},
         To(r, at), Leave(r), disk' = disk \/ disk' = Report(r, "fail")
  PROVE  ReportInv' /\ FilesStand
<1>1. TypeOK /\ r \in Runs /\ run[r].at \notin {"passed", "failed", "gone"}
  BY DrawingInvParts DEF Active
<1>2. /\ run'[r].at = at /\ \A q \in Runs \ {r} : run'[q] = run[q]
  BY <1>1, ToType DEF Stages
<1>3. /\ disk'.skp = disk.skp /\ \A file \in Files : disk'[file] = disk[file]
      /\ disk'.report = disk.report \/ disk'.report.status = "fail"
  BY <1>1 DEF TypeOK, Directories, Report, Files
<1>4. Reported' => Reported
  BY <1>3 DEF Reported
<1>5. disk'.report.status = "pass" =>
        disk'.report.by \in Runs /\ run'[disk'.report.by].at = "passed"
  BY <1>1, <1>2, <1>3 DEF ReportInv
<1>6. ASSUME NEW c \in late'
      PROVE  /\ run'[c.by].at \in {"failed", "gone"}
             /\ c.at \in AfterCopy =>
                  ~Reported' /\ \A q \in Runs : run'[q].at \notin PastLayout
  <2>1. CASE c \in late
    <3>1. c.by \in Runs /\ run[c.by].at \in {"failed", "gone"}
      BY <1>1, <2>1 DEF ReportInv, TypeOK
    <3>2. c.at \in AfterCopy => ~Reported /\ \A q \in Runs : run[q].at \notin PastLayout
      BY <2>1 DEF ReportInv, AfterCopy
    <3> QED BY <1>1, <1>2, <1>4, <3>1, <3>2 DEF PastLayout, Drawn
  <2>2. CASE c \notin late
    <3>1. c.by = r /\ c.at = run[r].at
      BY <2>2 DEF Leave
    <3>2. ASSUME c.at \in AfterCopy
          PROVE  ~Reported' /\ \A q \in Runs : run'[q].at \notin PastLayout
      <4>1. run[r].at \in {"layout"} \cup PastLayout
        BY <3>1, <3>2 DEF AfterCopy, PastLayout
      <4>2. ~Reported
        BY <1>1, <4>1, NotReported
      <4>3. ASSUME NEW q \in Runs, q # r PROVE run[q].at \notin PastLayout
        BY <1>1, <4>1, <4>3, DrawingInvParts DEF RunOK, OwnFiles
      <4> QED BY <1>2, <1>4, <4>2, <4>3 DEF PastLayout, Drawn
    <3> QED BY <1>2, <3>1, <3>2
  <2> QED BY <2>1, <2>2
<1> QED BY <1>3, <1>5, <1>6 DEF ReportInv, FilesStand, AfterCopy

\* A call of the dead is executed, or the user removes a file.
LEMMA OthersReport ==
  ASSUME DrawingInv, ReportInv, Late \/ Remove
  PROVE  ReportInv' /\ FilesStand
<1>1. TypeOK /\ disk \in Directories
  BY DrawingInvParts DEF TypeOK
<1>2. run' = run /\ late' \subseteq late
  BY <1>1, LateEffect DEF Remove
<1>3. ASSUME disk'.report = disk.report, Reported' => Reported
      PROVE  ReportInv'
  BY <1>2, <1>3 DEF ReportInv
<1>4. CASE Late
  <2>1. PICK c \in late :
          \/ UNCHANGED disk
          \/ c.at = "copy" /\ disk' = [disk EXCEPT !.skp = c.by]
          \/ c.at \in AfterCopy /\ disk'.report = disk.report /\ disk'.skp = disk.skp
    <3>1. PICK c \in late :
            \/ UNCHANGED disk
            \/ c.at = "copy" /\ disk' = [disk EXCEPT !.skp = c.by]
            \/ /\ c.at = "layout"
               /\ disk' = [disk EXCEPT !.layout = [by |-> c.by, on |-> <<>>]]
            \/ /\ c.at \in Drawn /\ c.next \in DOMAIN Fixture(c.by)[c.at]
               /\ Add(c.by, Fixture(c.by)[c.at][c.next])
            \/ c.at = "png" /\ disk' = [disk EXCEPT !.png = [disk.layout EXCEPT !.by = c.by]]
            \/ c.at = "pdf" /\ disk' = [disk EXCEPT !.pdf = [disk.layout EXCEPT !.by = c.by]]
      BY <1>4 DEF Late
    <3>2. ASSUME c.at \in Drawn, c.next \in DOMAIN Fixture(c.by)[c.at],
                 Add(c.by, Fixture(c.by)[c.at][c.next])
          PROVE  disk'.report = disk.report /\ disk'.skp = disk.skp
      <4>1. c.by \in Runs /\ Fixture(c.by) \in Fixtures
        BY <1>1, RunTypes DEF TypeOK
      <4>2. Fixture(c.by)[c.at][c.next] \in ItemsOf(Fixture(c.by))
        BY <3>2, <4>1, ItemsAreItems
      <4> QED BY <1>1, <3>2, <4>1, <4>2, AddEffect
    <3> QED BY <1>1, <3>1, <3>2 DEF Directories, AfterCopy
  <2>2. CASE UNCHANGED disk
    BY <1>3, <2>2 DEF Reported, FilesStand
  <2>3. CASE c.at = "copy" /\ disk' = [disk EXCEPT !.skp = c.by]
    <3>1. /\ disk'.skp = c.by /\ disk'.report = disk.report
          /\ \A file \in Files : disk'[file] = disk[file]
      BY <1>1, <2>3 DEF Directories, Files
    <3>2. ~Reported'
      BY <3>1 DEF Reported, ReportInv
    <3> QED BY <1>3, <3>1, <3>2 DEF FilesStand
  <2>4. CASE c.at \in AfterCopy /\ disk'.report = disk.report /\ disk'.skp = disk.skp
    <3>1. ~Reported /\ ~Reported'
      BY <2>4 DEF ReportInv, AfterCopy, Reported
    <3> QED BY <1>3, <2>4, <3>1 DEF FilesStand
  <2> QED BY <2>1, <2>2, <2>3, <2>4
<1>5. CASE Remove
  <2>1. CASE disk' = [disk EXCEPT !.skp = None]
    <3>1. /\ disk'.skp = None /\ disk'.report = disk.report
          /\ \A file \in Files : disk'[file] = disk[file]
      BY <1>1, <2>1 DEF Directories, Files
    <3>2. ~Reported'
      BY <3>1, DrawingAssumption DEF Reported, ReportInv
    <3> QED BY <1>3, <3>1, <3>2 DEF FilesStand
  <2>2. ASSUME NEW file \in Files, disk' = [disk EXCEPT ![file] = NoSheet]
        PROVE  ReportInv' /\ FilesStand
    <3>1. /\ disk'.skp = disk.skp /\ disk'.report = disk.report
          /\ \A f \in Files : disk'[f] \in {disk[f], NoSheet}
      BY <1>1, <2>2 DEF Directories, Files
    <3> QED BY <1>3, <3>1 DEF FilesStand, Reported
  <2> QED BY <1>5, <2>1, <2>2 DEF Remove, Files
<1> QED BY <1>4, <1>5

LEMMA NextReport ==
  ASSUME DrawingInv, ReportInv, [Next]_vars
  PROVE  ReportInv' /\ FilesStand
<1>1. CASE UNCHANGED vars
  BY <1>1 DEF vars, ReportInv, Reported, FilesStand
<1>2. ASSUME NEW r \in Runs,
             \/ Start(r) \/ InspectTemplate(r) \/ SaveModelCopy(r) \/ CreateLayout(r)
             \/ AddViewport(r) \/ AddDimension(r) \/ AddAnnotation(r) \/ EndStage(r)
             \/ ValidatePanel(r) \/ ExportPNG(r) \/ ExportPDF(r)
      PROVE  ReportInv' /\ FilesStand
  BY <1>2, GoingOn
<1>3. ASSUME NEW r \in Runs, Pass(r) \/ Fail(r) \/ Kill(r)
      PROVE  ReportInv' /\ FilesStand
  BY <1>3, PassReport, EndingReport DEF Fail, Kill
<1>4. CASE Late \/ Remove
  BY <1>4, OthersReport
<1> QED BY <1>1, <1>2, <1>3, <1>4, Zenon DEF Next

-----------------------------------------------------------------------------
(* The theorems *)

(* What a run has brought about by each stage is still there at the next   *)
(* one: its files are its own, its document holds what it has drawn so far *)
(* and nothing else, its fixture is valid, it knows its viewports, and no  *)
(* call that could touch the document is left over from another run.       *)
THEOREM DrawingInvariant == Spec => []DrawingInv
<1>1. Init => DrawingInv
  BY InitInv
<1>2. DrawingInv /\ [Next]_vars => DrawingInv'
  BY NextInv
<1> QED BY <1>1, <1>2, PTL DEF Spec

(* When the dimensions are drawn all their viewports are: a fixture that   *)
(* loads never fails on a dimension whose viewport it does not know.       *)
THEOREM DimensionsFound == Spec => []DimensionsFindViewports
<1>1. DrawingInv => DimensionsFindViewports
  <2> SUFFICES ASSUME DrawingInv, NEW r \in Active, run[r].at = "dimensions",
                      HasNext(r, "dimensions")
               PROVE  Item(r, "dimensions").viewport \in run[r].refs
    BY DEF DimensionsFindViewports
  <2>1. r \in Runs /\ RunOK(r)
    BY DrawingInvParts DEF Active
  <2>2. FixtureValid(Fixture(r)) /\ run[r].refs = Ids(Fixture(r).viewports)
    BY <2>1 DEF RunOK, OwnViewports
  <2> QED BY <2>2 DEF FixtureValid, Item, HasNext
<1> QED BY <1>1, DrawingInvariant, PTL

(* A run that passes delivers its own work, whole, in order and alone, and *)
(* both exports show it -- whatever other runs, killed runs and calls left *)
(* behind do in the same directory; and they leave what its report is of   *)
(* as it is, until the user removes it.                                    *)
THEOREM PassingRunsOwnTheirSheet == Spec => PassesOnItsOwn
<1> DEFINE Own(r) ==
      /\ disk.skp = r
      /\ disk.layout.by = r
      /\ DOMAIN disk.layout.on = DOMAIN Drawing(Fixture(r))
      /\ \A i \in DOMAIN disk.layout.on :
           /\ disk.layout.on[i].by = r
           /\ disk.layout.on[i].item = Drawing(Fixture(r))[i]
      /\ disk.png = disk.layout
      /\ disk.pdf = disk.layout
<1>1. ASSUME DrawingInv, NEW r \in Runs, Passes(r) PROVE Own(r)
  <2>1. TypeOK /\ RunOK(r) /\ run[r].at = "responsive"
    BY <1>1, DrawingInvParts DEF Passes
  <2>2. /\ disk.skp = r /\ disk.layout.by = r
        /\ disk.png = disk.layout /\ disk.pdf = disk.layout
    BY <2>1 DEF RunOK, OwnFiles, PastLayout
  <2>3. /\ Len(disk.layout.on) = Done(r)
        /\ \A i \in DOMAIN disk.layout.on : OwnEntity(r, i)
    BY <2>1 DEF RunOK, OwnSheet, PastLayout
  <2>4. Done(r) = Len(Drawing(Fixture(r)))
    BY <2>1 DEF Done
  <2>5. DOMAIN disk.layout.on = 1..Len(disk.layout.on)
    BY <2>1, RunTypes, LenProperties
  <2>6. DOMAIN Drawing(Fixture(r)) = 1..Len(Drawing(Fixture(r)))
    BY <2>1, RunTypes, DrawingOf
  <2> QED BY <2>2, <2>3, <2>4, <2>5, <2>6 DEF OwnEntity
<1> DEFINE Step ==
      /\ \A r \in Runs : Passes(r) => Own(r)
      /\ Reported =>
           \A file \in {"layout", "png", "pdf"} : disk'[file] \in {disk[file], NoSheet}
<1>2. Init => ReportInv
  BY DEF Init, ReportInv
<1>3. ASSUME DrawingInv, ReportInv, [Next]_vars
      PROVE  ReportInv' /\ Step
  BY <1>1, <1>3, NextReport DEF FilesStand, Files
<1>4. DrawingInv /\ ReportInv /\ [Next]_vars => ReportInv' /\ [Step]_vars
  BY <1>3
<1>5. Spec => [][Step]_vars
  BY <1>2, <1>4, DrawingInvariant, PTL DEF Spec
<1> QED BY <1>5 DEF PassesOnItsOwn

(* When a run passes, everything on the sheet that is of a panel lies in   *)
(* it and every dimension is connected to the model.                       *)
THEOREM PassingSheetsAreSound == Spec => PassesSound
<1> DEFINE Sound ==
      \A i \in DOMAIN disk.layout.on :
        LET e == disk.layout.on[i] IN
        (e.item.panel # "" => e.inside) /\ e.connected
<1>1. ASSUME DrawingInv, NEW r \in Runs, Passes(r) PROVE Sound
  <2>1. RunOK(r) /\ run[r].at = "responsive"
    BY <1>1, DrawingInvParts DEF Passes
  <2>2. \A i \in DOMAIN disk.layout.on : OwnEntity(r, i)
    BY <2>1 DEF RunOK, OwnSheet, PastLayout
  <2> QED BY <2>1, <2>2 DEF OwnEntity, Drawn
<1>2. DrawingInv /\ [Next]_vars => [\A r \in Runs : Passes(r) => Sound]_vars
  BY <1>1
<1>3. Spec => [][\A r \in Runs : Passes(r) => Sound]_vars
  BY <1>2, DrawingInvariant, PTL DEF Spec
<1> QED BY <1>3 DEF PassesSound
=============================================================================
