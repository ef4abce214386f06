----------------------------- MODULE DrawingRun -----------------------------
(***************************************************************************)
(* The drawing half of the live acceptance client (cmd/live-layout-e2e)    *)
(* and its output directory.                                               *)
(*                                                                         *)
(* A run loads a fixture, saves a copy of the model, creates a LayOut      *)
(* document from a template, draws the fixture's viewports, dimensions and *)
(* annotations on it, validates the panels, exports the sheet twice and    *)
(* writes a report.  The first thing that goes wrong ends it.  Several     *)
(* runs may use one output directory, at once or one after the other; a    *)
(* run may be killed at any point, and a call that its run no longer waits *)
(* for may still be executed.  The user removes files between runs.        *)
(*                                                                         *)
(* The SketchUp model stands still here: LiveRun is about how it is        *)
(* prepared and what happens when it moves.  One SketchUp process serves   *)
(* all runs, one call at a time in the order it reads them.                *)
(***************************************************************************)
EXTENDS Naturals, Sequences, FiniteSets

CONSTANTS
  Runs,           \* runs of the harness
  None,           \* the maker of a file that is not there
  Fixtures,       \* fixture files
  Template        \* its schema version, its kind, its slots, a function to
                  \* pages, its panels, pairs of page and id, its styles and
                  \* layers

ASSUME DrawingAssumption ==
  /\ None \notin Runs
  /\ \A f \in Fixtures :
       /\ \A k \in {"viewports", "dimensions", "annotations"} :
            f[k] \in Seq({f[k][i] : i \in DOMAIN f[k]})
       /\ \A i \in DOMAIN f.viewports : f.viewports[i].kind = "viewport"
       /\ \A i \in DOMAIN f.dimensions : f.dimensions[i].kind = "dimension"
       /\ \A i \in DOMAIN f.annotations :
            f.annotations[i].kind \in {"text", "line", "rectangle"}

VARIABLES
  run,            \* the processes
  disk,           \* the output directory
  late            \* calls whose run is gone

vars == <<run, disk, late>>

-----------------------------------------------------------------------------
(* Fixtures                                                                *)

Ids(items) == {items[i].id : i \in DOMAIN items}

Distinct(items) == \A i, j \in DOMAIN items : items[i].id = items[j].id => i = j

\* Sections have different ids and names, scenes different names, and a scene
\* comes after the section it is cut by.  The id of a scene is its name.
PresentationValid(steps) ==
  /\ \A i \in DOMAIN steps :
       /\ steps[i].kind \in {"section", "scene"}
       /\ steps[i].id # ""
       /\ steps[i].cut # "" =>
            \E j \in 1..(i - 1) : steps[j].kind = "section" /\ steps[j].id = steps[i].cut
  /\ \A i, j \in DOMAIN steps :
       steps[i].kind = steps[j].kind /\ i # j =>
         steps[i].id # steps[j].id /\ steps[i].name # steps[j].name

ViewportsValid(viewports) ==
  /\ Distinct(viewports)
  /\ \A i \in DOMAIN viewports :
       /\ viewports[i].id # "" /\ viewports[i].slot # "" /\ viewports[i].panel # ""
       /\ Cardinality(viewports[i].views) = 1

\* Mutant: the viewport of a dimension is not looked for.
FixtureValidUnlinked(f) ==
  /\ f.name # "" /\ f.base # ""
  /\ f.numbers /\ f.schema > 0
  /\ {} \notin {f.required.slots, f.required.panels, f.required.styles}
  /\ PresentationValid(f.presentation)
  /\ ViewportsValid(f.viewports)
  /\ \A i \in DOMAIN f.dimensions :
       f.dimensions[i].id # "" /\ f.dimensions[i].panel # ""

\* Fixture.Validate; `numbers': the tolerance and the resolution are positive
\* and the panel margin is not negative.
FixtureValid(f) ==
  /\ f.name # "" /\ f.base # ""
  /\ f.numbers /\ f.schema > 0
  /\ {} \notin {f.required.slots, f.required.panels, f.required.styles}
  /\ PresentationValid(f.presentation)
  /\ ViewportsValid(f.viewports)
  /\ \A i \in DOMAIN f.dimensions :
       /\ f.dimensions[i].id # "" /\ f.dimensions[i].panel # ""
       /\ f.dimensions[i].viewport \in Ids(f.viewports)

\* The page an item is drawn on.
Page(item) == IF item.kind = "viewport" THEN Template.slots[item.slot] ELSE item.page

Drawing(f) == f.viewports \o f.dimensions \o f.annotations

ItemsOf(f) == {Drawing(f)[i] : i \in DOMAIN Drawing(f)}

\* populatedPanels.
PopulatedPanels(f) == {i.panel : i \in ItemsOf(f)} \ {""}

\* Mutant: the page of the first item that is in the panel.
PanelPagesFirst(f, p) ==
  {Page(Drawing(f)[i]) : i \in
     {i \in DOMAIN Drawing(f) :
        /\ Drawing(f)[i].panel = p
        /\ \A j \in 1..(i - 1) : Drawing(f)[j].panel # p}}

\* panelPageIndex fails unless there is exactly one.
PanelPages(f, p) == {Page(i) : i \in {i \in ItemsOf(f) : i.panel = p}}

-----------------------------------------------------------------------------
(* Runs and files                                                          *)

Drawn == {"viewports", "dimensions", "annotations"}

\* A run that is gone ended without a report.
Stages ==
  {"new", "template", "copy", "layout"} \cup Drawn \cup
  {"panels", "png", "pdf", "responsive", "passed", "failed", "gone"}

Active == {r \in Runs : run[r].at \notin {"new", "passed", "failed", "gone"}}

Fixture(r) == run[r].fixture

\* What is on a sheet: who drew what, whether it lies in its panel there, and
\* whether it is connected to the model.
Entities ==
  [by : Runs, item : UNION {ItemsOf(f) : f \in Fixtures}, inside : BOOLEAN,
   connected : BOOLEAN]

\* By None: no such file.
Sheets == [by : Runs \cup {None}, on : Seq(Entities)]

NoSheet == [by |-> None, on |-> <<>>]

Processes ==
  [at      : Stages,
   fixture : Fixtures,
   next    : Nat,             \* the item to draw next, in a drawing stage
   refs    : SUBSET UNION {Ids(f.viewports) : f \in Fixtures},
   panels  : SUBSET UNION {PopulatedPanels(f) : f \in Fixtures}]  \* to validate

Directories ==
  [skp    : Runs \cup {None},
   layout : Sheets,
   png    : Sheets,
   pdf    : Sheets,
   report : [by : Runs \cup {None}, status : {"none", "pass", "fail"}]]

TypeOK ==
  /\ run \in [Runs -> Processes]
  /\ disk \in Directories
  /\ late \subseteq [by : Runs, at : Stages, next : Nat]

Init ==
  /\ run \in [Runs -> {[at |-> "new", fixture |-> f, next |-> 1, refs |-> {},
                        panels |-> {}] : f \in Fixtures}]
  /\ disk = [skp |-> None, layout |-> NoSheet, png |-> NoSheet, pdf |-> NoSheet,
             report |-> [by |-> None, status |-> "none"]]
  /\ late = {}

Report(r, status) == [disk EXCEPT !.report = [by |-> r, status |-> status]]

\* The call of run r that its stage makes next; SketchUp works on no other.
Calls(r, at) == run[r].at = at /\ late = {}

To(r, at) == run' = [run EXCEPT ![r].at = at, ![r].next = 1]

\* main: nothing is reported of a fixture that does not load.
Start(r) ==
  /\ run[r].at = "new"
  /\ To(r, IF FixtureValid(Fixture(r)) THEN "template" ELSE "gone")
  /\ UNCHANGED <<disk, late>>

\* inspectTemplate; the stages that prepare the model come after it.
InspectTemplate(r) ==
  /\ Calls(r, "template")
  /\ Fixture(r).schema = Template.schema
  /\ Fixture(r).required.kind \in {"", Template.kind}
  /\ Fixture(r).required.slots \subseteq DOMAIN Template.slots
  /\ Fixture(r).required.panels \subseteq {p[2] : p \in Template.panels}
  /\ Fixture(r).required.styles \subseteq Template.styles
  /\ Fixture(r).required.layers \subseteq Template.layers
  /\ To(r, "copy")
  /\ UNCHANGED <<disk, late>>

\* Mutant: a file that is there is replaced.
SaveModelCopyAnyway(r) ==
  /\ Calls(r, "copy")
  /\ disk' = [disk EXCEPT !.skp = r]
  /\ To(r, "layout")
  /\ UNCHANGED late

\* saveModelCopy; the call is refused with FILE_EXISTS.
SaveModelCopy(r) ==
  /\ Calls(r, "copy")
  /\ disk.skp = None
  /\ disk' = [disk EXCEPT !.skp = r]
  /\ To(r, "layout")
  /\ UNCHANGED late

\* createLayout; the call is refused with LAYOUT_FILE_EXISTS.
CreateLayout(r) ==
  /\ Calls(r, "layout")
  /\ disk.layout.by = None
  /\ disk' = [disk EXCEPT !.layout = [by |-> r, on |-> <<>>]]
  /\ To(r, "viewports")
  /\ UNCHANGED late

\* An item is added to the document, whoever's it is: a viewport on the copy,
\* into a slot of the template, or a dimension on the viewport that r drew.
\* Where an item comes to lie and whether a dimension finds its points is
\* LayOut's doing; no item lies in a panel that its page does not have.
Add(r, item) ==
  /\ disk.layout.by # None
  /\ item.kind = "viewport" => disk.skp # None /\ item.slot \in DOMAIN Template.slots
  /\ item.kind = "dimension" =>
       \E i \in DOMAIN disk.layout.on :
         /\ disk.layout.on[i].by = r
         /\ disk.layout.on[i].item.kind = "viewport"
         /\ disk.layout.on[i].item.id = item.viewport
  /\ \E inside, connected \in BOOLEAN :
       /\ inside => <<Page(item), item.panel>> \in Template.panels
       /\ item.kind # "dimension" => connected
       /\ disk' = [disk EXCEPT !.layout.on =
            Append(@, [by |-> r, item |-> item, inside |-> inside,
                       connected |-> connected])]

Item(r, at) == Fixture(r)[at][run[r].next]

HasNext(r, at) == run[r].next \in DOMAIN Fixture(r)[at]

\* addViewports: one call per viewport; the answer carries the reference.
AddViewport(r) ==
  /\ Calls(r, "viewports")
  /\ HasNext(r, "viewports")
  /\ LET item == Item(r, "viewports") IN
     /\ Add(r, item)
     /\ run' = [run EXCEPT ![r].next = @ + 1, ![r].refs = @ \cup {item.id}]
  /\ UNCHANGED late

\* addDimensions: a dimension measures a viewport drawn before, and must be
\* connected.
AddDimension(r) ==
  /\ Calls(r, "dimensions")
  /\ HasNext(r, "dimensions")
  /\ LET item == Item(r, "dimensions") IN
     /\ item.viewport \in run[r].refs
     /\ Add(r, item)
     /\ disk'.layout.on[Len(disk'.layout.on)].connected
     /\ run' = [run EXCEPT ![r].next = @ + 1]
  /\ UNCHANGED late

\* addAnnotations.
AddAnnotation(r) ==
  /\ Calls(r, "annotations")
  /\ HasNext(r, "annotations")
  /\ Add(r, Item(r, "annotations"))
  /\ run' = [run EXCEPT ![r].next = @ + 1]
  /\ UNCHANGED late

\* The loop of a stage has ended.
EndStage(r) ==
  /\ \/ run[r].at = "viewports" /\ ~HasNext(r, "viewports") /\ To(r, "dimensions")
     \/ run[r].at = "dimensions" /\ ~HasNext(r, "dimensions") /\ To(r, "annotations")
     \/ /\ run[r].at = "annotations" /\ ~HasNext(r, "annotations")
        /\ run' = [run EXCEPT ![r].at = "panels",
                              ![r].panels = PopulatedPanels(Fixture(r))]
     \/ run[r].at = "panels" /\ run[r].panels = {} /\ To(r, "png")
  /\ UNCHANGED <<disk, late>>

\* validatePanels: layout.panel.validate looks at what is tagged with the
\* panel on one page, which must have the panel.
ValidatePanel(r) ==
  /\ Calls(r, "panels")
  /\ \E p \in run[r].panels : \E page \in PanelPages(Fixture(r), p) :
       /\ PanelPages(Fixture(r), p) = {page}
       /\ <<page, p>> \in Template.panels
       /\ \A i \in DOMAIN disk.layout.on :
            LET e == disk.layout.on[i] IN
            e.item.panel = p /\ Page(e.item) = page => e.inside
       /\ run' = [run EXCEPT ![r].panels = @ \ {p}]
  /\ UNCHANGED <<disk, late>>

\* exportOutputs; the body raises if the output is there.
ExportPNG(r) ==
  /\ Calls(r, "png")
  /\ disk.layout.by # None /\ disk.png.by = None
  /\ disk' = [disk EXCEPT !.png = [disk.layout EXCEPT !.by = r]]
  /\ To(r, "pdf")
  /\ UNCHANGED late

ExportPDF(r) ==
  /\ Calls(r, "pdf")
  /\ disk.layout.by # None /\ disk.pdf.by = None
  /\ disk' = [disk EXCEPT !.pdf = [disk.layout EXCEPT !.by = r]]
  /\ To(r, "responsive")
  /\ UNCHANGED late

\* checkResponsive, and the report.
Pass(r) ==
  /\ run[r].at = "responsive"
  /\ To(r, "passed")
  /\ disk' = Report(r, "pass")
  /\ UNCHANGED late

\* The call the run was waiting for may be executed yet.
Leave(r) ==
  late' \in {late} \cup
    {late \cup {[by |-> r, at |-> run[r].at, next |-> run[r].next]}}

\* runStage: a call fails or times out, or a check is not met.
Fail(r) ==
  /\ r \in Active
  /\ To(r, "failed")
  /\ disk' = Report(r, "fail")
  /\ Leave(r)

Kill(r) ==
  /\ r \in Active
  /\ To(r, "gone")
  /\ UNCHANGED disk
  /\ Leave(r)

\* A call nobody waits for is executed, or refused, or never read.
Late ==
  \E c \in late :
    /\ late' = late \ {c}
    /\ UNCHANGED run
    /\ \/ UNCHANGED disk
       \/ c.at = "copy" /\ disk.skp = None /\ disk' = [disk EXCEPT !.skp = c.by]
       \/ /\ c.at = "layout" /\ disk.layout.by = None
          /\ disk' = [disk EXCEPT !.layout = [by |-> c.by, on |-> <<>>]]
       \/ /\ c.at \in Drawn /\ c.next \in DOMAIN Fixture(c.by)[c.at]
          /\ Add(c.by, Fixture(c.by)[c.at][c.next])
       \/ /\ c.at = "png" /\ disk.layout.by # None /\ disk.png.by = None
          /\ disk' = [disk EXCEPT !.png = [disk.layout EXCEPT !.by = c.by]]
       \/ /\ c.at = "pdf" /\ disk.layout.by # None /\ disk.pdf.by = None
          /\ disk' = [disk EXCEPT !.pdf = [disk.layout EXCEPT !.by = c.by]]

\* The user takes a file away.
Remove ==
  /\ Active = {}
  /\ \/ disk' = [disk EXCEPT !.skp = None]
     \/ \E file \in {"layout", "png", "pdf"} : disk' = [disk EXCEPT ![file] = NoSheet]
  /\ disk' # disk
  /\ UNCHANGED <<run, late>>

Next ==
  \/ \E r \in Runs :
       \/ Start(r) \/ InspectTemplate(r) \/ SaveModelCopy(r) \/ CreateLayout(r)
       \/ AddViewport(r) \/ AddDimension(r) \/ AddAnnotation(r) \/ EndStage(r)
       \/ ValidatePanel(r) \/ ExportPNG(r) \/ ExportPDF(r) \/ Pass(r)
       \/ Fail(r) \/ Kill(r)
  \/ Late
  \/ Remove

Spec == Init /\ [][Next]_vars

-----------------------------------------------------------------------------
Passes(r) == run[r].at = "responsive" /\ run'[r].at = "passed"

\* There is a report that a run has passed, and its copy.
Reported == disk.report.status = "pass" /\ disk.skp = disk.report.by

(* A run that passes delivers its own work: the copy, the document and     *)
(* both exports are files it made, the document holds every item of its    *)
(* fixture once, in order, drawn by it, and nothing else, and the exports  *)
(* show that document -- whatever other runs in the directory, killed ones *)
(* and their calls did before or do meanwhile.  And nothing they do later  *)
(* makes its report untrue: while the report and the copy are there, the   *)
(* other files stay as they are or are removed, and do not come back.      *)
PassesOnItsOwn ==
  [][/\ \A r \in Runs : Passes(r) =>
          /\ disk.skp = r
          /\ disk.layout.by = r
          /\ DOMAIN disk.layout.on = DOMAIN Drawing(Fixture(r))
          /\ \A i \in DOMAIN disk.layout.on :
               /\ disk.layout.on[i].by = r
               /\ disk.layout.on[i].item = Drawing(Fixture(r))[i]
          /\ disk.png = disk.layout
          /\ disk.pdf = disk.layout
     /\ Reported =>
          \A file \in {"layout", "png", "pdf"} : disk'[file] \in {disk[file], NoSheet}]_vars

(* When a run passes, everything on the sheet that is of a panel lies in   *)
(* that panel on the page it was drawn on, and every dimension is          *)
(* connected to the model: no page of a panel escapes the validation.      *)
PassesSound ==
  [][\A r \in Runs : Passes(r) =>
       \A i \in DOMAIN disk.layout.on :
         LET e == disk.layout.on[i] IN
         (e.item.panel # "" => e.inside) /\ e.connected]_vars

(* A fixture that loads never makes a run fail on a dimension without its  *)
(* viewport: when the dimensions are drawn all their viewports are.        *)
DimensionsFindViewports ==
  \A r \in Active :
    run[r].at = "dimensions" /\ HasNext(r, "dimensions") =>
      Item(r, "dimensions").viewport \in run[r].refs

-----------------------------------------------------------------------------
(* The inductive invariant: what a run has brought about by each stage is  *)
(* still there, because the names of the files are taken and what is left  *)
(* of other runs cannot reach them.                                        *)
PastLayout == Drawn \cup {"panels", "png", "pdf", "responsive"}

FilesAreOwned ==
  \A r \in Runs :
    /\ run[r].at \in {"layout"} \cup PastLayout => disk.skp = r
    /\ run[r].at \in PastLayout => disk.layout.by = r
    /\ run[r].at \in {"pdf", "responsive"} => disk.png = disk.layout
    /\ run[r].at = "responsive" => disk.pdf = disk.layout

LateCallsAreOfNoRun ==
  \A c \in late : c.at \in Drawn \cup {"png", "pdf"} =>
    \A r \in Runs : run[r].at \notin PastLayout

\* How many items run r has drawn.
Done(r) ==
  LET f == Fixture(r) IN
  IF run[r].at = "viewports" THEN run[r].next - 1
  ELSE IF run[r].at = "dimensions" THEN Len(f.viewports) + run[r].next - 1
  ELSE IF run[r].at = "annotations" THEN Len(f.viewports) + Len(f.dimensions) + run[r].next - 1
  ELSE Len(Drawing(f))

SheetIsDrawn ==
  \A r \in Runs : run[r].at \in PastLayout =>
    /\ run[r].at \in Drawn => run[r].next \in 1..(Len(Fixture(r)[run[r].at]) + 1)
    /\ Len(disk.layout.on) = Done(r)
    /\ \A i \in DOMAIN disk.layout.on :
         LET e == disk.layout.on[i] IN
         /\ e.by = r /\ e.item = Drawing(Fixture(r))[i] /\ e.connected
         /\ run[r].at \notin Drawn /\ e.item.panel # "" =>
              e.inside \/ (run[r].at = "panels" /\ e.item.panel \in run[r].panels)

ViewportsAreKnown ==
  \A r \in Runs :
    /\ run[r].at \in {"new", "template", "copy", "layout"} => run[r].refs = {}
    /\ r \in Active => FixtureValid(Fixture(r))
    /\ run[r].at = "viewports" =>
         run[r].refs = {Fixture(r).viewports[i].id : i \in 1..(run[r].next - 1)}
    /\ run[r].at = "dimensions" => run[r].refs = Ids(Fixture(r).viewports)

\* Calls of the dead cannot reach the files of a run that has passed, either.
ReportInv ==
  /\ disk.report.status = "pass" =>
       disk.report.by \in Runs /\ run[disk.report.by].at = "passed"
  /\ \A c \in late :
       /\ run[c.by].at \in {"failed", "gone"}
       /\ c.at \in {"layout", "png", "pdf"} \cup Drawn =>
            ~Reported /\ \A r \in Runs : run[r].at \notin PastLayout

DrawingInv ==
  TypeOK /\ FilesAreOwned /\ LateCallsAreOfNoRun /\ SheetIsDrawn /\ ViewportsAreKnown
=============================================================================
