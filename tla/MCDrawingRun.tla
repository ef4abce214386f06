---------------------------- MODULE MCDrawingRun ----------------------------
(* A template of two pages with a slot and the panel "a" on each, and      *)
(* fixtures for it: one that can be drawn, one whose panel spans two       *)
(* pages, three that ask for a slot, a layer or a kind the template does   *)
(* not have, and one for each thing that makes a fixture invalid.          *)
EXTENDS DrawingRun, TLC

CONSTANTS r1, r2, r3

MCRuns == {r1, r2, r3}
Symmetric == Permutations(MCRuns)

MCTemplate ==
  [schema |-> 1, kind |-> "sheet",
   slots |-> [s \in {"front", "top"} |-> IF s = "front" THEN 1 ELSE 2],
   panels |-> {<<1, "a">>, <<2, "a">>, <<2, "b">>},
   styles |-> {"style"}, layers |-> {"layer"}]

Viewport(id, slot, panel) ==
  [kind |-> "viewport", id |-> id, slot |-> slot, panel |-> panel, views |-> {"scene"}]

Dimension(id, viewport, page, panel) ==
  [kind |-> "dimension", id |-> id, viewport |-> viewport, page |-> page, panel |-> panel]

Annotation(kind, page, panel) == [kind |-> kind, id |-> "", page |-> page, panel |-> panel]

Step(kind, id, cut) == [kind |-> kind, id |-> id, name |-> id, cut |-> cut]

Good ==
  [name |-> "cabinet", base |-> "cabinet", numbers |-> TRUE,
   schema |-> 1,
   required |-> [kind |-> "sheet", slots |-> {"front"}, panels |-> {"a"},
                 styles |-> {"style"}, layers |-> {"layer"}],
   presentation |-> <<Step("section", "A", ""), Step("scene", "cut", "A")>>,
   viewports |-> <<Viewport("v", "front", "a")>>,
   dimensions |-> <<Dimension("d", "v", 1, "a")>>,
   annotations |-> <<Annotation("text", 2, "b")>>]

Drawable ==
  {Good,
   [Good EXCEPT !.dimensions = <<>>, !.required.kind = "",
                !.annotations = <<Annotation("line", 2, "a"), Annotation("rectangle", 1, "")>>],
   [Good EXCEPT !.viewports = <<Viewport("v", "side", "a")>>],
   [Good EXCEPT !.required.layers = {"title"}],
   [Good EXCEPT !.required.kind = "card"]}

Invalid ==
  {[Good EXCEPT !.base = ""], [Good EXCEPT !.numbers = FALSE],
   [Good EXCEPT !.required.styles = {}],
   [Good EXCEPT !.presentation = <<Step("scene", "cut", "A"), Step("section", "A", "")>>],
   [Good EXCEPT !.viewports = <<Viewport("v", "front", "a"), Viewport("v", "top", "a")>>],
   [Good EXCEPT !.dimensions = <<Dimension("d", "w", 1, "a")>>]}

MCFixtures == Drawable \cup Invalid
=============================================================================
