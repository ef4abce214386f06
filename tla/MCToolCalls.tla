---------------------------- MODULE MCToolCalls ----------------------------
(* Every tool with a good input and with each field of it changed alone,   *)
(* beside exports and retries that share operation ids and paths.          *)
EXTENDS ToolCalls

CONSTANTS any, one, two, NaN

Layout == "/d/a.layout"
Book == "/d/book.layout"
MCBlanks == {"", " "}
MCWide == {"u2003"}
MCNul == {"u0000"}
MCAbsolute == {Layout, Book, "/d/m.skp", "/d/.skp", "/d/x.pdf", "/d/plan.png", "/d/plan_1.png",
               "/d/planb.png", "/d/.png", "/d/a.txt"}
MCTexts == MCBlanks \cup MCWide \cup MCNul \cup MCAbsolute
             \cup {"s", "s2", "g", "g2", "op1", "op2", "n", "long", "a.layout",
                   "top", "hybrid", "left", "aligned"}
MCBytes == [t \in MCTexts |-> CASE t = "" -> 0 [] t = "long" -> 129 [] t = "n" -> 1 [] OTHER -> 4]
MCExt == [t \in MCTexts |->
  CASE t \in {Layout, Book, "a.layout"} -> ".layout"
    [] t \in {"/d/m.skp", "/d/.skp"} -> ".skp"
    [] t = "/d/x.pdf" -> ".pdf"
    [] t = "/d/a.txt" -> ".txt"
    [] t \in {"/d/plan.png", "/d/plan_1.png", "/d/planb.png", "/d/.png"} -> ".png"
    [] OTHER -> ""]
MCPageFile == [t \in MCTexts |-> IF t = "/d/plan.png" THEN "/d/plan_1.png" ELSE t]
MCGlobbed == [t \in MCTexts |->
  IF t = "/d/plan.png" THEN {"/d/plan.png", "/d/plan_1.png", "/d/planb.png"} ELSE {t}]

V(x, y, z) == [x |-> x, y |-> y, z |-> z]
Ref == [session_id |-> "s", model_guid |-> "g", persistent_id |-> 7, revision |-> 1]
Ref2 == [Ref EXCEPT !.persistent_id = 8]
View == [layout_path |-> Layout, page_index |-> 0, entity_id |-> "n"]
Box == [min_mm |-> V(0, 0, 0), max_mm |-> V(5, 5, 5)]
Material(t, n) == [name |-> t, color |-> [r |-> n, g |-> 0, b |-> 255]]
Rect(x, w) == [x |-> x, y |-> 0, width |-> w, height |-> 9]
XY(x) == [x |-> x, y |-> 0]

\* A good value of each field, and others to put in its place.
Good ==
  [session_id |-> "s", operation_id |-> "op1", expected_model_guid |-> "g",
   expected_revision |-> 1, model_guid |-> "g", persistent_id |-> 7, revision |-> 1,
   entity_ref |-> Ref, children |-> <<Ref, Ref2>>, name |-> "n", symbol |-> "n",
   material |-> Material("n", 0), translation_inches |-> V(1, 0, 0),
   origin_inches |-> V(0, 0, 0), dimensions_inches |-> [width |-> 1, depth |-> 1, height |-> 1],
   point_mm |-> V(0, 0, 0), normal |-> V(0, 0, 1), eye_mm |-> V(9, 0, 0),
   target_mm |-> V(0, 0, 0), up |-> V(0, 0, 1), perspective |-> FALSE,
   orthographic_height_mm |-> 100, fov_degrees |-> 0, section_plane_ref |-> {Ref},
   display_section_plane |-> TRUE, output_path |-> "/d/x.pdf", layout_path |-> Layout,
   template_path |-> Layout, page_width_mm |-> 0, page_height_mm |-> 0, skp_path |-> "/d/m.skp",
   page_index |-> 0, layer_name |-> "", bounds_mm |-> Rect(0, 9), scene_name |-> "",
   standard_view |-> "top", scale_denominator |-> 10, render_mode |-> "hybrid", panel_id |-> "n",
   require_fit |-> TRUE, fit_model_bounds_mm |-> {Box}, fit_margin_mm |-> 0,
   viewport_ref |-> View, start_point_mm |-> V(0, 0, 0), end_point_mm |-> V(5, 0, 0),
   start_pid_path |-> "", end_pid_path |-> "", offset_mm |-> 4, alignment |-> "left",
   style_id |-> "", text |-> "n", font_size_pt |-> 10, bold |-> FALSE, start_mm |-> XY(0),
   end_mm |-> XY(5), stroke_width |-> 1, dpi |-> 0, margin_mm |-> 0]

Others(f) ==
  CASE f \in {"session_id"} -> {"", " ", "s2"}
    [] f \in {"operation_id", "name", "text", "panel_id", "scene_name", "template_path"} ->
         {"", "u2003", "u0000", "long"}
    [] f = "expected_model_guid" -> {"", "g2"}
    [] f \in {"entity_ref"} -> {[Ref EXCEPT !.persistent_id = 0], [Ref EXCEPT !.revision = 0]}
    [] f = "section_plane_ref" -> {{}, {[Ref EXCEPT !.model_guid = "g2"]}, {[Ref EXCEPT !.persistent_id = 0]}}
    [] f = "children" -> {<<Ref>>, <<Ref, Ref>>, <<Ref, [Ref2 EXCEPT !.session_id = "s2"]>>}
    [] f = "material" -> {Material("u0000", 0), Material("n", 256)}
    [] f \in {"translation_inches", "normal", "up"} -> {V(0, 0, 0), V(NaN, 0, 1)}
    [] f = "eye_mm" -> {V(0, 0, 0), V(1, 0, 0), V(0, NaN, 0)}
    [] f \in {"start_point_mm", "point_mm", "origin_inches"} -> {V(0, NaN, 0)}
    [] f = "dimensions_inches" -> {[width |-> 0, depth |-> 1, height |-> 1]}
    [] f \in {"orthographic_height_mm", "page_width_mm", "scale_denominator", "fit_margin_mm",
              "font_size_pt", "stroke_width", "offset_mm", "margin_mm", "fov_degrees"} -> {-1, 0, 60, NaN}
    [] f \in {"perspective", "require_fit"} -> BOOLEAN
    [] f = "fit_model_bounds_mm" -> {{}, {[Box EXCEPT !.min_mm = V(9, 0, 0)]}}
    [] f = "bounds_mm" -> {Rect(0, 0), Rect(NaN, 9)}
    [] f \in {"output_path", "layout_path", "skp_path"} ->
         {"u2003", "a.layout", "/d/a.txt", "/d/.png", "/d/.skp"}
    [] f \in {"page_index", "dpi", "persistent_id"} -> {-1, 0, 300}
    [] f \in {"standard_view", "render_mode", "alignment"} -> {"", "n"}
    [] f = "viewport_ref" -> {[View EXCEPT !.page_index = 1]}
    [] f = "end_mm" -> {XY(0), XY(NaN)}
    [] f = "symbol" -> {"long"}
    [] OTHER -> {}

InputFields(t) ==
  CASE t = "entity.translate" -> Envelope \cup TranslateFields
    [] t = "entity.delete" -> Envelope \cup DeleteFields
    [] t = "entity.material.set" -> Envelope \cup MaterialSetFields
    [] t = "entity.name.set" -> Envelope \cup NameSetFields
    [] t = "assembly.create" -> Envelope \cup AssemblyCreateFields
    [] t = "geometry.create_box" -> Envelope \cup CreateBoxFields
    [] t = "changes.undo" -> Envelope \cup UndoFields
    [] t = "section_plane.create" -> Envelope \cup SectionPlaneCreateFields
    [] t = "scene.create" -> Envelope \cup SceneCreateFields
    [] t = "model.file.save_copy" -> Envelope \cup SaveCopyFields
    [] t = "layout.document.create" -> Envelope \cup DocumentCreateFields
    [] t = "layout.viewport.add" -> Envelope \cup ViewportAddFields
    [] t = "layout.dimension.add" -> Envelope \cup DimensionAddFields
    [] t = "layout.text.add" -> Envelope \cup TextAddFields
    [] t = "layout.line.add" -> Envelope \cup LineAddFields
    [] t = "layout.rectangle.add" -> Envelope \cup RectangleAddFields
    [] t = "layout.export" -> Envelope \cup ExportFields
    [] t \in Inspections -> RefFields
    [] t = "layout.template.inspect" -> {"session_id", "template_path"}
    [] t = "layout.panel.validate" -> {"session_id"} \cup PanelValidateFields
    [] OTHER -> {"session_id"}

GoodFor(t) ==
  [f \in InputFields(t) |->
     CASE t = "model.file.save_copy" /\ f = "output_path" -> "/d/m.skp"
       [] t = "layout.dimension.add" /\ f = "alignment" -> "aligned"
       [] OTHER -> Good[f]]

\* And the good inputs that one change does not reach.
Blank(t) == [GoodFor(t) EXCEPT !.template_path = "", !.page_width_mm = 9, !.page_height_mm = 9]
Wide(t) == [Blank(t) EXCEPT !.template_path = "u2003"]
Perspective(t) == [GoodFor(t) EXCEPT !.perspective = TRUE, !.fov_degrees = 60, !.orthographic_height_mm = 0]
OfScene(t, name) == [GoodFor(t) EXCEPT !.scene_name = name, !.standard_view = ""]
More(t) ==
  CASE t = "layout.document.create" -> {Blank(t), Wide(t)}
    [] t = "scene.create" -> {Perspective(t)}
    [] t = "layout.viewport.add" -> {OfScene(t, "n"), OfScene(t, "u0000")}
    [] OTHER -> {}

Samples(t) ==
  {GoodFor(t)} \cup More(t)
    \cup UNION {{[GoodFor(t) EXCEPT ![f] = v] : v \in Others(f)} : f \in InputFields(t)}

ExportOf(op, document, path) ==
  [tool |-> "layout.export",
   input |-> [GoodFor("layout.export") EXCEPT !.operation_id = op, !.layout_path = document,
                !.output_path = path, !.dpi = 300]]

MCRequests ==
  [c \in {any, one, two} |->
     CASE c = any -> UNION {{[tool |-> t, input |-> i] : i \in Samples(t)} : t \in Tools}
       [] c = one -> {ExportOf("op1", Book, "/d/plan.png"), ExportOf("op1", Layout, "/d/planb.png")}
       [] c = two -> {ExportOf("op1", Layout, "/d/planb.png"), ExportOf("op2", Book, "/d/plan.png")}]
=============================================================================
