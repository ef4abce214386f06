----------------------------- MODULE ToolInputs -----------------------------
(***************************************************************************)
(* What a tool accepts and sends (the Validate and BridgePayload methods   *)
(* of internal/model) beside what the extension accepts from it (the       *)
(* checks of each operation in mutation_engine.rb, presentation_engine.rb, *)
(* layout_primitive_engine.rb and commands/registry.rb).  Two programs in  *)
(* two languages hold the same contract, each by hand.                     *)
(*                                                                         *)
(* A text is an opaque value: what is told apart is how it trims, how long *)
(* it is and, for a path, whether it is absolute and how it ends.  A       *)
(* number is an integer or NonFinite.  An optional object is a set of at   *)
(* most one.  A payload is a record, so that its field names count.        *)
(***************************************************************************)
EXTENDS Integers, Sequences

CONSTANTS
  Texts,          \* strings
  Blanks,         \* those of ASCII space only, the empty one among them
  WideBlanks,     \* blank to strings.TrimSpace, not to String#strip
  NulBlanks,      \* blank to String#strip, not to strings.TrimSpace
  Bytes,          \* the length of each text
  AbsolutePaths,  \* filepath.IsAbs
  Ext,            \* the lower-cased filepath.Ext of each text
  DotNames,       \* paths whose last element is nothing but an extension
  NonFinite,      \* a NaN or an infinity
  Tolerance       \* points this near are equal to Geom::Point3d

ASSUME TextAssumption ==
  /\ "" \in Blanks
  /\ Blanks \cup WideBlanks \cup NulBlanks \cup AbsolutePaths \subseteq Texts
  /\ (Blanks \cup WideBlanks) \cap NulBlanks = {}
  /\ AbsolutePaths \cap (WideBlanks \cup NulBlanks) = {}
  /\ Bytes \in [Texts -> Nat]
  /\ Ext \in [Texts -> STRING]

ASSUME NumberAssumption ==
  /\ NonFinite \notin Int
  /\ Tolerance \in Nat

TrimmedEmpty(t) == t \in Blanks \cup WideBlanks     \* strings.TrimSpace(t) == ""
StrippedEmpty(t) == t \in Blanks \cup NulBlanks     \* t.strip.empty?

Finite(n) == n # NonFinite
Positive(n) == Finite(n) /\ n > 0
AllFinite(v) == \A a \in DOMAIN v : Finite(v[a])
AllZero(v) == \A a \in DOMAIN v : v[a] = 0

XYZ == {"x", "y", "z"}
RefFields == {"session_id", "model_guid", "persistent_id", "revision"}
MutationFields == {"operation_id", "expected_model_guid", "expected_revision", "undo_label"}

Views == {"top", "bottom", "front", "back", "left", "right", "iso"}
RenderModes == {"raster", "hybrid", "vector"}
TextAlignments == {"left", "center", "right"}
DimensionAlignments == {"auto", "horizontal", "vertical", "aligned"}

-----------------------------------------------------------------------------
(* The tools' side: what all inputs share. *)

Named(t) == ~TrimmedEmpty(t) /\ Bytes[t] <= 128

ValidEnvelope(i) ==
  /\ i.session_id # ""
  /\ Named(i.operation_id)
  /\ i.expected_model_guid # ""

BridgeMutation(i, label) ==
  [operation_id |-> i.operation_id, expected_model_guid |-> i.expected_model_guid,
   expected_revision |-> i.expected_revision, undo_label |-> label]

ValidRef(r) == r.session_id # "" /\ r.model_guid # "" /\ r.persistent_id > 0

\* A reference of the session, model and revision the input itself names.
OwnRef(r, i) ==
  /\ ValidRef(r)
  /\ r.session_id = i.session_id
  /\ r.model_guid = i.expected_model_guid
  /\ r.revision = i.expected_revision

ValidDirection(v) == AllFinite(v) /\ ~AllZero(v)
ValidRect(r) == AllFinite(r) /\ r.width > 0 /\ r.height > 0

ValidPath(t) == ~TrimmedEmpty(t) /\ t \in AbsolutePaths
ValidLayoutPath(t) == ValidPath(t) /\ Ext[t] = ".layout"

ValidLayoutRef(r) ==
  ValidPath(r.layout_path) /\ r.page_index >= 0 /\ ~TrimmedEmpty(r.entity_id)

ValidModelBounds(b) ==
  /\ AllFinite(b.min_mm) /\ AllFinite(b.max_mm)
  /\ \A a \in XYZ : b.min_mm[a] <= b.max_mm[a]

-----------------------------------------------------------------------------
(* The extension's side: what all operations share. *)

BridgeNamed(t) == ~StrippedEmpty(t) /\ Bytes[t] <= 128

\* prepare_request, up to the snapshot.
Form(p, fields, label) ==
  /\ DOMAIN p = {"mutation"} \cup fields
  /\ DOMAIN p.mutation = MutationFields
  /\ BridgeNamed(p.mutation.operation_id)
  /\ p.mutation.expected_model_guid # ""
  /\ p.mutation.expected_revision >= 0
  /\ p.mutation.undo_label = label

\* resolve_entity in the session s, up to the lookup.  A request this far
\* names the current snapshot.
BridgeRef(r, s, p) ==
  /\ DOMAIN r = RefFields
  /\ r.session_id = s
  /\ r.model_guid = p.mutation.expected_model_guid
  /\ r.revision = p.mutation.expected_revision
  /\ r.persistent_id > 0

SectionPlaneRef(r, s, p) ==
  /\ DOMAIN r = RefFields
  /\ r.session_id = s
  /\ r.model_guid = p.mutation.expected_model_guid
  /\ r.revision = p.mutation.expected_revision

Coordinates(v) == DOMAIN v = XYZ /\ AllFinite(v)
Direction(v) == Coordinates(v) /\ ~AllZero(v)
Coincide(v, w) == \A a \in XYZ : v[a] - w[a] \in -Tolerance..Tolerance

\* File.extname, which sees no extension in a name that is one.
ExtName(t) == IF t \in DotNames THEN "" ELSE Ext[t]

LayoutBounds(r) ==
  /\ \A a \in {"x", "y", "width", "height"} : Finite(r[a])
  /\ r.width > 0 /\ r.height > 0
LayoutPoint2(v) == Finite(v.x) /\ Finite(v.y)
LayoutPoint3(v) == Finite(v.x) /\ Finite(v.y) /\ Finite(v.z)

-----------------------------------------------------------------------------
(* entity.translate *)
TranslateFields == {"entity_ref", "translation_inches"}

TranslateValid(i) ==
  ValidEnvelope(i) /\ OwnRef(i.entity_ref, i) /\ ValidDirection(i.translation_inches)

TranslatePayload(i) ==
  [mutation |-> BridgeMutation(i, "SketchUp MCP: Translate"),
   entity_ref |-> i.entity_ref, translation_inches |-> i.translation_inches]

TranslateForm(p) == Form(p, TranslateFields, "SketchUp MCP: Translate")

TranslateChecks(s, p) == BridgeRef(p.entity_ref, s, p) /\ Direction(p.translation_inches)

(* entity.delete *)
DeleteFields == {"entity_ref"}

DeleteValid(i) == ValidEnvelope(i) /\ OwnRef(i.entity_ref, i)

DeletePayload(i) ==
  [mutation |-> BridgeMutation(i, "SketchUp MCP: Delete Entity"), entity_ref |-> i.entity_ref]

DeleteForm(p) == Form(p, DeleteFields, "SketchUp MCP: Delete Entity")

DeleteChecks(s, p) == BridgeRef(p.entity_ref, s, p)

(* entity.material.set *)
MaterialSetFields == {"entity_ref", "material"}

MaterialSetValid(i) ==
  /\ ValidEnvelope(i)
  /\ OwnRef(i.entity_ref, i)
  /\ Named(i.material.name)
  /\ \A c \in {"r", "g", "b"} : i.material.color[c] \in 0..255

MaterialSetPayload(i) ==
  [mutation |-> BridgeMutation(i, "SketchUp MCP: Set Material"),
   entity_ref |-> i.entity_ref, material |-> i.material]

MaterialSetForm(p) == Form(p, MaterialSetFields, "SketchUp MCP: Set Material")

MaterialSetChecks(s, p) ==
  /\ BridgeRef(p.entity_ref, s, p)
  /\ DOMAIN p.material = {"name", "color"}
  /\ BridgeNamed(p.material.name)
  /\ DOMAIN p.material.color = {"r", "g", "b"}
  /\ \A c \in {"r", "g", "b"} : p.material.color[c] \in 0..255

(* entity.name.set *)
NameSetFields == {"entity_ref", "name"}

\* Mutant: the length of the name is not checked.
NameSetValidAnyLength(i) ==
  ValidEnvelope(i) /\ OwnRef(i.entity_ref, i) /\ ~TrimmedEmpty(i.name)

NameSetValid(i) == ValidEnvelope(i) /\ OwnRef(i.entity_ref, i) /\ Named(i.name)

NameSetPayload(i) ==
  [mutation |-> BridgeMutation(i, "SketchUp MCP: Set Entity Name"),
   entity_ref |-> i.entity_ref, name |-> i.name]

NameSetForm(p) == Form(p, NameSetFields, "SketchUp MCP: Set Entity Name")

\* That the name differs from the current one is about the model.
NameSetChecks(s, p) == BridgeRef(p.entity_ref, s, p) /\ BridgeNamed(p.name)

(* assembly.create *)
AssemblyCreateFields == {"name", "children"}

AssemblyCreateValid(i) ==
  /\ ValidEnvelope(i)
  /\ Named(i.name)
  /\ Len(i.children) \in 2..100
  /\ \A k \in 1..Len(i.children) : OwnRef(i.children[k], i)
  /\ \A j, k \in 1..Len(i.children) :
       i.children[j].persistent_id = i.children[k].persistent_id => j = k

AssemblyCreatePayload(i) ==
  [mutation |-> BridgeMutation(i, "SketchUp MCP: Create Assembly"),
   name |-> i.name, children |-> i.children]

AssemblyCreateForm(p) == Form(p, AssemblyCreateFields, "SketchUp MCP: Create Assembly")

AssemblyCreateChecks(s, p) ==
  /\ BridgeNamed(p.name)
  /\ Len(p.children) \in 2..100
  /\ \A k \in 1..Len(p.children) : BridgeRef(p.children[k], s, p)
  /\ \A j, k \in 1..Len(p.children) :
       p.children[j].persistent_id = p.children[k].persistent_id => j = k

(* geometry.create_box *)
CreateBoxFields == {"origin_inches", "dimensions_inches"}

CreateBoxValid(i) ==
  /\ ValidEnvelope(i)
  /\ AllFinite(i.origin_inches)
  /\ AllFinite(i.dimensions_inches)
  /\ \A a \in {"width", "depth", "height"} : i.dimensions_inches[a] > 0

CreateBoxPayload(i) ==
  [mutation |-> BridgeMutation(i, "SketchUp MCP: Create Box"),
   origin_inches |-> i.origin_inches, dimensions_inches |-> i.dimensions_inches]

CreateBoxForm(p) == Form(p, CreateBoxFields, "SketchUp MCP: Create Box")

CreateBoxChecks(s, p) ==
  /\ Coordinates(p.origin_inches)
  /\ DOMAIN p.dimensions_inches = {"width", "depth", "height"}
  /\ \A a \in {"width", "depth", "height"} : Positive(p.dimensions_inches[a])

(* changes.undo *)
UndoFields == {}

UndoValid(i) == ValidEnvelope(i)
UndoPayload(i) == [mutation |-> BridgeMutation(i, "SketchUp MCP: Undo")]

UndoForm(p) == Form(p, UndoFields, "SketchUp MCP: Undo")

-----------------------------------------------------------------------------
(* section_plane.create *)
SectionPlaneCreateFields == {"point_mm", "normal", "name", "symbol"}

SectionPlaneCreateValid(i) ==
  /\ ValidEnvelope(i)
  /\ AllFinite(i.point_mm)
  /\ ValidDirection(i.normal)
  /\ Named(i.name)
  /\ Bytes[i.symbol] <= 3

SectionPlaneCreatePayload(i) ==
  [mutation |-> BridgeMutation(i, "SketchUp MCP: Create Section Plane"),
   point_mm |-> i.point_mm, normal |-> i.normal, name |-> i.name, symbol |-> i.symbol]

SectionPlaneCreateForm(p) == Form(p, SectionPlaneCreateFields, "SketchUp MCP: Create Section Plane")

SectionPlaneCreateChecks(s, p) ==
  /\ Coordinates(p.point_mm)
  /\ Direction(p.normal)
  /\ BridgeNamed(p.name)
  /\ Bytes[p.symbol] <= 3

(* scene.create *)
SceneCreateFields ==
  {"name", "eye_mm", "target_mm", "up", "perspective", "orthographic_height_mm",
   "fov_degrees", "section_plane_ref", "display_section_plane"}

SceneCreateValid(i) ==
  /\ ValidEnvelope(i)
  /\ Named(i.name)
  /\ AllFinite(i.eye_mm) /\ AllFinite(i.target_mm)
  /\ ValidDirection(i.up)
  /\ i.eye_mm # i.target_mm
  /\ \A r \in i.section_plane_ref : OwnRef(r, i)
  /\ \/ /\ i.perspective
        /\ Finite(i.fov_degrees) /\ i.fov_degrees \in 1..120
        /\ i.orthographic_height_mm = 0
     \/ /\ ~i.perspective
        /\ Positive(i.orthographic_height_mm)
        /\ i.fov_degrees = 0

SceneCreatePayload(i) ==
  [mutation |-> BridgeMutation(i, "SketchUp MCP: Create Scene"), name |-> i.name,
   eye_mm |-> i.eye_mm, target_mm |-> i.target_mm, up |-> i.up,
   perspective |-> i.perspective, orthographic_height_mm |-> i.orthographic_height_mm,
   fov_degrees |-> i.fov_degrees, section_plane_ref |-> i.section_plane_ref,
   display_section_plane |-> i.display_section_plane]

SceneCreateForm(p) == Form(p, SceneCreateFields, "SketchUp MCP: Create Scene")

SceneCreateChecks(s, p) ==
  /\ BridgeNamed(p.name)
  /\ Coordinates(p.eye_mm) /\ Coordinates(p.target_mm) /\ Direction(p.up)
  /\ ~Coincide(p.eye_mm, p.target_mm)
  /\ \/ /\ p.perspective
        /\ Finite(p.fov_degrees) /\ p.fov_degrees \in 1..120
        /\ p.orthographic_height_mm = 0
     \/ /\ ~p.perspective
        /\ Positive(p.orthographic_height_mm)
        /\ p.fov_degrees = 0
  /\ \A r \in p.section_plane_ref : SectionPlaneRef(r, s, p)

(* model.file.save_copy *)
SaveCopyFields == {"output_path"}

SaveCopyValid(i) ==
  ValidEnvelope(i) /\ ValidPath(i.output_path) /\ Ext[i.output_path] = ".skp"

SaveCopyPayload(i) ==
  [mutation |-> BridgeMutation(i, "SketchUp MCP: Save Model Copy"),
   output_path |-> i.output_path]

SaveCopyForm(p) == Form(p, SaveCopyFields, "SketchUp MCP: Save Model Copy")

SaveCopyChecks(s, p) == ~StrippedEmpty(p.output_path) /\ ExtName(p.output_path) = ".skp"

-----------------------------------------------------------------------------
(* layout.document.create *)
DocumentCreateFields == {"layout_path", "template_path", "page_width_mm", "page_height_mm"}

DocumentCreateValid(i) ==
  /\ ValidEnvelope(i)
  /\ ValidLayoutPath(i.layout_path)
  /\ \/ /\ ~TrimmedEmpty(i.template_path)
        /\ i.template_path \in AbsolutePaths
        /\ Ext[i.template_path] = ".layout"
        /\ i.page_width_mm = 0 /\ i.page_height_mm = 0
     \/ /\ TrimmedEmpty(i.template_path)
        /\ Positive(i.page_width_mm) /\ Positive(i.page_height_mm)

DocumentCreatePayload(i) ==
  [mutation |-> BridgeMutation(i, "SketchUp MCP: Create LayOut Document"),
   layout_path |-> i.layout_path, template_path |-> i.template_path,
   page_width_mm |-> i.page_width_mm, page_height_mm |-> i.page_height_mm]

DocumentCreateForm(p) == Form(p, DocumentCreateFields, "SketchUp MCP: Create LayOut Document")

DocumentCreateChecks(s, p) ==
  /\ Ext[p.layout_path] = ".layout"
  /\ \/ /\ StrippedEmpty(p.template_path)
        /\ Positive(p.page_width_mm) /\ Positive(p.page_height_mm)
     \/ /\ ~StrippedEmpty(p.template_path)
        /\ Ext[p.template_path] = ".layout"
        /\ p.page_width_mm = 0 /\ p.page_height_mm = 0

(* layout.viewport.add.  From here on an operation reads its payload only  *)
(* inside its body, where it is already marked running.                    *)
ViewportAddFields ==
  {"layout_path", "skp_path", "page_index", "layer_name", "bounds_mm",
   "scene_name", "standard_view", "perspective", "scale_denominator",
   "render_mode", "panel_id", "require_fit", "fit_model_bounds_mm", "fit_margin_mm"}

ViewportAddValid(i) ==
  /\ ValidEnvelope(i)
  /\ ValidLayoutPath(i.layout_path)
  /\ ValidPath(i.skp_path)
  /\ i.page_index >= 0
  /\ ValidRect(i.bounds_mm)
  /\ TrimmedEmpty(i.scene_name) # TrimmedEmpty(i.standard_view)
  /\ TrimmedEmpty(i.standard_view) \/ i.standard_view \in Views
  /\ IF i.perspective THEN i.scale_denominator = 0 ELSE Positive(i.scale_denominator)
  /\ i.render_mode \in RenderModes
  /\ Finite(i.fit_margin_mm) /\ i.fit_margin_mm >= 0
  /\ i.require_fit =>
       /\ i.fit_model_bounds_mm # {}
       /\ \A b \in i.fit_model_bounds_mm : ValidModelBounds(b)

ViewportAddPayload(i) ==
  [mutation |-> BridgeMutation(i, "SketchUp MCP: Add LayOut Viewport"),
   layout_path |-> i.layout_path, skp_path |-> i.skp_path, page_index |-> i.page_index,
   layer_name |-> i.layer_name, bounds_mm |-> i.bounds_mm, scene_name |-> i.scene_name,
   standard_view |-> i.standard_view, perspective |-> i.perspective,
   scale_denominator |-> i.scale_denominator, render_mode |-> i.render_mode,
   panel_id |-> i.panel_id, require_fit |-> i.require_fit,
   fit_model_bounds_mm |-> i.fit_model_bounds_mm, fit_margin_mm |-> i.fit_margin_mm]

ViewportAddForm(p) == Form(p, ViewportAddFields, "SketchUp MCP: Add LayOut Viewport")

ViewportBody(p) ==
  /\ p.page_index >= 0
  /\ LayoutBounds(p.bounds_mm)
  /\ ~StrippedEmpty(p.scene_name) \/ p.standard_view \in Views
  /\ p.perspective \/ Positive(p.scale_denominator)
  /\ p.render_mode \in RenderModes
  /\ p.require_fit =>
       /\ p.fit_model_bounds_mm # {}
       /\ \A b \in p.fit_model_bounds_mm : LayoutPoint3(b.min_mm) /\ LayoutPoint3(b.max_mm)

(* layout.dimension.add *)
DimensionAddFields ==
  {"layout_path", "page_index", "layer_name", "viewport_ref", "start_point_mm",
   "end_point_mm", "start_pid_path", "end_pid_path", "offset_mm", "alignment",
   "style_id", "panel_id"}

DimensionAddValid(i) ==
  /\ ValidEnvelope(i)
  /\ ValidLayoutPath(i.layout_path)
  /\ i.page_index >= 0
  /\ ValidLayoutRef(i.viewport_ref)
  /\ i.viewport_ref.layout_path = i.layout_path
  /\ i.viewport_ref.page_index = i.page_index
  /\ AllFinite(i.start_point_mm) /\ AllFinite(i.end_point_mm)
  /\ Finite(i.offset_mm) /\ i.offset_mm # 0
  /\ i.alignment \in DimensionAlignments

DimensionAddPayload(i) ==
  [mutation |-> BridgeMutation(i, "SketchUp MCP: Add LayOut Dimension"),
   layout_path |-> i.layout_path, page_index |-> i.page_index, layer_name |-> i.layer_name,
   viewport_ref |-> i.viewport_ref, start_point_mm |-> i.start_point_mm,
   end_point_mm |-> i.end_point_mm, start_pid_path |-> i.start_pid_path,
   end_pid_path |-> i.end_pid_path, offset_mm |-> i.offset_mm,
   alignment |-> i.alignment, style_id |-> i.style_id, panel_id |-> i.panel_id]

DimensionAddForm(p) == Form(p, DimensionAddFields, "SketchUp MCP: Add LayOut Dimension")

DimensionBody(p) ==
  /\ p.page_index >= 0 /\ p.viewport_ref.page_index >= 0
  /\ LayoutPoint3(p.start_point_mm) /\ LayoutPoint3(p.end_point_mm)
  /\ Finite(p.offset_mm) /\ p.offset_mm # 0
  /\ p.alignment \in DimensionAlignments

(* layout.text.add *)
TextAddFields ==
  {"layout_path", "page_index", "layer_name", "bounds_mm", "text", "font_size_pt",
   "bold", "alignment", "style_id", "panel_id"}

TextAddValid(i) ==
  /\ ValidEnvelope(i)
  /\ ValidLayoutPath(i.layout_path)
  /\ i.page_index >= 0
  /\ ValidRect(i.bounds_mm)
  /\ ~TrimmedEmpty(i.text)
  /\ Positive(i.font_size_pt)
  /\ i.alignment \in TextAlignments

TextAddPayload(i) ==
  [mutation |-> BridgeMutation(i, "SketchUp MCP: Add LayOut Text"),
   layout_path |-> i.layout_path, page_index |-> i.page_index, layer_name |-> i.layer_name,
   bounds_mm |-> i.bounds_mm, text |-> i.text, font_size_pt |-> i.font_size_pt,
   bold |-> i.bold, alignment |-> i.alignment, style_id |-> i.style_id,
   panel_id |-> i.panel_id]

TextAddForm(p) == Form(p, TextAddFields, "SketchUp MCP: Add LayOut Text")

\* A font size or a stroke width is handed to LayOut, which wants a number.
TextBody(p) ==
  /\ p.page_index >= 0
  /\ ~StrippedEmpty(p.text)
  /\ LayoutBounds(p.bounds_mm)
  /\ Finite(p.font_size_pt)
  /\ p.alignment \in TextAlignments

(* layout.line.add *)
LineAddFields ==
  {"layout_path", "page_index", "layer_name", "start_mm", "end_mm", "stroke_width",
   "style_id", "panel_id"}

LineAddValid(i) ==
  /\ ValidEnvelope(i)
  /\ ValidLayoutPath(i.layout_path)
  /\ i.page_index >= 0
  /\ AllFinite(i.start_mm) /\ AllFinite(i.end_mm)
  /\ i.start_mm # i.end_mm
  /\ Positive(i.stroke_width)

LineAddPayload(i) ==
  [mutation |-> BridgeMutation(i, "SketchUp MCP: Add LayOut Line"),
   layout_path |-> i.layout_path, page_index |-> i.page_index, layer_name |-> i.layer_name,
   start_mm |-> i.start_mm, end_mm |-> i.end_mm, stroke_width |-> i.stroke_width,
   style_id |-> i.style_id, panel_id |-> i.panel_id]

LineAddForm(p) == Form(p, LineAddFields, "SketchUp MCP: Add LayOut Line")

LineBody(p) ==
  /\ p.page_index >= 0
  /\ LayoutPoint2(p.start_mm) /\ LayoutPoint2(p.end_mm)
  /\ Finite(p.stroke_width)

(* layout.rectangle.add *)
RectangleAddFields ==
  {"layout_path", "page_index", "layer_name", "bounds_mm", "stroke_width",
   "style_id", "panel_id"}

RectangleAddValid(i) ==
  /\ ValidEnvelope(i)
  /\ ValidLayoutPath(i.layout_path)
  /\ i.page_index >= 0
  /\ ValidRect(i.bounds_mm)
  /\ Positive(i.stroke_width)

RectangleAddPayload(i) ==
  [mutation |-> BridgeMutation(i, "SketchUp MCP: Add LayOut Rectangle"),
   layout_path |-> i.layout_path, page_index |-> i.page_index, layer_name |-> i.layer_name,
   bounds_mm |-> i.bounds_mm, stroke_width |-> i.stroke_width,
   style_id |-> i.style_id, panel_id |-> i.panel_id]

RectangleAddForm(p) == Form(p, RectangleAddFields, "SketchUp MCP: Add LayOut Rectangle")

RectangleBody(p) ==
  p.page_index >= 0 /\ LayoutBounds(p.bounds_mm) /\ Finite(p.stroke_width)

(* layout.export *)
Images == {".png", ".jpg", ".jpeg"}

ExportFields == {"layout_path", "output_path", "dpi"}

ExportValid(i) ==
  /\ ValidEnvelope(i)
  /\ ValidLayoutPath(i.layout_path)
  /\ ValidPath(i.output_path)
  /\ \/ Ext[i.output_path] = ".pdf" /\ i.dpi = 0
     \/ Ext[i.output_path] \in Images /\ i.dpi > 0

ExportPayload(i) ==
  [mutation |-> BridgeMutation(i, "SketchUp MCP: Export LayOut Document"),
   layout_path |-> i.layout_path, output_path |-> i.output_path, dpi |-> i.dpi]

ExportForm(p) == Form(p, ExportFields, "SketchUp MCP: Export LayOut Document")


-----------------------------------------------------------------------------
(* The tools that only read. *)
SessionValid(i) == i.session_id # ""                \* model.summary, selection.get
ListValid(i) == ~TrimmedEmpty(i.session_id)         \* model.bounds and the lists
EmptyPayload == <<>>

(* entity.inspect, entity.children.list *)
InspectChecks(s, p) ==
  /\ DOMAIN p = RefFields
  /\ p.session_id = s
  /\ p.persistent_id > 0
  /\ p.revision >= 0

(* layout.template.inspect *)
TemplateInspectValid(i) == ~TrimmedEmpty(i.session_id) /\ ValidLayoutPath(i.template_path)
TemplateInspectPayload(i) == [template_path |-> i.template_path]
TemplateInspectChecks(s, p) ==
  DOMAIN p = {"template_path"} /\ Ext[p.template_path] = ".layout"

(* layout.panel.validate *)
PanelValidateFields == {"layout_path", "page_index", "panel_id", "margin_mm"}

PanelValidateValid(i) ==
  /\ ~TrimmedEmpty(i.session_id)
  /\ ValidLayoutPath(i.layout_path)
  /\ i.page_index >= 0
  /\ ~TrimmedEmpty(i.panel_id)
  /\ Finite(i.margin_mm) /\ i.margin_mm >= 0

PanelValidatePayload(i) ==
  [layout_path |-> i.layout_path, page_index |-> i.page_index,
   panel_id |-> i.panel_id, margin_mm |-> i.margin_mm]

PanelValidateChecks(s, p) ==
  /\ PanelValidateFields \subseteq DOMAIN p
  /\ p.page_index >= 0
  /\ ~StrippedEmpty(p.panel_id)

-----------------------------------------------------------------------------
(* The types of the inputs: what the JSON decoder lets through. *)
Numbers == Int \cup {NonFinite}
Vectors == [XYZ -> Numbers]
Refs == [session_id : Texts, model_guid : Texts, persistent_id : Int, revision : Nat]
Materials == [name : Texts, color : [{"r", "g", "b"} -> Int]]
LayoutRefs == [layout_path : Texts, page_index : Int, entity_id : Texts]

FieldType ==
  [session_id |-> Texts, operation_id |-> Texts, expected_model_guid |-> Texts,
   expected_revision |-> Nat, model_guid |-> Texts, persistent_id |-> Int, revision |-> Nat,
   entity_ref |-> Refs, children |-> Seq(Refs), name |-> Texts, symbol |-> Texts,
   material |-> Materials,
   translation_inches |-> Vectors, origin_inches |-> Vectors,
   dimensions_inches |-> [{"width", "depth", "height"} -> Numbers],
   point_mm |-> Vectors, normal |-> Vectors, eye_mm |-> Vectors, target_mm |-> Vectors,
   up |-> Vectors, perspective |-> BOOLEAN, orthographic_height_mm |-> Numbers,
   fov_degrees |-> Numbers, section_plane_ref |-> SUBSET Refs,
   display_section_plane |-> BOOLEAN, output_path |-> Texts, layout_path |-> Texts,
   template_path |-> Texts, page_width_mm |-> Numbers, page_height_mm |-> Numbers,
   skp_path |-> Texts, page_index |-> Int, layer_name |-> Texts,
   bounds_mm |-> [{"x", "y", "width", "height"} -> Numbers], scene_name |-> Texts,
   standard_view |-> Texts, scale_denominator |-> Numbers, render_mode |-> Texts,
   panel_id |-> Texts, require_fit |-> BOOLEAN,
   fit_model_bounds_mm |-> SUBSET [min_mm : Vectors, max_mm : Vectors],
   fit_margin_mm |-> Numbers,
   viewport_ref |-> LayoutRefs,
   start_point_mm |-> Vectors, end_point_mm |-> Vectors, start_pid_path |-> Texts,
   end_pid_path |-> Texts, offset_mm |-> Numbers, alignment |-> Texts, style_id |-> Texts,
   text |-> Texts, font_size_pt |-> Numbers, bold |-> BOOLEAN,
   start_mm |-> [{"x", "y"} -> Numbers], end_mm |-> [{"x", "y"} -> Numbers],
   stroke_width |-> Numbers, dpi |-> Int, margin_mm |-> Numbers]
=============================================================================
