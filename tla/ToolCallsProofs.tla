-------------------------- MODULE ToolCallsProofs --------------------------
(***************************************************************************)
(* Theorems about the tool calls, for any texts, inputs, callers and files.*)
(*                                                                         *)
(* One contract lemma per tool says that an input its Validate accepts and *)
(* Gap does not name gives a payload the extension finds well-formed.      *)
(* HandledIsSound gathers them: the payload of every queued request is     *)
(* Sound when it is sent (InvAsk), which the steps of the                  *)
(* bridge keep and use.  One lemma per action then shows that Inv, the     *)
(* conjunction of CallsInv, RecordsInv and FilesInv, is inductive.         *)
(***************************************************************************)
EXTENDS ToolCalls, TLAPS

LEMMA GoodMutation ==
  ASSUME NEW i, NEW label,
         i.operation_id \in Texts, i.expected_revision \in Nat,
         ValidEnvelope(i), i.operation_id \notin NulBlanks
  PROVE  LET m == BridgeMutation(i, label)
         IN  /\ DOMAIN m = MutationFields
             /\ BridgeNamed(m.operation_id)
             /\ m.expected_model_guid # ""
             /\ m.expected_revision >= 0
             /\ m.undo_label = label
<1> DEFINE m == BridgeMutation(i, label)
<1>1. DOMAIN m = MutationFields
  BY DEF BridgeMutation, MutationFields
<1>2. BridgeNamed(m.operation_id)
  BY DEF BridgeMutation, ValidEnvelope, Named, BridgeNamed, TrimmedEmpty, StrippedEmpty
<1>3. m.expected_model_guid # ""
  BY DEF BridgeMutation, ValidEnvelope
<1>4. m.expected_revision >= 0
  BY DEF BridgeMutation
<1>5. m.undo_label = label
  BY DEF BridgeMutation
<1> QED BY <1>1, <1>2, <1>3, <1>4, <1>5

LEMMA TranslateContract ==
  ASSUME NEW i, Typed("entity.translate", i), TranslateValid(i), ~Gap("entity.translate", i)
  PROVE  /\ TranslateForm(TranslatePayload(i))
         /\ TranslateChecks(i.session_id, TranslatePayload(i))
<1>1. /\ i.operation_id \in Texts
      /\ i.expected_revision \in Nat
      /\ i.entity_ref \in Refs
      /\ i.translation_inches \in Vectors
  BY DEF Typed, TranslateFields, Envelope, FieldType
<1>2. ValidEnvelope(i) /\ i.operation_id \notin NulBlanks
  BY DEF TranslateValid, Gap, Mutations
<1>3. TranslateForm(TranslatePayload(i))
  BY <1>1, <1>2, GoodMutation DEF TranslateForm, Form, TranslateFields, TranslatePayload
<1>4. TranslateChecks(i.session_id, TranslatePayload(i))
  BY <1>1, NumberAssumption, TextAssumption DEF TranslateChecks, TranslatePayload,
  TranslateValid, BridgeRef, OwnRef, ValidRef, Refs, RefFields, Direction,
  Coordinates, ValidDirection, Vectors, BridgeMutation
<1> QED BY <1>3, <1>4

LEMMA DeleteContract ==
  ASSUME NEW i, Typed("entity.delete", i), DeleteValid(i), ~Gap("entity.delete", i)
  PROVE  /\ DeleteForm(DeletePayload(i))
         /\ DeleteChecks(i.session_id, DeletePayload(i))
<1>1. /\ i.operation_id \in Texts
      /\ i.expected_revision \in Nat
      /\ i.entity_ref \in Refs
  BY DEF Typed, DeleteFields, Envelope, FieldType
<1>2. ValidEnvelope(i) /\ i.operation_id \notin NulBlanks
  BY DEF DeleteValid, Gap, Mutations
<1>3. DeleteForm(DeletePayload(i))
  BY <1>1, <1>2, GoodMutation DEF DeleteForm, Form, DeleteFields, DeletePayload
<1>4. DeleteChecks(i.session_id, DeletePayload(i))
  BY <1>1, NumberAssumption, TextAssumption DEF DeleteChecks, DeletePayload,
  DeleteValid, BridgeRef, OwnRef, ValidRef, Refs, RefFields, BridgeMutation
<1> QED BY <1>3, <1>4

LEMMA MaterialSetContract ==
  ASSUME NEW i, Typed("entity.material.set", i), MaterialSetValid(i), ~Gap("entity.material.set", i)
  PROVE  /\ MaterialSetForm(MaterialSetPayload(i))
         /\ MaterialSetChecks(i.session_id, MaterialSetPayload(i))
<1>1. /\ i.operation_id \in Texts
      /\ i.expected_revision \in Nat
      /\ i.entity_ref \in Refs
      /\ i.material \in Materials
  BY DEF Typed, MaterialSetFields, Envelope, FieldType
<1>2. ValidEnvelope(i) /\ i.operation_id \notin NulBlanks
  BY DEF MaterialSetValid, Gap, Mutations
<1>3. MaterialSetForm(MaterialSetPayload(i))
  BY <1>1, <1>2, GoodMutation DEF MaterialSetForm, Form, MaterialSetFields, MaterialSetPayload
<1>4. MaterialSetChecks(i.session_id, MaterialSetPayload(i))
  BY <1>1, NumberAssumption, TextAssumption DEF MaterialSetChecks, MaterialSetPayload,
  MaterialSetValid, Materials, BridgeRef, OwnRef, ValidRef, Refs, RefFields,
  BridgeMutation, Named, BridgeNamed, TrimmedEmpty, StrippedEmpty, Gap
<1> QED BY <1>3, <1>4

LEMMA NameSetContract ==
  ASSUME NEW i, Typed("entity.name.set", i), NameSetValid(i), ~Gap("entity.name.set", i)
  PROVE  /\ NameSetForm(NameSetPayload(i))
         /\ NameSetChecks(i.session_id, NameSetPayload(i))
<1>1. /\ i.operation_id \in Texts
      /\ i.expected_revision \in Nat
      /\ i.entity_ref \in Refs
      /\ i.name \in Texts
  BY DEF Typed, NameSetFields, Envelope, FieldType
<1>2. ValidEnvelope(i) /\ i.operation_id \notin NulBlanks
  BY DEF NameSetValid, Gap, Mutations
<1>3. NameSetForm(NameSetPayload(i))
  BY <1>1, <1>2, GoodMutation DEF NameSetForm, Form, NameSetFields, NameSetPayload
<1>4. NameSetChecks(i.session_id, NameSetPayload(i))
  BY <1>1, NumberAssumption, TextAssumption DEF NameSetChecks, NameSetPayload,
  NameSetValid, BridgeRef, OwnRef, ValidRef, Refs, RefFields, BridgeMutation, Named,
  BridgeNamed, TrimmedEmpty, StrippedEmpty, Gap
<1> QED BY <1>3, <1>4

LEMMA AssemblyCreateContract ==
  ASSUME NEW i, Typed("assembly.create", i), AssemblyCreateValid(i), ~Gap("assembly.create", i)
  PROVE  /\ AssemblyCreateForm(AssemblyCreatePayload(i))
         /\ AssemblyCreateChecks(i.session_id, AssemblyCreatePayload(i))
<1>1. /\ i.operation_id \in Texts
      /\ i.expected_revision \in Nat
      /\ i.name \in Texts
      /\ i.children \in Seq(Refs)
  BY DEF Typed, AssemblyCreateFields, Envelope, FieldType
<1>2. ValidEnvelope(i) /\ i.operation_id \notin NulBlanks
  BY DEF AssemblyCreateValid, Gap, Mutations
<1>3. AssemblyCreateForm(AssemblyCreatePayload(i))
  BY <1>1, <1>2, GoodMutation DEF AssemblyCreateForm, Form, AssemblyCreateFields, AssemblyCreatePayload
<1>4. Len(i.children) \in Nat /\ \A k \in 1..Len(i.children) : i.children[k] \in Refs
  BY <1>1
<1>5. /\ Len(i.children) \in 2..100
      /\ \A k \in 1..Len(i.children) : OwnRef(i.children[k], i)
      /\ \A j, k \in 1..Len(i.children) :
           i.children[j].persistent_id = i.children[k].persistent_id => j = k
  BY DEF AssemblyCreateValid
<1>6. \A k \in 1..Len(i.children) : BridgeRef(i.children[k], i.session_id, AssemblyCreatePayload(i))
  BY <1>4, <1>5 DEF BridgeRef, OwnRef, ValidRef, Refs, RefFields, BridgeMutation, AssemblyCreatePayload
<1>7. BridgeNamed(i.name)
  BY <1>1, TextAssumption DEF AssemblyCreateValid, Named, BridgeNamed, TrimmedEmpty, StrippedEmpty, Gap
<1>8. AssemblyCreateChecks(i.session_id, AssemblyCreatePayload(i))
  BY <1>5, <1>6, <1>7 DEF AssemblyCreateChecks, AssemblyCreatePayload
<1> QED BY <1>3, <1>8

LEMMA CreateBoxContract ==
  ASSUME NEW i, Typed("geometry.create_box", i), CreateBoxValid(i), ~Gap("geometry.create_box", i)
  PROVE  /\ CreateBoxForm(CreateBoxPayload(i))
         /\ CreateBoxChecks(i.session_id, CreateBoxPayload(i))
<1>1. /\ i.operation_id \in Texts
      /\ i.expected_revision \in Nat
      /\ i.origin_inches \in Vectors
      /\ i.dimensions_inches \in [{"width", "depth", "height"} -> Numbers]
  BY DEF Typed, CreateBoxFields, Envelope, FieldType
<1>2. ValidEnvelope(i) /\ i.operation_id \notin NulBlanks
  BY DEF CreateBoxValid, Gap, Mutations
<1>3. CreateBoxForm(CreateBoxPayload(i))
  BY <1>1, <1>2, GoodMutation DEF CreateBoxForm, Form, CreateBoxFields, CreateBoxPayload
<1>4. CreateBoxChecks(i.session_id, CreateBoxPayload(i))
  BY <1>1, NumberAssumption, TextAssumption DEF CreateBoxChecks, CreateBoxPayload,
  CreateBoxValid, Coordinates, Vectors, Positive, AllFinite, Finite
<1> QED BY <1>3, <1>4

LEMMA UndoContract ==
  ASSUME NEW i, Typed("changes.undo", i), UndoValid(i), ~Gap("changes.undo", i)
  PROVE  /\ UndoForm(UndoPayload(i))
<1>1. /\ i.operation_id \in Texts
      /\ i.expected_revision \in Nat
  BY DEF Typed, UndoFields, Envelope, FieldType
<1>2. ValidEnvelope(i) /\ i.operation_id \notin NulBlanks
  BY DEF UndoValid, Gap, Mutations
<1>3. UndoForm(UndoPayload(i))
  BY <1>1, <1>2, GoodMutation DEF UndoForm, Form, UndoFields, UndoPayload
<1> QED BY <1>3

LEMMA SectionPlaneCreateContract ==
  ASSUME NEW i, Typed("section_plane.create", i), SectionPlaneCreateValid(i), ~Gap("section_plane.create", i)
  PROVE  /\ SectionPlaneCreateForm(SectionPlaneCreatePayload(i))
         /\ SectionPlaneCreateChecks(i.session_id, SectionPlaneCreatePayload(i))
<1>1. /\ i.operation_id \in Texts
      /\ i.expected_revision \in Nat
      /\ i.point_mm \in Vectors
      /\ i.normal \in Vectors
      /\ i.name \in Texts
      /\ i.symbol \in Texts
  BY DEF Typed, SectionPlaneCreateFields, Envelope, FieldType
<1>2. ValidEnvelope(i) /\ i.operation_id \notin NulBlanks
  BY DEF SectionPlaneCreateValid, Gap, Mutations
<1>3. SectionPlaneCreateForm(SectionPlaneCreatePayload(i))
  BY <1>1, <1>2, GoodMutation DEF SectionPlaneCreateForm, Form, SectionPlaneCreateFields, SectionPlaneCreatePayload
<1>4. SectionPlaneCreateChecks(i.session_id, SectionPlaneCreatePayload(i))
  BY <1>1, NumberAssumption, TextAssumption DEF SectionPlaneCreateChecks,
  SectionPlaneCreatePayload, SectionPlaneCreateValid, Coordinates, Direction,
  ValidDirection, Vectors, Named, BridgeNamed, TrimmedEmpty, StrippedEmpty, Gap
<1> QED BY <1>3, <1>4

LEMMA SceneCreateContract ==
  ASSUME NEW i, Typed("scene.create", i), SceneCreateValid(i), ~Gap("scene.create", i)
  PROVE  /\ SceneCreateForm(SceneCreatePayload(i))
         /\ SceneCreateChecks(i.session_id, SceneCreatePayload(i))
<1>1. /\ i.operation_id \in Texts
      /\ i.expected_revision \in Nat
      /\ i.name \in Texts
      /\ i.eye_mm \in Vectors
      /\ i.target_mm \in Vectors
      /\ i.up \in Vectors
      /\ i.perspective \in BOOLEAN
      /\ i.orthographic_height_mm \in Numbers
      /\ i.fov_degrees \in Numbers
      /\ i.section_plane_ref \in SUBSET Refs
  BY DEF Typed, SceneCreateFields, Envelope, FieldType
<1>2. ValidEnvelope(i) /\ i.operation_id \notin NulBlanks
  BY DEF SceneCreateValid, Gap, Mutations
<1>3. SceneCreateForm(SceneCreatePayload(i))
  BY <1>1, <1>2, GoodMutation DEF SceneCreateForm, Form, SceneCreateFields, SceneCreatePayload
<1>4. SceneCreateChecks(i.session_id, SceneCreatePayload(i))
  BY <1>1, NumberAssumption, TextAssumption DEF SceneCreateChecks, SceneCreatePayload,
  SceneCreateValid, Coordinates, Direction, ValidDirection, Vectors, Named,
  BridgeNamed, TrimmedEmpty, StrippedEmpty, Gap, SectionPlaneRef, OwnRef, ValidRef,
  Refs, RefFields, BridgeMutation
<1> QED BY <1>3, <1>4

LEMMA SaveCopyContract ==
  ASSUME NEW i, Typed("model.file.save_copy", i), SaveCopyValid(i), ~Gap("model.file.save_copy", i)
  PROVE  /\ SaveCopyForm(SaveCopyPayload(i))
         /\ SaveCopyChecks(i.session_id, SaveCopyPayload(i))
<1>1. /\ i.operation_id \in Texts
      /\ i.expected_revision \in Nat
      /\ i.output_path \in Texts
  BY DEF Typed, SaveCopyFields, Envelope, FieldType
<1>2. ValidEnvelope(i) /\ i.operation_id \notin NulBlanks
  BY DEF SaveCopyValid, Gap, Mutations
<1>3. SaveCopyForm(SaveCopyPayload(i))
  BY <1>1, <1>2, GoodMutation DEF SaveCopyForm, Form, SaveCopyFields, SaveCopyPayload
<1>4. SaveCopyChecks(i.session_id, SaveCopyPayload(i))
  BY <1>1, NumberAssumption, TextAssumption DEF SaveCopyChecks, SaveCopyPayload,
  SaveCopyValid, ValidPath, TrimmedEmpty, StrippedEmpty, ExtName, Gap
<1> QED BY <1>3, <1>4

LEMMA DocumentCreateContract ==
  ASSUME NEW i, Typed("layout.document.create", i), DocumentCreateValid(i), ~Gap("layout.document.create", i)
  PROVE  /\ DocumentCreateForm(DocumentCreatePayload(i))
         /\ DocumentCreateChecks(i.session_id, DocumentCreatePayload(i))
<1>1. /\ i.operation_id \in Texts
      /\ i.expected_revision \in Nat
      /\ i.layout_path \in Texts
      /\ i.template_path \in Texts
      /\ i.page_width_mm \in Numbers
      /\ i.page_height_mm \in Numbers
  BY DEF Typed, DocumentCreateFields, Envelope, FieldType
<1>2. ValidEnvelope(i) /\ i.operation_id \notin NulBlanks
  BY DEF DocumentCreateValid, Gap, Mutations
<1>3. DocumentCreateForm(DocumentCreatePayload(i))
  BY <1>1, <1>2, GoodMutation DEF DocumentCreateForm, Form, DocumentCreateFields, DocumentCreatePayload
<1>4. DocumentCreateChecks(i.session_id, DocumentCreatePayload(i))
  BY <1>1, NumberAssumption, TextAssumption DEF DocumentCreateChecks,
  DocumentCreatePayload, DocumentCreateValid, ValidLayoutPath, ValidPath,
  TrimmedEmpty, StrippedEmpty, Gap
<1> QED BY <1>3, <1>4

LEMMA ViewportAddContract ==
  ASSUME NEW i, Typed("layout.viewport.add", i), ViewportAddValid(i), ~Gap("layout.viewport.add", i)
  PROVE  /\ ViewportAddForm(ViewportAddPayload(i))
         /\ ViewportBody(ViewportAddPayload(i))
<1>1. /\ i.operation_id \in Texts
      /\ i.expected_revision \in Nat
      /\ i.page_index \in Int
      /\ i.bounds_mm \in [{"x", "y", "width", "height"} -> Numbers]
      /\ i.scene_name \in Texts
      /\ i.standard_view \in Texts
      /\ i.scale_denominator \in Numbers
      /\ i.require_fit \in BOOLEAN
      /\ i.perspective \in BOOLEAN
      /\ i.fit_model_bounds_mm \in SUBSET [min_mm : Vectors, max_mm : Vectors]
  BY DEF Typed, ViewportAddFields, Envelope, FieldType
<1>2. ValidEnvelope(i) /\ i.operation_id \notin NulBlanks
  BY DEF ViewportAddValid, Gap, Mutations
<1>3. ViewportAddForm(ViewportAddPayload(i))
  BY <1>1, <1>2, GoodMutation DEF ViewportAddForm, Form, ViewportAddFields, ViewportAddPayload
<1>4. ViewportBody(ViewportAddPayload(i))
  BY <1>1, NumberAssumption DEF ViewportBody, ViewportAddPayload, ViewportAddValid,
  Numbers, ValidRect, AllFinite, Finite, Positive, LayoutBounds, LayoutPoint3,
  Vectors, XYZ, TrimmedEmpty, StrippedEmpty, ValidModelBounds, Gap
<1> QED BY <1>3, <1>4

LEMMA DimensionAddContract ==
  ASSUME NEW i, Typed("layout.dimension.add", i), DimensionAddValid(i), ~Gap("layout.dimension.add", i)
  PROVE  /\ DimensionAddForm(DimensionAddPayload(i))
         /\ DimensionBody(DimensionAddPayload(i))
<1>1. /\ i.operation_id \in Texts
      /\ i.expected_revision \in Nat
      /\ i.page_index \in Int
      /\ i.start_point_mm \in Vectors
      /\ i.end_point_mm \in Vectors
      /\ i.offset_mm \in Numbers
      /\ i.viewport_ref \in LayoutRefs
  BY DEF Typed, DimensionAddFields, Envelope, FieldType
<1>2. ValidEnvelope(i) /\ i.operation_id \notin NulBlanks
  BY DEF DimensionAddValid, Gap, Mutations
<1>3. DimensionAddForm(DimensionAddPayload(i))
  BY <1>1, <1>2, GoodMutation DEF DimensionAddForm, Form, DimensionAddFields, DimensionAddPayload
<1>4. DimensionBody(DimensionAddPayload(i))
  BY <1>1, NumberAssumption DEF DimensionBody, DimensionAddPayload, DimensionAddValid,
  Numbers, LayoutRefs, AllFinite, Finite, LayoutPoint3, Vectors, XYZ, ValidLayoutRef
<1> QED BY <1>3, <1>4

LEMMA TextAddContract ==
  ASSUME NEW i, Typed("layout.text.add", i), TextAddValid(i), ~Gap("layout.text.add", i)
  PROVE  /\ TextAddForm(TextAddPayload(i))
         /\ TextBody(TextAddPayload(i))
<1>1. /\ i.operation_id \in Texts
      /\ i.expected_revision \in Nat
      /\ i.page_index \in Int
      /\ i.bounds_mm \in [{"x", "y", "width", "height"} -> Numbers]
      /\ i.text \in Texts
      /\ i.font_size_pt \in Numbers
  BY DEF Typed, TextAddFields, Envelope, FieldType
<1>2. ValidEnvelope(i) /\ i.operation_id \notin NulBlanks
  BY DEF TextAddValid, Gap, Mutations
<1>3. TextAddForm(TextAddPayload(i))
  BY <1>1, <1>2, GoodMutation DEF TextAddForm, Form, TextAddFields, TextAddPayload
<1>4. TextBody(TextAddPayload(i))
  BY <1>1, NumberAssumption DEF TextBody, TextAddPayload, TextAddValid, Numbers,
  ValidRect, AllFinite, Finite, Positive, LayoutBounds, TrimmedEmpty, StrippedEmpty,
  Gap
<1> QED BY <1>3, <1>4

LEMMA LineAddContract ==
  ASSUME NEW i, Typed("layout.line.add", i), LineAddValid(i), ~Gap("layout.line.add", i)
  PROVE  /\ LineAddForm(LineAddPayload(i))
         /\ LineBody(LineAddPayload(i))
<1>1. /\ i.operation_id \in Texts
      /\ i.expected_revision \in Nat
      /\ i.page_index \in Int
      /\ i.start_mm \in [{"x", "y"} -> Numbers]
      /\ i.end_mm \in [{"x", "y"} -> Numbers]
      /\ i.stroke_width \in Numbers
  BY DEF Typed, LineAddFields, Envelope, FieldType
<1>2. ValidEnvelope(i) /\ i.operation_id \notin NulBlanks
  BY DEF LineAddValid, Gap, Mutations
<1>3. LineAddForm(LineAddPayload(i))
  BY <1>1, <1>2, GoodMutation DEF LineAddForm, Form, LineAddFields, LineAddPayload
<1>4. LineBody(LineAddPayload(i))
  BY <1>1, NumberAssumption DEF LineBody, LineAddPayload, LineAddValid, Numbers,
  AllFinite, Finite, Positive, LayoutPoint2
<1> QED BY <1>3, <1>4

LEMMA RectangleAddContract ==
  ASSUME NEW i, Typed("layout.rectangle.add", i), RectangleAddValid(i), ~Gap("layout.rectangle.add", i)
  PROVE  /\ RectangleAddForm(RectangleAddPayload(i))
         /\ RectangleBody(RectangleAddPayload(i))
<1>1. /\ i.operation_id \in Texts
      /\ i.expected_revision \in Nat
      /\ i.page_index \in Int
      /\ i.bounds_mm \in [{"x", "y", "width", "height"} -> Numbers]
      /\ i.stroke_width \in Numbers
  BY DEF Typed, RectangleAddFields, Envelope, FieldType
<1>2. ValidEnvelope(i) /\ i.operation_id \notin NulBlanks
  BY DEF RectangleAddValid, Gap, Mutations
<1>3. RectangleAddForm(RectangleAddPayload(i))
  BY <1>1, <1>2, GoodMutation DEF RectangleAddForm, Form, RectangleAddFields, RectangleAddPayload
<1>4. RectangleBody(RectangleAddPayload(i))
  BY <1>1, NumberAssumption DEF RectangleBody, RectangleAddPayload, RectangleAddValid,
  Numbers, ValidRect, AllFinite, Finite, Positive, LayoutBounds
<1> QED BY <1>3, <1>4

LEMMA ExportContract ==
  ASSUME NEW i, Typed("layout.export", i), ExportValid(i), ~Gap("layout.export", i)
  PROVE  /\ ExportForm(ExportPayload(i))
<1>1. /\ i.operation_id \in Texts
      /\ i.expected_revision \in Nat
  BY DEF Typed, ExportFields, Envelope, FieldType
<1>2. ValidEnvelope(i) /\ i.operation_id \notin NulBlanks
  BY DEF ExportValid, Gap, Mutations
<1>3. ExportForm(ExportPayload(i))
  BY <1>1, <1>2, GoodMutation DEF ExportForm, Form, ExportFields, ExportPayload
<1> QED BY <1>3

LEMMA InspectContract ==
  ASSUME NEW t \in Inspections, NEW i, Typed(t, i), ValidRef(i)
  PROVE  InspectChecks(i.session_id, i)
<1>1. DOMAIN i = RefFields /\ i.persistent_id \in Int /\ i.revision \in Nat
  BY DEF Typed, RefFields, FieldType
<1>2. i.persistent_id > 0
  BY DEF ValidRef
<1>4. i.revision >= 0
  BY <1>1
<1>3. DOMAIN i = RefFields /\ i.session_id = i.session_id
  BY <1>1
<1> QED BY <1>2, <1>3, <1>4 DEF InspectChecks

LEMMA TemplateInspectContract ==
  ASSUME NEW s, NEW i, TemplateInspectValid(i)
  PROVE  TemplateInspectChecks(s, TemplateInspectPayload(i))
BY DEF TemplateInspectValid, TemplateInspectPayload, TemplateInspectChecks, ValidLayoutPath

LEMMA PanelValidateContract ==
  ASSUME NEW s, NEW i, Typed("layout.panel.validate", i), PanelValidateValid(i),
         ~Gap("layout.panel.validate", i)
  PROVE  PanelValidateChecks(s, PanelValidatePayload(i))
BY TextAssumption DEF PanelValidateValid, PanelValidatePayload, PanelValidateChecks,
  PanelValidateFields, TrimmedEmpty, StrippedEmpty, Gap

\* The extension rejects nothing a handler sends to the session it names, but
\* for the gaps: one case for each tool.
LEMMA HandledIsWellFormed ==
  ASSUME NEW t \in Tools, NEW i, NEW p, Typed(t, i), ~Gap(t, i), i.session_id = Session,
         \/ t = "entity.translate" /\ TranslateValid(i) /\ p = TranslatePayload(i)
         \/ t = "entity.delete" /\ DeleteValid(i) /\ p = DeletePayload(i)
         \/ t = "entity.material.set" /\ MaterialSetValid(i) /\ p = MaterialSetPayload(i)
         \/ t = "entity.name.set" /\ NameSetValid(i) /\ p = NameSetPayload(i)
         \/ t = "assembly.create" /\ AssemblyCreateValid(i) /\ p = AssemblyCreatePayload(i)
         \/ t = "geometry.create_box" /\ CreateBoxValid(i) /\ p = CreateBoxPayload(i)
         \/ t = "changes.undo" /\ UndoValid(i) /\ p = UndoPayload(i)
         \/ t = "section_plane.create" /\ SectionPlaneCreateValid(i) /\ p = SectionPlaneCreatePayload(i)
         \/ t = "scene.create" /\ SceneCreateValid(i) /\ p = SceneCreatePayload(i)
         \/ t = "model.file.save_copy" /\ SaveCopyValid(i) /\ p = SaveCopyPayload(i)
         \/ t = "layout.document.create" /\ DocumentCreateValid(i) /\ p = DocumentCreatePayload(i)
         \/ t = "layout.viewport.add" /\ ViewportAddValid(i) /\ p = ViewportAddPayload(i)
         \/ t = "layout.dimension.add" /\ DimensionAddValid(i) /\ p = DimensionAddPayload(i)
         \/ t = "layout.text.add" /\ TextAddValid(i) /\ p = TextAddPayload(i)
         \/ t = "layout.line.add" /\ LineAddValid(i) /\ p = LineAddPayload(i)
         \/ t = "layout.rectangle.add" /\ RectangleAddValid(i) /\ p = RectangleAddPayload(i)
         \/ t = "layout.export" /\ ExportValid(i) /\ p = ExportPayload(i)
         \/ t \in Inspections /\ ValidRef(i) /\ p = i
         \/ t \in Lists \cup Summaries /\ p = EmptyPayload
         \/ t = "layout.template.inspect" /\ TemplateInspectValid(i) /\ p = TemplateInspectPayload(i)
         \/ t = "layout.panel.validate" /\ PanelValidateValid(i) /\ p = PanelValidatePayload(i)
  PROVE  WellFormed(t, p)
<1>1. CASE t = "entity.translate" /\ TranslateValid(i) /\ p = TranslatePayload(i)
  BY <1>1, TranslateContract
  DEF WellFormed, Prepared, Checks, Body, Inspections, Lists, Summaries, Mutations
<1>2. CASE t = "entity.delete" /\ DeleteValid(i) /\ p = DeletePayload(i)
  BY <1>2, DeleteContract
  DEF WellFormed, Prepared, Checks, Body, Inspections, Lists, Summaries, Mutations
<1>3. CASE t = "entity.material.set" /\ MaterialSetValid(i) /\ p = MaterialSetPayload(i)
  BY <1>3, MaterialSetContract
  DEF WellFormed, Prepared, Checks, Body, Inspections, Lists, Summaries, Mutations
<1>4. CASE t = "entity.name.set" /\ NameSetValid(i) /\ p = NameSetPayload(i)
  BY <1>4, NameSetContract
  DEF WellFormed, Prepared, Checks, Body, Inspections, Lists, Summaries, Mutations
<1>5. CASE t = "assembly.create" /\ AssemblyCreateValid(i) /\ p = AssemblyCreatePayload(i)
  BY <1>5, AssemblyCreateContract
  DEF WellFormed, Prepared, Checks, Body, Inspections, Lists, Summaries, Mutations
<1>6. CASE t = "geometry.create_box" /\ CreateBoxValid(i) /\ p = CreateBoxPayload(i)
  BY <1>6, CreateBoxContract
  DEF WellFormed, Prepared, Checks, Body, Inspections, Lists, Summaries, Mutations
<1>7. CASE t = "changes.undo" /\ UndoValid(i) /\ p = UndoPayload(i)
  BY <1>7, UndoContract
  DEF WellFormed, Prepared, Checks, Body, Inspections, Lists, Summaries, Mutations
<1>8. CASE t = "section_plane.create" /\ SectionPlaneCreateValid(i) /\ p = SectionPlaneCreatePayload(i)
  BY <1>8, SectionPlaneCreateContract
  DEF WellFormed, Prepared, Checks, Body, Inspections, Lists, Summaries, Mutations
<1>9. CASE t = "scene.create" /\ SceneCreateValid(i) /\ p = SceneCreatePayload(i)
  BY <1>9, SceneCreateContract
  DEF WellFormed, Prepared, Checks, Body, Inspections, Lists, Summaries, Mutations
<1>10. CASE t = "model.file.save_copy" /\ SaveCopyValid(i) /\ p = SaveCopyPayload(i)
  BY <1>10, SaveCopyContract
  DEF WellFormed, Prepared, Checks, Body, Inspections, Lists, Summaries, Mutations
<1>11. CASE t = "layout.document.create" /\ DocumentCreateValid(i) /\ p = DocumentCreatePayload(i)
  BY <1>11, DocumentCreateContract
  DEF WellFormed, Prepared, Checks, Body, Inspections, Lists, Summaries, Mutations
<1>12. CASE t = "layout.viewport.add" /\ ViewportAddValid(i) /\ p = ViewportAddPayload(i)
  BY <1>12, ViewportAddContract
  DEF WellFormed, Prepared, Checks, Body, Inspections, Lists, Summaries, Mutations
<1>13. CASE t = "layout.dimension.add" /\ DimensionAddValid(i) /\ p = DimensionAddPayload(i)
  BY <1>13, DimensionAddContract
  DEF WellFormed, Prepared, Checks, Body, Inspections, Lists, Summaries, Mutations
<1>14. CASE t = "layout.text.add" /\ TextAddValid(i) /\ p = TextAddPayload(i)
  BY <1>14, TextAddContract
  DEF WellFormed, Prepared, Checks, Body, Inspections, Lists, Summaries, Mutations
<1>15. CASE t = "layout.line.add" /\ LineAddValid(i) /\ p = LineAddPayload(i)
  BY <1>15, LineAddContract
  DEF WellFormed, Prepared, Checks, Body, Inspections, Lists, Summaries, Mutations
<1>16. CASE t = "layout.rectangle.add" /\ RectangleAddValid(i) /\ p = RectangleAddPayload(i)
  BY <1>16, RectangleAddContract
  DEF WellFormed, Prepared, Checks, Body, Inspections, Lists, Summaries, Mutations
<1>17. CASE t = "layout.export" /\ ExportValid(i) /\ p = ExportPayload(i)
  BY <1>17, ExportContract
  DEF WellFormed, Prepared, Checks, Body, Inspections, Lists, Summaries, Mutations
<1>18. CASE t \in Inspections /\ ValidRef(i) /\ p = i
  BY <1>18, InspectContract DEF WellFormed, Checks, Body, Inspections, Lists, Summaries, Mutations
<1>19. CASE t \in Lists \cup Summaries /\ p = EmptyPayload
  BY <1>19 DEF EmptyPayload, WellFormed, Checks, Body, Inspections, Lists, Summaries, Mutations
<1>20. CASE t = "layout.template.inspect" /\ TemplateInspectValid(i) /\ p = TemplateInspectPayload(i)
  BY <1>20, TemplateInspectContract DEF WellFormed, Checks, Body, Inspections, Lists, Summaries, Mutations
<1>21. CASE t = "layout.panel.validate" /\ PanelValidateValid(i) /\ p = PanelValidatePayload(i)
  BY <1>21, PanelValidateContract DEF WellFormed, Checks, Body, Inspections, Lists, Summaries, Mutations
<1> QED
  BY <1>1, <1>2, <1>3, <1>4, <1>5, <1>6, <1>7, <1>8, <1>9, <1>10, <1>11, <1>12, <1>13,
  <1>14, <1>15, <1>16, <1>17, <1>18, <1>19, <1>20, <1>21

LEMMA HandledIsSound ==
  ASSUME NEW t \in Tools, NEW i, NEW p, Typed(t, i), i.session_id = Session,
         \/ t = "entity.translate" /\ TranslateValid(i) /\ p = TranslatePayload(i)
         \/ t = "entity.delete" /\ DeleteValid(i) /\ p = DeletePayload(i)
         \/ t = "entity.material.set" /\ MaterialSetValid(i) /\ p = MaterialSetPayload(i)
         \/ t = "entity.name.set" /\ NameSetValid(i) /\ p = NameSetPayload(i)
         \/ t = "assembly.create" /\ AssemblyCreateValid(i) /\ p = AssemblyCreatePayload(i)
         \/ t = "geometry.create_box" /\ CreateBoxValid(i) /\ p = CreateBoxPayload(i)
         \/ t = "changes.undo" /\ UndoValid(i) /\ p = UndoPayload(i)
         \/ t = "section_plane.create" /\ SectionPlaneCreateValid(i) /\ p = SectionPlaneCreatePayload(i)
         \/ t = "scene.create" /\ SceneCreateValid(i) /\ p = SceneCreatePayload(i)
         \/ t = "model.file.save_copy" /\ SaveCopyValid(i) /\ p = SaveCopyPayload(i)
         \/ t = "layout.document.create" /\ DocumentCreateValid(i) /\ p = DocumentCreatePayload(i)
         \/ t = "layout.viewport.add" /\ ViewportAddValid(i) /\ p = ViewportAddPayload(i)
         \/ t = "layout.dimension.add" /\ DimensionAddValid(i) /\ p = DimensionAddPayload(i)
         \/ t = "layout.text.add" /\ TextAddValid(i) /\ p = TextAddPayload(i)
         \/ t = "layout.line.add" /\ LineAddValid(i) /\ p = LineAddPayload(i)
         \/ t = "layout.rectangle.add" /\ RectangleAddValid(i) /\ p = RectangleAddPayload(i)
         \/ t = "layout.export" /\ ExportValid(i) /\ p = ExportPayload(i)
         \/ t \in Inspections /\ ValidRef(i) /\ p = i
         \/ t \in Lists \cup Summaries /\ p = EmptyPayload
         \/ t = "layout.template.inspect" /\ TemplateInspectValid(i) /\ p = TemplateInspectPayload(i)
         \/ t = "layout.panel.validate" /\ PanelValidateValid(i) /\ p = PanelValidatePayload(i)
  PROVE  Sound(t, i, p)
<1>1. ~Gap(t, i) => WellFormed(t, p)
  BY HandledIsWellFormed
<1>2. ASSUME t \in Mutations PROVE p.mutation = BridgeMutation(i, p.mutation.undo_label)
  <2>1. CASE t = "entity.translate" /\ p = TranslatePayload(i)
    BY <2>1 DEF TranslatePayload, BridgeMutation
  <2>2. CASE t = "entity.delete" /\ p = DeletePayload(i)
    BY <2>2 DEF DeletePayload, BridgeMutation
  <2>3. CASE t = "entity.material.set" /\ p = MaterialSetPayload(i)
    BY <2>3 DEF MaterialSetPayload, BridgeMutation
  <2>4. CASE t = "entity.name.set" /\ p = NameSetPayload(i)
    BY <2>4 DEF NameSetPayload, BridgeMutation
  <2>5. CASE t = "assembly.create" /\ p = AssemblyCreatePayload(i)
    BY <2>5 DEF AssemblyCreatePayload, BridgeMutation
  <2>6. CASE t = "geometry.create_box" /\ p = CreateBoxPayload(i)
    BY <2>6 DEF CreateBoxPayload, BridgeMutation
  <2>7. CASE t = "changes.undo" /\ p = UndoPayload(i)
    BY <2>7 DEF UndoPayload, BridgeMutation
  <2>8. CASE t = "section_plane.create" /\ p = SectionPlaneCreatePayload(i)
    BY <2>8 DEF SectionPlaneCreatePayload, BridgeMutation
  <2>9. CASE t = "scene.create" /\ p = SceneCreatePayload(i)
    BY <2>9 DEF SceneCreatePayload, BridgeMutation
  <2>10. CASE t = "model.file.save_copy" /\ p = SaveCopyPayload(i)
    BY <2>10 DEF SaveCopyPayload, BridgeMutation
  <2>11. CASE t = "layout.document.create" /\ p = DocumentCreatePayload(i)
    BY <2>11 DEF DocumentCreatePayload, BridgeMutation
  <2>12. CASE t = "layout.viewport.add" /\ p = ViewportAddPayload(i)
    BY <2>12 DEF ViewportAddPayload, BridgeMutation
  <2>13. CASE t = "layout.dimension.add" /\ p = DimensionAddPayload(i)
    BY <2>13 DEF DimensionAddPayload, BridgeMutation
  <2>14. CASE t = "layout.text.add" /\ p = TextAddPayload(i)
    BY <2>14 DEF TextAddPayload, BridgeMutation
  <2>15. CASE t = "layout.line.add" /\ p = LineAddPayload(i)
    BY <2>15 DEF LineAddPayload, BridgeMutation
  <2>16. CASE t = "layout.rectangle.add" /\ p = RectangleAddPayload(i)
    BY <2>16 DEF RectangleAddPayload, BridgeMutation
  <2>17. CASE t = "layout.export" /\ p = ExportPayload(i)
    BY <2>17 DEF ExportPayload, BridgeMutation
  <2> QED
    BY <1>2, <2>1, <2>2, <2>3, <2>4, <2>5, <2>6, <2>7, <2>8, <2>9, <2>10, <2>11,
    <2>12, <2>13, <2>14, <2>15, <2>16, <2>17 DEF Mutations, Inspections, Lists,
    Summaries
<1>3. ASSUME t \in Mutations PROVE i.operation_id \in Texts
  <2>1. CASE t = "entity.translate"
    BY <2>1 DEF Typed, Envelope, TranslateFields, FieldType
  <2>2. CASE t = "entity.delete"
    BY <2>2 DEF Typed, Envelope, DeleteFields, FieldType
  <2>3. CASE t = "entity.material.set"
    BY <2>3 DEF Typed, Envelope, MaterialSetFields, FieldType
  <2>4. CASE t = "entity.name.set"
    BY <2>4 DEF Typed, Envelope, NameSetFields, FieldType
  <2>5. CASE t = "assembly.create"
    BY <2>5 DEF Typed, Envelope, AssemblyCreateFields, FieldType
  <2>6. CASE t = "geometry.create_box"
    BY <2>6 DEF Typed, Envelope, CreateBoxFields, FieldType
  <2>7. CASE t = "changes.undo"
    BY <2>7 DEF Typed, Envelope, UndoFields, FieldType
  <2>8. CASE t = "section_plane.create"
    BY <2>8 DEF Typed, Envelope, SectionPlaneCreateFields, FieldType
  <2>9. CASE t = "scene.create"
    BY <2>9 DEF Typed, Envelope, SceneCreateFields, FieldType
  <2>10. CASE t = "model.file.save_copy"
    BY <2>10 DEF Typed, Envelope, SaveCopyFields, FieldType
  <2>11. CASE t = "layout.document.create"
    BY <2>11 DEF Typed, Envelope, DocumentCreateFields, FieldType
  <2>12. CASE t = "layout.viewport.add"
    BY <2>12 DEF Typed, Envelope, ViewportAddFields, FieldType
  <2>13. CASE t = "layout.dimension.add"
    BY <2>13 DEF Typed, Envelope, DimensionAddFields, FieldType
  <2>14. CASE t = "layout.text.add"
    BY <2>14 DEF Typed, Envelope, TextAddFields, FieldType
  <2>15. CASE t = "layout.line.add"
    BY <2>15 DEF Typed, Envelope, LineAddFields, FieldType
  <2>16. CASE t = "layout.rectangle.add"
    BY <2>16 DEF Typed, Envelope, RectangleAddFields, FieldType
  <2>17. CASE t = "layout.export"
    BY <2>17 DEF Typed, Envelope, ExportFields, FieldType
  <2> QED
    BY <1>3, <2>1, <2>2, <2>3, <2>4, <2>5, <2>6, <2>7, <2>8, <2>9, <2>10, <2>11,
    <2>12, <2>13, <2>14, <2>15, <2>16, <2>17 DEF Mutations
<1>4. ASSUME t \in Mutations PROVE p.mutation.operation_id \in Texts
  <2> DEFINE label == p.mutation.undo_label
  <2>1. p.mutation = BridgeMutation(i, label)
    BY <1>2, <1>4
  <2> HIDE DEF label
  <2>2. p.mutation.operation_id = i.operation_id
    BY <2>1 DEF BridgeMutation
  <2> QED BY <1>3, <1>4, <2>2
<1>5. ASSUME t = "layout.export" PROVE p.output_path \in Texts
  <2>1. p = ExportPayload(i)
    BY <1>5 DEF Inspections, Lists, Summaries
  <2>2. i.output_path \in Texts
    BY <1>5 DEF Typed, Envelope, ExportFields, FieldType
  <2> QED BY <2>1, <2>2 DEF ExportPayload
<1> QED BY <1>1, <1>4, <1>5 DEF Sound

-----------------------------------------------------------------------------
(* Every handler either answers at once, or sends a sound payload.         *)
Asked(c, r) ==
  /\ asked' = [asked EXCEPT ![c] = r]
  /\ UNCHANGED <<reply, records, files, clock>>
  /\ \/ /\ UNCHANGED <<bridge, sent>>
        /\ \E code \in {"INVALID_REQUEST", "SESSION_NOT_FOUND"} :
             answer' = [answer EXCEPT ![c] = [code |-> code, image |-> 0]]
     \/ /\ UNCHANGED answer
        /\ bridge' = [bridge EXCEPT ![c] = "queued"]
        /\ \E p : Sound(r.tool, r.input, p) /\ sent' = [sent EXCEPT ![c] = p]

LEMMA HandlersAsk ==
  ASSUME DOMAIN asked = Callers, NEW c \in Callers, Ask(c)
  PROVE  asked[c] = None /\ \E r \in Requests[c] : Asked(c, r)
<1>1. PICK r \in Requests[c] :
        /\ asked' = [asked EXCEPT ![c] = r]
        /\ \/ EntityTool(c, r.tool, r.input)
           \/ PresentationTool(c, r.tool, r.input)
           \/ LayoutTool(c, r.tool, r.input)
           \/ TemplateTool(c, r.tool, r.input)
           \/ ValidationTool(c, r.tool, r.input)
           \/ ServerTool(c, r.tool, r.input)
  BY DEF Ask
<1> DEFINE t == r.tool
           i == r.input
<1>2. t \in Tools /\ Typed(t, i)
  BY RequestsAssumption
<1>3. asked'[c] = r
  BY <1>1
<1>4. UNCHANGED <<reply, records, files, clock>> /\ asked[c] = None
  BY DEF Ask
<1>5. \/ /\ UNCHANGED <<bridge, sent>>
         /\ \E code \in {"INVALID_REQUEST", "SESSION_NOT_FOUND"} :
              answer' = [answer EXCEPT ![c] = [code |-> code, image |-> 0]]
      \/ /\ UNCHANGED answer
         /\ bridge' = [bridge EXCEPT ![c] = "queued"]
         /\ \E p : Sound(t, i, p) /\ sent' = [sent EXCEPT ![c] = p]
  <2>1. CASE t = "entity.translate" /\ Handle(c, TranslateValid(i), TranslatePayload(i))
    BY <1>2, <1>3, <2>1, HandledIsSound DEF Handle
  <2>2. CASE t = "entity.delete" /\ Handle(c, DeleteValid(i), DeletePayload(i))
    BY <1>2, <1>3, <2>2, HandledIsSound DEF Handle
  <2>3. CASE t = "entity.material.set" /\ Handle(c, MaterialSetValid(i), MaterialSetPayload(i))
    BY <1>2, <1>3, <2>3, HandledIsSound DEF Handle
  <2>4. CASE t = "entity.name.set" /\ Handle(c, NameSetValid(i), NameSetPayload(i))
    BY <1>2, <1>3, <2>4, HandledIsSound DEF Handle
  <2>5. CASE t = "assembly.create" /\ Handle(c, AssemblyCreateValid(i), AssemblyCreatePayload(i))
    BY <1>2, <1>3, <2>5, HandledIsSound DEF Handle
  <2>6. CASE t = "geometry.create_box" /\ Handle(c, CreateBoxValid(i), CreateBoxPayload(i))
    BY <1>2, <1>3, <2>6, HandledIsSound DEF Handle
  <2>7. CASE t = "changes.undo" /\ Handle(c, UndoValid(i), UndoPayload(i))
    BY <1>2, <1>3, <2>7, HandledIsSound DEF Handle
  <2>8. CASE t = "section_plane.create" /\ Handle(c, SectionPlaneCreateValid(i), SectionPlaneCreatePayload(i))
    BY <1>2, <1>3, <2>8, HandledIsSound DEF Handle
  <2>9. CASE t = "scene.create" /\ Handle(c, SceneCreateValid(i), SceneCreatePayload(i))
    BY <1>2, <1>3, <2>9, HandledIsSound DEF Handle
  <2>10. CASE t = "model.file.save_copy" /\ Handle(c, SaveCopyValid(i), SaveCopyPayload(i))
    BY <1>2, <1>3, <2>10, HandledIsSound DEF Handle
  <2>11. CASE t = "layout.document.create" /\ Handle(c, DocumentCreateValid(i), DocumentCreatePayload(i))
    BY <1>2, <1>3, <2>11, HandledIsSound DEF Handle
  <2>12. CASE t = "layout.viewport.add" /\ Handle(c, ViewportAddValid(i), ViewportAddPayload(i))
    BY <1>2, <1>3, <2>12, HandledIsSound DEF Handle
  <2>13. CASE t = "layout.dimension.add" /\ Handle(c, DimensionAddValid(i), DimensionAddPayload(i))
    BY <1>2, <1>3, <2>13, HandledIsSound DEF Handle
  <2>14. CASE t = "layout.text.add" /\ Handle(c, TextAddValid(i), TextAddPayload(i))
    BY <1>2, <1>3, <2>14, HandledIsSound DEF Handle
  <2>15. CASE t = "layout.line.add" /\ Handle(c, LineAddValid(i), LineAddPayload(i))
    BY <1>2, <1>3, <2>15, HandledIsSound DEF Handle
  <2>16. CASE t = "layout.rectangle.add" /\ Handle(c, RectangleAddValid(i), RectangleAddPayload(i))
    BY <1>2, <1>3, <2>16, HandledIsSound DEF Handle
  <2>17. CASE t = "layout.export" /\ Handle(c, ExportValid(i), ExportPayload(i))
    BY <1>2, <1>3, <2>17, HandledIsSound DEF Handle
  <2>18. CASE t \in Inspections /\ Handle(c, ValidRef(i), i)
    BY <1>2, <1>3, <2>18, HandledIsSound DEF Handle
  <2>19. CASE t \in Lists /\ Handle(c, ListValid(i), EmptyPayload)
    BY <1>2, <1>3, <2>19, HandledIsSound DEF Handle
  <2>20. CASE t \in Summaries /\ Handle(c, SessionValid(i), EmptyPayload)
    BY <1>2, <1>3, <2>20, HandledIsSound DEF Handle
  <2>21. CASE t = "layout.template.inspect" /\ Handle(c, TemplateInspectValid(i), TemplateInspectPayload(i))
    BY <1>2, <1>3, <2>21, HandledIsSound DEF Handle
  <2>22. CASE t = "layout.panel.validate" /\ Handle(c, PanelValidateValid(i), PanelValidatePayload(i))
    BY <1>2, <1>3, <2>22, HandledIsSound DEF Handle
  <2> QED
    BY <1>1, <2>1, <2>2, <2>3, <2>4, <2>5, <2>6, <2>7, <2>8, <2>9, <2>10, <2>11,
    <2>12, <2>13, <2>14, <2>15, <2>16, <2>17, <2>18, <2>19, <2>20, <2>21, <2>22 DEF
    EntityTool, PresentationTool, LayoutTool, TemplateTool, ValidationTool, ServerTool
<1> QED BY <1>1, <1>4, <1>5 DEF Asked

-----------------------------------------------------------------------------
(* The steps preserve the invariant.                                       *)
Inv == CallsInv /\ RecordsInv /\ FilesInv

LEMMA InvInit == Init => Inv
<1> SUFFICES ASSUME Init PROVE Inv
  OBVIOUS
<1>1. CallsInv
  BY DEF Init, CallsInv
<1>2. RecordsInv
  BY DEF Init, RecordsInv
<1>3. FilesInv
  BY DEF Init, FilesInv, ImageIsNoOlder
<1> QED BY <1>1, <1>2, <1>3 DEF Inv

LEMMA InvAsk ==
  ASSUME Inv, NEW c \in Callers, Ask(c)
  PROVE  Inv'
<1>1. PICK r \in Requests[c] : asked[c] = None /\ Asked(c, r)
  BY HandlersAsk DEF Inv, CallsInv
<1>2. r # None
  BY CallsAssumption
<1>3. bridge[c] = "none" /\ answer[c] = None
  BY <1>1 DEF Inv, CallsInv
<1>4. CallsInv'
  BY <1>1, <1>2, <1>3 DEF Inv, CallsInv, Asked, Refusals
<1>5. RecordsInv'
  BY <1>1, <1>3 DEF Inv, CallsInv, RecordsInv, Asked
<1>6. FilesInv'
  BY <1>1, <1>3 DEF Inv, CallsInv, RecordsInv, FilesInv, ImageIsNoOlder, Asked, OpId
<1> QED BY <1>4, <1>5, <1>6 DEF Inv

LEMMA InvGiveUp ==
  ASSUME Inv, NEW c \in Callers, GiveUp(c)
  PROVE  Inv'
<1>1. CallsInv'
  BY DEF Inv, CallsInv, GiveUp, Refusals
<1>2. RecordsInv'
  BY DEF Inv, RecordsInv, GiveUp
<1>3. FilesInv'
  BY DEF Inv, CallsInv, FilesInv, ImageIsNoOlder, GiveUp, OpId
<1> QED BY <1>1, <1>2, <1>3 DEF Inv

LEMMA CallsInvServe ==
  ASSUME Inv, NEW c \in Callers, NEW code \in Refusals \cup Recorded, NEW result,
         Serve(c, code, result),
         code = "INVALID_REQUEST" => Gap(asked[c].tool, asked[c].input)
  PROVE  CallsInv'
BY DEF Inv, CallsInv, Serve

\* A reply that leaves no record, and is no image.
LEMMA InvServe ==
  ASSUME Inv, NEW c \in Callers, NEW code \in Refusals \cup Recorded,
         Serve(c, code, NotExport), Unrecorded,
         code = "INVALID_REQUEST" => Gap(asked[c].tool, asked[c].input)
  PROVE  Inv'
<1>1. CallsInv'
  BY CallsInvServe
<1>2. RecordsInv'
  BY DEF Inv, CallsInv, RecordsInv, Serve, Unrecorded
<1>3. FilesInv'
  BY DEF Inv, CallsInv, FilesInv, ImageIsNoOlder, Serve, Unrecorded, OpId, NotExport
<1> QED BY <1>1, <1>2, <1>3 DEF Inv

LEMMA InvMalformed ==
  ASSUME Inv, NEW c \in Callers, Malformed(c)
  PROVE  Inv'
<1>1. ~WellFormed(asked[c].tool, sent[c])
  BY DEF Malformed, WellFormed
<1>2. Gap(asked[c].tool, asked[c].input)
  BY <1>1 DEF Inv, CallsInv, Malformed, Sound
<1> QED BY <1>2, InvServe DEF Malformed, Refusals

LEMMA InvReplay ==
  ASSUME Inv, NEW c \in Callers, Replay(c)
  PROVE  Inv'
<1> DEFINE known == records[OpId(c)]
<1>1. /\ known.code # "none" /\ OpId(c) \in Texts
      /\ known.code \in Recorded /\ bridge[c] = "queued" /\ Unrecorded
  BY DEF Replay, Mutating, Inv, CallsInv, RecordsInv, Sound, OpId
<1>2. CASE Serve(c, "OPERATION_ID_REUSE", NotExport)
  BY <1>1, <1>2, InvServe DEF Refusals
<1>3. CASE known.payload = sent[c] /\ Serve(c, known.code, known.result)
  <2>1. CallsInv'
    BY <1>1, <1>3, CallsInvServe DEF Recorded
  <2>2. RecordsInv'
    BY <1>1, <1>3 DEF Inv, CallsInv, RecordsInv, Serve, Unrecorded
  <2>3. FilesInv'
    BY <1>1, <1>3 DEF Inv, CallsInv, FilesInv, ImageIsNoOlder, Serve, Unrecorded, OpId
  <2> QED BY <2>1, <2>2, <2>3 DEF Inv
<1> QED BY <1>2, <1>3 DEF Replay

\* A terminal record for a new operation id; the files as they were.
LEMMA InvRecord ==
  ASSUME Inv, NEW c \in Callers, Entering(c), NEW code \in Recorded, NEW form,
         Serve(c, code, NotExport), UNCHANGED <<files, clock>>,
         Record(c, code, NotExport, form),
         form => Gap(asked[c].tool, asked[c].input)
  PROVE  Inv'
<1>1. OpId(c) \in Texts /\ records[OpId(c)].code = "none" /\ bridge[c] = "queued"
  BY DEF Entering, Mutating, Inv, CallsInv, Sound, OpId
<1>2. CallsInv'
  BY CallsInvServe DEF Recorded
<1>3. RecordsInv'
  BY <1>1 DEF Inv, CallsInv, RecordsInv, Serve, Record
<1>4. FilesInv'
  <2>1. /\ DOMAIN records = Texts /\ DOMAIN records' = Texts
        /\ records'[OpId(c)].result = NotExport
        /\ \A t \in Texts : t # OpId(c) => records'[t] = records[t]
    BY <1>1 DEF Inv, RecordsInv, Record
  <2>2. /\ UNCHANGED <<asked, sent, answer, files, clock>>
        /\ reply'[c].result = NotExport
        /\ \A d \in Callers : d # c => bridge'[d] = bridge[d] /\ reply'[d] = reply[d]
    BY DEF Inv, CallsInv, Serve
  <2>3. \A t \in Texts : records[t].code # "none" => records'[t] = records[t]
    BY <1>1, <2>1
  <2>4. \A d \in Callers : OpId(d)' = OpId(d)
    BY <2>2 DEF OpId
  <2>5. ~NotExport.image
    BY DEF NotExport
  <2>6. \A t \in Texts : records'[t].code # "none" /\ records'[t].result.image =>
          records'[t] = records[t]
    BY <2>1, <2>5
  <2>7. ImageIsNoOlder'
    <3> SUFFICES ASSUME NEW d \in Callers, answer[d] # None, answer[d].image # 0
                 PROVE  /\ records'[OpId(d)].code # "none"
                        /\ records'[OpId(d)].payload = sent[d]
                        /\ answer[d].image >= records'[OpId(d)].at
      BY <2>2, <2>4 DEF ImageIsNoOlder
    <3>1. records[OpId(d)].code # "none" /\ records[OpId(d)].payload = sent[d]
          /\ answer[d].image >= records[OpId(d)].at
      BY DEF Inv, FilesInv, ImageIsNoOlder
    <3>2. OpId(d) # OpId(c)
      BY <1>1, <3>1
    <3>3. records'[OpId(d)] = records[OpId(d)]
      BY <3>2 DEF Record
    <3> QED BY <3>1, <3>3
  <2>8. \A d \in Callers :
          bridge'[d] = "served" /\ reply'[d].code = "OK" /\ reply'[d].result.image =>
            /\ OpId(d) \in Texts /\ records'[OpId(d)].code # "none"
            /\ records'[OpId(d)].payload = sent[d]
            /\ records'[OpId(d)].result = reply'[d].result
    BY <2>2, <2>3, <2>5 DEF Inv, FilesInv
  <2> QED BY <2>1, <2>2, <2>4, <2>6, <2>7, <2>8 DEF Inv, FilesInv
<1> QED BY <1>2, <1>3, <1>4 DEF Inv

LEMMA InvFail ==
  ASSUME Inv, NEW c \in Callers, Fail(c)
  PROVE  Inv'
<1>1. ~Body(asked[c].tool, sent[c]) => Gap(asked[c].tool, asked[c].input)
  BY DEF Fail, Entering, Mutating, Inv, CallsInv, Sound, WellFormed
<1> QED BY <1>1, InvRecord DEF Fail, Recorded

LEMMA InvComplete ==
  ASSUME Inv, NEW c \in Callers, Complete(c)
  PROVE  Inv'
BY InvRecord DEF Complete, Recorded

LEMMA InvRemove ==
  ASSUME Inv, NEW t \in Texts, Remove(t)
  PROVE  Inv'
<1>1. CallsInv' /\ RecordsInv'
  BY DEF Inv, CallsInv, RecordsInv, Remove
<1>2. FilesInv'
  BY DEF Inv, FilesInv, ImageIsNoOlder, Remove, OpId
<1> QED BY <1>1, <1>2 DEF Inv

LEMMA InvReturn ==
  ASSUME Inv, NEW c \in Callers, Return(c)
  PROVE  Inv'
<1> DEFINE result == reply[c].result
           image == IF reply[c].code = "OK" /\ result.image THEN files[result.path] ELSE 0
<1>1. /\ bridge[c] = "served" /\ answer[c] = None
      /\ answer' = [answer EXCEPT ![c] =
                      IF reply[c].code = "OK" /\ result.image /\ image = 0
                      THEN [code |-> "unreadable", image |-> 0]
                      ELSE [code |-> reply[c].code, image |-> image]]
      /\ UNCHANGED <<asked, sent, bridge, reply, records, files, clock>>
  BY DEF Return
<1>2. /\ DOMAIN answer' = Callers
      /\ \A d \in Callers : d # c => answer'[d] = answer[d]
      /\ answer'[c].image = image
      /\ answer'[c].code \in Refusals => answer'[c].code = reply[c].code
  BY <1>1 DEF Inv, CallsInv, Refusals
<1>3. CallsInv'
  BY <1>1, <1>2 DEF Inv, CallsInv
<1>4. RecordsInv'
  BY <1>1 DEF Inv, RecordsInv
<1>5. image # 0 =>
        /\ records[OpId(c)].code # "none" /\ records[OpId(c)].payload = sent[c]
        /\ image >= records[OpId(c)].at
  BY <1>1 DEF Inv, FilesInv
<1>6. ImageIsNoOlder'
  <2> SUFFICES ASSUME NEW d \in Callers, answer'[d] # None, answer'[d].image # 0
               PROVE  /\ records[OpId(d)].code # "none"
                      /\ records[OpId(d)].payload = sent[d]
                      /\ answer'[d].image >= records[OpId(d)].at
    BY <1>1 DEF ImageIsNoOlder, OpId
  <2>1. CASE d = c
    BY <1>2, <1>5, <2>1
  <2>2. CASE d # c
    BY <1>2, <2>2 DEF Inv, FilesInv, ImageIsNoOlder
  <2> QED BY <2>1, <2>2
<1>7. FilesInv'
  BY <1>1, <1>6 DEF Inv, FilesInv, OpId
<1> QED BY <1>3, <1>4, <1>7 DEF Inv

\* Of the files that match, the one an export has just written is the newest.
LEMMA ResolvesOwnFile ==
  ASSUME Inv, NEW p, p.output_path \in Texts, files[p.output_path] = 0,
         NEW written \in {p.output_path, PageFile[p.output_path]},
         NEW now, now = [files EXCEPT ![written] = clock + 1], now[Resolved(p, now)] # 0
  PROVE  Resolved(p, now) = written
<1> DEFINE found == {t \in Globbed[p.output_path] : now[t] # 0}
<1>1. /\ written \in Texts /\ Globbed[p.output_path] \in SUBSET Texts
      /\ PageFile[p.output_path] \in Globbed[p.output_path]
  BY CallsAssumption
<1>2. /\ now[written] = clock + 1 /\ clock \in Nat
      /\ \A t \in Texts : t # written => now[t] = files[t] /\ now[t] \in 0..clock
  BY <1>1 DEF Inv, FilesInv
<1>3. CASE now[p.output_path] # 0
  BY <1>2, <1>3 DEF Resolved
<1>4. CASE now[p.output_path] = 0 /\ (ExtName(p.output_path) \notin Images \/ found = {})
  BY <1>4 DEF Resolved
<1>5. CASE now[p.output_path] = 0 /\ ExtName(p.output_path) \in Images /\ found # {}
  <2>1. written = PageFile[p.output_path] /\ written \in found
    BY <1>1, <1>2, <1>5
  <2>2. \A u \in found : now[u] <= now[written]
    BY <1>1, <1>2
  <2>3. \A t \in found : (\A u \in found : now[u] <= now[t]) => t = written
    BY <1>1, <1>2, <2>1
  <2>4. Resolved(p, now) = CHOOSE t \in found : \A u \in found : now[u] <= now[t]
    BY <1>5 DEF Resolved
  <2> HIDE DEF found
  <2> QED BY <2>1, <2>2, <2>3, <2>4
<1> QED BY <1>3, <1>4, <1>5

LEMMA InvExport ==
  ASSUME Inv, NEW c \in Callers, Export(c)
  PROVE  Inv'
<1> DEFINE p == sent[c]
<1>1. OpId(c) \in Texts /\ records[OpId(c)].code = "none" /\ bridge[c] = "queued" /\ p.output_path \in Texts
  BY DEF Export, Entering, Mutating, Inv, CallsInv, Sound, OpId
<1> DEFINE written == IF p.layout_path \in Paged /\ Ext[p.output_path] \in Images
                      THEN PageFile[p.output_path] ELSE p.output_path
            now == [files EXCEPT ![written] = clock + 1]
            result == [image |-> ExtName(p.output_path) \in Images, path |-> Resolved(p, now)]
<1>2a. /\ files[p.output_path] = 0
       /\ now[Resolved(p, now)] # 0
       /\ Serve(c, "OK", result)
       /\ files' = now
       /\ clock' = clock + 1
       /\ Record(c, "OK", result, FALSE)
  BY DEF Export
<1>2b. written \in {p.output_path, PageFile[p.output_path]}
  OBVIOUS
<1> HIDE DEF written
<1>2c. now = [files EXCEPT ![written] = clock + 1]
  OBVIOUS
<1>2d. result = [image |-> ExtName(p.output_path) \in Images, path |-> Resolved(p, now)]
  OBVIOUS
<1> HIDE DEF now, result
<1>2. /\ written \in {p.output_path, PageFile[p.output_path]}
      /\ now = [files EXCEPT ![written] = clock + 1]
      /\ result = [image |-> ExtName(p.output_path) \in Images, path |-> Resolved(p, now)]
      /\ files[p.output_path] = 0
      /\ now[Resolved(p, now)] # 0
      /\ Serve(c, "OK", result)
      /\ files' = now
      /\ clock' = clock + 1
      /\ Record(c, "OK", result, FALSE)
  BY <1>2a, <1>2b, <1>2c, <1>2d
<1>3. result.path = written /\ written \in Texts
  BY <1>1, <1>2, ResolvesOwnFile, CallsAssumption
<1>4. CallsInv'
  BY <1>2, CallsInvServe DEF Recorded
<1>5. RecordsInv'
  BY <1>1, <1>2 DEF Inv, CallsInv, RecordsInv, Serve, Record, Recorded
<1>6. /\ clock \in Nat /\ clock' \in Nat /\ files' \in [Texts -> 0..clock']
      /\ files'[written] = clock'
      /\ \A t \in Texts : t # written => files'[t] = files[t]
  BY <1>2, <1>3 DEF Inv, FilesInv
<1>7. /\ DOMAIN records' = Texts
      /\ records'[OpId(c)].result = result /\ records'[OpId(c)].at = clock'
      /\ records'[OpId(c)].payload = sent[c] /\ records'[OpId(c)].code # "none"
      /\ \A t \in Texts : t # OpId(c) => records'[t] = records[t]
  BY <1>1, <1>2 DEF Inv, RecordsInv, Record
<1>8. /\ UNCHANGED <<asked, sent, answer>>
      /\ reply'[c].result = result /\ \A d \in Callers : OpId(d)' = OpId(d)
      /\ \A d \in Callers : d # c => bridge'[d] = bridge[d] /\ reply'[d] = reply[d]
  BY <1>2 DEF Inv, CallsInv, Serve, OpId
<1>9. \A t \in Texts : records'[t].code # "none" /\ records'[t].result.image =>
        /\ records'[t].result.path \in Texts
        /\ records'[t].at \in 1..clock'
        /\ files'[records'[t].result.path] \in {0} \cup records'[t].at..clock'
  <2> SUFFICES ASSUME NEW t \in Texts, records'[t].code # "none", records'[t].result.image
               PROVE  /\ records'[t].result.path \in Texts
                      /\ records'[t].at \in 1..clock'
                      /\ files'[records'[t].result.path] \in {0} \cup records'[t].at..clock'
    OBVIOUS
  <2>1. CASE t = OpId(c)
    <3>1. records'[t].result.path = written /\ records'[t].at = clock'
      BY <1>3, <1>7, <2>1
    <3>2. clock' \in 1..clock' /\ clock' \in clock'..clock'
      BY <1>2, <1>6
    <3> QED BY <1>3, <1>6, <3>1, <3>2
  <2>2. CASE t # OpId(c)
    <3>1. /\ records[t].result.path \in Texts
          /\ records[t].at \in 1..clock
          /\ files[records[t].result.path] \in {0} \cup records[t].at..clock
      BY <1>7, <2>2 DEF Inv, FilesInv
    <3> QED BY <1>2, <1>6, <1>7, <2>2, <3>1
  <2> QED BY <2>1, <2>2
<1>10. \A d \in Callers :
         bridge'[d] = "served" /\ reply'[d].code = "OK" /\ reply'[d].result.image =>
           /\ OpId(d) \in Texts /\ records'[OpId(d)].code # "none"
           /\ records'[OpId(d)].payload = sent[d]
           /\ records'[OpId(d)].result = reply'[d].result
  BY <1>1, <1>7, <1>8 DEF Inv, FilesInv
<1>11. ImageIsNoOlder'
  <2> SUFFICES ASSUME NEW d \in Callers, answer[d] # None, answer[d].image # 0
               PROVE  /\ records'[OpId(d)].code # "none"
                      /\ records'[OpId(d)].payload = sent[d]
                      /\ answer[d].image >= records'[OpId(d)].at
    BY <1>8 DEF ImageIsNoOlder
  <2>1. records[OpId(d)].code # "none" /\ records[OpId(d)].payload = sent[d]
        /\ answer[d].image >= records[OpId(d)].at
    BY DEF Inv, FilesInv, ImageIsNoOlder
  <2>2. OpId(d) # OpId(c)
    BY <1>1, <2>1
  <2>3. records'[OpId(d)] = records[OpId(d)]
    BY <1>2, <2>2 DEF Record
  <2> QED BY <2>1, <2>3
<1>12. FilesInv'
  BY <1>6, <1>8, <1>9, <1>10, <1>11 DEF FilesInv
<1> QED BY <1>4, <1>5, <1>12 DEF Inv

LEMMA InvNext == Inv /\ [Next]_vars => Inv'
<1> SUFFICES ASSUME Inv, [Next]_vars PROVE Inv'
  OBVIOUS
<1>1. ASSUME NEW c \in Callers, Refuse(c) PROVE Inv'
  BY <1>1, InvServe DEF Refuse, Refusals
<1>2. ASSUME NEW c \in Callers, Read(c) PROVE Inv'
  BY <1>2, InvServe DEF Read, Recorded
<1>3. CASE UNCHANGED vars
  BY <1>3 DEF vars, Inv, CallsInv, RecordsInv, FilesInv, ImageIsNoOlder, OpId
<1> QED BY <1>1, <1>2, <1>3, InvAsk, InvGiveUp, InvMalformed, InvReplay, InvFail, InvComplete,
  InvExport, InvReturn, InvRemove DEF Next, Bridge

-----------------------------------------------------------------------------
\* What is known of every call, record and exported file at every time, between
\* the handlers of internal/app and the operations of the extension.
THEOREM CallsInvariant == Spec => []Inv
BY InvInit, InvNext, PTL DEF Spec

\* For every input of every tool: the extension's checks reject no payload that
\* Validate and BridgePayload made, but for the inputs that Gap names.
THEOREM ValidatorsAgree == Spec => []AcceptedIsWellFormed
<1>1. Inv => AcceptedIsWellFormed
  BY DEF Inv, CallsInv, RecordsInv, AcceptedIsWellFormed
<1> QED BY <1>1, CallsInvariant, PTL

\* A call answered with a refusal (before the operation was recorded as running)
\* left no record under its operation id, which can be used again.
THEOREM RefusedIdsAreFree == Spec => []RefusalsLeaveTheId
<1>1. Inv => RefusalsLeaveTheId
  BY DEF Inv, CallsInv, RecordsInv, RefusalsLeaveTheId, Refusals, Recorded
<1> QED BY <1>1, CallsInvariant, PTL

\* The image layout.export reads after its call has returned was written by the
\* export it answers or later, whatever other exports match its path.
THEOREM ImagesAreNoOlder == Spec => []ImageIsNoOlder
<1>1. Inv => ImageIsNoOlder
  BY DEF Inv, FilesInv
<1> QED BY <1>1, CallsInvariant, PTL

=============================================================================
