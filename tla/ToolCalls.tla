----------------------------- MODULE ToolCalls -----------------------------
(***************************************************************************)
(* The MCP tools from the input to the answer: the handlers of             *)
(* internal/app, the call through the session service, and what the        *)
(* extension makes of the payload.  A handler validates, sends, maps the   *)
(* error and, for an image export, reads the exported file after the call  *)
(* has returned.  The wire in between is Sessions and BridgeServer, the    *)
(* engine's protocol MutationEngine: here a request is executed in one     *)
(* step, refused for its form or by the model and the files, or lost to    *)
(* its caller and executed later or never.                                 *)
(***************************************************************************)
EXTENDS ToolInputs, FiniteSets

CONSTANTS
  Callers,     \* concurrent tool calls, one each
  Requests,    \* what they may ask: [Callers -> SUBSET [tool, input]]
  Session,     \* the live session
  Paged,       \* LayOut documents of several pages
  PageFile,    \* where LayOut writes the pages for a requested image path
  Globbed,     \* what resolve_layout_export's pattern for a path matches
  None

ASSUME CallsAssumption ==
  /\ Session \in Texts \ {""}
  /\ DOMAIN Requests = Callers
  /\ PageFile \in [Texts -> Texts]
  /\ Globbed \in [Texts -> SUBSET Texts]
  /\ \A t \in Texts : PageFile[t] \in Globbed[t]
  /\ None \notin Texts
  /\ \A c \in Callers : None \notin Requests[c]

VARIABLES
  asked,    \* the request of each caller, None before
  sent,     \* the payload its handler sent
  bridge,   \* its request there: "none", "queued", "served"
  reply,    \* what the bridge answered, None before
  answer,   \* what the tool answered, None before
  records,  \* the terminal record of each operation id
  files,    \* when each exported file was written, 0 where there is none
  clock     \* exports so far

vars == <<asked, sent, bridge, reply, answer, records, files, clock>>

-----------------------------------------------------------------------------
(* The extension's side of each operation.  What a call must be typed as,  *)
(* what prepare_request wants of its payload, what the operation checks    *)
(* before it is recorded as running, or read, and what it checks only      *)
(* after that, when a failure costs the caller its operation id.           *)
Inspections == {"entity.inspect", "entity.children.list"}
Lists == {"model.bounds", "section_plane.list", "scene.list"}
Summaries == {"model.summary", "selection.get"}
Mutations ==
  {"entity.translate", "entity.delete", "entity.material.set", "entity.name.set",
   "assembly.create", "geometry.create_box", "changes.undo",
   "section_plane.create", "scene.create", "model.file.save_copy",
   "layout.document.create", "layout.viewport.add", "layout.dimension.add",
   "layout.text.add", "layout.line.add", "layout.rectangle.add", "layout.export"}
Tools == Mutations \cup Inspections \cup Lists \cup Summaries
           \cup {"layout.template.inspect", "layout.panel.validate"}

Envelope == {"session_id", "operation_id", "expected_model_guid", "expected_revision"}

Typed(t, i) ==
  /\ \A f \in DOMAIN i : i[f] \in FieldType[f]
  /\ t = "entity.translate" => DOMAIN i = Envelope \cup TranslateFields
  /\ t = "entity.delete" => DOMAIN i = Envelope \cup DeleteFields
  /\ t = "entity.material.set" => DOMAIN i = Envelope \cup MaterialSetFields
  /\ t = "entity.name.set" => DOMAIN i = Envelope \cup NameSetFields
  /\ t = "assembly.create" => DOMAIN i = Envelope \cup AssemblyCreateFields
  /\ t = "geometry.create_box" => DOMAIN i = Envelope \cup CreateBoxFields
  /\ t = "changes.undo" => DOMAIN i = Envelope \cup UndoFields
  /\ t = "section_plane.create" => DOMAIN i = Envelope \cup SectionPlaneCreateFields
  /\ t = "scene.create" => DOMAIN i = Envelope \cup SceneCreateFields
  /\ t = "model.file.save_copy" => DOMAIN i = Envelope \cup SaveCopyFields
  /\ t = "layout.document.create" => DOMAIN i = Envelope \cup DocumentCreateFields
  /\ t = "layout.viewport.add" => DOMAIN i = Envelope \cup ViewportAddFields
  /\ t = "layout.dimension.add" => DOMAIN i = Envelope \cup DimensionAddFields
  /\ t = "layout.text.add" => DOMAIN i = Envelope \cup TextAddFields
  /\ t = "layout.line.add" => DOMAIN i = Envelope \cup LineAddFields
  /\ t = "layout.rectangle.add" => DOMAIN i = Envelope \cup RectangleAddFields
  /\ t = "layout.export" => DOMAIN i = Envelope \cup ExportFields
  /\ t \in Inspections => DOMAIN i = RefFields
  /\ t \in Lists \cup Summaries => DOMAIN i = {"session_id"}
  /\ t = "layout.template.inspect" => DOMAIN i = {"session_id", "template_path"}
  /\ t = "layout.panel.validate" => DOMAIN i = {"session_id"} \cup PanelValidateFields

Prepared(t, p) ==
  /\ t = "entity.translate" => TranslateForm(p)
  /\ t = "entity.delete" => DeleteForm(p)
  /\ t = "entity.material.set" => MaterialSetForm(p)
  /\ t = "entity.name.set" => NameSetForm(p)
  /\ t = "assembly.create" => AssemblyCreateForm(p)
  /\ t = "geometry.create_box" => CreateBoxForm(p)
  /\ t = "changes.undo" => UndoForm(p)
  /\ t = "section_plane.create" => SectionPlaneCreateForm(p)
  /\ t = "scene.create" => SceneCreateForm(p)
  /\ t = "model.file.save_copy" => SaveCopyForm(p)
  /\ t = "layout.document.create" => DocumentCreateForm(p)
  /\ t = "layout.viewport.add" => ViewportAddForm(p)
  /\ t = "layout.dimension.add" => DimensionAddForm(p)
  /\ t = "layout.text.add" => TextAddForm(p)
  /\ t = "layout.line.add" => LineAddForm(p)
  /\ t = "layout.rectangle.add" => RectangleAddForm(p)
  /\ t = "layout.export" => ExportForm(p)

Checks(t, s, p) ==
  /\ t = "entity.translate" => TranslateChecks(s, p)
  /\ t = "entity.delete" => DeleteChecks(s, p)
  /\ t = "entity.material.set" => MaterialSetChecks(s, p)
  /\ t = "entity.name.set" => NameSetChecks(s, p)
  /\ t = "assembly.create" => AssemblyCreateChecks(s, p)
  /\ t = "geometry.create_box" => CreateBoxChecks(s, p)
  /\ t = "section_plane.create" => SectionPlaneCreateChecks(s, p)
  /\ t = "scene.create" => SceneCreateChecks(s, p)
  /\ t = "model.file.save_copy" => SaveCopyChecks(s, p)
  /\ t = "layout.document.create" => DocumentCreateChecks(s, p)
  /\ t \in Inspections => InspectChecks(s, p)
  /\ t \in Lists \cup Summaries => DOMAIN p = {}
  /\ t = "layout.template.inspect" => TemplateInspectChecks(s, p)
  /\ t = "layout.panel.validate" => PanelValidateChecks(s, p)

Body(t, p) ==
  /\ t = "layout.viewport.add" => ViewportBody(p)
  /\ t = "layout.dimension.add" => DimensionBody(p)
  /\ t = "layout.text.add" => TextBody(p)
  /\ t = "layout.line.add" => LineBody(p)
  /\ t = "layout.rectangle.add" => RectangleBody(p)

ASSUME RequestsAssumption ==
  \A c \in Callers : \A r \in Requests[c] :
    DOMAIN r = {"tool", "input"} /\ r.tool \in Tools /\ Typed(r.tool, r.input)

-----------------------------------------------------------------------------
OpId(c) == sent[c].mutation.operation_id
NotExport == [image |-> FALSE, path |-> ""]

Init ==
  /\ asked = [c \in Callers |-> None]
  /\ sent = [c \in Callers |-> None]
  /\ bridge = [c \in Callers |-> "none"]
  /\ reply = [c \in Callers |-> None]
  /\ answer = [c \in Callers |-> None]
  /\ records = [t \in Texts |-> [code |-> "none"]]
  /\ files = [t \in Texts |-> 0]
  /\ clock = 0

\* Every handler: an input that Validate rejects, and a session that is not
\* found or not reachable just now, are domain errors; else the payload is sent.
Handle(c, valid, payload) ==
  \/ /\ answer' = [answer EXCEPT ![c] = [code |-> IF valid THEN "SESSION_NOT_FOUND"
                                                  ELSE "INVALID_REQUEST", image |-> 0]]
     /\ UNCHANGED <<bridge, sent>>
  \/ /\ valid
     /\ asked'[c].input.session_id = Session
     /\ bridge' = [bridge EXCEPT ![c] = "queued"]
     /\ sent' = [sent EXCEPT ![c] = payload]
     /\ UNCHANGED answer

EntityTool(c, t, i) ==
  \/ t = "entity.translate" /\ Handle(c, TranslateValid(i), TranslatePayload(i))
  \/ t = "entity.delete" /\ Handle(c, DeleteValid(i), DeletePayload(i))
  \/ t = "entity.material.set" /\ Handle(c, MaterialSetValid(i), MaterialSetPayload(i))
  \/ t = "entity.name.set" /\ Handle(c, NameSetValid(i), NameSetPayload(i))
  \/ t = "assembly.create" /\ Handle(c, AssemblyCreateValid(i), AssemblyCreatePayload(i))
  \/ t = "geometry.create_box" /\ Handle(c, CreateBoxValid(i), CreateBoxPayload(i))
  \/ t = "changes.undo" /\ Handle(c, UndoValid(i), UndoPayload(i))

PresentationTool(c, t, i) ==
  \/ t \in Lists /\ Handle(c, ListValid(i), EmptyPayload)
  \/ t = "section_plane.create" /\ Handle(c, SectionPlaneCreateValid(i), SectionPlaneCreatePayload(i))
  \/ t = "scene.create" /\ Handle(c, SceneCreateValid(i), SceneCreatePayload(i))
  \/ t = "model.file.save_copy" /\ Handle(c, SaveCopyValid(i), SaveCopyPayload(i))

LayoutTool(c, t, i) ==
  \/ t = "layout.document.create" /\ Handle(c, DocumentCreateValid(i), DocumentCreatePayload(i))
  \/ t = "layout.viewport.add" /\ Handle(c, ViewportAddValid(i), ViewportAddPayload(i))
  \/ t = "layout.dimension.add" /\ Handle(c, DimensionAddValid(i), DimensionAddPayload(i))
  \/ t = "layout.text.add" /\ Handle(c, TextAddValid(i), TextAddPayload(i))
  \/ t = "layout.line.add" /\ Handle(c, LineAddValid(i), LineAddPayload(i))
  \/ t = "layout.rectangle.add" /\ Handle(c, RectangleAddValid(i), RectangleAddPayload(i))
  \/ t = "layout.export" /\ Handle(c, ExportValid(i), ExportPayload(i))

TemplateTool(c, t, i) ==
  t = "layout.template.inspect" /\ Handle(c, TemplateInspectValid(i), TemplateInspectPayload(i))

ValidationTool(c, t, i) ==
  t = "layout.panel.validate" /\ Handle(c, PanelValidateValid(i), PanelValidatePayload(i))

ServerTool(c, t, i) ==
  \/ t \in Summaries /\ Handle(c, SessionValid(i), EmptyPayload)
  \/ t \in Inspections /\ Handle(c, ValidRef(i), i)

Ask(c) ==
  /\ asked[c] = None
  /\ \E r \in Requests[c] :
       /\ asked' = [asked EXCEPT ![c] = r]
       /\ \/ EntityTool(c, r.tool, r.input)
          \/ PresentationTool(c, r.tool, r.input)
          \/ LayoutTool(c, r.tool, r.input)
          \/ TemplateTool(c, r.tool, r.input)
          \/ ValidationTool(c, r.tool, r.input)
          \/ ServerTool(c, r.tool, r.input)
  /\ UNCHANGED <<reply, records, files, clock>>

\* The context ends or the connection breaks: an error that is no domain error.
GiveUp(c) ==
  /\ bridge[c] # "none" /\ answer[c] = None
  /\ answer' = [answer EXCEPT ![c] = [code |-> "transport", image |-> 0]]
  /\ UNCHANGED <<asked, sent, bridge, reply, records, files, clock>>

\* The bridge serves c's request: a reply, and what it leaves behind.
Serve(c, code, result) ==
  /\ bridge[c] = "queued"
  /\ bridge' = [bridge EXCEPT ![c] = "served"]
  /\ reply' = [reply EXCEPT ![c] = [code |-> code, result |-> result]]
  /\ UNCHANGED <<asked, sent, answer>>

Unrecorded == UNCHANGED <<records, files, clock>>

Record(c, code, result, form) ==
  records' = [records EXCEPT ![OpId(c)] =
                [tool |-> asked[c].tool, payload |-> sent[c], code |-> code, result |-> result,
                 form |-> form, by |-> c, at |-> clock']]

\* c's request is a mutation, in the form prepare_request wants.
Mutating(c) ==
  bridge[c] = "queued" /\ asked[c].tool \in Mutations /\ Prepared(asked[c].tool, sent[c])

\* And there is no record of its id, and its own checks pass.
Entering(c) ==
  /\ Mutating(c)
  /\ records[OpId(c)].code = "none"
  /\ Checks(asked[c].tool, Session, sent[c])

\* Mutant: a rejected payload is recorded like a failed operation.
MalformedRecorded(c) ==
  /\ bridge[c] = "queued"
  /\ asked[c].tool \in Mutations /\ records[OpId(c)].code = "none"
  /\ ~Checks(asked[c].tool, Session, sent[c])
  /\ Serve(c, "INVALID_REQUEST", NotExport)
  /\ UNCHANGED <<files, clock>>
  /\ Record(c, "INVALID_REQUEST", NotExport, FALSE)

Malformed(c) ==
  /\ bridge[c] = "queued"
  /\ \/ asked[c].tool \in Mutations /\ ~Prepared(asked[c].tool, sent[c])
     \/ /\ asked[c].tool \in Mutations => records[OpId(c)].code = "none"
        /\ ~Checks(asked[c].tool, Session, sent[c])
  /\ Serve(c, "INVALID_REQUEST", NotExport)
  /\ Unrecorded

\* Refused by the model (its identity, its revision, an entity, a name) or by
\* the files, before anything is recorded; for a known id only by the identity.
Refuse(c) ==
  /\ \/ Mutating(c)
     \/ /\ bridge[c] = "queued" /\ asked[c].tool \notin Mutations
        /\ Checks(asked[c].tool, Session, sent[c])
  /\ Serve(c, "REFUSED", NotExport)
  /\ Unrecorded

Replay(c) ==
  /\ Mutating(c)
  /\ LET known == records[OpId(c)]
     IN  /\ known.code # "none"
         /\ IF known.tool = asked[c].tool /\ known.payload = sent[c]
            THEN Serve(c, known.code, known.result)
            ELSE Serve(c, "OPERATION_ID_REUSE", NotExport)
  /\ Unrecorded

\* The operation fails: in LayOut or SketchUp, or by a check inside its body.
Fail(c) ==
  /\ Entering(c)
  /\ Serve(c, "OPERATION_FAILED", NotExport)
  /\ UNCHANGED <<files, clock>>
  /\ Record(c, "OPERATION_FAILED", NotExport, ~Body(asked[c].tool, sent[c]))

Complete(c) ==
  /\ Entering(c)
  /\ asked[c].tool # "layout.export"
  /\ Body(asked[c].tool, sent[c])
  /\ Serve(c, "OK", NotExport)
  /\ UNCHANGED <<files, clock>>
  /\ Record(c, "OK", NotExport, FALSE)

\* Mutant: of the files that match, the oldest is taken.
ResolvedOldest(p, now) ==
  LET found == {t \in Globbed[p.output_path] : now[t] # 0}
  IN  IF now[p.output_path] # 0 \/ ExtName(p.output_path) \notin Images \/ found = {}
      THEN p.output_path
      ELSE CHOOSE t \in found : \A u \in found : now[t] <= now[u]

\* resolve_layout_export: the path asked for, or the newest that looks like it.
Resolved(p, now) ==
  LET found == {t \in Globbed[p.output_path] : now[t] # 0}
  IN  IF now[p.output_path] # 0 \/ ExtName(p.output_path) \notin Images \/ found = {}
      THEN p.output_path
      ELSE CHOOSE t \in found : \A u \in found : now[u] <= now[t]

Export(c) ==
  /\ Entering(c)
  /\ asked[c].tool = "layout.export"
  /\ LET p == sent[c]
         written == IF p.layout_path \in Paged /\ Ext[p.output_path] \in Images
                    THEN PageFile[p.output_path] ELSE p.output_path
         now == [files EXCEPT ![written] = clock + 1]
         path == Resolved(p, now)
         result == [image |-> ExtName(p.output_path) \in Images, path |-> path]
     IN  /\ files[p.output_path] = 0
         /\ now[path] # 0
         /\ Serve(c, "OK", result)
         /\ files' = now
         /\ clock' = clock + 1
         /\ Record(c, "OK", result, FALSE)

Read(c) ==
  /\ bridge[c] = "queued"
  /\ asked[c].tool \notin Mutations
  /\ Checks(asked[c].tool, Session, sent[c])
  /\ Serve(c, "OK", NotExport)
  /\ Unrecorded

\* The call returns; the handler of layout.export then reads the image.
Return(c) ==
  /\ bridge[c] = "served" /\ answer[c] = None
  /\ LET result == reply[c].result
         image == IF reply[c].code = "OK" /\ result.image THEN files[result.path] ELSE 0
     IN  answer' = [answer EXCEPT ![c] =
                      IF reply[c].code = "OK" /\ result.image /\ image = 0
                      THEN [code |-> "unreadable", image |-> 0]
                      ELSE [code |-> reply[c].code, image |-> image]]
  /\ UNCHANGED <<asked, sent, bridge, reply, records, files, clock>>

\* The user, or a sweep of the directory, takes an exported file away.
Remove(t) ==
  /\ files[t] # 0
  /\ files' = [files EXCEPT ![t] = 0]
  /\ UNCHANGED <<asked, sent, bridge, reply, answer, records, clock>>

Bridge(c) ==
  Malformed(c) \/ Refuse(c) \/ Replay(c) \/ Fail(c) \/ Complete(c) \/ Export(c) \/ Read(c)

Next ==
  \/ \E c \in Callers : Ask(c) \/ GiveUp(c) \/ Bridge(c) \/ Return(c)
  \/ \E t \in Texts : Remove(t)

Spec == Init /\ [][Next]_vars

-----------------------------------------------------------------------------
(* The inputs on which the two programs do not agree: a text of NULs is    *)
(* blank to Ruby alone and a text of other Unicode space to Go alone, a    *)
(* file name that is all extension has none for Ruby, and two points       *)
(* nearer than SketchUp's tolerance are one.                               *)
Gap(t, i) ==
  \/ t \in Mutations /\ i.operation_id \in NulBlanks
  \/ t \in {"entity.name.set", "assembly.create", "section_plane.create", "scene.create"}
       /\ i.name \in NulBlanks
  \/ t = "entity.material.set" /\ i.material.name \in NulBlanks
  \/ t = "layout.viewport.add" /\ i.scene_name \in NulBlanks
  \/ t = "layout.text.add" /\ i.text \in NulBlanks
  \/ t = "layout.panel.validate" /\ i.panel_id \in NulBlanks
  \/ t = "layout.document.create" /\ i.template_path \in WideBlanks
  \/ t = "model.file.save_copy" /\ i.output_path \in DotNames
  \/ t = "scene.create" /\ AllFinite(i.eye_mm) /\ AllFinite(i.target_mm)
       /\ Coincide(i.eye_mm, i.target_mm)

\* What the extension finds well-formed, from the first check to the last.
WellFormed(t, p) ==
  /\ t \in Mutations => Prepared(t, p)
  /\ Checks(t, Session, p)
  /\ Body(t, p)

\* What is known of a payload on its way.
Sound(t, i, p) ==
  /\ ~Gap(t, i) => WellFormed(t, p)
  /\ t \in Mutations => p.mutation.operation_id \in Texts
  /\ t = "layout.export" => p.output_path \in Texts

Refusals == {"INVALID_REQUEST", "SESSION_NOT_FOUND", "REFUSED", "OPERATION_ID_REUSE"}
Recorded == {"OPERATION_FAILED", "OK"}

\* The two validators agree but for the gaps named above: the extension rejects
\* no payload that a handler has let through, neither before an operation is
\* recorded nor, where it would cost the caller its operation id, after.
AcceptedIsWellFormed ==
  /\ \A c \in Callers :
       bridge[c] = "served" /\ reply[c].code = "INVALID_REQUEST" =>
         Gap(asked[c].tool, asked[c].input)
  /\ \A t \in Texts :
       records[t].code # "none" /\ records[t].form =>
         Gap(asked[records[t].by].tool, asked[records[t].by].input)

\* A caller told that its request was invalid, refused or had no session can
\* mend it and send it under the same operation id, which its call has not spent
\* (Malformed, Refuse and prepare_request's order, as the handler reports them).
RefusalsLeaveTheId ==
  \A c \in Callers :
    answer[c] # None /\ answer[c].code \in Refusals =>
      \A t \in Texts : records[t].code # "none" => records[t].by # c

\* An image handed out was written by the very export it is the answer to, or
\* by one that ran after it: never one that was lying there (File.exist?, the
\* newest match of the pattern, and the read after the call).
ImageIsNoOlder ==
  \A c \in Callers :
    answer[c] # None /\ answer[c].image # 0 =>
      /\ records[OpId(c)].code # "none"
      /\ records[OpId(c)].payload = sent[c]
      /\ answer[c].image >= records[OpId(c)].at

-----------------------------------------------------------------------------
(* The inductive invariant: the calls, the records, the files.             *)
CallsInv ==
  /\ DOMAIN asked = Callers /\ DOMAIN sent = Callers /\ DOMAIN bridge = Callers
  /\ DOMAIN reply = Callers /\ DOMAIN answer = Callers
  /\ \A c \in Callers :
       /\ bridge[c] \in {"none", "queued", "served"}
       /\ asked[c] = None => bridge[c] = "none" /\ answer[c] = None
       /\ bridge[c] # "none" =>
            asked[c] \in Requests[c] /\ Sound(asked[c].tool, asked[c].input, sent[c])
       /\ bridge[c] = "served" =>
            /\ reply[c].code \in Refusals \cup Recorded
            /\ reply[c].code = "INVALID_REQUEST" => Gap(asked[c].tool, asked[c].input)
       /\ answer[c] # None /\ answer[c].code \in Refusals /\ bridge[c] # "none" =>
            bridge[c] = "served" /\ reply[c].code \in Refusals

RecordsInv ==
  /\ DOMAIN records = Texts
  /\ \A t \in Texts : records[t].code # "none" =>
       /\ records[t].code \in Recorded
       /\ records[t].by \in Callers /\ bridge[records[t].by] = "served"
       /\ reply[records[t].by].code \in Recorded
       /\ records[t].form =>
            Gap(asked[records[t].by].tool, asked[records[t].by].input)

FilesInv ==
  /\ clock \in Nat /\ files \in [Texts -> 0..clock]
  /\ \A t \in Texts : records[t].code # "none" /\ records[t].result.image =>
       /\ records[t].result.path \in Texts
       /\ records[t].at \in 1..clock
       /\ files[records[t].result.path] \in {0} \cup records[t].at..clock
  /\ \A c \in Callers :
       bridge[c] = "served" /\ reply[c].code = "OK" /\ reply[c].result.image =>
         /\ OpId(c) \in Texts /\ records[OpId(c)].code # "none"
         /\ records[OpId(c)].payload = sent[c]
         /\ records[OpId(c)].result = reply[c].result
  /\ ImageIsNoOlder
=============================================================================
