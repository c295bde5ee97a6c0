---------------------------- MODULE ToolPipeline ----------------------------
(***************************************************************************)
(* One agent turn as its ADK callbacks see it: each model request is       *)
(* assembled (instruction chain, attachments), the model answers with text *)
(* or with parallel tool calls, and each call runs through the before-tool *)
(* chain, the tool, and the after-tool chain (offload of an oversize       *)
(* response to an artifact, then the A2UI emitter) before the next request *)
(* is built from the durable events.                                       *)
(*                                                                         *)
(* adk/callbacks.py, adk/a2ui_result_render.py, adk/mcp_observability.py,  *)
(* adk/artifact_tools.py, adk/user_artifact_service.py,                    *)
(* adk/*_context.py, tools/documents/access.py, tools/search_agent.py      *)
(***************************************************************************)
EXTENDS Integers, Sequences, FiniteSets, SequencesExt, Store

CONSTANTS
    PipeTools,     \* tool name -> how its results look and who serves it:
                   \* [bodies : set of response bodies, mcp : BOOLEAN]
    Mappings,      \* registered result->A2UI mappings, in registration order
    PipeCalls,     \* tool calls the model may make in the turn
    Attachments,   \* documents selected for the turn, in order
    TextLengths,   \* lengths a document's text may have
    Allowance,     \* characters of attachment text one request may carry
    PageLimit,     \* characters one read_attached_document call returns
    Surroundings,  \* what the instruction wrappers may read: sets of blocks
    MaxRequests,   \* model requests in the turn
    MaxDocEdits    \* edits of attached documents during the turn

\* validate_selection drops duplicates; every registration in adk/a2ui_*_render
\* names its tools; a pointer is what _handle_large_output writes, never a tool.
ASSUME PipeAssumption ==
    /\ Allowance \in Nat \ {0}
    /\ PageLimit \in Nat \ {0}
    /\ MaxRequests \in Nat
    /\ MaxDocEdits \in Nat
    /\ TextLengths \subseteq Nat
    /\ Attachments \in Seq(ToSet(Attachments))
    /\ \A i, j \in DOMAIN Attachments : Attachments[i] = Attachments[j] => i = j
    /\ \A i \in DOMAIN Mappings : Mappings[i].tools # {}
    /\ \A t \in DOMAIN PipeTools : "pointer" \notin PipeTools[t].bodies
    /\ None \notin PipeCalls

VARIABLES
    toolCalls,   \* per call: [st, tool, body, big, response]
    artifacts,   \* saved artifacts: <<user, tool>> -> the call whose text it holds
    pushes,      \* A2UI surfaces pushed to the client: [surface, of, seq]
    contents,    \* the turn's durable events, oldest first
    request,     \* the last model request: its contents and its instruction
    asked,       \* model requests made so far
    phase,       \* what the turn waits for
    turnUser,    \* the stable user id of this request's context, or None
    docRows,     \* parsed_documents rows of the attachments
    docEdits,    \* edits made so far
    pages        \* what the model has read of each attachment in the turn

pipeVars == <<toolCalls, artifacts, pushes, contents, request, asked, phase,
              turnUser, docRows, docEdits, pages>>

NoResponse == "none"
InState(s) == {c \in PipeCalls : toolCalls[c].st = s}

(***************************************************************************)
(* The registry of result->A2UI mappings.                                  *)
(***************************************************************************)

\* _Mapping.matches: the tool is one the mapping names (or it names none)
\* and the shape matcher, if there is one, accepts the typed result.
Matches(mapping, tool, typed) ==
    /\ mapping.tools = {} \/ tool \in mapping.tools
    /\ typed \in mapping.shapes

\* _Mapping.resolve_surface: a strategy that names nothing means the workspace.
ResolveSurface(mapping) ==
    IF mapping.surface = "" THEN "workspace" ELSE mapping.surface

\* render_for_emit: the FIRST matching mapping decides; a transform that
\* raises or returns nothing ends the search.
RenderForEmit(tool, typed) ==
    LET hits == {i \in DOMAIN Mappings : Matches(Mappings[i], tool, typed)}
        first == CHOOSE i \in hits : \A j \in hits : i <= j
    IN  IF hits = {} \/ typed \notin Mappings[first].renders
        THEN None
        ELSE ResolveSurface(Mappings[first])

\* is_render_payload_tool: a mapping names the tool.
IsRenderPayloadTool(tool) == \E i \in DOMAIN Mappings : tool \in Mappings[i].tools

\* tool_produces_artifact: ... and declares artifact metadata.
ToolProducesArtifact(tool) ==
    \E i \in DOMAIN Mappings : tool \in Mappings[i].tools /\ Mappings[i].meta

\* notability.tool_tier
ToolTier(tool) ==
    IF tool \in {"transfer_to_agent", "request_handoff"} THEN "internal"
    ELSE IF ToolProducesArtifact(tool) THEN "artifact"
    ELSE IF IsRenderPayloadTool(tool) THEN "notable"
    ELSE "internal"

\* _coerce_typed_result: a JSON string is decoded and a {"result": ...}
\* envelope peeled; anything that is not a dict or a list renders nothing.
CoerceTypedResult(body) ==
    CASE body \in {"text", "pointer", "blank"} -> None
      [] body \in {"json_rows", "enveloped_rows", "rows"} -> "rows"
      [] body \in {"json_form", "form"} -> "form"
      [] OTHER -> body

\* What the emitter types a response as: a failed lighting query still shows,
\* and a mapped tool that answers in free text renders from session state.
TypedFor(tool, body) ==
    LET typed == CoerceTypedResult(body)
    IN  IF typed # None THEN typed
        ELSE IF tool = "sql_query_readonly" THEN "error"
        ELSE IF IsRenderPayloadTool(tool) THEN "context"
        ELSE None

(***************************************************************************)
(* The before-tool chain.                                                  *)
(***************************************************************************)

\* compose_before_tool_callbacks: an answer from the first callback skips the
\* tool; a confirm-floor transfer is answered with a form and never runs.
BeforeTool(tool) == IF tool = "transfer_to_agent" THEN "form" ELSE NoResponse

\* The model asks for a tool; the chain runs before the tool does.
StartCall(c) ==
    /\ toolCalls[c].st = "asked"
    /\ LET answer == BeforeTool(toolCalls[c].tool)
       IN  toolCalls' = IF answer = NoResponse
                        THEN [toolCalls EXCEPT ![c].st = "running"]
                        ELSE [toolCalls EXCEPT ![c].st = "answered", ![c].body = answer]
    /\ UNCHANGED <<artifacts, pushes, contents, request, asked, turnUser,
                   phase, docRows, docEdits, pages>>

\* The tool itself (external): it answers with one of its bodies, of any size.
ToolAnswers(c) ==
    /\ toolCalls[c].st = "running"
    /\ \E body \in PipeTools[toolCalls[c].tool].bodies, big \in BOOLEAN :
         toolCalls' = [toolCalls EXCEPT ![c].st = "answered", ![c].body = body,
                                        ![c].big = big]
    /\ UNCHANGED <<artifacts, pushes, contents, request, asked, turnUser,
                   phase, docRows, docEdits, pages>>

(***************************************************************************)
(* The after-tool chain: _handle_large_output, then the observers.         *)
(***************************************************************************)

(* Faulty variant of Offloads: render payloads are offloaded too.           *)
OffloadsEverything(c) == toolCalls[c].big

\* _handle_large_output exempts small responses and tools whose result is a
\* render payload (the emitter and the model both need the typed body).
Offloads(c) ==
    /\ toolCalls[c].big
    /\ ~IsRenderPayloadTool(toolCalls[c].tool)

\* make_a2ui_result_emitter: the surface a result of the tool goes to, or None.
\* An MCP query tool must come from a registered server, otherwise it is
\* model-authored and renders nothing.
ShownOn(tool, body) ==
    LET typed == TypedFor(tool, body)
    IN  IF typed = None \/ (tool = "sql_query_readonly" /\ ~PipeTools[tool].mcp)
        THEN None
        ELSE RenderForEmit(tool, typed)

\* ... over the effective response. The sequence number keeps two pushes of
\* one turn apart.
Emitted(c, body) ==
    LET surface == ShownOn(toolCalls[c].tool, body)
    IN  IF surface = None THEN pushes
        ELSE Append(pushes, [surface |-> surface, of |-> c, seq |-> Len(pushes) + 1])

\* compose_after_tool_callbacks: the rewritten response is what the observers
\* see and what the model reads next.
AfterTool(c, body) ==
    /\ pushes' = Emitted(c, body)
    /\ toolCalls' = [toolCalls EXCEPT ![c].st = "done", ![c].response = body]

\* The response passes through unchanged.
KeepOutput(c) ==
    /\ toolCalls[c].st = "answered"
    /\ ~Offloads(c)
    /\ AfterTool(c, toolCalls[c].body)
    /\ UNCHANGED <<artifacts, contents, request, asked, turnUser, docRows,
                   docEdits, pages, phase>>

\* The artifact is named after the tool and the invocation; saving awaits, so
\* other calls of the turn interleave here.
BeginOffload(c) ==
    /\ toolCalls[c].st = "answered"
    /\ Offloads(c)
    /\ toolCalls' = [toolCalls EXCEPT ![c].st = "saving"]
    /\ UNCHANGED <<artifacts, pushes, contents, request, asked, turnUser,
                   phase, docRows, docEdits, pages>>

\* UserScopedArtifactService._scope: no stable user, no access.
Scope == turnUser

SaveArtifact(c) ==
    /\ toolCalls[c].st = "saving"
    /\ Scope # None
    /\ artifacts' = [artifacts EXCEPT ![toolCalls[c].tool] = c]
    /\ AfterTool(c, "pointer")
    /\ UNCHANGED <<contents, request, asked, turnUser, docRows, docEdits, pages,
                   phase>>

(* Faulty variant of SaveArtifactFails: a pointer to nothing is returned.   *)
SaveArtifactFailsQuietly(c) ==
    /\ toolCalls[c].st = "saving"
    /\ AfterTool(c, "pointer")
    /\ UNCHANGED <<artifacts, contents, request, asked, turnUser, docRows,
                   docEdits, pages, phase>>

\* The service refuses or fails: the model gets the whole response after all.
SaveArtifactFails(c) ==
    /\ toolCalls[c].st = "saving"
    /\ AfterTool(c, toolCalls[c].body)
    /\ UNCHANGED <<artifacts, contents, request, asked, turnUser, docRows,
                   docEdits, pages, phase>>

\* retrieve_artifact: what the model gets for the name a pointer gave it.
RetrieveArtifact(tool) ==
    IF Scope = None \/ artifacts[tool] = None THEN None ELSE artifacts[tool]

(***************************************************************************)
(* Attachments.                                                            *)
(***************************************************************************)

\* readable_document: the row is the caller's, not being deleted, and parsed.
ReadableDocument(d) ==
    /\ docRows[d].owned
    /\ ~docRows[d].deleting
    /\ docRows[d].parsed

\* validate_selection: duplicates dropped, every document readable.
SelectionValid == \A i \in DOMAIN Attachments : ReadableDocument(Attachments[i])

Share == Allowance \div (IF Attachments = <<>> THEN 1 ELSE Len(Attachments))
Excerpt(d) == IF docRows[d].len < Share THEN docRows[d].len ELSE Share

AttachmentContent(d) == [kind |-> "attachment", doc |-> d,
                         version |-> docRows[d].version, upto |-> Excerpt(d)]

\* The latest content the user wrote: a tool result also has role "user" but
\* is not a prompt.
IsPrompt(content) == content.kind = "prompt"

(* Faulty variant of PromptIndex: a tool result counts as a prompt.         *)
PromptIndexAnyUser(cs) ==
    LET at == {i \in DOMAIN cs : cs[i].kind \in {"prompt", "responses"}}
    IN  IF at = {} THEN 0 ELSE CHOOSE i \in at : \A j \in at : j <= i

PromptIndex(cs) ==
    LET at == {i \in DOMAIN cs : IsPrompt(cs[i])}
    IN  IF at = {} THEN 0 ELSE CHOOSE i \in at : \A j \in at : j <= i

\* make_document_injector: the attachments are put back before the latest
\* prompt of every request, since the events do not hold them.
WithAttachments(cs) ==
    LET at == PromptIndex(cs)
        block == [i \in DOMAIN Attachments |-> AttachmentContent(Attachments[i])]
    IN  IF at = 0 THEN cs
        ELSE SubSeq(cs, 1, at - 1) \o block \o SubSeq(cs, at, Len(cs))

\* read_attached_document: one page, clamped to the text, with where to go on.
PageEnd(d, offset) ==
    LET start == IF offset > docRows[d].len THEN docRows[d].len ELSE offset
        stop == start + PageLimit
    IN  IF stop > docRows[d].len THEN docRows[d].len ELSE stop

(* Faulty variant of NextOffset: the next page starts one line late.        *)
NextOffsetSkips(d, offset) ==
    IF PageEnd(d, offset) < docRows[d].len THEN PageEnd(d, offset) + 1
    ELSE docRows[d].len

NextOffset(d, offset) == PageEnd(d, offset)

ReadAttachedDocument(d) ==
    /\ phase = "tools"
    /\ ReadableDocument(d)
    /\ pages[d].next < docRows[d].len
    /\ pages' = [pages EXCEPT ![d].read =
                     @ \cup (pages[d].next + 1 .. PageEnd(d, pages[d].next)),
                              ![d].next = NextOffset(d, pages[d].next)]
    /\ UNCHANGED <<toolCalls, artifacts, pushes, contents, request, asked,
                   turnUser, docRows, docEdits, phase>>

(***************************************************************************)
(* The instruction chain (each wrapper adds its block, or nothing).        *)
(***************************************************************************)

\* render_instruction_with_platform_preamble: the only block that is PREPENDED.
WithPreamble(s, text) ==
    IF "preamble" \in s THEN <<"preamble">> \o text ELSE text

\* render_instruction_with_iframe_context
WithIframeContext(s, text) ==
    IF "iframe" \in s THEN Append(text, "iframe") ELSE text

\* render_instruction_with_saved_forms
WithSavedForms(s, text) ==
    IF "forms" \in s THEN Append(text, "forms") ELSE text

\* render_instruction_with_today: the day of this request.
WithToday(text) == Append(text, "today")

\* render_instruction_with_output_format
WithOutputFormat(text) == Append(text, "svg")

\* compose_instruction_providers, in the order create_agent gives.
Instruction(s) ==
    WithOutputFormat(WithToday(WithSavedForms(s, WithIframeContext(s,
        WithPreamble(s, <<"skill">>)))))

(***************************************************************************)
(* The turn.                                                               *)
(***************************************************************************)

FreshDoc(n) == [owned |-> TRUE, deleting |-> FALSE, parsed |-> TRUE,
                len |-> n, version |-> 0]

PipeInit ==
    /\ toolCalls = [c \in PipeCalls |-> [st |-> "unused", tool |-> NoResponse,
                       body |-> NoResponse, big |-> FALSE, response |-> NoResponse]]
    /\ artifacts = [t \in DOMAIN PipeTools |-> None]
    /\ pushes = <<>>
    /\ contents = <<[kind |-> "prompt", of |-> {}]>>
    /\ request = None
    /\ asked = 0
    /\ phase = "request"
    /\ turnUser \in {"u", None}
    /\ docRows \in [ToSet(Attachments) -> {FreshDoc(n) : n \in TextLengths}]
    /\ docEdits = 0
    /\ pages = [d \in ToSet(Attachments) |-> [read |-> {}, next |-> 0]]

\* before_model_callback, and the request it leaves.
BuildRequest ==
    /\ phase = "request"
    /\ asked < MaxRequests
    /\ SelectionValid
    /\ \E s \in Surroundings :
         request' = [contents |-> WithAttachments(contents), instruction |-> Instruction(s)]
    /\ pages' = [d \in DOMAIN pages |->
                   [read |-> pages[d].read \cup 1 .. Excerpt(d),
                    next |-> IF pages[d].next > Excerpt(d) THEN pages[d].next
                             ELSE Excerpt(d)]]
    /\ asked' = asked + 1
    /\ phase' = "model"
    /\ UNCHANGED <<toolCalls, artifacts, pushes, contents, turnUser, docRows, docEdits>>

\* A selected document that can no longer be read fails the turn.
RequestRefused ==
    /\ phase = "request"
    /\ ~SelectionValid
    /\ phase' = "failed"
    /\ UNCHANGED <<toolCalls, artifacts, pushes, contents, request, asked, turnUser,
                   docRows, docEdits, pages>>

\* The model (external) asks for a batch of tools, which ADK runs in parallel.
ModelCallsTools ==
    /\ phase = "model"
    /\ \E batch \in SUBSET InState("unused") \ {{}}, tool \in [PipeCalls -> DOMAIN PipeTools] :
         /\ \A c \in PipeCalls \ batch : tool[c] = CHOOSE t \in DOMAIN PipeTools : TRUE
         /\ toolCalls' = [c \in PipeCalls |->
                IF c \in batch THEN [toolCalls[c] EXCEPT !.st = "asked", !.tool = tool[c]]
                ELSE toolCalls[c]]
         /\ contents' = Append(contents, [kind |-> "calls", of |-> batch])
    /\ phase' = "tools"
    /\ UNCHANGED <<artifacts, pushes, request, asked, turnUser, docRows, docEdits, pages>>

\* ... or answers, which ends the turn.
ModelAnswers ==
    /\ phase = "model"
    /\ phase' = "ended"
    /\ UNCHANGED <<toolCalls, artifacts, pushes, contents, request, asked, turnUser,
                   docRows, docEdits, pages>>

\* All calls of the batch are done: their responses become one event.
BatchDone ==
    /\ phase = "tools"
    /\ InState("done") # {}
    /\ \A c \in PipeCalls : toolCalls[c].st \in {"unused", "done", "seen"}
    /\ contents' = Append(contents, [kind |-> "responses", of |-> InState("done")])
    /\ toolCalls' = [c \in PipeCalls |->
           IF toolCalls[c].st = "done" THEN [toolCalls[c] EXCEPT !.st = "seen"]
           ELSE toolCalls[c]]
    /\ phase' = "request"
    /\ UNCHANGED <<artifacts, pushes, request, asked, turnUser, docRows, docEdits, pages>>

\* The user edits an attached document, or deletes it, while the turn runs.
DocumentChanges(d) ==
    /\ docEdits < MaxDocEdits
    /\ \/ \E n \in TextLengths :
            docRows' = [docRows EXCEPT ![d].len = n, ![d].version = @ + 1]
       \/ docRows' = [docRows EXCEPT ![d].deleting = TRUE]
    /\ docEdits' = docEdits + 1
    /\ UNCHANGED <<toolCalls, artifacts, pushes, contents, request, asked, phase,
                   turnUser, pages>>

PipeNext ==
    \/ BuildRequest
    \/ RequestRefused
    \/ ModelCallsTools
    \/ ModelAnswers
    \/ BatchDone
    \/ \E c \in PipeCalls :
         \/ StartCall(c)
         \/ ToolAnswers(c)
         \/ KeepOutput(c)
         \/ BeginOffload(c)
         \/ SaveArtifact(c)
         \/ SaveArtifactFails(c)
    \/ \E d \in ToSet(Attachments) :
         \/ ReadAttachedDocument(d)
         \/ DocumentChanges(d)

PipeSpec == PipeInit /\ [][PipeNext]_pipeVars
-----------------------------------------------------------------------------

\* The calls whose after-tool chain has run.
Finished == {c \in PipeCalls : toolCalls[c].st \in {"done", "seen"}}

PipeTypeOK ==
    /\ \A c \in PipeCalls : toolCalls[c].st \in
          {"unused", "asked", "running", "answered", "saving", "done", "seen"}
    /\ \A t \in DOMAIN PipeTools : artifacts[t] \in PipeCalls \cup {None}
    /\ \A i \in DOMAIN pushes : pushes[i].of \in Finished
    /\ phase \in {"request", "model", "tools", "ended", "failed"}
    /\ asked \in 0 .. MaxRequests

\* A result the registry can render is on the client's screen once, on the
\* surface its mapping names, whatever its size, and nothing else is there
\* (adk/callbacks.py, _handle_large_output then make_a2ui_result_emitter).
RenderedWhole ==
    \A c \in Finished :
        LET surface == ShownOn(toolCalls[c].tool, toolCalls[c].body)
            mine == {i \in DOMAIN pushes : pushes[i].of = c}
        IN  IF surface = None THEN mine = {}
            ELSE Cardinality(mine) = 1 /\ \A i \in mine : pushes[i].surface = surface

\* A pointer the model was given names an artifact that was written and that
\* retrieve_artifact finds (adk/callbacks.py, _handle_large_output).
PointerResolves ==
    \A c \in Finished :
        toolCalls[c].response = "pointer" => RetrieveArtifact(toolCalls[c].tool) # None

InPlace(cs) ==
    LET last == CHOOSE i \in DOMAIN cs :
                   IsPrompt(cs[i]) /\ \A j \in i + 1 .. Len(cs) : ~IsPrompt(cs[j])
    IN  /\ last > Len(Attachments)
        /\ \A i \in DOMAIN Attachments :
             /\ Cardinality({j \in DOMAIN cs : cs[j].kind = "attachment"
                                          /\ cs[j].doc = Attachments[i]}) = 1
             /\ LET at == last - Len(Attachments) - 1 + i
                IN  cs[at].kind = "attachment" /\ cs[at].doc = Attachments[i]
        /\ \A i \in DOMAIN cs : cs[i].kind = "responses" =>
              cs[i - 1].kind = "calls" /\ cs[i - 1].of = cs[i].of

\* Every request carries every selected attachment once, directly before the
\* latest prompt, and leaves each tool response next to its call
\* (adk/callbacks.py, make_document_injector).
AttachmentsInPlace == request # None => InPlace(request.contents)

\* A model that follows nextOffset until hasMore is false has seen every
\* character of a document nobody edited (tools/documents/access.py,
\* read_attached_document, and the range the injector announces).
PagesCoverDocument ==
    \A d \in ToSet(Attachments) :
        (asked > 0 /\ docRows[d].version = 0 /\ pages[d].next = docRows[d].len)
            => pages[d].read = 1 .. docRows[d].len
==============================================================================
