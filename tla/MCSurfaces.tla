----------------------------- MODULE MCSurfaces -----------------------------
(* Surfaces and tools for TLC: the admission of a surface's actions, the    *)
(* state surfaces are kept in, the tool results and documents around a      *)
(* model call, agent-drawn surfaces and the contract tools whose results    *)
(* become surfaces. They share no state, so a behaviour is one of any one   *)
(* of them (part) while the others rest in an initial state.                *)
EXTENDS SurfaceAction, SurfaceState, ToolPipeline, AuthoredSurfaces, ContractTools

CONSTANT SurfaceParts

VARIABLE part

MCStepLists == {<<"completed">>, <<"running", "completed">>}

Tool(bodies, mcp) == [bodies |-> bodies, mcp |-> mcp]
MCPipeTools ==
    [find |-> Tool({"text"}, FALSE), compare |-> Tool({"json_rows", "form"}, FALSE),
     google_search |-> Tool({"text"}, FALSE), sql_query_readonly |-> Tool({"rows", "text"}, TRUE),
     transfer_to_agent |-> Tool({"text"}, FALSE)]

Mapping(tools, shapes, rendered, on, meta) ==
    [tools |-> tools, shapes |-> shapes, renders |-> rendered, surface |-> on, meta |-> meta]
MCMappings ==
    <<Mapping({"compare", "transfer_to_agent"}, {"form"}, {"form"}, "elicit", TRUE),
      Mapping({"compare"}, {"rows", "form", "context"}, {"rows"}, "comparison", TRUE),
      Mapping({"google_search"}, {"rows", "context"}, {"context"}, "sources", FALSE),
      Mapping({"sql_query_readonly"}, {"rows", "error"}, {"rows", "error"}, "lighting", TRUE)>>

MCAttachments == <<"d1", "d2">>
MCSurroundings == {{"preamble", "iframe", "forms"}}

SurfacesInit ==
    /\ part \in SurfaceParts
    /\ IF part = "action" THEN Init
       ELSE /\ Init
            /\ surface = [s \in Submissions |-> CHOOSE x \in Surfaces : TRUE]
            /\ requestId = [s \in Submissions |-> None]
            /\ kind = [x \in Surfaces |-> "reusable"]
    /\ SurfaceInit
    /\ PipeInit /\ (part # "pipe" => turnUser = None /\ docRows = [d \in ToSet(Attachments) |-> FreshDoc(3)])
    /\ AuthoredInit
    /\ ToolsInit
    /\ PayloadInit /\ (part # "payload" => anchor = None /\ populated = {} /\ mapping.effective = None)

(* Turns are interchangeable: they are taken in order.                       *)
InTurn == \A t, u \in SurfaceTurns : (t < u /\ turnAt[u] # "new") => turnAt[t] # "new"

SurfacesNext ==
    \/ part = "action" /\ Next
       /\ UNCHANGED <<part, surfaceVars, pipeVars, authoredVars, toolVars, payloadVars>>
    \/ part = "state" /\ SurfaceNext /\ InTurn'
       /\ UNCHANGED <<part, vars, pipeVars, authoredVars, toolVars, payloadVars>>
    \/ part = "pipe" /\ PipeNext
       /\ UNCHANGED <<part, vars, surfaceVars, authoredVars, toolVars, payloadVars>>
    \/ part = "authored" /\ AuthoredNext
       /\ UNCHANGED <<part, vars, surfaceVars, pipeVars, toolVars, payloadVars>>
    \/ part = "tools" /\ ToolsNext
       /\ UNCHANGED <<part, vars, surfaceVars, pipeVars, authoredVars, payloadVars>>
    \/ part = "payload" /\ PayloadNext
       /\ UNCHANGED <<part, vars, surfaceVars, pipeVars, authoredVars, toolVars>>

SurfacesSpec ==
    /\ SurfacesInit
    /\ [][SurfacesNext]_<<part, vars, surfaceVars, pipeVars, authoredVars, toolVars, payloadVars>>
-----------------------------------------------------------------------------
(* What a surface shows is what was done to it: an action run reads the form *)
(* that was submitted, a reload rebuilds the drawn tree and the task status  *)
(* shown in search is that of the plans (SubmittedFormIsRead,                *)
(* ReplayKeepsLayout, StatusIsReported).                                     *)
SurfacesKept == SubmittedFormIsRead /\ StatusIsReported /\ ReplayKeepsLayout

(* What passes between model, tools and documents arrives whole: results are *)
(* rendered once, offloaded ones can be loaded, attachments stand before the *)
(* prompt and paging covers them (RenderedWhole, PointerResolves,            *)
(* AttachmentsInPlace, PagesCoverDocument).                                  *)
PipelineWhole ==
    PipeTypeOK /\ RenderedWhole /\ PointerResolves /\ AttachmentsInPlace /\ PagesCoverDocument

(* A contract tool answers what it was asked, through every cache tier (an   *)
(* answer made from a form is dated by the form and is never cached), and    *)
(* the obligations it shows are ordered, complete and flagged where they     *)
(* are not (AnswersTheQuestion, FormsAppend, TimelineKept, PayloadHonest).   *)
ContractsSound == AnswersTheQuestion /\ FormsAppend /\ TimelineKept /\ PayloadHonest
=============================================================================
