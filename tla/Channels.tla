------------------------------ MODULE Channels ------------------------------
(***************************************************************************)
(* The messaging channels (backend/channels): a webhook or gateway event   *)
(* is verified, parsed and dispatched; its author resolved to a platform   *)
(* user; a framework command executed or a skill run; and the AG-UI stream *)
(* of the run rendered into the channel's own messages. Discord edits a    *)
(* placeholder while the run goes on, the other channels collect the reply *)
(* and send it in chunks. Several deliveries are handled at once, by       *)
(* several server instances.                                               *)
(*                                                                         *)
(* A reply text is a sequence of characters: "w" of a word, "gap" between  *)
(* words, "p" for a spliced progress line, "s" for a surface put in words; *)
(* "S" is an embed of its own.                                             *)
(***************************************************************************)
EXTENDS Integers, Sequences, FiniteSets, FiniteSetsExt, SequencesExt, Store

CONSTANTS
    ChannelNames,   \* subset of {"discord", "telegram", "whatsapp", "email"}
    ChatUsers,
    Deliveries,
    ChannelSkills,
    MaxLength,      \* the longest message a channel takes
    MaxEvents,      \* bound: events of a run
    Instances,      \* server instances that start up
    MaxTries        \* bound: times one message is delivered

\* What a message is made of; "t", "e" and "n" stand for the fixed texts.
Characters == {"w", "gap", "p", "s", "S", "e", "n", "t"}

ASSUME ChannelAssumption == MaxLength \in Nat \ {0} /\ None \notin Seq(Characters)

VARIABLES
    identities,     \* channel_identities: None, or whether the mapping carries an e-mail
    allowlist,      \* users on the route document of the Discord guild
    defaults,       \* user_settings: the default skill of an identity, or None
    gatewayUp,      \* the Discord client is connected
    box,            \* a delivery: the message and where its handling stands
    library,        \* per delivery: bytes stored and documents registered for its files
    slash,          \* registration of the slash commands: the lock, and each instance
    chat            \* what its author sees: placeholder, messages, and how many sends were lost

channelVars == <<identities, allowlist, defaults, gatewayUp, box, library, slash, chat>>

Identity == ChannelNames \X ChatUsers
Thinking == <<"t">>
ErrorText == <<"e">>
NoResponseText == <<"n">>

(* What a webhook or the gateway brings, as far as the adapters tell it apart. *)
ChannelEvents ==
    [signed : BOOLEAN,                  \* the signature or the secret checks
     type : {"message", "other"},       \* edits, receipts, component clicks are "other"
     sender : BOOLEAN, guild : BOOLEAN,
     text : {"words", "skill", "help", "none"},
     file : {"none", "fine", "unusable"}]   \* too large, or an extension not listed

(* verify_webhook: each adapter fails closed without its secret.             *)
DiscordVerified(e, secret) == secret /\ e.signed
TelegramVerified(e, secret) == secret /\ e.signed
WhatsAppVerified(e, secret) == secret /\ e.signed
EmailVerified(e, secret) == secret /\ e.signed

(* parse_inbound. Discord: slash commands and (on_message) mentions and      *)
(* direct messages, never with a file; Telegram: new messages; WhatsApp and  *)
(* e-mail: anything with a sender and a body.                                *)
DiscordParsed(e) == e.type = "message" /\ e.sender /\ e.text # "none" /\ e.file = "none"
TelegramParsed(e) ==
    e.type = "message" /\ e.sender /\ (e.text # "none" \/ e.file # "none") /\ ~e.guild
WhatsAppParsed(e) == e.sender /\ (e.text # "none" \/ e.file # "none") /\ ~e.guild
EmailParsed(e) == (e.text # "none" \/ e.file # "none") /\ e.sender /\ ~e.guild

Verified(ch, e, secret) ==
    CASE ch = "discord" -> DiscordVerified(e, secret)
      [] ch = "telegram" -> TelegramVerified(e, secret)
      [] ch = "whatsapp" -> WhatsAppVerified(e, secret)
      [] ch = "email" -> EmailVerified(e, secret)
Parsed(ch, e) ==
    CASE ch = "discord" -> DiscordParsed(e)
      [] ch = "telegram" -> TelegramParsed(e)
      [] ch = "whatsapp" -> WhatsAppParsed(e)
      [] ch = "email" -> EmailParsed(e)

Streams(ch) == ch = "discord"
Chunked(ch) == ch # "email"

(* CommandParser.parse: a known command behind the channel's prefix; an      *)
(* e-mail body in brackets switches the skill and is not run.                *)
IsCommand(text) == text \in {"skill", "help"}

Settled(d) == box[d].op \in {"ok", "skipped", "refused", "rejected", "failed"}

ChannelInit ==
    /\ \E known \in {None, FALSE} : identities = [i \in Identity |-> known]
    /\ allowlist \in SUBSET ChatUsers
    /\ defaults = [i \in Identity |-> None]
    /\ gatewayUp \in BOOLEAN
    /\ box = [d \in Deliveries |-> [op |-> "idle"]]
    /\ library = [d \in Deliveries |-> [blobs |-> 0, docs |-> 0]]
    /\ slash = [lock |-> FALSE, at |-> [n \in Instances |-> "start"]]
    /\ chat = [d \in Deliveries |-> [holder |-> None, posts |-> <<>>, lost |-> 0]]

Author(d) == <<box[d].ch, box[d].user>>
Goto(d, op) == box' = [box EXCEPT ![d].op = op]
-----------------------------------------------------------------------------
(* Faulty variant of ChunkMessage: a cut in a word drops the letter there.   *)
ChunkMessageSkips(text) ==
    LET last == Len(text)
        chunks[i \in 1..last + 1] ==
            IF i > last THEN <<>>
            ELSE IF last - i < MaxLength THEN <<SubSeq(text, i, last)>>
            ELSE <<SubSeq(text, i, i + MaxLength - 1)>> \o chunks[Min({i + MaxLength + 1, last + 1})]
    IN  IF \A i \in 1..last : text[i] = "gap" THEN <<>> ELSE chunks[1]

(* chunk_message: cut at the last space that keeps a chunk within the       *)
(* limit, else in the middle of a word; drop the spaces at the cut.         *)
ChunkMessage(text) ==
    LET last == Len(text)
        chunks[i \in 1..last + 1] ==
            LET spaces == {p \in (i + 1)..(i + MaxLength) : p <= last /\ text[p] = "gap"}
                cut == IF spaces = {} THEN i + MaxLength ELSE Max(spaces)
                next == Min({j \in cut..last : text[j] # "gap"} \cup {last + 1})
            IN  IF i > last THEN <<>>
                ELSE IF last - i < MaxLength THEN <<SubSeq(text, i, last)>>
                ELSE <<SubSeq(text, i, cut - 1)>> \o chunks[next]
    IN  IF \A i \in 1..last : text[i] = "gap" THEN <<>> ELSE chunks[1]

(* str.strip on the final text.                                             *)
Stripped(text) ==
    LET kept == {i \in 1..Len(text) : text[i] # "gap"}
    IN  IF kept = {} THEN <<>> ELSE SubSeq(text, Min(kept), Max(kept))
-----------------------------------------------------------------------------
(* The registered route, handle_webhook, and Discord's on_message, up to     *)
(* IdentityResolver.resolve.                                                 *)
HandleWebhook(d) ==
    /\ box[d].op = "idle"
    /\ \E ch \in ChannelNames, u \in ChatUsers, e \in ChannelEvents, secret \in BOOLEAN :
           box' = [box EXCEPT ![d] =
               IF ~Verified(ch, e, secret) THEN [op |-> "refused"]
               ELSE IF ~Parsed(ch, e) THEN [op |-> "skipped"]
               ELSE [op |-> "parsed", ch |-> ch, user |-> u, guild |-> e.guild,
                     text |-> e.text, file |-> e.file, skill |-> None, parts |-> <<>>,
                     reply |-> None, seen |-> 0, surfaces |-> 0, tries |-> 1]]
    /\ UNCHANGED <<identities, allowlist, defaults, gatewayUp, library, slash, chat>>

(* IdentityResolver.resolve; the last_seen_at touch is best effort.          *)
Resolve(d) ==
    /\ box[d].op = "parsed"
    /\ Goto(d, IF identities[Author(d)] = None THEN "stranger" ELSE "known")
    /\ UNCHANGED <<identities, allowlist, defaults, gatewayUp, library, slash, chat>>

(* IdentityResolver.auto_create: the record is written whole, without e-mail. *)
AutoCreate(i) == identities' = [identities EXCEPT ![i] = FALSE]

(* on_unknown_user: Discord asks the guild's allowlist and refuses direct   *)
(* messages; the other channels take anyone.                                *)
OnUnknownUser(d) ==
    /\ box[d].op = "stranger"
    /\ IF box[d].ch = "discord" => (box[d].guild /\ box[d].user \in allowlist)
       THEN /\ AutoCreate(Author(d))
            /\ Goto(d, "known")
       ELSE Goto(d, "rejected") /\ UNCHANGED identities
    /\ UNCHANGED <<allowlist, defaults, gatewayUp, library, slash, chat>>

(* migrate_v5_channel_mappings: a mapping with an e-mail address is written *)
(* where none exists.                                                       *)
ImportMapping(i) ==
    /\ identities[i] = None
    /\ i[1] \in {"telegram", "whatsapp"}
    /\ identities' = [identities EXCEPT ![i] = TRUE]
    /\ UNCHANGED <<allowlist, defaults, gatewayUp, box, library, slash, chat>>

(* set_user_default_skill: the settings document is read and written back.   *)
SetUserDefaultSkill(i, s) == defaults' = [defaults EXCEPT ![i] = s]

(* _cmd_skill: the default is stored when the skill is found (s # None).     *)
CmdSkill(d, s) ==
    IF box[d].text = "skill" /\ s # None
    THEN SetUserDefaultSkill(Author(d), s)
    ELSE UNCHANGED defaults

(* _handle_command, execute_command: the reply goes out through send, before *)
(* any attachment is looked at.                                              *)
HandleCommand(d) ==
    /\ box[d].op = "known" /\ IsCommand(box[d].text)
    /\ \E s \in ChannelSkills \cup {None} : CmdSkill(d, s)
    /\ box' = [box EXCEPT ![d].op = "sending", ![d].parts = <<"w">>]
    /\ UNCHANGED <<identities, allowlist, gatewayUp, library, slash, chat>>

(* _process_one: extension and size are checked before anything is stored;   *)
(* a failure after the bytes are stored leaves them behind.                  *)
ProcessOne(d) ==
    /\ box[d].file = "fine"
    /\ \E registered \in {0, 1} : library' =
           [library EXCEPT ![d].blobs = @ + 1, ![d].docs = @ + registered]

(* AttachmentPipeline.upload: a file that cannot be used is skipped.         *)
Upload(d) ==
    /\ box[d].op = "known" /\ ~IsCommand(box[d].text)
    /\ Goto(d, "uploaded")
    /\ ProcessOne(d) \/ UNCHANGED library
    /\ UNCHANGED <<identities, allowlist, defaults, gatewayUp, slash, chat>>

(* select_skill: the stored default; a skill that the subject of an e-mail   *)
(* names comes first.                                                        *)
SelectSkill(d) ==
    {defaults[Author(d)]} \cup (IF box[d].ch = "email" THEN ChannelSkills ELSE {})

(* The rest of _dispatch_inbound. Discord resolves the chat before it starts *)
(* the run: an unresolved chat ends the delivery without one.                *)
DispatchInbound(d) ==
    /\ box[d].op = "uploaded"
    /\ \E s \in SelectSkill(d) :
           box' = [box EXCEPT ![d].skill = s,
                              ![d].op = IF ~Streams(box[d].ch) THEN "running"
                                        ELSE IF gatewayUp THEN "begin" ELSE "ok"]
    /\ UNCHANGED <<identities, allowlist, defaults, gatewayUp, library, slash, chat>>

(* _DiscordSink.begin: an API failure is not caught here.                    *)
Begin(d) ==
    /\ box[d].op = "begin"
    /\ \/ /\ chat' = [chat EXCEPT ![d].holder = Thinking]
          /\ Goto(d, "running")
       \/ Goto(d, "failed") /\ UNCHANGED chat
    /\ UNCHANGED <<identities, allowlist, defaults, gatewayUp, library, slash>>
-----------------------------------------------------------------------------
(* _safe_edit: the placeholder shows the text, or the edit is lost.          *)
SafeEdit(d, text) ==
    \/ chat' = [chat EXCEPT ![d].holder = text]
    \/ chat' = [chat EXCEPT ![d].lost = @ + 1]

Splice(d, c) == box' = [box EXCEPT ![d].parts = Append(@, c), ![d].seen = @ + 1]
Hear(d) == box[d].op = "running" /\ box[d].seen < MaxEvents
Unspliced(d) == box' = [box EXCEPT ![d].seen = @ + 1]

(* AGUIChannelRenderer.run, TEXT_MESSAGE_CONTENT: at most one edit per       *)
(* interval, clipped, and a failed edit is swallowed.                        *)
TextContent(d) ==
    /\ Hear(d)
    /\ \E c \in {"w", "gap"} :
           /\ Splice(d, c)
           /\ \/ UNCHANGED chat
              \/ /\ Streams(box[d].ch)
                 /\ LET all == Append(box[d].parts, c)
                    IN  chat' = [chat EXCEPT ![d].holder =
                                     SubSeq(all, 1, Min({Len(all), MaxLength}))]
    /\ UNCHANGED <<identities, allowlist, defaults, gatewayUp, library, slash>>

(* TOOL_CALL_START and STAGE_PROGRESS: spliced where the channel has no      *)
(* affordance of its own and shows progress at all.                          *)
ShowProgress(d) ==
    /\ Hear(d)
    /\ IF Streams(box[d].ch) THEN Splice(d, "p") ELSE Unspliced(d)
    /\ UNCHANGED <<identities, allowlist, defaults, gatewayUp, library, slash, chat>>

(* Faulty variant of RenderSurface: a failed embed leaves no words behind.  *)
RenderSurfaceDropped(d) ==
    /\ Hear(d)
    /\ Streams(box[d].ch)
    /\ \/ UNCHANGED chat
       \/ chat' = [chat EXCEPT ![d].posts = Append(@, <<"S">>)]
    /\ box' = [box EXCEPT ![d].seen = @ + 1, ![d].surfaces = @ + 1]
    /\ UNCHANGED <<identities, allowlist, defaults, gatewayUp, library, slash>>

(* render_surface: an embed of its own on Discord when the projection and    *)
(* the send succeed, else words in the reply.                                *)
RenderSurface(d) ==
    /\ Hear(d)
    /\ \/ /\ box' = [box EXCEPT ![d].parts = Append(@, "s"), ![d].seen = @ + 1,
                                ![d].surfaces = @ + 1]
          /\ UNCHANGED chat
       \/ /\ Streams(box[d].ch)
          /\ chat' = [chat EXCEPT ![d].posts = Append(@, <<"S">>)]
          /\ box' = [box EXCEPT ![d].seen = @ + 1, ![d].surfaces = @ + 1]
    /\ UNCHANGED <<identities, allowlist, defaults, gatewayUp, library, slash>>

(* RUN_ERROR, also the synthetic one of stream_skill_events for a skill that *)
(* is missing or denied: it replaces whatever was collected.                 *)
RunError(d) ==
    /\ box[d].op = "running"
    /\ IF Streams(box[d].ch)
       THEN SafeEdit(d, ErrorText) /\ Goto(d, "ok")
       ELSE /\ box' = [box EXCEPT ![d].op = "sending", ![d].parts = ErrorText,
                                  ![d].surfaces = 0]
            /\ UNCHANGED chat
    /\ UNCHANGED <<identities, allowlist, defaults, gatewayUp, library, slash>>

(* The stream raises: the exception leaves the handler and the webhook       *)
(* answers 500.                                                              *)
RunRaises(d) ==
    /\ box[d].op = "running"
    /\ Goto(d, "failed")
    /\ UNCHANGED <<identities, allowlist, defaults, gatewayUp, library, slash, chat>>

FinalText(d) ==
    LET joined == IF Streams(box[d].ch) THEN Stripped(box[d].parts) ELSE box[d].parts
    IN  IF joined = <<>> THEN NoResponseText ELSE joined

(* RUN_FINISHED, or the stream just ends. Discord: finish edits the first    *)
(* chunk into the placeholder and posts the others.                          *)
RunFinished(d) ==
    /\ box[d].op = "running"
    /\ IF Streams(box[d].ch)
       THEN LET chunks == ChunkMessage(FinalText(d))
            IN  /\ SafeEdit(d, chunks[1])
                /\ box' = [box EXCEPT ![d].op = "sending", ![d].parts = Tail(chunks),
                                      ![d].reply = FinalText(d)]
       ELSE /\ box' = [box EXCEPT ![d].op = "sending", ![d].parts = FinalText(d),
                                  ![d].reply = FinalText(d)]
            /\ UNCHANGED chat
    /\ UNCHANGED <<identities, allowlist, defaults, gatewayUp, library, slash>>

(* send of Discord: it raises on a chunk it cannot post, and sends nothing   *)
(* to a chat it cannot resolve. The chunks behind an edited placeholder go   *)
(* the same way.                                                             *)
SendDiscord(d) ==
    /\ box[d].op = "sending" /\ box[d].ch = "discord"
    /\ LET chunks == IF box[d].reply # None THEN box[d].parts ELSE ChunkMessage(box[d].parts)
           Post(n, lost, op) ==
               /\ chat' = [chat EXCEPT ![d].posts = @ \o SubSeq(chunks, 1, n), ![d].lost = @ + lost]
               /\ Goto(d, op)
       IN  \/ gatewayUp /\ Post(Len(chunks), 0, "ok")
           \/ gatewayUp /\ \E n \in 0..(Len(chunks) - 1) : Post(n, 1, "failed")
           \/ ~gatewayUp /\ Post(0, 1, "ok")
    /\ UNCHANGED <<identities, allowlist, defaults, gatewayUp, library, slash>>

Nth(numbers, k) == CHOOSE n \in numbers : Cardinality({m \in numbers : m <= n}) = k

(* send of Telegram and WhatsApp: a chunk that fails is skipped.             *)
SendChunks(d) ==
    /\ box[d].op = "sending" /\ box[d].ch \in {"telegram", "whatsapp"}
    /\ LET chunks == ChunkMessage(box[d].parts)
       IN  \E got \in SUBSET DOMAIN chunks :
               chat' = [chat EXCEPT
                   ![d].posts = @ \o [k \in 1..Cardinality(got) |-> chunks[Nth(got, k)]],
                   ![d].lost = @ + Len(chunks) - Cardinality(got)]
    /\ Goto(d, "ok")
    /\ UNCHANGED <<identities, allowlist, defaults, gatewayUp, library, slash>>

(* send of e-mail: one message; a failure is logged.                         *)
SendEmail(d) ==
    /\ box[d].op = "sending" /\ box[d].ch = "email"
    /\ \/ chat' = [chat EXCEPT ![d].posts = Append(@, box[d].parts)]
       \/ chat' = [chat EXCEPT ![d].lost = @ + 1]
    /\ Goto(d, "ok")
    /\ UNCHANGED <<identities, allowlist, defaults, gatewayUp, library, slash>>

(* The provider delivers again what was answered with an error; nothing      *)
(* remembers the first delivery. A gateway event is never repeated.          *)
Redeliver(d) ==
    /\ box[d].op = "failed" /\ box[d].ch # "discord" /\ box[d].tries < MaxTries
    /\ box' = [box EXCEPT ![d] = [@ EXCEPT !.op = "parsed", !.parts = <<>>, !.seen = 0,
                                           !.surfaces = 0, !.tries = @ + 1]]
    /\ UNCHANGED <<identities, allowlist, defaults, gatewayUp, library, slash, chat>>

(* register_slash_commands: read the lock, put the command set, write the    *)
(* lock.                                                                     *)
RegisterSlashCommands(n) ==
    /\ \/ /\ slash.at[n] = "start"
          /\ slash' = [slash EXCEPT !.at[n] = IF slash.lock THEN "skipped" ELSE "put"]
       \/ /\ slash.at[n] = "put"
          /\ \/ slash' = [slash EXCEPT !.at[n] = "done", !.lock = TRUE]
             \/ slash' = [slash EXCEPT !.at[n] = "failed"]
    /\ UNCHANGED <<identities, allowlist, defaults, gatewayUp, box, library, chat>>

ChannelNext ==
    \/ \E d \in Deliveries :
           \/ HandleWebhook(d) \/ Resolve(d) \/ OnUnknownUser(d) \/ HandleCommand(d)
           \/ Upload(d) \/ DispatchInbound(d) \/ Begin(d) \/ TextContent(d)
           \/ ShowProgress(d) \/ RenderSurface(d) \/ RunError(d) \/ RunRaises(d)
           \/ RunFinished(d) \/ SendDiscord(d) \/ SendChunks(d) \/ SendEmail(d)
           \/ Redeliver(d)
    \/ \E i \in Identity : ImportMapping(i)
    \/ \E n \in Instances : RegisterSlashCommands(n)

ChannelSpec == ChannelInit /\ [][ChannelNext]_channelVars
-----------------------------------------------------------------------------
ChannelTypeOK ==
    /\ identities \in [Identity -> {None, TRUE, FALSE}]
    /\ defaults \in [Identity -> ChannelSkills \cup {None}]
    /\ allowlist \subseteq ChatUsers
    /\ \A d \in Deliveries : chat[d].lost \in Nat

(* What the author of a delivery sees, the placeholder first.                *)
Visible(d) ==
    (IF chat[d].holder = None THEN <<>> ELSE <<chat[d].holder>>) \o chat[d].posts
WithLetter(letters, c) == IF c \in {"gap", "S"} THEN letters ELSE Append(letters, c)
Letters(text) ==
    LET first[n \in 0..Len(text)] == IF n = 0 THEN <<>> ELSE WithLetter(first[n - 1], text[n])
    IN  first[Len(text)]
Count(text, S) == Cardinality({i \in 1..Len(text) : text[i] \in S})

(* When a run finishes and no send was lost, its author sees the whole reply  *)
(* in order, cut in messages the channel accepts, and every surface of the    *)
(* run, as an embed or in words (_DiscordSink.render_surface: a surface       *)
(* degrades, it never vanishes).                                              *)
RepliesWhole ==
    \A d \in Deliveries :
        (box[d].op = "ok" /\ box[d].reply # None /\ chat[d].lost = 0) =>
            LET all == FlattenSeq(Visible(d))
            IN  /\ Letters(all) = Letters(box[d].reply)
                /\ Count(all, {"s", "S"}) = box[d].surfaces
                /\ Chunked(box[d].ch) => \A k \in DOMAIN Visible(d) : Len(Visible(d)[k]) <= MaxLength
=============================================================================
