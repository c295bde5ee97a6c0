--------------------------- MODULE MCConversations ---------------------------
(* Conversations for TLC: the index row of a session, the lists and reports *)
(* over the rows, the views of its events, its compaction and the messaging *)
(* channels. They share no variable, so a behaviour is one of any one of    *)
(* them (part) while the others rest in an initial state.                   *)
EXTENDS SessionIndex, SessionQueries, Compaction, Channels

CONSTANT ConversationParts

VARIABLE part

ConversationsInit ==
    /\ part \in ConversationParts
    /\ SessionInit /\ (part # "index" => row = None)
    /\ QueryInit /\ (part # "queries" => \A r \in RowIds : ~index[r].provisional /\ ~index[r].malformed)
    /\ ViewInit /\ (part # "views" => subject = "events")
    /\ CompactionInit
    /\ ChannelInit
    /\ (part # "channels" => identities = [i \in Identity |-> None] /\ allowlist = {} /\ gatewayUp)

ConversationsNext ==
    \/ part = "index" /\ SessionNext
       /\ UNCHANGED <<part, queryVars, viewVars, compactionVars, channelVars>>
    \/ part = "queries" /\ QueryNext
       /\ UNCHANGED <<part, sessionVars, viewVars, compactionVars, channelVars>>
    \/ part = "views" /\ ViewNext
       /\ UNCHANGED <<part, sessionVars, queryVars, compactionVars, channelVars>>
    \/ part = "compaction" /\ CompactionNext
       /\ UNCHANGED <<part, sessionVars, queryVars, viewVars, channelVars>>
    \/ part = "channels" /\ ChannelNext
       /\ UNCHANGED <<part, sessionVars, queryVars, viewVars, compactionVars>>

ConversationsSpec ==
    /\ ConversationsInit
    /\ [][ConversationsNext]_<<part, sessionVars, queryVars, viewVars, compactionVars, channelVars>>
-----------------------------------------------------------------------------
(* What history and traces show is what happened: search neither skips nor  *)
(* repeats rows that stayed put, a tool result is shown with its own call,  *)
(* the results list holds results only, and the rows, summaries and         *)
(* messages they are read from are well formed (SearchComplete,             *)
(* TraceTruthful, ResultsHonest and the type invariants).                   *)
HistoryHonest ==
    /\ SearchComplete /\ TraceTruthful /\ ResultsHonest
    /\ SessionTypeOK /\ CompactionTypeOK /\ ChannelTypeOK
=============================================================================
