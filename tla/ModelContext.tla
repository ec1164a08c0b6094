------------------------------ MODULE ModelContext ------------------------------
(***************************************************************************)
(* The messages of one request to the model (sidepanel/services/           *)
(* aiClient.ts): they are built from the history, the page, the user's     *)
(* request and the tool exchanges of the run, and fitted into the context  *)
(* window by leaving out whole units and then shortening single messages.  *)
(* An agent run makes one request after another; its exchanges grow.       *)
(* A message has text, which may be shortened, and a fixed part: calls     *)
(* with the reasoning before them, and images. Sizes are coarse tokens.    *)
(***************************************************************************)
EXTENDS Naturals, Sequences, FiniteSets, FiniteSetsExt, Selections

CONSTANTS
    Budgets,        \* tokens left for messages, messageBudgetTokens, of each model
    Exact,          \* EXACT_TOOL_EXCHANGE_CONTEXT_LIMIT, 12 in the code
    Sizes,          \* texts of questions, answers, pages and results
    MaxExchanges,
    Histories       \* kinds of the messages of earlier turns

ASSUME ContextAssumption ==
    /\ {Exact, MaxExchanges} \cup Budgets \subseteq Nat /\ Sizes \subseteq Nat \ {0}
    /\ Exact > 0
    /\ \A history \in Histories : history \in Seq({"question", "answer", "priorTool"})

VARIABLES
    window,      \* of the model that is asked
    opening,     \* what buildMessages returns for this turn
    exchanges,   \* of the run so far: a sequence of [results, size, images]
    checkpoint,  \* visualCheckpoint of the next request
    continuing,  \* its requireContinuation
    fitting,     \* the messages of the request
    requested,   \* "idle", "fitting", "sent", "failed" or "answered"
    built,       \* history: the messages before they were fitted
    repeats      \* generations thrown away because they repeated themselves

contextVars == <<window, opening, exchanges, checkpoint, continuing, fitting, requested, built, repeats>>

-----------------------------------------------------------------------------
(* Messages *)

RoleOf == [system |-> "system", remembered |-> "system", question |-> "user",
           answer |-> "assistant", priorTool |-> "user", page |-> "user", request |-> "user",
           olderRounds |-> "user", calls |-> "assistant", result |-> "tool", images |-> "user",
           checkpoint |-> "user", evidence |-> "system", continue |-> "user",
           again |-> "system"]

CategoryOf == [system |-> "system", remembered |-> "conversation_memory",
               question |-> "conversation", answer |-> "conversation",
               priorTool |-> "tool_results", page |-> "page_context",
               request |-> "conversation", olderRounds |-> "tool_results",
               calls |-> "tool_results", result |-> "tool_results",
               images |-> "tool_results", checkpoint |-> "page_context",
               evidence |-> "system", continue |-> "system", again |-> "system"]

\* contextUnitEvictionScore, without the fraction that prefers the older of two.
ScoreOf == [page_context |-> 100, tool_results |-> 85, conversation |-> 50,
            conversation_memory |-> 5, system |-> 0]

\* n tells apart messages of one kind: the round of an exchange, or a result of it.
Message(kind, n, text, fixed) == [kind |-> kind, n |-> n, text |-> text, fixed |-> fixed]
Role(m) == RoleOf[m.kind]
Category(m) == CategoryOf[m.kind]
Score(m) == ScoreOf[Category(m)]

Tokens(list) ==
    LET upTo[n \in 0 .. Len(list)] ==
            IF n = 0 THEN 0 ELSE upTo[n - 1] + list[n].text + list[n].fixed
    IN  upTo[Len(list)]
Excess(list) == IF Tokens(list) > window THEN Tokens(list) - window ELSE 0

\* The last index of a set, 0 of none: findLastMessageIndexMatching.
LastOf(S) == IF S = {} THEN 0 ELSE Max(S)
LastWithRole(list, role) == LastOf({i \in DOMAIN list : Role(list[i]) = role})

-----------------------------------------------------------------------------
(* buildMessages, appendToolExchanges, appendVisualCheckpoint *)

ResultMessages(k) == [i \in 1 .. exchanges[k].results |-> Message("result", k, exchanges[k].size, 0)]
ImageMessages(k) == IF exchanges[k].images THEN <<Message("images", k, 1, 2)>> ELSE <<>>
ExchangeMessages(k) == <<Message("calls", k, 0, 1)>> \o ResultMessages(k) \o ImageMessages(k)

RecentStart == IF Len(exchanges) > Exact THEN Len(exchanges) - Exact ELSE 0

ToolMessages ==
    (IF RecentStart > 0 THEN <<Message("olderRounds", 0, RecentStart, 0)>> ELSE <<>>)
        \o Flattened([k \in 1 .. (Len(exchanges) - RecentStart) |->
                         ExchangeMessages(RecentStart + k)])

CheckpointMessages == IF checkpoint THEN <<Message("checkpoint", 0, 1, 2)>> ELSE <<>>

\* The request after k repetitive generations: one more system message in the second
\* attempt, the exchanges as one message in the last one.
PortableSummary ==
    <<Message("olderRounds", 0, 2, 0)>> \o Flattened([k \in DOMAIN exchanges |-> ImageMessages(k)])

AfterTools ==
    IF repeats = 2 /\ exchanges # <<>>
    THEN PortableSummary \o CheckpointMessages \o <<Message("again", 0, 1, 0)>>
    ELSE ToolMessages \o CheckpointMessages
         \o (IF exchanges # <<>> THEN <<Message("evidence", 0, 1, 0)>> ELSE <<>>)
         \o (IF continuing THEN <<Message("continue", 0, 1, 0)>> ELSE <<>>)
         \o (IF repeats = 1 THEN <<Message("again", 0, 1, 0)>> ELSE <<>>)

\* A turn's opening: the history, what is remembered, the page and the request.
Opening(history, recalled, opened, size) ==
    <<Message("system", 0, 1, 0)>>
        \o (IF recalled THEN <<Message("remembered", 0, 1, 0)>> ELSE <<>>)
        \o [i \in DOMAIN history |-> Message(history[i], i, size, 0)]
        \o (IF opened THEN <<Message("page", 0, size, 0)>> ELSE <<>>)
        \o <<Message("request", 0, size, 0)>>
Openings == {Opening(history, recalled, opened, size) :
                history \in Histories, recalled \in BOOLEAN, opened \in BOOLEAN, size \in Sizes}

ContextInit ==
    /\ window \in Budgets /\ opening \in Openings
    /\ exchanges = <<>> /\ checkpoint = FALSE /\ continuing = FALSE
    /\ fitting = <<>> /\ built = <<>> /\ requested = "idle" /\ repeats = 0

BuildRequest ==
    /\ requested = "idle"
    /\ built' = opening \o AfterTools
    /\ fitting' = built' /\ requested' = "fitting"
    /\ UNCHANGED <<window, opening, exchanges, checkpoint, continuing, repeats>>

-----------------------------------------------------------------------------
(* fitMessagesToContextWindow *)

\* The messages that start a unit; a tool message belongs to the calls before it.
\* Mutant of Starts: every message is a unit of its own.
StartsAlone(list) == DOMAIN list
Starts(list) == {i \in DOMAIN list : Role(list[i]) # "tool"}
UnitOf(list, i) ==
    LET starts == Starts(list)
    IN  {j \in i .. Len(list) : \A k \in (i + 1) .. j : k \notin starts}

LastAnswer(list) ==
    LastOf({i \in DOMAIN list : list[i].kind = "answer" /\ list[i].text > 0})
QuestionBefore(list, i) ==
    LastOf({j \in DOMAIN list : j < i /\ Role(list[j]) = "user"
                                /\ Category(list[j]) = "conversation"})

\* From the last tool message back to its calls.
LatestExchange(list) ==
    LET last == LastWithRole(list, "tool")
    IN  {i \in 1 .. last : \A j \in (i + 1) .. last : Role(list[j]) # "assistant"}

Pinned(list) ==
    {i \in DOMAIN list : Role(list[i]) = "system"}
        \cup ({LastWithRole(list, "user"), LastAnswer(list),
               QuestionBefore(list, LastAnswer(list))} \ {0})
        \cup LatestExchange(list)

Evictable(list) ==
    LET pinned == Pinned(list) IN {i \in Starts(list) : UnitOf(list, i) \cap pinned = {}}

\* Of these units, the one that goes first: of the highest score, then the oldest.
Evicted(list, units) ==
    CHOOSE i \in units : \A j \in units :
        \/ Score(list[i]) > Score(list[j])
        \/ Score(list[i]) = Score(list[j]) /\ i <= j

EvictUnit ==
    /\ requested = "fitting" /\ Excess(fitting) > 0
    /\ LET units == Evictable(fitting)
           unit == UnitOf(fitting, Evicted(fitting, units))
       IN  /\ units # {}
           /\ fitting' = SubSeq(fitting, 1, Min(unit) - 1)
                            \o SubSeq(fitting, Max(unit) + 1, Len(fitting))
    /\ UNCHANGED <<window, opening, exchanges, checkpoint, continuing, requested, built, repeats>>

\* The oldest message that may be shortened and has more than is always retained.
Shortenable(list) ==
    {i \in DOMAIN list : /\ i # LastWithRole(list, "user")
                         /\ Role(list[i]) # "system" /\ list[i].text > 1}

\* It loses what is too much, or all but what is retained.
ShortenMessage ==
    /\ requested = "fitting" /\ Excess(fitting) > 0
    /\ Evictable(fitting) = {} /\ Shortenable(fitting) # {}
    /\ LET i == Min(Shortenable(fitting))
       IN  fitting' = [fitting EXCEPT ![i].text =
                          IF @ > Excess(fitting) + 1 THEN @ - Excess(fitting) ELSE 1]
    /\ UNCHANGED <<window, opening, exchanges, checkpoint, continuing, requested, built, repeats>>

SendToModel ==
    /\ requested = "fitting" /\ Excess(fitting) = 0
    /\ requested' = "sent"
    /\ UNCHANGED <<window, opening, exchanges, checkpoint, continuing, fitting, built, repeats>>

\* AI_CONTEXT_BUDGET_EXCEEDED.
RefuseContext ==
    /\ requested = "fitting" /\ Excess(fitting) > 0
    /\ Evictable(fitting) = {} /\ Shortenable(fitting) = {}
    /\ requested' = "failed"
    /\ UNCHANGED <<window, opening, exchanges, checkpoint, continuing, fitting, built, repeats>>

-----------------------------------------------------------------------------
(* streamAiChatAfterTools and the run that calls it *)

\* The model asks for tools, which the run executes before its next request.
CallsTools ==
    /\ requested = "sent" /\ Len(exchanges) < MaxExchanges
    /\ repeats < 2
    /\ \E results \in 1 .. 2, size \in Sizes, images \in BOOLEAN, look \in BOOLEAN :
        /\ exchanges' = Append(exchanges, [results |-> results, size |-> size, images |-> images])
        /\ checkpoint' = look /\ continuing' \in BOOLEAN
    /\ requested' = "idle" /\ fitting' = <<>> /\ built' = <<>> /\ repeats' = 0
    /\ UNCHANGED <<window, opening>>

\* AiRepetitiveOutputError: the generation is thrown away and the request made again.
RepeatsItself ==
    /\ requested = "sent" /\ exchanges # <<>> /\ repeats < 2
    /\ repeats' = repeats + 1
    /\ requested' = "idle" /\ fitting' = <<>> /\ built' = <<>>
    /\ UNCHANGED <<window, opening, exchanges, checkpoint, continuing>>

Answers ==
    /\ requested = "sent"
    /\ requested' = "answered"
    /\ UNCHANGED <<window, opening, exchanges, checkpoint, continuing, fitting, built, repeats>>

ContextNext ==
    \/ BuildRequest \/ EvictUnit \/ ShortenMessage \/ SendToModel \/ RefuseContext
    \/ CallsTools \/ RepeatsItself \/ Answers

ContextSpec == ContextInit /\ [][ContextNext]_contextVars

-----------------------------------------------------------------------------
(* Properties *)

\* Types.
ContextTypeOK ==
    /\ requested \in {"idle", "fitting", "sent", "failed", "answered"}
    /\ \A i \in DOMAIN fitting : fitting[i].text \in Nat /\ fitting[i].kind \in DOMAIN RoleOf
    /\ Len(exchanges) <= MaxExchanges /\ {checkpoint, continuing} \subseteq BOOLEAN /\ repeats \in 0 .. 2

InRequest(kind, n) == {i \in DOMAIN fitting : fitting[i].kind = kind /\ fitting[i].n = n}

\* Providers refuse a result without its calls and calls without all their results.
ExchangeIsWhole(k) ==
    LET c == InRequest("calls", k)
        r == InRequest("result", k)
    IN  \/ c = {} /\ r = {}
        \/ /\ Cardinality(c) = 1 /\ Cardinality(r) = exchanges[k].results
           /\ \A i \in c : r = (i + 1) .. (i + exchanges[k].results)

\* What the built request has at index i is in the request that is sent.
Kept(i) == InRequest(built[i].kind, built[i].n) # {}

\* A request that is sent fits into the window, and however many units were left out and
\* messages shortened, every exchange in it is whole, the latest one, all trusted
\* instructions, what is remembered and the previous turn are in it ("removes old history
\* but preserves the latest tool exchange", "preserves the latest coherent conversation
\* turn before page context").
RequestIsSound ==
    requested = "sent" =>
        /\ Tokens(fitting) <= window
        /\ \A k \in DOMAIN exchanges : ExchangeIsWhole(k)
        /\ \A i \in DOMAIN built :
              (\/ Role(built[i]) = "system"
               \/ built[i].kind = "result" /\ built[i].n = Len(exchanges)
               \/ i = LastAnswer(built)
               \/ i = QuestionBefore(built, LastAnswer(built)))
              => Kept(i)

\* "保留系统消息、最新用户请求和最近工具交换" (aiClient.ts:958: the latest request of the
\* user is kept). The code does not keep it: the last message in the role of the user is
\* kept, which after a tool exchange may be an image, a checkpoint or the instruction to
\* continue, and the request is then left out like any older question.
RequestIsKept == requested = "sent" => InRequest("request", 0) # {}

=============================================================================
