------------------------------ MODULE PanelRuns ------------------------------
(***************************************************************************)
(* The conversations of the side panel (sidepanel/App.tsx) with the agent  *)
(* runs it follows (sidepanel/services/agentRunRegistry.ts), the queue of  *)
(* messages that wait for a run to end (sidepanel/chatQueue.ts), and the   *)
(* acceptance of delegated tasks.                                          *)
(*                                                                         *)
(* An event of the page runs to its end; what it does after an await, in   *)
(* a timer or in an effect is an action of its own.  How a run is started, *)
(* cancelled and ended in the daemon is in DaemonRuns.  Of a conversation's*)
(* messages the model keeps the runs whose final answer it shows.          *)
(***************************************************************************)
EXTENDS Naturals, Sequences, FiniteSets, SequencesExt, Selections

CONSTANTS
    Chats,        \* ids of conversations
    Submissions,  \* messages of the user, which are the ids of their runs
    Delegated,    \* those that are delegated tasks
    Nothing,
    MaxQueued,    \* MAX_QUEUED_CHAT_SUBMISSIONS
    MaxPanels     \* bound: reloads of the panel

\* A run the panel follows: an ActiveAgentRun.
Followed == [run : Submissions, stage : {"preparing", "running", "clearing", "remote"}, aborted : BOOLEAN]

ASSUME PanelAssumption ==
    /\ Delegated \subseteq Submissions /\ Chats # {}
    /\ Nothing \notin Chats \cup Submissions \cup Followed
    /\ MaxQueued \in Nat \ {0} /\ MaxPanels \in Nat

VARIABLES
    openChat,        \* conversationIdRef
    chats,        \* storedConversations, the one that is open included
    used,         \* ids of conversations that have been made
    flagged,      \* deletedAgentConversationIdsRef
    registry,     \* AgentRunRegistry: the run of each conversation, or Nothing
    latest,       \* latestRunIdByConversation
    interrupted,  \* interruptedRunByConversationRef
    waitingList,  \* queuedChatSubmissionsRef
    due,          \* submissions a timer will start
    answered,     \* conversationMessagesRef: the runs with a final answer
    task,         \* acceptDelegatedTask: what its claim waits with, or Nothing
    belongs,      \* conversation of each submission that was made
    session,      \* daemon: state of each run
    seen,         \* restoredAgentSessionVersionsRef: the state the panel has shown
    panels,
    given,        \* history: runs whose final answer the panel has been given
    rolledBack,   \* history: conversations set back to an older copy
    passedOver,   \* history: conversations whose last run left without starting the next
    refused       \* history: submissions that met a run in their conversation

chatVars == <<openChat, chats, used, flagged, answered>>
appRunVars == <<registry, latest, interrupted, waitingList, due>>
runHistory == <<given, rolledBack, passedOver, refused>>
panelAppVars == <<chatVars, appRunVars, task, belongs, session, seen, panels, runHistory>>

First == CHOOSE c \in Chats : TRUE

PanelAppInit ==
    /\ openChat = First /\ chats = {First} /\ used = {First} /\ flagged = {}
    /\ registry = [c \in Chats |-> Nothing] /\ latest = [c \in Chats |-> Nothing]
    /\ interrupted = [c \in Chats |-> Nothing]
    /\ waitingList = <<>> /\ due = {}
    /\ answered = [c \in Chats |-> {}]
    /\ task = Nothing /\ belongs = [s \in Submissions |-> Nothing]
    /\ session = [s \in Submissions |-> "none"] /\ seen = session /\ panels = 0
    /\ given = {} /\ rolledBack = {} /\ passedOver = {} /\ refused = {}

Local(c)  == registry[c] # Nothing /\ registry[c].stage # "remote"
Remote(c) == registry[c] # Nothing /\ registry[c].stage = "remote"

\* replaceConversationMessages: messages go to the conversation of their run, open or
\* not, unless it is deleted. Mutant: they go where the user looks.
OpenOne(c) == openChat
Addressee(c) == c
Show(s, c) ==
    answered' = IF c \in flagged THEN answered ELSE [answered EXCEPT ![Addressee(c)] = @ \cup {s}]

----------------------------------------------------------------------------
(* Runs *)

\* The part of runChatSubmission before its first await: the question about what the
\* assistant can do and an incomplete configuration are answered without a run, and
\* AgentRunRegistry.start refuses a second run.
Begin(s, c, superseded) ==
    /\ interrupted' = IF superseded # Nothing /\ interrupted[c] = superseded
                      THEN [interrupted EXCEPT ![c] = Nothing] ELSE interrupted
    /\ \/ /\ Show(s, c)
          /\ given' = given \cup {s} /\ passedOver' = passedOver \cup {c}
          /\ UNCHANGED <<registry, latest, refused>>
       \/ /\ registry[c] = Nothing
          /\ registry' = [registry EXCEPT ![c] = [run |-> s, stage |-> "preparing", aborted |-> FALSE]]
          /\ latest' = [latest EXCEPT ![c] = s]
          /\ UNCHANGED <<answered, given, passedOver, refused>>
       \/ /\ registry[c] # Nothing
          /\ refused' = refused \cup {s}
          /\ UNCHANGED <<registry, latest, answered, given, passedOver>>

\* supersedeActiveAgentRun: the abort of a remote run is sent to the daemon at once.
Supersede(c) ==
    IF registry[c] = Nothing THEN UNCHANGED <<registry, interrupted>>
    ELSE /\ interrupted' = [interrupted EXCEPT ![c] = registry[c].run]
         /\ registry' = [registry EXCEPT ![c].aborted = TRUE]
Superseded(c) == IF registry[c] # Nothing THEN registry[c].run ELSE interrupted[c]

\* Ids are fresh; which one is taken makes no difference.
Unsent(from) == {s \in from : belongs[s] = Nothing}
FreshIn(set) == IF set = {} THEN {} ELSE {CHOOSE x \in set : TRUE}

\* handleSendChat
SendChat(s, forced) ==
    /\ belongs' = [belongs EXCEPT ![s] = openChat]
    /\ IF registry[openChat] = Nothing
       THEN Begin(s, openChat, interrupted[openChat]) /\ UNCHANGED waitingList
       ELSE /\ Len(waitingList) < MaxQueued
            /\ LET m == [sub |-> s, in |-> openChat,
                         after |-> IF forced THEN registry[openChat].run ELSE interrupted[openChat]]
               IN  waitingList' = IF forced THEN <<m>> \o waitingList ELSE Append(waitingList, m)
            /\ IF forced THEN Supersede(openChat) ELSE UNCHANGED <<registry, interrupted>>
            /\ UNCHANGED <<latest, answered, given, passedOver, refused>>
    /\ UNCHANGED <<openChat, chats, used, flagged, due, task, session, seen, panels, rolledBack>>

\* handleStopAi
StopAgent ==
    /\ registry[openChat] # Nothing /\ ~registry[openChat].aborted
    /\ Supersede(openChat)
    /\ UNCHANGED <<chatVars, latest, waitingList, due, task, belongs, session, seen, panels, runHistory>>

\* runQueuedChatSubmissionNow: a submission whose conversation has no run only moves.
RunQueuedNow(i) ==
    /\ LET m == waitingList[i]
           now == IF Superseded(m.in) = Nothing THEN m ELSE [m EXCEPT !.after = Superseded(m.in)]
       IN  /\ waitingList' = <<now>> \o RemoveAt(waitingList, i)
           /\ Supersede(m.in)
    /\ UNCHANGED <<chatVars, latest, due, task, belongs, session, seen, panels, runHistory>>

\* removeQueuedChatSubmission; clearQueuedChatSubmissions removes them all.
RemoveQueued(i) ==
    /\ waitingList' = RemoveAt(waitingList, i)
    /\ UNCHANGED <<chatVars, registry, latest, interrupted, due, task, belongs, session, seen, panels, runHistory>>

\* The binding, the tools and the connection are awaited; the daemon takes the run unless
\* the conversation has another.
StartInDaemon(c) ==
    /\ Local(c) /\ registry[c].stage = "preparing" /\ ~registry[c].aborted
    /\ \A s \in Submissions : belongs[s] = c => session[s] # "running"
    /\ registry' = [registry EXCEPT ![c].stage = "running"]
    /\ session' = [session EXCEPT ![registry[c].run] = "running"]
    /\ UNCHANGED <<chatVars, latest, interrupted, waitingList, due, task, belongs, seen, panels, runHistory>>

EndInDaemon(s) ==
    /\ session[s] = "running"
    /\ session' = [session EXCEPT ![s] = "over"]
    /\ UNCHANGED <<chatVars, appRunVars, task, belongs, seen, panels, runHistory>>

\* The promise of the run is settled, by its result or by an error; the update of its
\* session has come before over the same socket.
SettleRun(c) ==
    /\ Local(c)
    /\ \/ registry[c].stage = "preparing"
       \/ registry[c].stage = "running" /\ session[registry[c].run] = "over"
    /\ Show(registry[c].run, c)
    /\ given' = IF c \in flagged THEN given ELSE given \cup {registry[c].run}
    /\ registry' = [registry EXCEPT ![c].stage = "clearing"]
    /\ seen' = [seen EXCEPT ![registry[c].run] = session[registry[c].run]]
    /\ UNCHANGED <<openChat, chats, used, flagged, latest, interrupted, waitingList, due, task, belongs,
                   session, panels, rolledBack, passedOver, refused>>

\* The submission the end of a run starts next. Mutant: one of the open conversation.
NextOfOpen(c) == SelectInSeq(waitingList, LAMBDA m : m.in = openChat)
NextOf(c) == SelectInSeq(waitingList, LAMBDA m : m.in = c)

\* The finally block, after the pointer of the agent has been cleared: sendRuntimeRequest
\* answers an error and is never rejected (messaging.ts:107).
FinishRun(c) ==
    /\ Local(c) /\ registry[c].stage = "clearing"
    /\ registry' = [registry EXCEPT ![c] = Nothing]
    /\ flagged' = flagged \ {c}
    /\ IF NextOf(c) = 0 THEN UNCHANGED <<waitingList, due>>
       ELSE /\ due' = due \cup {waitingList[NextOf(c)]}
            /\ waitingList' = RemoveAt(waitingList, NextOf(c))
    /\ passedOver' = passedOver \ {c}
    /\ UNCHANGED <<openChat, chats, used, answered, latest, interrupted, task, belongs, session, seen, panels,
                   given, rolledBack, refused>>

StartDue(m) ==
    /\ due' = due \ {m}
    /\ Begin(m.sub, m.in, m.after)
    /\ UNCHANGED <<openChat, chats, used, flagged, waitingList, task, belongs, session, seen, panels, rolledBack>>

----------------------------------------------------------------------------
(* Conversations *)

Make(c) == used' = used \cup {c} /\ openChat' = c

\* clearChat
NewChat(c) ==
    /\ Make(c) /\ chats' = chats \cup {c}
    /\ UNCHANGED <<flagged, answered, appRunVars, task, belongs, session, seen, panels, runHistory>>

\* startConversationBranch, for a retry or an edited message: its timer is set.
BranchChat(c, s) ==
    /\ registry[openChat] = Nothing /\ NextOf(openChat) = 0 /\ answered[openChat] # {}
    /\ Make(c) /\ chats' = chats \cup {c}
    /\ belongs' = [belongs EXCEPT ![s] = c]
    /\ due' = due \cup {[sub |-> s, in |-> c, after |-> Nothing]}
    /\ UNCHANGED <<flagged, answered, registry, latest, interrupted, waitingList, task, session, seen, panels,
                   runHistory>>

\* openStoredConversation
OpenChat(c) ==
    /\ c \in chats \ {openChat}
    /\ openChat' = c
    /\ UNCHANGED <<chats, used, flagged, answered, appRunVars, task, belongs, session, seen, panels, runHistory>>

\* deleteStoredConversation, with planConversationDeletion
DeleteChat(c) ==
    /\ c \in chats \ {openChat}
    /\ chats' = chats \ {c}
    /\ IF registry[c] = Nothing THEN UNCHANGED <<flagged, registry>>
       ELSE flagged' = flagged \cup {c} /\ registry' = [registry EXCEPT ![c].aborted = TRUE]
    /\ waitingList' = Filtered(waitingList, {i \in DOMAIN waitingList : waitingList[i].in # c})
    /\ answered' = [answered EXCEPT ![c] = {}]
    /\ UNCHANGED <<openChat, used, latest, interrupted, due, task, belongs, session, seen, panels, runHistory>>

----------------------------------------------------------------------------
(* Restored runs *)

\* The effect on hubState.agentSessions: it shows what the session says, follows a run
\* that is going on as a remote one, and stops following it when it is over.
SeeSession(s) ==
    LET c == belongs[s]
    IN  /\ session[s] # seen[s] /\ c \in chats /\ ~Local(c)
        /\ seen' = [seen EXCEPT ![s] = session[s]]
        /\ IF session[s] = "over" THEN Show(s, c) /\ given' = given \cup {s}
                                  ELSE UNCHANGED <<answered, given>>
        /\ registry' = IF session[s] = "running" /\ registry[c] = Nothing
                       THEN [registry EXCEPT ![c] = [run |-> s, stage |-> "remote", aborted |-> FALSE]]
                       ELSE IF session[s] = "over" THEN [registry EXCEPT ![c] = Nothing] ELSE registry
        /\ latest' = IF registry'[c] # Nothing THEN [latest EXCEPT ![c] = s] ELSE latest
        /\ passedOver' = IF session[s] = "over" /\ Remote(c) THEN passedOver \cup {c} ELSE passedOver
    /\ UNCHANGED <<openChat, chats, used, flagged, interrupted, waitingList, due, task, belongs, session, panels,
                   rolledBack, refused>>

\* The panel is closed and opened: what was stored of the conversations comes back, and
\* the daemon goes on with its runs.
ReloadPanelApp ==
    /\ panels < MaxPanels /\ panels' = panels + 1
    /\ \E kept \in [chats -> SUBSET Submissions] :
           /\ \A c \in chats : kept[c] \subseteq answered[c]
           /\ answered' = [c \in Chats |-> IF c \in chats THEN kept[c] ELSE {}]
    /\ flagged' = {} /\ registry' = [c \in Chats |-> Nothing] /\ latest' = registry'
    /\ interrupted' = registry' /\ waitingList' = <<>> /\ due' = {} /\ task' = Nothing
    /\ seen' = [s \in Submissions |-> "none"]
    /\ given' = {} /\ passedOver' = {} /\ rolledBack' = {}
    /\ UNCHANGED <<openChat, chats, used, belongs, session, refused>>

----------------------------------------------------------------------------
(* Delegated tasks *)

\* acceptDelegatedTask up to the claim: a task nobody has claimed gets a conversation of
\* its own; the present one is remembered with its messages and the list of conversations.
AcceptTask(s, c) ==
    /\ task = Nothing
    /\ registry[openChat] # Nothing => Len(waitingList) < MaxQueued
    /\ Make(c) /\ chats' = chats \cup {c}
    /\ task' = [sub |-> s, in |-> c, from |-> openChat, messages |-> answered, list |-> chats]
    /\ UNCHANGED <<flagged, answered, appRunVars, belongs, session, seen, panels, runHistory>>

ClaimGranted ==
    /\ task # Nothing /\ task' = Nothing
    /\ belongs' = [belongs EXCEPT ![task.sub] = task.in]
    /\ IF registry[task.in] = Nothing
       THEN Begin(task.sub, task.in, Nothing) /\ UNCHANGED waitingList
       ELSE /\ waitingList' = IF Len(waitingList) < MaxQueued
                              THEN Append(waitingList, [sub |-> task.sub, in |-> task.in, after |-> Nothing])
                              ELSE waitingList
            /\ UNCHANGED <<registry, latest, interrupted, answered, given, passedOver, refused>>
    /\ UNCHANGED <<openChat, chats, used, flagged, due, session, seen, panels, rolledBack>>

\* restorePreviousConversation, from what was remembered before the claim: also what was
\* deleted meanwhile is back, and what was made is gone.
ClaimRefused ==
    /\ task # Nothing /\ task' = Nothing
    /\ openChat' = task.from /\ chats' = task.list
    /\ LET old == {task.from} \cup (task.list \ chats)
       IN  /\ answered' = [c \in Chats |-> IF c \in old THEN task.messages[c]
                                         ELSE IF c = task.in THEN {} ELSE answered[c]]
           /\ rolledBack' = rolledBack \cup old \cup {task.in}
    /\ UNCHANGED <<used, flagged, appRunVars, belongs, session, seen, panels, given, passedOver, refused>>

PanelAppNext ==
    \/ \E s \in FreshIn(Unsent(Submissions \ Delegated)), forced \in BOOLEAN : SendChat(s, forced)
    \/ StopAgent
    \/ \E i \in DOMAIN waitingList : RunQueuedNow(i) \/ RemoveQueued(i)
    \/ \E c \in Chats : StartInDaemon(c) \/ SettleRun(c) \/ FinishRun(c)
    \/ \E s \in Submissions : EndInDaemon(s) \/ SeeSession(s)
    \/ \E m \in due : StartDue(m)
    \/ \E c \in chats : OpenChat(c) \/ DeleteChat(c)
    \/ \E c \in FreshIn(Chats \ used) :
           \/ NewChat(c)
           \/ \E s \in FreshIn(Unsent(Submissions \ Delegated)) : BranchChat(c, s)
           \/ \E s \in Unsent(Delegated) : AcceptTask(s, c)
    \/ ReloadPanelApp \/ ClaimGranted \/ ClaimRefused

PanelAppSpec == PanelAppInit /\ [][PanelAppNext]_panelAppVars

----------------------------------------------------------------------------

PanelTypeOK ==
    /\ openChat \in chats /\ chats \subseteq used /\ used \subseteq Chats /\ flagged \subseteq Chats
    /\ \A c \in Chats : /\ registry[c] # Nothing =>
                              /\ registry[c].run \in Submissions /\ registry[c].aborted \in BOOLEAN
                              /\ registry[c].stage \in {"preparing", "running", "clearing", "remote"}
                        /\ {latest[c], interrupted[c]} \subseteq Submissions \cup {Nothing}
                        /\ answered[c] \subseteq Submissions
    /\ Len(waitingList) <= MaxQueued
    /\ \A s \in Submissions : /\ belongs[s] \in Chats \cup {Nothing}
                              /\ session[s] \in {"none", "running", "over"}

\* A message waits for a run of its own conversation that will start it when it ends: no
\* interruption, deletion, promotion or switch between conversations leaves the queue
\* standing. The code itself passes it over after an answer without a run and after a
\* restored run; the next run of the conversation then takes it up.
QueueIsServed ==
    \A i \in DOMAIN waitingList :
        LET c == waitingList[i].in
        IN  c \in passedOver \/ registry[c] # Nothing \/ \E m \in due : m.in = c

\* What the panel was told is shown where it was asked: the final answer of a run stays
\* in its own conversation, whichever is open, while others are made, opened, deleted
\* and interrupted. A refused claim sets a conversation back to what it was before.
AnswersStay ==
    \A s \in given : belongs[s] \in chats \ rolledBack => s \in answered[belongs[s]]

\* What the user sends is served and what comes back is shown where it belongs: the two
\* above, over all interleavings of runs, queue and conversations.
NothingGoesAstray == QueueIsServed /\ AnswersStay

\* "the oldest queued message starts only after the current run has fully finalized"
\* (docs/chat-experience-redesign.md:54). The code does not keep it: a message that
\* is sent, or a task that is claimed, between the end of a run and the timer is started,
\* and AGENT_CONVERSATION_BUSY throws the one that waited away.
NothingThrownAway == refused = {}

\* A message is passed over no longer than the run lasts. The code does not keep it.
NothingPassedOver == \A i \in DOMAIN waitingList : waitingList[i].in \notin passedOver \/ registry[waitingList[i].in] # Nothing

\* A run supersedes the one before it. The code does not keep it: the mark of a stopped
\* run outlives the queued run that follows it.
SupersedesLatest ==
    [][\A c \in Chats : interrupted[c] # Nothing /\ interrupted'[c] = Nothing /\ panels' = panels
                        => interrupted[c] = latest[c]]_panelAppVars

\* A refused claim costs no conversation and no answer. The code does not keep it: what it
\* restores is older than the claim's answer.
ClaimCostsNothing == rolledBack = {} \/ \A s \in given : belongs[s] \in chats => s \in answered[belongs[s]]
=============================================================================
