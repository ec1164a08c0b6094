-------------------------- MODULE ConversationMemory --------------------------
(***************************************************************************)
(* What the assistant remembers of one conversation                        *)
(* (shared/conversationMemory.ts): the end of a run merges a patch made    *)
(* from its outcome, a second patch that a model extracts from the turn    *)
(* comes later (daemon/conversationMemoryExtractor.ts), a turn that        *)
(* supersedes another ends what it was about (sidepanel/App.tsx), and a    *)
(* copy goes to the storage and into branches                              *)
(* (sidepanel/services/chatWorkspace.ts).                                  *)
(*                                                                         *)
(* The turns, their queue and their runs are in PanelRuns.  An entry is    *)
(* its kind, its life and the messages it cites; demands of the user, the  *)
(* summaries of turns, the limits on the number of entries and which of    *)
(* two facts about one thing counts are left out.                          *)
(***************************************************************************)
EXTENDS Naturals, FiniteSets

CONSTANTS
    MaxTurns,       \* bound: turns of the conversation
    OpenQuestions,      \* ids of decisions the model asks for
    Facts,          \* ids of facts
    NoMemory, NoTask,
    MaxKept,        \* MAX_STORED_MESSAGES
    MaxKeptTools    \* MAX_STORED_TOOL_MESSAGES

Turns == 1 .. MaxTurns
TurnRoles == {"user", "assistant", "tool"}
Messages == Turns \X TurnRoles

\* The task under way, and what else is remembered.
TaskRecords == [id : Turns, kind : {"task"}, status : {"completed", "open"}, cites : SUBSET Messages]
EntryRecords == [id : OpenQuestions \cup Facts, kind : {"decision", "verified", "inference"},
                 live : BOOLEAN, cites : SUBSET Messages]
Memories == [revision : Nat, about : TaskRecords \cup {NoTask}, entries : SUBSET EntryRecords]

ASSUME MemoryAssumption ==
    /\ MaxTurns \in Nat /\ MaxKept \in Nat /\ MaxKeptTools \in Nat
    /\ MaxKeptTools <= MaxKept
    /\ NoMemory \notin Memories

VARIABLES
    memory,       \* conversationMemoriesRef: [revision, about, entries], or NoMemory
    messages,     \* the messages of the conversation
    kept,         \* what the storage has: [memory, messages]
    turn,         \* turns so far
    turnStage,        \* of each turn: none, preparing, running, remote, over
    superseding,  \* turns that are about to start and supersede another
    stopped,      \* supersededAgentRunIdsRef
    mark,         \* interruptedRunByConversationRef: a turn, or 0
    newest,       \* latestRunIdByConversation, or 0
    snapshot,     \* context.memory of the run under way
    promise,      \* of each turn whose extracted patch is still to come: the revision it is
                  \* for, and the task if the model names none; otherwise NoTask
    deleted, tombstone,  \* the conversation is; deletedAgentConversationIdsRef has it
    intact        \* history: the turn whose outcome is the last change of the memory, or 0

memoryVars == <<memory, messages, kept, turn, turnStage, superseding, stopped, mark, newest,
                snapshot, promise, deleted, tombstone, intact>>
runMarks == <<superseding, stopped, mark, newest>>

NoPromise == [t \in Turns |-> NoTask]

MemoryInit ==
    /\ memory = NoMemory /\ messages = {} /\ kept = [memory |-> NoMemory, messages |-> {}]
    /\ turn = 0 /\ turnStage = [t \in Turns |-> "none"]
    /\ superseding = {} /\ stopped = {} /\ mark = 0 /\ newest = 0
    /\ snapshot = NoMemory /\ promise = NoPromise
    /\ deleted = FALSE /\ tombstone = FALSE
    /\ intact = 0

NothingRuns == \A t \in Turns : turnStage[t] \in {"none", "over"}
Empty == [revision |-> 1, about |-> NoTask, entries |-> {}]
\* createEmptyConversationMemory stands for a memory there is not.
Known(m) == IF m = NoMemory THEN Empty ELSE m

----------------------------------------------------------------------------
(* Evidence *)

\* acceptWithEvidence: what an entry cites is cut down to what there is; a task and a verified
\* fact need more than the assistant's word.
Needs(e) == CASE e.kind \in {"task", "verified"} -> {"user", "tool"}
              [] OTHER -> TurnRoles
Supported(e, there) == \E m \in e.cites \cap there : m[2] \in Needs(e)
Narrowed(e, there) == [e EXCEPT !.cites = @ \cap there]

\* revalidateConversationMemory. Mutant: only the structure is looked at.
AsItIs(m, there) == m
Revalidated(m, there) ==
    IF m = NoMemory THEN NoMemory
    ELSE [m EXCEPT !.about = IF @ # NoTask /\ Supported(@, there) THEN Narrowed(@, there) ELSE NoTask,
                   !.entries = {Narrowed(e, there) : e \in {x \in @ : Supported(x, there)}}]

Cited(m) == IF m = NoMemory THEN {}
            ELSE UNION {e.cites : e \in m.entries} \cup (IF m.about = NoTask THEN {} ELSE m.about.cites)

\* The n last of a set of messages.
Position(m) == 3 * m[1] + (CASE m[2] = "user" -> 0 [] m[2] = "assistant" -> 1 [] OTHER -> 2)
Latest(n, set) == {m \in set : Cardinality({x \in set : Position(x) > Position(m)}) < n}

\* sanitizeMessages: tool messages that the memory cites are preferred to later ones.
KeptMessages(there, m) ==
    LET tools == {x \in there : x[2] = "tool"}
        preferred == Latest(MaxKeptTools, tools \cap Cited(m))
        all == preferred \cup Latest(MaxKeptTools - Cardinality(preferred), tools \ preferred)
    IN  all \cup Latest(MaxKept - Cardinality(all), there \ tools)

\* createStoredConversation
Stored(m, there) == LET some == KeptMessages(there, m)
                    IN  [memory |-> Revalidated(m, some), messages |-> some]

----------------------------------------------------------------------------
(* Patches *)

Resolved(entries) == {IF e.kind = "decision" THEN [e EXCEPT !.live = FALSE] ELSE e : e \in entries}
Undecided(entries) == \E e \in entries : e.kind = "decision" /\ e.live

\* applyConversationMemoryPatch: a patch is a task, or NoTask, and a set of entries. A task
\* with another id resolves what was to be decided; one is not completed before its
\* decisions are. Mutant: the status is taken as it comes.
StatusGiven(task, entries) == task
SettledTask(task, entries) ==
    IF task # NoTask /\ task.status = "completed" /\ Undecided(entries)
    THEN [task EXCEPT !.status = "open"] ELSE task
Merged(m, patch, there) ==
    LET old == Known(m)
        task == IF patch.task # NoTask /\ Supported(patch.task, there)
                THEN Narrowed(patch.task, there) ELSE NoTask
        switched == task # NoTask /\ old.about # NoTask /\ task.id # old.about.id
        before == IF switched THEN Resolved(old.entries) ELSE old.entries
        new == {Narrowed(e, there) : e \in {x \in patch.entries : Supported(x, there)}}
        entries == {x \in before : \A e \in new : x.id # e.id} \cup new
    IN  [revision |-> old.revision + 1, entries |-> entries,
         about |-> SettledTask(IF task = NoTask THEN old.about ELSE task, entries)]

\* supersedeConversationTask. Mutant: what was to be decided stays.
TaskDropped(m) == IF m = NoMemory THEN m ELSE [m EXCEPT !.revision = @ + 1, !.about = NoTask]
TaskSuperseded(m) ==
    IF m = NoMemory THEN m
    ELSE [m EXCEPT !.revision = @ + 1, !.about = NoTask, !.entries = Resolved(@)]

\* The messages of a turn.
Of(t) == {t} \X TurnRoles
\* buildDeterministicConversationMemoryPatch: the task goes on unless the tools of the turn
\* show that it is another.
Outcome(t, status, switched) ==
    [task |-> [id |-> IF snapshot # NoMemory /\ snapshot.about # NoTask /\ ~switched
                      THEN snapshot.about.id ELSE t,
               kind |-> "task", status |-> status, cites |-> Of(t)],
     entries |-> {}]

\* extractConversationMemory: what a model may say of the turn, each entry with evidence in
\* it; the task of the outcome stands if it names none.  Bound: one entry.
Entries(ids, kinds, lives, t) ==
    [id : ids, kind : kinds, live : lives, cites : {{m} : m \in Of(t)}]
Candidates(t) == Entries(OpenQuestions, {"decision"}, BOOLEAN, t)
                   \cup Entries(Facts, {"verified", "inference"}, {TRUE}, t)
Extracted(t, outcome) ==
    [task : {outcome, [outcome EXCEPT !.id = t, !.status = "open"]},
     entries : {{}} \cup {{e} : e \in {x \in Candidates(t) : Supported(x, Of(t))}}]

----------------------------------------------------------------------------
(* Turns *)

\* runChatSubmission up to the start of its run: it supersedes the run that its submission
\* names, says so in the memory, and is answered at once, refused because another run is
\* under way, or starts.
BeginTurn(supersedes) ==
    LET t == turn + 1
    IN  /\ turn < MaxTurns /\ ~deleted
        /\ turn' = t
        /\ memory' = IF supersedes # 0 THEN TaskSuperseded(memory) ELSE memory
        /\ intact' = IF supersedes # 0 THEN 0 ELSE intact
        /\ mark' = IF supersedes # 0 /\ mark = supersedes THEN 0 ELSE mark
        /\ messages' = messages \cup {<<t, "user">>, <<t, "assistant">>}
        /\ \/ turnStage' = [turnStage EXCEPT ![t] = "over"] /\ UNCHANGED <<newest, superseding>>
           \/ /\ NothingRuns /\ turnStage' = [turnStage EXCEPT ![t] = "preparing"] /\ newest' = t
              /\ superseding' = IF supersedes # 0 THEN {t} ELSE {}
    /\ UNCHANGED <<kept, stopped, snapshot, promise, deleted, tombstone>>

StartTurn(t) ==
    /\ turnStage[t] = "preparing"
    /\ turnStage' = [turnStage EXCEPT ![t] = "running"]
    /\ snapshot' = memory /\ superseding' = superseding \ {t}
    /\ UNCHANGED <<memory, messages, kept, turn, stopped, mark, newest, promise, deleted, tombstone, intact>>

\* supersedeActiveAgentRun
StopTurn(t) ==
    /\ turnStage[t] \in {"preparing", "running"} /\ ~deleted
    /\ stopped' = stopped \cup {t} /\ mark' = t
    /\ UNCHANGED <<memory, messages, kept, turn, turnStage, superseding, newest, snapshot,
                   promise, deleted, tombstone, intact>>

\* The run ends with a result that says something of its task, and the daemon goes on to
\* extract a second patch (agentRunner.ts:466-524); or it ends without one.
EndTurn(t, status, switched) ==
    /\ turnStage[t] = "running"
    /\ turnStage' = [turnStage EXCEPT ![t] = "over"]
    /\ tombstone' = FALSE
    /\ messages' = IF tombstone THEN messages ELSE messages \cup {<<t, "tool">>}
    /\ promise' = [promise EXCEPT ![t] = [revision |-> Known(snapshot).revision + 1,
                                          task |-> Outcome(t, status, switched).task]]
    /\ snapshot' = NoMemory
    /\ IF t \in stopped \/ tombstone THEN UNCHANGED <<memory, intact>>
       ELSE /\ memory' = Merged(memory, Outcome(t, status, switched), messages')
            /\ intact' = t
    /\ UNCHANGED <<kept, turn, runMarks, deleted>>

FailTurn(t) ==
    /\ turnStage[t] \in {"preparing", "running", "remote"}
    /\ turnStage' = [turnStage EXCEPT ![t] = "over"]
    /\ tombstone' = FALSE /\ snapshot' = NoMemory /\ superseding' = superseding \ {t}
    /\ UNCHANGED <<memory, messages, kept, turn, stopped, mark, newest, promise, deleted, intact>>

\* applyConversationMemoryPatchAtRevision. Mutant: at whichever revision.
AnyRevision(t) == memory # NoMemory
AtItsRevision(t) == memory # NoMemory /\ memory.revision = promise[t].revision

\* onMemoryPatch; a patch that is refused, or comes after DAEMON_MEMORY_PATCH_GRACE_MS, changes
\* nothing.
LatePatch(t) ==
    /\ promise[t] # NoTask /\ promise' = [promise EXCEPT ![t] = NoTask]
    /\ t \notin stopped /\ newest = t /\ ~tombstone /\ AtItsRevision(t)
    /\ \E patch \in Extracted(t, promise[t].task) : memory' = Merged(memory, patch, messages)
    /\ intact' = 0
    /\ UNCHANGED <<messages, kept, turn, turnStage, runMarks, snapshot, deleted, tombstone>>

----------------------------------------------------------------------------
(* Copies *)

\* The timer of the workspace, or the opening of another conversation.
SaveConversation ==
    /\ ~deleted
    /\ kept' = Stored(memory, messages)
    /\ UNCHANGED <<memory, messages, turn, turnStage, runMarks, snapshot, promise, deleted, tombstone, intact>>

\* A reload takes what was stored; what went on goes on in the daemon, without the patches.
ReloadConversation ==
    /\ ~deleted
    /\ memory' = kept.memory /\ messages' = kept.messages
    /\ turnStage' = [t \in Turns |-> IF turnStage[t] = "running" THEN "remote"
                               ELSE IF turnStage[t] = "preparing" THEN "over" ELSE turnStage[t]]
    /\ stopped' = {} /\ mark' = 0 /\ newest' = 0 /\ promise' = NoPromise /\ snapshot' = NoMemory
    /\ intact' = 0 /\ superseding' = {}
    /\ UNCHANGED <<kept, turn, deleted, tombstone>>

\* startConversationBranch: the conversation goes on in a branch with the messages before a
\* turn; late patches for the old one find the old one. Its first turn follows by itself.
Branch(t) ==
    /\ NothingRuns /\ ~deleted /\ <<t, "user">> \in messages
    /\ LET seed == {m \in messages : m[1] < t /\ m[2] # "tool"}
       IN  /\ memory' = Stored(memory, seed).memory
           /\ messages' = seed
    /\ kept' = Stored(memory', messages')
    /\ promise' = NoPromise /\ mark' = 0 /\ newest' = 0
    /\ intact' = 0
    /\ UNCHANGED <<turn, turnStage, superseding, stopped, snapshot, deleted, tombstone>>

\* deleteStoredConversation
DeleteConversation ==
    /\ ~deleted /\ deleted' = TRUE /\ tombstone' = ~NothingRuns
    /\ memory' = NoMemory /\ messages' = {} /\ kept' = Stored(NoMemory, {})
    /\ intact' = 0
    /\ UNCHANGED <<turn, turnStage, runMarks, snapshot, promise>>

MemoryNext ==
    \/ \E supersedes \in {0, mark} : BeginTurn(supersedes)
    \/ \E t \in Turns :
           \/ StartTurn(t) \/ StopTurn(t) \/ FailTurn(t) \/ LatePatch(t) \/ Branch(t)
           \/ \E status \in {"completed", "open"}, switched \in BOOLEAN : EndTurn(t, status, switched)
    \/ SaveConversation \/ ReloadConversation \/ DeleteConversation

MemorySpec == MemoryInit /\ [][MemoryNext]_memoryVars

----------------------------------------------------------------------------

HasEvidence(m, there) ==
    m = NoMemory \/ /\ m.about # NoTask => Supported(m.about, there)
                    /\ \A e \in m.entries : Supported(e, there)
DoneIsDecided(m) ==
    m = NoMemory \/ m.about = NoTask \/ m.about.status # "completed" \/ ~Undecided(m.entries)

\* What the assistant goes by, in the panel, in the storage and in a branch, rests on
\* messages that are still there (verified facts and tasks on the user's or a tool's), and calls
\* no task completed while something is to be decided; of a deleted conversation nothing
\* comes back.
MemoryIsCoherent ==
    /\ HasEvidence(memory, messages) /\ HasEvidence(kept.memory, kept.messages)
    /\ DoneIsDecided(memory) /\ DoneIsDecided(kept.memory)
    /\ deleted => memory = NoMemory

\* "The delayed semantic patch may only build on that exact revision, never on a newer turn's
\* state" (agentRunner.ts:488-489): what is extracted from a turn is merged into what the
\* end of that turn left, whatever has superseded, stopped, reloaded, branched or
\* deleted since.
LateBuildsOnItsTurn ==
    [][\A t \in Turns : LatePatch(t) => intact = t]_memoryVars

\* "A user-initiated stop or interrupt must not leave an active task or pending decision that
\* can silently steer the next model turn" (conversationMemory.ts:215-218): a run that
\* supersedes another is given neither.
SupersedingIsFree ==
    [][\A t \in superseding : StartTurn(t) =>
          memory = NoMemory \/ (memory.about = NoTask /\ ~Undecided(memory.entries))]_memoryVars

\* Both: a turn neither inherits what was stopped nor what an older turn is late with.
TurnsStayApart == LateBuildsOnItsTurn /\ SupersedingIsFree

\* The same for whichever run comes next after the stop. The code does not keep it: a message
\* that was queued before the stop supersedes nothing (PanelRuns), and a reload forgets
\* the stop.
NextIsFree ==
    [][\A t \in Turns : StartTurn(t) /\ t - 1 \in stopped =>
          memory = NoMemory \/ (memory.about = NoTask /\ ~Undecided(memory.entries))]_memoryVars
=============================================================================
