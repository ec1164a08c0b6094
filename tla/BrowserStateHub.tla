--------------------------- MODULE BrowserStateHub ---------------------------
(***************************************************************************)
(* The sessions of the daemon's browser state hub                          *)
(* (mcp/browserStateHub.ts) and the messages that change them              *)
(* (mcp/wsServer.ts): the current target, the evidence cached for its      *)
(* document, and what a restart brings back.                               *)
(*                                                                         *)
(* A document stands for the identifiers of a target (tab, frame, document,*)
(* navigation, URL).  The browser and the side panel have sockets of their *)
(* own, so a message may be about any document, however old.               *)
(***************************************************************************)
EXTENDS Naturals, FiniteSets

CONSTANTS
  Profiles,      \* the sessions of installations
  Default,       \* DEFAULT_SESSION_ID
  Roles,         \* "browser" and "ui"
  Documents,
  Captured,      \* the documents that screenshots are taken of
  NoDocument,
  MaxRevision,   \* bound: document changes of a session
  MaxRestarts    \* bound: restarts of the daemon

ASSUME HubAssumption ==
  /\ Default \notin Profiles /\ NoDocument \notin Documents /\ Captured \subseteq Documents
  /\ MaxRevision \in Nat /\ MaxRestarts \in Nat

SessionIds == Profiles \cup {Default}

VARIABLES
  sessions,    \* what the hub holds of each session it knows
  active,      \* activeSessionId
  expired,     \* the sessions not heard of for SESSION_TTL_MS
  storing,     \* screenshots whose artifact is being written: <<session, document>>
  stored,      \* the persistent state in the file
  named,       \* history: the documents each revision of a session has stood for
  restarts

hubVars == <<sessions, active, expired, storing, stored, named, restarts>>

Session == [tab : Documents \cup {NoDocument}, page : Documents \cup {NoDocument},
            element : Documents \cup {NoDocument}, screenshots : SUBSET Documents,
            revision : Nat, connected : SUBSET Roles]

NewSession == [tab |-> NoDocument, page |-> NoDocument, element |-> NoDocument, screenshots |-> {},
               revision |-> 0, connected |-> {}]

HubTypeOK ==
  /\ DOMAIN sessions \subseteq SessionIds /\ Default \in DOMAIN sessions
  /\ \A s \in DOMAIN sessions : sessions[s] \in Session
  /\ active \in DOMAIN sessions
  /\ expired \subseteq Profiles
  /\ storing \subseteq Profiles \X Captured
  /\ stored.active \in DOMAIN stored.sessions

\* ensureSession
SessionOf(s) == IF s \in DOMAIN sessions THEN sessions[s] ELSE NewSession
With(s, x) == [t \in DOMAIN sessions \cup {s} |-> IF t = s THEN x ELSE sessions[t]]

HubInit ==
  /\ sessions = [s \in {Default} |-> NewSession]
  /\ active = Default
  /\ expired = {} /\ storing = {}
  /\ stored = [active |-> Default, sessions |-> [s \in {Default} |-> NewSession]]
  /\ named = [s \in Profiles |-> [r \in 0 .. MaxRevision |-> {}]]
  /\ restarts = 0

-----------------------------------------------------------------------------
(* The target of a session *)

\* Mutants of Retarget: the evidence stays, and the revision stays.
RetargetKeepsEvidence(x, d) ==
  [x EXCEPT !.tab = d, !.revision = @ + IF x.tab \in {NoDocument, d} THEN 0 ELSE 1]
RetargetKeepsRevision(x, d) ==
  IF x.tab \in {NoDocument, d} THEN [x EXCEPT !.tab = d]
  ELSE [x EXCEPT !.tab = d, !.page = NoDocument, !.element = NoDocument, !.screenshots = {}]

\* applyCurrentTab: another document clears what is cached and counts as a revision.
Retarget(x, d) ==
  IF x.tab \in {NoDocument, d} THEN [x EXCEPT !.tab = d]
  ELSE [x EXCEPT !.tab = d, !.page = NoDocument, !.element = NoDocument, !.screenshots = {},
                 !.revision = @ + 1]

\* A message of session s: the session exists and is the active one from now on.
Heard(s, x) ==
  /\ sessions' = With(s, x)
  /\ active' = s
  /\ expired' = expired \ {s}

\* The state of the session stands for the document d.
Announced(s, x, d) == named' = [named EXCEPT ![s][x.revision] = @ \cup {d}]

Unannounced == UNCHANGED named

Room(s) == SessionOf(s).revision < MaxRevision

\* ACTIVE_TAB_UPDATED
SetCurrentTab(s, d) ==
  /\ Room(s)
  /\ LET x == Retarget(SessionOf(s), d)
     IN  Heard(s, x) /\ Announced(s, x, d)
  /\ UNCHANGED <<storing, stored, restarts>>

\* ELEMENT_SELECTED
SetElementSelected(s, d) ==
  /\ Room(s)
  /\ LET x == [Retarget(SessionOf(s), d) EXCEPT !.element = d]
     IN  Heard(s, x) /\ Announced(s, x, d)
  /\ UNCHANGED <<storing, stored, restarts>>

\* A page with provenance must be of the current target.
Accepts(x, d, provenance) == ~provenance \/ x.tab \in {NoDocument, d}

\* PAGE_CONTEXT_UPDATED; without provenance it is of the tab the sender names.
SetPageContext(s, d, provenance) ==
  /\ Room(s)
  /\ IF Accepts(SessionOf(s), d, provenance)
     THEN LET x == [Retarget(SessionOf(s), d) EXCEPT !.page = d]
          IN  /\ Heard(s, x)
              /\ IF provenance /\ SessionOf(s).tab # NoDocument THEN Unannounced ELSE Announced(s, x, d)
     ELSE Heard(s, SessionOf(s)) /\ Unannounced
  /\ UNCHANGED <<storing, stored, restarts>>

\* SCREENSHOT_CAPTURED: first the artifact is written, and only then recorded.
ReceiveScreenshot(s, d) ==
  /\ SessionOf(s).tab = d
  /\ storing' = storing \cup {<<s, d>>}
  /\ UNCHANGED <<sessions, active, expired, stored, named, restarts>>

RecordScreenshot(s, d) ==
  /\ <<s, d>> \in storing
  /\ storing' = storing \ {<<s, d>>}
  /\ Heard(s, [SessionOf(s) EXCEPT !.screenshots = @ \cup {d}])
  /\ Unannounced
  /\ UNCHANGED <<stored, restarts>>

\* The artifact could not be written.
LoseScreenshot(s, d) ==
  /\ <<s, d>> \in storing
  /\ storing' = storing \ {<<s, d>>}
  /\ UNCHANGED <<sessions, active, expired, stored, named, restarts>>

-----------------------------------------------------------------------------
(* Connections, agent sessions and the life of a session *)

Connect(s, role) ==
  /\ Heard(s, [SessionOf(s) EXCEPT !.connected = @ \cup {role}])
  /\ Unannounced
  /\ UNCHANGED <<storing, stored, restarts>>

\* A disconnection counts as a change of the state of its session.
Disconnect(s, role) ==
  /\ s \in DOMAIN sessions
  /\ role \in sessions[s].connected
  /\ Heard(s, [sessions[s] EXCEPT !.connected = @ \ {role}])
  /\ Unannounced
  /\ UNCHANGED <<storing, stored, restarts>>

\* HEARTBEAT
Touch(s) ==
  /\ Heard(s, SessionOf(s))
  /\ Unannounced
  /\ UNCHANGED <<storing, stored, restarts>>

\* Ten minutes without a message of the session: it was closed, or the machine slept.
Expire(s) ==
  /\ s \in DOMAIN sessions \ expired
  /\ expired' = expired \cup {s}
  /\ UNCHANGED <<sessions, active, storing, stored, named, restarts>>

\* A session that was deleted starts from nothing when it is heard of again.
Forget(ids) ==
  named' = [s \in Profiles |-> IF s \in ids THEN [r \in 0 .. MaxRevision |-> {}] ELSE named[s]]

\* cleanupExpiredSessions, once a minute.
CleanupExpiredSessions ==
  LET gone == (expired \cap DOMAIN sessions) \ {Default}
  IN  /\ gone # {}
      /\ sessions' = [s \in DOMAIN sessions \ gone |-> sessions[s]]
      /\ active' = IF active \in gone THEN Default ELSE active
      /\ expired' = expired \ gone
      /\ Forget(gone)
      /\ UNCHANGED <<storing, stored, restarts>>

\* The state store has saved what toPersistentState returned.
Save ==
  /\ restarts < MaxRestarts
  /\ stored' = [active |-> active, sessions |-> sessions]
  /\ stored' # stored
  /\ UNCHANGED <<sessions, active, expired, storing, named, restarts>>

\* restorePersistentState: nobody is connected.
Recover(x) == [x EXCEPT !.connected = {}]

Restart ==
  /\ restarts < MaxRestarts
  /\ restarts' = restarts + 1
  /\ sessions' = [s \in DOMAIN stored.sessions |-> Recover(stored.sessions[s])]
  /\ active' = stored.active
  /\ expired' = {} /\ storing' = {}
  /\ named' = [s \in Profiles |-> [r \in 0 .. MaxRevision |->
                 IF SessionOf(s)'.revision = r THEN {SessionOf(s)'.tab} \ {NoDocument} ELSE {}]]
  /\ UNCHANGED stored

HubNext ==
  \/ CleanupExpiredSessions \/ Save \/ Restart
  \/ \E s \in Profiles :
       \/ Touch(s) \/ Expire(s)
       \/ \E role \in Roles : Connect(s, role) \/ Disconnect(s, role)
       \/ \E d \in Documents :
            \/ SetCurrentTab(s, d) \/ SetElementSelected(s, d)
            \/ \E provenance \in BOOLEAN : SetPageContext(s, d, provenance)
       \/ \E d \in Captured :
            ReceiveScreenshot(s, d) \/ RecordScreenshot(s, d) \/ LoseScreenshot(s, d)

HubSpec == HubInit /\ [][HubNext]_hubVars
-----------------------------------------------------------------------------
(* Properties *)

\* The page and the element that the daemon offers as evidence are of the
\* document it offers as the current target, whatever messages about older
\* documents arrive, sessions expire and restarts bring back.
EvidenceOfTarget ==
  \A s \in DOMAIN sessions :
    LET x == sessions[s] IN x.page \in {NoDocument, x.tab} /\ x.element \in {NoDocument, x.tab}

\* A revision stands for one document: a request that was authorised at a
\* revision and finds it unchanged is about the same document.
RevisionNamesDocument ==
  \A s \in Profiles, r \in 0 .. MaxRevision : Cardinality(named[s][r]) <= 1

\* The screenshots kept for a session are of its current document.
ScreenshotsOfTarget ==
  \A s \in DOMAIN sessions : sessions[s].screenshots \subseteq {sessions[s].tab}
=============================================================================
