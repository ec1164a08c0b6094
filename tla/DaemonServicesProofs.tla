------------------------ MODULE DaemonServicesProofs ------------------------
(***************************************************************************)
(* Theorems about the services of the daemon that keep state of their own, *)
(* for every value of their constants: the hub of the browser states, the  *)
(* stream of a page's activity, the delegated tasks, the artifact store    *)
(* and the external servers.                                               *)
(***************************************************************************)
EXTENDS BrowserStateHub, CollaborationTasks, ArtifactStore, ExternalServer, ActivityStream,
        SequenceLemmas, FiniteSetTheorems, SequenceTheorems, TLAPS

\* A set whose members are all the same has at most one.
LEMMA AtMostOne ==
  ASSUME NEW S, \A a, b \in S : a = b
  PROVE  Cardinality(S) <= 1
<1>1. CASE S = {}
  BY <1>1, FS_EmptySet
<1>2. CASE S # {}
  <2>1. PICK a \in S : S = {a}
    BY <1>2
  <2>2. Cardinality(S) = 1
    BY <2>1, FS_Singleton
  <2> QED
    BY <2>2
<1> QED
  BY <1>1, <1>2

\* A set of identifiers has a smallest one.
LEMMA LeastExists ==
  ASSUME NEW S, S \subseteq Nat, S # {}
  PROVE  Min(S) \in S /\ \A j \in S : Min(S) <= j
<1> DEFINE less == OpToRel(<, Nat)
<1>1. \E i \in S : \A j \in S : <<j, i>> \notin less
  BY NatLessThanWellFounded, WFMin
<1>2. \A i, j \in Nat : j < i => <<j, i>> \in less
  BY DEF OpToRel
<1> HIDE DEF less
<1>3. \E i \in S : \A j \in S : i <= j
  <2>1. PICK i \in S : \A j \in S : <<j, i>> \notin less
    BY <1>1
  <2>2. \A j \in S : ~(j < i)
    BY <1>2, <2>1
  <2>3. \A j \in S : i <= j
    BY <2>2
  <2> QED
    BY <2>3
<1> QED
  BY <1>3 DEF Min

-----------------------------------------------------------------------------
(* The hub of the browser states *)

\* A table of sessions, in memory or in the file, whose evidence is of its targets.
KeptTable(f) ==
  /\ DOMAIN f \subseteq SessionIds /\ Default \in DOMAIN f
  /\ \A s \in DOMAIN f : /\ f[s] \in Session
                         /\ f[s].page \in {NoDocument, f[s].tab}
                         /\ f[s].element \in {NoDocument, f[s].tab}

\* The inductive invariant of the hub: what is saved is as sound as what is in
\* memory, since a restart brings it back.
HubInv ==
  /\ KeptTable(sessions) /\ active \in DOMAIN sessions
  /\ KeptTable(stored.sessions) /\ stored.active \in DOMAIN stored.sessions
  /\ expired \subseteq Profiles /\ storing \subseteq Profiles \X Captured

\* A session as a message finds it.
Found(x) == /\ x \in Session
            /\ x.page \in {NoDocument, x.tab} /\ x.element \in {NoDocument, x.tab}

LEMMA SessionFound ==
  ASSUME HubInv, NEW s \in SessionIds
  PROVE  Found(SessionOf(s))
<1>1. NewSession \in Session /\ Found(NewSession)
  BY DEF NewSession, Session, Found
<1> QED
  BY <1>1 DEF HubInv, KeptTable, SessionOf, Found

\* Retargeting never leaves evidence of the old target.
LEMMA RetargetFound ==
  ASSUME NEW x, Found(x), NEW d \in Documents
  PROVE  Found(Retarget(x, d)) /\ Retarget(x, d).tab = d
<1>1. CASE x.tab \in {NoDocument, d}
  BY <1>1 DEF Found, Retarget, Session
<1>2. CASE x.tab \notin {NoDocument, d}
  <2>1. x.revision + 1 \in Nat
    BY DEF Found, Session
  <2> QED
    BY <1>2, <2>1 DEF Found, Retarget, Session
<1> QED
  BY <1>1, <1>2

\* A session that is heard of with a sound state leaves the table sound.
LEMMA HeardKept ==
  ASSUME HubInv, NEW s \in Profiles, NEW x, Found(x), Heard(s, x), stored' = stored,
         storing' \subseteq Profiles \X Captured
  PROVE  HubInv'
<1>1. KeptTable(With(s, x)) /\ s \in DOMAIN With(s, x)
  BY DEF HubInv, KeptTable, With, Found, SessionIds
<1> QED
  BY <1>1 DEF Heard, HubInv

LEMMA HubStep ==
  ASSUME HubAssumption, HubInv, [HubNext]_hubVars
  PROVE  HubInv'
<1>1. ASSUME NEW s \in Profiles, NEW d \in Documents, SetCurrentTab(s, d)
      PROVE  HubInv'
  <2>1. Found(Retarget(SessionOf(s), d))
    BY SessionFound, RetargetFound DEF SessionIds
  <2> QED
    BY <1>1, <2>1, HeardKept DEF SetCurrentTab, HubInv
<1>2. ASSUME NEW s \in Profiles, NEW d \in Documents, SetElementSelected(s, d)
      PROVE  HubInv'
  <2> DEFINE y == Retarget(SessionOf(s), d)
  <2>1. Found(y) /\ y.tab = d
    BY SessionFound, RetargetFound DEF SessionIds
  <2> HIDE DEF y
  <2>2. Found([y EXCEPT !.element = d])
    BY <2>1 DEF Found, Session
  <2>3. Heard(s, [y EXCEPT !.element = d]) /\ stored' = stored /\ storing' = storing
    BY <1>2 DEF SetElementSelected, y
  <2> QED
    BY <2>2, <2>3, HeardKept DEF HubInv
<1>3. ASSUME NEW s \in Profiles, NEW d \in Documents, NEW provenance \in BOOLEAN,
             SetPageContext(s, d, provenance)
      PROVE  HubInv'
  <2> DEFINE y == Retarget(SessionOf(s), d)
  <2>1. Found(SessionOf(s)) /\ Found(y) /\ y.tab = d
    BY SessionFound, RetargetFound DEF SessionIds
  <2> HIDE DEF y
  <2>2. Found([y EXCEPT !.page = d])
    BY <2>1 DEF Found, Session
  <2>3. /\ Heard(s, [y EXCEPT !.page = d]) \/ Heard(s, SessionOf(s))
        /\ stored' = stored /\ storing' = storing
    BY <1>3 DEF SetPageContext, y
  <2> QED
    BY <2>1, <2>2, <2>3, HeardKept DEF HubInv
<1>4. ASSUME NEW s \in Profiles, NEW d \in Captured, RecordScreenshot(s, d)
      PROVE  HubInv'
  <2> DEFINE y == SessionOf(s)
  <2>1. Found(y) /\ d \in Documents
    BY SessionFound DEF SessionIds, HubAssumption
  <2> HIDE DEF y
  <2>2. Found([y EXCEPT !.screenshots = @ \cup {d}])
    BY <2>1 DEF Found, Session
  <2>3. /\ Heard(s, [y EXCEPT !.screenshots = @ \cup {d}])
        /\ stored' = stored /\ storing' \subseteq storing
    BY <1>4 DEF RecordScreenshot, y
  <2> QED
    BY <2>2, <2>3, HeardKept DEF HubInv
<1>5. ASSUME NEW s \in Profiles, NEW role \in Roles, Connect(s, role) \/ Disconnect(s, role)
      PROVE  HubInv'
  <2> DEFINE y == SessionOf(s)
  <2>1. Found(y)
    BY SessionFound DEF SessionIds
  <2>2. /\ \/ Heard(s, [y EXCEPT !.connected = @ \cup {role}])
           \/ Heard(s, [y EXCEPT !.connected = @ \ {role}])
        /\ stored' = stored /\ storing' = storing
    BY <1>5 DEF Connect, Disconnect, SessionOf
  <2> HIDE DEF y
  <2>3. Found([y EXCEPT !.connected = @ \cup {role}]) /\ Found([y EXCEPT !.connected = @ \ {role}])
    BY <2>1 DEF Found, Session
  <2> QED
    BY <2>2, <2>3, HeardKept DEF HubInv
<1>6. ASSUME NEW s \in Profiles, Touch(s)
      PROVE  HubInv'
  <2>1. Found(SessionOf(s))
    BY SessionFound DEF SessionIds
  <2> QED
    BY <1>6, <2>1, HeardKept DEF Touch, HubInv
<1>7. ASSUME NEW s \in Profiles, NEW d \in Captured,
             ReceiveScreenshot(s, d) \/ LoseScreenshot(s, d)
      PROVE  HubInv'
  BY <1>7 DEF ReceiveScreenshot, LoseScreenshot, HubInv
<1>8. ASSUME NEW s \in Profiles, Expire(s)
      PROVE  HubInv'
  BY <1>8 DEF Expire, HubInv
<1>9. CASE CleanupExpiredSessions
  BY <1>9 DEF CleanupExpiredSessions, HubInv, KeptTable
<1>10. CASE Save
  BY <1>10 DEF Save, HubInv
<1>11. CASE Restart
  <2>1. \A x \in Session : /\ Recover(x) \in Session /\ Recover(x).tab = x.tab
                           /\ Recover(x).page = x.page /\ Recover(x).element = x.element
    BY DEF Recover, Session
  <2>2. KeptTable(sessions') /\ active' \in DOMAIN sessions'
    BY <1>11, <2>1 DEF Restart, HubInv, KeptTable
  <2> QED
    BY <1>11, <2>2 DEF Restart, HubInv
<1>12. CASE UNCHANGED hubVars
  BY <1>12 DEF hubVars, HubInv
<1> QED
  BY <1>1, <1>2, <1>3, <1>4, <1>5, <1>6, <1>7, <1>8, <1>9, <1>10, <1>11, <1>12 DEF HubNext

LEMMA HubStarts ==
  ASSUME HubAssumption, HubInit
  PROVE  HubInv
BY DEF HubInit, HubInv, KeptTable, NewSession, Session, SessionIds

LEMMA HubHolds ==
  ASSUME HubInv
  PROVE  EvidenceOfTarget /\ HubTypeOK
BY DEF HubInv, KeptTable, EvidenceOfTarget, HubTypeOK

\* The invariant holds from the start.
THEOREM HubInvariant == HubSpec => []HubInv
<1>1. HubInit => HubInv
  BY HubStarts, HubAssumption
<1>2. HubInv /\ [HubNext]_hubVars => HubInv'
  BY HubStep, HubAssumption
<1> QED
  BY <1>1, <1>2, PTL DEF HubSpec

\* The page and the element offered as evidence are always of the current
\* target, for any number of sessions, documents and restarts.
THEOREM EvidenceHolds == HubSpec => [](EvidenceOfTarget /\ HubTypeOK)
<1>1. HubInv => EvidenceOfTarget /\ HubTypeOK
  BY HubHolds
<1> QED
  BY <1>1, HubInvariant, PTL

\* What is known of the revisions of a session with state x: the present one
\* has stood for the present document, and the later ones for none.
Names(x, f) ==
  /\ f \in [0 .. MaxRevision -> SUBSET Documents]
  /\ \A r \in 0 .. MaxRevision :
       /\ \A d, e \in f[r] : d = e
       /\ r = x.revision => f[r] \subseteq {x.tab}
       /\ r > x.revision => f[r] = {}

NamesInv == /\ named \in [Profiles -> [0 .. MaxRevision -> SUBSET Documents]]
            /\ \A s \in Profiles : Names(SessionOf(s), named[s])

LEMMA RetargetNames ==
  ASSUME HubAssumption, NEW x, Found(x), NEW f, Names(x, f), NEW d \in Documents,
         x.revision < MaxRevision
  PROVE  LET y == Retarget(x, d)
         IN  Names(y, [f EXCEPT ![y.revision] = @ \cup {d}])
<1> DEFINE y == Retarget(x, d)
<1>1. NoDocument \notin Documents /\ MaxRevision \in Nat /\ x.revision \in Nat
  BY DEF HubAssumption, Found, Session
<1>2. y.tab = d
  BY RetargetFound
<1> DEFINE g == [f EXCEPT ![y.revision] = @ \cup {d}]
<1>3. g \in [0 .. MaxRevision -> SUBSET Documents]
      /\ \A r \in 0 .. MaxRevision : g[r] = IF r = y.revision THEN f[r] \cup {d} ELSE f[r]
  BY DEF Names
<1>4. CASE x.tab \in {NoDocument, d}
  <2>1. y.revision = x.revision
    BY <1>4 DEF Retarget, Found, Session
  <2>2. x.revision \in 0 .. MaxRevision
    BY <1>1
  <2>3. f[x.revision] \subseteq {d}
    BY <1>1, <1>4, <2>2 DEF Names
  <2> HIDE DEF y, g
  <2>4. ASSUME NEW r \in 0 .. MaxRevision
        PROVE  /\ \A e1, e2 \in g[r] : e1 = e2
               /\ r = y.revision => g[r] \subseteq {y.tab}
               /\ r > y.revision => g[r] = {}
    <3>1. CASE r = y.revision
      <4>1. g[r] \subseteq {d} /\ ~(r > y.revision)
        BY <1>1, <1>3, <2>1, <2>3, <3>1
      <4> QED
        BY <1>2, <4>1
    <3>2. CASE r # y.revision
      BY <1>3, <2>1, <3>2 DEF Names
    <3> QED
      BY <3>1, <3>2
  <2>5. Names(y, g)
    BY <1>3, <2>4 DEF Names
  <2> QED
    BY <2>5 DEF y, g
<1>5. CASE x.tab \notin {NoDocument, d}
  <2>1. y.revision = x.revision + 1
    BY <1>5 DEF Retarget, Found, Session
  <2>2. x.revision + 1 \in 0 .. MaxRevision /\ x.revision + 1 > x.revision
    BY <1>1
  <2>3. f[x.revision + 1] = {}
    BY <2>2 DEF Names
  <2> HIDE DEF y, g
  <2>4. ASSUME NEW r \in 0 .. MaxRevision
        PROVE  /\ \A e1, e2 \in g[r] : e1 = e2
               /\ r = y.revision => g[r] \subseteq {y.tab}
               /\ r > y.revision => g[r] = {}
    <3>1. CASE r = y.revision
      <4>1. g[r] = {d} /\ ~(r > y.revision)
        BY <1>3, <2>1, <2>2, <2>3, <3>1
      <4> QED
        BY <1>2, <4>1
    <3>2. CASE r # y.revision
      <4>1. g[r] = f[r]
        BY <1>3, <3>2
      <4>2. r > y.revision => r > x.revision
        BY <1>1, <2>1
      <4> QED
        BY <3>2, <4>1, <4>2 DEF Names
    <3> QED
      BY <3>1, <3>2
  <2>5. Names(y, g)
    BY <1>3, <2>4 DEF Names
  <2> QED
    BY <2>5 DEF y, g
<1> QED
  BY <1>4, <1>5

\* Only the session that is heard of changes its names.
LEMMA HeardNames ==
  ASSUME NamesInv, NEW s \in Profiles, NEW x, Heard(s, x),
         \/ Names(x, named[s]) /\ named' = named
         \/ \E f : Names(x, f) /\ named' = [named EXCEPT ![s] = f]
  PROVE  NamesInv'
<1>1. \A u \in Profiles : SessionOf(u)' = IF u = s THEN x ELSE SessionOf(u)
  BY DEF Heard, With, SessionOf
<1> QED
  BY <1>1 DEF NamesInv, Names

LEMMA AnnouncedIs ==
  ASSUME NamesInv, NEW s \in Profiles, NEW x, NEW d, Announced(s, x, d)
  PROVE  named' = [named EXCEPT ![s] = [named[s] EXCEPT ![x.revision] = @ \cup {d}]]
  BY DEF Announced, NamesInv

LEMMA NamesStep ==
  ASSUME HubAssumption, HubInv, NamesInv, [HubNext]_hubVars
  PROVE  NamesInv'
<1>1. \A s \in Profiles : Found(SessionOf(s)) /\ Names(SessionOf(s), named[s])
  BY SessionFound DEF NamesInv, SessionIds
<1>2. \A x, y, f : Names(x, f) /\ y.revision = x.revision /\ y.tab = x.tab => Names(y, f)
  BY DEF Names
<1>3. ASSUME NEW s \in Profiles, NEW d \in Documents, Room(s), NEW x,
             Heard(s, x), x.revision = Retarget(SessionOf(s), d).revision,
             x.tab = Retarget(SessionOf(s), d).tab,
             named' = [named EXCEPT ![s] = [named[s] EXCEPT ![x.revision] = @ \cup {d}]]
      PROVE  NamesInv'
  <2> DEFINE y == Retarget(SessionOf(s), d)
             f == [named[s] EXCEPT ![y.revision] = @ \cup {d}]
  <2>1. Names(y, f)
    BY <1>1, <1>3, RetargetNames DEF Room
  <2>2. named' = [named EXCEPT ![s] = f] /\ x.revision = y.revision /\ x.tab = y.tab
    BY <1>3
  <2> HIDE DEF y, f
  <2> QED
    BY <1>2, <1>3, <2>1, <2>2, HeardNames
<1>4. ASSUME NEW s \in Profiles, NEW d \in Documents, SetCurrentTab(s, d)
      PROVE  NamesInv'
  <2> DEFINE y == Retarget(SessionOf(s), d)
  <2>1. Heard(s, y) /\ Announced(s, y, d) /\ Room(s)
    BY <1>4 DEF SetCurrentTab
  <2> QED
    BY <1>3, <2>1, AnnouncedIs
<1>5. ASSUME NEW s \in Profiles, NEW d \in Documents, SetElementSelected(s, d)
      PROVE  NamesInv'
  <2> DEFINE y == Retarget(SessionOf(s), d)
             x == [y EXCEPT !.element = d]
  <2>1. Heard(s, x) /\ Announced(s, x, d) /\ Room(s)
    BY <1>5 DEF SetElementSelected
  <2>2. Found(y)
    BY <1>1, RetargetFound
  <2> HIDE DEF y
  <2>3. x.revision = y.revision /\ x.tab = y.tab
    BY <2>2 DEF Found, Session
  <2> HIDE DEF x
  <2> QED
    BY <1>3, <2>1, <2>3, AnnouncedIs DEF y
<1>6. ASSUME NEW s \in Profiles, NEW d \in Documents, NEW provenance \in BOOLEAN,
             SetPageContext(s, d, provenance)
      PROVE  NamesInv'
  <2> DEFINE z == SessionOf(s)
             y == Retarget(z, d)
             x == [y EXCEPT !.page = d]
  <2>1. CASE Heard(s, x) /\ Announced(s, x, d)
    <3>1. Found(y)
      BY <1>1, RetargetFound
    <3> HIDE DEF y
    <3>2. x.revision = y.revision /\ x.tab = y.tab
      BY <3>1 DEF Found, Session
    <3> HIDE DEF x
    <3>3. Room(s)
      BY <1>6 DEF SetPageContext
    <3> QED
      BY <1>3, <2>1, <3>2, <3>3, AnnouncedIs DEF y
  <2>2. CASE Heard(s, x) /\ Unannounced /\ z.tab = d
    <3>1. Found(z) /\ y = [z EXCEPT !.tab = d]
      BY <1>1, <2>2 DEF Retarget
    <3> HIDE DEF z, y
    <3>2. x.revision = z.revision /\ x.tab = z.tab
      BY <2>2, <3>1 DEF Found, Session
    <3>3. Names(x, named[s])
      BY <1>1, <1>2, <3>2 DEF z
    <3> HIDE DEF x
    <3> QED
      BY <2>2, <3>3, HeardNames DEF Unannounced
  <2>3. CASE Heard(s, z) /\ Unannounced
    BY <1>1, <2>3, HeardNames DEF Unannounced
  <2> QED
    BY <1>6, <2>1, <2>2, <2>3 DEF SetPageContext, Accepts
<1>7. ASSUME NEW s \in Profiles, NEW x, Heard(s, x), Unannounced,
             x.revision = SessionOf(s).revision, x.tab = SessionOf(s).tab
      PROVE  NamesInv'
  BY <1>1, <1>2, <1>7, HeardNames DEF Unannounced
<1>8. ASSUME NEW s \in Profiles, NEW d \in Captured, RecordScreenshot(s, d)
      PROVE  NamesInv'
  <2> DEFINE z == SessionOf(s)
             x == [z EXCEPT !.screenshots = @ \cup {d}]
  <2>1. Heard(s, x) /\ Unannounced /\ Found(z)
    BY <1>1, <1>8 DEF RecordScreenshot
  <2> HIDE DEF z
  <2>2. x.revision = z.revision /\ x.tab = z.tab
    BY <2>1 DEF Found, Session
  <2> QED
    BY <1>7, <2>1, <2>2 DEF z
<1>9. ASSUME NEW s \in Profiles, NEW role \in Roles, Connect(s, role) \/ Disconnect(s, role)
      PROVE  NamesInv'
  <2> DEFINE z == SessionOf(s)
             x == [z EXCEPT !.connected = @ \cup {role}]
             w == [z EXCEPT !.connected = @ \ {role}]
  <2>1. (Heard(s, x) \/ Heard(s, w)) /\ Unannounced /\ Found(z)
    BY <1>1, <1>9 DEF Connect, Disconnect, SessionOf
  <2> HIDE DEF z
  <2>2. x.revision = z.revision /\ x.tab = z.tab /\ w.revision = z.revision /\ w.tab = z.tab
    BY <2>1 DEF Found, Session
  <2> QED
    BY <1>7, <2>1, <2>2 DEF z
<1>10. ASSUME NEW s \in Profiles, Touch(s)
       PROVE  NamesInv'
  BY <1>7, <1>10 DEF Touch
<1>11. CASE UNCHANGED <<sessions, named>>
  BY <1>11 DEF NamesInv, SessionOf
<1>12. ASSUME NEW s \in Profiles,
              NEW d, ReceiveScreenshot(s, d) \/ LoseScreenshot(s, d) \/ Expire(s)
       PROVE  NamesInv'
  BY <1>11, <1>12 DEF ReceiveScreenshot, LoseScreenshot, Expire
<1>13. CASE CleanupExpiredSessions
  <2>1. PICK gone : /\ sessions' = [s \in DOMAIN sessions \ gone |-> sessions[s]]
                    /\ gone \subseteq DOMAIN sessions /\ Forget(gone)
    BY <1>13 DEF CleanupExpiredSessions
  <2>2. ASSUME NEW s \in Profiles
        PROVE  Names(SessionOf(s)', named'[s])
    <3>1. CASE s \in gone
      BY <2>1, <3>1 DEF SessionOf, NewSession, Forget, Names, HubAssumption
    <3>2. CASE s \notin gone
      BY <1>1, <2>1, <3>2 DEF SessionOf, Forget
    <3> QED
      BY <3>1, <3>2
  <2> QED
    BY <2>1, <2>2 DEF NamesInv, Names, Forget
<1>14. CASE Restart
  <2>1. named' = [s \in Profiles |-> [r \in 0 .. MaxRevision |->
                   IF SessionOf(s)'.revision = r THEN {SessionOf(s)'.tab} \ {NoDocument} ELSE {}]]
    BY <1>14 DEF Restart
  <2>2. HubInv'
    BY <1>14, HubStep
  <2>3. ASSUME NEW s \in Profiles
        PROVE  SessionOf(s)'.tab \in Documents \cup {NoDocument} /\ SessionOf(s)'.revision \in Nat
    <3>1. s \in DOMAIN sessions' => sessions'[s] \in Session
      BY <2>2 DEF HubInv, KeptTable
    <3> QED
      BY <3>1 DEF SessionOf, NewSession, Session
  <2>4. ASSUME NEW s \in Profiles
        PROVE  Names(SessionOf(s)', named'[s])
    BY <2>1, <2>3 DEF Names, HubAssumption
  <2> QED
    BY <2>1, <2>4 DEF NamesInv, Names
<1>15. CASE Save
  BY <1>11, <1>15 DEF Save
<1>16. CASE UNCHANGED hubVars
  BY <1>11, <1>16 DEF hubVars
<1> QED
  BY <1>4, <1>5, <1>6, <1>8, <1>9, <1>10, <1>12, <1>13, <1>14, <1>15, <1>16 DEF HubNext

\* A revision of a session stands for one document as long as the daemon runs:
\* a request that finds the revision it was authorised at is about the same
\* document.
THEOREM RevisionsNameDocuments == HubSpec => []RevisionNamesDocument
<1>1. HubInit => NamesInv
  BY HubAssumption DEF HubInit, NamesInv, Names, SessionOf, NewSession, HubAssumption
<1>2. HubInv /\ NamesInv /\ [HubNext]_hubVars => NamesInv'
  BY NamesStep, HubAssumption
<1>3. NamesInv => RevisionNamesDocument
  BY AtMostOne DEF NamesInv, Names, RevisionNamesDocument
<1> QED
  BY <1>1, <1>2, <1>3, HubInvariant, PTL DEF HubSpec

-----------------------------------------------------------------------------
(* Delegated tasks *)

\* What callers have been told of a task that is retained is its result; a task
\* that somebody waits for is retained and undecided.
AnswersAgree ==
  /\ answers \in [Tasks -> SUBSET Statuses]
  /\ \A t \in Tasks : \A a, b \in answers[t] : a = b
  /\ \A t \in Tasks : Known(t) => answers[t] \subseteq {workspace[t].result}

GroupsTyped ==
  /\ page \in Pages
  /\ \A t \in DOMAIN workspace : workspace[t] \in Group

TasksInv == GroupsTyped /\ AnswersAgree /\ WaitersAreLive

LEMMA UpsertAgrees ==
  ASSUME TasksAssumption, TasksInv, NEW t \in Tasks, NEW g \in Group,
         IF Known(t) THEN workspace[t].result = Nobody ELSE g.result = Nobody,
         Upsert(t, g), UNCHANGED page
  PROVE  TasksInv'
<1>1. PICK live, kept :
        /\ workspace' = [u \in live \cap kept |-> IF u = t THEN g ELSE workspace[u]]
        /\ \A u \in live : u = t \/ Known(u)
  <2> DEFINE L == {u \in DOMAIN workspace : u \notin lapsed} \cup {t}
             groups == [u \in L |-> IF u = t THEN g ELSE workspace[u]]
  <2>1. \E kept : workspace' = [u \in L \cap kept |-> groups[u]]
    BY Zenon DEF Upsert
  <2>2. \A u \in L : u = t \/ Known(u)
    BY DEF Known
  <2>3. \A u \in L : groups[u] = IF u = t THEN g ELSE workspace[u]
    OBVIOUS
  <2> HIDE DEF L
  <2>4. \A kept : [u \in L \cap kept |-> groups[u]] = [u \in L \cap kept |-> IF u = t THEN g ELSE workspace[u]]
    OBVIOUS
  <2> QED
    BY <2>1, <2>2, <2>4
<1>2. /\ waiting' = StillWaiting(workspace')
      /\ answers' = [u \in Tasks |->
           (IF u = t /\ ~Known(t) THEN {} ELSE answers[u])
             \cup (IF u \in (waiting \ waiting') \cap DOMAIN workspace' THEN {workspace'[u].result} ELSE {})]
  BY Zenon DEF Upsert, Notify
<1>3. \A u \in DOMAIN workspace' : workspace'[u] = (IF u = t THEN g ELSE workspace[u]) /\ (u = t \/ Known(u))
  BY <1>1
<1>4. WaitersAreLive'
  BY <1>2 DEF WaitersAreLive, StillWaiting, Known
<1>5. \A u \in Tasks : u \in (waiting \ waiting') \cap DOMAIN workspace' =>
        /\ u = t /\ Known(t) /\ answers[t] = {}
        /\ workspace'[u].result = g.result /\ g.result \in Statuses
  <2> SUFFICES ASSUME NEW u \in Tasks, u \in waiting, u \notin waiting', u \in DOMAIN workspace'
               PROVE  /\ u = t /\ Known(t) /\ answers[t] = {}
                      /\ workspace'[u].result = g.result /\ g.result \in Statuses
    OBVIOUS
  <2>1. Known(u) /\ workspace[u].result = Nobody
    BY DEF TasksInv, WaitersAreLive
  <2>2. workspace'[u].result # Nobody
    BY <1>2 DEF StillWaiting
  <2>3. u = t /\ workspace'[u] = g
    BY <1>3, <2>1, <2>2
  <2>4. answers[t] = {}
    BY <2>1, <2>3 DEF TasksInv, AnswersAgree, TasksAssumption
  <2>5. g.result \in Statuses
    BY <2>2, <2>3 DEF Group
  <2> QED
    BY <2>1, <2>2, <2>3, <2>4, <2>5
<1>6. \A u \in Tasks : Known(u)' => answers'[u] \subseteq {workspace'[u].result}
  <2> SUFFICES ASSUME NEW u \in Tasks, u \in DOMAIN workspace'
               PROVE  answers'[u] \subseteq {workspace'[u].result}
    BY DEF Known
  <2>1. CASE u \in waiting \ waiting'
    BY <1>2, <1>5, <2>1
  <2>2. CASE u \notin waiting \ waiting'
    <3>1. answers'[u] = IF u = t /\ ~Known(t) THEN {} ELSE answers[u]
      BY <1>2, <2>2
    <3>2. CASE u = t
      <4>1. Known(t) => answers[t] = {}
        BY DEF TasksInv, AnswersAgree, TasksAssumption
      <4> QED
        BY <3>1, <3>2, <4>1
    <3>3. CASE u # t
      <4>1. Known(u) /\ workspace'[u] = workspace[u]
        BY <1>3, <3>3
      <4> QED
        BY <3>1, <3>3, <4>1 DEF TasksInv, AnswersAgree
    <3> QED
      BY <3>2, <3>3
  <2> QED
    BY <2>1, <2>2
<1>7. answers' \in [Tasks -> SUBSET Statuses] /\ \A u \in Tasks : \A a, b \in answers'[u] : a = b
  <2> SUFFICES ASSUME NEW u \in Tasks
               PROVE  answers'[u] \subseteq Statuses /\ \A a, b \in answers'[u] : a = b
    BY <1>2
  <2>1. CASE u \in (waiting \ waiting') \cap DOMAIN workspace'
    <3>1. answers'[u] = {g.result} /\ g.result \in Statuses
      BY <1>2, <1>5, <2>1
    <3> QED
      BY <3>1
  <2>2. CASE u \notin (waiting \ waiting') \cap DOMAIN workspace'
    <3>1. answers'[u] \subseteq answers[u]
      BY <1>2, <2>2
    <3> QED
      BY <3>1 DEF TasksInv, AnswersAgree
  <2> QED
    BY <2>1, <2>2
<1>8. GroupsTyped'
  BY <1>3 DEF TasksInv, GroupsTyped, Known
<1> QED
  BY <1>4, <1>6, <1>7, <1>8 DEF TasksInv, AnswersAgree

LEMMA TasksStep ==
  ASSUME TasksAssumption, TasksInv, [TasksNext]_taskVars
  PROVE  TasksInv'
<1> DEFINE AnswersNow(t, status) ==
      /\ Known(t) /\ workspace[t].result = status
      /\ answers' = [answers EXCEPT ![t] = @ \cup ({status} \ {Nobody})]
      /\ UNCHANGED <<page, workspace>>
<1>a. ASSUME NEW t \in Tasks, AnswersNow(t, workspace[t].result)
      PROVE  AnswersAgree' /\ GroupsTyped'
  <2>1. workspace[t].result \in Statuses \cup {Nobody}
    BY <1>a DEF TasksInv, GroupsTyped, Known, Group
  <2>2. answers[t] \subseteq {workspace[t].result} \ {Nobody}
    BY <1>a DEF TasksInv, AnswersAgree, TasksAssumption
  <2>3. answers'[t] = {workspace[t].result} \ {Nobody}
    BY <1>a, <2>2 DEF TasksInv, AnswersAgree
  <2>4. \A u \in Tasks \ {t} : answers'[u] = answers[u]
    BY <1>a DEF TasksInv, AnswersAgree
  <2>5. answers' \in [Tasks -> SUBSET Statuses]
    BY <1>a, <2>1, <2>2 DEF TasksInv, AnswersAgree
  <2> QED
    BY <1>a, <2>3, <2>4, <2>5 DEF TasksInv, AnswersAgree, GroupsTyped, Known
<1>1. ASSUME NEW p \in Pages, Navigate(p)
      PROVE  TasksInv'
  BY <1>1 DEF Navigate, TasksInv, GroupsTyped, AnswersAgree, WaitersAreLive, Known
<1>2. ASSUME NEW t \in Tasks, Wait(t)
      PROVE  TasksInv'
  <2>1. AnswersAgree' /\ GroupsTyped'
    BY <1>2, <1>a DEF Wait
  <2>2. WaitersAreLive'
    BY <1>2 DEF Wait, Decided, TasksInv, WaitersAreLive, Known
  <2> QED
    BY <2>1, <2>2 DEF TasksInv
<1>3. ASSUME NEW t \in Tasks, StopWaiting(t)
      PROVE  TasksInv'
  BY <1>3 DEF StopWaiting, TasksInv, GroupsTyped, AnswersAgree, WaitersAreLive, Known
<1>4. ASSUME NEW t \in Tasks, Update(t)
      PROVE  TasksInv'
  <2>1. Known(t) /\ workspace[t].result = Nobody /\ workspace[t] \in Group
    BY <1>4 DEF Update, Decided, TasksInv, GroupsTyped, Known
  <2>2. [workspace[t] EXCEPT !.events = 1] \in Group
    BY <2>1 DEF Group
  <2> QED
    BY <1>4, <2>1, <2>2, UpsertAgrees DEF Update
<1>5. ASSUME NEW t \in Tasks, Lapse(t)
      PROVE  TasksInv'
  BY <1>5 DEF Lapse, TasksInv, GroupsTyped, AnswersAgree, WaitersAreLive, Known
<1>6. ASSUME NEW t \in Tasks, NEW content \in Contents, DelegateNew(t, content)
      PROVE  TasksInv'
  <2> DEFINE g == [content |-> content, target |-> page, claim |-> Nobody, events |-> 0, result |-> Nobody]
  <2>1. g \in Group /\ g.result = Nobody
    BY DEF Group, TasksInv, GroupsTyped
  <2>2. ~Known(t) /\ Upsert(t, g) /\ UNCHANGED page
    BY <1>6 DEF DelegateNew
  <2> HIDE DEF g
  <2> QED
    BY <2>1, <2>2, UpsertAgrees
<1>7. ASSUME NEW t \in Tasks, NEW content \in Contents, DelegateAgain(t, content)
      PROVE  TasksInv'
  <2>1. AnswersAgree' /\ GroupsTyped'
    BY <1>7, <1>a DEF DelegateAgain
  <2>2. WaitersAreLive'
    BY <1>7 DEF DelegateAgain, TasksInv, WaitersAreLive, Known
  <2> QED
    BY <2>1, <2>2 DEF TasksInv
<1>8. ASSUME NEW t \in Tasks, NEW c \in Conversations, Claim(t, c)
      PROVE  TasksInv'
  <2>1. Known(t) /\ workspace[t].result = Nobody /\ workspace[t] \in Group
    BY <1>8 DEF Claim, Decided, TasksInv, GroupsTyped, Known
  <2> DEFINE g == [workspace[t] EXCEPT !.claim = [conversation |-> c, attempt |-> 1]]
  <2>2. g \in Group
    BY <2>1 DEF Group
  <2>3. Upsert(t, g) /\ UNCHANGED page
    BY <1>8 DEF Claim
  <2> HIDE DEF g
  <2> QED
    BY <2>1, <2>2, <2>3, UpsertAgrees
<1>9. ASSUME NEW t \in Tasks, NEW c \in Conversations, NEW rebind \in BOOLEAN, Resume(t, c, rebind)
      PROVE  TasksInv'
  <2>1. Known(t) /\ workspace[t].result = Nobody /\ workspace[t] \in Group /\ workspace[t].claim # Nobody
    BY <1>9 DEF Resume, Decided, TasksInv, GroupsTyped, Known
  <2> DEFINE g == [workspace[t] EXCEPT !.claim = [conversation |-> c, attempt |-> @.attempt + 1]]
  <2>2. workspace[t].claim.attempt + 1 \in Nat
    BY <2>1 DEF Group
  <2>3. g \in Group
    BY <2>1, <2>2 DEF Group
  <2>4. Upsert(t, g) /\ UNCHANGED page
    BY <1>9 DEF Resume
  <2> HIDE DEF g
  <2> QED
    BY <2>1, <2>3, <2>4, UpsertAgrees
<1>10. ASSUME NEW t \in Tasks, NEW c \in Conversations \cup {Nobody}, NEW status \in Statuses,
              Complete(t, c, status)
       PROVE  TasksInv'
  <2>1. Known(t) /\ workspace[t].result = Nobody /\ workspace[t] \in Group
    BY <1>10 DEF Complete, Decided, TasksInv, GroupsTyped, Known
  <2> DEFINE g == [workspace[t] EXCEPT !.result = status]
  <2>2. g \in Group
    BY <2>1 DEF Group
  <2>3. Upsert(t, g) /\ UNCHANGED page
    BY <1>10 DEF Complete
  <2> HIDE DEF g
  <2> QED
    BY <2>1, <2>2, <2>3, UpsertAgrees
<1>11. ASSUME NEW t \in Tasks, NEW c \in Conversations \cup {Nobody}, NEW status \in Statuses,
              CompleteAgain(t, c, status)
       PROVE  TasksInv'
  <2>1. {status} \ {Nobody} = {status}
    BY DEF TasksAssumption
  <2>2. AnswersAgree' /\ GroupsTyped'
    BY <1>11, <2>1, <1>a DEF CompleteAgain
  <2>3. WaitersAreLive'
    BY <1>11 DEF CompleteAgain, TasksInv, WaitersAreLive, Known
  <2> QED
    BY <2>2, <2>3 DEF TasksInv
<1>12. CASE UNCHANGED taskVars
  BY <1>12 DEF taskVars, TasksInv, GroupsTyped, AnswersAgree, WaitersAreLive, Known
<1> QED
  BY <1>1, <1>2, <1>3, <1>4, <1>5, <1>6, <1>7, <1>8, <1>9, <1>10, <1>11, <1>12 DEF TasksNext

\* Everyone who is given the result of a task is given the same one, and a
\* caller that waits waits for a task that is retained and undecided, whatever
\* the workspace drops.
THEOREM OneResult == TasksSpec => [](OneOutcome /\ WaitersAreLive)
<1>1. TasksInit => TasksInv
  BY TasksAssumption DEF TasksInit, TasksInv, GroupsTyped, AnswersAgree, WaitersAreLive, Known
<1>2. TasksInv /\ [TasksNext]_taskVars => TasksInv'
  BY TasksStep, TasksAssumption
<1>3. TasksInv => OneOutcome /\ WaitersAreLive
  BY AtMostOne DEF TasksInv, AnswersAgree, OneOutcome
<1> QED
  BY <1>1, <1>2, <1>3, PTL DEF TasksSpec

(* The tasks that are retained, in the order of their updates. *)

\* The sequence q lists the members of the set S, each once.
Lists(q, S) ==
  /\ q \in Seq(Tasks) /\ Members(q) = S
  /\ \A i, j \in DOMAIN q : q[i] = q[j] => i = j

LEMMA ListsLength ==
  ASSUME NEW S, NEW q, Lists(q, S)
  PROVE  Len(q) = Cardinality(S)
<1>1. Len(q) \in Nat /\ DOMAIN q = 1 .. Len(q) /\ S = {q[i] : i \in DOMAIN q} /\ q \in Seq(Tasks)
  BY DEF Lists, Members
<1>2. q \in [1 .. Len(q) -> S]
  BY <1>1
<1>3. IsInjective(q)
  BY DEF Lists, IsInjective
<1>4. q \in Bijection(1 .. Len(q), S)
  BY <1>1, <1>2, <1>3 DEF Bijection, Injection, Surjection
<1>5. ExistsBijection(1 .. Len(q), S)
  BY <1>4 DEF ExistsBijection
<1> QED
  BY <1>1, <1>5, FS_CountingElements

LEMMA ListsPart ==
  ASSUME NEW S, NEW q, Lists(q, S), NEW T
  PROVE  Lists(TasksIn(q, T), S \cap T)
<1> DEFINE kept == {i \in DOMAIN q : q[i] \in T}
<1>1. PICK r : r = Filtered(q, kept)
  OBVIOUS
<1>2. q \in Seq(Tasks) /\ S = {q[i] : i \in DOMAIN q} /\ \A i, j \in DOMAIN q : q[i] = q[j] => i = j
  BY DEF Lists, Members
<1>3. r \in Seq(Tasks) /\ IsFiltered(r, q, kept, Len(q)) /\ Members(r) = {q[k] : k \in kept \cap DOMAIN q}
  BY <1>1, <1>2, FilteredIs, FilteredMembers
<1>4. Members(r) = S \cap T
  BY <1>2, <1>3
<1>5. PICK at \in [1 .. Len(r) -> kept \cap (1 .. Len(q))] :
        /\ \A i \in 1 .. Len(r) : r[i] = q[at[i]]
        /\ \A i, j \in 1 .. Len(r) : i < j => at[i] < at[j]
  BY <1>3 DEF IsFiltered
<1>6. DOMAIN r = 1 .. Len(r) /\ DOMAIN q = 1 .. Len(q) /\ Len(r) \in Nat /\ Len(q) \in Nat
  BY <1>2, <1>3
<1>7. ASSUME NEW i \in DOMAIN r, NEW j \in DOMAIN r, r[i] = r[j]
      PROVE  i = j
  <2>1. at[i] = at[j] /\ at[i] \in Nat
    BY <1>2, <1>5, <1>6, <1>7
  <2>2. ~(i < j) /\ ~(j < i)
    BY <1>5, <1>6, <2>1
  <2> QED
    BY <1>6, <2>2
<1>8. TasksIn(q, T) = r
  BY <1>1 DEF TasksIn
<1> QED
  BY <1>3, <1>4, <1>7, <1>8 DEF Lists

LEMMA ListsOneMore ==
  ASSUME NEW S, NEW q, Lists(q, S), NEW t \in Tasks, t \notin S
  PROVE  Lists(Append(q, t), S \cup {t})
<1>1. q \in Seq(Tasks) /\ S = {q[i] : i \in DOMAIN q} /\ \A i, j \in DOMAIN q : q[i] = q[j] => i = j
  BY DEF Lists, Members
<1>2. PICK r : r = Append(q, t)
  OBVIOUS
<1>3. /\ r \in Seq(Tasks) /\ DOMAIN q = 1 .. Len(q) /\ DOMAIN r = 1 .. Len(q) + 1 /\ Len(q) \in Nat
      /\ \A i \in DOMAIN q : r[i] = q[i]
      /\ r[Len(q) + 1] = t
  BY <1>1, <1>2
<1>4. \A i \in DOMAIN r : i \in DOMAIN q \/ i = Len(q) + 1
  BY <1>3
<1>5. Members(r) = S \cup {t}
  <2>1. Len(q) + 1 \in DOMAIN r /\ \A i \in DOMAIN q : i \in DOMAIN r
    BY <1>3
  <2> QED
    BY <1>1, <1>3, <1>4, <2>1 DEF Members
<1>6. \A i, j \in DOMAIN r : r[i] = r[j] => i = j
  <2>1. \A i \in DOMAIN q : q[i] # t
    BY <1>1
  <2> QED
    BY <1>1, <1>3, <1>4, <2>1
<1> QED
  BY <1>2, <1>3, <1>5, <1>6 DEF Lists

TasksListed ==
  /\ DOMAIN workspace \subseteq Tasks /\ Lists(recent, DOMAIN workspace)
  /\ lapsed \subseteq DOMAIN workspace /\ waiting \subseteq Tasks

LEMMA UpsertLists ==
  ASSUME TasksListed, NEW t \in Tasks, NEW g, Upsert(t, g)
  PROVE  TasksListed'
<1> DEFINE live == {u \in DOMAIN workspace : u \notin lapsed} \cup {t}
<1>1. PICK kept : /\ DOMAIN workspace' = live \cap kept
                  /\ recent' = TasksIn(Append(TasksIn(recent, live \ {t}), t), kept)
  BY Zenon DEF Upsert
<1>2. lapsed' = {} /\ waiting' \subseteq waiting
  BY DEF Upsert, Notify, StillWaiting
<1>3. Lists(TasksIn(recent, live \ {t}), DOMAIN workspace \cap (live \ {t}))
  BY ListsPart DEF TasksListed
<1>4. DOMAIN workspace \cap (live \ {t}) = live \ {t}
  OBVIOUS
<1>5. live \subseteq Tasks
  BY DEF TasksListed
<1>6. (live \ {t}) \cup {t} = live
  OBVIOUS
<1> HIDE DEF live
<1>7. Lists(Append(TasksIn(recent, live \ {t}), t), live)
  BY <1>3, <1>4, <1>6, ListsOneMore
<1>8. Lists(recent', live \cap kept)
  BY <1>1, <1>7, ListsPart
<1> QED
  BY <1>1, <1>2, <1>5, <1>8 DEF TasksListed

LEMMA TasksListedStep ==
  ASSUME TasksListed, [TasksNext]_taskVars
  PROVE  TasksListed'
<1>1. ASSUME NEW t \in Tasks, NEW g, Upsert(t, g)
      PROVE  TasksListed'
  BY <1>1, UpsertLists
<1>2. ASSUME UNCHANGED <<workspace, recent>>, lapsed' \subseteq DOMAIN workspace, waiting' \subseteq Tasks
      PROVE  TasksListed'
  BY <1>2 DEF TasksListed
<1>3. ASSUME NEW p \in Pages, Navigate(p)
      PROVE  TasksListed'
  BY <1>2, <1>3 DEF Navigate, TasksListed
<1>4. ASSUME NEW t \in Tasks, Wait(t) \/ StopWaiting(t) \/ Lapse(t)
      PROVE  TasksListed'
  <2>1. waiting' \subseteq Tasks /\ lapsed' \subseteq DOMAIN workspace
    BY <1>4 DEF Wait, StopWaiting, Lapse, TasksListed, Known
  <2> QED
    BY <1>2, <1>4, <2>1 DEF Wait, StopWaiting, Lapse
<1>5. ASSUME NEW t \in Tasks, Update(t)
      PROVE  TasksListed'
  BY <1>1, <1>5 DEF Update
<1>6. ASSUME NEW t \in Tasks, NEW content \in Contents, DelegateNew(t, content) \/ DelegateAgain(t, content)
      PROVE  TasksListed'
  BY <1>1, <1>2, <1>6 DEF DelegateNew, DelegateAgain, TasksListed
<1>7. ASSUME NEW t \in Tasks, NEW c \in Conversations, NEW rebind \in BOOLEAN, Claim(t, c) \/ Resume(t, c, rebind)
      PROVE  TasksListed'
  BY <1>1, <1>7 DEF Claim, Resume
<1>8. ASSUME NEW t \in Tasks, NEW c \in Conversations \cup {Nobody}, NEW status \in Statuses,
             Complete(t, c, status) \/ CompleteAgain(t, c, status)
      PROVE  TasksListed'
  BY <1>1, <1>2, <1>8 DEF Complete, CompleteAgain, TasksListed
<1>9. CASE UNCHANGED taskVars
  BY <1>2, <1>9 DEF taskVars, TasksListed
<1> QED
  BY <1>3, <1>4, <1>5, <1>6, <1>7, <1>8, <1>9 DEF TasksNext

LEMMA TasksStart ==
  ASSUME TasksAssumption, TasksInit
  PROVE  TasksInv /\ TasksListed
<1>1. TasksInv
  BY DEF TasksAssumption, TasksInit, TasksInv, GroupsTyped, AnswersAgree, WaitersAreLive, Known
<1>2. Lists(<<>>, {})
  <2>1. <<>> \in Seq(Tasks) /\ DOMAIN <<>> = {}
    BY EmptySeq
  <2> QED
    BY <2>1 DEF Lists, Members
<1>3. DOMAIN workspace = {} /\ recent = <<>> /\ lapsed = {} /\ waiting = {}
  BY DEF TasksInit
<1> QED
  BY <1>1, <1>2, <1>3 DEF TasksListed

LEMMA TasksTypesHold ==
  ASSUME TasksInv, TasksListed
  PROVE  TasksTypeOK
<1>1. Len(recent) = Cardinality(DOMAIN workspace)
  BY ListsLength DEF TasksListed
<1>2. ToSet(recent) = DOMAIN workspace
  BY DEF TasksListed, Lists, Members, ToSet
<1> QED
  BY <1>1, <1>2 DEF TasksTypeOK, TasksInv, GroupsTyped, TasksListed

\* The tasks that are retained are listed once each, whatever is dropped to make
\* room, and none lapses that is not there.
THEOREM TasksTyping == TasksSpec => []TasksTypeOK
<1>1. TasksInit => TasksInv /\ TasksListed
  BY TasksStart, TasksAssumption
<1>2. TasksInv /\ TasksListed /\ [TasksNext]_taskVars => (TasksInv /\ TasksListed)'
  BY TasksStep, TasksListedStep, TasksAssumption
<1>3. TasksInv /\ TasksListed => TasksTypeOK
  BY TasksTypesHold
<1> QED
  BY <1>1, <1>2, <1>3, PTL DEF TasksSpec

-----------------------------------------------------------------------------
(* Artifacts *)

Made == [owner : Owners, blob : Blobs]
ArtifactJobs == {Rest} \cup [at : {"load", "clean", "cleaned"}, want : Wants]
        \cup [at : {"evict", "saving", "deleting"}, want : Wants, removed : SUBSET Nat, new : SUBSET Nat]

ArtifactsTyped ==
  /\ made \in Seq(Made) /\ job \in ArtifactJobs
  /\ index \subseteq Ids /\ files \subseteq Ids
  /\ loaded \in BOOLEAN

\* What the memory holds besides the index, at each point of an operation: the
\* new artifact has its file, and what was removed is in the index until an
\* index without it is saved.
MemoryMatches ==
  /\ ~loaded => artifacts = {} /\ job.at \in {"rest", "load"}
  /\ loaded => job.at # "load"
  /\ loaded /\ job.at \in {"rest", "clean", "cleaned"} => artifacts = index
  /\ job.at \in {"evict", "saving"} =>
       job.new \subseteq files \ index
  /\ job.at = "evict" => artifacts = index \cup job.new
  /\ job.at = "saving" => /\ artifacts = (index \cup job.new) \ job.removed
                          /\ job.removed \subseteq index \cup job.new
  /\ job.at = "deleting" => artifacts = index /\ job.removed \cap index = {}

ArtifactInv == ArtifactsTyped /\ MemoryMatches /\ ArtifactsKept

LEMMA ArtifactStep ==
  ASSUME ArtifactAssumption, LateFailure = FALSE, ArtifactInv, [ArtifactNext]_artifactVars
  PROVE  ArtifactInv'
<1> USE DEF ArtifactsKept, IndexHasFiles, GivenUntilRetired
<1>1. ASSUME NEW want \in Wants, BeginJob(want)
      PROVE  ArtifactInv'
  BY <1>1 DEF BeginJob, ArtifactInv, ArtifactsTyped, MemoryMatches, Ids, ArtifactJobs, Rest
<1>2. CASE LoadIndex
  <2>1. job' \in ArtifactJobs /\ job'.at = "clean"
    BY <1>2 DEF LoadIndex, ArtifactInv, ArtifactsTyped, ArtifactJobs, Rest
  <2> QED
    BY <1>2, <2>1 DEF LoadIndex, ArtifactInv, ArtifactsTyped, MemoryMatches, Ids
<1>3. CASE Clean
  <2> DEFINE removed == (artifacts \cap outdated) \cup Evictions(artifacts \ outdated)
  <2>1. removed \subseteq artifacts
    BY DEF Evictions
  <2>2. loaded /\ artifacts = index
    BY <1>3 DEF Clean, ArtifactInv, MemoryMatches
  <2>3. job.want \in Wants
    BY <1>3 DEF Clean, ArtifactInv, ArtifactsTyped, ArtifactJobs, Rest
  <2>4. \/ job' = [job EXCEPT !.at = "cleaned"] /\ artifacts' = artifacts
        \/ /\ job' = [at |-> "saving", want |-> job.want, removed |-> removed, new |-> {}]
           /\ artifacts' = artifacts \ removed
    BY <1>3 DEF Clean
  <2> HIDE DEF removed
  <2>5. CASE job' = [job EXCEPT !.at = "cleaned"] /\ artifacts' = artifacts
    <3>1. job' \in ArtifactJobs /\ job'.at = "cleaned"
      BY <1>3, <2>5 DEF Clean, ArtifactInv, ArtifactsTyped, ArtifactJobs, Rest
    <3> QED
      BY <1>3, <2>2, <2>5, <3>1 DEF Clean, ArtifactInv, ArtifactsTyped, MemoryMatches, Ids
  <2>6. CASE /\ job' = [at |-> "saving", want |-> job.want, removed |-> removed, new |-> {}]
             /\ artifacts' = artifacts \ removed
    <3>1. removed \subseteq Nat
      BY <2>1, <2>2 DEF ArtifactInv, ArtifactsTyped, Ids
    <3>2. job' \in ArtifactJobs
      BY <2>3, <2>6, <3>1 DEF ArtifactJobs
    <3>3. job'.at = "saving" /\ job'.removed = removed /\ job'.new = {}
      BY <2>6
    <3> QED
      BY <1>3, <2>1, <2>2, <2>6, <3>2, <3>3
      DEF Clean, ArtifactInv, ArtifactsTyped, MemoryMatches, Ids
  <2> QED
    BY <2>4, <2>5, <2>6
<1>4. CASE WriteFile
  <2> DEFINE id == Len(made) + 1
  <2>1. loaded /\ artifacts = index /\ job.at = "cleaned" /\ job.want \in Wants
    BY <1>4 DEF WriteFile, ArtifactInv, ArtifactsTyped, MemoryMatches, ArtifactJobs, Rest
  <2>2. CASE /\ job' = Rest /\ \E twins \in SUBSET artifacts : given' = given \cup twins
             /\ UNCHANGED <<made, files, artifacts>>
    BY <1>4, <2>1, <2>2 DEF WriteFile, ArtifactInv, ArtifactsTyped, MemoryMatches, Ids, ArtifactJobs, Rest
  <2>3. ASSUME NEW want \in Made, made' = Append(made, want), UNCHANGED given,
               \/ /\ files' = files \cup {id}
                  /\ artifacts' = artifacts \cup {id}
                  /\ job' = [at |-> "evict", want |-> job.want, removed |-> {}, new |-> {id}]
               \/ /\ files' \in {files, files \cup {id}}
                  /\ job' = Rest
                  /\ UNCHANGED artifacts
        PROVE  ArtifactInv'
    <3>1. /\ made' \in Seq(Made) /\ Ids' = Ids \cup {id} /\ id \notin Ids /\ id \in Nat
      BY <2>3 DEF ArtifactInv, ArtifactsTyped, Ids
    <3> HIDE DEF id
    <3>2. index' = index /\ loaded' = loaded /\ retired' = retired
      BY <1>4 DEF WriteFile
    <3>3. CASE /\ files' = files \cup {id}
               /\ artifacts' = artifacts \cup {id}
               /\ job' = [at |-> "evict", want |-> job.want, removed |-> {}, new |-> {id}]
      <4>1. job' \in ArtifactJobs /\ job'.at = "evict" /\ job'.new = {id}
        BY <2>1, <3>1, <3>3 DEF ArtifactJobs
      <4> QED
        BY <2>1, <2>3, <3>1, <3>2, <3>3, <4>1 DEF ArtifactInv, ArtifactsTyped, MemoryMatches
    <3>4. CASE /\ files' \in {files, files \cup {id}}
               /\ job' = Rest
               /\ UNCHANGED artifacts
      <4>1. job' \in ArtifactJobs /\ job'.at = "rest"
        BY <3>4 DEF ArtifactJobs, Rest
      <4> QED
        BY <2>1, <2>3, <3>1, <3>2, <3>4, <4>1 DEF ArtifactInv, ArtifactsTyped, MemoryMatches
    <3> QED
      BY <2>3, <3>3, <3>4
  <2>4. \A want \in job.want : want \in Made
    BY <2>1 DEF Wants, Made
  <2>5. \/ /\ job' = Rest /\ \E twins \in SUBSET artifacts : given' = given \cup twins
           /\ UNCHANGED <<made, files, artifacts>>
        \/ /\ \E want \in job.want : made' = Append(made, want)
           /\ UNCHANGED given
           /\ \/ /\ files' = files \cup {id}
                 /\ artifacts' = artifacts \cup {id}
                 /\ job' = [at |-> "evict", want |-> job.want, removed |-> {}, new |-> {id}]
              \/ /\ files' \in {files, files \cup {id}}
                 /\ job' = Rest
                 /\ UNCHANGED artifacts
    BY <1>4 DEF WriteFile
  <2> QED
    BY <2>2, <2>3, <2>4, <2>5
<1>5. CASE Answer
  BY <1>5 DEF Answer, ArtifactInv, ArtifactsTyped, MemoryMatches, Ids, ArtifactJobs, Rest
<1>6. CASE Evict
  <2>1. job \in [at : {"evict", "saving", "deleting"}, want : Wants, removed : SUBSET Nat, new : SUBSET Nat]
    BY <1>6 DEF Evict, ArtifactInv, ArtifactsTyped, ArtifactJobs, Rest
  <2>2. Evictions(artifacts) \subseteq artifacts /\ artifacts = index \cup job.new
    BY <1>6 DEF Evict, Evictions, ArtifactInv, MemoryMatches
  <2>3. artifacts \subseteq Nat
    <3>1. Len(made) \in Nat /\ index \subseteq Ids
      BY DEF ArtifactInv, ArtifactsTyped
    <3>2. index \subseteq Nat
      BY <3>1 DEF Ids
    <3>3. job.new \subseteq Nat
      BY <2>1
    <3> QED
      BY <2>2, <3>2, <3>3
  <2>4. job' \in ArtifactJobs /\ job'.at = "saving" /\ job'.removed = Evictions(artifacts) /\ job'.new = job.new
    BY <1>6, <2>1, <2>2, <2>3 DEF Evict, ArtifactJobs
  <2> QED
    BY <1>6, <2>2, <2>4 DEF Evict, ArtifactInv, ArtifactsTyped, MemoryMatches, Ids
<1>7. CASE SaveIndex
  <2>1. job \in [at : {"evict", "saving", "deleting"}, want : Wants, removed : SUBSET Nat, new : SUBSET Nat]
    BY <1>7 DEF SaveIndex, ArtifactInv, ArtifactsTyped, ArtifactJobs, Rest
  <2>2. job' \in ArtifactJobs /\ job'.at = "deleting" /\ job'.removed = job.removed
    BY <1>7, <2>1 DEF SaveIndex, ArtifactJobs
  <2>3. /\ artifacts = (index \cup job.new) \ job.removed /\ job.new \subseteq files
        /\ index' = artifacts /\ retired' = retired \cup job.removed
        /\ UNCHANGED <<made, files, artifacts, loaded, given>>
    BY <1>7 DEF SaveIndex, IndexSaved, ArtifactInv, MemoryMatches
  <2>4. loaded
    BY <1>7 DEF SaveIndex, ArtifactInv, MemoryMatches
  <2> QED
    BY <2>2, <2>3, <2>4 DEF ArtifactInv, ArtifactsTyped, MemoryMatches, Ids
<1>8. CASE SaveFails
  <2>1. /\ artifacts = (index \cup job.new) \ job.removed /\ job.new \subseteq files \ index
        /\ job.removed \subseteq index \cup job.new /\ loaded
    BY <1>8 DEF SaveFails, ArtifactInv, MemoryMatches
  <2>2. artifacts' = index /\ index' = index /\ retired' = retired
    BY <1>8, <2>1 DEF SaveFails, RolledBack, IndexFailed
  <2>3. job' \in ArtifactJobs /\ job'.at = "rest"
    BY <1>8 DEF SaveFails, ArtifactJobs, Rest
  <2> QED
    BY <1>8, <2>1, <2>2, <2>3 DEF SaveFails, ArtifactInv, ArtifactsTyped, MemoryMatches, Ids
<1>9. CASE DeleteFile
  <2>1. job \in [at : {"evict", "saving", "deleting"}, want : Wants, removed : SUBSET Nat, new : SUBSET Nat]
    BY <1>9 DEF DeleteFile, ArtifactInv, ArtifactsTyped, ArtifactJobs, Rest
  <2>2. artifacts = index /\ job.removed \cap index = {} /\ loaded /\ job.at = "deleting"
    BY <1>9 DEF DeleteFile, ArtifactInv, MemoryMatches
  <2>3. CASE job.removed # {}
    <3> DEFINE i == Min(job.removed)
    <3>1. i \in job.removed
      BY <2>1, <2>3, LeastExists
    <3>2. /\ files' \in {files, files \ {i}}
          /\ job' = [job EXCEPT !.removed = @ \ {i}]
          /\ UNCHANGED <<given, made, index, artifacts, loaded, retired>>
      BY <1>9, <2>3 DEF DeleteFile
    <3> HIDE DEF i
    <3>3. job' \in ArtifactJobs /\ job'.at = "deleting" /\ job'.removed = job.removed \ {i}
      BY <2>1, <2>2, <3>2 DEF ArtifactJobs
    <3> QED
      BY <2>2, <3>1, <3>2, <3>3 DEF ArtifactInv, ArtifactsTyped, MemoryMatches, Ids
  <2>4. CASE job.removed = {}
    <3>1. /\ job' = [at |-> "cleaned", want |-> job.want] \/ job' = Rest
          /\ given' = given \cup (job.new \cap artifacts)
          /\ UNCHANGED <<files, made, index, artifacts, loaded, retired>>
      BY <1>9, <2>4 DEF DeleteFile
    <3>2. job' \in ArtifactJobs /\ job'.at \in {"cleaned", "rest"}
      BY <2>1, <3>1 DEF ArtifactJobs, Rest
    <3> QED
      BY <2>2, <3>1, <3>2 DEF ArtifactInv, ArtifactsTyped, MemoryMatches, Ids
  <2> QED
    BY <2>3, <2>4
<1>10. CASE PassTime
  BY <1>10 DEF PassTime, ArtifactInv, ArtifactsTyped, MemoryMatches, Ids
<1>11. CASE StopDaemon
  BY <1>11 DEF StopDaemon, ArtifactInv, ArtifactsTyped, MemoryMatches, Ids, ArtifactJobs, Rest
<1>12. CASE UNCHANGED artifactVars
  BY <1>12 DEF artifactVars, ArtifactInv, ArtifactsTyped, MemoryMatches, Ids
<1> QED
  BY <1>1, <1>2, <1>3, <1>4, <1>5, <1>6, <1>7, <1>8, <1>9, <1>10, <1>11, <1>12
  DEF ArtifactNext

\* When a failed save leaves the old index, every artifact of the index has its
\* file at every moment the daemon can stop, and what a caller was given stays
\* there until an index without it is saved.
THEOREM ArtifactsStay ==
  ASSUME LateFailure = FALSE
  PROVE  ArtifactSpec => []ArtifactsKept
<1>1. ASSUME ArtifactInit
      PROVE  ArtifactInv
  <2>1. made \in Seq(Made) /\ job \in ArtifactJobs
    BY <1>1, EmptySeq DEF ArtifactInit, ArtifactJobs
  <2>2. index \subseteq Ids /\ files \subseteq Ids /\ loaded \in BOOLEAN
    BY <1>1 DEF ArtifactInit
  <2>3. job.at = "rest" /\ loaded = FALSE /\ artifacts = {} /\ index = {}
    BY <1>1 DEF ArtifactInit, Rest
  <2>4. MemoryMatches
    BY <2>3 DEF MemoryMatches
  <2>5. ArtifactsKept
    BY <1>1 DEF ArtifactInit, ArtifactsKept, IndexHasFiles, GivenUntilRetired
  <2> QED
    BY <2>1, <2>2, <2>4, <2>5 DEF ArtifactInv, ArtifactsTyped
<1>2. ArtifactInv /\ [ArtifactNext]_artifactVars => ArtifactInv'
  BY ArtifactStep, ArtifactAssumption
<1>3. ArtifactInv => ArtifactsKept
  BY DEF ArtifactInv
<1> QED
  BY <1>1, <1>2, <1>3, PTL DEF ArtifactSpec

(* The identifiers of the artifact store have been used, whatever fails. *)

Writing == {"evict", "saving", "deleting"}

ArtifactTypes ==
  /\ made \in Seq(Made) /\ job \in ArtifactJobs
  /\ loaded \in BOOLEAN /\ stops \in 0 .. MaxStops
  /\ outdated \subseteq Ids /\ files \subseteq Ids /\ index \subseteq Ids
  /\ artifacts \subseteq Ids /\ given \subseteq Ids /\ retired \subseteq Ids
  /\ job.at \in Writing => job.removed \subseteq Ids /\ job.new \subseteq Ids

\* The shape of an operation that writes.
LEMMA WritingJob ==
  ASSUME job \in ArtifactJobs, job.at \in Writing
  PROVE  job \in [at : Writing, want : Wants, removed : SUBSET Nat, new : SUBSET Nat]
BY DEF ArtifactJobs, Rest, Writing

LEMMA ArtifactTypesStep ==
  ASSUME ArtifactAssumption, ArtifactTypes, [ArtifactNext]_artifactVars
  PROVE  ArtifactTypes'
<1>a. Ids \subseteq Nat /\ \A ids : Evictions(ids) \subseteq ids
  BY DEF ArtifactTypes, Ids, Evictions
<1>0. ASSUME UNCHANGED <<made, loaded, stops, outdated, files, index, artifacts, given, retired>>,
             job' \in ArtifactJobs, job'.at \notin Writing
      PROVE  ArtifactTypes'
  BY <1>0 DEF ArtifactTypes, Ids
<1>1. ASSUME NEW want \in Wants, BeginJob(want)
      PROVE  ArtifactTypes'
  <2>1. job' \in ArtifactJobs /\ job'.at \notin Writing
    BY <1>1 DEF BeginJob, ArtifactJobs, Writing
  <2> QED
    BY <1>0, <1>1, <2>1 DEF BeginJob
<1>2. CASE LoadIndex
  <2>1. job' \in ArtifactJobs /\ job'.at = "clean"
    BY <1>2 DEF LoadIndex, ArtifactTypes, ArtifactJobs, Rest
  <2> QED
    BY <1>2, <2>1 DEF LoadIndex, ArtifactTypes, Ids, Writing
<1>3. CASE Clean
  <2> DEFINE removed == (artifacts \cap outdated) \cup Evictions(artifacts \ outdated)
  <2>1. removed \subseteq artifacts /\ artifacts \subseteq Ids
    BY <1>a DEF ArtifactTypes
  <2>2. job.want \in Wants
    BY <1>3 DEF Clean, ArtifactTypes, ArtifactJobs, Rest
  <2>3. \/ job' = [job EXCEPT !.at = "cleaned"] /\ artifacts' = artifacts
        \/ /\ job' = [at |-> "saving", want |-> job.want, removed |-> removed, new |-> {}]
           /\ artifacts' = artifacts \ removed
    BY <1>3 DEF Clean
  <2> HIDE DEF removed
  <2>4. CASE job' = [job EXCEPT !.at = "cleaned"] /\ artifacts' = artifacts
    <3>1. job' \in ArtifactJobs /\ job'.at = "cleaned"
      BY <1>3, <2>4 DEF Clean, ArtifactTypes, ArtifactJobs, Rest
    <3> QED
      BY <1>0, <1>3, <2>4, <3>1 DEF Clean, Writing
  <2>5. CASE /\ job' = [at |-> "saving", want |-> job.want, removed |-> removed, new |-> {}]
             /\ artifacts' = artifacts \ removed
    <3>1. removed \subseteq Nat
      BY <1>a, <2>1
    <3>2. job' \in ArtifactJobs
      BY <2>2, <2>5, <3>1 DEF ArtifactJobs
    <3>3. job'.removed = removed /\ job'.new = {}
      BY <2>5
    <3> QED
      BY <1>3, <2>1, <2>5, <3>2, <3>3 DEF Clean, ArtifactTypes, Ids
  <2> QED
    BY <2>3, <2>4, <2>5
<1>4. CASE WriteFile
  <2>1. PICK id : id = Len(made) + 1
    OBVIOUS
  <2>2. job.at = "cleaned" /\ job.want \in Wants
    BY <1>4 DEF WriteFile, ArtifactTypes, ArtifactJobs, Rest
  <2>3. \A want \in job.want : want \in Made
    BY <2>2 DEF Wants, Made
  <2>4. \/ /\ job' = Rest /\ \E twins \in SUBSET artifacts : given' = given \cup twins
           /\ UNCHANGED <<made, files, artifacts>>
        \/ /\ \E want \in job.want : made' = Append(made, want)
           /\ UNCHANGED given
           /\ \/ /\ files' = files \cup {id}
                 /\ artifacts' = artifacts \cup {id}
                 /\ job' = [at |-> "evict", want |-> job.want, removed |-> {}, new |-> {id}]
              \/ /\ files' \in {files, files \cup {id}}
                 /\ job' = Rest
                 /\ UNCHANGED artifacts
    BY <1>4, <2>1 DEF WriteFile
  <2>5. CASE /\ job' = Rest /\ \E twins \in SUBSET artifacts : given' = given \cup twins
             /\ UNCHANGED <<made, files, artifacts>>
    <3>1. job' \in ArtifactJobs /\ job'.at = "rest"
      BY <2>5 DEF ArtifactJobs, Rest
    <3> QED
      BY <1>4, <2>5, <3>1 DEF WriteFile, ArtifactTypes, Ids, Writing
  <2>6. ASSUME NEW want \in Made, made' = Append(made, want), UNCHANGED given,
               \/ /\ files' = files \cup {id}
                  /\ artifacts' = artifacts \cup {id}
                  /\ job' = [at |-> "evict", want |-> job.want, removed |-> {}, new |-> {id}]
               \/ /\ files' \in {files, files \cup {id}}
                  /\ job' = Rest
                  /\ UNCHANGED artifacts
        PROVE  ArtifactTypes'
    <3>1. made' \in Seq(Made) /\ Ids' = Ids \cup {id} /\ id \in Nat
      BY <2>1, <2>6 DEF ArtifactTypes, Ids
    <3>2. /\ job' \in ArtifactJobs
          /\ job'.at \in Writing => job'.removed = {} /\ job'.new = {id}
      BY <2>2, <2>6, <3>1 DEF ArtifactJobs, Rest, Writing
    <3>3. files' \subseteq Ids' /\ artifacts' \subseteq Ids'
      BY <2>6, <3>1 DEF ArtifactTypes
    <3>4. UNCHANGED <<outdated, index, loaded, retired, stops>>
      BY <1>4 DEF WriteFile
    <3> QED
      BY <2>6, <3>1, <3>2, <3>3, <3>4 DEF ArtifactTypes
  <2> QED
    BY <2>3, <2>4, <2>5, <2>6
<1>5. CASE Answer
  <2>1. job' \in ArtifactJobs /\ job'.at = "rest"
    BY <1>5 DEF Answer, ArtifactJobs, Rest
  <2> QED
    BY <1>0, <1>5, <2>1 DEF Answer, Writing
<1>6. CASE Evict
  <2>1. job \in [at : Writing, want : Wants, removed : SUBSET Nat, new : SUBSET Nat]
        /\ job.new \subseteq Ids /\ artifacts \subseteq Ids
    BY <1>6, WritingJob DEF Evict, ArtifactTypes, Writing
  <2>2. PICK out : out = Evictions(artifacts) /\ out \subseteq artifacts
    BY <1>a
  <2>3. out \subseteq Nat
    BY <1>a, <2>1, <2>2
  <2>4. job' = [job EXCEPT !.at = "saving", !.removed = out] /\ artifacts' = artifacts \ out
    BY <1>6, <2>2 DEF Evict
  <2>5. job' \in ArtifactJobs /\ job'.removed = out /\ job'.new = job.new
    BY <2>1, <2>3, <2>4 DEF ArtifactJobs
  <2> QED
    BY <1>6, <2>1, <2>2, <2>4, <2>5 DEF Evict, ArtifactTypes, Ids
<1>7. CASE SaveIndex
  <2>1. job \in [at : Writing, want : Wants, removed : SUBSET Nat, new : SUBSET Nat]
        /\ job.removed \subseteq Ids /\ job.new \subseteq Ids
    BY <1>7, WritingJob DEF SaveIndex, ArtifactTypes, Writing
  <2>2. job' \in ArtifactJobs /\ job'.removed = job.removed /\ job'.new = job.new
    BY <1>7, <2>1 DEF SaveIndex, ArtifactJobs
  <2> QED
    BY <1>7, <2>1, <2>2 DEF SaveIndex, IndexSaved, ArtifactTypes, Ids
<1>8. CASE SaveFails
  <2>1. job.removed \subseteq Ids /\ job.new \subseteq Ids
    BY <1>8 DEF SaveFails, ArtifactTypes, Writing
  <2>2. job' \in ArtifactJobs /\ job'.at = "rest"
    BY <1>8 DEF SaveFails, ArtifactJobs, Rest
  <2>3. index' \subseteq Ids /\ retired' = retired
    BY <1>8 DEF SaveFails, IndexFailed, ArtifactTypes
  <2> QED
    BY <1>8, <2>1, <2>2, <2>3 DEF SaveFails, RolledBack, ArtifactTypes, Ids, Writing
<1>9. CASE DeleteFile
  <2>1. job \in [at : Writing, want : Wants, removed : SUBSET Nat, new : SUBSET Nat]
        /\ job.removed \subseteq Ids /\ job.new \subseteq Ids
    BY <1>9, WritingJob DEF DeleteFile, ArtifactTypes, Writing
  <2>2. CASE job.removed # {}
    <3> DEFINE i == Min(job.removed)
    <3>1. /\ files' \in {files, files \ {i}}
          /\ job' = [job EXCEPT !.removed = @ \ {i}]
          /\ UNCHANGED given
      BY <1>9, <2>2 DEF DeleteFile
    <3> HIDE DEF i
    <3>2. job.at = "deleting"
      BY <1>9 DEF DeleteFile
    <3>3. job' \in ArtifactJobs /\ job'.removed = job.removed \ {i} /\ job'.new = job.new
      BY <2>1, <3>1, <3>2 DEF ArtifactJobs
    <3> QED
      BY <1>9, <2>1, <3>1, <3>3 DEF DeleteFile, ArtifactTypes, Ids
  <2>3. CASE job.removed = {}
    <3>1. /\ job' = [at |-> "cleaned", want |-> job.want] \/ job' = Rest
          /\ given' = given \cup (job.new \cap artifacts)
          /\ UNCHANGED files
      BY <1>9, <2>3 DEF DeleteFile
    <3>2. job' \in ArtifactJobs /\ job'.at \notin Writing
      BY <2>1, <3>1 DEF ArtifactJobs, Rest, Writing
    <3> QED
      BY <1>9, <3>1, <3>2 DEF DeleteFile, ArtifactTypes, Ids
  <2> QED
    BY <2>2, <2>3
<1>10. CASE PassTime
  BY <1>10 DEF PassTime, ArtifactTypes, Ids
<1>11. CASE StopDaemon
  <2>1. job' \in ArtifactJobs /\ job'.at = "rest"
    BY <1>11 DEF StopDaemon, ArtifactJobs, Rest
  <2>2. stops' \in 0 .. MaxStops
    BY <1>11 DEF StopDaemon, ArtifactTypes, ArtifactAssumption
  <2> QED
    BY <1>11, <2>1, <2>2 DEF StopDaemon, ArtifactTypes, Ids, Writing
<1>12. CASE UNCHANGED artifactVars
  BY <1>12 DEF artifactVars, ArtifactTypes, Ids
<1> QED
  BY <1>1, <1>2, <1>3, <1>4, <1>5, <1>6, <1>7, <1>8, <1>9, <1>10, <1>11, <1>12
  DEF ArtifactNext

LEMMA ArtifactTypesStart ==
  ASSUME ArtifactAssumption, ArtifactInit
  PROVE  ArtifactTypes
<1>1. made \in Seq(Made) /\ job \in ArtifactJobs /\ job.at = "rest"
  BY EmptySeq DEF ArtifactInit, ArtifactJobs, Rest
<1>2. loaded \in BOOLEAN /\ stops \in 0 .. MaxStops
  <2>1. MaxStops \in Nat /\ stops = 0 /\ loaded = FALSE
    BY DEF ArtifactInit, ArtifactAssumption
  <2>2. stops \in 0 .. MaxStops
    BY <2>1
  <2>3. loaded \in BOOLEAN
    BY <2>1, Zenon
  <2> QED
    BY <2>2, <2>3
<1> QED
  BY <1>1, <1>2 DEF ArtifactInit, ArtifactTypes, Writing

LEMMA ArtifactTypesHold ==
  ASSUME ArtifactTypes
  PROVE  ArtifactTypeOK
<1>1. \A i \in Ids : made[i] \in [owner : Owners, blob : Blobs]
  <2>1. \A i \in Ids : made[i] \in Made
    BY DEF ArtifactTypes, Ids
  <2> QED
    BY <2>1 DEF Made
<1> QED
  BY <1>1 DEF ArtifactTypes, ArtifactTypeOK

\* Whatever is listed, on the disk or given away has been made: also when the
\* index is there although its save has failed.
THEOREM ArtifactTyping == ArtifactSpec => []ArtifactTypeOK
<1>1. ArtifactInit => ArtifactTypes
  BY ArtifactTypesStart, ArtifactAssumption
<1>2. ArtifactTypes /\ [ArtifactNext]_artifactVars => ArtifactTypes'
  BY ArtifactTypesStep, ArtifactAssumption
<1>3. ArtifactTypes => ArtifactTypeOK
  BY ArtifactTypesHold
<1> QED
  BY <1>1, <1>2, <1>3, PTL DEF ArtifactSpec

-----------------------------------------------------------------------------
(* External servers *)

Unsent    == {"idle", "ready", "recovering", "connecting"}
Repeating == {"repeating", "recoveringToRepeat", "again"}
Sent      == {"invoked", "refreshing", "recoveringToFail", "done", "failed"}

\* Where a call stands tells how often it has been sent: not yet before its first
\* connection, and only a harmless call is on its way to being sent again.
CallSound(call, c) ==
    /\ call \in [at : {call.at}, on : {call.on}, attempt : {call.attempt}, route : {call.route}]
    /\ call.at \in Unsent \cup Repeating \cup Sent
    /\ call.attempt \in 0..MaxInvocations
    /\ call.at \in Unsent => call.attempt = 0
    /\ call.at \in Repeating => c \in Harmless /\ call.attempt < MaxInvocations
    /\ c \notin Harmless => call.attempt <= 1

ExternalInv ==
    /\ toolCall = [c \in ToolCalls |-> toolCall[c]]
    /\ invoked \in [ToolCalls -> Nat]
    /\ \A c \in ToolCalls : invoked[c] = toolCall[c].attempt /\ CallSound(toolCall[c], c)

\* A call that moves without being sent.
LEMMA CallMoves ==
  ASSUME ExternalInv, NEW c \in ToolCalls, NEW at,
         CallSound([toolCall[c] EXCEPT !.at = at], c),
         toolCall' = [toolCall EXCEPT ![c].at = at], UNCHANGED invoked
  PROVE  ExternalInv'
<1>1. toolCall'[c] = [toolCall[c] EXCEPT !.at = at] /\ \A d \in ToolCalls \ {c} : toolCall'[d] = toolCall[d]
  BY DEF ExternalInv
<1>2. toolCall'[c].attempt = toolCall[c].attempt
  BY <1>1 DEF ExternalInv, CallSound
<1>3. toolCall' = [d \in ToolCalls |-> toolCall'[d]]
  BY DEF ExternalInv
<1> QED
  BY <1>1, <1>2, <1>3 DEF ExternalInv

LEMMA InvokeSends ==
  ASSUME ExternalAssumption, ExternalInv, NEW c \in ToolCalls, Invoke(c),
         toolCall[c].at \in Unsent \cup Repeating
  PROVE  ExternalInv'
<1>1. CASE Current.client = 0
  <2>1. CallSound([toolCall[c] EXCEPT !.at = "failed"], c)
    BY DEF ExternalInv, CallSound, Unsent, Repeating, Sent
  <2> QED
    BY <1>1, <2>1, CallMoves DEF Invoke
<1>2. CASE Current.client # 0
  <2> DEFINE sent == [toolCall[c] EXCEPT !.at = "invoked", !.on = Current.client, !.attempt = @ + 1]
  <2>1. toolCall' = [toolCall EXCEPT ![c] = sent] /\ invoked' = [invoked EXCEPT ![c] = @ + 1]
    BY <1>2 DEF Invoke
  <2>2. sent.at = "invoked" /\ sent.attempt = toolCall[c].attempt + 1
        /\ sent \in [at : {sent.at}, on : {sent.on}, attempt : {sent.attempt}, route : {sent.route}]
    BY DEF ExternalInv, CallSound
  <2>3. sent.attempt \in 0..MaxInvocations /\ (c \notin Harmless => sent.attempt <= 1)
    <3>1. /\ toolCall[c].attempt \in 0..MaxInvocations
          /\ toolCall[c].at \in Unsent => toolCall[c].attempt = 0
          /\ toolCall[c].at \in Repeating => c \in Harmless /\ toolCall[c].attempt < MaxInvocations
      BY DEF ExternalInv, CallSound
    <3> QED
      BY <2>2, <3>1 DEF ExternalAssumption
  <2> HIDE DEF sent
  <2>4. CallSound(sent, c)
    BY <2>2, <2>3 DEF CallSound, Unsent, Repeating, Sent
  <2>5. toolCall'[c] = sent /\ \A d \in ToolCalls \ {c} : toolCall'[d] = toolCall[d]
    BY <2>1 DEF ExternalInv
  <2>6. toolCall' = [d \in ToolCalls |-> toolCall'[d]]
    BY <2>1 DEF ExternalInv
  <2> QED
    BY <2>1, <2>2, <2>4, <2>5, <2>6 DEF ExternalInv
<1> QED
  BY <1>1, <1>2

\* Every caller of a recovery goes on or gives up.
LEMMA RecoveryReleases ==
  ASSUME ExternalInv, NEW ok, RecoveryOver(ok), UNCHANGED invoked
  PROVE  ExternalInv'
<1> DEFINE at(c) == CASE toolCall[c].at = "recovering"         -> IF ok THEN "ready" ELSE "failed"
                      [] toolCall[c].at = "recoveringToRepeat" -> IF ok THEN "again" ELSE "failed"
                      [] toolCall[c].at = "recoveringToFail"   -> "failed"
                      [] OTHER                                 -> toolCall[c].at
<1>1. toolCall' = [c \in ToolCalls |-> [toolCall[c] EXCEPT !.at = at(c)]]
  BY DEF RecoveryOver
<1>2. \A c \in ToolCalls : \/ at(c) = toolCall[c].at
                           \/ at(c) = "failed" /\ toolCall[c].at \in {"recovering", "recoveringToRepeat", "recoveringToFail"}
                           \/ at(c) = "ready" /\ toolCall[c].at = "recovering"
                           \/ at(c) = "again" /\ toolCall[c].at = "recoveringToRepeat"
  OBVIOUS
<1> HIDE DEF at
<1>3. ASSUME NEW c \in ToolCalls
      PROVE  CallSound([toolCall[c] EXCEPT !.at = at(c)], c)
             /\ [toolCall[c] EXCEPT !.at = at(c)].attempt = toolCall[c].attempt
  <2>1. CallSound(toolCall[c], c)
    BY DEF ExternalInv
  <2> DEFINE r == [toolCall[c] EXCEPT !.at = at(c)]
  <2>2. /\ r \in [at : {r.at}, on : {r.on}, attempt : {r.attempt}, route : {r.route}]
        /\ r.at = at(c) /\ r.attempt = toolCall[c].attempt
    BY <2>1 DEF CallSound
  <2> HIDE DEF r
  <2>3. CallSound(r, c)
    BY <1>2, <2>1, <2>2 DEF CallSound, Unsent, Repeating, Sent
  <2> QED
    BY <2>2, <2>3 DEF r
<1>4. toolCall' = [c \in ToolCalls |-> toolCall'[c]]
  BY <1>1
<1>5. \A c \in ToolCalls : toolCall'[c] = [toolCall[c] EXCEPT !.at = at(c)]
  BY <1>1
<1> QED
  BY <1>3, <1>4, <1>5 DEF ExternalInv

LEMMA ExternalStep ==
  ASSUME ExternalAssumption, ExternalInv, [ExternalNext]_externalVars
  PROVE  ExternalInv'
<1>1. ASSUME UNCHANGED <<toolCall, invoked>>
      PROVE  ExternalInv'
  BY <1>1 DEF ExternalInv
<1>2. ASSUME NEW c \in ToolCalls, NEW at, toolCall' = [toolCall EXCEPT ![c].at = at], UNCHANGED invoked,
             at \in Unsent => toolCall[c].at \in Unsent,
             at \in Repeating => toolCall[c].at \in Repeating \/ CanReplay(c),
             at \in Unsent \cup Repeating \cup Sent
      PROVE  ExternalInv'
  <2> DEFINE r == [toolCall[c] EXCEPT !.at = at]
  <2>1. CallSound(toolCall[c], c)
    BY DEF ExternalInv
  <2>2. /\ r \in [at : {r.at}, on : {r.on}, attempt : {r.attempt}, route : {r.route}]
        /\ r.at = at /\ r.attempt = toolCall[c].attempt
    BY <2>1 DEF CallSound
  <2> HIDE DEF r
  <2>3. CallSound(r, c)
    BY <1>2, <2>1, <2>2 DEF CallSound, CanReplay
  <2> QED
    BY <1>2, <2>3, CallMoves DEF r
<1>3. ASSUME NEW g \in Runtimes, ConnectStep(g) \/ ConnectStepFails(g) \/ ConnectAgain(g)
      PROVE  ExternalInv'
  BY <1>1, <1>3 DEF ConnectStep, ConnectStepFails, ConnectAgain
<1>4. ASSUME NEW o \in Changes, BeginChange(o) \/ SaveChange(o) \/ ReplaceRuntime(o)
      PROVE  ExternalInv'
  BY <1>1, <1>4 DEF BeginChange, SaveChange, ReplaceRuntime
<1>5. ASSUME NEW c \in ToolCalls, CallExternal(c)
      PROVE  ExternalInv'
  <2> DEFINE at == IF recovery.at = "none" THEN "ready" ELSE "recovering"
             r  == [toolCall[c] EXCEPT !.route = routed, !.at = at]
  <2>1. CallSound(toolCall[c], c) /\ toolCall[c].at = "idle"
    BY <1>5 DEF CallExternal, ExternalInv
  <2>2. /\ r \in [at : {r.at}, on : {r.on}, attempt : {r.attempt}, route : {r.route}]
        /\ r.at \in {"ready", "recovering"} /\ r.attempt = toolCall[c].attempt
    BY <2>1 DEF CallSound
  <2>3. toolCall' = [toolCall EXCEPT ![c] = r] /\ UNCHANGED invoked
    BY <1>5 DEF CallExternal
  <2> HIDE DEF r
  <2>4. CallSound(r, c)
    BY <2>1, <2>2 DEF CallSound, Unsent, Repeating, Sent
  <2>5. toolCall'[c] = r /\ \A d \in ToolCalls \ {c} : toolCall'[d] = toolCall[d]
    BY <2>3 DEF ExternalInv
  <2>6. toolCall' = [d \in ToolCalls |-> toolCall'[d]]
    BY <2>3 DEF ExternalInv
  <2> QED
    BY <2>2, <2>3, <2>4, <2>5, <2>6 DEF ExternalInv
<1>6. ASSUME NEW c \in ToolCalls, EnsureForCall(c)
      PROVE  ExternalInv'
  <2>1. toolCall[c].at = "ready" /\ CallSound(toolCall[c], c)
    BY <1>6 DEF EnsureForCall, ExternalInv
  <2>2. \/ toolCall' = [toolCall EXCEPT ![c].at = "failed"] /\ UNCHANGED invoked
        \/ Invoke(c)
        \/ toolCall' = [toolCall EXCEPT ![c].at = "connecting", ![c].on = runtime] /\ UNCHANGED invoked
    BY <1>6, Zenon DEF EnsureForCall
  <2>3. CASE toolCall' = [toolCall EXCEPT ![c].at = "failed"] /\ UNCHANGED invoked
    BY <1>2, <2>3 DEF Unsent, Repeating, Sent
  <2>4. CASE Invoke(c)
    BY <2>1, <2>4, InvokeSends DEF Unsent
  <2>5. CASE toolCall' = [toolCall EXCEPT ![c].at = "connecting", ![c].on = runtime] /\ UNCHANGED invoked
    <3> DEFINE r == [toolCall[c] EXCEPT !.at = "connecting", !.on = runtime]
    <3>1. /\ r \in [at : {r.at}, on : {r.on}, attempt : {r.attempt}, route : {r.route}]
          /\ r.at = "connecting" /\ r.attempt = toolCall[c].attempt
      BY <2>1 DEF CallSound
    <3>2. toolCall' = [toolCall EXCEPT ![c] = r]
      BY <2>5
    <3> HIDE DEF r
    <3>3. CallSound(r, c)
      BY <2>1, <3>1 DEF CallSound, Unsent, Repeating, Sent
    <3>4. toolCall'[c] = r /\ \A d \in ToolCalls \ {c} : toolCall'[d] = toolCall[d]
      BY <3>2 DEF ExternalInv
    <3>5. toolCall' = [d \in ToolCalls |-> toolCall'[d]]
      BY <3>2 DEF ExternalInv
    <3> QED
      BY <2>5, <3>1, <3>3, <3>4, <3>5 DEF ExternalInv
  <2> QED
    BY <2>2, <2>3, <2>4, <2>5
<1>7. ASSUME NEW c \in ToolCalls, ConnectedForCall(c)
      PROVE  ExternalInv'
  <2>1. toolCall[c].at = "connecting"
    BY <1>7 DEF ConnectedForCall
  <2>2. \/ toolCall' = [toolCall EXCEPT ![c].at = "failed"] /\ UNCHANGED invoked
        \/ Invoke(c)
    BY <1>7 DEF ConnectedForCall
  <2> QED
    BY <1>2, <2>1, <2>2, InvokeSends DEF Unsent, Repeating, Sent
<1>8. ASSUME NEW c \in ToolCalls, Answered(c)
      PROVE  ExternalInv'
  BY <1>2, <1>8 DEF Answered, Unsent, Repeating, Sent
<1>9. ASSUME NEW c \in ToolCalls, CallFails(c)
      PROVE  ExternalInv'
  <2>1. \/ toolCall' = [toolCall EXCEPT ![c].at = "failed"]
        \/ toolCall' = [toolCall EXCEPT ![c].at = "refreshing"]
        \/ CanReplay(c) /\ toolCall' = [toolCall EXCEPT ![c].at = "repeating"]
    BY <1>9 DEF CallFails
  <2> QED
    BY <1>2, <1>9, <2>1 DEF CallFails, Unsent, Repeating, Sent
<1>10. ASSUME NEW c \in ToolCalls, RecoverConnection(c)
       PROVE  ExternalInv'
  <2> DEFINE at == IF toolCall[c].at = "repeating" THEN "recoveringToRepeat" ELSE "recoveringToFail"
  <2>1. \/ toolCall[c].at = "repeating" /\ Invoke(c)
        \/ toolCall' = [toolCall EXCEPT ![c].at = "failed"] /\ UNCHANGED invoked
        \/ toolCall' = [toolCall EXCEPT ![c].at = at] /\ UNCHANGED invoked
    BY <1>10 DEF RecoverConnection
  <2> QED
    BY <1>2, <2>1, InvokeSends DEF Unsent, Repeating, Sent
<1>11. ASSUME NEW c \in ToolCalls, InvokeAgain(c)
       PROVE  ExternalInv'
  BY <1>11, InvokeSends DEF InvokeAgain, Repeating
<1>12. CASE RecoveryConnects
  <2>1. CASE \E ok : RecoveryOver(ok)
    BY <1>12, <2>1, RecoveryReleases DEF RecoveryConnects
  <2>2. CASE UNCHANGED toolCall
    BY <1>1, <1>12, <2>2 DEF RecoveryConnects
  <2> QED
    BY <1>12, <2>1, <2>2 DEF RecoveryConnects
<1>13. CASE RecoveryConnected
  BY <1>13, RecoveryReleases DEF RecoveryConnected
<1>14. CASE UNCHANGED externalVars
  BY <1>1, <1>14 DEF externalVars
<1> QED
  BY <1>3, <1>4, <1>5, <1>6, <1>7, <1>8, <1>9, <1>10, <1>11, <1>12, <1>13, <1>14 DEF ExternalNext

LEMMA ExternalStarts ==
  ASSUME ExternalAssumption, ExternalInit
  PROVE  ExternalInv
<1>1. toolCall = [c \in ToolCalls |-> toolCall[c]] /\ invoked \in [ToolCalls -> Nat]
  BY DEF ExternalInit
<1>2. ASSUME NEW c \in ToolCalls
      PROVE  invoked[c] = toolCall[c].attempt /\ CallSound(toolCall[c], c)
  <2>1. toolCall[c] = [at |-> "idle", on |-> 0, attempt |-> 0, route |-> FALSE] /\ invoked[c] = 0
    BY DEF ExternalInit
  <2>2. 0 \in 0..MaxInvocations
    BY DEF ExternalAssumption
  <2> QED
    BY <2>1, <2>2 DEF CallSound, Unsent, Repeating, Sent
<1> QED
  BY <1>1, <1>2 DEF ExternalInv

\* However often the connection of an external server fails, is recovered or is
\* replaced, a call that may change something outside is sent once, and a
\* harmless one no more often than the attempts it has.
THEOREM CallsSentInMeasure ==
  ExternalSpec => [](EffectsSentOnce /\ \A c \in ToolCalls : invoked[c] <= MaxInvocations)
<1>1. ExternalInit => ExternalInv
  BY ExternalStarts, ExternalAssumption
<1>2. ExternalInv /\ [ExternalNext]_externalVars => ExternalInv'
  BY ExternalStep, ExternalAssumption
<1>3. ExternalInv => EffectsSentOnce /\ \A c \in ToolCalls : invoked[c] <= MaxInvocations
  BY ExternalAssumption DEF ExternalInv, CallSound, EffectsSentOnce, ExternalAssumption
<1> QED
  BY <1>1, <1>2, <1>3, PTL DEF ExternalSpec

(* The types of the external servers: no more runtime records than changes. *)

Settings == [enabled : BOOLEAN, hidden : BOOLEAN]
Records  == [status : {"idle", "connecting", "connected", "error"}, client : Clients \cup {0},
             stage : {"off", "initialize", "resources", "delay"}, own : Clients \cup {0},
             tries : 0 .. MaxInvocations, hidden : BOOLEAN]

\* Only a record with attempts left waits for another one.
RecordSound(r) == r \in Records /\ (r.stage = "delay" => r.tries < MaxInvocations)

Finished(f) == {o \in Changes : f[o].at = "done"}

RecordsTyped ==
  /\ runtimes = [g \in Runtimes |-> runtimes[g]]
  /\ \A g \in Runtimes : RecordSound(runtimes[g])
ClientsTyped == clients \in [Clients -> {"unused", "open", "closed"}]
ChangesTyped ==
  change \in [Changes -> [at : {"idle", "saving", "closing", "done"}, next : Settings, was : BOOLEAN]]

\* Every change that is over has started one record at most, and those of later
\* changes are as they were made.
RecordsCounted ==
  /\ runtime \in Nat \ {0} /\ runtime <= Cardinality(Finished(change)) + 1
  /\ \A g \in Runtimes : g > runtime => runtimes[g] = NewRecord

ExternalTypes ==
  /\ settings \in Settings /\ routed \in BOOLEAN
  /\ RecordsTyped /\ ClientsTyped /\ ChangesTyped /\ RecordsCounted

LEMMA OverIsFinite ==
  ASSUME ExternalAssumption, NEW f
  PROVE  Cardinality(Finished(f)) \in Nat /\ Cardinality(Finished(f)) <= Cardinality(Changes) /\ Cardinality(Changes) \in Nat
<1>1. IsFiniteSet(Changes)
  BY DEF ExternalAssumption
<1>2. Finished(f) \in SUBSET Changes
  BY DEF Finished
<1>3. IsFiniteSet(Finished(f)) /\ Cardinality(Finished(f)) <= Cardinality(Changes)
  BY <1>1, <1>2, FS_Subset
<1> QED
  BY <1>1, <1>3, FS_CardinalityType

LEMMA CurrentExists ==
  ASSUME ExternalAssumption, ExternalTypes
  PROVE  runtime \in Runtimes
<1>1. Cardinality(Finished(change)) \in Nat /\ Cardinality(Finished(change)) <= Cardinality(Changes) /\ Cardinality(Changes) \in Nat
  BY OverIsFinite
<1>2. runtime \in Nat \ {0} /\ runtime <= Cardinality(Finished(change)) + 1
  BY DEF ExternalTypes, RecordsCounted
<1> QED
  BY <1>1, <1>2 DEF Runtimes

LEMMA FreeClientIs ==
  ASSUME MaxClients \in Nat, HasFreeClient
  PROVE  FreeClient \in Clients
<1> DEFINE S == {k \in Clients : clients[k] = "unused"}
<1>1. S \subseteq Nat /\ S # {}
  BY DEF HasFreeClient, Clients
<1>2. Min(S) \in S /\ \A j \in S : Min(S) <= j
  BY <1>1, LeastExists
<1> HIDE DEF S
<1>3. PICK k : k = Min(S)
  OBVIOUS
<1>4. k \in S /\ \A j \in S : k <= j
  BY <1>2, <1>3
<1>5. k \in Clients /\ clients[k] = "unused"
  BY <1>4 DEF S
<1>6. \A j \in 1 .. (k - 1) : clients[j] # "unused"
  <2> SUFFICES ASSUME NEW j \in 1 .. (k - 1), clients[j] = "unused"
               PROVE  FALSE
    OBVIOUS
  <2>1. j \in Clients /\ j < k
    BY <1>5 DEF Clients
  <2>2. j \in S
    BY <2>1 DEF S
  <2>3. k <= j
    BY <1>4, <2>2
  <2> QED
    BY <1>5, <2>1, <2>3 DEF Clients
<1> QED
  BY <1>5, <1>6 DEF FreeClient

\* An attempt to connect of a record with attempts left.
LEMMA ConnectingSound ==
  ASSUME ExternalAssumption, NEW r \in Records, r.tries < MaxInvocations, NEW h \in BOOLEAN, FreeClient \in Clients
  PROVE  RecordSound(Connecting(r, h))
<1>1. PICK k : k = FreeClient /\ k \in Clients
  OBVIOUS
<1>2. PICK n : n = r.tries + 1
  OBVIOUS
<1>3. n \in 0 .. MaxInvocations
  <2>1. r.tries \in 0 .. MaxInvocations
    BY DEF Records
  <2> QED
    BY <1>2, <2>1 DEF ExternalAssumption
<1>4. PICK q : q = [r EXCEPT !.status = "connecting", !.client = k, !.own = k,
                            !.stage = "initialize", !.hidden = h, !.tries = n]
  OBVIOUS
<1>5. Connecting(r, h) = q
  BY <1>1, <1>2, <1>4 DEF Connecting, Records
<1>6. q \in Records /\ q.stage = "initialize"
  BY <1>1, <1>3, <1>4 DEF Records
<1> QED
  BY <1>5, <1>6 DEF RecordSound

\* What a step does to one record.
LEMMA RecordChanges ==
  ASSUME RecordsTyped, NEW g \in Runtimes, NEW r, RecordSound(r), runtimes' = [runtimes EXCEPT ![g] = r]
  PROVE  /\ RecordsTyped'
         /\ \A h \in Runtimes : h # g => runtimes'[h] = runtimes[h]
<1>1. \A h \in Runtimes : runtimes'[h] = IF h = g THEN r ELSE runtimes[h]
  BY DEF RecordsTyped
<1>2. runtimes' = [h \in Runtimes |-> runtimes'[h]]
  BY DEF RecordsTyped
<1>3. \A h \in Runtimes : RecordSound(runtimes'[h])
  BY <1>1 DEF RecordsTyped
<1> QED
  BY <1>1, <1>2, <1>3 DEF RecordsTyped

\* What a step does to one record that the count of the records allows.
LEMMA RecordsKept ==
  ASSUME ExternalAssumption, ExternalTypes, NEW g \in Runtimes, NEW r, RecordSound(r), g <= runtime,
         runtimes' = [runtimes EXCEPT ![g] = r], UNCHANGED <<runtime, change>>
  PROVE  RecordsTyped' /\ RecordsCounted'
<1>1. RecordsTyped' /\ \A h \in Runtimes : h # g => runtimes'[h] = runtimes[h]
  <2>1. RecordsTyped
    BY DEF ExternalTypes
  <2> QED
    BY <2>1, RecordChanges
<1>2. RecordsCounted /\ runtime \in Nat /\ g \in Nat
  BY DEF ExternalTypes, RecordsCounted, Runtimes
<1>3. \A h \in Runtimes : h > runtime => h # g
  BY <1>2 DEF Runtimes
<1> QED
  BY <1>1, <1>2, <1>3 DEF RecordsCounted

\* Records that have not been started have no connection.
LEMMA StartedInUse ==
  ASSUME ExternalTypes, NEW g \in Runtimes, runtimes[g].stage # "off"
  PROVE  g <= runtime
<1>1. runtime \in Nat /\ g \in Nat
  BY DEF ExternalTypes, RecordsCounted, Runtimes
<1>2. g > runtime => runtimes[g] = NewRecord
  BY DEF ExternalTypes, RecordsCounted
<1> QED
  BY <1>1, <1>2 DEF NewRecord

LEMMA ShareTyped ==
  ASSUME ExternalAssumption, ExternalTypes, ShareOrConnect, UNCHANGED <<settings, routed, runtime, change>>
  PROVE  ExternalTypes'
<1>1. CASE UNCHANGED <<runtimes, clients>>
  BY <1>1 DEF ExternalTypes, RecordsTyped, ClientsTyped, ChangesTyped, RecordsCounted
<1>2. CASE /\ HasFreeClient
           /\ runtimes' = [runtimes EXCEPT ![runtime] = Connecting([@ EXCEPT !.tries = 0], settings.hidden)]
           /\ clients' = [clients EXCEPT ![FreeClient] = "open"]
  <2>1. FreeClient \in Clients /\ runtime \in Runtimes
    BY <1>2, FreeClientIs, CurrentExists DEF ExternalAssumption
  <2>2. runtimes[runtime] \in Records /\ settings.hidden \in BOOLEAN /\ runtimes = [g \in Runtimes |-> runtimes[g]]
    BY <2>1 DEF ExternalTypes, RecordsTyped, RecordSound, Settings
  <2>3. PICK q : q = [runtimes[runtime] EXCEPT !.tries = 0]
    OBVIOUS
  <2>4. 0 \in 0 .. MaxInvocations /\ 0 < MaxInvocations
    BY DEF ExternalAssumption
  <2>5. q \in Records /\ q.tries < MaxInvocations
    BY <2>2, <2>3, <2>4 DEF Records
  <2>6. PICK r : r = Connecting(q, settings.hidden)
    OBVIOUS
  <2>7. RecordSound(r)
    BY <2>1, <2>2, <2>5, <2>6, ConnectingSound
  <2>8. runtimes' = [runtimes EXCEPT ![runtime] = r]
    BY <1>2, <2>1, <2>2, <2>3, <2>6
  <2>9. runtime <= runtime
    BY DEF ExternalTypes, RecordsCounted
  <2>10. RecordsTyped' /\ RecordsCounted'
    BY <2>1, <2>7, <2>8, <2>9, RecordsKept
  <2>11. ClientsTyped'
    BY <1>2 DEF ExternalTypes, ClientsTyped
  <2> QED
    BY <2>10, <2>11 DEF ExternalTypes, ChangesTyped
<1> QED
  BY <1>1, <1>2, Zenon DEF ShareOrConnect, Current

LEMMA CloseTyped ==
  ASSUME ExternalAssumption, ExternalTypes, CloseCurrent
  PROVE  /\ RecordsTyped' /\ ClientsTyped'
         /\ \A g \in Runtimes : g > runtime => runtimes'[g] = NewRecord
<1>1. runtime \in Runtimes
  BY CurrentExists
<1>2. runtimes[runtime] \in Records /\ RecordSound(runtimes[runtime]) /\ runtimes = [g \in Runtimes |-> runtimes[g]]
  BY <1>1 DEF ExternalTypes, RecordsTyped, RecordSound
<1>3. PICK r : r = [runtimes[runtime] EXCEPT !.client = 0, !.status = "idle"]
  OBVIOUS
<1>4. r \in Records /\ r.stage = runtimes[runtime].stage /\ r.tries = runtimes[runtime].tries
  BY <1>2, <1>3 DEF Records
<1>5. RecordSound(r)
  BY <1>2, <1>4 DEF RecordSound
<1>6. runtimes' = [runtimes EXCEPT ![runtime] = r]
  BY <1>1, <1>2, <1>3 DEF CloseCurrent
<1>7. RecordsTyped' /\ \A h \in Runtimes : h # runtime => runtimes'[h] = runtimes[h]
  <2>1. RecordsTyped
    BY DEF ExternalTypes
  <2> QED
    BY <1>1, <1>5, <1>6, <2>1, RecordChanges
<1>8. \A g \in Runtimes : g > runtime => g # runtime /\ runtimes[g] = NewRecord
  BY DEF ExternalTypes, RecordsCounted, Runtimes
<1>9. ClientsTyped'
  BY DEF CloseCurrent, ExternalTypes, ClientsTyped
<1> QED
  BY <1>7, <1>8, <1>9

LEMMA ExternalTypesStep ==
  ASSUME ExternalAssumption, ExternalTypes, [ExternalNext]_externalVars
  PROVE  ExternalTypes'
<1>a. runtime \in Runtimes /\ runtime \in Nat
  BY CurrentExists DEF ExternalTypes, RecordsCounted
<1>0. ASSUME UNCHANGED <<settings, routed, runtime, runtimes, clients, change>>
      PROVE  ExternalTypes'
  BY <1>0 DEF ExternalTypes, RecordsTyped, ClientsTyped, ChangesTyped, RecordsCounted
<1>1. ASSUME NEW g \in Runtimes, ConnectStep(g)
      PROVE  ExternalTypes'
  <2>1. runtimes[g] \in Records /\ RecordSound(runtimes[g]) /\ g <= runtime /\ runtimes = [h \in Runtimes |-> runtimes[h]]
    BY <1>1, StartedInUse DEF ConnectStep, ExternalTypes, RecordsTyped, RecordSound
  <2>2. routed' \in BOOLEAN
    BY <1>1, <2>1 DEF ConnectStep, Records, ExternalTypes
  <2>3. PICK r : /\ r \in {[runtimes[g] EXCEPT !.stage = "resources"], [runtimes[g] EXCEPT !.stage = "off", !.status = "connected"]}
                 /\ runtimes' = [runtimes EXCEPT ![g] = r]
    BY <1>1, <2>1 DEF ConnectStep
  <2>4. r \in Records /\ r.stage \in {"resources", "off"}
    BY <2>1, <2>3 DEF Records
  <2>5. RecordSound(r)
    BY <2>4 DEF RecordSound
  <2>6. UNCHANGED <<settings, runtime, clients, change>>
    BY <1>1 DEF ConnectStep
  <2>7. RecordsTyped' /\ RecordsCounted'
    BY <2>1, <2>3, <2>5, <2>6, RecordsKept
  <2> QED
    BY <2>2, <2>6, <2>7 DEF ExternalTypes, ClientsTyped, ChangesTyped
<1>2. ASSUME NEW g \in Runtimes, ConnectStepFails(g)
      PROVE  ExternalTypes'
  <2>1. runtimes[g] \in Records /\ RecordSound(runtimes[g]) /\ g <= runtime /\ runtimes = [h \in Runtimes |-> runtimes[h]]
    BY <1>2, StartedInUse DEF ConnectStepFails, ExternalTypes, RecordsTyped, RecordSound
  <2>2. PICK retry \in {FALSE, runtimes[g].tries < MaxInvocations} :
        runtimes' = [runtimes EXCEPT ![g].stage = IF retry THEN "delay" ELSE "off",
                                     ![g].status = IF retry THEN "connecting" ELSE "error",
                                     ![g].client = 0]
    BY <1>2 DEF ConnectStepFails
  <2>3. PICK stage, status : /\ stage = IF retry THEN "delay" ELSE "off"
                             /\ status = IF retry THEN "connecting" ELSE "error"
    OBVIOUS
  <2>4. /\ stage \in {"off", "delay"} /\ status \in {"connecting", "error"}
        /\ stage = "delay" => runtimes[g].tries < MaxInvocations
    BY <2>2, <2>3
  <2>5. PICK r : r = [runtimes[g] EXCEPT !.stage = stage, !.status = status, !.client = 0]
    OBVIOUS
  <2>6. r \in Records /\ r.stage = stage /\ r.tries = runtimes[g].tries
    BY <2>1, <2>4, <2>5 DEF Records
  <2>7. RecordSound(r)
    BY <2>4, <2>6 DEF RecordSound
  <2>8. runtimes' = [runtimes EXCEPT ![g] = r]
    BY <2>1, <2>2, <2>3, <2>5
  <2>9. UNCHANGED <<settings, runtime, routed, change>>
    BY <1>2 DEF ConnectStepFails
  <2>10. RecordsTyped' /\ RecordsCounted'
    BY <2>1, <2>7, <2>8, <2>9, RecordsKept
  <2>11. ClientsTyped'
    BY <1>2 DEF ConnectStepFails, ExternalTypes, ClientsTyped
  <2> QED
    BY <2>9, <2>10, <2>11 DEF ExternalTypes, ChangesTyped
<1>3. ASSUME NEW g \in Runtimes, ConnectAgain(g)
      PROVE  ExternalTypes'
  <2>1. /\ runtimes[g] \in Records /\ runtimes[g].tries < MaxInvocations /\ g <= runtime
        /\ runtimes = [h \in Runtimes |-> runtimes[h]]
    BY <1>3, StartedInUse DEF ConnectAgain, ExternalTypes, RecordsTyped, RecordSound
  <2>2. runtimes[g].hidden \in BOOLEAN
    BY <2>1 DEF Records
  <2>3. FreeClient \in Clients
    BY <1>3, FreeClientIs DEF ConnectAgain, ExternalAssumption
  <2>4. PICK r : r = Connecting(runtimes[g], runtimes[g].hidden)
    OBVIOUS
  <2>5. RecordSound(r)
    BY <2>1, <2>2, <2>3, <2>4, ConnectingSound
  <2>6. runtimes' = [runtimes EXCEPT ![g] = r]
    BY <1>3, <2>1, <2>4 DEF ConnectAgain
  <2>7. UNCHANGED <<settings, runtime, routed, change>>
    BY <1>3 DEF ConnectAgain
  <2>8. RecordsTyped' /\ RecordsCounted'
    BY <2>1, <2>5, <2>6, <2>7, RecordsKept
  <2>9. ClientsTyped'
    BY <1>3 DEF ConnectAgain, ExternalTypes, ClientsTyped
  <2> QED
    BY <2>7, <2>8, <2>9 DEF ExternalTypes, ChangesTyped
<1>4. ASSUME NEW o \in Changes, BeginChange(o)
      PROVE  ExternalTypes'
  <2>1. settings \in Settings /\ change[o].at = "idle"
    BY <1>4 DEF BeginChange, ExternalTypes
  <2>2. PICK next : /\ next \in {[settings EXCEPT !.enabled = ~@], [settings EXCEPT !.hidden = ~@]}
                    /\ change' = [change EXCEPT ![o] = [at |-> "saving", next |-> next, was |-> settings.enabled]]
    BY <1>4 DEF BeginChange
  <2>3. next \in Settings /\ settings.enabled \in BOOLEAN
    BY <2>1, <2>2 DEF Settings
  <2>4. ChangesTyped'
    BY <2>2, <2>3 DEF ExternalTypes, ChangesTyped
  <2>5. Finished(change') = Finished(change)
    BY <2>1, <2>2 DEF Finished, ExternalTypes, ChangesTyped
  <2> QED
    BY <1>4, <2>4, <2>5 DEF BeginChange, ExternalTypes, RecordsTyped, ClientsTyped, RecordsCounted
<1>5. ASSUME NEW o \in Changes, SaveChange(o)
      PROVE  ExternalTypes'
  <2>1. /\ change[o].at = "saving" /\ change[o].next \in Settings /\ settings' = change[o].next
        /\ runtime' = runtime
    BY <1>5 DEF SaveChange, ExternalTypes, ChangesTyped
  <2>2. PICK at : at \in {"closing", "done"} /\ change' = [change EXCEPT ![o].at = at]
    BY <1>5 DEF SaveChange
  <2>3. ChangesTyped'
    BY <2>2 DEF ExternalTypes, ChangesTyped
  <2>4. Cardinality(Finished(change')) >= Cardinality(Finished(change)) /\ Cardinality(Finished(change')) \in Nat
        /\ Cardinality(Finished(change)) \in Nat
    <3>1. Finished(change) \in SUBSET Finished(change')
      BY <2>1, <2>2 DEF Finished, ExternalTypes, ChangesTyped
    <3>2. IsFiniteSet(Finished(change'))
      <4>1. IsFiniteSet(Changes) /\ Finished(change') \in SUBSET Changes
        BY DEF ExternalAssumption, Finished
      <4> QED
        BY <4>1, FS_Subset
    <3>3. Cardinality(Finished(change)) <= Cardinality(Finished(change'))
      BY <3>1, <3>2, FS_Subset
    <3> QED
      BY <3>3, OverIsFinite
  <2>5. runtime' \in Nat \ {0} /\ runtime' <= Cardinality(Finished(change')) + 1
    <3>1. runtime \in Nat \ {0} /\ runtime <= Cardinality(Finished(change)) + 1
      BY DEF ExternalTypes, RecordsCounted
    <3> QED
      BY <2>1, <2>4, <3>1
  <2>6. /\ RecordsTyped' /\ ClientsTyped' /\ routed' \in BOOLEAN
        /\ \A g \in Runtimes : g > runtime => runtimes'[g] = NewRecord
    <3>1. CASE CloseCurrent /\ routed' = FALSE
      BY <3>1, CloseTyped
    <3>2. CASE UNCHANGED <<routed, runtimes, clients>>
      BY <3>2 DEF ExternalTypes, RecordsTyped, ClientsTyped, RecordsCounted
    <3> QED
      BY <1>5, <3>1, <3>2 DEF SaveChange
  <2> QED
    BY <2>1, <2>3, <2>5, <2>6 DEF ExternalTypes, RecordsCounted
<1>6. ASSUME NEW o \in Changes, ReplaceRuntime(o)
      PROVE  ExternalTypes'
  <2>1. /\ change[o].at = "closing" /\ runtime' = runtime + 1 /\ change' = [change EXCEPT ![o].at = "done"]
        /\ UNCHANGED <<settings, routed>>
    BY <1>6 DEF ReplaceRuntime
  <2>2. ChangesTyped'
    BY <2>1 DEF ExternalTypes, ChangesTyped
  <2>3. /\ Cardinality(Finished(change')) = Cardinality(Finished(change)) + 1
        /\ Cardinality(Finished(change')) <= Cardinality(Changes)
        /\ Cardinality(Finished(change)) \in Nat /\ Cardinality(Changes) \in Nat
    <3>1. Finished(change') = Finished(change) \cup {o} /\ o \notin Finished(change)
      BY <2>1 DEF Finished, ExternalTypes, ChangesTyped
    <3>2. IsFiniteSet(Finished(change))
      <4>1. IsFiniteSet(Changes) /\ Finished(change) \in SUBSET Changes
        BY DEF ExternalAssumption, Finished
      <4> QED
        BY <4>1, FS_Subset
    <3>3. Cardinality(Finished(change')) = Cardinality(Finished(change)) + 1
      BY <3>1, <3>2, FS_AddElement
    <3> QED
      BY <3>3, OverIsFinite
  <2>4. /\ runtime' \in Nat \ {0} /\ runtime' <= Cardinality(Finished(change')) + 1
        /\ runtime + 1 \in Runtimes
    <3>1. runtime \in Nat \ {0} /\ runtime <= Cardinality(Finished(change)) + 1
      BY DEF ExternalTypes, RecordsCounted
    <3> QED
      BY <2>1, <2>3, <3>1 DEF Runtimes
  <2>5. /\ RecordsTyped' /\ ClientsTyped'
        /\ \A g \in Runtimes : g > runtime + 1 => runtimes'[g] = NewRecord
    <3>0. \A g \in Runtimes : g > runtime + 1 => g # runtime + 1 /\ runtimes[g] = NewRecord
      BY <1>a DEF ExternalTypes, RecordsCounted, Runtimes
    <3>1. CASE UNCHANGED <<runtimes, clients>>
      BY <3>0, <3>1 DEF ExternalTypes, RecordsTyped, ClientsTyped, RecordsCounted
    <3>2. CASE /\ HasFreeClient
               /\ runtimes' = [runtimes EXCEPT ![runtime + 1] = Connecting(@, settings.hidden)]
               /\ clients' = [clients EXCEPT ![FreeClient] = "open"]
      <4>1. FreeClient \in Clients
        BY <3>2, FreeClientIs DEF ExternalAssumption
      <4>2. /\ runtimes[runtime + 1] \in Records /\ settings.hidden \in BOOLEAN
            /\ runtimes = [g \in Runtimes |-> runtimes[g]] /\ runtimes[runtime + 1] = NewRecord
        BY <1>a, <2>4 DEF ExternalTypes, RecordsTyped, RecordSound, Settings, RecordsCounted
      <4>3. runtimes[runtime + 1].tries < MaxInvocations
        BY <4>2 DEF NewRecord, ExternalAssumption
      <4>4. PICK r : r = Connecting(runtimes[runtime + 1], settings.hidden)
        OBVIOUS
      <4>5. RecordSound(r)
        BY <4>1, <4>2, <4>3, <4>4, ConnectingSound
      <4>6. runtimes' = [runtimes EXCEPT ![runtime + 1] = r]
        BY <2>4, <3>2, <4>2, <4>4
      <4>7. RecordsTyped' /\ \A h \in Runtimes : h # runtime + 1 => runtimes'[h] = runtimes[h]
        <5>1. RecordsTyped
          BY DEF ExternalTypes
        <5> QED
          BY <2>4, <4>5, <4>6, <5>1, RecordChanges
      <4>8. ClientsTyped'
        BY <3>2 DEF ExternalTypes, ClientsTyped
      <4> QED
        BY <3>0, <4>7, <4>8
    <3> QED
      BY <1>6, <3>1, <3>2 DEF ReplaceRuntime
  <2> QED
    BY <2>1, <2>2, <2>4, <2>5 DEF ExternalTypes, RecordsCounted
<1>7. ASSUME NEW c \in ToolCalls, EnsureForCall(c)
      PROVE  ExternalTypes'
  <2>1. UNCHANGED <<settings, runtime, routed, change>>
    BY <1>7 DEF EnsureForCall
  <2>2. ShareOrConnect \/ UNCHANGED <<runtimes, clients>>
    BY <1>7, Zenon DEF EnsureForCall
  <2> QED
    BY <1>0, <2>1, <2>2, ShareTyped
<1>8. ASSUME NEW c \in ToolCalls, RecoverConnection(c)
      PROVE  ExternalTypes'
  <2>1. UNCHANGED <<settings, runtime, routed, change>>
    BY <1>8 DEF RecoverConnection
  <2>2. CloseCurrent \/ UNCHANGED <<runtimes, clients>>
    BY <1>8, Zenon DEF RecoverConnection
  <2>3. CASE CloseCurrent
    BY <2>1, <2>3, CloseTyped DEF ExternalTypes, ChangesTyped, RecordsCounted
  <2> QED
    BY <1>0, <2>1, <2>2, <2>3
<1>9. CASE RecoveryConnects
  <2>1. UNCHANGED <<settings, runtime, routed, change>>
    BY <1>9 DEF RecoveryConnects
  <2>2. ShareOrConnect \/ UNCHANGED <<runtimes, clients>>
    BY <1>9, Zenon DEF RecoveryConnects
  <2> QED
    BY <1>0, <2>1, <2>2, ShareTyped
<1>10. ASSUME NEW c \in ToolCalls,
              CallExternal(c) \/ ConnectedForCall(c) \/ Answered(c) \/ CallFails(c) \/ InvokeAgain(c)
       PROVE  ExternalTypes'
  BY <1>0, <1>10 DEF CallExternal, ConnectedForCall, Answered, CallFails, InvokeAgain
<1>11. CASE RecoveryConnected \/ UNCHANGED externalVars
  BY <1>0, <1>11 DEF RecoveryConnected, externalVars
<1> QED
  BY <1>1, <1>2, <1>3, <1>4, <1>5, <1>6, <1>7, <1>8, <1>9, <1>10, <1>11 DEF ExternalNext

LEMMA ExternalTypesStart ==
  ASSUME ExternalAssumption, ExternalInit
  PROVE  ExternalTypes
<1>1. NewRecord \in Records /\ RecordSound(NewRecord)
  <2>1. 0 \in 0 .. MaxInvocations
    BY DEF ExternalAssumption
  <2>2. NewRecord \in Records
    BY <2>1 DEF NewRecord, Records
  <2> QED
    BY <2>2 DEF RecordSound, NewRecord
<1>2. RecordsTyped
  BY <1>1 DEF ExternalInit, RecordsTyped
<1>3. settings \in Settings /\ routed \in BOOLEAN /\ ClientsTyped /\ ChangesTyped
  BY DEF ExternalInit, Settings, ClientsTyped, ChangesTyped
<1>4. RecordsCounted
  <2>1. Cardinality(Finished(change)) \in Nat
    BY OverIsFinite
  <2> QED
    BY <2>1 DEF ExternalInit, RecordsCounted
<1> QED
  BY <1>2, <1>3, <1>4 DEF ExternalTypes

LEMMA ExternalTypesHold ==
  ASSUME ExternalAssumption, ExternalInv, ExternalTypes
  PROVE  ExternalTypeOK
<1>1. runtime \in Runtimes
  BY CurrentExists
<1>2. \A g \in Runtimes : runtimes[g].tries \in 0 .. MaxInvocations
  BY DEF ExternalTypes, RecordsTyped, RecordSound, Records
<1>3. invoked \in [ToolCalls -> 0 .. MaxInvocations]
  <2>1. invoked \in [ToolCalls -> Nat] /\ \A c \in ToolCalls : invoked[c] \in 0 .. MaxInvocations
    BY DEF ExternalInv, CallSound
  <2> QED
    BY <2>1
<1> QED
  BY <1>1, <1>2, <1>3 DEF ExternalTypes, ExternalTypeOK, ClientsTyped, Settings

\* No more runtime records than changes of the settings, no more attempts to
\* connect or invocations of a call than are allowed.
THEOREM ExternalTyping == ExternalSpec => []ExternalTypeOK
<1>1. ExternalInit => ExternalInv /\ ExternalTypes
  BY ExternalStarts, ExternalTypesStart, ExternalAssumption
<1>2. ExternalInv /\ ExternalTypes /\ [ExternalNext]_externalVars => (ExternalInv /\ ExternalTypes)'
  BY ExternalStep, ExternalTypesStep, ExternalAssumption
<1>3. ExternalInv /\ ExternalTypes => ExternalTypeOK
  BY ExternalTypesHold, ExternalAssumption
<1> QED
  BY <1>1, <1>2, <1>3, PTL DEF ExternalSpec

-----------------------------------------------------------------------------
(* ActivityStream *)

ActivityMessages == [type : {"started", "stopped", "event", "loss"}, kind : ActivityKinds, of : SUBSET Nat]
ActivityEvents == [sequence : Nat, kind : ActivityKinds, of : SUBSET Nat, loss : BOOLEAN]
Streams == [id : Nat, active : BOOLEAN, sequence : Nat, events : Seq(ActivityEvents), dropped : Nat]

\* The events are numbered in their order.
Numbered(s) ==
  /\ s \in Streams
  /\ \A i \in DOMAIN s.events : s.events[i].sequence \in 1 .. s.sequence
  /\ \A i, j \in DOMAIN s.events : i < j => s.events[i].sequence < s.events[j].sequence

\* Who reads what follows the number n is told of o, or misses a number.
Reaches(s, n, o) ==
  \E k \in (n + 1) .. s.sequence :
    \A i \in DOMAIN s.events : s.events[i].sequence = k => o \in s.events[i].of

\* What is there stays there, in a stream that goes on.
Continues(s, t) ==
  /\ t.id = s.id /\ s.sequence <= t.sequence
  /\ \A n \in Nat, o \in Nat : Reaches(s, n, o) => Reaches(t, n, o)

\* A sequence without its i-th member.
IsCut(r, q, i) == r = RemoveAt(q, i)
LEMMA CutIs ==
  ASSUME NEW S, NEW q \in Seq(S), NEW i \in DOMAIN q, NEW r, IsCut(r, q, i)
  PROVE  /\ r \in Seq(S) /\ Len(r) = Len(q) - 1
         /\ \A k \in DOMAIN r : r[k] = IF k < i THEN q[k] ELSE q[k + 1]
<1>1. Len(q) \in Nat /\ DOMAIN q = 1 .. Len(q)
  OBVIOUS
<1>2. PICK a, b : a = SubSeq(q, 1, i - 1) /\ b = SubSeq(q, i + 1, Len(q))
  OBVIOUS
<1>3. a \in Seq(S) /\ Len(a) = i - 1 /\ \A k \in 1 .. i - 1 : a[k] = q[k]
  BY <1>1, <1>2, SubSeqProperties
<1>4. b \in Seq(S) /\ Len(b) = Len(q) - i /\ \A k \in 1 .. Len(q) - i : b[k] = q[i + k]
  BY <1>1, <1>2, SubSeqProperties
<1>5. r = a \o b
  BY <1>2 DEF IsCut, RemoveAt
<1>6. /\ r \in Seq(S) /\ Len(r) = Len(a) + Len(b) /\ DOMAIN r = 1 .. Len(a) + Len(b)
      /\ \A k \in 1 .. Len(a) + Len(b) : r[k] = IF k <= Len(a) THEN a[k] ELSE b[k - Len(a)]
  <2>1. a \in Seq(S) /\ b \in Seq(S)
    BY <1>3, <1>4
  <2> QED
    BY <1>5, <2>1
<1>7. Len(a) + Len(b) = Len(q) - 1
  BY <1>1, <1>3, <1>4
<1>8. ASSUME NEW k \in 1 .. Len(q) - 1
      PROVE  r[k] = IF k < i THEN q[k] ELSE q[k + 1]
  <2>1. CASE k < i
    <3>1. k \in 1 .. i - 1 /\ k <= Len(a)
      BY <1>1, <1>3, <2>1
    <3> QED
      BY <1>3, <1>6, <1>7, <2>1, <3>1
  <2>2. CASE ~(k < i)
    <3>1. k - (i - 1) \in 1 .. Len(q) - i /\ ~(k <= Len(a)) /\ k - Len(a) = k - (i - 1) /\ i + (k - (i - 1)) = k + 1
      BY <1>1, <1>3, <2>2
    <3>2. r[k] = b[k - (i - 1)]
      BY <1>6, <1>7, <3>1
    <3>3. b[k - (i - 1)] = q[k + 1]
      BY <1>4, <3>1
    <3> QED
      BY <2>2, <3>2, <3>3
  <2> QED
    BY <2>1, <2>2
<1> QED
  BY <1>6, <1>7, <1>8

\* The new event is behind the others, one of which may give way to it.
LEMMA StoreKeeps ==
  ASSUME ActivityAssumption, NEW s, Numbered(s), NEW m \in ActivityMessages,
         NEW t, t = Store(s, m)
  PROVE  /\ Numbered(t) /\ Continues(s, t) /\ t.active = s.active
         /\ \A n \in 0 .. s.sequence, o \in m.of : Reaches(t, n, o)
         /\ \A k \in DOMAIN t.events : t.events[k].of = m.of \/ \E i \in DOMAIN s.events : t.events[k] = s.events[i]
<1>1. PICK event : event = [sequence |-> s.sequence + 1, kind |-> m.kind, of |-> m.of, loss |-> m.type = "loss"]
  OBVIOUS
<1>2. event \in ActivityEvents /\ event.sequence = s.sequence + 1 /\ event.of = m.of
  BY <1>1 DEF ActivityEvents, ActivityMessages, Numbered, Streams
<1>3. PICK events : events = Append(s.events, event)
  OBVIOUS
<1>4. s.events \in Seq(ActivityEvents) /\ s.sequence \in Nat /\ s.dropped \in Nat
  BY DEF Numbered, Streams
<1>5. /\ events \in Seq(ActivityEvents) /\ Len(events) = Len(s.events) + 1 /\ Len(s.events) \in Nat
      /\ DOMAIN events = 1 .. Len(s.events) + 1 /\ DOMAIN s.events = 1 .. Len(s.events)
      /\ \A i \in 1 .. Len(s.events) : events[i] = s.events[i]
      /\ events[Len(s.events) + 1] = event
  BY <1>2, <1>3, <1>4
<1>6. /\ \A i \in DOMAIN events : events[i].sequence \in 1 .. s.sequence + 1
      /\ \A i, j \in DOMAIN events : i < j => events[i].sequence < events[j].sequence
      /\ \A i \in DOMAIN events : \/ i \in DOMAIN s.events /\ events[i] = s.events[i]
                                  \/ events[i] = event
  <2>1. ASSUME NEW i \in DOMAIN events
        PROVE  \/ i \in DOMAIN s.events /\ events[i] = s.events[i] /\ events[i].sequence \in 1 .. s.sequence
               \/ i = Len(s.events) + 1 /\ events[i] = event
    BY <1>5 DEF Numbered
  <2>2. \A i \in DOMAIN events : events[i].sequence \in 1 .. s.sequence + 1
    BY <1>2, <1>4, <2>1
  <2>3. ASSUME NEW i \in DOMAIN events, NEW j \in DOMAIN events, i < j
        PROVE  events[i].sequence < events[j].sequence
    <3>1. i \in DOMAIN s.events /\ events[i] = s.events[i] /\ events[i].sequence \in 1 .. s.sequence
      BY <1>5, <2>1, <2>3
    <3>2. CASE j \in DOMAIN s.events /\ events[j] = s.events[j]
      BY <2>3, <3>1, <3>2 DEF Numbered
    <3>3. CASE events[j] = event
      BY <1>2, <1>4, <3>1, <3>3
    <3> QED
      BY <2>1, <3>2, <3>3
  <2> QED
    BY <2>1, <2>2, <2>3
<1>7. PICK rest, gone : /\ t = [s EXCEPT !.sequence = @ + 1, !.events = rest, !.dropped = gone]
                        /\ gone \in Nat /\ rest \in Seq(ActivityEvents)
                        /\ \/ rest = events
                           \/ \E i \in DOMAIN events : IsCut(rest, events, i)
  <2> DEFINE same == {i \in DOMAIN events : events[i].kind = m.kind}
             oldest == CHOOSE i \in same : \A j \in same : i <= j
             crowded == Cardinality(same) > KindLimit
  <2>1. t = [s EXCEPT !.sequence = @ + 1, !.events = IF crowded THEN RemoveAt(events, oldest) ELSE events,
                      !.dropped = IF crowded THEN @ + 1 ELSE @]
    BY <1>1, <1>3 DEF Store
  <2>2. ASSUME crowded
        PROVE  oldest \in DOMAIN events
    <3>1. ASSUME same = {}
          PROVE  FALSE
      <4>1. Cardinality(same) = 0
        BY <3>1, FS_EmptySet
      <4> QED
        BY <2>2, <4>1 DEF ActivityAssumption
    <3>2. same \subseteq Nat
      BY <1>5
    <3>3. \E i \in same : \A j \in same : i <= j
      BY <3>1, <3>2, LeastOf
    <3> QED
      BY <3>3
  <2> HIDE DEF oldest, crowded
  <2>3. PICK rest : rest = IF crowded THEN RemoveAt(events, oldest) ELSE events
    OBVIOUS
  <2>4. PICK gone : gone = IF crowded THEN s.dropped + 1 ELSE s.dropped
    OBVIOUS
  <2>5. t = [s EXCEPT !.sequence = @ + 1, !.events = rest, !.dropped = gone] /\ gone \in Nat
    BY <1>4, <2>1, <2>3, <2>4
  <2>6. rest = events \/ \E i \in DOMAIN events : IsCut(rest, events, i)
    BY <2>2, <2>3 DEF IsCut
  <2>7. rest \in Seq(ActivityEvents)
    <3>1. events \in Seq(ActivityEvents)
      BY <1>5
    <3>2. ASSUME NEW i \in DOMAIN events, IsCut(rest, events, i)
          PROVE  rest \in Seq(ActivityEvents)
      BY <3>1, <3>2, CutIs
    <3> QED
      BY <2>6, <3>1, <3>2
  <2> QED
    BY <2>5, <2>6, <2>7
<1>8. /\ t.id = s.id /\ t.active = s.active /\ t.sequence = s.sequence + 1 /\ t.events = rest /\ t \in Streams
  <2>1. s = [id |-> s.id, active |-> s.active, sequence |-> s.sequence, events |-> s.events, dropped |-> s.dropped]
        /\ s.id \in Nat /\ s.active \in BOOLEAN
    BY DEF Numbered, Streams
  <2>2. t = [id |-> s.id, active |-> s.active, sequence |-> s.sequence + 1, events |-> rest, dropped |-> gone]
    BY <1>7, <2>1
  <2> QED
    BY <1>4, <1>7, <2>1, <2>2 DEF Streams
<1>9. PICK at : /\ at \in [DOMAIN rest -> DOMAIN events]
                /\ \A k \in DOMAIN rest : rest[k] = events[at[k]]
                /\ \A k, h \in DOMAIN rest : k < h => at[k] < at[h]
  <2>1. CASE rest = events
    <3>1. PICK at : at = [k \in DOMAIN rest |-> k]
      OBVIOUS
    <3>2. at \in [DOMAIN rest -> DOMAIN events] /\ \A k \in DOMAIN rest : at[k] = k
      BY <2>1, <3>1
    <3> QED
      BY <2>1, <3>2
  <2>2. ASSUME NEW i \in DOMAIN events, IsCut(rest, events, i)
        PROVE  \E at \in [DOMAIN rest -> DOMAIN events] :
                 /\ \A k \in DOMAIN rest : rest[k] = events[at[k]]
                 /\ \A k, h \in DOMAIN rest : k < h => at[k] < at[h]
    <3>0. events \in Seq(ActivityEvents)
      BY <1>5
    <3>1. Len(rest) = Len(events) - 1 /\ \A k \in DOMAIN rest : rest[k] = IF k < i THEN events[k] ELSE events[k + 1]
      BY <2>2, <3>0, CutIs
    <3>2. PICK at : at = [k \in DOMAIN rest |-> IF k < i THEN k ELSE k + 1]
      OBVIOUS
    <3>3. DOMAIN rest = 1 .. Len(rest)
      BY <1>7
    <3>4. \A k \in DOMAIN rest : at[k] = (IF k < i THEN k ELSE k + 1) /\ at[k] \in DOMAIN events
      BY <1>5, <3>1, <3>2, <3>3
    <3>5. at \in [DOMAIN rest -> DOMAIN events]
      BY <3>2, <3>4
    <3>6. \A k, h \in DOMAIN rest : k < h => at[k] < at[h]
      BY <1>5, <3>3, <3>4
    <3> QED
      BY <3>1, <3>4, <3>5, <3>6
  <2> QED
    BY <1>7, <2>1, <2>2
<1>10. Numbered(t)
  <2>1. \A k \in DOMAIN rest : rest[k].sequence \in 1 .. s.sequence + 1
    BY <1>6, <1>9
  <2>2. \A k, h \in DOMAIN rest : k < h => rest[k].sequence < rest[h].sequence
    BY <1>6, <1>9
  <2> QED
    BY <1>8, <2>1, <2>2 DEF Numbered
<1>11. \A k \in DOMAIN rest : \/ \E i \in DOMAIN s.events : rest[k] = s.events[i]
                              \/ rest[k] = event
  BY <1>6, <1>9
<1>12. ASSUME NEW n \in Nat, NEW o \in Nat, Reaches(s, n, o)
       PROVE  Reaches(t, n, o)
  <2>1. PICK k \in (n + 1) .. s.sequence : \A i \in DOMAIN s.events : s.events[i].sequence = k => o \in s.events[i].of
    BY <1>12 DEF Reaches
  <2>2. k \in (n + 1) .. s.sequence + 1 /\ k # event.sequence
    BY <1>2, <1>4, <2>1
  <2>3. \A i \in DOMAIN rest : rest[i].sequence = k => o \in rest[i].of
    BY <1>11, <2>1, <2>2
  <2> QED
    BY <1>8, <2>2, <2>3 DEF Reaches
<1>13. ASSUME NEW n \in 0 .. s.sequence, NEW o \in m.of
       PROVE  Reaches(t, n, o)
  <2>1. s.sequence + 1 \in (n + 1) .. s.sequence + 1
    BY <1>4
  <2>2. \A i \in DOMAIN rest : rest[i].sequence = s.sequence + 1 => o \in rest[i].of
    <3>1. \A i \in DOMAIN s.events : s.events[i].sequence # s.sequence + 1
      BY <1>4 DEF Numbered
    <3> QED
      BY <1>2, <1>11, <3>1
  <2> QED
    BY <1>8, <2>1, <2>2 DEF Reaches
<1>14. Continues(s, t)
  <2>1. t.id = s.id /\ s.sequence <= t.sequence
    BY <1>4, <1>8
  <2> QED
    BY <1>12, <2>1 DEF Continues
<1>15. \A k \in DOMAIN t.events : t.events[k].of = m.of \/ \E i \in DOMAIN s.events : t.events[k] = s.events[i]
  BY <1>2, <1>8, <1>11
<1> QED
  BY <1>8, <1>10, <1>13, <1>14, <1>15

\* A stream that is active takes what is not a start.
LEMMA DeliverKeeps ==
  ASSUME ActivityAssumption, NEW s, Numbered(s), s.active, NEW m \in ActivityMessages, m.type # "started",
         NEW t, t = Deliver(s, m)
  PROVE  /\ Numbered(t) /\ Continues(s, t)
         /\ m.type # "stopped" => /\ t.active
                                  /\ \A n \in 0 .. s.sequence, o \in m.of : Reaches(t, n, o)
<1>1. CASE m.type # "stopped"
  <2>1. t = Store(s, m)
    BY <1>1 DEF Deliver
  <2> QED
    BY <2>1, StoreKeeps
<1>2. CASE m.type = "stopped" /\ s.id = 0
  <2>1. t = s
    BY <1>2 DEF Deliver
  <2>2. Continues(s, s)
    BY DEF Continues, Numbered, Streams
  <2> QED
    BY <1>2, <2>1, <2>2
<1>3. CASE m.type = "stopped" /\ s.id # 0
  <2>1. PICK r : r = [s EXCEPT !.active = FALSE]
    OBVIOUS
  <2>2. t = Store(r, m)
    BY <1>3, <2>1 DEF Deliver
  <2>3. /\ s \in Streams /\ r \in Streams
        /\ r.id = s.id /\ r.events = s.events /\ r.sequence = s.sequence
    BY <2>1 DEF Numbered, Streams
  <2>4. Numbered(r)
    BY <2>3 DEF Numbered
  <2>5. Numbered(t) /\ Continues(r, t)
    BY <2>2, <2>4, StoreKeeps
  <2>6. \A n, o : Reaches(s, n, o) => Reaches(r, n, o)
    BY <2>3 DEF Reaches
  <2>7. Continues(s, t)
    BY <2>3, <2>5, <2>6 DEF Continues
  <2> QED
    BY <1>3, <2>5, <2>7
<1> QED
  BY <1>1, <1>2, <1>3

\* What the recursion of DeliverAll asks of its function on 0 .. n.
Delivers(f, first, messages, n) ==
  f = [m \in 0 .. n |-> IF m = 0 THEN first ELSE Deliver(f[m - 1], messages[m])]

\* There is such a function.
LEMMA DeliversExists ==
  ASSUME NEW first, NEW messages, NEW n \in Nat
  PROVE  \E f : Delivers(f, first, messages, n)
<1> DEFINE S == {m \in Nat : \E f : Delivers(f, first, messages, m)}
<1>1. 0 \in S
  <2>1. PICK f : f = [m \in 0 .. 0 |-> first]
    OBVIOUS
  <2>2. Delivers(f, first, messages, 0)
    BY <2>1 DEF Delivers
  <2> QED
    BY <2>2
<1>2. ASSUME NEW m \in Nat, m \in S
      PROVE  m + 1 \in S
  <2>1. PICK f : Delivers(f, first, messages, m)
    BY <1>2
  <2>2. PICK last : last = Deliver(f[m], messages[m + 1])
    OBVIOUS
  <2>3. PICK g : g = [k \in 0 .. m + 1 |-> IF k = m + 1 THEN last ELSE f[k]]
    OBVIOUS
  <2>4. \A k \in 0 .. m : g[k] = f[k] /\ k \in Nat
    BY <2>3
  <2>5. ASSUME NEW k \in 0 .. m + 1
        PROVE  g[k] = IF k = 0 THEN first ELSE Deliver(g[k - 1], messages[k])
    <3>1. CASE k = m + 1
      <4>1. k # 0 /\ k - 1 = m /\ m \in 0 .. m /\ g[k] = last
        BY <2>3, <3>1
      <4>2. g[k - 1] = f[m]
        BY <2>4, <4>1
      <4> QED
        BY <2>2, <3>1, <4>1, <4>2
    <3>2. CASE k # m + 1
      <4>1. k \in 0 .. m /\ (k # 0 => k - 1 \in 0 .. m)
        BY <3>2
      <4>2. f[k] = IF k = 0 THEN first ELSE Deliver(f[k - 1], messages[k])
        BY <2>1, <4>1 DEF Delivers
      <4> QED
        BY <2>4, <4>1, <4>2
    <3> QED
      BY <3>1, <3>2
  <2>6. Delivers(g, first, messages, m + 1)
    <3>1. g = [k \in 0 .. m + 1 |-> g[k]]
      BY <2>3
    <3> QED
      BY <2>5, <3>1 DEF Delivers
  <2> QED
    BY <2>6
<1> HIDE DEF S
<1>3. Nat \subseteq S
  BY <1>1, <1>2, AllNumbers
<1> QED
  BY <1>3 DEF S

\* Messages that an active stream can take one after another.
Flushable(messages) ==
  /\ messages \in Seq(ActivityMessages)
  /\ \A i \in DOMAIN messages : /\ messages[i].type # "started"
                                /\ messages[i].type = "stopped" => i = Len(messages)

\* What is delivered in one go is found in the stream.
LEMMA AllDelivered ==
  ASSUME ActivityAssumption, Numbered(stream), NEW messages, Flushable(messages),
         messages # <<>> => stream.active, NEW t, t = DeliverAll(messages)
  PROVE  /\ Numbered(t) /\ Continues(stream, t)
         /\ \A i \in DOMAIN messages : messages[i].type # "stopped" =>
              \A n \in 0 .. stream.sequence, o \in messages[i].of : Reaches(t, n, o)
         /\ stream.active /\ (\A i \in DOMAIN messages : messages[i].type # "stopped") => t.active
<1>1. /\ Len(messages) \in Nat /\ DOMAIN messages = 1 .. Len(messages)
      /\ \A i \in 1 .. Len(messages) : messages[i] \in ActivityMessages
      /\ messages # <<>> <=> Len(messages) # 0
  BY DEF Flushable
<1>2. PICK f : Delivers(f, stream, messages, Len(messages)) /\ t = f[Len(messages)]
  <2>1. \E f : Delivers(f, stream, messages, Len(messages))
    BY <1>1, DeliversExists
  <2>2. PICK f : f = CHOOSE g : Delivers(g, stream, messages, Len(messages))
    OBVIOUS
  <2>3. Delivers(f, stream, messages, Len(messages))
    BY <2>1, <2>2
  <2>4. DeliverAll(messages) = f[Len(messages)]
    BY <2>2, Zenon DEF DeliverAll, Delivers
  <2> QED
    BY <2>3, <2>4
<1> DEFINE Good(r, n) ==
             /\ Numbered(r) /\ Continues(stream, r)
             /\ stream.active /\ (\A i \in 1 .. n : messages[i].type # "stopped") => r.active
             /\ \A i \in 1 .. n : messages[i].type # "stopped" =>
                  \A h \in 0 .. stream.sequence, o \in messages[i].of : Reaches(r, h, o)
           T == {n \in Nat : n <= Len(messages) => Good(f[n], n)}
<1>3. 0 \in T
  <2>1. f[0] = stream
    BY <1>1, <1>2 DEF Delivers
  <2>2. Continues(stream, stream)
    BY DEF Continues, Numbered, Streams
  <2>3. Good(stream, 0)
    <3>1. \A i \in 1 .. 0 : FALSE
      OBVIOUS
    <3> QED
      BY <2>2, <3>1
  <2> QED
    BY <2>1, <2>3
<1>4. ASSUME NEW n \in Nat, n \in T
      PROVE  n + 1 \in T
  <2> SUFFICES ASSUME n + 1 <= Len(messages) PROVE Good(f[n + 1], n + 1)
    OBVIOUS
  <2>1. n <= Len(messages) /\ n + 1 \in 0 .. Len(messages) /\ n + 1 \in 1 .. Len(messages) /\ n + 1 # 0 /\ (n + 1) - 1 = n
    BY <1>1
  <2>2. PICK r, s, k, m : r = f[n] /\ s = f[n + 1] /\ k = n + 1 /\ m = messages[k]
    OBVIOUS
  <2>3. Good(r, n)
    BY <1>4, <2>1, <2>2
  <2>4. s = Deliver(r, m)
    BY <1>2, <2>1, <2>2 DEF Delivers
  <2>5. m \in ActivityMessages /\ m.type # "started" /\ k \in 1 .. Len(messages)
    BY <1>1, <2>1, <2>2 DEF Flushable
  <2>6. \A i \in 1 .. n : messages[i].type # "stopped"
    BY <1>1, <2>1 DEF Flushable
  <2>7. r.active
    BY <1>1, <2>1, <2>3, <2>6
  <2>8. /\ Numbered(s) /\ Continues(r, s)
        /\ m.type # "stopped" => s.active /\ \A h \in 0 .. r.sequence, o \in m.of : Reaches(s, h, o)
    BY <2>3, <2>4, <2>5, <2>7, DeliverKeeps
  <2>9. stream.sequence \in Nat /\ r.sequence \in Nat /\ stream.sequence <= r.sequence /\ s.sequence \in Nat
    BY <2>3, <2>8 DEF Numbered, Continues, Streams
  <2>10. Continues(stream, s)
    <3>1. s.id = stream.id /\ stream.sequence <= s.sequence
      BY <2>3, <2>8, <2>9 DEF Continues
    <3>2. \A h \in Nat, o \in Nat : Reaches(stream, h, o) => Reaches(s, h, o)
      BY <2>3, <2>8 DEF Continues
    <3> QED
      BY <3>1, <3>2 DEF Continues
  <2>11. ASSUME NEW i \in 1 .. k, messages[i].type # "stopped", NEW h \in 0 .. stream.sequence, NEW o \in messages[i].of
         PROVE  Reaches(s, h, o)
    <3>1. CASE i = k
      <4>1. h \in 0 .. r.sequence
        BY <2>9
      <4> QED
        BY <2>2, <2>8, <2>11, <3>1, <4>1
    <3>2. CASE i # k
      <4>1. i \in 1 .. n /\ i \in 1 .. Len(messages)
        BY <2>1, <2>2, <3>2
      <4>2. Reaches(r, h, o)
        BY <2>3, <2>11, <4>1
      <4>3. h \in Nat /\ o \in Nat
        BY <1>1, <2>9, <4>1 DEF ActivityMessages
      <4> QED
        BY <2>8, <4>2, <4>3 DEF Continues
    <3> QED
      BY <3>1, <3>2
  <2>12. (\A i \in 1 .. k : messages[i].type # "stopped") => s.active
    <3>1. k \in 1 .. k
      BY <2>2
    <3> QED
      BY <2>2, <2>8, <3>1
  <2>13. Good(s, k)
    BY <2>8, <2>10, <2>11, <2>12
  <2> QED
    BY <2>2, <2>13
<1>5. Good(f[Len(messages)], Len(messages))
  <2> HIDE DEF Good
  <2>1. Nat \subseteq T
    <3> HIDE DEF T
    <3> QED
      BY <1>3, <1>4, AllNumbers
  <2>2. Len(messages) \in T
    BY <1>1, <2>1
  <2> QED
    BY <1>1, <2>2
<1> QED
  BY <1>1, <1>2, <1>5

\* A set in some order.
LEMMA InSomeOrder ==
  ASSUME NEW S, IsFiniteSet(S)
  PROVE  /\ Cardinality(S) \in Nat /\ SetToSeq(S) \in [1 .. Cardinality(S) -> S]
         /\ \A x \in S : \E i \in 1 .. Cardinality(S) : SetToSeq(S)[i] = x
<1>1. PICK n : n = Cardinality(S)
  OBVIOUS
<1>2. n \in Nat /\ ExistsBijection(1 .. n, S)
  BY <1>1, FS_CardinalityType
<1>3. \E f \in [1 .. n -> S] : IsInjective(f)
  BY <1>2 DEF ExistsBijection, Bijection, Injection
<1>4. PICK f : f = SetToSeq(S)
  OBVIOUS
<1>5. f \in [1 .. n -> S] /\ IsInjective(f)
  BY <1>1, <1>3, <1>4, Zenon DEF SetToSeq
<1>6. f \in Injection(1 .. n, S)
  BY <1>5 DEF Injection
<1>7. IsFiniteSet(1 .. n) /\ Cardinality(1 .. n) = n
  <2>1. n \in Int /\ 1 \in Int /\ (1 > n => n = 0)
    BY <1>2
  <2>2. IsFiniteSet(1 .. n) /\ Cardinality(1 .. n) = IF 1 > n THEN 0 ELSE n - 1 + 1
    BY <2>1, FS_Interval
  <2> QED
    BY <1>2, <2>1, <2>2
<1>8. f \in Surjection(1 .. n, S)
  BY <1>1, <1>6, <1>7, FS_Injection
<1> QED
  BY <1>1, <1>2, <1>4, <1>5, <1>8 DEF Surjection

\* What was dropped from the queue.
OverflowOf == [kind : ActivityKinds, of : SUBSET Nat]

\* The notices tell of everything that was dropped.
LEMMA NoticesTell ==
  ASSUME overflow \subseteq OverflowOf, IsFiniteSet(overflow), NEW notices, notices = LossNotices
  PROVE  /\ notices \in Seq(ActivityMessages) /\ \A i \in DOMAIN notices : notices[i].type = "loss"
         /\ \A o \in overflow : \E i \in DOMAIN notices : o.of \subseteq notices[i].of
         /\ \A i \in DOMAIN notices : notices[i].of \subseteq UNION {o.of : o \in overflow}
<1> DEFINE K == {o.kind : o \in overflow}
<1>1. IsFiniteSet(K)
  <2>1. PICK f : f = [o \in overflow |-> o.kind]
    OBVIOUS
  <2>2. f \in Surjection(overflow, K)
    BY <2>1 DEF Surjection
  <2> HIDE DEF K
  <2> QED
    BY <2>2, FS_Surjection
<1>2. K \subseteq ActivityKinds
  BY DEF OverflowOf
<1>3. PICK kinds, n : kinds = SetToSeq(K) /\ n = Cardinality(K)
  OBVIOUS
<1>4. n \in Nat /\ kinds \in [1 .. n -> K] /\ \A x \in K : \E i \in 1 .. n : kinds[i] = x
  <2> HIDE DEF K
  <2> QED
    BY <1>1, <1>3, InSomeOrder
<1> DEFINE lost(k) == UNION {o.of : o \in {p \in overflow : p.kind = k}}
<1>5. notices = [i \in 1 .. n |-> StreamMessage("loss", kinds[i], lost(kinds[i]))]
  <2>1. notices = [i \in DOMAIN kinds |-> StreamMessage("loss", kinds[i], lost(kinds[i]))]
    BY <1>3 DEF LossNotices
  <2>2. DOMAIN kinds = 1 .. n
    BY <1>4
  <2> QED
    BY <2>1, <2>2
<1>6. \A k : lost(k) \subseteq Nat
  BY DEF OverflowOf
<1>7. /\ \A o \in overflow : o.of \subseteq lost(o.kind)
      /\ \A k : lost(k) \subseteq UNION {o.of : o \in overflow}
  OBVIOUS
<1> HIDE DEF lost
<1>8. \A i \in 1 .. n : /\ notices[i].type = "loss" /\ notices[i].of = lost(kinds[i])
                        /\ notices[i] \in ActivityMessages
  BY <1>2, <1>4, <1>5, <1>6 DEF StreamMessage, ActivityMessages
<1>9. notices \in Seq(ActivityMessages) /\ DOMAIN notices = 1 .. n
  <2>1. DOMAIN notices = 1 .. n /\ notices = [i \in 1 .. n |-> notices[i]]
    BY <1>5
  <2>2. notices \in [1 .. n -> ActivityMessages]
    BY <1>8, <2>1
  <2> QED
    BY <1>4, <2>1, <2>2, SeqDef
<1>10. ASSUME NEW o \in overflow
       PROVE  \E i \in DOMAIN notices : o.of \subseteq notices[i].of
  <2>1. PICK i \in 1 .. n : kinds[i] = o.kind
    BY <1>4
  <2> QED
    BY <1>7, <1>8, <1>9, <2>1
<1>11. \A i \in DOMAIN notices : notices[i].of \subseteq UNION {o.of : o \in overflow}
  BY <1>7, <1>8, <1>9
<1> QED
  BY <1>8, <1>9, <1>10, <1>11

\* The queue holds observations, and behind them at most one end of the monitoring.
QueueFits ==
  /\ queue \in Seq(ActivityMessages) /\ overflow \subseteq OverflowOf /\ IsFiniteSet(overflow)
  /\ \A i \in DOMAIN queue :
       \/ queue[i].type = "event"
       \/ queue[i].type = "stopped" /\ i = Len(queue) /\ ~monitoring /\ queue[i].of = {}

\* What is flushed can be delivered, and nothing that was observed is left out.
LEMMA FlushedTells ==
  ASSUME QueueFits, NEW all, all = Flushed
  PROVE  /\ Flushable(all)
         /\ \A o \in InFlight : \E i \in DOMAIN all : all[i].type # "stopped" /\ o \in all[i].of
         /\ monitoring => \A i \in DOMAIN all : all[i].type # "stopped"
         /\ all # <<>> => queue # <<>> \/ overflow # {}
<1>1. PICK notices : notices = LossNotices
  OBVIOUS
<1>2. /\ notices \in Seq(ActivityMessages) /\ \A i \in DOMAIN notices : notices[i].type = "loss"
      /\ \A o \in overflow : \E i \in DOMAIN notices : o.of \subseteq notices[i].of
      /\ overflow = {} => notices = <<>>
  <2>1. ASSUME overflow = {}
        PROVE  notices = <<>>
    <3>1. {o.kind : o \in overflow} = {}
      BY <2>1
    <3>2. Cardinality({}) = 0 /\ IsFiniteSet({})
      BY FS_EmptySet
    <3>3. PICK kinds : kinds = SetToSeq({})
      OBVIOUS
    <3>4. kinds \in [1 .. 0 -> {}]
      BY <3>2, <3>3, InSomeOrder
    <3>5. DOMAIN kinds = {}
      BY <3>4
    <3>6. DOMAIN notices = {} /\ notices \in Seq(ActivityMessages)
      BY <1>1, <3>1, <3>3, <3>5, NoticesTell DEF QueueFits, LossNotices
    <3> QED
      BY <3>6
  <2> QED
    BY <1>1, <2>1, NoticesTell DEF QueueFits
<1> DEFINE ends == {i \in DOMAIN queue : queue[i].type = "stopped"}
           first == IF ends = {} THEN Len(queue) + 1 ELSE CHOOSE i \in ends : \A j \in ends : i <= j
<1>3. PICK cut : cut = first
  OBVIOUS
<1>4. /\ queue \in Seq(ActivityMessages) /\ Len(queue) \in Nat /\ DOMAIN queue = 1 .. Len(queue)
  BY DEF QueueFits
<1>5. \/ /\ cut = Len(queue) + 1
         /\ \A i \in DOMAIN queue : queue[i].type = "event"
      \/ /\ cut = Len(queue) /\ queue[cut].type = "stopped" /\ cut \in DOMAIN queue
         /\ queue[cut].of = {} /\ ~monitoring
         /\ \A i \in DOMAIN queue : i # cut => queue[i].type = "event"
  <2>1. CASE ends = {}
    <3>1. cut = Len(queue) + 1
      BY <1>3, <2>1
    <3>2. \A i \in DOMAIN queue : queue[i].type # "stopped"
      BY <2>1
    <3> QED
      BY <3>1, <3>2 DEF QueueFits
  <2>2. CASE ends # {}
    <3>1. PICK i \in DOMAIN queue : queue[i].type = "stopped"
      BY <2>2
    <3>2. i = Len(queue) /\ queue[i].of = {} /\ ~monitoring
      BY <3>1 DEF QueueFits
    <3>3. \A j \in DOMAIN queue : queue[j].type = "stopped" => j = i
      BY <3>2 DEF QueueFits
    <3>4. ends = {i}
      BY <3>1, <3>3
    <3>5. cut = i
      <4>1. cut = CHOOSE k \in {i} : \A j \in {i} : k <= j
        BY <1>3, <2>2, <3>4
      <4>2. i <= i
        BY <1>4, <3>1
      <4> QED
        BY <4>1, <4>2
    <3> QED
      BY <3>1, <3>2, <3>3, <3>5 DEF QueueFits
  <2> QED
    BY <2>1, <2>2
<1>6. all = (SubSeq(queue, 1, cut - 1) \o notices) \o SubSeq(queue, cut, Len(queue))
  <2>1. all = (SubSeq(queue, 1, first - 1) \o notices) \o SubSeq(queue, first, Len(queue))
    BY <1>1 DEF Flushed
  <2> HIDE DEF first, ends
  <2> QED
    BY <1>3, <2>1
<1> HIDE DEF first, ends
<1>7. PICK a, b, c : a = SubSeq(queue, 1, cut - 1) /\ c = SubSeq(queue, cut, Len(queue)) /\ b = a \o notices
  OBVIOUS
<1>8. all = b \o c
  BY <1>6, <1>7
<1>0. cut \in 1 .. Len(queue) + 1 /\ \A i \in 1 .. Len(queue) : queue[i] \in ActivityMessages
  BY <1>4, <1>5
<1>9. a \in Seq(ActivityMessages) /\ Len(a) = cut - 1 /\ \A i \in 1 .. cut - 1 : a[i] = queue[i]
  <2>1. 1 \in Int /\ cut - 1 \in Int /\ \A i \in 1 .. cut - 1 : queue[i] \in ActivityMessages /\ 1 + i - 1 = i
    BY <1>0, <1>4
  <2>2. /\ a \in Seq(ActivityMessages) /\ Len(a) = IF 1 <= cut - 1 THEN cut - 1 - 1 + 1 ELSE 0
        /\ \A i \in 1 .. cut - 1 - 1 + 1 : a[i] = queue[1 + i - 1]
    BY <1>7, <2>1, SubSeqProperties
  <2> QED
    BY <1>0, <1>4, <2>1, <2>2
<1>10. /\ c \in Seq(ActivityMessages) /\ Len(c) = Len(queue) - (cut - 1)
       /\ \A i \in 1 .. Len(queue) - (cut - 1) : c[i] = queue[cut + i - 1]
  <2>1. cut \in Int /\ Len(queue) \in Int /\ \A i \in cut .. Len(queue) : queue[i] \in ActivityMessages
    BY <1>0, <1>4
  <2>2. /\ c \in Seq(ActivityMessages) /\ Len(c) = IF cut <= Len(queue) THEN Len(queue) - cut + 1 ELSE 0
        /\ \A i \in 1 .. Len(queue) - cut + 1 : c[i] = queue[cut + i - 1]
    BY <1>7, <2>1, SubSeqProperties
  <2> QED
    BY <1>0, <1>4, <2>2
<1>11. /\ b \in Seq(ActivityMessages) /\ Len(b) = Len(a) + Len(notices)
       /\ Len(a) \in Nat /\ Len(notices) \in Nat
       /\ \A i \in 1 .. Len(a) + Len(notices) : b[i] = IF i <= Len(a) THEN a[i] ELSE notices[i - Len(a)]
  BY <1>2, <1>7, <1>9
<1>12. /\ all \in Seq(ActivityMessages) /\ Len(all) = Len(b) + Len(c) /\ DOMAIN all = 1 .. Len(b) + Len(c)
       /\ \A i \in 1 .. Len(b) + Len(c) : all[i] = IF i <= Len(b) THEN b[i] ELSE c[i - Len(b)]
  <2>1. b \in Seq(ActivityMessages) /\ c \in Seq(ActivityMessages)
    BY <1>10, <1>11
  <2> QED
    BY <1>8, <2>1
<1>13. ASSUME NEW i \in DOMAIN all
       PROVE  \/ i \in 1 .. cut - 1 /\ all[i] = queue[i] /\ all[i].type = "event"
              \/ \E j \in DOMAIN notices : i = Len(a) + j /\ all[i] = notices[j] /\ all[i].type = "loss"
              \/ i = Len(all) /\ cut = Len(queue) /\ all[i] = queue[cut] /\ all[i].type = "stopped"
  <2>1. CASE i <= Len(a)
    <3>1. i \in 1 .. cut - 1 /\ i \in 1 .. Len(a) + Len(notices) /\ i \in 1 .. Len(b) + Len(c) /\ i <= Len(b)
      BY <1>9, <1>10, <1>11, <1>12, <2>1
    <3>2. all[i] = b[i] /\ b[i] = a[i] /\ a[i] = queue[i]
      BY <1>9, <1>11, <1>12, <2>1, <3>1
    <3>3. i \in DOMAIN queue /\ i # cut
      BY <1>4, <1>5, <3>1
    <3> QED
      BY <1>5, <3>1, <3>2, <3>3
  <2>2. CASE Len(a) < i /\ i <= Len(b)
    <3>1. i - Len(a) \in 1 .. Len(notices) /\ i \in 1 .. Len(a) + Len(notices) /\ i \in 1 .. Len(b) + Len(c)
      BY <1>11, <1>12, <2>2
    <3>2. all[i] = b[i] /\ b[i] = notices[i - Len(a)]
      BY <1>11, <1>12, <2>2, <3>1
    <3>3. i - Len(a) \in DOMAIN notices /\ i = Len(a) + (i - Len(a))
      BY <1>2, <1>11, <1>12, <3>1
    <3> QED
      BY <1>2, <3>2, <3>3
  <2>3. CASE Len(b) < i
    <3>1. i - Len(b) \in 1 .. Len(c) /\ Len(c) # 0
      BY <1>10, <1>11, <1>12, <2>3
    <3>2. cut = Len(queue) /\ queue[cut].type = "stopped" /\ cut \in 1 .. Len(queue)
      BY <1>4, <1>5, <1>10, <3>1
    <3>3. Len(c) = 1 /\ i - Len(b) = 1 /\ cut + 1 - 1 = cut
      BY <1>4, <1>10, <3>1, <3>2
    <3>4. c[1] = queue[cut]
      <4>1. 1 \in 1 .. Len(queue) - (cut - 1)
        BY <1>4, <3>2
      <4> QED
        BY <1>10, <3>3, <4>1
    <3>5. all[i] = c[1] /\ i = Len(all)
      BY <1>11, <1>12, <2>3, <3>3
    <3> QED
      BY <3>2, <3>4, <3>5
  <2> QED
    BY <1>11, <1>12, <2>1, <2>2, <2>3
<1>14. Flushable(all)
  BY <1>12, <1>13 DEF Flushable
<1>15. monitoring => \A i \in DOMAIN all : all[i].type # "stopped"
  <2> SUFFICES ASSUME monitoring, NEW i \in DOMAIN all PROVE all[i].type # "stopped"
    OBVIOUS
  <2>1. CASE i = Len(all) /\ cut = Len(queue) /\ all[i] = queue[cut] /\ all[i].type = "stopped"
    BY <1>4, <1>5, <2>1
  <2> QED
    BY <1>13, <2>1
<1>16. ASSUME NEW o \in InFlight
       PROVE  \E i \in DOMAIN all : all[i].type # "stopped" /\ o \in all[i].of
  <2>1. \/ \E i \in DOMAIN queue : o \in queue[i].of
        \/ \E x \in overflow : o \in x.of
    BY DEF InFlight
  <2>2. ASSUME NEW i \in DOMAIN queue, o \in queue[i].of
        PROVE  \E k \in DOMAIN all : all[k].type # "stopped" /\ o \in all[k].of
    <3>1. i # cut /\ i \in 1 .. cut - 1 /\ queue[i].type = "event"
      BY <1>4, <1>5, <2>2
    <3>2. i <= Len(a) /\ i \in 1 .. Len(a) + Len(notices) /\ i \in 1 .. Len(b) + Len(c) /\ i <= Len(b)
      BY <1>9, <1>10, <1>11, <1>12, <3>1
    <3>3. all[i] = b[i] /\ b[i] = a[i] /\ a[i] = queue[i]
      BY <1>9, <1>11, <1>12, <3>1, <3>2
    <3> QED
      BY <1>12, <2>2, <3>1, <3>2, <3>3
  <2>3. ASSUME NEW x \in overflow, o \in x.of
        PROVE  \E k \in DOMAIN all : all[k].type # "stopped" /\ o \in all[k].of
    <3>1. PICK j \in DOMAIN notices : x.of \subseteq notices[j].of
      BY <1>2
    <3>2. PICK k : k = Len(a) + j
      OBVIOUS
    <3>3. j \in 1 .. Len(notices) /\ k \in 1 .. Len(a) + Len(notices) /\ ~(k <= Len(a)) /\ k - Len(a) = j
      BY <1>2, <1>11, <3>1, <3>2
    <3>4. k \in 1 .. Len(b) + Len(c) /\ k <= Len(b)
      BY <1>10, <1>11, <1>12, <3>3
    <3>5. all[k] = b[k] /\ b[k] = notices[j]
      BY <1>11, <1>12, <3>3, <3>4
    <3>6. k \in DOMAIN all /\ all[k].type = "loss"
      BY <1>2, <1>12, <3>1, <3>4, <3>5
    <3> QED
      BY <2>3, <3>1, <3>5, <3>6
  <2> QED
    BY <2>1, <2>2, <2>3
<1>17. ASSUME queue = <<>>, overflow = {}
       PROVE  all = <<>>
  <2>1. Len(queue) = 0 /\ notices = <<>> /\ Len(notices) = 0
    BY <1>2, <1>17
  <2>2. cut = 1
    BY <1>4, <1>5, <2>1
  <2>3. Len(a) = 0 /\ Len(c) = 0 /\ Len(b) = 0
    BY <1>9, <1>10, <1>11, <2>1, <2>2
  <2> QED
    BY <1>12, <2>3
<1> QED
  BY <1>14, <1>15, <1>16, <1>17

\* An observation that was made is told, on its way, or to be read behind the number n.
Covers(s, n, known, e) == \A o \in 1 .. e : o \in known \/ Reaches(s, n, o)

\* Until the daemon restarts: the stream takes what is on its way; the cursor of the
\* conversation is in the stream, and so is the one of a digest; what a digest that is
\* complete was due is in it.
StreamFits ==
  /\ Numbered(stream)
  /\ monitoring \/ queue # <<>> \/ overflow # {} => stream.active
  /\ online => queue = <<>> /\ overflow = {}
CursorFits ==
  /\ cursor.id = stream.id /\ cursor.sequence \in 0 .. stream.sequence
  /\ Covers(stream, cursor.sequence, told \cup InFlight, emitted)
DigestFits ==
  digest.read =>
    /\ digest.next.id = stream.id /\ digest.next.sequence \in 0 .. stream.sequence
    /\ digest.status = "ok" => digest.due \subseteq told \cup digest.of
    /\ Covers(stream, digest.next.sequence, digest.due \cup told \cup InFlight, emitted)

GapInv ==
  /\ emitted \in Nat /\ daemonRestarts \in Nat
  /\ daemonRestarts = 0 => QueueFits /\ StreamFits /\ CursorFits /\ DigestFits /\ silent = {}

LEMMA StillCovered ==
  ASSUME NEW s, NEW t, NEW n \in 0 .. s.sequence, NEW e \in Nat, NEW x \in Nat, NEW known, NEW more,
         Continues(s, t), Covers(s, n, known, e),
         \A o \in 1 .. x : \/ o \in 1 .. e /\ (o \in known => o \in more)
                           \/ o \in more \/ Reaches(t, n, o)
  PROVE  Covers(t, n, more, x)
<1>1. \A o \in 1 .. e : o \in Nat
  OBVIOUS
<1>2. n \in Nat
  OBVIOUS
<1> QED
  BY <1>1, <1>2 DEF Covers, Continues

\* The stream and the queue move on.
LEMMA GapKept ==
  ASSUME GapInv, daemonRestarts = 0, daemonRestarts' = 0, emitted' \in Nat,
         QueueFits', StreamFits', Continues(stream, stream'),
         cursor' = cursor, digest' = digest, told' = told, silent' = silent,
         \A o \in 1 .. emitted' : \/ o \in 1 .. emitted /\ o \notin InFlight
                                  \/ o \in InFlight'
                                  \/ \A n \in 0 .. stream.sequence : Reaches(stream', n, o)
  PROVE  GapInv'
<1>1. PICK s, t, f, g, e, x : /\ s = stream /\ t = stream' /\ f = InFlight /\ g = InFlight'
                             /\ e = emitted /\ x = emitted'
  OBVIOUS
<1>0. /\ e \in Nat /\ x \in Nat
      /\ \A o \in 1 .. x : \/ o \in 1 .. e /\ o \notin f
                           \/ o \in g
                           \/ \A n \in 0 .. s.sequence : Reaches(t, n, o)
  BY <1>1 DEF GapInv
<1>2. Numbered(s) /\ Numbered(t) /\ Continues(s, t) /\ s.sequence \in Nat /\ t.sequence \in Nat
  BY <1>1 DEF GapInv, StreamFits, Numbered, Streams
<1>3. t.id = s.id /\ s.sequence <= t.sequence
  BY <1>2 DEF Continues
<1>4. CursorFits'
  <2>1. PICK c : c = cursor
    OBVIOUS
  <2>2. c.id = s.id /\ c.sequence \in 0 .. s.sequence /\ Covers(s, c.sequence, told \cup f, e)
    BY <1>1, <2>1 DEF GapInv, CursorFits
  <2>3. Covers(t, c.sequence, told \cup g, x)
    <3>1. PICK n, known, more : n = c.sequence /\ known = told \cup f /\ more = told \cup g
      OBVIOUS
    <3>2. \A o \in 1 .. x : \/ o \in 1 .. e /\ (o \in known => o \in more)
                           \/ o \in more \/ Reaches(t, n, o)
      BY <1>0, <2>2, <3>1
    <3>3. n \in 0 .. s.sequence /\ Covers(s, n, known, e)
      BY <2>2, <3>1
    <3> QED
      BY <1>0, <1>2, <3>1, <3>2, <3>3, StillCovered
  <2>4. c.id = t.id /\ c.sequence \in 0 .. t.sequence
    BY <1>2, <1>3, <2>2
  <2> QED
    BY <1>1, <2>1, <2>3, <2>4 DEF CursorFits
<1>5. DigestFits'
  <2>1. PICK d : d = digest
    OBVIOUS
  <2>2. CASE ~d.read
    BY <2>1, <2>2 DEF DigestFits
  <2>3. CASE d.read
    <3>1. /\ d.next.id = s.id /\ d.next.sequence \in 0 .. s.sequence
          /\ d.status = "ok" => d.due \subseteq told \cup d.of
          /\ Covers(s, d.next.sequence, d.due \cup told \cup f, e)
      BY <1>1, <2>1, <2>3 DEF GapInv, DigestFits
    <3>2. Covers(t, d.next.sequence, d.due \cup told \cup g, x)
      <4>1. PICK n, known, more : n = d.next.sequence /\ known = d.due \cup told \cup f /\ more = d.due \cup told \cup g
        OBVIOUS
      <4>2. \A o \in 1 .. x : \/ o \in 1 .. e /\ (o \in known => o \in more)
                             \/ o \in more \/ Reaches(t, n, o)
        BY <1>0, <3>1, <4>1
      <4>3. n \in 0 .. s.sequence /\ Covers(s, n, known, e)
        BY <3>1, <4>1
      <4> QED
        BY <1>0, <1>2, <4>1, <4>2, <4>3, StillCovered
    <3>3. d.next.id = t.id /\ d.next.sequence \in 0 .. t.sequence
      BY <1>2, <1>3, <3>1
    <3> QED
      BY <1>1, <2>1, <3>1, <3>2, <3>3 DEF DigestFits
  <2> QED
    BY <2>2, <2>3
<1> QED
  BY <1>4, <1>5 DEF GapInv

\* A message of a monitored tab that waits for the connection.
LEMMA EnqueueKeeps ==
  ASSUME ActivityAssumption, QueueFits, StreamFits, monitoring,
         NEW m \in ActivityMessages, Enqueue(m), stream' = stream,
         \/ m.type = "event"
         \/ m.type = "stopped" /\ m.of = {} /\ ~monitoring'
  PROVE  /\ QueueFits' /\ InFlight \cup m.of \subseteq InFlight'
         /\ queue' # <<>>
<1> DEFINE all == Append(queue, m)
<1>2. queue \in Seq(ActivityMessages) /\ overflow \subseteq OverflowOf /\ IsFiniteSet(overflow)
  BY DEF QueueFits
<1>3. /\ all \in Seq(ActivityMessages) /\ Len(all) = Len(queue) + 1 /\ Len(queue) \in Nat
      /\ DOMAIN all = 1 .. Len(queue) + 1 /\ DOMAIN queue = 1 .. Len(queue)
      /\ \A i \in 1 .. Len(queue) : all[i] = queue[i]
      /\ all[Len(queue) + 1] = m
  BY <1>2
<1> HIDE DEF all
<1>4. \A i \in DOMAIN queue : all[i].type = "event"
  BY <1>3 DEF QueueFits
<1>5. \A i \in DOMAIN all : \/ all[i].type = "event"
                            \/ all[i].type = "stopped" /\ i = Len(all) /\ ~monitoring' /\ all[i].of = {}
  <2> SUFFICES ASSUME NEW i \in DOMAIN all
               PROVE  \/ all[i].type = "event"
                      \/ all[i].type = "stopped" /\ i = Len(all) /\ ~monitoring' /\ all[i].of = {}
    OBVIOUS
  <2>1. i \in DOMAIN queue \/ i = Len(queue) + 1
    BY <1>3
  <2> QED
    BY <1>3, <1>4, <2>1
<1>6. \A o \in InFlight \cup m.of : \/ \E i \in DOMAIN all : o \in all[i].of
                                    \/ \E x \in overflow : o \in x.of
  <2>1. \A o \in InFlight : \/ \E i \in DOMAIN queue : o \in queue[i].of
                            \/ \E x \in overflow : o \in x.of
    BY DEF InFlight
  <2>2. \A i \in DOMAIN queue : i \in DOMAIN all /\ all[i] = queue[i]
    BY <1>3
  <2>3. Len(queue) + 1 \in DOMAIN all
    BY <1>3
  <2> QED
    BY <1>3, <2>1, <2>2, <2>3
<1>7. CASE ~Overfull(all)
  <2>1. queue' = all /\ overflow' = overflow
    BY <1>7 DEF Enqueue, all
  <2>2. QueueFits'
    BY <1>2, <1>3, <1>5, <2>1 DEF QueueFits
  <2>3. InFlight \cup m.of \subseteq InFlight'
    BY <1>6, <2>1 DEF InFlight
  <2>4. queue' # <<>>
    BY <1>3, <2>1
  <2> QED
    BY <2>2, <2>3, <2>4
<1>8. CASE Overfull(all)
  <2> DEFINE plain == {i \in DOMAIN all : all[i].type \in {"event", "loss"}}
             first == IF plain = {} THEN 1 ELSE CHOOSE i \in plain : \A j \in plain : i <= j
  <2>20. /\ queue' = RemoveAt(all, first)
         /\ overflow' = overflow \cup {[kind |-> all[first].kind, of |-> all[first].of]}
    BY <1>8 DEF Enqueue, all
  <2>21. PICK out : out = first
    OBVIOUS
  <2>22. PICK r, x : r = queue' /\ x = [kind |-> all[out].kind, of |-> all[out].of]
    OBVIOUS
  <2>1. out = first /\ r = queue' /\ x = [kind |-> all[out].kind, of |-> all[out].of]
    BY <2>21, <2>22
  <2>2. IsCut(r, all, out) /\ overflow' = overflow \cup {x}
    <3> HIDE DEF first
    <3> QED
      BY <2>1, <2>20 DEF IsCut
  <2>3. Len(all) > 1 /\ 1 \in DOMAIN queue /\ 1 \in DOMAIN all
    BY <1>3, <1>8 DEF Overfull, ActivityAssumption
  <2>4. out \in DOMAIN all /\ all[out].type \in {"event", "loss"}
    <3>1. 1 \in plain /\ plain \subseteq Nat
      BY <1>3, <1>4, <2>3
    <3>2. \E i \in plain : \A j \in plain : i <= j
      BY <3>1, LeastOf
    <3> QED
      BY <2>1, <3>1, <3>2
  <2> HIDE DEF plain, first
  <2>5. /\ r \in Seq(ActivityMessages) /\ Len(r) = Len(all) - 1
        /\ \A k \in DOMAIN r : r[k] = IF k < out THEN all[k] ELSE all[k + 1]
    <3>1. all \in Seq(ActivityMessages) /\ out \in DOMAIN all /\ IsCut(r, all, out)
      BY <1>3, <2>2, <2>4
    <3> QED
      BY <3>1, CutIs
  <2>6. DOMAIN r = 1 .. Len(queue) /\ Len(r) = Len(queue)
    BY <1>3, <2>5
  <2>7. all[out] \in ActivityMessages
    BY <1>3, <2>4
  <2>8. x \in OverflowOf /\ x.of = all[out].of
    BY <2>1, <2>7 DEF ActivityMessages, OverflowOf
  <2>9. overflow' \subseteq OverflowOf /\ IsFiniteSet(overflow')
    BY <1>2, <2>2, <2>8, FS_AddElement
  <2>10. ASSUME NEW k \in DOMAIN r
         PROVE  \/ r[k].type = "event"
                \/ r[k].type = "stopped" /\ k = Len(r) /\ ~monitoring' /\ r[k].of = {}
    <3>1. PICK h : h = IF k < out THEN k ELSE k + 1
      OBVIOUS
    <3>2. r[k] = all[h] /\ h \in DOMAIN all
      BY <1>3, <2>4, <2>5, <2>6, <3>1
    <3>3. h = Len(all) => k = Len(r)
      BY <1>3, <2>4, <2>6, <3>1
    <3> QED
      BY <1>5, <3>2, <3>3
  <2>11. QueueFits'
    BY <2>1, <2>5, <2>9, <2>10 DEF QueueFits
  <2>12. ASSUME NEW i \in DOMAIN all, i # out
         PROVE  \E k \in DOMAIN r : r[k] = all[i]
    <3>1. PICK k : k = IF i < out THEN i ELSE i - 1
      OBVIOUS
    <3>2. k \in DOMAIN r /\ (IF k < out THEN k ELSE k + 1) = i
      BY <1>3, <2>4, <2>6, <2>12, <3>1
    <3> QED
      BY <2>5, <3>2
  <2>13. InFlight' = UNION ({r[k].of : k \in DOMAIN r} \cup {o.of : o \in overflow'})
    BY <2>1 DEF InFlight
  <2>14. ASSUME NEW o \in InFlight \cup m.of
         PROVE  o \in InFlight'
    <3>1. CASE \E i \in DOMAIN all : o \in all[i].of
      <4>1. PICK i \in DOMAIN all : o \in all[i].of
        BY <3>1
      <4>2. CASE i = out
        BY <2>2, <2>8, <2>13, <4>1, <4>2
      <4>3. CASE i # out
        BY <2>12, <2>13, <4>1, <4>3
      <4> QED
        BY <4>2, <4>3
    <3>2. CASE \E y \in overflow : o \in y.of
      BY <2>2, <2>13, <3>2
    <3> QED
      BY <1>6, <2>14, <3>1, <3>2
  <2>15. queue' # <<>>
    BY <2>1, <2>3, <2>6
  <2> QED
    BY <2>11, <2>14, <2>15
<1> QED
  BY <1>7, <1>8

\* A message of a monitored tab is taken or waits.
LEMMA SendKeeps ==
  ASSUME ActivityAssumption, QueueFits, StreamFits, monitoring,
         NEW m \in ActivityMessages, Send(m), online' = online,
         \/ m.type = "event"
         \/ m.type = "stopped" /\ m.of = {} /\ ~monitoring'
  PROVE  /\ QueueFits' /\ StreamFits' /\ Continues(stream, stream')
         /\ \A o \in InFlight \cup m.of : \/ o \in InFlight'
                                          \/ \A n \in 0 .. stream.sequence : Reaches(stream', n, o)
<1>1. CASE online
  <2>1. stream' = Deliver(stream, m) /\ queue' = queue /\ overflow' = overflow
    BY <1>1 DEF Send
  <2>2. stream.active /\ Numbered(stream) /\ queue = <<>> /\ overflow = {}
    BY <1>1 DEF StreamFits
  <2>3. PICK s, t : s = stream /\ t = stream'
    OBVIOUS
  <2>4. /\ Numbered(t) /\ Continues(s, t)
        /\ m.type # "stopped" => t.active /\ \A n \in 0 .. s.sequence, o \in m.of : Reaches(t, n, o)
    BY <2>1, <2>2, <2>3, DeliverKeeps
  <2>5. StreamFits'
    <3>1. queue' = <<>> /\ overflow' = {}
      BY <2>1, <2>2
    <3>2. monitoring' => t.active
      BY <2>4
    <3> QED
      BY <2>3, <2>4, <3>1, <3>2 DEF StreamFits
  <2>6. QueueFits'
    <3>1. queue' = <<>> /\ overflow' = {}
      BY <2>1, <2>2
    <3> QED
      BY <3>1, FS_EmptySet DEF QueueFits
  <2>7. InFlight = {}
    BY <2>2 DEF InFlight
  <2> QED
    BY <2>3, <2>4, <2>5, <2>6, <2>7
<1>2. CASE ~online
  <2>1. Enqueue(m) /\ stream' = stream
    BY <1>2 DEF Send
  <2>2. QueueFits' /\ InFlight \cup m.of \subseteq InFlight'
    BY <2>1, EnqueueKeeps
  <2>3. StreamFits'
    BY <1>2, <2>1 DEF StreamFits
  <2>4. Continues(stream, stream)
    BY DEF Continues, StreamFits, Numbered, Streams
  <2> QED
    BY <2>1, <2>2, <2>3, <2>4
<1> QED
  BY <1>1, <1>2

\* As many events as numbers: none is missing.
LEMMA NoneMissing ==
  ASSUME NEW s, Numbered(s), NEW n \in 0 .. s.sequence, NEW read,
         read = {i \in DOMAIN s.events : s.events[i].sequence > n},
         ~(s.sequence - n > Cardinality(read))
  PROVE  \A k \in (n + 1) .. s.sequence : \E i \in read : s.events[i].sequence = k
<1>1. s.sequence \in Nat /\ n \in Nat /\ s.events \in Seq(ActivityEvents)
  BY DEF Numbered, Streams
<1>2. PICK numbers : numbers = (n + 1) .. s.sequence
  OBVIOUS
<1>3. IsFiniteSet(numbers) /\ Cardinality(numbers) = s.sequence - n
  <2>1. n + 1 \in Int /\ s.sequence \in Int
    BY <1>1
  <2>2. IsFiniteSet(numbers) /\ Cardinality(numbers) = IF n + 1 > s.sequence THEN 0 ELSE s.sequence - (n + 1) + 1
    BY <1>2, <2>1, FS_Interval
  <2> QED
    BY <1>1, <2>2
<1>4. PICK f : f = [i \in read |-> s.events[i].sequence]
  OBVIOUS
<1>5. \A i \in read : f[i] = s.events[i].sequence /\ i \in DOMAIN s.events /\ f[i] \in numbers
  BY <1>1, <1>2, <1>4 DEF Numbered
<1>6. f \in [read -> numbers]
  BY <1>4, <1>5
<1>7. ASSUME NEW i \in read, NEW j \in read, f[i] = f[j]
      PROVE  i = j
  <2>1. DOMAIN s.events \subseteq Nat
    BY <1>1
  <2>2. i \in Nat /\ j \in Nat
    BY <1>5, <2>1
  <2>3. ~(i < j) /\ ~(j < i)
    BY <1>2, <1>5, <1>7 DEF Numbered
  <2> QED
    BY <2>2, <2>3
<1>8. f \in Injection(read, numbers)
  BY <1>6, <1>7 DEF Injection, IsInjective
<1>9. IsFiniteSet(read) /\ Cardinality(read) <= Cardinality(numbers)
      /\ (Cardinality(read) = Cardinality(numbers) <=> f \in Surjection(read, numbers))
  BY <1>3, <1>8, FS_Injection
<1>10. Cardinality(read) \in Nat
  BY <1>9, FS_CardinalityType
<1>11. f \in Surjection(read, numbers)
  BY <1>1, <1>3, <1>9, <1>10
<1> QED
  BY <1>2, <1>5, <1>11 DEF Surjection

\* A digest that is said to be complete has what the daemon was sent.
LEMMA ReadStep ==
  ASSUME GapInv, ReadActivity
  PROVE  GapInv'
<1> SUFFICES ASSUME daemonRestarts = 0 PROVE GapInv'
  BY DEF GapInv, ReadActivity
<1>1. /\ emitted' = emitted /\ queue' = queue /\ overflow' = overflow /\ stream' = stream /\ cursor' = cursor
      /\ told' = told /\ silent' = silent /\ monitoring' = monitoring /\ online' = online
      /\ daemonRestarts' = daemonRestarts
  BY DEF ReadActivity
<1>2. QueueFits /\ StreamFits /\ CursorFits /\ silent = {} /\ emitted \in Nat
  BY DEF GapInv
<1>3. QueueFits' /\ StreamFits' /\ InFlight' = InFlight
  BY <1>1, <1>2 DEF QueueFits, StreamFits, InFlight
<1>4. CursorFits'
  BY <1>1, <1>2, <1>3 DEF CursorFits
<1> DEFINE restarted == cursor.id # stream.id \/ cursor.sequence > stream.sequence
           after == IF restarted THEN 0 ELSE cursor.sequence
           read == {i \in DOMAIN stream.events : stream.events[i].sequence > after}
<1>5. digest' = [read |-> TRUE,
                 next |-> [id |-> stream.id, sequence |-> stream.sequence],
                 of |-> UNION {stream.events[i].of : i \in {j \in read : ~stream.events[j].loss}},
                 due |-> (1 .. emitted) \ InFlight,
                 status |-> CursorStatus(read, after)]
  BY DEF ReadActivity
<1>6. stream.sequence \in Nat /\ cursor.id = stream.id /\ cursor.sequence \in 0 .. stream.sequence /\ after = cursor.sequence
  BY <1>2 DEF StreamFits, CursorFits, Numbered, Streams
<1>7. PICK d : d = digest'
  OBVIOUS
<1>8. /\ d.next.id = stream.id /\ d.next.sequence = stream.sequence
      /\ d.due = (1 .. emitted) \ InFlight
      /\ d.of = UNION {stream.events[i].of : i \in {j \in read : ~stream.events[j].loss}}
      /\ d.status = CursorStatus(read, after)
  BY <1>5, <1>7
<1>9. ASSUME d.status = "ok"
      PROVE  d.due \subseteq told \cup d.of
  <2>1. /\ ~(stream.sequence - after > Cardinality(read))
        /\ \A i \in read : ~stream.events[i].loss
    BY <1>8, <1>9 DEF CursorStatus
  <2>2. \A k \in (after + 1) .. stream.sequence : \E i \in read : stream.events[i].sequence = k
    BY <1>2, <1>6, <2>1, NoneMissing DEF StreamFits
  <2>3. ASSUME NEW o \in d.due, o \notin told
        PROVE  o \in d.of
    <3>1. o \in 1 .. emitted /\ o \notin InFlight
      BY <1>8, <2>3
    <3>2. Reaches(stream, after, o)
      BY <1>2, <1>6, <2>3, <3>1 DEF CursorFits, Covers
    <3>3. PICK k \in (after + 1) .. stream.sequence :
            \A i \in DOMAIN stream.events : stream.events[i].sequence = k => o \in stream.events[i].of
      BY <3>2 DEF Reaches
    <3>4. PICK i \in read : stream.events[i].sequence = k
      BY <2>2
    <3>5. o \in stream.events[i].of /\ i \in {j \in read : ~stream.events[j].loss}
      BY <2>1, <3>3, <3>4
    <3> QED
      BY <1>8, <3>5
  <2> QED
    BY <2>3
<1>10. Covers(stream, stream.sequence, d.due \cup told \cup InFlight, emitted)
  BY <1>8 DEF Covers
<1> HIDE DEF read, after
<1>11. DigestFits'
  <2>1. d.next.sequence \in 0 .. stream.sequence
    BY <1>6, <1>8
  <2> QED
    BY <1>1, <1>3, <1>7, <1>8, <1>9, <1>10, <2>1 DEF DigestFits
<1> QED
  BY <1>1, <1>2, <1>3, <1>4, <1>11 DEF GapInv

\* A run that has completed leaves its cursor to the conversation, and nothing behind it.
LEMMA EndStep ==
  ASSUME GapInv, NEW status, EndRun(status)
  PROVE  GapInv'
<1> SUFFICES ASSUME daemonRestarts = 0 PROVE GapInv'
  BY DEF GapInv, EndRun
<1>1. /\ emitted' = emitted /\ queue' = queue /\ overflow' = overflow /\ stream' = stream
      /\ monitoring' = monitoring /\ online' = online /\ daemonRestarts' = daemonRestarts
      /\ digest.read /\ digest' = NoDigest
  BY DEF EndRun
<1>2. QueueFits /\ StreamFits /\ CursorFits /\ DigestFits /\ silent = {} /\ emitted \in Nat
  BY DEF GapInv
<1>3. QueueFits' /\ StreamFits' /\ InFlight' = InFlight
  BY <1>1, <1>2 DEF QueueFits, StreamFits, InFlight
<1>4. DigestFits'
  <2>1. NoDigest.read = FALSE
    BY DEF NoDigest
  <2> QED
    BY <1>1, <2>1 DEF DigestFits
<1>5. CASE status = "completed"
  <2>1. PICK d : d = digest
    OBVIOUS
  <2>2. /\ cursor' = d.next
        /\ told' = IF d.status = "ok" THEN told \cup d.of ELSE told \cup d.due
        /\ silent' = IF d.status = "ok" THEN d.due \ (told \cup d.of) ELSE silent
    BY <1>5, <2>1 DEF EndRun, ShouldCommit
  <2>3. /\ d.next.id = stream.id /\ d.next.sequence \in 0 .. stream.sequence
        /\ d.status = "ok" => d.due \subseteq told \cup d.of
        /\ Covers(stream, d.next.sequence, d.due \cup told \cup InFlight, emitted)
    BY <1>1, <1>2, <2>1 DEF DigestFits
  <2>4. silent' = {} /\ d.due \cup told \subseteq told'
    BY <1>2, <2>2, <2>3
  <2>5. Covers(stream, d.next.sequence, told' \cup InFlight, emitted)
    BY <2>3, <2>4 DEF Covers
  <2>6. CursorFits'
    BY <1>1, <1>3, <2>2, <2>3, <2>5 DEF CursorFits
  <2> QED
    BY <1>1, <1>2, <1>3, <1>4, <2>4, <2>6 DEF GapInv
<1>6. CASE status # "completed"
  <2>1. cursor' = cursor /\ told' = told /\ silent' = silent
    BY <1>6 DEF EndRun, ShouldCommit
  <2>2. CursorFits'
    BY <1>1, <1>2, <1>3, <2>1 DEF CursorFits
  <2> QED
    BY <1>1, <1>2, <1>3, <1>4, <2>1, <2>2 DEF GapInv
<1> QED
  BY <1>5, <1>6

\* A new stream begins with what is told.
LEMMA StartStep ==
  ASSUME ActivityAssumption, GapInv, StartActivity
  PROVE  GapInv'
<1> SUFFICES ASSUME daemonRestarts = 0 PROVE GapInv'
  BY DEF GapInv, StartActivity
<1>1. /\ emitted' = emitted /\ queue' = queue /\ overflow' = overflow /\ online' = online
      /\ monitoring' = TRUE /\ daemonRestarts' = daemonRestarts /\ silent' = silent
      /\ online /\ ~digest.read /\ digest' = digest /\ told' = 1 .. emitted
      /\ stream' = Deliver(stream, Started)
      /\ cursor' = [id |-> stream'.id, sequence |-> stream'.sequence]
  BY DEF StartActivity
<1>2. QueueFits /\ StreamFits /\ silent = {} /\ emitted \in Nat
  BY DEF GapInv
<1>3. PICK s, t, m : s = NewStream(stream.id + 1) /\ t = stream' /\ m = Started
  OBVIOUS
<1>4. m \in ActivityMessages /\ m.type = "started"
  BY <1>3 DEF Started, StreamMessage, SomeKind, ActivityMessages, ActivityAssumption
<1>5. Numbered(s) /\ s.active
  <2>1. stream.id \in Nat
    BY <1>2 DEF StreamFits, Numbered, Streams
  <2>2. s.events = <<>> /\ s.active /\ s \in Streams
    BY <1>3, <2>1 DEF NewStream, Streams
  <2>3. \A i \in DOMAIN s.events : FALSE
    BY <2>2
  <2> QED
    BY <2>2, <2>3 DEF Numbered
<1>6. t = Store(s, m)
  BY <1>1, <1>3, <1>4 DEF Deliver
<1>7. Numbered(t) /\ t.active
  BY <1>4, <1>5, <1>6, StoreKeeps
<1>8. queue' = <<>> /\ overflow' = {}
  BY <1>1, <1>2 DEF StreamFits
<1>9. QueueFits' /\ StreamFits'
  BY <1>1, <1>3, <1>7, <1>8, FS_EmptySet DEF QueueFits, StreamFits
<1>10. CursorFits'
  <2>1. cursor'.id = t.id /\ cursor'.sequence = t.sequence /\ t.sequence \in Nat
    BY <1>1, <1>3, <1>7 DEF Numbered, Streams
  <2>2. Covers(t, t.sequence, told' \cup InFlight', emitted')
    BY <1>1 DEF Covers
  <2>3. cursor'.sequence \in 0 .. t.sequence
    BY <2>1
  <2> QED
    BY <1>3, <2>1, <2>2, <2>3 DEF CursorFits
<1>11. DigestFits'
  BY <1>1 DEF DigestFits
<1> QED
  BY <1>1, <1>2, <1>9, <1>10, <1>11 DEF GapInv

\* What the background does.
LEMMA BackgroundStep ==
  ASSUME ActivityAssumption, GapInv,
         (\E kind \in ActivityKinds : Observe(kind)) \/ StopMonitoring \/ Disconnected \/ Reconnected
  PROVE  GapInv'
<1> SUFFICES ASSUME daemonRestarts = 0 PROVE GapInv'
  BY DEF GapInv, Observe, StopMonitoring, Disconnected, Reconnected
<1>1. QueueFits /\ StreamFits /\ silent = {} /\ emitted \in Nat
  BY DEF GapInv
<1>2. ASSUME NEW kind \in ActivityKinds, Observe(kind)
      PROVE  GapInv'
  <2>1. PICK m : m = StreamMessage("event", kind, {emitted + 1})
    OBVIOUS
  <2>2. /\ monitoring /\ monitoring' = monitoring /\ online' = online /\ emitted' = emitted + 1 /\ Send(m)
        /\ cursor' = cursor /\ digest' = digest /\ told' = told /\ silent' = silent
        /\ daemonRestarts' = daemonRestarts
    BY <1>2, <2>1 DEF Observe
  <2>3. m \in ActivityMessages /\ m.type = "event" /\ m.of = {emitted + 1}
    BY <1>1, <2>1 DEF StreamMessage, ActivityMessages
  <2>4. /\ QueueFits' /\ StreamFits' /\ Continues(stream, stream')
        /\ \A o \in InFlight \cup m.of : \/ o \in InFlight'
                                         \/ \A n \in 0 .. stream.sequence : Reaches(stream', n, o)
    BY <1>1, <2>2, <2>3, SendKeeps
  <2>5. \A o \in 1 .. emitted' : o \in 1 .. emitted \/ o \in m.of
    BY <1>1, <2>2, <2>3
  <2>6. emitted' \in Nat /\ daemonRestarts' = 0
    BY <1>1, <2>2
  <2> QED
    BY <2>2, <2>4, <2>5, <2>6, GapKept
<1>3. ASSUME StopMonitoring
      PROVE  GapInv'
  <2>1. PICK m : m = Stopped
    OBVIOUS
  <2>2. /\ monitoring /\ ~monitoring' /\ online' = online /\ emitted' = emitted /\ Send(m)
        /\ cursor' = cursor /\ digest' = digest /\ told' = told /\ silent' = silent
        /\ daemonRestarts' = daemonRestarts
    BY <1>3, <2>1 DEF StopMonitoring
  <2>3. m \in ActivityMessages /\ m.type = "stopped" /\ m.of = {}
    BY <2>1 DEF Stopped, StreamMessage, SomeKind, ActivityMessages, ActivityAssumption
  <2>4. /\ QueueFits' /\ StreamFits' /\ Continues(stream, stream')
        /\ \A o \in InFlight \cup m.of : \/ o \in InFlight'
                                         \/ \A n \in 0 .. stream.sequence : Reaches(stream', n, o)
    BY <1>1, <2>2, <2>3, SendKeeps
  <2>6. emitted' \in Nat /\ daemonRestarts' = 0
    BY <1>1, <2>2
  <2> QED
    BY <2>2, <2>4, <2>6, GapKept
<1>4. ASSUME Disconnected
      PROVE  GapInv'
  <2>1. /\ ~online' /\ monitoring' = monitoring /\ emitted' = emitted /\ queue' = queue /\ overflow' = overflow
        /\ stream' = stream /\ cursor' = cursor /\ digest' = digest /\ told' = told /\ silent' = silent
        /\ daemonRestarts' = daemonRestarts
    BY <1>4 DEF Disconnected
  <2>2. QueueFits' /\ StreamFits' /\ InFlight' = InFlight
    BY <1>1, <2>1 DEF QueueFits, StreamFits, InFlight
  <2>3. CursorFits' /\ DigestFits'
    BY <2>1, <2>2 DEF GapInv, CursorFits, DigestFits
  <2> QED
    BY <1>1, <2>1, <2>2, <2>3 DEF GapInv
<1>5. ASSUME Reconnected
      PROVE  GapInv'
  <2>1. PICK s, t, messages : s = stream /\ t = stream' /\ messages = Flushed
    OBVIOUS
  <2>2. /\ monitoring' = monitoring /\ emitted' = emitted /\ queue' = <<>> /\ overflow' = {}
        /\ t = DeliverAll(messages) /\ cursor' = cursor /\ digest' = digest /\ told' = told /\ silent' = silent
        /\ daemonRestarts' = daemonRestarts
    BY <1>5, <2>1 DEF Reconnected
  <2>3. /\ Flushable(messages)
        /\ \A o \in InFlight : \E i \in DOMAIN messages : messages[i].type # "stopped" /\ o \in messages[i].of
        /\ monitoring => \A i \in DOMAIN messages : messages[i].type # "stopped"
        /\ messages # <<>> => stream.active
    BY <1>1, <2>1, FlushedTells DEF StreamFits
  <2>4. /\ Numbered(t) /\ Continues(stream, t)
        /\ \A i \in DOMAIN messages : messages[i].type # "stopped" =>
             \A n \in 0 .. stream.sequence, o \in messages[i].of : Reaches(t, n, o)
        /\ stream.active /\ (\A i \in DOMAIN messages : messages[i].type # "stopped") => t.active
    BY <1>1, <2>2, <2>3, AllDelivered DEF StreamFits
  <2>5. monitoring => t.active
    BY <1>1, <2>3, <2>4 DEF StreamFits
  <2>6. QueueFits' /\ StreamFits'
    <3>1. StreamFits'
      BY <2>1, <2>2, <2>4, <2>5 DEF StreamFits
    <3> QED
      BY <2>2, <3>1, FS_EmptySet DEF QueueFits
  <2>7. \A o \in InFlight : \A n \in 0 .. stream.sequence : Reaches(stream', n, o)
    BY <2>1, <2>3, <2>4
  <2>8. emitted' \in Nat /\ daemonRestarts' = 0 /\ Continues(stream, stream')
    BY <1>1, <2>1, <2>2, <2>4
  <2> QED
    BY <2>2, <2>6, <2>7, <2>8, GapKept
<1> QED
  BY <1>2, <1>3, <1>4, <1>5

\* Until the daemon restarts, a run that is told that its window is complete has been
\* told of all that the page did and the background has sent (shared/browserActivity.ts,
\* sidepanel/services/activityCursor.ts), for every limit, every number of kinds,
\* connections, streams and runs.
THEOREM WindowsAreComplete == ASSUME ActivityAssumption PROVE ActivitySpec => []NoSilentGap
<1>1. ActivityInit => GapInv
  <2> SUFFICES ASSUME ActivityInit PROVE GapInv
    OBVIOUS
  <2>1. /\ emitted = 0 /\ queue = <<>> /\ overflow = {} /\ ~monitoring /\ stream = NoStream /\ cursor = NoCursor
        /\ digest = NoDigest /\ silent = {} /\ daemonRestarts = 0
    BY DEF ActivityInit
  <2>2. QueueFits
    BY <2>1, FS_EmptySet DEF QueueFits
  <2>3. stream \in Streams /\ stream.events = <<>> /\ stream.id = 0 /\ stream.sequence = 0
    <3>1. PICK s : s = NewStream(0)
      OBVIOUS
    <3>2. s = [id |-> 0, active |-> TRUE, sequence |-> 0, events |-> <<>>, dropped |-> 0] /\ <<>> \in Seq(ActivityEvents)
      BY <3>1 DEF NewStream
    <3>3. stream = [id |-> 0, active |-> FALSE, sequence |-> 0, events |-> <<>>, dropped |-> 0]
      <4>1. stream = [s EXCEPT !.active = FALSE]
        BY <2>1, <3>1 DEF NoStream
      <4> QED
        BY <3>2, <4>1
    <3> QED
      BY <3>2, <3>3 DEF Streams
  <2>4. StreamFits
    <3>1. \A i \in DOMAIN stream.events : FALSE
      BY <2>3
    <3> QED
      BY <2>1, <2>3, <3>1 DEF StreamFits, Numbered
  <2>5. CursorFits
    BY <2>1, <2>3 DEF CursorFits, NoCursor, Covers
  <2>6. DigestFits
    BY <2>1 DEF DigestFits, NoDigest
  <2> QED
    BY <2>1, <2>2, <2>4, <2>5, <2>6 DEF GapInv
<1>2. GapInv /\ [ActivityNext]_activityVars => GapInv'
  <2> SUFFICES ASSUME GapInv, [ActivityNext]_activityVars PROVE GapInv'
    OBVIOUS
  <2>1. CASE UNCHANGED activityVars
    <3>1. QueueFits => QueueFits'
      BY <2>1 DEF activityVars, QueueFits
    <3>2. StreamFits => StreamFits'
      BY <2>1 DEF activityVars, StreamFits
    <3>3. InFlight' = InFlight
      BY <2>1 DEF activityVars, InFlight
    <3>4. (CursorFits => CursorFits') /\ (DigestFits => DigestFits')
      BY <2>1, <3>3 DEF activityVars, CursorFits, DigestFits
    <3> QED
      BY <2>1, <3>1, <3>2, <3>4 DEF activityVars, GapInv
  <2>2. CASE SaveStream
    <3>1. /\ monitoring' = monitoring /\ online' = online /\ emitted' = emitted /\ queue' = queue
          /\ overflow' = overflow /\ stream' = stream /\ cursor' = cursor /\ digest' = digest /\ told' = told
          /\ silent' = silent /\ daemonRestarts' = daemonRestarts
      BY <2>2 DEF SaveStream
    <3>2. (QueueFits => QueueFits') /\ (StreamFits => StreamFits') /\ InFlight' = InFlight
      BY <3>1 DEF QueueFits, StreamFits, InFlight
    <3>3. (CursorFits => CursorFits') /\ (DigestFits => DigestFits')
      BY <3>1, <3>2 DEF CursorFits, DigestFits
    <3> QED
      BY <3>1, <3>2, <3>3 DEF GapInv
  <2>3. CASE RestartDaemon
    BY <2>3 DEF RestartDaemon, GapInv
  <2>4. CASE (\E kind \in ActivityKinds : Observe(kind)) \/ StopMonitoring \/ Disconnected \/ Reconnected
    BY <2>4, BackgroundStep
  <2>5. CASE StartActivity
    BY <2>5, StartStep
  <2>6. CASE ReadActivity
    BY <2>6, ReadStep
  <2>7. CASE \E status \in {"completed", "failed"} : EndRun(status)
    BY <2>7, EndStep
  <2> QED
    BY <2>1, <2>2, <2>3, <2>4, <2>5, <2>6, <2>7 DEF ActivityNext
<1>3. GapInv => NoSilentGap
  BY DEF GapInv, NoSilentGap
<1> QED
  BY <1>1, <1>2, <1>3, PTL DEF ActivitySpec

(* Everything that is on its way, in a stream or told has been observed. *)

MessagesOf(e) == {m \in ActivityMessages : m.of \subseteq 1 .. e}

\* The queue holds no more than it may, of what has been observed.
QueueTold ==
  /\ queue \in Seq(MessagesOf(emitted)) /\ Len(queue) <= MaxQueue
  /\ overflow \subseteq {o \in OverflowOf : o.of \subseteq 1 .. emitted} /\ IsFiniteSet(overflow)

\* The events of the stream s are of the first e observations.
StreamTold(s, e) ==
  Numbered(s) /\ \A i \in DOMAIN s.events : s.events[i].of \subseteq 1 .. e

ActivityTypes ==
  /\ emitted \in Nat /\ monitoring \in BOOLEAN /\ online \in BOOLEAN
  /\ QueueTold /\ StreamTold(stream, emitted) /\ StreamTold(fileStream, emitted)
  /\ digest.of \subseteq 1 .. emitted /\ digest.due \subseteq 1 .. emitted
  /\ told \subseteq 1 .. emitted /\ silent \subseteq 1 .. emitted

LEMMA DeliverTold ==
  ASSUME ActivityAssumption, NEW e, NEW s, StreamTold(s, e), NEW m \in MessagesOf(e), NEW t, t = Deliver(s, m)
  PROVE  StreamTold(t, e)
<1>1. m \in ActivityMessages /\ m.of \subseteq 1 .. e /\ Numbered(s) /\ s \in Streams
  BY DEF MessagesOf, StreamTold, Numbered
<1>2. ASSUME NEW r, StreamTold(r, e), t = Store(r, m)
      PROVE  StreamTold(t, e)
  <2>1. /\ Numbered(t)
        /\ \A k \in DOMAIN t.events : t.events[k].of = m.of \/ \E i \in DOMAIN r.events : t.events[k] = r.events[i]
    BY <1>1, <1>2, StoreKeeps DEF StreamTold
  <2> QED
    BY <1>1, <1>2, <2>1 DEF StreamTold
<1>3. CASE m.type = "started"
  <2>1. PICK r : r = NewStream(s.id + 1)
    OBVIOUS
  <2>2. s.id \in Nat
    BY <1>1 DEF Streams
  <2>3. r.events = <<>> /\ r \in Streams
    BY <2>1, <2>2 DEF NewStream, Streams
  <2>4. StreamTold(r, e)
    <3>1. \A i \in DOMAIN r.events : FALSE
      BY <2>3
    <3> QED
      BY <2>3, <3>1 DEF StreamTold, Numbered
  <2>5. t = Store(r, m)
    BY <1>3, <2>1 DEF Deliver
  <2> QED
    BY <1>2, <2>4, <2>5
<1>4. CASE m.type = "stopped"
  <2>1. CASE s.id = 0
    BY <1>4, <2>1 DEF Deliver
  <2>2. CASE s.id # 0
    <3>1. PICK r : r = [s EXCEPT !.active = FALSE]
      OBVIOUS
    <3>2. r \in Streams /\ r.events = s.events /\ r.sequence = s.sequence
      BY <1>1, <3>1 DEF Streams
    <3>3. StreamTold(r, e)
      BY <3>2 DEF StreamTold, Numbered
    <3>4. t = Store(r, m)
      BY <1>4, <2>2, <3>1 DEF Deliver
    <3> QED
      BY <1>2, <3>3, <3>4
  <2> QED
    BY <2>1, <2>2
<1>5. CASE m.type \notin {"started", "stopped"}
  <2>1. t = IF s.active THEN Store(s, m) ELSE s
    BY <1>5 DEF Deliver
  <2> QED
    BY <1>2, <2>1
<1> QED
  BY <1>3, <1>4, <1>5

LEMMA AllTold ==
  ASSUME ActivityAssumption, NEW e, StreamTold(stream, e), NEW messages \in Seq(MessagesOf(e)),
         NEW t, t = DeliverAll(messages)
  PROVE  StreamTold(t, e)
<1>1. /\ Len(messages) \in Nat
      /\ \A i \in 1 .. Len(messages) : messages[i] \in MessagesOf(e)
  OBVIOUS
<1>2. PICK f : Delivers(f, stream, messages, Len(messages)) /\ t = f[Len(messages)]
  <2>1. \E f : Delivers(f, stream, messages, Len(messages))
    BY <1>1, DeliversExists
  <2>2. PICK f : f = CHOOSE g : Delivers(g, stream, messages, Len(messages))
    OBVIOUS
  <2>3. Delivers(f, stream, messages, Len(messages))
    BY <2>1, <2>2
  <2>4. DeliverAll(messages) = f[Len(messages)]
    BY <2>2, Zenon DEF DeliverAll, Delivers
  <2> QED
    BY <2>3, <2>4
<1> DEFINE T == {n \in Nat : n <= Len(messages) => StreamTold(f[n], e)}
<1>3. 0 \in T
  <2>1. f[0] = stream
    BY <1>1, <1>2 DEF Delivers
  <2> QED
    BY <2>1
<1>4. ASSUME NEW n \in Nat, n \in T
      PROVE  n + 1 \in T
  <2> SUFFICES ASSUME n + 1 <= Len(messages) PROVE StreamTold(f[n + 1], e)
    OBVIOUS
  <2>1. n <= Len(messages) /\ n + 1 \in 0 .. Len(messages) /\ n + 1 \in 1 .. Len(messages) /\ n + 1 # 0 /\ (n + 1) - 1 = n
    BY <1>1
  <2>2. PICK r, s, m : r = f[n] /\ s = f[n + 1] /\ m = messages[n + 1]
    OBVIOUS
  <2>3. StreamTold(r, e) /\ m \in MessagesOf(e)
    BY <1>1, <1>4, <2>1, <2>2
  <2>4. s = Deliver(r, m)
    BY <1>2, <2>1, <2>2 DEF Delivers
  <2> QED
    BY <2>2, <2>3, <2>4, DeliverTold
<1>5. Nat \subseteq T
  <2> HIDE DEF T
  <2> QED
    BY <1>3, <1>4, AllNumbers
<1>6. Len(messages) \in T
  BY <1>1, <1>5
<1> QED
  BY <1>1, <1>2, <1>6

LEMMA FlushedTold ==
  ASSUME QueueTold, emitted \in Nat, NEW all, all = Flushed
  PROVE  all \in Seq(MessagesOf(emitted))
<1> DEFINE M == MessagesOf(emitted)
<1>1. PICK notices : notices = LossNotices
  OBVIOUS
<1>2. notices \in Seq(M)
  <2>1. overflow \subseteq OverflowOf /\ IsFiniteSet(overflow)
    BY DEF QueueTold
  <2>2. notices \in Seq(ActivityMessages)
        /\ \A i \in DOMAIN notices : notices[i].of \subseteq UNION {o.of : o \in overflow}
    BY <1>1, <2>1, NoticesTell
  <2>3. UNION {o.of : o \in overflow} \subseteq 1 .. emitted
    BY DEF QueueTold
  <2>4. \A i \in 1 .. Len(notices) : notices[i] \in M
    BY <2>2, <2>3 DEF MessagesOf
  <2> HIDE DEF M
  <2> QED
    BY <2>2, <2>4
<1> DEFINE ends == {i \in DOMAIN queue : queue[i].type = "stopped"}
           first == IF ends = {} THEN Len(queue) + 1 ELSE CHOOSE i \in ends : \A j \in ends : i <= j
<1>3. PICK cut : cut = first
  OBVIOUS
<1>4. queue \in Seq(M) /\ Len(queue) \in Nat /\ DOMAIN queue = 1 .. Len(queue)
  BY DEF QueueTold
<1>5. cut \in 1 .. Len(queue) + 1
  <2>1. CASE ends = {}
    BY <1>3, <1>4, <2>1
  <2>2. CASE ends # {}
    <3>1. ends \subseteq Nat /\ ends \subseteq 1 .. Len(queue)
      BY <1>4
    <3>2. \E i \in ends : \A j \in ends : i <= j
      BY <2>2, <3>1, LeastOf
    <3>3. cut = CHOOSE i \in ends : \A j \in ends : i <= j
      BY <1>3, <2>2
    <3> HIDE DEF ends
    <3>4. cut \in ends
      BY <3>2, <3>3
    <3> QED
      BY <1>4, <3>1, <3>4
  <2> QED
    BY <2>1, <2>2
<1>6. all = (SubSeq(queue, 1, cut - 1) \o notices) \o SubSeq(queue, cut, Len(queue))
  <2>1. all = (SubSeq(queue, 1, first - 1) \o notices) \o SubSeq(queue, first, Len(queue))
    BY <1>1 DEF Flushed
  <2> HIDE DEF first, ends
  <2> QED
    BY <1>3, <2>1
<1> HIDE DEF first, ends, M
<1>7. PICK a, b, c : a = SubSeq(queue, 1, cut - 1) /\ c = SubSeq(queue, cut, Len(queue)) /\ b = a \o notices
  OBVIOUS
<1>8. \A i \in 1 .. Len(queue) : queue[i] \in M
  BY <1>4
<1>9. a \in Seq(M)
  <2>1. 1 \in Int /\ cut - 1 \in Int /\ \A i \in 1 .. cut - 1 : queue[i] \in M
    BY <1>4, <1>5, <1>8
  <2> QED
    BY <1>7, <2>1, SubSeqProperties
<1>10. c \in Seq(M)
  <2>1. cut \in Int /\ Len(queue) \in Int /\ \A i \in cut .. Len(queue) : queue[i] \in M
    BY <1>4, <1>5, <1>8
  <2> QED
    BY <1>7, <2>1, SubSeqProperties
<1>11. b \in Seq(M)
  BY <1>2, <1>7, <1>9
<1>12. b \o c \in Seq(M)
  BY <1>10, <1>11
<1> QED
  BY <1>6, <1>7, <1>12 DEF M

\* What waits for the connection.
LEMMA EnqueueTold ==
  ASSUME ActivityAssumption, emitted' \in Nat, MessagesOf(emitted) \subseteq MessagesOf(emitted'), 1 .. emitted \subseteq 1 .. emitted',
         QueueTold, NEW m \in MessagesOf(emitted'), Enqueue(m)
  PROVE  QueueTold'
<1> DEFINE M == MessagesOf(emitted')
           all == Append(queue, m)
<1>1. queue \in Seq(MessagesOf(emitted)) /\ Len(queue) <= MaxQueue /\ IsFiniteSet(overflow)
      /\ overflow \subseteq {o \in OverflowOf : o.of \subseteq 1 .. emitted}
  BY DEF QueueTold
<1>2. queue \in Seq(M)
  <2>1. \A i \in 1 .. Len(queue) : queue[i] \in M
    BY <1>1
  <2> HIDE DEF M
  <2> QED
    BY <1>1, <2>1
<1>3. overflow \subseteq {o \in OverflowOf : o.of \subseteq 1 .. emitted'}
  BY <1>1
<1>4. /\ all \in Seq(M) /\ Len(all) = Len(queue) + 1 /\ Len(queue) \in Nat
      /\ DOMAIN all = 1 .. Len(queue) + 1
      /\ \A i \in DOMAIN all : all[i] \in M
  <2> HIDE DEF M
  <2>1. m \in M
    BY DEF M
  <2> QED
    BY <1>2, <2>1
<1> HIDE DEF all
<1>5. CASE ~Overfull(all)
  <2>1. queue' = all /\ overflow' = overflow
    BY <1>5 DEF Enqueue, all
  <2>2. Len(all) <= MaxQueue
    BY <1>4, <1>5 DEF Overfull, ActivityAssumption
  <2> QED
    BY <1>1, <1>3, <1>4, <2>1, <2>2 DEF QueueTold
<1>6. CASE Overfull(all)
  <2> DEFINE plain == {i \in DOMAIN all : all[i].type \in {"event", "loss"}}
             first == IF plain = {} THEN 1 ELSE CHOOSE i \in plain : \A j \in plain : i <= j
  <2>1. /\ queue' = RemoveAt(all, first)
        /\ overflow' = overflow \cup {[kind |-> all[first].kind, of |-> all[first].of]}
    BY <1>6 DEF Enqueue, all
  <2>2. PICK out : out = first
    OBVIOUS
  <2>3. out \in DOMAIN all
    <3>1. CASE plain = {}
      BY <1>4, <2>2, <3>1
    <3>2. CASE plain # {}
      <4>1. plain \subseteq Nat
        BY <1>4
      <4>2. \E i \in plain : \A j \in plain : i <= j
        BY <3>2, <4>1, LeastOf
      <4>3. out = CHOOSE i \in plain : \A j \in plain : i <= j
        BY <2>2, <3>2
      <4>4. plain \subseteq DOMAIN all
        OBVIOUS
      <4> HIDE DEF plain
      <4> QED
        BY <4>2, <4>3, <4>4
    <3> QED
      BY <3>1, <3>2
  <2> HIDE DEF plain, first
  <2>4. PICK r, x : r = queue' /\ x = [kind |-> all[out].kind, of |-> all[out].of]
    OBVIOUS
  <2>5. IsCut(r, all, out) /\ overflow' = overflow \cup {x}
    BY <2>1, <2>2, <2>4 DEF IsCut
  <2>6. r \in Seq(M) /\ Len(r) = Len(all) - 1
    <3> HIDE DEF M
    <3>1. all \in Seq(M)
      BY <1>4
    <3> QED
      BY <2>3, <2>5, <3>1, CutIs
  <2>7. all[out] \in M
    BY <1>4, <2>3
  <2>8. x \in {o \in OverflowOf : o.of \subseteq 1 .. emitted'}
    BY <2>4, <2>7 DEF MessagesOf, ActivityMessages, OverflowOf
  <2>9. IsFiniteSet(overflow')
    BY <1>1, <2>5, FS_AddElement
  <2>10. Len(r) <= MaxQueue
    BY <1>1, <1>4, <2>6 DEF ActivityAssumption
  <2> QED
    BY <1>3, <2>4, <2>5, <2>6, <2>8, <2>9, <2>10 DEF QueueTold
<1> QED
  BY <1>5, <1>6

LEMMA SendTold ==
  ASSUME ActivityAssumption, emitted' \in Nat, MessagesOf(emitted) \subseteq MessagesOf(emitted'), 1 .. emitted \subseteq 1 .. emitted',
         QueueTold, StreamTold(stream, emitted'), NEW m \in MessagesOf(emitted'), Send(m)
  PROVE  QueueTold' /\ StreamTold(stream', emitted')
<1>1. CASE online
  <2>1. stream' = Deliver(stream, m) /\ queue' = queue /\ overflow' = overflow
    BY <1>1 DEF Send
  <2>2. StreamTold(stream', emitted')
    <3>1. PICK e, s, t : e = emitted' /\ s = stream /\ t = stream'
      OBVIOUS
    <3> QED
      BY <2>1, <3>1, DeliverTold
  <2>3. QueueTold'
    <3>1. queue \in Seq(MessagesOf(emitted)) /\ Len(queue) <= MaxQueue /\ IsFiniteSet(overflow)
          /\ overflow \subseteq {o \in OverflowOf : o.of \subseteq 1 .. emitted}
      BY DEF QueueTold
    <3>2. queue \in Seq(MessagesOf(emitted'))
      BY <3>1
    <3> QED
      BY <2>1, <3>1, <3>2 DEF QueueTold
  <2> QED
    BY <2>2, <2>3
<1>2. CASE ~online
  <2>1. Enqueue(m) /\ stream' = stream
    BY <1>2 DEF Send
  <2> QED
    BY <2>1, EnqueueTold
<1> QED
  BY <1>1, <1>2

LEMMA ActivityTypesStep ==
  ASSUME ActivityAssumption, ActivityTypes, [ActivityNext]_activityVars
  PROVE  ActivityTypes'
<1>a. /\ emitted \in Nat /\ monitoring \in BOOLEAN /\ online \in BOOLEAN
      /\ QueueTold /\ StreamTold(stream, emitted) /\ StreamTold(fileStream, emitted)
      /\ digest.of \subseteq 1 .. emitted /\ digest.due \subseteq 1 .. emitted
      /\ told \subseteq 1 .. emitted /\ silent \subseteq 1 .. emitted
  BY DEF ActivityTypes
<1>b. NoDigest.of = {} /\ NoDigest.due = {}
  BY DEF NoDigest
<1>c. QueueTold = (/\ queue \in Seq(MessagesOf(emitted)) /\ Len(queue) <= MaxQueue
                   /\ overflow \subseteq {o \in OverflowOf : o.of \subseteq 1 .. emitted} /\ IsFiniteSet(overflow))
  BY DEF QueueTold
<1>d. ASSUME UNCHANGED <<emitted, queue, overflow>>
      PROVE  QueueTold'
  BY <1>a, <1>d DEF QueueTold
<1>1. ASSUME NEW kind \in ActivityKinds, Observe(kind)
      PROVE  ActivityTypes'
  <2>1. PICK m, e : m = StreamMessage("event", kind, {emitted + 1}) /\ e = emitted + 1
    OBVIOUS
  <2>2. /\ emitted' = e /\ Send(m) /\ e \in Nat
        /\ UNCHANGED <<monitoring, online, fileStream, digest, told, silent>>
    BY <1>1, <1>a, <2>1 DEF Observe
  <2>3. 1 .. emitted \subseteq 1 .. e /\ MessagesOf(emitted) \subseteq MessagesOf(e)
    BY <1>a, <2>1 DEF MessagesOf
  <2>4. m \in MessagesOf(e)
    <3>1. m \in ActivityMessages /\ m.of = {emitted + 1}
      BY <1>a, <2>1 DEF StreamMessage, ActivityMessages
    <3>2. {emitted + 1} \subseteq 1 .. e
      BY <1>a, <2>1
    <3> QED
      BY <3>1, <3>2 DEF MessagesOf
  <2>5. StreamTold(stream, e) /\ StreamTold(fileStream, e)
    BY <1>a, <2>3 DEF StreamTold
  <2>6. QueueTold' /\ StreamTold(stream', e)
    BY <1>a, <2>2, <2>3, <2>4, <2>5, SendTold
  <2>7. /\ digest.of \subseteq 1 .. e /\ digest.due \subseteq 1 .. e
        /\ told \subseteq 1 .. e /\ silent \subseteq 1 .. e
    BY <1>a, <2>3
  <2> QED
    BY <1>a, <2>2, <2>5, <2>6, <2>7 DEF ActivityTypes
<1>2. CASE StopMonitoring
  <2>1. PICK m : m = Stopped
    OBVIOUS
  <2>2. /\ emitted' = emitted /\ monitoring' = FALSE /\ Send(m)
        /\ UNCHANGED <<online, fileStream, digest, told, silent>>
    BY <1>2, <2>1 DEF StopMonitoring
  <2>3. m \in MessagesOf(emitted)
    BY <2>1 DEF Stopped, StreamMessage, SomeKind, ActivityMessages, MessagesOf, ActivityAssumption
  <2>4. QueueTold' /\ StreamTold(stream', emitted')
    BY <1>a, <2>2, <2>3, SendTold
  <2> QED
    BY <1>a, <2>2, <2>4 DEF ActivityTypes
<1>3. CASE Disconnected \/ SaveStream
  <2>1. UNCHANGED <<monitoring, emitted, queue, overflow, stream, digest, told, silent>>
    BY <1>3 DEF Disconnected, SaveStream
  <2>2. online' \in BOOLEAN /\ fileStream' \in {stream, fileStream}
    BY <1>3, <1>a DEF Disconnected, SaveStream
  <2>3. QueueTold'
    BY <1>d, <2>1
  <2> QED
    BY <1>a, <2>1, <2>2, <2>3 DEF ActivityTypes
<1>4. CASE Reconnected
  <2>1. PICK t, messages : t = stream' /\ messages = Flushed
    OBVIOUS
  <2>2. /\ online' = TRUE /\ queue' = <<>> /\ overflow' = {} /\ t = DeliverAll(messages)
        /\ UNCHANGED <<monitoring, emitted, fileStream, digest, told, silent>>
    BY <1>4, <2>1 DEF Reconnected
  <2>3. messages \in Seq(MessagesOf(emitted))
    BY <1>a, <2>1, FlushedTold
  <2>4. StreamTold(t, emitted)
    BY <1>a, <2>2, <2>3, AllTold
  <2>5. QueueTold'
    <3>1. <<>> \in Seq(MessagesOf(emitted)) /\ Len(<<>>) = 0 /\ 0 <= MaxQueue
      BY EmptySeq DEF ActivityAssumption
    <3> QED
      BY <2>2, <3>1, FS_EmptySet DEF QueueTold
  <2> QED
    BY <1>a, <2>1, <2>2, <2>4, <2>5 DEF ActivityTypes
<1>5. CASE RestartDaemon
  <2>1. /\ stream' = [fileStream EXCEPT !.active = FALSE] /\ online' = FALSE /\ digest' = NoDigest
        /\ UNCHANGED <<monitoring, emitted, queue, overflow, fileStream, told, silent>>
    BY <1>5 DEF RestartDaemon
  <2>2. PICK s, t : s = fileStream /\ t = stream'
    OBVIOUS
  <2>3. s \in Streams /\ t = [s EXCEPT !.active = FALSE]
    BY <1>a, <2>1, <2>2 DEF StreamTold, Numbered
  <2>4. t \in Streams /\ t.events = s.events /\ t.sequence = s.sequence
    BY <2>3 DEF Streams
  <2>5. StreamTold(t, emitted)
    BY <1>a, <2>2, <2>4 DEF StreamTold, Numbered
  <2>6. QueueTold'
    BY <1>d, <2>1
  <2> QED
    BY <1>a, <1>b, <2>1, <2>2, <2>5, <2>6 DEF ActivityTypes
<1>6. CASE StartActivity
  <2>1. PICK t, m : t = stream' /\ m = Started
    OBVIOUS
  <2>2. /\ monitoring' = TRUE /\ t = Deliver(stream, m) /\ told' = 1 .. emitted
        /\ UNCHANGED <<emitted, online, queue, overflow, fileStream, digest, silent>>
    BY <1>6, <2>1 DEF StartActivity
  <2>3. m \in MessagesOf(emitted)
    BY <2>1 DEF Started, StreamMessage, SomeKind, ActivityMessages, MessagesOf, ActivityAssumption
  <2>4. StreamTold(t, emitted)
    BY <1>a, <2>2, <2>3, DeliverTold
  <2>5. QueueTold'
    BY <1>d, <2>2
  <2> QED
    BY <1>a, <2>1, <2>2, <2>4, <2>5 DEF ActivityTypes
<1>7. CASE ReadActivity
  <2>1. UNCHANGED <<monitoring, emitted, online, queue, overflow, stream, fileStream, told, silent>>
    BY <1>7 DEF ReadActivity
  <2>2. PICK read : /\ read \subseteq DOMAIN stream.events
                    /\ digest'.of = UNION {stream.events[i].of : i \in {j \in read : ~stream.events[j].loss}}
                    /\ digest'.due = (1 .. emitted) \ InFlight
    <3> DEFINE after == IF cursor.id # stream.id \/ cursor.sequence > stream.sequence THEN 0 ELSE cursor.sequence
               read == {i \in DOMAIN stream.events : stream.events[i].sequence > after}
    <3>1. digest' = [read |-> TRUE,
                     next |-> [id |-> stream.id, sequence |-> stream.sequence],
                     of |-> UNION {stream.events[i].of : i \in {j \in read : ~stream.events[j].loss}},
                     due |-> (1 .. emitted) \ InFlight,
                     status |-> CursorStatus(read, after)]
      BY <1>7 DEF ReadActivity
    <3>2. read \subseteq DOMAIN stream.events
      OBVIOUS
    <3> HIDE DEF read, after
    <3> QED
      BY <3>1, <3>2
  <2>3. digest'.of \subseteq 1 .. emitted
    BY <1>a, <2>2 DEF StreamTold
  <2>4. QueueTold'
    BY <1>d, <2>1
  <2> QED
    BY <1>a, <2>1, <2>2, <2>3, <2>4 DEF ActivityTypes
<1>8. ASSUME NEW status \in {"completed", "failed"}, EndRun(status)
      PROVE  ActivityTypes'
  <2>1. /\ digest' = NoDigest
        /\ UNCHANGED <<monitoring, emitted, online, queue, overflow, stream, fileStream>>
    BY <1>8 DEF EndRun
  <2>2. told' \subseteq told \cup digest.of \cup digest.due
    BY <1>8 DEF EndRun
  <2>3. silent' \subseteq silent \cup digest.due
    BY <1>8 DEF EndRun
  <2>4. QueueTold'
    BY <1>d, <2>1
  <2> QED
    BY <1>a, <1>b, <2>1, <2>2, <2>3, <2>4 DEF ActivityTypes
<1>9. CASE UNCHANGED activityVars
  <2>1. QueueTold'
    BY <1>9, <1>d DEF activityVars
  <2> QED
    BY <1>9, <1>a, <2>1 DEF activityVars, ActivityTypes
<1> QED
  BY <1>1, <1>2, <1>3, <1>4, <1>5, <1>6, <1>7, <1>8, <1>9 DEF ActivityNext

LEMMA ActivityTypesStart ==
  ASSUME ActivityAssumption, ActivityInit
  PROVE  ActivityTypes
<1>1. /\ emitted = 0 /\ queue = <<>> /\ overflow = {} /\ stream = NoStream /\ fileStream = NoStream
      /\ digest = NoDigest /\ told = {} /\ silent = {} /\ monitoring = FALSE /\ online = TRUE
  BY DEF ActivityInit
<1>2. NoStream.events = <<>> /\ NoStream \in Streams
  <2>1. PICK s : s = NewStream(0)
    OBVIOUS
  <2>2. s \in Streams /\ s.events = <<>>
    BY <2>1 DEF NewStream, Streams
  <2>3. NoStream = [s EXCEPT !.active = FALSE]
    BY <2>1 DEF NoStream
  <2> QED
    BY <2>2, <2>3 DEF Streams
<1>3. StreamTold(NoStream, emitted)
  <2>1. \A i \in DOMAIN NoStream.events : FALSE
    BY <1>2
  <2> QED
    BY <1>2, <2>1 DEF StreamTold, Numbered
<1>4. QueueTold
  <2>1. <<>> \in Seq(MessagesOf(emitted)) /\ Len(<<>>) = 0 /\ 0 <= MaxQueue
    BY EmptySeq DEF ActivityAssumption
  <2> QED
    BY <1>1, <2>1, FS_EmptySet DEF QueueTold
<1>5. digest.of = {} /\ digest.due = {}
  BY <1>1 DEF NoDigest
<1>6. emitted \in Nat
  BY <1>1
<1>7. monitoring \in BOOLEAN /\ online \in BOOLEAN
  BY <1>1, Zenon
<1> QED
  BY <1>1, <1>3, <1>4, <1>5, <1>6, <1>7 DEF ActivityTypes

LEMMA ActivityTypesHold ==
  ASSUME ActivityTypes
  PROVE  ActivityTypeOK
BY DEF ActivityTypes, ActivityTypeOK, QueueTold, StreamTold, Numbered

\* The queue keeps to its limit and the events of a stream to its numbers, and a
\* run is told only of what was observed, restarts of the daemon included.
THEOREM ActivityTyping == ActivitySpec => []ActivityTypeOK
<1>1. ActivityInit => ActivityTypes
  BY ActivityTypesStart, ActivityAssumption
<1>2. ActivityTypes /\ [ActivityNext]_activityVars => ActivityTypes'
  BY ActivityTypesStep, ActivityAssumption
<1>3. ActivityTypes => ActivityTypeOK
  BY ActivityTypesHold
<1> QED
  BY <1>1, <1>2, <1>3, PTL DEF ActivitySpec

=============================================================================
