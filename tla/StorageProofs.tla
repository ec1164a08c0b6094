---------------------------- MODULE StorageProofs ----------------------------
(***************************************************************************)
(* Theorems about the two components that live by what they have stored,   *)
(* for every value of their constants: StateStore, the daemon's state      *)
(* file, and TargetSelection, the selected tab in the extension's storage. *)
(***************************************************************************)
EXTENDS StateStore, TargetSelection, SequenceTheorems, TLAPS

-----------------------------------------------------------------------------
(* StateStore *)

\* The limit keeps a list of events within its length, and loses at most the
\* oldest event.
LEMMA LatestKeeps ==
  ASSUME StoreAssumption, NEW old \in Seq(Events), Len(old) <= MaxEvents, NEW e \in Events,
         NEW all, all = Append(old, e), NEW new, new = Latest(all)
  PROVE  /\ new \in Seq(Events) /\ Len(new) <= MaxEvents
         /\ \A i \in DOMAIN all :
              \/ \E j \in DOMAIN new : new[j] = all[i]
              \/ Len(all) > MaxEvents /\ all[i] = Head(all)
<1>1. all \in Seq(Events) /\ Len(all) = Len(old) + 1 /\ all # <<>>
  OBVIOUS
<1>2. CASE Len(all) <= MaxEvents
  BY <1>1, <1>2 DEF Latest, StoreAssumption
<1>3. CASE Len(all) > MaxEvents
  <2>1. new = Tail(all) /\ new \in Seq(Events) /\ Len(new) = Len(all) - 1
    BY <1>1, <1>3 DEF Latest
  <2>2. \A i \in DOMAIN all : i # 1 => i - 1 \in DOMAIN new /\ new[i - 1] = all[i]
    BY <1>1, <2>1
  <2>3. \A i \in DOMAIN all : i = 1 => all[i] = Head(all)
    BY <1>1
  <2>4. Len(new) <= MaxEvents
    BY <1>1, <2>1 DEF StoreAssumption
  <2> QED
    BY <1>3, <2>1, <2>2, <2>3, <2>4
<1>4. Len(all) \in Nat /\ MaxEvents \in Nat
  BY <1>1 DEF StoreAssumption
<1> QED
  BY <1>2, <1>3, <1>4

\* An appended event is in memory, and no other leaves it but for the limit.
LEMMA AppendKeeps ==
  ASSUME StoreAssumption, TypeOK, NEW e \in Events, AppendAudit(e)
  PROVE  /\ memory' \in Contents /\ Len(memory'.events) <= MaxEvents
         /\ dropped \subseteq dropped' /\ dropped' \subseteq Events
         /\ memory'.browser = memory.browser
         /\ \A x \in Events : Holds(memory, x) => Holds(memory', x) \/ x \in dropped'
         /\ Holds(memory', e) \/ e \in dropped'
<1> DEFINE all == Append(memory.events, e)
           new == Latest(all)
<1>1. memory.events \in Seq(Events) /\ memory.browser \in Nat /\ Len(memory.events) <= MaxEvents
  BY DEF TypeOK, Contents
<1>2. /\ new \in Seq(Events) /\ Len(new) <= MaxEvents
      /\ \A i \in DOMAIN all : \/ \E j \in DOMAIN new : new[j] = all[i]
                               \/ Len(all) > MaxEvents /\ all[i] = Head(all)
  BY <1>1, LatestKeeps
<1>3. memory' = [browser |-> memory.browser, events |-> new]
  BY <1>1 DEF AppendAudit, TypeOK, Contents
<1>4. dropped' = IF Len(all) > MaxEvents THEN dropped \cup {Head(all)} ELSE dropped
  BY DEF AppendAudit
<1>5. \A i \in DOMAIN all : Holds(memory', all[i]) \/ all[i] \in dropped'
  BY <1>2, <1>3, <1>4 DEF Holds
<1>6. all[Len(all)] = e /\ Len(all) \in DOMAIN all
  BY <1>1
<1>7. \A i \in DOMAIN memory.events : i \in DOMAIN all /\ all[i] = memory.events[i]
  BY <1>1
<1>8. dropped \subseteq dropped' /\ dropped' \subseteq Events
  <2>1. all \in Seq(Events) /\ Len(all) = Len(memory.events) + 1
    BY <1>1
  <2>2. Head(all) \in Events
    BY <1>1, <2>1
  <2> QED
    BY <1>4, <2>2 DEF TypeOK
<1>9. memory' \in Contents /\ Len(memory'.events) <= MaxEvents /\ memory'.browser = memory.browser
  BY <1>1, <1>2, <1>3 DEF Contents
<1>10. \A x \in Events : Holds(memory, x) => Holds(memory', x) \/ x \in dropped'
  <2> SUFFICES ASSUME NEW x \in Events, NEW i \in DOMAIN memory.events, memory.events[i] = x
               PROVE  Holds(memory', x) \/ x \in dropped'
    BY DEF Holds
  <2> QED
    BY <1>5, <1>7
<1>11. Holds(memory', e) \/ e \in dropped'
  BY <1>5, <1>6
<1> QED
  BY <1>8, <1>9, <1>10, <1>11

LEMMA EmptyTyped == Empty \in Contents /\ Len(Empty.events) = 0
BY DEF Empty, Contents

\* A further call of flush().
LEMMA IssueTyped ==
  ASSUME StoreAssumption, TypeOK, Issue
  PROVE  /\ issued + 1 \in Flushes /\ issued' \in 0 .. MaxFlushes /\ issued' = issued + 1
         /\ stage' \in [Flushes -> {"none", "waiting", "writing", "renamed", "saved", "failed"}]
         /\ \A n \in Flushes : stage'[n] = "none" <=> n > issued'
<1>1. issued \in Nat /\ MaxFlushes \in Nat /\ issued < MaxFlushes
  BY DEF TypeOK, Issue, StoreAssumption
<1>2. issued + 1 \in Flushes /\ issued' \in 0 .. MaxFlushes /\ issued' = issued + 1
  BY <1>1 DEF Issue, Flushes
<1>3. stage' \in [Flushes -> {"none", "waiting", "writing", "renamed", "saved", "failed"}]
  BY DEF Issue, TypeOK
<1>4. ASSUME NEW n \in Flushes
      PROVE  stage'[n] = "none" <=> n > issued'
  <2>1. CASE n = issued + 1
    BY <1>1, <1>2, <2>1 DEF Issue, TypeOK
  <2>2. CASE n # issued + 1
    BY <1>1, <1>2, <2>2 DEF Issue, TypeOK, Flushes
  <2> QED
    BY <2>1, <2>2
<1> QED
  BY <1>2, <1>3, <1>4

\* The type invariant is preserved by every step.
LEMMA StepTyped ==
  ASSUME StoreAssumption, TypeOK, [Next]_vars
  PROVE  TypeOK'
<1> USE DEF flushVars
<1>1. CASE ScheduleBrowserState
  <2>1. memory' = [browser |-> memory.browser + 1, events |-> memory.events]
    BY <1>1 DEF ScheduleBrowserState, TypeOK, Contents
  <2>2. memory' \in Contents /\ Len(memory'.events) <= MaxEvents
    BY <2>1 DEF TypeOK, Contents
  <2>3. version' \in Nat
    BY <1>1 DEF ScheduleBrowserState, Change, TypeOK
  <2>5. dirty' \in BOOLEAN /\ timer' \in BOOLEAN /\ stalled' \in BOOLEAN
    BY <1>1 DEF ScheduleBrowserState, Change
  <2>4. UNCHANGED <<flushVars, disk, recorder, flushOf, closed, dropped, failures, crashes>>
    BY <1>1 DEF ScheduleBrowserState
  <2> QED
    BY <2>2, <2>3, <2>4, <2>5 DEF TypeOK
<1>2. CASE TimerFires
  BY <1>2, IssueTyped DEF TimerFires, Issue, TypeOK
<1>3. CASE Close
  BY <1>3, IssueTyped DEF Close, Issue, TypeOK
<1>4. CASE Restart
  <2>1. /\ stage' \in [Flushes -> {"none", "waiting", "writing", "renamed", "saved", "failed"}]
        /\ \A n \in Flushes : stage'[n] = "none" <=> n > issued'
    BY <1>4 DEF Restart, TypeOK
  <2>2. image' \in [Flushes -> Contents] /\ \A n \in Flushes : Len(image'[n].events) <= MaxEvents
    BY <1>4, EmptyTyped DEF Restart, StoreAssumption
  <2>3. recorder' \in [Events -> {"idle", "appended", "flushing", "ended"}]
    BY <1>4 DEF Restart, TypeOK
  <2>4. version' \in Nat /\ crashes' \in Nat /\ seen' \in [Flushes -> Nat]
    BY <1>4 DEF Restart, TypeOK
  <2>6. dirty' \in BOOLEAN /\ timer' \in BOOLEAN /\ closed' \in BOOLEAN /\ stalled' \in BOOLEAN
    BY <1>4 DEF Restart
  <2>5. memory' = disk /\ UNCHANGED <<issued, disk, flushOf, dropped, failures>>
    BY <1>4 DEF Restart
  <2> QED
    BY <2>1, <2>2, <2>3, <2>4, <2>5, <2>6 DEF TypeOK
<1>5. ASSUME NEW e \in Events, AppendAudit(e)
      PROVE  TypeOK'
  <2>1. recorder' \in [Events -> {"idle", "appended", "flushing", "ended"}]
    BY <1>5 DEF AppendAudit, TypeOK
  <2>2. memory' \in Contents /\ Len(memory'.events) <= MaxEvents /\ dropped' \subseteq Events
    BY <1>5, AppendKeeps
  <2>3. version' \in Nat
    BY <1>5 DEF AppendAudit, Change, TypeOK
  <2>5. dirty' \in BOOLEAN /\ timer' \in BOOLEAN /\ stalled' \in BOOLEAN
    BY <1>5 DEF AppendAudit, Change
  <2>4. UNCHANGED <<flushVars, disk, flushOf, closed, failures, crashes>>
    BY <1>5 DEF AppendAudit
  <2> QED
    BY <2>1, <2>2, <2>3, <2>4, <2>5 DEF TypeOK
<1>6. ASSUME NEW e \in Events, RequestFlush(e)
      PROVE  TypeOK'
  <2>1. /\ recorder' \in [Events -> {"idle", "appended", "flushing", "ended"}]
        /\ flushOf' \in [Events -> 0 .. MaxFlushes]
    BY <1>6, IssueTyped DEF RequestFlush, TypeOK, Issue
  <2> QED
    BY <1>6, <2>1, IssueTyped DEF RequestFlush, Issue, TypeOK
<1>7. ASSUME NEW n \in Flushes, SkipFlush(n)
      PROVE  TypeOK'
  BY <1>7 DEF SkipFlush, TypeOK
<1>8. ASSUME NEW n \in Flushes, StartPersist(n)
      PROVE  TypeOK'
  BY <1>8 DEF StartPersist, TypeOK
<1>9. ASSUME NEW n \in Flushes, Rename(n)
      PROVE  TypeOK'
  BY <1>9 DEF Rename, TypeOK
<1>10. ASSUME NEW n \in Flushes, Saved(n)
       PROVE  TypeOK'
  BY <1>10, EmptyTyped DEF Saved, StoreAssumption, TypeOK
<1>11. ASSUME NEW n \in Flushes, PersistFails(n)
       PROVE  TypeOK'
  BY <1>11, EmptyTyped DEF PersistFails, StoreAssumption, TypeOK
<1>12. CASE UNCHANGED vars
  BY <1>12 DEF vars, TypeOK
<1> QED
  BY <1>1, <1>2, <1>3, <1>4, <1>5, <1>6, <1>7, <1>8, <1>9, <1>10, <1>11, <1>12 DEF Next

\* Every variable of the store keeps its type, and the limit of the audit list
\* holds in the memory, in the file and in every image on its way to it.
THEOREM StoreTyped == Spec => []TypeOK
<1>1. Init => TypeOK
  <2> SUFFICES ASSUME Init PROVE TypeOK
    OBVIOUS
  <2>1. \A n \in Flushes : n > issued
    BY StoreAssumption DEF Init, Flushes, StoreAssumption
  <2>2. MaxEvents \in Nat /\ MaxFlushes \in Nat
    BY StoreAssumption DEF StoreAssumption
  <2>3. /\ memory \in Contents /\ Len(memory.events) <= MaxEvents
        /\ disk \in Contents /\ Len(disk.events) <= MaxEvents
        /\ image \in [Flushes -> Contents] /\ \A n \in Flushes : Len(image[n].events) <= MaxEvents
    BY <2>2, EmptyTyped DEF Init
  <2>4. /\ version \in Nat /\ dirty \in BOOLEAN /\ timer \in BOOLEAN /\ closed \in BOOLEAN
        /\ stalled \in BOOLEAN /\ dropped \subseteq Events /\ failures \in Nat /\ crashes \in Nat
    BY DEF Init
  <2>5. /\ issued \in 0 .. MaxFlushes /\ flushOf \in [Events -> 0 .. MaxFlushes]
        /\ recorder \in [Events -> {"idle", "appended", "flushing", "ended"}]
        /\ seen \in [Flushes -> Nat]
    BY <2>2 DEF Init
  <2>6. /\ stage \in [Flushes -> {"none", "waiting", "writing", "renamed", "saved", "failed"}]
        /\ \A n \in Flushes : stage[n] = "none" <=> n > issued
    BY <2>1 DEF Init
  <2> QED
    BY <2>3, <2>4, <2>5, <2>6 DEF TypeOK
<1>2. TypeOK /\ [Next]_vars => TypeOK'
  BY StepTyped, StoreAssumption
<1> QED
  BY <1>1, <1>2, PTL DEF Spec

\* What one content carries from another one it carries from a third.
LEMMA CarriesTransitive ==
  ASSUME NEW a \in Contents, NEW b \in Contents, NEW c \in Contents, Carries(a, b), Carries(b, c)
  PROVE  Carries(a, c)
<1>1. a.browser \in Nat /\ b.browser \in Nat /\ c.browser \in Nat
  BY DEF Contents
<1> QED
  BY <1>1 DEF Carries

LEMMA CarriesItself ==
  ASSUME NEW a \in Contents
  PROVE  Carries(a, a)
<1>1. a.browser \in Nat
  BY DEF Contents
<1> QED
  BY <1>1 DEF Carries

\* Two flushes never have their turn at once.
LEMMA OneTurn ==
  ASSUME StoreAssumption, TypeOK, NEW m \in Flushes, NEW n \in Flushes,
         Pending(m), MyTurn(m), Pending(n), MyTurn(n)
  PROVE  m = n
<1>1. m \in Nat /\ n \in Nat /\ m >= 1 /\ n >= 1
  BY DEF Flushes, StoreAssumption
<1>2. ~(m < n)
  <2> SUFFICES ASSUME m < n PROVE FALSE
    OBVIOUS
  <2>1. m \in 1 .. n - 1
    BY <1>1
  <2> QED
    BY <2>1 DEF MyTurn, Pending, Running
<1>3. ~(n < m)
  <2> SUFFICES ASSUME n < m PROVE FALSE
    OBVIOUS
  <2>1. n \in 1 .. m - 1
    BY <1>1
  <2> QED
    BY <2>1 DEF MyTurn, Pending, Running
<1> QED
  BY <1>1, <1>2, <1>3

\* A further call of flush() disturbs no write.
LEMMA IssueKeeps ==
  ASSUME StoreAssumption, TypeOK, SaveInv, Issue,
         \/ UNCHANGED <<recorder, flushOf>>
         \/ \E e \in Events : /\ recorder[e] = "appended"
                             /\ recorder' = [recorder EXCEPT ![e] = "flushing"]
                             /\ flushOf' = [flushOf EXCEPT ![e] = issued + 1]
  PROVE  SaveInv'
<1>1. /\ issued + 1 \in Flushes /\ issued' = issued + 1
      /\ stage[issued + 1] = "none" /\ stage'[issued + 1] = "waiting"
      /\ \A n \in Flushes : n # issued + 1 => stage'[n] = stage[n]
      /\ issued \in Nat
  <2>1. issued + 1 \in Flushes /\ issued' = issued + 1 /\ issued \in Nat
    BY IssueTyped DEF TypeOK
  <2>2. issued + 1 > issued
    BY <2>1
  <2> QED
    BY <2>1, <2>2 DEF Issue, TypeOK
<1>2. UNCHANGED <<memory, version, dirty, seen, image, disk, dropped>>
  BY DEF Issue
<1>3. \A e \in Events : flushOf'[e] \in {flushOf[e], issued + 1}
  BY DEF TypeOK
<1>4. WriteInv'
  <2> SUFFICES ASSUME NEW n \in Flushes, Running(n)'
               PROVE  /\ MyTurn(n)'
                      /\ (Running(n) /\ stage'[n] = stage[n])
                      /\ \A e \in Events : flushOf'[e] = n => flushOf[e] = n
    BY <1>2 DEF WriteInv, SaveInv, Carries, Holds
  <2>1. n # issued + 1 /\ Running(n) /\ stage'[n] = stage[n]
    BY <1>1 DEF Running
  <2>2. ASSUME NEW m \in 1 .. n - 1
        PROVE  stage'[m] \in {"saved", "failed"}
    <3>1. m \in Flushes
      BY StoreAssumption DEF Flushes, StoreAssumption
    <3>2. stage[m] \in {"saved", "failed"}
      BY <2>1 DEF SaveInv, WriteInv, MyTurn
    <3> QED
      BY <1>1, <3>1, <3>2
  <2> QED
    BY <1>3, <2>1, <2>2 DEF MyTurn
<1>5. EventInv'
  <2> SUFFICES ASSUME NEW e \in Events
               PROVE  /\ flushOf'[e] <= issued'
                      /\ Awaited(e)' => Awaited(e)
                      /\ Acknowledged(e)' => Acknowledged(e)
    BY <1>2 DEF EventInv, SaveInv, Holds
  <2>1. flushOf[e] \in Nat /\ flushOf[e] <= issued
    BY DEF TypeOK, SaveInv, EventInv
  <2>2. CASE flushOf'[e] = flushOf[e] /\ recorder'[e] = recorder[e]
    <3>1. flushOf[e] # 0 => flushOf[e] \in Flushes /\ flushOf[e] # issued + 1
      BY <1>1, <2>1, StoreAssumption DEF Flushes, TypeOK, StoreAssumption
    <3>2. flushOf'[e] <= issued'
      BY <1>1, <2>1, <2>2
    <3> QED
      BY <1>1, <2>2, <3>1, <3>2 DEF Awaited, Acknowledged, Pending, Running
  <2>3. CASE recorder[e] = "appended" /\ flushOf'[e] = issued + 1
    BY <1>1, <2>3 DEF Awaited, Acknowledged
  <2> QED
    BY <2>2, <2>3 DEF TypeOK
<1> QED
  BY <1>2, <1>4, <1>5 DEF SaveInv, CleanIsSaved, Carries, Holds

\* A change leaves the memory ahead of every image and of the file.
LEMMA ChangeKeeps ==
  ASSUME StoreAssumption, TypeOK, SaveInv, Change, memory' \in Contents,
         dropped \subseteq dropped', memory.browser <= memory'.browser,
         \A x \in Events : Holds(memory, x) => Holds(memory', x) \/ x \in dropped',
         UNCHANGED <<flushVars, disk, flushOf>>,
         \A e \in Events : recorder'[e] = "appended" =>
            recorder[e] = "appended" \/ Holds(memory', e) \/ e \in dropped'
  PROVE  SaveInv'
<1>1. version' = version + 1 /\ version \in Nat
  BY DEF Change, TypeOK
<1>2. dirty'
  BY DEF Change
<1>3. UNCHANGED <<issued, stage, seen, image, disk, flushOf>>
  BY DEF flushVars
<1>4. ASSUME NEW c \in Contents, Carries(memory, c)
      PROVE  /\ c.browser <= memory'.browser
             /\ \A e \in Events : Holds(c, e) => Holds(memory', e) \/ e \in dropped'
  <2>1. c.browser \in Nat /\ memory.browser \in Nat /\ memory'.browser \in Nat
    BY DEF Contents, TypeOK
  <2> QED
    BY <1>4, <2>1 DEF Carries
<1>5. Carries(memory, disk)'
  BY <1>3, <1>4 DEF Carries, SaveInv, TypeOK
<1>6. ASSUME NEW n \in Flushes, Running(n)'
      PROVE  /\ MyTurn(n)'
             /\ seen'[n] <= version' /\ (seen'[n] = version' => image'[n] = memory')
             /\ stage'[n] = "renamed" => disk' = image'[n]
             /\ Carries(image[n], disk)' /\ Carries(memory, image[n])'
             /\ \A e \in Events : flushOf'[e] = n => Holds(image'[n], e) \/ e \in dropped'
  <2>1. Running(n) /\ seen[n] \in Nat /\ image[n] \in Contents
    BY <1>3, <1>6 DEF Running, TypeOK
  <2>2. MyTurn(n)'
    BY <1>3, <2>1 DEF MyTurn, SaveInv, WriteInv
  <2>3. seen'[n] <= version' /\ seen'[n] # version'
    BY <1>1, <1>3, <2>1 DEF SaveInv, WriteInv
  <2>4. stage'[n] = "renamed" => disk' = image'[n]
    BY <1>3, <2>1 DEF SaveInv, WriteInv
  <2>5. Carries(image[n], disk)'
    BY <1>3, <2>1 DEF SaveInv, WriteInv, Carries, Holds
  <2>6. Carries(memory, image[n])'
    BY <1>3, <1>4, <2>1 DEF SaveInv, WriteInv, Carries
  <2>7. \A e \in Events : flushOf'[e] = n => Holds(image'[n], e) \/ e \in dropped'
    BY <1>3, <2>1 DEF SaveInv, WriteInv
  <2> QED
    BY <2>2, <2>3, <2>4, <2>5, <2>6, <2>7
<1>7. EventInv'
  <2> SUFFICES ASSUME NEW e \in Events
               PROVE  /\ flushOf'[e] <= issued'
                      /\ Awaited(e)' => Holds(memory', e) \/ e \in dropped'
                      /\ Acknowledged(e)' => Holds(disk', e) \/ e \in dropped'
    BY DEF EventInv
  <2>1. flushOf'[e] <= issued'
    BY <1>3 DEF SaveInv, EventInv
  <2>2. Acknowledged(e)' => Holds(disk', e) \/ e \in dropped'
    BY <1>3 DEF SaveInv, EventInv, Acknowledged
  <2>3. Awaited(e)' => Awaited(e) \/ Holds(memory', e) \/ e \in dropped'
    BY <1>3 DEF Awaited, Pending, Running
  <2>4. Awaited(e) => Holds(memory', e) \/ e \in dropped'
    BY DEF SaveInv, EventInv
  <2> QED
    BY <2>1, <2>2, <2>3, <2>4
<1> QED
  BY <1>2, <1>5, <1>6, <1>7 DEF SaveInv, WriteInv, CleanIsSaved

\* The step of a flush is the step of the only one that has its turn; what it
\* leaves alone keeps its invariant.
LEMMA FlushStepKeeps ==
  ASSUME StoreAssumption, TypeOK, SaveInv, NEW n \in Flushes, MyTurn(n), Pending(n),
         NEW s, s \in {"writing", "renamed", "saved", "failed"},
         stage' = [stage EXCEPT ![n] = s],
         UNCHANGED <<memory, version, issued, recorder, flushOf, dropped>>,
         Carries(memory, disk)', CleanIsSaved',
         s \in {"writing", "renamed"} =>
           /\ dirty'
           /\ seen'[n] <= version /\ (seen'[n] = version => image'[n] = memory)
           /\ s = "renamed" => disk' = image'[n]
           /\ Carries(image[n], disk)' /\ Carries(memory, image[n])'
           /\ \A e \in Events : flushOf[e] = n => Holds(image'[n], e) \/ e \in dropped,
         \A e \in Events : Holds(disk, e) => Holds(disk', e) \/ e \in dropped,
         s = "saved" => \A e \in Events : flushOf[e] = n => Holds(disk', e) \/ e \in dropped
  PROVE  SaveInv'
<1>1. ASSUME NEW m \in Flushes, Running(m)'
      PROVE  m = n /\ s \in {"writing", "renamed"}
  <2>1. CASE m # n
    <3>1. Running(m)
      BY <1>1, <2>1 DEF Running, TypeOK
    <3>2. MyTurn(m)
      BY <3>1 DEF SaveInv, WriteInv
    <3> QED
      BY <2>1, <3>1, <3>2, OneTurn DEF Pending
  <2>2. CASE m = n
    BY <1>1, <2>2 DEF Running, TypeOK
  <2> QED
    BY <2>1, <2>2
<1>2. MyTurn(n)'
  <2>1. ASSUME NEW m \in 1 .. n - 1
        PROVE  stage'[m] \in {"saved", "failed"}
    <3>1. m \in Flushes /\ m # n
      BY StoreAssumption DEF Flushes, StoreAssumption
    <3>2. stage[m] \in {"saved", "failed"}
      BY DEF MyTurn
    <3> QED
      BY <3>1, <3>2 DEF TypeOK
  <2> QED
    BY <2>1 DEF MyTurn
<1>3. stage'[n] = s
  BY DEF TypeOK
<1>4. WriteInv'
  <2> SUFFICES ASSUME NEW m \in Flushes, Running(m)'
               PROVE  /\ MyTurn(m)' /\ dirty'
                      /\ seen'[m] <= version' /\ (seen'[m] = version' => image'[m] = memory')
                      /\ stage'[m] = "renamed" => disk' = image'[m]
                      /\ Carries(image[m], disk)' /\ Carries(memory, image[m])'
                      /\ \A e \in Events : flushOf'[e] = m => Holds(image'[m], e) \/ e \in dropped'
    BY DEF WriteInv
  <2>1. m = n /\ s \in {"writing", "renamed"}
    BY <1>1
  <2> QED
    BY <1>2, <1>3, <2>1
<1>5. EventInv'
  <2> SUFFICES ASSUME NEW e \in Events
               PROVE  /\ flushOf'[e] <= issued'
                      /\ Awaited(e)' => Holds(memory', e) \/ e \in dropped'
                      /\ Acknowledged(e)' => Holds(disk', e) \/ e \in dropped'
    BY DEF EventInv
  <2>1. /\ flushOf[e] <= issued
        /\ Awaited(e) => Holds(memory, e) \/ e \in dropped
        /\ Acknowledged(e) => Holds(disk, e) \/ e \in dropped
    BY DEF SaveInv, EventInv
  <2>2. flushOf[e] # 0 => flushOf[e] \in Flushes
    BY StoreAssumption DEF TypeOK, Flushes, StoreAssumption
  <2>3. Awaited(e)' => Awaited(e)
    <3>1. CASE flushOf[e] = n
      BY <3>1 DEF Awaited, Pending, Running, Flushes, StoreAssumption
    <3>2. CASE flushOf[e] # n
      BY <2>2, <3>2 DEF Awaited, Pending, Running, TypeOK
    <3> QED
      BY <3>1, <3>2
  <2>4. Acknowledged(e)' => Acknowledged(e) \/ (flushOf[e] = n /\ s = "saved")
    BY <1>3, <2>2 DEF Acknowledged, TypeOK
  <2> QED
    BY <2>1, <2>3, <2>4
<1> QED
  BY <1>4, <1>5 DEF SaveInv

\* The invariant of the writes is preserved by every step.
LEMMA StepKeeps ==
  ASSUME StoreAssumption, TypeOK, SaveInv, [Next]_vars
  PROVE  SaveInv'
<1> USE DEF flushVars
<1>1. CASE ScheduleBrowserState
  <2>1. memory' = [browser |-> memory.browser + 1, events |-> memory.events]
    BY <1>1 DEF ScheduleBrowserState, TypeOK, Contents
  <2>2. memory.browser \in Nat /\ memory.events \in Seq(Events)
    BY DEF TypeOK, Contents
  <2>3. memory' \in Contents /\ memory.browser <= memory'.browser
    BY <2>1, <2>2 DEF Contents
  <2>4. \A x \in Events : Holds(memory, x) => Holds(memory', x)
    BY <2>1 DEF Holds
  <2>5. Change /\ UNCHANGED <<flushVars, disk, flushOf, recorder, dropped>>
    BY <1>1 DEF ScheduleBrowserState
  <2> QED
    BY <2>3, <2>4, <2>5, ChangeKeeps
<1>2. CASE TimerFires
  BY <1>2, IssueKeeps DEF TimerFires
<1>3. CASE Close
  BY <1>3, IssueKeeps DEF Close
<1>4. CASE Restart
  <2>1. \A n \in Flushes : stage'[n] \notin {"waiting", "writing", "renamed"}
    BY <1>4 DEF Restart
  <2>2. \A n \in Flushes : stage'[n] = "saved" => stage[n] = "saved"
    BY <1>4 DEF Restart
  <2>3. /\ memory' = disk /\ UNCHANGED <<issued, disk, flushOf, dropped>>
        /\ \A e \in Events : recorder'[e] # "appended"
    BY <1>4 DEF Restart
  <2>4. WriteInv' /\ CleanIsSaved'
    BY <2>1, <2>3 DEF WriteInv, Running, CleanIsSaved
  <2>5. Carries(memory, disk)'
    <3>1. Carries(disk, disk)
      BY CarriesItself DEF TypeOK
    <3> QED
      BY <2>3, <3>1 DEF Carries
  <2>6. ASSUME NEW e \in Events
        PROVE  /\ flushOf'[e] <= issued' /\ ~Awaited(e)'
               /\ Acknowledged(e)' => Holds(disk', e) \/ e \in dropped'
    <3>1. flushOf[e] # 0 => flushOf[e] \in Flushes
      BY DEF TypeOK, Flushes, StoreAssumption
    <3> QED
      BY <2>1, <2>2, <2>3, <3>1 DEF Awaited, Pending, Running, Acknowledged, SaveInv, EventInv
  <2> QED
    BY <2>4, <2>5, <2>6 DEF SaveInv, EventInv
<1>5. ASSUME NEW e \in Events, AppendAudit(e)
      PROVE  SaveInv'
  <2>1. Change /\ UNCHANGED <<flushVars, disk, flushOf>>
    BY <1>5 DEF AppendAudit
  <2>2. /\ memory' \in Contents /\ dropped \subseteq dropped' /\ memory'.browser = memory.browser
        /\ \A x \in Events : Holds(memory, x) => Holds(memory', x) \/ x \in dropped'
        /\ Holds(memory', e) \/ e \in dropped'
    BY <1>5, AppendKeeps
  <2>3. \A x \in Events : recorder'[x] = "appended" => recorder[x] = "appended" \/ x = e
    BY <1>5 DEF AppendAudit, TypeOK
  <2>4. memory.browser <= memory'.browser
    BY <2>2 DEF TypeOK, Contents
  <2>5. \A x \in Events : recorder'[x] = "appended" =>
           recorder[x] = "appended" \/ Holds(memory', x) \/ x \in dropped'
    BY <2>2, <2>3
  <2> HIDE DEF flushVars
  <2> QED
    BY <2>1, <2>2, <2>4, <2>5, ChangeKeeps
<1>6. ASSUME NEW e \in Events, RequestFlush(e)
      PROVE  SaveInv'
  <2>1. /\ Issue /\ recorder[e] = "appended"
        /\ recorder' = [recorder EXCEPT ![e] = "flushing"]
        /\ flushOf' = [flushOf EXCEPT ![e] = issued + 1]
    BY <1>6 DEF RequestFlush
  <2> QED
    BY <2>1, IssueKeeps
<1>7. ASSUME NEW n \in Flushes, SkipFlush(n)
      PROVE  SaveInv'
  <2>1. /\ MyTurn(n) /\ Pending(n) /\ stage' = [stage EXCEPT ![n] = "saved"]
        /\ UNCHANGED <<memory, version, dirty, seen, image, issued, recorder, flushOf, dropped, disk>>
    BY <1>7 DEF SkipFlush, Pending
  <2>2. Carries(memory, disk)' /\ CleanIsSaved'
    BY <2>1 DEF SaveInv, CleanIsSaved, Carries
  <2>3. \A e \in Events : flushOf[e] = n => Holds(disk', e) \/ e \in dropped
    <3>1. disk = memory
      BY <1>7 DEF SkipFlush, SaveInv, CleanIsSaved
    <3>2. \A e \in Events : flushOf[e] = n => Awaited(e)
      BY <2>1 DEF Awaited, Flushes, StoreAssumption
    <3> QED
      BY <2>1, <3>1, <3>2 DEF SaveInv, EventInv
  <2> QED
    BY <2>1, <2>2, <2>3, FlushStepKeeps
<1>8. ASSUME NEW n \in Flushes, StartPersist(n)
      PROVE  SaveInv'
  <2>1. /\ MyTurn(n) /\ Pending(n) /\ stage' = [stage EXCEPT ![n] = "writing"]
        /\ UNCHANGED <<memory, version, dirty, issued, recorder, flushOf, dropped, disk>>
        /\ dirty'
    BY <1>8 DEF StartPersist, Pending
  <2>2. image'[n] = memory /\ seen'[n] = version /\ version \in Nat
    BY <1>8 DEF StartPersist, TypeOK
  <2>3. Carries(memory, disk)' /\ CleanIsSaved'
    BY <2>1 DEF SaveInv, CleanIsSaved, Carries
  <2>4. Carries(image[n], disk)' /\ Carries(memory, image[n])'
    <3>1. Carries(memory, memory)
      BY CarriesItself DEF TypeOK
    <3> QED
      BY <2>1, <2>2, <3>1 DEF SaveInv, Carries
  <2>5. \A e \in Events : flushOf[e] = n => Holds(image'[n], e) \/ e \in dropped
    <3>1. \A e \in Events : flushOf[e] = n => Awaited(e)
      BY <2>1 DEF Awaited, Flushes, StoreAssumption
    <3> QED
      BY <2>2, <3>1 DEF SaveInv, EventInv
  <2>6. seen'[n] <= version /\ (seen'[n] = version => image'[n] = memory)
    BY <2>2
  <2> QED
    BY <2>1, <2>3, <2>4, <2>5, <2>6, FlushStepKeeps
<1>9. ASSUME NEW n \in Flushes, Rename(n)
      PROVE  SaveInv'
  <2>1. /\ Running(n) /\ Pending(n) /\ stage' = [stage EXCEPT ![n] = "renamed"]
        /\ UNCHANGED <<memory, version, dirty, seen, image, issued, recorder, flushOf, dropped>>
        /\ disk' = image[n] /\ image[n] \in Contents
    BY <1>9 DEF Rename, Running, Pending, TypeOK
  <2>2. /\ MyTurn(n) /\ dirty /\ seen[n] <= version /\ (seen[n] = version => image[n] = memory)
        /\ Carries(image[n], disk) /\ Carries(memory, image[n])
        /\ \A e \in Events : flushOf[e] = n => Holds(image[n], e) \/ e \in dropped
    BY <2>1 DEF SaveInv, WriteInv
  <2>3. Carries(memory, disk)' /\ CleanIsSaved' /\ Carries(memory, image[n])'
    BY <2>1, <2>2 DEF CleanIsSaved, Carries
  <2>4. Carries(image[n], disk)'
    <3>1. Carries(image[n], image[n])
      BY <2>1, CarriesItself
    <3> QED
      BY <2>1, <3>1 DEF Carries
  <2>5. \A e \in Events : Holds(disk, e) => Holds(disk', e) \/ e \in dropped
    BY <2>1, <2>2 DEF Carries
  <2> QED
    BY <2>1, <2>2, <2>3, <2>4, <2>5, FlushStepKeeps
<1>10. ASSUME NEW n \in Flushes, Saved(n)
       PROVE  SaveInv'
  <2>1. /\ Running(n) /\ Pending(n) /\ stage' = [stage EXCEPT ![n] = "saved"]
        /\ UNCHANGED <<memory, version, issued, recorder, flushOf, dropped, disk>>
        /\ dirty' = ~Unchanged(n) /\ stage[n] = "renamed"
    BY <1>10 DEF Saved, Running, Pending
  <2>2. /\ MyTurn(n) /\ (seen[n] = version => image[n] = memory) /\ disk = image[n]
        /\ \A e \in Events : flushOf[e] = n => Holds(image[n], e) \/ e \in dropped
    BY <2>1 DEF SaveInv, WriteInv
  <2>3. Carries(memory, disk)'
    BY <2>1 DEF SaveInv, Carries
  <2>4. CleanIsSaved'
    BY <2>1, <2>2 DEF CleanIsSaved, Unchanged
  <2> QED
    BY <2>1, <2>2, <2>3, <2>4, FlushStepKeeps
<1>11. ASSUME NEW n \in Flushes, PersistFails(n)
       PROVE  SaveInv'
  <2>1. /\ Running(n) /\ Pending(n) /\ stage' = [stage EXCEPT ![n] = "failed"]
        /\ UNCHANGED <<memory, version, dirty, issued, recorder, flushOf, dropped, disk>>
    BY <1>11 DEF PersistFails, Running, Pending
  <2>2. MyTurn(n)
    BY <2>1 DEF SaveInv, WriteInv
  <2>3. Carries(memory, disk)' /\ CleanIsSaved'
    BY <2>1 DEF SaveInv, CleanIsSaved, Carries
  <2> QED
    BY <2>1, <2>2, <2>3, FlushStepKeeps
<1>12. CASE UNCHANGED vars
  BY <1>12 DEF vars, SaveInv, WriteInv, CleanIsSaved, EventInv, Awaited, Acknowledged, Pending,
               Running, Carries, Holds, MyTurn
<1> QED
  BY <1>1, <1>2, <1>3, <1>4, <1>5, <1>6, <1>7, <1>8, <1>9, <1>10, <1>11, <1>12 DEF Next

\* Writes are serialised, and each carries the file forward.
THEOREM WritesInOrder == Spec => []SaveInv
<1>1. Init => SaveInv
  <2> SUFFICES ASSUME Init PROVE SaveInv
    OBVIOUS
  <2>1. Carries(memory, disk)
    BY EmptyTyped, CarriesItself DEF Init
  <2>2. WriteInv /\ CleanIsSaved
    BY DEF Init, WriteInv, Running, CleanIsSaved
  <2>3. EventInv
    BY DEF Init, EventInv, Awaited, Acknowledged
  <2> QED
    BY <2>1, <2>2, <2>3 DEF SaveInv
<1>2. TypeOK /\ SaveInv /\ [Next]_vars => SaveInv'
  BY StepKeeps, StoreAssumption
<1> QED
  BY <1>1, <1>2, StoreTyped, PTL DEF Spec

\* An acknowledged audit event is in the file from then on, through failed
\* writes and restarts, until newer events push it out.
THEOREM Durability == Spec => []AcknowledgedIsDurable
<1>1. SaveInv => AcknowledgedIsDurable
  BY DEF SaveInv, EventInv, AcknowledgedIsDurable
<1> QED
  BY <1>1, WritesInOrder, PTL

\* A store that is not dirty is saved.
THEOREM CleanSaved == Spec => []CleanIsSaved
<1>1. SaveInv => CleanIsSaved
  BY DEF SaveInv
<1> QED
  BY <1>1, WritesInOrder, PTL

\* No step replaces the file by an older state.
THEOREM FileMovesForward == Spec => NeverGoesBack
<1>1. ASSUME TypeOK, SaveInv, [Next]_vars
      PROVE  [/\ disk'.browser >= disk.browser
              /\ \A e \in Events : Holds(disk, e) => Holds(disk', e) \/ e \in dropped]_vars
  <2> SUFFICES /\ disk'.browser >= disk.browser
               /\ \A e \in Events : Holds(disk, e) => Holds(disk', e) \/ e \in dropped
    OBVIOUS
  <2>1. CASE disk' = disk
    BY <1>1, <2>1 DEF TypeOK, Contents
  <2>2. ASSUME NEW n \in Flushes, Rename(n)
        PROVE  /\ disk'.browser >= disk.browser
               /\ \A e \in Events : Holds(disk, e) => Holds(disk', e) \/ e \in dropped
    <3>1. disk' = image[n] /\ Carries(image[n], disk)
      BY <1>1, <2>2 DEF Rename, SaveInv, WriteInv, Running
    <3>2. disk.browser \in Nat /\ image[n].browser \in Nat
      BY <1>1 DEF TypeOK, Contents
    <3> QED
      BY <3>1, <3>2 DEF Carries
  <2>3. disk' = disk \/ \E n \in Flushes : Rename(n)
    BY <1>1 DEF Next, vars, flushVars, ScheduleBrowserState, TimerFires, Close, Restart, Issue,
           AppendAudit, RequestFlush, SkipFlush, StartPersist, Saved, PersistFails
  <2> QED
    BY <2>1, <2>2, <2>3
<1>2. TypeOK /\ SaveInv /\ [Next]_vars =>
        [/\ disk'.browser >= disk.browser
         /\ \A e \in Events : Holds(disk, e) => Holds(disk', e) \/ e \in dropped]_vars
  BY <1>1
<1> QED
  BY <1>2, StoreTyped, WritesInOrder, PTL DEF Spec, NeverGoesBack

\* Every step leaves what is unsaved on its way.
LEMMA StepSchedules ==
  ASSUME StoreAssumption, TypeOK, UnsavedIsScheduled, [Next]_vars
  PROVE  UnsavedIsScheduled'
<1>1. CASE ScheduleBrowserState
  BY <1>1 DEF ScheduleBrowserState, Change, UnsavedIsScheduled
<1>2. ASSUME NEW e \in Events, AppendAudit(e)
      PROVE  UnsavedIsScheduled'
  BY <1>2 DEF AppendAudit, Change, UnsavedIsScheduled
<1>3. CASE Issue
  <2>1. issued + 1 \in Flushes /\ stage'[issued + 1] = "waiting"
    BY <1>3, IssueTyped DEF Issue, TypeOK
  <2> QED
    BY <2>1 DEF UnsavedIsScheduled, Pending
<1>4. CASE TimerFires \/ Close \/ \E e \in Events : RequestFlush(e)
  BY <1>3, <1>4 DEF TimerFires, Close, RequestFlush
<1>5. ASSUME NEW n \in Flushes, SkipFlush(n) \/ Saved(n) \/ PersistFails(n)
      PROVE  UnsavedIsScheduled'
  BY <1>5 DEF SkipFlush, Saved, PersistFails, UnsavedIsScheduled
<1>6. ASSUME NEW n \in Flushes, StartPersist(n) \/ Rename(n)
      PROVE  UnsavedIsScheduled'
  <2>1. stage'[n] \in {"writing", "renamed"}
    BY <1>6 DEF StartPersist, Rename, TypeOK
  <2> QED
    BY <2>1 DEF UnsavedIsScheduled, Pending, Running
<1>7. CASE Restart
  BY <1>7 DEF Restart, UnsavedIsScheduled
<1>8. CASE UNCHANGED vars
  BY <1>8 DEF vars, flushVars, UnsavedIsScheduled, Pending, Running
<1> QED
  BY <1>1, <1>2, <1>4, <1>5, <1>6, <1>7, <1>8 DEF Next

\* What is unsaved always has a timer or a flush that will see to it, unless a write
\* has failed after the last change.
THEOREM NothingUnsavedIsForgotten == Spec => []UnsavedIsScheduled
<1>1. Init => UnsavedIsScheduled
  BY DEF Init, UnsavedIsScheduled
<1>2. TypeOK /\ UnsavedIsScheduled /\ [Next]_vars => UnsavedIsScheduled'
  BY StepSchedules, StoreAssumption
<1> QED
  BY <1>1, <1>2, StoreTyped, PTL DEF Spec

-----------------------------------------------------------------------------
(* TargetSelection.  The selection is followed through its stages: at rest  *)
(* it is the user's, a tool that has been lent a tab keeps it or loses it    *)
(* with the page, and what is given back is what was there before.           *)
-----------------------------------------------------------------------------
(* The inductive invariant *)

Stages == {"idle", "remember", "remembered", "query", "get", "lost", "list", "committed", "borrow",
           "borrowing", "lent", "return", "returning", "picked", "tabs", "tabsAsked", "tabsGivenUp", "over"}
JobRecords == [at : Stages, own : TabIds \cup {NoTab}, fresh : BOOLEAN, live : BOOLEAN,
               read : TabIds \cup {NoTab}, tries : Nat]
WriteRecords == [tab : TabIds \cup {NoTab}, mode : {"auto", "manual"}, by : Procedures]

SelectionTyped ==
  /\ usable \subseteq TabIds /\ gone \subseteq TabIds /\ TabIds \ usable \subseteq gone
  /\ front \in TabIds /\ target \in TabIds \cup {NoTab} /\ mode \in {"auto", "manual"}
  /\ chosen \in usable \cup {NoTab} /\ executing \in ToolCalls \cup {NoTab}
  /\ stored \in Selections /\ readTab \in Selections
  /\ before \in [tab : TabIds \cup {NoTab}, mode : {"auto", "manual"}]
  /\ writes \in Seq(WriteRecords) /\ job \in [Procedures -> JobRecords]
  /\ reached \in [Lent -> TabIds \cup {NoTab}] /\ loading \in {"no", "reading", "done"}

\* Where procedures stand: tools take turns.
Resolving == {"query", "get", "lost", "list", "committed"}
Turns ==
  /\ \A e \in TabEvents : job[e].at \in {"idle", "over", "remember", "remembered"} \cup Resolving
  /\ \A j \in ToolCalls : j # executing => job[j].at \in {"idle", "over"}
  /\ executing \in Lent => job[executing].at \in {"borrow", "borrowing", "lent", "return", "returning"} \cup Resolving
  /\ executing \in Picks => job[executing].at \in {"picked", "tabs", "tabsAsked", "tabsGivenUp"}

\* Nothing is resolved and nobody has a selection before the stored one has been read.
BeforeLoad ==
  /\ loading # "done" =>
       /\ target = NoTab /\ mode = "auto" /\ writes = <<>>
       /\ \A j \in Procedures : job[j].at \in {"idle", "over", "remember", "borrow"}
  /\ loading = "reading" => readTab = stored

\* A tool awaits its own writes, and only a tool stays on a tab.
WrittenStages == {"idle", "borrow", "borrowing", "query", "get", "list", "return", "tabs", "tabsAsked"}
Writers ==
  /\ \A j \in ToolCalls : job[j].at \in WrittenStages => Written(j)
  /\ \A i \in DOMAIN writes : writes[i].mode = "manual" => writes[i].by = executing

\* The last write is the selection.
Recorded ==
  /\ mode = "manual" => target \in TabIds
  /\ mode = "manual" => IF writes = <<>> THEN stored.tab = target /\ stored.mode = mode
                        ELSE writes[Len(writes)].tab = target /\ writes[Len(writes)].mode = mode

\* What the user has selected, or a selection by hand whose tab was lost.
Good(tab, m) == IF chosen # NoTab THEN tab = chosen /\ m = "manual" ELSE m = "manual" => tab \in gone

ExecutingAt(stages) == executing # NoTab /\ job[executing].at \in stages
Own == job[executing].own

\* Nobody has changed the selection for the moment.
Resting == executing = NoTab \/ ExecutingAt({"borrow", "borrowing", "tabs", "tabsAsked", "tabsGivenUp"})
AtRest ==
  /\ Good(stored.tab, stored.mode)
  /\ \A i \in DOMAIN writes : Good(writes[i].tab, writes[i].mode)
  /\ Loaded => Good(target, mode)

\* A tool has its tab until that is lost.
Holding == (mode = "manual" /\ target = Own) \/ (mode = "auto" /\ Own \in gone)
Loose(tab, m) == m = "manual" => tab = Own \/ Good(tab, m)
Lending ==
  /\ Good(before.tab, before.mode) /\ Holding
  /\ Loose(stored.tab, stored.mode)
  /\ \A i \in DOMAIN writes : Loose(writes[i].tab, writes[i].mode)
  /\ chosen # NoTab /\ mode = "manual" =>
       stored.mode = "manual" /\ \A i \in DOMAIN writes : writes[i].mode = "manual"
LendingStages == {"lent", "return"} \cup Resolving

\* It has given it back: what is written from there on is the selection of the user.
GivenBack ==
  /\ Good(target, mode)
  /\ \A h, i \in DOMAIN writes : writes[h].by = executing /\ h <= i => Good(writes[i].tab, writes[i].mode)
  /\ Written(executing) => Good(stored.tab, stored.mode) /\ \A i \in DOMAIN writes : Good(writes[i].tab, writes[i].mode)

\* The user selects a tab.
Picking ==
  /\ chosen = NoTab /\ Holding /\ (mode = "manual" => job[executing].fresh)
  /\ \A h, i \in DOMAIN writes : writes[h].by = executing /\ h <= i /\ writes[i].mode = "manual" => writes[i].tab = Own
  /\ Written(executing) => /\ stored.mode = "manual" => stored.tab = Own
                           /\ \A i \in DOMAIN writes : writes[i].mode = "manual" => writes[i].tab = Own

UsersChoice ==
  /\ Resting => AtRest
  /\ ExecutingAt({"borrowing"}) => Good(before.tab, before.mode)
  /\ ExecutingAt(LendingStages) => Lending
  /\ ExecutingAt({"returning"}) => GivenBack
  /\ ExecutingAt({"picked"}) => Picking

\* Where a tool has acted.
Reached ==
  \A j \in Lent : /\ reached[j] \in {NoTab, job[j].own} \/ job[j].own \in gone
                  /\ job[j].at = "idle" => reached[j] = NoTab

\* A tool has its tab whatever became of the user's selection before it: the stored
\* selection has been read by then.
LentHeld ==
  executing \in Lent =>
    /\ Own \in TabIds
    /\ job[executing].at # "borrow" => Loaded
    /\ job[executing].at \in LendingStages => Holding

\* What always holds, and what holds as long as the selection by hand was not passed over.
SelectionBase == SelectionTyped /\ Turns /\ Writers /\ LentHeld /\ Reached
Undisturbed == BeforeLoad /\ Recorded /\ UsersChoice
SelectionKept == SelectionBase /\ (~disturbed => Undisturbed)

\* The case in which everything holds.
SelectionInv ==
  /\ SelectionTyped /\ Turns /\ Writers /\ LentHeld /\ Reached
  /\ BeforeLoad /\ Recorded /\ UsersChoice

\* A procedure that has not started has its type.
LEMMA NotStartedTyped == SelectionAssumption => NotStarted \in JobRecords
BY DEF NotStarted, JobRecords, Stages, SelectionAssumption

\* What a commit that changes the selection does to the writes.
OneMore(w, v, r) ==
  /\ Len(w) \in Nat /\ Len(v) = Len(w) + 1 /\ v # <<>>
  /\ Len(v) \in DOMAIN v /\ v[Len(v)] = r
  /\ \A i \in DOMAIN w : i \in DOMAIN v /\ v[i] = w[i] /\ i \in Nat /\ i < Len(v)
  /\ \A i \in DOMAIN v : i = Len(v) \/ (i \in DOMAIN w /\ v[i] = w[i])

\* Append is one more.
LEMMA AppendIsOneMore ==
  ASSUME NEW S, NEW w \in Seq(S), NEW r \in S
  PROVE  Append(w, r) \in Seq(S) /\ OneMore(w, Append(w, r), r)
<1>1. /\ Append(w, r) \in Seq(S) /\ Len(Append(w, r)) = Len(w) + 1
      /\ \A i \in 1..Len(w) : Append(w, r)[i] = w[i]
      /\ Append(w, r)[Len(w) + 1] = r
  BY AppendProperties
<1>2. Len(w) \in Nat /\ DOMAIN w = 1..Len(w) /\ DOMAIN Append(w, r) = 1..Len(w) + 1
  BY <1>1
<1>3. Append(w, r) # <<>>
  BY AppendProperties
<1> QED
  BY <1>1, <1>2, <1>3 DEF OneMore

\* A commit appends the selection to the writes, or changes nothing but the phase of its
\* procedure.
Repeats(j, tab, m) ==
  /\ target = tab /\ mode = m /\ writes' = writes
  /\ \A i \in Procedures : i # j => job'[i] = job[i]
Records(j, tab, m) ==
  /\ target # tab \/ mode # m
  /\ OneMore(writes, writes', [tab |-> tab, mode |-> m, by |-> j])
LEMMA CommitIs ==
  ASSUME SelectionAssumption, SelectionTyped, NEW j \in Procedures, NEW tab \in TabIds \cup {NoTab},
         NEW m \in {"auto", "manual"}, NEW phase \in Stages, Commit(j, tab, m, phase)
  PROVE  /\ target' = tab /\ mode' = m
         /\ job' \in [Procedures -> JobRecords] /\ writes' \in Seq(WriteRecords)
         /\ job'[j].at = phase /\ job'[j].read = job[j].read /\ job'[j].fresh
         /\ j \in Picks => job'[j].own = tab
         /\ j \notin Picks => job'[j].own = job[j].own
         /\ \A i \in Procedures : i # j => job'[i].at = job[i].at /\ job'[i].own = job[i].own
         /\ Repeats(j, tab, m) \/ Records(j, tab, m)
<1> DEFINE own == IF j \in Picks THEN tab ELSE job[j].own
           mine == [job[j] EXCEPT !.at = phase, !.fresh = TRUE, !.own = IF j \in Picks THEN tab ELSE @]
<1>1. job[j] \in JobRecords /\ own \in TabIds \cup {NoTab}
  BY DEF SelectionTyped, JobRecords
<1>2. mine = [[[job[j] EXCEPT !.at = phase] EXCEPT !.fresh = TRUE] EXCEPT !.own = own]
  BY <1>1 DEF JobRecords
<1>3. /\ mine \in JobRecords /\ mine.at = phase /\ mine.fresh = TRUE /\ mine.own = own
      /\ mine.read = job[j].read
  <2> HIDE DEF own
  <2> QED
    BY <1>1, <1>2 DEF JobRecords
<1> HIDE DEF mine
<1>4. ASSUME Changes(tab, m)
      PROVE  /\ target' = tab /\ mode' = m
             /\ writes' = Append(writes, [tab |-> tab, mode |-> m, by |-> j])
             /\ job' = [i \in Procedures |-> IF i = j THEN mine ELSE [job[i] EXCEPT !.fresh = FALSE]]
  BY <1>4 DEF Commit, mine
<1>5. ASSUME ~Changes(tab, m)
      PROVE  /\ target' = target /\ mode' = mode /\ writes' = writes /\ target = tab /\ mode = m
             /\ job' = [job EXCEPT ![j] = mine]
  BY <1>5 DEF Commit, Changes, mine
<1>6. CASE Changes(tab, m)
  <2>1. ASSUME NEW i \in Procedures, i # j
        PROVE  /\ job'[i] \in JobRecords
               /\ job'[i].at = job[i].at /\ job'[i].own = job[i].own
    <3>1. PICK k \in JobRecords : k = job[i]
      BY DEF SelectionTyped
    <3>2. job'[i] = [k EXCEPT !.fresh = FALSE]
      BY <1>4, <1>6, <2>1, <3>1
    <3>3. [k EXCEPT !.fresh = FALSE] \in JobRecords /\ [k EXCEPT !.fresh = FALSE].at = k.at
          /\ [k EXCEPT !.fresh = FALSE].own = k.own
      BY DEF JobRecords
    <3> QED
      BY <3>1, <3>2, <3>3
  <2>2. job' \in [Procedures -> JobRecords] /\ job'[j] = mine
    <3>1. job'[j] = mine /\ DOMAIN job' = Procedures /\ job' = [i \in Procedures |-> job'[i]]
      BY <1>4, <1>6
    <3> QED
      BY <1>3, <2>1, <3>1
  <2>3. PICK r \in WriteRecords : r = [tab |-> tab, mode |-> m, by |-> j]
    BY DEF WriteRecords
  <2>4. writes \in Seq(WriteRecords) /\ writes' = Append(writes, r)
    BY <1>4, <1>6, <2>3 DEF SelectionTyped
  <2>5. writes' \in Seq(WriteRecords) /\ OneMore(writes, writes', [tab |-> tab, mode |-> m, by |-> j])
    <3>1. Append(writes, r) \in Seq(WriteRecords) /\ OneMore(writes, Append(writes, r), r)
      BY <2>4, AppendIsOneMore
    <3> QED
      BY <2>3, <2>4, <3>1
  <2>6. Records(j, tab, m)
    BY <1>6, <2>5 DEF Records, Changes
  <2> QED
    BY <1>3, <1>4, <1>6, <2>1, <2>2, <2>5, <2>6 DEF own
<1>7. CASE ~Changes(tab, m)
  <2>1. Repeats(j, tab, m) /\ job'[j] = mine /\ job' \in [Procedures -> JobRecords]
    BY <1>3, <1>5, <1>7 DEF SelectionTyped, Repeats
  <2>2. \A i \in Procedures : i # j => job'[i].at = job[i].at /\ job'[i].own = job[i].own
    BY <2>1 DEF Repeats
  <2> QED
    BY <1>3, <1>5, <1>7, <2>1, <2>2 DEF SelectionTyped, own
<1> QED
  BY <1>6, <1>7

\* A procedure goes on at another phase, and nothing else.
Moved(j, phase, own) ==
  /\ job' \in [Procedures -> JobRecords] /\ \A i \in Procedures : i # j => job'[i] = job[i]
  /\ job'[j].at = phase /\ job'[j].own = own
LEMMA Moves ==
  ASSUME SelectionAssumption, SelectionTyped, NEW j \in Procedures, NEW phase \in Stages
  PROVE  /\ Go(j, phase) => Moved(j, phase, job[j].own)
         /\ job' = [job EXCEPT ![j].at = phase, ![j].fresh = TRUE] => Moved(j, phase, job[j].own)
         /\ \A b \in BOOLEAN :
              job' = [job EXCEPT ![j].at = phase, ![j].live = b] => Moved(j, phase, job[j].own)
         /\ job' = [job EXCEPT ![j].at = phase, ![j].tries = @ + 1] => Moved(j, phase, job[j].own)
         /\ \A tab \in TabIds \cup {NoTab} :
              job' = [job EXCEPT ![j].at = phase, ![j].read = tab, ![j].tries = 0]
                => Moved(j, phase, job[j].own)
         /\ \A tab \in TabIds \cup {NoTab} :
              job' = [job EXCEPT ![j].at = phase, ![j].own = tab] => Moved(j, phase, tab)
<1>1. PICK k \in JobRecords : k = job[j]
  BY DEF SelectionTyped
<1>2. ASSUME NEW r \in JobRecords, r.at = phase, job' = [job EXCEPT ![j] = r]
      PROVE  Moved(j, phase, r.own)
  BY <1>2 DEF SelectionTyped, Moved
<1>3. Go(j, phase) => Moved(j, phase, job[j].own)
  <2> DEFINE r == [k EXCEPT !.at = phase]
  <2>1. r \in JobRecords /\ r.at = phase /\ r.own = k.own
    BY DEF JobRecords
  <2>2. Go(j, phase) => job' = [job EXCEPT ![j] = r]
    BY <1>1 DEF Go, SelectionTyped
  <2> HIDE DEF r
  <2> QED
    BY <1>1, <1>2, <2>1, <2>2
<1>4. job' = [job EXCEPT ![j].at = phase, ![j].fresh = TRUE] => Moved(j, phase, job[j].own)
  <2> DEFINE r == [k EXCEPT !.at = phase, !.fresh = TRUE]
  <2>1. r \in JobRecords /\ r.at = phase /\ r.own = k.own
    BY DEF JobRecords
  <2>2. [job EXCEPT ![j].at = phase, ![j].fresh = TRUE] = [job EXCEPT ![j] = r]
    BY <1>1 DEF SelectionTyped
  <2> HIDE DEF r
  <2> QED
    BY <1>1, <1>2, <2>1, <2>2
<1>5. ASSUME NEW b \in BOOLEAN, job' = [job EXCEPT ![j].at = phase, ![j].live = b]
      PROVE  Moved(j, phase, job[j].own)
  <2> DEFINE r == [k EXCEPT !.at = phase, !.live = b]
  <2>1. r \in JobRecords /\ r.at = phase /\ r.own = k.own
    BY DEF JobRecords
  <2>2. [job EXCEPT ![j].at = phase, ![j].live = b] = [job EXCEPT ![j] = r]
    BY <1>1 DEF SelectionTyped
  <2> HIDE DEF r
  <2> QED
    BY <1>1, <1>2, <1>5, <2>1, <2>2
<1>6. job' = [job EXCEPT ![j].at = phase, ![j].tries = @ + 1] => Moved(j, phase, job[j].own)
  <2>0. PICK n \in Nat : n = k.tries + 1
    BY DEF JobRecords
  <2> DEFINE r == [k EXCEPT !.at = phase, !.tries = n]
  <2>1. r \in JobRecords /\ r.at = phase /\ r.own = k.own
    BY DEF JobRecords
  <2>2. [job EXCEPT ![j].at = phase, ![j].tries = @ + 1] = [job EXCEPT ![j] = r]
    BY <1>1, <2>0 DEF SelectionTyped, JobRecords
  <2> HIDE DEF r
  <2> QED
    BY <1>1, <1>2, <2>1, <2>2
<1>7. ASSUME NEW tab \in TabIds \cup {NoTab},
             job' = [job EXCEPT ![j].at = phase, ![j].read = tab, ![j].tries = 0]
      PROVE  Moved(j, phase, job[j].own)
  <2> DEFINE r == [k EXCEPT !.at = phase, !.read = tab, !.tries = 0]
  <2>1. r \in JobRecords /\ r.at = phase /\ r.own = k.own
    BY DEF JobRecords
  <2>2. [job EXCEPT ![j].at = phase, ![j].read = tab, ![j].tries = 0] = [job EXCEPT ![j] = r]
    BY <1>1 DEF SelectionTyped, JobRecords
  <2> HIDE DEF r
  <2> QED
    BY <1>1, <1>2, <1>7, <2>1, <2>2
<1>8. ASSUME NEW tab \in TabIds \cup {NoTab}, job' = [job EXCEPT ![j].at = phase, ![j].own = tab]
      PROVE  Moved(j, phase, tab)
  <2> DEFINE r == [k EXCEPT !.at = phase, !.own = tab]
  <2>1. r \in JobRecords /\ r.at = phase /\ r.own = tab
    BY DEF JobRecords
  <2>2. [job EXCEPT ![j].at = phase, ![j].own = tab] = [job EXCEPT ![j] = r]
    BY <1>1 DEF SelectionTyped, JobRecords
  <2> HIDE DEF r
  <2> QED
    BY <1>1, <1>2, <1>8, <2>1, <2>2
<1> QED
  BY <1>3, <1>4, <1>5, <1>6, <1>7, <1>8

\* A procedure ends, or a tool has come back from its operation.
LEMMA Endings ==
  ASSUME SelectionAssumption, SelectionTyped, NEW j \in Procedures
  PROVE  /\ Ends(j) => Moved(j, "over", job[j].own)
         /\ Returns(j) => Moved(j, "return", job[j].own)
<1>1. PICK k \in JobRecords : k = job[j]
  BY DEF SelectionTyped
<1>2. ASSUME NEW r \in JobRecords, job' = [job EXCEPT ![j] = r]
      PROVE  Moved(j, r.at, r.own)
  BY <1>2 DEF SelectionTyped, Moved
<1> DEFINE over == [NotStarted EXCEPT !.at = "over", !.own = k.own]
           back == [over EXCEPT !.at = "return"]
<1>3. over \in JobRecords /\ over.at = "over" /\ over.own = k.own
  BY NotStartedTyped DEF JobRecords, Stages
<1>4. OverFor(j) = over
  BY <1>1 DEF OverFor
<1> HIDE DEF over
<1>5. back \in JobRecords /\ back.at = "return" /\ back.own = k.own
  BY <1>3 DEF JobRecords, Stages
<1>6. (Ends(j) => job' = [job EXCEPT ![j] = over]) /\ (Returns(j) => job' = [job EXCEPT ![j] = back])
  BY <1>4 DEF Ends, Returns
<1> HIDE DEF back
<1> QED
  BY <1>1, <1>2, <1>3, <1>5, <1>6

\* What the user has selected stays it when a page is lost or shown.
LEMMA GoodStays ==
  ASSUME SelectionTyped, gone \subseteq gone', chosen' = chosen \/ (chosen' = NoTab /\ chosen \in gone'),
         NEW tab, NEW m, Good(tab, m)
  PROVE  Good(tab, m)'
BY DEF Good

-----------------------------------------------------------------------------

\* A step that is not about the selection by hand keeps the invariant when it keeps both
\* of its parts.
LEMMA BothParts ==
  ASSUME SelectionKept, SelectionBase', disturbed' = disturbed, SelectionInv => Undisturbed'
  PROVE  SelectionKept'
BY DEF SelectionKept, SelectionBase, Undisturbed, SelectionInv

\* A procedure that has awaited the load, or is at a stage that comes after it.
Past(j) == Loaded \/ job[j].at \notin {"idle", "over", "remember", "borrow"}
LEMMA PastIsLoaded ==
  ASSUME SelectionInv, NEW j \in Procedures, Past(j)
  PROVE  Loaded
BY DEF SelectionInv, BeforeLoad, Past, Loaded

-----------------------------------------------------------------------------

\* An event moves on without a commit.
LEMMA EventMovesBase ==
  ASSUME SelectionAssumption, SelectionBase, NEW e \in TabEvents, NEW phase, NEW own, Moved(e, phase, own),
         phase \in {"over", "remember", "remembered"} \cup Resolving,
         UNCHANGED <<chromeVars, routingVars, storageVars, toolVars>>
  PROVE  SelectionBase'
<1>1. /\ e \in Procedures /\ executing # e /\ e \notin ToolCalls /\ ToolCalls \subseteq Procedures
      /\ Lent \subseteq ToolCalls /\ Picks \subseteq ToolCalls
  BY DEF Procedures, ToolCalls, SelectionBase, SelectionTyped, SelectionAssumption
<1>2. /\ job' \in [Procedures -> JobRecords] /\ \A i \in Procedures : i # e => job'[i] = job[i]
      /\ job'[e].at = phase
  BY DEF Moved
<1>3. \A i \in ToolCalls : job'[i] = job[i]
  BY <1>1, <1>2
<1>4. SelectionTyped'
  BY <1>2 DEF SelectionBase, SelectionTyped, chromeVars, routingVars, storageVars, toolVars
<1>5. Turns'
  <2>1. \A i \in TabEvents : job'[i].at \in {"idle", "over", "remember", "remembered"} \cup Resolving
    BY <1>2 DEF SelectionBase, Turns, Procedures
  <2> QED
    BY <1>1, <1>3, <2>1 DEF SelectionBase, Turns, toolVars
<1>6. Writers'
  BY <1>3 DEF SelectionBase, Writers, Written, storageVars, toolVars
<1>7. LentHeld'
  BY <1>1, <1>3 DEF SelectionBase, LentHeld, Own, Holding, Loaded, chromeVars, routingVars, toolVars
<1>8. Reached'
  BY <1>1, <1>3 DEF SelectionBase, Reached, chromeVars, toolVars
<1> QED
  BY <1>4, <1>5, <1>6, <1>7, <1>8 DEF SelectionBase
LEMMA EventMovesUsers ==
  ASSUME SelectionAssumption, SelectionInv, NEW e \in TabEvents, NEW phase, NEW own, Moved(e, phase, own),
         phase \in {"over", "remember"} \/ Loaded,
         UNCHANGED <<chromeVars, routingVars, storageVars, toolVars>>
  PROVE  Undisturbed'
<1>1. e \in Procedures /\ e \notin ToolCalls /\ ToolCalls \subseteq Procedures
  BY DEF Procedures, ToolCalls, SelectionAssumption
<1>2. /\ \A i \in Procedures : i # e => job'[i] = job[i]
      /\ job'[e].at = phase
  BY DEF Moved
<1>3. executing # NoTab => job'[executing] = job[executing]
  BY <1>1, <1>2 DEF SelectionInv, SelectionTyped
<1>4. BeforeLoad'
  BY <1>2 DEF SelectionInv, BeforeLoad, Loaded, routingVars, storageVars
<1>5. Recorded'
  BY DEF SelectionInv, Recorded, routingVars, storageVars
<1>6. UsersChoice'
  BY <1>3 DEF SelectionInv, UsersChoice, Resting, AtRest, Lending, GivenBack, Picking, Holding, Loose,
     Own, ExecutingAt, Good, Loaded, Written, chromeVars, routingVars, storageVars, toolVars
<1> QED
  BY <1>4, <1>5, <1>6 DEF Undisturbed
LEMMA EventMoves ==
  ASSUME SelectionAssumption, SelectionKept, NEW e \in TabEvents, NEW phase, NEW own, Moved(e, phase, own),
         phase \in {"over", "remember"} \/ (Past(e) /\ phase \in {"remembered"} \cup Resolving),
         UNCHANGED <<chromeVars, routingVars, storageVars, toolVars, disturbed>>
  PROVE  SelectionKept'
<1>1. SelectionBase'
  BY EventMovesBase DEF SelectionKept
<1>2. SelectionInv => Undisturbed'
  BY EventMovesUsers, PastIsLoaded DEF Procedures
<1> QED
  BY <1>1, <1>2, BothParts

\* An event commits only what follows the foreground, when no usable tab is selected by
\* hand.
LEMMA EventCommitsBase ==
  ASSUME SelectionAssumption, SelectionBase, NEW e \in TabEvents, NEW tab \in TabIds \cup {NoTab},
         NEW m \in {"auto", "manual"}, NEW phase \in {"remembered", "lost", "committed"},
         Commit(e, tab, m, phase),
         m = "manual" => mode = "manual" /\ target = tab,
         mode = "manual" => m = "manual" \/ target \notin usable,
         UNCHANGED <<chromeVars, loading, readTab, stored, toolVars>>
  PROVE  SelectionBase'
<1>1. /\ e \in Procedures /\ executing # e /\ e \notin ToolCalls /\ ToolCalls \subseteq Procedures
      /\ Lent \subseteq ToolCalls /\ Picks \subseteq ToolCalls /\ e \notin Picks
  BY DEF Procedures, ToolCalls, SelectionBase, SelectionTyped, SelectionAssumption
<1>2. /\ target' = tab /\ mode' = m
      /\ job' \in [Procedures -> JobRecords] /\ writes' \in Seq(WriteRecords)
      /\ job'[e].at = phase
      /\ \A i \in Procedures : i # e => job'[i].at = job[i].at /\ job'[i].own = job[i].own
      /\ Repeats(e, tab, m) \/ Records(e, tab, m)
  <2>1. phase \in Stages
    BY DEF Stages
  <2> QED
    BY <1>1, <2>1, CommitIs DEF SelectionBase
<1>3. \A i \in ToolCalls : job'[i].at = job[i].at /\ job'[i].own = job[i].own
  BY <1>1, <1>2
<1>4. SelectionTyped'
  BY <1>2 DEF SelectionBase, SelectionTyped, chromeVars, toolVars
<1>5. Turns'
  <2>1. \A i \in TabEvents : job'[i].at \in {"idle", "over", "remember", "remembered"} \cup Resolving
    BY <1>2 DEF SelectionBase, Turns, Resolving, Procedures
  <2> QED
    BY <1>1, <1>3, <2>1 DEF SelectionBase, Turns, toolVars
<1>6. Writers'
  <2>1. CASE Repeats(e, tab, m)
    BY <1>3, <2>1 DEF SelectionBase, Writers, Written, Repeats, toolVars
  <2>2. CASE Records(e, tab, m)
    <3> DEFINE n == Len(writes')
    <3>1. /\ writes'[n].mode = "auto" /\ writes'[n].by = e
          /\ \A i \in DOMAIN writes' : i = n \/ (i \in DOMAIN writes /\ writes'[i] = writes[i])
      BY <2>2 DEF Records, OneMore
    <3> HIDE DEF n
    <3>2. \A i \in ToolCalls : Written(i) => Written(i)'
      BY <1>1, <3>1 DEF Written
    <3> QED
      BY <1>3, <3>1, <3>2 DEF SelectionBase, Writers, toolVars
  <2> QED
    BY <1>2, <2>1, <2>2
<1>7. LentHeld'
  <2> SUFFICES ASSUME executing' \in Lent
               PROVE  /\ Own' \in TabIds
                      /\ job'[executing'].at # "borrow" => Loaded'
                      /\ job'[executing'].at \in LendingStages => Holding'
    BY DEF LentHeld, LendingStages, Resolving
  <2>1. /\ executing' = executing /\ executing \in Lent /\ Own' = Own /\ job'[executing'].at = job[executing].at
        /\ Own \in TabIds
    BY <1>1, <1>3 DEF SelectionBase, LentHeld, Own, toolVars
  <2>2. ASSUME job[executing].at \in LendingStages
        PROVE  Holding'
    <3>1. Holding
      BY <2>1, <2>2 DEF SelectionBase, LentHeld
    <3>2. mode = "manual" /\ target \notin usable => target \in gone
      BY <2>1, <3>1 DEF Holding, SelectionBase, SelectionTyped
    <3> QED
      BY <1>2, <2>1, <3>1, <3>2 DEF Holding, chromeVars
  <2> QED
    BY <2>1, <2>2 DEF SelectionBase, LentHeld, Loaded
<1>8. Reached'
  BY <1>1, <1>3 DEF SelectionBase, Reached, chromeVars, toolVars
<1> QED
  BY <1>4, <1>5, <1>6, <1>7, <1>8 DEF SelectionBase
LEMMA EventCommitsUsers ==
  ASSUME SelectionAssumption, SelectionInv, NEW e \in TabEvents, NEW tab \in TabIds \cup {NoTab},
         NEW m \in {"auto", "manual"}, NEW phase \in {"remembered", "lost", "committed"},
         Commit(e, tab, m, phase), Loaded,
         m = "manual" => mode = "manual" /\ target = tab,
         mode = "manual" => m = "manual" \/ target \notin usable,
         UNCHANGED <<chromeVars, loading, readTab, stored, toolVars>>
  PROVE  Undisturbed'
<1>1. /\ e \in Procedures /\ executing # e /\ e \notin ToolCalls /\ ToolCalls \subseteq Procedures
      /\ Lent \subseteq ToolCalls /\ Picks \subseteq ToolCalls /\ e \notin Picks
  BY DEF Procedures, ToolCalls, SelectionInv, SelectionTyped, SelectionAssumption
<1>2. /\ target' = tab /\ mode' = m
      /\ job' \in [Procedures -> JobRecords] /\ writes' \in Seq(WriteRecords)
      /\ job'[e].at = phase
      /\ \A i \in Procedures : i # e => job'[i].at = job[i].at /\ job'[i].own = job[i].own
      /\ Repeats(e, tab, m) \/ Records(e, tab, m)
  <2>1. phase \in Stages
    BY DEF Stages
  <2> QED
    BY <1>1, <2>1, CommitIs DEF SelectionInv
<1>3. \A i \in ToolCalls : job'[i].at = job[i].at /\ job'[i].own = job[i].own
  BY <1>1, <1>2
<1>4. executing # NoTab => /\ job'[executing].at = job[executing].at
                           /\ job'[executing].own = job[executing].own /\ executing # e /\ executing \in Procedures
  BY <1>1, <1>3 DEF SelectionInv, SelectionTyped
<1>5. BeforeLoad'
  BY DEF BeforeLoad, Loaded
<1>7. CASE Repeats(e, tab, m)
  <2> USE <1>7 DEF Repeats
  <2>1. Recorded'
    BY <1>2, <1>7 DEF SelectionInv, Recorded, chromeVars, toolVars
  <2>2. executing # NoTab => job'[executing] = job[executing]
    BY <1>4, <1>7
  <2>3. UsersChoice'
    BY <1>2, <1>7, <2>2 DEF SelectionInv, UsersChoice, Resting, AtRest, Lending, GivenBack, Picking, Holding, Loose,
       Own, ExecutingAt, Good, Loaded, Written, chromeVars, toolVars
  <2> QED
    BY <1>5, <2>1, <2>3 DEF Undisturbed
<1>8. CASE Records(e, tab, m)
  <2>0. m = "auto"
    BY <1>8 DEF Records
  <2> DEFINE n == Len(writes')
  <2>1. /\ writes'[n].tab = tab /\ writes'[n].mode = "auto" /\ writes'[n].by = e
        /\ n \in DOMAIN writes' /\ writes' # <<>>
        /\ \A i \in DOMAIN writes' : i = n \/ (i \in DOMAIN writes /\ writes'[i] = writes[i])
        /\ \A i \in DOMAIN writes : i \in DOMAIN writes' /\ writes'[i] = writes[i]
    BY <1>8, <2>0 DEF Records, OneMore
  <2> HIDE DEF n
  <2>3. Recorded'
    BY <1>2, <2>0 DEF Recorded
  <2>4. target \in gone \/ mode = "auto"
    BY <2>0 DEF SelectionInv, SelectionTyped, Writers, Recorded
  <2>5. Good(tab, m) \/ chosen # NoTab
    BY <2>0 DEF Good
  <2>6. Resting => AtRest'
    <3>1. ASSUME Resting
          PROVE  chosen = NoTab
      <4>1. chosen # NoTab => target = chosen /\ mode = "manual" /\ chosen \in usable
        BY <3>1 DEF SelectionInv, SelectionTyped, UsersChoice, AtRest, Good
      <4> QED
        BY <2>0, <4>1
    <3> QED
      BY <1>2, <2>0, <2>1, <3>1 DEF SelectionInv, UsersChoice, AtRest, Good, Loaded, chromeVars, toolVars
  <2>7. ExecutingAt(LendingStages) => Lending'
    BY <1>2, <1>4, <2>0, <2>1, <2>4 DEF SelectionInv, UsersChoice, Lending, Holding, Loose, Own, Good, ExecutingAt,
       chromeVars, toolVars
  <2>8. ExecutingAt({"returning"}) => GivenBack'
    <3>1. ASSUME ExecutingAt({"returning"})
          PROVE  chosen = NoTab
      <4>1. chosen # NoTab => target = chosen /\ mode = "manual" /\ chosen \in usable
        BY <3>1 DEF SelectionInv, SelectionTyped, UsersChoice, GivenBack, Good
      <4> QED
        BY <2>0, <4>1
    <3>2. ASSUME ExecutingAt({"returning"})
          PROVE  Written(executing)' => Written(executing)
      BY <2>1, <3>2 DEF Written, ExecutingAt, chromeVars, toolVars
    <3>3. ASSUME ExecutingAt({"returning"}), NEW h \in DOMAIN writes', NEW i \in DOMAIN writes',
                 writes'[h].by = executing, h <= i
          PROVE  Good(writes[i].tab, writes[i].mode)'
      <4>1. CASE i = n
        BY <2>1, <3>1, <3>3, <4>1 DEF Good, toolVars
      <4>2. CASE i # n
        <5>1. h # n /\ h \in DOMAIN writes /\ writes[h].by = executing /\ i \in DOMAIN writes /\ writes'[i] = writes[i]
          BY <1>8, <2>1, <3>3, <4>2, <1>4 DEF Records, OneMore, n, ExecutingAt
        <5>2. Good(writes[i].tab, writes[i].mode)
          BY <3>3, <5>1 DEF SelectionInv, UsersChoice, GivenBack
        <5> QED
          BY <5>1, <5>2 DEF Good, chromeVars, toolVars
      <4> QED
        BY <4>1, <4>2
    <3>4. ASSUME ExecutingAt({"returning"}), Written(executing)'
          PROVE  /\ Good(stored.tab, stored.mode)'
                 /\ \A i \in DOMAIN writes' : Good(writes[i].tab, writes[i].mode)'
      BY <2>1, <3>1, <3>2, <3>4 DEF SelectionInv, UsersChoice, GivenBack, Good, chromeVars, toolVars
    <3>5. ASSUME ExecutingAt({"returning"}) PROVE Good(target, mode)'
      BY <1>2, <2>0, <3>1, <3>5 DEF Good, toolVars
    <3> QED
      BY <3>3, <3>4, <3>5 DEF GivenBack, toolVars
  <2>9. ExecutingAt({"picked"}) => Picking'
    <3>2. ASSUME ExecutingAt({"picked"})
          PROVE  Written(executing)' => Written(executing)
      BY <2>1, <3>2 DEF Written, ExecutingAt, chromeVars, toolVars
    <3> QED
      BY <1>2, <1>4, <2>0, <2>1, <2>4, <3>2 DEF SelectionInv, UsersChoice, Picking, Holding, Own, ExecutingAt,
         chromeVars, toolVars
  <2>10. UsersChoice'
    <3>1. ExecutingAt({"borrowing"}) => Good(before.tab, before.mode)'
      BY DEF SelectionInv, UsersChoice, Good, chromeVars, toolVars
    <3> QED
      BY <1>4, <2>6, <2>7, <2>8, <2>9, <3>1 DEF UsersChoice, Resting, ExecutingAt, toolVars
  <2> QED
    BY <1>5, <2>3, <2>10 DEF Undisturbed
<1> QED
  BY <1>2, <1>7, <1>8
LEMMA EventCommits ==
  ASSUME SelectionAssumption, SelectionKept, NEW e \in TabEvents, NEW tab \in TabIds \cup {NoTab},
         NEW m \in {"auto", "manual"}, NEW phase \in {"remembered", "lost", "committed"},
         Commit(e, tab, m, phase), Past(e),
         m = "manual" => mode = "manual" /\ target = tab,
         mode = "manual" => m = "manual" \/ target \notin usable,
         UNCHANGED <<chromeVars, loading, readTab, stored, toolVars, disturbed>>
  PROVE  SelectionKept'
<1>1. SelectionBase'
  BY EventCommitsBase DEF SelectionKept
<1>2. SelectionInv => Undisturbed'
  BY EventCommitsUsers, PastIsLoaded DEF Procedures
<1> QED
  BY <1>1, <1>2, BothParts


-----------------------------------------------------------------------------

\* Without a tool, nothing that is written stays on a tab.
LEMMA NothingManual ==
  ASSUME SelectionAssumption, SelectionTyped, Writers, executing = NoTab, NEW i \in DOMAIN writes
  PROVE  writes[i].mode # "manual"
<1>1. writes[i] \in WriteRecords /\ NoTab \notin Procedures
  BY DEF SelectionTyped, SelectionAssumption, Procedures, ToolCalls
<1>2. writes[i].by # executing
  BY <1>1 DEF WriteRecords
<1> QED
  BY <1>2 DEF Writers

\* A tool moves on without a commit.
StagesOf(j) ==
  IF j \in Lent THEN {"borrow", "borrowing", "lent", "return", "returning"} \cup Resolving
                ELSE {"picked", "tabs", "tabsAsked", "tabsGivenUp"}
LEMMA ToolMovesBase ==
  ASSUME SelectionAssumption, SelectionBase, NEW j \in ToolCalls, executing \in {j, NoTab},
         NEW phase, NEW own, Moved(j, phase, own),
         (executing' = j /\ phase \in StagesOf(j)) \/ (executing' = NoTab /\ phase = "over"),
         phase \in WrittenStages \cup {"over"} => Written(j),
         own = job[j].own \/ job[j].at = "idle",
         j \in Lent => /\ own \in TabIds
                       /\ Loaded \/ phase \in {"borrow", "over"}
                       /\ phase \in LendingStages => own = job[j].own /\ executing = j /\ job[j].at \in LendingStages,
         chosen' \in usable \cup {NoTab}, before' \in [tab : TabIds \cup {NoTab}, mode : {"auto", "manual"}],
         \/ reached' = reached
         \/ /\ j \in Lent /\ own = job[j].own
            /\ reached' = [reached EXCEPT ![j] = target] /\ (target = own \/ own \in gone),
         UNCHANGED <<chromeVars, routingVars, storageVars>>
  PROVE  SelectionBase'
<1>1. /\ j \in Procedures /\ j \notin TabEvents /\ ToolCalls \subseteq Procedures /\ NoTab \notin ToolCalls
      /\ Lent \subseteq ToolCalls /\ Picks \subseteq ToolCalls /\ Lent \cap Picks = {} /\ (j \in Lent \/ j \in Picks)
  BY DEF Procedures, ToolCalls, SelectionAssumption
<1>2. /\ job' \in [Procedures -> JobRecords] /\ \A i \in Procedures : i # j => job'[i] = job[i]
      /\ job'[j].at = phase /\ job'[j].own = own /\ phase # "idle"
  BY <1>1 DEF Moved, StagesOf, Resolving
<1>3. reached' \in [Lent -> TabIds \cup {NoTab}]
  BY DEF SelectionBase, SelectionTyped
<1>4. SelectionTyped'
  BY <1>1, <1>2, <1>3 DEF SelectionBase, SelectionTyped, chromeVars, routingVars, storageVars
<1>5. Turns'
  <2>1. \A e \in TabEvents : job'[e] = job[e]
    BY <1>1, <1>2 DEF Procedures
  <2>2. \A i \in ToolCalls : i # j => job'[i] = job[i] /\ job'[i].at \in {"idle", "over"}
    BY <1>1, <1>2 DEF SelectionBase, Turns
  <2>3. /\ executing' \in Lent => job'[executing'].at \in {"borrow", "borrowing", "lent", "return", "returning"} \cup Resolving
        /\ executing' \in Picks => job'[executing'].at \in {"picked", "tabs", "tabsAsked", "tabsGivenUp"}
    BY <1>1, <1>2 DEF StagesOf, SelectionAssumption
  <2>4. \A i \in ToolCalls : i # executing' => job'[i].at \in {"idle", "over"}
    BY <1>2, <2>2
  <2> QED
    BY <2>1, <2>3, <2>4 DEF SelectionBase, Turns
<1>6. Writers'
  <2>1. \A i \in ToolCalls : job'[i].at \in WrittenStages => Written(i)'
    <3>1. \A i \in ToolCalls : i # j => job'[i] = job[i]
      BY <1>1, <1>2
    <3> QED
      BY <1>2, <3>1 DEF SelectionBase, Writers, Written, storageVars
  <2>2. \A i \in DOMAIN writes' : writes'[i].mode = "manual" => writes'[i].by = executing'
    <3>1. CASE executing = NoTab
      BY <3>1, NothingManual DEF SelectionBase, storageVars
    <3>2. CASE executing = j /\ executing' = j
      BY <3>2 DEF SelectionBase, Writers, storageVars
    <3>3. CASE executing = j /\ executing' = NoTab
      <4>1. Written(j)
        BY <1>1, <3>3
      <4> QED
        BY <3>3, <4>1 DEF SelectionBase, Writers, Written, storageVars
    <3> QED
      BY <3>1, <3>2, <3>3
  <2> QED
    BY <2>1, <2>2 DEF Writers
<1>7. LentHeld'
  <2> SUFFICES ASSUME executing' \in Lent
               PROVE  /\ Own' \in TabIds
                      /\ job'[executing'].at # "borrow" => Loaded'
                      /\ job'[executing'].at \in LendingStages => Holding'
    BY DEF LentHeld, LendingStages, Resolving
  <2>1. executing' = j /\ j \in Lent /\ phase # "over" /\ Own' = own /\ job'[executing'].at = phase
    <3>1. executing' = j /\ j \in Lent /\ phase \in StagesOf(j)
      BY <1>1
    <3> QED
      BY <1>2, <3>1 DEF Own, StagesOf, Resolving
  <2>2. ASSUME phase \in LendingStages
        PROVE  Holding'
    <3>1. Holding /\ Own = own
      BY <2>1, <2>2 DEF SelectionBase, LentHeld, Own
    <3> QED
      BY <2>1, <3>1 DEF Holding, chromeVars, routingVars
  <2> QED
    BY <2>1, <2>2 DEF Loaded, routingVars
<1>8. Reached'
  <2>1. ASSUME NEW i \in Lent, i # j
        PROVE  reached'[i] = reached[i] /\ job'[i] = job[i]
    BY <1>1, <1>2, <2>1 DEF SelectionBase, SelectionTyped
  <2>2. j \in Lent => reached'[j] \in {NoTab, own} \/ own \in gone
    BY <1>1 DEF SelectionBase, SelectionTyped, Reached
  <2> QED
    BY <1>2, <2>1, <2>2 DEF SelectionBase, Reached, chromeVars
<1> QED
  BY <1>4, <1>5, <1>6, <1>7, <1>8 DEF SelectionBase
LEMMA ToolMovesUsers ==
  ASSUME SelectionInv, NEW j \in Procedures, NEW phase, NEW own, Moved(j, phase, own),
         Past(j) \/ phase = "borrow",
         UNCHANGED <<chromeVars, routingVars, storageVars>>
  PROVE  BeforeLoad' /\ Recorded'
<1>1. /\ \A i \in Procedures : i # j => job'[i] = job[i]
      /\ job'[j].at = phase
  BY DEF Moved
<1>2. loading # "done" => phase = "borrow"
  BY PastIsLoaded DEF Loaded
<1>3. BeforeLoad'
  BY <1>1, <1>2 DEF SelectionInv, BeforeLoad, routingVars, storageVars
<1>4. Recorded'
  BY DEF SelectionInv, Recorded, routingVars, storageVars
<1> QED
  BY <1>3, <1>4

\* A tool commits.
LEMMA ToolCommitsBase ==
  ASSUME SelectionAssumption, SelectionBase, NEW j \in ToolCalls, executing \in {j, NoTab}, executing' = j,
         NEW tab \in TabIds \cup {NoTab}, NEW m \in {"auto", "manual"},
         NEW phase \in {"lost", "committed", "lent", "returning", "picked", "tabsGivenUp"},
         phase \in StagesOf(j), Commit(j, tab, m, phase),
         j \in Lent => /\ executing = j /\ job[j].at # "borrow"
                       /\ phase \in LendingStages =>
                            (m = "manual" /\ tab = job[j].own) \/ (m = "auto" /\ job[j].own \in gone),
         chosen' \in usable \cup {NoTab},
         UNCHANGED <<chromeVars, loading, readTab, stored, before, reached>>
  PROVE  SelectionBase'
<1>1. /\ j \in Procedures /\ j \notin TabEvents /\ ToolCalls \subseteq Procedures /\ NoTab \notin ToolCalls
      /\ Lent \subseteq ToolCalls /\ Picks \subseteq ToolCalls /\ Lent \cap Picks = {} /\ (j \in Lent \/ j \in Picks)
      /\ TabEvents \subseteq Procedures
  BY DEF Procedures, ToolCalls, SelectionAssumption
<1>2. /\ target' = tab /\ mode' = m
      /\ job' \in [Procedures -> JobRecords] /\ writes' \in Seq(WriteRecords)
      /\ job'[j].at = phase /\ (j \notin Picks => job'[j].own = job[j].own)
      /\ \A i \in Procedures : i # j => job'[i].at = job[i].at /\ job'[i].own = job[i].own
      /\ Repeats(j, tab, m) \/ Records(j, tab, m)
  <2>1. phase \in Stages
    BY DEF Stages
  <2> QED
    BY <1>1, <2>1, CommitIs DEF SelectionBase
<1>3. SelectionTyped'
  BY <1>1, <1>2 DEF SelectionBase, SelectionTyped, chromeVars
<1>4. Turns'
  <2>1. \A e \in TabEvents : job'[e].at = job[e].at
    BY <1>1, <1>2
  <2>2. \A i \in ToolCalls : i # j => job'[i].at \in {"idle", "over"}
    BY <1>1, <1>2 DEF SelectionBase, Turns
  <2>3. /\ executing' \in Lent => job'[executing'].at \in {"borrow", "borrowing", "lent", "return", "returning"} \cup Resolving
        /\ executing' \in Picks => job'[executing'].at \in {"picked", "tabs", "tabsAsked", "tabsGivenUp"}
    BY <1>1, <1>2 DEF StagesOf
  <2> QED
    BY <2>1, <2>2, <2>3 DEF SelectionBase, Turns
<1>5. Writers'
  <2>1. \A i \in DOMAIN writes : writes[i].mode = "manual" => writes[i].by = j
    BY NothingManual DEF SelectionBase, Writers
  <2>2. phase \notin WrittenStages
    BY DEF WrittenStages
  <2>3. CASE Repeats(j, tab, m)
    <3>1. \A i \in ToolCalls : i # j => job'[i] = job[i]
      BY <1>1, <2>3 DEF Repeats
    <3> QED
      BY <1>2, <2>1, <2>2, <2>3, <3>1 DEF SelectionBase, Writers, Written, Repeats
  <2>4. CASE Records(j, tab, m)
    <3> DEFINE n == Len(writes')
    <3>1. /\ writes'[n].by = j
          /\ \A i \in DOMAIN writes' : i = n \/ (i \in DOMAIN writes /\ writes'[i] = writes[i])
      BY <2>4 DEF Records, OneMore
    <3>2. \A i \in ToolCalls : job'[i].at \in WrittenStages => Written(i)'
      <4>1. \A i \in ToolCalls : i # j => job'[i].at = job[i].at
        BY <1>1, <1>2
      <4> HIDE DEF n
      <4> QED
        BY <1>2, <2>2, <3>1, <4>1 DEF SelectionBase, Writers, Written
    <3>3. \A i \in DOMAIN writes' : writes'[i].mode = "manual" => writes'[i].by = executing'
      <4> HIDE DEF n
      <4> QED
        BY <2>1, <3>1
    <3> QED
      BY <3>2, <3>3 DEF Writers
  <2> QED
    BY <1>2, <2>3, <2>4
<1>6. LentHeld'
  <2> SUFFICES ASSUME executing' \in Lent
               PROVE  /\ Own' \in TabIds
                      /\ job'[executing'].at # "borrow" => Loaded'
                      /\ job'[executing'].at \in LendingStages => Holding'
    BY DEF LentHeld, LendingStages, Resolving
  <2>1. /\ j \in Lent /\ executing = j /\ Own' = job[j].own /\ Own = job[j].own /\ job'[executing'].at = phase
    BY <1>1, <1>2 DEF Own
  <2>2. phase \in LendingStages => Holding'
    BY <1>2, <2>1 DEF Holding, chromeVars
  <2> QED
    BY <2>1, <2>2 DEF SelectionBase, LentHeld, Loaded
<1>7. Reached'
  <2>1. \A i \in Lent : job'[i].own = job[i].own /\ (job'[i].at = "idle" => job[i].at = "idle")
    BY <1>1, <1>2
  <2> QED
    BY <2>1 DEF SelectionBase, Reached, chromeVars
<1> QED
  BY <1>3, <1>4, <1>5, <1>6, <1>7 DEF SelectionBase

\* What a commit of a tool does to what the users' choice is made of. It is recorded if the
\* selection was, and in any case if the commit changes the selection.
ToolCommitted(j, tab, m, phase) ==
  /\ BeforeLoad' /\ Recorded'
  /\ target' = tab /\ mode' = m /\ job'[j].at = phase /\ job'[j].fresh
  /\ j \in Picks => job'[j].own = tab
  /\ j \in Lent => job'[j].own = job[j].own
  /\ Repeats(j, tab, m) \/ Records(j, tab, m)
LEMMA ToolCommitsUsers ==
  ASSUME SelectionAssumption, SelectionTyped, NEW j \in ToolCalls,
         NEW tab \in TabIds \cup {NoTab}, NEW m \in {"auto", "manual"}, m = "manual" => tab \in TabIds,
         SelectionInv \/ Changes(tab, m),
         NEW phase \in {"lost", "committed", "lent", "returning", "picked", "tabsGivenUp"},
         Commit(j, tab, m, phase), Loaded,
         UNCHANGED <<chromeVars, loading, readTab, stored, before, reached>>
  PROVE  ToolCommitted(j, tab, m, phase)
<1>1. j \in Procedures /\ phase \in Stages /\ (j \in Lent => j \notin Picks)
  BY DEF Procedures, ToolCalls, Stages, SelectionAssumption
<1>2. /\ target' = tab /\ mode' = m /\ job'[j].at = phase /\ job'[j].fresh
      /\ (j \in Picks => job'[j].own = tab) /\ (j \notin Picks => job'[j].own = job[j].own)
      /\ Repeats(j, tab, m) \/ Records(j, tab, m)
  BY <1>1, CommitIs
<1>3. BeforeLoad'
  BY DEF BeforeLoad, Loaded
<1>4. Recorded'
  <2>1. CASE Repeats(j, tab, m)
    <3>1. SelectionInv
      BY <2>1 DEF Repeats, Changes
    <3> QED
      BY <1>2, <2>1, <3>1 DEF SelectionInv, Recorded, Repeats
  <2>2. CASE Records(j, tab, m)
    <3>1. LET n == Len(writes')
          IN  writes'[n].tab = tab /\ writes'[n].mode = m /\ writes' # <<>>
      BY <2>2 DEF Records, OneMore
    <3> QED
      BY <1>2, <3>1 DEF Recorded
  <2> QED
    BY <1>2, <2>1, <2>2
<1> QED
  BY <1>1, <1>2, <1>3, <1>4 DEF ToolCommitted

-----------------------------------------------------------------------------

\* A resolution goes on without touching the selection, or commits one that follows the
\* foreground, when no usable tab is selected by hand.
Looks(j) ==
  /\ \E phase \in {"over", "return", "query", "get", "list"} :
       /\ Moved(j, phase, job[j].own)
       /\ (j \in Lent => phase # "over") /\ (j \notin Lent => phase # "return")
  /\ UNCHANGED <<target, mode, writes>> /\ (At(j, {"lost", "committed"}) => Written(j))
  /\ \/ UNCHANGED reached
     \/ j \in Lent /\ reached' = [reached EXCEPT ![j] = target]
Finds(j) ==
  /\ \E tab \in TabIds \cup {NoTab}, phase \in {"lost", "committed"} : Commit(j, tab, "auto", phase)
  /\ mode = "manual" => target \notin usable
  /\ UNCHANGED reached
LEMMA LookAgainLooks ==
  ASSUME SelectionAssumption, SelectionTyped, NEW j \in TabEvents \cup Lent, LookAgain(j),
         UNCHANGED <<target, mode, writes>>, At(j, {"lost", "committed"}) => Written(j)
  PROVE  Looks(j) /\ UNCHANGED <<executing, before, chosen>>
<1>1. j \in Procedures /\ {"query", "over", "return"} \subseteq Stages
  BY DEF Procedures, ToolCalls, Stages
<1>2. CASE Unresolved(j)
  <2>1. \/ j \in Lent /\ Moved(j, "return", job[j].own)
        \/ j \notin Lent /\ Moved(j, "over", job[j].own)
    BY <1>1, <1>2, Endings DEF Unresolved
  <2> QED
    BY <1>2, <2>1 DEF Looks, Unresolved, toolVars
<1>3. CASE job' = [job EXCEPT ![j].at = "query", ![j].tries = @ + 1] /\ UNCHANGED toolVars
  <2>1. Moved(j, "query", job[j].own)
    BY <1>1, <1>3, Moves
  <2> QED
    BY <1>3, <2>1 DEF Looks, toolVars
<1> QED
  BY <1>2, <1>3 DEF LookAgain
LEMMA ResolvedLooks ==
  ASSUME SelectionAssumption, SelectionTyped, NEW j \in TabEvents \cup Lent, Resolved(j, target),
         UNCHANGED <<target, mode, writes>>, At(j, {"lost", "committed"}) => Written(j)
  PROVE  Looks(j) /\ UNCHANGED <<executing, before, chosen>>
<1>1. /\ j \in Procedures /\ {"query", "over", "return"} \subseteq Stages
      /\ j \in TabEvents <=> j \notin Lent
      /\ target \in TabIds \cup {NoTab}
  BY DEF Procedures, ToolCalls, SelectionTyped, Stages, SelectionAssumption
<1>2. UNCHANGED <<executing, before, chosen>>
  BY DEF Resolved
<1>3. CASE j \in TabEvents
  <2>1. Moved(j, "over", job[j].own) /\ UNCHANGED reached
    BY <1>1, <1>3, Endings DEF Resolved
  <2> QED
    BY <1>1, <1>2, <1>3, <2>1 DEF Looks
<1>4. CASE j \in Lent /\ job[j].read = NoTab
  <2>1. job' = [job EXCEPT ![j].at = "query", ![j].read = target, ![j].tries = 0] /\ UNCHANGED reached
    BY <1>1, <1>4 DEF Resolved
  <2>2. Moved(j, "query", job[j].own)
    BY <1>1, <2>1, Moves
  <2> QED
    BY <1>2, <1>4, <2>1, <2>2 DEF Looks
<1>5. CASE j \in Lent /\ job[j].read # NoTab
  <2>1. /\ Returns(j)
        /\ reached' = reached \/ reached' = [reached EXCEPT ![j] = target]
    BY <1>1, <1>5 DEF Resolved
  <2>2. Moved(j, "return", job[j].own)
    BY <1>1, <2>1, Endings
  <2> QED
    BY <1>2, <1>5, <2>1, <2>2 DEF Looks
<1> QED
  BY <1>1, <1>3, <1>4, <1>5
LEMMA ResolveIs ==
  ASSUME SelectionAssumption, SelectionTyped, NEW j \in TabEvents \cup Lent, ResolveStep(j)
  PROVE  /\ At(j, Resolving) /\ UNCHANGED <<chromeVars, loading, readTab, stored, executing, before, chosen>>
         /\ Looks(j) \/ Finds(j)
<1>1. /\ j \in Procedures /\ {"query", "over", "return", "get", "list"} \subseteq Stages
      /\ j \in TabEvents <=> j \notin Lent
      /\ target \in TabIds \cup {NoTab} /\ usable \subseteq TabIds
  BY DEF Procedures, ToolCalls, SelectionTyped, Stages, SelectionAssumption
<1>2. CASE Look(j)
  <2>1. Moved(j, "get", job[j].own)
    BY <1>1, <1>2, Moves DEF Look
  <2>2. At(j, Resolving) /\ ~At(j, {"lost", "committed"})
    BY <1>2 DEF Look, At, Resolving
  <2> QED
    BY <1>2, <2>1, <2>2 DEF Look, Looks, routingVars, storageVars, toolVars
<1>3. CASE GotTab(j)
  <2>1. At(j, Resolving) /\ ~At(j, {"lost", "committed"}) /\ UNCHANGED <<chromeVars, loading, readTab, stored>>
    BY <1>3 DEF GotTab, At, Resolving
  <2>2. CASE LookAgain(j) /\ UNCHANGED <<target, mode, writes>>
    BY <2>1, <2>2, LookAgainLooks
  <2>3. CASE Resolved(j, target) /\ UNCHANGED <<target, mode, writes>>
    BY <2>1, <2>3, ResolvedLooks
  <2>4. CASE target \notin usable /\ Commit(j, NoTab, "auto", "lost") /\ UNCHANGED toolVars
    BY <2>1, <2>4 DEF Finds, toolVars
  <2>5. CASE /\ job' = [job EXCEPT ![j].at = "list", ![j].live = target \in usable]
             /\ UNCHANGED <<target, mode, writes, toolVars>>
    <3>0. (target \in usable) \in BOOLEAN
      OBVIOUS
    <3>1. Moved(j, "list", job[j].own)
      BY <1>1, <2>5, <3>0, Moves, Zenon
    <3> QED
      BY <2>1, <2>5, <3>1 DEF Looks, toolVars
  <2> QED
    BY <1>3, <2>2, <2>3, <2>4, <2>5 DEF GotTab
<1>4. CASE GivenUpWritten(j)
  <2>1. /\ At(j, Resolving) /\ Written(j) /\ LookAgain(j)
        /\ UNCHANGED <<chromeVars, target, mode, writes, loading, readTab, stored>>
    BY <1>4 DEF GivenUpWritten, At, Resolving, routingVars, storageVars
  <2> QED
    BY <2>1, LookAgainLooks
<1>5. CASE Listed(j)
  <2>1. At(j, Resolving) /\ ~At(j, {"lost", "committed"}) /\ UNCHANGED <<chromeVars, loading, readTab, stored>>
    BY <1>5 DEF Listed, At, Resolving
  <2>2. CASE LookAgain(j) /\ UNCHANGED <<target, mode, writes>>
    BY <2>1, <2>2, LookAgainLooks
  <2>3. CASE Unresolved(j) /\ UNCHANGED <<target, mode, writes>>
    <3>1. \/ j \in Lent /\ Moved(j, "return", job[j].own)
          \/ j \notin Lent /\ Moved(j, "over", job[j].own)
      BY <1>1, <2>3, Endings DEF Unresolved
    <3> QED
      BY <2>1, <2>3, <3>1 DEF Looks, Unresolved, toolVars
  <2>4. CASE ~Outdated(j) /\ (\E tab \in Candidates(j) : Commit(j, tab, "auto", "committed")) /\ UNCHANGED toolVars
    <3>1. Candidates(j) \subseteq TabIds \cup {NoTab} /\ mode = "auto"
      BY <1>1, <2>4 DEF Candidates, Outdated
    <3>2. Finds(j)
      BY <2>4, <3>1 DEF Finds, toolVars
    <3> QED
      BY <2>1, <2>4, <3>2 DEF toolVars
  <2> QED
    BY <1>5, <2>2, <2>3, <2>4 DEF Listed
<1>6. CASE Committed(j)
  <2>1. /\ At(j, Resolving) /\ Written(j) /\ (LookAgain(j) \/ Resolved(j, target))
        /\ UNCHANGED <<chromeVars, target, mode, writes, loading, readTab, stored>>
    BY <1>6 DEF Committed, At, Resolving, routingVars, storageVars
  <2> QED
    BY <2>1, LookAgainLooks, ResolvedLooks
<1> QED
  BY <1>2, <1>3, <1>4, <1>5, <1>6 DEF ResolveStep

-----------------------------------------------------------------------------

\* Each step of a tab event keeps the invariant.
LEMMA EventSteps ==
  ASSUME SelectionAssumption, SelectionKept, NEW e \in TabEvents, EventStep(e)
  PROVE  SelectionKept'
<1>1. /\ e \in Procedures /\ SelectionTyped /\ {"remember", "query", "remembered"} \subseteq Stages
      /\ e \notin Lent /\ UNCHANGED disturbed
  <2>1. UNCHANGED disturbed
    BY DEF EventStep, EventArrives, Remember, RememberWritten, ResolveStep, Look, GotTab, GivenUpWritten, Listed,
       Committed, faultVars
  <2> QED
    BY <2>1 DEF Procedures, ToolCalls, SelectionKept, SelectionBase, Stages, SelectionAssumption
<1>2. CASE EventArrives(e)
  <2>1. Moved(e, "remember", front)
    BY <1>1, <1>2, Moves DEF EventArrives, SelectionTyped
  <2> QED
    BY <1>1, <1>2, <2>1, EventMoves DEF EventArrives
<1>3. CASE Remember(e) /\ Ignored(job[e].own)
  <2>1. Go(e, "query") /\ Loaded /\ UNCHANGED <<target, mode, writes, chromeVars, loading, readTab, stored, toolVars>>
    BY <1>3 DEF Remember
  <2>2. Moved(e, "query", job[e].own)
    BY <1>1, <2>1, Moves
  <2> QED
    BY <1>1, <2>1, <2>2, EventMoves DEF Past, Resolving, routingVars, storageVars
<1>4. CASE Remember(e) /\ ~Ignored(job[e].own)
  <2>1. /\ Commit(e, job[e].own, mode, "remembered") /\ Loaded
        /\ UNCHANGED <<chromeVars, loading, readTab, stored, toolVars>>
        /\ mode = "manual" => target = job[e].own
    BY <1>4 DEF Remember, Ignored
  <2>2. job[e].own \in TabIds \cup {NoTab} /\ mode \in {"auto", "manual"}
    BY <1>1 DEF SelectionTyped, JobRecords
  <2> QED
    BY <1>1, <2>1, <2>2, EventCommits DEF Past
<1>5. CASE RememberWritten(e)
  <2>1. Moved(e, "query", job[e].own)
    BY <1>1, <1>5, Moves DEF RememberWritten
  <2>2. Past(e)
    BY <1>5 DEF RememberWritten, At, Past
  <2> QED
    BY <1>1, <1>5, <2>1, <2>2, EventMoves DEF Resolving, RememberWritten
<1>6. CASE ResolveStep(e)
  <2>1. /\ At(e, Resolving) /\ UNCHANGED <<chromeVars, loading, readTab, stored, executing, before, chosen>>
        /\ Looks(e) \/ Finds(e)
    BY <1>1, <1>6, ResolveIs
  <2>2. Past(e)
    BY <2>1 DEF At, Past, Resolving
  <2>3. CASE Looks(e)
    <3>1. PICK phase \in {"over", "query", "get", "list"} : Moved(e, phase, job[e].own)
      BY <1>1, <2>3 DEF Looks
    <3>2. UNCHANGED <<chromeVars, routingVars, storageVars, toolVars>>
      BY <1>1, <2>1, <2>3 DEF Looks, routingVars, storageVars, toolVars
    <3>3. phase \in {"over", "remember"} \/ (Past(e) /\ phase \in {"remembered"} \cup Resolving)
      BY <2>2 DEF Resolving
    <3> QED
      BY <1>1, <3>1, <3>2, <3>3, EventMoves
  <2>4. CASE Finds(e)
    <3>1. PICK tab \in TabIds \cup {NoTab}, phase \in {"lost", "committed"} : Commit(e, tab, "auto", phase)
      BY <2>4 DEF Finds
    <3>2. (mode = "manual" => target \notin usable) /\ UNCHANGED toolVars
      BY <2>1, <2>4 DEF Finds, toolVars
    <3> QED
      BY <1>1, <2>1, <2>2, <3>1, <3>2, EventCommits
  <2> QED
    BY <2>1, <2>3, <2>4
<1> QED
  BY <1>2, <1>3, <1>4, <1>5, <1>6 DEF EventStep

-----------------------------------------------------------------------------

\* A tool of either kind goes on at rest.
LEMMA RestUsers ==
  ASSUME SelectionAssumption, SelectionInv, NEW j \in ToolCalls, executing \in {j, NoTab}, Resting,
         NEW phase \in {"over", "borrow", "borrowing", "tabs", "tabsAsked"}, NEW own, Moved(j, phase, own),
         (executing' = j /\ phase \in StagesOf(j)) \/ (executing' = NoTab /\ phase = "over"),
         Past(j) \/ phase = "borrow",
         phase = "borrowing" => Loaded /\ before' = [tab |-> target, mode |-> mode],
         UNCHANGED <<chosen, reached, chromeVars, routingVars, storageVars>>
  PROVE  Undisturbed'
<1>1. BeforeLoad' /\ Recorded'
  BY ToolMovesUsers DEF Procedures
<1>3. job'[j].at = phase
  BY DEF Moved
<1>4. Resting'
  BY <1>3 DEF Resting, ExecutingAt, StagesOf, Resolving
<1>5. AtRest /\ AtRest'
  BY DEF SelectionInv, UsersChoice, AtRest, Good, Loaded, chromeVars, routingVars, storageVars
<1>6. ExecutingAt({"borrowing"})' => Good(before.tab, before.mode)'
  BY <1>3, <1>5 DEF ExecutingAt, Good, AtRest, routingVars, chromeVars, Loaded
<1>7. UsersChoice'
  BY <1>4, <1>5, <1>6 DEF UsersChoice, Resting, ExecutingAt, LendingStages, Resolving
<1> QED
  BY <1>1, <1>7 DEF Undisturbed
LEMMA RestMoves ==
  ASSUME SelectionAssumption, SelectionKept, NEW j \in ToolCalls, executing \in {j, NoTab}, Resting,
         NEW phase \in {"over", "borrow", "borrowing", "tabs", "tabsAsked"}, NEW own, Moved(j, phase, own),
         (executing' = j /\ phase \in StagesOf(j)) \/ (executing' = NoTab /\ phase = "over"),
         Past(j) \/ phase = "borrow", Written(j), own = job[j].own \/ job[j].at = "idle",
         j \in Lent => own \in TabIds /\ (Loaded \/ phase \in {"borrow", "over"}),
         phase = "borrowing" => Loaded /\ before' = [tab |-> target, mode |-> mode],
         phase # "borrowing" => UNCHANGED before,
         UNCHANGED <<chosen, reached, chromeVars, routingVars, storageVars, disturbed>>
  PROVE  SelectionKept'
<1>1. SelectionBase'
  <2>1. SelectionBase
    BY DEF SelectionKept
  <2>2. chosen' \in usable \cup {NoTab} /\ before' \in [tab : TabIds \cup {NoTab}, mode : {"auto", "manual"}]
    BY <2>1 DEF SelectionBase, SelectionTyped
  <2>3. phase \notin LendingStages
    BY DEF LendingStages, Resolving
  <2> QED
    BY <2>1, <2>2, <2>3, ToolMovesBase
<1>2. SelectionInv => Undisturbed'
  BY RestUsers
<1> QED
  BY <1>1, <1>2, BothParts

\* A tool goes on with the tab that it has been lent.
LEMMA LendingMoves ==
  ASSUME SelectionAssumption, SelectionKept, NEW j \in Lent, executing = j,
         job[j].at \in LendingStages, NEW phase \in {"return", "query", "get", "list"},
         Moved(j, phase, job[j].own), Written(j),
         \/ UNCHANGED reached
         \/ reached' = [reached EXCEPT ![j] = target],
         UNCHANGED <<executing, before, chosen, chromeVars, routingVars, storageVars, disturbed>>
  PROVE  SelectionKept'
<1>1. /\ j \in ToolCalls /\ j \in Procedures /\ j # NoTab /\ phase \in StagesOf(j) /\ SelectionBase
      /\ job[j].at \notin {"idle", "over", "remember", "borrow"}
  BY DEF ToolCalls, Procedures, StagesOf, LendingStages, Resolving, SelectionAssumption, SelectionKept
<1>2. job'[j].at = phase /\ job'[j].own = job[j].own /\ executing' = j
  BY DEF Moved
<1>3. SelectionBase'
  <2>1. Holding /\ Loaded /\ job[j].own \in TabIds
    BY <1>1 DEF SelectionBase, LentHeld, Own
  <2>2. target = job[j].own \/ job[j].own \in gone
    BY <2>1 DEF Holding, Own
  <2>3. chosen' \in usable \cup {NoTab} /\ before' \in [tab : TabIds \cup {NoTab}, mode : {"auto", "manual"}]
    BY <1>1 DEF SelectionBase, SelectionTyped
  <2> QED
    BY <1>1, <2>1, <2>2, <2>3, ToolMovesBase
<1>4. ASSUME SelectionInv
      PROVE  Undisturbed'
  <2>1. BeforeLoad' /\ Recorded'
    BY <1>1, <1>4, ToolMovesUsers DEF Past
  <2>2. Lending
    BY <1>1, <1>4 DEF SelectionInv, UsersChoice, ExecutingAt
  <2>3. Lending'
    BY <1>2, <2>2 DEF Lending, Holding, Loose, Good, Own, chromeVars, routingVars, storageVars
  <2>4. UsersChoice'
    BY <1>1, <1>2, <2>3 DEF UsersChoice, Resting, ExecutingAt, LendingStages, Resolving
  <2> QED
    BY <2>1, <2>4 DEF Undisturbed
<1> QED
  BY <1>3, <1>4, BothParts

\* A resolution by the tool that has been lent a tab follows the foreground only after
\* that tab was lost.
LEMMA LentResolves ==
  ASSUME SelectionAssumption, SelectionKept, NEW j \in Lent, ResolveStep(j)
  PROVE  SelectionKept'
<1>0. SelectionBase /\ SelectionTyped
  BY DEF SelectionKept, SelectionBase
<1>1. /\ At(j, Resolving) /\ UNCHANGED <<chromeVars, loading, readTab, stored, executing, before, chosen, disturbed>>
      /\ Looks(j) \/ Finds(j)
  <2>1. UNCHANGED disturbed
    BY DEF ResolveStep, Look, GotTab, GivenUpWritten, Listed, Committed, faultVars
  <2> QED
    BY <1>0, <2>1, ResolveIs
<1>2. j \in ToolCalls /\ j \in Procedures /\ j # NoTab /\ j \notin Picks
  BY DEF ToolCalls, Procedures, SelectionAssumption
<1>3. executing = j /\ job[j].at \in LendingStages /\ job[j].at # "borrow"
  BY <1>0, <1>1, <1>2 DEF SelectionBase, Turns, At, Resolving, LendingStages
<1>4. CASE Looks(j)
  <2>1. PICK phase \in {"return", "query", "get", "list"} : Moved(j, phase, job[j].own)
    BY <1>4 DEF Looks
  <2>2. Written(j)
    BY <1>0, <1>1, <1>2, <1>4 DEF Looks, At, Resolving, SelectionBase, Writers, WrittenStages
  <2>3. /\ reached' = reached \/ reached' = [reached EXCEPT ![j] = target]
        /\ UNCHANGED <<executing, before, chosen, chromeVars, routingVars, storageVars, disturbed>>
    BY <1>1, <1>4 DEF Looks, routingVars, storageVars
  <2> QED
    BY <1>3, <2>1, <2>2, <2>3, LendingMoves
<1>5. CASE Finds(j)
  <2>1. PICK tab \in TabIds \cup {NoTab}, phase \in {"lost", "committed"} : Commit(j, tab, "auto", phase)
    BY <1>5 DEF Finds
  <2>2. /\ mode = "manual" => target \notin usable
        /\ UNCHANGED reached /\ phase \in StagesOf(j) /\ chosen' \in usable \cup {NoTab} /\ executing' = j
    BY <1>0, <1>1, <1>3, <1>5 DEF Finds, StagesOf, Resolving, SelectionTyped
  <2>3. job[j].own \in TabIds /\ job[j].own \in gone /\ Loaded
    <3>1. Holding /\ Own = job[j].own /\ Own \in TabIds /\ Loaded
      BY <1>0, <1>3 DEF SelectionBase, LentHeld, Own
    <3> QED
      BY <1>0, <2>2, <3>1 DEF Holding, SelectionTyped
  <2>4. SelectionBase'
    BY <1>0, <1>1, <1>2, <1>3, <2>1, <2>2, <2>3, ToolCommitsBase
  <2>5. ASSUME SelectionInv
        PROVE  Undisturbed'
    <3>1. ToolCommitted(j, tab, "auto", phase)
      BY <1>0, <1>1, <1>2, <2>1, <2>2, <2>3, <2>5, ToolCommitsUsers
    <3>2. Lending
      BY <1>2, <1>3, <2>5 DEF SelectionInv, UsersChoice, ExecutingAt
    <3>3. \A i \in DOMAIN writes' : Loose(writes[i].tab, writes[i].mode)'
      <4>1. ASSUME NEW i \in DOMAIN writes'
            PROVE  (i \in DOMAIN writes /\ writes'[i] = writes[i]) \/ writes'[i].mode = "auto"
        BY <3>1 DEF ToolCommitted, Repeats, Records, OneMore
      <4> QED
        BY <1>1, <1>3, <2>2, <3>1, <3>2, <4>1 DEF ToolCommitted, Lending, Loose, Own, Good, chromeVars
    <3>4. Good(before.tab, before.mode)' /\ Holding' /\ Loose(stored.tab, stored.mode)'
      BY <1>1, <1>3, <2>2, <2>3, <3>1, <3>2 DEF ToolCommitted, Lending, Loose, Own, Good, Holding, chromeVars
    <3>5. Lending'
      BY <3>1, <3>3, <3>4 DEF ToolCommitted, Lending
    <3>6. UsersChoice'
      BY <1>2, <2>2, <3>1, <3>5 DEF ToolCommitted, UsersChoice, Resting, ExecutingAt, LendingStages, Resolving
    <3> QED
      BY <3>1, <3>6 DEF ToolCommitted, Undisturbed
  <2> QED
    BY <1>1, <2>4, <2>5, BothParts
<1> QED
  BY <1>1, <1>4, <1>5

\* The lent tab is committed (withTemporaryTargetTab).
LEMMA BorrowedKeeps ==
  ASSUME SelectionAssumption, SelectionKept, NEW j \in Lent, Borrowed(j)
  PROVE  SelectionKept'
<1>0. SelectionBase /\ SelectionTyped
  BY DEF SelectionKept, SelectionBase
<1>1. /\ j \in ToolCalls /\ j # NoTab /\ "lent" \in StagesOf(j) /\ job[j].own \in usable /\ usable \subseteq TabIds
      /\ Commit(j, job[j].own, "manual", "lent")
      /\ UNCHANGED <<chromeVars, loading, readTab, stored, executing, before, chosen, reached, disturbed>>
  BY <1>0 DEF ToolCalls, StagesOf, SelectionAssumption, Borrowed, LentMode, SelectionTyped, toolVars, faultVars
<1>2. executing = j /\ executing' = j /\ job[j].at = "borrowing" /\ Loaded
  BY <1>0, <1>1 DEF Borrowed, At, SelectionBase, Turns, LentHeld
<1>3. chosen' \in usable \cup {NoTab}
  BY <1>0, <1>1 DEF SelectionTyped
<1>4. SelectionBase'
  BY <1>0, <1>1, <1>2, <1>3, ToolCommitsBase
<1>5. ASSUME SelectionInv
      PROVE  Undisturbed'
  <2>1. ToolCommitted(j, job[j].own, "manual", "lent")
    BY <1>0, <1>1, <1>2, <1>5, ToolCommitsUsers
  <2>2. AtRest /\ Good(before.tab, before.mode)
    BY <1>1, <1>2, <1>5 DEF SelectionInv, UsersChoice, Resting, ExecutingAt
  <2>3. job'[j].own = job[j].own
    BY <2>1 DEF ToolCommitted
  <2>4. ASSUME NEW i \in DOMAIN writes'
        PROVE  \/ i \in DOMAIN writes /\ writes'[i] = writes[i]
               \/ writes'[i].tab = job[j].own /\ writes'[i].mode = "manual"
    BY <2>1 DEF ToolCommitted, Repeats, Records, OneMore
  <2>5. \A i \in DOMAIN writes' : Loose(writes[i].tab, writes[i].mode)'
    BY <1>1, <1>2, <2>2, <2>3, <2>4 DEF AtRest, Loose, Own, Good, chromeVars
  <2>6. Good(before.tab, before.mode)' /\ Holding' /\ Loose(stored.tab, stored.mode)'
    BY <1>1, <1>2, <2>1, <2>2, <2>3 DEF AtRest, Loose, Own, Good, Holding, chromeVars, ToolCommitted
  <2>7. chosen' # NoTab => stored'.mode = "manual" /\ \A i \in DOMAIN writes' : writes'[i].mode = "manual"
    BY <1>1, <2>2, <2>4 DEF AtRest, Good
  <2>8. Lending'
    BY <2>5, <2>6, <2>7 DEF Lending
  <2>9. UsersChoice'
    BY <1>1, <1>2, <2>1, <2>8 DEF ToolCommitted, UsersChoice, Resting, ExecutingAt, LendingStages, Resolving
  <2> QED
    BY <2>1, <2>9 DEF ToolCommitted, Undisturbed
<1> QED
  BY <1>1, <1>4, <1>5, BothParts

\* What was selected before is committed again.
LEMMA GiveBackUsers ==
  ASSUME SelectionAssumption, SelectionInv, NEW j \in Lent, GiveBack(j)
  PROVE  Undisturbed'
<1>1. /\ j \in ToolCalls /\ j # NoTab /\ "returning" \in StagesOf(j) /\ NoTab \notin usable
      /\ usable \subseteq TabIds /\ job[j].at = "return"
      /\ UNCHANGED <<chromeVars, loading, readTab, stored, executing, before, chosen, reached>>
  BY DEF ToolCalls, StagesOf, SelectionAssumption, GiveBack, SelectionInv, SelectionTyped, toolVars, At
<1>2. executing = j /\ Loaded /\ Written(j)
  BY <1>1 DEF SelectionInv, Turns, BeforeLoad, Loaded, Procedures, ToolCalls, Writers, Recorded, WrittenStages
<1>3. Lending
  BY <1>1, <1>2 DEF SelectionInv, UsersChoice, ExecutingAt, LendingStages
<1>4. PICK tab \in TabIds \cup {NoTab}, m \in {"auto", "manual"} :
        /\ Commit(j, tab, m, "returning") /\ (m = "manual" => tab \in TabIds) /\ Good(tab, m)
  <2>1. CASE before.tab \in usable
    <3>1. /\ Commit(j, before.tab, before.mode, "returning")
          /\ before.tab \in TabIds /\ before.mode \in {"auto", "manual"}
      BY <1>1, <2>1 DEF GiveBack, SelectionInv, SelectionTyped
    <3> QED
      BY <1>3, <3>1 DEF Lending
  <2>2. CASE before.tab \notin usable
    <3>1. Commit(j, NoTab, "auto", "returning")
      BY <2>2 DEF GiveBack
    <3>2. chosen = NoTab
      BY <1>3, <2>2 DEF Lending, Good, SelectionInv, SelectionTyped
    <3> QED
      BY <3>1, <3>2 DEF Good
  <2> QED
    BY <2>1, <2>2
<1>6. ToolCommitted(j, tab, m, "returning")
  BY <1>1, <1>2, <1>4, ToolCommitsUsers DEF SelectionInv
<1>7. executing' = j /\ Good(target, mode)'
  BY <1>1, <1>2, <1>4, <1>6 DEF ToolCommitted, Good, chromeVars
<1>8. ASSUME Records(j, tab, m)
      PROVE  GivenBack'
  <2> DEFINE n == Len(writes')
  <2>1. /\ n \in Nat /\ n \in DOMAIN writes' /\ writes'[n].tab = tab /\ writes'[n].mode = m /\ writes'[n].by = j
        /\ \A i \in DOMAIN writes' : i = n \/ (i \in DOMAIN writes /\ writes'[i] = writes[i] /\ i \in Nat /\ i < n)
    BY <1>8 DEF Records, OneMore
  <2> HIDE DEF n
  <2>2. ASSUME NEW h \in DOMAIN writes', NEW i \in DOMAIN writes', writes'[h].by = executing', h <= i
        PROVE  Good(writes[i].tab, writes[i].mode)'
    <3>1. h = n
      BY <1>2, <1>7, <2>1, <2>2 DEF Written
    <3>2. i = n
      BY <2>1, <2>2, <3>1
    <3> QED
      BY <1>1, <1>4, <2>1, <3>2 DEF Good, chromeVars
  <2>3. ~Written(executing)'
    BY <1>7, <2>1 DEF Written
  <2> QED
    BY <1>7, <2>2, <2>3 DEF GivenBack
<1>9. ASSUME Repeats(j, tab, m)
      PROVE  GivenBack'
  <2>1. target = tab /\ mode = m /\ writes' = writes
    BY <1>9 DEF Repeats
  <2>2. /\ Good(stored.tab, stored.mode)
        /\ \A i \in DOMAIN writes : Good(writes[i].tab, writes[i].mode)
    <3>1. CASE m = "manual"
      <4>1. target = Own /\ Good(Own, "manual")
        BY <1>3, <1>4, <2>1, <3>1 DEF Lending, Holding
      <4>2. ASSUME NEW t, NEW k \in {"none", "auto", "manual"}, Loose(t, k), chosen # NoTab => k = "manual"
            PROVE  Good(t, k)
        BY <4>1, <4>2 DEF Loose, Good
      <4>3. stored.mode \in {"none", "auto", "manual"}
        BY DEF SelectionInv, SelectionTyped, Selections
      <4>4. \A i \in DOMAIN writes : writes[i].mode \in {"none", "auto", "manual"}
        <5>1. \A i \in DOMAIN writes : writes[i] \in WriteRecords
          BY DEF SelectionInv, SelectionTyped
        <5> QED
          BY <5>1 DEF WriteRecords
      <4> QED
        BY <1>3, <2>1, <3>1, <4>2, <4>3, <4>4 DEF Lending
    <3>2. CASE m = "auto"
      <4>1. Own \in gone /\ chosen = NoTab
        BY <1>3, <1>4, <2>1, <3>2 DEF Lending, Holding, Good
      <4> QED
        BY <1>3, <4>1 DEF Lending, Loose, Good
    <3> QED
      BY <3>1, <3>2
  <2> QED
    BY <1>1, <1>7, <2>1, <2>2 DEF GivenBack, Good, chromeVars
<1>10. UsersChoice'
  BY <1>1, <1>6, <1>7, <1>8, <1>9 DEF ToolCommitted, UsersChoice, Resting, ExecutingAt, LendingStages, Resolving
<1> QED
  BY <1>6, <1>10 DEF Undisturbed, ToolCommitted
LEMMA GiveBackKeeps ==
  ASSUME SelectionAssumption, SelectionKept, NEW j \in Lent, GiveBack(j)
  PROVE  SelectionKept'
<1>0. SelectionBase /\ SelectionTyped
  BY DEF SelectionKept, SelectionBase
<1>1. /\ j \in ToolCalls /\ "returning" \in StagesOf(j) /\ "returning" \notin LendingStages
      /\ job[j].at = "return" /\ chosen' \in usable \cup {NoTab}
      /\ UNCHANGED <<chromeVars, loading, readTab, stored, executing, before, chosen, reached, disturbed>>
  BY <1>0 DEF ToolCalls, StagesOf, LendingStages, Resolving, GiveBack, SelectionTyped, toolVars, faultVars, At
<1>2. executing = j /\ executing' = j
  BY <1>0, <1>1 DEF SelectionBase, Turns
<1>3. PICK tab \in TabIds \cup {NoTab}, m \in {"auto", "manual"} : Commit(j, tab, m, "returning")
  BY <1>0 DEF GiveBack, SelectionTyped
<1>4. SelectionBase'
  BY <1>0, <1>1, <1>2, <1>3, ToolCommitsBase
<1>5. SelectionInv => Undisturbed'
  BY GiveBackUsers
<1> QED
  BY <1>1, <1>4, <1>5, BothParts

\* Each step of a tool with an authorised target keeps the invariant.
LEMMA LentSteps ==
  ASSUME SelectionAssumption, SelectionKept, NEW j \in Lent, LentStep(j)
  PROVE  SelectionKept'
<1>1. /\ j \in ToolCalls /\ j \in Procedures /\ j # NoTab /\ j \notin Picks /\ SelectionTyped /\ SelectionBase
      /\ {"borrow", "borrowing", "query", "over"} \subseteq Stages
      /\ {"borrow", "borrowing"} \subseteq StagesOf(j)
  BY DEF ToolCalls, Procedures, SelectionAssumption, SelectionKept, SelectionBase, Stages, StagesOf
<1>2. job[j].at \notin {"idle", "over"} => executing = j
  BY <1>1 DEF SelectionBase, Turns
<1>3. job[j].at \in WrittenStages => Written(j)
  BY <1>1 DEF SelectionBase, Writers
<1>4. executing = j => job[j].own \in TabIds /\ (job[j].at # "borrow" => Loaded)
  BY <1>1 DEF SelectionBase, LentHeld, Own
<1>5. ASSUME NEW tab \in TabIds, ToolBegins(j, tab) PROVE SelectionKept'
  <2>1. Moved(j, "borrow", tab)
    BY <1>1, <1>5, Moves DEF ToolBegins
  <2>2. /\ executing = NoTab /\ job[j].at = "idle" /\ Written(j) /\ executing' = j /\ Resting
        /\ UNCHANGED <<before, chosen, reached, chromeVars, routingVars, storageVars, disturbed>>
    BY <1>3, <1>5 DEF ToolBegins, At, WrittenStages, Resting, faultVars
  <2> QED
    BY <1>1, <2>1, <2>2, RestMoves
<1>6. CASE Borrow(j)
  <2>1. Moved(j, "borrowing", job[j].own)
    BY <1>1, <1>6, Moves DEF Borrow
  <2>2. /\ executing = j /\ job[j].at = "borrow" /\ Written(j) /\ executing' = j /\ Resting /\ Loaded
        /\ before' = [tab |-> target, mode |-> mode]
        /\ UNCHANGED <<chosen, reached, chromeVars, routingVars, storageVars, disturbed>>
    BY <1>1, <1>2, <1>3, <1>6 DEF Borrow, At, WrittenStages, Resting, ExecutingAt, faultVars
  <2> QED
    BY <1>1, <1>4, <2>1, <2>2, RestMoves DEF Past
<1>7. CASE TargetClosed(j)
  <2>1. Moved(j, "over", job[j].own)
    BY <1>1, <1>7, Endings DEF TargetClosed
  <2>2. /\ executing = j /\ job[j].at = "borrowing" /\ Written(j) /\ executing' = NoTab /\ Resting /\ Loaded
        /\ UNCHANGED <<before, chosen, reached, chromeVars, routingVars, storageVars, disturbed>>
    BY <1>1, <1>2, <1>3, <1>4, <1>7 DEF TargetClosed, At, WrittenStages, Resting, ExecutingAt, faultVars
  <2> QED
    BY <1>1, <1>4, <2>1, <2>2, RestMoves DEF Past
<1>8. CASE Borrowed(j)
  BY <1>8, BorrowedKeeps
<1>9. CASE Operate(j)
  <2>1. Moved(j, "query", job[j].own)
    BY <1>1, <1>9, Moves DEF Operate
  <2>2. /\ executing = j /\ job[j].at \in LendingStages /\ Written(j)
        /\ UNCHANGED <<executing, reached, before, chosen, chromeVars, routingVars, storageVars, disturbed>>
    BY <1>2, <1>9 DEF Operate, At, LendingStages, toolVars, faultVars
  <2> QED
    BY <2>1, <2>2, LendingMoves
<1>10. CASE ResolveStep(j)
  BY <1>10, LentResolves
<1>11. CASE GiveBack(j)
  BY <1>11, GiveBackKeeps
<1>12. CASE ToolEnds(j)
  <2>1. Moved(j, "over", job[j].own)
    BY <1>1, <1>12, Endings DEF ToolEnds
  <2>2. /\ executing = j /\ job[j].at = "returning" /\ Written(j) /\ executing' = NoTab /\ Loaded
        /\ UNCHANGED <<before, chosen, reached, chromeVars, routingVars, storageVars, disturbed>>
    BY <1>1, <1>2, <1>4, <1>12 DEF ToolEnds, At, faultVars
  <2>3. chosen' \in usable \cup {NoTab} /\ before' \in [tab : TabIds \cup {NoTab}, mode : {"auto", "manual"}]
    BY <1>1, <2>2 DEF SelectionTyped
  <2>4. SelectionBase'
    <3>1. job[j].own \in TabIds /\ "over" \notin LendingStages
      BY <1>4, <2>2 DEF LendingStages, Resolving
    <3> QED
      BY <1>1, <2>1, <2>2, <2>3, <3>1, ToolMovesBase
  <2>5. ASSUME SelectionInv
        PROVE  Undisturbed'
    <3>1. BeforeLoad' /\ Recorded'
      BY <1>1, <2>1, <2>2, <2>5, ToolMovesUsers DEF Past
    <3>2. AtRest
      BY <1>1, <2>2, <2>5 DEF SelectionInv, UsersChoice, GivenBack, ExecutingAt, AtRest
    <3>3. AtRest'
      BY <2>2, <3>2 DEF AtRest, Good, Loaded, chromeVars, routingVars, storageVars
    <3> QED
      BY <2>2, <3>1, <3>3 DEF Undisturbed, UsersChoice, ExecutingAt
  <2> QED
    BY <2>2, <2>4, <2>5, BothParts
<1> QED
  BY <1>5, <1>6, <1>7, <1>8, <1>9, <1>10, <1>11, <1>12 DEF LentStep

-----------------------------------------------------------------------------

\* A tab is selected by hand: its commit. When it changes the selection, nothing that
\* came before matters.
LEMMA PickTabUsers ==
  ASSUME SelectionAssumption, SelectionBase, NEW p \in Picks, NEW tab \in TabIds, PickTab(p, tab),
         SelectionInv \/ Changes(tab, "manual"), Loaded
  PROVE  Undisturbed'
<1>0. SelectionTyped /\ Writers
  BY DEF SelectionBase
<1>1. /\ p \in ToolCalls /\ p # NoTab /\ p \notin Lent /\ "picked" \in StagesOf(p)
      /\ executing = NoTab /\ job[p].at = "idle" /\ tab \in usable /\ executing' = p /\ chosen' = NoTab
      /\ Commit(p, tab, "manual", "picked")
      /\ UNCHANGED <<chromeVars, loading, readTab, stored, before, reached>>
  BY DEF PickTab, ToolCalls, StagesOf, SelectionAssumption, At
<1>2. ToolCommitted(p, tab, "manual", "picked")
  BY <1>0, <1>1, ToolCommitsUsers
<1>3. Written(p)
  BY <1>0, <1>1 DEF Writers, WrittenStages
<1>4. /\ target' = tab /\ mode' = "manual" /\ job'[p].at = "picked" /\ job'[p].own = tab /\ job'[p].fresh
      /\ Own' = tab
  BY <1>1, <1>2 DEF ToolCommitted, Own
<1>5. chosen' = NoTab /\ Holding' /\ job'[executing'].fresh
  BY <1>1, <1>4 DEF Holding
<1>6. ASSUME Records(p, tab, "manual")
      PROVE  Picking'
  <2> DEFINE n == Len(writes')
  <2>1. /\ n \in Nat /\ n \in DOMAIN writes' /\ writes'[n].tab = tab /\ writes'[n].by = p
        /\ \A i \in DOMAIN writes' : i = n \/ (i \in DOMAIN writes /\ writes'[i] = writes[i] /\ i \in Nat /\ i < n)
    BY <1>6 DEF Records, OneMore
  <2> HIDE DEF n
  <2>2. ASSUME NEW h \in DOMAIN writes', NEW i \in DOMAIN writes', writes'[h].by = executing', h <= i
        PROVE  writes'[i].tab = Own'
    <3>1. h = n
      BY <1>1, <1>3, <2>1, <2>2 DEF Written
    <3>2. i = n
      BY <2>1, <2>2, <3>1
    <3> QED
      BY <1>4, <2>1, <3>2
  <2>3. ~Written(executing)'
    BY <1>1, <2>1 DEF Written
  <2> QED
    BY <1>5, <2>2, <2>3 DEF Picking
<1>7. ASSUME Repeats(p, tab, "manual")
      PROVE  Picking'
  <2>0. SelectionInv
    BY <1>7 DEF Repeats, Changes
  <2>1. target = tab /\ mode = "manual" /\ writes' = writes
    BY <1>7 DEF Repeats
  <2>2. writes = <<>>
    <3>1. ASSUME writes # <<>>
          PROVE  Len(writes) \in DOMAIN writes /\ writes[Len(writes)].mode = "manual"
      <4>1. Len(writes) \in DOMAIN writes
        BY <1>0, <3>1, EmptySeq DEF SelectionTyped
      <4> QED
        BY <2>0, <2>1, <3>1, <4>1 DEF SelectionInv, Recorded
    <3> QED
      BY <1>0, <1>1, <3>1, NothingManual
  <2>3. stored.tab = tab
    BY <2>0, <2>1, <2>2 DEF SelectionInv, Recorded
  <2>4. \A i \in DOMAIN writes' : writes'[i].mode # "manual"
    BY <1>0, <1>1, <2>1, NothingManual
  <2> QED
    BY <1>1, <1>4, <1>5, <2>3, <2>4 DEF Picking
<1>8. Picking'
  BY <1>2, <1>6, <1>7 DEF ToolCommitted
<1>9. UsersChoice'
  BY <1>1, <1>4, <1>8 DEF UsersChoice, Resting, ExecutingAt, LendingStages, Resolving
<1> QED
  BY <1>2, <1>9 DEF Undisturbed, ToolCommitted
LEMMA PickTabKeeps ==
  ASSUME SelectionAssumption, SelectionKept, NEW p \in Picks, NEW tab \in TabIds, PickTab(p, tab)
  PROVE  SelectionKept'
<1>1. SelectionBase /\ SelectionTyped /\ (~disturbed => SelectionInv)
  BY DEF SelectionKept, SelectionBase, Undisturbed, SelectionInv
<1>2. SelectionBase'
  <2>1. /\ p \in ToolCalls /\ p \notin Lent /\ "picked" \in StagesOf(p)
        /\ executing = NoTab /\ executing' = p /\ chosen' = NoTab
        /\ Commit(p, tab, "manual", "picked")
        /\ UNCHANGED <<chromeVars, loading, readTab, stored, before, reached>>
    BY DEF PickTab, ToolCalls, StagesOf, SelectionAssumption
  <2> QED
    BY <1>1, <2>1, ToolCommitsBase
<1>3. ASSUME ~disturbed'
      PROVE  Undisturbed'
  <2>1. Loaded /\ (~disturbed \/ Changes(tab, "manual"))
    BY <1>3 DEF PickTab
  <2> QED
    BY <1>1, <2>1, PickTabUsers
<1> QED
  BY <1>2, <1>3 DEF SelectionKept

\* A tab is selected by hand: its write is in the storage.
LEMMA PickWrittenUsers ==
  ASSUME SelectionAssumption, SelectionInv, NEW p \in Picks, PickWritten(p)
  PROVE  Undisturbed'
<1>1. /\ p \in ToolCalls /\ p \in Procedures /\ p # NoTab /\ p \notin Lent /\ SelectionTyped
      /\ "tabs" \in StagesOf(p) /\ {"tabs", "over"} \subseteq Stages
      /\ job[p].at = "picked" /\ Written(p)
      /\ UNCHANGED <<before, reached, chromeVars, routingVars, storageVars>>
  BY DEF PickWritten, ToolCalls, Procedures, StagesOf, Stages, SelectionAssumption, SelectionInv, At
<1>2. executing = p /\ Loaded
  BY <1>1 DEF SelectionInv, Turns, BeforeLoad, Loaded
<1>3. Picking
  BY <1>1, <1>2 DEF SelectionInv, UsersChoice, ExecutingAt
<1>4. \A i \in DOMAIN writes : writes[i].mode # "manual"
  BY <1>1, <1>2 DEF SelectionInv, Writers, Recorded, Written
<1>5. mode = "manual" => writes = <<>> /\ stored.tab = target /\ stored.mode = "manual"
  <2>1. writes # <<>> => Len(writes) \in DOMAIN writes
    BY EmptySeq DEF SelectionInv, SelectionTyped
  <2> QED
    BY <1>4, <2>1 DEF SelectionInv, Writers, Recorded
<1>7. CASE job[p].fresh /\ mode = "manual" /\ target = job[p].own
  <2>1. /\ Moved(p, "tabs", job[p].own) /\ executing' = p
        /\ chosen' = IF target \in usable THEN target ELSE NoTab
    BY <1>1, <1>2, <1>7, Moves DEF PickWritten
  <2>3. BeforeLoad' /\ Recorded'
    BY <1>1, <1>2, <2>1, ToolMovesUsers DEF Past
  <2>4. target \in TabIds /\ (target \notin usable => target \in gone)
    BY <1>7 DEF SelectionInv, SelectionTyped, Writers, Recorded
  <2>5. AtRest'
    BY <1>1, <1>5, <1>7, <2>1, <2>4 DEF AtRest, Good, Loaded, chromeVars, routingVars, storageVars
  <2>6. UsersChoice'
    BY <1>1, <2>1, <2>5 DEF UsersChoice, Resting, ExecutingAt, LendingStages, Resolving, Moved
  <2> QED
    BY <2>3, <2>6 DEF Undisturbed
<1>8. CASE ~(job[p].fresh /\ mode = "manual" /\ target = job[p].own)
  <2>1. Moved(p, "over", job[p].own) /\ executing' = NoTab /\ chosen' = chosen
    BY <1>1, <1>8, Endings DEF PickWritten, PickFails
  <2>3. BeforeLoad' /\ Recorded'
    BY <1>1, <1>2, <2>1, ToolMovesUsers DEF Past
  <2>4. chosen = NoTab /\ mode = "auto" /\ Own \in gone
    BY <1>2, <1>3, <1>8 DEF Picking, Holding, Own
  <2>5. stored.mode = "manual" => stored.tab = Own
    BY <1>1, <1>2, <1>3 DEF Picking
  <2>6. AtRest'
    BY <1>1, <1>4, <2>1, <2>4, <2>5 DEF AtRest, Good, Loaded, chromeVars, routingVars, storageVars
  <2> QED
    BY <2>1, <2>3, <2>6 DEF Undisturbed, UsersChoice, ExecutingAt
<1> QED
  BY <1>7, <1>8
LEMMA PickWrittenKeeps ==
  ASSUME SelectionAssumption, SelectionKept, NEW p \in Picks, PickWritten(p)
  PROVE  SelectionKept'
<1>0. SelectionBase /\ SelectionTyped
  BY DEF SelectionKept, SelectionBase
<1>1. /\ p \in ToolCalls /\ p \in Procedures /\ p \notin Lent
      /\ "tabs" \in StagesOf(p) /\ {"tabs", "over"} \subseteq Stages
      /\ job[p].at = "picked" /\ Written(p)
      /\ UNCHANGED <<before, reached, chromeVars, routingVars, storageVars, disturbed>>
  BY DEF PickWritten, ToolCalls, Procedures, StagesOf, Stages, SelectionAssumption, At, faultVars
<1>2. executing = p
  BY <1>0, <1>1 DEF SelectionBase, Turns
<1>3. /\ before' \in [tab : TabIds \cup {NoTab}, mode : {"auto", "manual"}]
      /\ chosen' \in usable \cup {NoTab}
  BY <1>0, <1>1 DEF SelectionTyped, PickWritten, PickFails
<1>4. \/ Moved(p, "tabs", job[p].own) /\ executing' = p
      \/ Moved(p, "over", job[p].own) /\ executing' = NoTab
  BY <1>0, <1>1, <1>2, Moves, Endings DEF PickWritten, PickFails
<1>5. SelectionBase'
  BY <1>0, <1>1, <1>2, <1>3, <1>4, ToolMovesBase
<1>6. SelectionInv => Undisturbed'
  BY PickWrittenUsers
<1> QED
  BY <1>1, <1>5, <1>6, BothParts

\* Each step of a selection by hand keeps the invariant.
LEMMA PickSteps ==
  ASSUME SelectionAssumption, SelectionKept, NEW p \in Picks, PickStep(p)
  PROVE  SelectionKept'
<1>1. /\ p \in ToolCalls /\ p \in Procedures /\ p # NoTab /\ p \notin Lent /\ SelectionTyped /\ SelectionBase
      /\ {"tabs", "tabsAsked", "tabsGivenUp"} \subseteq StagesOf(p)
      /\ {"tabs", "tabsAsked", "over"} \subseteq Stages
  BY DEF ToolCalls, Procedures, SelectionAssumption, SelectionKept, SelectionBase, Stages, StagesOf
<1>2. job[p].at \notin {"idle", "over"} => executing = p
  BY <1>1 DEF SelectionBase, Turns
<1>3. job[p].at \in WrittenStages => Written(p)
  BY <1>1 DEF SelectionBase, Writers
<1>4. job[p].at \in {"tabs", "tabsAsked", "tabsGivenUp"} => Past(p)
  BY DEF Past
<1>5. ASSUME NEW tab \in TabIds, PickTab(p, tab) PROVE SelectionKept'
  BY <1>5, PickTabKeeps
<1>6. CASE PickWritten(p)
  BY <1>6, PickWrittenKeeps
<1>7. CASE TabsAsked(p)
  <2>1. Moved(p, "tabsAsked", job[p].own)
    BY <1>1, <1>7, Moves DEF TabsAsked
  <2>2. /\ executing = p /\ job[p].at = "tabs" /\ Written(p) /\ executing' = p /\ Resting /\ Past(p)
        /\ UNCHANGED <<before, chosen, reached, chromeVars, routingVars, storageVars, disturbed>>
    BY <1>1, <1>2, <1>3, <1>4, <1>7 DEF TabsAsked, At, WrittenStages, Resting, ExecutingAt, toolVars, faultVars
  <2> QED
    BY <1>1, <2>1, <2>2, RestMoves
<1>8. ASSUME job[p].at \in {"tabsAsked", "tabsGivenUp"}, Written(p),
             \/ Ends(p) /\ executing' = NoTab
             \/ /\ job' = [job EXCEPT ![p].at = "tabs", ![p].tries = @ + 1]
                /\ UNCHANGED executing,
             UNCHANGED <<before, chosen, reached, chromeVars, routingVars, storageVars, disturbed>>
      PROVE  SelectionKept'
  <2>1. executing = p /\ Resting /\ Past(p)
    BY <1>1, <1>2, <1>4, <1>8 DEF Resting, ExecutingAt
  <2>2. CASE Ends(p) /\ executing' = NoTab
    <3>1. Moved(p, "over", job[p].own)
      BY <1>1, <2>2, Endings
    <3> QED
      BY <1>1, <1>8, <2>1, <2>2, <3>1, RestMoves
  <2>3. CASE job' = [job EXCEPT ![p].at = "tabs", ![p].tries = @ + 1] /\ UNCHANGED executing
    <3>1. Moved(p, "tabs", job[p].own)
      BY <1>1, <2>3, Moves
    <3> QED
      BY <1>1, <1>8, <2>1, <2>3, <3>1, RestMoves
  <2> QED
    BY <1>8, <2>2, <2>3
<1>9. CASE TabsListed(p)
  <2>1. /\ job[p].at = "tabsAsked" /\ Written(p) /\ executing = p /\ Past(p) /\ Resting
        /\ UNCHANGED <<chromeVars, loading, readTab, stored, before, chosen, reached, disturbed>>
    BY <1>1, <1>2, <1>3, <1>4, <1>9 DEF TabsListed, At, WrittenStages, Resting, ExecutingAt, faultVars
  <2>2. CASE /\ \/ Ends(p) /\ executing' = NoTab
                \/ /\ job' = [job EXCEPT ![p].at = "tabs", ![p].tries = @ + 1]
                   /\ UNCHANGED executing
             /\ UNCHANGED <<target, mode, writes>>
    BY <1>8, <2>1, <2>2 DEF routingVars, storageVars
  <2>3. CASE target \notin usable /\ mode = "manual" /\ Commit(p, NoTab, "auto", "tabsGivenUp") /\ UNCHANGED executing
    <3>1. chosen' \in usable \cup {NoTab} /\ executing' = p
      BY <1>1, <2>1, <2>3 DEF SelectionTyped
    <3>2. SelectionBase'
      BY <1>1, <2>1, <2>3, <3>1, ToolCommitsBase
    <3>3. ASSUME SelectionInv
          PROVE  Undisturbed'
      <4>1. Loaded
        BY <1>1, <2>1, <3>3, PastIsLoaded
      <4>2. ToolCommitted(p, NoTab, "auto", "tabsGivenUp")
        BY <1>1, <2>1, <2>3, <3>1, <3>3, <4>1, ToolCommitsUsers
      <4>3. AtRest
        BY <2>1, <3>3 DEF SelectionInv, UsersChoice
      <4>4. chosen = NoTab
        BY <1>1, <2>1, <2>3, <4>1, <4>3 DEF AtRest, Good, SelectionTyped
      <4>5. \A i \in DOMAIN writes' : (i \in DOMAIN writes /\ writes'[i] = writes[i]) \/ writes'[i].mode = "auto"
        BY <4>2 DEF ToolCommitted, Repeats, Records, OneMore
      <4>6. AtRest'
        BY <2>1, <4>2, <4>3, <4>4, <4>5 DEF AtRest, Good, Loaded, chromeVars, ToolCommitted
      <4>7. UsersChoice'
        BY <1>1, <3>1, <4>2, <4>6 DEF ToolCommitted, UsersChoice, Resting, ExecutingAt, LendingStages, Resolving
      <4> QED
        BY <4>2, <4>7 DEF Undisturbed, ToolCommitted
    <3> QED
      BY <2>1, <3>2, <3>3, BothParts
  <2> QED
    BY <1>9, <2>2, <2>3 DEF TabsListed
<1>10. CASE TabsGivenUp(p)
  <2>1. /\ job[p].at = "tabsGivenUp" /\ Written(p)
        /\ \/ Ends(p) /\ executing' = NoTab
           \/ /\ job' = [job EXCEPT ![p].at = "tabs", ![p].tries = @ + 1]
              /\ UNCHANGED executing
        /\ UNCHANGED <<before, chosen, reached, chromeVars, routingVars, storageVars, disturbed>>
    BY <1>10 DEF TabsGivenUp, At, faultVars
  <2> QED
    BY <1>8, <2>1
<1> QED
  BY <1>5, <1>6, <1>7, <1>9, <1>10 DEF PickStep

-----------------------------------------------------------------------------

\* The writes without the oldest.
LEMMA TailIsRest ==
  ASSUME NEW S, NEW w \in Seq(S), w # <<>>
  PROVE  /\ Tail(w) \in Seq(S) /\ Head(w) \in S /\ Head(w) = w[1] /\ 1 \in DOMAIN w
         /\ \A i \in DOMAIN Tail(w) : i \in Nat /\ i + 1 \in DOMAIN w /\ Tail(w)[i] = w[i + 1]
         /\ \A i \in DOMAIN w : i = 1 \/ (\E h \in DOMAIN Tail(w) : i = h + 1)
         /\ IF Tail(w) = <<>> THEN w[Len(w)] = Head(w) ELSE w[Len(w)] = Tail(w)[Len(Tail(w))]
<1>1. /\ Len(w) \in Nat /\ Len(w) # 0 /\ DOMAIN w = 1..Len(w) /\ Head(w) = w[1]
      /\ Tail(w) \in Seq(S) /\ Len(Tail(w)) = Len(w) - 1 /\ DOMAIN Tail(w) = 1..Len(w) - 1
      /\ \A i \in 1..Len(w) - 1 : Tail(w)[i] = w[i + 1]
  BY EmptySeq
<1>2. \A i \in DOMAIN w : i = 1 \/ (\E h \in DOMAIN Tail(w) : i = h + 1)
  <2> SUFFICES ASSUME NEW i \in DOMAIN w, i # 1
               PROVE  \E h \in DOMAIN Tail(w) : i = h + 1
    OBVIOUS
  <2>1. i - 1 \in DOMAIN Tail(w) /\ i = (i - 1) + 1
    BY <1>1
  <2> QED
    BY <2>1
<1>3. PICK v \in Seq(S) : v = Tail(w)
  BY <1>1
<1>4. v # <<>> => Len(v) # 0 /\ Len(v) \in Nat
  BY EmptySeq
<1>5. v = <<>> => Len(v) = 0
  BY EmptySeq
<1>6. CASE v = <<>>
  <2>1. Len(w) = 1
    BY <1>1, <1>3, <1>5, <1>6
  <2> QED
    BY <1>1, <1>2, <1>3, <1>6, <2>1
<1>7. CASE v # <<>>
  <2>1. Len(Tail(w)) \in 1..Len(w) - 1 /\ (Len(w) - 1) + 1 = Len(w)
    BY <1>1, <1>3, <1>4, <1>7
  <2>2. w[Len(w)] = Tail(w)[Len(Tail(w))]
    BY <1>1, <2>1
  <2> QED
    BY <1>1, <1>2, <1>3, <1>7, <2>2
<1> QED
  BY <1>6, <1>7

\* The storage takes the oldest write.
LEMMA StoreWriteUsers ==
  ASSUME SelectionAssumption, SelectionInv, StoreWrite
  PROVE  Undisturbed'
<1> USE DEF SelectionInv
<1>0. /\ writes # <<>> /\ writes \in Seq(WriteRecords) /\ writes' = Tail(writes)
      /\ stored' = [tab |-> Head(writes).tab, mode |-> Head(writes).mode]
      /\ UNCHANGED <<chromeVars, routingVars, job, toolVars>>
  BY DEF StoreWrite, SelectionTyped
<1>1. /\ writes' \in Seq(WriteRecords) /\ Head(writes) \in WriteRecords /\ Head(writes) = writes[1] /\ 1 \in DOMAIN writes
      /\ \A i \in DOMAIN writes' : i \in Nat /\ i + 1 \in DOMAIN writes /\ writes'[i] = writes[i + 1]
      /\ \A i \in DOMAIN writes : i = 1 \/ (\E h \in DOMAIN writes' : i = h + 1)
      /\ IF writes' = <<>> THEN writes[Len(writes)] = Head(writes) ELSE writes[Len(writes)] = writes'[Len(writes')]
  BY <1>0, TailIsRest
<1>2. stored'.tab = writes[1].tab /\ stored'.mode = writes[1].mode /\ stored' \in Selections
  BY <1>0, <1>1 DEF Selections, WriteRecords
<1>3. BeforeLoad'
  BY <1>0 DEF BeforeLoad, routingVars
<1>6. Recorded'
  BY <1>0, <1>1, <1>2 DEF Recorded, routingVars
<1>7. /\ Resting' <=> Resting
      /\ ExecutingAt(LendingStages)' <=> ExecutingAt(LendingStages)
      /\ ExecutingAt({"returning"})' <=> ExecutingAt({"returning"})
      /\ ExecutingAt({"borrowing"})' <=> ExecutingAt({"borrowing"})
      /\ ExecutingAt({"picked"})' <=> ExecutingAt({"picked"})
  BY <1>0 DEF Resting, ExecutingAt, LendingStages, Resolving, toolVars
<1>8. Resting => AtRest'
  BY <1>0, <1>1, <1>2 DEF UsersChoice, AtRest, Good, Loaded, chromeVars, routingVars, toolVars
<1>9. ExecutingAt(LendingStages) => Lending'
  BY <1>0, <1>1, <1>2 DEF UsersChoice, Lending, Loose, Holding, Own, Good, chromeVars, routingVars, toolVars
<1>10. ASSUME ExecutingAt({"returning"})
       PROVE  GivenBack'
  <2>1. GivenBack
    BY <1>10 DEF UsersChoice
  <2>2. ASSUME NEW h \in DOMAIN writes', NEW i \in DOMAIN writes', writes'[h].by = executing', h <= i
        PROVE  Good(writes[i].tab, writes[i].mode)'
    <3>1. /\ h + 1 \in DOMAIN writes /\ i + 1 \in DOMAIN writes /\ h + 1 <= i + 1
          /\ writes[h + 1].by = executing /\ writes'[i] = writes[i + 1]
      BY <1>0, <1>1, <2>2 DEF toolVars
    <3>2. Good(writes[i + 1].tab, writes[i + 1].mode)
      BY <2>1, <3>1 DEF GivenBack
    <3> QED
      BY <1>0, <3>1, <3>2 DEF Good, chromeVars, toolVars
  <2>3. ASSUME Written(executing)'
        PROVE  \A i \in DOMAIN writes : Good(writes[i].tab, writes[i].mode)
    <3>1. CASE Written(executing)
      BY <2>1, <3>1 DEF GivenBack
    <3>2. CASE ~Written(executing)
      <4>1. writes[1].by = executing
        BY <1>0, <1>1, <2>3, <3>2 DEF Written, toolVars
      <4>2. \A i \in DOMAIN writes : 1 <= i
        BY <1>0
      <4> QED
        BY <1>1, <2>1, <4>1, <4>2 DEF GivenBack
    <3> QED
      BY <3>1, <3>2
  <2>4. Written(executing)' =>
          Good(stored.tab, stored.mode)' /\ \A i \in DOMAIN writes' : Good(writes[i].tab, writes[i].mode)'
    BY <1>0, <1>1, <1>2, <2>3 DEF Good, chromeVars, toolVars
  <2>5. Good(target, mode)'
    BY <1>0, <2>1 DEF GivenBack, Good, chromeVars, routingVars, toolVars
  <2> QED
    BY <2>2, <2>4, <2>5 DEF GivenBack, Good
<1>11. ASSUME ExecutingAt({"picked"})
       PROVE  Picking'
  <2>1. Picking
    BY <1>11 DEF UsersChoice
  <2>0. Own' = Own /\ executing' = executing
    BY <1>0 DEF Own, toolVars
  <2>2. ASSUME NEW h \in DOMAIN writes', NEW i \in DOMAIN writes', writes'[h].by = executing', h <= i,
               writes'[i].mode = "manual"
        PROVE  writes'[i].tab = Own'
    <3>1. /\ h + 1 \in DOMAIN writes /\ i + 1 \in DOMAIN writes /\ h + 1 <= i + 1
          /\ writes[h + 1].by = executing /\ writes'[i] = writes[i + 1]
      BY <1>0, <1>1, <2>0, <2>2
    <3> QED
      BY <2>0, <2>1, <2>2, <3>1 DEF Picking
  <2>3. ASSUME Written(executing)'
        PROVE  \A i \in DOMAIN writes : writes[i].mode = "manual" => writes[i].tab = Own
    <3>1. CASE Written(executing)
      BY <2>1, <3>1 DEF Picking
    <3>2. CASE ~Written(executing)
      <4>1. writes[1].by = executing
        BY <1>0, <1>1, <2>0, <2>3, <3>2 DEF Written
      <4>2. \A i \in DOMAIN writes : 1 <= i
        BY <1>0
      <4> QED
        BY <1>1, <2>1, <4>1, <4>2 DEF Picking
    <3> QED
      BY <3>1, <3>2
  <2>4. Written(executing)' =>
          /\ stored'.mode = "manual" => stored'.tab = Own'
          /\ \A i \in DOMAIN writes' : writes'[i].mode = "manual" => writes'[i].tab = Own'
    BY <1>1, <1>2, <2>0, <2>3
  <2>5. chosen' = NoTab /\ Holding' /\ (mode' = "manual" => job'[executing'].fresh)
    BY <1>0, <2>0, <2>1 DEF Picking, Holding, chromeVars, routingVars, toolVars
  <2> QED
    BY <2>2, <2>4, <2>5 DEF Picking
<1>12. ExecutingAt({"borrowing"}) => Good(before.tab, before.mode)'
  BY <1>0 DEF UsersChoice, Good, chromeVars, toolVars
<1>13. UsersChoice'
  BY <1>7, <1>8, <1>9, <1>10, <1>11, <1>12 DEF UsersChoice, LendingStages, Resolving
<1> QED
  BY <1>3, <1>6, <1>13 DEF Undisturbed
LEMMA StoreWriteKeeps ==
  ASSUME SelectionAssumption, SelectionKept, StoreWrite
  PROVE  SelectionKept'
<1>0. /\ writes # <<>> /\ writes \in Seq(WriteRecords) /\ writes' = Tail(writes) /\ SelectionBase
      /\ stored' = [tab |-> Head(writes).tab, mode |-> Head(writes).mode]
      /\ UNCHANGED <<chromeVars, routingVars, job, toolVars, disturbed>>
  BY DEF StoreWrite, SelectionKept, SelectionBase, SelectionTyped, faultVars
<1>1. /\ writes' \in Seq(WriteRecords) /\ Head(writes) \in WriteRecords
      /\ \A i \in DOMAIN writes' : i \in Nat /\ i + 1 \in DOMAIN writes /\ writes'[i] = writes[i + 1]
  BY <1>0, TailIsRest
<1>2. stored' \in Selections
  BY <1>0, <1>1 DEF Selections, WriteRecords
<1>3. SelectionTyped'
  BY <1>0, <1>1, <1>2 DEF SelectionBase, SelectionTyped, chromeVars, routingVars, toolVars
<1>4. Turns' /\ LentHeld' /\ Reached'
  BY <1>0 DEF SelectionBase, Turns, LentHeld, Own, Holding, Loaded, Reached, chromeVars, routingVars, toolVars
<1>5. Writers'
  <2>1. \A j \in Procedures : Written(j) => Written(j)'
    BY <1>1 DEF Written
  <2>2. \A j \in ToolCalls : job'[j].at \in WrittenStages => Written(j)'
    BY <1>0, <2>1 DEF SelectionBase, Writers, Procedures
  <2>3. \A i \in DOMAIN writes' : writes'[i].mode = "manual" => writes'[i].by = executing'
    BY <1>0, <1>1 DEF SelectionBase, Writers, toolVars
  <2> QED
    BY <2>2, <2>3 DEF Writers
<1>6. SelectionBase'
  BY <1>3, <1>4, <1>5 DEF SelectionBase
<1>7. SelectionInv => Undisturbed'
  BY StoreWriteUsers
<1> QED
  BY <1>0, <1>6, <1>7, BothParts

\* The stored selection is read.
LEMMA LoadUsers ==
  ASSUME SelectionAssumption, SelectionInv, LoadStarts \/ LoadEnds
  PROVE  Undisturbed'
<1> USE DEF SelectionInv
<1>1. /\ loading # "done" /\ target = NoTab /\ mode = "auto" /\ writes = <<>>
      /\ \A j \in Procedures : job[j].at \in {"idle", "over", "remember", "borrow"}
      /\ UNCHANGED <<chromeVars, stored, writes, job, executing, before, chosen, reached>>
  BY DEF LoadStarts, LoadEnds, Turns, BeforeLoad, storageVars, toolVars
<1>2. executing # NoTab => executing \in ToolCalls /\ executing \in Procedures
  BY DEF SelectionTyped, Procedures
<1>3. Resting /\ executing \notin Picks
  BY <1>1, <1>2 DEF Resting, ExecutingAt, Turns, BeforeLoad, SelectionAssumption, Resolving, ToolCalls
<1>4. /\ Resting' /\ ~ExecutingAt(LendingStages)' /\ ~ExecutingAt({"returning"})' /\ ~ExecutingAt({"picked"})'
      /\ ~ExecutingAt({"borrowing"})'
  BY <1>1, <1>2, <1>3 DEF Resting, ExecutingAt, LendingStages, Resolving
<1>5. AtRest
  BY <1>3 DEF UsersChoice
<1>7. CASE LoadStarts
  <2>1. loading' = "reading" /\ readTab' = stored /\ target' = target /\ mode' = mode
    BY <1>7 DEF LoadStarts
  <2>3. BeforeLoad'
    BY <1>1, <2>1 DEF BeforeLoad
  <2>4. Recorded'
    BY <1>1, <2>1 DEF Recorded
  <2>5. AtRest'
    BY <1>1, <1>5, <2>1 DEF AtRest, Good, Loaded, chromeVars
  <2> QED
    BY <1>4, <2>3, <2>4, <2>5 DEF UsersChoice, Undisturbed
<1>8. CASE LoadEnds
  <2>1. /\ loading' = "done" /\ readTab = stored
        /\ target' = IF stored.tab # NoTab THEN stored.tab ELSE NoTab
        /\ mode' = IF stored.mode # "none" THEN stored.mode ELSE "auto"
    BY <1>1, <1>8 DEF LoadEnds, Turns, BeforeLoad
  <2>2. stored.tab \in TabIds \cup {NoTab} /\ stored.mode \in {"none", "auto", "manual"} /\ NoTab \notin TabIds
    BY DEF SelectionTyped, Selections, SelectionAssumption
  <2>3. target' = stored.tab /\ mode' \in {"auto", "manual"} /\ (mode' = "manual" <=> stored.mode = "manual")
    BY <2>1, <2>2
  <2>5. BeforeLoad'
    BY <1>1, <2>1 DEF BeforeLoad
  <2>6. Good(stored.tab, stored.mode)
    BY <1>5 DEF AtRest
  <2>7. AtRest'
    BY <1>1, <1>5, <2>3, <2>6 DEF AtRest, Good, chromeVars
  <2>8. mode' = "manual" => target' \in TabIds
    BY <2>3, <2>6 DEF Good, SelectionTyped
  <2>9. Recorded'
    BY <1>1, <2>3, <2>8 DEF Recorded
  <2> QED
    BY <1>4, <2>5, <2>7, <2>9 DEF UsersChoice, Undisturbed
<1> QED
  BY <1>7, <1>8
LEMMA LoadKeeps ==
  ASSUME SelectionAssumption, SelectionKept, LoadStarts \/ LoadEnds
  PROVE  SelectionKept'
<1>1. /\ SelectionBase /\ ~Loaded
      /\ UNCHANGED <<chromeVars, stored, writes, job, executing, before, chosen, reached, disturbed>>
  BY DEF LoadStarts, LoadEnds, SelectionKept, storageVars, toolVars, faultVars, Loaded
<1>2. /\ target' \in TabIds \cup {NoTab} /\ mode' \in {"auto", "manual"}
      /\ readTab' \in Selections /\ loading' \in {"no", "reading", "done"}
  <2>1. CASE LoadStarts
    BY <1>1, <2>1 DEF LoadStarts, SelectionBase, SelectionTyped
  <2>2. CASE LoadEnds
    <3>1. NothingRead \in Selections
      BY DEF NothingRead, Selections
    <3> QED
      BY <1>1, <2>2, <3>1 DEF LoadEnds, SelectionBase, SelectionTyped, Selections
  <2> QED
    BY <2>1, <2>2
<1>3. SelectionTyped'
  BY <1>1, <1>2 DEF SelectionBase, SelectionTyped, chromeVars
<1>4. Turns' /\ Writers' /\ Reached'
  BY <1>1 DEF SelectionBase, Turns, Writers, Written, Reached, chromeVars
<1>5. LentHeld'
  <2>1. executing \in Lent => Own \in TabIds /\ job[executing].at = "borrow"
    BY <1>1 DEF SelectionBase, LentHeld
  <2> QED
    BY <1>1, <2>1 DEF LentHeld, Own, LendingStages, Resolving
<1>6. SelectionBase'
  BY <1>3, <1>4, <1>5 DEF SelectionBase
<1>7. SelectionInv => Undisturbed'
  BY LoadUsers
<1> QED
  BY <1>1, <1>6, <1>7, BothParts

\* A page is lost or shown, or another tab is shown in front.
LEMMA ChromeKeeps ==
  ASSUME SelectionAssumption, SelectionKept, NEW tab \in TabIds, ActivateTab(tab) \/ LosePage(tab) \/ ShowPage(tab)
  PROVE  SelectionKept'
<1>0. SelectionBase /\ SelectionTyped
  BY DEF SelectionKept, SelectionBase
<1>1. /\ front' \in TabIds /\ gone \subseteq gone' /\ gone' \subseteq TabIds
      /\ usable' \subseteq TabIds /\ TabIds \ usable' \subseteq gone'
      /\ chosen' = chosen \/ (chosen' = NoTab /\ chosen \in gone')
      /\ chosen' \in usable' \cup {NoTab}
      /\ UNCHANGED <<target, mode, loading, readTab, stored, writes, job, executing, before, reached, disturbed>>
  <2>1. CASE ActivateTab(tab)
    BY <1>0, <2>1 DEF ActivateTab, SelectionTyped, routingVars, storageVars, toolVars
  <2>2. CASE LosePage(tab)
    <3>1. /\ usable' = usable \ {tab} /\ gone' = gone \cup {tab}
          /\ front' \in (IF front = tab THEN TabIds ELSE {front})
          /\ chosen' = IF chosen = tab THEN NoTab ELSE chosen
          /\ UNCHANGED <<target, mode, loading, readTab, stored, writes, job, executing, before, reached, disturbed>>
      BY <2>2 DEF LosePage, routingVars, storageVars
    <3>2. /\ usable \subseteq TabIds /\ gone \subseteq TabIds /\ TabIds \ usable \subseteq gone /\ front \in TabIds
          /\ chosen \in usable \cup {NoTab} /\ NoTab \notin TabIds
      BY <1>0 DEF SelectionTyped, SelectionAssumption
    <3>3. /\ front' \in TabIds /\ gone \subseteq gone' /\ gone' \subseteq TabIds
          /\ usable' \subseteq TabIds /\ TabIds \ usable' \subseteq gone'
      BY <3>1, <3>2
    <3>4. /\ chosen' = chosen \/ (chosen' = NoTab /\ chosen \in gone')
          /\ chosen' \in usable' \cup {NoTab}
      BY <3>1, <3>2
    <3> QED
      BY <3>1, <3>3, <3>4
  <2>3. CASE ShowPage(tab)
    BY <1>0, <2>3 DEF ShowPage, SelectionTyped, routingVars, storageVars, toolVars, faultVars
  <2> QED
    BY <2>1, <2>2, <2>3
<1>2. SelectionBase'
  <2>1. SelectionTyped'
    BY <1>0, <1>1 DEF SelectionTyped
  <2>2. Turns' /\ Writers' /\ Reached'
    BY <1>0, <1>1 DEF SelectionBase, Turns, Writers, Written, Reached
  <2>3. LentHeld'
    BY <1>0, <1>1 DEF SelectionBase, LentHeld, Own, Holding, Loaded
  <2> QED
    BY <2>1, <2>2, <2>3 DEF SelectionBase
<1>4. ASSUME SelectionInv
      PROVE  Undisturbed'
  <2>1. BeforeLoad' /\ Recorded'
    BY <1>1, <1>4 DEF SelectionInv, BeforeLoad, Recorded
  <2>3. /\ Resting' <=> Resting
        /\ ExecutingAt(LendingStages)' <=> ExecutingAt(LendingStages)
        /\ ExecutingAt({"returning"})' <=> ExecutingAt({"returning"})
        /\ ExecutingAt({"borrowing"})' <=> ExecutingAt({"borrowing"})
        /\ ExecutingAt({"picked"})' <=> ExecutingAt({"picked"})
    BY <1>1, <1>4 DEF Resting, ExecutingAt, LendingStages, Resolving
  <2>4. Resting => AtRest'
    BY <1>1, <1>4 DEF SelectionInv, UsersChoice, AtRest, Good, Loaded
  <2>5. ExecutingAt(LendingStages) => Lending'
    BY <1>1, <1>4 DEF SelectionInv, UsersChoice, Lending, Holding, Loose, Own, Good
  <2>6. ExecutingAt({"returning"}) => GivenBack'
    BY <1>1, <1>4 DEF SelectionInv, UsersChoice, GivenBack, Good, Written
  <2>7. ExecutingAt({"picked"}) => Picking'
    <3> SUFFICES ASSUME ExecutingAt({"picked"})
                 PROVE  Picking'
      OBVIOUS
    <3>1. Picking
      BY <1>4 DEF SelectionInv, UsersChoice
    <3>2. chosen' = NoTab /\ Holding'
      BY <1>1, <3>1 DEF Picking, Holding, Own
    <3> QED
      BY <1>1, <3>1, <3>2 DEF Picking, Own, Written
  <2>8. ExecutingAt({"borrowing"}) => Good(before.tab, before.mode)'
    BY <1>1, <1>4 DEF SelectionInv, UsersChoice, Good
  <2>9. UsersChoice'
    BY <2>3, <2>4, <2>5, <2>6, <2>7, <2>8 DEF UsersChoice
  <2> QED
    BY <2>1, <2>9 DEF Undisturbed
<1> QED
  BY <1>1, <1>2, <1>4, BothParts

\* The worker is stopped; in a tool, the selection is passed over from there on.
LEMMA StopKeeps ==
  ASSUME SelectionAssumption, SelectionKept, StopWorker
  PROVE  SelectionKept'
<1>0. SelectionBase /\ SelectionTyped
  BY DEF SelectionKept, SelectionBase
<1>1. /\ executing' = NoTab /\ readTab' = NothingRead
      /\ target' = NoTab /\ mode' = "auto" /\ loading' = "no" /\ writes' = <<>>
      /\ job' = [j \in Procedures |-> IF At(j, {"idle"}) THEN job[j] ELSE OverFor(j)]
      /\ UNCHANGED <<chromeVars, stored, before, chosen, reached>>
  BY DEF StopWorker
<1>2. ASSUME NEW j \in Procedures
      PROVE  /\ job'[j] \in JobRecords /\ job'[j].at \in {"idle", "over"} /\ job'[j].own = job[j].own
             /\ (job'[j].at = "idle" => job[j].at = "idle")
  <2>1. PICK k \in JobRecords : k = job[j]
    BY <1>0 DEF SelectionTyped
  <2>2. CASE At(j, {"idle"})
    BY <1>1, <2>1, <2>2 DEF At
  <2>3. CASE ~At(j, {"idle"})
    <3> DEFINE over == [NotStarted EXCEPT !.at = "over", !.own = k.own]
    <3>1. over \in JobRecords /\ over.at = "over" /\ over.own = k.own
      BY NotStartedTyped DEF JobRecords, Stages
    <3>2. job'[j] = over
      BY <1>1, <2>1, <2>3 DEF OverFor
    <3> HIDE DEF over
    <3> QED
      BY <2>1, <3>1, <3>2
  <2> QED
    BY <2>2, <2>3
<1>3. job' \in [Procedures -> JobRecords]
  <2>1. job' = [j \in Procedures |-> job'[j]]
    BY <1>1
  <2> QED
    BY <1>2, <2>1
<1>4. writes' \in Seq(WriteRecords) /\ DOMAIN writes' = {}
  BY <1>1
<1>5. SelectionTyped'
  <2>1. NothingRead \in Selections
    BY DEF NothingRead, Selections
  <2> QED
    BY <1>0, <1>1, <1>3, <1>4, <2>1 DEF SelectionTyped, chromeVars
<1>6. /\ TabEvents \subseteq Procedures /\ ToolCalls \subseteq Procedures /\ Lent \subseteq Procedures
      /\ NoTab \notin Lent \cup Picks
  BY DEF Procedures, ToolCalls, SelectionAssumption
<1>7. SelectionBase'
  <2>1. Turns'
    BY <1>1, <1>2, <1>6 DEF Turns
  <2>2. Writers'
    BY <1>1, <1>4 DEF Writers, Written
  <2>3. LentHeld'
    BY <1>1, <1>6 DEF LentHeld
  <2>4. Reached'
    BY <1>0, <1>1, <1>2, <1>6 DEF SelectionBase, Reached, chromeVars
  <2> QED
    BY <1>5, <2>1, <2>2, <2>3, <2>4 DEF SelectionBase
<1>8. ASSUME ~disturbed'
      PROVE  Undisturbed'
  <2>1. executing = NoTab /\ Undisturbed
    BY <1>8 DEF StopWorker, SelectionKept
  <2>2. BeforeLoad' /\ Recorded'
    BY <1>1, <1>2 DEF BeforeLoad, Recorded
  <2>3. AtRest'
    BY <1>1, <1>4, <2>1 DEF Undisturbed, UsersChoice, Resting, AtRest, Good, Loaded, chromeVars
  <2>4. UsersChoice'
    BY <1>1, <2>3 DEF UsersChoice, ExecutingAt
  <2> QED
    BY <2>2, <2>4 DEF Undisturbed
<1> QED
  BY <1>7, <1>8 DEF SelectionKept

\* The invariant holds at the start.
LEMMA SelectionStart ==
  ASSUME SelectionAssumption, SelectionInit
  PROVE  SelectionKept
<1>1. job = [j \in Procedures |-> NotStarted] /\ NotStarted \in JobRecords /\ NotStarted.at = "idle"
  BY NotStartedTyped DEF SelectionInit, NotStarted
<1>2. /\ stored = NothingRead /\ stored.mode = "none" /\ stored \in Selections /\ readTab = stored
      /\ writes = <<>> /\ writes \in Seq(WriteRecords) /\ DOMAIN writes = {}
  BY DEF SelectionInit, Selections, NothingRead
<1>3. SelectionTyped
  BY <1>1, <1>2 DEF SelectionInit, SelectionTyped
<1>4. Turns /\ BeforeLoad
  BY <1>1, <1>2 DEF SelectionInit, Turns, BeforeLoad, Procedures, ToolCalls, SelectionAssumption
<1>5. Writers /\ Recorded
  BY <1>2 DEF SelectionInit, Writers, Recorded, Written
<1>6. LentHeld
  BY DEF SelectionInit, LentHeld, SelectionAssumption
<1>7. UsersChoice
  BY <1>2 DEF SelectionInit, UsersChoice, ExecutingAt, AtRest, Good, Loaded
<1>8. Reached
  BY <1>1 DEF SelectionInit, Reached
<1> QED
  BY <1>3, <1>4, <1>5, <1>6, <1>7, <1>8 DEF SelectionKept, SelectionBase, Undisturbed

\* Each step keeps the invariant.
LEMMA SelectionStep ==
  ASSUME SelectionAssumption, SelectionKept, [SelectionNext]_selectionVars
  PROVE  SelectionKept'
<1>1. CASE StoreWrite
  BY <1>1, StoreWriteKeeps
<1>2. CASE LoadStarts \/ LoadEnds
  BY <1>2, LoadKeeps
<1>3. CASE ChromeStep
  BY <1>3, StopKeeps, ChromeKeeps DEF ChromeStep
<1>4. ASSUME NEW e \in TabEvents, EventStep(e) PROVE SelectionKept'
  BY <1>4, EventSteps
<1>5. ASSUME NEW j \in Lent, LentStep(j) PROVE SelectionKept'
  BY <1>5, LentSteps
<1>6. ASSUME NEW p \in Picks, PickStep(p) PROVE SelectionKept'
  BY <1>6, PickSteps
<1>7. CASE UNCHANGED selectionVars
  <2>1. SelectionBase'
    BY <1>7 DEF selectionVars, chromeVars, routingVars, storageVars, toolVars, SelectionKept, SelectionBase,
       SelectionTyped, Turns, Writers, Written, LentHeld, Own, Holding, Loaded, Reached
  <2>2. SelectionInv => Undisturbed'
    BY <1>7 DEF selectionVars, chromeVars, routingVars, storageVars, toolVars, SelectionInv, Undisturbed, BeforeLoad,
       Recorded, UsersChoice, Resting, ExecutingAt, AtRest, Good, Loaded, Lending, Holding, Loose, Own,
       GivenBack, Picking, Written, LendingStages, Resolving
  <2> QED
    BY <1>7, <2>1, <2>2, BothParts DEF selectionVars, faultVars
<1> QED
  BY <1>1, <1>2, <1>3, <1>4, <1>5, <1>6, <1>7 DEF SelectionNext

\* Whatever tab events, resolutions, lent tabs and stops of the worker interleave
\* (commitTargetTabState, queryActiveTab, withTemporaryTargetTab, selectTargetTab), the
\* extension acts between two tools on the tab that the user has selected by hand. A
\* selection made before the stored one has been read and a stop in a tool are steps like
\* the others: they pass the selection over, and the next selection by hand that changes
\* the target restores all of it, whatever they have left in the storage, in the queue of
\* its writes and in the procedures under way.
THEOREM SelectionStaysTheUsers ==
  ASSUME SelectionAssumption
  PROVE  SelectionSpec => []SelectionIsTheUsers
<1>1. SelectionInit => SelectionKept
  BY SelectionStart
<1>2. SelectionKept /\ [SelectionNext]_selectionVars => SelectionKept'
  BY SelectionStep
<1>3. SelectionKept => SelectionIsTheUsers
  BY DEF SelectionKept, Undisturbed, UsersChoice, Resting, AtRest, Good, SelectionIsTheUsers
<1> QED
  BY <1>1, <1>2, <1>3, PTL DEF SelectionSpec

\* A tool that withTemporaryTargetTab has lent a tab acts on another one only after its
\* own was lost, whatever became of the selection before it.
THEOREM StraysOnlyWhenGone ==
  ASSUME SelectionAssumption
  PROVE  SelectionSpec => []StrayedOnlyIfGone
<1>1. SelectionInit => SelectionKept
  BY SelectionStart
<1>2. SelectionKept /\ [SelectionNext]_selectionVars => SelectionKept'
  BY SelectionStep
<1>3. SelectionKept => StrayedOnlyIfGone
  BY DEF SelectionKept, SelectionBase, Reached, StrayedOnlyIfGone
<1> QED
  BY <1>1, <1>2, <1>3, PTL DEF SelectionSpec

=============================================================================
