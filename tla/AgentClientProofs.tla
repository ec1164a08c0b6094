-------------------------- MODULE AgentClientProofs --------------------------
(***************************************************************************)
(* Theorems about the programs that use the daemon, for every value of     *)
(* their constants: the MCP adapter of an agent, the loop of an agent's    *)
(* run, the update of the installation and the request to the model.       *)
(***************************************************************************)
EXTENDS AdapterClient, AgentLoop, ReleaseUpdate, ModelContext, FiniteSetTheorems, SequenceLemmas

(* AdapterClient *)

CallRecord == [at : {"idle", "connecting", "pending", "lost", "reconnecting", "backoff"} \cup Outcomes,
               on : Nat, sending : 1..2, tries : Nat, resend : BOOLEAN, aborted : BOOLEAN]

\* No request of the call has been handed to a socket.
Undispatched(k) == \/ k.at \in {"idle", "connecting"}
                   \/ k.at \in {"reconnecting", "backoff"} /\ k.resend

NeverSent(c) == ran[c] = 0 /\ \A m \in wire : m.call # c

\* A write is on its way once, or has run, and never both; it is sent only while
\* nothing of it is.
WriteSound(c) ==
    /\ Undispatched(call[c]) => NeverSent(c)
    /\ \A m, n \in wire : m.call = c /\ n.call = c => m = n
    /\ \A m \in wire : m.call = c => ran[c] = 0
    /\ ran[c] \in 0..1

AdapterTyped ==
    /\ socket \in {0} \cup Sockets /\ connecting \in {0} \cup Sockets
    /\ link \in [Sockets -> LinkStates]
    /\ call \in [Calls -> CallRecord]
    /\ ran \in [Calls -> Nat]

PendingIsHeld == \A c \in Calls : call[c].at = "pending" =>
                    call[c].on \in Sockets /\ link[call[c].on] \in Usable \cup {"closing"}

AdapterInv == AdapterTyped /\ PendingIsHeld /\ \A c \in WriteCalls : WriteSound(c)

\* The socket that is opened has never been used.
LEMMA FreeSocketIsUnused ==
  ASSUME AdapterAssumption, AdapterInv, \E s \in Sockets : link[s] = "unused"
  PROVE  FreeSocket \in Sockets /\ link[FreeSocket] = "unused"
<1> DEFINE S == {s \in Sockets : link[s] = "unused"}
<1>1. S # {} /\ S \subseteq Nat
  BY DEF Sockets, AdapterAssumption
<1>2. PICK s \in S : \A j \in S : s <= j
  BY <1>1, LeastOf
<1>3. \A r \in 1..(s - 1) : r \in Sockets /\ r \notin S
  BY <1>1, <1>2 DEF Sockets, AdapterAssumption
<1>4. \E t \in Sockets : link[t] = "unused" /\ \A r \in 1..(t - 1) : link[r] # "unused"
  BY <1>2, <1>3
<1> QED
  BY <1>4 DEF FreeSocket

\* A call that changes without being sent, while a socket may be opened.
LEMMA CallChanges ==
  ASSUME AdapterAssumption, AdapterInv, NEW c \in Calls, NEW k \in CallRecord,
         call' = [call EXCEPT ![c] = k], k.at # "pending",
         c \in WriteCalls /\ Undispatched(k) => NeverSent(c),
         UNCHANGED <<wire, ran>>,
         \/ UNCHANGED <<socket, connecting, link>>
         \/ /\ \E s \in Sockets : link[s] = "unused"
            /\ socket' = FreeSocket /\ connecting' = FreeSocket
            /\ link' = [link EXCEPT ![FreeSocket] = "opening"]
  PROVE  AdapterInv'
<1>1. AdapterTyped' /\ \A s \in Sockets : link'[s] = link[s] \/ link[s] = "unused"
  BY FreeSocketIsUnused DEF AdapterInv, AdapterTyped, LinkStates
<1>2. call'[c] = k /\ \A d \in Calls \ {c} : call'[d] = call[d]
  BY DEF AdapterInv, AdapterTyped
<1>3. PendingIsHeld'
  BY <1>1, <1>2 DEF AdapterInv, PendingIsHeld, Usable
<1>4. ASSUME NEW d \in WriteCalls
      PROVE  WriteSound(d)'
  <2>1. WriteSound(d) /\ d \in Calls
    BY DEF AdapterInv, AdapterAssumption
  <2>2. CASE d = c
    BY <1>2, <2>1, <2>2 DEF WriteSound, NeverSent
  <2>3. CASE d # c
    BY <1>2, <2>1, <2>3 DEF WriteSound, NeverSent
  <2> QED
    BY <2>2, <2>3
<1> QED
  BY <1>1, <1>3, <1>4 DEF AdapterInv

LEMMA Sends ==
  ASSUME AdapterAssumption, AdapterInv, NEW c \in Calls, NEW k \in CallRecord,
         SendRequest(c, k), InUse, c \in WriteCalls => NeverSent(c), UNCHANGED ran
  PROVE  AdapterInv'
<1> DEFINE m == [call |-> c, sending |-> k.sending, on |-> socket, early |-> link[socket] = "open"]
           j == [k EXCEPT !.at = "pending", !.on = socket]
<1>1. /\ call' = [call EXCEPT ![c] = j] /\ wire' = wire \cup {m}
      /\ UNCHANGED <<socket, connecting, link>>
  BY DEF SendRequest
<1>2. socket \in Sockets /\ socket \in Nat /\ link[socket] \in Usable
  BY DEF InUse, AdapterInv, AdapterTyped, Sockets, AdapterAssumption
<1>3. j \in CallRecord /\ j.at = "pending" /\ j.on = socket
  BY <1>2 DEF CallRecord
<1>4. m.call = c
  OBVIOUS
<1> HIDE DEF m, j
<1>5. call'[c] = j /\ \A d \in Calls \ {c} : call'[d] = call[d]
  BY <1>1 DEF AdapterInv, AdapterTyped
<1>6. AdapterTyped'
  BY <1>1, <1>3 DEF AdapterInv, AdapterTyped
<1>7. PendingIsHeld'
  BY <1>1, <1>2, <1>3, <1>5 DEF AdapterInv, PendingIsHeld
<1>8. ASSUME NEW d \in WriteCalls
      PROVE  WriteSound(d)'
  <2>1. WriteSound(d) /\ d \in Calls
    BY DEF AdapterInv, AdapterAssumption
  <2>2. CASE d = c
    BY <1>1, <1>3, <1>4, <1>5, <2>1, <2>2 DEF WriteSound, NeverSent, Undispatched
  <2>3. CASE d # c
    BY <1>1, <1>4, <1>5, <2>1, <2>3 DEF WriteSound, NeverSent, Undispatched
  <2> QED
    BY <2>2, <2>3
<1> QED
  BY <1>6, <1>7, <1>8 DEF AdapterInv

LEMMA AgentAsks ==
  ASSUME AdapterAssumption, AdapterInv, NEW c \in Calls, NEW k \in CallRecord,
         RequestTool(c, k), c \in WriteCalls => NeverSent(c), UNCHANGED ran
  PROVE  AdapterInv'
<1>1. CASE k.aborted
  <2>1. [k EXCEPT !.at = "cancelled"] \in CallRecord
    BY DEF CallRecord, Outcomes
  <2> QED
    BY <1>1, <2>1, CallChanges DEF RequestTool, CallRecord
<1>2. CASE ~k.aborted /\ InUse
  BY <1>2, Sends DEF RequestTool
<1>3. CASE ~k.aborted /\ ~InUse
  <2> DEFINE j(s) == [k EXCEPT !.at = "connecting", !.on = s]
  <2>1. \A s \in Nat : j(s) \in CallRecord /\ j(s).at = "connecting"
    BY DEF CallRecord
  <2>2. /\ UNCHANGED wire
        /\ \/ /\ call' = [call EXCEPT ![c] = j(connecting)]
              /\ UNCHANGED <<socket, connecting, link>>
           \/ /\ \E s \in Sockets : link[s] = "unused"
              /\ socket' = FreeSocket /\ connecting' = FreeSocket
              /\ link' = [link EXCEPT ![FreeSocket] = "opening"]
              /\ call' = [call EXCEPT ![c] = j(FreeSocket)]
    BY <1>3 DEF RequestTool, Ensure
  <2> HIDE DEF j
  <2>3. connecting \in Nat
    BY DEF AdapterInv, AdapterTyped, Sockets, AdapterAssumption
  <2>4. (\E s \in Sockets : link[s] = "unused") => FreeSocket \in Nat
    BY FreeSocketIsUnused DEF Sockets, AdapterAssumption
  <2> QED
    BY <2>1, <2>2, <2>3, <2>4, CallChanges
<1> QED
  BY <1>1, <1>2, <1>3

LEMMA Resumes ==
  ASSUME AdapterAssumption, AdapterInv, NEW c \in Calls, NEW k \in CallRecord,
         ResumeCall(c, k), c \in WriteCalls /\ k.resend => NeverSent(c), UNCHANGED ran
  PROVE  AdapterInv'
<1>1. CASE k.resend
  <2>1. [k EXCEPT !.sending = 2] \in CallRecord
    BY DEF CallRecord
  <2> QED
    BY <1>1, <2>1, AgentAsks DEF ResumeCall
<1>2. CASE ~k.resend
  <2>1. [k EXCEPT !.at = "unknown"] \in CallRecord /\ [k EXCEPT !.at = "unknown"].at = "unknown"
    BY DEF CallRecord, Outcomes
  <2> QED
    BY <1>2, <2>1, CallChanges DEF ResumeCall, Undispatched
<1> QED
  BY <1>1, <1>2

LEMMA Attempts ==
  ASSUME AdapterAssumption, AdapterInv, NEW c \in Calls, NEW k \in CallRecord,
         Attempt(c, k), c \in WriteCalls /\ k.resend => NeverSent(c), UNCHANGED ran
  PROVE  AdapterInv'
<1>1. CASE k.aborted
  <2>1. [k EXCEPT !.at = "unreachable"] \in CallRecord /\ [k EXCEPT !.at = "unreachable"].at = "unreachable"
    BY DEF CallRecord, Outcomes
  <2> QED
    BY <1>1, <2>1, CallChanges DEF Attempt, Undispatched
<1>2. CASE ~k.aborted /\ InUse
  BY <1>2, Resumes DEF Attempt
<1>3. CASE ~k.aborted /\ ~InUse
  <2> DEFINE j(s) == [[k EXCEPT !.at = "reconnecting", !.tries = @ + 1] EXCEPT !.on = s]
  <2>1. ASSUME NEW s \in Nat
        PROVE  j(s) \in CallRecord /\ j(s).at = "reconnecting" /\ j(s).resend = k.resend
    <3> DEFINE i == [k EXCEPT !.at = "reconnecting", !.tries = @ + 1]
    <3>1. k.tries + 1 \in Nat
      BY DEF CallRecord
    <3>2. i \in CallRecord /\ i.at = "reconnecting" /\ i.resend = k.resend
      BY <3>1 DEF CallRecord
    <3> HIDE DEF i
    <3>3. [i EXCEPT !.on = s] \in CallRecord /\ [i EXCEPT !.on = s].at = i.at
          /\ [i EXCEPT !.on = s].resend = i.resend
      BY <3>2 DEF CallRecord
    <3> QED
      BY <3>2, <3>3 DEF i
  <2>2. /\ UNCHANGED wire
        /\ \/ /\ call' = [call EXCEPT ![c] = j(connecting)]
              /\ UNCHANGED <<socket, connecting, link>>
           \/ /\ \E s \in Sockets : link[s] = "unused"
              /\ socket' = FreeSocket /\ connecting' = FreeSocket
              /\ link' = [link EXCEPT ![FreeSocket] = "opening"]
              /\ call' = [call EXCEPT ![c] = j(FreeSocket)]
    BY <1>3 DEF Attempt, Ensure
  <2> HIDE DEF j
  <2>3. connecting \in Nat
    BY DEF AdapterInv, AdapterTyped, Sockets, AdapterAssumption
  <2>4. (\E s \in Sockets : link[s] = "unused") => FreeSocket \in Nat
    BY FreeSocketIsUnused DEF Sockets, AdapterAssumption
  <2> QED
    BY <2>1, <2>2, <2>3, <2>4, CallChanges DEF Undispatched
<1> QED
  BY <1>1, <1>2, <1>3

LEMMA FailsOver ==
  ASSUME AdapterAssumption, AdapterInv, NEW c \in Calls, NEW b \in BOOLEAN,
         ConnectionFailed(c, b), c \in WriteCalls /\ b => NeverSent(c), UNCHANGED ran
  PROVE  AdapterInv'
<1>1. call[c] \in CallRecord
  BY DEF AdapterInv, AdapterTyped
<1>2. CASE call[c].sending = 2
  <2> DEFINE k == [call[c] EXCEPT !.at = "dropped"]
  <2>1. k \in CallRecord /\ k.at = "dropped"
    BY <1>1 DEF CallRecord, Outcomes
  <2>2. call' = [call EXCEPT ![c] = k] /\ UNCHANGED <<socket, connecting, link, wire>>
    BY <1>2 DEF ConnectionFailed
  <2> HIDE DEF k
  <2> QED
    BY <2>1, <2>2, CallChanges DEF Undispatched
<1>3. CASE call[c].sending # 2
  <2> DEFINE k == [call[c] EXCEPT !.resend = MayResend(c, b)]
  <2>1. k \in CallRecord /\ k.resend = MayResend(c, b)
    BY <1>1 DEF CallRecord, MayResend
  <2>2. Attempt(c, k)
    BY <1>3 DEF ConnectionFailed
  <2> HIDE DEF k
  <2>3. c \in WriteCalls /\ k.resend => NeverSent(c)
    BY <2>1 DEF MayResend
  <2> QED
    BY <2>1, <2>2, <2>3, Attempts
<1> QED
  BY <1>2, <1>3


\* A step that moves no call and sends nothing, and whose sockets go on.
LEMMA LinksMove ==
  ASSUME AdapterAssumption, AdapterInv, UNCHANGED <<call, wire, ran>>,
         socket' \in {0, socket}, connecting' \in {0, connecting},
         link' \in [Sockets -> LinkStates],
         \A s \in Sockets : link[s] \in Usable \cup {"closing"} => link'[s] \in Usable \cup {"closing"}
  PROVE  AdapterInv'
<1>1. AdapterTyped'
  BY DEF AdapterInv, AdapterTyped
<1>2. PendingIsHeld'
  BY DEF AdapterInv, PendingIsHeld
<1>3. \A c \in WriteCalls : WriteSound(c)'
  BY DEF AdapterInv, WriteSound, NeverSent
<1> QED
  BY <1>1, <1>2, <1>3 DEF AdapterInv

LEMMA AdapterStep ==
  ASSUME AdapterAssumption, AdapterInv, [AdapterNext]_adapterVars
  PROVE  AdapterInv'
<1>0. /\ \A c \in Calls : call[c] \in CallRecord
      /\ \A c \in WriteCalls : c \in Calls /\ WriteSound(c)
  BY DEF AdapterInv, AdapterTyped, AdapterAssumption
<1>1. ASSUME NEW c \in Calls, CallTool(c)
      PROVE  AdapterInv'
  BY <1>0, <1>1, AgentAsks DEF CallTool, WriteSound, Undispatched
<1>2. ASSUME NEW c \in Calls, ContinueCall(c)
      PROVE  AdapterInv'
  <2>1. CASE call[c].at = "lost"
    <3>1. ConnectionFailed(c, FALSE) /\ UNCHANGED ran
      BY <1>2, <2>1 DEF ContinueCall
    <3> QED
      BY <3>1, FailsOver
  <2>2. CASE call[c].at = "connecting"
    <3>1. c \in WriteCalls => NeverSent(c)
      BY <1>0, <2>2 DEF WriteSound, Undispatched
    <3>2. \/ InUse /\ SendRequest(c, call[c])
          \/ ConnectionFailed(c, TRUE)
          \/ /\ call' = [call EXCEPT ![c].at = "refused"]
             /\ UNCHANGED <<socket, connecting, link, wire>>
      BY <1>2, <2>2 DEF ContinueCall
    <3>3. UNCHANGED ran
      BY <1>2 DEF ContinueCall
    <3>4. CASE InUse /\ SendRequest(c, call[c])
      BY <1>0, <3>1, <3>3, <3>4, Sends
    <3>5. CASE ConnectionFailed(c, TRUE)
      BY <3>1, <3>3, <3>5, FailsOver
    <3>6. CASE /\ call' = [call EXCEPT ![c].at = "refused"]
               /\ UNCHANGED <<socket, connecting, link, wire>>
      <4>1. [call[c] EXCEPT !.at = "refused"] \in CallRecord /\ [call[c] EXCEPT !.at = "refused"].at = "refused"
        BY <1>0 DEF CallRecord, Outcomes
      <4> QED
        BY <3>3, <3>6, <4>1, CallChanges DEF Undispatched
    <3> QED
      BY <3>2, <3>4, <3>5, <3>6
  <2>3. CASE call[c].at = "reconnecting"
    <3> DEFINE at == IF call[c].tries < MaxTries THEN "backoff" ELSE "unreachable"
    <3>1. \/ ResumeCall(c, call[c])
          \/ /\ call' = [call EXCEPT ![c].at = at]
             /\ UNCHANGED <<socket, connecting, link, wire>>
      BY <1>2, <2>3 DEF ContinueCall
    <3>2. UNCHANGED ran
      BY <1>2 DEF ContinueCall
    <3>3. c \in WriteCalls /\ call[c].resend => NeverSent(c)
      BY <1>0, <2>3 DEF WriteSound, Undispatched
    <3>4. at \in {"backoff", "unreachable"}
      OBVIOUS
    <3> HIDE DEF at
    <3>5. CASE ResumeCall(c, call[c])
      BY <1>0, <3>2, <3>3, <3>5, Resumes
    <3>6. CASE /\ call' = [call EXCEPT ![c].at = at]
               /\ UNCHANGED <<socket, connecting, link, wire>>
      <4> DEFINE k == [call[c] EXCEPT !.at = at]
      <4>1. k \in CallRecord /\ k.at = at /\ k.resend = call[c].resend
        BY <1>0, <3>4 DEF CallRecord, Outcomes
      <4>2. call' = [call EXCEPT ![c] = k]
        BY <3>6
      <4> HIDE DEF k
      <4>3. c \in WriteCalls /\ Undispatched(k) => NeverSent(c)
        BY <3>3, <3>4, <4>1 DEF Undispatched
      <4> QED
        BY <3>2, <3>4, <3>6, <4>1, <4>2, <4>3, CallChanges
    <3> QED
      BY <3>1, <3>5, <3>6
  <2> QED
    BY <1>2, <2>1, <2>2, <2>3 DEF ContinueCall, Awake, Waiting
<1>3. ASSUME NEW c \in Calls, BackedOff(c)
      PROVE  AdapterInv'
  <2>1. c \in WriteCalls /\ call[c].resend => NeverSent(c)
    BY <1>0, <1>3 DEF BackedOff, WriteSound, Undispatched
  <2> QED
    BY <1>0, <1>3, <2>1, Attempts DEF BackedOff
<1>4. ASSUME NEW c \in Calls, AbortCall(c)
      PROVE  AdapterInv'
  <2> DEFINE at == CASE call[c].at = "pending" -> "cancelled"
                     [] call[c].at = "backoff" -> "unreachable"
                     [] OTHER                  -> call[c].at
             k  == [[call[c] EXCEPT !.aborted = TRUE] EXCEPT !.at = at]
  <2>1. at \in {"cancelled", "unreachable"} \/ (at = call[c].at /\ at # "pending")
    OBVIOUS
  <2>2. call' = [call EXCEPT ![c] = k]
    BY <1>4 DEF AbortCall
  <2> HIDE DEF at
  <2>3. k \in CallRecord /\ k.at = at /\ k.resend = call[c].resend
    <3>1. call[c] \in CallRecord
      BY <1>0
    <3>2. at \in {"idle", "connecting", "pending", "lost", "reconnecting", "backoff"} \cup Outcomes
      BY <2>1, <3>1 DEF CallRecord, Outcomes
    <3> QED
      BY <3>1, <3>2 DEF CallRecord
  <2> HIDE DEF k
  <2>4. c \in WriteCalls /\ Undispatched(k) => NeverSent(c)
    BY <1>0, <2>1, <2>3 DEF Undispatched, WriteSound
  <2>5. k.at # "pending"
    BY <2>1, <2>3
  <2> QED
    BY <1>4, <2>2, <2>3, <2>4, <2>5, CallChanges DEF AbortCall
<1>5. ASSUME NEW c \in Calls, ExpireCall(c)
      PROVE  AdapterInv'
  <2> DEFINE k == [call[c] EXCEPT !.at = "expired"]
  <2>1. k \in CallRecord /\ k.at = "expired"
    BY <1>0 DEF CallRecord, Outcomes
  <2>2. call' = [call EXCEPT ![c] = k]
    BY <1>5 DEF ExpireCall
  <2> HIDE DEF k
  <2> QED
    BY <1>5, <2>1, <2>2, CallChanges DEF ExpireCall, Undispatched
<1>6. ASSUME NEW s \in Sockets, OpenSocket(s)
      PROVE  AdapterInv'
  BY <1>6, LinksMove DEF OpenSocket, AdapterInv, AdapterTyped, LinkStates, Usable
<1>7. ASSUME NEW s \in Sockets, SendHello(s)
      PROVE  AdapterInv'
  BY <1>7, LinksMove DEF SendHello, AdapterInv, AdapterTyped, LinkStates, Usable
<1>8. ASSUME NEW s \in Sockets, Welcome(s)
      PROVE  AdapterInv'
  BY <1>8, LinksMove DEF Welcome, Settle, AdapterInv, AdapterTyped, LinkStates, Usable
<1>9. ASSUME NEW s \in Sockets, FailConnection(s)
      PROVE  AdapterInv'
  BY <1>9, LinksMove DEF FailConnection, Settle, AdapterInv, AdapterTyped, LinkStates, Usable
<1>10. ASSUME NEW s \in Sockets, Closed(s)
       PROVE  AdapterInv'
  <2>1. AdapterTyped'
    <3>1. \A c \in Calls : [call[c] EXCEPT !.at = "lost"] \in CallRecord
      BY <1>0 DEF CallRecord
    <3>2. call' \in [Calls -> CallRecord]
      BY <1>0, <1>10, <3>1 DEF Closed, RejectPending
    <3> QED
      BY <1>10, <3>2 DEF Closed, AdapterInv, AdapterTyped, LinkStates
  <2>2. \A c \in Calls : call'[c].at # "pending" /\ (call'[c] = call[c] \/ call'[c].at = "lost")
    BY <1>0, <1>10 DEF Closed, RejectPending, CallRecord
  <2>3. wire' \subseteq wire /\ ran' = ran
    BY <1>10 DEF Closed
  <2>4. PendingIsHeld'
    BY <2>2 DEF PendingIsHeld
  <2>5. \A c \in WriteCalls : WriteSound(c)'
    BY <1>0, <2>2, <2>3 DEF WriteSound, NeverSent, Undispatched
  <2> QED
    BY <2>1, <2>4, <2>5 DEF AdapterInv
<1>11. ASSUME NEW m \in wire, Execute(m)
       PROVE  AdapterInv'
  <2>1. CASE m.early
    <3>1. /\ link' = [link EXCEPT ![m.on] = "closing"] /\ UNCHANGED <<ran, call>> /\ wire' = wire \ {m}
          /\ socket' \in {0, socket} /\ connecting' \in {0, connecting}
      BY <1>11, <2>1 DEF Execute, Settle
    <3>2. AdapterTyped'
      BY <3>1 DEF AdapterInv, AdapterTyped, LinkStates
    <3>3. PendingIsHeld'
      BY <3>1 DEF AdapterInv, AdapterTyped, PendingIsHeld
    <3>4. \A c \in WriteCalls : WriteSound(c)'
      BY <1>0, <3>1 DEF WriteSound, NeverSent
    <3> QED
      BY <3>2, <3>3, <3>4 DEF AdapterInv
  <2>2. CASE ~m.early
    <3>1. /\ ran' = [ran EXCEPT ![m.call] = @ + 1] /\ wire' = wire \ {m}
          /\ UNCHANGED <<link, socket, connecting, call>>
      BY <1>11, <2>2 DEF Execute
    <3>2. AdapterTyped'
      <4>1. ran \in [Calls -> Nat]
        BY DEF AdapterInv, AdapterTyped
      <4>2. \A c \in Calls : ran[c] + 1 \in Nat
        BY <4>1
      <4>3. ran' \in [Calls -> Nat]
        BY <3>1, <4>1, <4>2
      <4> QED
        BY <3>1, <4>3 DEF AdapterInv, AdapterTyped
    <3>3. PendingIsHeld'
      BY <3>1 DEF AdapterInv, PendingIsHeld
    <3>4. ASSUME NEW c \in WriteCalls
          PROVE  WriteSound(c)'
      <4>1. WriteSound(c) /\ c \in Calls
        BY <1>0
      <4>2. CASE m.call = c
        <5>1. ran'[c] = 1 /\ \A n \in wire' : n.call # c
          BY <1>11, <3>1, <4>1, <4>2 DEF WriteSound, AdapterInv, AdapterTyped
        <5>2. ~Undispatched(call'[c])
          BY <1>11, <3>1, <4>1, <4>2 DEF WriteSound, NeverSent
        <5> QED
          BY <5>1, <5>2 DEF WriteSound
      <4>3. CASE m.call # c
        <5>1. ran'[c] = ran[c]
          BY <3>1, <4>1, <4>3 DEF AdapterInv, AdapterTyped
        <5> QED
          BY <3>1, <4>1, <5>1 DEF WriteSound, NeverSent
      <4> QED
        BY <4>2, <4>3
    <3> QED
      BY <3>2, <3>3, <3>4 DEF AdapterInv
  <2> QED
    BY <2>1, <2>2
<1>12. ASSUME NEW m \in replies, Reply(m)
       PROVE  AdapterInv'
  <2> DEFINE c == m.call
             k == [call[c] EXCEPT !.at = "result"]
  <2>1. CASE c \in Calls /\ call[c].at = "pending" /\ call[c].sending = m.sending
    <3>1. k \in CallRecord /\ k.at = "result"
      BY <1>0, <2>1 DEF CallRecord, Outcomes
    <3>2. call' = [call EXCEPT ![c] = k]
      BY <1>12, <2>1 DEF Reply
    <3> HIDE DEF k, c
    <3> QED
      BY <1>12, <2>1, <3>1, <3>2, CallChanges DEF Reply, Undispatched
  <2>2. CASE ~(c \in Calls /\ call[c].at = "pending" /\ call[c].sending = m.sending)
    <3>1. call' = call
      BY <1>12, <2>2 DEF Reply, AdapterInv, AdapterTyped
    <3> QED
      BY <1>12, <3>1, LinksMove DEF Reply, AdapterInv, AdapterTyped
  <2> QED
    BY <2>1, <2>2
<1>13. CASE UNCHANGED adapterVars
  BY <1>13, LinksMove DEF adapterVars, AdapterInv, AdapterTyped
<1> QED
  BY <1>1, <1>2, <1>3, <1>4, <1>5, <1>6, <1>7, <1>8, <1>9, <1>10, <1>11, <1>12, <1>13 DEF AdapterNext

LEMMA AdapterStarts ==
  ASSUME AdapterAssumption, AdapterInit
  PROVE  AdapterInv
<1>1. Idle \in CallRecord /\ Idle.at = "idle"
  BY DEF Idle, CallRecord
<1>2. AdapterTyped
  BY <1>1 DEF AdapterInit, AdapterTyped, LinkStates
<1>3. PendingIsHeld
  BY <1>1 DEF AdapterInit, PendingIsHeld
<1>4. \A c \in WriteCalls : WriteSound(c)
  BY AdapterAssumption DEF AdapterInit, WriteSound, NeverSent, AdapterAssumption
<1> QED
  BY <1>2, <1>3, <1>4 DEF AdapterInv

\* Whatever connections are lost and reopened, a write is executed at most once
\* for one call, and no call waits for an answer on a socket that is gone.
THEOREM LinksLost == AdapterSpec => []CallsOutliveLinks
<1>1. AdapterInit => AdapterInv
  BY AdapterStarts, AdapterAssumption
<1>2. AdapterInv /\ [AdapterNext]_adapterVars => AdapterInv'
  BY AdapterStep, AdapterAssumption
<1>3. AdapterInv => CallsOutliveLinks
  BY DEF AdapterInv, WriteSound, PendingIsHeld, CallsOutliveLinks, WriteRunsOnce, NoCallStranded, Usable
<1> QED
  BY <1>1, <1>2, <1>3, PTL DEF AdapterSpec

(* How often a call is sent and tried. *)

\* The requests that a call has handed to sockets.
Dispatched(at, s) == IF at \in {"idle", "connecting"} THEN s - 1 ELSE s

OnWire(c, s) == IF \E m \in wire : m.call = c /\ m.sending = s THEN 1 ELSE 0

\* The reconnection is of the first sending, and begins with no attempt made.
StandingSound(at, s, t) ==
  /\ s \in 1 .. 2 /\ t \in 0 .. MaxTries
  /\ at = "backoff" => t < MaxTries
  /\ at \in {"reconnecting", "backoff"} => s = 1
  /\ s = 1 /\ at \in {"idle", "connecting", "pending", "lost"} => t = 0

\* What is on its way of a call, and what has run, are of different sendings.
SendingsCounted(c) ==
  /\ \A m \in wire : m.call = c => m.sending \in 1 .. Dispatched(call[c].at, call[c].sending)
  /\ \A m, n \in wire : m.call = c /\ n.call = c /\ m.sending = n.sending => m = n
  /\ ran[c] + OnWire(c, 1) + OnWire(c, 2) <= Dispatched(call[c].at, call[c].sending)

CallCounted(c) == StandingSound(call[c].at, call[c].sending, call[c].tries) /\ SendingsCounted(c)

AdapterCounts ==
  /\ beating \in {0} \cup Sockets
  /\ handshake \in [Sockets -> {"pending", "ok", "lost", "refused"}]
  /\ \A c \in Calls : CallCounted(c)

\* The call comes to be somewhere; a request of it is sent or not.
Becomes(c, at, s, t) ==
  \E j : call' = [call EXCEPT ![c] = j] /\ j.at = at /\ j.sending = s /\ j.tries = t
SentOnce(c, s) == \E m : wire' = wire \cup {m} /\ m.call = c /\ m.sending = s

LEMMA ItBecomes ==
  ASSUME NEW c, NEW j, NEW at, NEW s, NEW t,
         call' = [call EXCEPT ![c] = j], j.at = at /\ j.sending = s /\ j.tries = t
  PROVE  Becomes(c, at, s, t)
BY DEF Becomes

LEMMA RecordMoves ==
  ASSUME NEW k \in CallRecord, NEW at, NEW on
  PROVE  /\ [k EXCEPT !.at = at].at = at /\ [k EXCEPT !.at = at].sending = k.sending
         /\ [k EXCEPT !.at = at].tries = k.tries
         /\ [k EXCEPT !.on = on].at = k.at /\ [k EXCEPT !.on = on].sending = k.sending
         /\ [k EXCEPT !.on = on].tries = k.tries
         /\ [k EXCEPT !.at = at, !.on = on].at = at /\ [k EXCEPT !.at = at, !.on = on].sending = k.sending
         /\ [k EXCEPT !.at = at, !.on = on].tries = k.tries
BY DEF CallRecord

LEMMA RequestShapes ==
  ASSUME NEW c, NEW k \in CallRecord, RequestTool(c, k)
  PROVE  \/ wire' = wire /\ Becomes(c, "cancelled", k.sending, k.tries)
         \/ wire' = wire /\ ~InUse /\ Becomes(c, "connecting", k.sending, k.tries)
         \/ SentOnce(c, k.sending) /\ Becomes(c, "pending", k.sending, k.tries)
<1>1. CASE k.aborted
  <2>1. PICK j : j = [k EXCEPT !.at = "cancelled"]
    OBVIOUS
  <2>2. wire' = wire /\ call' = [call EXCEPT ![c] = j]
    BY <1>1, <2>1 DEF RequestTool
  <2>3. j.at = "cancelled" /\ j.sending = k.sending /\ j.tries = k.tries
    BY <2>1, RecordMoves
  <2>4. Becomes(c, "cancelled", k.sending, k.tries)
    BY <2>2, <2>3, ItBecomes
  <2> QED
    BY <2>2, <2>4
<1>2. CASE ~k.aborted /\ InUse
  <2>1. PICK j, m : /\ j = [k EXCEPT !.at = "pending", !.on = socket]
                    /\ m = [call |-> c, sending |-> k.sending, on |-> socket, early |-> link[socket] = "open"]
    OBVIOUS
  <2>2. wire' = wire \cup {m} /\ call' = [call EXCEPT ![c] = j] /\ m.call = c /\ m.sending = k.sending
    BY <1>2, <2>1 DEF RequestTool, SendRequest
  <2>3. j.at = "pending" /\ j.sending = k.sending /\ j.tries = k.tries
    BY <2>1, RecordMoves
  <2>4. Becomes(c, "pending", k.sending, k.tries)
    BY <2>2, <2>3, ItBecomes
  <2> QED
    BY <2>2, <2>4 DEF SentOnce
<1>3. CASE ~k.aborted /\ ~InUse
  <2>1. PICK i : i = [k EXCEPT !.at = "connecting"]
    OBVIOUS
  <2>2. wire' = wire /\ \E o : call' = [call EXCEPT ![c] = [i EXCEPT !.on = o]]
    BY <1>3, <2>1 DEF RequestTool, Ensure
  <2>3. PICK o, j : j = [i EXCEPT !.on = o] /\ call' = [call EXCEPT ![c] = j]
    BY <2>2
  <2>4. j.at = "connecting" /\ j.sending = k.sending /\ j.tries = k.tries
    BY <2>1, <2>3 DEF CallRecord
  <2>5. Becomes(c, "connecting", k.sending, k.tries)
    BY <2>3, <2>4, ItBecomes
  <2> QED
    BY <1>3, <2>2, <2>5
<1> QED
  BY <1>1, <1>2, <1>3

LEMMA ResumeShapes ==
  ASSUME NEW c, NEW k \in CallRecord, ResumeCall(c, k)
  PROVE  \/ wire' = wire /\ \E s \in {k.sending, 2}, at \in {"cancelled", "unknown"} : Becomes(c, at, s, k.tries)
         \/ wire' = wire /\ ~InUse /\ Becomes(c, "connecting", 2, k.tries)
         \/ SentOnce(c, 2) /\ Becomes(c, "pending", 2, k.tries)
<1>1. CASE k.resend
  <2>1. PICK j : j = [k EXCEPT !.sending = 2]
    OBVIOUS
  <2>2. j \in CallRecord /\ j.sending = 2 /\ j.tries = k.tries
    BY <2>1 DEF CallRecord
  <2>3. RequestTool(c, j)
    BY <1>1, <2>1 DEF ResumeCall
  <2> QED
    BY <2>2, <2>3, RequestShapes
<1>2. CASE ~k.resend
  <2>1. wire' = wire /\ Becomes(c, "unknown", k.sending, k.tries)
    <3>1. PICK j : j = [k EXCEPT !.at = "unknown"]
      OBVIOUS
    <3>2. wire' = wire /\ call' = [call EXCEPT ![c] = j]
      BY <1>2, <3>1 DEF ResumeCall
    <3>3. j.at = "unknown" /\ j.sending = k.sending /\ j.tries = k.tries
      BY <3>1, RecordMoves
    <3>4. Becomes(c, "unknown", k.sending, k.tries)
      BY <3>2, <3>3, ItBecomes
    <3> QED
      BY <3>2, <3>4
  <2> QED
    BY <2>1
<1> QED
  BY <1>1, <1>2

LEMMA AttemptShapes ==
  ASSUME NEW c, NEW k \in CallRecord, Attempt(c, k)
  PROVE  \/ wire' = wire /\ \E s \in {k.sending, 2}, at \in {"cancelled", "unknown", "unreachable"} :
                              Becomes(c, at, s, k.tries)
         \/ wire' = wire /\ Becomes(c, "reconnecting", k.sending, k.tries + 1)
         \/ SentOnce(c, 2) /\ Becomes(c, "pending", 2, k.tries)
<1>1. CASE k.aborted
  <2>1. wire' = wire /\ Becomes(c, "unreachable", k.sending, k.tries)
    <3>1. PICK j : j = [k EXCEPT !.at = "unreachable"]
      OBVIOUS
    <3>2. wire' = wire /\ call' = [call EXCEPT ![c] = j]
      BY <1>1, <3>1 DEF Attempt
    <3>3. j.at = "unreachable" /\ j.sending = k.sending /\ j.tries = k.tries
      BY <3>1, RecordMoves
    <3>4. Becomes(c, "unreachable", k.sending, k.tries)
      BY <3>2, <3>3, ItBecomes
    <3> QED
      BY <3>2, <3>4
  <2> QED
    BY <2>1
<1>2. CASE ~k.aborted /\ InUse
  BY <1>2, ResumeShapes DEF Attempt
<1>3. CASE ~k.aborted /\ ~InUse
  <2>1. PICK j : j = [k EXCEPT !.at = "reconnecting", !.tries = @ + 1]
    OBVIOUS
  <2>2. j.at = "reconnecting" /\ j.sending = k.sending /\ j.tries = k.tries + 1
    BY <2>1 DEF CallRecord
  <2>3. \A o : [j EXCEPT !.on = o].at = j.at /\ [j EXCEPT !.on = o].sending = j.sending
               /\ [j EXCEPT !.on = o].tries = j.tries
    BY <2>1 DEF CallRecord
  <2>4. wire' = wire /\ Ensure(c, j)
    BY <1>3, <2>1 DEF Attempt
  <2>5. \E o : call' = [call EXCEPT ![c] = [j EXCEPT !.on = o]]
    BY <2>4 DEF Ensure
  <2>6. PICK o, i : i = [j EXCEPT !.on = o] /\ call' = [call EXCEPT ![c] = i]
    BY <2>5
  <2>7. i.at = "reconnecting" /\ i.sending = k.sending /\ i.tries = k.tries + 1
    BY <2>2, <2>3, <2>6
  <2>8. Becomes(c, "reconnecting", k.sending, k.tries + 1)
    BY <2>6, <2>7, ItBecomes
  <2> QED
    BY <2>4, <2>8
<1> QED
  BY <1>1, <1>2, <1>3

LEMMA FailureShapes ==
  ASSUME NEW c, call[c] \in CallRecord, NEW b, b \in BOOLEAN, ConnectionFailed(c, b)
  PROVE  \/ wire' = wire /\ \E s \in {call[c].sending, 2}, at \in {"cancelled", "unknown", "unreachable", "dropped"} :
                              Becomes(c, at, s, call[c].tries)
         \/ /\ wire' = wire /\ call[c].sending = 1
            /\ Becomes(c, "reconnecting", 1, call[c].tries + 1)
         \/ /\ SentOnce(c, 2) /\ call[c].sending = 1
            /\ Becomes(c, "pending", 2, call[c].tries)
<1>1. CASE call[c].sending = 2
  <2>1. wire' = wire /\ Becomes(c, "dropped", call[c].sending, call[c].tries)
    BY <1>1 DEF ConnectionFailed, Becomes, CallRecord
  <2> QED
    BY <2>1
<1>2. CASE call[c].sending # 2
  <2>1. PICK k : k = [call[c] EXCEPT !.resend = MayResend(c, b)]
    OBVIOUS
  <2>2. k \in CallRecord /\ k.sending = call[c].sending /\ k.tries = call[c].tries
    BY <2>1 DEF CallRecord, MayResend
  <2>3. Attempt(c, k) /\ call[c].sending = 1
    BY <1>2, <2>1 DEF ConnectionFailed, CallRecord
  <2> QED
    BY <2>2, <2>3, AttemptShapes
<1> QED
  BY <1>1, <1>2

\* A call that no step is about stays as it is.
LEMMA OtherCallsStay ==
  ASSUME NEW d \in Calls, CallCounted(d), call'[d] = call[d], ran'[d] = ran[d],
         \A m : m.call = d => (m \in wire' <=> m \in wire)
  PROVE  CallCounted(d)'
<1>1. OnWire(d, 1)' = OnWire(d, 1) /\ OnWire(d, 2)' = OnWire(d, 2)
  BY DEF OnWire
<1> QED
  BY <1>1 DEF CallCounted, SendingsCounted

LEMMA UnsentIsCounted ==
  ASSUME call \in [Calls -> CallRecord], \A d \in Calls : CallCounted(d),
         NEW c \in Calls, NEW at, NEW s \in Nat, NEW t, Becomes(c, at, s, t), StandingSound(at, s, t),
         Dispatched(call[c].at, call[c].sending) <= Dispatched(at, s), ran \in [Calls -> Nat],
         wire' = wire, ran' = ran
  PROVE  \A d \in Calls : CallCounted(d)'
<1>1. PICK j : call' = [call EXCEPT ![c] = j] /\ j.at = at /\ j.sending = s /\ j.tries = t
  BY DEF Becomes
<1>2. call'[c] = j /\ \A d \in Calls \ {c} : call'[d] = call[d]
  BY <1>1
<1>3. ASSUME NEW d \in Calls, d # c
      PROVE  CallCounted(d)'
  BY <1>2, <1>3, OtherCallsStay
<1>4. PICK x, y, r : x = OnWire(c, 1) /\ y = OnWire(c, 2) /\ r = ran[c] /\ {x, y, r} \subseteq Nat
  BY DEF OnWire
<1>5. OnWire(c, 1)' = x /\ OnWire(c, 2)' = y /\ ran'[c] = r
  BY <1>4 DEF OnWire
<1>6. PICK before, now : /\ before = Dispatched(call[c].at, call[c].sending) /\ now = Dispatched(at, s)
                         /\ before \in Int /\ now \in Int /\ before <= now
  BY DEF Dispatched, CallRecord
<1>7. r + x + y <= now /\ \A m \in wire : m.call = c => m.sending \in 1 .. now
  <2>1. r + x + y <= before /\ \A m \in wire : m.call = c => m.sending \in 1 .. before
    BY <1>4, <1>6 DEF CallCounted, SendingsCounted
  <2> QED
    BY <1>4, <1>6, <2>1
<1>8. Dispatched(call'[c].at, call'[c].sending) = now
  BY <1>1, <1>2, <1>6
<1>9. SendingsCounted(c)'
  BY <1>5, <1>7, <1>8 DEF SendingsCounted, CallCounted
<1>10. CallCounted(c)'
  BY <1>1, <1>2, <1>9 DEF CallCounted
<1> QED
  BY <1>3, <1>10

LEMMA SentIsCounted ==
  ASSUME call \in [Calls -> CallRecord], \A d \in Calls : CallCounted(d),
         NEW c \in Calls, NEW s \in 1 .. 2, NEW t, Becomes(c, "pending", s, t), SentOnce(c, s),
         StandingSound("pending", s, t),
         Dispatched(call[c].at, call[c].sending) <= s - 1, ran \in [Calls -> Nat], ran' = ran
  PROVE  \A d \in Calls : CallCounted(d)'
<1>1. PICK j : call' = [call EXCEPT ![c] = j] /\ j.at = "pending" /\ j.sending = s /\ j.tries = t
  BY DEF Becomes
<1>2. call'[c] = j /\ \A d \in Calls \ {c} : call'[d] = call[d]
  BY <1>1
<1>3. PICK m : wire' = wire \cup {m} /\ m.call = c /\ m.sending = s
  BY DEF SentOnce
<1>4. ASSUME NEW d \in Calls, d # c
      PROVE  CallCounted(d)'
  BY <1>2, <1>3, <1>4, OtherCallsStay
<1>5. PICK x, y, r : x = OnWire(c, 1) /\ y = OnWire(c, 2) /\ r = ran[c] /\ {x, y, r} \subseteq Nat
  BY DEF OnWire
<1>6. PICK before : /\ before = Dispatched(call[c].at, call[c].sending) /\ before \in Int /\ before <= s - 1
  BY DEF Dispatched, CallRecord
<1>7. r + x + y <= before /\ \A n \in wire : n.call = c => n.sending \in 1 .. before
  BY <1>5, <1>6 DEF CallCounted, SendingsCounted
<1>8. \A n \in wire : n.call = c => n.sending \in 1 .. s /\ n.sending # s
  BY <1>6, <1>7
<1>9. PICK x2, y2 : /\ x2 = OnWire(c, 1)' /\ y2 = OnWire(c, 2)' /\ {x2, y2} \subseteq Nat
                    /\ x2 + y2 <= x + y + 1
  <2>1. PICK x2, y2 : x2 = OnWire(c, 1)' /\ y2 = OnWire(c, 2)'
    OBVIOUS
  <2>2. (s = 1 => y2 = y) /\ (s = 2 => x2 = x) /\ x2 \in {0, 1} /\ y2 \in {0, 1}
    BY <1>3, <1>5, <2>1 DEF OnWire
  <2> QED
    BY <1>5, <2>1, <2>2
<1>10. r + x2 + y2 <= s
  BY <1>5, <1>6, <1>7, <1>9
<1>11. Dispatched(call'[c].at, call'[c].sending) = s
  BY <1>1, <1>2 DEF Dispatched
<1>12. /\ \A n \in wire' : n.call = c => n.sending \in 1 .. s
       /\ \A n, o \in wire' : n.call = c /\ o.call = c /\ n.sending = o.sending => n = o
  BY <1>3, <1>8 DEF CallCounted, SendingsCounted
<1>13. SendingsCounted(c)'
  BY <1>5, <1>9, <1>10, <1>11, <1>12 DEF SendingsCounted
<1>14. CallCounted(c)'
  BY <1>1, <1>2, <1>13 DEF CallCounted
<1> QED
  BY <1>4, <1>14

\* A call whose attempts go on, or end.
LEMMA AttemptIsCounted ==
  ASSUME AdapterAssumption, call \in [Calls -> CallRecord], \A d \in Calls : CallCounted(d),
         ran \in [Calls -> Nat], ran' = ran,
         NEW c \in Calls, call[c].at \in {"lost", "connecting", "backoff"}, call[c].sending = 1,
         NEW k \in CallRecord, k.sending = 1, k.tries = call[c].tries, Attempt(c, k)
  PROVE  \A d \in Calls : CallCounted(d)'
<1>1. PICK t : t = call[c].tries /\ t \in 0 .. MaxTries /\ t < MaxTries /\ t + 1 \in 0 .. MaxTries
  <2>1. StandingSound(call[c].at, 1, call[c].tries)
    BY DEF CallCounted
  <2> QED
    BY <2>1 DEF StandingSound, AdapterAssumption
<1>2. PICK before : before = Dispatched(call[c].at, 1) /\ before \in 0 .. 1
  BY DEF Dispatched
<1>3. ASSUME NEW n \in {1, 2}, NEW at \in {"cancelled", "unknown", "unreachable"},
             Becomes(c, at, n, t), wire' = wire
      PROVE  \A d \in Calls : CallCounted(d)'
  <2>1. StandingSound(at, n, t) /\ before <= Dispatched(at, n)
    BY <1>1, <1>2 DEF StandingSound, Dispatched
  <2> QED
    BY <1>2, <1>3, <2>1, UnsentIsCounted
<1>4. ASSUME Becomes(c, "reconnecting", 1, t + 1), wire' = wire
      PROVE  \A d \in Calls : CallCounted(d)'
  <2>1. StandingSound("reconnecting", 1, t + 1) /\ before <= Dispatched("reconnecting", 1)
    BY <1>1, <1>2 DEF StandingSound, Dispatched
  <2> QED
    BY <1>2, <1>4, <2>1, UnsentIsCounted
<1>5. ASSUME Becomes(c, "pending", 2, t), SentOnce(c, 2)
      PROVE  \A d \in Calls : CallCounted(d)'
  <2>1. StandingSound("pending", 2, t) /\ before <= 2 - 1
    BY <1>1, <1>2 DEF StandingSound
  <2> QED
    BY <1>2, <1>5, <2>1, SentIsCounted
<1>6. \/ wire' = wire /\ \E n \in {1, 2}, at \in {"cancelled", "unknown", "unreachable"} : Becomes(c, at, n, t)
      \/ wire' = wire /\ Becomes(c, "reconnecting", 1, t + 1)
      \/ SentOnce(c, 2) /\ Becomes(c, "pending", 2, t)
  <2>1. k.sending = 1 /\ k.tries = t
    BY <1>1
  <2> QED
    BY <2>1, AttemptShapes
<1> QED
  BY <1>3, <1>4, <1>5, <1>6

LEMMA FailureIsCounted ==
  ASSUME AdapterAssumption, call \in [Calls -> CallRecord], \A d \in Calls : CallCounted(d),
         ran \in [Calls -> Nat], ran' = ran,
         NEW c \in Calls, call[c].at \in {"lost", "connecting"},
         NEW b, b \in BOOLEAN, ConnectionFailed(c, b)
  PROVE  \A d \in Calls : CallCounted(d)'
<1>1. CASE call[c].sending = 2
  <2>1. PICK t : t = call[c].tries
    OBVIOUS
  <2>2. PICK j : j = [call[c] EXCEPT !.at = "dropped"]
    OBVIOUS
  <2>3. j.at = "dropped" /\ j.sending = 2 /\ j.tries = t
    BY <1>1, <2>1, <2>2 DEF CallRecord
  <2>4. wire' = wire /\ call' = [call EXCEPT ![c] = j]
    BY <1>1, <2>2 DEF ConnectionFailed
  <2>5. Becomes(c, "dropped", 2, t)
    BY <2>3, <2>4, ItBecomes
  <2>6. StandingSound("dropped", 2, t) /\ Dispatched(call[c].at, call[c].sending) <= Dispatched("dropped", 2)
    BY <1>1, <2>1 DEF CallCounted, StandingSound, Dispatched
  <2> QED
    BY <2>4, <2>5, <2>6, UnsentIsCounted
<1>2. CASE call[c].sending # 2
  <2>1. PICK k : k = [call[c] EXCEPT !.resend = MayResend(c, b)]
    OBVIOUS
  <2>2. k \in CallRecord /\ k.sending = call[c].sending /\ k.tries = call[c].tries
    BY <2>1 DEF CallRecord, MayResend
  <2>3. call[c].sending = 1
    BY <1>2 DEF CallCounted, StandingSound
  <2>4. Attempt(c, k)
    BY <1>2, <2>1 DEF ConnectionFailed
  <2> QED
    BY <2>2, <2>3, <2>4, AttemptIsCounted
<1> QED
  BY <1>1, <1>2

\* A call that ends, or that waits on, with nothing sent.
LEMMA MoveIsCounted ==
  ASSUME call \in [Calls -> CallRecord], \A d \in Calls : CallCounted(d),
         ran \in [Calls -> Nat], UNCHANGED <<wire, ran>>,
         NEW c \in Calls, NEW j, call' = [call EXCEPT ![c] = j],
         j.sending = call[c].sending, j.tries = call[c].tries,
         \/ j.at = call[c].at
         \/ j.at \in Outcomes
         \/ j.at = "backoff" /\ call[c].at = "reconnecting" /\ j.tries < MaxTries
  PROVE  \A d \in Calls : CallCounted(d)'
<1>1. PICK at, s, t : at = j.at /\ s = j.sending /\ t = j.tries
  OBVIOUS
<1>2. Becomes(c, at, s, t)
  BY <1>1, ItBecomes
<1>3. StandingSound(at, s, t) /\ Dispatched(call[c].at, call[c].sending) <= Dispatched(at, s) /\ s \in Nat
  BY <1>1 DEF CallCounted, StandingSound, Dispatched, Outcomes
<1> QED
  BY <1>2, <1>3, UnsentIsCounted

LEMMA ContinuedIsCounted ==
  ASSUME AdapterAssumption, AdapterInv, \A d \in Calls : CallCounted(d), NEW c \in Calls, ContinueCall(c)
  PROVE  \A d \in Calls : CallCounted(d)'
<1>1. call \in [Calls -> CallRecord] /\ ran \in [Calls -> Nat] /\ ran' = ran
  BY DEF AdapterInv, AdapterTyped, ContinueCall
<1>2. CASE call[c].at = "lost"
  <2>1. ConnectionFailed(c, FALSE)
    BY <1>2 DEF ContinueCall
  <2> QED
    BY <1>1, <1>2, <2>1, FailureIsCounted
<1>3. CASE call[c].at = "connecting"
  <2>1. PICK s, t : s = call[c].sending /\ t = call[c].tries /\ s \in 1 .. 2 /\ StandingSound("connecting", s, t)
    BY <1>3 DEF CallCounted, StandingSound
  <2>2. \/ SendRequest(c, call[c])
        \/ ConnectionFailed(c, TRUE)
        \/ /\ call' = [call EXCEPT ![c] = [call[c] EXCEPT !.at = "refused"]]
           /\ UNCHANGED wire
    BY <1>3 DEF ContinueCall
  <2>3. CASE SendRequest(c, call[c])
    <3>1. PICK j, m : /\ j = [call[c] EXCEPT !.at = "pending", !.on = socket]
                      /\ m = [call |-> c, sending |-> s, on |-> socket, early |-> link[socket] = "open"]
      OBVIOUS
    <3>2. wire' = wire \cup {m} /\ call' = [call EXCEPT ![c] = j] /\ m.call = c /\ m.sending = s
      BY <2>1, <2>3, <3>1 DEF SendRequest
    <3>3. j.at = "pending" /\ j.sending = s /\ j.tries = t
      BY <1>1, <2>1, <3>1, RecordMoves
    <3>4. Becomes(c, "pending", s, t) /\ SentOnce(c, s)
      BY <3>2, <3>3, ItBecomes DEF SentOnce
    <3>5. StandingSound("pending", s, t) /\ Dispatched(call[c].at, call[c].sending) <= s - 1
      BY <1>3, <2>1 DEF StandingSound, Dispatched
    <3> QED
      BY <1>1, <2>1, <3>4, <3>5, SentIsCounted
  <2>4. CASE ConnectionFailed(c, TRUE)
    BY <1>1, <1>3, <2>4, FailureIsCounted
  <2>5. CASE /\ call' = [call EXCEPT ![c] = [call[c] EXCEPT !.at = "refused"]]
             /\ UNCHANGED wire
    <3>1. PICK j : j = [call[c] EXCEPT !.at = "refused"]
      OBVIOUS
    <3>2. j.at \in Outcomes /\ j.sending = call[c].sending /\ j.tries = call[c].tries
      BY <1>1, <3>1 DEF CallRecord, Outcomes
    <3> QED
      BY <1>1, <2>5, <3>1, <3>2, MoveIsCounted
  <2> QED
    BY <2>2, <2>3, <2>4, <2>5
<1>4. CASE call[c].at = "reconnecting"
  <2>1. PICK t : t = call[c].tries /\ t \in 0 .. MaxTries /\ call[c].sending = 1
    BY <1>4 DEF CallCounted, StandingSound
  <2>2. PICK at : at = IF t < MaxTries THEN "backoff" ELSE "unreachable"
    OBVIOUS
  <2>3. \/ ResumeCall(c, call[c])
        \/ /\ call' = [call EXCEPT ![c] = [call[c] EXCEPT !.at = at]]
           /\ UNCHANGED wire
    BY <1>4, <2>1, <2>2 DEF ContinueCall
  <2>4. CASE ResumeCall(c, call[c])
    <3>0. Dispatched(call[c].at, call[c].sending) = 1
      BY <1>4, <2>1 DEF Dispatched
    <3>1. \/ wire' = wire /\ \E s \in {1, 2}, a \in {"cancelled", "unknown"} : Becomes(c, a, s, t)
          \/ wire' = wire /\ Becomes(c, "connecting", 2, t)
          \/ SentOnce(c, 2) /\ Becomes(c, "pending", 2, t)
      BY <1>1, <2>1, <2>4, ResumeShapes
    <3>2. ASSUME NEW s \in {1, 2}, NEW a \in {"cancelled", "unknown"}, Becomes(c, a, s, t), wire' = wire
          PROVE  \A d \in Calls : CallCounted(d)'
      <4>1. StandingSound(a, s, t) /\ Dispatched(call[c].at, call[c].sending) <= Dispatched(a, s)
        BY <2>1, <3>0 DEF StandingSound, Dispatched
      <4> QED
        BY <1>1, <3>2, <4>1, UnsentIsCounted
    <3>3. ASSUME Becomes(c, "connecting", 2, t), wire' = wire
          PROVE  \A d \in Calls : CallCounted(d)'
      <4>1. /\ StandingSound("connecting", 2, t)
            /\ Dispatched(call[c].at, call[c].sending) <= Dispatched("connecting", 2)
        BY <2>1, <3>0 DEF StandingSound, Dispatched
      <4> QED
        BY <1>1, <3>3, <4>1, UnsentIsCounted
    <3>4. ASSUME Becomes(c, "pending", 2, t), SentOnce(c, 2)
          PROVE  \A d \in Calls : CallCounted(d)'
      <4>1. StandingSound("pending", 2, t) /\ Dispatched(call[c].at, call[c].sending) <= 2 - 1
        BY <2>1, <3>0 DEF StandingSound
      <4> QED
        BY <1>1, <3>4, <4>1, SentIsCounted
    <3> QED
      BY <3>1, <3>2, <3>3, <3>4
  <2>5. CASE /\ call' = [call EXCEPT ![c] = [call[c] EXCEPT !.at = at]]
             /\ UNCHANGED wire
    <3>1. PICK j : j = [call[c] EXCEPT !.at = at]
      OBVIOUS
    <3>2. j.at = at /\ j.sending = call[c].sending /\ j.tries = call[c].tries
      BY <1>1, <3>1 DEF CallRecord
    <3>3. \/ j.at \in Outcomes
          \/ j.at = "backoff" /\ call[c].at = "reconnecting" /\ j.tries < MaxTries
      BY <1>4, <2>1, <2>2, <3>2 DEF Outcomes
    <3> QED
      BY <1>1, <2>5, <3>1, <3>2, <3>3, MoveIsCounted
  <2> QED
    BY <2>3, <2>4, <2>5
<1> QED
  BY <1>2, <1>3, <1>4 DEF ContinueCall, Awake, Waiting

LEMMA CountsStep ==
  ASSUME AdapterAssumption, AdapterInv, AdapterCounts, [AdapterNext]_adapterVars
  PROVE  AdapterCounts'
<1>0. /\ call \in [Calls -> CallRecord] /\ ran \in [Calls -> Nat] /\ \A d \in Calls : CallCounted(d)
      /\ beating \in {0} \cup Sockets /\ handshake \in [Sockets -> {"pending", "ok", "lost", "refused"}]
  BY DEF AdapterInv, AdapterTyped, AdapterCounts
<1>a. ASSUME \A d \in Calls : CallCounted(d)', UNCHANGED <<handshake, beating>>
      PROVE  AdapterCounts'
  BY <1>0, <1>a DEF AdapterCounts
<1>b. ASSUME UNCHANGED <<call, wire, ran>>
      PROVE  \A d \in Calls : CallCounted(d)'
  BY <1>0, <1>b, OtherCallsStay
<1>1. ASSUME NEW c \in Calls, CallTool(c)
      PROVE  AdapterCounts'
  <2>1. PICK k : k = call[c] /\ k \in CallRecord /\ StandingSound("idle", k.sending, k.tries) /\ RequestTool(c, k)
                 /\ k.at = "idle" /\ k.sending \in 1 .. 2
    BY <1>0, <1>1 DEF CallTool, CallCounted, StandingSound
  <2>2. PICK s, t : s = k.sending /\ t = k.tries
    OBVIOUS
  <2>3. ran' = ran /\ UNCHANGED <<handshake, beating>>
    BY <1>1 DEF CallTool
  <2>4. Dispatched(call[c].at, call[c].sending) = s - 1
    BY <2>1, <2>2 DEF Dispatched
  <2>5. ASSUME NEW at \in {"cancelled", "connecting"}, Becomes(c, at, s, t), wire' = wire
        PROVE  AdapterCounts'
    <3>1. StandingSound(at, s, t) /\ Dispatched(call[c].at, call[c].sending) <= Dispatched(at, s)
      BY <2>1, <2>2, <2>4 DEF StandingSound, Dispatched
    <3> QED
      BY <1>0, <1>a, <2>1, <2>2, <2>3, <2>5, <3>1, UnsentIsCounted
  <2>6. ASSUME Becomes(c, "pending", s, t), SentOnce(c, s)
        PROVE  AdapterCounts'
    <3>1. StandingSound("pending", s, t) /\ Dispatched(call[c].at, call[c].sending) <= s - 1
      BY <2>1, <2>2, <2>4 DEF StandingSound
    <3> QED
      BY <1>0, <1>a, <2>1, <2>2, <2>3, <2>6, <3>1, SentIsCounted
  <2>7. \/ wire' = wire /\ Becomes(c, "cancelled", s, t)
        \/ wire' = wire /\ Becomes(c, "connecting", s, t)
        \/ SentOnce(c, s) /\ Becomes(c, "pending", s, t)
    BY <2>1, <2>2, RequestShapes
  <2> QED
    BY <2>5, <2>6, <2>7
<1>2. ASSUME NEW c \in Calls, ContinueCall(c)
      PROVE  AdapterCounts'
  BY <1>0, <1>2, <1>a, ContinuedIsCounted DEF ContinueCall
<1>3. ASSUME NEW c \in Calls, BackedOff(c)
      PROVE  AdapterCounts'
  <2>1. call[c].at = "backoff" /\ Attempt(c, call[c]) /\ UNCHANGED <<handshake, beating, ran>>
    BY <1>3 DEF BackedOff
  <2>2. call[c].sending = 1
    BY <1>0, <2>1 DEF CallCounted, StandingSound
  <2> QED
    BY <1>0, <1>a, <2>1, <2>2, AttemptIsCounted
<1>4. ASSUME NEW c \in Calls, AbortCall(c)
      PROVE  AdapterCounts'
  <2>1. PICK at : at = CASE call[c].at = "pending" -> "cancelled"
                         [] call[c].at = "backoff" -> "unreachable"
                         [] OTHER                  -> call[c].at
    OBVIOUS
  <2>2. PICK j : j = [[call[c] EXCEPT !.aborted = TRUE] EXCEPT !.at = at]
    OBVIOUS
  <2>3. call' = [call EXCEPT ![c] = j] /\ UNCHANGED <<wire, ran, handshake, beating>>
    BY <1>4, <2>1, <2>2 DEF AbortCall
  <2>4. j.at = at /\ j.sending = call[c].sending /\ j.tries = call[c].tries
    BY <1>0, <2>2 DEF CallRecord
  <2>5. at = call[c].at \/ at \in Outcomes
    BY <2>1 DEF Outcomes
  <2> QED
    BY <1>0, <1>a, <2>3, <2>4, <2>5, MoveIsCounted
<1>5. ASSUME NEW c \in Calls, ExpireCall(c)
      PROVE  AdapterCounts'
  <2>1. PICK j : j = [call[c] EXCEPT !.at = "expired"]
    OBVIOUS
  <2>2. call' = [call EXCEPT ![c] = j] /\ UNCHANGED <<wire, ran, handshake, beating>>
    BY <1>5, <2>1 DEF ExpireCall
  <2>3. j.at \in Outcomes /\ j.sending = call[c].sending /\ j.tries = call[c].tries
    BY <1>0, <2>1 DEF CallRecord, Outcomes
  <2> QED
    BY <1>0, <1>a, <2>2, <2>3, MoveIsCounted
<1>6. ASSUME NEW s \in Sockets, OpenSocket(s) \/ SendHello(s) \/ Welcome(s) \/ FailConnection(s)
      PROVE  AdapterCounts'
  <2>1. UNCHANGED <<call, wire, ran>>
    BY <1>6 DEF OpenSocket, SendHello, Welcome, FailConnection
  <2>2. beating' \in {0} \cup Sockets /\ handshake' \in [Sockets -> {"pending", "ok", "lost", "refused"}]
    BY <1>0, <1>6 DEF OpenSocket, SendHello, Welcome, FailConnection, Settle
  <2> QED
    BY <1>b, <2>1, <2>2 DEF AdapterCounts
<1>7. ASSUME NEW s \in Sockets, Closed(s)
      PROVE  AdapterCounts'
  <2>1. /\ call' = RejectPending(s) /\ wire' \subseteq wire /\ ran' = ran
        /\ beating' = 0 /\ handshake' \in [Sockets -> {"pending", "ok", "lost", "refused"}]
    BY <1>0, <1>7 DEF Closed
  <2>2. ASSUME NEW d \in Calls
        PROVE  CallCounted(d)'
    <3>1. PICK j : j = [call[d] EXCEPT !.at = "lost"]
      OBVIOUS
    <3>2. call'[d] = IF call[d].at = "pending" THEN j ELSE call[d]
      BY <2>1, <3>1 DEF RejectPending
    <3>3. j.at = "lost" /\ j.sending = call[d].sending /\ j.tries = call[d].tries
      BY <1>0, <3>1 DEF CallRecord
    <3>4. PICK at, s1, t : at = call'[d].at /\ s1 = call'[d].sending /\ t = call'[d].tries
      OBVIOUS
    <3>5. s1 = call[d].sending /\ t = call[d].tries /\ (at = call[d].at \/ (call[d].at = "pending" /\ at = "lost"))
      BY <3>2, <3>3, <3>4
    <3>6. StandingSound(at, s1, t) /\ Dispatched(at, s1) = Dispatched(call[d].at, call[d].sending)
      BY <1>0, <3>5 DEF CallCounted, StandingSound, Dispatched
    <3>7a. call[d] \in CallRecord /\ ran[d] \in Nat
      BY <1>0
    <3>7b. Dispatched(call[d].at, call[d].sending) \in Int
      BY <3>7a DEF Dispatched, CallRecord
    <3>7c. OnWire(d, 1) \in Nat /\ OnWire(d, 2) \in Nat
      BY DEF OnWire
    <3>7. PICK x, y, r, n : /\ x = OnWire(d, 1) /\ y = OnWire(d, 2) /\ r = ran[d] /\ {x, y, r} \subseteq Nat
                            /\ n = Dispatched(call[d].at, call[d].sending) /\ n \in Int
      BY <3>7a, <3>7b, <3>7c
    <3>8. PICK x2, y2 : x2 = OnWire(d, 1)' /\ y2 = OnWire(d, 2)' /\ x2 \in 0 .. x /\ y2 \in 0 .. y
      BY <2>1, <3>7 DEF OnWire
    <3>9. r + x + y <= n
      BY <1>0, <3>7 DEF CallCounted, SendingsCounted
    <3>10. r + x2 + y2 <= n
      BY <3>7, <3>8, <3>9
    <3>11. Dispatched(call'[d].at, call'[d].sending) = n
      BY <3>4, <3>6, <3>7
    <3>12. /\ \A m \in wire' : m.call = d => m.sending \in 1 .. n
           /\ \A m, o \in wire' : m.call = d /\ o.call = d /\ m.sending = o.sending => m = o
      BY <1>0, <2>1, <3>7 DEF CallCounted, SendingsCounted
    <3>13. SendingsCounted(d)'
      BY <2>1, <3>7, <3>8, <3>10, <3>11, <3>12 DEF SendingsCounted
    <3> QED
      BY <3>4, <3>6, <3>13 DEF CallCounted
  <2> QED
    BY <2>1, <2>2 DEF AdapterCounts
<1>8. ASSUME NEW m \in wire, Execute(m)
      PROVE  AdapterCounts'
  <2>1. call' = call /\ wire' = wire \ {m} /\ beating' = beating
        /\ handshake' \in [Sockets -> {"pending", "ok", "lost", "refused"}]
        /\ (ran' = ran \/ ran' = [ran EXCEPT ![m.call] = @ + 1])
    BY <1>0, <1>8 DEF Execute, Settle
  <2>2. ASSUME NEW d \in Calls, m.call # d
        PROVE  CallCounted(d)'
    <3>1. ran'[d] = ran[d]
      BY <1>0, <2>1, <2>2
    <3> QED
      BY <1>0, <2>1, <2>2, <3>1, OtherCallsStay
  <2>3. ASSUME NEW d \in Calls, m.call = d
        PROVE  CallCounted(d)'
    <3>1. PICK x, y, r, n : /\ x = OnWire(d, 1) /\ y = OnWire(d, 2) /\ r = ran[d] /\ {x, y, r} \subseteq Nat
                            /\ n = Dispatched(call[d].at, call[d].sending) /\ n \in Int
      BY <1>0 DEF OnWire, Dispatched, CallRecord
    <3>2. /\ r + x + y <= n /\ \A o \in wire : o.call = d => o.sending \in 1 .. n
          /\ \A p, o \in wire : p.call = d /\ o.call = d /\ p.sending = o.sending => p = o
      BY <1>0, <3>1 DEF CallCounted, SendingsCounted
    <3>3. n \in 0 .. 2 /\ m.sending \in 1 .. 2
      <4>1. n <= 2
        BY <1>0, <3>1 DEF Dispatched, CallRecord
      <4> QED
        BY <2>3, <3>1, <3>2, <4>1
    <3>4. PICK x2, y2 : /\ x2 = OnWire(d, 1)' /\ y2 = OnWire(d, 2)' /\ x2 \in Nat /\ y2 \in Nat
                        /\ x2 + y2 = x + y - 1
      <4>1. CASE m.sending = 1
        <5>1. x = 1 /\ OnWire(d, 1)' = 0 /\ OnWire(d, 2)' = y
          BY <2>1, <2>3, <3>1, <3>2, <4>1 DEF OnWire
        <5> QED
          BY <3>1, <5>1
      <4>2. CASE m.sending = 2
        <5>1. y = 1 /\ OnWire(d, 2)' = 0 /\ OnWire(d, 1)' = x
          BY <2>1, <2>3, <3>1, <3>2, <4>2 DEF OnWire
        <5> QED
          BY <3>1, <5>1
      <4> QED
        BY <3>3, <4>1, <4>2
    <3>5. PICK r2 : r2 = ran'[d] /\ r2 \in {r, r + 1}
      BY <1>0, <2>1, <2>3, <3>1
    <3>6. r2 + x2 + y2 <= n
      BY <3>1, <3>2, <3>4, <3>5
    <3>7. SendingsCounted(d)'
      BY <2>1, <3>1, <3>2, <3>4, <3>5, <3>6 DEF SendingsCounted
    <3> QED
      BY <1>0, <2>1, <3>7 DEF CallCounted
  <2> QED
    BY <1>0, <2>1, <2>2, <2>3 DEF AdapterCounts
<1>9. ASSUME NEW m \in replies, Reply(m)
      PROVE  AdapterCounts'
  <2>1. UNCHANGED <<wire, ran, handshake, beating>>
    BY <1>9 DEF Reply
  <2>2. CASE m.call \in Calls /\ call' = [call EXCEPT ![m.call].at = "result"]
    <3>1. PICK c \in Calls : c = m.call
      BY <2>2
    <3>2. PICK j : j = [call[c] EXCEPT !.at = "result"]
      OBVIOUS
    <3>3. call' = [call EXCEPT ![c] = j]
      BY <2>2, <3>1, <3>2
    <3>4. j.at \in Outcomes /\ j.sending = call[c].sending /\ j.tries = call[c].tries
      BY <1>0, <3>2 DEF CallRecord, Outcomes
    <3> QED
      BY <1>0, <1>a, <2>1, <3>3, <3>4, MoveIsCounted
  <2>3. CASE call' = call
    BY <1>a, <1>b, <2>1, <2>3
  <2>4. call' = call \/ (m.call \in Calls /\ call' = [call EXCEPT ![m.call].at = "result"])
    BY <1>0, <1>9 DEF Reply
  <2> QED
    BY <2>2, <2>3, <2>4
<1>10. CASE UNCHANGED adapterVars
  BY <1>10, <1>a, <1>b DEF adapterVars
<1> QED
  BY <1>1, <1>2, <1>3, <1>4, <1>5, <1>6, <1>7, <1>8, <1>9, <1>10 DEF AdapterNext

LEMMA CountsStart ==
  ASSUME AdapterAssumption, AdapterInit
  PROVE  AdapterInv /\ AdapterCounts
<1>1. /\ \A c \in Calls : call[c] = Idle /\ ran[c] = 0
      /\ wire = {} /\ beating = 0 /\ handshake \in [Sockets -> {"pending", "ok", "lost", "refused"}]
  BY DEF AdapterInit
<1>2. StandingSound("idle", 1, 0) /\ Dispatched("idle", 1) = 0
  BY DEF StandingSound, Dispatched, AdapterAssumption
<1>3. ASSUME NEW c \in Calls
      PROVE  CallCounted(c)
  <2>1. OnWire(c, 1) = 0 /\ OnWire(c, 2) = 0
    BY <1>1 DEF OnWire
  <2>2. call[c].at = "idle" /\ call[c].sending = 1 /\ call[c].tries = 0
    BY <1>1 DEF Idle
  <2> QED
    BY <1>1, <1>2, <2>1, <2>2 DEF CallCounted, SendingsCounted
<1> QED
  BY <1>1, <1>3, AdapterStarts DEF AdapterCounts

LEMMA CountsHold ==
  ASSUME AdapterInv, AdapterCounts
  PROVE  AdapterTypeOK
<1>1. ASSUME NEW c \in Calls
      PROVE  call[c].sending \in 1 .. 2 /\ call[c].tries \in 0 .. MaxTries
  BY DEF AdapterCounts, CallCounted, StandingSound
<1>2. ASSUME NEW c \in Calls
      PROVE  ran[c] \in 0 .. 2
  <2>1. PICK s \in 1 .. 2 : s = call[c].sending
    BY <1>1
  <2>2. PICK x, y, n : /\ x = OnWire(c, 1) /\ y = OnWire(c, 2) /\ x \in Nat /\ y \in Nat
                       /\ n = Dispatched(call[c].at, s) /\ n \in Int /\ n <= 2
    BY DEF OnWire, Dispatched
  <2>3. ran[c] + x + y <= n /\ ran[c] \in Nat
    BY <2>1, <2>2 DEF AdapterCounts, CallCounted, SendingsCounted, AdapterInv, AdapterTyped
  <2> QED
    BY <2>2, <2>3
<1> QED
  BY <1>1, <1>2 DEF AdapterInv, AdapterTyped, AdapterCounts, AdapterTypeOK

\* Whatever connections are lost, the agent's client tries each call in the measure
\* of its attempts, and the daemon runs it for each of its two sendings once.
THEOREM SendingsInMeasure == AdapterSpec => []AdapterTypeOK
<1>1. AdapterInit => AdapterInv /\ AdapterCounts
  BY CountsStart, AdapterAssumption
<1>2. AdapterInv /\ AdapterCounts /\ [AdapterNext]_adapterVars => (AdapterInv /\ AdapterCounts)'
  BY AdapterStep, CountsStep, AdapterAssumption
<1>3. AdapterInv /\ AdapterCounts => AdapterTypeOK
  BY CountsHold
<1> QED
  BY <1>1, <1>2, <1>3, PTL DEF AdapterSpec

-----------------------------------------------------------------------------
(* AgentLoop *)

\* The calls that may still have an effect.
Due == {i \in DOMAIN results : calls[i] = "write" /\ results[i] = "due"}

ModelRequests == {"plan", "next", "arbiter", "correction", "verification", "planning", "report", "nudge",
             "summary", "rewrite", "closing"}

PurposeTyped ==
  purpose \in ModelRequests \cup {"tools", "end"} /\ (step = "model" => purpose \in ModelRequests)

BudgetTyped ==
  /\ used \in [Kinds -> Nat] /\ limit \in [Kinds -> Nat] /\ effects \in Nat
  /\ calls \in Seq(Tools) /\ DOMAIN results \subseteq DOMAIN calls

\* What has begun and what may still begin has been reserved.
BudgetInv ==
  /\ BudgetTyped
  /\ used["effects"] <= limit["effects"]
  /\ effects + Cardinality(Due) <= used["effects"]

LEMMA FiniteBatch ==
  ASSUME BudgetTyped
  PROVE  IsFiniteSet(DOMAIN calls) /\ IsFiniteSet(DOMAIN results)
         /\ \A S \in SUBSET DOMAIN results : IsFiniteSet(S) /\ Cardinality(S) \in Nat
<1>1. DOMAIN calls = 1..Len(calls) /\ Len(calls) \in Nat
  BY DEF BudgetTyped
<1>2. IsFiniteSet(DOMAIN calls)
  BY <1>1, FS_Interval
<1>3. IsFiniteSet(DOMAIN results)
  BY <1>2, FS_Subset DEF BudgetTyped
<1> QED
  BY <1>2, <1>3, FS_Subset, FS_CardinalityType

LEMMA OneWrite ==
  ASSUME NEW x
  PROVE  Writes(<<x>>) = IF x = "write" THEN 1 ELSE 0
<1> DEFINE S == {i \in DOMAIN <<x>> : <<x>>[i] = "write"}
<1>1. S = IF x = "write" THEN {1} ELSE {}
  OBVIOUS
<1>2. Cardinality(S) = IF x = "write" THEN 1 ELSE 0
  <2> HIDE DEF S
  <2> QED
    BY <1>1, FS_Singleton, FS_EmptySet
<1> QED
  BY <1>2 DEF Writes

\* A text of the model ends the run, in a last form or not, or is asked about.
LEMMA TextShapes ==
  ASSUME PurposeTyped, NEW t, NEW repair \in BOOLEAN, NEW rewrite \in BOOLEAN, ModelWrites(t, repair, rewrite)
  PROVE  \/ \E u : \E block, again \in BOOLEAN : Finish(u, block, again)
         \/ \E p \in {"nudge", "correction", "verification", "report", "planning", "arbiter"} :
              \E u : Continue(p, u)
<1>1. purpose \in ModelRequests \ {"closing"}
  BY DEF PurposeTyped, ModelWrites
<1>2. \A u : Accepted(u) \in BOOLEAN
  BY DEF Accepted
<1>3. CASE purpose = "plan"
  <2>1. AnswerPlan(t, repair, rewrite)
    BY <1>3 DEF ModelWrites
  <2> QED
    BY <2>1 DEF AnswerPlan
<1>4. CASE purpose = "next"
  <2>1. AnswerText(t, repair, rewrite)
    BY <1>4 DEF ModelWrites
  <2>2. Unsupported(t) \in BOOLEAN
    BY DEF Unsupported
  <2> QED
    BY <2>1, <2>2 DEF AnswerText
<1>5. CASE purpose = "arbiter"
  <2>1. Finish("", TRUE, FALSE)
    BY <1>5 DEF ModelWrites
  <2> QED
    BY <2>1
<1>6. CASE purpose = "correction"
  <2>1. Finish(Or(t, text), ~Accepted(Or(t, text)), rewrite)
    BY <1>6 DEF ModelWrites
  <2> QED
    BY <2>1
<1>7. CASE purpose = "verification"
  <2>1. Finish(text, TRUE, rewrite)
    BY <1>7 DEF ModelWrites
  <2> QED
    BY <2>1
<1>8. CASE purpose \in {"planning", "report"}
  <2>1. Finish(Or(t, text), FALSE, rewrite)
    BY <1>8 DEF ModelWrites
  <2> QED
    BY <2>1
<1>9. CASE purpose \in {"nudge", "summary"}
  <2>1. Finish(t, blocked, rewrite)
    BY <1>9 DEF ModelWrites
  <2>2. \E block \in BOOLEAN : Finish(t, block, rewrite)
    BY <2>1 DEF Finish
  <2> QED
    BY <2>2
<1>10. CASE purpose = "rewrite"
  <2>1. Finish(Or(t, text), blocked \/ repair, FALSE)
    BY <1>10 DEF ModelWrites
  <2> QED
    BY <2>1
<1> QED
  BY <1>1, <1>3, <1>4, <1>5, <1>6, <1>7, <1>8, <1>9, <1>10 DEF ModelRequests

\* A step that begins no call and gives no call back to be begun.
LEMMA NothingBegins ==
  ASSUME BudgetInv, BudgetTyped', UNCHANGED effects,
         used["effects"] <= used'["effects"], used'["effects"] <= limit'["effects"], Due' \subseteq Due
  PROVE  BudgetInv'
<1>1. IsFiniteSet(Due) /\ Cardinality(Due) \in Nat
  BY FiniteBatch DEF BudgetInv, Due
<1>2. Cardinality(Due') <= Cardinality(Due) /\ Cardinality(Due') \in Nat
  BY <1>1, FS_Subset, FS_CardinalityType
<1>3. used["effects"] \in Nat /\ used'["effects"] \in Nat /\ effects \in Nat
  BY DEF BudgetInv, BudgetTyped, Kinds
<1> HIDE DEF Due
<1>4. effects + Cardinality(Due') <= used'["effects"]
  BY <1>1, <1>2, <1>3 DEF BudgetInv
<1> QED
  BY <1>4 DEF BudgetInv

LEMMA PurposeStep ==
  ASSUME PurposeTyped, [LoopNext]_loopVars
  PROVE  PurposeTyped'
<1>1. CASE Reserve
  BY <1>1 DEF Reserve, End, PurposeTyped
<1>2. CASE Extend
  BY <1>2 DEF Extend, PurposeTyped
<1>3. CASE Decline
  BY <1>3 DEF Decline, PurposeTyped, ModelRequests
<1>4. CASE TimePasses \/ Abort \/ GiveUp \/ Close
  BY <1>4 DEF TimePasses, Abort, GiveUp, Close, End, PurposeTyped
<1>5. ASSUME NEW again, NEW how, ModelFails(again, how)
      PROVE  PurposeTyped'
  BY <1>5 DEF ModelFails, End, PurposeTyped
<1>6. ASSUME NEW t, NEW repair \in BOOLEAN, NEW rewrite \in BOOLEAN, ModelWrites(t, repair, rewrite)
      PROVE  PurposeTyped'
  BY <1>6, TextShapes DEF Finish, Continue, Request, PurposeTyped, ModelRequests
<1>7. ASSUME NEW batch, NEW guards, ModelCalls(batch, guards)
      PROVE  PurposeTyped'
  BY <1>7 DEF ModelCalls, NewBatch, Request, PurposeTyped
<1>8. ASSUME NEW i, BeginCall(i) \/ SkipCall(i) \/ \E result \in Done : EndCall(i, result)
      PROVE  PurposeTyped'
  BY <1>8 DEF BeginCall, SkipCall, EndCall, PurposeTyped
<1>9. ASSUME NEW stops, NEW reason, BatchReturns(stops, reason)
      PROVE  PurposeTyped'
  BY <1>9 DEF BatchReturns, Request, End, PurposeTyped, ModelRequests
<1>10. CASE UNCHANGED loopVars
  BY <1>10 DEF loopVars, PurposeTyped
<1> QED
  BY <1>1, <1>2, <1>3, <1>4, <1>5, <1>6, <1>7, <1>8, <1>9, <1>10 DEF LoopNext

LEMMA BudgetStep ==
  ASSUME LoopAssumption, PurposeTyped, BudgetInv, [LoopNext]_loopVars
  PROVE  BudgetInv'
<1>0. /\ used["effects"] \in Nat /\ limit["effects"] \in Nat /\ effects \in Nat /\ "effects" \in Kinds
      /\ used \in [Kinds -> Nat] /\ limit \in [Kinds -> Nat]
      /\ calls \in Seq(Tools) /\ DOMAIN results \subseteq DOMAIN calls
  BY DEF BudgetInv, BudgetTyped, Kinds
<1>a. ASSUME UNCHANGED <<used, limit, calls, results, effects>>
      PROVE  BudgetInv'
  BY <1>a DEF BudgetInv, BudgetTyped, Due
<1>b. ASSUME results' = <<>>, calls' \in Seq(Tools), UNCHANGED <<used, limit, effects>>
      PROVE  BudgetInv'
  <2>1. DOMAIN results' = {}
    BY <1>b
  <2>2. BudgetTyped' /\ Due' \subseteq Due
    BY <1>0, <1>b, <2>1 DEF BudgetTyped, Due
  <2> QED
    BY <1>0, <1>b, <2>2, NothingBegins DEF BudgetInv
<1>1. CASE Reserve
  <2> DEFINE R == Reservation(purpose)
  <2>1. \A k \in Kinds : R[k] \in Nat
    <3>1. Len(calls) \in Nat
      BY <1>0
    <3>2. Writes(calls) \in Nat
      BY FiniteBatch, FS_Subset, FS_CardinalityType DEF BudgetInv, Writes
    <3> QED
      BY <3>1, <3>2 DEF Reservation
  <2>2. CASE Over(purpose) = {}
    <3>1. /\ used' = [k \in Kinds |-> used[k] + R[k]]
          /\ results' = IF purpose = "tools" THEN [i \in DOMAIN calls |-> "due"] ELSE results
          /\ UNCHANGED <<limit, calls, effects>>
      BY <1>1, <2>2 DEF Reserve, historyVars
    <3>2. used["effects"] + R["effects"] <= limit["effects"]
      BY <1>0, <2>1, <2>2 DEF Over
    <3>3. BudgetTyped'
      BY <1>0, <2>1, <3>1 DEF BudgetTyped
    <3>4. used'["effects"] = used["effects"] + R["effects"] /\ R["effects"] \in Nat
      BY <1>0, <2>1, <3>1
    <3> HIDE DEF R
    <3>5. CASE purpose = "tools"
      <4>1. R["effects"] = Writes(calls)
        BY <1>0, <3>5 DEF Reservation, R
      <4>2. Due' = {i \in DOMAIN calls : calls[i] = "write"}
        BY <3>1, <3>5 DEF Due
      <4>3. Cardinality(Due') = Writes(calls)
        BY <4>2 DEF Writes
      <4>4. effects <= used["effects"]
        <5>1. Cardinality(Due) \in Nat
          BY FiniteBatch DEF BudgetInv, Due
        <5> QED
          BY <1>0, <5>1 DEF BudgetInv
      <4> QED
        BY <1>0, <3>1, <3>2, <3>3, <3>4, <4>1, <4>3, <4>4 DEF BudgetInv
    <3>6. CASE purpose # "tools"
      <4>1. Due' = Due
        BY <3>1, <3>6 DEF Due
      <4>2. used["effects"] <= used'["effects"]
        BY <1>0, <3>4
      <4> QED
        BY <3>1, <3>2, <3>3, <3>4, <4>1, <4>2, NothingBegins
    <3> QED
      BY <3>5, <3>6
  <2>3. CASE Over(purpose) # {}
    BY <1>1, <1>a, <2>3 DEF Reserve, historyVars
  <2> QED
    BY <2>2, <2>3
<1>2. CASE Extend
  <2>1. /\ limit' = [limit EXCEPT ![exceeded] = @ + FirstLimit[exceeded]]
        /\ UNCHANGED <<used, calls, results, effects>>
    BY <1>2 DEF Extend, batchVars, historyVars
  <2>2. \A k \in Kinds : limit'[k] \in Nat /\ limit'[k] >= limit[k]
    BY <1>0, <2>1 DEF LoopAssumption
  <2>3. limit' \in [Kinds -> Nat]
    BY <1>0, <2>1, <2>2
  <2>4. BudgetTyped' /\ Due' = Due
    BY <1>0, <2>1, <2>3 DEF BudgetTyped, Due
  <2>5. used'["effects"] <= limit'["effects"]
    BY <1>0, <2>1, <2>2 DEF BudgetInv
  <2> QED
    BY <1>0, <2>1, <2>4, <2>5, NothingBegins
<1>3. CASE Decline
  BY <1>3, <1>a DEF Decline, batchVars
<1>4. CASE TimePasses
  <2>1. /\ used' = [used EXCEPT !["duration"] = limit["duration"] + 1]
        /\ UNCHANGED <<limit, calls, results, effects>>
    BY <1>4 DEF TimePasses, batchVars, historyVars
  <2>2. used' \in [Kinds -> Nat] /\ used'["effects"] = used["effects"]
    BY <1>0, <2>1 DEF Kinds
  <2>3. BudgetTyped' /\ Due' = Due
    BY <1>0, <2>1, <2>2 DEF BudgetTyped, Due
  <2> QED
    BY <2>1, <2>2, <2>3, NothingBegins DEF BudgetInv
<1>5. CASE Abort \/ GiveUp \/ Close
  BY <1>5, <1>a DEF Abort, GiveUp, Close, budgetVars, batchVars, historyVars
<1>6. ASSUME NEW again \in BOOLEAN, NEW how, ModelFails(again, how)
      PROVE  BudgetInv'
  BY <1>6, <1>a DEF ModelFails, budgetVars, batchVars, historyVars
<1>7. ASSUME NEW t, NEW repair \in BOOLEAN, NEW rewrite \in BOOLEAN, ModelWrites(t, repair, rewrite)
      PROVE  BudgetInv'
  <2>1. UNCHANGED <<budgetVars, historyVars>>
    BY <1>7 DEF ModelWrites
  <2>2. UNCHANGED batchVars
    BY <1>7, TextShapes DEF Finish, Continue
  <2> QED
    BY <1>a, <2>1, <2>2 DEF budgetVars, batchVars, historyVars
<1>8. ASSUME NEW batch \in Batches, NEW guards, ModelCalls(batch, guards)
      PROVE  BudgetInv'
  <2>1. calls' = batch /\ results' = <<>> /\ UNCHANGED <<used, limit, effects>>
    BY <1>8 DEF ModelCalls, NewBatch, budgetVars, historyVars
  <2>2. batch \in Seq(Tools)
    BY DEF Batches, LoopAssumption
  <2> QED
    BY <1>b, <2>1, <2>2
<1>9. ASSUME NEW i \in DOMAIN results, BeginCall(i)
      PROVE  BudgetInv'
  <2>1. /\ results[i] = "due" /\ results' = [results EXCEPT ![i] = "running"]
        /\ effects' = effects + Writes(<<calls[i]>>) /\ UNCHANGED <<used, limit, calls>>
    BY <1>9 DEF BeginCall, MayBegin, budgetVars
  <2>2. BudgetTyped'
    <3>1. Writes(<<calls[i]>>) \in Nat
      BY OneWrite
    <3>2. effects' \in Nat /\ DOMAIN results' = DOMAIN results
      BY <1>0, <2>1, <3>1
    <3> QED
      BY <1>0, <2>1, <3>2 DEF BudgetTyped
  <2>3. IsFiniteSet(Due) /\ Cardinality(Due) \in Nat
    BY FiniteBatch DEF BudgetInv, Due
  <2>4. CASE calls[i] = "write"
    <3>1. i \in Due /\ Due' = Due \ {i}
      BY <2>1, <2>4 DEF Due
    <3>2. Cardinality(Due') = Cardinality(Due) - 1
      BY <2>3, <3>1, FS_RemoveElement
    <3>3. effects' = effects + 1
      BY <2>1, <2>4, OneWrite
    <3> QED
      BY <1>0, <2>1, <2>2, <2>3, <3>2, <3>3 DEF BudgetInv
  <2>5. CASE calls[i] # "write"
    <3>1. Due' = Due
      BY <2>1, <2>5 DEF Due
    <3>2. effects' = effects
      BY <1>0, <2>1, <2>5, OneWrite
    <3> QED
      BY <2>1, <2>2, <3>1, <3>2 DEF BudgetInv
  <2> QED
    BY <2>4, <2>5
<1>10. ASSUME NEW i \in DOMAIN results,
              SkipCall(i) \/ \E result \in Done \ {"skipped"} : EndCall(i, result)
       PROVE  BudgetInv'
  <2>1. PICK result \in Done : /\ results' = [results EXCEPT ![i] = result]
                               /\ UNCHANGED <<used, limit, calls, effects>>
    BY <1>10 DEF SkipCall, EndCall, Done, budgetVars, historyVars
  <2>2. BudgetTyped' /\ Due' \subseteq Due
    BY <1>0, <2>1 DEF BudgetTyped, Due, Done
  <2> QED
    BY <1>0, <2>1, <2>2, NothingBegins DEF BudgetInv
<1>11. ASSUME NEW stops \in BOOLEAN, NEW reason \in BOOLEAN, BatchReturns(stops, reason)
       PROVE  BudgetInv'
  <2>1. calls' = <<>> /\ results' = <<>> /\ UNCHANGED <<used, limit, effects>>
    BY <1>11 DEF BatchReturns, budgetVars, historyVars
  <2> QED
    BY <1>b, <2>1
<1>12. CASE UNCHANGED loopVars
  BY <1>12, <1>a DEF loopVars, budgetVars, batchVars, historyVars
<1> QED
  BY <1>1, <1>2, <1>3, <1>4, <1>5, <1>6, <1>7, <1>8, <1>9, <1>10, <1>11, <1>12 DEF LoopNext

LEMMA BudgetStarts ==
  ASSUME LoopAssumption, LoopInit
  PROVE  BudgetInv
<1>1. DOMAIN results = {} /\ Due = {}
  <2>1. results = <<>>
    BY DEF LoopInit
  <2>2. DOMAIN results = {}
    BY <2>1
  <2> QED
    BY <2>2 DEF Due
<1>2. Cardinality(Due) = 0
  BY <1>1, FS_EmptySet
<1>3. used \in [Kinds -> Nat] /\ limit \in [Kinds -> Nat] /\ used["effects"] = 0 /\ limit["effects"] \in Nat
  <2>1. used = [k \in Kinds |-> 0] /\ limit = FirstLimit /\ "effects" \in Kinds
    BY DEF LoopInit, Kinds
  <2>2. FirstLimit \in [Kinds -> Nat]
    BY LoopAssumption DEF LoopAssumption
  <2>3. used \in [Kinds -> Nat]
    <3>1. 0 \in Nat
      OBVIOUS
    <3> QED
      BY <2>1, <3>1, Zenon
  <2>4. used["effects"] = 0
    BY <2>1
  <2>5. limit \in [Kinds -> Nat] /\ limit["effects"] \in Nat
    BY <2>1, <2>2
  <2> QED
    BY <2>3, <2>4, <2>5, Zenon
<1>4. calls \in Seq(Tools) /\ effects = 0
  <2>1. calls = <<>> /\ effects = 0
    BY DEF LoopInit
  <2> QED
    BY <2>1
<1> HIDE DEF Due
<1> QED
  BY <1>1, <1>2, <1>3, <1>4 DEF BudgetInv, BudgetTyped

\* No more effectful calls of a run begin than its limit and what the user has
\* added to it, however batches are interrupted, refused and asked about.
THEOREM BudgetHolds == LoopSpec => []EffectsWithinBudget
<1>1. LoopInit => BudgetInv
  BY BudgetStarts, LoopAssumption
<1>2. PurposeTyped /\ BudgetInv /\ [LoopNext]_loopVars => (PurposeTyped /\ BudgetInv)'
  BY BudgetStep, PurposeStep, LoopAssumption
<1>4. LoopInit => PurposeTyped
  BY DEF LoopInit, PurposeTyped, ModelRequests
<1>3. BudgetInv => EffectsWithinBudget
  <2> SUFFICES ASSUME BudgetInv
               PROVE  EffectsWithinBudget
    OBVIOUS
  <2>1. Cardinality(Due) \in Nat
    BY FiniteBatch DEF BudgetInv, Due
  <2>2. used["effects"] \in Nat /\ limit["effects"] \in Nat /\ effects \in Nat
    BY DEF BudgetInv, BudgetTyped, Kinds
  <2> QED
    BY <2>1, <2>2 DEF BudgetInv, EffectsWithinBudget
<1> QED
  BY <1>1, <1>2, <1>3, <1>4, PTL DEF LoopSpec

\* Nothing of a run that is cancelled begins an effect.
THEOREM AbortIsFinal == LoopSpec => NoCallAfterAbort
<1>1. PurposeTyped /\ [LoopNext]_loopVars => (aborted => effects' = effects)
  <2> SUFFICES ASSUME PurposeTyped, [LoopNext]_loopVars, aborted
               PROVE  effects' = effects
    OBVIOUS
  <2>1. ASSUME NEW i, BeginCall(i) \/ SkipCall(i) \/ \E result \in Done : EndCall(i, result)
        PROVE  effects' = effects
    BY <2>1 DEF BeginCall, MayBegin, SkipCall, EndCall, historyVars
  <2>2. ASSUME NEW t, NEW repair, NEW rewrite, ModelWrites(t, repair, rewrite)
        PROVE  effects' = effects
    BY <2>2 DEF ModelWrites, historyVars
  <2> QED
    BY <2>1, <2>2 DEF LoopNext, loopVars, historyVars, Reserve, Extend, Decline, TimePasses, Abort, GiveUp,
                      Close, ModelFails, ModelCalls, BatchReturns
<1>2. LoopInit => PurposeTyped
  BY DEF LoopInit, PurposeTyped, ModelRequests
<1> QED
  BY <1>1, <1>2, PurposeStep, PTL DEF LoopSpec, NoCallAfterAbort

-----------------------------------------------------------------------------

\* The calls of c that succeeded with results r, and what the evidence e is after
\* them: something was changed, and nothing has read it since.
Ok(c, r, tool) == {i \in DOMAIN r : c[i] = tool /\ r[i] = "ok"}
Mutated(e, c, r) == e.mutations > 0 \/ Ok(c, r, "write") # {}
Verified(e, c, r) ==
  \/ e.verified /\ Ok(c, r, "write") = {}
  \/ Mutated(e, c, r) /\ \E i \in Ok(c, r, "read") : \A j \in Ok(c, r, "write") : j < i

\* A batch with an effect is executed in order, and ends with a failure.
CallsOrdered ==
  /\ FailFast
  /\ Parallel \/ \A i, j \in DOMAIN results :
       i < j /\ results[j] \notin {"due", "skipped"} => results[i] \notin {"due", "running"}

EvidenceSound ==
  /\ changed => Mutated(evidence, calls, results) /\ ~Verified(evidence, calls, results)
  /\ Mutated(evidence, calls, results) => effects > 0
  /\ \A i \in DOMAIN results : calls[i] = "write" /\ results[i] \notin {"due", "skipped"} => effects > 0

TextSound ==
  /\ purpose = "end" /\ step \in {"reserving", "asking"} /\ ~blocked => Accepted(text)
  /\ outcome = "completed" => Accepted(text)

BetweenBatches ==
  /\ step \in {"reserving", "asking", "model"} \/ outcome = "completed" => results = <<>>
  /\ outcome = "completed" => step = "ended"

EvidenceTyped ==
  /\ evidence \in [mutations : Nat, verified : BOOLEAN] /\ effects \in Nat
  /\ calls \in Seq(Tools) /\ DOMAIN results \in {{}, DOMAIN calls}

EvidenceInv == EvidenceTyped /\ BetweenBatches /\ CallsOrdered /\ EvidenceSound /\ TextSound

\* What recordAgentResultEvidence makes of a batch.
LEMMA RecordedIs ==
  ASSUME EvidenceTyped
  PROVE  /\ Recorded \in [mutations : Nat, verified : BOOLEAN]
         /\ Recorded.mutations > 0 <=> Mutated(evidence, calls, results)
         /\ Recorded.verified <=> Verified(evidence, calls, results)
<1> DEFINE W == Succeeded("write")
<1>1. W = Ok(calls, results, "write") /\ Succeeded("read") = Ok(calls, results, "read")
  BY DEF Succeeded, Ok
<1>2. IsFiniteSet(W)
  <2>1. DOMAIN calls = 1..Len(calls) /\ Len(calls) \in Nat
    BY DEF EvidenceTyped
  <2>2. W \subseteq 1..Len(calls)
    BY <2>1 DEF EvidenceTyped, Succeeded
  <2>3. IsFiniteSet(1..Len(calls))
    BY <2>1, FS_Interval
  <2> QED
    BY <2>2, <2>3, FS_Subset
<1>3. Cardinality(W) \in Nat /\ (Cardinality(W) = 0 <=> W = {})
  BY <1>2, FS_CardinalityType, FS_EmptySet
<1> HIDE DEF W
<1>4. Mutations \in Nat /\ (Mutations > 0 <=> Mutated(evidence, calls, results))
  <2>1. Mutations = evidence.mutations + Cardinality(W) /\ evidence.mutations \in Nat
    BY DEF Mutations, EvidenceTyped, W
  <2> QED
    BY <1>1, <1>3, <2>1 DEF Mutated
<1>5. Recorded.mutations = Mutations
      /\ Recorded = [mutations |-> Mutations, verified |-> Recorded.verified]
  BY DEF Recorded
<1>6. Recorded.verified <=> Verified(evidence, calls, results)
  BY <1>1, <1>4 DEF Recorded, Verified, W, ReadAfterWrites
<1>7. Recorded.verified \in BOOLEAN
  BY DEF Recorded, EvidenceTyped
<1> QED
  BY <1>4, <1>5, <1>6, <1>7

\* With no results the evidence is what it was.
LEMMA NothingRecorded ==
  ASSUME NEW e \in [mutations : Nat, verified : BOOLEAN], NEW c
  PROVE  (Mutated(e, c, <<>>) <=> e.mutations > 0) /\ (Verified(e, c, <<>>) <=> e.verified)
<1>1. \A tool : Ok(c, <<>>, tool) = {}
  BY DEF Ok
<1> QED
  BY <1>1 DEF Mutated, Verified

\* Nothing the evidence depends on changes while there are no results.
LEMMA EvidenceRests ==
  ASSUME EvidenceInv, EvidenceTyped', results' = <<>>, results = <<>>,
         UNCHANGED <<evidence, effects, changed>>, BetweenBatches', TextSound'
  PROVE  EvidenceInv'
<1>1. DOMAIN results' = {}
  OBVIOUS
<1>2. CallsOrdered'
  BY <1>1 DEF CallsOrdered, FailFast
<1>3. evidence \in [mutations : Nat, verified : BOOLEAN]
  BY DEF EvidenceInv, EvidenceTyped
<1>4. /\ Mutated(evidence, calls, results) <=> evidence.mutations > 0
      /\ Verified(evidence, calls, results) <=> evidence.verified
      /\ Mutated(evidence, calls, results)' <=> evidence.mutations > 0
      /\ Verified(evidence, calls, results)' <=> evidence.verified
  <2>1. PICK c : c = calls'
    OBVIOUS
  <2> QED
    BY <1>3, <2>1, NothingRecorded
<1>5. EvidenceSound'
  BY <1>1, <1>4 DEF EvidenceInv, EvidenceSound
<1> QED
  BY <1>2, <1>5 DEF EvidenceInv

LEMMA EvidenceStep ==
  ASSUME LoopAssumption, PurposeTyped, EvidenceInv, [LoopNext]_loopVars
  PROVE  EvidenceInv'
<1>0. /\ evidence \in [mutations : Nat, verified : BOOLEAN] /\ effects \in Nat
      /\ calls \in Seq(Tools) /\ DOMAIN results \in {{}, DOMAIN calls}
      /\ outcome = "completed" => step = "ended"
      /\ step \in {"reserving", "asking", "model"} => results = <<>>
  BY DEF EvidenceInv, EvidenceTyped, BetweenBatches
<1>a. ASSUME UNCHANGED <<calls, results, evidence, effects, changed>>, BetweenBatches', TextSound'
      PROVE  EvidenceInv'
  <2>1. EvidenceTyped' /\ CallsOrdered'
    BY <1>a DEF EvidenceInv, EvidenceTyped, CallsOrdered, FailFast, Parallel
  <2>2. Mutated(evidence, calls, results)' = Mutated(evidence, calls, results)
        /\ Verified(evidence, calls, results)' = Verified(evidence, calls, results)
    BY <1>a
  <2>3. EvidenceSound'
    BY <1>a, <2>2 DEF EvidenceInv, EvidenceSound
  <2> QED
    BY <1>a, <2>1, <2>3 DEF EvidenceInv
<1>b. ASSUME UNCHANGED <<text, evidence>>, NEW t, t = text
      PROVE  Accepted(t)' = Accepted(t)
  BY <1>b DEF Accepted
<1>1. CASE Reserve
  <2>1. UNCHANGED <<calls, evidence, effects, changed, text, blocked, purpose>> /\ step = "reserving"
    BY <1>1 DEF Reserve, decisionVars, historyVars
  <2>2. Accepted(text)' = Accepted(text)
    BY <2>1 DEF Accepted
  <2>3. CASE Over(purpose) = {} /\ purpose = "tools"
    <3>1. results' = [i \in DOMAIN calls |-> "due"] /\ step' = "batch" /\ UNCHANGED outcome
      BY <1>1, <2>3 DEF Reserve
    <3>2. EvidenceTyped' /\ BetweenBatches' /\ TextSound'
      BY <1>0, <2>1, <2>3, <3>1 DEF EvidenceTyped, BetweenBatches, TextSound
    <3>3. CallsOrdered'
      BY <3>1 DEF CallsOrdered, FailFast
    <3>4. \A tool : Ok(calls, results', tool) = {}
      BY <3>1 DEF Ok
    <3>5. /\ Mutated(evidence, calls, results') <=> evidence.mutations > 0
          /\ Verified(evidence, calls, results') <=> evidence.verified
      BY <1>0, <3>4 DEF Mutated, Verified
    <3>6. /\ Mutated(evidence, calls, results) <=> evidence.mutations > 0
          /\ Verified(evidence, calls, results) <=> evidence.verified
      BY <1>0, <2>1, NothingRecorded
    <3>7. \A i \in DOMAIN results' : results'[i] = "due"
      BY <3>1
    <3>8. EvidenceSound'
      BY <2>1, <3>5, <3>6, <3>7 DEF EvidenceInv, EvidenceSound
    <3> QED
      BY <3>2, <3>3, <3>8 DEF EvidenceInv
  <2>4. CASE Over(purpose) = {} /\ purpose = "end"
    <3>1. /\ UNCHANGED results /\ step' = "ended"
          /\ outcome' = IF blocked THEN "blocked" ELSE "completed"
      BY <1>1, <2>4 DEF Reserve, End
    <3>2. BetweenBatches'
      BY <1>0, <2>1, <3>1 DEF BetweenBatches
    <3>3. TextSound'
      BY <2>1, <2>2, <2>4, <3>1 DEF EvidenceInv, TextSound
    <3> QED
      BY <1>a, <2>1, <3>1, <3>2, <3>3
  <2>5. CASE ~(Over(purpose) = {} /\ purpose \in {"tools", "end"})
    <3>1. /\ UNCHANGED <<results, outcome>>
          /\ step' = "asking" \/ (step' = "model" /\ purpose # "end")
      BY <1>1, <2>5 DEF Reserve
    <3>2. BetweenBatches' /\ TextSound'
      BY <1>0, <2>1, <2>2, <3>1 DEF EvidenceInv, BetweenBatches, TextSound
    <3> QED
      BY <1>a, <2>1, <3>1, <3>2
  <2> QED
    BY <2>3, <2>4, <2>5
<1>2. CASE Extend \/ Decline \/ TimePasses \/ Abort \/ GiveUp \/ Close
      \/ \E again \in BOOLEAN, how \in {"failed", "blocked"} : ModelFails(again, how)
  <2>1. UNCHANGED <<calls, results, evidence, effects, changed, text, blocked>>
    BY <1>2 DEF Extend, Decline, TimePasses, Abort, GiveUp, Close, ModelFails, batchVars, decisionVars,
                historyVars
  <2>2. Accepted(text)' = Accepted(text)
    BY <2>1 DEF Accepted
  <2>3. \/ step' \in {"reserving", "asking"} /\ step \in {"reserving", "asking"} /\ UNCHANGED <<purpose, outcome>>
        \/ step' = step /\ UNCHANGED <<purpose, outcome>>
        \/ /\ step' \in {"reserving", "model"} /\ purpose' # "end" /\ UNCHANGED outcome
           /\ step \in {"asking", "model"}
        \/ step' = "ended" /\ outcome' \in {"cancelled", "blocked", "failed"}
    BY <1>2 DEF Extend, Decline, TimePasses, Abort, GiveUp, Close, ModelFails, End, Continuations
  <2>4. BetweenBatches'
    BY <1>0, <2>1, <2>3 DEF EvidenceInv, BetweenBatches
  <2>5. TextSound'
    BY <1>0, <2>1, <2>2, <2>3 DEF EvidenceInv, TextSound
  <2> QED
    BY <1>a, <2>1, <2>4, <2>5
<1>3. ASSUME NEW t, NEW repair \in BOOLEAN, NEW rewrite \in BOOLEAN, ModelWrites(t, repair, rewrite)
      PROVE  EvidenceInv'
  <2>1. step = "model" /\ UNCHANGED <<outcome, effects, changed>>
    BY <1>3 DEF ModelWrites, historyVars
  <2>2. CASE \E u : \E block, again \in BOOLEAN : Finish(u, block, again)
    <3>0. PICK u : \E block, again \in BOOLEAN : Finish(u, block, again)
      BY <2>2
    <3>1. PICK block \in BOOLEAN, again \in BOOLEAN : Finish(u, block, again)
      BY <3>0
    <3>2. /\ UNCHANGED <<calls, results, evidence>> /\ step' = "reserving" /\ text' = u
          /\ purpose' = "end" /\ ~blocked' => Accepted(u)
      BY <3>1 DEF Finish, Request, batchVars
    <3>3. Accepted(text)' = Accepted(u)
      BY <3>2 DEF Accepted
    <3>4. BetweenBatches' /\ TextSound'
      BY <1>0, <2>1, <3>2, <3>3 DEF BetweenBatches, TextSound
    <3> QED
      BY <1>a, <2>1, <3>2, <3>4
  <2>3. CASE \E p \in {"nudge", "correction", "verification", "report", "planning", "arbiter"} :
               \E u : Continue(p, u)
    <3>1. UNCHANGED <<calls, results, evidence>> /\ step' = "reserving" /\ purpose' # "end"
      BY <2>3 DEF Continue, Request, batchVars
    <3>2. BetweenBatches' /\ TextSound'
      BY <1>0, <2>1, <3>1 DEF BetweenBatches, TextSound
    <3> QED
      BY <1>a, <2>1, <3>1, <3>2
  <2> QED
    BY <1>3, <2>2, <2>3, TextShapes
<1>4. ASSUME NEW batch \in Batches, NEW guards, ModelCalls(batch, guards)
      PROVE  EvidenceInv'
  <2>1. /\ step = "model" /\ step' = "reserving" /\ purpose' = "tools" /\ calls' = batch /\ results' = <<>>
        /\ UNCHANGED <<evidence, effects, changed, outcome>>
    BY <1>4 DEF ModelCalls, NewBatch, Request, historyVars
  <2>2. batch \in Seq(Tools)
    BY DEF Batches, LoopAssumption
  <2>3. BetweenBatches' /\ TextSound'
    BY <1>0, <2>1 DEF BetweenBatches, TextSound
  <2>4. DOMAIN results' = {}
    BY <2>1
  <2>5. EvidenceTyped'
    BY <1>0, <2>1, <2>2, <2>4 DEF EvidenceTyped
  <2> QED
    BY <1>0, <2>1, <2>3, <2>5, EvidenceRests
<1>5. ASSUME NEW i \in DOMAIN results, BeginCall(i) \/ SkipCall(i) \/ \E result \in Done : EndCall(i, result)
      PROVE  EvidenceInv'
  <2>1. PICK r : /\ results' = [results EXCEPT ![i] = r]
                 /\ UNCHANGED <<calls, evidence, text, step, purpose, outcome, blocked>>
    BY <1>5 DEF BeginCall, SkipCall, EndCall, decisionVars
  <2>2. effects' \in Nat /\ effects' >= effects
    <3>1. Writes(<<calls[i]>>) \in {0, 1}
      BY OneWrite
    <3> QED
      BY <1>0, <1>5, <3>1 DEF BeginCall, SkipCall, EndCall, historyVars
  <2>3. results # <<>> /\ step \notin {"reserving", "asking", "model"} /\ outcome # "completed"
    <3>1. results # <<>>
      OBVIOUS
    <3> QED
      BY <3>1 DEF EvidenceInv, BetweenBatches
  <2>4. EvidenceTyped' /\ BetweenBatches' /\ TextSound'
    BY <1>0, <2>1, <2>2, <2>3 DEF EvidenceTyped, BetweenBatches, TextSound
  <2>5. /\ DOMAIN results' = DOMAIN results /\ results'[i] = r
        /\ \A j \in DOMAIN results : j # i => results'[j] = results[j]
    BY <2>1
  <2>6. i \in Nat /\ \A j \in DOMAIN results : j \in Nat
    BY <1>0
  <2>7. CallsOrdered'
    <3>1. Parallel' = Parallel
      BY <2>1 DEF Parallel
    <3>2. CASE Parallel
      BY <3>1, <3>2 DEF CallsOrdered, FailFast
    <3>3. CASE ~Parallel
      <4>1. /\ \A j, k \in DOMAIN results :
                 j < k /\ results[j] \notin {"due", "running", "ok"} => results[k] \in {"due", "skipped"}
            /\ \A j, k \in DOMAIN results :
                 j < k /\ results[k] \notin {"due", "skipped"} => results[j] \notin {"due", "running"}
        BY <3>3 DEF EvidenceInv, CallsOrdered, FailFast
      <4>2. CASE BeginCall(i)
        <5>1. r = "running" /\ results[i] = "due"
              /\ \A j \in DOMAIN results : j < i => results[j] = "ok"
          <6>1. r = "running" /\ MayBegin(i)
            BY <2>1, <2>5, <4>2 DEF BeginCall
          <6>2. \A j \in DOMAIN results : j < i => j \in 1..i - 1
            BY <1>0, <2>6
          <6> QED
            BY <3>3, <6>1, <6>2 DEF MayBegin, Failing
        <5> QED
          BY <2>5, <2>6, <4>1, <5>1 DEF CallsOrdered, FailFast
      <4>3. CASE SkipCall(i)
        <5>1. r = "skipped" /\ results[i] = "due" /\ \E j \in 1..i - 1 : Failing(j)
          BY <2>1, <2>5, <4>3 DEF SkipCall
        <5>2. \A k \in DOMAIN results : i < k => results[k] \in {"due", "skipped"}
          <6>1. PICK j \in 1..i - 1 : Failing(j)
            BY <5>1
          <6>2. j \in DOMAIN results => results[j] \notin {"due", "running", "ok"}
            BY <6>1 DEF Failing
          <6>3. DOMAIN results = 1..Len(calls) /\ Len(calls) \in Nat
            BY <1>0
          <6>4. j \in DOMAIN results /\ \A k \in DOMAIN results : i < k => j < k
            BY <2>6, <6>1, <6>3
          <6> QED
            BY <4>1, <6>2, <6>4
        <5> QED
          BY <2>5, <2>6, <4>1, <5>1, <5>2 DEF CallsOrdered, FailFast
      <4>4. CASE \E result \in Done : EndCall(i, result)
        <5>1. results[i] = "running" /\ r \in Done
          BY <2>1, <2>5, <4>4 DEF EndCall
        <5>2. \A k \in DOMAIN results : i < k => results[k] \in {"due", "skipped"}
          BY <4>1, <5>1
        <5> QED
          BY <2>5, <2>6, <4>1, <5>1, <5>2 DEF CallsOrdered, FailFast, Done
      <4> QED
        BY <1>5, <4>2, <4>3, <4>4
    <3> QED
      BY <3>2, <3>3
  <2>8. EvidenceSound'
    <3>0. i \in DOMAIN calls /\ calls[i] \in Tools /\ results[i] # "ok"
      BY <1>0, <1>5 DEF BeginCall, MayBegin, SkipCall, EndCall
    <3>1. \A tool : Ok(calls', results', tool) = IF r = "ok" /\ calls[i] = tool
                                                 THEN Ok(calls, results, tool) \cup {i}
                                                 ELSE Ok(calls, results, tool)
      BY <2>1, <2>5, <3>0 DEF Ok
    <3>2. calls[i] = "write" /\ r \notin {"due", "skipped"} => effects' > 0
      <4>1. CASE BeginCall(i)
        <5>1. effects' = effects + Writes(<<calls[i]>>)
          BY <4>1 DEF BeginCall
        <5> QED
          BY <1>0, <5>1, OneWrite
      <4>2. CASE SkipCall(i)
        BY <2>5, <4>2 DEF SkipCall
      <4>3. CASE \E result \in Done : EndCall(i, result)
        <5>1. results[i] = "running"
          BY <4>3 DEF EndCall
        <5>2. calls[i] = "write" => effects > 0
          BY <5>1 DEF EvidenceInv, EvidenceSound
        <5> QED
          BY <1>0, <2>2, <5>2
      <4> QED
        BY <1>5, <4>1, <4>2, <4>3
    <3>3. \A j \in DOMAIN results' :
            calls'[j] = "write" /\ results'[j] \notin {"due", "skipped"} => effects' > 0
      <4>1. effects > 0 => effects' > 0
        BY <1>0, <2>2
      <4> QED
        BY <2>1, <2>5, <3>2, <4>1 DEF EvidenceInv, EvidenceSound
    <3>4. changed' = IF r = "ok" THEN calls[i] = "write" ELSE changed
      BY <1>5, <2>1, <2>5 DEF BeginCall, SkipCall, EndCall, historyVars
    <3>5. /\ changed => Mutated(evidence, calls, results) /\ ~Verified(evidence, calls, results)
          /\ Mutated(evidence, calls, results) => effects' > 0
      BY <1>0, <2>2 DEF EvidenceInv, EvidenceSound
    <3>6. CASE r # "ok"
      <4>1. Mutated(evidence, calls, results)' = Mutated(evidence, calls, results)
            /\ Verified(evidence, calls, results)' = Verified(evidence, calls, results)
        BY <2>1, <3>1, <3>6 DEF Mutated, Verified
      <4> QED
        BY <3>3, <3>4, <3>5, <3>6, <4>1 DEF EvidenceSound
    <3>7. CASE r = "ok" /\ calls[i] # "write"
      <4>1. Mutated(evidence, calls, results)' = Mutated(evidence, calls, results)
        BY <2>1, <3>1, <3>7 DEF Mutated
      <4> QED
        BY <3>3, <3>4, <3>5, <3>7, <4>1 DEF EvidenceSound
    <3>8. CASE r = "ok" /\ calls[i] = "write"
      <4>1. Ok(calls', results', "write") = Ok(calls, results, "write") \cup {i}
            /\ Ok(calls', results', "read") = Ok(calls, results, "read")
        BY <3>1, <3>8
      <4>2. \A k \in Ok(calls, results, "read") : ~(i < k)
        <5>1. ~Parallel
          BY <3>0, <3>8 DEF Parallel
        <5>2. \A k \in DOMAIN results : i < k /\ results[k] \notin {"due", "skipped"} =>
                                          results[i] \notin {"due", "running"}
          BY <5>1 DEF EvidenceInv, CallsOrdered
        <5>3. results[i] = "running"
          BY <1>5, <2>5, <3>8 DEF BeginCall, SkipCall, EndCall
        <5> QED
          BY <5>2, <5>3 DEF Ok
      <4>3. Mutated(evidence, calls, results)' /\ ~Verified(evidence, calls, results)'
        BY <2>1, <4>1, <4>2 DEF Mutated, Verified
      <4>4. effects' > 0
        BY <3>2, <3>8
      <4> QED
        BY <3>3, <4>3, <4>4 DEF EvidenceSound
    <3> QED
      BY <3>6, <3>7, <3>8
  <2> QED
    BY <2>4, <2>7, <2>8 DEF EvidenceInv
<1>6. ASSUME NEW stops \in BOOLEAN, NEW reason \in BOOLEAN, BatchReturns(stops, reason)
      PROVE  EvidenceInv'
  <2>1. /\ calls' = <<>> /\ results' = <<>> /\ evidence' = Recorded /\ step = "batch"
        /\ UNCHANGED <<effects, changed>>
        /\ \/ step' = "ended" /\ outcome' = "cancelled"
           \/ step' = "reserving" /\ purpose' \in {"summary", "next"} /\ UNCHANGED outcome
    BY <1>6 DEF BatchReturns, Request, End, historyVars
  <2>2. BetweenBatches' /\ TextSound'
    BY <1>0, <2>1 DEF BetweenBatches, TextSound
  <2>3. /\ Recorded \in [mutations : Nat, verified : BOOLEAN]
        /\ Recorded.mutations > 0 <=> Mutated(evidence, calls, results)
        /\ Recorded.verified <=> Verified(evidence, calls, results)
    BY RecordedIs DEF EvidenceInv
  <2>4. DOMAIN results' = {} /\ calls' \in Seq(Tools)
    BY <2>1
  <2>5. EvidenceTyped' /\ CallsOrdered'
    BY <1>0, <2>1, <2>3, <2>4 DEF EvidenceTyped, CallsOrdered, FailFast
  <2>6. /\ Mutated(evidence', <<>>, <<>>) <=> Mutated(evidence, calls, results)
        /\ Verified(evidence', <<>>, <<>>) <=> Verified(evidence, calls, results)
    BY <2>1, <2>3, NothingRecorded
  <2>7. EvidenceSound'
    BY <2>1, <2>4, <2>6 DEF EvidenceInv, EvidenceSound
  <2> QED
    BY <2>2, <2>5, <2>7 DEF EvidenceInv
<1>7. CASE UNCHANGED loopVars
  <2>1. UNCHANGED <<calls, results, evidence, effects, changed, text, blocked, purpose, step, outcome>>
    BY <1>7 DEF loopVars, batchVars, decisionVars, historyVars
  <2>2. BetweenBatches' /\ TextSound'
    BY <2>1 DEF EvidenceInv, BetweenBatches, TextSound, Accepted
  <2> QED
    BY <1>a, <2>1, <2>2
<1> QED
  BY <1>1, <1>2, <1>3, <1>4, <1>5, <1>6, <1>7 DEF LoopNext

LEMMA EvidenceStarts ==
  ASSUME LoopAssumption, LoopInit
  PROVE  EvidenceInv
<1>1. /\ step = "reserving" /\ purpose = "plan" /\ calls = <<>> /\ results = <<>> /\ outcome = "none"
      /\ effects = 0 /\ changed = FALSE /\ evidence = [mutations |-> 0, verified |-> FALSE]
  BY DEF LoopInit
<1>2. DOMAIN results = {} /\ calls \in Seq(Tools)
  BY <1>1
<1>3. EvidenceTyped /\ BetweenBatches /\ CallsOrdered /\ TextSound
  BY <1>1, <1>2 DEF EvidenceTyped, BetweenBatches, CallsOrdered, FailFast, TextSound
<1>4. Mutated(evidence, calls, results) <=> evidence.mutations > 0
  BY <1>1, <1>3, NothingRecorded DEF EvidenceTyped
<1>5. EvidenceSound
  BY <1>1, <1>2, <1>4 DEF EvidenceSound
<1> QED
  BY <1>3, <1>5 DEF EvidenceInv

\* A run ends completed with a claim only when what it claims has succeeded and
\* was read afterwards, and no batch goes on behind a call that has failed.
THEOREM ClaimsAreBacked == LoopSpec => [](CompletedIsBacked /\ FailFast)
<1>1. LoopInit => PurposeTyped
  BY DEF LoopInit, PurposeTyped, ModelRequests
<1>2. LoopInit => EvidenceInv
  BY EvidenceStarts, LoopAssumption
<1>3. PurposeTyped /\ EvidenceInv /\ [LoopNext]_loopVars => (PurposeTyped /\ EvidenceInv)'
  BY PurposeStep, EvidenceStep, LoopAssumption
<1>4. EvidenceInv => CompletedIsBacked /\ FailFast
  <2> SUFFICES ASSUME EvidenceInv
               PROVE  CompletedIsBacked /\ FailFast
    OBVIOUS
  <2>1. FailFast
    BY DEF EvidenceInv, CallsOrdered
  <2>2. ASSUME outcome = "completed", text = "claim"
        PROVE  ~changed /\ (RequestedEffect => effects > 0)
    <3>1. results = <<>> /\ Accepted(text)
      BY <2>2 DEF EvidenceInv, BetweenBatches, TextSound
    <3>2. /\ Mutated(evidence, calls, results) <=> evidence.mutations > 0
          /\ Verified(evidence, calls, results) <=> evidence.verified
      BY <3>1, NothingRecorded DEF EvidenceInv, EvidenceTyped
    <3> QED
      BY <2>2, <3>1, <3>2 DEF EvidenceInv, EvidenceSound, Accepted
  <2> QED
    BY <2>1, <2>2 DEF CompletedIsBacked
<1> QED
  BY <1>1, <1>2, <1>3, <1>4, PTL DEF LoopSpec

(* The types of a run. *)

\* Where a run is, what it came to, and what is recorded of its calls.
LoopStages ==
  /\ step \in {"reserving", "asking", "model", "batch", "ended"}
  /\ outcome \in {"none", "completed", "blocked", "cancelled", "failed"}
  /\ (outcome = "none") = (step # "ended")
LoopBatch ==
  /\ Len(calls) <= MaxBatch
  /\ \A i \in DOMAIN results : results[i] \in Done \cup {"due", "running"}

LEMMA LoopTypes ==
  ASSUME LoopAssumption, PurposeTyped, BudgetTyped, LoopStages, LoopBatch, [LoopNext]_loopVars
  PROVE  LoopStages' /\ LoopBatch'
<1>a. ASSUME NEW how \in {"completed", "blocked", "cancelled", "failed"}, End(how)
      PROVE  LoopStages'
  BY <1>a DEF End, LoopStages
<1>b. ASSUME step # "ended", step' \in {"reserving", "asking", "model", "batch"}, outcome' = outcome
      PROVE  LoopStages'
  BY <1>b DEF LoopStages
<1>c. UNCHANGED <<step, outcome>> => LoopStages'
  BY DEF LoopStages
<1>d. UNCHANGED batchVars => LoopBatch'
  BY DEF LoopBatch, batchVars
<1>e. ASSUME results' = <<>>, calls' = <<>> \/ calls' \in Batches
      PROVE  LoopBatch'
  <2>1. DOMAIN results' = {}
    BY <1>e
  <2>2. Len(<<>>) = 0 /\ 0 <= MaxBatch
    BY DEF LoopAssumption
  <2>3. \A batch \in Batches : Len(batch) <= MaxBatch
    BY DEF Batches, LoopAssumption
  <2> QED
    BY <1>e, <2>1, <2>2, <2>3 DEF LoopBatch
<1>1. CASE Reserve
  <2>1. LoopStages'
    <3>1. CASE Over(purpose) = {}
      BY <1>1, <3>1, <1>a, <1>b DEF Reserve
    <3>2. CASE Over(purpose) # {}
      BY <1>1, <3>2, <1>b DEF Reserve
    <3> QED
      BY <3>1, <3>2
  <2>2. LoopBatch'
    BY <1>1 DEF Reserve, LoopBatch
  <2> QED
    BY <2>1, <2>2
<1>2. CASE Extend \/ Decline \/ TimePasses \/ Abort
  <2>1. LoopStages'
    BY <1>2, <1>b, <1>c DEF Extend, Decline, TimePasses, Abort
  <2>2. UNCHANGED batchVars
    BY <1>2 DEF Extend, Decline, TimePasses, Abort
  <2> QED
    BY <1>d, <2>1, <2>2
<1>3. CASE GiveUp \/ Close
  <2>1. LoopStages'
    BY <1>3, <1>a DEF GiveUp, Close
  <2>2. UNCHANGED batchVars
    BY <1>3 DEF GiveUp, Close
  <2> QED
    BY <1>d, <2>1, <2>2
<1>4. ASSUME NEW again \in BOOLEAN, NEW how \in {"failed", "blocked"}, ModelFails(again, how)
      PROVE  LoopStages' /\ LoopBatch'
  <2>1. LoopStages'
    BY <1>4, <1>a, <1>b DEF ModelFails
  <2>2. UNCHANGED batchVars
    BY <1>4 DEF ModelFails
  <2> QED
    BY <1>d, <2>1, <2>2
<1>5. ASSUME NEW t, NEW repair \in BOOLEAN, NEW rewrite \in BOOLEAN, ModelWrites(t, repair, rewrite)
      PROVE  LoopStages' /\ LoopBatch'
  <2>1. step = "model" /\ outcome' = outcome
    BY <1>5 DEF ModelWrites
  <2>2. UNCHANGED batchVars /\ step' = "reserving"
    BY <1>5, TextShapes DEF Finish, Continue, Request
  <2> QED
    BY <1>b, <1>d, <2>1, <2>2
<1>6. ASSUME NEW batch \in Batches, NEW guards, ModelCalls(batch, guards)
      PROVE  LoopStages' /\ LoopBatch'
  BY <1>6, <1>b, <1>e DEF ModelCalls, NewBatch, Request
<1>7. ASSUME NEW i \in DOMAIN results, NEW result \in Done \cup {"running"},
             results' = [results EXCEPT ![i] = result], UNCHANGED <<step, calls, outcome>>
      PROVE  LoopStages' /\ LoopBatch'
  BY <1>7, <1>c DEF LoopBatch
<1>8. ASSUME NEW i \in DOMAIN results, BeginCall(i)
      PROVE  LoopStages' /\ LoopBatch'
  BY <1>7, <1>8 DEF BeginCall
<1>9. ASSUME NEW i \in DOMAIN results, SkipCall(i)
      PROVE  LoopStages' /\ LoopBatch'
  BY <1>7, <1>9 DEF SkipCall, Done
<1>10. ASSUME NEW i \in DOMAIN results, NEW result \in Done \ {"skipped"}, EndCall(i, result)
       PROVE  LoopStages' /\ LoopBatch'
  BY <1>7, <1>10 DEF EndCall
<1>11. ASSUME NEW stops \in BOOLEAN, NEW reason \in BOOLEAN, BatchReturns(stops, reason)
       PROVE  LoopStages' /\ LoopBatch'
  <2>1. LoopStages'
    <3>1. CASE \E i \in DOMAIN calls : results[i] = "denied"
      BY <1>11, <3>1, <1>a DEF BatchReturns
    <3>2. CASE ~\E i \in DOMAIN calls : results[i] = "denied"
      BY <1>11, <3>2, <1>b DEF BatchReturns, Request
    <3> QED
      BY <3>1, <3>2
  <2> QED
    BY <1>11, <1>e, <2>1 DEF BatchReturns
<1>12. CASE UNCHANGED loopVars
  BY <1>12, <1>c, <1>d DEF loopVars
<1> QED
  BY <1>1, <1>2, <1>3, <1>4, <1>5, <1>6, <1>8, <1>9, <1>10, <1>11, <1>12 DEF LoopNext

\* All that is known of a run.
RunInv == PurposeTyped /\ BudgetInv /\ EvidenceInv /\ LoopStages /\ LoopBatch

LEMMA RunStep ==
  ASSUME LoopAssumption, RunInv, [LoopNext]_loopVars
  PROVE  RunInv'
BY PurposeStep, BudgetStep, EvidenceStep, LoopTypes DEF RunInv, BudgetInv

LEMMA RunStarts ==
  ASSUME LoopAssumption, LoopInit
  PROVE  RunInv
<1>1. PurposeTyped
  BY DEF LoopInit, PurposeTyped, ModelRequests
<1>2. calls = <<>> /\ results = <<>> /\ step = "reserving" /\ outcome = "none"
  BY DEF LoopInit
<1>3. Len(<<>>) = 0 /\ DOMAIN <<>> = {} /\ 0 <= MaxBatch
  BY DEF LoopAssumption
<1>4. LoopStages /\ LoopBatch
  BY <1>2, <1>3 DEF LoopStages, LoopBatch
<1> QED
  BY <1>1, <1>4, BudgetStarts, EvidenceStarts DEF RunInv

LEMMA RunTypes ==
  ASSUME RunInv
  PROVE  LoopTypeOK
BY DEF RunInv, BudgetInv, BudgetTyped, EvidenceInv, EvidenceTyped, LoopStages, LoopBatch, LoopTypeOK, Range

\* A run is over exactly when it has come to something, and what is recorded of
\* its batch is of the calls of that batch.
THEOREM LoopTyping == LoopSpec => []LoopTypeOK
<1>1. LoopInit => RunInv
  BY RunStarts, LoopAssumption
<1>2. RunInv /\ [LoopNext]_loopVars => RunInv'
  BY RunStep, LoopAssumption
<1>3. RunInv => LoopTypeOK
  BY RunTypes
<1> QED
  BY <1>1, <1>2, <1>3, PTL DEF LoopSpec

-----------------------------------------------------------------------------
(* ReleaseUpdate *)

LEMMA ReplacementIs ==
  ASSUME UpdateAssumption
  PROVE  /\ Replacement[1] = [do |-> "drop", part |-> "runtime"]
         /\ Replacement[2] = [do |-> "drop", part |-> "extension"]
         /\ Replacement[3] = [do |-> "keep", part |-> "runtime"]
         /\ Replacement[4] = [do |-> "place", part |-> "runtime"]
         /\ Replacement[5] = [do |-> "keep", part |-> "extension"]
         /\ Replacement[6] = [do |-> "place", part |-> "extension"]
         /\ Replacement[7].do = "guide"
         /\ Len(Replacement) = IF Windows THEN 9 ELSE 8
         /\ ~Windows => Replacement[8].do = "record"
         /\ Windows => Replacement[8].do = "forget" /\ Replacement[9].do = "record"
<1> DEFINE dropR  == [do |-> "drop", part |-> "runtime"]
           dropE  == [do |-> "drop", part |-> "extension"]
           keepR  == [do |-> "keep", part |-> "runtime"]
           placeR == [do |-> "place", part |-> "runtime"]
           keepE  == [do |-> "keep", part |-> "extension"]
           placeE == [do |-> "place", part |-> "extension"]
           guide  == [do |-> "guide"]
           forget == [do |-> "forget"]
           record == [do |-> "record"]
           T == {dropR, dropE, keepR, placeR, keepE, placeE, guide, forget, record}
           A == <<dropR, dropE, keepR, placeR, keepE, placeE, guide>>
           B == IF Windows THEN <<forget, record>> ELSE <<record>>
<1>1. A \in Seq(T) /\ Len(A) = 7
  <2> HIDE DEF dropR, dropE, keepR, placeR, keepE, placeE, guide, forget, record
  <2> QED
    OBVIOUS
<1>2. B \in Seq(T) /\ Len(B) = IF Windows THEN 2 ELSE 1
  <2> HIDE DEF dropR, dropE, keepR, placeR, keepE, placeE, guide, forget, record
  <2>1. CASE Windows
    BY <2>1
  <2>2. CASE ~Windows
    BY <2>2
  <2> QED
    BY <2>1, <2>2
<1>3. Replacement = A \o B
  BY DEF Replacement
<1>4. /\ A[1] = [do |-> "drop", part |-> "runtime"]
      /\ A[2] = [do |-> "drop", part |-> "extension"]
      /\ A[3] = [do |-> "keep", part |-> "runtime"]
      /\ A[4] = [do |-> "place", part |-> "runtime"]
      /\ A[5] = [do |-> "keep", part |-> "extension"]
      /\ A[6] = [do |-> "place", part |-> "extension"]
      /\ A[7].do = "guide"
  OBVIOUS
<1>5. /\ ~Windows => B[1].do = "record"
      /\ Windows => B[1].do = "forget" /\ B[2].do = "record"
  OBVIOUS
<1> HIDE DEF A, B, T
<1>6. /\ Len(A \o B) = Len(A) + Len(B)
      /\ \A i \in 1..(Len(A) + Len(B)) : (A \o B)[i] = IF i <= Len(A) THEN A[i] ELSE B[i - Len(A)]
  BY <1>1, <1>2, ConcatProperties
<1>7. Len(Replacement) = IF Windows THEN 9 ELSE 8
  BY <1>1, <1>2, <1>3, <1>6
<1>8. \A i \in 1..7 : Replacement[i] = A[i]
  BY <1>1, <1>2, <1>3, <1>6
<1>9. Replacement[8] = B[1] /\ (Windows => Replacement[9] = B[2])
  <2>1. 8 \in 1..(Len(A) + Len(B)) /\ (Windows => 9 \in 1..(Len(A) + Len(B)))
    BY <1>1, <1>2
  <2> QED
    BY <1>1, <1>3, <1>6, <2>1
<1> QED
  BY <1>4, <1>5, <1>7, <1>8, <1>9

Disks == [installed : [Parts -> Nat], backup : [Parts -> Nat], record : Nat]

LastStep == Len(Replacement)

UpdateTyped ==
    /\ disk \in Disks /\ published \in Nat
    /\ update \in [at : {"none", "replacing", "undoing"}, step : Nat, version : Nat]
    /\ update.at = "replacing" => update.step \in 1..LastStep /\ update.version # 0
    /\ update.at = "undoing" => update.step \in 3..(LastStep - 1) /\ update.version # 0
    /\ cut \in BOOLEAN

\* The steps that are done and not undone.
StepsDone == IF update.at = "replacing" THEN update.step - 1
             ELSE IF update.at = "undoing" THEN update.step ELSE 0

\* A part has a copy, and what is going to be overwritten is in the backup.
CopiesKept ==
    /\ NoPartIsLost
    /\ update.at # "none" /\ StepsDone >= 3 => disk.backup["runtime"] # 0
    /\ update.at # "none" /\ StepsDone >= 5 => disk.backup["extension"] # 0
    /\ update.at = "replacing" /\ StepsDone < 3 => disk.installed["runtime"] # 0
    /\ update.at = "replacing" /\ StepsDone < 5 => disk.installed["extension"] # 0

\* Until something is cut short, the versions on the disk tell how far the update is.
VersionsTell ==
    /\ update.at = "none" \/ StepsDone < 3 => \A p \in Parts : disk.installed[p] = disk.record
    /\ update.at # "none" /\ StepsDone >= 3 =>
         /\ disk.backup["runtime"] = disk.record
         /\ disk.installed["runtime"] = IF StepsDone = 3 THEN 0 ELSE update.version
         /\ StepsDone < 5 => disk.installed["extension"] = disk.record
         /\ StepsDone >= 5 => /\ disk.backup["extension"] = disk.record
                              /\ disk.installed["extension"] = IF StepsDone = 5 THEN 0 ELSE update.version

UpdateInv == UpdateTyped /\ CopiesKept
WholeInv  == cut \/ VersionsTell

LEMMA StepCount ==
  ASSUME UpdateAssumption
  PROVE  LastStep \in 8..9 /\ (Windows <=> LastStep = 9)
<1>1. LastStep = IF Windows THEN 9 ELSE 8
  BY ReplacementIs DEF LastStep
<1>2. CASE Windows
  BY <1>1, <1>2
<1>3. CASE ~Windows
  BY <1>1, <1>3
<1> QED
  BY <1>2, <1>3

\* What a step of the replacement changes.
LEMMA StepApplied ==
  ASSUME disk \in Disks, update.version \in Nat, NEW s, NEW d, d = Applied(s)
  PROVE  /\ s.do = "drop" /\ s.part \in Parts =>
              /\ d \in Disks /\ d.record = disk.record /\ d.installed = disk.installed
              /\ \A p \in Parts : d.backup[p] = IF p = s.part THEN 0 ELSE disk.backup[p]
         /\ s.do = "keep" /\ s.part \in Parts =>
              /\ d \in Disks /\ d.record = disk.record
              /\ \A p \in Parts : /\ d.installed[p] = IF p = s.part THEN 0 ELSE disk.installed[p]
                                  /\ d.backup[p] = IF p = s.part THEN disk.installed[p] ELSE disk.backup[p]
         /\ s.do = "place" /\ s.part \in Parts =>
              /\ d \in Disks /\ d.record = disk.record /\ d.backup = disk.backup
              /\ \A p \in Parts : d.installed[p] = IF p = s.part THEN update.version ELSE disk.installed[p]
         /\ s.do = "guide" => d = disk
         /\ s.do = "forget" =>
              d \in Disks /\ d.backup = disk.backup /\ d.installed = disk.installed
         /\ s.do = "record" =>
              /\ d \in Disks /\ d.backup = disk.backup /\ d.installed = disk.installed
              /\ d.record = update.version
<1>1. CASE s.do = "drop"
  <2>1. d = [disk EXCEPT !.backup[s.part] = 0]
    BY <1>1 DEF Applied
  <2> QED
    BY <1>1, <2>1 DEF Disks
<1>2. CASE s.do = "keep"
  <2>1. d = [disk EXCEPT !.backup[s.part] = disk.installed[s.part], !.installed[s.part] = 0]
    BY <1>2, Zenon DEF Applied
  <2> DEFINE e == [disk EXCEPT !.backup[s.part] = disk.installed[s.part]]
  <2>2. d = [e EXCEPT !.installed[s.part] = 0]
    BY <2>1
  <2>3. s.part \in Parts =>
          /\ e \in Disks /\ e.record = disk.record /\ e.installed = disk.installed
          /\ \A p \in Parts : e.backup[p] = IF p = s.part THEN disk.installed[p] ELSE disk.backup[p]
    BY DEF Disks
  <2> HIDE DEF e
  <2>4. s.part \in Parts =>
          /\ d \in Disks /\ d.record = e.record /\ d.backup = e.backup
          /\ \A p \in Parts : d.installed[p] = IF p = s.part THEN 0 ELSE e.installed[p]
    BY <2>2, <2>3 DEF Disks
  <2> QED
    BY <1>2, <2>3, <2>4
<1>3. CASE s.do = "place"
  <2>1. d = [disk EXCEPT !.installed[s.part] = update.version]
    BY <1>3 DEF Applied
  <2> QED
    BY <1>3, <2>1 DEF Disks
<1>4. CASE s.do = "forget"
  <2>1. d = [disk EXCEPT !.record = 0]
    BY <1>4 DEF Applied
  <2> QED
    BY <1>4, <2>1 DEF Disks
<1>5. CASE s.do = "record"
  <2>1. d = [disk EXCEPT !.record = update.version]
    BY <1>5 DEF Applied
  <2> QED
    BY <1>5, <2>1 DEF Disks
<1>6. CASE s.do = "guide"
  BY <1>6 DEF Applied
<1> QED
  BY <1>1, <1>2, <1>3, <1>4, <1>5, <1>6

LEMMA ReplaceKeeps ==
  ASSUME UpdateAssumption, UpdateInv, ReplaceStep
  PROVE  UpdateInv' /\ (~Windows /\ WholeInv => WholeInv')
<1> DEFINE n == update.step
           R == "runtime"
           E == "extension"
<1>1. /\ update.at = "replacing" /\ n \in 1..LastStep /\ update.version \in Nat \ {0}
      /\ disk \in Disks /\ published \in Nat /\ cut \in BOOLEAN
      /\ update \in [at : {"none", "replacing", "undoing"}, step : Nat, version : Nat]
  BY DEF ReplaceStep, UpdateInv, UpdateTyped
<1>2. n \in 1..9
  <2>1. LastStep \in 8..9
    BY StepCount
  <2> QED
    BY <1>1, <2>1
<1>3. /\ disk' = Applied(Replacement[n]) /\ published' = published /\ cut' = cut
      /\ update' = IF n = LastStep THEN NotUpdating ELSE [update EXCEPT !.step = n + 1]
  BY DEF ReplaceStep, LastStep
<1>4. R \in Parts /\ E \in Parts /\ R # E /\ Parts = {R, E}
  BY DEF Parts
<1> DEFINE ir == disk.installed[R]  ie == disk.installed[E]  br == disk.backup[R]  be == disk.backup[E]
           jr == disk'.installed[R] je == disk'.installed[E] cr == disk'.backup[R] ce == disk'.backup[E]
<1>5. /\ LastStep = IF Windows THEN 9 ELSE 8
      /\ n = 9 => Windows
  <2>1. LastStep \in 8..9 /\ (Windows <=> LastStep = 9)
    BY StepCount
  <2> QED
    BY <1>1, <2>1
<1>6. /\ disk' \in Disks
      /\ \/ n \in 1..2 /\ jr = ir /\ je = ie /\ cr \in {0, br} /\ ce \in {0, be} /\ disk'.record = disk.record
         \/ n = 3 /\ jr = 0 /\ je = ie /\ cr = ir /\ ce = be /\ disk'.record = disk.record
         \/ n = 4 /\ jr = update.version /\ je = ie /\ cr = br /\ ce = be /\ disk'.record = disk.record
         \/ n = 5 /\ jr = ir /\ je = 0 /\ cr = br /\ ce = ie /\ disk'.record = disk.record
         \/ n = 6 /\ jr = ir /\ je = update.version /\ cr = br /\ ce = be /\ disk'.record = disk.record
         \/ n = 7 /\ jr = ir /\ je = ie /\ cr = br /\ ce = be /\ disk'.record = disk.record
         \/ /\ n \in 8..9 /\ jr = ir /\ je = ie /\ cr = br /\ ce = be
            /\ ~Windows => disk'.record = update.version
  <2> DEFINE s == Replacement[n]
  <2>1. CASE n = 1
    <3>1. s.do = "drop" /\ s.part = R
      BY <2>1, ReplacementIs
    <3> HIDE DEF s
    <3> QED
      BY <1>1, <1>3, <1>4, <2>1, <3>1, StepApplied DEF s
  <2>2. CASE n = 2
    <3>1. s.do = "drop" /\ s.part = E
      BY <2>2, ReplacementIs
    <3> HIDE DEF s
    <3> QED
      BY <1>1, <1>3, <1>4, <2>2, <3>1, StepApplied DEF s
  <2>3. CASE n = 3
    <3>1. s.do = "keep" /\ s.part = R
      BY <2>3, ReplacementIs
    <3> HIDE DEF s
    <3> QED
      BY <1>1, <1>3, <1>4, <2>3, <3>1, StepApplied DEF s
  <2>4. CASE n = 4
    <3>1. s.do = "place" /\ s.part = R
      BY <2>4, ReplacementIs
    <3> HIDE DEF s
    <3> QED
      BY <1>1, <1>3, <1>4, <2>4, <3>1, StepApplied DEF s
  <2>5. CASE n = 5
    <3>1. s.do = "keep" /\ s.part = E
      BY <2>5, ReplacementIs
    <3> HIDE DEF s
    <3> QED
      BY <1>1, <1>3, <1>4, <2>5, <3>1, StepApplied DEF s
  <2>6. CASE n = 6
    <3>1. s.do = "place" /\ s.part = E
      BY <2>6, ReplacementIs
    <3> HIDE DEF s
    <3> QED
      BY <1>1, <1>3, <1>4, <2>6, <3>1, StepApplied DEF s
  <2>7. CASE n = 7
    <3>1. s.do = "guide"
      BY <2>7, ReplacementIs
    <3> HIDE DEF s
    <3> QED
      BY <1>1, <1>3, <1>4, <2>7, <3>1, StepApplied DEF s
  <2>8. CASE n \in 8..9
    <3>1. (s.do = "forget" /\ Windows) \/ s.do = "record"
      BY <1>5, <2>8, ReplacementIs DEF UpdateAssumption
    <3> HIDE DEF s
    <3> QED
      BY <1>1, <1>3, <1>4, <2>8, <3>1, StepApplied DEF s
  <2> QED
    BY <1>2, <2>1, <2>2, <2>3, <2>4, <2>5, <2>6, <2>7, <2>8
<1>7. UpdateTyped'
  <2>1. CASE n = LastStep
    BY <1>1, <1>3, <1>6, <2>1 DEF UpdateTyped, NotUpdating
  <2>2. CASE n # LastStep
    <3>1. LastStep \in Nat /\ n + 1 \in 1..LastStep
      <4>1. LastStep \in 8..9
        BY StepCount
      <4> QED
        BY <1>1, <2>2, <4>1
    <3> QED
      BY <1>1, <1>3, <1>6, <2>2, <3>1 DEF UpdateTyped
  <2> QED
    BY <2>1, <2>2
<1>8. /\ StepsDone = n - 1
      /\ IF n = LastStep THEN update'.at = "none" /\ StepsDone' = 0
         ELSE update'.at = "replacing" /\ StepsDone' = n /\ update'.version = update.version
  BY <1>1, <1>3 DEF StepsDone, NotUpdating
<1>9. ir \in Nat /\ ie \in Nat /\ br \in Nat /\ be \in Nat
  BY <1>1, <1>4 DEF Disks
<1>11. CopiesKept'
  <2>1. /\ (ir # 0 \/ br # 0) /\ (ie # 0 \/ be # 0)
        /\ n - 1 >= 3 => br # 0
        /\ n - 1 >= 5 => be # 0
        /\ n - 1 < 3 => ir # 0
        /\ n - 1 < 5 => ie # 0
    BY <1>1, <1>4, <1>8 DEF UpdateInv, CopiesKept, NoPartIsLost
  <2> HIDE DEF n, ir, ie, br, be, jr, je, cr, ce
  <2>2. /\ jr # 0 \/ cr # 0
        /\ je # 0 \/ ce # 0
        /\ n >= 3 => cr # 0
        /\ n >= 5 => ce # 0
        /\ n < 3 => jr # 0
        /\ n < 5 => je # 0
    BY <1>1, <1>2, <1>6, <1>9, <2>1
  <2> QED
    BY <1>2, <1>4, <1>8, <2>2 DEF CopiesKept, NoPartIsLost, jr, je, cr, ce
<1>12. ASSUME ~Windows, VersionsTell
       PROVE  VersionsTell'
  <2>1. /\ n - 1 < 3 => ir = disk.record /\ ie = disk.record
        /\ n - 1 >= 3 => /\ br = disk.record
                         /\ ir = IF n - 1 = 3 THEN 0 ELSE update.version
                         /\ n - 1 < 5 => ie = disk.record
                         /\ n - 1 >= 5 => be = disk.record /\ ie = IF n - 1 = 5 THEN 0 ELSE update.version
    BY <1>1, <1>4, <1>8, <1>12 DEF VersionsTell
  <2>2. n \in 1..8
    BY <1>1, <1>5, <1>12
  <2> HIDE DEF n, ir, ie, br, be, jr, je, cr, ce
  <2>3. /\ n < 3 \/ n = 8 => jr = disk'.record /\ je = disk'.record
        /\ n \in 3..7 => /\ cr = disk'.record
                         /\ jr = IF n = 3 THEN 0 ELSE update.version
                         /\ n < 5 => je = disk'.record
                         /\ n >= 5 => ce = disk'.record /\ je = IF n = 5 THEN 0 ELSE update.version
    BY <1>6, <1>9, <1>12, <2>1, <2>2
  <2>4. CASE n = 8
    BY <1>4, <1>5, <1>8, <1>12, <2>3, <2>4 DEF VersionsTell, jr, je
  <2>5. CASE n # 8
    <3>1. n \in 1..7 /\ update'.at = "replacing" /\ StepsDone' = n /\ update'.version = update.version
      BY <1>5, <1>8, <1>12, <2>2, <2>5
    <3>2. CASE n < 3
      BY <1>4, <2>3, <3>1, <3>2 DEF VersionsTell, jr, je
    <3>3. CASE n >= 3
      BY <2>3, <3>1, <3>3 DEF VersionsTell, jr, je, cr, ce
    <3> QED
      BY <3>1, <3>2, <3>3
  <2> QED
    BY <2>4, <2>5
<1> QED
  BY <1>3, <1>7, <1>11, <1>12 DEF UpdateInv, WholeInv

LEMMA UndoKeeps ==
  ASSUME UpdateAssumption, UpdateInv, UndoStep \/ UndoFails
  PROVE  UpdateInv' /\ (WholeInv => WholeInv')
<1> DEFINE n == update.step
           R == "runtime"
           E == "extension"
<1>1. /\ update.at = "undoing" /\ n \in 3..8 /\ n < LastStep /\ update.version \in Nat \ {0}
      /\ disk \in Disks /\ published \in Nat /\ cut \in BOOLEAN
      /\ update \in [at : {"none", "replacing", "undoing"}, step : Nat, version : Nat]
  <2>1. LastStep \in 8..9
    BY StepCount
  <2> QED
    BY <2>1 DEF UndoStep, UndoFails, UpdateInv, UpdateTyped
<1>2. /\ published' = published
      /\ update' = IF n = 3 THEN NotUpdating ELSE [update EXCEPT !.step = n - 1]
      /\ \/ disk' = Undoing(Replacement[n]) /\ cut' = cut
         \/ disk' = disk /\ cut' = TRUE
  BY DEF UndoStep, UndoFails, UndoNext
<1>4. R \in Parts /\ E \in Parts /\ R # E /\ Parts = {R, E}
  BY DEF Parts
<1> DEFINE ir == disk.installed[R]  ie == disk.installed[E]  br == disk.backup[R]  be == disk.backup[E]
           jr == disk'.installed[R] je == disk'.installed[E] cr == disk'.backup[R] ce == disk'.backup[E]
<1>5. ir \in Nat /\ ie \in Nat /\ br \in Nat /\ be \in Nat
  BY <1>1, <1>4 DEF Disks
<1>6. /\ disk' \in Disks /\ disk'.record = disk.record
      /\ \/ (cut' \/ n \in 7..8) /\ jr = ir /\ je = ie /\ cr = br /\ ce = be
         \/ n = 3 /\ ir = 0 /\ jr = br /\ cr = 0 /\ je = ie /\ ce = be
         \/ n = 3 /\ ir # 0 /\ jr = ir /\ cr = br /\ je = ie /\ ce = be
         \/ n = 4 /\ jr = 0 /\ je = ie /\ cr = br /\ ce = be
         \/ n = 5 /\ ie = 0 /\ je = be /\ ce = 0 /\ jr = ir /\ cr = br
         \/ n = 5 /\ ie # 0 /\ jr = ir /\ cr = br /\ je = ie /\ ce = be
         \/ n = 6 /\ jr = ir /\ je = 0 /\ cr = br /\ ce = be
  <2> DEFINE s == Replacement[n]
  <2>1. ASSUME NEW p \in Parts
        PROVE  /\ Restored(p) \in Disks /\ Restored(p).record = disk.record
               /\ \A q \in Parts :
                    /\ Restored(p).installed[q] = IF q = p /\ disk.installed[p] = 0 THEN disk.backup[p]
                                                  ELSE disk.installed[q]
                    /\ Restored(p).backup[q] = IF q = p /\ disk.installed[p] = 0 THEN 0 ELSE disk.backup[q]
    BY <1>1 DEF Restored, Disks
  <2>2. ASSUME NEW p \in Parts
        PROVE  LET d == [disk EXCEPT !.installed[p] = 0]
               IN  /\ d \in Disks /\ d.record = disk.record /\ d.backup = disk.backup
                   /\ \A q \in Parts : d.installed[q] = IF q = p THEN 0 ELSE disk.installed[q]
    BY <1>1 DEF Disks
  <2>3. CASE disk' = disk /\ cut' = TRUE
    BY <1>1, <2>3
  <2>4. CASE disk' = Undoing(s) /\ n = 3
    <3>1. s.do = "keep" /\ s.part = R
      BY <2>4, ReplacementIs
    <3>2. disk' = Restored(R)
      BY <2>4, <3>1 DEF Undoing
    <3> QED
      BY <1>4, <2>1, <2>4, <3>2
  <2>5. CASE disk' = Undoing(s) /\ n = 4
    <3>1. s.do = "place" /\ s.part = R
      BY <2>5, ReplacementIs
    <3>2. disk' = [disk EXCEPT !.installed[s.part] = 0]
      BY <2>5, <3>1 DEF Undoing
    <3> QED
      BY <1>4, <2>2, <2>5, <3>1, <3>2
  <2>6. CASE disk' = Undoing(s) /\ n = 5
    <3>1. s.do = "keep" /\ s.part = E
      BY <2>6, ReplacementIs
    <3>2. disk' = Restored(E)
      BY <2>6, <3>1 DEF Undoing
    <3> QED
      BY <1>4, <2>1, <2>6, <3>2
  <2>7. CASE disk' = Undoing(s) /\ n = 6
    <3>1. s.do = "place" /\ s.part = E
      BY <2>7, ReplacementIs
    <3>2. disk' = [disk EXCEPT !.installed[s.part] = 0]
      BY <2>7, <3>1 DEF Undoing
    <3> QED
      BY <1>4, <2>2, <2>7, <3>1, <3>2
  <2>8. CASE disk' = Undoing(s) /\ n \in 7..8
    <3>1. s.do \in {"guide", "record", "forget"}
      BY <2>8, ReplacementIs DEF UpdateAssumption
    <3>2. disk' = disk
      BY <2>8, <3>1 DEF Undoing
    <3> QED
      BY <1>1, <2>8, <3>2
  <2> QED
    BY <1>1, <1>2, <2>3, <2>4, <2>5, <2>6, <2>7, <2>8
<1>7. UpdateTyped'
  <2>1. CASE n = 3
    BY <1>1, <1>2, <1>6, <2>1 DEF UpdateTyped, NotUpdating
  <2>2. CASE n # 3
    <3>1. LastStep \in 8..9
      BY StepCount
    <3>2. n - 1 \in 3..(LastStep - 1)
      BY <1>1, <2>2, <3>1
    <3>3. n - 1 \in Nat
      BY <1>1
    <3>4. /\ update' \in [at : {"none", "replacing", "undoing"}, step : Nat, version : Nat]
          /\ update'.at = "undoing" /\ update'.step = n - 1 /\ update'.version = update.version
      BY <1>1, <1>2, <2>2, <3>3
    <3>5. published' \in Nat /\ cut' \in BOOLEAN
      BY <1>1, <1>2
    <3> HIDE DEF n
    <3> QED
      BY <1>1, <1>6, <3>2, <3>4, <3>5 DEF UpdateTyped
  <2> QED
    BY <2>1, <2>2
<1>8. /\ StepsDone = n
      /\ IF n = 3 THEN update'.at = "none" /\ StepsDone' = 0
         ELSE update'.at = "undoing" /\ StepsDone' = n - 1 /\ update'.version = update.version
  BY <1>1, <1>2 DEF StepsDone, NotUpdating
<1>11. CopiesKept'
  <2>1. /\ ir # 0 \/ br # 0
        /\ ie # 0 \/ be # 0
        /\ br # 0
        /\ n >= 5 => be # 0
    BY <1>1, <1>4, <1>8 DEF UpdateInv, CopiesKept, NoPartIsLost
  <2> HIDE DEF n, ir, ie, br, be, jr, je, cr, ce
  <2>2. /\ jr # 0 \/ cr # 0
        /\ je # 0 \/ ce # 0
        /\ n # 3 => cr # 0
        /\ n - 1 >= 5 => ce # 0
    BY <1>1, <1>5, <1>6, <2>1
  <2> QED
    BY <1>1, <1>4, <1>8, <2>2 DEF CopiesKept, NoPartIsLost, jr, je, cr, ce
<1>12. ASSUME VersionsTell, ~cut'
       PROVE  VersionsTell'
  <2>1. /\ br = disk.record
        /\ ir = IF n = 3 THEN 0 ELSE update.version
        /\ n < 5 => ie = disk.record
        /\ n >= 5 => be = disk.record /\ ie = IF n = 5 THEN 0 ELSE update.version
    BY <1>1, <1>4, <1>8, <1>12 DEF VersionsTell
  <2> HIDE DEF n, ir, ie, br, be, jr, je, cr, ce
  <2>3. /\ n = 3 => jr = disk'.record /\ je = disk'.record
        /\ n # 3 => /\ cr = disk'.record
                    /\ jr = IF n - 1 = 3 THEN 0 ELSE update.version
                    /\ n - 1 < 5 => je = disk'.record
                    /\ n - 1 >= 5 => ce = disk'.record /\ je = IF n - 1 = 5 THEN 0 ELSE update.version
    BY <1>1, <1>5, <1>6, <1>12, <2>1
  <2>4. CASE n = 3
    BY <1>4, <1>8, <2>3, <2>4 DEF VersionsTell, jr, je
  <2>5. CASE n # 3
    <3>1. n - 1 >= 3 /\ update'.at = "undoing" /\ StepsDone' = n - 1 /\ update'.version = update.version
      BY <1>1, <1>8, <2>5
    <3> QED
      BY <1>1, <2>3, <2>5, <3>1 DEF VersionsTell, jr, je, cr, ce
  <2> QED
    BY <2>4, <2>5
<1> QED
  BY <1>2, <1>7, <1>11, <1>12 DEF UpdateInv, WholeInv

LEMMA UpdateStep ==
  ASSUME UpdateAssumption, UpdateInv, [UpdateNext]_updateVars
  PROVE  UpdateInv' /\ (~Windows /\ WholeInv => WholeInv')
<1>1. CASE Publish
  BY <1>1 DEF Publish, UpdateInv, UpdateTyped, CopiesKept, NoPartIsLost, WholeInv, VersionsTell, StepsDone
<1>2. CASE RunLocalUpdate
  <2>1. /\ update' = [at |-> "replacing", step |-> 1, version |-> published]
        /\ update.at = "none" /\ published > disk.record /\ \A p \in Parts : disk.installed[p] # 0
        /\ UNCHANGED <<disk, published, cut>>
    BY <1>2 DEF RunLocalUpdate, IsReleaseZipInstallation
  <2>2. disk \in Disks /\ published \in Nat /\ cut \in BOOLEAN
    BY DEF UpdateInv, UpdateTyped
  <2>3. published # 0 /\ "runtime" \in Parts /\ "extension" \in Parts
    BY <2>1, <2>2 DEF Disks, Parts
  <2>4. LastStep \in 8..9 /\ 1 \in 1..LastStep
    <3>1. LastStep \in 8..9
      BY StepCount
    <3> QED
      BY <3>1
  <2>5. UpdateTyped'
    BY <2>1, <2>2, <2>3, <2>4 DEF UpdateTyped
  <2>6. StepsDone' = 0 /\ update'.at = "replacing"
    BY <2>1 DEF StepsDone
  <2>7. CopiesKept'
    BY <2>1, <2>3, <2>6 DEF CopiesKept, NoPartIsLost
  <2>8. WholeInv => WholeInv'
    BY <2>1, <2>6 DEF WholeInv, VersionsTell
  <2> QED
    BY <2>5, <2>7, <2>8 DEF UpdateInv
<1>3. CASE ReplaceStep
  BY <1>3, ReplaceKeeps
<1>4. CASE StepFails
  <2> DEFINE n == update.step
  <2>1. /\ update.at = "replacing" /\ UNCHANGED <<disk, published, cut>>
        /\ update' = IF n <= 3 THEN NotUpdating ELSE [update EXCEPT !.at = "undoing", !.step = n - 1]
    BY <1>4 DEF StepFails
  <2>2. /\ n \in 1..LastStep /\ update.version # 0 /\ disk \in Disks /\ published \in Nat /\ cut \in BOOLEAN
        /\ update \in [at : {"none", "replacing", "undoing"}, step : Nat, version : Nat]
    BY <2>1 DEF UpdateInv, UpdateTyped
  <2>3. LastStep \in 8..9
    BY StepCount
  <2>4. StepsDone = n - 1
    BY <2>1 DEF StepsDone
  <2>5. CASE n <= 3
    <3>1. update' = NotUpdating /\ update'.at = "none" /\ StepsDone' = 0
      BY <2>1, <2>5 DEF NotUpdating, StepsDone
    <3>2. UpdateTyped'
      BY <2>1, <2>2, <3>1 DEF UpdateTyped, NotUpdating
    <3>3. CopiesKept'
      BY <2>1, <3>1 DEF UpdateInv, CopiesKept, NoPartIsLost
    <3>4. n - 1 < 3
      BY <2>2, <2>3, <2>5
    <3>5. WholeInv => WholeInv'
      BY <2>1, <2>4, <3>1, <3>4 DEF WholeInv, VersionsTell
    <3> QED
      BY <3>2, <3>3, <3>5 DEF UpdateInv
  <2>6. CASE n > 3
    <3>1. n - 1 \in 3..(LastStep - 1) /\ n - 1 \in Nat /\ ~(n <= 3)
      BY <2>2, <2>3, <2>6
    <3>2. /\ update' \in [at : {"none", "replacing", "undoing"}, step : Nat, version : Nat]
          /\ update'.at = "undoing" /\ update'.step = n - 1 /\ update'.version = update.version
      BY <2>1, <2>2, <3>1
    <3>3. StepsDone' = n - 1
      BY <3>2 DEF StepsDone
    <3> HIDE DEF n
    <3>4. UpdateTyped'
      BY <2>1, <2>2, <3>1, <3>2 DEF UpdateTyped
    <3>5. CopiesKept'
      BY <2>1, <2>4, <3>2, <3>3 DEF UpdateInv, CopiesKept, NoPartIsLost
    <3>6. WholeInv => WholeInv'
      BY <2>1, <2>4, <3>1, <3>2, <3>3 DEF WholeInv, VersionsTell
    <3> QED
      BY <3>4, <3>5, <3>6 DEF UpdateInv
  <2> QED
    BY <2>2, <2>3, <2>5, <2>6
<1>5. CASE UndoStep \/ UndoFails
  BY <1>5, UndoKeeps
<1>6. CASE RestartAfterUpdate \/ CrashDaemon
  <2>1. /\ update' = NotUpdating /\ UNCHANGED <<disk, published>>
        /\ cut' = (cut \/ update.at = "undoing" \/ update.step > 3)
    BY <1>6 DEF RestartAfterUpdate, CrashDaemon, StopsNow
  <2>2. update'.at = "none" /\ StepsDone' = 0
    BY <2>1 DEF NotUpdating, StepsDone
  <2>3. UpdateTyped'
    BY <2>1, <2>2 DEF UpdateInv, UpdateTyped, NotUpdating
  <2>4. CopiesKept'
    BY <2>1, <2>2 DEF UpdateInv, CopiesKept, NoPartIsLost
  <2>5. ~cut' => ~cut /\ (update.at = "none" \/ StepsDone < 3)
    <3>1. CASE update.at = "replacing"
      <4>1. update.step \in 1..LastStep /\ LastStep \in 8..9
        BY <3>1, StepCount DEF UpdateInv, UpdateTyped
      <4>2. StepsDone = update.step - 1
        BY <3>1 DEF StepsDone
      <4>3. ~(update.step > 3) => update.step - 1 < 3
        BY <4>1
      <4> QED
        BY <2>1, <4>2, <4>3
    <3>2. CASE update.at = "undoing"
      BY <2>1, <3>2
    <3>3. CASE update.at = "none"
      BY <2>1, <3>3
    <3> QED
      BY <3>1, <3>2, <3>3 DEF UpdateInv, UpdateTyped
  <2>6. WholeInv => WholeInv'
    BY <2>1, <2>2, <2>5 DEF WholeInv, VersionsTell
  <2> QED
    BY <2>3, <2>4, <2>6 DEF UpdateInv
<1>7. CASE StartDaemon \/ UNCHANGED updateVars
  BY <1>7 DEF StartDaemon, updateVars, UpdateInv, UpdateTyped, CopiesKept, NoPartIsLost, WholeInv,
              VersionsTell, StepsDone
<1> QED
  BY <1>1, <1>2, <1>3, <1>4, <1>5, <1>6, <1>7 DEF UpdateNext

LEMMA UpdateStarts == UpdateAssumption /\ UpdateInit => UpdateInv /\ WholeInv
<1> SUFFICES ASSUME UpdateInit
             PROVE  UpdateInv /\ WholeInv
  OBVIOUS
<1>1. update.at = "none" /\ StepsDone = 0
  BY DEF UpdateInit, NotUpdating, StepsDone
<1>2. UpdateTyped
  BY DEF UpdateInit, UpdateTyped, NotUpdating, Disks
<1>3. CopiesKept
  BY <1>1 DEF UpdateInit, CopiesKept, NoPartIsLost
<1>4. WholeInv
  BY <1>1 DEF UpdateInit, WholeInv, VersionsTell
<1> QED
  BY <1>2, <1>3, <1>4 DEF UpdateInv

\* On every platform: whichever steps of an update fail and wherever the daemon
\* stops, a copy of each part is left.
THEOREM PartsSurvive == UpdateSpec => []NoPartIsLost
<1>1. UpdateInit => UpdateInv
  BY UpdateStarts, UpdateAssumption
<1>2. UpdateInv /\ [UpdateNext]_updateVars => UpdateInv'
  BY UpdateStep, UpdateAssumption
<1>3. UpdateInv => NoPartIsLost
  BY DEF UpdateInv, CopiesKept
<1> QED
  BY <1>1, <1>2, <1>3, PTL DEF UpdateSpec

\* Where the metadata is replaced in one step, the two directories and the
\* metadata are of one version besides whenever no update is under way and none
\* was cut short.
THEOREM UpdatesAreWhole ==
  ASSUME Windows = FALSE
  PROVE  UpdateSpec => []InstallationKept
<1>1. UpdateInit => UpdateInv /\ WholeInv
  BY UpdateStarts, UpdateAssumption
<1>2. UpdateInv /\ WholeInv /\ [UpdateNext]_updateVars => (UpdateInv /\ WholeInv)'
  BY UpdateStep, UpdateAssumption
<1>3. UpdateInv /\ WholeInv => InstallationKept
  BY DEF UpdateInv, CopiesKept, WholeInv, VersionsTell, InstallationKept, InstallationIsWhole
<1> QED
  BY <1>1, <1>2, <1>3, PTL DEF UpdateSpec

(* The types of the update, and that its versions are of releases. *)

ReleasesOnDisk == [installed : [Parts -> Releases], backup : [Parts -> Releases], record : Releases]

\* What a step puts on the disk is of a release.
LEMMA DiskTyped ==
  ASSUME disk \in ReleasesOnDisk, update.version \in Releases, 0 \in Releases,
         NEW s, s.do \in {"drop", "keep", "place"} => s.part \in Parts
  PROVE  Applied(s) \in ReleasesOnDisk /\ Undoing(s) \in ReleasesOnDisk
<1>1. PICK i, b, v : /\ i = disk.installed /\ b = disk.backup /\ v = update.version
                     /\ i \in [Parts -> Releases] /\ b \in [Parts -> Releases] /\ v \in Releases
  BY DEF ReleasesOnDisk
<1>2. ASSUME NEW j \in [Parts -> Releases], NEW k \in [Parts -> Releases], NEW w \in Releases
      PROVE  /\ [disk EXCEPT !.installed = j] \in ReleasesOnDisk
             /\ [disk EXCEPT !.backup = k] \in ReleasesOnDisk
             /\ [disk EXCEPT !.backup = k, !.installed = j] \in ReleasesOnDisk
             /\ [disk EXCEPT !.installed = j, !.backup = k] \in ReleasesOnDisk
             /\ [disk EXCEPT !.record = w] \in ReleasesOnDisk
  BY <1>2 DEF ReleasesOnDisk
<1>3. ASSUME NEW p \in Parts
      PROVE  /\ [disk EXCEPT !.backup[p] = 0] \in ReleasesOnDisk
             /\ [disk EXCEPT !.backup[p] = i[p], !.installed[p] = 0] \in ReleasesOnDisk
             /\ [disk EXCEPT !.installed[p] = b[p], !.backup[p] = 0] \in ReleasesOnDisk
             /\ [disk EXCEPT !.installed[p] = v] \in ReleasesOnDisk
             /\ [disk EXCEPT !.installed[p] = 0] \in ReleasesOnDisk
  <2>1. PICK b0, bk, i0, ir, iv : /\ b0 = [b EXCEPT ![p] = 0] /\ bk = [b EXCEPT ![p] = i[p]]
                                  /\ i0 = [i EXCEPT ![p] = 0] /\ ir = [i EXCEPT ![p] = b[p]]
                                  /\ iv = [i EXCEPT ![p] = v]
    OBVIOUS
  <2>2. /\ b0 \in [Parts -> Releases] /\ bk \in [Parts -> Releases]
        /\ i0 \in [Parts -> Releases] /\ ir \in [Parts -> Releases] /\ iv \in [Parts -> Releases]
    BY <1>1, <1>3, <2>1
  <2>3. /\ [disk EXCEPT !.backup[p] = 0] = [disk EXCEPT !.backup = b0]
        /\ [disk EXCEPT !.backup[p] = i[p], !.installed[p] = 0] = [disk EXCEPT !.backup = bk, !.installed = i0]
        /\ [disk EXCEPT !.installed[p] = b[p], !.backup[p] = 0] = [disk EXCEPT !.installed = ir, !.backup = b0]
        /\ [disk EXCEPT !.installed[p] = v] = [disk EXCEPT !.installed = iv]
        /\ [disk EXCEPT !.installed[p] = 0] = [disk EXCEPT !.installed = i0]
    BY <1>1, <2>1
  <2>4. /\ [disk EXCEPT !.backup = b0] \in ReleasesOnDisk
        /\ [disk EXCEPT !.installed = i0] \in ReleasesOnDisk /\ [disk EXCEPT !.installed = iv] \in ReleasesOnDisk
    BY <1>2, <2>2
  <2>5. [disk EXCEPT !.backup = bk, !.installed = i0] \in ReleasesOnDisk
    BY <1>2, <2>2
  <2>6. [disk EXCEPT !.installed = ir, !.backup = b0] \in ReleasesOnDisk
    BY <1>2, <2>2
  <2> QED
    BY <2>3, <2>4, <2>5, <2>6
<1>4. CASE s.do \in {"drop", "keep", "place"}
  <2>1. PICK p \in Parts : p = s.part
    BY <1>4
  <2>2. Applied(s) \in ReleasesOnDisk
    <3>1. CASE s.do = "drop"
      BY <1>3, <2>1, <3>1 DEF Applied
    <3>2. CASE s.do = "keep"
      BY <1>1, <1>3, <2>1, <3>2 DEF Applied
    <3>3. CASE s.do = "place"
      BY <1>1, <1>3, <2>1, <3>3 DEF Applied
    <3> QED
      BY <1>4, <3>1, <3>2, <3>3
  <2>3. Restored(p) \in ReleasesOnDisk
    BY <1>1, <1>3 DEF Restored
  <2> QED
    BY <1>3, <1>4, <2>1, <2>2, <2>3 DEF Undoing
<1>5. CASE s.do \notin {"drop", "keep", "place"}
  <2>1. [disk EXCEPT !.record = 0] \in ReleasesOnDisk /\ [disk EXCEPT !.record = v] \in ReleasesOnDisk
    BY <1>1, <1>2
  <2> QED
    BY <1>1, <1>5, <2>1 DEF Applied, Undoing
<1> QED
  BY <1>4, <1>5

LEMMA StepsHaveParts ==
  ASSUME UpdateAssumption, NEW k \in 1 .. LastStep
  PROVE  Replacement[k].do \in {"drop", "keep", "place"} => Replacement[k].part \in Parts
<1>1. k \in 1 .. 9 /\ (k = 9 => Windows)
  <2>1. LastStep \in 8 .. 9 /\ (Windows <=> LastStep = 9)
    BY StepCount
  <2> QED
    BY <2>1
<1> QED
  BY <1>1, ReplacementIs DEF Parts

LEMMA UpdateTypesStep ==
  ASSUME UpdateAssumption, UpdateInv, UpdateTypeOK, [UpdateNext]_updateVars
  PROVE  UpdateTypeOK'
<1>1. /\ LastStep \in 8 .. 9 /\ LastStep = Len(Replacement)
      /\ 0 \in Releases /\ 1 \in 1 .. LastStep
  <2>1. LastStep \in 8 .. 9
    BY StepCount
  <2>2. 0 \in Releases
    BY DEF Releases, UpdateAssumption
  <2>3. LastStep = Len(Replacement)
    BY DEF LastStep
  <2> QED
    BY <2>1, <2>2, <2>3
<1>2. /\ disk \in ReleasesOnDisk /\ daemon \in Releases /\ published \in Releases
      /\ update \in [at : {"none", "replacing", "undoing"}, step : 1 .. LastStep, version : Releases]
      /\ restartDue \in BOOLEAN /\ cut \in BOOLEAN
  BY <1>1 DEF UpdateTypeOK, ReleasesOnDisk
<1>3. NotUpdating \in [at : {"none", "replacing", "undoing"}, step : 1 .. LastStep, version : Releases]
  BY <1>1 DEF NotUpdating
<1> SUFFICES /\ disk' \in ReleasesOnDisk /\ daemon' \in Releases /\ published' \in Releases
             /\ update' \in [at : {"none", "replacing", "undoing"}, step : 1 .. LastStep, version : Releases]
             /\ restartDue' \in BOOLEAN /\ cut' \in BOOLEAN
  BY <1>1 DEF UpdateTypeOK, ReleasesOnDisk
<1>4. CASE Publish
  BY <1>2, <1>4 DEF Publish, Releases, UpdateAssumption
<1>5. CASE RunLocalUpdate
  BY <1>1, <1>2, <1>5 DEF RunLocalUpdate
<1>6. PICK n : n = update.step /\ n \in 1 .. LastStep
  BY <1>2
<1>7. Applied(Replacement[n]) \in ReleasesOnDisk /\ Undoing(Replacement[n]) \in ReleasesOnDisk
  <2>1. update.version \in Releases
    BY <1>2
  <2> QED
    BY <1>1, <1>2, <1>6, <2>1, StepsHaveParts, DiskTyped
<1>8. CASE ReplaceStep
  <2>1. n # LastStep => n + 1 \in 1 .. LastStep
    BY <1>1, <1>6
  <2> QED
    BY <1>1, <1>2, <1>3, <1>6, <1>7, <1>8, <2>1 DEF ReplaceStep
<1>9. CASE StepFails
  <2>1. ~(n <= 3) => n - 1 \in 1 .. LastStep
    BY <1>1, <1>6
  <2> QED
    BY <1>1, <1>2, <1>3, <1>6, <1>9, <2>1 DEF StepFails
<1>10. CASE UndoStep \/ UndoFails
  <2>1. update.at = "undoing" /\ UndoNext
    BY <1>10 DEF UndoStep, UndoFails
  <2>2. n - 1 \in 1 .. LastStep
    BY <1>1, <1>6, <2>1 DEF UpdateInv, UpdateTyped
  <2>3. update' \in [at : {"none", "replacing", "undoing"}, step : 1 .. LastStep, version : Releases]
    BY <1>2, <1>3, <1>6, <2>1, <2>2 DEF UndoNext
  <2> QED
    BY <1>2, <1>6, <1>7, <1>10, <2>3 DEF UndoStep, UndoFails
<1>11. CASE RestartAfterUpdate \/ CrashDaemon
  BY <1>1, <1>2, <1>3, <1>11 DEF RestartAfterUpdate, CrashDaemon, StopsNow
<1>12. CASE StartDaemon \/ UNCHANGED updateVars
  <2>1. disk.installed["runtime"] \in Releases
    BY <1>2 DEF ReleasesOnDisk, Parts
  <2> QED
    BY <1>2, <1>12, <2>1 DEF StartDaemon, updateVars
<1> QED
  BY <1>4, <1>5, <1>8, <1>9, <1>10, <1>11, <1>12 DEF UpdateNext

LEMMA UpdateTypesStart ==
  ASSUME UpdateAssumption, UpdateInit
  PROVE  UpdateTypeOK
<1>1. LastStep \in 8 .. 9
  BY StepCount
<1>2. 0 \in Releases /\ 1 \in Releases /\ 1 \in 1 .. LastStep
  BY <1>1 DEF UpdateAssumption, Releases
<1>3. disk \in ReleasesOnDisk /\ daemon \in Releases /\ published \in Releases
      /\ restartDue \in BOOLEAN /\ cut \in BOOLEAN
  BY <1>2 DEF UpdateInit, ReleasesOnDisk
<1>4. update \in [at : {"none", "replacing", "undoing"}, step : 1 .. LastStep, version : Releases]
  BY <1>2 DEF UpdateInit, NotUpdating
<1> QED
  BY <1>3, <1>4 DEF UpdateTypeOK, ReleasesOnDisk, LastStep

\* The versions on the disk, in the daemon and in an update are of published releases.
THEOREM UpdateTyping == UpdateSpec => []UpdateTypeOK
<1>1. UpdateInit => UpdateInv /\ UpdateTypeOK
  BY UpdateStarts, UpdateTypesStart, UpdateAssumption
<1>2. UpdateInv /\ UpdateTypeOK /\ [UpdateNext]_updateVars => (UpdateInv /\ UpdateTypeOK)'
  BY UpdateStep, UpdateTypesStep, UpdateAssumption
<1> QED
  BY <1>1, <1>2, PTL DEF UpdateSpec

-----------------------------------------------------------------------------
(* ModelContext *)

ContextMessages == [kind : DOMAIN RoleOf, n : Nat, text : Nat, fixed : Nat]
ExchangesTyped == exchanges \in Seq([results : 1 .. 2, size : Sizes, images : BOOLEAN])

\* The fields of an exchange.
LEMMA ExchangeFields ==
  ASSUME ExchangesTyped
  PROVE  Len(exchanges) \in Nat /\ DOMAIN exchanges = 1 .. Len(exchanges)
         /\ \A k \in DOMAIN exchanges : k \in Nat /\ exchanges[k].results \in 1 .. 2
<1>1. PICK S : S = [results : 1 .. 2, size : Sizes, images : BOOLEAN]
  OBVIOUS
<1>2. exchanges \in Seq(S)
  BY <1>1 DEF ExchangesTyped
<1>3. Len(exchanges) \in Nat /\ DOMAIN exchanges = 1 .. Len(exchanges)
      /\ \A k \in DOMAIN exchanges : k \in Nat /\ exchanges[k] \in S
  BY <1>2
<1> QED
  BY <1>1, <1>3

\* What the recursion of Tokens asks of its function on 0 .. n.
Sums(f, list, n) ==
  f = [m \in 0 .. n |-> IF m = 0 THEN 0 ELSE f[m - 1] + list[m].text + list[m].fixed]

\* There is such a function.
LEMMA SumsExist ==
  ASSUME NEW list, NEW n \in Nat
  PROVE  \E f : Sums(f, list, n)
<1> DEFINE S == {m \in Nat : \E f : Sums(f, list, m)}
<1>1. 0 \in S
  <2>1. PICK f : f = [m \in 0 .. 0 |-> 0]
    OBVIOUS
  <2>2. Sums(f, list, 0)
    BY <2>1 DEF Sums
  <2> QED
    BY <2>2
<1>2. ASSUME NEW m \in Nat, m \in S
      PROVE  m + 1 \in S
  <2>1. PICK f : Sums(f, list, m)
    BY <1>2
  <2>2. PICK last : last = f[m] + list[m + 1].text + list[m + 1].fixed
    OBVIOUS
  <2>3. PICK g : g = [k \in 0 .. m + 1 |-> IF k = m + 1 THEN last ELSE f[k]]
    OBVIOUS
  <2>4. \A k \in 0 .. m : g[k] = f[k] /\ k \in Nat
    BY <2>3
  <2>5. ASSUME NEW k \in 0 .. m + 1
        PROVE  g[k] = IF k = 0 THEN 0 ELSE g[k - 1] + list[k].text + list[k].fixed
    <3>1. CASE k = m + 1
      <4>1. k # 0 /\ k - 1 = m /\ m \in 0 .. m /\ g[k] = last
        BY <2>3, <3>1
      <4>2. g[k - 1] = f[m]
        BY <2>4, <4>1
      <4> QED
        BY <2>2, <3>1, <4>1, <4>2
    <3>2. CASE k # m + 1
      <4>1. k \in 0 .. m /\ (k # 0 => k - 1 \in 0 .. m)
        BY <3>2
      <4>2. f[k] = IF k = 0 THEN 0 ELSE f[k - 1] + list[k].text + list[k].fixed
        BY <2>1, <4>1 DEF Sums
      <4> QED
        BY <2>4, <4>1, <4>2
    <3> QED
      BY <3>1, <3>2
  <2>6. Sums(g, list, m + 1)
    <3>1. g = [k \in 0 .. m + 1 |-> g[k]]
      BY <2>3
    <3> QED
      BY <2>5, <3>1 DEF Sums
  <2> QED
    BY <2>6
<1> HIDE DEF S
<1>3. Nat \subseteq S
  BY <1>1, <1>2, AllNumbers
<1> QED
  BY <1>3 DEF S

\* The size of a request is a number.
LEMMA TokensAreNat ==
  ASSUME NEW list \in Seq(ContextMessages)
  PROVE  Tokens(list) \in Nat
<1>1. Len(list) \in Nat /\ \A i \in 1 .. Len(list) : list[i].text \in Nat /\ list[i].fixed \in Nat
  <2>1. Len(list) \in Nat /\ \A i \in 1 .. Len(list) : list[i] \in ContextMessages
    OBVIOUS
  <2> QED
    BY <2>1 DEF ContextMessages
<1>2. PICK f : Sums(f, list, Len(list)) /\ Tokens(list) = f[Len(list)]
  <2>1. \E f : Sums(f, list, Len(list))
    BY <1>1, SumsExist
  <2>2. PICK f : f = CHOOSE g : Sums(g, list, Len(list))
    OBVIOUS
  <2>3. Sums(f, list, Len(list))
    BY <2>1, <2>2
  <2>4. Tokens(list) = f[Len(list)]
    BY <2>2, Zenon DEF Tokens, Sums
  <2> QED
    BY <2>3, <2>4
<1> DEFINE S == {n \in Nat : n <= Len(list) => f[n] \in Nat}
<1>3. 0 \in S
  BY <1>1, <1>2 DEF Sums
<1>4. ASSUME NEW n \in Nat, n \in S
      PROVE  n + 1 \in S
  <2> SUFFICES ASSUME n + 1 <= Len(list) PROVE f[n + 1] \in Nat
    OBVIOUS
  <2>1. n <= Len(list) /\ n + 1 \in 0 .. Len(list) /\ n + 1 \in 1 .. Len(list) /\ n + 1 # 0 /\ (n + 1) - 1 = n
    BY <1>1
  <2>2. f[n + 1] = f[n] + list[n + 1].text + list[n + 1].fixed
    BY <1>2, <2>1 DEF Sums
  <2> QED
    BY <1>1, <1>4, <2>1, <2>2
<1> HIDE DEF S
<1>5. Nat \subseteq S
  BY <1>3, <1>4, AllNumbers
<1> QED
  BY <1>1, <1>2, <1>5 DEF S

\* The calls of exchange k are at p, and nowhere else; its results are behind them.
IsAt(list, k, p) ==
  /\ p \in DOMAIN list /\ p + exchanges[k].results \in DOMAIN list
  /\ \A i \in DOMAIN list :
       /\ list[i].kind = "calls" /\ list[i].n = k <=> i = p
       /\ list[i].kind = "result" /\ list[i].n = k <=> i \in (p + 1) .. (p + exchanges[k].results)

\* A list has the exchanges K, each whole, in their order, and no other.
HasExchanges(list, K) ==
  /\ list \in Seq(ContextMessages) /\ K \subseteq DOMAIN exchanges
  /\ \A i \in DOMAIN list : list[i].kind \in {"calls", "result"} => list[i].n \in K
  /\ \A k \in K : \E p \in DOMAIN list : IsAt(list, k, p)
  /\ \A i, j \in DOMAIN list :
       i < j /\ list[i].kind = "result" /\ list[j].kind = "result" => list[i].n <= list[j].n

\* One list behind the other.
LEMMA ExchangesJoin ==
  ASSUME ExchangesTyped, NEW a, NEW b, NEW K, NEW H, HasExchanges(a, K), HasExchanges(b, H),
         \A k \in K, h \in H : k < h, NEW r, IsJoined(r, a, b)
  PROVE  HasExchanges(r, K \cup H)
<1>1. a \in Seq(ContextMessages) /\ b \in Seq(ContextMessages) /\ K \cup H \subseteq DOMAIN exchanges
  BY DEF HasExchanges
<1>2. PICK l, m : l = Len(a) /\ m = Len(b)
  OBVIOUS
<1>3. /\ r \in Seq(ContextMessages) /\ l \in Nat /\ m \in Nat
      /\ DOMAIN a = 1 .. l /\ DOMAIN b = 1 .. m /\ DOMAIN r = 1 .. l + m
      /\ \A i \in 1 .. l + m : r[i] = IF i <= l THEN a[i] ELSE b[i - l]
  BY <1>1, <1>2, ConcatProperties DEF IsJoined
<1>4. \A i \in DOMAIN r : \/ i \in DOMAIN a /\ r[i] = a[i]
                          \/ i - l \in DOMAIN b /\ r[i] = b[i - l] /\ l < i
  BY <1>3
<1>5. \A k \in K \cup H : k \in Nat /\ exchanges[k].results \in 1 .. 2
  BY <1>1, ExchangeFields
<1>6. \A i \in DOMAIN r : r[i].kind \in {"calls", "result"} => r[i].n \in K \cup H
  BY <1>4 DEF HasExchanges
<1>7. ASSUME NEW k \in K
      PROVE  \E p \in DOMAIN r : IsAt(r, k, p)
  <2>1. PICK p \in DOMAIN a : IsAt(a, k, p)
    BY DEF HasExchanges
  <2>2. p + exchanges[k].results \in DOMAIN a
    BY <2>1 DEF IsAt
  <2>3. p \in DOMAIN r /\ p + exchanges[k].results \in DOMAIN r
    BY <1>3, <2>2
  <2>4. ASSUME NEW i \in DOMAIN r
        PROVE  /\ r[i].kind = "calls" /\ r[i].n = k <=> i = p
               /\ r[i].kind = "result" /\ r[i].n = k <=> i \in (p + 1) .. (p + exchanges[k].results)
    <3>1. CASE i \in DOMAIN a /\ r[i] = a[i]
      BY <2>1, <3>1 DEF IsAt
    <3>2. CASE i - l \in DOMAIN b /\ r[i] = b[i - l] /\ l < i
      <4>1. i # p /\ i \notin (p + 1) .. (p + exchanges[k].results)
        BY <1>3, <1>5, <2>2, <3>2
      <4>2. r[i].kind \in {"calls", "result"} => r[i].n # k
        BY <1>5, <3>2 DEF HasExchanges
      <4> QED
        BY <4>1, <4>2
    <3> QED
      BY <1>4, <3>1, <3>2
  <2> QED
    BY <2>3, <2>4 DEF IsAt
<1>8. ASSUME NEW k \in H
      PROVE  \E p \in DOMAIN r : IsAt(r, k, p)
  <2>1. PICK q \in DOMAIN b : IsAt(b, k, q)
    BY DEF HasExchanges
  <2>2. q + exchanges[k].results \in DOMAIN b
    BY <2>1 DEF IsAt
  <2>3. PICK p, e : p = l + q /\ e = exchanges[k].results
    OBVIOUS
  <2>6. e \in 1 .. 2 /\ q \in 1 .. m /\ q + e \in 1 .. m
    BY <1>3, <1>5, <2>2, <2>3
  <2>4. p \in DOMAIN r /\ p + e \in DOMAIN r
    <3>0. l \in Nat /\ m \in Nat
      BY <1>3
    <3>1. p \in 1 .. l + m /\ p + e \in 1 .. l + m
      BY <2>3, <2>6, <3>0
    <3> QED
      BY <1>3, <3>1
  <2>5. ASSUME NEW i \in DOMAIN r
        PROVE  /\ r[i].kind = "calls" /\ r[i].n = k <=> i = p
               /\ r[i].kind = "result" /\ r[i].n = k <=> i \in (p + 1) .. (p + e)
    <3>1. CASE i \in DOMAIN a /\ r[i] = a[i]
      <4>1. i # p /\ i \notin (p + 1) .. (p + e)
        BY <1>3, <2>3, <2>6, <3>1
      <4>2. r[i].kind \in {"calls", "result"} => r[i].n # k
        BY <1>5, <3>1 DEF HasExchanges
      <4> QED
        BY <4>1, <4>2
    <3>2. CASE i - l \in DOMAIN b /\ r[i] = b[i - l] /\ l < i
      <4>1. /\ r[i].kind = "calls" /\ r[i].n = k <=> i - l = q
            /\ r[i].kind = "result" /\ r[i].n = k <=> i - l \in (q + 1) .. (q + e)
        BY <2>1, <2>3, <3>2 DEF IsAt
      <4>2. (i - l = q <=> i = p) /\ (i - l \in (q + 1) .. (q + e) <=> i \in (p + 1) .. (p + e))
        <5>1. i \in Nat /\ l \in Nat /\ q \in Nat /\ e \in Nat
          BY <1>3, <2>6
        <5> QED
          BY <2>3, <5>1
      <4> QED
        BY <4>1, <4>2
    <3> QED
      BY <1>4, <3>1, <3>2
  <2> QED
    BY <2>3, <2>4, <2>5 DEF IsAt
<1>9. ASSUME NEW i \in DOMAIN r, NEW j \in DOMAIN r, i < j, r[i].kind = "result", r[j].kind = "result"
      PROVE  r[i].n <= r[j].n
  <2>1. CASE j \in DOMAIN a /\ r[j] = a[j]
    <3>1. i \in DOMAIN a /\ r[i] = a[i]
      BY <1>3, <1>9, <2>1
    <3> QED
      BY <1>9, <2>1, <3>1 DEF HasExchanges
  <2>2. CASE j - l \in DOMAIN b /\ r[j] = b[j - l] /\ l < j
    <3>1. r[j].n \in H
      BY <1>9, <2>2 DEF HasExchanges
    <3>2. CASE i \in DOMAIN a /\ r[i] = a[i]
      <4>1. r[i].n \in K
        BY <1>9, <3>2 DEF HasExchanges
      <4> QED
        BY <1>5, <3>1, <4>1
    <3>3. CASE i - l \in DOMAIN b /\ r[i] = b[i - l] /\ l < i
      <4>1. i - l < j - l
        BY <1>3, <1>9
      <4> QED
        BY <1>9, <2>2, <3>3, <4>1 DEF HasExchanges
    <3> QED
      BY <1>4, <3>2, <3>3
  <2> QED
    BY <1>4, <2>1, <2>2
<1> QED
  BY <1>1, <1>3, <1>6, <1>7, <1>8, <1>9 DEF HasExchanges

\* Kinds of the messages of a tool exchange, and of what was said.
Paired == {"calls", "result"}
Talk == {"question", "answer", "request"}

\* A list without messages of some kinds.
Lacks(list, kinds) ==
  list \in Seq(ContextMessages) /\ \A i \in DOMAIN list : list[i].kind \notin kinds

LEMMA PlainHasNone ==
  ASSUME NEW list, Lacks(list, Paired)
  PROVE  HasExchanges(list, {})
BY DEF Lacks, Paired, HasExchanges

LEMMA LacksJoin ==
  ASSUME NEW a, NEW b, NEW kinds, Lacks(a, kinds), Lacks(b, kinds), NEW r, IsJoined(r, a, b)
  PROVE  Lacks(r, kinds)
<1>1. a \in Seq(ContextMessages) /\ b \in Seq(ContextMessages)
  BY DEF Lacks
<1>2. /\ r \in Seq(ContextMessages) /\ Len(a) \in Nat /\ Len(b) \in Nat
      /\ DOMAIN a = 1 .. Len(a) /\ DOMAIN b = 1 .. Len(b) /\ DOMAIN r = 1 .. Len(a) + Len(b)
      /\ \A i \in 1 .. Len(a) + Len(b) : r[i] = IF i <= Len(a) THEN a[i] ELSE b[i - Len(a)]
  BY <1>1, ConcatProperties DEF IsJoined
<1>3. \A i \in DOMAIN r : \/ i \in DOMAIN a /\ r[i] = a[i]
                          \/ i - Len(a) \in DOMAIN b /\ r[i] = b[i - Len(a)]
  BY <1>2
<1> QED
  BY <1>2, <1>3 DEF Lacks

\* One message.
LEMMA OneLacks ==
  ASSUME NEW kinds, NEW kind \in DOMAIN RoleOf \ kinds, NEW n \in Nat, NEW words \in Nat, NEW fixed \in Nat,
         NEW list, list = <<Message(kind, n, words, fixed)>>
  PROVE  Lacks(list, kinds) /\ Len(list) = 1 /\ list[1].kind = kind
<1>1. PICK m : m = Message(kind, n, words, fixed)
  OBVIOUS
<1>2. m \in ContextMessages /\ m.kind = kind
  BY <1>1 DEF Message, ContextMessages
<1>3. list = <<m>>
  BY <1>1
<1> QED
  BY <1>2, <1>3 DEF Lacks

LEMMA EmptyLacks == ASSUME NEW kinds PROVE Lacks(<<>>, kinds)
BY DEF Lacks

\* A message that may be left out.
LEMMA MaybeLacks ==
  ASSUME NEW kinds, NEW kind \in DOMAIN RoleOf \ kinds, NEW n \in Nat, NEW words \in Nat, NEW fixed \in Nat,
         NEW there, NEW list, list = IF there THEN <<Message(kind, n, words, fixed)>> ELSE <<>>
  PROVE  Lacks(list, kinds)
<1>1. CASE there
  BY <1>1, OneLacks
<1>2. CASE ~there
  BY <1>2, EmptyLacks
<1> QED
  BY <1>1, <1>2

\* A list of messages by their positions.
LEMMA ListOf ==
  ASSUME NEW n \in Nat, NEW list, NEW S, DOMAIN list = 1 .. n, list = [i \in 1 .. n |-> list[i]],
         \A i \in 1 .. n : list[i] \in S
  PROVE  list \in Seq(S) /\ Len(list) = n
<1>1. list \in [1 .. n -> S]
  OBVIOUS
<1> QED
  BY <1>1, SeqDef

\* Kinds of messages that are neither of an exchange nor said.
Others == {"system", "remembered", "page", "olderRounds", "images", "checkpoint", "evidence", "continue", "again"}
LEMMA KindsAre ==
  /\ Others \subseteq DOMAIN RoleOf \ Paired /\ Others \subseteq DOMAIN RoleOf \ Talk
  /\ {"calls", "result"} \subseteq DOMAIN RoleOf \ Talk
  /\ {"question", "answer", "priorTool", "request"} \subseteq DOMAIN RoleOf \ Paired
  /\ RoleOf.system = "system"
  /\ \A kind \in DOMAIN RoleOf : RoleOf[kind] = "tool" <=> kind = "result"
BY DEF Others, Paired, Talk, RoleOf

\* The messages of one exchange.
LEMMA ExchangeIs ==
  ASSUME ContextAssumption, ExchangesTyped, NEW k \in DOMAIN exchanges, NEW r, r = ExchangeMessages(k)
  PROVE  HasExchanges(r, {k}) /\ Lacks(r, Talk)
<1>1. k \in Nat /\ exchanges[k].results \in 1 .. 2 /\ exchanges[k].size \in Nat
  <2>1. PICK S : S = [results : 1 .. 2, size : Sizes, images : BOOLEAN]
    OBVIOUS
  <2>2. exchanges \in Seq(S)
    BY <2>1 DEF ExchangesTyped
  <2>3. k \in Nat /\ exchanges[k] \in S
    BY <2>2
  <2> QED
    BY <2>1, <2>3 DEF ContextAssumption
<1>2. PICK n, head : n = exchanges[k].results /\ head = <<Message("calls", k, 0, 1)>>
  OBVIOUS
<1>3. PICK returned, images : returned = ResultMessages(k) /\ images = ImageMessages(k)
  OBVIOUS
<1>4. PICK both : both = head \o returned
  OBVIOUS
<1>5. r = both \o images
  BY <1>2, <1>3, <1>4 DEF ExchangeMessages
<1>6. head \in Seq(ContextMessages) /\ Len(head) = 1 /\ head[1].kind = "calls" /\ head[1].n = k
  <2>1. PICK m : m = Message("calls", k, 0, 1)
    OBVIOUS
  <2>2. m \in ContextMessages /\ m.kind = "calls" /\ m.n = k
    BY <1>1, <2>1, KindsAre, 0 \in Nat, 1 \in Nat DEF Message, ContextMessages
  <2>3. head = <<m>>
    BY <1>2, <2>1
  <2> QED
    BY <2>2, <2>3
<1>7. /\ returned \in Seq(ContextMessages) /\ Len(returned) = n
      /\ \A i \in 1 .. n : returned[i].kind = "result" /\ returned[i].n = k
  <2>1. PICK m : m = Message("result", k, exchanges[k].size, 0)
    OBVIOUS
  <2>2. m \in ContextMessages /\ m.kind = "result" /\ m.n = k
    BY <1>1, <2>1, KindsAre, 0 \in Nat, 1 \in Nat DEF Message, ContextMessages
  <2>3. returned = [i \in 1 .. n |-> m]
    BY <1>2, <1>3, <2>1 DEF ResultMessages
  <2>4. \A i \in 1 .. n : returned[i] = m
    BY <2>3
  <2>5. DOMAIN returned = 1 .. n /\ returned = [i \in 1 .. n |-> returned[i]]
    BY <2>3
  <2>6. n \in Nat
    BY <1>1, <1>2
  <2>7. returned \in Seq(ContextMessages) /\ Len(returned) = n
    BY <2>2, <2>4, <2>5, <2>6, ListOf
  <2> QED
    BY <2>2, <2>4, <2>7
<1>8. Lacks(images, Paired) /\ Lacks(images, Talk)
  <2>1. "images" \in DOMAIN RoleOf \ Paired /\ "images" \in DOMAIN RoleOf \ Talk /\ 1 \in Nat /\ 2 \in Nat
    BY KindsAre DEF Others
  <2> QED
    BY <1>1, <1>3, <2>1, MaybeLacks DEF ImageMessages
<1>9. /\ both \in Seq(ContextMessages) /\ Len(both) = 1 + n /\ DOMAIN both = 1 .. 1 + n
      /\ both[1].kind = "calls" /\ both[1].n = k
      /\ \A i \in 2 .. 1 + n : both[i].kind = "result" /\ both[i].n = k
  <2>1. head \in Seq(ContextMessages) /\ returned \in Seq(ContextMessages) /\ n \in Nat
    BY <1>1, <1>2, <1>6, <1>7
  <2>5. /\ both \in Seq(ContextMessages) /\ Len(both) = Len(head) + Len(returned)
        /\ \A i \in 1 .. Len(head) + Len(returned) :
             both[i] = IF i <= Len(head) THEN head[i] ELSE returned[i - Len(head)]
    <3>1. head \in Seq(ContextMessages) /\ returned \in Seq(ContextMessages)
      BY <2>1
    <3> QED
      BY <1>4, <3>1, ConcatProperties
  <2>6. Len(head) = 1 /\ Len(returned) = n
    BY <1>6, <1>7
  <2>2. /\ both \in Seq(ContextMessages) /\ Len(both) = 1 + n /\ DOMAIN both = 1 .. 1 + n
        /\ \A i \in 1 .. 1 + n : both[i] = IF i <= 1 THEN head[i] ELSE returned[i - 1]
    BY <2>5, <2>6
  <2>3. \A i \in 2 .. 1 + n : i \in 1 .. 1 + n /\ ~(i <= 1) /\ i - 1 \in 1 .. n
    BY <2>1
  <2>4. 1 \in 1 .. 1 + n /\ 1 <= 1
    BY <2>1
  <2>7. both[1] = head[1]
    BY <2>2, <2>4
  <2>8. \A i \in 2 .. 1 + n : both[i] = returned[i - 1] /\ i - 1 \in 1 .. n
    BY <2>2, <2>3
  <2> QED
    BY <1>6, <1>7, <2>2, <2>7, <2>8
<1>10. HasExchanges(both, {k}) /\ Lacks(both, Talk)
  <2>1. IsAt(both, k, 1)
    <3>1. 1 \in DOMAIN both /\ 1 + n \in DOMAIN both
      BY <1>1, <1>2, <1>9
    <3>2. \A i \in DOMAIN both : i = 1 \/ i \in 2 .. 1 + n
      BY <1>1, <1>2, <1>9
    <3>3. 1 \notin 2 .. 1 + n
      OBVIOUS
    <3>4. 1 + 1 = 2
      OBVIOUS
    <3>5. "calls" # "result"
      OBVIOUS
    <3> QED
      BY <1>2, <1>9, <3>1, <3>2, <3>3, <3>4, <3>5 DEF IsAt
  <2>2. \A i \in DOMAIN both : both[i].n = k /\ both[i].kind \notin Talk
    <3>1. \A i \in DOMAIN both : i = 1 \/ i \in 2 .. 1 + n
      BY <1>1, <1>2, <1>9
    <3> QED
      BY <1>9, <3>1 DEF Talk
  <2>3. 1 \in DOMAIN both
    BY <2>1 DEF IsAt
  <2> QED
    BY <1>1, <1>9, <2>1, <2>2, <2>3 DEF HasExchanges, Lacks
<1>11. IsJoined(r, both, images) /\ HasExchanges(images, {})
  BY <1>5, <1>8, PlainHasNone DEF IsJoined
<1>12. HasExchanges(r, {k} \cup {})
  BY <1>10, <1>11, ExchangesJoin
<1>13. Lacks(r, Talk)
  BY <1>8, <1>10, <1>11, LacksJoin
<1> QED
  BY <1>12, <1>13

\* All messages of the exchanges from one on.
LEMMA RoundsAre ==
  ASSUME ContextAssumption, ExchangesTyped, NEW c \in Nat, c <= Len(exchanges), NEW parts,
         parts = [k \in 1 .. (Len(exchanges) - c) |-> ExchangeMessages(c + k)]
  PROVE  /\ HasExchanges(Flattened(parts), (c + 1) .. Len(exchanges))
         /\ Lacks(Flattened(parts), Talk)
<1>1. Len(exchanges) \in Nat /\ DOMAIN exchanges = 1 .. Len(exchanges)
  BY ExchangeFields
<1>2. PICK l : l = Len(exchanges) - c
  OBVIOUS
<1>3. l \in Nat
  BY <1>1, <1>2
<1>4. Len(parts) = l
  BY <1>2, <1>3
<1>5. PICK f : /\ Flattened(parts) = f[l] /\ f[0] = <<>>
               /\ \A m \in 1 .. l : IsJoined(f[m], f[m - 1], parts[m])
  BY <1>3, <1>4, FlattenedIs
<1> DEFINE S == {m \in Nat : m <= l => /\ HasExchanges(f[m], (c + 1) .. (c + m))
                                       /\ Lacks(f[m], Talk)}
<1>6. 0 \in S
  <2>1. Lacks(<<>>, Paired) /\ Lacks(<<>>, Talk)
    BY EmptyLacks
  <2>2. HasExchanges(<<>>, {})
    BY <2>1, PlainHasNone
  <2>3. (c + 1) .. (c + 0) = {}
    OBVIOUS
  <2> QED
    BY <1>5, <2>1, <2>2, <2>3
<1>7. ASSUME NEW m \in Nat, m \in S
      PROVE  m + 1 \in S
  <2> SUFFICES ASSUME m + 1 <= l
               PROVE  /\ HasExchanges(f[m + 1], (c + 1) .. (c + (m + 1)))
                      /\ Lacks(f[m + 1], Talk)
    OBVIOUS
  <2>1. m <= l /\ m + 1 \in 1 .. l /\ (m + 1) - 1 = m /\ c + (m + 1) \in DOMAIN exchanges
    BY <1>1, <1>2
  <2>2. PICK k, p, q, r : k = c + (m + 1) /\ p = parts[m + 1] /\ q = f[m] /\ r = f[m + 1]
    OBVIOUS
  <2>3. IsJoined(r, q, p)
    BY <1>5, <2>1, <2>2
  <2>4. HasExchanges(q, (c + 1) .. (c + m)) /\ Lacks(q, Talk)
    BY <1>7, <2>1, <2>2
  <2>5. p = ExchangeMessages(k)
    BY <1>2, <2>1, <2>2
  <2>6. HasExchanges(p, {k}) /\ Lacks(p, Talk)
    BY <2>1, <2>2, <2>5, ExchangeIs
  <2>7. \A i \in (c + 1) .. (c + m), h \in {k} : i < h
    BY <2>2
  <2>8. PICK K, H : K = (c + 1) .. (c + m) /\ H = {k}
    OBVIOUS
  <2>9. HasExchanges(r, K \cup H)
    BY <2>3, <2>4, <2>6, <2>7, <2>8, ExchangesJoin
  <2>10. K \cup H = (c + 1) .. (c + (m + 1))
    <3>1. \A x : x \in (c + 1) .. (c + m) \/ x = k <=> x \in (c + 1) .. (c + (m + 1))
      BY <2>2
    <3> QED
      BY <2>8, <3>1
  <2>11. Lacks(r, Talk)
    BY <2>3, <2>4, <2>6, LacksJoin
  <2> QED
    BY <2>2, <2>9, <2>10, <2>11
<1> HIDE DEF S
<1>8. Nat \subseteq S
  BY <1>6, <1>7, AllNumbers
<1>9. /\ HasExchanges(f[l], (c + 1) .. (c + l))
      /\ Lacks(f[l], Talk)
  BY <1>3, <1>8 DEF S
<1>10. c + l = Len(exchanges)
  BY <1>1, <1>2
<1> QED
  BY <1>5, <1>9, <1>10

\* The images of the summary.
LEMMA PicturesAre ==
  ASSUME ExchangesTyped, NEW parts, parts = [k \in DOMAIN exchanges |-> ImageMessages(k)]
  PROVE  Lacks(Flattened(parts), Paired) /\ Lacks(Flattened(parts), Talk)
<1>1. Len(exchanges) \in Nat /\ DOMAIN exchanges = 1 .. Len(exchanges)
  BY ExchangeFields
<1>2. PICK l : l = Len(exchanges)
  OBVIOUS
<1>3. l \in Nat /\ parts = [k \in 1 .. l |-> ImageMessages(k)]
  BY <1>1, <1>2
<1>4. Len(parts) = l
  BY <1>3
<1>5. PICK f : /\ Flattened(parts) = f[l] /\ f[0] = <<>>
               /\ \A m \in 1 .. l : IsJoined(f[m], f[m - 1], parts[m])
  BY <1>3, <1>4, FlattenedIs
<1> DEFINE S == {m \in Nat : m <= l => Lacks(f[m], Paired) /\ Lacks(f[m], Talk)}
<1>6. 0 \in S
  BY <1>5, EmptyLacks
<1>7. ASSUME NEW m \in Nat, m \in S
      PROVE  m + 1 \in S
  <2> SUFFICES ASSUME m + 1 <= l
               PROVE  Lacks(f[m + 1], Paired) /\ Lacks(f[m + 1], Talk)
    OBVIOUS
  <2>1. m <= l /\ m + 1 \in 1 .. l /\ (m + 1) - 1 = m /\ m + 1 \in Nat
    BY <1>3
  <2>2. PICK k, p, q, r : k = m + 1 /\ p = parts[m + 1] /\ q = f[m] /\ r = f[m + 1]
    OBVIOUS
  <2>3. IsJoined(r, q, p)
    BY <1>5, <2>1, <2>2
  <2>4. Lacks(q, Paired) /\ Lacks(q, Talk)
    BY <1>7, <2>1, <2>2
  <2>5. p = ImageMessages(k)
    BY <1>3, <2>1, <2>2
  <2>6. "images" \in DOMAIN RoleOf \ Paired /\ "images" \in DOMAIN RoleOf \ Talk /\ 1 \in Nat /\ 2 \in Nat
    BY KindsAre DEF Others
  <2>7. Lacks(p, Paired) /\ Lacks(p, Talk)
    BY <2>1, <2>2, <2>5, <2>6, MaybeLacks DEF ImageMessages
  <2>8. Lacks(r, Paired)
    BY <2>3, <2>4, <2>7, LacksJoin
  <2>9. Lacks(r, Talk)
    BY <2>3, <2>4, <2>7, LacksJoin
  <2> QED
    BY <2>2, <2>8, <2>9
<1> HIDE DEF S
<1>8. Nat \subseteq S
  BY <1>6, <1>7, AllNumbers
<1> QED
  BY <1>3, <1>5, <1>8 DEF S

\* A list of other messages, behind one with exchanges, leaves those as they are.
LEMMA OthersJoin ==
  ASSUME ExchangesTyped, NEW a, NEW b, NEW K, HasExchanges(a, K), Lacks(a, Talk), Lacks(b, Paired), Lacks(b, Talk),
         NEW r, IsJoined(r, a, b) \/ IsJoined(r, b, a)
  PROVE  HasExchanges(r, K) /\ Lacks(r, Talk)
<1>1. HasExchanges(b, {})
  BY PlainHasNone
<1>2. K \cup {} = K /\ {} \cup K = K
  OBVIOUS
<1>3. CASE IsJoined(r, a, b)
  <2>1. HasExchanges(r, K \cup {})
    BY <1>1, <1>3, ExchangesJoin
  <2>2. Lacks(r, Talk)
    BY <1>3, LacksJoin
  <2> QED
    BY <1>2, <2>1, <2>2
<1>4. CASE IsJoined(r, b, a)
  <2>1. HasExchanges(r, {} \cup K)
    BY <1>1, <1>4, ExchangesJoin
  <2>2. Lacks(r, Talk)
    BY <1>4, LacksJoin
  <2> QED
    BY <1>2, <2>1, <2>2
<1> QED
  BY <1>3, <1>4

\* A message that may be left out.
LEMMA MaybeOther ==
  ASSUME NEW kind \in Others, NEW n \in Nat, NEW words \in Nat, NEW fixed \in Nat,
         NEW there, NEW list, list = IF there THEN <<Message(kind, n, words, fixed)>> ELSE <<>>
  PROVE  Lacks(list, Paired) /\ Lacks(list, Talk)
BY KindsAre, MaybeLacks

\* What follows the opening of the turn.
LEMMA RestIs ==
  ASSUME ContextAssumption, ExchangesTyped
  PROVE  Lacks(AfterTools, Talk) /\ \E K : HasExchanges(AfterTools, K)
<1>1. PICK l : l = Len(exchanges) /\ l \in Nat /\ DOMAIN exchanges = 1 .. l
  BY ExchangeFields
<1>2. 0 \in Nat /\ 1 \in Nat /\ 2 \in Nat
  OBVIOUS
<1>3. PICK checks : checks = CheckpointMessages
  OBVIOUS
<1>4. Lacks(checks, Paired) /\ Lacks(checks, Talk)
  <2>1. "checkpoint" \in Others
    BY DEF Others
  <2> QED
    BY <1>2, <1>3, <2>1, MaybeOther DEF CheckpointMessages
<1>5. CASE repeats = 2 /\ exchanges # <<>>
  <2>1. PICK head, pictures, again : head = <<Message("olderRounds", 0, 2, 0)>>
                /\ pictures = Flattened([k \in DOMAIN exchanges |-> ImageMessages(k)])
                /\ again = <<Message("again", 0, 1, 0)>>
    OBVIOUS
  <2>2. PICK a, b : a = head \o pictures /\ b = a \o checks
    OBVIOUS
  <2>3. AfterTools = b \o again
    BY <1>3, <1>5, <2>1, <2>2 DEF AfterTools, PortableSummary
  <2>4. "olderRounds" \in Others /\ "again" \in Others
    BY DEF Others
  <2>5. /\ Lacks(head, Paired) /\ Lacks(head, Talk) /\ Lacks(again, Paired) /\ Lacks(again, Talk)
    BY <1>2, <2>1, <2>4, KindsAre, OneLacks
  <2>6. Lacks(pictures, Paired) /\ Lacks(pictures, Talk)
    BY <2>1, PicturesAre
  <2>7. HasExchanges(head, {})
    BY <2>5, PlainHasNone
  <2>8. HasExchanges(a, {}) /\ Lacks(a, Talk)
    BY <2>2, <2>5, <2>6, <2>7, OthersJoin DEF IsJoined
  <2>9. HasExchanges(b, {}) /\ Lacks(b, Talk)
    BY <1>4, <2>2, <2>8, OthersJoin DEF IsJoined
  <2>10. HasExchanges(AfterTools, {}) /\ Lacks(AfterTools, Talk)
    BY <2>3, <2>5, <2>9, OthersJoin DEF IsJoined
  <2> QED
    BY <2>10
<1>6. CASE ~(repeats = 2 /\ exchanges # <<>>)
  <2>1. PICK c, K : c = RecentStart /\ K = (c + 1) .. l
    OBVIOUS
  <2>2. c \in Nat /\ c <= l
    <3>1. PICK x : x = Exact /\ x \in Nat
      BY DEF ContextAssumption
    <3>2. c = IF l > x THEN l - x ELSE 0
      BY <1>1, <2>1, <3>1 DEF RecentStart
    <3> QED
      BY <1>1, <3>1, <3>2
  <2>3. PICK older, rounds, proven, more, again :
          /\ older = (IF c > 0 THEN <<Message("olderRounds", 0, c, 0)>> ELSE <<>>)
          /\ rounds = Flattened([k \in 1 .. (Len(exchanges) - c) |-> ExchangeMessages(c + k)])
          /\ proven = (IF exchanges # <<>> THEN <<Message("evidence", 0, 1, 0)>> ELSE <<>>)
          /\ more = (IF continuing THEN <<Message("continue", 0, 1, 0)>> ELSE <<>>)
          /\ again = (IF repeats = 1 THEN <<Message("again", 0, 1, 0)>> ELSE <<>>)
    OBVIOUS
  <2>4. PICK a, b, d, e : a = older \o rounds /\ b = a \o checks /\ d = b \o proven /\ e = d \o more
    OBVIOUS
  <2>5. AfterTools = e \o again
    BY <1>3, <1>6, <2>1, <2>3, <2>4 DEF AfterTools, ToolMessages
  <2>6. "olderRounds" \in Others /\ "again" \in Others /\ "evidence" \in Others /\ "continue" \in Others
    BY DEF Others
  <2>7. Lacks(older, Paired) /\ Lacks(older, Talk)
    BY <1>2, <2>2, <2>3, <2>6, MaybeOther
  <2>8. Lacks(proven, Paired) /\ Lacks(proven, Talk)
    BY <1>2, <2>3, <2>6, MaybeOther
  <2>9. Lacks(more, Paired) /\ Lacks(more, Talk)
    BY <1>2, <2>3, <2>6, MaybeOther
  <2>10. Lacks(again, Paired) /\ Lacks(again, Talk)
    BY <1>2, <2>3, <2>6, MaybeOther
  <2>11. HasExchanges(rounds, K) /\ Lacks(rounds, Talk)
    BY <1>1, <2>1, <2>2, <2>3, RoundsAre
  <2>12. HasExchanges(a, K) /\ Lacks(a, Talk)
    BY <2>4, <2>7, <2>11, OthersJoin DEF IsJoined
  <2>13. HasExchanges(b, K) /\ Lacks(b, Talk)
    BY <1>4, <2>4, <2>12, OthersJoin DEF IsJoined
  <2>14. HasExchanges(d, K) /\ Lacks(d, Talk)
    BY <2>4, <2>8, <2>13, OthersJoin DEF IsJoined
  <2>15. HasExchanges(e, K) /\ Lacks(e, Talk)
    BY <2>4, <2>9, <2>14, OthersJoin DEF IsJoined
  <2>16. HasExchanges(AfterTools, K) /\ Lacks(AfterTools, Talk)
    BY <2>5, <2>10, <2>15, OthersJoin DEF IsJoined
  <2> QED
    BY <2>16
<1> QED
  BY <1>5, <1>6

\* Questions and answers are in the order of the history, the request is behind them, and
\* no answer is empty.
Coherent(list) ==
  /\ list \in Seq(ContextMessages)
  /\ \A i \in DOMAIN list : list[i].kind = "answer" => list[i].text > 0
  /\ \A i, j \in DOMAIN list : i < j /\ list[j].kind \in {"question", "answer"} =>
       /\ list[i].kind \in {"question", "answer"} => list[i].n < list[j].n
       /\ list[i].kind # "request"

LEMMA CoherentJoin ==
  ASSUME NEW a, NEW b, Coherent(a), Coherent(b),
         Lacks(a, Talk) \/ Lacks(b, {"question", "answer"}), NEW r, IsJoined(r, a, b)
  PROVE  Coherent(r)
<1>1. a \in Seq(ContextMessages) /\ b \in Seq(ContextMessages)
  BY DEF Coherent
<1>2. PICK l, m : l = Len(a) /\ m = Len(b)
  OBVIOUS
<1>3. /\ r \in Seq(ContextMessages) /\ l \in Nat /\ m \in Nat
      /\ DOMAIN a = 1 .. l /\ DOMAIN b = 1 .. m /\ DOMAIN r = 1 .. l + m
      /\ \A i \in 1 .. l + m : r[i] = IF i <= l THEN a[i] ELSE b[i - l]
  BY <1>1, <1>2, ConcatProperties DEF IsJoined
<1>4. \A i \in DOMAIN r : \/ i \in DOMAIN a /\ r[i] = a[i]
                          \/ i - l \in DOMAIN b /\ r[i] = b[i - l] /\ l < i
  BY <1>3
<1>5. \A i \in DOMAIN r : r[i].kind = "answer" => r[i].text > 0
  BY <1>4 DEF Coherent
<1>6. ASSUME NEW i \in DOMAIN r, NEW j \in DOMAIN r, i < j, r[j].kind \in {"question", "answer"}
      PROVE  /\ r[i].kind \in {"question", "answer"} => r[i].n < r[j].n
             /\ r[i].kind # "request"
  <2>1. CASE j \in DOMAIN a /\ r[j] = a[j]
    <3>1. i \in DOMAIN a /\ r[i] = a[i]
      BY <1>3, <1>6, <2>1
    <3> QED
      BY <1>6, <2>1, <3>1 DEF Coherent
  <2>2. CASE j - l \in DOMAIN b /\ r[j] = b[j - l] /\ l < j
    <3>1. Lacks(a, Talk)
      BY <1>6, <2>2 DEF Lacks
    <3>2. CASE i \in DOMAIN a /\ r[i] = a[i]
      BY <3>1, <3>2 DEF Lacks, Talk
    <3>3. CASE i - l \in DOMAIN b /\ r[i] = b[i - l] /\ l < i
      <4>1. i - l < j - l
        BY <1>3, <1>6
      <4> QED
        BY <1>6, <2>2, <3>3, <4>1 DEF Coherent
    <3> QED
      BY <1>4, <3>2, <3>3
  <2> QED
    BY <1>4, <2>1, <2>2
<1> QED
  BY <1>3, <1>5, <1>6 DEF Coherent

LEMMA SilentIsCoherent ==
  ASSUME NEW list, Lacks(list, Talk)
  PROVE  Coherent(list) /\ Lacks(list, {"question", "answer"})
BY DEF Lacks, Coherent, Talk

\* The messages of earlier turns.
LEMMA HistoryIs ==
  ASSUME ContextAssumption, NEW history \in Histories, NEW size \in Sizes, NEW list,
         list = [i \in DOMAIN history |-> Message(history[i], i, size, 0)]
  PROVE  Coherent(list) /\ Lacks(list, Paired)
<1>1. PICK S : S = {"question", "answer", "priorTool"}
  OBVIOUS
<1>2. PICK n : n = Len(history)
  OBVIOUS
<1>3. n \in Nat /\ DOMAIN history = 1 .. n /\ \A i \in 1 .. n : history[i] \in S
  <2>1. history \in Seq(S)
    BY <1>1 DEF ContextAssumption
  <2> QED
    BY <1>2, <2>1
<1>4. list = [i \in 1 .. n |-> Message(history[i], i, size, 0)]
  BY <1>3
<1>5. size \in Nat /\ size > 0
  BY DEF ContextAssumption
<1>6. ASSUME NEW i \in 1 .. n
      PROVE  /\ list[i] \in ContextMessages /\ list[i].n = i /\ list[i].text = size
             /\ list[i].kind \in S
  <2>1. PICK m : m = Message(history[i], i, size, 0)
    OBVIOUS
  <2>2. history[i] \in DOMAIN RoleOf
    BY <1>1, <1>3, KindsAre
  <2>3. i \in Nat /\ 0 \in Nat
    BY <1>3
  <2>4. m \in ContextMessages /\ m.n = i /\ m.text = size /\ m.kind = history[i]
    BY <1>5, <2>1, <2>2, <2>3 DEF Message, ContextMessages
  <2>5. list[i] = m
    BY <1>4, <2>1
  <2> QED
    BY <1>3, <2>4, <2>5
<1>7. DOMAIN list = 1 .. n /\ list = [i \in 1 .. n |-> list[i]]
  BY <1>4
<1>8. list \in Seq(ContextMessages)
  BY <1>3, <1>6, <1>7, ListOf
<1>9. Lacks(list, Paired)
  BY <1>1, <1>6, <1>7, <1>8 DEF Lacks, Paired
<1>10. \A i \in DOMAIN list : list[i].text > 0 /\ list[i].n = i /\ list[i].kind # "request"
  BY <1>1, <1>5, <1>6, <1>7
<1> QED
  BY <1>8, <1>9, <1>10 DEF Coherent

\* What begins the request.
LEMMA OpeningIs ==
  ASSUME ContextAssumption, NEW list \in Openings
  PROVE  Coherent(list) /\ Lacks(list, Paired)
<1>1. PICK history \in Histories, recalled \in BOOLEAN, opened \in BOOLEAN, size \in Sizes :
        list = Opening(history, recalled, opened, size)
  BY DEF Openings
<1>2. PICK system, memory, said, page, request :
        /\ system = <<Message("system", 0, 1, 0)>>
        /\ memory = (IF recalled THEN <<Message("remembered", 0, 1, 0)>> ELSE <<>>)
        /\ said = [i \in DOMAIN history |-> Message(history[i], i, size, 0)]
        /\ page = (IF opened THEN <<Message("page", 0, size, 0)>> ELSE <<>>)
        /\ request = <<Message("request", 0, size, 0)>>
  OBVIOUS
<1>3. PICK a, b, c : a = system \o memory /\ b = a \o said /\ c = b \o page
  OBVIOUS
<1>4. list = c \o request
  BY <1>1, <1>2, <1>3 DEF Opening
<1>5. 0 \in Nat /\ 1 \in Nat /\ size \in Nat
  BY DEF ContextAssumption
<1>6. "system" \in Others /\ "remembered" \in Others /\ "page" \in Others
  BY DEF Others
<1>7. Lacks(system, Paired) /\ Lacks(system, Talk)
  BY <1>2, <1>5, <1>6, KindsAre, OneLacks
<1>8. Lacks(memory, Paired) /\ Lacks(memory, Talk)
  BY <1>2, <1>5, <1>6, MaybeOther
<1>9. Coherent(said) /\ Lacks(said, Paired)
  BY <1>2, HistoryIs
<1>10. Lacks(page, Paired) /\ Lacks(page, Talk)
  BY <1>2, <1>5, <1>6, MaybeOther
<1>11. Coherent(request) /\ Lacks(request, Paired) /\ Lacks(request, {"question", "answer"})
  <2>1. "request" \in DOMAIN RoleOf \ {"question", "answer"}
    BY KindsAre
  <2>2. Lacks(request, Paired) /\ Len(request) = 1 /\ request[1].kind = "request"
    BY <1>2, <1>5, KindsAre, OneLacks
  <2>3. Lacks(request, {"question", "answer"})
    BY <1>2, <1>5, <2>1, OneLacks
  <2> QED
    BY <2>2, <2>3 DEF Coherent, Lacks
<1>12. Lacks(a, Talk) /\ Lacks(a, Paired)
  BY <1>3, <1>7, <1>8, LacksJoin DEF IsJoined
<1>13. Coherent(a)
  BY <1>12, SilentIsCoherent
<1>14. Coherent(b) /\ Lacks(b, Paired)
  BY <1>3, <1>9, <1>12, <1>13, CoherentJoin, LacksJoin DEF IsJoined
<1>15. Coherent(page) /\ Lacks(page, {"question", "answer"})
  BY <1>10, SilentIsCoherent
<1>16. Coherent(c) /\ Lacks(c, Paired)
  BY <1>3, <1>10, <1>14, <1>15, CoherentJoin, LacksJoin DEF IsJoined
<1> QED
  BY <1>4, <1>11, <1>16, CoherentJoin, LacksJoin DEF IsJoined

\* A list of messages as they are built, or what was left of it.
Sound(list) == Coherent(list) /\ \E K : HasExchanges(list, K)

LEMMA BuiltIsSound ==
  ASSUME ContextAssumption, ExchangesTyped, opening \in Openings
  PROVE  Sound(opening \o AfterTools)
<1>1. PICK a, b, r : a = opening /\ b = AfterTools /\ r = opening \o AfterTools
  OBVIOUS
<1>2. Coherent(a) /\ Lacks(a, Paired)
  BY <1>1, OpeningIs
<1>3. PICK K : HasExchanges(b, K) /\ Lacks(b, Talk)
  BY <1>1, RestIs
<1>4. IsJoined(r, a, b)
  BY <1>1 DEF IsJoined
<1>5. Coherent(b) /\ Lacks(b, {"question", "answer"})
  BY <1>3, SilentIsCoherent
<1>6. Coherent(r)
  BY <1>2, <1>4, <1>5, CoherentJoin
<1>7. HasExchanges(a, {})
  BY <1>2, PlainHasNone
<1>8. HasExchanges(r, {} \cup K)
  BY <1>3, <1>4, <1>7, ExchangesJoin
<1> QED
  BY <1>1, <1>6, <1>8 DEF Sound

\* A list has messages of another one.
From(list, source) ==
  \A i \in DOMAIN list : \E j \in DOMAIN source : source[j].kind = list[i].kind /\ source[j].n = list[i].n

\* The greatest of some positions.
LEMMA LastOfIs ==
  ASSUME NEW n \in Nat, NEW S, S \subseteq 1 .. n
  PROVE  /\ S = {} => LastOf(S) = 0
         /\ S # {} => LastOf(S) \in S /\ \A x \in S : x <= LastOf(S)
<1>0. ASSUME NEW x, x \in S
      PROVE  x \in Nat /\ n - x \in Nat
  <2>1. x \in 1 .. n
    BY <1>0
  <2> QED
    BY <2>1
<1>1. CASE S = {}
  BY <1>1 DEF LastOf
<1>2. CASE S # {}
  <2> DEFINE T == {n - x : x \in S}
  <2>1. T \subseteq Nat /\ T # {}
    BY <1>0, <1>2
  <2>2. PICK t \in T : \A u \in T : t <= u
    BY <2>1, LeastOf
  <2>3. PICK i \in S : t = n - i
    OBVIOUS
  <2>4. ASSUME NEW x \in S
        PROVE  i >= x
    <3>1. n - x \in T /\ x \in Nat /\ i \in Nat
      BY <1>0
    <3> QED
      BY <2>2, <2>3, <3>1
  <2>5. \E m \in S : \A x \in S : m >= x
    BY <2>4
  <2>6. PICK m : m = CHOOSE j \in S : \A x \in S : j >= x
    OBVIOUS
  <2>7. m \in S /\ \A x \in S : m >= x
    BY <2>5, <2>6
  <2>8. LastOf(S) = m
    BY <1>2, <2>6 DEF LastOf, Max
  <2>9. \A x \in S : x \in Nat
    BY <1>0
  <2> QED
    BY <1>2, <2>7, <2>8, <2>9
<1> QED
  BY <1>1, <1>2

\* The first of some positions.
LEMMA FirstIs ==
  ASSUME NEW S, S \subseteq Nat, S # {}
  PROVE  Min(S) \in S /\ \A x \in S : Min(S) <= x
<1>1. \E m \in S : \A x \in S : m <= x
  BY LeastOf
<1>2. PICK m : m = CHOOSE j \in S : \A x \in S : j <= x
  OBVIOUS
<1>3. m \in S /\ \A x \in S : m <= x
  BY <1>1, <1>2
<1>4. Min(S) = m
  BY <1>2 DEF Min
<1> QED
  BY <1>3, <1>4

\* A unit is an interval: its start, and the tool messages up to the next start.
LEMMA UnitIs ==
  ASSUME NEW list \in Seq(ContextMessages), NEW i \in Starts(list)
  PROVE  \E e \in i .. Len(list) :
           /\ UnitOf(list, i) = i .. e /\ Min(UnitOf(list, i)) = i /\ Max(UnitOf(list, i)) = e
           /\ \A j \in (i + 1) .. e : Role(list[j]) = "tool"
           /\ e < Len(list) => Role(list[e + 1]) # "tool"
<1>1. PICK m, S, U : m = Len(list) /\ S = Starts(list) /\ U = UnitOf(list, i)
  OBVIOUS
<1>2. m \in Nat /\ i \in 1 .. m /\ S = {j \in 1 .. m : Role(list[j]) # "tool"}
  BY <1>1 DEF Starts
<1>3. U = {j \in i .. m : \A k \in (i + 1) .. j : k \notin S}
  BY <1>1 DEF UnitOf
<1>4. i \in U /\ U \subseteq 1 .. m
  BY <1>2, <1>3
<1>5. PICK e : e = LastOf(U) /\ e \in U /\ \A x \in U : x <= e
  BY <1>2, <1>4, LastOfIs
<1>6. e \in i .. m
  BY <1>3, <1>5
<1>7. ASSUME NEW j \in i .. e
      PROVE  j \in U
  <2>1. j \in i .. m /\ (i + 1) .. j \subseteq (i + 1) .. e
    BY <1>2, <1>6
  <2> QED
    BY <1>3, <1>5, <2>1
<1>8. U = i .. e
  <2>1. \A x \in U : x \in i .. e
    BY <1>2, <1>3, <1>5, <1>6
  <2> QED
    BY <1>7, <2>1
<1>9. ASSUME NEW j \in (i + 1) .. e
      PROVE  Role(list[j]) = "tool"
  <2>1. j \notin S /\ j \in 1 .. m
    BY <1>2, <1>3, <1>5, <1>6
  <2> QED
    BY <1>2, <2>1
<1>10. ASSUME e < m, Role(list[e + 1]) = "tool"
       PROVE  FALSE
  <2>1. e + 1 \in i .. m /\ e + 1 \notin S
    BY <1>2, <1>6, <1>10
  <2>2. \A k \in (i + 1) .. (e + 1) : k \notin S
    <3>1. \A k \in (i + 1) .. (e + 1) : k \in (i + 1) .. e \/ k = e + 1
      BY <1>2, <1>6
    <3> QED
      BY <1>3, <1>5, <2>1, <3>1
  <2>3. e + 1 \in U
    BY <1>3, <2>1, <2>2
  <2> QED
    BY <1>2, <1>5, <1>6, <2>3
<1>11. Max(U) = e
  <2>1. U # {}
    BY <1>4
  <2> QED
    BY <1>5, <2>1 DEF LastOf
<1>12. Min(U) = i
  <2>1. U \subseteq Nat /\ U # {}
    BY <1>2, <1>4
  <2>2. Min(U) \in U /\ Min(U) <= i
    BY <1>4, <2>1, FirstIs
  <2>3. Min(U) \in Nat /\ i <= Min(U)
    BY <1>2, <1>8, <2>1, <2>2
  <2> QED
    BY <1>2, <2>2, <2>3
<1> QED
  BY <1>1, <1>6, <1>8, <1>9, <1>10, <1>11, <1>12

\* A list without the positions i .. e.
IsWithout(r, list, i, e) == r = SubSeq(list, 1, i - 1) \o SubSeq(list, e + 1, Len(list))
LEMMA WithoutIs ==
  ASSUME NEW list \in Seq(ContextMessages), NEW i \in DOMAIN list, NEW e \in i .. Len(list),
         NEW r, IsWithout(r, list, i, e), NEW d, d = e + 1 - i
  PROVE  /\ r \in Seq(ContextMessages) /\ DOMAIN r = 1 .. (Len(list) - d)
         /\ \A j \in DOMAIN r : /\ (IF j < i THEN j ELSE j + d) \in DOMAIN list
                                /\ r[j] = list[IF j < i THEN j ELSE j + d]
<1>1. PICK m, a, b : m = Len(list) /\ a = SubSeq(list, 1, i - 1) /\ b = SubSeq(list, e + 1, Len(list))
  OBVIOUS
<1>2. m \in Nat /\ DOMAIN list = 1 .. m /\ \A j \in 1 .. m : list[j] \in ContextMessages
  BY <1>1
<1>3. i \in Nat /\ e \in Nat /\ 1 <= i /\ i <= e /\ e <= m
  BY <1>1, <1>2
<1>4. a \in Seq(ContextMessages) /\ Len(a) = i - 1 /\ \A j \in 1 .. i - 1 : a[j] = list[j]
  <2>1. 1 \in Int /\ i - 1 \in Int /\ \A j \in 1 .. i - 1 : list[j] \in ContextMessages
    BY <1>2, <1>3
  <2>2. /\ a \in Seq(ContextMessages) /\ Len(a) = (IF 1 <= i - 1 THEN (i - 1) - 1 + 1 ELSE 0)
        /\ \A j \in 1 .. (i - 1) - 1 + 1 : a[j] = list[1 + j - 1]
    BY <1>1, <2>1, SubSeqProperties
  <2>3. (IF 1 <= i - 1 THEN (i - 1) - 1 + 1 ELSE 0) = i - 1 /\ (i - 1) - 1 + 1 = i - 1
    BY <1>3
  <2>4. \A j \in 1 .. i - 1 : 1 + j - 1 = j
    BY <1>3
  <2>5. Len(a) = i - 1
    BY <2>2, <2>3
  <2>6. \A j \in 1 .. i - 1 : a[j] = list[1 + j - 1]
    BY <2>2, <2>3
  <2> QED
    BY <2>2, <2>4, <2>5, <2>6
<1>5. b \in Seq(ContextMessages) /\ Len(b) = m - e /\ \A j \in 1 .. m - e : b[j] = list[e + j]
  <2>1. e + 1 \in Int /\ m \in Int /\ \A j \in (e + 1) .. m : list[j] \in ContextMessages
    BY <1>2, <1>3
  <2>2. /\ b \in Seq(ContextMessages) /\ Len(b) = (IF e + 1 <= m THEN m - (e + 1) + 1 ELSE 0)
        /\ \A j \in 1 .. m - (e + 1) + 1 : b[j] = list[(e + 1) + j - 1]
    BY <1>1, <2>1, SubSeqProperties
  <2>3. (IF e + 1 <= m THEN m - (e + 1) + 1 ELSE 0) = m - e /\ m - (e + 1) + 1 = m - e
    BY <1>2, <1>3
  <2>4. \A j \in 1 .. m - e : (e + 1) + j - 1 = e + j
    BY <1>2, <1>3
  <2>5. Len(b) = m - e
    BY <2>2, <2>3
  <2>6. \A j \in 1 .. m - e : b[j] = list[(e + 1) + j - 1]
    BY <2>2, <2>3
  <2> QED
    BY <2>2, <2>4, <2>5, <2>6
<1>6. r = a \o b
  BY <1>1 DEF IsWithout
<1>7. /\ r \in Seq(ContextMessages) /\ Len(r) = Len(a) + Len(b)
      /\ \A j \in 1 .. Len(a) + Len(b) : r[j] = IF j <= Len(a) THEN a[j] ELSE b[j - Len(a)]
  <2>1. a \in Seq(ContextMessages) /\ b \in Seq(ContextMessages)
    BY <1>4, <1>5
  <2> QED
    BY <1>6, <2>1, ConcatProperties
<1>8. Len(a) = i - 1 /\ Len(a) + Len(b) = m - d /\ Len(b) = m - e
  <2>1. Len(a) = i - 1 /\ Len(b) = m - e
    BY <1>4, <1>5
  <2>2. (i - 1) + (m - e) = m - d
    BY <1>2, <1>3
  <2> QED
    BY <2>1, <2>2
<1>9. DOMAIN r = 1 .. m - d
  BY <1>7, <1>8
<1>10. ASSUME NEW j \in 1 .. m - d
       PROVE  /\ (IF j < i THEN j ELSE j + d) \in 1 .. m
              /\ r[j] = list[IF j < i THEN j ELSE j + d]
  <2>1. r[j] = IF j <= i - 1 THEN a[j] ELSE b[j - (i - 1)]
    BY <1>7, <1>8
  <2>2. CASE j < i
    <3>1. j <= i - 1 /\ j \in 1 .. i - 1 /\ j \in 1 .. m
      BY <1>2, <1>3, <2>2
    <3> QED
      BY <1>4, <2>1, <2>2, <3>1
  <2>3. CASE ~(j < i)
    <3>1. ~(j <= i - 1) /\ j - (i - 1) \in 1 .. m - e /\ e + (j - (i - 1)) = j + d /\ j + d \in 1 .. m
      BY <1>2, <1>3, <2>3
    <3> QED
      BY <1>5, <2>1, <2>3, <3>1
  <2> QED
    BY <2>2, <2>3
<1> QED
  BY <1>1, <1>2, <1>7, <1>9, <1>10

LEMMA RoleIsTool ==
  ASSUME NEW m \in ContextMessages
  PROVE  /\ m.kind \in DOMAIN RoleOf /\ m.n \in Nat /\ m.text \in Nat /\ m.fixed \in Nat
         /\ Role(m) = "tool" <=> m.kind = "result"
<1>1. m.kind \in DOMAIN RoleOf /\ m.n \in Nat /\ m.text \in Nat /\ m.fixed \in Nat
  BY DEF ContextMessages
<1> QED
  BY <1>1, KindsAre DEF Role

\* An exchange is in a unit or apart from it.
LEMMA ExchangeInUnit ==
  ASSUME NEW list \in Seq(ContextMessages), NEW i \in Starts(list), NEW e \in i .. Len(list),
         \A j \in (i + 1) .. e : Role(list[j]) = "tool", e < Len(list) => Role(list[e + 1]) # "tool",
         NEW k, NEW p, IsAt(list, k, p), NEW n \in Nat, n = exchanges[k].results
  PROVE  /\ p = i => p + n <= e
         /\ p # i => p + n < i \/ p > e
<1>1. PICK m : m = Len(list)
  OBVIOUS
<1>2. /\ m \in Nat /\ DOMAIN list = 1 .. m /\ \A j \in 1 .. m : list[j] \in ContextMessages
      /\ i \in 1 .. m /\ Role(list[i]) # "tool" /\ e \in i .. m
  BY <1>1 DEF Starts
<1>3. \A j \in 1 .. m : Role(list[j]) = "tool" <=> list[j].kind = "result"
  BY <1>2, RoleIsTool
<1>4. /\ p \in 1 .. m /\ p + n \in 1 .. m /\ list[p].kind = "calls"
      /\ \A j \in 1 .. m : j \in (p + 1) .. (p + n) => list[j].kind = "result"
  BY <1>2 DEF IsAt
<1>5. ASSUME p = i
      PROVE  p + n <= e
  <2> SUFFICES ASSUME e < p + n PROVE FALSE
    BY <1>2, <1>4
  <2>1. e + 1 \in 1 .. m /\ e + 1 \in (p + 1) .. (p + n) /\ e < m
    BY <1>2, <1>4, <1>5
  <2> QED
    BY <1>1, <1>3, <1>4, <2>1
<1>6. ASSUME p # i
      PROVE  p + n < i \/ p > e
  <2>1. CASE p < i
    <3>1. i \notin (p + 1) .. (p + n)
      BY <1>2, <1>3, <1>4
    <3> QED
      BY <1>2, <1>4, <2>1, <3>1
  <2>2. CASE i < p
    <3>1. p \notin (i + 1) .. e
      BY <1>3, <1>4
    <3> QED
      BY <1>2, <1>4, <2>2, <3>1
  <2> QED
    BY <1>2, <1>4, <1>6, <2>1, <2>2
<1> QED
  BY <1>5, <1>6

\* A list stays sound when a unit is left out.
LEMMA CutIsSound ==
  ASSUME ExchangesTyped, NEW list, Sound(list), NEW i \in Starts(list), NEW e \in i .. Len(list),
         \A j \in (i + 1) .. e : Role(list[j]) = "tool", e < Len(list) => Role(list[e + 1]) # "tool",
         NEW r, IsWithout(r, list, i, e)
  PROVE  Sound(r) /\ From(r, list)
<1>1. PICK K : HasExchanges(list, K)
  BY DEF Sound
<1>2. list \in Seq(ContextMessages) /\ Coherent(list)
  BY DEF Sound, Coherent
<1>3. PICK m, d : m = Len(list) /\ d = e + 1 - i
  OBVIOUS
<1>4. m \in Nat /\ DOMAIN list = 1 .. m /\ i \in 1 .. m /\ e \in i .. m
  BY <1>2, <1>3 DEF Starts
<1>5. d \in Nat /\ d > 0 /\ i + d = e + 1
  BY <1>3, <1>4
<1>6. PICK g : g = [j \in Nat |-> IF j < i THEN j ELSE j + d]
  OBVIOUS
<1>7. /\ r \in Seq(ContextMessages) /\ DOMAIN r = 1 .. (m - d)
      /\ \A j \in DOMAIN r : g[j] \in DOMAIN list /\ r[j] = list[g[j]]
  <2>1. i \in DOMAIN list
    BY <1>4
  <2>2. /\ r \in Seq(ContextMessages) /\ DOMAIN r = 1 .. (m - d)
        /\ \A j \in DOMAIN r : /\ (IF j < i THEN j ELSE j + d) \in DOMAIN list
                               /\ r[j] = list[IF j < i THEN j ELSE j + d]
    BY <1>2, <1>3, <2>1, WithoutIs
  <2>3. \A j \in DOMAIN r : j \in Nat
    BY <2>2
  <2>4. \A j \in DOMAIN r : g[j] = IF j < i THEN j ELSE j + d
    BY <1>6, <2>3
  <2> QED
    BY <2>2, <2>4
<1>8. /\ \A j, h \in DOMAIN r : j < h => g[j] < g[h]
      /\ \A j \in DOMAIN r : g[j] < i \/ g[j] > e
  <2>1. \A j \in DOMAIN r : j \in Nat
    BY <1>7
  <2>2. \A j \in Nat : g[j] = IF j < i THEN j ELSE j + d
    BY <1>6
  <2>3. i \in Nat /\ e \in Nat
    BY <1>4
  <2>4. \A j, h \in Nat : j < h => g[j] < g[h]
    BY <1>5, <2>2, <2>3
  <2>5. \A j \in Nat : g[j] < i \/ g[j] > e
    BY <1>5, <2>2, <2>3
  <2> QED
    BY <2>1, <2>4, <2>5
<1>9. From(r, list)
  BY <1>7 DEF From
<1>10. Coherent(r)
  <2>1. \A j \in DOMAIN r : r[j].kind = "answer" => r[j].text > 0
    BY <1>2, <1>7 DEF Coherent
  <2>2. \A j, h \in DOMAIN r : j < h /\ r[h].kind \in {"question", "answer"} =>
          /\ r[j].kind \in {"question", "answer"} => r[j].n < r[h].n
          /\ r[j].kind # "request"
    BY <1>2, <1>7, <1>8 DEF Coherent
  <2> QED
    BY <1>7, <2>1, <2>2 DEF Coherent
<1>11. PICK L : L = {k \in K : ~(list[i].kind = "calls" /\ list[i].n = k)}
  OBVIOUS
<1>12. \A k \in K : k \in DOMAIN exchanges /\ exchanges[k].results \in Nat /\ exchanges[k].results > 0
  <2>1. K \subseteq DOMAIN exchanges
    BY <1>1 DEF HasExchanges
  <2> QED
    BY <2>1, ExchangeFields
<1>13. ASSUME NEW k \in K, NEW p \in DOMAIN list, IsAt(list, k, p), NEW n \in Nat, n = exchanges[k].results
       PROVE  /\ p = i => p + n <= e
              /\ p # i => p + n < i \/ p > e
  BY <1>2, <1>13, ExchangeInUnit
<1>14. ASSUME NEW j \in DOMAIN r, r[j].kind \in {"calls", "result"}
       PROVE  r[j].n \in L
  <2>1. PICK h, k : h = g[j] /\ k = r[j].n
    OBVIOUS
  <2>2. h \in DOMAIN list /\ r[j] = list[h] /\ (h < i \/ h > e)
    BY <1>7, <1>8, <2>1
  <2>3. k \in K
    BY <1>1, <1>14, <2>1, <2>2 DEF HasExchanges
  <2>4. PICK p \in DOMAIN list : IsAt(list, k, p)
    BY <1>1, <2>3 DEF HasExchanges
  <2>5. PICK n \in Nat : n = exchanges[k].results
    BY <1>12, <2>3
  <2>6. ASSUME list[i].kind = "calls", list[i].n = k
        PROVE  FALSE
    <3>1. p = i
      BY <1>4, <2>4, <2>6 DEF IsAt
    <3>2. p + n <= e
      BY <1>13, <2>3, <2>4, <2>5, <3>1
    <3>3. h = p \/ h \in (p + 1) .. (p + n)
      BY <1>14, <2>1, <2>2, <2>4, <2>5 DEF IsAt
    <3> QED
      BY <1>4, <2>2, <3>1, <3>2, <3>3
  <2> QED
    BY <1>11, <2>1, <2>3, <2>6
<1>15. ASSUME NEW k \in L
       PROVE  \E q \in DOMAIN r : IsAt(r, k, q)
  <2>1. k \in K
    BY <1>11
  <2>2. PICK p \in DOMAIN list : IsAt(list, k, p)
    BY <1>1, <2>1 DEF HasExchanges
  <2>3. PICK n \in Nat : n = exchanges[k].results /\ n > 0
    BY <1>12, <2>1
  <2>4. p # i
    BY <1>11, <2>2 DEF IsAt
  <2>5. p + n < i \/ p > e
    BY <1>13, <2>1, <2>2, <2>3, <2>4
  <2>6. p \in 1 .. m /\ p + n \in 1 .. m
    BY <1>4, <2>2, <2>3 DEF IsAt
  <2>7. PICK q : q = IF p < i THEN p ELSE p - d
    OBVIOUS
  <2>10. /\ m \in Nat /\ i \in Nat /\ e \in Nat /\ p \in Nat /\ d \in Nat /\ n \in Nat
         /\ 1 <= i /\ i <= e /\ e <= m /\ i + d = e + 1 /\ 1 <= p /\ p + n <= m
    BY <1>4, <1>5, <2>6
  <2>8. q \in 1 .. (m - d) /\ q + n \in 1 .. (m - d)
    <3>1. CASE p < i
      <4>1. q = p /\ p + n < i
        BY <2>5, <2>7, <2>10, <3>1
      <4>2. p + n <= m - d
        BY <2>10, <4>1
      <4> QED
        BY <2>10, <4>1, <4>2
    <3>2. CASE ~(p < i)
      <4>1. q = p - d /\ p > e
        BY <2>5, <2>7, <2>10, <3>2
      <4>2. p - d >= i
        BY <2>10, <4>1
      <4> QED
        BY <2>10, <4>1, <4>2
    <3> QED
      BY <3>1, <3>2
  <2>9. ASSUME NEW j \in DOMAIN r
        PROVE  /\ r[j].kind = "calls" /\ r[j].n = k <=> j = q
               /\ r[j].kind = "result" /\ r[j].n = k <=> j \in (q + 1) .. (q + n)
    <3>1. g[j] \in DOMAIN list /\ r[j] = list[g[j]]
      BY <1>7
    <3>2. /\ r[j].kind = "calls" /\ r[j].n = k <=> g[j] = p
          /\ r[j].kind = "result" /\ r[j].n = k <=> g[j] \in (p + 1) .. (p + n)
      BY <2>2, <2>3, <3>1 DEF IsAt
    <3>3. j \in Nat /\ g[j] = IF j < i THEN j ELSE j + d
      BY <1>6, <1>7
    <3>4. i \in Nat /\ e \in Nat /\ p \in Nat
      BY <1>4, <2>6
    <3>5. g[j] = p <=> j = q
      BY <1>5, <2>3, <2>5, <2>7, <3>3, <3>4
    <3>6. g[j] \in (p + 1) .. (p + n) <=> j \in (q + 1) .. (q + n)
      <4>1. CASE p < i
        <5>1. q = p /\ p + n < i
          BY <2>5, <2>7, <2>10, <4>1
        <5>2. CASE j < i
          BY <3>3, <5>1, <5>2
        <5>3. CASE ~(j < i)
          <6>1. PICK h : h = g[j] /\ h \in Nat /\ h > p + n /\ j > p + n
            BY <2>10, <3>3, <5>1, <5>3
          <6>2. ~(h \in (p + 1) .. (p + n)) /\ ~(j \in (p + 1) .. (p + n))
            BY <2>10, <3>3, <6>1
          <6> QED
            BY <5>1, <6>1, <6>2
        <5> QED
          BY <5>2, <5>3
      <4>2. CASE ~(p < i)
        <5>1. q = p - d /\ p > e /\ q >= i
          BY <2>5, <2>7, <2>10, <4>2
        <5>2. CASE j < i
          <6>1. g[j] < p /\ j < q
            BY <2>10, <3>3, <5>1, <5>2
          <6> QED
            BY <2>10, <3>3, <5>1, <6>1
        <5>3. CASE ~(j < i)
          <6>1. g[j] = j + d /\ j + d \in Nat /\ q \in Nat /\ q + d = p
            BY <2>10, <3>3, <5>1, <5>3
          <6>2. j + d \in (p + 1) .. (p + n) <=> j \in (q + 1) .. (q + n)
            BY <2>10, <3>3, <6>1
          <6> QED
            BY <6>1, <6>2
        <5> QED
          BY <5>2, <5>3
      <4> QED
        BY <4>1, <4>2
    <3> QED
      BY <3>2, <3>5, <3>6
  <2> QED
    BY <1>7, <2>3, <2>8, <2>9 DEF IsAt
<1>16. \A j, h \in DOMAIN r :
         j < h /\ r[j].kind = "result" /\ r[h].kind = "result" => r[j].n <= r[h].n
  BY <1>1, <1>7, <1>8 DEF HasExchanges
<1>17. HasExchanges(r, L)
  <2>1. L \subseteq DOMAIN exchanges
    BY <1>11, <1>12
  <2> QED
    BY <1>7, <1>14, <1>15, <1>16, <2>1 DEF HasExchanges
<1> QED
  BY <1>9, <1>10, <1>17 DEF Sound

\* A list stays sound when a text is shortened.
LEMMA SameIsSound ==
  ASSUME NEW list, Sound(list), NEW r \in Seq(ContextMessages), DOMAIN r = DOMAIN list,
         \A j \in DOMAIN r : r[j].kind = list[j].kind /\ r[j].n = list[j].n /\ (list[j].text > 0 => r[j].text > 0)
  PROVE  Sound(r) /\ From(r, list)
<1>1. PICK K : HasExchanges(list, K)
  BY DEF Sound
<1>2. HasExchanges(r, K)
  <2>1. ASSUME NEW k \in K
        PROVE  \E p \in DOMAIN r : IsAt(r, k, p)
    <3>1. PICK p \in DOMAIN list : IsAt(list, k, p)
      BY <1>1 DEF HasExchanges
    <3>2. IsAt(r, k, p)
      BY <3>1 DEF IsAt
    <3> QED
      BY <3>1, <3>2
  <2> QED
    BY <1>1, <2>1 DEF HasExchanges
<1>3. Coherent(r)
  BY DEF Sound, Coherent
<1>4. From(r, list)
  BY DEF From
<1> QED
  BY <1>2, <1>3, <1>4 DEF Sound

\* Each kind has a score.
LEMMA ScoresAre ==
  ASSUME NEW list \in Seq(ContextMessages), NEW i \in DOMAIN list
  PROVE  Score(list[i]) \in 0 .. 100
<1>1. \A kind \in DOMAIN RoleOf : ScoreOf[CategoryOf[kind]] \in 0 .. 100
  <2>1. \A kind \in DOMAIN RoleOf :
          CategoryOf[kind] \in {"page_context", "tool_results", "conversation", "conversation_memory", "system"}
    BY DEF RoleOf, CategoryOf
  <2>2. \A c \in {"page_context", "tool_results", "conversation", "conversation_memory", "system"} :
          ScoreOf[c] \in {100, 85, 50, 5, 0}
    BY DEF ScoreOf
  <2>3. \A x : x \in {100, 85, 50, 5, 0} => x \in 0 .. 100
    OBVIOUS
  <2>4. ASSUME NEW kind \in DOMAIN RoleOf
        PROVE  ScoreOf[CategoryOf[kind]] \in {100, 85, 50, 5, 0}
    BY <2>1, <2>2, Zenon
  <2> QED
    BY <2>3, <2>4, Zenon
<1>2. list[i].kind \in DOMAIN RoleOf
  BY RoleIsTool
<1> QED
  BY <1>1, <1>2 DEF Score, Category

\* The unit that is left out is one of those that may be.
LEMMA EvictedIs ==
  ASSUME NEW list \in Seq(ContextMessages), NEW units, units \subseteq DOMAIN list, units # {}
  PROVE  Evicted(list, units) \in units
<1>0. units \subseteq Nat
  BY DOMAIN list \subseteq Nat
<1> DEFINE S == {100 - Score(list[i]) : i \in units}
<1>1. \A i \in units : Score(list[i]) \in 0 .. 100
  BY ScoresAre
<1>2. S \subseteq Nat /\ S # {}
  <2>1. \A x \in 0 .. 100 : 100 - x \in Nat
    OBVIOUS
  <2> QED
    BY <1>1, <2>1
<1>3. PICK s \in S : \A t \in S : s <= t
  BY <1>2, LeastOf
<1> DEFINE T == {i \in units : 100 - Score(list[i]) = s}
<1>4. T \subseteq Nat /\ T # {}
  BY <1>0
<1>5. PICK i \in T : \A j \in T : i <= j
  BY <1>4, LeastOf
<1>6. ASSUME NEW j \in units
      PROVE  \/ Score(list[i]) > Score(list[j])
             \/ Score(list[i]) = Score(list[j]) /\ i <= j
  <2>1. 100 - Score(list[i]) <= 100 - Score(list[j])
    BY <1>3
  <2>2. Score(list[i]) \in 0 .. 100 /\ Score(list[j]) \in 0 .. 100
    BY <1>1
  <2>3. CASE Score(list[i]) = Score(list[j])
    <3>1. j \in T
      BY <2>3
    <3> QED
      BY <1>5, <2>3, <3>1
  <2>4. CASE Score(list[i]) # Score(list[j])
    <3>1. PICK x, y : x = Score(list[i]) /\ y = Score(list[j])
      OBVIOUS
    <3>2. x \in 0 .. 100 /\ y \in 0 .. 100 /\ x # y /\ 100 - x <= 100 - y
      BY <2>1, <2>2, <2>4, <3>1
    <3>3. x > y
      BY <3>2
    <3> QED
      BY <3>1, <3>3
  <2> QED
    BY <2>3, <2>4
<1>7. \E u \in units : \A j \in units : \/ Score(list[u]) > Score(list[j])
                                        \/ Score(list[u]) = Score(list[j]) /\ u <= j
  BY <1>6
<1> HIDE DEF S, T
<1> QED
  BY <1>7 DEF Evicted

\* What must stay in the request.
MustKeep(i) ==
  \/ Role(built[i]) = "system"
  \/ built[i].kind = "result" /\ built[i].n = Len(exchanges)
  \/ i = LastAnswer(built)
  \/ i = QuestionBefore(built, LastAnswer(built))

\* Positions of answers, and of what the user said before one.
LEMMA AnswerIs ==
  ASSUME NEW list, Coherent(list), NEW a, a = LastAnswer(list)
  PROVE  /\ (\E i \in DOMAIN list : list[i].kind = "answer") => a # 0
         /\ a # 0 => a \in DOMAIN list /\ list[a].kind = "answer"
                     /\ \A i \in DOMAIN list : list[i].kind = "answer" => i <= a
<1>1. PICK S : S = {i \in DOMAIN list : list[i].kind = "answer" /\ list[i].text > 0}
  OBVIOUS
<1>2. PICK m \in Nat : DOMAIN list = 1 .. m
  BY DEF Coherent
<1>3. S \subseteq 1 .. m
  BY <1>1, <1>2
<1>4. \A i \in DOMAIN list : list[i].kind = "answer" <=> i \in S
  BY <1>1 DEF Coherent
<1>5. a = LastOf(S)
  BY <1>1 DEF LastAnswer
<1>6. (S = {} => a = 0) /\ (S # {} => a \in S /\ \A x \in S : x <= a)
  BY <1>3, <1>5, LastOfIs
<1>7. 0 \notin S
  BY <1>3
<1> QED
  BY <1>2, <1>3, <1>4, <1>6, <1>7

LEMMA QuestionIs ==
  ASSUME NEW list, Coherent(list), NEW a \in DOMAIN list, list[a].kind = "answer",
         NEW q, q = QuestionBefore(list, a)
  PROVE  /\ (\E i \in DOMAIN list : i < a /\ list[i].kind = "question") => q # 0
         /\ q # 0 => q \in DOMAIN list /\ q < a /\ list[q].kind = "question"
                     /\ \A i \in DOMAIN list : i < a /\ list[i].kind = "question" => i <= q
<1>1. PICK S : S = {j \in DOMAIN list : j < a /\ Role(list[j]) = "user" /\ Category(list[j]) = "conversation"}
  OBVIOUS
<1>2. PICK m \in Nat : DOMAIN list = 1 .. m
  BY DEF Coherent
<1>3. S \subseteq 1 .. m
  BY <1>1, <1>2
<1>4. \A kind \in DOMAIN RoleOf :
        RoleOf[kind] = "user" /\ CategoryOf[kind] = "conversation" <=> kind \in {"question", "request"}
  BY DEF RoleOf, CategoryOf
<1>5. \A i \in DOMAIN list : i < a /\ list[i].kind = "question" <=> i \in S
  <2>1. \A i \in DOMAIN list : i < a => list[i].kind # "request"
    BY DEF Coherent
  <2>2. \A i \in DOMAIN list : list[i].kind \in DOMAIN RoleOf
    <3>1. list \in Seq(ContextMessages)
      BY DEF Coherent
    <3>2. \A i \in DOMAIN list : list[i] \in ContextMessages
      BY <3>1
    <3> QED
      BY <3>2, RoleIsTool
  <2> QED
    BY <1>1, <1>4, <2>1, <2>2 DEF Role, Category
<1>6. q = LastOf(S)
  BY <1>1 DEF QuestionBefore
<1>7. (S = {} => q = 0) /\ (S # {} => q \in S /\ \A x \in S : x <= q)
  BY <1>3, <1>6, LastOfIs
<1>8. 0 \notin S
  BY <1>3
<1> QED
  BY <1>2, <1>3, <1>5, <1>7, <1>8

\* What must stay is pinned.
LEMMA KeptIsPinned ==
  ASSUME ExchangesTyped, Sound(built), Sound(fitting), From(fitting, built),
         \A i \in DOMAIN built : MustKeep(i) => Kept(i),
         NEW i \in DOMAIN built, MustKeep(i)
  PROVE  \E w \in DOMAIN fitting :
            w \in Pinned(fitting) /\ fitting[w].kind = built[i].kind /\ fitting[w].n = built[i].n
<1>1. PICK b, f : b = built /\ f = fitting
  OBVIOUS
<1>2. Coherent(b) /\ Coherent(f) /\ b \in Seq(ContextMessages) /\ f \in Seq(ContextMessages)
  BY <1>1 DEF Sound, Coherent
<1>3. \A j \in DOMAIN b : MustKeep(j) =>
        \E w \in DOMAIN f : f[w].kind = b[j].kind /\ f[w].n = b[j].n
  BY <1>1 DEF Kept, InRequest
<1>4. \A j \in DOMAIN f : \E h \in DOMAIN b : b[h].kind = f[j].kind /\ b[h].n = f[j].n
  BY <1>1 DEF From
<1>5. \A j \in DOMAIN b : b[j].kind \in DOMAIN RoleOf /\ b[j].n \in Nat /\ j \in Nat
  <2>1. \A j \in DOMAIN b : b[j] \in ContextMessages /\ j \in Nat
    BY <1>2
  <2> QED
    BY <2>1, RoleIsTool
<1>6. \A j \in DOMAIN f : f[j].kind \in DOMAIN RoleOf /\ f[j].n \in Nat /\ j \in Nat
                          /\ (Role(f[j]) = "tool" <=> f[j].kind = "result")
  <2>1. \A j \in DOMAIN f : f[j] \in ContextMessages /\ j \in Nat
    BY <1>2
  <2> QED
    BY <2>1, RoleIsTool
<1>7. PICK u \in DOMAIN f : f[u].kind = b[i].kind /\ f[u].n = b[i].n
  BY <1>1, <1>3
<1>8. CASE Role(b[i]) = "system"
  <2>1. Role(f[u]) = "system"
    BY <1>7, <1>8 DEF Role
  <2>2. u \in Pinned(f)
    BY <2>1 DEF Pinned
  <2> QED
    BY <1>1, <1>7, <2>2
<1>9. CASE b[i].kind = "result" /\ b[i].n = Len(exchanges)
  <2>1. PICK T, t : T = {j \in DOMAIN f : Role(f[j]) = "tool"} /\ t = LastWithRole(f, "tool")
    OBVIOUS
  <2>2. t \in T /\ \A x \in T : x <= t
    <3>1. u \in T
      BY <1>6, <1>7, <1>9, <2>1
    <3>2. PICK m \in Nat : DOMAIN f = 1 .. m
      BY <1>2
    <3>3. T \subseteq 1 .. m /\ T # {}
      BY <2>1, <3>1, <3>2
    <3>4. t = LastOf(T)
      BY <2>1 DEF LastWithRole
    <3> QED
      BY <3>3, <3>4, LastOfIs
  <2>3. t \in DOMAIN f /\ f[t].kind = "result" /\ u <= t
    BY <1>6, <1>7, <1>9, <2>1, <2>2
  <2>4. f[t].n = Len(exchanges)
    <3>1. PICK K : HasExchanges(f, K)
      BY <1>1 DEF Sound
    <3>2. f[t].n \in DOMAIN exchanges
      BY <2>3, <3>1 DEF HasExchanges
    <3>3. u < t => f[u].n <= f[t].n
      BY <1>7, <1>9, <2>3, <3>1 DEF HasExchanges
    <3>4. u = t \/ u < t
      BY <1>6, <2>3
    <3>5. Len(exchanges) <= f[t].n
      BY <1>6, <1>7, <1>9, <2>3, <3>3, <3>4
    <3> QED
      BY <3>2, <3>5, ExchangeFields
  <2>5. t \in LatestExchange(f)
    <3>1. t \in 1 .. t /\ (t + 1) .. t = {}
      <4>1. t \in Nat /\ t # 0
        BY <1>2, <2>3
      <4> QED
        BY <4>1
    <3> QED
      BY <2>1, <3>1 DEF LatestExchange
  <2>6. t \in Pinned(f)
    BY <2>5 DEF Pinned
  <2> QED
    BY <1>1, <1>9, <2>3, <2>4, <2>6
<1>10. PICK a, l : a = LastAnswer(b) /\ l = LastAnswer(f)
  OBVIOUS
\* The last answer of the list is the last one there was.
<1>11. ASSUME a \in DOMAIN b
       PROVE  /\ b[a].kind = "answer" /\ l \in DOMAIN f /\ l # 0 /\ f[l].kind = "answer" /\ f[l].n = b[a].n
  <2>1. a # 0
    BY <1>2, <1>11
  <2>2. b[a].kind = "answer" /\ \A j \in DOMAIN b : b[j].kind = "answer" => j <= a
    BY <1>2, <1>10, <2>1, AnswerIs
  <2>3. MustKeep(a)
    BY <1>1, <1>10 DEF MustKeep
  <2>4. PICK w \in DOMAIN f : f[w].kind = "answer" /\ f[w].n = b[a].n
    BY <1>3, <1>11, <2>2, <2>3
  <2>5. l # 0
    BY <1>2, <1>10, <2>4, AnswerIs
  <2>6. l \in DOMAIN f /\ f[l].kind = "answer" /\ w <= l
    BY <1>2, <1>10, <2>4, <2>5, AnswerIs
  <2>7. PICK h \in DOMAIN b : b[h].kind = "answer" /\ b[h].n = f[l].n
    BY <1>4, <2>6
  <2>8. h <= a
    BY <2>2, <2>7
  <2>9. h = a \/ b[h].n < b[a].n
    BY <1>2, <1>5, <1>11, <2>2, <2>7, <2>8 DEF Coherent
  <2>10. w = l \/ f[w].n < f[l].n
    BY <1>2, <1>6, <2>4, <2>6 DEF Coherent
  <2>11. b[a].n \in Nat /\ f[l].n \in Nat
    BY <1>5, <1>6, <1>11, <2>6
  <2>12. f[l].n = b[a].n
    BY <2>4, <2>7, <2>9, <2>10, <2>11
  <2> QED
    BY <2>2, <2>5, <2>6, <2>12
<1>12. CASE i = a
  <2>1. l \in Pinned(f)
    BY <1>1, <1>10, <1>11, <1>12 DEF Pinned
  <2> QED
    BY <1>1, <1>11, <1>12, <2>1
<1>13. CASE i = QuestionBefore(b, a)
  <2>1. a \in DOMAIN b
    <3>1. CASE a = 0
      <4>1. \A j \in DOMAIN b : ~(j < 0)
        BY <1>2
      <4>2. {j \in DOMAIN b : j < a /\ Role(b[j]) = "user" /\ Category(b[j]) = "conversation"} = {}
        BY <3>1, <4>1
      <4>3. i = 0
        BY <1>13, <4>2, LastOfIs, 0 \in Nat, {} \subseteq 1 .. 0 DEF QuestionBefore
      <4> QED
        BY <1>1, <1>2, <4>3
    <3>2. CASE a # 0
      BY <1>2, <1>10, <3>2, AnswerIs
    <3> QED
      BY <3>1, <3>2
  <2>2. b[a].kind = "answer" /\ l \in DOMAIN f /\ f[l].kind = "answer" /\ f[l].n = b[a].n
    BY <1>11, <2>1
  <2>3. i # 0
    BY <1>1, <1>2
  <2>4. i < a /\ b[i].kind = "question" /\ \A j \in DOMAIN b : j < a /\ b[j].kind = "question" => j <= i
    BY <1>2, <1>13, <2>1, <2>2, <2>3, QuestionIs
  <2>5. b[i].n < b[a].n
    BY <1>1, <1>2, <2>1, <2>2, <2>4 DEF Coherent
  <2>6. u < l
    <3>1. u # l
      BY <1>7, <2>2, <2>4
    <3>2. l < u => f[l].n < f[u].n
      BY <1>2, <1>7, <2>2, <2>4 DEF Coherent
    <3>3. u \in Nat /\ l \in Nat /\ f[u].n \in Nat /\ f[l].n \in Nat
      BY <1>6, <1>7, <2>2
    <3>4. ~(f[l].n < f[u].n)
      BY <1>7, <2>2, <2>5, <3>3
    <3> QED
      BY <3>1, <3>2, <3>3, <3>4
  <2>7. PICK q : q = QuestionBefore(f, l)
    OBVIOUS
  <2>8. q # 0
    BY <1>2, <1>7, <2>2, <2>4, <2>6, <2>7, QuestionIs
  <2>9. q \in DOMAIN f /\ q < l /\ f[q].kind = "question" /\ u <= q
    BY <1>2, <1>7, <2>2, <2>4, <2>6, <2>7, <2>8, QuestionIs
  <2>10. PICK h \in DOMAIN b : b[h].kind = "question" /\ b[h].n = f[q].n
    BY <1>4, <2>9
  <2>11. f[q].n < f[l].n
    BY <1>2, <2>2, <2>9 DEF Coherent
  <2>12. h < a
    <3>1. h # a
      BY <2>2, <2>10
    <3>2. a < h => b[a].n < b[h].n
      BY <1>2, <2>1, <2>2, <2>10 DEF Coherent
    <3>3. a \in Nat /\ h \in Nat /\ b[a].n \in Nat /\ b[h].n \in Nat
      BY <1>5, <2>1
    <3>4. b[h].n < b[a].n
      BY <2>2, <2>10, <2>11
    <3>5. ~(b[a].n < b[h].n)
      BY <3>3, <3>4
    <3> QED
      BY <3>1, <3>2, <3>3, <3>5
  <2>13. h <= i
    BY <2>4, <2>10, <2>12
  <2>14. h = i \/ b[h].n < b[i].n
    BY <1>1, <1>2, <1>5, <2>4, <2>10, <2>13 DEF Coherent
  <2>15. u = q \/ f[u].n < f[q].n
    BY <1>2, <1>6, <1>7, <2>4, <2>9 DEF Coherent
  <2>16. b[i].n \in Nat /\ f[q].n \in Nat
    BY <1>1, <1>5, <1>6, <2>9
  <2>17. f[q].n = b[i].n
    BY <1>7, <2>10, <2>14, <2>15, <2>16
  <2>18. q \in Pinned(f)
    BY <1>10, <2>7, <2>8 DEF Pinned
  <2> QED
    BY <1>1, <2>4, <2>9, <2>17, <2>18
<1> QED
  BY <1>1, <1>8, <1>9, <1>10, <1>12, <1>13 DEF MustKeep

\* The request is what is left of the messages that were built, in their order and with
\* whole exchanges, and what must stay is in it.
RequestInv ==
  /\ window \in Nat /\ opening \in Openings /\ ExchangesTyped
  /\ requested # "idle" =>
       /\ Sound(built) /\ Sound(fitting) /\ From(fitting, built)
       /\ \A i \in DOMAIN built : MustKeep(i) => Kept(i)
  /\ requested = "sent" => Excess(fitting) = 0

\* A list does not become unsound by itself.
LEMMA SoundStays ==
  ASSUME exchanges' = exchanges, NEW r, Sound(r)
  PROVE  (fitting' = r => Sound(fitting)') /\ (built' = r => Sound(built)')
<1>1. PICK K : HasExchanges(r, K)
  BY DEF Sound
<1>2. Coherent(r)
  BY DEF Sound
<1>4. ASSUME fitting' = r
      PROVE  Sound(fitting)'
  <2>1. HasExchanges(fitting, K)'
    BY <1>1, <1>4 DEF HasExchanges, IsAt
  <2>2. Coherent(fitting)'
    BY <1>2, <1>4 DEF Coherent
  <2> QED
    BY <2>1, <2>2 DEF Sound
<1>5. ASSUME built' = r
      PROVE  Sound(built)'
  <2>1. HasExchanges(built, K)'
    BY <1>1, <1>5 DEF HasExchanges, IsAt
  <2>2. Coherent(built)'
    BY <1>2, <1>5 DEF Coherent
  <2> QED
    BY <2>1, <2>2 DEF Sound
<1> QED
  BY <1>4, <1>5

\* A request is changed: it stays sound, has nothing new and still has what is pinned.
LEMMA FittingStep ==
  ASSUME RequestInv, requested = "fitting", UNCHANGED <<window, opening, exchanges, requested, built>>,
         NEW r, fitting' = r, Sound(r), From(r, fitting),
         \A w \in DOMAIN fitting : w \in Pinned(fitting) =>
            \E x \in DOMAIN r : r[x].kind = fitting[w].kind /\ r[x].n = fitting[w].n
  PROVE  RequestInv'
<1>1. /\ window' \in Nat /\ opening' \in Openings /\ ExchangesTyped'
  BY DEF RequestInv, ExchangesTyped
<1>2. Sound(built) /\ Sound(fitting) /\ From(fitting, built) /\ \A i \in DOMAIN built : MustKeep(i) => Kept(i)
  BY DEF RequestInv
<1>3. PICK f : f = fitting
  OBVIOUS
<1>4. From(r, built)
  BY <1>2 DEF From
<1>5. ASSUME NEW i \in DOMAIN built', MustKeep(i)'
      PROVE  Kept(i)'
  <2>1. MustKeep(i) /\ i \in DOMAIN built
    BY <1>5 DEF MustKeep
  <2>2. PICK w \in DOMAIN fitting :
          w \in Pinned(fitting) /\ fitting[w].kind = built[i].kind /\ fitting[w].n = built[i].n
    BY <1>2, <2>1, KeptIsPinned DEF RequestInv
  <2>3. PICK x \in DOMAIN r : r[x].kind = built[i].kind /\ r[x].n = built[i].n
    BY <2>2
  <2> QED
    BY <2>3 DEF Kept, InRequest
<1>6. Sound(built)' /\ Sound(fitting)' /\ From(fitting, built)'
  <2>1. PICK b : b = built
    OBVIOUS
  <2>2. Sound(fitting)'
    BY SoundStays
  <2>3. Sound(built)'
    BY <1>2, <2>1, SoundStays
  <2>4. From(fitting, built)'
    BY <1>4 DEF From
  <2> QED
    BY <2>2, <2>3, <2>4
<1> QED
  BY <1>1, <1>5, <1>6 DEF RequestInv

\* What does not touch the request.
LEMMA RequestStays ==
  ASSUME RequestInv, UNCHANGED <<window, opening, exchanges, built, fitting>>,
         requested # "idle" \/ requested' = "idle",
         requested' = "sent" => requested = "sent" \/ Excess(fitting) = 0
  PROVE  RequestInv'
<1>1. window' \in Nat /\ opening' \in Openings /\ ExchangesTyped'
  BY DEF RequestInv, ExchangesTyped
<1>2. requested' = "sent" => (Excess(fitting) = 0)'
  BY DEF RequestInv, Excess
<1>3. ASSUME requested' # "idle"
      PROVE  /\ Sound(built)' /\ Sound(fitting)' /\ From(fitting, built)'
             /\ \A i \in DOMAIN built' : MustKeep(i)' => Kept(i)'
  <2>1. /\ Sound(built) /\ Sound(fitting) /\ From(fitting, built)
        /\ \A i \in DOMAIN built : MustKeep(i) => Kept(i)
    BY <1>3 DEF RequestInv
  <2>2. \A i : (MustKeep(i)' <=> MustKeep(i)) /\ (Kept(i)' <=> Kept(i))
    BY DEF MustKeep, Kept, InRequest
  <2>3. PICK b, f : b = built /\ f = fitting
    OBVIOUS
  <2>4. Sound(b) /\ Sound(f) /\ built' = b /\ fitting' = f
    BY <2>1, <2>3
  <2>5. Sound(built)' /\ Sound(fitting)'
    BY <2>4, SoundStays
  <2>6. From(fitting, built)'
    BY <2>1 DEF From
  <2> QED
    BY <2>1, <2>2, <2>5, <2>6
<1> QED
  BY <1>1, <1>2, <1>3 DEF RequestInv

LEMMA ExcessIs ==
  ASSUME NEW list \in Seq(ContextMessages), window \in Nat
  PROVE  Excess(list) \in Nat /\ (Excess(list) = 0 => Tokens(list) <= window)
<1>1. PICK t : t = Tokens(list)
  OBVIOUS
<1>2. t \in Nat
  BY <1>1, TokensAreNat
<1>3. Excess(list) = IF t > window THEN t - window ELSE 0
  BY <1>1 DEF Excess
<1> QED
  BY <1>1, <1>2, <1>3

LEMMA BuildStep ==
  ASSUME ContextAssumption, RequestInv, BuildRequest
  PROVE  RequestInv'
<1>1. PICK r : r = opening \o AfterTools
  OBVIOUS
<1>2. Sound(r)
  BY <1>1, BuiltIsSound DEF RequestInv
<1>3. built' = r /\ fitting' = r /\ requested' = "fitting" /\ UNCHANGED <<window, opening, exchanges>>
  BY <1>1 DEF BuildRequest
<1>4. window' \in Nat /\ opening' \in Openings /\ ExchangesTyped'
  BY <1>3 DEF RequestInv, ExchangesTyped
<1>5. From(fitting, built)'
  BY <1>3 DEF From
<1>6. \A i \in DOMAIN built' : Kept(i)'
  BY <1>3 DEF Kept, InRequest
<1>7. Sound(built)' /\ Sound(fitting)'
  BY <1>2, <1>3, SoundStays
<1> QED
  BY <1>3, <1>4, <1>5, <1>6, <1>7 DEF RequestInv

LEMMA EvictStep ==
  ASSUME RequestInv, EvictUnit
  PROVE  RequestInv'
<1>1. PICK f, units : f = fitting /\ units = Evictable(fitting)
  OBVIOUS
<1>2. PICK i, unit : i = Evicted(f, units) /\ unit = UnitOf(f, i)
  OBVIOUS
<1>3. PICK r : r = SubSeq(f, 1, Min(unit) - 1) \o SubSeq(f, Max(unit) + 1, Len(f))
  OBVIOUS
<1>4. /\ requested = "fitting" /\ units # {} /\ fitting' = r
      /\ UNCHANGED <<window, opening, exchanges, requested, built>>
  BY <1>1, <1>2, <1>3 DEF EvictUnit
<1>5. Sound(f) /\ f \in Seq(ContextMessages) /\ ExchangesTyped
  BY <1>1, <1>4 DEF RequestInv, Sound, Coherent
<1>6. units = {j \in Starts(f) : UnitOf(f, j) \cap Pinned(f) = {}}
  BY <1>1 DEF Evictable
<1>7. i \in units
  <2>1. units \subseteq DOMAIN f
    BY <1>6 DEF Starts
  <2> QED
    BY <1>2, <1>4, <1>5, <2>1, EvictedIs
<1>8. i \in Starts(f) /\ unit \cap Pinned(f) = {}
  BY <1>2, <1>6, <1>7
<1>9. PICK e \in i .. Len(f) :
           /\ unit = i .. e /\ Min(unit) = i /\ Max(unit) = e
           /\ \A j \in (i + 1) .. e : Role(f[j]) = "tool"
           /\ e < Len(f) => Role(f[e + 1]) # "tool"
  BY <1>2, <1>5, <1>8, UnitIs
<1>10. IsWithout(r, f, i, e)
  BY <1>3, <1>9 DEF IsWithout
<1>11. Sound(r) /\ From(r, f)
  BY <1>5, <1>8, <1>9, <1>10, CutIsSound
<1>12. ASSUME NEW w \in DOMAIN f, w \in Pinned(f)
       PROVE  \E x \in DOMAIN r : r[x].kind = f[w].kind /\ r[x].n = f[w].n
  <2>1. PICK m, d : m = Len(f) /\ d = e + 1 - i
    OBVIOUS
  <2>2. i \in DOMAIN f /\ DOMAIN f = 1 .. m /\ m \in Nat
    BY <1>5, <1>8, <2>1 DEF Starts
  <2>3. /\ DOMAIN r = 1 .. (m - d)
        /\ \A j \in DOMAIN r : r[j] = f[IF j < i THEN j ELSE j + d]
    <3>1. PICK l : l = f
      OBVIOUS
    <3>2. l \in Seq(ContextMessages) /\ i \in DOMAIN l /\ e \in i .. Len(l) /\ IsWithout(r, l, i, e)
      BY <1>5, <1>9, <1>10, <2>2, <3>1
    <3>3. DOMAIN r = 1 .. (Len(l) - d) /\ \A j \in DOMAIN r : r[j] = l[IF j < i THEN j ELSE j + d]
      BY <2>1, <3>2, WithoutIs
    <3> QED
      BY <2>1, <3>1, <3>3
  <2>4. w \notin i .. e
    BY <1>8, <1>9, <1>12
  <2>5. /\ i \in Nat /\ e \in Nat /\ w \in Nat /\ d \in Nat /\ i <= e /\ e <= m /\ 1 <= i /\ 1 <= w /\ w <= m
        /\ i + d = e + 1
    BY <1>9, <2>1, <2>2
  <2>6. CASE w < i
    <3>1. w \in 1 .. (m - d)
      BY <2>2, <2>5, <2>6
    <3>2. r[w] = f[w]
      BY <2>3, <2>6, <3>1
    <3> QED
      BY <2>3, <3>1, <3>2
  <2>7. CASE ~(w < i)
    <3>1. PICK x : x = w - d
      OBVIOUS
    <3>2. w > e
      BY <2>4, <2>5, <2>7
    <3>3. x \in 1 .. (m - d) /\ ~(x < i) /\ x + d = w
      BY <2>2, <2>5, <3>1, <3>2
    <3>4. r[x] = f[w]
      BY <2>3, <3>3
    <3> QED
      BY <2>3, <3>3, <3>4
  <2> QED
    BY <2>6, <2>7
<1> QED
  BY <1>1, <1>4, <1>11, <1>12, FittingStep

LEMMA ShortenStep ==
  ASSUME RequestInv, ShortenMessage
  PROVE  RequestInv'
<1>1. PICK f, S, x : f = fitting /\ S = Shortenable(fitting) /\ x = Excess(fitting)
  OBVIOUS
<1>2. PICK i : i = Min(S)
  OBVIOUS
<1>3. /\ requested = "fitting" /\ S # {}
      /\ UNCHANGED <<window, opening, exchanges, requested, built>>
      /\ fitting' = [f EXCEPT ![i].text = IF @ > x + 1 THEN @ - x ELSE 1]
  BY <1>1, <1>2 DEF ShortenMessage
<1>4. Sound(f) /\ f \in Seq(ContextMessages) /\ window \in Nat
  BY <1>1, <1>3 DEF RequestInv, Sound, Coherent
<1>5. x \in Nat
  BY <1>1, <1>4, ExcessIs
<1>6. S \subseteq DOMAIN f
  BY <1>1 DEF Shortenable
<1>7. i \in DOMAIN f
  <2>1. S \subseteq Nat
    BY <1>4, <1>6
  <2> QED
    BY <1>2, <1>3, <1>6, <2>1, FirstIs
<1>8. PICK m : m = f[i]
  OBVIOUS
<1>9. m \in ContextMessages
  BY <1>4, <1>7, <1>8
<1>10. PICK t : t = IF m.text > x + 1 THEN m.text - x ELSE 1
  OBVIOUS
<1>11. m.text \in Nat
  BY <1>9, RoleIsTool
<1>12. t \in Nat /\ t > 0
  BY <1>5, <1>10, <1>11
<1>13. PICK o : o = [m EXCEPT !.text = t]
  OBVIOUS
<1>14. o \in ContextMessages /\ o.kind = m.kind /\ o.n = m.n /\ o.text = t
  BY <1>9, <1>12, <1>13 DEF ContextMessages
<1>15. PICK r : r = [f EXCEPT ![i] = o]
  OBVIOUS
<1>16. fitting' = r
  BY <1>3, <1>7, <1>8, <1>10, <1>13, <1>15
<1>17. r \in Seq(ContextMessages) /\ DOMAIN r = DOMAIN f
  <2>1. \A j \in DOMAIN f : f[j] \in ContextMessages
    BY <1>4
  <2>2. PICK l \in Nat : DOMAIN f = 1 .. l
    BY <1>4
  <2>3. DOMAIN r = 1 .. l /\ r = [j \in 1 .. l |-> r[j]] /\ \A j \in 1 .. l : r[j] = IF j = i THEN o ELSE f[j]
    BY <1>15, <2>2
  <2>4. \A j \in 1 .. l : r[j] \in ContextMessages
    BY <1>14, <2>1, <2>2, <2>3
  <2> QED
    BY <2>2, <2>3, <2>4, ListOf
<1>18. \A j \in DOMAIN r :
         r[j].kind = f[j].kind /\ r[j].n = f[j].n /\ (f[j].text > 0 => r[j].text > 0)
  <2>1. \A j \in DOMAIN f : r[j] = IF j = i THEN o ELSE f[j]
    BY <1>15
  <2> QED
    BY <1>8, <1>12, <1>14, <1>17, <2>1
<1>19. Sound(r) /\ From(r, f)
  BY <1>4, <1>17, <1>18, SameIsSound
<1> QED
  BY <1>1, <1>3, <1>16, <1>17, <1>18, <1>19, FittingStep

LEMMA CallsStep ==
  ASSUME RequestInv, CallsTools
  PROVE  RequestInv'
<1>1. PICK returned \in 1 .. 2, size \in Sizes, images \in BOOLEAN :
        exchanges' = Append(exchanges, [results |-> returned, size |-> size, images |-> images])
  BY DEF CallsTools
<1>2. requested' = "idle" /\ UNCHANGED <<window, opening>>
  BY DEF CallsTools
<1>3. ExchangesTyped'
  <2>1. PICK S, x : S = [results : 1 .. 2, size : Sizes, images : BOOLEAN]
                    /\ x = [results |-> returned, size |-> size, images |-> images]
    OBVIOUS
  <2>2. x \in S
    BY <2>1
  <2>3. exchanges \in Seq(S) /\ exchanges' = Append(exchanges, x)
    BY <1>1, <2>1 DEF RequestInv, ExchangesTyped
  <2>4. exchanges' \in Seq(S)
    BY <2>2, <2>3
  <2> QED
    BY <2>1, <2>4 DEF ExchangesTyped
<1> QED
  BY <1>2, <1>3 DEF RequestInv

LEMMA RequestStep ==
  ASSUME ContextAssumption, RequestInv, ContextNext
  PROVE  RequestInv'
<1>1. CASE BuildRequest
  BY <1>1, BuildStep
<1>2. CASE EvictUnit
  BY <1>2, EvictStep
<1>3. CASE ShortenMessage
  BY <1>3, ShortenStep
<1>4. CASE SendToModel
  BY <1>4, RequestStays DEF SendToModel
<1>5. CASE RefuseContext
  BY <1>5, RequestStays DEF RefuseContext
<1>6. CASE CallsTools
  BY <1>6, CallsStep
<1>7. CASE RepeatsItself
  BY <1>7 DEF RepeatsItself, RequestInv, ExchangesTyped
<1>8. CASE Answers
  BY <1>8, RequestStays DEF Answers
<1> QED
  BY <1>1, <1>2, <1>3, <1>4, <1>5, <1>6, <1>7, <1>8 DEF ContextNext

\* An exchange of a sound list is whole.
LEMMA ExchangesAreWhole ==
  ASSUME ExchangesTyped, Sound(fitting), NEW k \in DOMAIN exchanges
  PROVE  ExchangeIsWhole(k)
<1>1. PICK K : HasExchanges(fitting, K)
  BY DEF Sound
<1>2. PICK c, s, n : c = InRequest("calls", k) /\ s = InRequest("result", k) /\ n = exchanges[k].results
  OBVIOUS
<1>3. /\ c = {i \in DOMAIN fitting : fitting[i].kind = "calls" /\ fitting[i].n = k}
      /\ s = {i \in DOMAIN fitting : fitting[i].kind = "result" /\ fitting[i].n = k}
  BY <1>2 DEF InRequest
<1>4. n \in Nat
  BY <1>2, ExchangeFields
<1>5. CASE k \notin K
  <2>1. c = {} /\ s = {}
    BY <1>1, <1>3, <1>5 DEF HasExchanges
  <2> QED
    BY <1>2, <2>1 DEF ExchangeIsWhole
<1>6. CASE k \in K
  <2>1. PICK p \in DOMAIN fitting : IsAt(fitting, k, p)
    BY <1>1, <1>6 DEF HasExchanges
  <2>2. PICK m \in Nat : DOMAIN fitting = 1 .. m
    BY DEF Sound, Coherent
  <2>3. p \in 1 .. m /\ p + n \in 1 .. m
    BY <1>2, <2>1, <2>2 DEF IsAt
  <2>4. c = {p}
    BY <1>3, <2>1 DEF IsAt
  <2>5. s = (p + 1) .. (p + n)
    <3>1. \A i \in (p + 1) .. (p + n) : i \in 1 .. m
      BY <1>4, <2>3
    <3> QED
      BY <1>2, <1>3, <2>1, <2>2, <3>1 DEF IsAt
  <2>6. Cardinality(c) = 1
    BY <2>4, FS_Singleton
  <2>7. Cardinality(s) = n
    <3>1. p + 1 \in Int /\ p + n \in Int
      BY <1>4, <2>3
    <3>2. Cardinality((p + 1) .. (p + n)) = IF p + 1 > p + n THEN 0 ELSE (p + n) - (p + 1) + 1
      BY <3>1, FS_Interval
    <3> QED
      BY <1>4, <2>3, <2>5, <3>2
  <2>8. \A i \in c : s = (i + 1) .. (i + n)
    BY <2>4, <2>5
  <2> QED
    BY <1>2, <2>6, <2>7, <2>8 DEF ExchangeIsWhole
<1> QED
  BY <1>5, <1>6

\* A request that is sent fits into the window; every exchange in it is whole, and the
\* trusted instructions, the latest exchange and the previous turn are in it.
THEOREM RequestsAreSound == ASSUME ContextAssumption PROVE ContextSpec => []RequestIsSound
<1>1. ContextInit => RequestInv
  <2> SUFFICES ASSUME ContextInit PROVE RequestInv
    OBVIOUS
  <2>1. ExchangesTyped
    BY DEF ContextInit, ExchangesTyped
  <2>2. window \in Nat
    BY DEF ContextInit, ContextAssumption
  <2> QED
    BY <2>1, <2>2 DEF ContextInit, RequestInv
<1>2. RequestInv /\ [ContextNext]_contextVars => RequestInv'
  <2> SUFFICES ASSUME RequestInv, [ContextNext]_contextVars PROVE RequestInv'
    OBVIOUS
  <2>1. CASE ContextNext
    BY <2>1, RequestStep
  <2>2. CASE UNCHANGED contextVars
    BY <2>2, RequestStays DEF contextVars
  <2> QED
    BY <2>1, <2>2
<1>3. RequestInv => RequestIsSound
  <2> SUFFICES ASSUME RequestInv, requested = "sent"
               PROVE  /\ Tokens(fitting) <= window
                      /\ \A k \in DOMAIN exchanges : ExchangeIsWhole(k)
                      /\ \A i \in DOMAIN built : MustKeep(i) => Kept(i)
    BY DEF RequestIsSound, MustKeep
  <2>1. Sound(fitting) /\ fitting \in Seq(ContextMessages) /\ ExchangesTyped /\ Excess(fitting) = 0
    BY DEF RequestInv, Sound, Coherent
  <2>2. Tokens(fitting) <= window
    BY <2>1, ExcessIs DEF RequestInv
  <2>3. \A k \in DOMAIN exchanges : ExchangeIsWhole(k)
    BY <2>1, ExchangesAreWhole
  <2> QED
    BY <2>2, <2>3 DEF RequestInv
<1> QED
  BY <1>1, <1>2, <1>3, PTL DEF ContextSpec
=============================================================================
