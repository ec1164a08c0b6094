---------------------------- MODULE ToolPathProofs ----------------------------
(***************************************************************************)
(* Theorems about ToolPath for every value of its constants: any number of *)
(* calls, connections, navigations and restarts.                           *)
(***************************************************************************)
EXTENDS ToolPath, FiniteSetTheorems, SequenceLemmas, TLAPS

Sockets == 1 .. MaxSockets

\* What the daemon sends, for the documents D that its grants name.
Messages(D) == [type : {"call"}, call : Calls, doc : D]
                 \cup [type : {"cancel"}, call : Calls] \cup [type : {"welcome"}]

Hops == {"new", "authorized", "signing", "sent", "settled"}
Works == {"none", "verifying", "queued", "running", "done", "lost"}

WiresTyped(D) == toExecutor \in [Sockets -> Seq(Messages(D))]

\* The documents are whatever the extension has reported.
DocsTyped == \E D : known \in D /\ granted \in [Calls -> D] /\ WiresTyped(D)

Typed ==
  /\ hop \in [Calls -> Hops]
  /\ route \in [Calls -> Sockets \cup {NoSocket}]
  /\ current \in Sockets \cup {NoSocket}
  /\ work \in [Calls -> Works]
  /\ DOMAIN bound = Calls /\ DOMAIN grantDoc = Calls /\ DOMAIN checkedOn = Calls
  /\ tail \in Seq(Calls)
  /\ sock \in Sockets \cup {NoSocket} /\ dialed \in Nat
  /\ DocsTyped

PathInv == Typed /\ CallInv

-----------------------------------------------------------------------------
(* The messages to the extension *)

\* More documents allow no fewer messages.
LEMMA MoreDocs ==
  ASSUME NEW D, NEW E, D \subseteq E, NEW q \in Seq(Messages(D))
  PROVE  q \in Seq(Messages(E))
<1>1. Messages(D) \subseteq Messages(E)
  BY DEF Messages
<1>2. \A i \in 1 .. Len(q) : q[i] \in Messages(E)
  BY <1>1
<1> QED
  BY <1>2

\* No two calls on the wires are the same.
CallsApart ==
  \A s, t \in Sockets : \A i \in DOMAIN toExecutor[s], j \in DOMAIN toExecutor[t] :
    IsCall(s, i) /\ IsCall(t, j) /\ toExecutor[s][i].call = toExecutor[t][j].call
      => s = t /\ i = j

\* Each call on the wires was there before.
NoNewCalls ==
  \A s \in Sockets : \A i \in DOMAIN toExecutor'[s] : IsCall(s, i)' =>
    \E j \in DOMAIN toExecutor[s] : toExecutor'[s][i] = toExecutor[s][j]

\* A message joins a wire.
Adds(s, m) == toExecutor' = [toExecutor EXCEPT ![s] = Append(@, m)]

\* It is not a call that is on the wires already.
Unsent(m) ==
  m.type = "call" => \A t \in Sockets : \A i \in DOMAIN toExecutor[t] :
                       IsCall(t, i) => toExecutor[t][i].call # m.call

\* The other messages stay.
OnlyAdds(m) ==
  \A t \in Sockets : \A i \in DOMAIN toExecutor'[t] :
    \/ toExecutor'[t][i] = m
    \/ \E j \in DOMAIN toExecutor[t] : toExecutor'[t][i] = toExecutor[t][j]

\* A message other than a call, or the call of a request that was not sent yet,
\* joins a wire.
LEMMA Appended ==
  ASSUME NEW D, WiresTyped(D), CallsApart, NEW s \in Sockets, NEW m \in Messages(D),
         Adds(s, m), Unsent(m)
  PROVE  WiresTyped(D)' /\ CallsApart' /\ OnlyAdds(m)
<1> USE DEF WiresTyped, Adds, Unsent, OnlyAdds
<1>1. /\ toExecutor'[s] = Append(toExecutor[s], m) /\ toExecutor[s] \in Seq(Messages(D))
      /\ \A t \in Sockets : t # s => toExecutor'[t] = toExecutor[t]
  OBVIOUS
<1>2. toExecutor' \in [Sockets -> Seq(Messages(D))]
  BY <1>1
<1> DEFINE n == Len(toExecutor[s]) + 1
<1>3. \A i \in DOMAIN toExecutor'[s] :
        \/ i = n /\ toExecutor'[s][i] = m
        \/ i \in DOMAIN toExecutor[s] /\ toExecutor'[s][i] = toExecutor[s][i]
  <2>1. DOMAIN toExecutor[s] = 1 .. Len(toExecutor[s]) /\ Len(toExecutor[s]) \in Nat
    BY <1>1
  <2>2. DOMAIN toExecutor'[s] = 1 .. n
    BY <1>1, <2>1
  <2>3. toExecutor'[s][n] = m
    BY <1>1, <2>1
  <2>4. \A i \in 1 .. Len(toExecutor[s]) : toExecutor'[s][i] = toExecutor[s][i]
    BY <1>1, <2>1
  <2> QED
    BY <2>1, <2>2, <2>3, <2>4
<1> HIDE DEF n
<1>4. \A t \in Sockets : \A i \in DOMAIN toExecutor'[t] :
        \/ t = s /\ i = n /\ toExecutor'[t][i] = m
        \/ i \in DOMAIN toExecutor[t] /\ toExecutor'[t][i] = toExecutor[t][i]
  BY <1>1, <1>3
<1>5. CallsApart'
  BY <1>4 DEF CallsApart, IsCall
<1> QED
  BY <1>2, <1>4, <1>5

\* The first message of a wire is taken.
LEMMA Taken ==
  ASSUME NEW D, WiresTyped(D), CallsApart,
         NEW s \in Sockets, toExecutor[s] # <<>>,
         toExecutor' = [toExecutor EXCEPT ![s] = Tail(@)]
  PROVE  /\ WiresTyped(D)'
         /\ Head(toExecutor[s]) \in Messages(D)
         /\ 1 \in DOMAIN toExecutor[s] /\ Head(toExecutor[s]) = toExecutor[s][1]
         /\ CallsApart' /\ NoNewCalls
         /\ Head(toExecutor[s]).type = "call" =>
              \A t \in Sockets : \A i \in DOMAIN toExecutor'[t] :
                IsCall(t, i)' => toExecutor'[t][i].call # Head(toExecutor[s]).call
<1> USE DEF WiresTyped
<1>1. /\ toExecutor'[s] = Tail(toExecutor[s]) /\ toExecutor[s] \in Seq(Messages(D))
      /\ \A t \in Sockets : t # s => toExecutor'[t] = toExecutor[t]
  OBVIOUS
<1>2. /\ toExecutor' \in [Sockets -> Seq(Messages(D))]
      /\ Head(toExecutor[s]) \in Messages(D)
  BY <1>1
<1>3. 1 \in DOMAIN toExecutor[s] /\ Head(toExecutor[s]) = toExecutor[s][1]
  BY <1>1
<1>4. \A i \in DOMAIN toExecutor'[s] :
        /\ i \in Nat \ {0}
        /\ i + 1 \in DOMAIN toExecutor[s] /\ toExecutor'[s][i] = toExecutor[s][i + 1]
  BY <1>1
<1>5. ASSUME NEW t \in Sockets, NEW u \in Sockets,
             NEW i \in DOMAIN toExecutor'[t], NEW j \in DOMAIN toExecutor'[u],
             IsCall(t, i)', IsCall(u, j)', toExecutor'[t][i].call = toExecutor'[u][j].call
      PROVE  t = u /\ i = j
  <2>1. CASE t = s /\ u = s
    <3>1. i + 1 = j + 1
      BY <1>4, <1>5, <2>1 DEF CallsApart, IsCall
    <3> QED
      BY <1>4, <2>1, <3>1
  <2>2. CASE t = s /\ u # s
    BY <1>1, <1>4, <1>5, <2>2 DEF CallsApart, IsCall
  <2>3. CASE t # s /\ u = s
    BY <1>1, <1>4, <1>5, <2>3 DEF CallsApart, IsCall
  <2>4. CASE t # s /\ u # s
    BY <1>1, <1>5, <2>4 DEF CallsApart, IsCall
  <2> QED
    BY <2>1, <2>2, <2>3, <2>4
<1>6. CallsApart'
  BY <1>5 DEF CallsApart
<1>7. NoNewCalls
  BY <1>1, <1>4 DEF NoNewCalls
<1>8. ASSUME Head(toExecutor[s]).type = "call", NEW t \in Sockets,
             NEW i \in DOMAIN toExecutor'[t], IsCall(t, i)',
             toExecutor'[t][i].call = Head(toExecutor[s]).call
      PROVE  FALSE
  <2>1. CASE t = s
    <3>1. i + 1 = 1
      BY <1>3, <1>4, <1>8, <2>1 DEF CallsApart, IsCall
    <3> QED
      BY <1>4, <2>1, <3>1
  <2>2. CASE t # s
    BY <1>1, <1>3, <1>8, <2>2 DEF CallsApart, IsCall
  <2> QED
    BY <2>1, <2>2
<1> QED
  BY <1>2, <1>3, <1>6, <1>7, <1>8

\* A wire is lost with what was on it.
LEMMA Cleared ==
  ASSUME NEW D, WiresTyped(D), CallsApart,
         NEW s \in Sockets, toExecutor' = [toExecutor EXCEPT ![s] = <<>>]
  PROVE  WiresTyped(D)' /\ CallsApart' /\ NoNewCalls
<1> USE DEF WiresTyped
<1>1. /\ toExecutor'[s] = <<>>
      /\ \A t \in Sockets : t # s => toExecutor'[t] = toExecutor[t]
  OBVIOUS
<1>2. toExecutor' \in [Sockets -> Seq(Messages(D))]
  OBVIOUS
<1>3. DOMAIN toExecutor'[s] = {}
  BY <1>1
<1>4. CallsApart'
  BY <1>1, <1>3 DEF CallsApart, IsCall
<1>5. NoNewCalls
  BY <1>1, <1>3 DEF NoNewCalls
<1> QED
  BY <1>2, <1>4, <1>5

-----------------------------------------------------------------------------
(* Steps of the daemon *)

\* What the daemon never changes again once a call was sent.
SentStays ==
  \A c \in Calls : hop[c] \in {"sent", "settled"} =>
    hop'[c] \in {"sent", "settled"} /\ granted'[c] = granted[c] /\ bound'[c] = bound[c]

\* The wires stay in order when they are left alone or get another message than
\* a call.
LEMMA WireKept ==
  ASSUME NEW D, WiresTyped(D), WireInv, SentStays, UNCHANGED work,
         \/ UNCHANGED toExecutor
         \/ \E s \in Sockets, m \in Messages(D) : m.type # "call" /\ Adds(s, m)
  PROVE  WiresTyped(D)' /\ WireInv'
<1>1. CallsApart
  BY DEF WireInv, CallsApart, Sockets
<1>2. \A t \in Sockets : \A i \in DOMAIN toExecutor[t] :
        IsCall(t, i) => toExecutor[t][i].call \in Calls
  BY DEF Messages, IsCall, WiresTyped
<1>3. WiresTyped(D)' /\ CallsApart' /\ NoNewCalls
  <2>1. CASE UNCHANGED toExecutor
    BY <1>1, <2>1 DEF CallsApart, IsCall, WiresTyped, NoNewCalls
  <2>2. ASSUME NEW s \in Sockets, NEW m \in Messages(D), m.type # "call", Adds(s, m)
        PROVE  WiresTyped(D)' /\ CallsApart' /\ NoNewCalls
    <3>1. Unsent(m)
      BY <2>2 DEF Unsent
    <3>2. WiresTyped(D)' /\ CallsApart' /\ OnlyAdds(m)
      BY <1>1, <2>2, <3>1, Appended
    <3>3. NoNewCalls
      BY <2>2, <3>2 DEF OnlyAdds, NoNewCalls, IsCall
    <3> QED
      BY <3>2, <3>3
  <2> QED
    BY <2>1, <2>2
<1>4. ASSUME NEW t \in Sockets, NEW i \in DOMAIN toExecutor'[t], IsCall(t, i)'
      PROVE  /\ work'[toExecutor'[t][i].call] = "none"
             /\ hop'[toExecutor'[t][i].call] \in {"sent", "settled"}
             /\ toExecutor'[t][i].doc = granted'[toExecutor'[t][i].call]
  <2>1. PICK j \in DOMAIN toExecutor[t] : toExecutor'[t][i] = toExecutor[t][j]
    BY <1>3, <1>4 DEF NoNewCalls
  <2>2. IsCall(t, j) /\ toExecutor[t][j].call \in Calls
    BY <1>2, <1>4, <2>1 DEF IsCall
  <2> QED
    BY <2>1, <2>2 DEF WireInv, Sockets, SentStays
<1> QED
  BY <1>3, <1>4 DEF WireInv, CallsApart, Sockets

\* Sending a message other than a call, or nothing when the socket is not open.
LEMMA SendKept ==
  ASSUME NEW D, NEW s \in Sockets \cup {NoSocket}, NoSocket \notin Sockets,
         NEW m \in Messages(D), m.type # "call", Daemon!Send(s, m)
  PROVE  \/ UNCHANGED toExecutor
         \/ \E t \in Sockets, n \in Messages(D) : n.type # "call" /\ Adds(t, n)
BY DEF Daemon!Send, Adds

LEMMA SettleKept ==
  ASSUME Typed, NEW cs, NEW why, Daemon!Settle(cs, why)
  PROVE  /\ hop' \in [Calls -> Hops]
         /\ \A c \in Calls : hop'[c] = hop[c] \/ (c \in cs /\ hop'[c] = "settled")
BY DEF Typed, Hops, Daemon!Settle

\* Calls that have been granted settle, and nothing else is known of them.
LEMMA OnlySettles ==
  ASSUME Typed, DocInv, NEW D, known \in D, granted \in [Calls -> D],
         UNCHANGED <<granted, bound, work, grantDoc, checkedOn>>,
         hop' \in [Calls -> Hops],
         \A c \in Calls : hop'[c] = hop[c] \/ hop'[c] = "settled"
  PROVE  DocInv' /\ SentStays
BY DEF DocInv, SentStays

LEMMA DaemonStep ==
  ASSUME PathAssumption, PathInv, Daemon!HopNext, UNCHANGED executorVars
  PROVE  PathInv'
<1> USE DEF PathInv, CallInv
<1>1. NoSocket \notin Sockets
  BY DEF PathAssumption, Sockets
<1>2. /\ UNCHANGED <<work, grantDoc, checkedOn, tail, sock, dialed>>
      /\ TailInv'
  BY DEF executorVars, TailInv
<1>3. PICK D : known \in D /\ granted \in [Calls -> D] /\ WiresTyped(D)
  BY DEF Typed, DocsTyped
<1>4. ASSUME hop' \in [Calls -> Hops], route' \in [Calls -> Sockets \cup {NoSocket}],
             current' \in Sockets \cup {NoSocket}, DOMAIN bound' = Calls,
             DocsTyped', DocInv', WireInv'
      PROVE  PathInv'
  BY <1>2, <1>4 DEF Typed
\* Steps that only settle calls, and send at most news of that.
<1>5. ASSUME UNCHANGED <<granted, bound, route>>, hop' \in [Calls -> Hops],
             \A c \in Calls : hop'[c] = hop[c] \/ hop'[c] = "settled",
             current' \in Sockets \cup {NoSocket},
             known' = known,
             \/ UNCHANGED toExecutor
             \/ \E t \in Sockets, n \in Messages(D) : n.type # "call" /\ Adds(t, n)
      PROVE  PathInv'
  <2>1. DocInv' /\ SentStays
    BY <1>2, <1>3, <1>5, OnlySettles
  <2>2. WiresTyped(D)' /\ WireInv'
    BY <1>2, <1>3, <1>5, <2>1, WireKept
  <2>3. DocsTyped'
    BY <1>3, <1>5, <2>2 DEF DocsTyped
  <2> QED
    BY <1>4, <1>5, <2>1, <2>2, <2>3 DEF Typed
<1>6. ASSUME NEW c \in Calls, Daemon!Authorize(c)
      PROVE  PathInv'
  <2>1. /\ UNCHANGED <<granted, route, current, known, toExecutor>>
        /\ hop[c] = "new" /\ hop' = [hop EXCEPT ![c] = "authorized"]
        /\ bound' = [bound EXCEPT ![c] = known]
    BY <1>6 DEF Daemon!Authorize, Daemon!wires
  <2>2. SentStays
    BY <2>1 DEF SentStays, Typed
  <2>3. DocInv'
    BY <1>2, <2>1 DEF DocInv, Typed
  <2>4. WiresTyped(D)' /\ WireInv'
    BY <1>2, <1>3, <2>1, <2>2, WireKept
  <2>5. DocsTyped'
    BY <1>3, <2>1, <2>4 DEF DocsTyped
  <2> QED
    BY <1>4, <2>1, <2>3, <2>4, <2>5 DEF Typed, Hops
<1>7. ASSUME NEW c \in Calls, Daemon!Refuse(c)
      PROVE  PathInv'
  <2>1. /\ UNCHANGED <<granted, bound, route, current, known, toExecutor>>
        /\ \E why : Daemon!Settle({c}, why)
    BY <1>7 DEF Daemon!Refuse, Daemon!wires
  <2> QED
    BY <1>5, <2>1, SettleKept DEF Typed
<1>8. ASSUME NEW c \in Calls, Daemon!Sign(c)
      PROVE  PathInv'
  <2>1. /\ UNCHANGED <<bound, current, known, toExecutor>>
        /\ hop[c] = "authorized" /\ hop' = [hop EXCEPT ![c] = "signing"]
        /\ granted' = [granted EXCEPT ![c] = known]
        /\ route' = [route EXCEPT ![c] = current] /\ current # NoSocket
        /\ bound[c] = known \/ c \in Following
    BY <1>8 DEF Daemon!Sign, Daemon!SameTarget, Daemon!wires
  <2>2. SentStays
    BY <2>1 DEF SentStays, Typed
  <2>3. work[c] = "none" /\ checkedOn[c] = NoDoc
    BY <2>1 DEF DocInv
  <2>4. DocInv'
    BY <1>2, <2>1, <2>3 DEF DocInv, Typed
  <2>5. WiresTyped(D)' /\ WireInv'
    BY <1>2, <1>3, <2>1, <2>2, WireKept
  <2>6. DocsTyped'
    BY <1>3, <2>1, <2>5 DEF DocsTyped
  <2> QED
    BY <1>4, <2>1, <2>4, <2>5, <2>6 DEF Typed, Hops
<1>9. ASSUME NEW c \in Calls, Daemon!Dispatch(c)
      PROVE  PathInv'
  <2> DEFINE m == Daemon!ToolCall(c, granted[c])
  <2>1. /\ UNCHANGED <<granted, bound, route, current, known>>
        /\ hop[c] = "signing" /\ hop' = [hop EXCEPT ![c] = "sent"]
        /\ Daemon!Send(route[c], m)
    BY <1>9 DEF Daemon!Dispatch
  <2>2. SentStays
    BY <2>1 DEF SentStays, Typed
  <2>3. work[c] = "none"
    BY <2>1 DEF DocInv
  <2>4. DocInv'
    BY <1>2, <2>1, <2>3 DEF DocInv, Typed
  <2>5. m \in Messages(D) /\ m.type = "call" /\ m.call = c /\ m.doc = granted[c]
    BY <1>3 DEF Daemon!ToolCall, Messages
  <2>6. UNCHANGED toExecutor \/ \E s \in Sockets : Adds(s, m)
    BY <1>1, <2>1 DEF Daemon!Send, Adds, Typed
  <2> HIDE DEF m
  <2>7. CASE UNCHANGED toExecutor
    <3>1. WiresTyped(D)' /\ WireInv'
      BY <1>2, <1>3, <2>2, <2>7, WireKept
    <3>2. DocsTyped'
      BY <1>3, <2>1, <3>1 DEF DocsTyped
    <3> QED
      BY <1>4, <2>1, <2>4, <3>1, <3>2 DEF Typed, Hops
  <2>8. ASSUME NEW s \in Sockets, Adds(s, m)
        PROVE  PathInv'
    <3>1. CallsApart
      BY DEF WireInv, CallsApart, Sockets
    <3>2. Unsent(m)
      BY <2>1, <2>5 DEF Unsent, WireInv, Sockets
    <3>3. WiresTyped(D)' /\ CallsApart' /\ OnlyAdds(m)
      BY <1>3, <2>5, <2>8, <3>1, <3>2, Appended
    <3>4. \A t \in Sockets : \A i \in DOMAIN toExecutor[t] :
            IsCall(t, i) => toExecutor[t][i].call \in Calls
      BY <1>3 DEF Messages, IsCall, WiresTyped
    <3>5. ASSUME NEW t \in Sockets, NEW i \in DOMAIN toExecutor'[t], IsCall(t, i)'
          PROVE  /\ work'[toExecutor'[t][i].call] = "none"
                 /\ hop'[toExecutor'[t][i].call] \in {"sent", "settled"}
                 /\ toExecutor'[t][i].doc = granted'[toExecutor'[t][i].call]
      <4>1. CASE toExecutor'[t][i] = m
        <5>1. hop'[c] = "sent" /\ work'[c] = "none" /\ granted'[c] = granted[c]
          BY <1>2, <2>1, <2>3 DEF Typed
        <5> QED
          BY <2>5, <4>1, <5>1
      <4>2. ASSUME NEW j \in DOMAIN toExecutor[t], toExecutor'[t][i] = toExecutor[t][j]
            PROVE  /\ work'[toExecutor'[t][i].call] = "none"
                   /\ hop'[toExecutor'[t][i].call] \in {"sent", "settled"}
                   /\ toExecutor'[t][i].doc = granted'[toExecutor'[t][i].call]
        <5>1. IsCall(t, j) /\ toExecutor[t][j].call \in Calls
          BY <3>4, <3>5, <4>2 DEF IsCall
        <5> QED
          BY <1>2, <2>2, <4>2, <5>1 DEF WireInv, Sockets, SentStays
      <4> QED
        BY <3>3, <4>1, <4>2 DEF OnlyAdds
    <3>6. WireInv'
      BY <3>3, <3>5 DEF WireInv, CallsApart, Sockets
    <3>7. DocsTyped'
      BY <1>3, <2>1, <3>3 DEF DocsTyped
    <3> QED
      BY <1>4, <2>1, <2>4, <3>6, <3>7 DEF Typed, Hops
  <2> QED
    BY <2>6, <2>7, <2>8
<1>10. ASSUME NEW c \in Calls, Daemon!Cancel(c)
       PROVE  PathInv'
  <2>1. UNCHANGED <<granted, bound, route, current, known>>
    BY <1>10 DEF Daemon!Cancel
  <2>2. /\ Daemon!CancelCall(c) \in Messages(D)
        /\ Daemon!CancelCall(c).type # "call"
        /\ route[c] \in Sockets \cup {NoSocket}
    BY DEF Daemon!CancelCall, Messages, Typed
  <2>3. CASE hop[c] = "sent"
    <3>1. /\ Daemon!Settle({c}, "cancelled")
          /\ Daemon!Send(route[c], Daemon!CancelCall(c))
      BY <1>10, <2>3 DEF Daemon!Cancel
    <3>2. \/ UNCHANGED toExecutor
          \/ \E t \in Sockets, n \in Messages(D) : n.type # "call" /\ Adds(t, n)
      BY <1>1, <2>2, <3>1, SendKept
    <3> QED
      BY <1>5, <2>1, <3>1, <3>2, SettleKept DEF Typed
  <2>4. CASE hop[c] # "sent"
    <3>1. UNCHANGED <<hop, toExecutor>>
      BY <1>10, <2>4 DEF Daemon!Cancel
    <3> QED
      BY <1>5, <2>1, <3>1 DEF Typed
  <2> QED
    BY <2>3, <2>4
<1>11. ASSUME NEW c \in Calls, Daemon!Timeout(c)
       PROVE  PathInv'
  <2>1. /\ UNCHANGED <<granted, bound, route, current, known>>
        /\ Daemon!Settle({c}, "deadline")
        /\ Daemon!Send(route[c], Daemon!CancelCall(c))
    BY <1>11 DEF Daemon!Timeout
  <2>2. /\ Daemon!CancelCall(c) \in Messages(D)
        /\ Daemon!CancelCall(c).type # "call"
        /\ route[c] \in Sockets \cup {NoSocket}
    BY DEF Daemon!CancelCall, Messages, Typed
  <2>3. \/ UNCHANGED toExecutor
        \/ \E t \in Sockets, n \in Messages(D) : n.type # "call" /\ Adds(t, n)
    BY <1>1, <2>1, <2>2, SendKept
  <2> QED
    BY <1>5, <2>1, <2>3, SettleKept DEF Typed
<1>12. ASSUME NEW s \in Sockets, Daemon!ReceiveHello(s)
       PROVE  PathInv'
  <2>1. /\ UNCHANGED <<granted, bound, route, known>> /\ current' = s
        /\ \E cs : Daemon!Settle(cs, "failed")
        /\ Adds(s, Daemon!Welcome)
    BY <1>12 DEF Daemon!ReceiveHello, Adds
  <2>2. Daemon!Welcome \in Messages(D) /\ Daemon!Welcome.type # "call"
    BY DEF Daemon!Welcome, Messages
  <2>3. hop' \in [Calls -> Hops] /\ \A c \in Calls : hop'[c] = hop[c] \/ hop'[c] = "settled"
    BY <2>1, SettleKept
  <2> QED
    BY <1>5, <2>1, <2>2, <2>3
<1>13. ASSUME NEW s \in Sockets, Daemon!ReceiveResult(s) \/ Daemon!SocketClosed(s)
       PROVE  PathInv'
  <2>1. UNCHANGED <<granted, bound, route, known, toExecutor>>
    BY <1>13 DEF Daemon!ReceiveResult, Daemon!SocketClosed
  <2>2. \E cs, why : Daemon!Settle(cs, why)
    BY <1>13 DEF Daemon!ReceiveResult, Daemon!SocketClosed
  <2>3. current' \in Sockets \cup {NoSocket}
    BY <1>13 DEF Daemon!ReceiveResult, Daemon!SocketClosed, Typed
  <2>4. hop' \in [Calls -> Hops] /\ \A c \in Calls : hop'[c] = hop[c] \/ hop'[c] = "settled"
    BY <2>2, SettleKept
  <2> QED
    BY <1>5, <2>1, <2>3, <2>4
<1>14. ASSUME NEW s \in Sockets, Daemon!ReceiveTab(s)
       PROVE  PathInv'
  <2>1. UNCHANGED <<hop, granted, bound, route, current, toExecutor>>
    BY <1>14 DEF Daemon!ReceiveTab
  <2>2. DocInv' /\ SentStays
    BY <1>2, <2>1 DEF DocInv, SentStays
  <2>3. WireInv'
    BY <1>2, <2>1 DEF WireInv, IsCall
  <2>4. PICK E : E = D \cup {known'}
    OBVIOUS
  <2>5. \A t \in Sockets : toExecutor[t] \in Seq(Messages(E))
    BY <1>3, <2>4, MoreDocs DEF WiresTyped
  <2>6. WiresTyped(E)'
    BY <1>3, <2>1, <2>5 DEF WiresTyped
  <2>7. known' \in E /\ granted' \in [Calls -> E]
    BY <1>3, <2>1, <2>4
  <2>8. DocsTyped'
    BY <2>6, <2>7 DEF DocsTyped
  <2> QED
    BY <1>4, <2>1, <2>2, <2>3, <2>8 DEF Typed
<1> QED
  BY <1>6, <1>7, <1>8, <1>9, <1>10, <1>11, <1>12, <1>13, <1>14
     DEF Daemon!HopNext, Daemon!Sockets, Sockets

-----------------------------------------------------------------------------
(* Steps of the extension *)

\* The wires stay in order when messages only leave them, and no call that is
\* still on them has been begun.
LEMMA WireShrinks ==
  ASSUME NEW D, WiresTyped(D)', WireInv, CallsApart', NoNewCalls, UNCHANGED <<hop, granted>>,
         \A t \in Sockets : \A i \in DOMAIN toExecutor'[t] :
           IsCall(t, i)' /\ work[toExecutor'[t][i].call] = "none"
             => work'[toExecutor'[t][i].call] = "none"
  PROVE  WireInv'
<1>1. ASSUME NEW t \in Sockets, NEW i \in DOMAIN toExecutor'[t], IsCall(t, i)'
      PROVE  /\ work'[toExecutor'[t][i].call] = "none"
             /\ hop'[toExecutor'[t][i].call] \in {"sent", "settled"}
             /\ toExecutor'[t][i].doc = granted'[toExecutor'[t][i].call]
  <2>1. PICK j \in DOMAIN toExecutor[t] : toExecutor'[t][i] = toExecutor[t][j]
    BY <1>1 DEF NoNewCalls
  <2>2. IsCall(t, j)
    BY <1>1, <2>1 DEF IsCall
  <2> QED
    BY <1>1, <2>1, <2>2 DEF WireInv, Sockets
<1> QED
  BY <1>1 DEF WireInv, CallsApart, Sockets

\* A verified call joins the tail.
LEMMA TailJoined ==
  ASSUME Typed, TailInv, NEW c \in Calls, work[c] = "verifying",
         work' = [work EXCEPT ![c] = "queued"], tail' = Append(tail, c)
  PROVE  TailInv' /\ tail' \in Seq(Calls)
<1> DEFINE n == Len(tail) + 1
<1>1. /\ tail \in Seq(Calls) /\ Len(tail) \in Nat /\ DOMAIN tail = 1 .. Len(tail)
      /\ work \in [Calls -> Works]
  BY DEF Typed
<1>2. \A i \in DOMAIN tail : tail[i] \in Calls /\ tail[i] # c
  BY <1>1 DEF TailInv
<1>3. /\ DOMAIN tail' = 1 .. n /\ tail'[n] = c /\ tail' \in Seq(Calls)
      /\ \A i \in DOMAIN tail : tail'[i] = tail[i]
  BY <1>1
<1>4. \A i \in DOMAIN tail' : i = n \/ i \in DOMAIN tail
  BY <1>1, <1>3
<1>5. n \in DOMAIN tail' /\ \A i \in DOMAIN tail : i \in DOMAIN tail'
  BY <1>1, <1>3
<1> HIDE DEF n
<1>6. work'[c] = "queued" /\ \A d \in Calls : d # c => work'[d] = work[d]
  BY <1>1
<1>7. \A i, j \in DOMAIN tail' : tail'[i] = tail'[j] => i = j
  BY <1>2, <1>3, <1>4 DEF TailInv
<1>8. ASSUME NEW d \in Calls
      PROVE  (\E i \in DOMAIN tail' : tail'[i] = d) <=> work'[d] \in {"queued", "running"}
  <2>1. CASE d = c
    BY <1>3, <1>5, <1>6, <2>1
  <2>2. CASE d # c
    <3>1. (\E i \in DOMAIN tail' : tail'[i] = d) <=> \E i \in DOMAIN tail : tail[i] = d
      BY <1>3, <1>4, <1>5, <2>2
    <3> QED
      BY <1>6, <2>2, <3>1 DEF TailInv
  <2> QED
    BY <2>1, <2>2
<1>9. \A i \in DOMAIN tail' : work'[tail'[i]] = "running" => i = 1
  BY <1>2, <1>3, <1>4, <1>6 DEF TailInv
<1> QED
  BY <1>3, <1>7, <1>8, <1>9 DEF TailInv

\* The call at the head of the tail leaves it.
LEMMA TailLeft ==
  ASSUME Typed, TailInv, NEW c \in Calls, tail # <<>>, Head(tail) = c,
         work' = [work EXCEPT ![c] = "done"], tail' = Tail(tail)
  PROVE  TailInv' /\ tail' \in Seq(Calls)
<1>1. tail \in Seq(Calls) /\ work \in [Calls -> Works]
  BY DEF Typed
<1>2. /\ 1 \in DOMAIN tail /\ tail[1] = c /\ tail' \in Seq(Calls)
      /\ \A i \in DOMAIN tail : tail[i] \in Calls
  BY <1>1
<1>3. \A i \in DOMAIN tail' : /\ i \in Nat \ {0} /\ i + 1 \in DOMAIN tail
                              /\ tail'[i] = tail[i + 1]
  BY <1>1
<1>4. \A i \in DOMAIN tail : i # 1 => i - 1 \in DOMAIN tail' /\ tail'[i - 1] = tail[i]
  BY <1>1
<1>5. work'[c] = "done" /\ \A d \in Calls : d # c => work'[d] = work[d]
  BY <1>1
<1>6. ASSUME NEW i \in DOMAIN tail', NEW j \in DOMAIN tail', tail'[i] = tail'[j]
      PROVE  i = j
  <2>1. i + 1 = j + 1
    BY <1>3, <1>6 DEF TailInv
  <2> QED
    BY <1>3, <2>1
<1>7. \A i \in DOMAIN tail' : tail'[i] # c
  <2> SUFFICES ASSUME NEW i \in DOMAIN tail', tail'[i] = c PROVE FALSE
    OBVIOUS
  <2>1. i + 1 = 1
    BY <1>2, <1>3 DEF TailInv
  <2> QED
    BY <1>3, <2>1
<1>8. ASSUME NEW d \in Calls
      PROVE  (\E i \in DOMAIN tail' : tail'[i] = d) <=> work'[d] \in {"queued", "running"}
  <2>1. CASE d = c
    BY <1>5, <1>7, <2>1
  <2>2. CASE d # c
    <3>1. ASSUME NEW i \in DOMAIN tail', tail'[i] = d
          PROVE  \E k \in DOMAIN tail : tail[k] = d
      BY <1>3, <3>1
    <3>2. ASSUME NEW i \in DOMAIN tail, tail[i] = d
          PROVE  \E k \in DOMAIN tail' : tail'[k] = d
      BY <1>2, <1>4, <2>2, <3>2
    <3>3. (\E i \in DOMAIN tail' : tail'[i] = d) <=> \E i \in DOMAIN tail : tail[i] = d
      BY <3>1, <3>2
    <3> QED
      BY <1>5, <2>2, <3>3 DEF TailInv
  <2> QED
    BY <2>1, <2>2
<1>9. \A i \in DOMAIN tail' : work'[tail'[i]] # "running"
  <2> SUFFICES ASSUME NEW i \in DOMAIN tail', work'[tail'[i]] = "running" PROVE FALSE
    OBVIOUS
  <2>1. work[tail[i + 1]] = "running"
    BY <1>2, <1>3, <1>5, <1>7
  <2>2. i + 1 = 1
    BY <1>3, <2>1 DEF TailInv
  <2> QED
    BY <1>3, <2>2
<1> QED
  BY <1>2, <1>6, <1>8, <1>9 DEF TailInv

\* A call that has its turn or runs is the head of the tail.
LEMMA HeadOfTail ==
  ASSUME Typed, TailInv, NEW c \in Calls,
         \/ work[c] = "queued" /\ Head(tail) = c
         \/ work[c] = "running"
  PROVE  tail # <<>> /\ Head(tail) = c
<1>1. tail \in Seq(Calls)
  BY DEF Typed
<1>2. PICK i \in DOMAIN tail : tail[i] = c
  BY DEF TailInv
<1>3. tail # <<>> /\ Head(tail) = tail[1]
  BY <1>1, <1>2
<1>4. work[c] = "running" => i = 1
  BY <1>2 DEF TailInv
<1> QED
  BY <1>2, <1>3, <1>4

\* No step forgets that a call was begun, or begins one unasked.
NoneStays == \A c \in Calls : work[c] = "none" <=> work'[c] = "none"

LEMMA ExtensionStep ==
  ASSUME PathAssumption, PathInv, Extension!ExecutorNext, UNCHANGED hopVars
  PROVE  PathInv'
<1> USE DEF PathInv, CallInv
<1>1. UNCHANGED <<hop, bound, granted, route, current, known>>
  BY DEF hopVars
<1>2. PICK D : known \in D /\ granted \in [Calls -> D] /\ WiresTyped(D)
  BY DEF Typed, DocsTyped
<1>3. CallsApart
  BY DEF WireInv, CallsApart, Sockets
<1>4. ASSUME work' \in [Calls -> Works], tail' \in Seq(Calls), TailInv',
             DOMAIN grantDoc' = Calls, DOMAIN checkedOn' = Calls,
             sock' \in Sockets \cup {NoSocket}, dialed' \in Nat,
             WiresTyped(D)', WireInv', DocInv'
      PROVE  PathInv'
  BY <1>1, <1>2, <1>4 DEF Typed, DocsTyped
\* Steps that leave the wires to the extension alone.
<1>5. UNCHANGED toExecutor => WiresTyped(D)' /\ CallsApart' /\ NoNewCalls
  BY <1>2, <1>3 DEF WiresTyped, CallsApart, NoNewCalls, IsCall
<1>6. WiresTyped(D)' => \A t \in Sockets : \A i \in DOMAIN toExecutor'[t] :
        IsCall(t, i)' => toExecutor'[t][i].call \in Calls
  BY DEF WiresTyped, Messages, IsCall
<1>7. ASSUME WiresTyped(D)', CallsApart', NoNewCalls, NoneStays
      PROVE  WireInv'
  BY <1>1, <1>6, <1>7, WireShrinks DEF NoneStays
<1>8. UNCHANGED <<grantDoc, checkedOn>> /\ NoneStays => DocInv'
  BY <1>1 DEF DocInv, NoneStays
\* Steps that leave the calls alone.
<1>9. ASSUME UNCHANGED <<work, tail, grantDoc, checkedOn>>,
             sock' \in Sockets \cup {NoSocket}, dialed' \in Nat,
             WiresTyped(D)', CallsApart', NoNewCalls
      PROVE  PathInv'
  <2>1. NoneStays
    BY <1>9 DEF NoneStays
  <2>2. TailInv'
    BY <1>9 DEF TailInv
  <2> QED
    BY <1>4, <1>7, <1>8, <1>9, <2>1, <2>2 DEF Typed
<1>10. CASE Extension!Connect
  <2>1. dialed + 1 \in Sockets
    BY <1>10 DEF Extension!Connect, PathAssumption, Typed, Sockets
  <2> QED
    BY <1>5, <1>9, <1>10, <2>1 DEF Extension!Connect, Typed
<1>11. CASE Extension!LoseSocket
  <2>1. /\ sock \in Sockets /\ toExecutor' = [toExecutor EXCEPT ![sock] = <<>>]
        /\ UNCHANGED <<work, tail, grantDoc, checkedOn, dialed>> /\ sock' = NoSocket
    BY <1>11 DEF Extension!LoseSocket, Typed
  <2>2. WiresTyped(D)' /\ CallsApart' /\ NoNewCalls
    BY <1>2, <1>3, <2>1, Cleared
  <2> QED
    BY <1>9, <2>1, <2>2 DEF Typed
\* Steps that take a message.
<1>12. ASSUME sock \in Sockets, toExecutor[sock] # <<>>, Extension!TakeMessage
       PROVE  /\ WiresTyped(D)' /\ CallsApart' /\ NoNewCalls
              /\ Head(toExecutor[sock]) \in Messages(D)
              /\ 1 \in DOMAIN toExecutor[sock] /\ Head(toExecutor[sock]) = toExecutor[sock][1]
              /\ Head(toExecutor[sock]).type = "call" =>
                   \A t \in Sockets : \A i \in DOMAIN toExecutor'[t] :
                     IsCall(t, i)' => toExecutor'[t][i].call # Head(toExecutor[sock]).call
  <2>1. toExecutor' = [toExecutor EXCEPT ![sock] = Tail(@)]
    BY <1>12 DEF Extension!TakeMessage
  <2> QED
    BY <1>2, <1>3, <1>12, <2>1, Taken
<1>13. CASE Extension!ReceiveWelcome \/ Extension!ReceiveCancel
  <2>1. /\ sock \in Sockets /\ toExecutor[sock] # <<>> /\ Extension!TakeMessage
        /\ UNCHANGED <<work, tail, grantDoc, checkedOn, sock, dialed>>
    BY <1>13 DEF Extension!ReceiveWelcome, Extension!ReceiveCancel, Extension!Received, Typed
  <2> QED
    BY <1>9, <1>12, <2>1 DEF Typed
<1>14. CASE Extension!ReceiveCall
  <2> DEFINE m == Head(toExecutor[sock])
             c == m.call
  <2>1. /\ sock \in Sockets /\ toExecutor[sock] # <<>> /\ Extension!TakeMessage
        /\ m.type = "call"
        /\ work' = [work EXCEPT ![c] = "verifying"]
        /\ grantDoc' = [grantDoc EXCEPT ![c] = m.doc]
        /\ UNCHANGED <<tail, checkedOn, sock, dialed>>
    BY <1>14 DEF Extension!ReceiveCall, Extension!Received, Typed
  <2>2. /\ WiresTyped(D)' /\ CallsApart' /\ NoNewCalls
        /\ m \in Messages(D) /\ 1 \in DOMAIN toExecutor[sock] /\ m = toExecutor[sock][1]
        /\ \A t \in Sockets : \A i \in DOMAIN toExecutor'[t] :
             IsCall(t, i)' => toExecutor'[t][i].call # c
    BY <1>12, <2>1
  <2>3. c \in Calls
    BY <2>1, <2>2 DEF Messages
  <2>4. IsCall(sock, 1)
    BY <2>1, <2>2 DEF IsCall
  <2>5. work[c] = "none" /\ hop[c] \in {"sent", "settled"} /\ m.doc = granted[c]
    BY <2>1, <2>2, <2>4 DEF WireInv, Sockets
  <2> HIDE DEF m, c
  <2>6. /\ work' \in [Calls -> Works] /\ DOMAIN grantDoc' = Calls
        /\ work'[c] = "verifying" /\ grantDoc'[c] = granted[c]
        /\ \A d \in Calls : d # c => work'[d] = work[d] /\ grantDoc'[d] = grantDoc[d]
    BY <2>1, <2>3, <2>5 DEF Typed, Works
  <2>7. DocInv'
    BY <1>1, <2>1, <2>3, <2>5, <2>6 DEF DocInv
  <2>8. WireInv'
    <3>1. \A t \in Sockets : \A i \in DOMAIN toExecutor'[t] :
            IsCall(t, i)' /\ work[toExecutor'[t][i].call] = "none"
              => work'[toExecutor'[t][i].call] = "none"
      BY <1>6, <2>2, <2>6
    <3> QED
      BY <1>1, <2>2, <3>1, WireShrinks
  <2>9. TailInv'
    <3>1. \A d \in Calls : work'[d] \in {"queued", "running"} <=> work[d] \in {"queued", "running"}
      BY <2>5, <2>6
    <3>2. \A i \in DOMAIN tail : tail[i] \in Calls
      BY DEF Typed
    <3>3. \A d \in Calls : work'[d] = "running" => work[d] = "running"
      BY <2>5, <2>6
    <3> QED
      BY <2>1, <3>1, <3>2, <3>3 DEF TailInv
  <2> QED
    BY <1>4, <2>1, <2>2, <2>6, <2>7, <2>8, <2>9 DEF Typed
<1>15. CASE Extension!Navigate
  BY <1>5, <1>9, <1>15 DEF Extension!Navigate, Typed
<1>16. CASE Extension!PublishTab
  BY <1>5, <1>9, <1>16 DEF Extension!PublishTab, Typed
<1>17. CASE Extension!Restart
  <2>1. /\ work' = [d \in Calls |-> IF work[d] \in {"none", "done"} THEN work[d] ELSE "lost"]
        /\ tail' = <<>> /\ sock' = NoSocket
        /\ UNCHANGED <<grantDoc, checkedOn, dialed>>
    BY <1>17 DEF Extension!Restart
  <2>2. NoneStays /\ work' \in [Calls -> Works]
    BY <2>1 DEF NoneStays, Typed, Works
  <2>3. TailInv' /\ tail' \in Seq(Calls)
    BY <2>1 DEF TailInv, Typed
  <2>4. WiresTyped(D)' /\ CallsApart' /\ NoNewCalls
    <3>1. CASE sock = NoSocket
      BY <1>5, <1>17, <3>1 DEF Extension!Restart
    <3>2. CASE sock # NoSocket
      <4>1. sock \in Sockets /\ toExecutor' = [toExecutor EXCEPT ![sock] = <<>>]
        BY <1>17, <3>2 DEF Extension!Restart, Typed
      <4> QED
        BY <1>2, <1>3, <4>1, Cleared
    <3> QED
      BY <3>1, <3>2
  <2> QED
    BY <1>4, <1>7, <1>8, <2>1, <2>2, <2>3, <2>4 DEF Typed
\* Steps of one call.
<1>18. ASSUME UNCHANGED <<toExecutor, sock, dialed>>, NoneStays, work' \in [Calls -> Works],
              tail' \in Seq(Calls), TailInv', DOMAIN grantDoc' = Calls,
              DOMAIN checkedOn' = Calls, DocInv'
       PROVE  PathInv'
  BY <1>4, <1>5, <1>7, <1>18 DEF Typed
<1>19. ASSUME NEW c \in Calls, Extension!GrantRejected(c)
       PROVE  PathInv'
  <2>1. /\ work[c] = "verifying" /\ work' = [work EXCEPT ![c] = "done"]
        /\ UNCHANGED <<toExecutor, sock, dialed, tail, grantDoc, checkedOn>>
    BY <1>19 DEF Extension!GrantRejected
  <2>2. NoneStays /\ work' \in [Calls -> Works]
    BY <2>1 DEF NoneStays, Typed, Works
  <2>3. TailInv'
    <3>1. \A d \in Calls : work'[d] \in {"queued", "running"} <=> work[d] \in {"queued", "running"}
      BY <2>1 DEF Typed
    <3>2. \A i \in DOMAIN tail : tail[i] \in Calls
      BY DEF Typed
    <3>3. \A d \in Calls : work'[d] = "running" => work[d] = "running"
      BY <2>1 DEF Typed
    <3> QED
      BY <2>1, <3>1, <3>2, <3>3 DEF TailInv
  <2> QED
    BY <1>8, <1>18, <2>1, <2>2, <2>3 DEF Typed
<1>20. ASSUME NEW c \in Calls, Extension!GrantConsumed(c)
       PROVE  PathInv'
  <2>1. /\ work[c] = "verifying" /\ work' = [work EXCEPT ![c] = "queued"]
        /\ tail' = Append(tail, c)
        /\ UNCHANGED <<toExecutor, sock, dialed, grantDoc, checkedOn>>
    BY <1>20 DEF Extension!GrantConsumed
  <2>2. NoneStays /\ work' \in [Calls -> Works]
    BY <2>1 DEF NoneStays, Typed, Works
  <2> QED
    BY <1>8, <1>18, <2>1, <2>2, TailJoined DEF Typed
<1>21. ASSUME NEW c \in Calls, Extension!StartTool(c)
       PROVE  PathInv'
  <2>1. /\ work[c] = "queued" /\ work' = [work EXCEPT ![c] = "running"] /\ Head(tail) = c
        /\ page = grantDoc[c] /\ checkedOn' = [checkedOn EXCEPT ![c] = page]
        /\ UNCHANGED <<toExecutor, sock, dialed, tail, grantDoc>>
    BY <1>21 DEF Extension!StartTool, Extension!MyTurn, Extension!TargetFresh
  <2>2. NoneStays /\ work' \in [Calls -> Works]
    BY <2>1 DEF NoneStays, Typed, Works
  <2>3. TailInv'
    <3>1. \A d \in Calls : work'[d] \in {"queued", "running"} <=> work[d] \in {"queued", "running"}
      BY <2>1 DEF Typed
    <3>2. tail \in Seq(Calls) /\ tail # <<>>
      BY <2>1, HeadOfTail DEF Typed
    <3>3. 1 \in DOMAIN tail /\ tail[1] = c /\ \A i \in DOMAIN tail : tail[i] \in Calls
      BY <2>1, <3>2
    <3>4. \A d \in Calls : work'[d] = "running" => work[d] = "running" \/ d = c
      BY <2>1 DEF Typed
    <3> QED
      BY <2>1, <3>1, <3>3, <3>4 DEF TailInv
  <2>4. DocInv'
    <3>1. checkedOn'[c] = granted[c] /\ \A d \in Calls : d # c => checkedOn'[d] = checkedOn[d]
      BY <2>1 DEF Typed, DocInv
    <3> QED
      BY <1>1, <2>1, <2>2, <3>1 DEF DocInv, NoneStays
  <2> QED
    BY <1>18, <2>1, <2>2, <2>3, <2>4 DEF Typed
<1>22. ASSUME NEW c \in Calls, NEW ok \in BOOLEAN, Extension!EndTool(c, ok)
       PROVE  PathInv'
  <2>1. /\ \/ work[c] = "queued" /\ Head(tail) = c
           \/ work[c] = "running"
        /\ work' = [work EXCEPT ![c] = "done"] /\ tail' = Tail(tail)
        /\ UNCHANGED <<toExecutor, sock, dialed, grantDoc, checkedOn>>
    BY <1>22 DEF Extension!EndTool, Extension!MyTurn, Extension!Leave
  <2>2. NoneStays /\ work' \in [Calls -> Works]
    BY <2>1 DEF NoneStays, Typed, Works
  <2>3. tail # <<>> /\ Head(tail) = c
    BY <2>1, HeadOfTail
  <2>4. TailInv' /\ tail' \in Seq(Calls)
    BY <2>1, <2>3, TailLeft
  <2> QED
    BY <1>8, <1>18, <2>1, <2>2, <2>4 DEF Typed
<1> QED
  BY <1>10, <1>11, <1>13, <1>14, <1>15, <1>16, <1>17, <1>19, <1>20, <1>21, <1>22
     DEF Extension!ExecutorNext

-----------------------------------------------------------------------------
\* The inductive invariant: CallInv and the types it needs hold in every
\* reachable state of callBrowserTool and executeToolCall.
THEOREM PathInvariant == ASSUME PathAssumption PROVE Spec => []PathInv
<1>1. Init => PathInv
  <2> SUFFICES ASSUME Init PROVE PathInv
    OBVIOUS
  <2> USE DEF Init, Daemon!HopInit, Extension!ExecutorInit
  <2>1. DocsTyped
    <3>1. known \in {NoDoc} /\ granted \in [Calls -> {NoDoc}] /\ WiresTyped({NoDoc})
      BY DEF WiresTyped, Sockets
    <3> QED
      BY <3>1 DEF DocsTyped
  <2>2. Typed
    BY <2>1 DEF Typed, Hops, Works
  <2>3. TailInv /\ WireInv /\ DocInv
    BY DEF TailInv, WireInv, DocInv
  <2> QED
    BY <2>2, <2>3 DEF PathInv, CallInv
<1>2. PathInv /\ [Next]_vars => PathInv'
  <2> SUFFICES ASSUME PathInv, [Next]_vars PROVE PathInv'
    OBVIOUS
  <2>1. CASE UNCHANGED vars
    <3>1. UNCHANGED <<hop, route, current, known, bound, granted, work, grantDoc, checkedOn,
                      tail, sock, dialed, toExecutor>>
      BY <2>1 DEF vars, hopVars, executorVars
    <3>2. Typed'
      BY <3>1 DEF PathInv, CallInv, Typed, DocsTyped, WiresTyped
    <3>3. TailInv' /\ DocInv'
      BY <3>1 DEF PathInv, CallInv, TailInv, DocInv
    <3>4. WireInv'
      BY <3>1 DEF PathInv, CallInv, WireInv, IsCall
    <3> QED
      BY <3>2, <3>3, <3>4 DEF PathInv, CallInv
  <2> QED
    BY <2>1, DaemonStep, ExtensionStep DEF Next
<1> QED
  BY <1>1, <1>2, PTL DEF Spec

\* In every reachable state a call is under way in one place only, with the
\* document of its own authorisation (callBrowserTool, executeToolCall).
THEOREM CallsInOnePlace == ASSUME PathAssumption PROVE Spec => []CallInv
<1>1. PathInv => CallInv
  BY DEF PathInv
<1> QED
  BY <1>1, PathInvariant, PTL

\* The extension never executes two tools at once (toolExecutionTail of
\* executeToolCall), whatever is cancelled, lost or restarted.
THEOREM OneAtATime == ASSUME PathAssumption PROVE Spec => []OneToolAtATime
<1>1. PathInv => OneToolAtATime
  <2> SUFFICES ASSUME PathInv PROVE Cardinality(Running) <= 1
    BY DEF OneToolAtATime
  <2>1. \A c \in Running : c = Head(tail)
    BY HeadOfTail DEF PathInv, CallInv, Running
  <2>2. CASE Running = {}
    BY <2>2, FS_EmptySet
  <2>3. CASE Running # {}
    <3>1. Running = {Head(tail)}
      BY <2>1, <2>3
    <3>2. Cardinality({Head(tail)}) = 1
      BY FS_Singleton
    <3> QED
      BY <3>1, <3>2
  <2> QED
    BY <2>2, <2>3
<1> QED
  BY <1>1, PathInvariant, PTL

\* What the extension's check compares the tab with at a call's turn is the
\* document the call was authorised for (verifyExecutionGrant, executeToolCall).
THEOREM AuthorizedDocument == ASSUME PathAssumption PROVE Spec => []ChecksAuthorizedDocument
<1>1. PathInv => ChecksAuthorizedDocument
  BY DEF PathInv, CallInv, DocInv, ChecksAuthorizedDocument
<1> QED
  BY <1>1, PathInvariant, PTL

-----------------------------------------------------------------------------
(* The answers of the extension *)

\* What the extension sends.
Answers == [type : {"hello"}] \cup [type : {"result"}, call : Calls, ok : BOOLEAN]
             \cup [type : {"tab"}, doc : Nat]

Success(c) == [type |-> "result", call |-> c, ok |-> TRUE]

\* The messages of the extension that are queued or on their way.
OnTheWay == UNION {Members(q) : q \in Outgoing}

AnswersTyped ==
  /\ toDaemon \in [Sockets -> Seq(Answers)]
  /\ outbox \in Seq(Answers)

\* A call is answered once at most: not before its grant is consumed, not while
\* it is live, and once when it is no longer live.
AnswerOf(c) ==
  /\ replies[c] \in {0, 1}
  /\ work[c] \in {"none", "verifying"} => c \notin live /\ c \notin signalled /\ replies[c] = 0
  /\ c \in live => work[c] \in {"queued", "running"} /\ replies[c] = 0 /\ c \notin signalled
  /\ work[c] \in {"queued", "running"} /\ c \notin live => replies[c] = 1
  /\ work[c] = "done" => replies[c] = 1
  /\ replies[c] = 0 \/ c \in signalled => Success(c) \notin OnTheWay

AnswersInv ==
  /\ AnswersTyped /\ page \in Nat
  /\ live \subseteq Calls /\ DOMAIN replies = Calls
  /\ \A c \in Calls : AnswerOf(c)

\* The queue of a bridge without an authenticated socket.
LEMMA EnqueueKeeps ==
  ASSUME NEW S, NEW q \in Seq(S), NEW m \in S, NEW r, r = Extension!Enqueue(q, m)
  PROVE  r \in Seq(S) /\ Members(r) \subseteq Members(q) \cup {m}
<1>1. PICK kept : kept = {i \in DOMAIN q : ~Extension!IsTab(q[i])}
  OBVIOUS
<1>2. PICK f : f = Filtered(q, kept)
  OBVIOUS
<1>3. Extension!Filtered(q, kept) = f
  BY <1>2, Zenon DEF Extension!Filtered, Filtered
<1>4. f \in Seq(S) /\ Members(f) \subseteq Members(q)
  <2>1. f \in Seq(S) /\ Members(f) = {q[k] : k \in kept \cap DOMAIN q}
    BY <1>2, FilteredMembers
  <2> QED
    BY <2>1 DEF Members
<1>5. PICK p : p = IF Extension!IsTab(m) THEN f ELSE q
  OBVIOUS
<1>6. p \in Seq(S) /\ Members(p) \subseteq Members(q)
  BY <1>4, <1>5
<1>7. PICK t : IsLonger(t, p, m)
  BY DEF IsLonger
<1>8. t \in Seq(S) /\ Len(t) = Len(p) + 1 /\ Members(t) = Members(p) \cup {m}
  BY <1>6, <1>7, LongerMembers
<1>9. r = IF Len(t) > MaxQueued THEN Tail(t) ELSE t
  BY <1>1, <1>3, <1>5, <1>7, Zenon DEF Extension!Enqueue, IsLonger
<1>10. CASE r = t
  BY <1>6, <1>8, <1>10
<1>11. CASE r = Tail(t)
  <2>1. t # <<>>
    BY <1>6, <1>8
  <2>2. r \in Seq(S) /\ Members(t) = Members(r) \cup {Head(t)}
    BY <1>8, <1>11, <2>1, TailMembers DEF IsTail
  <2> QED
    BY <1>6, <1>8, <2>2
<1> QED
  BY <1>9, <1>10, <1>11

\* One connection gets more messages, and the queue stays.
LEMMA WireSends ==
  ASSUME AnswersTyped, NEW s, NEW q \in Seq(Answers), NEW M,
         NEW r \in Seq(Answers), Members(r) \subseteq OnTheWay \cup M,
         toDaemon' = [toDaemon EXCEPT ![s] = r], outbox' = q, Members(q) \subseteq OnTheWay \cup M
  PROVE  AnswersTyped' /\ OnTheWay' \subseteq OnTheWay \cup M
<1>1. \A t \in Sockets : toDaemon'[t] = toDaemon[t] \/ toDaemon'[t] = r
  BY DEF AnswersTyped
<1>2. \A t \in Sockets : Members(toDaemon[t]) \subseteq OnTheWay
  BY DEF OnTheWay, Outgoing, Sockets
<1>3. \A t \in Sockets : Members(toDaemon'[t]) \subseteq OnTheWay \cup M
  BY <1>1, <1>2
<1>4. OnTheWay' \subseteq OnTheWay \cup M
  <2>1. OnTheWay' = UNION {Members(p) : p \in {toDaemon'[t] : t \in Sockets} \cup {q}}
    BY DEF OnTheWay, Outgoing, Sockets, Members
  <2> QED
    BY <1>3, <2>1
<1>5. AnswersTyped'
  BY DEF AnswersTyped
<1> QED
  BY <1>4, <1>5

LEMMA SendAllKeeps ==
  ASSUME AnswersTyped, NEW ms \in Seq(Answers), Len(ms) \in {1, 2}, Extension!SendAll(ms)
  PROVE  AnswersTyped' /\ OnTheWay' \subseteq OnTheWay \cup Members(ms)
<1>1. Members(outbox) \subseteq OnTheWay /\ outbox \in Seq(Answers)
  BY DEF AnswersTyped, OnTheWay, Outgoing
<1>2. CASE authed
  <2>1. toDaemon' = [toDaemon EXCEPT ![sock] = @ \o ms] /\ outbox' = outbox
    BY <1>2 DEF Extension!SendAll
  <2>2. CASE sock \in Sockets
    <3>1. toDaemon[sock] \in Seq(Answers) /\ Members(toDaemon[sock]) \subseteq OnTheWay
      BY <2>2 DEF AnswersTyped, OnTheWay, Outgoing, Sockets
    <3>2. PICK p : p = toDaemon[sock]
      OBVIOUS
    <3>3. PICK r : IsJoined(r, p, ms)
      BY DEF IsJoined
    <3>4. r \in Seq(Answers) /\ Members(r) \subseteq OnTheWay \cup Members(ms)
      <4>1. r \in Seq(Answers) /\ Members(r) = Members(p) \cup Members(ms)
        BY <3>1, <3>2, <3>3, JoinedMembers
      <4> QED
        BY <3>1, <3>2, <4>1
    <3>5. toDaemon' = [toDaemon EXCEPT ![sock] = r]
      BY <2>1, <3>2, <3>3 DEF IsJoined
    <3> QED
      BY <1>1, <2>1, <3>4, <3>5, WireSends
  <2>3. CASE sock \notin Sockets
    <3>1. toDaemon' = toDaemon /\ outbox' = outbox
      BY <2>1, <2>3 DEF AnswersTyped
    <3>2. AnswersTyped'
      BY <3>1 DEF AnswersTyped
    <3>3. OnTheWay' = OnTheWay
      BY <3>1 DEF OnTheWay, Outgoing, Members
    <3> QED
      BY <3>2, <3>3
  <2> QED
    BY <2>2, <2>3
<1>3. CASE ~authed
  <2>1. PICK q : q = Extension!Enqueue(outbox, ms[1])
    OBVIOUS
  <2>2. ms[1] \in Answers /\ ms[1] \in Members(ms)
    BY DEF Members
  <2>3. q \in Seq(Answers) /\ Members(q) \subseteq OnTheWay \cup Members(ms)
    <3>1. q \in Seq(Answers) /\ Members(q) \subseteq Members(outbox) \cup {ms[1]}
      BY <1>1, <2>1, <2>2, EnqueueKeeps
    <3> QED
      BY <1>1, <2>2, <3>1
  <2>4. outbox' \in Seq(Answers) /\ Members(outbox') \subseteq OnTheWay \cup Members(ms)
    <3>1. CASE Len(ms) = 1
      <4>1. outbox' = q
        BY <1>3, <2>1, <3>1 DEF Extension!SendAll
      <4> QED
        BY <2>3, <4>1
    <3>2. CASE Len(ms) = 2
      <4>1. ms[2] \in Answers /\ ms[2] \in Members(ms)
        BY <3>2 DEF Members
      <4>2. PICK r : r = Extension!Enqueue(q, ms[2])
        OBVIOUS
      <4>3. r \in Seq(Answers) /\ Members(r) \subseteq Members(q) \cup {ms[2]}
        BY <2>3, <4>1, <4>2, EnqueueKeeps
      <4>4. outbox' = r
        BY <1>3, <2>1, <3>2, <4>2 DEF Extension!SendAll
      <4> QED
        BY <2>3, <4>1, <4>3, <4>4
    <3> QED
      BY <3>1, <3>2
  <2>5. toDaemon' = toDaemon
    BY <1>3 DEF Extension!SendAll
  <2>6. OnTheWay' = UNION {Members(p) : p \in {toDaemon[t] : t \in Sockets} \cup {outbox'}}
    BY <2>5 DEF OnTheWay, Outgoing, Sockets, Members
  <2>7. \A t \in Sockets : Members(toDaemon[t]) \subseteq OnTheWay
    BY DEF OnTheWay, Outgoing, Sockets
  <2> QED
    BY <2>4, <2>5, <2>6, <2>7 DEF AnswersTyped
<1> QED
  BY <1>2, <1>3

\* A step that leaves the calls alone and sends no success.
QuietStep ==
  /\ UNCHANGED <<work, live, signalled, replies>>
  /\ \A c \in Calls : Success(c) \in OnTheWay' => Success(c) \in OnTheWay

LEMMA QuietKeeps ==
  ASSUME AnswersInv, QuietStep, AnswersTyped', page' \in Nat
  PROVE  AnswersInv'
BY DEF AnswersInv, QuietStep, AnswerOf

\* A connection loses its first message, or all.
LEMMA DaemonTakes ==
  ASSUME AnswersTyped, NEW s \in Sockets, UNCHANGED outbox,
         \/ toDaemon[s] # <<>> /\ toDaemon' = [toDaemon EXCEPT ![s] = Tail(@)]
         \/ toDaemon' = [toDaemon EXCEPT ![s] = <<>>]
  PROVE  AnswersTyped' /\ OnTheWay' \subseteq OnTheWay
<1>1. /\ Members(toDaemon[s]) \subseteq OnTheWay /\ Members(outbox) \subseteq OnTheWay
      /\ toDaemon[s] \in Seq(Answers) /\ outbox \in Seq(Answers)
  BY DEF AnswersTyped, OnTheWay, Outgoing, Sockets
<1>2. PICK q : q = toDaemon[s]
  OBVIOUS
<1>3. PICK M : M = {}
  OBVIOUS
<1>4. CASE q # <<>> /\ toDaemon' = [toDaemon EXCEPT ![s] = Tail(@)]
  <2>1. PICK r : IsTail(r, q)
    BY <1>4 DEF IsTail
  <2>2. r \in Seq(Answers) /\ Members(q) = Members(r) \cup {Head(q)}
    BY <1>1, <1>2, <2>1, TailMembers
  <2>3. toDaemon' = [toDaemon EXCEPT ![s] = r]
    BY <1>2, <1>4, <2>1 DEF IsTail
  <2>4. Members(r) \subseteq OnTheWay \cup M /\ Members(outbox) \subseteq OnTheWay \cup M
    BY <1>1, <1>2, <2>2
  <2>5. AnswersTyped' /\ OnTheWay' \subseteq OnTheWay \cup M
    BY <1>1, <2>2, <2>3, <2>4, WireSends
  <2> QED
    BY <1>3, <2>5
<1>5. CASE toDaemon' = [toDaemon EXCEPT ![s] = <<>>]
  <2>1. PICK r : r = <<>>
    OBVIOUS
  <2>2. r \in Seq(Answers) /\ Members(r) = {}
    BY <2>1 DEF Members
  <2>3. toDaemon' = [toDaemon EXCEPT ![s] = r]
    BY <1>5, <2>1
  <2>4. Members(r) \subseteq OnTheWay \cup M /\ Members(outbox) \subseteq OnTheWay \cup M
    BY <1>1, <2>2
  <2>5. AnswersTyped' /\ OnTheWay' \subseteq OnTheWay \cup M
    BY <1>1, <2>2, <2>3, <2>4, WireSends
  <2> QED
    BY <1>3, <2>5
<1> QED
  BY <1>2, <1>4, <1>5

LEMMA AnswersDaemonStep ==
  ASSUME AnswersInv, Daemon!HopNext, UNCHANGED executorVars
  PROVE  AnswersInv'
<1>1. UNCHANGED <<work, live, signalled, replies, page, outbox>>
  BY DEF executorVars
<1>2. \/ UNCHANGED toDaemon
      \/ \E s \in Sockets : \/ toDaemon[s] # <<>> /\ toDaemon' = [toDaemon EXCEPT ![s] = Tail(@)]
                           \/ toDaemon' = [toDaemon EXCEPT ![s] = <<>>]
  <2>1. ASSUME NEW c \in Calls,
               \/ Daemon!Authorize(c) \/ Daemon!Refuse(c) \/ Daemon!Sign(c)
               \/ Daemon!Dispatch(c) \/ Daemon!Cancel(c) \/ Daemon!Timeout(c)
        PROVE  UNCHANGED toDaemon
    BY <2>1 DEF Daemon!Authorize, Daemon!Refuse, Daemon!Sign, Daemon!Dispatch, Daemon!Cancel,
                Daemon!Timeout, Daemon!wires
  <2>2. ASSUME NEW s \in Sockets,
               Daemon!ReceiveHello(s) \/ Daemon!ReceiveResult(s) \/ Daemon!ReceiveTab(s)
        PROVE  toDaemon[s] # <<>> /\ toDaemon' = [toDaemon EXCEPT ![s] = Tail(@)]
    BY <2>2 DEF Daemon!ReceiveHello, Daemon!ReceiveResult, Daemon!ReceiveTab,
                Daemon!Received, Daemon!TakeMessage
  <2>3. ASSUME NEW s \in Sockets, Daemon!SocketClosed(s)
        PROVE  toDaemon' = [toDaemon EXCEPT ![s] = <<>>]
    BY <2>3 DEF Daemon!SocketClosed
  <2> QED
    BY <2>1, <2>2, <2>3 DEF Daemon!HopNext, Daemon!Sockets, Sockets
<1>3. AnswersTyped' /\ OnTheWay' \subseteq OnTheWay
  <2>1. CASE UNCHANGED toDaemon
    <3>1. AnswersTyped'
      BY <1>1, <2>1 DEF AnswersInv, AnswersTyped
    <3>2. OnTheWay' = OnTheWay
      BY <1>1, <2>1 DEF OnTheWay, Outgoing, Members
    <3> QED
      BY <3>1, <3>2
  <2>2. CASE ~UNCHANGED toDaemon
    BY <1>1, <1>2, <2>2, DaemonTakes DEF AnswersInv
  <2> QED
    BY <2>1, <2>2
<1> QED
  BY <1>1, <1>3, QuietKeeps DEF AnswersInv, QuietStep

\* The messages of the extension other than results.
LEMMA Said ==
  /\ Extension!Hello \in Answers
  /\ \A n \in Nat : Extension!ActiveTab(n) \in Answers
  /\ \A c \in Calls : Extension!Hello # Success(c) /\ \A n \in Nat : Extension!ActiveTab(n) # Success(c)
BY DEF Extension!Hello, Extension!ActiveTab, Answers, Success

\* A call gets its one answer.
LEMMA ReplyKeeps ==
  ASSUME AnswersInv, NEW c \in Calls, NEW ok \in BOOLEAN, replies[c] = 0, c \notin signalled,
         Extension!Reply(c, ok)
  PROVE  /\ AnswersTyped' /\ replies' = [replies EXCEPT ![c] = 1]
         /\ \A d \in Calls : Success(d) \in OnTheWay' => Success(d) \in OnTheWay \/ (d = c /\ ok = TRUE)
<1>1. PICK x, y : x = Extension!ToolResult(c, ok) /\ y = Extension!ActiveTab(page)
  OBVIOUS
<1>2. x \in Answers /\ y \in Answers /\ \A d \in Calls : Success(d) # y /\ (Success(d) = x => d = c /\ ok = TRUE)
  <2>1. y \in Answers /\ \A d \in Calls : Success(d) # y
    BY <1>1, Said DEF AnswersInv
  <2>2. CASE ok = TRUE
    <3>1. x = Extension!ToolResult(c, TRUE)
      BY <1>1, <2>2
    <3>2. x \in Answers
      BY <3>1 DEF Extension!ToolResult, Answers
    <3>3. \A d \in Calls : Success(d) = x => d = c
      BY <3>1 DEF Extension!ToolResult, Success
    <3> QED
      BY <2>1, <2>2, <3>2, <3>3
  <2>3. CASE ok = FALSE
    <3>1. x = Extension!ToolResult(c, FALSE)
      BY <1>1, <2>3
    <3>2. x \in Answers
      BY <3>1 DEF Extension!ToolResult, Answers
    <3>3. \A d \in Calls : Success(d) # x
      BY <3>1 DEF Extension!ToolResult, Success
    <3> QED
      BY <2>1, <3>2, <3>3
  <2> QED
    BY <2>2, <2>3
<1>3. PICK ms : ms = <<x, y>>
  OBVIOUS
<1>4. ms \in Seq(Answers) /\ Len(ms) \in {1, 2} /\ Members(ms) = {x, y}
  BY <1>2, <1>3, TwoMembers
<1>5. Extension!SendAll(ms) /\ replies' = [replies EXCEPT ![c] = 1]
  BY <1>1, <1>3 DEF Extension!Reply, AnswersInv
<1>6. AnswersTyped' /\ OnTheWay' \subseteq OnTheWay \cup Members(ms)
  BY <1>4, <1>5, SendAllKeeps DEF AnswersInv
<1> QED
  BY <1>2, <1>4, <1>5, <1>6

\* A step of one call: c is answered if it was live, and is live no longer.
LEMMA AnswerKeeps ==
  ASSUME AnswersInv, NEW c \in Calls, NEW ok \in BOOLEAN, Extension!Answer(c, ok)
  PROVE  /\ AnswersTyped' /\ live' = live \ {c}
         /\ replies' = IF c \in live THEN [replies EXCEPT ![c] = 1] ELSE replies
         /\ \A d \in Calls : Success(d) \in OnTheWay' =>
              Success(d) \in OnTheWay \/ (d = c /\ ok = TRUE /\ c \in live)
<1>1. CASE c \in live
  <2>1. replies[c] = 0 /\ c \notin signalled
    BY <1>1 DEF AnswersInv, AnswerOf
  <2>2. Extension!Reply(c, ok) /\ live' = live \ {c}
    BY <1>1 DEF Extension!Answer
  <2> QED
    BY <1>1, <2>1, <2>2, ReplyKeeps
<1>2. CASE c \notin live
  <2>1. UNCHANGED <<live, replies, outbox, toDaemon>>
    BY <1>2 DEF Extension!Answer, Extension!NoReply
  <2>2. AnswersTyped'
    BY <2>1 DEF AnswersInv, AnswersTyped
  <2>3. OnTheWay' = OnTheWay
    BY <2>1 DEF OnTheWay, Outgoing, Members
  <2> QED
    BY <1>2, <2>1, <2>2, <2>3
<1> QED
  BY <1>1, <1>2

\* The call that the extension takes from its connection is one it has not begun.
LEMMA TakenIsNew ==
  ASSUME PathInv, Extension!Received("call")
  PROVE  Head(toExecutor[sock]).call \in Calls /\ work[Head(toExecutor[sock]).call] = "none"
<1>1. PICK D : WiresTyped(D)
  BY DEF PathInv, Typed, DocsTyped
<1>2. sock \in Sockets /\ toExecutor[sock] # <<>> /\ Head(toExecutor[sock]).type = "call"
  BY DEF Extension!Received, PathInv, Typed
<1>3. toExecutor[sock] \in Seq(Messages(D))
  BY <1>1, <1>2 DEF WiresTyped
<1>4. 1 \in DOMAIN toExecutor[sock] /\ Head(toExecutor[sock]) = toExecutor[sock][1]
      /\ Head(toExecutor[sock]) \in Messages(D)
  BY <1>2, <1>3
<1>5. IsCall(sock, 1)
  BY <1>2, <1>4 DEF IsCall
<1> QED
  BY <1>2, <1>4, <1>5 DEF PathInv, CallInv, WireInv, Sockets, Messages

LEMMA AnswersExtensionStep ==
  ASSUME PathAssumption, PathInv, AnswersInv, Extension!ExecutorNext
  PROVE  AnswersInv'
<1>1. /\ work \in [Calls -> Works] /\ sock \in Sockets \cup {NoSocket} /\ dialed \in Nat
      /\ AnswersTyped /\ page \in Nat /\ DOMAIN replies = Calls /\ live \subseteq Calls
  BY DEF PathInv, Typed, AnswersInv
\* Steps that send nothing
<1>2. UNCHANGED <<outbox, toDaemon>> => AnswersTyped' /\ OnTheWay' = OnTheWay
  <2> SUFFICES ASSUME UNCHANGED <<outbox, toDaemon>> PROVE AnswersTyped' /\ OnTheWay' = OnTheWay
    OBVIOUS
  <2>1. AnswersTyped'
    BY <1>1 DEF AnswersTyped
  <2>2. OnTheWay' = OnTheWay
    BY DEF OnTheWay, Outgoing, Members
  <2> QED
    BY <2>1, <2>2
<1>3. CASE Extension!LoseSocket
  BY <1>1, <1>2, <1>3, QuietKeeps DEF Extension!LoseSocket, QuietStep
<1>4. CASE Extension!Navigate
  BY <1>1, <1>2, <1>4, QuietKeeps DEF Extension!Navigate, QuietStep
<1>5. CASE Extension!Connect
  <2>1. PICK x, r : x = Extension!Hello /\ r = <<x>>
    OBVIOUS
  <2>2. r \in Seq(Answers) /\ Members(r) = {x} /\ \A c \in Calls : x # Success(c)
    BY <2>1, OneMember, Said
  <2>3. PICK s, q, M : s = dialed + 1 /\ q = outbox /\ M = {x}
    OBVIOUS
  <2>4. toDaemon' = [toDaemon EXCEPT ![s] = r] /\ outbox' = q /\ UNCHANGED <<work, live, signalled, replies, page>>
    BY <1>5, <2>1, <2>3 DEF Extension!Connect
  <2>5. q \in Seq(Answers) /\ Members(q) \subseteq OnTheWay
    BY <1>1, <2>3 DEF AnswersTyped, OnTheWay, Outgoing
  <2>6. AnswersTyped' /\ OnTheWay' \subseteq OnTheWay \cup M
    BY <1>1, <2>2, <2>3, <2>4, <2>5, WireSends
  <2> QED
    BY <1>1, <2>2, <2>3, <2>4, <2>6, QuietKeeps DEF QuietStep
<1>6. CASE Extension!ReceiveWelcome
  <2>1. sock \in Sockets
    BY <1>1, <1>6 DEF Extension!ReceiveWelcome, Extension!Received
  <2>2. PICK x, p, q, o : x = Extension!ActiveTab(page) /\ p = toDaemon[sock] /\ q = outbox /\ o = <<x>>
    OBVIOUS
  <2>3. /\ p \in Seq(Answers) /\ Members(p) \subseteq OnTheWay
        /\ q \in Seq(Answers) /\ Members(q) \subseteq OnTheWay
        /\ o \in Seq(Answers) /\ Members(o) = {x} /\ \A c \in Calls : x # Success(c)
    <3>1. o \in Seq(Answers) /\ Members(o) = {x} /\ \A c \in Calls : x # Success(c)
      BY <1>1, <2>2, OneMember, Said
    <3> QED
      BY <1>1, <2>1, <2>2, <3>1 DEF AnswersTyped, OnTheWay, Outgoing, Sockets
  <2>4. PICK r : IsJoined(r, p, q)
    BY DEF IsJoined
  <2>5. PICK t : IsJoined(t, r, o)
    BY DEF IsJoined
  <2>6. r \in Seq(Answers) /\ Members(r) = Members(p) \cup Members(q)
    BY <2>3, <2>4, JoinedMembers
  <2>7. t \in Seq(Answers) /\ Members(t) = Members(r) \cup Members(o)
    BY <2>3, <2>5, <2>6, JoinedMembers
  <2>8. PICK M, e : M = {x} /\ e = <<>>
    OBVIOUS
  <2>9. /\ toDaemon' = [toDaemon EXCEPT ![sock] = t] /\ outbox' = e
        /\ UNCHANGED <<work, live, signalled, replies, page>>
    BY <1>6, <2>2, <2>4, <2>5, <2>8 DEF Extension!ReceiveWelcome, IsJoined
  <2>10. e \in Seq(Answers) /\ Members(e) = {}
    BY <2>8 DEF Members
  <2>11. Members(t) \subseteq OnTheWay \cup M /\ Members(e) \subseteq OnTheWay \cup M
    BY <2>3, <2>6, <2>7, <2>8, <2>10
  <2>12. AnswersTyped' /\ OnTheWay' \subseteq OnTheWay \cup M
    BY <1>1, <2>7, <2>9, <2>10, <2>11, WireSends
  <2> QED
    BY <1>1, <2>3, <2>8, <2>9, <2>12, QuietKeeps DEF QuietStep
<1>7. CASE Extension!PublishTab
  <2>1. PICK x, ms : x = Extension!ActiveTab(page) /\ ms = <<x>>
    OBVIOUS
  <2>2. ms \in Seq(Answers) /\ Len(ms) \in {1, 2} /\ Members(ms) = {x} /\ \A c \in Calls : x # Success(c)
    BY <1>1, <2>1, OneMember, Said
  <2>3. Extension!SendAll(ms) /\ UNCHANGED <<work, live, signalled, replies, page>>
    BY <1>7, <2>1 DEF Extension!PublishTab
  <2>4. AnswersTyped' /\ OnTheWay' \subseteq OnTheWay \cup Members(ms)
    BY <1>1, <2>2, <2>3, SendAllKeeps
  <2> QED
    BY <1>1, <2>2, <2>3, <2>4, QuietKeeps DEF QuietStep
<1>8. CASE Extension!ReceiveCall
  <2>1. PICK c : c = Head(toExecutor[sock]).call
    OBVIOUS
  <2>2. c \in Calls /\ work[c] = "none"
    BY <1>8, <2>1, TakenIsNew DEF Extension!ReceiveCall
  <2>3. /\ work' = [work EXCEPT ![c] = "verifying"]
        /\ UNCHANGED <<live, signalled, replies, page, outbox, toDaemon>>
    BY <1>8, <2>1 DEF Extension!ReceiveCall
  <2>4. \A d \in Calls : AnswerOf(d)'
    BY <1>1, <1>2, <2>2, <2>3 DEF AnswersInv, AnswerOf
  <2> QED
    BY <1>1, <1>2, <2>3, <2>4 DEF AnswersInv
<1>9. CASE Extension!ReceiveCancel
  <2>1. PICK c : c = Head(toExecutor[sock]).call
    OBVIOUS
  <2>2. UNCHANGED <<work, page>>
    BY <1>9 DEF Extension!ReceiveCancel
  <2>3. CASE c \in live
    <3>1. c \in Calls /\ signalled' = signalled \cup {c} /\ Extension!Answer(c, FALSE)
      BY <1>1, <1>9, <2>1, <2>3 DEF Extension!ReceiveCancel
    <3>2. /\ AnswersTyped' /\ live' = live \ {c} /\ replies' = [replies EXCEPT ![c] = 1]
          /\ \A d \in Calls : Success(d) \in OnTheWay' => Success(d) \in OnTheWay
      BY <2>3, <3>1, AnswerKeeps
    <3>3. \A d \in Calls : AnswerOf(d)'
      BY <1>1, <2>2, <2>3, <3>1, <3>2 DEF AnswersInv, AnswerOf
    <3> QED
      BY <1>1, <2>2, <3>2, <3>3 DEF AnswersInv
  <2>4. CASE c \notin live
    <3>1. UNCHANGED <<signalled, live, replies, outbox, toDaemon>>
      BY <1>9, <2>1, <2>4 DEF Extension!ReceiveCancel, Extension!NoReply
    <3> QED
      BY <1>1, <1>2, <2>2, <3>1, QuietKeeps DEF QuietStep
  <2> QED
    BY <2>3, <2>4
<1>10. CASE Extension!Restart
  <2>1. PICK s, e, M : s = NoSocket /\ e = <<>> /\ M = {}
    OBVIOUS
  <2>2. /\ work' = [c \in Calls |-> IF work[c] \in {"none", "done"} THEN work[c] ELSE "lost"]
        /\ live' = {} /\ outbox' = e /\ UNCHANGED <<signalled, replies, page, toDaemon>>
    BY <1>10, <2>1 DEF Extension!Restart
  <2>3. e \in Seq(Answers) /\ Members(e) = {}
    BY <2>1 DEF Members
  <2>4. AnswersTyped' /\ OnTheWay' \subseteq OnTheWay
    <3>1. AnswersTyped'
      BY <1>1, <2>2, <2>3 DEF AnswersTyped
    <3>2. OnTheWay' = UNION {Members(p) : p \in {toDaemon[t] : t \in Sockets} \cup {e}}
      BY <2>2 DEF OnTheWay, Outgoing, Sockets, Members
    <3>3. \A t \in Sockets : Members(toDaemon[t]) \subseteq OnTheWay
      BY DEF OnTheWay, Outgoing, Sockets
    <3> QED
      BY <2>3, <3>1, <3>2, <3>3
  <2>5. \A d \in Calls : AnswerOf(d)'
    BY <1>1, <2>2, <2>4 DEF AnswersInv, AnswerOf
  <2> QED
    BY <1>1, <2>2, <2>4, <2>5 DEF AnswersInv
<1>11. ASSUME NEW c \in Calls, Extension!GrantRejected(c)
       PROVE  AnswersInv'
  <2>1. PICK x, ms : x = Extension!ToolResult(c, FALSE) /\ ms = <<x>>
    OBVIOUS
  <2>2. ms \in Seq(Answers) /\ Len(ms) \in {1, 2} /\ Members(ms) = {x} /\ \A d \in Calls : x # Success(d)
    <3>1. x \in Answers
      BY <2>1 DEF Extension!ToolResult, Answers
    <3>2. \A d \in Calls : x # Success(d)
      BY <2>1 DEF Extension!ToolResult, Success
    <3> QED
      BY <2>1, <3>1, <3>2, OneMember
  <2>3. /\ work[c] = "verifying" /\ work' = [work EXCEPT ![c] = "done"] /\ Extension!SendAll(ms)
        /\ replies' = [replies EXCEPT ![c] = @ + 1] /\ UNCHANGED <<live, signalled, page>>
    BY <1>11, <2>1 DEF Extension!GrantRejected
  <2>4. AnswersTyped' /\ OnTheWay' \subseteq OnTheWay \cup Members(ms)
    BY <1>1, <2>2, <2>3, SendAllKeeps
  <2>5. replies[c] = 0 /\ c \notin live /\ c \notin signalled
    BY <2>3 DEF AnswersInv, AnswerOf
  <2>6. replies' = [replies EXCEPT ![c] = 1]
    BY <2>3, <2>5
  <2>7. \A d \in Calls : Success(d) \in OnTheWay' => Success(d) \in OnTheWay
    BY <2>2, <2>4
  <2>8. \A d \in Calls : AnswerOf(d)'
    BY <1>1, <2>3, <2>5, <2>6, <2>7 DEF AnswersInv, AnswerOf
  <2> QED
    BY <1>1, <2>3, <2>4, <2>6, <2>8 DEF AnswersInv
<1>12. ASSUME NEW c \in Calls, Extension!GrantConsumed(c)
       PROVE  AnswersInv'
  <2>1. /\ work[c] = "verifying" /\ work' = [work EXCEPT ![c] = "queued"] /\ live' = live \cup {c}
        /\ UNCHANGED <<signalled, replies, page, outbox, toDaemon>>
    BY <1>12 DEF Extension!GrantConsumed, Extension!NoReply
  <2>2. \A d \in Calls : AnswerOf(d)'
    BY <1>1, <1>2, <2>1 DEF AnswersInv, AnswerOf
  <2> QED
    BY <1>1, <1>2, <2>1, <2>2 DEF AnswersInv
<1>13. ASSUME NEW c \in Calls, Extension!StartTool(c)
       PROVE  AnswersInv'
  <2>1. /\ work[c] = "queued" /\ work' = [work EXCEPT ![c] = "running"]
        /\ UNCHANGED <<live, signalled, replies, page, outbox, toDaemon>>
    BY <1>13 DEF Extension!StartTool, Extension!NoReply
  <2>2. \A d \in Calls : AnswerOf(d)'
    BY <1>1, <1>2, <2>1 DEF AnswersInv, AnswerOf
  <2> QED
    BY <1>1, <1>2, <2>1, <2>2 DEF AnswersInv
<1>14. ASSUME NEW c \in Calls, NEW ok \in BOOLEAN, Extension!EndTool(c, ok)
       PROVE  AnswersInv'
  <2>1. /\ work[c] \in {"queued", "running"} /\ work' = [work EXCEPT ![c] = "done"]
        /\ Extension!Answer(c, ok) /\ UNCHANGED <<signalled, page>>
    BY <1>14 DEF Extension!EndTool
  <2>2. /\ AnswersTyped' /\ live' = live \ {c}
        /\ replies' = IF c \in live THEN [replies EXCEPT ![c] = 1] ELSE replies
        /\ \A d \in Calls : Success(d) \in OnTheWay' =>
             Success(d) \in OnTheWay \/ (d = c /\ ok = TRUE /\ c \in live)
    BY <2>1, AnswerKeeps
  <2>3. \A d \in Calls : AnswerOf(d)'
    BY <1>1, <2>1, <2>2 DEF AnswersInv, AnswerOf
  <2> QED
    BY <1>1, <2>1, <2>2, <2>3 DEF AnswersInv
<1> QED
  BY <1>3, <1>4, <1>5, <1>6, <1>7, <1>8, <1>9, <1>10, <1>11, <1>12, <1>13, <1>14
     DEF Extension!ExecutorNext

\* A call that the extension has begun is answered once at most, and once when
\* it has ended; after its cancellation no success of it is on its way
\* (handleMessage, raceWithAbort, REQUEST_CANCEL).
THEOREM OneAnswer == ASSUME PathAssumption PROVE Spec => []AnsweredOnce
<1>1. Init => AnswersInv
  <2> SUFFICES ASSUME Init PROVE AnswersInv
    OBVIOUS
  <2> USE DEF Init, Extension!ExecutorInit
  <2>1. AnswersTyped
    BY DEF AnswersTyped, Sockets
  <2>2. OnTheWay = {}
    BY DEF OnTheWay, Outgoing, Members
  <2>3. \A c \in Calls : AnswerOf(c)
    BY <2>2 DEF AnswerOf
  <2> QED
    BY <2>1, <2>3 DEF AnswersInv
<1>2. PathAssumption /\ PathInv /\ AnswersInv /\ [Next]_vars => AnswersInv'
  <2> SUFFICES ASSUME PathAssumption, PathInv, AnswersInv, [Next]_vars PROVE AnswersInv'
    OBVIOUS
  <2>1. CASE UNCHANGED vars
    <3>1. UNCHANGED <<work, live, signalled, replies, page, outbox, toDaemon>>
      BY <2>1 DEF vars, executorVars
    <3>2. AnswersTyped' /\ page' \in Nat
      BY <3>1 DEF AnswersInv, AnswersTyped
    <3>3. OnTheWay' = OnTheWay
      BY <3>1 DEF OnTheWay, Outgoing, Members
    <3> QED
      BY <3>1, <3>2, <3>3, QuietKeeps DEF QuietStep
  <2> QED
    BY <2>1, AnswersDaemonStep, AnswersExtensionStep DEF Next
<1>3. AnswersInv => AnsweredOnce
  <2> SUFFICES ASSUME AnswersInv, NEW c \in Calls
               PROVE  /\ replies[c] <= 1
                      /\ work[c] = "done" => replies[c] = 1
                      /\ c \in signalled => \A q \in Outgoing : \A i \in DOMAIN q : q[i] # Daemon!ToolResult(c, TRUE)
    BY DEF AnsweredOnce
  <2>1. replies[c] \in {0, 1} /\ (work[c] = "done" => replies[c] = 1)
    BY DEF AnswersInv, AnswerOf
  <2>2. c \in signalled => Success(c) \notin OnTheWay
    BY DEF AnswersInv, AnswerOf
  <2>3. \A q \in Outgoing : \A i \in DOMAIN q : q[i] \in OnTheWay
    BY DEF OnTheWay, Members
  <2>4. Daemon!ToolResult(c, TRUE) = Success(c)
    BY DEF Success, Daemon!ToolResult
  <2>5. c \in signalled => \A q \in Outgoing : \A i \in DOMAIN q : q[i] # Daemon!ToolResult(c, TRUE)
    BY <2>2, <2>3, <2>4, Zenon
  <2>6. replies[c] <= 1
    BY <2>1
  <2> QED
    BY <2>1, <2>5, <2>6
<1> QED
  BY <1>1, <1>2, <1>3, PathInvariant, PTL DEF Spec
=============================================================================
