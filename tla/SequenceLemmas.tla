---------------------------- MODULE SequenceLemmas ----------------------------
(***************************************************************************)
(* Lemmas about the sequences the models are built from.  What is defined  *)
(* by recursion over a sequence is proved by its least counterexample.     *)
(***************************************************************************)
EXTENDS Selections, SequenceTheorems, WellFoundedInduction, TLAPS

\* A set of natural numbers has a least one.
LEMMA LeastOf ==
  ASSUME NEW S, S \subseteq Nat, S # {}
  PROVE  \E i \in S : \A j \in S : i <= j
<1> DEFINE less == OpToRel(<, Nat)
<1>1. \E i \in S : \A j \in S : <<j, i>> \notin less
  BY NatLessThanWellFounded, WFMin
<1>2. \A i, j \in Nat : j < i => <<j, i>> \in less
  BY DEF OpToRel
<1> HIDE DEF less
<1>3. PICK i \in S : \A j \in S : <<j, i>> \notin less
  BY <1>1
<1>4. \A j \in S : ~(j < i)
  BY <1>2, <1>3
<1> QED
  BY <1>4

\* A set that has 0, and with each number the next one, has them all.
LEMMA AllNumbers ==
  ASSUME NEW S, 0 \in S, \A n \in Nat : n \in S => n + 1 \in S
  PROVE  Nat \subseteq S
<1> SUFFICES ASSUME Nat \ S # {} PROVE FALSE
  OBVIOUS
<1>1. PICK i \in Nat \ S : \A j \in Nat \ S : i <= j
  BY LeastOf
<1>2. i # 0 /\ i \in Nat
  BY <1>1
<1>3. i - 1 \in Nat /\ i - 1 \in S
  BY <1>1, <1>2
<1> QED
  BY <1>1, <1>2, <1>3

-----------------------------------------------------------------------------
\* What the recursion of Filtered asks of its function on 0 .. n.
Selects(f, q, kept, n) ==
  f = [m \in 0 .. n |-> IF m = 0 THEN <<>>
                        ELSE IF m \in kept THEN Append(f[m - 1], q[m]) ELSE f[m - 1]]

\* There is such a function.
LEMMA SelectsExists ==
  ASSUME NEW q, NEW kept, NEW n \in Nat
  PROVE  \E f : Selects(f, q, kept, n)
<1> DEFINE S == {m \in Nat : \E f : Selects(f, q, kept, m)}
<1>1. 0 \in S
  <2>1. PICK f : f = [m \in 0 .. 0 |-> <<>>]
    OBVIOUS
  <2>2. Selects(f, q, kept, 0)
    BY <2>1 DEF Selects
  <2> QED
    BY <2>2
<1>2. ASSUME NEW m \in Nat, m \in S
      PROVE  m + 1 \in S
  <2>1. PICK f : Selects(f, q, kept, m)
    BY <1>2
  <2>2. PICK last : last = IF m + 1 \in kept THEN Append(f[m], q[m + 1]) ELSE f[m]
    OBVIOUS
  <2>3. PICK g : g = [k \in 0 .. m + 1 |-> IF k = m + 1 THEN last ELSE f[k]]
    OBVIOUS
  <2>4. \A k \in 0 .. m : g[k] = f[k] /\ k \in Nat
    BY <2>3
  <2>5. ASSUME NEW k \in 0 .. m + 1
        PROVE  g[k] = IF k = 0 THEN <<>> ELSE IF k \in kept THEN Append(g[k - 1], q[k]) ELSE g[k - 1]
    <3>1. CASE k = m + 1
      <4>1. k # 0 /\ k - 1 = m /\ m \in 0 .. m /\ g[k] = last
        BY <2>3, <3>1
      <4>2. g[k - 1] = f[m]
        BY <2>4, <4>1
      <4> QED
        BY <2>2, <3>1, <4>1, <4>2
    <3>2. CASE k # m + 1
      <4>1. k \in 0 .. m /\ (k # 0 => k - 1 \in 0 .. m)
        BY <3>2
      <4>2. f[k] = IF k = 0 THEN <<>> ELSE IF k \in kept THEN Append(f[k - 1], q[k]) ELSE f[k - 1]
        BY <2>1, <4>1 DEF Selects
      <4> QED
        BY <2>4, <4>1, <4>2
    <3> QED
      BY <3>1, <3>2
  <2>6. Selects(g, q, kept, m + 1)
    <3>1. g = [k \in 0 .. m + 1 |-> g[k]]
      BY <2>3
    <3> QED
      BY <2>5, <3>1 DEF Selects
  <2> QED
    BY <2>6
<1> HIDE DEF S
<1>3. Nat \subseteq S
  BY <1>1, <1>2, AllNumbers
<1> QED
  BY <1>3 DEF S

\* r has the members among the first n of q at the positions in kept, in their order.
IsFiltered(r, q, kept, n) ==
  \E at \in [1 .. Len(r) -> kept \cap (1 .. n)] :
    /\ \A i \in 1 .. Len(r) : r[i] = q[at[i]]
    /\ \A i, j \in 1 .. Len(r) : i < j => at[i] < at[j]
    /\ \A k \in kept \cap (1 .. n) : \E i \in 1 .. Len(r) : at[i] = k

\* r with one more member.
IsLonger(t, r, x) == t = Append(r, x)

\* One more member is kept.
LEMMA FilteredStep ==
  ASSUME NEW S, NEW r \in Seq(S), NEW n \in Nat, NEW q, NEW kept,
         NEW k, k = n + 1, k \in kept, q[k] \in S, IsFiltered(r, q, kept, n),
         NEW t, IsLonger(t, r, q[k])
  PROVE  t \in Seq(S) /\ Len(t) = Len(r) + 1 /\ IsFiltered(t, q, kept, k)
<1>1. PICK at \in [1 .. Len(r) -> kept \cap (1 .. n)] :
        /\ \A i \in 1 .. Len(r) : r[i] = q[at[i]]
        /\ \A i, j \in 1 .. Len(r) : i < j => at[i] < at[j]
        /\ \A h \in kept \cap (1 .. n) : \E i \in 1 .. Len(r) : at[i] = h
  BY DEF IsFiltered
<1>2. /\ t \in Seq(S) /\ Len(t) = Len(r) + 1 /\ Len(r) \in Nat
      /\ \A i \in 1 .. Len(r) : t[i] = r[i]
      /\ t[Len(r) + 1] = q[k]
  BY DEF IsLonger
<1>3. PICK too : too = [i \in 1 .. Len(r) + 1 |-> IF i = Len(r) + 1 THEN k ELSE at[i]]
  OBVIOUS
<1>4. /\ too[Len(r) + 1] = k
      /\ \A i \in 1 .. Len(r) : too[i] = at[i] /\ at[i] \in kept /\ at[i] \in 1 .. n
      /\ DOMAIN too = 1 .. Len(r) + 1
  BY <1>1, <1>2, <1>3
<1>5. \A i \in 1 .. Len(r) + 1 : i \in 1 .. Len(r) \/ i = Len(r) + 1
  BY <1>2
<1>6. too \in [1 .. Len(r) + 1 -> kept \cap (1 .. k)]
  <2>1. \A i \in 1 .. Len(r) + 1 : too[i] \in kept \cap (1 .. k)
    BY <1>4, <1>5
  <2> QED
    BY <1>3, <2>1
<1>7. \A i \in 1 .. Len(t) : t[i] = q[too[i]]
  BY <1>1, <1>2, <1>4, <1>5
<1>8. ASSUME NEW i \in 1 .. Len(t), NEW j \in 1 .. Len(t), i < j
      PROVE  too[i] < too[j]
  <2>1. i \in 1 .. Len(r)
    BY <1>2, <1>8
  <2>2. CASE j \in 1 .. Len(r)
    BY <1>1, <1>4, <1>8, <2>1, <2>2
  <2>3. CASE j = Len(r) + 1
    BY <1>4, <2>1, <2>3
  <2> QED
    BY <1>2, <1>5, <2>2, <2>3
<1>9. ASSUME NEW h \in kept \cap (1 .. k)
      PROVE  \E i \in 1 .. Len(t) : too[i] = h
  <2>1. CASE h = k
    BY <1>2, <1>4, <2>1
  <2>2. CASE h # k
    <3>1. h \in kept \cap (1 .. n)
      BY <2>2
    <3>2. PICK i \in 1 .. Len(r) : at[i] = h
      BY <1>1, <3>1
    <3> QED
      BY <1>2, <1>4, <3>2
  <2> QED
    BY <2>1, <2>2
<1>10. too \in [1 .. Len(t) -> kept \cap (1 .. k)]
  BY <1>2, <1>6
<1> QED
  BY <1>2, <1>7, <1>8, <1>9, <1>10 DEF IsFiltered

\* What Filtered computes.
LEMMA FilteredIs ==
  ASSUME NEW S, NEW q \in Seq(S), NEW kept
  PROVE  /\ Filtered(q, kept) \in Seq(S)
         /\ Len(Filtered(q, kept)) <= Len(q)
         /\ IsFiltered(Filtered(q, kept), q, kept, Len(q))
<1>1. Len(q) \in Nat /\ DOMAIN q = 1 .. Len(q) /\ \A k \in 1 .. Len(q) : q[k] \in S
  OBVIOUS
<1>2. PICK f : Selects(f, q, kept, Len(q)) /\ Filtered(q, kept) = f[Len(q)]
  <2>1. \E f : Selects(f, q, kept, Len(q))
    BY <1>1, SelectsExists
  <2>2. PICK f : f = CHOOSE g : Selects(g, q, kept, Len(q))
    OBVIOUS
  <2>3. Selects(f, q, kept, Len(q))
    BY <2>1, <2>2
  <2>4. Filtered(q, kept) = f[Len(q)]
    BY <2>2, Zenon DEF Filtered, Selects
  <2> QED
    BY <2>3, <2>4
<1> DEFINE Good(r, n) == r \in Seq(S) /\ Len(r) <= n /\ IsFiltered(r, q, kept, n)
           T == {n \in Nat : n <= Len(q) => Good(f[n], n)}
<1>3. 0 \in T
  <2>1. f[0] = <<>>
    BY <1>1, <1>2 DEF Selects
  <2>2. PICK r : r = <<>>
    OBVIOUS
  <2>3. r \in Seq(S) /\ Len(r) = 0 /\ 1 .. Len(r) = {} /\ 1 .. 0 = {}
    BY <2>2
  <2>4. PICK at : at = [i \in 1 .. Len(r) |-> 1]
    OBVIOUS
  <2>5. at \in [1 .. Len(r) -> kept \cap (1 .. 0)]
    BY <2>3, <2>4
  <2>6. IsFiltered(r, q, kept, 0)
    <3>1. \A k \in kept \cap (1 .. 0) : FALSE
      BY <2>3
    <3>2. \A i \in 1 .. Len(r) : FALSE
      BY <2>3
    <3> QED
      BY <2>5, <3>1, <3>2, Zenon DEF IsFiltered
  <2>7. Good(f[0], 0)
    <3>1. Len(r) <= 0
      BY <2>3
    <3>2. Good(r, 0)
      BY <2>3, <2>6, <3>1
    <3> QED
      BY <2>1, <2>2, <3>2
  <2> QED
    BY <2>7
<1>4. ASSUME NEW n \in Nat, n \in T
      PROVE  n + 1 \in T
  <2> SUFFICES ASSUME n + 1 <= Len(q) PROVE Good(f[n + 1], n + 1)
    OBVIOUS
  <2>1. n <= Len(q) /\ n + 1 \in 0 .. Len(q) /\ n + 1 \in 1 .. Len(q) /\ n + 1 # 0 /\ (n + 1) - 1 = n
    BY <1>1
  <2>2. Good(f[n], n)
    BY <1>4, <2>1
  <2>3. f[n + 1] = IF n + 1 \in kept THEN Append(f[n], q[n + 1]) ELSE f[n]
    BY <1>2, <2>1 DEF Selects
  <2>4. q[n + 1] \in S
    BY <1>1, <2>1
  <2>5. CASE n + 1 \in kept
    <3>1. f[n] \in Seq(S) /\ Len(f[n]) <= n /\ IsFiltered(f[n], q, kept, n) /\ f[n + 1] = Append(f[n], q[n + 1])
      BY <2>2, <2>3, <2>5
    <3>2. f[n + 1] \in Seq(S) /\ Len(f[n + 1]) = Len(f[n]) + 1 /\ IsFiltered(f[n + 1], q, kept, n + 1)
      <4>1. PICK r, t : r = f[n] /\ t = f[n + 1]
        OBVIOUS
      <4>2. PICK k : k = n + 1
        OBVIOUS
      <4>3. r \in Seq(S) /\ IsFiltered(r, q, kept, n) /\ IsLonger(t, r, q[k]) /\ k \in kept /\ q[k] \in S
        BY <2>4, <2>5, <3>1, <4>1, <4>2 DEF IsLonger
      <4>4. t \in Seq(S) /\ Len(t) = Len(r) + 1 /\ IsFiltered(t, q, kept, k)
        BY <1>4, <4>2, <4>3, FilteredStep
      <4> QED
        BY <4>1, <4>2, <4>4
    <3> QED
      BY <3>1, <3>2
  <2>6. CASE n + 1 \notin kept
    <3>1. kept \cap (1 .. n) = kept \cap (1 .. n + 1)
      <4>1. \A k \in 1 .. n + 1 : k \in 1 .. n \/ k = n + 1
        OBVIOUS
      <4>2. \A k \in 1 .. n : k \in 1 .. n + 1
        OBVIOUS
      <4> QED
        BY <2>6, <4>1, <4>2
    <3>2. Len(f[n]) <= n + 1
      BY <2>2
    <3>3. IsFiltered(f[n], q, kept, n + 1)
      BY <2>2, <3>1 DEF IsFiltered
    <3> QED
      BY <2>2, <2>3, <2>6, <3>2, <3>3
  <2> QED
    BY <2>5, <2>6
<1>5. Good(f[Len(q)], Len(q))
  <2> HIDE DEF Good
  <2>1. Nat \subseteq T
    <3> HIDE DEF T
    <3> QED
      BY <1>3, <1>4, AllNumbers
  <2>2. Len(q) \in T
    BY <1>1, <2>1
  <2> QED
    BY <1>1, <2>2
<1> QED
  BY <1>2, <1>5

-----------------------------------------------------------------------------
\* The members of a sequence, wherever they stand.
Members(q) == {q[i] : i \in DOMAIN q}

\* The members of a sequence with one more.
LEMMA LongerMembers ==
  ASSUME NEW S, NEW q \in Seq(S), NEW x \in S, NEW r, IsLonger(r, q, x)
  PROVE  r \in Seq(S) /\ Len(r) = Len(q) + 1 /\ Members(r) = Members(q) \cup {x}
<1>1. /\ r \in Seq(S) /\ Len(r) = Len(q) + 1 /\ Len(q) \in Nat
      /\ DOMAIN q = 1 .. Len(q) /\ DOMAIN r = 1 .. Len(q) + 1
      /\ \A i \in 1 .. Len(q) : r[i] = q[i]
      /\ r[Len(q) + 1] = x
  BY DEF IsLonger
<1>2. \A i \in DOMAIN r : i \in DOMAIN q \/ i = Len(q) + 1
  BY <1>1
<1>3. DOMAIN q \subseteq DOMAIN r /\ Len(q) + 1 \in DOMAIN r
  BY <1>1
<1>4. Members(r) = Members(q) \cup {x}
  BY <1>1, <1>2, <1>3 DEF Members
<1> QED
  BY <1>1, <1>4

\* r is p and behind it q.
IsJoined(r, p, q) == r = p \o q

\* The members of two sequences, one behind the other.
LEMMA JoinedMembers ==
  ASSUME NEW S, NEW p \in Seq(S), NEW q \in Seq(S), NEW r, IsJoined(r, p, q)
  PROVE  r \in Seq(S) /\ Len(r) = Len(p) + Len(q) /\ Members(r) = Members(p) \cup Members(q)
<1>1. /\ r \in Seq(S) /\ Len(r) = Len(p) + Len(q) /\ Len(p) \in Nat /\ Len(q) \in Nat
      /\ DOMAIN p = 1 .. Len(p) /\ DOMAIN q = 1 .. Len(q) /\ DOMAIN r = 1 .. Len(p) + Len(q)
      /\ \A i \in 1 .. Len(p) + Len(q) : r[i] = IF i <= Len(p) THEN p[i] ELSE q[i - Len(p)]
  BY ConcatProperties DEF IsJoined
<1>2. \A i \in DOMAIN p : i \in DOMAIN r /\ r[i] = p[i]
  BY <1>1
<1>3. \A i \in DOMAIN q : i + Len(p) \in DOMAIN r /\ r[i + Len(p)] = q[i]
  BY <1>1
<1>4. \A i \in DOMAIN r : (i \in DOMAIN p /\ r[i] = p[i]) \/ (i - Len(p) \in DOMAIN q /\ r[i] = q[i - Len(p)])
  BY <1>1
<1>5. Members(r) \subseteq Members(p) \cup Members(q)
  BY <1>4 DEF Members
<1>6. Members(p) \subseteq Members(r)
  BY <1>2 DEF Members
<1>7. Members(q) \subseteq Members(r)
  BY <1>3 DEF Members
<1> QED
  BY <1>1, <1>5, <1>6, <1>7

\* r is q without its first member.
IsTail(r, q) == q # <<>> /\ r = Tail(q)

\* What the first member leaves.
LEMMA TailMembers ==
  ASSUME NEW S, NEW q \in Seq(S), NEW r, IsTail(r, q)
  PROVE  r \in Seq(S) /\ Len(r) = Len(q) - 1 /\ Head(q) \in S /\ Members(q) = Members(r) \cup {Head(q)}
<1>1. /\ r \in Seq(S) /\ Len(r) = Len(q) - 1 /\ Len(q) \in Nat \ {0}
      /\ DOMAIN q = 1 .. Len(q) /\ DOMAIN r = 1 .. Len(q) - 1
      /\ \A i \in 1 .. Len(q) - 1 : r[i] = q[i + 1]
      /\ Head(q) = q[1] /\ Head(q) \in S
  BY DEF IsTail
<1>2. \A i \in DOMAIN r : i + 1 \in DOMAIN q /\ r[i] = q[i + 1]
  BY <1>1
<1>3. \A i \in DOMAIN q : i = 1 \/ (i - 1 \in DOMAIN r /\ q[i] = r[i - 1])
  BY <1>1
<1>4. 1 \in DOMAIN q
  BY <1>1
<1>5. Members(r) \subseteq Members(q)
  BY <1>2 DEF Members
<1>6. Members(q) \subseteq Members(r) \cup {Head(q)}
  BY <1>1, <1>3 DEF Members
<1>7. Head(q) \in Members(q)
  BY <1>1, <1>4 DEF Members
<1> QED
  BY <1>1, <1>5, <1>6, <1>7

\* Sequences of one and of two members.
LEMMA OneMember ==
  ASSUME NEW S, NEW x \in S
  PROVE  <<x>> \in Seq(S) /\ Len(<<x>>) = 1 /\ Members(<<x>>) = {x}
<1>1. <<x>> \in Seq(S) /\ Len(<<x>>) = 1 /\ DOMAIN <<x>> = {1} /\ <<x>>[1] = x
  OBVIOUS
<1> QED
  BY <1>1 DEF Members

LEMMA TwoMembers ==
  ASSUME NEW S, NEW x \in S, NEW y \in S
  PROVE  <<x, y>> \in Seq(S) /\ Len(<<x, y>>) = 2 /\ Members(<<x, y>>) = {x, y}
<1>1. <<x, y>> \in Seq(S) /\ Len(<<x, y>>) = 2 /\ DOMAIN <<x, y>> = {1, 2} /\ <<x, y>>[1] = x /\ <<x, y>>[2] = y
  OBVIOUS
<1> QED
  BY <1>1 DEF Members

\* What is kept is all that Filtered returns.
LEMMA FilteredMembers ==
  ASSUME NEW S, NEW q \in Seq(S), NEW kept
  PROVE  Filtered(q, kept) \in Seq(S) /\ Members(Filtered(q, kept)) = {q[k] : k \in kept \cap DOMAIN q}
<1>1. PICK r : r = Filtered(q, kept)
  OBVIOUS
<1>2. r \in Seq(S) /\ IsFiltered(r, q, kept, Len(q))
  BY <1>1, FilteredIs
<1>3. DOMAIN q = 1 .. Len(q) /\ DOMAIN r = 1 .. Len(r)
  BY <1>2
<1>4. PICK at \in [1 .. Len(r) -> kept \cap (1 .. Len(q))] :
        /\ \A i \in 1 .. Len(r) : r[i] = q[at[i]]
        /\ \A k \in kept \cap (1 .. Len(q)) : \E i \in 1 .. Len(r) : at[i] = k
  BY <1>2 DEF IsFiltered
<1>5. \A i \in DOMAIN r : at[i] \in kept \cap DOMAIN q /\ r[i] = q[at[i]]
  BY <1>3, <1>4
<1>6. \A k \in kept \cap DOMAIN q : \E i \in DOMAIN r : r[i] = q[k]
  BY <1>3, <1>4
<1>7. Members(r) = {q[k] : k \in kept \cap DOMAIN q}
  BY <1>5, <1>6 DEF Members
<1> QED
  BY <1>1, <1>2, <1>7

-----------------------------------------------------------------------------
\* What the recursion of Flattened asks of its function on 0 .. n.
Flattens(f, parts, n) ==
  f = [m \in 0 .. n |-> IF m = 0 THEN <<>> ELSE f[m - 1] \o parts[m]]

\* There is such a function.
LEMMA FlattensExists ==
  ASSUME NEW parts, NEW n \in Nat
  PROVE  \E f : Flattens(f, parts, n)
<1> DEFINE S == {m \in Nat : \E f : Flattens(f, parts, m)}
<1>1. 0 \in S
  <2>1. PICK f : f = [m \in 0 .. 0 |-> <<>>]
    OBVIOUS
  <2>2. Flattens(f, parts, 0)
    BY <2>1 DEF Flattens
  <2> QED
    BY <2>2
<1>2. ASSUME NEW m \in Nat, m \in S
      PROVE  m + 1 \in S
  <2>1. PICK f : Flattens(f, parts, m)
    BY <1>2
  <2>2. PICK last : last = f[m] \o parts[m + 1]
    OBVIOUS
  <2>3. PICK g : g = [k \in 0 .. m + 1 |-> IF k = m + 1 THEN last ELSE f[k]]
    OBVIOUS
  <2>4. \A k \in 0 .. m : g[k] = f[k] /\ k \in Nat
    BY <2>3
  <2>5. ASSUME NEW k \in 0 .. m + 1
        PROVE  g[k] = IF k = 0 THEN <<>> ELSE g[k - 1] \o parts[k]
    <3>1. CASE k = m + 1
      <4>1. k # 0 /\ k - 1 = m /\ m \in 0 .. m /\ g[k] = last
        BY <2>3, <3>1
      <4>2. g[k - 1] = f[m]
        BY <2>4, <4>1
      <4> QED
        BY <2>2, <3>1, <4>1, <4>2
    <3>2. CASE k # m + 1
      <4>1. k \in 0 .. m /\ (k # 0 => k - 1 \in 0 .. m)
        BY <3>2
      <4>2. f[k] = IF k = 0 THEN <<>> ELSE f[k - 1] \o parts[k]
        BY <2>1, <4>1 DEF Flattens
      <4> QED
        BY <2>4, <4>1, <4>2
    <3> QED
      BY <3>1, <3>2
  <2>6. Flattens(g, parts, m + 1)
    <3>1. g = [k \in 0 .. m + 1 |-> g[k]]
      BY <2>3
    <3> QED
      BY <2>5, <3>1 DEF Flattens
  <2> QED
    BY <2>6
<1> HIDE DEF S
<1>3. Nat \subseteq S
  BY <1>1, <1>2, AllNumbers
<1> QED
  BY <1>3 DEF S

\* Flattened is the last of the sequences that grow part by part.
LEMMA FlattenedIs ==
  ASSUME NEW parts, Len(parts) \in Nat
  PROVE  \E f : /\ Flattened(parts) = f[Len(parts)] /\ f[0] = <<>>
                /\ \A m \in 1 .. Len(parts) : IsJoined(f[m], f[m - 1], parts[m])
<1>1. \E f : Flattens(f, parts, Len(parts))
  BY FlattensExists
<1>2. PICK f : f = CHOOSE g : Flattens(g, parts, Len(parts))
  OBVIOUS
<1>3. Flattens(f, parts, Len(parts))
  BY <1>1, <1>2
<1>4. Flattened(parts) = f[Len(parts)]
  BY <1>2, Zenon DEF Flattened, Flattens
<1>5. f[0] = <<>> /\ \A m \in 1 .. Len(parts) : f[m] = f[m - 1] \o parts[m]
  <2>1. 0 \in 0 .. Len(parts) /\ \A m \in 1 .. Len(parts) : m \in 0 .. Len(parts) /\ m # 0
    OBVIOUS
  <2> QED
    BY <1>3, <2>1 DEF Flattens
<1> QED
  BY <1>4, <1>5 DEF IsJoined
=============================================================================
