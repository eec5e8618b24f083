-------------------------- MODULE MqttClientProofs --------------------------
(***************************************************************************)
(* Theorems about MqttClient, for every number of subscriptions, messages  *)
(* and lost connections: every variable keeps its type, and the QoS 2      *)
(* handshake implements PublishLink, the link that Publisher is built on;  *)
(* and about MqttParser, for every stream of packets and every way to cut  *)
(* it: the parser finds the packets, and handles every message as sent.    *)
(*                                                                         *)
(* What is selected from a sequence, a length with its digits and the      *)
(* bytes of a stream are recursive functions, so the module starts with    *)
(* induction over the natural numbers: a set of numbers that is not all of *)
(* them leaves out a smallest one (WFMin).                                 *)
(***************************************************************************)
EXTENDS MqttClient, MqttParser, SequenceTheorems, WellFoundedInduction, TLAPS

(* The pairs of numbers in order.                                          *)
Less == {p \in Nat \X Nat : p[1] < p[2]}

(* The order of the numbers is well-founded.                               *)
LEMMA LessWF == IsWellFoundedOn(Less, Nat)
  BY NatLessThanWellFounded DEF OpToRel, Less

(* Every set of numbers that is not empty has a smallest one.              *)
LEMMA Smallest ==
  ASSUME NEW S \in SUBSET Nat, S # {}
  PROVE  \E m \in S : \A n \in S : m <= n
<1>1. \E m \in S : \A n \in S : ~ (<<n, m>> \in Less)
  <2>. HIDE DEF Less
  <2>. QED  BY LessWF, WFMin
<1>2. \A m, n \in Nat : <<n, m>> \in Less <=> n < m
  <2>. TAKE m, n \in Nat
  <2>1. <<n, m>> \in Nat \X Nat /\ <<n, m>>[1] = n /\ <<n, m>>[2] = m
    OBVIOUS
  <2>. QED
    BY <2>1 DEF Less
<1>. HIDE DEF Less
<1>3. \A m, n \in Nat : ~ (n < m) => m <= n
  OBVIOUS
<1>. QED
  BY <1>1, <1>2, <1>3

(* A set that has 0, and with each number the next, has every number.      *)
LEMMA Induction ==
  ASSUME NEW T \in SUBSET Nat, 0 \in T, \A n \in T : n + 1 \in T
  PROVE  T = Nat
<1>1. SUFFICES ASSUME Nat \ T # {} PROVE FALSE
  OBVIOUS
<1>2. PICK m \in Nat \ T : \A n \in Nat \ T : m <= n
  BY <1>1, Smallest
<1>. QED
  BY <1>2

(* f starts at a, and goes on by F.                                        *)
Follows(f, a, F) == f[0] = a /\ \A n \in Nat : f[n + 1] = F[n][f[n]]

(* What starts at a and goes on from each value by F is a function.        *)
LEMMA Recursion ==
  ASSUME NEW V, NEW a \in V, NEW F \in [Nat -> [V -> V]]
  PROVE  \E f \in [Nat -> V] : Follows(f, a, F)
<1> DEFINE Good(g, n) == /\ g \in [0 .. n -> V] /\ g[0] = a
                         /\ \A i \in 0 .. n : i < n => g[i + 1] = F[i][g[i]]
           T == {n \in Nat : \E g \in [0 .. n -> V] : Good(g, n)}
<1>1. T = Nat
  <2>1. 0 \in T
    <3>1. Good([i \in 0 .. 0 |-> a], 0)
      OBVIOUS
    <3>. QED
      BY <3>1
  <2>2. ASSUME NEW n \in T PROVE n + 1 \in T
    <3>1. n \in Nat /\ n + 1 \in Nat
      OBVIOUS
    <3>2. PICK g \in [0 .. n -> V] : Good(g, n)
      OBVIOUS
    <3> DEFINE h == [i \in 0 .. n + 1 |-> IF i <= n THEN g[i] ELSE F[n][g[n]]]
    <3>3. g[n] \in V /\ F[n][g[n]] \in V
      BY <3>1, <3>2
    <3>4. h \in [0 .. n + 1 -> V] /\ h[0] = a
      BY <3>1, <3>2, <3>3
    <3>5. \A i \in 0 .. n + 1 : i < n + 1 => h[i + 1] = F[i][h[i]]
      <4>. TAKE i \in 0 .. n + 1
      <4>. HAVE i < n + 1
      <4>1. CASE i = n
        BY <4>1, <3>1, <3>2
      <4>2. CASE i < n
        <5>1. i \in 0 .. n /\ i + 1 \in 0 .. n + 1 /\ i + 1 <= n
          BY <4>2, <3>1
        <5>2. g[i + 1] = F[i][g[i]]
          BY <5>1, <4>2, <3>2
        <5>3. h[i + 1] = g[i + 1] /\ h[i] = g[i]
          BY <5>1, <4>2, <3>1
        <5>. QED
          BY <5>2, <5>3
      <4>. QED
        BY <4>1, <4>2, <3>1
    <3>6. Good(h, n + 1)
      BY <3>4, <3>5
    <3>. HIDE DEF h, Good
    <3>. QED
      BY <3>1, <3>4, <3>6
  <2>. HIDE DEF T
  <2>3. T \in SUBSET Nat
    BY DEF T
  <2>. QED
    BY <2>1, <2>2, <2>3, Induction
<1>2. ASSUME NEW n \in Nat, NEW m \in Nat, n <= m, NEW g, NEW h, Good(g, n), Good(h, m)
      PROVE  g[n] = h[n]
  <2> DEFINE A == {i \in Nat : i <= n => g[i] = h[i]}
  <2>1. 0 \in A
    BY <1>2
  <2>2. ASSUME NEW i \in A PROVE i + 1 \in A
    <3>1. i \in Nat /\ (i <= n => g[i] = h[i])
      OBVIOUS
    <3>2. SUFFICES ASSUME i + 1 <= n PROVE g[i + 1] = h[i + 1]
      BY <3>1
    <3>3. i \in 0 .. n /\ i < n /\ i \in 0 .. m /\ i < m /\ i <= n
      BY <3>1, <3>2, <1>2
    <3>4. g[i + 1] = F[i][g[i]] /\ h[i + 1] = F[i][h[i]]
      BY <3>3, <1>2
    <3>. QED
      BY <3>1, <3>3, <3>4
  <2>3. A = Nat
    <3>. HIDE DEF A
    <3>1. A \in SUBSET Nat
      BY DEF A
    <3>. QED
      BY <2>1, <2>2, <3>1, Induction
  <2>. QED
    BY <1>2, <2>3
<1> DEFINE G(n) == CHOOSE g \in [0 .. n -> V] : Good(g, n)
           f == [n \in Nat |-> G(n)[n]]
<1>3. ASSUME NEW n \in Nat PROVE Good(G(n), n)
  <2>1. \E g \in [0 .. n -> V] : Good(g, n)
    BY <1>1
  <2>. HIDE DEF Good
  <2>. QED
    BY <2>1
<1>4. f \in [Nat -> V]
  <2>1. ASSUME NEW n \in Nat PROVE G(n)[n] \in V
    <3>. HIDE DEF G
    <3>. QED
      BY <1>3
  <2>. HIDE DEF G
  <2>. QED
    BY <2>1
<1>5. f[0] = a
  <2>. HIDE DEF G
  <2>. QED
    BY <1>3
<1>6. ASSUME NEW n \in Nat PROVE f[n + 1] = F[n][f[n]]
  <2>1. n + 1 \in Nat /\ Good(G(n + 1), n + 1) /\ Good(G(n), n)
    <3>. HIDE DEF G, Good
    <3>. QED
      BY <1>3
  <2>2. G(n)[n] = G(n + 1)[n]
    <3>. HIDE DEF G, Good
    <3>. QED
      BY <1>2, <2>1
  <2>3. G(n + 1)[n + 1] = F[n][G(n + 1)[n]]
    <3>. HIDE DEF G
    <3>. QED
      BY <2>1
  <2>. HIDE DEF G
  <2>. QED
    BY <2>1, <2>2, <2>3
<1>. HIDE DEF f
<1>7. Follows(f, a, F)
  BY <1>5, <1>6 DEF Follows
<1>. QED
  BY <1>4, <1>7

-----------------------------------------------------------------------------
(* What Selected does with a sequence that grows or shrinks.               *)
Selects(f, s, t) ==
  /\ f[0] = <<>>
  /\ \A n \in Nat : n < Len(s) =>
       f[n + 1] = IF s[n + 1].type = t THEN Append(f[n], s[n + 1]) ELSE f[n]

(* Selected is computed along the sequence, one packet a step.             *)
LEMMA SelectedBy ==
  ASSUME NEW S, NEW s \in Seq(S), NEW t
  PROVE  \E f \in [0 .. Len(s) -> Seq(S)] : Selects(f, s, t) /\ Selected(s, t) = f[Len(s)]
<1> DEFINE F == [n \in Nat |-> [q \in Seq(S) |->
                   IF n < Len(s) /\ s[n + 1].type = t THEN Append(q, s[n + 1]) ELSE q]]
           D(g) == [n \in 0 .. Len(s) |->
                      IF n = 0 THEN <<>>
                      ELSE IF s[n].type = t THEN Append(g[n - 1], s[n])
                      ELSE g[n - 1]]
<1>1. F \in [Nat -> [Seq(S) -> Seq(S)]]
  <2>1. ASSUME NEW q \in Seq(S), NEW n \in Nat, n < Len(s) PROVE Append(q, s[n + 1]) \in Seq(S)
    BY <2>1
  <2>. QED
    BY <2>1
<1>2. <<>> \in Seq(S)
  OBVIOUS
<1>3. PICK g \in [Nat -> Seq(S)] : g[0] = <<>> /\ \A n \in Nat : g[n + 1] = F[n][g[n]]
  <2> DEFINE V == Seq(S)
             none == <<>>
  <2>1. none \in V /\ F \in [Nat -> [V -> V]]
    BY <1>1, <1>2
  <2>. HIDE DEF F, V, none
  <2>2. \E g \in [Nat -> V] : Follows(g, none, F)
    BY <2>1, Recursion
  <2>. QED
    BY <2>2 DEF V, none, Follows
<1> DEFINE h == [n \in 0 .. Len(s) |-> g[n]]
<1>4. h = D(h)
  <2>1. ASSUME NEW n \in 0 .. Len(s), n # 0
        PROVE  h[n] = IF s[n].type = t THEN Append(h[n - 1], s[n]) ELSE h[n - 1]
    <3>1. n - 1 \in Nat /\ n - 1 \in 0 .. Len(s) /\ n - 1 < Len(s) /\ (n - 1) + 1 = n
      BY <2>1
    <3>2. g[n] = F[n - 1][g[n - 1]]
      <4>. HIDE DEF F
      <4>. QED
        BY <1>3, <3>1
    <3>3. F[n - 1][g[n - 1]] = IF s[n].type = t THEN Append(g[n - 1], s[n]) ELSE g[n - 1]
      BY <3>1
    <3>4. h[n] = g[n] /\ h[n - 1] = g[n - 1]
      BY <3>1
    <3>. QED
      BY <3>2, <3>3, <3>4
  <2>2. 0 \in 0 .. Len(s) /\ h[0] = <<>>
    BY <1>3
  <2>. QED
    BY <2>1, <2>2
<1> DEFINE f == CHOOSE x : x = D(x)
<1>5. f = D(f)
  <2>. HIDE DEF D, h
  <2>. QED
    BY <1>4
<1>6. Selected(s, t) = f[Len(s)]
  BY DEF Selected
<1>. HIDE DEF f
<1>7. Selects(f, s, t)
  <2>1. f[0] = <<>>
    BY <1>5
  <2>2. ASSUME NEW n \in Nat, n < Len(s)
        PROVE  f[n + 1] = IF s[n + 1].type = t THEN Append(f[n], s[n + 1]) ELSE f[n]
    <3>1. n + 1 \in 0 .. Len(s) /\ n + 1 # 0 /\ (n + 1) - 1 = n
      BY <2>2
    <3>2. f[n + 1] = D(f)[n + 1]
      <4>. HIDE DEF D
      <4>. QED
        BY <1>5
    <3>. QED
      BY <3>1, <3>2
  <2>. QED
    BY <2>1, <2>2 DEF Selects
<1>8. \A n \in Nat : n <= Len(s) => f[n] \in Seq(S)
  <2> DEFINE T == {n \in Nat : n <= Len(s) => f[n] \in Seq(S)}
  <2>1. 0 \in T
    <3>1. f[0] \in Seq(S)
      BY <1>2, <1>7 DEF Selects
    <3>. QED
      BY <3>1
  <2>2. ASSUME NEW n \in T PROVE n + 1 \in T
    <3>1. SUFFICES ASSUME n + 1 <= Len(s) PROVE f[n + 1] \in Seq(S)
      OBVIOUS
    <3>2. n \in Nat /\ n < Len(s) /\ f[n] \in Seq(S) /\ s[n + 1] \in S
      <4>. HIDE DEF F, D, h
      <4>1. n \in Nat /\ (n <= Len(s) => f[n] \in Seq(S))
        OBVIOUS
      <4>2. n < Len(s) /\ n + 1 \in 1 .. Len(s)
        BY <3>1, <4>1
      <4>. QED
        BY <4>1, <4>2
    <3>3. Append(f[n], s[n + 1]) \in Seq(S)
      BY <3>2
    <3>. QED
      BY <3>2, <3>3, <1>7 DEF Selects
  <2>3. T = Nat
    <3>1. T \in SUBSET Nat
      OBVIOUS
    <3>. HIDE DEF T
    <3>. QED
      BY <2>1, <2>2, <3>1, Induction
  <2>. QED
    BY <2>3
<1>9. f \in [0 .. Len(s) -> Seq(S)]
  <2>1. f = [n \in 0 .. Len(s) |-> f[n]]
    BY <1>5
  <2>2. \A n \in 0 .. Len(s) : f[n] \in Seq(S)
    BY <1>8
  <2>. HIDE DEF D
  <2>. QED
    BY <2>1, <2>2
<1>. QED
  BY <1>6, <1>7, <1>9

(* Sequences that agree on their first packets select the same from them.  *)
LEMMA SelectedAgree ==
  ASSUME NEW S, NEW s \in Seq(S), NEW r \in Seq(S), NEW t, NEW f, Selects(f, s, t),
         NEW g, Selects(g, r, t), NEW n \in Nat, n <= Len(s), n <= Len(r),
         \A i \in 1 .. n : s[i] = r[i]
  PROVE  f[n] = g[n]
<1> DEFINE T == {k \in Nat : k <= n => f[k] = g[k]}
<1>1. 0 \in T
  BY DEF Selects
<1>2. ASSUME NEW k \in T PROVE k + 1 \in T
  <2>1. SUFFICES ASSUME k + 1 <= n PROVE f[k + 1] = g[k + 1]
    OBVIOUS
  <2>2. k \in Nat /\ k < Len(s) /\ k < Len(r) /\ k + 1 \in 1 .. n /\ f[k] = g[k]
    BY <2>1
  <2>3. s[k + 1] = r[k + 1]
    BY <2>2
  <2>. QED
    BY <2>2, <2>3 DEF Selects
<1>3. T = Nat
  <2>1. T \in SUBSET Nat
    OBVIOUS
  <2>. HIDE DEF T
  <2>. QED
    BY <1>1, <1>2, <2>1, Induction
<1>. QED
  BY <1>3

(* What is selected are packets of the sequence.                           *)
LEMMA SelectedSeq ==
  ASSUME NEW S, NEW s \in Seq(S), NEW t
  PROVE  Selected(s, t) \in Seq(S)
<1>1. PICK f \in [0 .. Len(s) -> Seq(S)] : Selects(f, s, t) /\ Selected(s, t) = f[Len(s)]
  BY SelectedBy
<1>. QED
  BY <1>1

(* Nothing is selected from nothing.                                       *)
LEMMA SelectedNothing == \A t : Selected(<<>>, t) = <<>>
<1>. TAKE t
<1> DEFINE s == <<>>
<1>1. s \in Seq({}) /\ Len(s) = 0
  OBVIOUS
<1>. HIDE DEF s
<1>2. PICK f \in [0 .. Len(s) -> Seq({})] : Selects(f, s, t) /\ Selected(s, t) = f[Len(s)]
  BY <1>1, SelectedBy
<1>3. Selected(s, t) = <<>>
  BY <1>1, <1>2 DEF Selects
<1>. QED
  BY <1>3 DEF s

(* A sequence one longer selects its last packet, or no more than before.  *)
LEMMA SelectedOneMore ==
  ASSUME NEW S, NEW s \in Seq(S), NEW r \in Seq(S), NEW t, Len(r) = Len(s) + 1,
         \A i \in 1 .. Len(s) : s[i] = r[i]
  PROVE  Selected(r, t) = IF r[Len(r)].type = t THEN Append(Selected(s, t), r[Len(r)])
                          ELSE Selected(s, t)
<1> DEFINE n == Len(s)
<1>1. PICK f \in [0 .. Len(s) -> Seq(S)] : Selects(f, s, t) /\ Selected(s, t) = f[Len(s)]
  BY SelectedBy
<1>2. PICK g \in [0 .. Len(r) -> Seq(S)] : Selects(g, r, t) /\ Selected(r, t) = g[Len(r)]
  BY SelectedBy
<1>3. f[n] = g[n]
  BY <1>1, <1>2, SelectedAgree
<1>4. n \in Nat /\ n < Len(r) /\ n + 1 = Len(r)
  OBVIOUS
<1>. HIDE DEF n
<1>5. g[n + 1] = IF r[n + 1].type = t THEN Append(g[n], r[n + 1]) ELSE g[n]
  BY <1>2, <1>4 DEF Selects
<1>. QED
  BY <1>1, <1>2, <1>3, <1>4, <1>5 DEF n

(* The same, of a packet that is appended.                                 *)
LEMMA SelectedAppend ==
  ASSUME NEW S, NEW s \in Seq(S), NEW e \in S, NEW t
  PROVE  Selected(Append(s, e), t) =
           IF e.type = t THEN Append(Selected(s, t), e) ELSE Selected(s, t)
<1> DEFINE r == Append(s, e)
<1>1. r \in Seq(S)
  BY AppendProperties
<1>2. Len(r) = Len(s) + 1
  BY AppendProperties
<1>3. \A i \in 1 .. Len(s) : s[i] = r[i]
  BY AppendProperties
<1>4. r[Len(r)] = e
  BY <1>2, AppendProperties
<1>. HIDE DEF r
<1>5. Selected(r, t) = IF r[Len(r)].type = t THEN Append(Selected(s, t), r[Len(r)])
                       ELSE Selected(s, t)
  BY <1>1, <1>2, <1>3, SelectedOneMore
<1>. QED
  BY <1>4, <1>5 DEF r

(* Nothing of the type comes after the first n.                            *)
LEMMA SelectedBefore ==
  ASSUME NEW S, NEW s \in Seq(S), NEW r \in Seq(S), NEW t, Len(s) <= Len(r),
         \A i \in 1 .. Len(s) : r[i] = s[i],
         \A i \in 1 .. Len(r) : i > Len(s) => r[i].type # t
  PROVE  Selected(r, t) = Selected(s, t)
<1> DEFINE n == Len(s)
<1>1. PICK f \in [0 .. Len(s) -> Seq(S)] : Selects(f, s, t) /\ Selected(s, t) = f[Len(s)]
  BY SelectedBy
<1>2. PICK g \in [0 .. Len(r) -> Seq(S)] : Selects(g, r, t) /\ Selected(r, t) = g[Len(r)]
  BY SelectedBy
<1>3. f[n] = g[n]
  <2>1. n \in Nat /\ n <= Len(s) /\ n <= Len(r) /\ \A i \in 1 .. n : s[i] = r[i]
    OBVIOUS
  <2>2. Selects(f, s, t) /\ Selects(g, r, t)
    BY <1>1, <1>2
  <2>. HIDE DEF n
  <2>. QED
    BY <2>1, <2>2, SelectedAgree
<1> DEFINE T == {k \in Nat : n + k <= Len(r) => g[n + k] = g[n]}
<1>4. 0 \in T
  OBVIOUS
<1>5. ASSUME NEW k \in T PROVE k + 1 \in T
  <2>1. SUFFICES ASSUME n + (k + 1) <= Len(r) PROVE g[n + (k + 1)] = g[n]
    OBVIOUS
  <2>2. n + k \in Nat /\ n + k < Len(r) /\ (n + k) + 1 \in 1 .. Len(r) /\ (n + k) + 1 > Len(s)
        /\ g[n + k] = g[n] /\ n + (k + 1) = (n + k) + 1
    BY <2>1
  <2>3. r[(n + k) + 1].type # t
    BY <2>2
  <2>. QED
    BY <2>2, <2>3, <1>2 DEF Selects
<1>6. T = Nat
  <2>1. T \in SUBSET Nat
    OBVIOUS
  <2>. HIDE DEF T
  <2>. QED
    BY <1>4, <1>5, <2>1, Induction
<1>7. Len(r) - n \in Nat /\ n + (Len(r) - n) = Len(r)
  OBVIOUS
<1>8. \A k \in Nat : n + k <= Len(r) => g[n + k] = g[n]
  BY <1>6
<1>9. g[Len(r)] = g[n]
  <2>. HIDE DEF n
  <2>. QED
    BY <1>7, <1>8
<1>. QED
  BY <1>1, <1>2, <1>3, <1>9

(* The first packet is selected first.                                     *)
LEMMA SelectedTail ==
  ASSUME NEW S, NEW s \in Seq(S), s # <<>>, NEW t
  PROVE  Selected(s, t) = IF Head(s).type = t THEN <<Head(s)>> \o Selected(Tail(s), t)
                          ELSE Selected(Tail(s), t)
<1> DEFINE r == Tail(s)
           e == Head(s)
<1>1. r \in Seq(S) /\ e \in S /\ Len(s) = Len(r) + 1 /\ s[1] = e /\ Len(r) \in Nat
      /\ \A i \in 1 .. Len(r) : r[i] = s[i + 1]
  BY HeadTailProperties
<1>. HIDE DEF r, e
<1>2. PICK f \in [0 .. Len(s) -> Seq(S)] : Selects(f, s, t) /\ Selected(s, t) = f[Len(s)]
  BY SelectedBy
<1>3. PICK g \in [0 .. Len(r) -> Seq(S)] : Selects(g, r, t) /\ Selected(r, t) = g[Len(r)]
  BY <1>1, SelectedBy
<1>4. 0 \in Nat /\ 0 < Len(s) /\ 0 + 1 = 1
  BY <1>1
<1>5. f[0] = <<>> /\ g[0] = <<>> /\ f[1] = IF e.type = t THEN Append(<<>>, e) ELSE <<>>
  BY <1>1, <1>2, <1>3, <1>4 DEF Selects
<1>6. f[1] \in Seq(S) /\ f[1] = f[1] \o <<>> /\ f[1] = IF e.type = t THEN <<e>> ELSE <<>>
  BY <1>1, <1>5
<1> DEFINE T == {k \in Nat : k <= Len(r) => f[k + 1] = f[1] \o g[k]}
<1>7. 0 \in T
  BY <1>4, <1>5, <1>6
<1>8. ASSUME NEW k \in T PROVE k + 1 \in T
  <2>1. k \in Nat /\ (k <= Len(r) => f[k + 1] = f[1] \o g[k])
    BY <1>8
  <2>. HIDE DEF T
  <2>2. SUFFICES ASSUME k + 1 <= Len(r) PROVE f[(k + 1) + 1] = f[1] \o g[k + 1]
    BY <2>1 DEF T
  <2>3. k < Len(r) /\ k <= Len(r) /\ k + 1 \in Nat /\ k + 1 < Len(s) /\ k + 1 \in 1 .. Len(r)
        /\ k \in 0 .. Len(r)
    BY <1>1, <2>1, <2>2
  <2>4. f[k + 1] = f[1] \o g[k]
    BY <2>1, <2>3
  <2>5. r[k + 1] = s[(k + 1) + 1] /\ r[k + 1] \in S /\ g[k] \in Seq(S)
    <3>1. \A q \in Seq(S) : \A i \in 1 .. Len(q) : q[i] \in S
      OBVIOUS
    <3>. QED
      BY <1>1, <1>3, <2>1, <2>3, <3>1
  <2>6. g[k + 1] = IF r[k + 1].type = t THEN Append(g[k], r[k + 1]) ELSE g[k]
    BY <1>3, <2>1, <2>3 DEF Selects
  <2>7. f[(k + 1) + 1] = IF s[(k + 1) + 1].type = t THEN Append(f[k + 1], s[(k + 1) + 1])
                         ELSE f[k + 1]
    BY <1>2, <2>3 DEF Selects
  <2>8. Append(f[1] \o g[k], r[k + 1]) = f[1] \o Append(g[k], r[k + 1])
    <3>1. ASSUME NEW p \in Seq(S), NEW q \in Seq(S), NEW x \in S
          PROVE  Append(p \o q, x) = p \o Append(q, x)
      <4>1. <<x>> \in Seq(S) /\ p \o q \in Seq(S)
        OBVIOUS
      <4>2. Append(p \o q, x) = (p \o q) \o <<x>> /\ Append(q, x) = q \o <<x>>
        BY <4>1, AppendIsConcat
      <4>. QED
        BY <4>1, <4>2, ConcatAssociative
    <3>. QED
      BY <1>6, <2>5, <3>1
  <2>. QED
    BY <2>4, <2>5, <2>6, <2>7, <2>8
<1>9. T = Nat
  <2>1. T \in SUBSET Nat
    OBVIOUS
  <2>. HIDE DEF T
  <2>. QED
    BY <1>7, <1>8, <2>1, Induction
<1>10. f[Len(s)] = f[1] \o g[Len(r)] /\ g[Len(r)] \in Seq(S)
  <2>1. \A k \in Nat : k <= Len(r) => f[k + 1] = f[1] \o g[k]
    BY <1>9
  <2>. HIDE DEF T
  <2>2. Len(r) \in 0 .. Len(r)
    BY <1>1
  <2>. QED
    BY <1>1, <1>3, <2>1, <2>2
<1>11. <<>> \o g[Len(r)] = g[Len(r)]
  BY <1>10
<1>. QED
  BY <1>2, <1>3, <1>6, <1>10, <1>11 DEF r, e

-----------------------------------------------------------------------------
(* The invariant of the handshake.                                         *)
UpPacket   == [type : {PUBLISH}, id : Id, rec : Payload] \cup [type : {PUBREL}, id : Id]
DownPacket == [type : {PUBREC, PUBCOMP}, id : Id]

(* A message takes one id, the subscriptions of a connection some.         *)
IdsBounded ==
  /\ _nextPacketId <= published + SUBSCRIPTIONS + 1
  /\ ~_connected => _nextPacketId = 1

(* Messages are under way in the order of their ids.                       *)
Rises ==
  /\ \A i, j \in DOMAIN inbox : i < j => inbox[i].id < inbox[j].id
  /\ \A i \in DOMAIN inbox : inbox[i].id < _nextPacketId
  /\ \A i, j \in DOMAIN up :
       up[i].type = PUBLISH /\ up[j].type = PUBLISH /\ i < j => up[i].id < up[j].id
  /\ \A j \in DOMAIN up :
       up[j].type = PUBLISH => /\ up[j].id < _nextPacketId
                               /\ \A i \in DOMAIN inbox : inbox[i].id < up[j].id

(* The broker has the message of every PUBREL that is asked for, waits or  *)
(* is under way, and each is in one of these places, once.                 *)
PubRels == {i \in DOMAIN up : up[i].type = PUBREL}
PubRecs == {i \in DOMAIN down : down[i].type = PUBREC}
Kept(i) == \E k \in DOMAIN inbox : inbox[k].id = i

AllKept ==
  /\ \A i \in PubRels : Kept(up[i].id)
  /\ \A i \in DOMAIN _toSendAcks : Kept(_toSendAcks[i])
  /\ \A i \in PubRecs : Kept(down[i].id)

AskedOnce ==
  /\ \A i, j \in PubRels : up[i].id = up[j].id => i = j
  /\ \A i, j \in DOMAIN _toSendAcks : _toSendAcks[i] = _toSendAcks[j] => i = j
  /\ \A i, j \in PubRecs : down[i].id = down[j].id => i = j
  /\ \A i \in PubRels, j \in DOMAIN _toSendAcks : up[i].id # _toSendAcks[j]
  /\ \A i \in PubRels, j \in PubRecs : up[i].id # down[j].id
  /\ \A i \in DOMAIN _toSendAcks, j \in PubRecs : _toSendAcks[i] # down[j].id

(* As long as no PUBREL had to wait, they are under way in the order of    *)
(* the messages.                                                           *)
InStep ==
  ~starved => /\ _toSendAcks = <<>>
              /\ Ids(inbox) = Ids(Selected(up, PUBREL)) \o Ids(Selected(down, PUBREC))

ClientInv == TypeOK /\ IdsBounded /\ Rises /\ AllKept /\ AskedOnce /\ InStep

-----------------------------------------------------------------------------
(* Sequences of packets.                                                   *)
LEMMA AppendOf ==
  ASSUME NEW S, NEW s \in Seq(S), NEW e \in S
  PROVE  /\ Append(s, e) \in Seq(S)
         /\ DOMAIN Append(s, e) = DOMAIN s \cup {Len(s) + 1}
         /\ Append(s, e)[Len(s) + 1] = e
         /\ \A i \in DOMAIN s :
              i \in Nat /\ i < Len(s) + 1 /\ Append(s, e)[i] = s[i] /\ s[i] \in S
         /\ Len(s) + 1 \in Nat
  OBVIOUS

(* Head and tail, by their elements.                                       *)
LEMMA TailOf ==
  ASSUME NEW S, NEW s \in Seq(S), s # <<>>
  PROVE  /\ Head(s) \in S /\ Tail(s) \in Seq(S)
         /\ 1 \in DOMAIN s /\ s[1] = Head(s)
         /\ \A i \in DOMAIN Tail(s) : /\ i \in Nat /\ i >= 1 /\ i + 1 \in DOMAIN s
                                      /\ Tail(s)[i] = s[i + 1] /\ s[i + 1] \in S
<1>1. /\ Head(s) \in S /\ Tail(s) \in Seq(S) /\ Len(s) \in Nat \ {0} /\ Head(s) = s[1]
      /\ Len(Tail(s)) = Len(s) - 1
      /\ \A i \in 1 .. Len(Tail(s)) : Tail(s)[i] = s[i + 1]
  BY HeadTailProperties
<1>2. DOMAIN Tail(s) = 1 .. Len(s) - 1 /\ DOMAIN s = 1 .. Len(s)
  BY <1>1
<1>. QED
  BY <1>1, <1>2

AnyPacket == UpPacket \cup DownPacket \cup Stored

(* The ids of a sequence that grows at either end.                         *)
LEMMA IdsAppend ==
  \A q \in Seq(AnyPacket) :
    /\ \A e : Ids(Append(q, e)) = Append(Ids(q), e.id) /\ Ids(<<e>> \o q) = <<e.id>> \o Ids(q)
    /\ Len(Ids(q)) = Len(q)
    /\ \A i \in DOMAIN q : Ids(q)[i] = q[i].id
  BY DEF Ids

(* What is in the packets of each kind.                                    *)
LEMMA PacketSets ==
  /\ \A p \in UpPacket : p.id \in Id /\ p.type \in {PUBLISH, PUBREL}
                         /\ (p.type = PUBLISH => Content(p) \in Stored)
  /\ \A p \in DownPacket : p.id \in Id /\ p.type \in {PUBREC, PUBCOMP}
  /\ \A m \in Stored : m.id \in Id
  /\ \A i \in Id : /\ Ack(PUBREL, i) \in UpPacket
                   /\ Ack(PUBREC, i) \in DownPacket /\ Ack(PUBCOMP, i) \in DownPacket
                   /\ i \in Nat
  BY MqttClientAssumption
     DEF UpPacket, DownPacket, Stored, Content, Ack, Id, PUBLISH, PUBREL, PUBREC, PUBCOMP

(* Where the loop of _sendAcks takes the PUBRELs it sends, and those that  *)
(* stay, from.                                                             *)
SentFrom(k)       == 2 * k - 1
LeftFrom(k, room) == IF k < room THEN 2 * k ELSE k + room

(* The loop of _sendAcks sends every acknowledgement that fits, or leaves  *)
(* it: none is lost and none sent twice.                                   *)
LEMMA SentOrLeft ==
  ASSUME NEW n \in Nat, NEW room \in 0 .. Sendable(n)
  PROVE  /\ room <= n
         /\ \A k \in 1 .. room : SentFrom(k) \in 1 .. n
         /\ \A k \in 1 .. n - room : LeftFrom(k, room) \in 1 .. n
         /\ \A k, l \in 1 .. room : SentFrom(k) = SentFrom(l) => k = l
         /\ \A k, l \in 1 .. n - room : LeftFrom(k, room) = LeftFrom(l, room) => k = l
         /\ \A k \in 1 .. room, l \in 1 .. n - room : SentFrom(k) # LeftFrom(l, room)
<1>1. room \in Nat /\ 2 * room <= n + 1
  BY DEF Sendable
<1>. QED
  BY <1>1 DEF SentFrom, LeftFrom

(* SendAcks by the elements of what it sends and leaves.                   *)
LEMMA SendAcksDoes ==
  ASSUME up \in Seq(UpPacket), NEW acks \in Seq(Id), NEW room \in 0 .. Sendable(Len(acks)),
         SendAcks(acks, room)
  PROVE  /\ up' \in Seq(UpPacket) /\ _toSendAcks' \in Seq(Id)
         /\ Len(up') = Len(up) + room
         /\ \A i \in 1 .. Len(up) : up'[i] = up[i]
         /\ \A k \in 1 .. room : up'[Len(up) + k] = Ack(PUBREL, acks[SentFrom(k)])
         /\ Len(_toSendAcks') = Len(acks) - room
         /\ \A k \in 1 .. Len(acks) - room : _toSendAcks'[k] = acks[LeftFrom(k, room)]
<1> DEFINE rels == [k \in 1 .. room |-> Ack(PUBREL, acks[2 * k - 1])]
           left == [k \in 1 .. Len(acks) - room |-> acks[IF k < room THEN 2 * k ELSE k + room]]
<1>1. Len(acks) \in Nat /\ room \in Nat /\ Len(acks) - room \in Nat
  BY SentOrLeft
<1>2. \A k \in 1 .. room : rels[k] = Ack(PUBREL, acks[SentFrom(k)]) /\ rels[k] \in UpPacket
  <2>. TAKE k \in 1 .. room
  <2>1. acks[SentFrom(k)] \in Id
    BY <1>1, SentOrLeft
  <2>. QED
    BY <2>1, PacketSets DEF SentFrom
<1>3. \A k \in 1 .. Len(acks) - room : left[k] = acks[LeftFrom(k, room)] /\ left[k] \in Id
  <2>. TAKE k \in 1 .. Len(acks) - room
  <2>1. acks[LeftFrom(k, room)] \in Id
    BY <1>1, SentOrLeft
  <2>. QED
    BY <2>1 DEF LeftFrom
<1>4. rels \in Seq(UpPacket) /\ Len(rels) = room
  BY <1>1, <1>2
<1>5. left \in Seq(Id) /\ Len(left) = Len(acks) - room
  BY <1>1, <1>3
<1>6. up' = up \o rels /\ _toSendAcks' = left
  BY DEF SendAcks
<1>. HIDE DEF rels, left
<1>7. up \o rels \in Seq(UpPacket) /\ Len(up \o rels) = Len(up) + room
      /\ \A i \in 1 .. Len(up) + room :
           (up \o rels)[i] = IF i <= Len(up) THEN up[i] ELSE rels[i - Len(up)]
  BY <1>1, <1>4, ConcatProperties
<1>8. \A k \in 1 .. room : (up \o rels)[Len(up) + k] = rels[k]
  <2>. TAKE k \in 1 .. room
  <2>1. Len(up) + k \in 1 .. Len(up) + room /\ ~ (Len(up) + k <= Len(up))
        /\ (Len(up) + k) - Len(up) = k
    BY <1>1
  <2>. QED
    BY <1>7, <2>1
<1>9. \A i \in 1 .. Len(up) : (up \o rels)[i] = up[i]
  BY <1>1, <1>7
<1>. QED
  BY <1>2, <1>3, <1>5, <1>6, <1>7, <1>8, <1>9

-----------------------------------------------------------------------------
(* Types.                                                                  *)
LEMMA Types ==
  ASSUME TypeOK
  PROVE  /\ up \in Seq(UpPacket) /\ down \in Seq(DownPacket) /\ inbox \in Seq(Stored)
         /\ _toSendAcks \in Seq(Id)
         /\ _connected \in BOOLEAN /\ starved \in BOOLEAN
         /\ _nextPacketId \in Nat /\ _nextPacketId >= 1
         /\ published \in Nat /\ published <= MAX_PUBLISH
         /\ ~_connected => _toSendAcks = <<>> /\ up = <<>> /\ down = <<>> /\ inbox = <<>>
  BY MqttClientAssumption DEF TypeOK, UpPacket, DownPacket

(* Taking one element out keeps each of the others.                        *)
LEMMA WithoutIs ==
  ASSUME NEW S, NEW s \in Seq(S), NEW k \in DOMAIN s
  PROVE  /\ Link!Without(s, k) \in Seq(S)
         /\ Len(Link!Without(s, k)) = Len(s) - 1
         /\ \A i \in DOMAIN Link!Without(s, k) :
              i \in Nat /\ \E j \in DOMAIN s : /\ j = IF i < k THEN i ELSE i + 1
                                              /\ j # k /\ Link!Without(s, k)[i] = s[j]
         /\ \A j \in DOMAIN s : j # k =>
              \E i \in DOMAIN Link!Without(s, k) : Link!Without(s, k)[i] = s[j]
<1> DEFINE r == [i \in 1 .. Len(s) - 1 |-> s[IF i < k THEN i ELSE i + 1]]
<1>1. Len(s) \in Nat \ {0} /\ DOMAIN s = 1 .. Len(s) /\ Len(s) - 1 \in Nat /\ k \in 1 .. Len(s)
  OBVIOUS
<1>2. \A i \in 1 .. Len(s) - 1 :
        /\ i \in Nat /\ r[i] \in S
        /\ \E j \in DOMAIN s : j = (IF i < k THEN i ELSE i + 1) /\ j # k /\ r[i] = s[j]
  <2>. TAKE i \in 1 .. Len(s) - 1
  <2> DEFINE j == IF i < k THEN i ELSE i + 1
  <2>1. i \in Nat /\ j \in DOMAIN s /\ j # k /\ r[i] = s[j] /\ r[i] \in S
    BY <1>1
  <2>. QED
    BY <2>1
<1>3. r \in Seq(S) /\ Len(r) = Len(s) - 1 /\ DOMAIN r = 1 .. Len(s) - 1
  BY <1>1, <1>2
<1>4. ASSUME NEW j \in DOMAIN s, j # k PROVE \E i \in DOMAIN r : r[i] = s[j]
  <2>1. CASE j < k
    <3>1. j \in DOMAIN r /\ r[j] = s[j]
      BY <1>1, <1>3, <2>1
    <3>. QED
      BY <3>1
  <2>2. CASE j > k
    <3>1. j - 1 \in 1 .. Len(s) - 1 /\ ~ (j - 1 < k) /\ (j - 1) + 1 = j
      BY <1>1, <2>2
    <3>2. j - 1 \in DOMAIN r /\ r[j - 1] = s[j]
      BY <1>3, <3>1
    <3>. QED
      BY <3>2
  <2>. QED
    BY <1>1, <1>4, <2>1, <2>2
<1>5. Link!Without(s, k) = r
  BY DEF Link!Without
<1>. HIDE DEF r
<1>. QED
  BY <1>2, <1>3, <1>4, <1>5

(* A PUBREL releases the message with its id, which the broker has kept.   *)
LEMMA ReleasedIs ==
  ASSUME inbox \in Seq(Stored), NEW i, Kept(i)
  PROVE  \E k \in DOMAIN inbox : inbox[k].id = i /\ Released(i) = Link!Without(inbox, k)
<1> DEFINE at == {k \in DOMAIN inbox : inbox[k].id = i}
<1>1. at # {}
  BY DEF Kept
<1>2. (CHOOSE k \in at : TRUE) \in at
  BY <1>1
<1>3. Released(i) = Link!Without(inbox, CHOOSE k \in at : TRUE)
  BY <1>1 DEF Released
<1>. QED
  BY <1>2, <1>3

(* Each step keeps the types and the bound of the packet id.               *)
LEMMA TypesStay ==
  ASSUME TypeOK, IdsBounded, AllKept, [Next]_vars
  PROVE  TypeOK' /\ IdsBounded'
<1>. USE Types, MqttClientAssumption
<1> DEFINE Sized == /\ _connected' \in BOOLEAN /\ starved' \in BOOLEAN
                    /\ _nextPacketId' \in 1 .. MAX_PUBLISH + SUBSCRIPTIONS + 1
                    /\ published' \in 0 .. MAX_PUBLISH /\ drops' \in 0 .. MAX_DROPS
                    /\ IdsBounded'
           Packets == /\ up' \in Seq(UpPacket) /\ down' \in Seq(DownPacket)
                      /\ inbox' \in Seq(Stored) /\ _toSendAcks' \in Seq(Id)
           Cleared == ~_connected' => _toSendAcks' = <<>> /\ up' = <<>> /\ down' = <<>>
                                      /\ inbox' = <<>>
<1>0. SUFFICES Sized /\ Packets /\ Cleared
  BY DEF TypeOK, UpPacket, DownPacket, Id, Stored
<1>1. CASE OnConnAck
  BY <1>1 DEF OnConnAck, bounds, TypeOK, IdsBounded
<1>2. CASE OnDisconnect
  <2>1. _connected' = FALSE /\ starved' = FALSE /\ _nextPacketId' = 1
        /\ published' = published /\ drops' \in 0 .. MAX_DROPS
    BY <1>2 DEF OnDisconnect, Clear, TypeOK
  <2>2. published \in 0 .. MAX_PUBLISH
    BY DEF TypeOK
  <2>3. _connected' \in BOOLEAN /\ starved' \in BOOLEAN
    BY <2>1
  <2>4. IdsBounded' /\ _nextPacketId' \in 1 .. MAX_PUBLISH + SUBSCRIPTIONS + 1
    BY <2>1, <2>2 DEF IdsBounded
  <2>5. Sized
    BY <2>1, <2>2, <2>3, <2>4
  <2>. QED
    BY <1>2, <2>5 DEF OnDisconnect, Clear
<1>3. CASE Publish
  <2>1. Sized
    BY <1>3 DEF Publish, TypeOK, IdsBounded
  <2>2. PICK m \in Payload :
          up' = Append(up, [type |-> PUBLISH, id |-> _nextPacketId, rec |-> m])
    BY <1>3 DEF Publish
  <2>3. _nextPacketId \in Id
    BY <1>3 DEF Publish, IdsBounded, Id
  <2>4. [type |-> PUBLISH, id |-> _nextPacketId, rec |-> m] \in UpPacket
    BY <2>3 DEF UpPacket
  <2>. QED
    BY <1>3, <2>1, <2>2, <2>4, AppendOf DEF Publish
<1>4. CASE Poll
  <2>1. PICK room \in 0 .. Sendable(Len(_toSendAcks)) : OnPoll(room)
    BY <1>4 DEF Poll
  <2>2. up' \in Seq(UpPacket) /\ _toSendAcks' \in Seq(Id)
    BY <2>1, SendAcksDoes DEF OnPoll
  <2>3. starved' \in BOOLEAN
    BY <2>1 DEF OnPoll, SendAcks
  <2>. QED
    BY <2>1, <2>2, <2>3 DEF OnPoll, bounds, TypeOK, IdsBounded
<1>5. CASE OnPubRec
  <2> DEFINE acks == Append(_toSendAcks, Head(down).id)
  <2>1. Head(down) \in DownPacket /\ Tail(down) \in Seq(DownPacket) /\ _connected
    BY <1>5, TailOf DEF OnPubRec
  <2>2. acks \in Seq(Id)
    BY <2>1, PacketSets, AppendOf
  <2>3. PICK room \in 0 .. Sendable(Len(acks)) : SendAcks(acks, room)
    BY <1>5 DEF OnPubRec
  <2>. HIDE DEF acks
  <2>4. up' \in Seq(UpPacket) /\ _toSendAcks' \in Seq(Id)
    BY <2>2, <2>3, SendAcksDoes
  <2>5. starved' \in BOOLEAN
    BY <2>3 DEF SendAcks
  <2>. QED
    BY <1>5, <2>1, <2>4, <2>5 DEF OnPubRec, bounds, TypeOK, IdsBounded
<1>6. CASE OnPubComp
  <2>1. Tail(down) \in Seq(DownPacket) /\ _connected
    BY <1>6, TailOf DEF OnPubComp
  <2>. QED
    BY <1>6, <2>1 DEF OnPubComp, client, bounds, TypeOK, IdsBounded
<1>7. CASE BrokerPublish
  <2>1. Head(up) \in UpPacket /\ Tail(up) \in Seq(UpPacket) /\ _connected
    BY <1>7, TailOf DEF BrokerPublish
  <2>2. Content(Head(up)) \in Stored /\ Ack(PUBREC, Head(up).id) \in DownPacket
    BY <1>7, <2>1, PacketSets DEF BrokerPublish
  <2>3. inbox' \in Seq(Stored) /\ down' \in Seq(DownPacket)
    BY <1>7, <2>2, AppendOf DEF BrokerPublish
  <2>. QED
    BY <1>7, <2>1, <2>3 DEF BrokerPublish, client, bounds, TypeOK, IdsBounded
<1>8. CASE BrokerPubRel
  <2>1. Head(up) \in UpPacket /\ Tail(up) \in Seq(UpPacket) /\ _connected
    BY <1>8, TailOf DEF BrokerPubRel
  <2>2. Ack(PUBCOMP, Head(up).id) \in DownPacket
    BY <2>1, PacketSets
  <2>3. down' \in Seq(DownPacket)
    BY <1>8, <2>2, AppendOf DEF BrokerPubRel
  <2>4. Kept(Head(up).id)
    BY <1>8, TailOf DEF BrokerPubRel, AllKept, PubRels
  <2>5. inbox' \in Seq(Stored)
    BY <1>8, <2>4, ReleasedIs, WithoutIs DEF BrokerPubRel
  <2>. QED
    BY <1>8, <2>1, <2>3, <2>5 DEF BrokerPubRel, client, bounds, TypeOK, IdsBounded
<1>9. CASE UNCHANGED vars
  BY <1>9 DEF vars, client, bounds, TypeOK, IdsBounded
<1>. QED
  BY <1>1, <1>2, <1>3, <1>4, <1>5, <1>6, <1>7, <1>8, <1>9 DEF Next, OnData, Broker

-----------------------------------------------------------------------------
(* What each way to send acknowledgements does to the packets to the       *)
(* broker: a PUBREL for each room.                                         *)
LEMMA SentPackets ==
  ASSUME TypeOK, NEW acks \in Seq(Id), NEW room \in 0 .. Sendable(Len(acks)),
         SendAcks(acks, room)
  PROVE  /\ \A i \in DOMAIN up' :
              \/ i \in DOMAIN up /\ up'[i] = up[i]
              \/ /\ i \notin DOMAIN up
                 /\ \E k \in 1 .. room :
                      i = Len(up) + k /\ up'[i] = Ack(PUBREL, acks[SentFrom(k)])
         /\ \A i \in DOMAIN _toSendAcks' :
              i \in 1 .. Len(acks) - room /\ _toSendAcks'[i] = acks[LeftFrom(i, room)]
<1>1. Len(up) \in Nat /\ Len(acks) \in Nat /\ room \in Nat
      /\ up' \in Seq(UpPacket) /\ DOMAIN up = 1 .. Len(up)
      /\ _toSendAcks' \in Seq(Id)
  BY Types, SendAcksDoes, SentOrLeft
<1>2. DOMAIN up' = 1 .. Len(up) + room /\ DOMAIN _toSendAcks' = 1 .. Len(acks) - room
  BY <1>1, Types, SendAcksDoes
<1>3. ASSUME NEW i \in DOMAIN up', i \notin DOMAIN up
      PROVE  \E k \in 1 .. room :
               i = Len(up) + k /\ up'[i] = Ack(PUBREL, acks[SentFrom(k)])
  <2>1. i - Len(up) \in 1 .. room /\ i = Len(up) + (i - Len(up))
    BY <1>1, <1>2, <1>3
  <2>2. PICK k \in 1 .. room : i = Len(up) + k
    BY <2>1
  <2>3. up'[Len(up) + k] = Ack(PUBREL, acks[SentFrom(k)])
    BY Types, SendAcksDoes
  <2>. QED
    BY <2>2, <2>3
<1>4. /\ \A i \in 1 .. Len(up) : up'[i] = up[i]
      /\ \A k \in 1 .. Len(acks) - room : _toSendAcks'[k] = acks[LeftFrom(k, room)]
  BY <1>1, Types, SendAcksDoes
<1>5. \A i \in DOMAIN up : up'[i] = up[i]
  BY <1>1, <1>4
<1>. QED
  BY <1>2, <1>3, <1>4, <1>5

(* OnPoll and OnPubRec send acknowledgements in the same way; OnPubRec has *)
(* one more.                                                               *)
LEMMA SentAcks ==
  ASSUME TypeOK, Poll \/ OnPubRec
  PROVE  \E acks \in Seq(Id) : \E room \in 0 .. Sendable(Len(acks)) :
           /\ SendAcks(acks, room)
           /\ \/ acks = _toSendAcks /\ down' = down
              \/ /\ down # <<>> /\ Head(down).type = PUBREC /\ Head(down) \in DownPacket
                 /\ acks = Append(_toSendAcks, Head(down).id) /\ down' = Tail(down)
<1>1. CASE Poll
  BY <1>1, Types DEF Poll, OnPoll
<1>2. CASE OnPubRec
  <2> DEFINE acks == Append(_toSendAcks, Head(down).id)
  <2>1. Head(down) \in DownPacket
    BY <1>2, Types, TailOf DEF OnPubRec
  <2>2. acks \in Seq(Id)
    BY <2>1, Types, PacketSets, AppendOf
  <2>3. \E room \in 0 .. Sendable(Len(acks)) : SendAcks(acks, room)
    BY <1>2 DEF OnPubRec
  <2>4. acks = Append(_toSendAcks, Head(down).id) /\ down' = Tail(down)
        /\ down # <<>> /\ Head(down).type = PUBREC
    BY <1>2 DEF OnPubRec
  <2>. HIDE DEF acks
  <2>. QED
    BY <2>1, <2>2, <2>3, <2>4
<1>. QED
  BY <1>1, <1>2

(* The packets are told apart by their types and have the ids given them.  *)
LEMMA PacketTypes ==
  /\ PUBLISH # PUBREL /\ PUBREC # PUBCOMP
  /\ \A t, i : Ack(t, i).type = t /\ Ack(t, i).id = i
  /\ \A p : Content(p).id = p.id
  BY DEF PUBLISH, PUBREL, PUBREC, PUBCOMP, Ack, Content

(* Ids and places can be compared.                                         *)
LEMMA IdsAreNumbers ==
  ASSUME TypeOK
  PROVE  /\ \A i \in DOMAIN up : up[i] \in UpPacket /\ up[i].id \in Nat /\ i \in Nat /\ i >= 1
         /\ \A i \in DOMAIN inbox : inbox[i].id \in Nat /\ i \in Nat /\ i >= 1
         /\ \A i \in DOMAIN down : down[i].id \in Nat /\ i \in Nat /\ i >= 1
<1>1. \A i \in DOMAIN up : up[i] \in UpPacket /\ i \in Nat /\ i >= 1
  BY Types
<1>2. \A i \in DOMAIN inbox : inbox[i] \in Stored /\ i \in Nat /\ i >= 1
  BY Types
<1>3. \A i \in DOMAIN down : down[i] \in DownPacket /\ i \in Nat /\ i >= 1
  BY Types
<1>. QED
  BY <1>1, <1>2, <1>3, PacketSets

(* The broker takes the first packet, or the firmware does.                *)
LEMMA RisesStay ==
  ASSUME TypeOK, IdsBounded, Rises, AllKept, [Next]_vars
  PROVE  Rises'
<1>. USE IdsAreNumbers, Types
<1>1. CASE OnConnAck
  <2>1. _nextPacketId' >= _nextPacketId /\ _nextPacketId' \in Nat /\ up' = up /\ inbox' = inbox
    BY <1>1, MqttClientAssumption DEF OnConnAck
  <2>. QED
    BY <2>1 DEF Rises
<1>2. CASE OnDisconnect
  BY <1>2 DEF OnDisconnect, Clear, Rises
<1>3. CASE Publish
  <2> DEFINE p(m) == [type |-> PUBLISH, id |-> _nextPacketId, rec |-> m]
  <2>1. PICK m \in Payload : up' = Append(up, p(m))
    BY <1>3 DEF Publish
  <2>2. _nextPacketId' = _nextPacketId + 1 /\ inbox' = inbox
    BY <1>3 DEF Publish
  <2>3. p(m).type = PUBLISH /\ p(m).id = _nextPacketId
    OBVIOUS
  <2>. HIDE DEF p
  <2>4. /\ DOMAIN up' = DOMAIN up \cup {Len(up) + 1} /\ up'[Len(up) + 1] = p(m)
        /\ Len(up) + 1 \in Nat
        /\ \A i \in DOMAIN up : i < Len(up) + 1 /\ up'[i] = up[i]
    <3>1. up \in Seq(UpPacket \cup {p(m)}) /\ p(m) \in UpPacket \cup {p(m)}
      OBVIOUS
    <3>. QED
      BY <2>1, <3>1, AppendOf
  <2>5. \A i \in DOMAIN up' : i \in DOMAIN up \/ (i = Len(up) + 1 /\ up'[i] = p(m))
    BY <2>4
  <2>6. \A i \in DOMAIN inbox' : inbox'[i].id < _nextPacketId'
    BY <2>2 DEF Rises
  <2>7. \A i, j \in DOMAIN up' :
          up'[i].type = PUBLISH /\ up'[j].type = PUBLISH /\ i < j => up'[i].id < up'[j].id
    <3>. SUFFICES ASSUME NEW i \in DOMAIN up', NEW j \in DOMAIN up',
                         up'[i].type = PUBLISH, up'[j].type = PUBLISH, i < j
                  PROVE  up'[i].id < up'[j].id
      OBVIOUS
    <3>1. i \in DOMAIN up /\ up'[i] = up[i]
      BY <2>4, <2>5
    <3>2. CASE j \in DOMAIN up
      BY <2>4, <3>1, <3>2 DEF Rises
    <3>3. CASE j = Len(up) + 1
      BY <2>3, <2>4, <3>1, <3>3 DEF Rises
    <3>. QED
      BY <2>5, <3>2, <3>3
  <2>8. \A j \in DOMAIN up' :
          up'[j].type = PUBLISH => /\ up'[j].id < _nextPacketId'
                                   /\ \A i \in DOMAIN inbox' : inbox'[i].id < up'[j].id
    <3>. SUFFICES ASSUME NEW j \in DOMAIN up', up'[j].type = PUBLISH
                  PROVE  /\ up'[j].id < _nextPacketId'
                         /\ \A i \in DOMAIN inbox' : inbox'[i].id < up'[j].id
      OBVIOUS
    <3>1. CASE j \in DOMAIN up
      BY <2>2, <2>4, <3>1 DEF Rises
    <3>2. CASE j = Len(up) + 1
      BY <2>2, <2>3, <2>4, <3>2 DEF Rises
    <3>. QED
      BY <2>5, <3>1, <3>2
  <2>. QED
    BY <2>2, <2>6, <2>7, <2>8 DEF Rises
<1>4. CASE Poll \/ OnPubRec
  <2>1. inbox' = inbox /\ _nextPacketId' = _nextPacketId
    BY <1>4 DEF Poll, OnPoll, OnPubRec
  <2>2. PICK acks \in Seq(Id), room \in Nat :
          room \in 0 .. Sendable(Len(acks)) /\ SendAcks(acks, room)
    <3>1. PICK acks \in Seq(Id) : \E room \in 0 .. Sendable(Len(acks)) : SendAcks(acks, room)
      BY <1>4, SentAcks
    <3>2. PICK room \in 0 .. Sendable(Len(acks)) : SendAcks(acks, room)
      BY <3>1
    <3>. QED
      BY <3>2
  <2>3. \A i \in DOMAIN up' : (i \in DOMAIN up /\ up'[i] = up[i]) \/ up'[i].type = PUBREL
    BY <2>2, SentPackets, PacketTypes
  <2>. QED
    BY <2>1, <2>3, PacketTypes DEF Rises
<1>5. CASE OnPubComp
  BY <1>5 DEF OnPubComp, client, Rises
<1>6. CASE BrokerPublish
  <2>1. up' = Tail(up) /\ inbox' = Append(inbox, Content(Head(up)))
        /\ _nextPacketId' = _nextPacketId /\ up # <<>> /\ Head(up).type = PUBLISH
    BY <1>6 DEF BrokerPublish, client
  <2>2. Content(Head(up)) \in Stored /\ Content(Head(up)).id = up[1].id
    BY <2>1, TailOf, PacketSets, PacketTypes
  <2>3. /\ DOMAIN inbox' = DOMAIN inbox \cup {Len(inbox) + 1}
        /\ inbox'[Len(inbox) + 1].id = up[1].id /\ Len(inbox) + 1 \in Nat
        /\ \A i \in DOMAIN inbox : i < Len(inbox) + 1 /\ inbox'[i] = inbox[i]
    BY <2>1, <2>2, AppendOf
  <2>4. /\ 1 \in DOMAIN up /\ up[1].type = PUBLISH
        /\ \A i \in DOMAIN up' : i \in Nat /\ i >= 1 /\ i + 1 \in DOMAIN up /\ up'[i] = up[i + 1]
    BY <2>1, TailOf
  <2>5. \A i \in DOMAIN inbox' :
          \/ i \in DOMAIN inbox /\ inbox'[i] = inbox[i]
          \/ i = Len(inbox) + 1 /\ inbox'[i].id = up[1].id
    <3>. TAKE i \in DOMAIN inbox'
    <3>1. i \in DOMAIN inbox \/ i = Len(inbox) + 1
      BY <2>3
    <3>2. CASE i \in DOMAIN inbox
      BY <2>3, <3>2
    <3>3. CASE i = Len(inbox) + 1
      BY <2>3, <3>3
    <3>. QED
      BY <3>1, <3>2, <3>3, Zenon
  <2>6. \A i \in DOMAIN inbox : inbox[i].id < up[1].id
    BY <2>4 DEF Rises
  <2>7. \A i, j \in DOMAIN inbox' : i < j => inbox'[i].id < inbox'[j].id
    <3>. SUFFICES ASSUME NEW i \in DOMAIN inbox', NEW j \in DOMAIN inbox', i < j
                  PROVE  inbox'[i].id < inbox'[j].id
      OBVIOUS
    <3>1. i \in DOMAIN inbox /\ inbox'[i] = inbox[i]
      <4>1. i # Len(inbox) + 1
        BY <2>3
      <4>. QED
        BY <2>3, <4>1
    <3>2. CASE j \in DOMAIN inbox
      BY <2>3, <3>1, <3>2 DEF Rises
    <3>3. CASE j = Len(inbox) + 1
      BY <2>3, <2>6, <3>1, <3>3
    <3>. QED
      BY <2>3, <3>2, <3>3
  <2>8. \A i \in DOMAIN inbox' : inbox'[i].id < _nextPacketId'
    BY <2>1, <2>4, <2>5 DEF Rises
  <2>9. \A j \in DOMAIN up' : up'[j].type = PUBLISH => up[1].id < up'[j].id
    <3>. SUFFICES ASSUME NEW j \in DOMAIN up', up'[j].type = PUBLISH
                  PROVE  up[1].id < up'[j].id
      OBVIOUS
    <3>1. 1 < j + 1 /\ j + 1 \in DOMAIN up /\ up'[j] = up[j + 1]
      BY <2>4
    <3>. QED
      BY <2>4, <3>1 DEF Rises
  <2>10. \A i, j \in DOMAIN up' :
           up'[i].type = PUBLISH /\ up'[j].type = PUBLISH /\ i < j => up'[i].id < up'[j].id
    <3>. SUFFICES ASSUME NEW i \in DOMAIN up', NEW j \in DOMAIN up',
                         up'[i].type = PUBLISH, up'[j].type = PUBLISH, i < j
                  PROVE  up'[i].id < up'[j].id
      OBVIOUS
    <3>1. /\ i + 1 < j + 1 /\ i + 1 \in DOMAIN up /\ j + 1 \in DOMAIN up
          /\ up'[i] = up[i + 1] /\ up'[j] = up[j + 1]
      BY <2>4
    <3>. QED
      BY <3>1 DEF Rises
  <2>11. \A j \in DOMAIN up' :
           up'[j].type = PUBLISH => /\ up'[j].id < _nextPacketId'
                                    /\ \A i \in DOMAIN inbox' : inbox'[i].id < up'[j].id
    <3>. SUFFICES ASSUME NEW j \in DOMAIN up', up'[j].type = PUBLISH
                  PROVE  /\ up'[j].id < _nextPacketId'
                         /\ \A i \in DOMAIN inbox' : inbox'[i].id < up'[j].id
      OBVIOUS
    <3>1. j + 1 \in DOMAIN up /\ up'[j] = up[j + 1]
      BY <2>4
    <3>2. up'[j].id < _nextPacketId'
      BY <2>1, <3>1 DEF Rises
    <3>3. \A i \in DOMAIN inbox : inbox[i].id < up'[j].id
      BY <3>1 DEF Rises
    <3>. QED
      BY <2>5, <2>9, <3>2, <3>3
  <2>. QED
    BY <2>7, <2>8, <2>10, <2>11 DEF Rises
<1>7. CASE BrokerPubRel
  <2>1. up' = Tail(up) /\ inbox' = Released(Head(up).id)
        /\ _nextPacketId' = _nextPacketId /\ up # <<>> /\ Head(up).type = PUBREL
    BY <1>7 DEF BrokerPubRel, client
  <2>2. Kept(Head(up).id)
    BY <2>1, TailOf DEF AllKept, PubRels
  <2>3. PICK k \in DOMAIN inbox : inbox' = Link!Without(inbox, k)
    BY <2>1, <2>2, ReleasedIs
  <2>4. \A i \in DOMAIN inbox' :
          i \in Nat /\ \E j \in DOMAIN inbox : /\ j = IF i < k THEN i ELSE i + 1
                                              /\ inbox'[i] = inbox[j]
    BY <2>3, WithoutIs
  <2>5. \A i \in DOMAIN up' : i \in Nat /\ i >= 1 /\ i + 1 \in DOMAIN up /\ up'[i] = up[i + 1]
    BY <2>1, TailOf
  <2>6. ASSUME NEW i \in DOMAIN inbox', NEW j \in DOMAIN inbox', i < j
        PROVE  inbox'[i].id < inbox'[j].id
    <3>1. PICK a \in DOMAIN inbox : a = (IF i < k THEN i ELSE i + 1) /\ inbox'[i] = inbox[a]
      BY <2>4
    <3>2. PICK b \in DOMAIN inbox : b = (IF j < k THEN j ELSE j + 1) /\ inbox'[j] = inbox[b]
      BY <2>4
    <3>3. a < b
      BY <2>4, <2>6, <3>1, <3>2
    <3>. QED
      BY <3>1, <3>2, <3>3 DEF Rises
  <2>7. \A i \in DOMAIN inbox' : \E a \in DOMAIN inbox : inbox'[i] = inbox[a]
    BY <2>4
  <2>8. \A i \in DOMAIN inbox' : inbox'[i].id < _nextPacketId'
    BY <2>1, <2>7 DEF Rises
  <2>9. \A i, j \in DOMAIN up' :
          up'[i].type = PUBLISH /\ up'[j].type = PUBLISH /\ i < j => up'[i].id < up'[j].id
    BY <2>5 DEF Rises
  <2>10. \A j \in DOMAIN up' :
           up'[j].type = PUBLISH => /\ up'[j].id < _nextPacketId'
                                    /\ \A i \in DOMAIN inbox' : inbox'[i].id < up'[j].id
    BY <2>1, <2>5, <2>7 DEF Rises
  <2>. QED
    BY <2>6, <2>8, <2>9, <2>10 DEF Rises
<1>8. CASE UNCHANGED vars
  BY <1>8 DEF vars, client, Rises
<1>. QED
  BY <1>1, <1>2, <1>3, <1>4, <1>5, <1>6, <1>7, <1>8 DEF Next, OnData, Broker

-----------------------------------------------------------------------------
(* Each PUBREL has its message, and is asked for once.                     *)

(* The first packet on its way up is taken.                                *)
LEMMA TailOfUp ==
  ASSUME TypeOK, up # <<>>, up' = Tail(up)
  PROVE  /\ 1 \in DOMAIN up /\ up[1] = Head(up) /\ up[1] \in UpPacket
         /\ \A i \in PubRels' : i \in Nat /\ i + 1 # 1 /\ i + 1 \in PubRels /\ up'[i] = up[i + 1]
  BY Types, TailOf DEF PubRels

(* The first packet on its way down is taken.                              *)
LEMMA TailOfDown ==
  ASSUME TypeOK, down # <<>>, down' = Tail(down)
  PROVE  /\ 1 \in DOMAIN down /\ down[1] = Head(down) /\ down[1] \in DownPacket
         /\ \A i \in PubRecs' : i \in Nat /\ i + 1 # 1 /\ i + 1 \in PubRecs
                                /\ down'[i] = down[i + 1]
  BY Types, TailOf DEF PubRecs

(* The broker answers: one more PUBREC on its way down, or none.           *)
LEMMA AppendedDown ==
  ASSUME TypeOK, NEW t \in {PUBREC, PUBCOMP}, NEW i \in Id, down' = Append(down, Ack(t, i))
  PROVE  /\ \A k \in PubRecs' :
              \/ k \in PubRecs /\ down'[k] = down[k]
              \/ t = PUBREC /\ k = Len(down) + 1 /\ down'[k].id = i
         /\ Len(down) + 1 \notin PubRecs
<1>1. Ack(t, i) \in DownPacket /\ Ack(t, i).type = t /\ Ack(t, i).id = i
  BY PacketSets, PacketTypes
<1>2. /\ DOMAIN down' = DOMAIN down \cup {Len(down) + 1}
      /\ down'[Len(down) + 1] = Ack(t, i)
      /\ \A k \in DOMAIN down : k < Len(down) + 1 /\ down'[k] = down[k] /\ k \in Nat
      /\ Len(down) + 1 \in Nat
  BY <1>1, Types, AppendOf
<1>3. Len(down) + 1 \notin PubRecs
  BY <1>2 DEF PubRecs
<1>4. ASSUME NEW k \in PubRecs'
      PROVE  \/ k \in PubRecs /\ down'[k] = down[k]
             \/ t = PUBREC /\ k = Len(down) + 1 /\ down'[k].id = i
  <2>1. k \in DOMAIN down' /\ down'[k].type = PUBREC
    BY <1>4 DEF PubRecs
  <2>2. CASE k \in DOMAIN down
    BY <1>2, <2>1, <2>2 DEF PubRecs
  <2>3. CASE k = Len(down) + 1
    BY <1>1, <1>2, <2>1, <2>3
  <2>. QED
    BY <1>2, <2>1, <2>2, <2>3
<1>. QED
  BY <1>3, <1>4

(* The acknowledgements that wait, with one more for a PUBREC that came,   *)
(* are still each there once.                                              *)
LEMMA AcksOnce ==
  ASSUME TypeOK, AllKept, AskedOnce, NEW acks \in Seq(Id),
         \/ acks = _toSendAcks /\ down' = down
         \/ /\ down # <<>> /\ Head(down).type = PUBREC /\ Head(down) \in DownPacket
            /\ acks = Append(_toSendAcks, Head(down).id) /\ down' = Tail(down)
  PROVE  /\ \A k \in DOMAIN acks : Kept(acks[k])
         /\ \A k, l \in DOMAIN acks : acks[k] = acks[l] => k = l
         /\ \A i \in PubRels, k \in DOMAIN acks : up[i].id # acks[k]
         /\ \A i \in PubRecs' : Kept(down'[i].id)
         /\ \A i, j \in PubRecs' : down'[i].id = down'[j].id => i = j
         /\ \A i \in PubRels, j \in PubRecs' : up[i].id # down'[j].id
         /\ \A k \in DOMAIN acks, j \in PubRecs' : acks[k] # down'[j].id
<1>1. CASE acks = _toSendAcks /\ down' = down
  <2>1. PubRecs' = PubRecs
    BY <1>1 DEF PubRecs
  <2>. QED
    BY <1>1, <2>1 DEF AllKept, AskedOnce
<1>2. CASE /\ down # <<>> /\ Head(down).type = PUBREC /\ Head(down) \in DownPacket
           /\ acks = Append(_toSendAcks, Head(down).id) /\ down' = Tail(down)
  <2>1. 1 \in PubRecs /\ down[1] = Head(down)
    BY <1>2, TailOfDown DEF PubRecs
  <2>2. \A i \in PubRecs' : i \in Nat /\ i + 1 # 1 /\ i + 1 \in PubRecs /\ down'[i] = down[i + 1]
    BY <1>2, TailOfDown
  <2> DEFINE n == Len(_toSendAcks) + 1
  <2>3. /\ DOMAIN acks = DOMAIN _toSendAcks \cup {n} /\ n \notin DOMAIN _toSendAcks
        /\ acks[n] = down[1].id /\ \A k \in DOMAIN _toSendAcks : acks[k] = _toSendAcks[k]
    <3>1. Head(down).id \in Id
      BY <1>2, PacketSets
    <3>. QED
      BY <1>2, <2>1, <3>1, Types, AppendOf
  <2>. HIDE DEF n
  <2>4. \A k \in DOMAIN acks : Kept(acks[k])
    BY <2>1, <2>3 DEF AllKept
  <2>5. \A k, l \in DOMAIN acks : acks[k] = acks[l] => k = l
    BY <2>1, <2>3 DEF AskedOnce
  <2>6. \A i \in PubRels, k \in DOMAIN acks : up[i].id # acks[k]
    BY <2>1, <2>3 DEF AskedOnce
  <2>7. \A i \in PubRecs' : Kept(down'[i].id)
    BY <2>2 DEF AllKept
  <2>8. \A i, j \in PubRecs' : down'[i].id = down'[j].id => i = j
    BY <2>2 DEF AskedOnce
  <2>9. \A i \in PubRels, j \in PubRecs' : up[i].id # down'[j].id
    BY <2>2 DEF AskedOnce
  <2>10. \A k \in DOMAIN acks, j \in PubRecs' : acks[k] # down'[j].id
    BY <2>1, <2>2, <2>3 DEF AskedOnce
  <2>. QED
    BY <2>4, <2>5, <2>6, <2>7, <2>8, <2>9, <2>10
<1>. QED
  BY <1>1, <1>2

(* Sending acknowledgements moves each to the packets or leaves it.        *)
LEMMA AcksSentOnce ==
  ASSUME TypeOK, AllKept, AskedOnce, Poll \/ OnPubRec
  PROVE  AllKept' /\ AskedOnce'
<1>1. PICK acks \in Seq(Id) : \E room \in 0 .. Sendable(Len(acks)) :
         /\ SendAcks(acks, room)
         /\ \/ acks = _toSendAcks /\ down' = down
            \/ /\ down # <<>> /\ Head(down).type = PUBREC /\ Head(down) \in DownPacket
               /\ acks = Append(_toSendAcks, Head(down).id) /\ down' = Tail(down)
  BY SentAcks
<1>2. PICK room \in 0 .. Sendable(Len(acks)) : SendAcks(acks, room)
  BY <1>1
<1> DEFINE n == Len(acks)
<1>3. n \in Nat /\ DOMAIN acks = 1 .. n
  OBVIOUS
<1>4. /\ \A k \in DOMAIN acks : Kept(acks[k])
      /\ \A k, l \in DOMAIN acks : acks[k] = acks[l] => k = l
      /\ \A i \in PubRels, k \in DOMAIN acks : up[i].id # acks[k]
      /\ \A i \in PubRecs' : Kept(down'[i].id)
      /\ \A i, j \in PubRecs' : down'[i].id = down'[j].id => i = j
      /\ \A i \in PubRels, j \in PubRecs' : up[i].id # down'[j].id
      /\ \A k \in DOMAIN acks, j \in PubRecs' : acks[k] # down'[j].id
  BY <1>1, AcksOnce
<1>5. \A i \in PubRels' :
        \/ i \in PubRels /\ up'[i] = up[i]
        \/ /\ i \notin PubRels
           /\ \E k \in 1 .. room : i = Len(up) + k /\ up'[i].id = acks[SentFrom(k)]
  <2>1. \A i \in DOMAIN up' :
          \/ i \in DOMAIN up /\ up'[i] = up[i]
          \/ /\ i \notin DOMAIN up
             /\ \E k \in 1 .. room : i = Len(up) + k /\ up'[i] = Ack(PUBREL, acks[SentFrom(k)])
    BY <1>2, SentPackets
  <2>. TAKE i \in PubRels'
  <2>2. i \in DOMAIN up' /\ up'[i].type = PUBREL
    BY DEF PubRels
  <2>3. CASE i \in DOMAIN up /\ up'[i] = up[i]
    BY <2>2, <2>3 DEF PubRels
  <2>4. CASE i \notin DOMAIN up
    <3>1. PICK k \in 1 .. room : i = Len(up) + k /\ up'[i] = Ack(PUBREL, acks[SentFrom(k)])
      BY <2>1, <2>2, <2>4
    <3>2. up'[i].id = acks[SentFrom(k)]
      BY <3>1, PacketTypes
    <3>3. i \notin PubRels
      BY <2>4 DEF PubRels
    <3>. QED
      BY <3>1, <3>2, <3>3
  <2>. QED
    BY <2>1, <2>2, <2>3, <2>4
<1>6. \A i \in DOMAIN _toSendAcks' :
        i \in 1 .. n - room /\ _toSendAcks'[i] = acks[LeftFrom(i, room)]
  BY <1>2, SentPackets
<1>7. /\ \A k \in 1 .. room : SentFrom(k) \in DOMAIN acks
      /\ \A k \in 1 .. n - room : LeftFrom(k, room) \in DOMAIN acks
      /\ \A k, l \in 1 .. room : SentFrom(k) = SentFrom(l) => k = l
      /\ \A k, l \in 1 .. n - room : LeftFrom(k, room) = LeftFrom(l, room) => k = l
      /\ \A k \in 1 .. room, l \in 1 .. n - room : SentFrom(k) # LeftFrom(l, room)
  BY <1>3, SentOrLeft
<1>8. inbox' = inbox
  BY DEF Poll, OnPoll, OnPubRec
<1>9. \A i : Kept(i) => Kept(i)'
  BY <1>8 DEF Kept
<1>. HIDE DEF n
<1>10. AllKept'
  <2>1. \A i \in PubRels' : Kept(up'[i].id)
    BY <1>4, <1>5, <1>7 DEF AllKept
  <2>2. \A i \in DOMAIN _toSendAcks' : Kept(_toSendAcks'[i])
    BY <1>4, <1>6, <1>7
  <2>. QED
    BY <1>4, <1>9, <2>1, <2>2 DEF AllKept
<1>11. \A i, j \in PubRels' : up'[i].id = up'[j].id => i = j
  <2>. SUFFICES ASSUME NEW i \in PubRels', NEW j \in PubRels', up'[i].id = up'[j].id
                PROVE  i = j
    OBVIOUS
  <2>1. CASE i \in PubRels /\ j \in PubRels
    BY <1>5, <2>1 DEF AskedOnce
  <2>2. CASE i \notin PubRels /\ j \notin PubRels
    <3>1. PICK k \in 1 .. room : i = Len(up) + k /\ up'[i].id = acks[SentFrom(k)]
      BY <1>5, <2>2
    <3>2. PICK l \in 1 .. room : j = Len(up) + l /\ up'[j].id = acks[SentFrom(l)]
      BY <1>5, <2>2
    <3>3. SentFrom(k) = SentFrom(l)
      BY <1>4, <1>7, <3>1, <3>2
    <3>. QED
      BY <1>7, <3>1, <3>2, <3>3
  <2>3. ASSUME NEW x \in PubRels', NEW y \in PubRels', x \in PubRels, y \notin PubRels
        PROVE  up'[x].id # up'[y].id
    BY <1>4, <1>5, <1>7, <2>3
  <2>. QED
    BY <2>1, <2>2, <2>3
<1>12. \A i, j \in DOMAIN _toSendAcks' : _toSendAcks'[i] = _toSendAcks'[j] => i = j
  BY <1>4, <1>6, <1>7
<1>13. \A i \in PubRels', j \in DOMAIN _toSendAcks' : up'[i].id # _toSendAcks'[j]
  BY <1>4, <1>5, <1>6, <1>7
<1>14. \A i \in PubRels', j \in PubRecs' : up'[i].id # down'[j].id
  BY <1>4, <1>5, <1>7
<1>15. \A i \in DOMAIN _toSendAcks', j \in PubRecs' : _toSendAcks'[i] # down'[j].id
  BY <1>4, <1>6, <1>7
<1>. QED
  BY <1>4, <1>10, <1>11, <1>12, <1>13, <1>14, <1>15 DEF AskedOnce

(* Each step keeps AllKept and AskedOnce.                                  *)
LEMMA KeptOnceStays ==
  ASSUME TypeOK, Rises, AllKept, AskedOnce, [Next]_vars
  PROVE  AllKept' /\ AskedOnce'
<1>1. CASE OnConnAck
  BY <1>1 DEF OnConnAck, AllKept, AskedOnce, PubRels, PubRecs, Kept
<1>2. CASE OnDisconnect
  BY <1>2 DEF OnDisconnect, Clear, AllKept, AskedOnce, PubRels, PubRecs
<1>3. CASE Publish
  <2> DEFINE p(m) == [type |-> PUBLISH, id |-> _nextPacketId, rec |-> m]
  <2>1. PICK m \in Payload : up' = Append(up, p(m))
    BY <1>3 DEF Publish
  <2>2. _toSendAcks' = _toSendAcks /\ inbox' = inbox /\ down' = down
    BY <1>3 DEF Publish
  <2>3. p(m).type = PUBLISH
    OBVIOUS
  <2>. HIDE DEF p
  <2>4. /\ DOMAIN up' = DOMAIN up \cup {Len(up) + 1} /\ up'[Len(up) + 1] = p(m)
        /\ \A i \in DOMAIN up : up'[i] = up[i]
    <3>1. up \in Seq(UpPacket \cup {p(m)}) /\ p(m) \in UpPacket \cup {p(m)}
      BY Types
    <3>. QED
      BY <2>1, <3>1, AppendOf
  <2>5. PubRels' = PubRels /\ \A i \in PubRels : up'[i] = up[i]
    BY <2>3, <2>4, PacketTypes DEF PubRels
  <2>6. PubRecs' = PubRecs
    BY <2>2 DEF PubRecs
  <2>. QED
    BY <2>2, <2>5, <2>6 DEF AllKept, AskedOnce, Kept
<1>4. CASE Poll \/ OnPubRec
  BY <1>4, AcksSentOnce
<1>5. CASE OnPubComp
  <2>1. up' = up /\ _toSendAcks' = _toSendAcks /\ inbox' = inbox
        /\ down # <<>> /\ down' = Tail(down)
    BY <1>5 DEF OnPubComp, client
  <2>2. PubRels' = PubRels
    BY <2>1 DEF PubRels
  <2>3. \A i \in PubRecs' : i \in Nat /\ i + 1 \in PubRecs /\ down'[i] = down[i + 1]
    BY <2>1, TailOfDown
  <2>4. AllKept'
    BY <2>1, <2>2, <2>3 DEF AllKept, Kept
  <2>5. \A i, j \in PubRecs' : down'[i].id = down'[j].id => i = j
    BY <2>3 DEF AskedOnce
  <2>6. \A i \in PubRels, j \in PubRecs' : up[i].id # down'[j].id
    BY <2>3 DEF AskedOnce
  <2>7. \A i \in DOMAIN _toSendAcks, j \in PubRecs' : _toSendAcks[i] # down'[j].id
    BY <2>3 DEF AskedOnce
  <2>. QED
    BY <2>1, <2>2, <2>4, <2>5, <2>6, <2>7 DEF AskedOnce
<1>6. CASE BrokerPublish
  <2> DEFINE new == up[1].id
  <2>1. /\ up # <<>> /\ up' = Tail(up) /\ up[1].type = PUBLISH /\ _toSendAcks' = _toSendAcks
        /\ inbox' = Append(inbox, Content(up[1])) /\ down' = Append(down, Ack(PUBREC, new))
    BY <1>6, TailOfUp DEF BrokerPublish, client
  <2>2. 1 \in DOMAIN up /\ up[1] \in UpPacket /\ new \in Id
        /\ Content(up[1]) \in Stored /\ Content(up[1]).id = new
    BY <2>1, TailOfUp, PacketSets, PacketTypes
  <2>3. \A i \in PubRels' : i \in Nat /\ i + 1 \in PubRels /\ up'[i] = up[i + 1]
    BY <2>1, TailOfUp
  <2>4. /\ \A k \in PubRecs' : \/ k \in PubRecs /\ down'[k] = down[k]
                               \/ k = Len(down) + 1 /\ down'[k].id = new
        /\ Len(down) + 1 \notin PubRecs
    BY <2>1, <2>2, AppendedDown
  <2>5. /\ DOMAIN inbox' = DOMAIN inbox \cup {Len(inbox) + 1} /\ inbox'[Len(inbox) + 1].id = new
        /\ \A i \in DOMAIN inbox : inbox'[i] = inbox[i]
    BY <2>1, <2>2, Types, AppendOf
  <2>6. \A i : Kept(i) => Kept(i)'
    BY <2>5 DEF Kept
  <2>7. \A i : i = new => Kept(i)'
    BY <2>5 DEF Kept
  <2>8. \A i : Kept(i) => i # new
    BY <2>1, <2>2, IdsAreNumbers DEF Kept, Rises
  <2>. HIDE DEF new
  <2>9. \A i \in PubRels' : Kept(up'[i].id) /\ up'[i].id # new
    BY <2>3, <2>8 DEF AllKept
  <2>10. \A i \in DOMAIN _toSendAcks : Kept(_toSendAcks[i]) /\ _toSendAcks[i] # new
    BY <2>8 DEF AllKept
  <2>11. \A i \in PubRecs : Kept(down[i].id) /\ down[i].id # new
    BY <2>8 DEF AllKept
  <2>12. AllKept'
    BY <2>1, <2>4, <2>6, <2>7, <2>9, <2>10, <2>11 DEF AllKept
  <2>13. \A i, j \in PubRels' : up'[i].id = up'[j].id => i = j
    BY <2>3 DEF AskedOnce
  <2>14. \A i, j \in PubRecs' : down'[i].id = down'[j].id => i = j
    BY <2>4, <2>11 DEF AskedOnce
  <2>15. \A i \in PubRels', j \in DOMAIN _toSendAcks : up'[i].id # _toSendAcks[j]
    BY <2>3 DEF AskedOnce
  <2>16. \A i \in PubRels', j \in PubRecs' : up'[i].id # down'[j].id
    BY <2>3, <2>4, <2>9 DEF AskedOnce
  <2>17. \A i \in DOMAIN _toSendAcks, j \in PubRecs' : _toSendAcks[i] # down'[j].id
    BY <2>4, <2>10 DEF AskedOnce
  <2>18. AskedOnce'
    BY <2>1, <2>13, <2>14, <2>15, <2>16, <2>17 DEF AskedOnce
  <2>. QED
    BY <2>12, <2>18
<1>7. CASE BrokerPubRel
  <2>1. /\ up # <<>> /\ up' = Tail(up) /\ up[1].type = PUBREL /\ _toSendAcks' = _toSendAcks
        /\ inbox' = Released(up[1].id) /\ down' = Append(down, Ack(PUBCOMP, up[1].id))
    BY <1>7, TailOfUp DEF BrokerPubRel, client
  <2>2. 1 \in PubRels /\ up[1].id \in Id
    BY <2>1, TailOfUp, PacketSets DEF PubRels
  <2>3. \A i \in PubRels' : i \in Nat /\ i + 1 # 1 /\ i + 1 \in PubRels /\ up'[i] = up[i + 1]
    BY <2>1, TailOfUp
  <2>4. \A k \in PubRecs' : k \in PubRecs /\ down'[k] = down[k]
    BY <2>1, <2>2, AppendedDown, PacketTypes
  <2>5. PICK k \in DOMAIN inbox : inbox[k].id = up[1].id /\ inbox' = Link!Without(inbox, k)
    BY <2>1, <2>2, Types, ReleasedIs DEF AllKept
  <2>6. \A j \in DOMAIN inbox : j # k => \E i \in DOMAIN inbox' : inbox'[i] = inbox[j]
    BY <2>5, Types, WithoutIs
  <2>7. \A i : Kept(i) /\ i # up[1].id => Kept(i)'
    BY <2>5, <2>6 DEF Kept
  <2>8. \A i \in PubRels' : Kept(up'[i].id) /\ up'[i].id # up[1].id
    BY <2>2, <2>3 DEF AllKept, AskedOnce
  <2>9. \A i \in DOMAIN _toSendAcks : Kept(_toSendAcks[i]) /\ _toSendAcks[i] # up[1].id
    BY <2>2 DEF AllKept, AskedOnce
  <2>10. \A i \in PubRecs' : Kept(down'[i].id) /\ down'[i].id # up[1].id
    BY <2>2, <2>4 DEF AllKept, AskedOnce
  <2>11. AllKept'
    BY <2>1, <2>7, <2>8, <2>9, <2>10 DEF AllKept
  <2>12. \A i, j \in PubRels' : up'[i].id = up'[j].id => i = j
    BY <2>3 DEF AskedOnce
  <2>13. \A i, j \in PubRecs' : down'[i].id = down'[j].id => i = j
    BY <2>4 DEF AskedOnce
  <2>14. \A i \in PubRels', j \in DOMAIN _toSendAcks : up'[i].id # _toSendAcks[j]
    BY <2>3 DEF AskedOnce
  <2>15. \A i \in PubRels', j \in PubRecs' : up'[i].id # down'[j].id
    BY <2>3, <2>4 DEF AskedOnce
  <2>16. \A i \in DOMAIN _toSendAcks, j \in PubRecs' : _toSendAcks[i] # down'[j].id
    BY <2>4 DEF AskedOnce
  <2>17. AskedOnce'
    BY <2>1, <2>12, <2>13, <2>14, <2>15, <2>16 DEF AskedOnce
  <2>. QED
    BY <2>11, <2>17
<1>8. CASE UNCHANGED vars
  BY <1>8 DEF vars, client, AllKept, AskedOnce, PubRels, PubRecs, Kept
<1>. QED
  BY <1>1, <1>2, <1>3, <1>4, <1>5, <1>6, <1>7, <1>8 DEF Next, OnData, Broker

-----------------------------------------------------------------------------
(* The order, as long as no PUBREL waits.                                  *)
Asked == Ids(Selected(up, PUBREL)) \o Ids(Selected(down, PUBREC))

(* No ids in no packets.                                                   *)
LEMMA IdsNothing == Ids(<<>>) = <<>>
  BY DEF Ids

(* The ids of packets are ids.                                             *)
LEMMA IdsSeq ==
  ASSUME NEW q \in Seq(AnyPacket)
  PROVE  Ids(q) \in Seq(Id)
<1>1. \A i \in DOMAIN q : q[i].id \in Id
  <2>. TAKE i \in DOMAIN q
  <2>1. q[i] \in UpPacket \cup DownPacket \cup Stored
    BY DEF AnyPacket
  <2>. QED
    BY <2>1, PacketSets
<1>. QED
  BY <1>1 DEF Ids

(* Each kind of packet is one.                                             *)
LEMMA PacketSeqs == Seq(UpPacket) \cup Seq(DownPacket) \cup Seq(Stored) \subseteq Seq(AnyPacket)
  BY DEF AnyPacket

(* What is selected, and what the broker keeps, are packets.               *)
LEMMA SelectedTypes ==
  ASSUME TypeOK
  PROVE  /\ \A t : Selected(up, t) \in Seq(AnyPacket) /\ Selected(down, t) \in Seq(AnyPacket)
         /\ inbox \in Seq(AnyPacket)
<1>1. \A t : Selected(up, t) \in Seq(UpPacket) /\ Selected(down, t) \in Seq(DownPacket)
  BY Types, SelectedSeq
<1>. QED
  BY <1>1, Types, PacketSeqs

(* What is selected when the packets on their way up grow or shrink by     *)
(* one.                                                                    *)
LEMMA SelectedUp ==
  ASSUME TypeOK, NEW t
  PROVE  /\ \A p \in UpPacket : up' = Append(up, p) /\ p.type # t =>
              Selected(up', t) = Selected(up, t)
         /\ \A p \in UpPacket : up' = Append(up, p) /\ p.type = t =>
              Selected(up', t) = Append(Selected(up, t), p)
         /\ up # <<>> /\ up' = Tail(up) /\ Head(up).type # t =>
              Selected(up', t) = Selected(up, t)
         /\ up # <<>> /\ up' = Tail(up) /\ Head(up).type = t =>
              Selected(up, t) = <<Head(up)>> \o Selected(up', t)
<1>0. up \in Seq(UpPacket)
  BY Types
<1>1. ASSUME NEW p \in UpPacket, up' = Append(up, p)
      PROVE  Selected(up', t) = IF p.type = t THEN Append(Selected(up, t), p)
                                ELSE Selected(up, t)
  <2>1. Selected(Append(up, p), t) =
          IF p.type = t THEN Append(Selected(up, t), p) ELSE Selected(up, t)
    BY <1>0, SelectedAppend
  <2>. QED
    BY <1>1, <2>1
<1>2. ASSUME up # <<>>, up' = Tail(up)
      PROVE  Selected(up, t) = IF Head(up).type = t THEN <<Head(up)>> \o Selected(up', t)
                              ELSE Selected(up', t)
  <2>1. Selected(up, t) = IF Head(up).type = t THEN <<Head(up)>> \o Selected(Tail(up), t)
                         ELSE Selected(Tail(up), t)
    BY <1>0, <1>2, SelectedTail
  <2>. QED
    BY <1>2, <2>1
<1>. QED
  BY <1>1, <1>2

(* The same of the packets on their way down.                              *)
LEMMA SelectedDown ==
  ASSUME TypeOK, NEW t
  PROVE  /\ \A p \in DownPacket : down' = Append(down, p) /\ p.type # t =>
              Selected(down', t) = Selected(down, t)
         /\ \A p \in DownPacket : down' = Append(down, p) /\ p.type = t =>
              Selected(down', t) = Append(Selected(down, t), p)
         /\ down # <<>> /\ down' = Tail(down) /\ Head(down).type # t =>
              Selected(down', t) = Selected(down, t)
         /\ down # <<>> /\ down' = Tail(down) /\ Head(down).type = t =>
              Selected(down, t) = <<Head(down)>> \o Selected(down', t)
<1>0. down \in Seq(DownPacket)
  BY Types
<1>1. ASSUME NEW p \in DownPacket, down' = Append(down, p)
      PROVE  Selected(down', t) = IF p.type = t THEN Append(Selected(down, t), p)
                                  ELSE Selected(down, t)
  <2>1. Selected(Append(down, p), t) =
          IF p.type = t THEN Append(Selected(down, t), p) ELSE Selected(down, t)
    BY <1>0, SelectedAppend
  <2>. QED
    BY <1>1, <2>1
<1>2. ASSUME down # <<>>, down' = Tail(down)
      PROVE  Selected(down, t) = IF Head(down).type = t THEN <<Head(down)>> \o Selected(down', t)
                              ELSE Selected(down', t)
  <2>1. Selected(down, t) = IF Head(down).type = t THEN <<Head(down)>> \o Selected(Tail(down), t)
                         ELSE Selected(Tail(down), t)
    BY <1>0, <1>2, SelectedTail
  <2>. QED
    BY <1>2, <2>1
<1>. QED
  BY <1>1, <1>2

(* The sequences of the algebra below.                                     *)
LEMMA Joined ==
  \A S : \A p, q \in Seq(S), e \in S :
    /\ Append(p, e) \o q = p \o (<<e>> \o q)
    /\ Append(p \o q, e) = p \o Append(q, e)
    /\ (<<e>> \o p) \o q = <<e>> \o (p \o q)
    /\ p \o q \in Seq(S)
<1>. TAKE S
<1>. TAKE p, q \in Seq(S), e \in S
<1>1. <<e>> \in Seq(S) /\ p \o q \in Seq(S)
  OBVIOUS
<1>2. /\ Append(p, e) = p \o <<e>> /\ Append(q, e) = q \o <<e>>
      /\ Append(p \o q, e) = (p \o q) \o <<e>>
  BY <1>1, AppendIsConcat
<1> DEFINE o == <<e>>
<1>6. o \in Seq(S)
  BY <1>1
<1>. HIDE DEF o
<1>3. (p \o o) \o q = p \o (o \o q)
  BY <1>6, ConcatAssociative
<1>4. (p \o q) \o o = p \o (q \o o)
  BY <1>6, ConcatAssociative
<1>5. (o \o p) \o q = o \o (p \o q)
  BY <1>6, ConcatAssociative
<1>. QED
  BY <1>1, <1>2, <1>3, <1>4, <1>5 DEF o

(* Joined, for ids.                                                        *)
LEMMA IdsJoined ==
  \A p, q \in Seq(Id), e \in Id :
    /\ Append(p, e) \o q = p \o (<<e>> \o q)
    /\ Append(p \o q, e) = p \o Append(q, e)
    /\ (<<e>> \o p) \o q = <<e>> \o (p \o q)
    /\ p \o q \in Seq(Id)
  BY Joined, Zenon

(* As long as no PUBREL waited, the first message kept is the one the      *)
(* first PUBREL is for.                                                    *)
LEMMA FirstIsReleased ==
  ASSUME TypeOK, Rises, InStep, ~starved, up # <<>>, Head(up).type = PUBREL,
         NEW k \in DOMAIN inbox, inbox[k].id = Head(up).id
  PROVE  k = 1
<1> DEFINE r == Tail(up)
           a == Ids(Selected(r, PUBREL))
           c == Ids(Selected(down, PUBREC))
           q == a \o c
<1>1. Head(up) \in UpPacket /\ r \in Seq(UpPacket)
  BY Types, TailOf
<1>2. Selected(up, PUBREL) = <<Head(up)>> \o Selected(r, PUBREL)
      /\ Selected(r, PUBREL) \in Seq(UpPacket)
  BY <1>1, Types, SelectedTail, SelectedSeq
<1>3. Selected(r, PUBREL) \in Seq(AnyPacket)
  BY <1>2, PacketSeqs
<1>4. Ids(Selected(up, PUBREL)) = <<Head(up).id>> \o Ids(Selected(r, PUBREL))
  BY <1>2, <1>3, IdsAppend
<1>5. /\ Ids(Selected(r, PUBREL)) \in Seq(Id) /\ Ids(Selected(down, PUBREC)) \in Seq(Id)
      /\ Head(up).id \in Id
  BY <1>1, <1>3, SelectedTypes, IdsSeq, PacketSets
<1>6. Ids(inbox) = (<<Head(up).id>> \o a) \o c
  BY <1>4 DEF InStep
<1>. HIDE DEF a, c
<1>7. Ids(inbox) = <<Head(up).id>> \o q /\ q \in Seq(Id)
  BY <1>5, <1>6, IdsJoined DEF a, c
<1>. HIDE DEF q
<1>8. Ids(inbox)[1] = Head(up).id
  BY <1>5, <1>7
<1>9. 1 \in DOMAIN inbox /\ inbox[1].id = Head(up).id
  <2>1. 1 \in DOMAIN inbox
    BY Types
  <2>. QED
    BY <1>8, <2>1, IdsAppend, SelectedTypes
<1>. QED
  BY <1>9, IdsAreNumbers DEF Rises

(* Each step keeps the PUBRELs in the order of the messages.               *)
LEMMA InStepStays ==
  ASSUME TypeOK, TypeOK', Rises, AllKept, InStep, [Next]_vars
  PROVE  InStep'
<1>1. CASE OnConnAck
  BY <1>1 DEF OnConnAck, InStep
<1>2. CASE OnDisconnect
  <2>1. up' = <<>> /\ down' = <<>> /\ inbox' = <<>> /\ _toSendAcks' = <<>>
    BY <1>2 DEF OnDisconnect, Clear
  <2>2. Ids(Selected(up', PUBREL)) = <<>> /\ Ids(Selected(down', PUBREC)) = <<>>
        /\ Ids(inbox') = <<>>
    BY <2>1, SelectedNothing, IdsNothing
  <2>3. <<>> \o <<>> = <<>>
    OBVIOUS
  <2>. QED
    BY <2>1, <2>2, <2>3 DEF InStep
<1>3. CASE Publish
  <2> DEFINE p(m) == [type |-> PUBLISH, id |-> _nextPacketId, rec |-> m]
  <2>1. PICK m \in Payload : up' = Append(up, p(m))
    BY <1>3 DEF Publish
  <2>2. /\ _toSendAcks' = _toSendAcks /\ inbox' = inbox /\ down' = down /\ starved' = starved
    BY <1>3 DEF Publish
  <2>3. p(m).type # PUBREL /\ Len(up) \in Nat
    BY Types, PacketTypes
  <2>. HIDE DEF p
  <2>4. p(m) \in UpPacket
    <3>1. up' \in Seq(UpPacket)
      BY DEF TypeOK, UpPacket
    <3>2. Len(up) + 1 \in DOMAIN up' /\ up'[Len(up) + 1] = p(m)
      BY <2>1, Types
    <3>. QED
      BY <3>1, <3>2
  <2>5. Selected(up', PUBREL) = Selected(up, PUBREL)
    BY <2>1, <2>3, <2>4, SelectedUp
  <2>. QED
    BY <2>2, <2>5 DEF InStep
<1>4. CASE Poll
  BY <1>4 DEF Poll, OnPoll, SendAcks, InStep
<1>5. CASE OnPubRec
  <2>1. SUFFICES ASSUME ~starved'
                 PROVE  _toSendAcks' = <<>> /\ Ids(inbox') = Asked'
    BY DEF InStep, Asked
  <2> DEFINE acks == Append(_toSendAcks, Head(down).id)
  <2>2. /\ down # <<>> /\ Head(down).type = PUBREC /\ down' = Tail(down) /\ inbox' = inbox
        /\ Head(down) \in DownPacket /\ Head(down).id \in Id
    BY <1>5, Types, TailOf, PacketSets DEF OnPubRec
  <2>3. PICK room \in 0 .. Sendable(Len(acks)) : SendAcks(acks, room)
    BY <1>5 DEF OnPubRec
  <2>4. ~starved /\ ~(room < Len(acks))
    BY <2>1, <2>3 DEF SendAcks
  <2>5. acks[1] = Head(down).id /\ acks \in Seq(Id) /\ Len(acks) = 1 /\ room = 1
    <3>1. Len(_toSendAcks) = 0 /\ _toSendAcks \in Seq(Id)
      BY <2>4, Types DEF InStep
    <3>2. Len(acks) = 1 /\ acks \in Seq(Id) /\ acks[1] = Head(down).id
      BY <2>2, <3>1, AppendProperties
    <3>. HIDE DEF acks
    <3>3. Sendable(1) = 1
      BY DEF Sendable
    <3>4. room \in 0 .. 1
      BY <3>2, <3>3, <2>3
    <3>. QED
      BY <2>4, <3>2, <3>4
  <2> DEFINE rel == Ack(PUBREL, Head(down).id)
  <2>6. up' = Append(up, rel) /\ _toSendAcks' = <<>>
    <3>. HIDE DEF acks
    <3>1. /\ up' \in Seq(UpPacket) /\ _toSendAcks' \in Seq(Id)
          /\ Len(up') = Len(up) + 1
          /\ \A i \in 1 .. Len(up) : up'[i] = up[i]
          /\ \A k \in 1 .. 1 : up'[Len(up) + k] = Ack(PUBREL, acks[SentFrom(k)])
          /\ Len(_toSendAcks') = 1 - 1
      <4>1. /\ up' \in Seq(UpPacket) /\ _toSendAcks' \in Seq(Id)
            /\ Len(up') = Len(up) + room
            /\ \A i \in 1 .. Len(up) : up'[i] = up[i]
            /\ \A k \in 1 .. room : up'[Len(up) + k] = Ack(PUBREL, acks[SentFrom(k)])
            /\ Len(_toSendAcks') = Len(acks) - room
        BY <2>3, <2>5, Types, SendAcksDoes
      <4>. QED
        BY <2>5, <4>1
    <3>2. up'[Len(up) + 1] = rel
      <4>1. SentFrom(1) = 1 /\ 1 \in 1 .. 1 /\ acks[1] = Head(down).id
        BY <2>5 DEF SentFrom
      <4>. QED
        BY <3>1, <4>1
    <3>3. rel \in UpPacket
      BY <2>2, PacketSets
    <3>. HIDE DEF rel
    <3>4. up' = Append(up, rel)
      BY <3>1, <3>2, <3>3, Types
    <3>. QED
      BY <3>1, <3>4
  <2>7. rel \in UpPacket /\ rel.type = PUBREL /\ rel.id = Head(down).id
    BY <2>2, PacketSets, PacketTypes
  <2>. HIDE DEF rel
  <2>8. Selected(up', PUBREL) = Append(Selected(up, PUBREL), rel)
    BY <2>6, <2>7, SelectedUp
  <2>9. Selected(down, PUBREC) = <<Head(down)>> \o Selected(down', PUBREC)
    BY <2>2, SelectedDown
  <2> DEFINE r == Ids(Selected(up, PUBREL))
             c == Ids(Selected(down', PUBREC))
             i == Head(down).id
  <2>10. Selected(down', PUBREC) \in Seq(AnyPacket)
    <3>1. down' \in Seq(DownPacket)
      BY DEF TypeOK, DownPacket
    <3>2. Selected(down', PUBREC) \in Seq(DownPacket)
      BY <3>1, SelectedSeq
    <3>. QED
      BY <3>2, PacketSeqs
  <2>11. /\ Ids(Selected(up', PUBREL)) = Append(r, i)
         /\ Ids(Selected(down, PUBREC)) = <<i>> \o c
         /\ r \in Seq(Id) /\ c \in Seq(Id) /\ i \in Id
    <3>1. Ids(Selected(up', PUBREL)) = Append(r, i)
      <4>1. Selected(up, PUBREL) \in Seq(AnyPacket)
        BY SelectedTypes
      <4>2. Ids(Append(Selected(up, PUBREL), rel)) = Append(Ids(Selected(up, PUBREL)), rel.id)
        BY <4>1, IdsAppend, Zenon
      <4>. QED
        BY <2>7, <2>8, <4>2
    <3>2. Ids(Selected(down, PUBREC)) = <<i>> \o c
      BY <2>9, <2>10, IdsAppend
    <3>3. r \in Seq(Id) /\ c \in Seq(Id)
      BY <2>10, SelectedTypes, IdsSeq
    <3>. QED
      BY <2>2, <3>1, <3>2, <3>3
  <2>12. Append(r, i) \o c = r \o (<<i>> \o c)
    <3>. HIDE DEF r, c, i
    <3>. QED
      BY <2>11, IdsJoined
  <2>13. Ids(inbox) = r \o (<<i>> \o c)
    BY <2>4, <2>11 DEF InStep
  <2>. QED
    BY <2>2, <2>6, <2>11, <2>12, <2>13 DEF Asked
<1>6. CASE OnPubComp
  <2>1. Selected(down', PUBREC) = Selected(down, PUBREC)
    BY <1>6, SelectedDown, PacketTypes DEF OnPubComp
  <2>. QED
    BY <1>6, <2>1 DEF OnPubComp, client, InStep
<1>7. CASE BrokerPublish
  <2>1. SUFFICES ASSUME ~starved'
                 PROVE  _toSendAcks' = <<>> /\ Ids(inbox') = Asked'
    BY DEF InStep, Asked
  <2> DEFINE i == Head(up).id
             rec == Ack(PUBREC, i)
             r == Ids(Selected(up, PUBREL))
             c == Ids(Selected(down, PUBREC))
  <2>2. /\ up # <<>> /\ Head(up).type = PUBLISH /\ up' = Tail(up) /\ i \in Id
        /\ inbox' = Append(inbox, Content(Head(up))) /\ down' = Append(down, rec)
        /\ _toSendAcks' = _toSendAcks /\ ~starved
    BY <1>7, <2>1, Types, TailOf, PacketSets DEF BrokerPublish, client
  <2>3. rec \in DownPacket /\ rec.type = PUBREC /\ rec.id = i /\ Content(Head(up)).id = i
    BY <2>2, PacketSets, PacketTypes
  <2>. HIDE DEF i, rec
  <2>4. Selected(up', PUBREL) = Selected(up, PUBREL)
    BY <2>2, SelectedUp, PacketTypes
  <2>5. Selected(down', PUBREC) = Append(Selected(down, PUBREC), rec)
    BY <2>2, <2>3, SelectedDown
  <2>6. /\ Ids(Selected(down', PUBREC)) = Append(c, i)
        /\ Ids(inbox') = Append(Ids(inbox), i)
        /\ r \in Seq(Id) /\ c \in Seq(Id)
    <3>1. Ids(Selected(down', PUBREC)) = Append(c, i)
      <4>1. Selected(down, PUBREC) \in Seq(AnyPacket)
        BY SelectedTypes
      <4>2. Ids(Append(Selected(down, PUBREC), rec))
              = Append(Ids(Selected(down, PUBREC)), rec.id)
        BY <4>1, IdsAppend, Zenon
      <4>. QED
        BY <2>3, <2>5, <4>2
    <3>2. Ids(inbox') = Append(Ids(inbox), i)
      BY <2>2, <2>3, SelectedTypes, IdsAppend
    <3>3. r \in Seq(Id) /\ c \in Seq(Id)
      BY SelectedTypes, IdsSeq
    <3>. QED
      BY <3>1, <3>2, <3>3
  <2>7. Ids(inbox) = r \o c /\ _toSendAcks = <<>>
    BY <2>2 DEF InStep
  <2>8. Append(r \o c, i) = r \o Append(c, i)
    <3>. HIDE DEF r, c
    <3>. QED
      BY <2>2, <2>6, IdsJoined
  <2>. QED
    BY <2>2, <2>4, <2>6, <2>7, <2>8 DEF Asked
<1>8. CASE BrokerPubRel
  <2>1. SUFFICES ASSUME ~starved'
                 PROVE  _toSendAcks' = <<>> /\ Ids(inbox') = Asked'
    BY DEF InStep, Asked
  <2> DEFINE i == Head(up).id
             comp == Ack(PUBCOMP, i)
             r == Ids(Selected(up', PUBREL))
             c == Ids(Selected(down, PUBREC))
  <2>2. /\ up # <<>> /\ Head(up).type = PUBREL /\ up' = Tail(up) /\ i \in Id
        /\ inbox' = Released(i) /\ down' = Append(down, comp)
        /\ _toSendAcks' = _toSendAcks /\ ~starved
    BY <1>8, <2>1, Types, TailOf, PacketSets DEF BrokerPubRel, client
  <2>3. comp \in DownPacket /\ comp.type = PUBCOMP
    BY <2>2, PacketSets, PacketTypes
  <2>4. Kept(i)
    BY <2>2, Types, TailOf DEF AllKept, PubRels
  <2>5. PICK k \in DOMAIN inbox : inbox[k].id = i /\ inbox' = Link!Without(inbox, k)
    BY <2>2, <2>4, Types, ReleasedIs
  <2>6. k = 1
    BY <2>2, <2>5, FirstIsReleased
  <2>. HIDE DEF comp
  <2>7. Selected(up, PUBREL) = <<Head(up)>> \o Selected(up', PUBREL)
    BY <2>2, SelectedUp
  <2>8. Selected(down', PUBREC) = Selected(down, PUBREC)
    BY <2>2, <2>3, SelectedDown, PacketTypes
  <2>9. Selected(up', PUBREL) \in Seq(AnyPacket)
    <3>1. up' \in Seq(UpPacket)
      BY DEF TypeOK, UpPacket
    <3>2. Selected(up', PUBREL) \in Seq(UpPacket)
      BY <3>1, SelectedSeq
    <3>. QED
      BY <3>2, PacketSeqs
  <2>10. Ids(Selected(up, PUBREL)) = <<i>> \o r /\ r \in Seq(Id) /\ c \in Seq(Id)
    BY <2>7, <2>9, SelectedTypes, IdsAppend, IdsSeq
  <2>. HIDE DEF i, r, c
  <2>11. Ids(inbox) = (<<i>> \o r) \o c /\ _toSendAcks = <<>>
    BY <2>2, <2>10 DEF InStep, c
  <2>12. Ids(inbox) = <<i>> \o (r \o c) /\ r \o c \in Seq(Id)
    BY <2>2, <2>10, <2>11, IdsJoined
  <2>13. Ids(inbox') = r \o c
    <3>1. /\ inbox' = [j \in 1 .. Len(inbox) - 1 |-> inbox[IF j < 1 THEN j ELSE j + 1]]
          /\ Len(inbox) \in Nat \ {0} /\ DOMAIN inbox = 1 .. Len(inbox)
      BY <2>5, <2>6, Types DEF Link!Without
    <3>2. DOMAIN inbox' = 1 .. Len(inbox) - 1
          /\ \A j \in 1 .. Len(inbox) - 1 : inbox'[j] = inbox[j + 1] /\ j + 1 \in DOMAIN inbox
      BY <3>1
    <3>3. \A j \in 1 .. Len(inbox) - 1 : Ids(inbox)[j + 1] = inbox'[j].id
      BY <3>2, IdsAppend, SelectedTypes
    <3>4. Len(Ids(inbox)) = Len(inbox)
      BY IdsAppend, SelectedTypes
    <3> DEFINE q == r \o c
    <3>5. Ids(inbox) = <<i>> \o q /\ q \in Seq(Id)
      BY <2>12
    <3>. HIDE DEF q
    <3>6. Len(q) = Len(inbox) - 1 /\ \A j \in 1 .. Len(q) : Ids(inbox)[j + 1] = q[j]
      <4>1. Len(<<i>> \o q) = Len(q) + 1 /\ Len(q) \in Nat
        BY <2>2, <3>5
      <4>2. \A j \in 1 .. Len(q) : (<<i>> \o q)[j + 1] = q[j]
        BY <2>2, <3>5
      <4>. QED
        <5>1. Len(inbox) \in Nat /\ Len(Ids(inbox)) = Len(q) + 1
          BY <3>1, <3>5, <4>1
        <5>2. Len(q) = Len(inbox) - 1
          BY <3>4, <4>1, <5>1
        <5>. QED
          BY <3>5, <4>2, <5>2
    <3>7. Ids(inbox') = [j \in 1 .. Len(inbox) - 1 |-> inbox'[j].id]
      BY <3>2 DEF Ids
    <3>8. q = [j \in 1 .. Len(q) |-> q[j]]
      BY <3>5
    <3>9. Ids(inbox') = q
      BY <3>3, <3>6, <3>7, <3>8
    <3>. QED
      BY <3>9 DEF q
  <2>. QED
    BY <2>2, <2>8, <2>11, <2>13 DEF Asked, r, c
<1>9. CASE UNCHANGED vars
  BY <1>9 DEF vars, client, InStep
<1>. QED
  BY <1>1, <1>2, <1>3, <1>4, <1>5, <1>6, <1>7, <1>8, <1>9 DEF Next, OnData, Broker

-----------------------------------------------------------------------------
(* The handshake has each of its parts from the first state on.            *)
LEMMA ClientInit == Init => ClientInv
<1>. SUFFICES ASSUME Init PROVE ClientInv
  OBVIOUS
<1>1. /\ up = <<>> /\ down = <<>> /\ inbox = <<>> /\ _toSendAcks = <<>>
      /\ _connected = FALSE /\ starved = FALSE /\ _nextPacketId = 1
      /\ published = 0 /\ drops = 0
  BY DEF Init
<1>2. TypeOK
  <2>1. /\ 1 \in 1 .. MAX_PUBLISH + SUBSCRIPTIONS + 1
        /\ 0 \in 0 .. MAX_PUBLISH /\ 0 \in 0 .. MAX_DROPS
    BY MqttClientAssumption
  <2>2. \A S : <<>> \in Seq(S)
    OBVIOUS
  <2>. QED
    BY <1>1, <2>1, <2>2, Zenon DEF TypeOK
<1>5. IdsBounded
  BY <1>1, MqttClientAssumption DEF IdsBounded
<1>3. Rises /\ AllKept /\ AskedOnce
  BY <1>1 DEF Rises, AllKept, AskedOnce, PubRels, PubRecs
<1>4. InStep
  <2>1. /\ Ids(Selected(up, PUBREL)) = <<>> /\ Ids(Selected(down, PUBREC)) = <<>>
        /\ Ids(inbox) = <<>>
    BY <1>1, SelectedNothing, IdsNothing
  <2>2. <<>> \o <<>> = <<>>
    OBVIOUS
  <2>. QED
    BY <1>1, <2>1, <2>2 DEF InStep
<1>. QED
  BY <1>2, <1>3, <1>4, <1>5 DEF ClientInv

(* Each step keeps the whole invariant.                                    *)
LEMMA ClientStep == ClientInv /\ [Next]_vars => ClientInv'
<1>. SUFFICES ASSUME ClientInv, [Next]_vars PROVE ClientInv'
  OBVIOUS
<1>1. TypeOK' /\ IdsBounded'
  BY TypesStay DEF ClientInv
<1>2. Rises'
  BY RisesStay DEF ClientInv
<1>3. AllKept' /\ AskedOnce'
  BY KeptOnceStays DEF ClientInv
<1>4. InStep'
  BY <1>1, InStepStays DEF ClientInv
<1>. QED
  BY <1>1, <1>2, <1>3, <1>4 DEF ClientInv

(* The invariant of the handshake: the ids of the messages rise, each      *)
(* message whose PUBREL is asked for, waits or is under way is still kept  *)
(* and is asked for once, in order as long as no PUBREL waited.            *)
THEOREM ClientInvariant == Spec => []ClientInv
  BY ClientInit, ClientStep, PTL DEF Spec

(* Every variable of the client, of the packets under way and of the       *)
(* broker stays in its range, and without a connection nothing waits.      *)
THEOREM ClientTypes == Spec => []TypeOK
<1>1. ClientInv => TypeOK
  BY DEF ClientInv
<1>. QED
  BY <1>1, ClientInvariant, PTL

-----------------------------------------------------------------------------
(* What the link holds.                                                    *)
Held == Stored \cup {Content(p) : p \in UpPacket}

Contents(q) == [k \in DOMAIN q |-> Content(q[k])]

(* The wire of the link: what the broker keeps, then what has not reached  *)
(* it.                                                                     *)
LEMMA WireIs == Wire = inbox \o Contents(Selected(up, PUBLISH))
  BY DEF Wire, Contents

(* The same in the next state.                                             *)
LEMMA WireNext == Wire' = inbox' \o Contents(Selected(up', PUBLISH))
  BY DEF Wire, Contents

(* The contents of packets that grow at either end.                        *)
LEMMA ContentsOf ==
  \A q \in Seq(UpPacket) :
    /\ Contents(q) \in Seq(Held)
    /\ \A e \in UpPacket : /\ Contents(Append(q, e)) = Append(Contents(q), Content(e))
                           /\ Contents(<<e>> \o q) = <<Content(e)>> \o Contents(q)
<1>. TAKE q \in Seq(UpPacket)
<1>1. \A p \in UpPacket : Content(p) \in Held
  BY DEF Held
<1>3. Contents(q) \in Seq(Held)
  BY <1>1 DEF Contents
<1>4. \A e \in UpPacket : Contents(Append(q, e)) = Append(Contents(q), Content(e))
  BY DEF Contents
<1>5. \A e \in UpPacket : Contents(<<e>> \o q) = <<Content(e)>> \o Contents(q)
  BY DEF Contents
<1>. QED
  BY <1>3, <1>4, <1>5

(* Joined, for what the link holds.                                        *)
LEMMA HeldJoined ==
  \A p, q \in Seq(Held), e \in Held :
    /\ Append(p, e) \o q = p \o (<<e>> \o q)
    /\ Append(p \o q, e) = p \o Append(q, e)
    /\ (<<e>> \o p) \o q = <<e>> \o (p \o q)
    /\ p \o q \in Seq(Held)
  BY Joined, Zenon

(* What the link holds, and the two parts of it.                           *)
LEMMA HeldTypes ==
  ASSUME TypeOK
  PROVE  /\ inbox \in Seq(Held)
         /\ Selected(up, PUBLISH) \in Seq(UpPacket)
         /\ Contents(Selected(up, PUBLISH)) \in Seq(Held)
         /\ Wire \in Seq(Held)
<1>1. inbox \in Seq(Held)
  BY Types DEF Held
<1>2. Selected(up, PUBLISH) \in Seq(UpPacket)
  BY Types, SelectedSeq
<1>3. Contents(Selected(up, PUBLISH)) \in Seq(Held)
  BY <1>2, ContentsOf
<1>. QED
  BY <1>1, <1>2, <1>3, HeldJoined, WireIs

(* A PUBREL leaves the messages that are under way alone.                  *)
LEMMA SentSelects ==
  ASSUME TypeOK, NEW acks \in Seq(Id), NEW room \in 0 .. Sendable(Len(acks)),
         SendAcks(acks, room)
  PROVE  Selected(up', PUBLISH) = Selected(up, PUBLISH)
<1>1. up \in Seq(UpPacket) /\ up' \in Seq(UpPacket) /\ Len(up') = Len(up) + room
      /\ \A i \in 1 .. Len(up) : up'[i] = up[i]
  BY Types, SendAcksDoes
<1>2. Len(up) \in Nat /\ room \in Nat /\ Len(up) <= Len(up')
  BY <1>1, SentOrLeft
<1>3. ASSUME NEW i \in 1 .. Len(up'), i > Len(up) PROVE up'[i].type # PUBLISH
  <2>1. i \in DOMAIN up' /\ ~ (i \in DOMAIN up)
    BY <1>1, <1>2, <1>3
  <2>2. PICK k \in 1 .. room : up'[i] = Ack(PUBREL, acks[SentFrom(k)])
    BY <2>1, SentPackets
  <2>. QED
    BY <2>2, PacketTypes
<1>. QED
  BY <1>1, <1>2, <1>3, SelectedBefore

(* To take one of the first messages is to take it from them.              *)
LEMMA WithoutOf ==
  \A p, q \in Seq(Held) : \A k \in DOMAIN p :
    /\ k \in 1 .. Len(p \o q) /\ (p \o q)[k] = p[k]
    /\ Link!Without(p, k) \o q = Link!Without(p \o q, k)
<1>. TAKE p, q \in Seq(Held)
<1>. TAKE k \in DOMAIN p
<1> DEFINE r == Link!Without(p, k)
           s == p \o q
<1>1. Len(p) \in Nat \ {0} /\ Len(q) \in Nat /\ k \in 1 .. Len(p)
  OBVIOUS
<1>2. s \in Seq(Held) /\ Len(s) = Len(p) + Len(q)
      /\ \A i \in 1 .. Len(s) : s[i] = IF i <= Len(p) THEN p[i] ELSE q[i - Len(p)]
  BY ConcatProperties
<1>3. r \in Seq(Held) /\ Len(r) = Len(p) - 1
      /\ \A i \in 1 .. Len(p) - 1 : r[i] = p[IF i < k THEN i ELSE i + 1]
  BY WithoutIs DEF Link!Without
<1>4. r \o q \in Seq(Held) /\ Len(r \o q) = Len(r) + Len(q)
      /\ \A i \in 1 .. Len(r) + Len(q) :
           (r \o q)[i] = IF i <= Len(r) THEN r[i] ELSE q[i - Len(r)]
  BY <1>3, ConcatProperties
<1>5. Link!Without(s, k) = [i \in 1 .. Len(s) - 1 |-> s[IF i < k THEN i ELSE i + 1]]
  BY DEF Link!Without
<1> DEFINE t == r \o q
<1>. HIDE DEF r, s
<1>11. t \in Seq(Held)
  BY <1>4
<1>6. DOMAIN t = 1 .. Len(s) - 1
  BY <1>1, <1>2, <1>3, <1>4
<1>7. ASSUME NEW i \in 1 .. Len(s) - 1
      PROVE  t[i] = s[IF i < k THEN i ELSE i + 1]
  <2>1. i \in 1 .. Len(r) + Len(q) /\ i \in Nat /\ Len(r) = Len(p) - 1
    BY <1>1, <1>2, <1>3
  <2>2. CASE i <= Len(p) - 1
    <3>1. t[i] = r[i] /\ i \in 1 .. Len(p) - 1
      BY <1>1, <1>4, <2>1, <2>2
    <3>2. r[i] = p[IF i < k THEN i ELSE i + 1]
      BY <1>3, <3>1
    <3>3. (IF i < k THEN i ELSE i + 1) \in 1 .. Len(p)
          /\ (IF i < k THEN i ELSE i + 1) \in 1 .. Len(s)
      BY <1>1, <1>2, <3>1
    <3>. QED
      BY <1>1, <1>2, <3>1, <3>2, <3>3
  <2>3. CASE ~ (i <= Len(p) - 1)
    <3>1. t[i] = q[i - Len(r)] /\ ~ (i < k)
      BY <1>1, <1>4, <2>1, <2>3
    <3>2. i + 1 \in 1 .. Len(s) /\ ~ (i + 1 <= Len(p)) /\ (i + 1) - Len(p) = i - Len(r)
      BY <1>1, <1>2, <2>1, <2>3
    <3>3. s[i + 1] = q[(i + 1) - Len(p)]
      BY <1>2, <3>2
    <3>. QED
      BY <3>1, <3>2, <3>3
  <2>. QED
    BY <2>2, <2>3
<1>8. t = [i \in DOMAIN t |-> t[i]]
  <2>1. \A u \in Seq(Held) : u = [i \in DOMAIN u |-> u[i]]
    OBVIOUS
  <2>. QED
    BY <1>11, <2>1, Zenon
<1>. HIDE DEF t
<1>9. t = Link!Without(s, k)
  BY <1>5, <1>6, <1>7, <1>8
<1>10. k \in 1 .. Len(s) /\ s[k] = p[k]
  BY <1>1, <1>2
<1>. QED
  BY <1>9, <1>10 DEF t, r, s

-----------------------------------------------------------------------------
(* Each step of the handshake is one of the link, or leaves it alone.      *)
LEMMA ClientStepLinks ==
  ASSUME ClientInv, ClientInv', [Next]_vars
  PROVE  [Link!Next]_(Link!vars)
<1> DEFINE comps == Ids(Selected(down, PUBCOMP))
<1>0. TypeOK /\ TypeOK' /\ Rises /\ AllKept /\ InStep
  BY DEF ClientInv
<1>1. CASE OnConnAck
  <2>1. PICK n \in 0 .. SUBSCRIPTIONS : _nextPacketId' = _nextPacketId + n
    BY <1>1 DEF OnConnAck
  <2>2. ~_connected /\ _connected' = TRUE /\ starved' = starved /\ up' = up /\ down' = down
        /\ inbox' = inbox
    BY <1>1 DEF OnConnAck
  <2>3. Wire' = Wire /\ comps' = comps
    BY <2>2 DEF Wire
  <2>4. Link!Connect(n)
    BY <2>1, <2>2, <2>3 DEF Link!Connect
  <2>. QED
    BY <2>4 DEF Link!Next
<1>2. CASE OnDisconnect
  <2>1. /\ _connected /\ _connected' = FALSE /\ _nextPacketId' = 1 /\ starved' = FALSE
        /\ up' = <<>> /\ down' = <<>> /\ inbox' = <<>>
    BY <1>2 DEF OnDisconnect, Clear
  <2>2. comps' = <<>>
    BY <2>1, SelectedNothing, IdsNothing
  <2>3. Wire' = <<>>
    <3>1. Selected(up', PUBLISH) = <<>> /\ Contents(<<>>) = <<>> /\ <<>> \o <<>> = <<>>
      BY <2>1, SelectedNothing DEF Contents
    <3>2. Wire' = inbox' \o Contents(Selected(up', PUBLISH))
      BY WireIs, WireNext
    <3>. QED
      BY <2>1, <3>1, <3>2
  <2>4. Link!Disconnect
    BY <2>1, <2>2, <2>3 DEF Link!Disconnect
  <2>. QED
    BY <2>4 DEF Link!Next
<1>3. CASE Publish
  <2> DEFINE p(m) == [type |-> PUBLISH, id |-> _nextPacketId, rec |-> m]
  <2>1. PICK m \in Payload : up' = Append(up, p(m))
    BY <1>3 DEF Publish
  <2>2. /\ _connected /\ _connected' = _connected /\ starved' = starved
        /\ _nextPacketId' = _nextPacketId + 1 /\ inbox' = inbox /\ down' = down
    BY <1>3 DEF Publish
  <2>3. p(m).type = PUBLISH /\ Content(p(m)) = [id |-> _nextPacketId, rec |-> m]
    BY DEF Content
  <2>. HIDE DEF p
  <2>4. p(m) \in UpPacket
    <3>1. up' \in Seq(UpPacket)
      BY <1>0 DEF TypeOK, UpPacket
    <3>2. Len(up) + 1 \in DOMAIN up' /\ up'[Len(up) + 1] = p(m)
      BY <1>0, <2>1, Types
    <3>. QED
      BY <3>1, <3>2
  <2>5. Selected(up', PUBLISH) = Append(Selected(up, PUBLISH), p(m))
    BY <1>0, <2>1, <2>3, <2>4, SelectedUp
  <2>6. Contents(Selected(up', PUBLISH)) = Append(Contents(Selected(up, PUBLISH)), Content(p(m)))
    BY <1>0, <2>4, <2>5, ContentsOf, HeldTypes
  <2>7. Wire' = Append(Wire, Content(p(m)))
    <3>1. Content(p(m)) \in Held
      BY <2>4 DEF Held
    <3>2. Wire' = inbox \o Contents(Selected(up', PUBLISH))
      BY <2>2, WireIs, WireNext
    <3>3. Append(inbox \o Contents(Selected(up, PUBLISH)), Content(p(m)))
            = inbox \o Append(Contents(Selected(up, PUBLISH)), Content(p(m)))
      BY <1>0, <3>1, HeldTypes, HeldJoined
    <3>. QED
      BY <2>6, <3>2, <3>3, WireIs, WireNext
  <2>8. comps' = comps
    BY <2>2
  <2>9. Link!Publish(m)
    BY <2>2, <2>3, <2>7, <2>8 DEF Link!Publish
  <2>. QED
    BY <2>9 DEF Link!Next
<1>4. CASE Poll \/ OnPubRec
  <2>0. PICK acks \in Seq(Id) : \E room \in 0 .. Sendable(Len(acks)) :
          /\ SendAcks(acks, room)
          /\ \/ acks = _toSendAcks /\ down' = down
             \/ /\ down # <<>> /\ Head(down).type = PUBREC /\ Head(down) \in DownPacket
                /\ acks = Append(_toSendAcks, Head(down).id) /\ down' = Tail(down)
    BY <1>0, <1>4, SentAcks
  <2>1. PICK room \in 0 .. Sendable(Len(acks)) :
          /\ SendAcks(acks, room)
          /\ \/ down' = down
             \/ down # <<>> /\ Head(down).type = PUBREC /\ down' = Tail(down)
    BY <2>0
  <2>2. /\ _connected' = _connected /\ _nextPacketId' = _nextPacketId /\ inbox' = inbox
        /\ _connected
    BY <1>0, <1>4, Types DEF Poll, OnPoll, OnPubRec
  <2>3. Wire' = Wire
    <3>1. Selected(up', PUBLISH) = Selected(up, PUBLISH)
      BY <1>0, <2>1, SentSelects
    <3>. QED
      BY <2>2, <3>1, WireIs, WireNext
  <2>4. comps' = comps
    <3>1. Selected(down', PUBCOMP) = Selected(down, PUBCOMP)
      BY <1>0, <2>1, SelectedDown, PacketTypes
    <3>. QED
      BY <3>1
  <2>5. starved' = starved \/ (~starved /\ starved' = TRUE)
    BY <1>0, Types, <2>1 DEF SendAcks, TypeOK
  <2>6. CASE starved' = starved
    BY <2>2, <2>3, <2>4, <2>6 DEF Link!vars
  <2>7. CASE ~starved /\ starved' = TRUE
    <3>1. Link!Starve
      BY <2>2, <2>3, <2>4, <2>7 DEF Link!Starve
    <3>. QED
      BY <3>1 DEF Link!Next
  <2>. QED
    BY <2>5, <2>6, <2>7
<1>5. CASE OnPubComp
  <2>1. /\ down # <<>> /\ Head(down).type = PUBCOMP /\ down' = Tail(down)
        /\ _connected' = _connected /\ _nextPacketId' = _nextPacketId /\ starved' = starved
        /\ up' = up /\ inbox' = inbox
    BY <1>5 DEF OnPubComp, client
  <2>2. Selected(down, PUBCOMP) = <<Head(down)>> \o Selected(down', PUBCOMP)
    BY <1>0, <2>1, SelectedDown
  <2>3. Selected(down', PUBCOMP) \in Seq(AnyPacket)
    <3>1. down' \in Seq(DownPacket)
      BY <1>0 DEF TypeOK, DownPacket
    <3>2. Selected(down', PUBCOMP) \in Seq(DownPacket)
      BY <3>1, SelectedSeq
    <3>. QED
      BY <3>2, PacketSeqs
  <2>4. comps = <<Head(down).id>> \o comps' /\ comps' \in Seq(Id)
    BY <2>2, <2>3, IdsAppend, IdsSeq
  <2>. HIDE DEF comps
  <2>5. comps # <<>> /\ comps' = Tail(comps)
    <3>1. \A e : \A q \in Seq(Id) : <<e>> \o q # <<>> /\ Tail(<<e>> \o q) = q
      OBVIOUS
    <3>. QED
      BY <2>4, <3>1
  <2>6. Wire' = Wire
    BY <2>1, WireIs, WireNext
  <2>7. Link!Acknowledge
    BY <2>1, <2>5, <2>6 DEF Link!Acknowledge, comps
  <2>. QED
    BY <2>7 DEF Link!Next
<1>6. CASE BrokerPublish
  <2> DEFINE e == Head(up)
             q == Contents(Selected(up', PUBLISH))
  <2>1. /\ up # <<>> /\ e.type = PUBLISH /\ up' = Tail(up) /\ inbox' = Append(inbox, Content(e))
        /\ down' = Append(down, Ack(PUBREC, e.id)) /\ e \in UpPacket
        /\ _connected' = _connected /\ _nextPacketId' = _nextPacketId /\ starved' = starved
    BY <1>0, <1>6, Types, TailOf DEF BrokerPublish, client
  <2>2. Content(e) \in Held /\ Ack(PUBREC, e.id) \in DownPacket
    BY <2>1, PacketSets DEF Held
  <2>3. Selected(up, PUBLISH) = <<e>> \o Selected(up', PUBLISH)
    BY <1>0, <2>1, SelectedUp
  <2>4. Selected(up', PUBLISH) \in Seq(UpPacket)
    <3>1. up' \in Seq(UpPacket)
      BY <1>0 DEF TypeOK, UpPacket
    <3>. QED
      BY <3>1, SelectedSeq
  <2>5. Contents(Selected(up, PUBLISH)) = <<Content(e)>> \o q /\ q \in Seq(Held)
    <3> DEFINE r == Selected(up', PUBLISH)
    <3>1. r \in Seq(UpPacket) /\ e \in UpPacket /\ Selected(up, PUBLISH) = <<e>> \o r
      BY <2>1, <2>3, <2>4
    <3>. HIDE DEF e, r
    <3>2. Contents(<<e>> \o r) = <<Content(e)>> \o Contents(r) /\ Contents(r) \in Seq(Held)
      BY <3>1, ContentsOf
    <3>. QED
      BY <3>1, <3>2 DEF r
  <2>6. Wire' = Append(inbox, Content(e)) \o q
    BY <2>1, WireIs, WireNext
  <2>7. Append(inbox, Content(e)) \o q = inbox \o (<<Content(e)>> \o q)
    <3>1. inbox \in Seq(Held) /\ q \in Seq(Held) /\ Content(e) \in Held
      BY <1>0, <2>2, <2>5, HeldTypes
    <3>. HIDE DEF q, e
    <3>. QED
      BY <3>1, HeldJoined, Zenon
  <2>8. Wire' = Wire
    BY <2>5, <2>6, <2>7, WireIs, WireNext
  <2>9. Selected(down', PUBCOMP) = Selected(down, PUBCOMP)
    BY <1>0, <2>1, <2>2, SelectedDown, PacketTypes
  <2>10. comps' = comps
    BY <2>9
  <2>. QED
    BY <2>1, <2>8, <2>10 DEF Link!vars
<1>7. CASE BrokerPubRel
  <2> DEFINE i == Head(up).id
             q == Contents(Selected(up, PUBLISH))
  <2>1. /\ up # <<>> /\ Head(up).type = PUBREL /\ up' = Tail(up) /\ inbox' = Released(i)
        /\ down' = Append(down, Ack(PUBCOMP, i)) /\ Head(up) \in UpPacket /\ i \in Id
        /\ _connected' = _connected /\ _nextPacketId' = _nextPacketId /\ starved' = starved
    BY <1>0, <1>7, Types, TailOf, PacketSets DEF BrokerPubRel, client
  <2>2. Kept(i)
    BY <1>0, <2>1, Types, TailOf DEF AllKept, PubRels
  <2>3. PICK k \in DOMAIN inbox : inbox[k].id = i /\ inbox' = Link!Without(inbox, k)
    BY <1>0, <2>1, <2>2, Types, ReleasedIs
  <2>4. k = 1 \/ starved
    BY <1>0, <2>1, <2>3, FirstIsReleased
  <2>5. Selected(up', PUBLISH) = Selected(up, PUBLISH)
    BY <1>0, <2>1, SelectedUp, PacketTypes
  <2>6. Wire = inbox \o q /\ Wire' = Link!Without(inbox, k) \o q /\ q \in Seq(Held)
        /\ inbox \in Seq(Held)
    BY <1>0, <2>3, <2>5, WireIs, WireNext, HeldTypes
  <2>. HIDE DEF q
  <2>7. /\ k \in 1 .. Len(Wire) /\ Wire[k] = inbox[k]
        /\ Wire' = Link!Without(Wire, k)
    BY <2>3, <2>6, WithoutOf
  <2>8. comps' = Append(comps, i)
    <3>1. /\ Ack(PUBCOMP, i) \in DownPacket
          /\ Ack(PUBCOMP, i).type = PUBCOMP /\ Ack(PUBCOMP, i).id = i
      BY <2>1, PacketSets, PacketTypes
    <3>2. Selected(down', PUBCOMP) = Append(Selected(down, PUBCOMP), Ack(PUBCOMP, i))
      BY <1>0, <2>1, <3>1, SelectedDown
    <3>3. Selected(down, PUBCOMP) \in Seq(AnyPacket)
      BY <1>0, SelectedTypes
    <3> DEFINE c == Ack(PUBCOMP, i)
    <3>. HIDE DEF c
    <3>4. Ids(Append(Selected(down, PUBCOMP), c)) = Append(Ids(Selected(down, PUBCOMP)), c.id)
      BY <3>3, IdsAppend, Zenon
    <3>. QED
      BY <3>1, <3>2, <3>4 DEF c
  <2>9. Link!Deliver(k)
    BY <2>1, <2>3, <2>4, <2>7, <2>8 DEF Link!Deliver
  <2>. QED
    BY <2>7, <2>9 DEF Link!Next
<1>8. CASE UNCHANGED vars
  <2>1. Wire' = Wire /\ comps' = comps
    BY <1>8, WireIs, WireNext DEF vars, client
  <2>. QED
    BY <1>8, <2>1 DEF vars, client, Link!vars
<1>. QED
  BY <1>1, <1>2, <1>3, <1>4, <1>5, <1>6, <1>7, <1>8 DEF Next, OnData, Broker

(* The first states of the handshake are those of the link.                *)
LEMMA ClientInitLinks == Init => Link!Init
<1>. SUFFICES ASSUME Init PROVE Link!Init
  OBVIOUS
<1>1. /\ up = <<>> /\ down = <<>> /\ inbox = <<>>
      /\ _connected = FALSE /\ starved = FALSE /\ _nextPacketId = 1
  BY DEF Init
<1>2. Ids(Selected(down, PUBCOMP)) = <<>>
  BY <1>1, SelectedNothing, IdsNothing
<1>3. Wire = <<>>
  <2>1. Selected(up, PUBLISH) = <<>> /\ Contents(<<>>) = <<>> /\ <<>> \o <<>> = <<>>
    BY <1>1, SelectedNothing DEF Contents
  <2>. QED
    BY <1>1, <2>1, WireIs
<1>. QED
  BY <1>1, <1>2, <1>3 DEF Link!Init

(* The QoS 2 handshake of the library is the link that Publisher relies    *)
(* on: within a connection every message is passed on exactly once,        *)
(* acknowledged only after that, and in the order of publishing as long as *)
(* no acknowledgement of the client had to wait for room.                  *)
THEOREM ClientImplementsLink == Spec => ImplementsLink
  BY ClientInitLinks, ClientStepLinks, ClientInvariant, PTL DEF Spec, ImplementsLink, Link!Spec

-----------------------------------------------------------------------------
(* The lengths of the parts of a packet, and the values of a byte.         *)
HeaderLength(p) ==
  IF p.type = "PUBLISH" THEN p.topic + 2 ELSE IF p.type = "PINGRESP" THEN 0 ELSE 2

BodyLength(p) ==
  IF p.type = "PUBLISH" THEN p.payload ELSE IF p.type = "SUBACK" THEN 1 ELSE 0

Remaining(p)  == HeaderLength(p) + BodyLength(p)
Prefix(p)     == 1 + Digits(Remaining(p))
PacketSize(p) == Prefix(p) + Remaining(p)

ByteOf(V) == [type : {"none", "CONNACK", "SUBACK", "PINGRESP", "PUBLISH"},
              value : V, more : BOOLEAN]
AByte     == ByteOf(Nat \cup (Nat \X Nat))

(* Where the parser is when k packets are behind it: between two packets,  *)
(* or in the remaining length, the header or the payload of the next.  The *)
(* bytes that a fallen connection left in remainingLengthBuffer lie before *)
(* the length of the CONNACK, and nowhere else.                            *)
Between(k) ==
  /\ position = End(k)
  /\ bufferState = "NONE"
  /\ k > 0 => remainingLengthBuffer = <<>>
  /\ ~torn => sMsg = <<>>

Offset(k) == position - End(k)

InLength(k) ==
  LET p == stream[k + 1]
      n == Offset(k) - 1
      l == Len(remainingLengthBuffer)
  IN  /\ n \in 0 .. Digits(Remaining(p)) - 1
      /\ bufferState = "REMAINING_LENGTH"
      /\ packetType = p.type
      /\ packet = NewPacket
      /\ n <= l
      /\ k > 0 => l = n
      /\ \A i \in 1 .. n : remainingLengthBuffer[l - n + i] = Length(Remaining(p))[i]
      /\ ~torn => sMsg = <<>>

InHeader(k) ==
  LET p == stream[k + 1]
      n == Offset(k) - Prefix(p)
  IN  /\ n \in 0 .. HeaderLength(p) - 1
      /\ bufferState = "VARIABLE_HEADER"
      /\ packetType = p.type
      /\ remainingLengthBuffer = <<>>
      /\ packet.bytePosition = n
      /\ packetType = "PUBLISH" =>
           /\ remainingLength = Remaining(p)
           /\ packet.bytesRead = 0
           /\ packet.topicLength = IF n >= 2 THEN p.topic ELSE 0
           /\ n >= 2 => packet.ignore = (p.topic > MAX_TOPIC)
      /\ ~torn => sMsg = <<>>

InPayload(k) ==
  LET p == stream[k + 1]
      n == Offset(k) - Prefix(p) - HeaderLength(p)
  IN  /\ n \in 0 .. BodyLength(p) - 1
      /\ bufferState = "PAYLOAD"
      /\ packetType = p.type
      /\ remainingLengthBuffer = <<>>
      /\ packetType = "PUBLISH" =>
           /\ packet.bytesRead = n
           /\ packet.payloadLength = p.payload
           /\ packet.ignore = (p.topic > MAX_TOPIC)
      /\ ~torn => sMsg = IF packetType = "PUBLISH" /\ p.topic <= MAX_TOPIC
                         THEN [i \in 1 .. n |-> <<k + 1, i>>]
                         ELSE <<>>

Within(k) == k < Len(stream) /\ (InLength(k) \/ InHeader(k) \/ InPayload(k))

Told(k) == stream # <<>> /\ ~torn => handled = Due(stream)[k]

Parsed == [bytePosition : Nat, topicLength : Nat, payloadLength : Nat, bytesRead : Nat,
           ignore : BOOLEAN]

(* The wire: what is sent are the bytes of the stream.                     *)
WireInv ==
  /\ stream \in STREAMS \cup {<<>>}
  /\ sent = Sent(stream)[Len(stream)]
  /\ arrived \in 0 .. Len(sent)
  /\ position \in 0 .. arrived
  /\ remainingLengthBuffer \in Seq(ByteOf(Nat))
  /\ packet \in Parsed

ParserInv ==
  /\ WireInv
  /\ \E k \in 0 .. Len(stream) : Told(k) /\ (Between(k) \/ Within(k))

-----------------------------------------------------------------------------
(* The functions the parser is described with.                             *)

(* The quotients of a remaining length.                                    *)
LEMMA QuotientsAre ==
  ASSUME NEW n \in Nat
  PROVE  /\ Quotients(n) \in [Nat -> Nat]
         /\ Quotients(n)[0] = n
         /\ \A i \in Nat : Quotients(n)[i + 1] = Quotients(n)[i] \div BASE
<1> DEFINE F == [i \in Nat |-> [x \in Nat |-> x \div BASE]]
           D(g) == [i \in Nat |-> IF i = 0 THEN n ELSE g[i - 1] \div BASE]
<1>1. BASE \in Nat /\ BASE > 1
  BY MqttParserAssumption
<1>2. \A x \in Nat : x \div BASE \in Nat
  BY <1>1
<1>3. PICK g \in [Nat -> Nat] : g[0] = n /\ \A i \in Nat : g[i + 1] = F[i][g[i]]
  <2> DEFINE V == Nat
  <2>1. n \in V /\ F \in [Nat -> [V -> V]]
    BY <1>2
  <2>. HIDE DEF F, V
  <2>2. \E g \in [Nat -> V] : Follows(g, n, F)
    BY <2>1, Recursion
  <2>. QED
    BY <2>2 DEF V, Follows
<1>4. g = D(g)
  <2>1. ASSUME NEW i \in Nat, i # 0 PROVE g[i] = g[i - 1] \div BASE
    <3>1. i - 1 \in Nat /\ (i - 1) + 1 = i
      BY <2>1
    <3>2. g[i] = F[i - 1][g[i - 1]]
      <4>. HIDE DEF F
      <4>. QED
        BY <3>1, <1>3
    <3>. QED
      BY <3>1, <3>2
  <2>2. g = [i \in Nat |-> g[i]]
    OBVIOUS
  <2>. QED
    BY <2>1, <2>2, <1>3
<1> DEFINE f == CHOOSE q : q = D(q)
<1>5. f = D(f)
  <2>. HIDE DEF D
  <2>. QED
    BY <1>4
<1>6. Quotients(n) = f
  BY DEF Quotients
<1>. HIDE DEF f
<1>7. f[0] = n /\ \A i \in Nat : f[i + 1] = f[i] \div BASE
  <2>1. f[0] = n
    BY <1>5
  <2>2. ASSUME NEW i \in Nat PROVE f[i + 1] = f[i] \div BASE
    <3>1. i + 1 \in Nat /\ i + 1 # 0 /\ (i + 1) - 1 = i
      OBVIOUS
    <3>2. f[i + 1] = D(f)[i + 1]
      <4>. HIDE DEF D
      <4>. QED
        BY <1>5
    <3>. QED
      BY <3>1, <3>2
  <2>. QED
    BY <2>1, <2>2
<1>8. f \in [Nat -> Nat]
  <2> DEFINE T == {i \in Nat : f[i] \in Nat}
  <2>1. T = Nat
    <3>1. 0 \in T
      BY <1>7
    <3>2. ASSUME NEW i \in T PROVE i + 1 \in T
      BY <1>2, <1>7
    <3>3. T \in SUBSET Nat
      OBVIOUS
    <3>. HIDE DEF T
    <3>. QED
      BY <3>1, <3>2, <3>3, Induction
  <2>2. f = [i \in Nat |-> f[i]]
    BY <1>5
  <2>3. \A i \in Nat : f[i] \in Nat
    BY <2>1
  <2>. HIDE DEF D
  <2>. QED
    BY <2>2, <2>3
<1>. QED
  BY <1>6, <1>7, <1>8

(* Division with remainder.                                                *)
LEMMA DivMod ==
  ASSUME NEW x \in Nat, NEW b \in Nat, b > 1
  PROVE  /\ x \div b \in Nat /\ x % b \in 0 .. b - 1
         /\ x = (b * (x \div b)) + (x % b)
         /\ x > 0 => x \div b < x
<1>1. x \div b \in Nat /\ x % b \in 0 .. b - 1 /\ x = (b * (x \div b)) + (x % b)
  OBVIOUS
<1>2. ASSUME NEW q \in Nat, NEW r \in 0 .. b - 1, x = (b * q) + r, x > 0 PROVE q < x
  <2>1. CASE q = 0
    BY <2>1, <1>2
  <2>2. CASE q > 0
    <3>1. b * q >= 2 * q
      BY <2>2
    <3>. QED
      BY <3>1, <2>2, <1>2
  <2>. QED
    BY <2>1, <2>2
<1>. QED
  BY <1>1, <1>2

(* The quotients come down to zero, and the length ends where they do.     *)
LEMMA DigitsAre ==
  ASSUME NEW n \in Nat
  PROVE  /\ Digits(n) \in 1 .. n + 1
         /\ Quotients(n)[Digits(n)] = 0
         /\ \A i \in 1 .. Digits(n) - 1 : Quotients(n)[i] > 0
<1> DEFINE q == Quotients(n)
           T == {i \in Nat : q[i] = 0 \/ q[i] + i <= n}
           S == {d \in 1 .. n + 1 : q[d] = 0}
<1>1. BASE \in Nat /\ BASE > 1
  BY MqttParserAssumption
<1>2. q \in [Nat -> Nat] /\ q[0] = n /\ \A i \in Nat : q[i + 1] = q[i] \div BASE
  BY QuotientsAre
<1>. HIDE DEF q
<1>3. T = Nat
  <2>1. 0 \in T
    BY <1>2
  <2>2. ASSUME NEW i \in T PROVE i + 1 \in T
    <3>1. i \in Nat /\ q[i] \in Nat /\ q[i + 1] \in Nat /\ q[i + 1] = q[i] \div BASE
      BY <1>2
    <3>2. CASE q[i] = 0
      <4>1. q[i + 1] = 0
        <5>1. \A x \in Nat : 0 \div BASE = 0
          BY <1>1
        <5>. QED
          BY <5>1, <3>1, <3>2
      <4>. QED
        BY <4>1
    <3>3. CASE q[i] > 0
      <4>1. q[i + 1] < q[i]
        BY <1>1, <3>1, <3>3, DivMod
      <4>2. q[i] + i <= n
        BY <3>3
      <4>. QED
        BY <4>1, <4>2, <3>1
    <3>. QED
      BY <3>1, <3>2, <3>3
  <2>3. T \in SUBSET Nat
    OBVIOUS
  <2>. HIDE DEF T
  <2>. QED
    BY <2>1, <2>2, <2>3, Induction
<1>4. n + 1 \in S
  <2>1. n + 1 \in Nat
    OBVIOUS
  <2>2. n + 1 \in T
    BY <2>1, <1>3
  <2>3. q[n + 1] \in Nat
    BY <1>2
  <2>. QED
    BY <2>2, <2>3
<1>5. PICK d \in S : \A i \in S : d <= i
  <2>1. S \in SUBSET Nat /\ S # {}
    BY <1>4
  <2>. HIDE DEF S
  <2>. QED
    BY <2>1, Smallest
<1>6. d \in 1 .. n + 1 /\ q[d] = 0 /\ \A i \in 1 .. d - 1 : q[i] > 0
  <2>1. ASSUME NEW i \in 1 .. d - 1 PROVE q[i] > 0
    <3>1. i \in Nat /\ q[i] \in Nat /\ i \in 1 .. n + 1 /\ ~ (d <= i)
      BY <1>2
    <3>. QED
      BY <3>1, <1>5
  <2>. QED
    BY <2>1
<1>. QED
  BY <1>6 DEF Digits, q

(* The value of a remaining length is computed from its last byte on.      *)
LEMMA DecodedBy ==
  ASSUME NEW bytes \in Seq(ByteOf(Nat))
  PROVE  \E f : /\ DecodeRemainingLength(bytes) = f[Len(bytes)]
                /\ f[0] = 0
                /\ \A m \in Nat : m < Len(bytes) =>
                     f[m + 1] = bytes[Len(bytes) - m].value + (BASE * f[m])
<1> DEFINE L == Len(bytes)
           F == [m \in Nat |-> [x \in Nat |->
                   IF m < L THEN bytes[L - m].value + (BASE * x) ELSE x]]
           D(g) == [m \in 0 .. L |->
                      IF m = 0 THEN 0 ELSE bytes[L + 1 - m].value + (BASE * g[m - 1])]
<1>1. BASE \in Nat /\ BASE > 1 /\ L \in Nat
  BY MqttParserAssumption
<1>2. ASSUME NEW m \in Nat, m < L, NEW x \in Nat
      PROVE  bytes[L - m].value + (BASE * x) \in Nat
  <2>1. L - m \in 1 .. Len(bytes)
    BY <1>1, <1>2
  <2>2. bytes[L - m] \in ByteOf(Nat)
    BY <2>1
  <2>3. bytes[L - m].value \in Nat
    BY <2>2 DEF ByteOf
  <2>. QED
    BY <2>3, <1>1
<1>3. PICK g \in [Nat -> Nat] : g[0] = 0 /\ \A m \in Nat : g[m + 1] = F[m][g[m]]
  <2> DEFINE V == Nat
  <2>1. 0 \in V /\ F \in [Nat -> [V -> V]]
    <3>. HIDE DEF L
    <3>. QED
      BY <1>2
  <2>. HIDE DEF F, V
  <2>2. \E g \in [Nat -> V] : Follows(g, 0, F)
    BY <2>1, Recursion
  <2>. QED
    BY <2>2 DEF V, Follows
<1>. HIDE DEF L
<1> DEFINE h == [m \in 0 .. L |-> g[m]]
<1>4. h = D(h)
  <2>1. ASSUME NEW m \in 0 .. L, m # 0
        PROVE  h[m] = bytes[L + 1 - m].value + (BASE * h[m - 1])
    <3>1. m - 1 \in Nat /\ m - 1 \in 0 .. L /\ m - 1 < L /\ (m - 1) + 1 = m
          /\ L - (m - 1) = L + 1 - m
      BY <2>1, <1>1
    <3>2. g[m] = F[m - 1][g[m - 1]]
      <4>. HIDE DEF F
      <4>. QED
        BY <1>3, <3>1
    <3>3. F[m - 1][g[m - 1]] = bytes[L + 1 - m].value + (BASE * g[m - 1])
      BY <3>1
    <3>4. h[m] = g[m] /\ h[m - 1] = g[m - 1]
      BY <3>1
    <3>. QED
      BY <3>2, <3>3, <3>4
  <2>2. 0 \in 0 .. L /\ h[0] = 0
    BY <1>1, <1>3
  <2>. QED
    BY <2>1, <2>2
<1> DEFINE f == CHOOSE x : x = D(x)
<1>5. f = D(f)
  <2>. HIDE DEF D, h
  <2>. QED
    BY <1>4
<1>6. DecodeRemainingLength(bytes) = f[Len(bytes)]
  BY DEF DecodeRemainingLength, L
<1>. HIDE DEF f
<1>7. f[0] = 0
  BY <1>5, <1>1
<1>8. ASSUME NEW m \in Nat, m < L PROVE f[m + 1] = bytes[L - m].value + (BASE * f[m])
  <2>1. m + 1 \in 0 .. L /\ m + 1 # 0 /\ (m + 1) - 1 = m /\ L + 1 - (m + 1) = L - m
    BY <1>8, <1>1
  <2>2. f[m + 1] = D(f)[m + 1]
    <3>. HIDE DEF D
    <3>. QED
      BY <1>5
  <2>. QED
    BY <2>1, <2>2
<1>. QED
  BY <1>6, <1>7, <1>8 DEF L

(* The bytes of a length decode to it, and to no less when others are left *)
(* before them.                                                            *)
LEMMA DecodeIs ==
  ASSUME NEW n \in Nat, NEW bytes \in Seq(ByteOf(Nat)), Digits(n) <= Len(bytes),
         \A i \in 1 .. Digits(n) : bytes[Len(bytes) - Digits(n) + i] = Length(n)[i]
  PROVE  /\ DecodeRemainingLength(bytes) \in Nat
         /\ DecodeRemainingLength(bytes) >= n
         /\ Len(bytes) = Digits(n) => DecodeRemainingLength(bytes) = n
<1> DEFINE q == Quotients(n)
           d == Digits(n)
           L == Len(bytes)
<1>1. BASE \in Nat /\ BASE > 1 /\ L \in Nat /\ d \in Nat /\ d >= 1 /\ d <= L
  <2>1. Digits(n) \in 1 .. n + 1
    BY DigitsAre
  <2>2. \A x \in 1 .. n + 1 : x \in Nat /\ x >= 1
    OBVIOUS
  <2>. QED
    BY <2>1, <2>2, MqttParserAssumption
<1>2. q \in [Nat -> Nat] /\ q[0] = n /\ q[d] = 0
  BY QuotientsAre, DigitsAre
<1>3. \A i \in Nat : q[i + 1] = q[i] \div BASE
  BY QuotientsAre
<1>4. PICK f : /\ DecodeRemainingLength(bytes) = f[L]
               /\ f[0] = 0
               /\ \A m \in Nat : m < L => f[m + 1] = bytes[L - m].value + (BASE * f[m])
  BY DecodedBy
<1>5. ASSUME NEW i \in 1 .. d PROVE bytes[L - d + i].value = q[i - 1] % BASE
  <2>1. bytes[L - d + i] = Length(n)[i]
    OBVIOUS
  <2>2. Length(n)[i] = Byte("none", Quotients(n)[i - 1] % BASE, i < Digits(n))
    BY DEF Length
  <2>. QED
    BY <2>1, <2>2 DEF Byte
<1>. HIDE DEF q, d, L
<1> DEFINE T == {m \in Nat : m <= d => f[m] = q[d - m]}
<1>6. T = Nat
  <2>1. 0 \in T
    BY <1>1, <1>2, <1>4
  <2>2. ASSUME NEW m \in T PROVE m + 1 \in T
    <3>1. SUFFICES ASSUME m + 1 <= d PROVE f[m + 1] = q[d - (m + 1)]
      OBVIOUS
    <3>2. PICK j \in Nat : j = d - (m + 1)
      BY <3>1, <1>1
    <3>3. m \in Nat /\ m < L /\ m <= d /\ d - m = j + 1 /\ j + 1 \in 1 .. d
          /\ L - m = L - d + (j + 1) /\ (j + 1) - 1 = j
      BY <3>1, <3>2, <1>1
    <3>4. bytes[L - m].value = q[j] % BASE
      BY <3>3, <1>5
    <3>5. f[m] = q[j + 1] /\ q[j + 1] = q[j] \div BASE /\ q[j] \in Nat
      BY <3>3, <1>2, <1>3
    <3>6. q[j] = (BASE * (q[j] \div BASE)) + (q[j] % BASE)
      <4>1. \A x \in Nat : x = (BASE * (x \div BASE)) + (x % BASE)
        BY <1>1, DivMod
      <4>. QED
        BY <4>1, <3>5
    <3>7. f[m + 1] = (q[j] % BASE) + (BASE * (q[j] \div BASE))
      BY <3>3, <3>4, <3>5, <1>4
    <3>8. q[j] \div BASE \in Nat /\ q[j] % BASE \in Nat
      BY <3>5, <1>1
    <3>9. BASE * (q[j] \div BASE) \in Nat
      BY <3>8, <1>1
    <3>10. f[m + 1] = q[j]
      BY <3>6, <3>7, <3>8, <3>9
    <3>. QED
      BY <3>10, <3>2
  <2>3. T \in SUBSET Nat
    OBVIOUS
  <2>. HIDE DEF T
  <2>. QED
    BY <2>1, <2>2, <2>3, Induction
<1>7. f[d] = n
  <2>1. d \in T
    BY <1>1, <1>6
  <2>. QED
    BY <2>1, <1>1, <1>2
<1> DEFINE U == {m \in Nat : m + d <= L => f[m + d] \in Nat /\ f[m + d] >= n}
<1>8. U = Nat
  <2>1. 0 \in U
    BY <1>1, <1>7
  <2>2. ASSUME NEW m \in U PROVE m + 1 \in U
    <3>1. SUFFICES ASSUME (m + 1) + d <= L
                   PROVE  f[(m + 1) + d] \in Nat /\ f[(m + 1) + d] >= n
      OBVIOUS
    <3>2. PICK i \in Nat : i = m + d
      BY <1>1
    <3>3. i < L /\ (m + 1) + d = i + 1 /\ f[i] \in Nat /\ f[i] >= n /\ L - i \in 1 .. L
      BY <3>1, <3>2, <1>1
    <3>4. bytes[L - i].value \in Nat
      <4>1. bytes[L - i] \in ByteOf(Nat)
        BY <3>3 DEF L
      <4>. QED
        BY <4>1 DEF ByteOf
    <3>5. f[i + 1] = bytes[L - i].value + (BASE * f[i])
      BY <3>3, <1>4
    <3>6. BASE * f[i] \in Nat /\ BASE * f[i] >= f[i]
      BY <3>3, <1>1
    <3>7. f[i + 1] \in Nat /\ f[i + 1] >= n
      BY <3>3, <3>4, <3>5, <3>6
    <3>. QED
      BY <3>3, <3>7
  <2>3. U \in SUBSET Nat
    OBVIOUS
  <2>. HIDE DEF U
  <2>. QED
    BY <2>1, <2>2, <2>3, Induction
<1>9. f[L] \in Nat /\ f[L] >= n
  <2>1. PICK m \in Nat : m + d = L
    <3>1. L - d \in Nat /\ (L - d) + d = L
      BY <1>1
    <3>. QED
      BY <3>1
  <2>2. m \in U
    BY <1>8
  <2>. QED
    BY <2>1, <2>2, <1>1
<1>. QED
  BY <1>4, <1>7, <1>9 DEF d, L

(* The kinds of packet.                                                    *)
LEMMA PacketIs ==
  ASSUME NEW p \in Packet
  PROVE  /\ p.type \in {"CONNACK", "SUBACK", "PINGRESP", "PUBLISH"}
         /\ p.type = "PUBLISH" => p.topic \in Nat /\ p.topic > 0 /\ p.payload \in Nat
         /\ HeaderLength(p) \in Nat /\ BodyLength(p) \in Nat /\ Remaining(p) \in Nat
         /\ Digits(Remaining(p)) \in Nat /\ Digits(Remaining(p)) >= 1
         /\ Prefix(p) \in Nat /\ Prefix(p) >= 2 /\ PacketSize(p) \in Nat /\ PacketSize(p) >= 2
<1>1. /\ p.type \in {"CONNACK", "SUBACK", "PINGRESP", "PUBLISH"}
      /\ p.type = "PUBLISH" => p.topic \in Nat /\ p.topic > 0 /\ p.payload \in Nat
  BY DEF Packet
<1>2. HeaderLength(p) \in Nat /\ BodyLength(p) \in Nat
  BY <1>1 DEF HeaderLength, BodyLength
<1>3. Remaining(p) \in Nat
  BY <1>2 DEF Remaining
<1>4. Digits(Remaining(p)) \in Nat /\ Digits(Remaining(p)) >= 1
  <2>1. \A n \in Nat : Digits(n) \in 1 .. n + 1
    BY DigitsAre
  <2>2. PICK n \in Nat : n = Remaining(p)
    BY <1>3
  <2>3. \A x \in 1 .. n + 1 : x \in Nat /\ x >= 1
    OBVIOUS
  <2>. QED
    BY <2>1, <2>2, <2>3
<1>. QED
  BY <1>1, <1>2, <1>3, <1>4 DEF Prefix, PacketSize

(* The lengths of the parts of a packet.                                   *)
LEMMA PacketParts ==
  ASSUME NEW p \in Packet
  PROVE  \E a, h, b, d \in Nat :
           /\ a = Prefix(p) /\ h = HeaderLength(p) /\ b = BodyLength(p)
           /\ d = Digits(Remaining(p)) /\ d >= 1 /\ a = 1 + d
           /\ Remaining(p) = h + b /\ PacketSize(p) = a + h + b
<1>1. PICK a \in Nat, h \in Nat, b \in Nat, d \in Nat :
        /\ a = Prefix(p) /\ h = HeaderLength(p) /\ b = BodyLength(p)
        /\ d = Digits(Remaining(p)) /\ d >= 1
  BY PacketIs
<1>2. Remaining(p) = h + b
  BY <1>1 DEF Remaining
<1>3. a = 1 + d
  BY <1>1 DEF Prefix
<1>4. PacketSize(p) = a + (h + b)
  BY <1>1, <1>2 DEF PacketSize
<1>5. a + (h + b) = a + h + b
  OBVIOUS
<1>. QED
  BY <1>1, <1>2, <1>3, <1>4, <1>5

(* Bytes that carry nothing.                                               *)
LEMMA PlainIs ==
  ASSUME NEW n \in Nat
  PROVE  Plain(n) \in Seq(AByte) /\ Len(Plain(n)) = n
<1>1. Byte("none", 0, FALSE) \in AByte
  BY DEF Byte, AByte, ByteOf
<1>2. PICK b \in AByte : b = Byte("none", 0, FALSE)
  BY <1>1
<1>3. Plain(n) = [i \in 1 .. n |-> b]
  BY <1>2 DEF Plain
<1>. QED
  BY <1>3

(* r are the m bytes of s and then the n bytes of t.                       *)
Joins(r, s, t, m, n) ==
  /\ r \in Seq(AByte) /\ Len(r) = m + n
  /\ \A i \in 1 .. m : r[i] = s[i]
  /\ \A i \in 1 .. n : r[m + i] = t[i]

(* Two sequences one after the other.                                      *)
LEMMA Concat ==
  \A s, t \in Seq(AByte) : \A m, n \in Nat :
    Len(s) = m /\ Len(t) = n => Joins(s \o t, s, t, m, n)
<1>. TAKE s, t \in Seq(AByte)
<1>. TAKE m, n \in Nat
<1>. HAVE Len(s) = m /\ Len(t) = n
<1>0. s \o t \in Seq(AByte) /\ Len(s \o t) = m + n
  OBVIOUS
<1>1. \A i \in 1 .. Len(s) + Len(t) : (s \o t)[i] = IF i <= Len(s) THEN s[i] ELSE t[i - Len(s)]
  OBVIOUS
<1>2. ASSUME NEW i \in 1 .. n PROVE (s \o t)[m + i] = t[i]
  <2>1. m + i \in 1 .. Len(s) + Len(t) /\ ~ (m + i <= Len(s)) /\ (m + i) - Len(s) = i
    OBVIOUS
  <2>. QED
    BY <1>1, <2>1
<1>3. ASSUME NEW i \in 1 .. m PROVE (s \o t)[i] = s[i]
  <2>1. i \in 1 .. Len(s) + Len(t) /\ i <= Len(s)
    OBVIOUS
  <2>. QED
    BY <1>1, <2>1
<1>. QED
  BY <1>0, <1>2, <1>3, Zenon DEF Joins

(* The bytes of a header.                                                  *)
LEMMA HeaderIs ==
  ASSUME NEW p \in Packet
  PROVE  /\ Header(p) \in Seq(AByte)
         /\ Len(Header(p)) = HeaderLength(p)
         /\ p.type = "PUBLISH" => Header(p)[2].value = p.topic
<1>1. CASE p.type = "PUBLISH"
  <2> DEFINE a == Plain(1)
             b == <<Byte("none", p.topic, FALSE)>>
             c == Plain(p.topic)
  <2>1. p.topic \in Nat /\ p.topic > 0
    BY <1>1, PacketIs
  <2>2. a \in Seq(AByte) /\ Len(a) = 1 /\ c \in Seq(AByte) /\ Len(c) = p.topic
    BY <2>1, PlainIs
  <2>3. b \in Seq(AByte) /\ Len(b) = 1 /\ b[1].value = p.topic
    BY <2>1 DEF Byte, AByte, ByteOf
  <2>4. Header(p) = a \o b \o c /\ HeaderLength(p) = p.topic + 2
    BY <1>1 DEF Header, HeaderLength
  <2>. HIDE DEF a, b, c
  <2>5. Joins(a \o b, a, b, 1, 1)
    BY <2>2, <2>3, Concat
  <2> DEFINE e == a \o b
  <2>6. e \in Seq(AByte) /\ Len(e) = 2 /\ e[2] = b[1]
    <3>. HIDE DEF e
    <3>1. Joins(e, a, b, 1, 1)
      BY <2>5 DEF e
    <3>. QED
      BY <3>1 DEF Joins
  <2>. HIDE DEF e
  <2>7. PICK n \in Nat : n = p.topic
    BY <2>1
  <2>8. Joins(e \o c, e, c, 2, n)
    BY <2>2, <2>6, <2>7, Concat
  <2>9. e \o c \in Seq(AByte) /\ Len(e \o c) = 2 + n /\ (e \o c)[2] = e[2]
    BY <2>8 DEF Joins
  <2>10. Header(p) = e \o c
    BY <2>4 DEF e
  <2>. QED
    BY <2>1, <2>3, <2>4, <2>6, <2>7, <2>9, <2>10
<1>2. CASE p.type = "PINGRESP"
  BY <1>2 DEF Header, HeaderLength
<1>3. CASE p.type # "PUBLISH" /\ p.type # "PINGRESP"
  <2>1. Header(p) = Plain(2) /\ HeaderLength(p) = 2
    BY <1>3 DEF Header, HeaderLength
  <2>. QED
    BY <1>3, <2>1, PlainIs
<1>. QED
  BY <1>1, <1>2, <1>3

(* The bytes of a payload.                                                 *)
LEMMA BodyIs ==
  ASSUME NEW p \in Packet, NEW k \in Nat
  PROVE  /\ Body(p, k) \in Seq(AByte)
         /\ Len(Body(p, k)) = BodyLength(p)
         /\ p.type = "PUBLISH" => \A i \in 1 .. p.payload : Body(p, k)[i].value = <<k, i>>
<1>1. CASE p.type = "PUBLISH"
  <2>1. p.payload \in Nat
    BY <1>1, PacketIs
  <2>2. Body(p, k) = [i \in 1 .. p.payload |-> Byte("none", <<k, i>>, FALSE)]
    <3>1. \A i \in 1 .. p.payload : Whole(p, k)[i] = <<k, i>>
      BY DEF Whole
    <3>. QED
      BY <1>1, <3>1 DEF Body
  <2>3. ASSUME NEW i \in 1 .. p.payload
        PROVE  /\ Byte("none", <<k, i>>, FALSE) \in AByte
               /\ Byte("none", <<k, i>>, FALSE).value = <<k, i>>
    <3>1. i \in Nat
      BY <2>1
    <3>2. <<k, i>> \in Nat \X Nat
      BY <3>1
    <3> DEFINE v == <<k, i>>
    <3>3. v \in Nat \cup (Nat \X Nat)
      BY <3>2
    <3>. HIDE DEF v
    <3>4. Byte("none", v, FALSE) \in AByte /\ Byte("none", v, FALSE).value = v
      BY <3>3 DEF Byte, AByte, ByteOf
    <3>. QED
      BY <3>4 DEF v
  <2>4. BodyLength(p) = p.payload
    BY <1>1 DEF BodyLength
  <2>5. Body(p, k) \in [1 .. p.payload -> AByte]
    BY <2>2, <2>3
  <2>6. Body(p, k) \in Seq(AByte) /\ Len(Body(p, k)) = p.payload
    BY <2>1, <2>5
  <2>. QED
    BY <2>2, <2>3, <2>4, <2>6
<1>2. CASE p.type = "SUBACK"
  <2>1. Body(p, k) = Plain(1) /\ BodyLength(p) = 1
    BY <1>2 DEF Body, BodyLength
  <2>. QED
    BY <1>2, <2>1, PlainIs
<1>3. CASE p.type # "PUBLISH" /\ p.type # "SUBACK"
  <2>1. Body(p, k) = <<>> /\ BodyLength(p) = 0
    BY <1>3 DEF Body, BodyLength
  <2>. QED
    BY <1>3, <2>1
<1>. QED
  BY <1>1, <1>2, <1>3

(* The bytes of a remaining length.                                        *)
LEMMA LengthIs ==
  ASSUME NEW n \in Nat
  PROVE  /\ Length(n) \in Seq(ByteOf(Nat)) /\ Length(n) \in Seq(AByte)
         /\ Len(Length(n)) = Digits(n)
         /\ \A i \in 1 .. Digits(n) : Length(n)[i].more = (i < Digits(n))
<1>1. Digits(n) \in Nat
  <2>1. Digits(n) \in 1 .. n + 1
    BY DigitsAre
  <2>2. \A x \in 1 .. n + 1 : x \in Nat
    OBVIOUS
  <2>. QED
    BY <2>1, <2>2
<1>2. ASSUME NEW i \in 1 .. Digits(n)
      PROVE  /\ Length(n)[i] \in ByteOf(Nat) /\ Length(n)[i] \in AByte
             /\ Length(n)[i].more = (i < Digits(n))
  <2>1. PICK v \in Nat : v = Quotients(n)[i - 1] % BASE
    <3>1. i - 1 \in Nat
      BY <1>1
    <3>2. Quotients(n)[i - 1] \in Nat
      BY <3>1, QuotientsAre
    <3>3. \A x \in Nat : x % BASE \in Nat
      BY MqttParserAssumption
    <3>. QED
      BY <3>2, <3>3
  <2>2. \A m \in BOOLEAN : /\ Byte("none", v, m) \in ByteOf(Nat)
                           /\ Byte("none", v, m) \in AByte
                           /\ Byte("none", v, m).more = m
    BY DEF Byte, ByteOf, AByte
  <2>3. CASE i < Digits(n)
    <3>1. Length(n)[i] = Byte("none", v, TRUE)
      BY <2>1, <2>3 DEF Length
    <3>. QED
      BY <2>2, <2>3, <3>1
  <2>4. CASE ~ (i < Digits(n))
    <3>0. (i < Digits(n)) = FALSE
      BY <2>4
    <3>1. Length(n)[i] = Byte("none", v, FALSE)
      <4>1. Length(n)[i] = Byte("none", v, i < Digits(n))
        BY <2>1 DEF Length
      <4>. QED
        BY <4>1, <3>0, Zenon
    <3>2. Length(n)[i].more = FALSE
      BY <2>2, <3>1
    <3>. QED
      BY <2>2, <3>0, <3>1, <3>2, Zenon
  <2>. QED
    BY <2>3, <2>4
<1>3. DOMAIN Length(n) = 1 .. Digits(n)
  BY DEF Length
<1>4. Length(n) = [i \in 1 .. Digits(n) |-> Length(n)[i]]
  BY DEF Length
<1>5. Length(n) \in [1 .. Digits(n) -> ByteOf(Nat)] /\ Length(n) \in [1 .. Digits(n) -> AByte]
  BY <1>2, <1>4
<1>. QED
  BY <1>1, <1>2, <1>3, <1>5

(* The bytes of a packet.                                                  *)
LEMMA BytesAre ==
  ASSUME NEW p \in Packet, NEW k \in Nat
  PROVE  /\ Bytes(p, k) \in Seq(AByte)
         /\ Len(Bytes(p, k)) = PacketSize(p)
         /\ Bytes(p, k)[1].type = p.type
         /\ \A i \in 1 .. Digits(Remaining(p)) : Bytes(p, k)[1 + i] = Length(Remaining(p))[i]
         /\ p.type = "PUBLISH" =>
              /\ Bytes(p, k)[Prefix(p) + 2].value = p.topic
              /\ \A i \in 1 .. p.payload :
                   Bytes(p, k)[Prefix(p) + HeaderLength(p) + i].value = <<k, i>>
<1> DEFINE a == <<Byte(p.type, 0, FALSE)>>
           b == Length(Remaining(p))
           c == Header(p)
           d == Body(p, k)
<1>1. /\ a \in Seq(AByte) /\ Len(a) = 1 /\ a[1].type = p.type
  <2>1. p.type \in {"CONNACK", "SUBACK", "PINGRESP", "PUBLISH"}
    BY PacketIs
  <2>. QED
    BY <2>1 DEF Byte, AByte, ByteOf
<1>2. b \in Seq(AByte) /\ Len(b) = Digits(Remaining(p))
  BY PacketIs, LengthIs
<1>3. /\ c \in Seq(AByte) /\ Len(c) = HeaderLength(p)
      /\ p.type = "PUBLISH" => c[2].value = p.topic
  BY HeaderIs
<1>4. /\ d \in Seq(AByte) /\ Len(d) = BodyLength(p)
      /\ p.type = "PUBLISH" => \A i \in 1 .. p.payload : d[i].value = <<k, i>>
  BY BodyIs
<1>5. Bytes(p, k) = a \o b \o c \o d
  BY <1>3, <1>4 DEF Bytes, Remaining
<1>. HIDE DEF a, b, c, d
<1>6. PICK x \in Nat, h \in Nat, l \in Nat :
        x = Digits(Remaining(p)) /\ h = HeaderLength(p) /\ l = BodyLength(p)
  BY PacketIs
<1> DEFINE ab == a \o b
           e == ab \o c
<1>7. Joins(ab, a, b, 1, x)
  BY <1>1, <1>2, <1>6, Concat
<1>8. PICK m \in Nat : m = 1 + x /\ Joins(e, ab, c, m, h)
  <2>1. PICK m \in Nat : m = 1 + x
    OBVIOUS
  <2>. HIDE DEF ab
  <2>2. ab \in Seq(AByte) /\ Len(ab) = m
    BY <1>7, <2>1 DEF Joins
  <2>3. Joins(ab \o c, ab, c, m, h)
    BY <1>3, <1>6, <2>2, Concat
  <2>. QED
    BY <2>1, <2>3
<1>9. PICK n \in Nat : n = 1 + x + h /\ Joins(e \o d, e, d, n, l)
  <2>1. PICK n \in Nat : n = 1 + x + h
    OBVIOUS
  <2>. HIDE DEF e
  <2>2. e \in Seq(AByte) /\ Len(e) = n
    BY <1>8, <2>1 DEF Joins
  <2>3. Joins(e \o d, e, d, n, l)
    BY <1>4, <1>6, <2>2, Concat
  <2>. QED
    BY <2>1, <2>3
<1>. HIDE DEF ab
<1>10. PICK w : w = e \o d /\ Bytes(p, k) = w
  BY <1>5 DEF ab
<1>11. /\ \A i \in 1 .. 1 + x + h : w[i] = e[i]
       /\ \A i \in 1 .. 1 + x : w[i] = ab[i]
       /\ \A i \in 1 .. x : w[1 + i] = b[i]
       /\ \A i \in 1 .. h : w[1 + x + i] = c[i]
       /\ \A i \in 1 .. l : w[1 + x + h + i] = d[i]
       /\ w[1] = a[1]
  <2>. HIDE DEF e
  <2>1. \A i \in 1 .. 1 + x + h : w[i] = e[i]
    BY <1>9, <1>10 DEF Joins
  <2>2. \A i \in 1 .. l : w[1 + x + h + i] = d[i]
    BY <1>9, <1>10 DEF Joins
  <2>3. /\ \A i \in 1 .. 1 + x : e[i] = ab[i]
        /\ \A i \in 1 .. h : e[1 + x + i] = c[i]
    BY <1>8 DEF Joins
  <2>4. \A i \in 1 .. 1 + x : w[i] = ab[i]
    <3>1. \A i \in 1 .. 1 + x : i \in 1 .. 1 + x + h
      OBVIOUS
    <3>. QED
      BY <2>1, <2>3, <3>1
  <2>5. \A i \in 1 .. h : w[1 + x + i] = c[i]
    <3>1. \A i \in 1 .. h : 1 + x + i \in 1 .. 1 + x + h
      OBVIOUS
    <3>. QED
      BY <2>1, <2>3, <3>1
  <2>6. \A i \in 1 .. x : w[1 + i] = b[i]
    <3>1. \A i \in 1 .. x : 1 + i \in 1 .. 1 + x
      OBVIOUS
    <3>2. \A i \in 1 .. x : ab[1 + i] = b[i]
      BY <1>7 DEF Joins
    <3>. QED
      BY <2>4, <3>1, <3>2
  <2>7. w[1] = a[1]
    <3>1. 1 \in 1 .. 1 + x /\ 1 \in 1 .. 1
      OBVIOUS
    <3>2. ab[1] = a[1]
      BY <3>1, <1>7 DEF Joins
    <3>. QED
      BY <2>4, <3>1, <3>2
  <2>. QED
    BY <2>1, <2>2, <2>4, <2>5, <2>6, <2>7
<1>12. Prefix(p) = 1 + x /\ PacketSize(p) = 1 + x + h + l
  BY <1>6 DEF Prefix, PacketSize, Remaining
<1>13. p.type = "PUBLISH" => h >= 2 /\ l = p.payload
  BY <1>6, PacketIs DEF HeaderLength, BodyLength
<1>14. Bytes(p, k) \in Seq(AByte) /\ Len(Bytes(p, k)) = PacketSize(p)
  <2>1. w \in Seq(AByte) /\ Len(w) = n + l
    BY <1>9, <1>10 DEF Joins
  <2>. QED
    BY <1>9, <1>10, <1>12, <2>1
<1>15. Bytes(p, k)[1].type = p.type
  BY <1>1, <1>10, <1>11
<1>16. ASSUME NEW i \in 1 .. Digits(Remaining(p))
       PROVE  Bytes(p, k)[1 + i] = Length(Remaining(p))[i]
  <2>. HIDE DEF e
  <2>. QED
    BY <1>6, <1>10, <1>11 DEF b
<1>17. ASSUME p.type = "PUBLISH"
       PROVE  /\ Bytes(p, k)[Prefix(p) + 2].value = p.topic
              /\ \A i \in 1 .. p.payload :
                   Bytes(p, k)[Prefix(p) + HeaderLength(p) + i].value = <<k, i>>
  <2>. HIDE DEF e
  <2>1. 2 \in 1 .. h
    BY <1>13, <1>17
  <2>2. w[1 + x + 2] = c[2]
    BY <2>1, <1>11
  <2>3. \A i \in 1 .. p.payload : w[1 + x + h + i].value = <<k, i>>
    BY <1>4, <1>11, <1>13, <1>17
  <2>. QED
    BY <2>2, <2>3, <1>3, <1>6, <1>10, <1>12, <1>17
<1>. QED
  BY <1>14, <1>15, <1>16, <1>17

-----------------------------------------------------------------------------
(* The bytes of a stream, and what is due of it.                           *)

(* h starts at a, and goes on by F for n steps.                            *)
Runs(h, a, F, n) == h = [k \in 0 .. n |-> IF k = 0 THEN a ELSE F[k - 1][h[k - 1]]]

(* There is such a function.                                               *)
LEMMA Along ==
  ASSUME NEW V, NEW a \in V, NEW F \in [Nat -> [V -> V]], NEW n \in Nat
  PROVE  \E h \in [0 .. n -> V] : Runs(h, a, F, n)
<1>1. PICK g \in [Nat -> V] : g[0] = a /\ \A k \in Nat : g[k + 1] = F[k][g[k]]
  <2>1. \E g \in [Nat -> V] : Follows(g, a, F)
    BY Recursion
  <2>. QED
    BY <2>1 DEF Follows
<1> DEFINE h == [k \in 0 .. n |-> g[k]]
<1>2. h \in [0 .. n -> V]
  OBVIOUS
<1>3. ASSUME NEW k \in 0 .. n, k # 0 PROVE h[k] = F[k - 1][h[k - 1]]
  <2>1. k - 1 \in Nat /\ k - 1 \in 0 .. n /\ (k - 1) + 1 = k
    BY <1>3
  <2>2. g[k] = F[k - 1][g[k - 1]]
    BY <2>1, <1>1
  <2>. QED
    BY <2>1, <2>2
<1>4. h[0] = a
  BY <1>1
<1>5. h = [k \in 0 .. n |-> h[k]]
  OBVIOUS
<1>. HIDE DEF h
<1>6. h = [k \in 0 .. n |-> IF k = 0 THEN a ELSE F[k - 1][h[k - 1]]]
  BY <1>3, <1>4, <1>5
<1>. QED
  BY <1>2, <1>6 DEF Runs

(* The bytes of a stream, a packet at a time.                              *)
LEMMA SentIs ==
  ASSUME NEW s \in Seq(Packet)
  PROVE  /\ Sent(s)[0] = <<>>
         /\ \A k \in 0 .. Len(s) : Sent(s)[k] \in Seq(AByte)
         /\ \A k \in Nat : k < Len(s) => Sent(s)[k + 1] = Sent(s)[k] \o Bytes(s[k + 1], k + 1)
<1> DEFINE V == Seq(AByte)
           none == <<>>
           F == [k \in Nat |-> [q \in V |->
                   IF k < Len(s) THEN q \o Bytes(s[k + 1], k + 1) ELSE q]]
           D(g) == [k \in 0 .. Len(s) |->
                      IF k = 0 THEN none ELSE g[k - 1] \o Bytes(s[k], k)]
           f == CHOOSE x : x = D(x)
<1>1. Len(s) \in Nat
  OBVIOUS
<1>2. ASSUME NEW k \in Nat, k < Len(s) PROVE Bytes(s[k + 1], k + 1) \in V
  <2>1. s[k + 1] \in Packet
    <3>1. k + 1 \in 1 .. Len(s)
      BY <1>1, <1>2
    <3>. QED
      BY <3>1
  <2>2. k + 1 \in Nat
    OBVIOUS
  <2>. QED
    BY <2>1, <2>2, BytesAre
<1>3. \A q, r \in V : q \o r \in V
  OBVIOUS
<1>4. none \in V
  OBVIOUS
<1>. HIDE DEF V, none
<1>5. F \in [Nat -> [V -> V]]
  BY <1>2, <1>3
<1>6. \E x : x = D(x)
  <2>1. PICK h \in [0 .. Len(s) -> V] :
          h = [k \in 0 .. Len(s) |-> IF k = 0 THEN none ELSE F[k - 1][h[k - 1]]]
    <3>. HIDE DEF F, D, f
    <3>1. PICK n \in Nat : n = Len(s)
      BY <1>1
    <3>2. \E h \in [0 .. n -> V] : Runs(h, none, F, n)
      BY <1>4, <1>5, Along
    <3>. QED
      BY <3>1, <3>2 DEF Runs
  <2>2. ASSUME NEW k \in 0 .. Len(s), k # 0
        PROVE  F[k - 1][h[k - 1]] = h[k - 1] \o Bytes(s[k], k)
    <3>1. k - 1 \in Nat /\ k - 1 < Len(s) /\ (k - 1) + 1 = k /\ k - 1 \in 0 .. Len(s)
      BY <1>1, <2>2
    <3>2. h[k - 1] \in V
      BY <2>1, <3>1
    <3>. QED
      BY <3>1, <3>2
  <2>3. h = D(h)
    <3>. HIDE DEF F
    <3>. QED
      BY <2>1, <2>2
  <2>. QED
    BY <2>3
<1>7. f = D(f)
  <2>. HIDE DEF D
  <2>. QED
    BY <1>6
<1>8. Sent(s) = f
  BY DEF Sent, none
<1>. HIDE DEF f
<1>9. f[0] = none
  BY <1>1, <1>7
<1>10. ASSUME NEW k \in Nat, k < Len(s) PROVE f[k + 1] = f[k] \o Bytes(s[k + 1], k + 1)
  <2>1. k + 1 \in 0 .. Len(s) /\ k + 1 # 0 /\ (k + 1) - 1 = k
    BY <1>1, <1>10
  <2>2. f[k + 1] = D(f)[k + 1]
    <3>. HIDE DEF D
    <3>. QED
      BY <1>7
  <2>. QED
    BY <2>1, <2>2
<1> DEFINE T == {k \in Nat : k <= Len(s) => f[k] \in V}
<1>11. T = Nat
  <2>1. 0 \in T
    BY <1>4, <1>9
  <2>2. ASSUME NEW k \in T PROVE k + 1 \in T
    <3>1. SUFFICES ASSUME k + 1 <= Len(s) PROVE f[k + 1] \in V
      OBVIOUS
    <3>2. k \in Nat /\ k < Len(s) /\ f[k] \in V
      BY <3>1, <1>1
    <3>. QED
      BY <3>2, <1>2, <1>3, <1>10
  <2>3. T \in SUBSET Nat
    OBVIOUS
  <2>. HIDE DEF T
  <2>. QED
    BY <2>1, <2>2, <2>3, Induction
<1>12. \A k \in 0 .. Len(s) : f[k] \in V
  BY <1>1, <1>11
<1>. HIDE DEF D
<1>. QED
  BY <1>8, <1>9, <1>10, <1>12 DEF V, none

(* What is due, a packet at a time.                                        *)
LEMMA DueIs ==
  ASSUME NEW s \in Seq(Packet)
  PROVE  /\ Due(s)[0] = <<>>
         /\ \A k \in Nat : k < Len(s) =>
              Due(s)[k + 1] = IF s[k + 1].type = "PUBLISH" /\ s[k + 1].topic <= MAX_TOPIC
                              THEN Append(Due(s)[k], Whole(s[k + 1], k + 1))
                              ELSE Due(s)[k]
<1> DEFINE V == Seq(Seq(Nat \X Nat))
           none == <<>>
           Fits(k) == s[k].type = "PUBLISH" /\ s[k].topic <= MAX_TOPIC
           F == [k \in Nat |-> [q \in V |->
                   IF k < Len(s) /\ Fits(k + 1) THEN Append(q, Whole(s[k + 1], k + 1)) ELSE q]]
           D(g) == [k \in 0 .. Len(s) |->
                      IF k = 0 THEN none
                      ELSE IF Fits(k) THEN Append(g[k - 1], Whole(s[k], k)) ELSE g[k - 1]]
           f == CHOOSE x : x = D(x)
<1>1. Len(s) \in Nat
  OBVIOUS
<1>2. ASSUME NEW k \in Nat, k < Len(s), Fits(k + 1), NEW q \in V
      PROVE  Append(q, Whole(s[k + 1], k + 1)) \in V
  <2>1. k + 1 \in 1 .. Len(s) /\ k + 1 \in Nat
    BY <1>1, <1>2
  <2>2. s[k + 1] \in Packet
    BY <2>1
  <2>3. s[k + 1].payload \in Nat
    BY <2>2, <1>2, PacketIs
  <2>4. Whole(s[k + 1], k + 1) \in Seq(Nat \X Nat)
    <3>1. PICK j \in Nat, n \in Nat : j = k + 1 /\ n = s[k + 1].payload
      BY <2>1, <2>3
    <3>2. [i \in 1 .. n |-> <<j, i>>] \in Seq(Nat \X Nat)
      OBVIOUS
    <3>3. Whole(s[k + 1], k + 1) = [i \in 1 .. n |-> <<j, i>>]
      BY <3>1 DEF Whole
    <3>. QED
      BY <3>2, <3>3
  <2> DEFINE W == Seq(Nat \X Nat)
             w == Whole(s[k + 1], k + 1)
  <2>5. w \in W /\ q \in Seq(W)
    BY <2>4
  <2>. HIDE DEF W, w
  <2>6. Append(q, w) \in Seq(W)
    BY <2>5
  <2>. QED
    BY <2>6 DEF W, w
<1>4. none \in V
  OBVIOUS
<1>. HIDE DEF V, none
<1>5. F \in [Nat -> [V -> V]]
  <2>. HIDE DEF Fits
  <2>. QED
    BY <1>2
<1>6. \E x : x = D(x)
  <2>1. PICK h \in [0 .. Len(s) -> V] :
          h = [k \in 0 .. Len(s) |-> IF k = 0 THEN none ELSE F[k - 1][h[k - 1]]]
    <3>. HIDE DEF F, D, f
    <3>1. PICK n \in Nat : n = Len(s)
      BY <1>1
    <3>2. \E h \in [0 .. n -> V] : Runs(h, none, F, n)
      BY <1>4, <1>5, Along
    <3>. QED
      BY <3>1, <3>2 DEF Runs
  <2>. HIDE DEF Fits
  <2>2. ASSUME NEW k \in 0 .. Len(s), k # 0
        PROVE  F[k - 1][h[k - 1]] =
                 IF Fits(k) THEN Append(h[k - 1], Whole(s[k], k)) ELSE h[k - 1]
    <3>1. k - 1 \in Nat /\ k - 1 < Len(s) /\ (k - 1) + 1 = k /\ k - 1 \in 0 .. Len(s)
      BY <1>1, <2>2
    <3>2. h[k - 1] \in V
      BY <2>1, <3>1
    <3>. QED
      BY <3>1, <3>2
  <2>3. h = D(h)
    <3>. HIDE DEF F
    <3>. QED
      BY <2>1, <2>2
  <2>. QED
    BY <2>3
<1>7. f = D(f)
  <2>. HIDE DEF D
  <2>. QED
    BY <1>6
<1>8. Due(s) = f
  BY DEF Due, none
<1>. HIDE DEF f, Fits
<1>9. f[0] = none
  BY <1>1, <1>7
<1>10. ASSUME NEW k \in Nat, k < Len(s)
       PROVE  f[k + 1] = IF Fits(k + 1) THEN Append(f[k], Whole(s[k + 1], k + 1)) ELSE f[k]
  <2>1. k + 1 \in 0 .. Len(s) /\ k + 1 # 0 /\ (k + 1) - 1 = k
    BY <1>1, <1>10
  <2>2. f[k + 1] = D(f)[k + 1]
    <3>. HIDE DEF D
    <3>. QED
      BY <1>7
  <2>. QED
    BY <2>1, <2>2
<1>. HIDE DEF D
<1>. QED
  BY <1>8, <1>9, <1>10 DEF Fits, none

(* A packet more.                                                          *)
LEMMA SentOneMore ==
  ASSUME NEW s \in Seq(Packet), NEW k \in Nat, k < Len(s)
  PROVE  /\ s[k + 1] \in Packet
         /\ Len(Sent(s)[k]) \in Nat
         /\ Joins(Sent(s)[k + 1], Sent(s)[k], Bytes(s[k + 1], k + 1),
                  Len(Sent(s)[k]), PacketSize(s[k + 1]))
<1>1. k \in 0 .. Len(s) /\ k + 1 \in 1 .. Len(s) /\ k + 1 \in Nat
  OBVIOUS
<1>2. s[k + 1] \in Packet
  BY <1>1
<1>3. PICK p \in Packet : p = s[k + 1]
  BY <1>2
<1>4. PICK w \in Seq(AByte) : w = Sent(s)[k]
  BY <1>1, SentIs
<1>5. PICK b \in Seq(AByte) : b = Bytes(p, k + 1) /\ Len(b) = PacketSize(p)
  BY <1>1, BytesAre
<1>6. PICK m \in Nat : m = PacketSize(p)
  BY PacketIs
<1>7. PICK l \in Nat : l = Len(w)
  OBVIOUS
<1>8. Joins(w \o b, w, b, l, m)
  BY <1>5, <1>6, <1>7, Concat
<1>9. Sent(s)[k + 1] = w \o b
  BY <1>3, <1>4, <1>5, SentIs
<1>. QED
  BY <1>2, <1>3, <1>4, <1>5, <1>6, <1>7, <1>8, <1>9

(* More packets are more bytes, and begin with the same.                   *)
LEMMA SentGrows ==
  ASSUME NEW s \in Seq(Packet), NEW i \in Nat, NEW m \in Nat, i <= m, m <= Len(s)
  PROVE  /\ Len(Sent(s)[i]) \in Nat /\ Len(Sent(s)[m]) \in Nat
         /\ Len(Sent(s)[i]) + (m - i) <= Len(Sent(s)[m])
         /\ \A j \in 1 .. Len(Sent(s)[i]) : Sent(s)[m][j] = Sent(s)[i][j]
<1> DEFINE W == Sent(s)
           P(n) == /\ Len(W[i]) + n <= Len(W[i + n])
                   /\ \A j \in 1 .. Len(W[i]) : W[i + n][j] = W[i][j]
           T == {n \in Nat : i + n <= Len(s) => P(n)}
<1>1. \A k \in 0 .. Len(s) : Len(W[k]) \in Nat
  <2>1. \A k \in 0 .. Len(s) : W[k] \in Seq(AByte)
    BY SentIs
  <2>. HIDE DEF W
  <2>. QED
    BY <2>1
<1>2. ASSUME NEW k \in Nat, k < Len(s)
      PROVE  /\ Len(W[k]) + 1 <= Len(W[k + 1])
             /\ \A j \in 1 .. Len(W[k]) : W[k + 1][j] = W[k][j]
  <2>1. PICK m1 \in Nat : m1 = PacketSize(s[k + 1]) /\ m1 >= 2
    BY <1>2, SentOneMore, PacketIs
  <2>2. Joins(W[k + 1], W[k], Bytes(s[k + 1], k + 1), Len(W[k]), m1)
    BY <1>2, <2>1, SentOneMore
  <2>3. k \in 0 .. Len(s) /\ k + 1 \in 0 .. Len(s)
    BY <1>2
  <2>4. Len(W[k]) \in Nat /\ Len(W[k + 1]) \in Nat
    BY <1>1, <2>3
  <2>. HIDE DEF W
  <2>. QED
    BY <2>1, <2>2, <2>4 DEF Joins
<1>. HIDE DEF W
<1>3. i \in 0 .. Len(s) /\ m \in 0 .. Len(s)
  OBVIOUS
<1>4. T = Nat
  <2>1. 0 \in T
    BY <1>1, <1>3
  <2>2. ASSUME NEW n \in T PROVE n + 1 \in T
    <3>0. n \in Nat /\ n + 1 \in Nat /\ (i + n <= Len(s) => P(n))
      <4>. HIDE DEF P
      <4>. QED
        OBVIOUS
    <3>1. SUFFICES ASSUME i + (n + 1) <= Len(s) PROVE P(n + 1)
      <4>. HIDE DEF P
      <4>. QED
        BY <3>0
    <3>2. PICK k \in Nat : k = i + n
      OBVIOUS
    <3>3. n \in Nat /\ k < Len(s) /\ i + (n + 1) = k + 1
          /\ k \in 0 .. Len(s) /\ k + 1 \in 0 .. Len(s)
      BY <3>0, <3>1, <3>2
    <3>4. Len(W[i]) \in Nat /\ Len(W[k]) \in Nat /\ Len(W[k + 1]) \in Nat
      BY <1>1, <1>3, <3>3
    <3>5. P(n)
      <4>. HIDE DEF P
      <4>. QED
        BY <3>0, <3>2, <3>3
    <3>6. Len(W[i]) + n <= Len(W[k])
      BY <3>2, <3>5
    <3>10. \A j \in 1 .. Len(W[i]) : W[k][j] = W[i][j]
      BY <3>2, <3>5
    <3>7. Len(W[k]) + 1 <= Len(W[k + 1])
      BY <1>2, <3>3
    <3>11. \A j \in 1 .. Len(W[k]) : W[k + 1][j] = W[k][j]
      BY <1>2, <3>3
    <3>8. Len(W[i]) + (n + 1) <= Len(W[k + 1])
      <4>1. PICK a \in Nat, b \in Nat, c \in Nat :
              a = Len(W[i]) /\ b = Len(W[k]) /\ c = Len(W[k + 1])
        BY <3>4
      <4>2. a + n <= b /\ b + 1 <= c
        BY <3>6, <3>7, <4>1
      <4>3. a + (n + 1) <= c
        BY <3>0, <4>2
      <4>. QED
        BY <4>1, <4>3
    <3>9. \A j \in 1 .. Len(W[i]) : W[k + 1][j] = W[i][j]
      <4>. TAKE j \in 1 .. Len(W[i])
      <4>1. j \in 1 .. Len(W[k])
        BY <3>3, <3>4, <3>6
      <4>. QED
        BY <4>1, <3>10, <3>11
    <3>. QED
      BY <3>3, <3>8, <3>9
  <2>3. T \in SUBSET Nat
    OBVIOUS
  <2>. HIDE DEF T
  <2>. QED
    BY <2>1, <2>2, <2>3, Induction
<1>5. PICK n \in Nat : n = m - i
  OBVIOUS
<1>6. P(n)
  <2>1. i + n <= Len(s)
    BY <1>5
  <2>. HIDE DEF P
  <2>2. n \in T => (i + n <= Len(s) => P(n))
    OBVIOUS
  <2>. HIDE DEF T
  <2>3. n \in T
    BY <1>4
  <2>. QED
    BY <2>1, <2>2, <2>3
<1>7. i + n = m
  BY <1>5
<1>8. Len(W[i]) + n <= Len(W[m]) /\ \A j \in 1 .. Len(W[i]) : W[m][j] = W[i][j]
  BY <1>6, <1>7
<1>. QED
  BY <1>1, <1>3, <1>5, <1>8 DEF W

(* Where the bytes of a packet are.                                        *)
LEMMA PacketAt ==
  ASSUME NEW s \in Seq(Packet), NEW k \in Nat, k < Len(s)
  PROVE  /\ s[k + 1] \in Packet
         /\ Len(Sent(s)[k]) \in Nat
         /\ Len(Sent(s)[k + 1]) = Len(Sent(s)[k]) + PacketSize(s[k + 1])
         /\ Len(Sent(s)[Len(s)]) \in Nat
         /\ Len(Sent(s)[k + 1]) <= Len(Sent(s)[Len(s)])
         /\ \A j \in 1 .. PacketSize(s[k + 1]) :
              Sent(s)[Len(s)][Len(Sent(s)[k]) + j] = Bytes(s[k + 1], k + 1)[j]
<1> DEFINE W == Sent(s)
<1>1. PICK n \in Nat : n = Len(s)
  OBVIOUS
<1>2. PICK m \in Nat : m = PacketSize(s[k + 1]) /\ m >= 2
  BY SentOneMore, PacketIs
<1>3. PICK l \in Nat : l = Len(W[k])
  BY SentOneMore
<1>4. s[k + 1] \in Packet
  BY SentOneMore
<1>5. Joins(W[k + 1], W[k], Bytes(s[k + 1], k + 1), l, m)
  BY <1>2, <1>3, SentOneMore
<1>6. PICK i \in Nat : i = k + 1 /\ i <= n
  BY <1>1
<1>7. /\ Len(W[i]) \in Nat /\ Len(W[n]) \in Nat /\ Len(W[i]) + (n - i) <= Len(W[n])
      /\ \A j \in 1 .. Len(W[i]) : W[n][j] = W[i][j]
  <2>1. n <= Len(s)
    BY <1>1
  <2>. QED
    BY <2>1, <1>6, SentGrows
<1>. HIDE DEF W
<1>8. /\ Len(W[i]) = l + m
      /\ \A j \in 1 .. m : W[i][l + j] = Bytes(s[k + 1], k + 1)[j]
  BY <1>5, <1>6 DEF Joins
<1>9. \A j \in 1 .. m : l + j \in 1 .. Len(W[i])
  BY <1>8
<1>10. \A j \in 1 .. m : W[n][l + j] = Bytes(s[k + 1], k + 1)[j]
  BY <1>7, <1>8, <1>9
<1>11. Len(W[i]) <= Len(W[n])
  BY <1>6, <1>7
<1>. QED
  BY <1>1, <1>2, <1>3, <1>4, <1>6, <1>7, <1>8, <1>10, <1>11 DEF W

-----------------------------------------------------------------------------
(* The invariant of the parser.                                            *)

(* The packet the parser looks at next, and where its bytes are.           *)
Ahead(k) ==
  LET p == stream[k + 1]
  IN  /\ k < Len(stream)
      /\ stream \in Seq(Packet) /\ p \in Packet
      /\ k = 0 => p.type = "CONNACK"
      /\ End(k) \in Nat
      /\ End(k + 1) = End(k) + PacketSize(p)
      /\ End(k + 1) <= Len(sent)
      /\ \A j \in 1 .. PacketSize(p) : sent[End(k) + j] = Bytes(p, k + 1)[j]

(* Streams are sequences of packets, CONNACK first.                        *)
LEMMA StreamIs ==
  ASSUME WireInv
  PROVE  /\ stream \in Seq(Packet) /\ Len(stream) \in Nat
         /\ stream # <<>> => stream[1].type = "CONNACK"
         /\ End(0) = 0
         /\ \A k \in 0 .. Len(stream) : End(k) \in Nat
         /\ End(Len(stream)) = Len(sent)
<1>1. stream \in Seq(Packet) /\ (stream # <<>> => Head(stream).type = "CONNACK")
  <2>1. CASE stream = <<>>
    BY <2>1
  <2>2. CASE stream \in STREAMS
    BY <2>2, MqttParserAssumption
  <2>. QED
    BY <2>1, <2>2 DEF WireInv
<1>2. PICK n \in Nat : n = Len(stream)
  BY <1>1
<1>3. ASSUME NEW k \in 0 .. Len(stream) PROVE End(k) \in Nat
  <2>1. Sent(stream)[k] \in Seq(AByte)
    BY <1>1, SentIs
  <2>. QED
    BY <2>1 DEF End
<1>4. End(0) = 0
  <2>1. Sent(stream)[0] = <<>>
    BY <1>1, SentIs
  <2>. QED
    BY <2>1 DEF End
<1>5. stream # <<>> => stream[1].type = "CONNACK"
  BY <1>1
<1>6. End(Len(stream)) = Len(sent)
  BY DEF End, WireInv
<1>. QED
  BY <1>1, <1>2, <1>3, <1>4, <1>5, <1>6

(* Before the end of the stream there is a packet ahead.                   *)
LEMMA AheadIs ==
  ASSUME WireInv, NEW k \in Nat, k < Len(stream)
  PROVE  Ahead(k)
<1>1. stream \in Seq(Packet) /\ (k = 0 => stream[k + 1].type = "CONNACK")
  BY StreamIs
<1>2. sent = Sent(stream)[Len(stream)]
  BY DEF WireInv
<1>. QED
  BY <1>1, <1>2, PacketAt DEF Ahead, End

(* With bytes to look at, there is a packet ahead.                         *)
LEMMA WhereIs ==
  ASSUME ParserInv, position < arrived
  PROVE  \E k \in Nat : /\ Ahead(k) /\ Told(k)
                        /\ Between(k) \/ InLength(k) \/ InHeader(k) \/ InPayload(k)
<1>1. WireInv
  BY DEF ParserInv
<1>2. PICK k \in 0 .. Len(stream) : Told(k) /\ (Between(k) \/ Within(k))
  BY DEF ParserInv
<1>3. k \in Nat /\ k <= Len(stream) /\ Len(stream) \in Nat
  BY <1>1, StreamIs
<1>4. k < Len(stream)
  <2>1. CASE Between(k)
    <3>1. SUFFICES ASSUME k = Len(stream) PROVE FALSE
      BY <1>3
    <3>2. position = Len(sent)
      BY <2>1, <3>1, <1>1, StreamIs DEF Between
    <3>3. arrived <= Len(sent) /\ arrived \in Nat /\ position \in Nat
      <4>1. Len(sent) \in Nat
        <5>1. Len(stream) \in 0 .. Len(stream)
          BY <1>3
        <5>2. End(Len(stream)) \in Nat
          BY <1>1, <5>1, StreamIs
        <5>. QED
          BY <5>2, <1>1, StreamIs
      <4>. QED
        BY <1>1, <4>1 DEF WireInv
    <3>. QED
      BY <3>2, <3>3
  <2>2. CASE Within(k)
    BY <2>2 DEF Within
  <2>. QED
    BY <1>2, <2>1, <2>2
<1>5. Ahead(k)
  BY <1>1, <1>3, <1>4, AheadIs
<1>. QED
  BY <1>2, <1>3, <1>5 DEF Within

(* What a round leaves alone.                                              *)
LEMMA Stays ==
  ASSUME UNCHANGED wired
  PROVE  /\ stream' = stream /\ sent' = sent /\ arrived' = arrived /\ torn' = torn
         /\ \A k : End(k)' = End(k) /\ Due(stream)[k]' = Due(stream)[k]
  BY DEF wired, End

(* The byte _onData looks at.                                              *)
LEMMA CurrentIs ==
  ASSUME NEW k \in Nat, Ahead(k), NEW o \in Nat, position = End(k) + o,
         o < PacketSize(stream[k + 1])
  PROVE  Current = Bytes(stream[k + 1], k + 1)[o + 1]
<1>1. PICK m \in Nat : m = PacketSize(stream[k + 1])
  BY PacketIs DEF Ahead
<1>2. PICK e \in Nat : e = End(k)
  BY DEF Ahead
<1>3. \A j \in 1 .. m : sent[e + j] = Bytes(stream[k + 1], k + 1)[j]
  BY <1>1, <1>2 DEF Ahead
<1>4. o + 1 \in 1 .. m /\ position + 1 = e + (o + 1)
  BY <1>1, <1>2
<1>. QED
  BY <1>3, <1>4 DEF Current

(* The byte it looks at when n bytes of the length are behind it.          *)
LEMMA CurrentLength ==
  ASSUME NEW k \in Nat, Ahead(k), NEW n \in Nat, position \in Nat, n = position - End(k) - 1,
         n < Digits(Remaining(stream[k + 1]))
  PROVE  Current = Length(Remaining(stream[k + 1]))[n + 1]
<1>1. PICK p \in Packet, e \in Nat : p = stream[k + 1] /\ e = End(k)
  BY DEF Ahead
<1>2. PICK a \in Nat, h \in Nat, b \in Nat, d \in Nat :
        /\ a = Prefix(p) /\ h = HeaderLength(p) /\ b = BodyLength(p)
        /\ d = Digits(Remaining(p)) /\ d >= 1 /\ a = 1 + d
        /\ Remaining(p) = h + b /\ PacketSize(p) = a + h + b
  BY PacketParts
<1>3. n < d /\ n = position - e - 1
  BY <1>1, <1>2
<1>4. PICK o \in Nat : o = n + 1
  OBVIOUS
<1>5. position = e + o
  BY <1>3, <1>4
<1>6. o < a + h + b
  BY <1>2, <1>3, <1>4
<1>7. Current = Bytes(p, k + 1)[o + 1]
  BY <1>1, <1>2, <1>5, <1>6, CurrentIs
<1>8. o \in 1 .. d /\ o + 1 = 1 + o /\ k + 1 \in Nat
  BY <1>3, <1>4
<1>9. Bytes(p, k + 1)[1 + o] = Length(Remaining(p))[o]
  BY <1>2, <1>8, BytesAre
<1>. QED
  BY <1>1, <1>4, <1>7, <1>8, <1>9

(* A round of the parser that brings it there.                             *)
LEMMA Arrives ==
  ASSUME UNCHANGED wired, WireInv', NEW k \in Nat, Ahead(k), Told(k)',
         Between(k)' \/ InLength(k)' \/ InHeader(k)' \/ InPayload(k)'
  PROVE  ParserInv'
<1>1. k \in 0 .. Len(stream') /\ k < Len(stream')
  BY Stays DEF Ahead
<1>. QED
  BY <1>1 DEF ParserInv, Within

(* A round that ends a packet.                                             *)
LEMMA Ends ==
  ASSUME UNCHANGED wired, WireInv', NEW k \in Nat, Ahead(k), Told(k + 1)', Between(k + 1)'
  PROVE  ParserInv'
<1>1. k + 1 \in 0 .. Len(stream')
  BY Stays DEF Ahead
<1>. QED
  BY <1>1 DEF ParserInv

-----------------------------------------------------------------------------
(* Every step keeps the invariant.                                         *)

(* The connections.                                                        *)
LEMMA ParserStarts == ParserInit => ParserInv
<1>. SUFFICES ASSUME ParserInit PROVE ParserInv
  OBVIOUS
<1>1. Sent(<<>>)[0] = <<>>
  <2>1. <<>> \in Seq(Packet)
    OBVIOUS
  <2>. QED
    BY <2>1, SentIs
<1>2. WireInv
  BY <1>1 DEF ParserInit, WireInv, NewPacket, Parsed
<1>3. Told(0) /\ Between(0) /\ 0 \in 0 .. Len(stream)
  BY <1>1 DEF ParserInit, Told, Between, End
<1>. QED
  BY <1>2, <1>3 DEF ParserInv

(* A new connection starts between two packets, whatever the last one left *)
(* behind.                                                                 *)
LEMMA ConnectionMadeKeeps ==
  ASSUME ParserInv, ConnectionMade
  PROVE  ParserInv'
<1>1. WireInv /\ stream = <<>>
  BY DEF ParserInv, ConnectionMade
<1>2. PICK s \in STREAMS : stream' = s /\ sent' = Sent(s)[Len(s)]
  BY DEF ConnectionMade
<1>3. /\ arrived' = arrived /\ position' = position /\ bufferState' = bufferState
      /\ remainingLengthBuffer' = remainingLengthBuffer /\ packet' = packet
      /\ sMsg' = sMsg /\ torn' = torn /\ handled' = <<>>
  BY DEF ConnectionMade, parser
<1>4. Between(0)
  <2>1. PICK k \in 0 .. Len(stream) : Between(k) \/ Within(k)
    BY DEF ParserInv
  <2>2. k = 0 /\ ~ (k < Len(stream))
    BY <1>1
  <2>. QED
    BY <2>1, <2>2 DEF Within
<1>5. Sent(<<>>)[0] = <<>> /\ s \in Seq(Packet) /\ Len(s) \in Nat
      /\ Sent(s)[0] = <<>> /\ Due(s)[0] = <<>>
  <2>1. <<>> \in Seq(Packet) /\ s \in Seq(Packet)
    BY MqttParserAssumption
  <2>2. Sent(<<>>)[0] = <<>>
    BY <2>1, SentIs
  <2>3. Sent(s)[0] = <<>>
    BY <2>1, SentIs
  <2>4. Due(s)[0] = <<>>
    BY <2>1, DueIs
  <2>5. Len(s) \in Nat
    BY <2>1
  <2>. QED
    BY <2>1, <2>2, <2>3, <2>4, <2>5
<1>6. position = 0 /\ arrived = 0
  <2>1. sent = <<>> /\ Len(sent) = 0
    BY <1>1, <1>5 DEF WireInv
  <2>. QED
    BY <1>1, <2>1 DEF WireInv
<1>7. Len(sent') \in Nat
  <2>1. Sent(s)[Len(s)] \in Seq(AByte)
    <3>1. Len(s) \in 0 .. Len(s)
      BY <1>5
    <3>. QED
      BY <1>5, <3>1, SentIs
  <2>. QED
    BY <1>2, <2>1
<1>8. WireInv'
  BY <1>1, <1>2, <1>3, <1>6, <1>7 DEF WireInv
<1>9. Between(0)'
  BY <1>2, <1>3, <1>4, <1>5, <1>6 DEF Between, End
<1>10. Told(0)'
  BY <1>2, <1>3, <1>5 DEF Told
<1>11. 0 \in 0 .. Len(stream')
  BY <1>2, <1>5
<1>. QED
  BY <1>8, <1>9, <1>10, <1>11 DEF ParserInv

(* A connection may fall anywhere in a packet: _clear takes the parser     *)
(* back to the beginning, but for the bytes of a length.                   *)
LEMMA ConnectionFallsKeeps ==
  ASSUME ParserInv, ConnectionFalls
  PROVE  ParserInv'
<1>1. /\ stream' = <<>> /\ sent' = <<>> /\ arrived' = 0 /\ position' = 0
      /\ bufferState' = "NONE" /\ packet' = NewPacket
      /\ remainingLengthBuffer' = remainingLengthBuffer
      /\ torn' = (torn \/ sMsg # <<>>) /\ sMsg' = sMsg
  BY DEF ConnectionFalls, ClearParser
<1>2. Sent(<<>>)[0] = <<>>
  <2>1. <<>> \in Seq(Packet)
    OBVIOUS
  <2>. QED
    BY <2>1, SentIs
<1>3. WireInv'
  <2>1. remainingLengthBuffer \in Seq(ByteOf(Nat))
    BY DEF ParserInv, WireInv
  <2>. QED
    BY <1>1, <1>2, <2>1 DEF WireInv, NewPacket, Parsed
<1>4. Between(0)' /\ Told(0)' /\ 0 \in 0 .. Len(stream')
  <2>1. Sent(stream')[0] = <<>> /\ Len(stream') = 0
    BY <1>1, <1>2
  <2>2. Len(Sent(stream')[0]) = 0
    BY <2>1
  <2>3. ~torn' => sMsg' = <<>>
    BY <1>1
  <2>. QED
    BY <1>1, <2>1, <2>2, <2>3 DEF Between, Told, End
<1>. QED
  BY <1>3, <1>4 DEF ParserInv

(* A segment may end anywhere in a packet.                                 *)
LEMMA SegmentArrivesKeeps ==
  ASSUME ParserInv, SegmentArrives
  PROVE  ParserInv'
<1>1. WireInv
  BY DEF ParserInv
<1>2. /\ stream' = stream /\ sent' = sent /\ torn' = torn /\ position' = position
      /\ bufferState' = bufferState /\ packetType' = packetType
      /\ remainingLength' = remainingLength
      /\ remainingLengthBuffer' = remainingLengthBuffer
      /\ packet' = packet /\ sMsg' = sMsg /\ handled' = handled
      /\ position = arrived /\ arrived' \in arrived + 1 .. Len(sent)
  BY DEF SegmentArrives, parser
<1>3. WireInv'
  <2>1. Len(sent) \in Nat /\ arrived \in Nat
    <3>1. Len(stream) \in 0 .. Len(stream)
      BY <1>1, StreamIs
    <3>2. Len(sent) \in Nat
      BY <1>1, <3>1, StreamIs
    <3>. QED
      BY <1>1, <3>2 DEF WireInv
  <2>2. arrived' \in 0 .. Len(sent) /\ position \in 0 .. arrived'
    BY <1>2, <2>1
  <2>. QED
    BY <1>1, <1>2, <2>2 DEF WireInv
<1>4. PICK k \in 0 .. Len(stream) : Told(k) /\ (Between(k) \/ Within(k))
  BY DEF ParserInv
<1>5. Told(k)'
  BY <1>2, <1>4 DEF Told
<1>6. Between(k) => Between(k)'
  BY <1>2 DEF Between, End
<1>7. Within(k) => Within(k)'
  BY <1>2 DEF Within, InLength, InHeader, InPayload, Offset, End
<1>8. k \in 0 .. Len(stream')
  BY <1>2
<1>. QED
  BY <1>3, <1>4, <1>5, <1>6, <1>7, <1>8 DEF ParserInv

(* The bytes a round looks at have arrived.                                *)
LEMMA WireStays ==
  ASSUME WireInv, UNCHANGED wired, NEW n \in Nat, position' = position + n,
         n <= arrived - position,
         remainingLengthBuffer' \in Seq(ByteOf(Nat)), packet' \in Parsed
  PROVE  WireInv'
<1>1. Len(sent) \in Nat /\ arrived \in Nat /\ position \in Nat
  <2>1. Len(stream) \in 0 .. Len(stream)
    BY StreamIs
  <2>2. Len(sent) \in Nat
    BY <2>1, StreamIs
  <2>. QED
    BY <2>2 DEF WireInv
<1>2. position' \in 0 .. arrived
  BY <1>1
<1>. QED
  BY <1>2, Stays DEF WireInv

(* After the type of a packet the parser is in its length.                 *)
LEMMA TypeByteKeeps ==
  ASSUME ParserInv, TypeByte
  PROVE  ParserInv'
<1>1. /\ bufferState = "NONE" /\ position < arrived
      /\ packetType' = Current.type /\ packet' = NewPacket
      /\ bufferState' = "REMAINING_LENGTH" /\ position' = position + 1
      /\ sMsg' = sMsg /\ handled' = handled /\ UNCHANGED wired
      /\ remainingLengthBuffer' = remainingLengthBuffer
  BY DEF TypeByte, In, NoMessage
<1>2. PICK k \in Nat : /\ Ahead(k) /\ Told(k)
                       /\ Between(k) \/ InLength(k) \/ InHeader(k) \/ InPayload(k)
  BY <1>1, WhereIs
<1>3. Between(k)
  BY <1>1, <1>2 DEF InLength, InHeader, InPayload
<1>4. PICK p \in Packet, e \in Nat : p = stream[k + 1] /\ e = End(k)
  BY <1>2 DEF Ahead
<1>5. position = e /\ (k > 0 => remainingLengthBuffer = <<>>) /\ (~torn => sMsg = <<>>)
  BY <1>3, <1>4 DEF Between
<1>6. packetType' = p.type
  <2>1. position = End(k) + 0 /\ 0 < PacketSize(p)
    BY <1>4, <1>5, PacketIs
  <2>2. Current = Bytes(p, k + 1)[1]
    BY <2>1, <1>2, <1>4, CurrentIs
  <2>3. k + 1 \in Nat
    OBVIOUS
  <2>. QED
    BY <1>1, <2>2, <2>3, BytesAre
<1>7. WireInv'
  <2>1. WireInv /\ remainingLengthBuffer \in Seq(ByteOf(Nat))
    BY DEF ParserInv, WireInv
  <2>2. NewPacket \in Parsed
    BY DEF NewPacket, Parsed
  <2>3. position \in Nat /\ arrived \in Nat /\ 1 <= arrived - position
    BY <1>1, <1>5, <2>1 DEF WireInv
  <2>. QED
    BY <1>1, <2>1, <2>2, <2>3, WireStays
<1>8. Told(k)'
  BY <1>1, <1>2, Stays DEF Told
<1>9. InLength(k)'
  <2>1. stream'[k + 1] = p /\ Offset(k)' - 1 = 0
    BY <1>1, <1>4, <1>5, Stays DEF Offset
  <2>2. PICK d \in Nat : d = Digits(Remaining(p)) /\ d >= 1
    BY PacketIs
  <2>3. PICK l \in Nat : l = Len(remainingLengthBuffer) /\ (k > 0 => l = 0)
    <3>1. remainingLengthBuffer \in Seq(ByteOf(Nat))
      BY DEF ParserInv, WireInv
    <3>2. Len(remainingLengthBuffer) \in Nat
      BY <3>1
    <3>. QED
      BY <1>5, <3>2
  <2>4. ~torn' => sMsg' = <<>>
    BY <1>1, <1>5, Stays
  <2>. QED
    BY <1>1, <1>6, <2>1, <2>2, <2>3, <2>4 DEF InLength
<1>. QED
  BY <1>1, <1>2, <1>7, <1>8, <1>9, Arrives

(* Of a CONNACK or SUBACK each byte takes the parser where the packet is.  *)
LEMMA AckHeaderKeeps ==
  ASSUME ParserInv, AckHeader
  PROVE  ParserInv'
<1>1. /\ bufferState = "VARIABLE_HEADER" /\ position < arrived /\ packetType # "PUBLISH"
      /\ packet' = [packet EXCEPT !.bytePosition = @ + 1]
      /\ bufferState' = IF packet.bytePosition = 0 THEN "VARIABLE_HEADER"
                        ELSE IF packetType = "SUBACK" THEN "PAYLOAD" ELSE "NONE"
      /\ position' = position + 1
      /\ sMsg' = sMsg /\ handled' = handled /\ UNCHANGED wired
      /\ packetType' = packetType /\ remainingLengthBuffer' = remainingLengthBuffer
  BY DEF AckHeader, In, NoMessage
<1>2. PICK k \in Nat : /\ Ahead(k) /\ Told(k)
                       /\ Between(k) \/ InLength(k) \/ InHeader(k) \/ InPayload(k)
  BY <1>1, WhereIs
<1>3. InHeader(k)
  BY <1>1, <1>2 DEF Between, InLength, InPayload
<1>4. PICK p \in Packet, e \in Nat : p = stream[k + 1] /\ e = End(k)
  BY <1>2 DEF Ahead
<1>5. PICK a \in Nat, h \in Nat, b \in Nat :
        a = Prefix(p) /\ h = HeaderLength(p) /\ b = BodyLength(p) /\ PacketSize(p) = a + h + b
  BY PacketIs DEF PacketSize, Remaining
<1>6. PICK n \in 0 .. h - 1 : n = position - e - a
  BY <1>3, <1>4, <1>5 DEF InHeader, Offset
<1>7. /\ packetType = p.type /\ remainingLengthBuffer = <<>> /\ packet.bytePosition = n
      /\ ~torn => sMsg = <<>>
  BY <1>3, <1>4, <1>5, <1>6 DEF InHeader, Offset
<1>8. /\ p.type \in {"CONNACK", "SUBACK", "PINGRESP"} /\ h = IF p.type = "PINGRESP" THEN 0 ELSE 2
      /\ b = IF p.type = "SUBACK" THEN 1 ELSE 0
  BY <1>1, <1>5, <1>7, PacketIs DEF HeaderLength, BodyLength
<1>9. h = 2 /\ n \in {0, 1}
  BY <1>6, <1>8
<1>10. packet \in Parsed /\ packet' \in Parsed /\ packet'.bytePosition = n + 1
  <2>1. packet \in Parsed
    BY DEF ParserInv, WireInv
  <2>. QED
    BY <2>1, <1>1, <1>7 DEF Parsed
<1>11. WireInv /\ position \in Nat /\ arrived \in Nat
  BY DEF ParserInv, WireInv
<1>12. WireInv'
  <2>1. 1 <= arrived - position
    BY <1>1, <1>11
  <2>2. remainingLengthBuffer' \in Seq(ByteOf(Nat))
    BY <1>1, <1>7
  <2>. QED
    BY <1>1, <1>10, <1>11, <2>1, <2>2, WireStays
<1>13. stream'[k + 1] = p /\ End(k)' = e /\ torn' = torn
  BY <1>1, <1>4, Stays
<1>14. Told(k)'
  BY <1>1, <1>2, Stays DEF Told
<1>15. /\ packetType' = p.type /\ packetType' # "PUBLISH" /\ remainingLengthBuffer' = <<>>
       /\ ~torn' => sMsg' = <<>>
  BY <1>1, <1>7, <1>13
<1>16. CASE n = 0
  <2>1. Offset(k)' - Prefix(p) = 1
    BY <1>1, <1>5, <1>6, <1>11, <1>13, <1>16 DEF Offset
  <2>2. bufferState' = "VARIABLE_HEADER"
    BY <1>1, <1>7, <1>16
  <2>3. InHeader(k)'
    <3>1. 1 \in 0 .. HeaderLength(p) - 1 /\ packet'.bytePosition = 1
      BY <1>5, <1>9, <1>10, <1>16
    <3>. QED
      BY <1>13, <1>15, <2>1, <2>2, <3>1 DEF InHeader
  <2>. QED
    BY <1>1, <1>2, <1>12, <1>14, <2>3, Arrives
<1>17. CASE n = 1 /\ p.type = "SUBACK"
  <2>1. Offset(k)' - Prefix(p) - HeaderLength(p) = 0
    BY <1>1, <1>5, <1>6, <1>9, <1>11, <1>13, <1>17 DEF Offset
  <2>2. bufferState' = "PAYLOAD"
    BY <1>1, <1>7, <1>17
  <2>3. InPayload(k)'
    <3>1. 0 \in 0 .. BodyLength(p) - 1
      BY <1>5, <1>8, <1>17
    <3>. QED
      BY <1>13, <1>15, <2>1, <2>2, <3>1 DEF InPayload
  <2>. QED
    BY <1>1, <1>2, <1>12, <1>14, <2>3, Arrives
<1>18. CASE n = 1 /\ p.type # "SUBACK"
  <2>1. bufferState' = "NONE"
    BY <1>1, <1>7, <1>18
  <2>2. position' = End(k + 1)'
    <3>1. End(k + 1) = e + a + h + b
      BY <1>2, <1>4, <1>5 DEF Ahead
    <3>2. End(k + 1)' = End(k + 1)
      BY <1>1, Stays
    <3>3. b = 0
      BY <1>8, <1>18
    <3>. QED
      BY <1>1, <1>6, <1>9, <1>11, <1>18, <3>1, <3>2, <3>3
  <2>3. Between(k + 1)'
    BY <1>1, <1>7, <1>13, <2>1, <2>2 DEF Between
  <2>4. Told(k + 1)'
    <3>1. Due(stream)[k + 1] = Due(stream)[k]
      BY <1>1, <1>2, <1>4, <1>7, DueIs DEF Ahead
    <3>2. Due(stream)[k + 1]' = Due(stream)[k + 1]
      BY <1>1, Stays
    <3>. QED
      BY <1>1, <1>2, <1>13, <3>1, <3>2, Stays DEF Told
  <2>. QED
    BY <1>1, <1>2, <1>12, <2>3, <2>4, Ends
<1>. QED
  BY <1>9, <1>16, <1>17, <1>18

(* The payload of a SUBACK is one byte, and the last one of the packet.    *)
LEMMA AckPayloadKeeps ==
  ASSUME ParserInv, AckPayload
  PROVE  ParserInv'
<1>1. /\ bufferState = "PAYLOAD" /\ position < arrived /\ packetType # "PUBLISH"
      /\ packet' = packet /\ bufferState' = "NONE" /\ position' = position + 1
      /\ sMsg' = sMsg /\ handled' = handled /\ UNCHANGED wired
      /\ packetType' = packetType /\ remainingLengthBuffer' = remainingLengthBuffer
  BY DEF AckPayload, In, NoMessage
<1>2. PICK k \in Nat : /\ Ahead(k) /\ Told(k)
                       /\ Between(k) \/ InLength(k) \/ InHeader(k) \/ InPayload(k)
  BY <1>1, WhereIs
<1>3. InPayload(k)
  BY <1>1, <1>2 DEF Between, InLength, InHeader
<1>4. PICK p \in Packet, e \in Nat : p = stream[k + 1] /\ e = End(k)
  BY <1>2 DEF Ahead
<1>5. PICK a \in Nat, h \in Nat, b \in Nat :
        a = Prefix(p) /\ h = HeaderLength(p) /\ b = BodyLength(p) /\ PacketSize(p) = a + h + b
  BY PacketIs DEF PacketSize, Remaining
<1>6. PICK n \in 0 .. b - 1 : n = position - e - a - h
  BY <1>3, <1>4, <1>5 DEF InPayload, Offset
<1>7. packetType = p.type /\ remainingLengthBuffer = <<>> /\ (~torn => sMsg = <<>>)
  BY <1>1, <1>3, <1>4 DEF InPayload
<1>8. b = 1 /\ n = 0
  BY <1>1, <1>5, <1>6, <1>7 DEF BodyLength
<1>9. WireInv /\ position \in Nat /\ arrived \in Nat /\ packet' \in Parsed
  BY <1>1 DEF ParserInv, WireInv
<1>10. WireInv'
  <2>1. 1 <= arrived - position
    BY <1>1, <1>9
  <2>2. remainingLengthBuffer' \in Seq(ByteOf(Nat))
    BY <1>1, <1>7
  <2>. QED
    BY <1>1, <1>9, <2>1, <2>2, WireStays
<1>11. torn' = torn
  BY <1>1, Stays
<1>12. Between(k + 1)'
  <2>1. End(k + 1) = e + a + h + b
    BY <1>2, <1>4, <1>5 DEF Ahead
  <2>2. End(k + 1)' = End(k + 1)
    BY <1>1, Stays
  <2>3. position' = End(k + 1)'
    BY <1>1, <1>6, <1>8, <1>9, <2>1, <2>2
  <2>. QED
    BY <1>1, <1>7, <1>11, <2>3 DEF Between
<1>13. Told(k + 1)'
  <2>1. Due(stream)[k + 1] = Due(stream)[k]
    BY <1>1, <1>2, <1>4, <1>7, DueIs DEF Ahead
  <2>2. Due(stream)[k + 1]' = Due(stream)[k + 1]
    BY <1>1, Stays
  <2>. QED
    BY <1>1, <1>2, <1>11, <2>1, <2>2, Stays DEF Told
<1>. QED
  BY <1>1, <1>2, <1>10, <1>12, <1>13, Ends

(* The length of a packet, byte by byte.                                   *)
LEMMA LengthByteKeeps ==
  ASSUME ParserInv, LengthByte
  PROVE  ParserInv'
<1> DEFINE bytes == Append(remainingLengthBuffer, Current)
<1>1. /\ bufferState = "REMAINING_LENGTH" /\ position < arrived
      /\ position' = position + 1 /\ packetType' = packetType /\ packet' = packet
      /\ sMsg' = sMsg /\ handled' = handled /\ UNCHANGED wired
  BY DEF LengthByte, In, NoMessage
<1>2. IF Current.more
      THEN remainingLengthBuffer' = bytes /\ bufferState' = bufferState
      ELSE /\ remainingLength' = DecodeRemainingLength(bytes)
           /\ remainingLengthBuffer' = <<>>
           /\ bufferState' = IF remainingLength' > 0 THEN "VARIABLE_HEADER" ELSE "NONE"
  BY DEF LengthByte
<1>3. PICK k \in Nat : /\ Ahead(k) /\ Told(k)
                       /\ Between(k) \/ InLength(k) \/ InHeader(k) \/ InPayload(k)
  BY <1>1, WhereIs
<1>4. InLength(k)
  BY <1>1, <1>3 DEF Between, InHeader, InPayload
<1>5. PICK p \in Packet, e \in Nat : p = stream[k + 1] /\ e = End(k)
  BY <1>3 DEF Ahead
<1>6. PICK r \in Nat, d \in Nat : r = Remaining(p) /\ d = Digits(r) /\ d >= 1
  BY PacketIs
<1>7. PICK n \in 0 .. d - 1 : n = position - e - 1
  BY <1>4, <1>5, <1>6 DEF InLength, Offset
<1>8. PICK buffer \in Seq(ByteOf(Nat)), l \in Nat :
        /\ buffer = remainingLengthBuffer /\ l = Len(buffer)
        /\ n <= l /\ (k > 0 => l = n)
        /\ \A i \in 1 .. n : buffer[l - n + i] = Length(r)[i]
  <2>1. remainingLengthBuffer \in Seq(ByteOf(Nat)) /\ Len(remainingLengthBuffer) \in Nat
    BY DEF ParserInv, WireInv
  <2>. QED
    BY <2>1, <1>4, <1>5, <1>6, <1>7 DEF InLength, Offset
<1>9. packetType = p.type /\ packet = NewPacket /\ (~torn => sMsg = <<>>)
  BY <1>4, <1>5 DEF InLength
<1>10. WireInv /\ position \in Nat /\ arrived \in Nat /\ packet' \in Parsed
  BY <1>1 DEF ParserInv, WireInv
<1>11. Current = Length(r)[n + 1]
  <2>1. n \in Nat /\ n < d
    BY <1>7
  <2>. QED
    BY <1>3, <1>5, <1>6, <1>7, <1>10, <2>1, CurrentLength
<1>12. PICK c \in ByteOf(Nat) : c = Current /\ c = Length(r)[n + 1] /\ c.more = (n + 1 < d)
  <2>1. n + 1 \in 1 .. d
    BY <1>7
  <2>2. Length(r) \in Seq(ByteOf(Nat)) /\ Len(Length(r)) = d
    BY <1>6, LengthIs
  <2>3. Length(r)[n + 1] \in ByteOf(Nat)
    BY <2>1, <2>2
  <2>4. Length(r)[n + 1].more = (n + 1 < d)
    BY <1>6, <2>1, LengthIs
  <2>. QED
    BY <1>11, <2>3, <2>4
<1>13. /\ bytes \in Seq(ByteOf(Nat)) /\ Len(bytes) = l + 1
       /\ bytes[l + 1] = c /\ \A i \in 1 .. l : bytes[i] = buffer[i]
  <2>1. bytes = Append(buffer, c)
    BY <1>8, <1>12
  <2>. QED
    BY <1>8, <2>1
<1>. HIDE DEF bytes
<1>14. \A i \in 1 .. n + 1 : bytes[(l + 1) - (n + 1) + i] = Length(r)[i]
  <2>. TAKE i \in 1 .. n + 1
  <2>1. CASE i = n + 1
    <3>1. (l + 1) - (n + 1) + i = l + 1
      BY <2>1, <1>7
    <3>. QED
      BY <2>1, <3>1, <1>12, <1>13
  <2>2. CASE i \in 1 .. n
    <3>1. (l + 1) - (n + 1) + i = l - n + i /\ l - n + i \in 1 .. l
      BY <2>2, <1>7, <1>8
    <3>. QED
      BY <2>2, <3>1, <1>8, <1>13
  <2>. QED
    BY <2>1, <2>2, <1>7
<1>15. WireInv'
  <2>1. 1 <= arrived - position
    BY <1>1, <1>10
  <2>2. remainingLengthBuffer' \in Seq(ByteOf(Nat))
    <3>1. remainingLengthBuffer' = bytes \/ remainingLengthBuffer' = <<>>
      BY <1>2, Zenon
    <3>2. <<>> \in Seq(ByteOf(Nat))
      OBVIOUS
    <3>. QED
      BY <3>1, <3>2, <1>13
  <2>. QED
    BY <1>1, <1>10, <2>1, <2>2, WireStays
<1>16. /\ stream'[k + 1] = p /\ End(k)' = e /\ torn' = torn
       /\ packetType' = p.type /\ packet' = NewPacket /\ (~torn' => sMsg' = <<>>)
  BY <1>1, <1>5, <1>9, Stays
<1>17. Told(k)'
  BY <1>1, <1>3, Stays DEF Told
<1>18. CASE n + 1 < d
  <2>1. remainingLengthBuffer' = bytes /\ bufferState' = "REMAINING_LENGTH"
    BY <1>1, <1>2, <1>12, <1>18
  <2>2. Offset(k)' - 1 = n + 1
    BY <1>1, <1>7, <1>10, <1>16 DEF Offset
  <2>3. /\ n + 1 \in 0 .. Digits(Remaining(p)) - 1 /\ n + 1 <= Len(remainingLengthBuffer')
        /\ k > 0 => Len(remainingLengthBuffer') = n + 1
    BY <1>6, <1>7, <1>8, <1>13, <1>18, <2>1
  <2>4. \A i \in 1 .. n + 1 : remainingLengthBuffer'[Len(remainingLengthBuffer') - (n + 1) + i]
                               = Length(Remaining(p))[i]
    BY <1>6, <1>13, <1>14, <2>1
  <2>5. InLength(k)'
    BY <1>16, <2>1, <2>2, <2>3, <2>4 DEF InLength
  <2>. QED
    BY <1>1, <1>3, <1>15, <1>17, <2>5, Arrives
<1>19. CASE n + 1 = d
  <2>1. /\ remainingLength' = DecodeRemainingLength(bytes)
        /\ remainingLengthBuffer' = <<>>
        /\ bufferState' = IF remainingLength' > 0 THEN "VARIABLE_HEADER" ELSE "NONE"
    <3>1. ~ c.more
      <4>1. ~ (n + 1 < d)
        BY <1>7, <1>19
      <4>. QED
        BY <4>1, <1>12, Zenon
    <3>. QED
      BY <1>2, <1>12, <3>1
  <2>2. PICK v \in Nat : v = DecodeRemainingLength(bytes) /\ v >= r /\ (k > 0 => v = r)
    <3>1. Digits(r) <= Len(bytes) /\ (k > 0 => Len(bytes) = Digits(r))
      BY <1>6, <1>8, <1>13, <1>19
    <3>2. \A i \in 1 .. Digits(r) : bytes[Len(bytes) - Digits(r) + i] = Length(r)[i]
      BY <1>6, <1>13, <1>14, <1>19
    <3>. QED
      BY <1>13, <3>1, <3>2, DecodeIs
  <2>3. PICK a \in Nat, h \in Nat, b \in Nat :
          /\ a = Prefix(p) /\ a = 1 + d /\ h = HeaderLength(p) /\ b = BodyLength(p)
          /\ PacketSize(p) = a + h + b /\ r = h + b
    BY <1>6, PacketParts
  <2>4. position' - e = a
    <3>1. position' = position + 1 /\ position \in Nat /\ n = position - e - 1 /\ a = 1 + d
      BY <1>1, <1>7, <1>10, <2>3
    <3>. QED
      BY <3>1, <1>19
  <2>5. CASE p.type # "PINGRESP"
    <3>1. h >= 2
      <4>1. p.type = "PUBLISH" => p.topic \in Nat
        BY PacketIs
      <4>2. HeaderLength(p) = IF p.type = "PUBLISH" THEN p.topic + 2 ELSE 2
        BY <2>5 DEF HeaderLength
      <4>. QED
        BY <2>3, <4>1, <4>2
    <3>2. bufferState' = "VARIABLE_HEADER"
      BY <2>1, <2>2, <2>3, <3>1
    <3>3. Offset(k)' - Prefix(p) = 0
      BY <1>16, <2>3, <2>4 DEF Offset
    <3>4. p.type = "PUBLISH" => remainingLength' = r
      <4>1. p.type = "PUBLISH" => k > 0
        BY <1>3, <1>5 DEF Ahead
      <4>. QED
        BY <2>1, <2>2, <4>1
    <3>5. packet'.bytePosition = 0 /\ packet'.bytesRead = 0 /\ packet'.topicLength = 0
      BY <1>16 DEF NewPacket
    <3>6. 0 \in 0 .. HeaderLength(p) - 1
      BY <2>3, <3>1
    <3>7. InHeader(k)'
      BY <1>6, <1>16, <2>1, <3>2, <3>3, <3>4, <3>5, <3>6 DEF InHeader
    <3>. QED
      BY <1>1, <1>3, <1>15, <1>17, <3>7, Arrives
  <2>6. CASE p.type = "PINGRESP"
    <3>1. h = 0 /\ b = 0
      BY <2>3, <2>6 DEF HeaderLength, BodyLength
    <3>2. k > 0
      BY <1>3, <1>5, <2>6 DEF Ahead
    <3>3. bufferState' = "NONE"
      BY <2>1, <2>2, <2>3, <3>1, <3>2
    <3>4. position' = End(k + 1)'
      <4>1. End(k + 1) = e + a
        BY <1>3, <1>5, <2>3, <3>1 DEF Ahead
      <4>2. End(k + 1)' = End(k + 1)
        BY <1>1, Stays
      <4>. QED
        BY <1>1, <1>10, <2>4, <4>1, <4>2
    <3>5. Between(k + 1)'
      BY <1>16, <2>1, <3>3, <3>4 DEF Between
    <3>6. Told(k + 1)'
      <4>1. Due(stream)[k + 1] = Due(stream)[k]
        BY <1>3, <1>5, <2>6, DueIs DEF Ahead
      <4>2. Due(stream)[k + 1]' = Due(stream)[k + 1]
        BY <1>1, Stays
      <4>. QED
        BY <1>1, <1>3, <1>16, <4>1, <4>2, Stays DEF Told
    <3>. QED
      BY <1>1, <1>3, <1>15, <3>5, <3>6, Ends
  <2>. QED
    BY <2>5, <2>6
<1>. QED
  BY <1>7, <1>18, <1>19

(* Each byte of the header of a PUBLISH takes the parser where the packet  *)
(* is, and after the last one an empty message has been handled.           *)
LEMMA PublishHeaderKeeps ==
  ASSUME ParserInv, PublishHeader
  PROVE  ParserInv'
<1> DEFINE pos    == packet.bytePosition
           last   == pos >= 2 /\ pos = packet.topicLength + 1
           length == IF last THEN remainingLength - (pos + 1) ELSE 0
<1>1. /\ bufferState = "VARIABLE_HEADER" /\ position < arrived /\ packetType = "PUBLISH"
      /\ position' = position + 1 /\ UNCHANGED wired
      /\ packetType' = packetType /\ remainingLength' = remainingLength
      /\ remainingLengthBuffer' = remainingLengthBuffer
  BY DEF PublishHeader, In
<1>2. /\ packet' = [packet EXCEPT
                      !.bytePosition = pos + 1,
                      !.topicLength = IF pos = 1 THEN Current.value ELSE @,
                      !.ignore = IF pos = 1 THEN Current.value > MAX_TOPIC ELSE @,
                      !.payloadLength = length]
      /\ bufferState' = IF ~last THEN "VARIABLE_HEADER"
                        ELSE IF length = 0 THEN "NONE" ELSE "PAYLOAD"
      /\ IF last /\ length = 0 THEN MqttMessage(<<>>, 0) ELSE sMsg' = sMsg /\ handled' = handled
  BY DEF PublishHeader, NoMessage
<1>3. PICK k \in Nat : /\ Ahead(k) /\ Told(k)
                       /\ Between(k) \/ InLength(k) \/ InHeader(k) \/ InPayload(k)
  BY <1>1, WhereIs
<1>4. InHeader(k)
  BY <1>1, <1>3 DEF Between, InLength, InPayload
<1>5. PICK p \in Packet, e \in Nat : p = stream[k + 1] /\ e = End(k)
  BY <1>3 DEF Ahead
<1>6. PICK a \in Nat, h \in Nat, b \in Nat :
        /\ a = Prefix(p) /\ h = HeaderLength(p) /\ b = BodyLength(p)
        /\ PacketSize(p) = a + h + b /\ Remaining(p) = h + b
  BY PacketIs DEF PacketSize, Remaining
<1>7. PICK n \in 0 .. h - 1 : n = position - e - a
  BY <1>4, <1>5, <1>6 DEF InHeader, Offset
<1>8. /\ p.type = "PUBLISH" /\ remainingLengthBuffer = <<>> /\ (~torn => sMsg = <<>>)
      /\ packet.bytePosition = n /\ remainingLength = h + b /\ packet.bytesRead = 0
      /\ packet.topicLength = IF n >= 2 THEN p.topic ELSE 0
      /\ n >= 2 => packet.ignore = (p.topic > MAX_TOPIC)
  BY <1>1, <1>4, <1>5, <1>6, <1>7 DEF InHeader, Offset
<1>9. PICK t \in Nat : t = p.topic /\ t > 0 /\ h = t + 2 /\ b = p.payload
  BY <1>6, <1>8, PacketIs DEF HeaderLength, BodyLength
<1>10. WireInv /\ position \in Nat /\ arrived \in Nat /\ packet \in Parsed
  BY DEF ParserInv, WireInv
<1>11. n = 1 => Current.value = t
  <2>. SUFFICES ASSUME n = 1 PROVE Current.value = t
    OBVIOUS
  <2>1. PICK o \in Nat : o = a + 1
    OBVIOUS
  <2>2. position = End(k) + o /\ o < PacketSize(p)
    BY <1>5, <1>6, <1>7, <1>9, <1>10, <2>1
  <2>3. Current = Bytes(p, k + 1)[o + 1]
    BY <1>3, <1>5, <2>2, CurrentIs
  <2>4. Bytes(p, k + 1)[a + 2].value = t
    <3>1. k + 1 \in Nat
      OBVIOUS
    <3>. QED
      BY <3>1, <1>6, <1>8, <1>9, BytesAre
  <2>5. o + 1 = a + 2
    BY <2>1
  <2>. QED
    BY <2>3, <2>4, <2>5
<1>12. last <=> n = t + 1
  BY <1>8, <1>9
<1>13. last => length = b
  BY <1>8, <1>9, <1>12
<1>14. length \in Nat
  BY <1>8, <1>9, <1>13
<1>. HIDE DEF last, length
<1>15. /\ packet' \in Parsed
       /\ packet'.bytePosition = n + 1 /\ packet'.bytesRead = 0 /\ packet'.payloadLength = length
       /\ packet'.topicLength = IF n = 1 THEN t ELSE packet.topicLength
       /\ packet'.ignore = IF n = 1 THEN t > MAX_TOPIC ELSE packet.ignore
  <2>1. PICK x \in Nat : x = IF n = 1 THEN t ELSE packet.topicLength
    BY <1>10 DEF Parsed
  <2>2. PICK y \in BOOLEAN : y = IF n = 1 THEN t > MAX_TOPIC ELSE packet.ignore
    <3>1. (t > MAX_TOPIC) \in BOOLEAN /\ packet.ignore \in BOOLEAN
      BY <1>10, MqttParserAssumption DEF Parsed
    <3>. QED
      BY <3>1, Zenon
  <2>3. packet' = [packet EXCEPT !.bytePosition = n + 1, !.topicLength = x, !.ignore = y,
                                 !.payloadLength = length]
    <3>1. CASE n = 1
      BY <3>1, <1>2, <1>8, <1>11, <2>1, <2>2
    <3>2. CASE n # 1
      BY <3>2, <1>2, <1>8, <2>1, <2>2
    <3>. QED
      BY <3>1, <3>2
  <2>4. /\ packet' \in Parsed
        /\ packet'.bytePosition = n + 1 /\ packet'.bytesRead = 0
        /\ packet'.payloadLength = length /\ packet'.topicLength = x /\ packet'.ignore = y
    <3>1. PICK q \in Parsed, l \in Nat : q = packet /\ l = length /\ q.bytesRead = 0
      BY <1>8, <1>10, <1>14
    <3>2. packet' = [q EXCEPT !.bytePosition = n + 1, !.topicLength = x, !.ignore = y,
                              !.payloadLength = l]
      BY <2>3, <3>1
    <3>3. n + 1 \in Nat
      OBVIOUS
    <3>4. packet' \in Parsed
      BY <3>2, <3>3 DEF Parsed
    <3>5. /\ packet'.bytePosition = n + 1 /\ packet'.bytesRead = q.bytesRead
          /\ packet'.payloadLength = l /\ packet'.topicLength = x
      BY <3>2 DEF Parsed
    <3>6. packet'.ignore = y
      BY <3>2, Zenon DEF Parsed
    <3>. QED
      BY <3>1, <3>4, <3>5, <3>6
  <2>. QED
    BY <2>1, <2>2, <2>4
<1>16. /\ packet'.topicLength = IF n + 1 >= 2 THEN p.topic ELSE 0
       /\ n + 1 >= 2 => packet'.ignore = (p.topic > MAX_TOPIC)
  <2>1. CASE n = 0
    BY <2>1, <1>8, <1>15
  <2>2. CASE n = 1
    BY <2>2, <1>9, <1>15
  <2>3. CASE n >= 2
    BY <2>3, <1>8, <1>15
  <2>. QED
    BY <2>1, <2>2, <2>3, <1>7
<1>17. WireInv'
  <2>1. 1 <= arrived - position
    BY <1>1, <1>10
  <2>2. remainingLengthBuffer' \in Seq(ByteOf(Nat))
    BY <1>1, <1>8
  <2>. QED
    BY <1>1, <1>10, <1>15, <2>1, <2>2, WireStays
<1>18. /\ stream'[k + 1] = p /\ End(k)' = e /\ torn' = torn
       /\ packetType' = p.type /\ remainingLengthBuffer' = <<>>
       /\ remainingLength' = Remaining(p)
  BY <1>1, <1>5, <1>6, <1>8, Stays
<1>19. CASE ~ last
  <2>1. n + 1 < h
    BY <1>7, <1>9, <1>12, <1>19
  <2>2. bufferState' = "VARIABLE_HEADER" /\ sMsg' = sMsg /\ handled' = handled
    BY <1>2, <1>19
  <2>3. Offset(k)' - Prefix(p) = n + 1
    BY <1>1, <1>6, <1>7, <1>10, <1>18 DEF Offset
  <2>4. n + 1 \in 0 .. HeaderLength(p) - 1
    BY <1>6, <1>7, <2>1
  <2>5. ~torn' => sMsg' = <<>>
    BY <1>8, <1>18, <2>2
  <2>6. InHeader(k)'
    BY <1>15, <1>16, <1>18, <2>2, <2>3, <2>4, <2>5 DEF InHeader
  <2>7. Told(k)'
    BY <1>1, <1>3, <2>2, Stays DEF Told
  <2>. QED
    BY <1>1, <1>3, <1>17, <2>6, <2>7, Arrives
<1>20. CASE last /\ b # 0
  <2>1. length = b /\ bufferState' = "PAYLOAD" /\ sMsg' = sMsg /\ handled' = handled
    BY <1>2, <1>13, <1>20
  <2>2. n + 1 = h
    BY <1>9, <1>12, <1>20
  <2>3. Offset(k)' - Prefix(p) - HeaderLength(p) = 0
    BY <1>1, <1>6, <1>7, <1>10, <1>18, <2>2 DEF Offset
  <2>4. 0 \in 0 .. BodyLength(p) - 1
    BY <1>6, <1>20
  <2>5. ~torn' => sMsg' = IF packetType' = "PUBLISH" /\ p.topic <= MAX_TOPIC
                          THEN [i \in 1 .. 0 |-> <<k + 1, i>>] ELSE <<>>
    <3>1. [i \in 1 .. 0 |-> <<k + 1, i>>] = <<>>
      OBVIOUS
    <3>. QED
      BY <3>1, <1>8, <1>18, <2>1
  <2>6. /\ packet'.bytesRead = 0 /\ packet'.payloadLength = p.payload
        /\ packet'.ignore = (p.topic > MAX_TOPIC)
    BY <1>9, <1>12, <1>15, <1>16, <1>20, <2>1
  <2>7. InPayload(k)'
    BY <1>18, <2>1, <2>3, <2>4, <2>5, <2>6 DEF InPayload
  <2>8. Told(k)'
    BY <1>1, <1>3, <2>1, Stays DEF Told
  <2>. QED
    BY <1>1, <1>3, <1>17, <2>7, <2>8, Arrives
<1>21. CASE last /\ b = 0
  <2>1. length = 0 /\ bufferState' = "NONE" /\ MqttMessage(<<>>, 0)
    BY <1>2, <1>13, <1>21
  <2>2. n + 1 = h /\ n >= 2
    BY <1>9, <1>12, <1>21
  <2>3. position' = End(k + 1)'
    <3>1. End(k + 1) = e + a + h
      BY <1>3, <1>5, <1>6, <1>21 DEF Ahead
    <3>2. End(k + 1)' = End(k + 1)
      BY <1>1, Stays
    <3>. QED
      BY <1>1, <1>7, <1>10, <2>2, <3>1, <3>2
  <2>4. packet.ignore = (t > MAX_TOPIC)
    BY <1>8, <1>9, <2>2
  <2>5. Whole(p, k + 1) = <<>>
    BY <1>9, <1>21 DEF Whole
  <2>6. ASSUME ~torn
        PROVE  sMsg' = <<>> /\ handled' = IF t <= MAX_TOPIC THEN Append(handled, <<>>) ELSE handled
    <3>1. sMsg = <<>> /\ sMsg \o <<>> = <<>> /\ Len(sMsg \o <<>>) >= 0
      BY <1>8, <2>6
    <3>2. CASE packet.ignore
      <4>1. t > MAX_TOPIC /\ ~ (t <= MAX_TOPIC)
        <5>1. t > MAX_TOPIC
          BY <2>4, <3>2, Zenon
        <5>. QED
          BY <5>1, MqttParserAssumption
      <4>. QED
        BY <2>1, <3>1, <3>2, <4>1 DEF MqttMessage, NoMessage
    <3>3. CASE ~packet.ignore
      <4>1. t <= MAX_TOPIC
        <5>1. ~ (t > MAX_TOPIC)
          BY <2>4, <3>3, Zenon
        <5>. QED
          BY <5>1, MqttParserAssumption
      <4>. QED
        BY <2>1, <3>1, <3>3, <4>1 DEF MqttMessage
    <3>. QED
      BY <3>2, <3>3
  <2>7. Between(k + 1)'
    BY <1>18, <2>1, <2>3, <2>6 DEF Between
  <2>8. Told(k + 1)'
    <3>1. Due(stream)[k + 1] = IF t <= MAX_TOPIC THEN Append(Due(stream)[k], <<>>)
                               ELSE Due(stream)[k]
      <4>1. Due(stream)[k + 1] = IF stream[k + 1].type = "PUBLISH"
                                    /\ stream[k + 1].topic <= MAX_TOPIC
                                 THEN Append(Due(stream)[k], Whole(stream[k + 1], k + 1))
                                 ELSE Due(stream)[k]
        BY <1>3, DueIs DEF Ahead
      <4>. QED
        BY <4>1, <1>5, <1>8, <1>9, <2>5
    <3>2. Due(stream)[k + 1]' = Due(stream)[k + 1] /\ stream' = stream
      BY <1>1, Stays
    <3>. QED
      BY <1>3, <1>18, <2>6, <3>1, <3>2 DEF Told
  <2>. QED
    BY <1>1, <1>3, <1>17, <2>7, <2>8, Ends
<1>. QED
  BY <1>19, <1>20, <1>21

(* The first n bytes of a message, and the r after them.                   *)
Beginning(j, n) == [i \in 1 .. n |-> <<j, i>>]
Chunk(j, n, r)  == [i \in 1 .. r |-> <<j, n + i>>]

Continues(j, n, r) == /\ Beginning(j, n) \o Chunk(j, n, r) = Beginning(j, n + r)
                      /\ Len(Beginning(j, n + r)) = n + r

(* A chunk behind the beginning of a message.                              *)
LEMMA ChunkJoins == \A j, n, r \in Nat : Continues(j, n, r)
<1>. TAKE j, n, r \in Nat
<1> DEFINE V == Nat \X Nat
           x == [i \in 1 .. n |-> <<j, i>>]
           y == [i \in 1 .. r |-> <<j, n + i>>]
           z == [i \in 1 .. n + r |-> <<j, i>>]
<1>1. x \in Seq(V) /\ Len(x) = n
  <2>1. x \in [1 .. n -> V]
    OBVIOUS
  <2>. HIDE DEF V
  <2>. QED
    BY <2>1
<1>2. y \in Seq(V) /\ Len(y) = r
  <2>1. y \in [1 .. r -> V]
    OBVIOUS
  <2>. HIDE DEF V
  <2>. QED
    BY <2>1
<1>3. z \in Seq(V) /\ Len(z) = n + r
  <2>1. n + r \in Nat /\ z \in [1 .. n + r -> V]
    OBVIOUS
  <2>. HIDE DEF V
  <2>. QED
    BY <2>1
<1>4. \A i \in 1 .. n : x[i] = z[i]
  OBVIOUS
<1>5. \A i \in 1 .. r : y[i] = z[n + i]
  OBVIOUS
<1>. HIDE DEF V, x, y, z
<1>6. x \o y \in Seq(V) /\ Len(x \o y) = n + r
  BY <1>1, <1>2
<1>7. ASSUME NEW i \in 1 .. n + r PROVE (x \o y)[i] = z[i]
  <2>1. CASE i <= n
    <3>1. i \in 1 .. n
      BY <2>1
    <3>2. (x \o y)[i] = x[i]
      BY <1>1, <1>2, <3>1
    <3>. QED
      BY <3>1, <3>2, <1>4
  <2>2. CASE i > n
    <3>1. PICK l \in 1 .. r : i = n + l
      <4>1. i - n \in 1 .. r /\ i = n + (i - n)
        BY <2>2
      <4>. QED
        BY <4>1
    <3>2. (x \o y)[n + l] = y[l]
      BY <1>1, <1>2, <3>1
    <3>. QED
      BY <3>1, <3>2, <1>5
  <2>3. i <= n \/ i > n
    OBVIOUS
  <2>. QED
    BY <2>1, <2>2, <2>3
<1>8. x \o y = z
  BY <1>3, <1>6, <1>7, SeqEqual
<1>. QED
  BY <1>3, <1>8 DEF x, y, z, Beginning, Chunk, Continues

(* A chunk of a payload ends with the segment or with the packet, and      *)
(* mqttMessage is told what belongs to the packet alone.                   *)
LEMMA PublishPayloadKeeps ==
  ASSUME ParserInv, PublishPayload
  PROVE  ParserInv'
<1> DEFINE chunk == [i \in 1 .. ToRead |-> sent[position + i].value]
<1>1. /\ bufferState = "PAYLOAD" /\ position < arrived /\ packetType = "PUBLISH"
      /\ packet' = [packet EXCEPT !.bytesRead = packet.bytesRead + ToRead]
      /\ bufferState' = IF packet.bytesRead + ToRead = packet.payloadLength
                        THEN "NONE" ELSE "PAYLOAD"
      /\ MqttMessage(chunk, packet.payloadLength)
      /\ position' = position + ToRead /\ UNCHANGED wired
      /\ packetType' = packetType /\ remainingLengthBuffer' = remainingLengthBuffer
  BY DEF PublishPayload, In
<1>2. PICK k \in Nat : /\ Ahead(k) /\ Told(k)
                       /\ Between(k) \/ InLength(k) \/ InHeader(k) \/ InPayload(k)
  BY <1>1, WhereIs
<1>3. InPayload(k)
  BY <1>1, <1>2 DEF Between, InLength, InHeader
<1>4. PICK p \in Packet, e \in Nat : p = stream[k + 1] /\ e = End(k)
  BY <1>2 DEF Ahead
<1>5. PICK a \in Nat, h \in Nat, b \in Nat :
        a = Prefix(p) /\ h = HeaderLength(p) /\ b = BodyLength(p) /\ PacketSize(p) = a + h + b
  BY PacketIs DEF PacketSize, Remaining
<1>6. PICK n \in 0 .. b - 1 : n = position - e - a - h
  BY <1>3, <1>4, <1>5 DEF InPayload, Offset
<1>7. /\ p.type = "PUBLISH" /\ remainingLengthBuffer = <<>>
      /\ packet.bytesRead = n /\ packet.payloadLength = p.payload
      /\ packet.ignore = (p.topic > MAX_TOPIC)
  BY <1>1, <1>3, <1>4, <1>5, <1>6 DEF InPayload, Offset
<1>8. ~torn => sMsg = IF p.topic <= MAX_TOPIC THEN [i \in 1 .. n |-> <<k + 1, i>>] ELSE <<>>
  BY <1>1, <1>3, <1>4, <1>5, <1>6 DEF InPayload, Offset
<1>9. PICK t \in Nat : t = p.topic /\ b = p.payload
  BY <1>5, <1>7, PacketIs DEF BodyLength
<1>10. WireInv /\ position \in Nat /\ arrived \in Nat /\ packet \in Parsed
  BY DEF ParserInv, WireInv
<1>11. PICK r \in Nat : /\ r = ToRead /\ r >= 1 /\ n + r <= b /\ r <= arrived - position
  <2>1. packet.bytesRead = n /\ packet.payloadLength = b
    BY <1>7, <1>9
  <2>2. CASE n + (arrived - position) > b
    <3>1. ToRead = b - n
      BY <2>1, <2>2 DEF ToRead
    <3>2. b - n \in Nat /\ b - n >= 1 /\ n + (b - n) <= b /\ b - n <= arrived - position
      BY <1>6, <1>10, <2>2
    <3>. QED
      BY <3>1, <3>2
  <2>3. CASE ~ (n + (arrived - position) > b)
    <3>1. ToRead = arrived - position
      BY <2>1, <2>3 DEF ToRead
    <3>2. /\ arrived - position \in Nat /\ arrived - position >= 1
          /\ n + (arrived - position) <= b
      BY <1>1, <1>6, <1>10, <2>3
    <3>. QED
      BY <3>1, <3>2
  <2>. QED
    BY <2>2, <2>3
<1>12. PICK j \in Nat : j = k + 1
  OBVIOUS
<1>13. chunk = [i \in 1 .. r |-> <<j, n + i>>]
  <2>1. ASSUME NEW i \in 1 .. r PROVE sent[position + i].value = <<j, n + i>>
    <3>1. PICK o \in Nat : o = n + i /\ o \in 1 .. p.payload
      BY <1>6, <1>9, <1>11
    <3>2. Bytes(p, j)[a + h + o].value = <<j, o>>
      BY <3>1, <1>5, <1>7, BytesAre
    <3>3. PICK x \in Nat : x = a + h + o /\ x \in 1 .. PacketSize(p)
      BY <3>1, <1>5, <1>9
    <3>4. sent[e + x] = Bytes(p, j)[x]
      BY <3>3, <1>2, <1>4, <1>12 DEF Ahead
    <3>5. e + x = position + i
      BY <3>1, <3>3, <1>6, <1>10
    <3>. QED
      BY <3>1, <3>2, <3>3, <3>4, <3>5
  <2>. QED
    BY <2>1, <1>11
<1>. HIDE DEF chunk
<1>14. PICK m \in Nat : m = n + r /\ m <= b
  BY <1>6, <1>11
<1>15. packet' \in Parsed /\ packet'.bytesRead = m /\ packet'.payloadLength = p.payload
       /\ packet'.ignore = packet.ignore
  <2>1. PICK q \in Parsed : q = packet
    BY <1>10
  <2>2. packet' = [q EXCEPT !.bytesRead = m]
    BY <1>1, <1>7, <1>11, <1>14, <2>1
  <2>3. packet' \in Parsed
    BY <2>2 DEF Parsed
  <2>4. packet'.bytesRead = m /\ packet'.payloadLength = q.payloadLength
    BY <2>2 DEF Parsed
  <2>5. packet'.ignore = q.ignore
    BY <2>2, Zenon DEF Parsed
  <2>. QED
    BY <1>7, <2>1, <2>3, <2>4, <2>5
<1>16. WireInv'
  <2>1. remainingLengthBuffer' \in Seq(ByteOf(Nat))
    BY <1>1, <1>7
  <2>2. position' = position + r
    BY <1>1, <1>11
  <2>. QED
    BY <1>1, <1>10, <1>11, <1>15, <2>1, <2>2, WireStays
<1>17. /\ stream'[k + 1] = p /\ End(k)' = e /\ torn' = torn /\ stream' = stream
       /\ packetType' = p.type /\ remainingLengthBuffer' = <<>>
  BY <1>1, <1>4, <1>7, Stays
<1>18. MqttMessage(chunk, b)
  BY <1>1, <1>7, <1>9
<1>19. ASSUME ~torn, t <= MAX_TOPIC
       PROVE  IF m = b THEN handled' = Append(handled, Whole(p, j)) /\ sMsg' = <<>>
              ELSE sMsg' = [i \in 1 .. m |-> <<j, i>>] /\ handled' = handled
  <2>1. sMsg = [i \in 1 .. n |-> <<j, i>>]
    BY <1>8, <1>9, <1>12, <1>19
  <2>2. n \in Nat
    BY <1>6
  <2>3. sMsg \o chunk = [i \in 1 .. m |-> <<j, i>>] /\ Len(sMsg \o chunk) = m
    <3>1. Continues(j, n, r)
      BY <2>2, ChunkJoins
    <3>2. sMsg = Beginning(j, n) /\ chunk = Chunk(j, n, r)
      BY <2>1, <1>13 DEF Beginning, Chunk
    <3>3. Beginning(j, m) = [i \in 1 .. m |-> <<j, i>>]
      BY DEF Beginning
    <3>. QED
      BY <3>1, <3>2, <3>3, <1>14 DEF Continues
  <2>4. ~packet.ignore
    <3>1. ~ (t > MAX_TOPIC)
      BY <1>19, MqttParserAssumption
    <3>. QED
      BY <3>1, <1>7, <1>9, Zenon
  <2> DEFINE all == sMsg \o chunk
  <2>5. IF Len(all) >= b THEN handled' = Append(handled, all) /\ sMsg' = <<>>
        ELSE sMsg' = all /\ handled' = handled
    BY <1>18, <2>4 DEF MqttMessage
  <2>. HIDE DEF all
  <2>6. all = [i \in 1 .. m |-> <<j, i>>] /\ Len(all) = m
    BY <2>3 DEF all
  <2>7. CASE m = b
    <3>1. all = Whole(p, j)
      BY <1>9, <2>6, <2>7 DEF Whole
    <3>2. Len(all) >= b
      BY <2>6, <2>7
    <3>. QED
      BY <2>5, <2>7, <3>1, <3>2
  <2>8. CASE m # b
    <3>1. ~ (Len(all) >= b)
      BY <1>14, <2>6, <2>8
    <3>. QED
      BY <2>5, <2>6, <2>8, <3>1
  <2>. QED
    BY <2>7, <2>8
<1>20. ASSUME ~torn, ~ (t <= MAX_TOPIC) PROVE sMsg' = <<>> /\ handled' = handled
  <2>1. t > MAX_TOPIC
    BY <1>20, MqttParserAssumption
  <2>2. packet.ignore
    BY <2>1, <1>7, <1>9, Zenon
  <2>3. sMsg = <<>>
    BY <1>8, <1>9, <1>20
  <2>. QED
    BY <2>2, <2>3, <1>18 DEF MqttMessage, NoMessage
<1>21. CASE m < b
  <2>1. bufferState' = "PAYLOAD"
    BY <1>1, <1>7, <1>9, <1>11, <1>14, <1>21
  <2>2. Offset(k)' - Prefix(p) - HeaderLength(p) = m
    <3>1. position' = position + r
      BY <1>1, <1>11
    <3>2. position \in Nat /\ position' \in Nat /\ n = position - e - a - h
      BY <1>6, <1>10, <1>11, <3>1
    <3>3. position' - e - a - h = m
      BY <1>14, <3>1, <3>2
    <3>4. Offset(k)' = position' - e
      BY <1>17 DEF Offset
    <3>. QED
      BY <1>5, <3>3, <3>4
  <2>3. m \in 0 .. BodyLength(p) - 1
    BY <1>5, <1>21
  <2>4. packet'.ignore = (p.topic > MAX_TOPIC)
    BY <1>7, <1>15, Zenon
  <2>5. ~torn' => sMsg' = IF packetType' = "PUBLISH" /\ p.topic <= MAX_TOPIC
                          THEN [i \in 1 .. m |-> <<k + 1, i>>] ELSE <<>>
    <3>1. m # b
      BY <1>21
    <3>. QED
      BY <3>1, <1>7, <1>9, <1>12, <1>17, <1>19, <1>20
  <2>6. InPayload(k)'
    BY <1>15, <1>17, <2>1, <2>2, <2>3, <2>4, <2>5 DEF InPayload
  <2>7. Told(k)'
    <3>1. ~torn => handled' = handled
      <4>1. m # b
        BY <1>21
      <4>. QED
        BY <4>1, <1>19, <1>20
    <3>2. Due(stream)[k]' = Due(stream)[k]
      BY <1>1, Stays
    <3>. QED
      BY <1>2, <1>17, <3>1, <3>2 DEF Told
  <2>. QED
    BY <1>1, <1>2, <1>16, <2>6, <2>7, Arrives
<1>22. CASE m = b
  <2>1. bufferState' = "NONE"
    BY <1>1, <1>7, <1>9, <1>11, <1>14, <1>22
  <2>2. position' = End(k + 1)'
    <3>1. End(k + 1) = e + a + h + b
      BY <1>2, <1>4, <1>5 DEF Ahead
    <3>2. End(k + 1)' = End(k + 1)
      BY <1>1, Stays
    <3>. QED
      BY <1>1, <1>6, <1>10, <1>11, <1>14, <1>22, <3>1, <3>2
  <2>3. Between(k + 1)'
    BY <1>17, <1>19, <1>20, <1>22, <2>1, <2>2 DEF Between
  <2>4. Told(k + 1)'
    <3>1. Due(stream)[k + 1] = IF t <= MAX_TOPIC THEN Append(Due(stream)[k], Whole(p, j))
                               ELSE Due(stream)[k]
      <4>1. Due(stream)[k + 1] = IF stream[k + 1].type = "PUBLISH"
                                    /\ stream[k + 1].topic <= MAX_TOPIC
                                 THEN Append(Due(stream)[k], Whole(stream[k + 1], k + 1))
                                 ELSE Due(stream)[k]
        BY <1>2, DueIs DEF Ahead
      <4>. QED
        BY <4>1, <1>4, <1>7, <1>9, <1>12
    <3>2. Due(stream)[k + 1]' = Due(stream)[k + 1]
      BY <1>1, Stays
    <3>. QED
      BY <1>2, <1>17, <1>19, <1>20, <1>22, <3>1, <3>2 DEF Told
  <2>. QED
    BY <1>1, <1>2, <1>16, <2>3, <2>4, Ends
<1>. QED
  BY <1>14, <1>21, <1>22

(* The invariant of the parser is inductive.                               *)
THEOREM ParserInvariant == ParserSpec => []ParserInv
<1>1. ParserInit => ParserInv
  BY ParserStarts
<1>2. ParserInv /\ [ParserNext]_pvars => ParserInv'
  <2>. SUFFICES ASSUME ParserInv, [ParserNext]_pvars PROVE ParserInv'
    OBVIOUS
  <2>1. CASE UNCHANGED pvars
    <3>1. /\ stream' = stream /\ sent' = sent /\ arrived' = arrived /\ position' = position
          /\ bufferState' = bufferState /\ packetType' = packetType
          /\ remainingLength' = remainingLength
          /\ remainingLengthBuffer' = remainingLengthBuffer /\ packet' = packet
          /\ sMsg' = sMsg /\ handled' = handled /\ torn' = torn
      BY <2>1 DEF pvars, wired, parser
    <3>2. WireInv'
      BY <3>1 DEF ParserInv, WireInv
    <3>3. \A k : /\ Told(k)' = Told(k) /\ Between(k)' = Between(k) /\ Within(k)' = Within(k)
      BY <3>1 DEF Told, Between, Within, InLength, InHeader, InPayload, Offset, End
    <3>4. PICK k \in 0 .. Len(stream) : Told(k) /\ (Between(k) \/ Within(k))
      BY DEF ParserInv
    <3>5. k \in 0 .. Len(stream')
      BY <3>1
    <3>. QED
      BY <3>2, <3>3, <3>4, <3>5 DEF ParserInv
  <2>2. CASE ParserNext
    BY <2>2, ConnectionMadeKeeps, ConnectionFallsKeeps, SegmentArrivesKeeps, TypeByteKeeps,
       LengthByteKeeps, AckHeaderKeeps, AckPayloadKeeps, PublishHeaderKeeps, PublishPayloadKeeps
       DEF ParserNext
  <2>. QED
    BY <2>1, <2>2
<1>. QED
  BY <1>1, <1>2, PTL DEF ParserSpec

(* Packets end one after the other.                                        *)
LEMMA EndsInOrder ==
  ASSUME WireInv, NEW i \in 0 .. Len(stream), NEW m \in 0 .. Len(stream), i < m
  PROVE  End(i) < End(m)
<1>1. stream \in Seq(Packet) /\ Len(stream) \in Nat
  BY StreamIs
<1>2. i \in Nat /\ m \in Nat /\ i <= m /\ m <= Len(stream)
  BY <1>1
<1>3. /\ End(i) \in Nat /\ End(m) \in Nat /\ End(i) + (m - i) <= End(m)
  BY <1>1, <1>2, SentGrows DEF End
<1>. QED
  BY <1>2, <1>3

(* Within a packet, the parser is past the end of those before it and not  *)
(* at the end of it.                                                       *)
LEMMA WithinIs ==
  ASSUME WireInv, NEW k \in 0 .. Len(stream), Within(k)
  PROVE  /\ k + 1 \in 0 .. Len(stream)
         /\ bufferState # "NONE"
         /\ End(k) < position /\ position < End(k + 1)
<1>1. Len(stream) \in Nat /\ k \in Nat /\ k < Len(stream)
  BY StreamIs DEF Within
<1>2. Ahead(k)
  BY <1>1, AheadIs
<1>3. PICK p \in Packet, e \in Nat : p = stream[k + 1] /\ e = End(k)
  BY <1>2 DEF Ahead
<1>4. PICK a \in Nat, h \in Nat, b \in Nat, d \in Nat :
        /\ a = Prefix(p) /\ h = HeaderLength(p) /\ b = BodyLength(p)
        /\ PacketSize(p) = a + h + b /\ d = Digits(Remaining(p)) /\ a = 1 + d
  BY PacketParts
<1>5. End(k + 1) = e + a + h + b
  <2>1. End(k + 1) = e + PacketSize(p)
    BY <1>2, <1>3 DEF Ahead
  <2>2. e + (a + h + b) = e + a + h + b
    OBVIOUS
  <2>. QED
    BY <1>4, <2>1, <2>2
<1>6. position \in Nat
  BY DEF WireInv
<1>7. bufferState # "NONE" /\ e < position /\ position < e + a + h + b
  <2>1. CASE InLength(k)
    <3>1. position - e - 1 \in 0 .. d - 1
      BY <2>1, <1>3, <1>4 DEF InLength, Offset
    <3>2. bufferState # "NONE"
      BY <2>1 DEF InLength
    <3>3. a = 1 + d
      BY <1>4
    <3>4. e < position /\ position < e + a + h + b
      BY <3>1, <3>3, <1>6
    <3>. QED
      BY <3>2, <3>4
  <2>2. CASE InHeader(k)
    <3>1. position - e - a \in 0 .. h - 1
      BY <2>2, <1>3, <1>4 DEF InHeader, Offset
    <3>2. bufferState # "NONE"
      BY <2>2 DEF InHeader
    <3>3. a = 1 + d
      BY <1>4
    <3>4. e < position /\ position < e + a + h + b
      BY <3>1, <3>3, <1>6
    <3>. QED
      BY <3>2, <3>4
  <2>3. CASE InPayload(k)
    <3>1. position - e - a - h \in 0 .. b - 1
      BY <2>3, <1>3, <1>4 DEF InPayload, Offset
    <3>2. bufferState # "NONE"
      BY <2>3 DEF InPayload
    <3>3. a = 1 + d
      BY <1>4
    <3>4. e < position /\ position < e + a + h + b
      BY <3>1, <3>3, <1>6
    <3>. QED
      BY <3>2, <3>4
  <2>. QED
    BY <2>1, <2>2, <2>3 DEF Within
<1>. QED
  BY <1>1, <1>3, <1>5, <1>7

(* The parser is between two packets exactly when the bytes are, for every *)
(* stream of packets, however the bytes are cut and wherever connections   *)
(* fell.                                                                   *)
THEOREM ParserSynchronised == ParserSpec => []Synchronised
<1>1. ParserInv => Synchronised
  <2>. SUFFICES ASSUME ParserInv PROVE Synchronised
    OBVIOUS
  <2>1. WireInv /\ Len(stream) \in Nat
    BY StreamIs DEF ParserInv
  <2>2. PICK k \in 0 .. Len(stream) : Between(k) \/ Within(k)
    BY DEF ParserInv
  <2>3. CASE Between(k)
    BY <2>3 DEF Between, Synchronised
  <2>4. CASE Within(k)
    <3>1. ASSUME NEW i \in 0 .. Len(stream), position = End(i) PROVE FALSE
      <4>1. /\ k + 1 \in 0 .. Len(stream) /\ End(k) < position /\ position < End(k + 1)
        BY <2>1, <2>4, WithinIs
      <4>2. End(i) \in Nat /\ End(k) \in Nat /\ End(k + 1) \in Nat
        BY <2>1, <4>1, StreamIs
      <4>3. i # k /\ i # k + 1
        BY <3>1, <4>1, <4>2
      <4>4. CASE i < k
        <5>1. End(i) < End(k)
          BY <2>1, <4>4, EndsInOrder
        <5>. QED
          BY <3>1, <4>1, <4>2, <5>1
      <4>5. CASE i > k + 1
        <5>1. End(k + 1) < End(i)
          BY <2>1, <4>1, <4>5, EndsInOrder
        <5>. QED
          BY <3>1, <4>1, <4>2, <5>1
      <4>. QED
        BY <2>1, <4>3, <4>4, <4>5
    <3>2. bufferState # "NONE"
      BY <2>1, <2>4, WithinIs
    <3>. QED
      BY <3>1, <3>2 DEF Synchronised
  <2>. QED
    BY <2>2, <2>3, <2>4
<1>. QED
  BY <1>1, ParserInvariant, PTL

(* Until a connection falls in the middle of a message, every message      *)
(* whose topic fits is handled once, in order, whole, and when its last    *)
(* byte has come, for every stream of packets and every way to cut it.     *)
THEOREM ParserHandledAsSent == ParserSpec => []HandledAsSent
<1>1. ParserInv => HandledAsSent
  <2>. SUFFICES ASSUME ParserInv, stream # <<>>, ~torn, NEW i \in 0 .. Len(stream),
                       End(i) <= position, i < Len(stream) => position < End(i + 1)
                PROVE  handled = Due(stream)[i]
    BY DEF HandledAsSent
  <2>1. WireInv /\ Len(stream) \in Nat
    BY StreamIs DEF ParserInv
  <2>2. PICK k \in 0 .. Len(stream) : Told(k) /\ (Between(k) \/ Within(k))
    BY DEF ParserInv
  <2>3. handled = Due(stream)[k]
    BY <2>2 DEF Told
  <2>4. End(k) <= position /\ (k < Len(stream) => position < End(k + 1)) /\ position \in Nat
    <3>1. End(k) \in Nat /\ position \in Nat
      BY <2>1, StreamIs DEF WireInv
    <3>2. CASE Between(k)
      <4>1. k < Len(stream) => k + 1 \in 0 .. Len(stream) /\ k < k + 1
        BY <2>1
      <4>2. k < Len(stream) => End(k) < End(k + 1)
        BY <2>1, <4>1, EndsInOrder
      <4>. QED
        BY <3>1, <3>2, <4>2 DEF Between
    <3>3. CASE Within(k)
      <4>1. End(k) < position /\ position < End(k + 1)
        BY <2>1, <3>3, WithinIs
      <4>. QED
        BY <3>1, <4>1
    <3>. QED
      BY <2>2, <3>2, <3>3
  <2>5. i = k
    <3>1. ASSUME NEW x \in 0 .. Len(stream), NEW y \in 0 .. Len(stream), x < y,
                 End(y) <= position, x < Len(stream) => position < End(x + 1)
          PROVE  FALSE
      <4>1. x + 1 \in 0 .. Len(stream) /\ x < Len(stream) /\ (x + 1 = y \/ x + 1 < y)
        BY <2>1, <3>1
      <4>2. End(x + 1) \in Nat /\ End(y) \in Nat
        BY <2>1, <4>1, StreamIs
      <4>3. End(x + 1) <= End(y)
        <5>1. x + 1 < y => End(x + 1) < End(y)
          BY <2>1, <4>1, EndsInOrder
        <5>. QED
          BY <4>1, <4>2, <5>1
      <4>. QED
        BY <2>4, <3>1, <4>1, <4>2, <4>3
    <3>2. ~ (i < k) /\ ~ (k < i)
      BY <2>4, <3>1
    <3>. QED
      BY <2>1, <3>2
  <2>. QED
    BY <2>3, <2>5
<1>. QED
  BY <1>1, ParserInvariant, PTL

(* A CONNACK has a length of one byte.                                     *)
LEMMA DigitsOfTwo ==
  ASSUME BASE > 2
  PROVE  Digits(2) = 1
<1>1. PICK q \in [Nat -> Nat] : /\ q = Quotients(2) /\ q[0] = 2
                                /\ \A i \in Nat : q[i + 1] = q[i] \div BASE
  BY QuotientsAre
<1>2. q[1] = 0
  <2>1. q[0 + 1] = q[0] \div BASE
    BY <1>1
  <2>2. 2 \div BASE = 0
    <3>1. PICK b \in Nat : b = BASE /\ b > 2
      BY MqttParserAssumption
    <3>2. 2 \div b = 0
      BY <3>1
    <3>. QED
      BY <3>1, <3>2
  <2>. QED
    BY <1>1, <2>1, <2>2
<1>3. Digits(2) \in 1 .. 2 + 1 /\ \A i \in 1 .. Digits(2) - 1 : q[i] > 0
  BY <1>1, DigitsAre
<1>4. ~ (Digits(2) > 1)
  BY <1>2, <1>3
<1>. QED
  BY <1>3, <1>4

(* remainingLengthBuffer, which _clear does not empty, never holds as many *)
(* bytes as the longest remaining length has, so that the next byte still  *)
(* fits: what one connection leaves behind is used up by the CONNACK of    *)
(* the next, whose length has one byte.                                    *)
THEOREM ParserLengthFits ==
  ASSUME BASE > 2, NEW m \in Nat \ {0},
         \A s \in STREAMS : \A i \in 1 .. Len(s) : Digits(Remaining(s[i])) <= m
  PROVE  ParserSpec => [](Len(remainingLengthBuffer) < m)
<1> DEFINE Fits == Len(remainingLengthBuffer) < m
<1>1. ParserInit => Fits
  BY DEF ParserInit
<1>2. ParserInv /\ Fits /\ [ParserNext]_pvars => Fits'
  <2>. SUFFICES ASSUME ParserInv, Fits, [ParserNext]_pvars PROVE Fits'
    OBVIOUS
  <2>1. CASE remainingLengthBuffer' = remainingLengthBuffer
    BY <2>1
  <2>2. CASE remainingLengthBuffer' = <<>>
    BY <2>2
  <2>3. CASE LengthByte /\ Current.more
    <3>1. /\ bufferState = "REMAINING_LENGTH" /\ position < arrived
          /\ remainingLengthBuffer' = Append(remainingLengthBuffer, Current)
      BY <2>3 DEF LengthByte, In
    <3>2. PICK k \in Nat : /\ Ahead(k)
                           /\ Between(k) \/ InLength(k) \/ InHeader(k) \/ InPayload(k)
      BY <3>1, WhereIs
    <3>3. InLength(k)
      BY <3>1, <3>2 DEF Between, InHeader, InPayload
    <3>4. PICK p \in Packet, e \in Nat : p = stream[k + 1] /\ e = End(k)
      BY <3>2 DEF Ahead
    <3>5. PICK r \in Nat, d \in Nat : r = Remaining(p) /\ d = Digits(r) /\ d >= 1
      BY PacketIs
    <3>6. PICK n \in 0 .. d - 1 : n = position - e - 1 /\ (k > 0 => Len(remainingLengthBuffer) = n)
      BY <3>3, <3>4, <3>5 DEF InLength, Offset
    <3>7. /\ position \in Nat /\ stream \in Seq(Packet)
          /\ remainingLengthBuffer \in Seq(ByteOf(Nat))
          /\ stream # <<>> => stream \in STREAMS
      BY <3>2 DEF ParserInv, WireInv, Ahead
    <3>8. Current = Length(r)[n + 1]
      <4>1. n \in Nat /\ n < d
        BY <3>6
      <4>. QED
        BY <3>2, <3>4, <3>5, <3>6, <3>7, <4>1, CurrentLength
    <3>9. n + 1 < d
      <4>1. n + 1 \in 1 .. d
        BY <3>6
      <4>2. Length(r)[n + 1].more = (n + 1 < d)
        BY <3>5, <4>1, LengthIs
      <4>. QED
        BY <2>3, <3>8, <4>2, Zenon
    <3>10. k > 0
      <4>. SUFFICES ASSUME k = 0 PROVE FALSE
        OBVIOUS
      <4>1. p.type = "CONNACK"
        BY <3>2, <3>4 DEF Ahead
      <4>2. r = 2
        BY <3>5, <4>1 DEF Remaining, HeaderLength, BodyLength
      <4>3. d = 1
        BY <3>5, <4>2, DigitsOfTwo
      <4>. QED
        BY <3>6, <3>9, <4>3
    <3>11. d <= m
      <4>1. stream # <<>> /\ k + 1 \in 1 .. Len(stream)
        BY <3>2, <3>7 DEF Ahead
      <4>. QED
        BY <3>4, <3>5, <3>7, <4>1
    <3>12. Len(remainingLengthBuffer') = n + 1
      BY <3>1, <3>6, <3>7, <3>10
    <3>. QED
      BY <3>6, <3>9, <3>11, <3>12
  <2>4. \/ remainingLengthBuffer' = remainingLengthBuffer
        \/ remainingLengthBuffer' = <<>>
        \/ LengthByte /\ Current.more
    <3>1. CASE LengthByte
      BY <3>1 DEF LengthByte
    <3>2. CASE UNCHANGED pvars
      BY <3>2 DEF pvars, parser
    <3>3. CASE ConnectionMade \/ SegmentArrives
      BY <3>3 DEF ConnectionMade, SegmentArrives, parser
    <3>4. CASE ConnectionFalls
      BY <3>4 DEF ConnectionFalls, ClearParser
    <3>5. CASE TypeByte \/ AckHeader \/ AckPayload \/ PublishHeader \/ PublishPayload
      BY <3>5 DEF TypeByte, AckHeader, AckPayload, PublishHeader, PublishPayload
    <3>. QED
      BY <3>1, <3>2, <3>3, <3>4, <3>5 DEF ParserNext
  <2>. QED
    BY <2>1, <2>2, <2>3, <2>4
<1>. QED
  BY <1>1, <1>2, ParserInvariant, PTL DEF ParserSpec

=============================================================================
