--------------------------- MODULE BunRoom_proofs ---------------------------
(***************************************************************************)
(* Theorems about the room on Bun: what its clients are shown of the       *)
(* history, the storage and the websockets of the adapter, for every set   *)
(* of connections and users, every clock and every bound.                  *)
(***************************************************************************)
EXTENDS BunRoom, Roster_proofs, FunctionTheorems

-----------------------------------------------------------------------------
(* The k-th of a set of numbers. *)

Rank(S, i) == Cardinality({j \in S : j <= i})

\* Ranks and members are in bijection.
LEMMA Ranks ==
    ASSUME NEW S, S \subseteq Nat, IsFiniteSet(S)
    PROVE  /\ Cardinality(S) \in Nat
           /\ \A k \in 1..Cardinality(S) : Nth(S, k) \in S /\ Rank(S, Nth(S, k)) = k
           /\ \A i \in S : Rank(S, i) \in 1..Cardinality(S) /\ Nth(S, Rank(S, i)) = i
<1> DEFINE n    == Cardinality(S)
           rank == [i \in S |-> Rank(S, i)]
<1>1. n \in Nat
  BY FS_CardinalityType
<1>2. ASSUME NEW i \in S PROVE Rank(S, i) \in 1..n
  <2> DEFINE T == {j \in S : j <= i}
  <2>1. T \subseteq S /\ i \in T
    BY <1>2
  <2>2. IsFiniteSet(T) /\ Cardinality(T) <= n
    BY <2>1, FS_Subset
  <2>3. Cardinality(T) \in Nat /\ Cardinality(T) # 0
    BY <2>1, <2>2, FS_CardinalityType, FS_EmptySet
  <2> QED BY <1>1, <2>2, <2>3 DEF Rank
<1>3. ASSUME NEW i \in S, NEW l \in S, i < l PROVE Rank(S, i) # Rank(S, l)
  <2> DEFINE T == {j \in S : j <= i}
             U == {j \in S : j <= l}
  <2>1. T \subseteq U
    <3>1. \A j \in S : j <= i => j <= l
      BY <1>3
    <3> QED BY <3>1
  <2>2. l \in U /\ l \notin T /\ U \subseteq S
    BY <1>3
  <2>3. IsFiniteSet(U)
    BY <2>2, FS_Subset
  <2>4. Cardinality(T) # Cardinality(U)
    <3> HIDE DEF T, U
    <3> QED BY <2>1, <2>2, <2>3, FS_Subset
  <2> QED BY <2>4 DEF Rank
<1>4. \A i, l \in S : Rank(S, i) = Rank(S, l) => i = l
  <2>1. \A i, l \in S : i = l \/ i < l \/ l < i
    OBVIOUS
  <2> QED BY <1>3, <2>1
<1>5. rank \in Injection(S, 1..n)
  <2>1. rank \in [S -> 1..n]
    BY <1>2
  <2>2. \A i, l \in S : rank[i] = rank[l] => i = l
    BY <1>4
  <2> QED BY <2>1, <2>2, Fun_IsInj
<1>6. rank \in Surjection(S, 1..n)
  <2>1. IsFiniteSet(1..n) /\ Cardinality(1..n) = n
    BY <1>1, FS_Interval
  <2> HIDE DEF rank
  <2> QED BY <1>5, <2>1, FS_Injection
<1>7. ASSUME NEW k \in 1..n PROVE Nth(S, k) \in S /\ Rank(S, Nth(S, k)) = k
  <2> DEFINE m == 1..n
  <2>1. \A l \in m : \E i \in S : rank[i] = l
    <3> HIDE DEF rank, m
    <3>1. rank \in Surjection(S, m)
      BY <1>6 DEF m
    <3> QED BY <3>1, Fun_SurjectionProperties
  <2>2. \E i \in S : Rank(S, i) = k
    BY <2>1
  <2> QED BY <2>2 DEF Nth, Rank
<1> QED BY <1>1, <1>2, <1>4, <1>7

\* A set of numbers, each of them raised by n.
LEMMA Shifted ==
    ASSUME NEW S, S \subseteq Nat, IsFiniteSet(S), NEW n \in Nat
    PROVE  /\ IsFiniteSet({n + i : i \in S})
           /\ Cardinality({n + i : i \in S}) = Cardinality(S)
<1> DEFINE T == {n + i : i \in S}
           f == [i \in S |-> n + i]
<1>1. f \in [S -> T] /\ \A i, j \in S : f[i] = f[j] => i = j
  <2>1. \A i, j \in S : n + i = n + j => i = j
    OBVIOUS
  <2> QED BY <2>1
<1>2. \A t \in T : \E i \in S : f[i] = t
  OBVIOUS
<1>3. f \in Bijection(S, T)
  <2> HIDE DEF f, T
  <2> QED BY <1>1, <1>2, Fun_IsInj, Fun_IsSurj DEF Bijection
<1>4. ExistsBijection(S, T)
  BY <1>3 DEF ExistsBijection
<1> QED BY <1>4, FS_Bijection

-----------------------------------------------------------------------------
(* The messages among frames. *)

LEMMA ChatsAre ==
    ASSUME NEW a \in Seq(Frame)
    PROVE  /\ Chats(a) \subseteq Nat /\ IsFiniteSet(Chats(a))
           /\ Chats(a) \subseteq 1..Len(a)
           /\ \A i \in Chats(a) : a[i] \in Message
<1>1. Len(a) \in Nat /\ DOMAIN a = 1..Len(a) /\ \A i \in 1..Len(a) : a[i] \in Frame
  BY LenProperties, ElementOfSeq
<1>2. Chats(a) \subseteq 1..Len(a) /\ IsFiniteSet(1..Len(a))
  BY <1>1, FS_Interval DEF Chats
<1>3. \A i \in Chats(a) : a[i] \in Message
  BY <1>1 DEF Chats, Frame
<1> QED BY <1>2, <1>3, FS_Subset

\* The messages are enumerated by rank.
LEMMA MessagesAre ==
    ASSUME NEW a \in Seq(Frame)
    PROVE  /\ Cardinality(Chats(a)) \in Nat
           /\ Messages(a) \in Seq(Message)
           /\ Len(Messages(a)) = Cardinality(Chats(a))
           /\ DOMAIN Messages(a) = 1..Cardinality(Chats(a))
           /\ \A k \in 1..Cardinality(Chats(a)) : Messages(a)[k] = a[Nth(Chats(a), k)]
           /\ \A i \in Chats(a) : /\ Rank(Chats(a), i) \in 1..Cardinality(Chats(a))
                                  /\ Messages(a)[Rank(Chats(a), i)] = a[i]
<1> DEFINE A == Chats(a)
           n == Cardinality(A)
           m == Messages(a)
<1>1. /\ A \subseteq Nat /\ IsFiniteSet(A)
      /\ \A i \in A : a[i] \in Message
  BY ChatsAre
<1>2. /\ n \in Nat
      /\ \A k \in 1..n : Nth(A, k) \in A
      /\ \A i \in A : Rank(A, i) \in 1..n /\ Nth(A, Rank(A, i)) = i
  <2> HIDE DEF A
  <2> QED BY <1>1, Ranks
<1>3. m = [k \in 1..n |-> a[Nth(A, k)]]
  BY DEF Messages
<1> HIDE DEF m, A
<1>4. m \in [1..n -> Message]
  BY <1>1, <1>2, <1>3
<1>5. m \in Seq(Message) /\ Len(m) = n
  BY <1>2, <1>4
<1> QED BY <1>2, <1>3, <1>5 DEF m, A

\* What is sent is read as it was sent, in parts.
LEMMA MessagesConcat ==
    ASSUME NEW a \in Seq(Frame), NEW b \in Seq(Frame)
    PROVE  Messages(a \o b) = Messages(a) \o Messages(b)
<1> DEFINE c  == a \o b
           A  == Chats(a)
           B  == Chats(b)
           C  == Chats(c)
           la == Len(a)
           na == Cardinality(A)
           nb == Cardinality(B)
           D  == {la + i : i \in B}
<1>1. /\ c \in Seq(Frame)
      /\ la \in Nat /\ Len(b) \in Nat
      /\ DOMAIN a = 1..la /\ DOMAIN b = 1..Len(b)
      /\ DOMAIN c = 1..(la + Len(b))
      /\ \A i \in 1..la : c[i] = a[i]
      /\ \A i \in 1..Len(b) : c[la + i] = b[i]
  BY Concat
<1> HIDE DEF c
<1>2. /\ A \subseteq Nat /\ IsFiniteSet(A) /\ A \subseteq 1..la
      /\ B \subseteq Nat /\ IsFiniteSet(B) /\ B \subseteq 1..Len(b)
      /\ C \subseteq Nat /\ IsFiniteSet(C) /\ C \subseteq 1..(la + Len(b))
  <2>1. C \subseteq 1..Len(c) /\ C \subseteq Nat /\ IsFiniteSet(C)
    BY <1>1, ChatsAre
  <2>2. Len(c) = la + Len(b)
    BY <1>1, LenProperties
  <2> QED BY <2>1, <2>2, ChatsAre
<1>3. C = A \cup D
  <2>1. ASSUME NEW i \in C PROVE i \in A \cup D
    <3>1. i \in 1..(la + Len(b)) /\ c[i].type = "chat"
      BY <1>1, <2>1 DEF Chats
    <3>2. CASE i <= la
      <4>1. i \in 1..la
        BY <3>1, <3>2
      <4> QED BY <1>1, <3>1, <4>1 DEF Chats
    <3>3. CASE ~(i <= la)
      <4> DEFINE k == i - la
      <4>1. k \in 1..Len(b) /\ la + k = i
        BY <1>1, <3>1, <3>3
      <4>2. k \in B
        <5> HIDE DEF k
        <5> QED BY <1>1, <3>1, <4>1 DEF Chats
      <4> QED BY <4>1, <4>2
    <3> QED BY <3>2, <3>3
  <2>2. ASSUME NEW i \in A PROVE i \in C
    <3>1. i \in 1..la /\ i \in 1..(la + Len(b)) /\ a[i].type = "chat"
      BY <1>1, <2>2 DEF Chats
    <3> QED BY <1>1, <3>1 DEF Chats
  <2>3. ASSUME NEW i \in B PROVE la + i \in C
    <3>1. i \in 1..Len(b) /\ la + i \in 1..(la + Len(b)) /\ b[i].type = "chat"
      BY <1>1, <2>3 DEF Chats
    <3> QED BY <1>1, <3>1 DEF Chats
  <2> QED BY <2>1, <2>2, <2>3
<1>4. IsFiniteSet(D) /\ Cardinality(D) = nb /\ A \cap D = {}
  <2>1. IsFiniteSet(D) /\ Cardinality(D) = nb
    <3> HIDE DEF B
    <3> QED BY <1>1, <1>2, Shifted
  <2>2. \A i \in A, j \in B : i # la + j
    BY <1>1, <1>2
  <2> QED BY <2>1, <2>2
<1>5. \A S, T : IsFiniteSet(S) /\ IsFiniteSet(T) /\ S \cap T = {} =>
                  Cardinality(S \cup T) = Cardinality(S) + Cardinality(T)
  <2>1. ASSUME NEW S, NEW T, IsFiniteSet(S), IsFiniteSet(T), S \cap T = {}
        PROVE  Cardinality(S \cup T) = Cardinality(S) + Cardinality(T)
    <3>1. Cardinality(S \cap T) = 0
      BY <2>1, FS_EmptySet
    <3>2. Cardinality(S) \in Nat /\ Cardinality(T) \in Nat
      BY <2>1, FS_CardinalityType
    <3>3. Cardinality(S \cup T) =
            Cardinality(S) + Cardinality(T) - Cardinality(S \cap T)
      BY <2>1, FS_Union
    <3> QED BY <3>1, <3>2, <3>3
  <2> QED BY <2>1
<1>6. Cardinality(C) = na + nb
  BY <1>2, <1>3, <1>4, <1>5
<1>7. /\ na \in Nat /\ Messages(a) \in Seq(Message) /\ Len(Messages(a)) = na
      /\ nb \in Nat /\ Messages(b) \in Seq(Message) /\ Len(Messages(b)) = nb
      /\ Messages(c) \in Seq(Message) /\ Len(Messages(c)) = na + nb
  BY <1>1, <1>6, MessagesAre
<1> HIDE DEF A, B, C
<1>8. ASSUME NEW k \in 1..na PROVE Messages(c)[k] = Messages(a)[k]
  <2> DEFINE i == Nth(A, k)
  <2>1. i \in A /\ Rank(A, i) = k
    BY <1>2, Ranks
  <2> HIDE DEF i
  <2>2. \A d \in D : ~(d <= i)
    <3>1. \A j \in B : ~(la + j <= i)
      BY <1>1, <1>2, <2>1
    <3> QED BY <3>1
  <2>3. {j \in C : j <= i} = {j \in A : j <= i}
    BY <1>3, <2>2
  <2>4. Rank(C, i) = k /\ i \in C
    BY <1>3, <2>1, <2>3 DEF Rank
  <2>5. Messages(c)[k] = c[i]
    BY <1>1, <2>4, MessagesAre DEF C
  <2>6. Messages(a)[k] = a[i]
    BY <2>1, MessagesAre DEF A
  <2>7. c[i] = a[i]
    BY <1>1, <1>2, <2>1
  <2> QED BY <2>5, <2>6, <2>7
<1>9. ASSUME NEW k \in 1..nb PROVE Messages(c)[na + k] = Messages(b)[k]
  <2> DEFINE i == Nth(B, k)
             T == {j \in B : j <= i}
             U == {la + j : j \in T}
  <2>1. i \in B /\ Rank(B, i) = k
    BY <1>2, Ranks
  <2> HIDE DEF i
  <2>2. T \subseteq Nat /\ IsFiniteSet(T) /\ Cardinality(T) = k
    BY <1>2, <2>1, FS_Subset DEF Rank
  <2>3. {j \in C : j <= la + i} = A \cup U
    <3>1. \A j \in A : j <= la + i
      BY <1>1, <1>2, <2>1
    <3>2. \A j \in B : la + j <= la + i <=> j <= i
      BY <1>1, <1>2, <2>1
    <3> QED BY <1>3, <3>1, <3>2
  <2>4. IsFiniteSet(U) /\ Cardinality(U) = k /\ A \cap U = {}
    <3>1. IsFiniteSet(U) /\ Cardinality(U) = k
      <4> HIDE DEF T
      <4> QED BY <1>1, <2>2, Shifted
    <3>2. U \subseteq D
      OBVIOUS
    <3> QED BY <1>4, <3>1, <3>2
  <2>5. Rank(C, la + i) = na + k /\ la + i \in C
    <3> HIDE DEF U, D
    <3>1. Cardinality(A \cup U) = na + k
      BY <1>2, <1>5, <2>4
    <3>2. la + i \in D
      BY <2>1 DEF D
    <3> QED BY <1>3, <2>3, <3>1, <3>2 DEF Rank
  <2>6. Messages(c)[na + k] = c[la + i]
    BY <1>1, <2>5, MessagesAre DEF C
  <2>7. Messages(b)[k] = b[i]
    BY <2>1, MessagesAre DEF B
  <2>8. c[la + i] = b[i]
    BY <1>1, <1>2, <2>1
  <2> QED BY <2>6, <2>7, <2>8
<1>10. Messages(c) = Messages(a) \o Messages(b)
  <2> DEFINE p == Messages(a)
             q == Messages(b)
             r == Messages(c)
  <2>1. /\ p \o q \in Seq(Message) /\ Len(p \o q) = na + nb
        /\ \A i \in 1..na : (p \o q)[i] = p[i]
        /\ \A i \in 1..nb : (p \o q)[na + i] = q[i]
    <3> HIDE DEF p, q, na, nb
    <3>1. p \in Seq(Message) /\ Len(p) = na /\ q \in Seq(Message) /\ Len(q) = nb
      BY <1>7 DEF p, q
    <3>2. p \o q \in Seq(Message) /\ Len(p \o q) = Len(p) + Len(q)
      BY <3>1, ConcatProperties
    <3>3. /\ \A i \in 1..Len(p) : (p \o q)[i] = p[i]
          /\ \A i \in 1..Len(q) : (p \o q)[Len(p) + i] = q[i]
      BY <3>1, Concat
    <3> QED BY <3>1, <3>2, <3>3
  <2>2. ASSUME NEW i \in 1..(na + nb) PROVE r[i] = (p \o q)[i]
    <3> HIDE DEF p, q, r, na, nb
    <3>1. CASE i <= na
      <4>1. i \in 1..na
        BY <1>7, <3>1
      <4> QED BY <1>8, <2>1, <4>1 DEF p, r
    <3>2. CASE ~(i <= na)
      <4> DEFINE k == i - na
      <4>1. k \in 1..nb /\ na + k = i
        BY <1>7, <3>2
      <4> HIDE DEF k
      <4>2. r[na + k] = q[k] /\ (p \o q)[na + k] = q[k]
        BY <1>9, <2>1, <4>1 DEF q, r
      <4> QED BY <4>1, <4>2
    <3> QED BY <3>1, <3>2
  <2>3. r \in Seq(Message) /\ Len(r) = na + nb
    BY <1>7
  <2>4. p \o q = r
    <3> HIDE DEF p, q, r, na, nb
    <3> QED BY <2>1, <2>2, <2>3, SeqEqual
  <2> QED BY <2>4
<1> QED BY <1>10 DEF c

LEMMA MessagesAll ==
    ASSUME NEW a \in Seq(Message)
    PROVE  Messages(a) = a
<1> DEFINE n == Len(a)
<1>1. /\ a \in Seq(Frame) /\ n \in Nat /\ DOMAIN a = 1..n
      /\ \A i \in 1..n : a[i] \in Message
  BY FrameTypes, SeqMonotonic, LenProperties, ElementOfSeq
<1>2. Chats(a) = 1..n
  BY <1>1 DEF Chats, Message
<1>3. ASSUME NEW i \in 1..n PROVE Rank(1..n, i) = i
  <2>1. {j \in 1..n : j <= i} = 1..i /\ i \in Nat
    BY <1>1, <1>3
  <2>2. Cardinality(1..i) = i
    BY <2>1, FS_Interval
  <2> QED BY <2>1, <2>2 DEF Rank
<1> HIDE DEF n
<1>4. Cardinality(Chats(a)) = n
  BY <1>1, <1>2, FS_Interval
<1>5. \A i \in 1..n : Messages(a)[i] = a[i]
  <2>1. \A i \in 1..n : Messages(a)[Rank(Chats(a), i)] = a[i]
    BY <1>1, <1>2, MessagesAre
  <2> QED BY <1>2, <1>3, <2>1
<1>6. Messages(a) \in Seq(Message) /\ Len(Messages(a)) = n
  BY <1>1, <1>4, MessagesAre
<1> DEFINE m == Messages(a)
<1>7. m = a
  <2>1. m \in Seq(Message) /\ Len(m) = Len(a) /\ \A i \in 1..Len(m) : m[i] = a[i]
    BY <1>1, <1>5, <1>6 DEF n
  <2> HIDE DEF m
  <2> QED BY <2>1, SeqEqual
<1> QED BY <1>7

LEMMA MessagesNone ==
    ASSUME NEW a \in Seq(Frame), \A i \in DOMAIN a : a[i].type # "chat"
    PROVE  Messages(a) = <<>>
<1>1. Chats(a) = {}
  BY DEF Chats
<1>2. Cardinality(Chats(a)) = 0
  BY <1>1, FS_EmptySet
<1>3. Messages(a) \in Seq(Message) /\ Len(Messages(a)) = 0
  BY <1>2, MessagesAre
<1> QED BY <1>3, EmptySeq

\* A frame that is no message does not show.
LEMMA NoMessage ==
    ASSUME NEW f \in Frame, f.type # "chat"
    PROVE  <<f>> \in Seq(Frame) /\ Messages(<<f>>) = <<>>
<1>1. <<f>> \in Seq(Frame) /\ \A i \in DOMAIN <<f>> : <<f>>[i].type # "chat"
  OBVIOUS
<1> DEFINE a == <<f>>
<1>2. a \in Seq(Frame) /\ Messages(a) = <<>>
  <2>1. a \in Seq(Frame) /\ \A i \in DOMAIN a : a[i].type # "chat"
    BY <1>1
  <2> HIDE DEF a
  <2> QED BY <2>1, MessagesNone
<1> QED BY <1>2

-----------------------------------------------------------------------------
(* The end of a log. *)

\* A part of a sequence.
LEMMA Part ==
    ASSUME NEW S, NEW s \in Seq(S), NEW m \in Nat, NEW n \in Nat,
           1 <= m, m <= n + 1, n <= Len(s)
    PROVE  /\ SubSeq(s, m, n) \in Seq(S)
           /\ Len(SubSeq(s, m, n)) = n - m + 1
           /\ \A i \in 1..(n - m + 1) : SubSeq(s, m, n)[i] = s[m + i - 1]
<1>1. m \in Int /\ n \in Int
  OBVIOUS
<1>2. \A i \in 1..Len(s) : s[i] \in S
  BY ElementOfSeq
<1>3. \A i \in m..n : s[i] \in S
  BY <1>2, LenProperties
<1>4. SubSeq(s, m, n) \in Seq(S)
  BY <1>1, <1>3, SubSeqProperties
<1>5. Len(SubSeq(s, m, n)) = IF m <= n THEN n - m + 1 ELSE 0
  BY <1>1, <1>3, SubSeqProperties
<1>6. \A i \in 1..(n - m + 1) : SubSeq(s, m, n)[i] = s[m + i - 1]
  BY <1>1, <1>3, SubSeqProperties
<1> QED BY <1>4, <1>5, <1>6

\* A sequence and one element more.
LEMMA OneMore ==
    ASSUME NEW S, NEW s \in Seq(S), NEW m \in S
    PROVE  /\ s \o <<m>> \in Seq(S)
           /\ Len(s) \in Nat /\ Len(s \o <<m>>) = Len(s) + 1
           /\ \A i \in 1..Len(s) : (s \o <<m>>)[i] = s[i]
           /\ (s \o <<m>>)[Len(s) + 1] = m
OBVIOUS

\* seen is the end of log, and not less of it than the backlog.
IsEnd(seen, log) ==
    LET n == Len(log) - Len(seen)
    IN  /\ n >= 0 /\ seen = SubSeq(log, n + 1, Len(log))
        /\ n > 0 => Len(seen) >= Backlog

\* The backlog is an end of the history.
LEMMA LatestIsEnd ==
    ASSUME history \in Seq(Message)
    PROVE  Latest \in Seq(Message) /\ IsEnd(Latest, history)
<1> DEFINE h == Len(history)
           m == Maximum(1, h - Backlog + 1)
<1>1. h \in Nat /\ Backlog \in Nat
  BY BoundsAssumption, LenProperties
<1> HIDE DEF h
<1>2. /\ m \in Nat /\ m >= 1 /\ m <= h + 1
      /\ m > 1 => h - m + 1 = Backlog
  BY <1>1 DEF Maximum
<1>3. Latest \in Seq(Message) /\ Latest = SubSeq(history, m, h)
  BY LatestType DEF Latest, h
<1> HIDE DEF m
<1>4. Len(Latest) = h - m + 1
  BY <1>1, <1>2, <1>3, Part DEF h
<1>5. /\ h - Len(Latest) + 1 = m /\ h - Len(Latest) >= 0
      /\ h - Len(Latest) > 0 => Len(Latest) >= Backlog
  BY <1>1, <1>2, <1>4
<1>6. Latest = SubSeq(history, h - Len(Latest) + 1, h)
  BY <1>3, <1>5, Zenon
<1> QED BY <1>3, <1>5, <1>6 DEF IsEnd, h

\* An end and its log grow by the same message.
LEMMA EndGrows ==
    ASSUME NEW log \in Seq(Message), NEW seen \in Seq(Message), NEW m \in Message,
           IsEnd(seen, log)
    PROVE  IsEnd(seen \o <<m>>, log \o <<m>>)
<1> DEFINE one == <<m>>
           l2  == log \o one
           s2  == seen \o one
           n   == Len(log) - Len(seen)
           e   == SubSeq(l2, n + 1, Len(l2))
<1>2. /\ Len(log) \in Nat /\ Len(seen) \in Nat /\ n \in Nat
      /\ seen = SubSeq(log, n + 1, Len(log))
      /\ n > 0 => Len(seen) >= Backlog
  BY LenProperties DEF IsEnd
<1> HIDE DEF one
<1>3. /\ l2 \in Seq(Message) /\ Len(l2) = Len(log) + 1
      /\ \A i \in 1..Len(log) : l2[i] = log[i]
      /\ l2[Len(log) + 1] = m
  BY OneMore DEF one
<1>4. /\ s2 \in Seq(Message) /\ Len(s2) = Len(seen) + 1
      /\ \A i \in 1..Len(seen) : s2[i] = seen[i]
      /\ s2[Len(seen) + 1] = m
  BY OneMore DEF one
<1> HIDE DEF l2, s2
<1>5. \A i \in 1..Len(seen) : seen[i] = log[n + i]
  <2>1. \A i \in (n + 1)..Len(log) : log[i] \in Message
    BY <1>2, ElementOfSeq
  <2> DEFINE a == n + 1
             b == Len(log)
  <2>2. a \in Int /\ b \in Int /\ b - a + 1 = Len(seen)
    BY <1>2
  <2>3. \A i \in 1..(b - a + 1) : SubSeq(log, a, b)[i] = log[a + i - 1]
    <3> HIDE DEF a, b
    <3>1. \A i \in a..b : log[i] \in Message
      BY <2>1 DEF a, b
    <3> QED BY <2>2, <3>1, SubSeqProperties
  <2>4. \A i \in 1..Len(seen) : seen[i] = log[a + i - 1] /\ a + i - 1 = n + i
    <3>1. \A i \in 1..Len(seen) : a + i - 1 = n + i
      BY <1>2
    <3>2. seen = SubSeq(log, a, b)
      BY <1>2
    <3> HIDE DEF a, b
    <3> QED BY <2>2, <2>3, <3>1, <3>2
  <2> QED BY <2>4
<1>6. /\ e \in Seq(Message) /\ Len(e) = Len(s2)
      /\ \A i \in 1..Len(s2) : e[i] = l2[n + i]
  <2> DEFINE a == n + 1
             b == Len(l2)
  <2>1. a \in Int /\ b \in Int /\ a <= b /\ b - a + 1 = Len(s2) /\ a >= 1
    BY <1>2, <1>3, <1>4
  <2>2. \A i \in a..b : l2[i] \in Message
    BY <1>3, <2>1, ElementOfSeq
  <2>3. \A i \in 1..Len(s2) : a + i - 1 = n + i
    BY <1>2, <1>4
  <2> HIDE DEF a, b
  <2>4. /\ SubSeq(l2, a, b) \in Seq(Message)
        /\ Len(SubSeq(l2, a, b)) = b - a + 1
        /\ \A i \in 1..(b - a + 1) : SubSeq(l2, a, b)[i] = l2[a + i - 1]
    BY <2>1, <2>2, SubSeqProperties
  <2>5. e = SubSeq(l2, a, b)
    BY DEF a, b
  <2> QED BY <2>1, <2>3, <2>4, <2>5
<1>7. \A i \in 1..Len(s2) : s2[i] = e[i]
  <2>1. ASSUME NEW i \in 1..Len(seen) PROVE l2[n + i] = log[n + i]
    <3>1. n + i \in 1..Len(log)
      BY <1>2, <2>1
    <3> QED BY <1>3, <3>1
  <2>2. l2[n + Len(s2)] = m /\ s2[Len(s2)] = m
    <3>1. n + Len(s2) = Len(log) + 1
      BY <1>2, <1>4
    <3> QED BY <1>3, <1>4, <3>1
  <2>3. \A i \in 1..Len(s2) : i \in 1..Len(seen) \/ i = Len(s2)
    BY <1>2, <1>4
  <2> HIDE DEF e
  <2> QED BY <1>4, <1>5, <1>6, <2>1, <2>2, <2>3
<1>8. s2 = e
  <2> HIDE DEF e
  <2> QED BY <1>4, <1>6, <1>7, SeqEqual
<1>9. Len(l2) - Len(s2) = n /\ n > 0 => Len(s2) >= Backlog
  BY <1>2, <1>3, <1>4, BoundsAssumption
<1>10. IsEnd(s2, l2)
  <2>1. Len(l2) - Len(s2) = n
    BY <1>2, <1>3, <1>4
  <2> QED BY <1>2, <1>8, <1>9, <2>1 DEF IsEnd
<1> QED BY <1>10 DEF s2, l2, one

-----------------------------------------------------------------------------
(* What a connection is shown. *)

ViewOf(streams, ses, r) == Messages(streams[r] \o ses[r].blocked)

\* Only a session that waits for its authorization has a queue.
QueuesFit(ses) ==
    \A r \in Sockets : ~(gated /\ ~ses[r].authorized) => ses[r].blocked = <<>>

\* What a step does to the readers: nothing,
Stays ==
    /\ history' = history
    /\ Readers' = Readers
    /\ \A r \in Readers : ViewOf(sent', session', r) = ViewOf(sent, session, r)

\* one more, which is shown the backlog,
Comes(s) ==
    /\ history' = history
    /\ s \notin Readers /\ Readers' = Readers \cup {s}
    /\ ViewOf(sent', session', s) = Latest
    /\ \A r \in Readers : ViewOf(sent', session', r) = ViewOf(sent, session, r)

\* one less,
Leaving(s) ==
    /\ history' = history
    /\ s \in Readers /\ Readers' = Readers \ {s}
    /\ \A r \in Readers : ViewOf(sent', session', r) = ViewOf(sent, session, r)

\* a message for all of them.
Grows(m) ==
    /\ history' = history \o <<m>>
    /\ \A i \in DOMAIN history : history[i].ts < m.ts
    /\ Readers' = Readers
    /\ \A r \in Readers : ViewOf(sent', session', r) = ViewOf(sent, session, r) \o <<m>>

LEMMA ViewType ==
    ASSUME NEW out \in [Sockets -> Seq(Frame)], NEW ses \in [Sockets -> Session],
           NEW r \in Sockets
    PROVE  ViewOf(out, ses, r) \in Seq(Message)
<1>1. out[r] \in Seq(Frame) /\ ses[r].blocked \in Seq(Frame)
  BY DEF Session
<1>2. out[r] \o ses[r].blocked \in Seq(Frame)
  BY <1>1, ConcatProperties
<1> QED BY <1>2, MessagesAre DEF ViewOf

\* Frames put together in either order.
LEMMA Reassociate ==
    ASSUME NEW a \in Seq(Frame), NEW b \in Seq(Frame), NEW c \in Seq(Frame)
    PROVE  a \o (b \o c) = (a \o b) \o c
BY ConcatAssociative, SMTT(30)

\* Frames reach the view of every session served, sent or queued.
LEMMA DeliverViews ==
    ASSUME sessions \in SUBSET Sockets,
           NEW frames \in Seq(Frame), NEW F,
           NEW ses \in [Sockets -> Session],
           NEW out \in [Sockets -> Seq(Frame)],
           QueuesFit(ses), Deliver(frames, F, ses, out)
    PROVE  /\ sessions' = sessions \ F
           /\ QueuesFit(session')
           /\ \A r \in sessions \ F : conn[r] = "open" =>
                ViewOf(sent', session', r) = ViewOf(out, ses, r) \o Messages(frames)
<1>1. sessions' = sessions \ F
  BY DEF Deliver
<1>2. \A r \in Sockets : /\ out[r] \in Seq(Frame)
                         /\ ses[r] \in Session /\ ses[r].blocked \in Seq(Frame)
  BY DEF Session
<1>3. ASSUME NEW r \in Sockets
      PROVE  ~(gated /\ ~session'[r].authorized) => session'[r].blocked = <<>>
  <2>1. CASE r \in sessions \ F /\ Blocked(ses[r])
    <3>1. session'[r].authorized = ses[r].authorized
      BY <1>2, <2>1 DEF Deliver, Session
    <3> QED BY <2>1, <3>1 DEF Blocked
  <2>2. CASE ~(r \in sessions \ F /\ Blocked(ses[r]))
    <3>1. session'[r] = ses[r]
      BY <2>2 DEF Deliver
    <3> QED BY <3>1 DEF QueuesFit
  <2> QED BY <2>1, <2>2
<1>4. ASSUME NEW r \in sessions \ F, conn[r] = "open"
      PROVE  ViewOf(sent', session', r) = ViewOf(out, ses, r) \o Messages(frames)
  <2> DEFINE o == out[r]
             b == ses[r].blocked
  <2>1. r \in Sockets /\ o \in Seq(Frame) /\ b \in Seq(Frame)
    BY <1>2, <1>4
  <2>2. CASE Blocked(ses[r])
    <3>1. sent'[r] = o /\ session'[r].blocked = b \o frames
      BY <1>2, <1>4, <2>1, <2>2 DEF Deliver, Session
    <3> HIDE DEF o, b
    <3>2. o \o (b \o frames) = (o \o b) \o frames
      BY <2>1, Reassociate, SMTT(30)
    <3>3. o \o b \in Seq(Frame)
      BY <2>1, ConcatProperties
    <3>4. Messages((o \o b) \o frames) = Messages(o \o b) \o Messages(frames)
      BY <3>3, MessagesConcat
    <3> QED BY <3>1, <3>2, <3>4 DEF ViewOf, o, b
  <2>3. CASE ~Blocked(ses[r])
    <3>1. sent'[r] = o \o frames /\ session'[r].blocked = b /\ b = <<>>
      BY <1>2, <1>4, <2>1, <2>3 DEF Deliver, Blocked, QueuesFit
    <3> HIDE DEF o, b
    <3>2. o \o b = o /\ (o \o frames) \o b = o \o frames
      <4>1. o \o frames \in Seq(Frame)
        BY <2>1, ConcatProperties
      <4> QED BY <2>1, <3>1, <4>1, ConcatEmptySeq
    <3>3. Messages(o \o frames) = Messages(o) \o Messages(frames)
      BY <2>1, MessagesConcat
    <3> QED BY <3>1, <3>2, <3>3 DEF ViewOf, o, b
  <2> QED BY <2>2, <2>3
<1> QED BY <1>1, <1>3, <1>4 DEF QueuesFit

\* Frames without a message, whatever else changes, leave the views.
LEMMA DeliverStays ==
    ASSUME sessions \in SUBSET Sockets,
           NEW frames \in Seq(Frame), NEW F, F \cap Readers = {},
           NEW ses \in [Sockets -> Session],
           NEW out \in [Sockets -> Seq(Frame)],
           QueuesFit(ses), Deliver(frames, F, ses, out),
           Messages(frames) = <<>>,
           \A r \in Readers : ViewOf(out, ses, r) = ViewOf(sent, session, r),
           \A r \in Sockets : conn'[r] = "open" <=> conn[r] = "open",
           history' = history
    PROVE  Stays /\ QueuesFit(session')
<1>1. /\ sessions' = sessions \ F
      /\ QueuesFit(session')
      /\ \A r \in sessions \ F : conn[r] = "open" =>
           ViewOf(sent', session', r) = ViewOf(out, ses, r) \o Messages(frames)
  BY DeliverViews
<1>2. Readers' = Readers
  BY <1>1 DEF Readers
<1>3. ASSUME NEW r \in Readers
      PROVE  ViewOf(sent', session', r) = ViewOf(sent, session, r)
  <2>1. r \in Sockets /\ r \in sessions \ F /\ conn[r] = "open"
    BY <1>3 DEF Readers
  <2>2. ViewOf(sent', session', r) = ViewOf(out, ses, r) \o <<>>
    BY <1>1, <2>1
  <2>3. ViewOf(out, ses, r) \in Seq(Message)
    BY <2>1, ViewType
  <2>4. ViewOf(out, ses, r) \o <<>> = ViewOf(out, ses, r)
    BY <2>3, ConcatEmptySeq
  <2> QED BY <1>3, <2>2, <2>4
<1> QED BY <1>1, <1>2, <1>3 DEF Stays

-----------------------------------------------------------------------------
(* The steps of the room, on Bun. *)

\* No send throws.
LEMMA NobodyThrows ==
    ASSUME Platform = "bun", NEW S, NEW ses
    PROVE  Throwing(S, ses) = {{}}
BY DEF Throwing

LEMMA PresenceSilent ==
    \A s \in Sockets, u \in Users \cup {NoUser} :
      LET p == {Who(s, u)}
      IN  /\ Joined(p) \in Frame /\ Joined(p).type # "chat"
          /\ Quit(p) \in Frame /\ Quit(p).type # "chat"
BY WhoType, FrameTypes DEF Joined, Quit

\* One frame or two about presences.
LEMMA SilentFrames ==
    ASSUME NEW f \in Frame, f.type # "chat", NEW g \in Frame, g.type # "chat"
    PROVE  /\ <<f>> \in Seq(Frame) /\ Messages(<<f>>) = <<>>
           /\ <<f>> \o <<g>> \in Seq(Frame) /\ Messages(<<f>> \o <<g>>) = <<>>
<1> DEFINE a == <<f>>
           b == <<g>>
<1>1. a \in Seq(Frame) /\ b \in Seq(Frame) /\ Messages(a) = <<>> /\ Messages(b) = <<>>
  BY NoMessage
<1> HIDE DEF a, b
<1>2. a \o b \in Seq(Frame) /\ Messages(a \o b) = Messages(a) \o Messages(b)
  BY <1>1, ConcatProperties, MessagesConcat
<1>3. <<>> \o <<>> = <<>>
  BY EmptySeq, ConcatEmptySeq
<1> QED BY <1>1, <1>2, <1>3 DEF a, b

\* A session whose user changes has the queue and the authorization it had.
LEMMA UserChanges ==
    ASSUME TypeOK, QueuesFit(session), NEW s \in Sockets,
           NEW u \in Users \cup {NoUser}
    PROVE  LET ses == [session EXCEPT ![s].address = u]
           IN  /\ ses \in [Sockets -> Session]
               /\ QueuesFit(ses)
               /\ \A r \in Sockets : ViewOf(sent, ses, r) = ViewOf(sent, session, r)
<1> DEFINE ses == [session EXCEPT ![s].address = u]
<1>1. session \in [Sockets -> Session]
  BY DEF TypeOK
<1>2. ses \in [Sockets -> Session]
  BY <1>1, SessionUpdate
<1>3. \A r \in Sockets : /\ ses[r].blocked = session[r].blocked
                         /\ ses[r].authorized = session[r].authorized
  BY <1>1 DEF Session
<1> HIDE DEF ses
<1>4. QueuesFit(ses)
  BY <1>3 DEF QueuesFit
<1>5. \A r \in Sockets : ViewOf(sent, ses, r) = ViewOf(sent, session, r)
  BY <1>3 DEF ViewOf
<1> QED BY <1>2, <1>4, <1>5 DEF ses

LEMMA QuietViews ==
    ASSUME QueuesFit(session),
           UNCHANGED <<conn, sessions, session, history, sent>>
    PROVE  Stays /\ QueuesFit(session')
BY DEF Stays, QueuesFit, Readers, ViewOf

LEMMA LoginOpenRoomViews ==
    ASSUME Platform = "bun", TypeOK, QueuesFit(session),
           NEW t \in logins, LoginOpenRoom(t)
    PROVE  Stays /\ QueuesFit(session')
<1> DEFINE s    == t.socket
           old  == session[s].address
           ses  == [session EXCEPT ![s].address = t.user]
           join == Joined({Who(s, t.user)})
           quit == Quit({Who(s, old)})
           all  == IF old = NoUser THEN Burst(join, {}, ses)
                   ELSE Burst(quit, {}, session) \o <<join>>
<1>1. s \in Sockets /\ t.user \in Users /\ old \in Users \cup {NoUser}
  BY DEF TypeOK, Login, Session
<1>2. /\ join \in Frame /\ join.type # "chat"
      /\ quit \in Frame /\ quit.type # "chat"
  BY <1>1, PresenceSilent
<1>3. Deliver(all, {}, ses, sent) /\ conn' = conn /\ history' = history
  <2>1. \E F \in Throwing(sessions, session) :
             Deliver(IF old = NoUser
                       THEN Burst(join, F, ses)
                       ELSE Burst(quit, F, session) \o <<join>>,
                     F, ses, sent)
    BY DEF LoginOpenRoom
  <2> QED BY <2>1, NobodyThrows DEF LoginOpenRoom
<1>4. /\ ses \in [Sockets -> Session] /\ QueuesFit(ses)
      /\ \A r \in Sockets : ViewOf(sent, ses, r) = ViewOf(sent, session, r)
  BY <1>1, UserChanges
<1> HIDE DEF join, quit, ses
<1>5. all \in Seq(Frame) /\ Messages(all) = <<>>
  <2>1. Burst(join, {}, ses) = <<join>> /\ Burst(quit, {}, session) = <<quit>>
    BY <1>2, BurstAlone
  <2>2. /\ <<join>> \in Seq(Frame) /\ Messages(<<join>>) = <<>>
        /\ <<quit>> \o <<join>> \in Seq(Frame) /\ Messages(<<quit>> \o <<join>>) = <<>>
    BY <1>2, SilentFrames
  <2> QED BY <2>1, <2>2
<1> HIDE DEF all
<1>6. /\ sessions \in SUBSET Sockets /\ sent \in [Sockets -> Seq(Frame)]
      /\ {} \cap Readers = {} /\ Readers \subseteq Sockets
  BY DEF TypeOK, Readers
<1> QED BY <1>3, <1>4, <1>5, <1>6, DeliverStays

LEMMA LoginGatedRoomViews ==
    ASSUME Platform = "bun", TypeOK, QueuesFit(session),
           NEW t \in logins, LoginGatedRoom(t)
    PROVE  Stays /\ QueuesFit(session')
<1> DEFINE s    == t.socket
           old  == session[s].address
           ses  == [session EXCEPT ![s].address = t.user]
           quit == Quit({Who(s, old)})
<1>1. s \in Sockets /\ t.user \in Users /\ old \in Users \cup {NoUser}
  BY DEF TypeOK, Login, Session
<1>2. quit \in Frame /\ quit.type # "chat"
  BY <1>1, PresenceSilent
<1>3. /\ \/ Deliver(<<>>, {}, ses, sent)
         \/ Deliver(Burst(quit, {}, session), {}, ses, sent)
      /\ conn' = conn /\ history' = history
  <2>1. \/ Deliver(<<>>, {}, ses, sent)
        \/ \E F \in Throwing(sessions, session) :
             Deliver(Burst(quit, F, session), F, ses, sent)
    BY DEF LoginGatedRoom
  <2> QED BY <2>1, NobodyThrows DEF LoginGatedRoom
<1>4. /\ ses \in [Sockets -> Session] /\ QueuesFit(ses)
      /\ \A r \in Sockets : ViewOf(sent, ses, r) = ViewOf(sent, session, r)
  BY <1>1, UserChanges
<1> HIDE DEF quit, ses
<1>5. \E all \in Seq(Frame) : Messages(all) = <<>> /\ Deliver(all, {}, ses, sent)
  <2>1. Burst(quit, {}, session) = <<quit>>
    BY <1>2, BurstAlone
  <2>2. <<quit>> \in Seq(Frame) /\ Messages(<<quit>>) = <<>>
    BY <1>2, SilentFrames
  <2>3. <<>> \in Seq(Frame) /\ Messages(<<>>) = <<>>
    <3>1. <<>> \in Seq(Message)
      OBVIOUS
    <3> QED BY <3>1, MessagesAll, EmptySeq
  <2> QED BY <1>3, <2>1, <2>2, <2>3
<1>6. /\ sessions \in SUBSET Sockets /\ sent \in [Sockets -> Seq(Frame)]
      /\ {} \cap Readers = {} /\ Readers \subseteq Sockets
  BY DEF TypeOK, Readers
<1> QED BY <1>3, <1>4, <1>5, <1>6, DeliverStays

\* What was queued is sent: the view is the same.
LEMMA ChainPassesViews ==
    ASSUME Platform = "bun", TypeOK, QueuesFit(session),
           NEW t \in logins, ChainPasses(t)
    PROVE  Stays /\ QueuesFit(session')
<1> DEFINE s       == t.socket
           address == session[s].address
           queued  == session[s].blocked
           ses     == [session EXCEPT ![s].authorized = TRUE, ![s].blocked = <<>>]
           flushed == IF conn[s] = "open" THEN [sent EXCEPT ![s] = @ \o queued] ELSE sent
           join    == Joined({Who(s, address)})
<1>1. /\ s \in Sockets /\ address \in Users \cup {NoUser}
      /\ queued \in Seq(Frame)
      /\ session \in [Sockets -> Session] /\ sent \in [Sockets -> Seq(Frame)]
  BY DEF TypeOK, Login, Session
<1>2. join \in Frame /\ join.type # "chat"
  BY <1>1, PresenceSilent
<1>3. Deliver(Burst(join, {}, ses), {}, ses, flushed) /\ conn' = conn /\ history' = history
  <2>1. \E F \in Throwing(sessions, ses) :
          Deliver(Burst(join, F, ses), F, ses, flushed)
    BY DEF ChainPasses
  <2> QED BY <2>1, NobodyThrows DEF ChainPasses
<1>4. ses \in [Sockets -> Session]
  BY <1>1, SessionUpdate
<1>5. QueuesFit(ses)
  <2>1. \A r \in Sockets \ {s} : ses[r] = session[r]
    BY <1>1
  <2>2. ses[s].blocked = <<>>
    BY <1>1 DEF Session
  <2> HIDE DEF ses, s
  <2> QED BY <2>1, <2>2 DEF QueuesFit
<1>6. flushed \in [Sockets -> Seq(Frame)]
  <2>1. sent[s] \o queued \in Seq(Frame)
    BY <1>1, ConcatProperties
  <2> QED BY <1>1, <2>1
<1>7. ASSUME NEW r \in Readers
      PROVE  ViewOf(flushed, ses, r) = ViewOf(sent, session, r)
  <2>1. r \in Sockets /\ conn[r] = "open"
    BY <1>7 DEF Readers, TypeOK
  <2>2. CASE r = s
    <3>1. flushed[r] = sent[r] \o queued /\ ses[r].blocked = <<>>
      BY <1>1, <2>1, <2>2 DEF Session
    <3>2. sent[r] \o queued \in Seq(Frame)
      BY <1>1, <2>1, ConcatProperties
    <3>3. (sent[r] \o queued) \o <<>> = sent[r] \o queued
      BY <3>2, ConcatEmptySeq
    <3>4. flushed[r] \o ses[r].blocked = sent[r] \o session[r].blocked
      <4> HIDE DEF flushed, ses
      <4> QED BY <2>2, <3>1, <3>3
    <3> QED BY <3>4 DEF ViewOf
  <2>3. CASE r # s
    BY <1>1, <2>1, <2>3 DEF ViewOf
  <2> QED BY <2>2, <2>3
<1> HIDE DEF join, ses, flushed
<1>8. \E all \in Seq(Frame) : Messages(all) = <<>> /\ Deliver(all, {}, ses, flushed)
  <2>1. Burst(join, {}, ses) = <<join>>
    BY <1>2, BurstAlone
  <2>2. <<join>> \in Seq(Frame) /\ Messages(<<join>>) = <<>>
    BY <1>2, SilentFrames
  <2> QED BY <1>3, <2>1, <2>2
<1>9. sessions \in SUBSET Sockets /\ {} \cap Readers = {}
  BY DEF TypeOK
<1> QED BY <1>3, <1>4, <1>5, <1>6, <1>7, <1>8, <1>9, DeliverStays

LEMMA LogoutViews ==
    ASSUME Platform = "bun", TypeOK, QueuesFit(session),
           NEW s \in Sockets, Logout(s)
    PROVE  Stays /\ QueuesFit(session')
<1> DEFINE old  == session[s].address
           ses  == [session EXCEPT ![s].address = NoUser]
           quit == Quit({Who(s, old)})
<1>1. old \in Users \cup {NoUser}
  BY DEF TypeOK, Session
<1>2. quit \in Frame /\ quit.type # "chat"
  BY <1>1, PresenceSilent
<1>3. Deliver(Burst(quit, {}, session), {}, ses, sent) /\ conn' = conn /\ history' = history
  <2>1. \E F \in Throwing(sessions, session) :
          Deliver(Burst(quit, F, session), F, ses, sent)
    BY DEF Logout
  <2> QED BY <2>1, NobodyThrows DEF Logout
<1>4. /\ ses \in [Sockets -> Session] /\ QueuesFit(ses)
      /\ \A r \in Sockets : ViewOf(sent, ses, r) = ViewOf(sent, session, r)
  BY UserChanges
<1> HIDE DEF quit, ses
<1>5. \E all \in Seq(Frame) : Messages(all) = <<>> /\ Deliver(all, {}, ses, sent)
  <2>1. Burst(quit, {}, session) = <<quit>>
    BY <1>2, BurstAlone
  <2>2. <<quit>> \in Seq(Frame) /\ Messages(<<quit>>) = <<>>
    BY <1>2, SilentFrames
  <2> QED BY <1>3, <2>1, <2>2
<1>6. /\ sessions \in SUBSET Sockets /\ sent \in [Sockets -> Seq(Frame)]
      /\ {} \cap Readers = {} /\ Readers \subseteq Sockets
  BY DEF TypeOK, Readers
<1> QED BY <1>3, <1>4, <1>5, <1>6, DeliverStays

\* A connection that closes is no reader any more.
LEMMA CloseViews ==
    ASSUME Platform = "bun", TypeOK, QueuesFit(session),
           NEW s \in Sockets, CloseEvent(s)
    PROVE  Stays /\ QueuesFit(session')
<1> DEFINE left == session[s].address
           quit == Quit({Who(s, left)})
<1>1. left \in Users \cup {NoUser}
  BY DEF TypeOK, Session
<1>2. quit \in Frame /\ quit.type # "chat"
  BY <1>1, PresenceSilent
<1>3. /\ conn[s] = "leaving" /\ conn' = [conn EXCEPT ![s] = "closed"]
      /\ history' = history
      /\ conn \in [Sockets -> {"new", "open", "leaving", "closed"}]
  BY DEF CloseEvent, TypeOK
<1>4. \A r \in Sockets : conn'[r] = "open" <=> conn[r] = "open"
  BY <1>3
<1>5. CASE Deliver(Burst(quit, {}, session), {s}, session, sent)
  <2> DEFINE F == {s}
  <2>1. F \cap Readers = {}
    BY <1>3 DEF Readers
  <2> HIDE DEF quit
  <2>2. Burst(quit, {}, session) = <<quit>>
    BY <1>2, BurstAlone
  <2>3. <<quit>> \in Seq(Frame) /\ Messages(<<quit>>) = <<>>
    BY <1>2, SilentFrames
  <2>4. Deliver(<<quit>>, F, session, sent)
    BY <1>5, <2>2
  <2>5. /\ sessions \in SUBSET Sockets /\ sent \in [Sockets -> Seq(Frame)]
        /\ session \in [Sockets -> Session]
    BY DEF TypeOK
  <2> DEFINE all == <<quit>>
  <2>6. all \in Seq(Frame) /\ Messages(all) = <<>> /\ Deliver(all, F, session, sent)
    BY <2>3, <2>4
  <2> HIDE DEF F, all
  <2> QED BY <1>3, <1>4, <2>1, <2>5, <2>6, DeliverStays
<1>6. CASE sessions' = sessions \ {s} /\ UNCHANGED <<session, sent>>
  <2>1. Readers' = Readers
    BY <1>3, <1>4, <1>6 DEF Readers, TypeOK
  <2> QED BY <1>3, <1>6, <2>1 DEF Stays, ViewOf
<1>7. \/ \E F \in Throwing(sessions \ {s}, session) :
           Deliver(Burst(quit, F, session), F \cup {s}, session, sent)
      \/ sessions' = sessions \ {s} /\ UNCHANGED <<session, sent>>
  BY DEF CloseEvent
<1>8. \/ Deliver(Burst(quit, {}, session), {} \cup {s}, session, sent)
      \/ sessions' = sessions \ {s} /\ UNCHANGED <<session, sent>>
  BY <1>7, NobodyThrows
<1>9. {} \cup {s} = {s}
  OBVIOUS
<1> QED BY <1>5, <1>6, <1>8, <1>9

LEMMA DisconnectViews ==
    ASSUME TypeOK, QueuesFit(session), NEW s \in Sockets, Disconnect(s)
    PROVE  /\ Stays \/ Leaving(s)
           /\ QueuesFit(session')
<1>1. /\ conn[s] = "open" /\ conn' = [conn EXCEPT ![s] = "leaving"]
      /\ UNCHANGED <<sessions, session, history, sent>>
  BY DEF Disconnect
<1>2. \A r \in Sockets : conn'[r] = "open" <=> r # s /\ conn[r] = "open"
  BY <1>1 DEF TypeOK
<1>3. Readers' = Readers \ {s} /\ (s \notin Readers => Readers' = Readers)
  BY <1>1, <1>2 DEF Readers, TypeOK
<1>4. \A r \in Readers : ViewOf(sent', session', r) = ViewOf(sent, session, r)
  BY <1>1 DEF ViewOf
<1>5. QueuesFit(session')
  BY <1>1 DEF QueuesFit
<1> QED BY <1>1, <1>3, <1>4, <1>5 DEF Stays, Leaving

LEMMA ChatViews ==
    ASSUME Platform = "bun", TypeOK, HistoryBelowLast, QueuesFit(session),
           NEW s \in Sockets, NEW now \in Clock, SendChat(s, now)
    PROVE  /\ Chat(Stamp(now), session[s].address) \in Message
           /\ Grows(Chat(Stamp(now), session[s].address))
           /\ QueuesFit(session')
<1> DEFINE m == Chat(Stamp(now), session[s].address)
<1>1. /\ m \in Message /\ history' = history \o <<m>>
      /\ \A i \in DOMAIN history : history[i].ts < m.ts
  BY ChatAppends
<1>2. Deliver(Burst(m, {}, session), {}, session, sent) /\ conn' = conn
  <2>1. \E F \in Throwing(sessions, session) :
          Deliver(Burst(m, F, session), F, session, sent)
    BY DEF SendChat
  <2> QED BY <2>1, NobodyThrows DEF SendChat
<1> HIDE DEF m
<1>3. <<m>> \in Seq(Message) /\ <<m>> \in Seq(Frame) /\ m \in Frame
  BY <1>1, FrameTypes
<1>4. Burst(m, {}, session) = <<m>> /\ Messages(<<m>>) = <<m>>
  <2> DEFINE one == <<m>>
  <2>1. one \in Seq(Message)
    BY <1>3
  <2>2. Messages(one) = one
    <3> HIDE DEF one
    <3> QED BY <2>1, MessagesAll
  <2> QED BY <1>3, <2>2, BurstAlone
<1>5. /\ sessions \in SUBSET Sockets /\ sent \in [Sockets -> Seq(Frame)]
      /\ session \in [Sockets -> Session]
  BY DEF TypeOK
<1> DEFINE all  == <<m>>
           none == {}
<1>6. all \in Seq(Frame) /\ Messages(all) = all /\ Deliver(all, none, session, sent)
  BY <1>2, <1>3, <1>4
<1>7. /\ sessions' = sessions \ none
      /\ QueuesFit(session')
      /\ \A r \in sessions \ none : conn[r] = "open" =>
           ViewOf(sent', session', r) = ViewOf(sent, session, r) \o Messages(all)
  <2> HIDE DEF all, none
  <2> QED BY <1>5, <1>6, DeliverViews
<1>8. Readers' = Readers
  BY <1>2, <1>7 DEF Readers
<1>9. \A r \in Readers : ViewOf(sent', session', r) = ViewOf(sent, session, r) \o <<m>>
  BY <1>6, <1>7 DEF Readers
<1> QED BY <1>1, <1>7, <1>8, <1>9 DEF Grows, m

LEMMA OpenViews ==
    ASSUME TypeOK, QueuesFit(session), NEW s \in Sockets, Open(s)
    PROVE  Comes(s) /\ QueuesFit(session')
<1> DEFINE online == {Who(r, session[r].address) :
                        r \in {q \in sessions : session[q].address # NoUser}}
           roster == IF online = {} THEN <<>> ELSE <<Joined(online)>>
           frames == roster \o Latest
           new    == [NewSession EXCEPT !.blocked = IF gated THEN frames ELSE <<>>]
           hello  == <<Challenge>>
<1>1. /\ conn[s] = "new" /\ conn' = [conn EXCEPT ![s] = "open"]
      /\ sessions' = sessions \cup {s}
      /\ session' = [session EXCEPT ![s] = new]
      /\ sent' = [sent EXCEPT ![s] = IF gated THEN hello ELSE frames \o hello]
      /\ history' = history
  BY DEF Open
<1>2. /\ history \in Seq(Message) /\ sessions \in SUBSET Sockets
      /\ session \in [Sockets -> Session] /\ sent \in [Sockets -> Seq(Frame)]
      /\ conn \in [Sockets -> {"new", "open", "leaving", "closed"}]
  BY DEF TypeOK
<1>3. hello \in Seq(Frame) /\ Messages(hello) = <<>>
  <2>1. Challenge \in Frame /\ Challenge.type # "chat"
    BY FrameTypes DEF Challenge
  <2> QED BY <2>1, NoMessage
<1>4. roster \in Seq(Frame) /\ Messages(roster) = <<>>
  <2>1. online \in SUBSET Presence
    <3>1. \A r \in sessions : r \in Sockets /\ session[r].address \in Users \cup {NoUser}
      BY <1>2 DEF Session
    <3> QED BY <3>1, WhoType
  <2> HIDE DEF online
  <2>2. Joined(online) \in Frame /\ Joined(online).type # "chat"
    BY <2>1, FrameTypes DEF Joined
  <2>3. <<Joined(online)>> \in Seq(Frame) /\ Messages(<<Joined(online)>>) = <<>>
    BY <2>2, NoMessage
  <2>4. <<>> \in Seq(Frame) /\ Messages(<<>>) = <<>>
    <3>1. <<>> \in Seq(Message)
      OBVIOUS
    <3> QED BY <3>1, MessagesAll, EmptySeq
  <2> QED BY <2>3, <2>4
<1> HIDE DEF roster, hello
<1>5. /\ Latest \in Seq(Message) /\ Latest \in Seq(Frame)
      /\ Messages(Latest) = Latest
  <2>1. Latest \in Seq(Message)
    BY <1>2, LatestType
  <2> QED BY <2>1, FrameTypes, SeqMonotonic, MessagesAll
<1>6. frames \in Seq(Frame) /\ Messages(frames) = Latest
  <2>1. Messages(frames) = <<>> \o Latest
    BY <1>4, <1>5, MessagesConcat
  <2>2. <<>> \o Latest = Latest
    BY <1>5, ConcatEmptySeq
  <2> QED BY <1>4, <1>5, <2>1, <2>2, ConcatProperties
<1> HIDE DEF frames
<1>7. /\ Messages(hello \o frames) = Latest
      /\ frames \o hello \in Seq(Frame) /\ Messages(frames \o hello) = Latest
  <2>1. /\ Messages(hello \o frames) = <<>> \o Latest
        /\ frames \o hello \in Seq(Frame) /\ Messages(frames \o hello) = Latest \o <<>>
    BY <1>3, <1>6, MessagesConcat, ConcatProperties
  <2>2. <<>> \o Latest = Latest /\ Latest \o <<>> = Latest
    BY <1>5, ConcatEmptySeq
  <2> QED BY <2>1, <2>2
<1>8. /\ new.authorized = FALSE
      /\ new.blocked = IF gated THEN frames ELSE <<>>
  BY DEF NewSession
<1> HIDE DEF new
<1>9. ViewOf(sent', session', s) = Latest
  <2>1. /\ session'[s].blocked = IF gated THEN frames ELSE <<>>
        /\ sent'[s] = IF gated THEN hello ELSE frames \o hello
    BY <1>1, <1>2, <1>8
  <2>2. (frames \o hello) \o <<>> = frames \o hello
    BY <1>7, ConcatEmptySeq
  <2> QED BY <1>7, <2>1, <2>2 DEF ViewOf
<1>10. s \notin Readers /\ Readers' = Readers \cup {s}
  BY <1>1, <1>2 DEF Readers
<1>11. \A r \in Readers : ViewOf(sent', session', r) = ViewOf(sent, session, r)
  <2>1. \A r \in Readers : r # s /\ r \in Sockets
    BY <1>10, <1>2 DEF Readers
  <2>2. \A r \in Readers : sent'[r] = sent[r] /\ session'[r] = session[r]
    BY <1>1, <1>2, <2>1
  <2> QED BY <2>2 DEF ViewOf
<1>12. QueuesFit(session')
  <2>1. \A r \in Sockets : session'[r] = IF r = s THEN new ELSE session[r]
    BY <1>1, <1>2
  <2> QED BY <1>8, <2>1 DEF QueuesFit
<1> QED BY <1>1, <1>9, <1>10, <1>11, <1>12 DEF Comes

-----------------------------------------------------------------------------
(* The views and the log. *)

LEMMA GatedStays ==
    ASSUME [Next]_vars
    PROVE  gated' = gated
<1>1. ASSUME NEW s \in Sockets,
             \/ Open(s) \/ Disconnect(s) \/ CloseEvent(s) \/ Logout(s)
             \/ \E u \in Users : RequestLogin(s, u)
             \/ \E now \in Clock : SendChat(s, now)
      PROVE  gated' = gated
  BY <1>1 DEF Open, Disconnect, CloseEvent, Logout, RequestLogin, SendChat
<1>2. ASSUME NEW t \in logins,
             \/ LoginFails(t) \/ LoginRepeats(t) \/ LoginOpenRoom(t)
             \/ LoginGatedRoom(t) \/ ChainRefuses(t) \/ ChainPasses(t)
      PROVE  gated' = gated
  BY <1>2 DEF LoginFails, LoginRepeats, LoginOpenRoom, LoginGatedRoom, ChainRefuses,
              ChainPasses
<1>3. CASE Hibernate \/ UNCHANGED vars
  BY <1>3 DEF Hibernate, vars
<1> QED BY <1>1, <1>2, <1>3 DEF Next

\* Each step does one of four things to the readers.
LEMMA ViewsStep ==
    ASSUME Platform = "bun", TypeOK, HistoryBelowLast, QueuesFit(session), [Next]_vars
    PROVE  /\ QueuesFit(session)'
           /\ \/ Stays
              \/ \E s \in Sockets : Comes(s) \/ Leaving(s)
              \/ \E m \in Message : Grows(m)
<1> DEFINE Goal == /\ QueuesFit(session')
                   /\ \/ Stays
                      \/ \E s \in Sockets : Comes(s) \/ Leaving(s)
                      \/ \E m \in Message : Grows(m)
<1>1. ASSUME NEW s \in Sockets, Open(s) \/ Disconnect(s) \/ CloseEvent(s) \/ Logout(s)
      PROVE  Goal
  BY <1>1, OpenViews, DisconnectViews, CloseViews, LogoutViews
<1>2. ASSUME NEW s \in Sockets, NEW now \in Clock, SendChat(s, now)
      PROVE  Goal
  BY <1>2, ChatViews
<1>3. ASSUME NEW t \in logins, LoginOpenRoom(t) \/ LoginGatedRoom(t) \/ ChainPasses(t)
      PROVE  Goal
  BY <1>3, LoginOpenRoomViews, LoginGatedRoomViews, ChainPassesViews
<1>4. ASSUME \/ \E s \in Sockets, u \in Users : RequestLogin(s, u)
             \/ \E t \in logins : LoginFails(t) \/ LoginRepeats(t) \/ ChainRefuses(t)
             \/ UNCHANGED vars
      PROVE  Goal
  <2>1. UNCHANGED <<conn, sessions, session, history, sent>>
    BY <1>4 DEF RequestLogin, LoginFails, LoginRepeats, ChainRefuses, vars
  <2> QED BY <2>1, QuietViews
<1>5. ~Hibernate
  BY DEF Hibernate
<1>6. Goal
  <2> HIDE DEF Goal
  <2> QED BY <1>1, <1>2, <1>3, <1>4, <1>5 DEF Next
<1>7. QueuesFit(session') => QueuesFit(session)'
  BY GatedStays DEF QueuesFit
<1> QED BY <1>6, <1>7

\* Every reader is shown an end of the history.
ViewsFit == \A r \in Readers : IsEnd(ViewOf(sent, session, r), history)

HistoryInvariant == TypeOK /\ HistoryBelowLast /\ QueuesFit(session) /\ ViewsFit

LEMMA ViewsFitStep ==
    ASSUME Platform = "bun", HistoryInvariant, [Next]_vars
    PROVE  ViewsFit'
<1>1. TypeOK /\ HistoryBelowLast /\ QueuesFit(session) /\ ViewsFit
  BY DEF HistoryInvariant
<1>2. /\ history \in Seq(Message) /\ Readers \subseteq Sockets
      /\ \A r \in Sockets : ViewOf(sent, session, r) \in Seq(Message)
  BY <1>1, ViewType DEF TypeOK, Readers
<1>3. SUFFICES ASSUME NEW r \in Readers'
               PROVE  IsEnd(ViewOf(sent', session', r), history')
  BY DEF ViewsFit, ViewOf, IsEnd
<1>4. CASE Stays \/ \E s \in Sockets : Leaving(s)
  <2>1. /\ history' = history /\ r \in Readers
        /\ ViewOf(sent', session', r) = ViewOf(sent, session, r)
    BY <1>3, <1>4 DEF Stays, Leaving
  <2> QED BY <1>1, <2>1 DEF ViewsFit
<1>5. ASSUME NEW s \in Sockets, Comes(s)
      PROVE  IsEnd(ViewOf(sent', session', r), history')
  <2>1. CASE r = s
    BY <1>2, <1>5, <2>1, LatestIsEnd DEF Comes
  <2>2. CASE r # s
    <3>1. /\ history' = history /\ r \in Readers
          /\ ViewOf(sent', session', r) = ViewOf(sent, session, r)
      BY <1>3, <1>5, <2>2 DEF Comes
    <3> QED BY <1>1, <3>1 DEF ViewsFit
  <2> QED BY <2>1, <2>2
<1>6. ASSUME NEW m \in Message, Grows(m)
      PROVE  IsEnd(ViewOf(sent', session', r), history')
  <2>1. /\ history' = history \o <<m>> /\ r \in Readers
        /\ ViewOf(sent', session', r) = ViewOf(sent, session, r) \o <<m>>
    BY <1>3, <1>6 DEF Grows
  <2>2. IsEnd(ViewOf(sent, session, r), history) /\ ViewOf(sent, session, r) \in Seq(Message)
    BY <1>1, <1>2, <2>1 DEF ViewsFit
  <2> QED BY <1>2, <2>1, <2>2, EndGrows
<1> QED BY <1>1, <1>4, <1>5, <1>6, ViewsStep

LEMMA HistoryInvariantHolds ==
    ASSUME Platform = "bun"
    PROVE  Spec => []HistoryInvariant
<1>1. Init => HistoryInvariant
  <2> SUFFICES ASSUME Init PROVE HistoryInvariant
    OBVIOUS
  <2>1. TypeOK
    BY BoundsAssumption DEF Init, TypeOK, Session, NewSession, Attachment
  <2> QED BY <2>1 DEF Init, HistoryInvariant, HistoryBelowLast, QueuesFit, ViewsFit,
                      Readers, NewSession
<1>2. HistoryInvariant /\ [Next]_vars => HistoryInvariant'
  BY TypeStep, HistoryStep, ViewsStep, ViewsFitStep DEF HistoryInvariant
<1> QED BY <1>1, <1>2, PTL DEF Spec

\* On Bun what a connected client has been sent, or has queued for it until it
\* is authorized, is the end of the history, without a gap, a repetition or a
\* change of order, and no less than the backlog it was given.
THEOREM ViewsCorrect ==
    ASSUME Platform = "bun"
    PROVE  Spec => []ViewIsHistorySuffix
<1>1. HistoryInvariant => ViewIsHistorySuffix
  BY DEF HistoryInvariant, ViewsFit, Readers, ViewOf, IsEnd, ViewIsHistorySuffix
<1> QED BY <1>1, HistoryInvariantHolds, PTL

\* Bun's room is the room.
LEMMA BunRoomIsRoom ==
    ASSUME [BunNext]_bunVars
    PROVE  [Next]_vars
BY DEF BunNext, bunVars, BunOpen, BunClose, BunChat, Next

\* The room on Bun implements the log: whatever the users, the clock, the gate
\* and the backlog, its steps give a reader the end of one log, every later message
\* of it, or change nothing that a reader sees.
THEOREM LogShown ==
    ASSUME Platform = "bun"
    PROVE  BunSpec => ShowsOneLog
<1> DEFINE view == [r \in Sockets |->
                      IF r \in Readers THEN Messages(sent[r] \o session[r].blocked)
                      ELSE <<>>]
<1>1. BunInit => Log!Init
  BY DEF BunInit, Init, Log!Init, Readers
<1>2. ASSUME HistoryInvariant, [BunNext]_bunVars
      PROVE  [Log!Next]_<<history, Readers, view>>
  <2>1. /\ TypeOK /\ HistoryBelowLast /\ QueuesFit(session)
        /\ [Next]_vars
    BY <1>2, BunRoomIsRoom DEF HistoryInvariant
  <2>2. /\ history \in Seq(Message) /\ Readers \subseteq Sockets
        /\ \A r \in Sockets : ViewOf(sent, session, r) \in Seq(Message)
    BY <2>1, ViewType DEF TypeOK, Readers
  <2>3. /\ view = [r \in Sockets |->
                     IF r \in Readers THEN ViewOf(sent, session, r) ELSE <<>>]
        /\ view' = [r \in Sockets |->
                     IF r \in Readers' THEN ViewOf(sent', session', r) ELSE <<>>]
    BY DEF ViewOf
  <2> HIDE DEF view
  <2>4. CASE Stays
    BY <2>2, <2>3, <2>4 DEF Stays
  <2>5. ASSUME NEW s \in Sockets, Comes(s)
        PROVE  Log!Come(s)
    <3>1. Latest = Log!End(Backlog)
      <4>1. Len(history) \in Nat /\ Backlog \in Nat
        BY <2>2, BoundsAssumption, LenProperties
      <4>2. Maximum(1, Len(history) - Backlog + 1) =
              IF Backlog < Len(history) THEN Len(history) - Backlog + 1 ELSE 1
        BY <4>1 DEF Maximum
      <4> QED BY <4>2 DEF Latest, Log!End
    <3>2. view' = [view EXCEPT ![s] = Latest]
      BY <2>2, <2>3, <2>5 DEF Comes
    <3> QED BY <2>5, <3>1, <3>2 DEF Comes, Log!Come, view
  <2>6. ASSUME NEW s \in Sockets, Leaving(s)
        PROVE  Log!Leave(s)
    <3>1. view' = [view EXCEPT ![s] = <<>>]
      BY <2>2, <2>3, <2>6 DEF Leaving
    <3> QED BY <2>6, <3>1 DEF Leaving, Log!Leave, view
  <2>7. ASSUME NEW m \in Message, Grows(m)
        PROVE  Log!Grow
    <3>1. /\ Len(history) \in Nat /\ DOMAIN history = 1..Len(history)
          /\ history' \in Seq(Message)
          /\ Len(history') = Len(history) + 1
          /\ history'[Len(history')] = m
          /\ \A i \in 1..Len(history) : history'[i] = history[i]
      BY <2>2, <2>7, OneMore, LenProperties DEF Grows
    <3>2. SubSeq(history', 1, Len(history)) = history
      <4> DEFINE p == SubSeq(history', 1, Len(history))
      <4>1. /\ p \in Seq(Message) /\ Len(p) = Len(history)
            /\ \A i \in 1..Len(history) : p[i] = history'[i]
        BY <3>1, PrefixOf
      <4> HIDE DEF p
      <4>2. p = history
        BY <2>2, <3>1, <4>1, SeqEqual
      <4> QED BY <4>2 DEF p
    <3>3. \A r \in Readers : Append(ViewOf(sent, session, r), m)
                               = ViewOf(sent, session, r) \o <<m>>
      BY <2>2, <2>7, AppendIsConcat
    <3>4. view' = [r \in Sockets |->
                     IF r \in Readers THEN Append(view[r], history'[Len(history')])
                     ELSE view[r]]
      BY <2>2, <2>3, <2>7, <3>1, <3>3 DEF Grows
    <3>5. \A i \in DOMAIN history : history[i].ts < history'[Len(history')].ts
      BY <2>7, <3>1 DEF Grows
    <3> QED BY <2>7, <3>1, <3>2, <3>4, <3>5 DEF Grows, Log!Grow, view
  <2> QED BY <2>1, <2>4, <2>5, <2>6, <2>7, ViewsStep DEF Log!Next
<1>3. BunInit => Init
  BY DEF BunInit
<1>4. [BunNext]_bunVars => [Next]_vars
  BY BunRoomIsRoom
<1> QED BY <1>1, <1>2, <1>3, <1>4, HistoryInvariantHolds, PTL
        DEF BunSpec, Spec, ShowsOneLog, Log!Spec

-----------------------------------------------------------------------------
(* The websockets of the adapter. *)

\* No element of s occurs twice.
Distinct(s) == \A i, j \in DOMAIN s : s[i] = s[j] => i = j

Elements(s) == {s[i] : i \in DOMAIN s}

LEMMA DistinctElements ==
    ASSUME NEW S, NEW s \in Seq(S), Distinct(s)
    PROVE  Len(s) = Cardinality(Elements(s))
<1> DEFINE n == Len(s)
           D == 1..n
           E == Elements(s)
<1>1. n \in Nat /\ DOMAIN s = D /\ s \in [D -> E]
  <2>1. n \in Nat /\ DOMAIN s = D /\ s \in [D -> S]
    BY LenProperties
  <2> QED BY <2>1 DEF Elements
<1>2. /\ \A i, j \in D : s[i] = s[j] => i = j
      /\ \A e \in E : \E i \in D : s[i] = e
  BY <1>1 DEF Distinct, Elements
<1>3. IsFiniteSet(D) /\ Cardinality(D) = n
  BY <1>1, FS_Interval
<1> HIDE DEF n, D, E
<1>4. s \in Bijection(D, E)
  BY <1>1, <1>2, Fun_IsInj, Fun_IsSurj DEF Bijection
<1>5. ExistsBijection(D, E)
  BY <1>4 DEF ExistsBijection
<1>6. Cardinality(E) = n
  BY <1>3, <1>5, FS_Bijection
<1> QED BY <1>6 DEF n, E

LEMMA DistinctAppend ==
    ASSUME NEW S, NEW s \in Seq(S), Distinct(s), NEW e \in S, e \notin Elements(s)
    PROVE  /\ Append(s, e) \in Seq(S) /\ Distinct(Append(s, e))
           /\ Elements(Append(s, e)) = Elements(s) \cup {e}
<1> DEFINE a == Append(s, e)
           n == Len(s)
<1>1. /\ n \in Nat /\ DOMAIN s = 1..n
      /\ a \in Seq(S) /\ DOMAIN a = 1..(n + 1)
      /\ \A i \in 1..n : a[i] = s[i]
      /\ a[n + 1] = e
  BY AppendProperties, LenProperties
<1>2. \A i \in 1..(n + 1) : i \in 1..n \/ i = n + 1
  BY <1>1
<1>3. \A i \in 1..n : i \in 1..(n + 1) /\ i # n + 1
  BY <1>1
<1>4. n + 1 \in 1..(n + 1)
  BY <1>1
<1> HIDE DEF a, n
<1>5. Distinct(a)
  BY <1>1, <1>2 DEF Distinct, Elements
<1>6. Elements(a) = Elements(s) \cup {e}
  BY <1>1, <1>2, <1>3, <1>4 DEF Elements
<1> QED BY <1>1, <1>5, <1>6 DEF a

\* A splice at the place of an element that occurs once takes it out.
LEMMA DistinctRemove ==
    ASSUME NEW S, NEW s \in Seq(S), Distinct(s), NEW e
    PROVE  /\ RemoveFirst(s, e) \in Seq(S) /\ Distinct(RemoveFirst(s, e))
           /\ Elements(RemoveFirst(s, e)) = Elements(s) \ {e}
<1> DEFINE n == Len(s)
<1>1. n \in Nat /\ DOMAIN s = 1..n /\ \A i \in 1..n : s[i] \in S
  BY LenProperties, ElementOfSeq
<1>2. CASE \A i \in 1..n : s[i] # e
  <2>1. RemoveFirst(s, e) = s
    BY <1>2 DEF RemoveFirst
  <2>2. e \notin Elements(s)
    BY <1>1, <1>2 DEF Elements
  <2> QED BY <2>1, <2>2
<1>3. ASSUME NEW k \in 1..n, s[k] = e
      PROVE  /\ RemoveFirst(s, e) \in Seq(S) /\ Distinct(RemoveFirst(s, e))
             /\ Elements(RemoveFirst(s, e)) = Elements(s) \ {e}
  <2> DEFINE a == SubSeq(s, 1, k - 1)
             b == SubSeq(s, k + 1, n)
             r == a \o b
  <2>1. RemoveFirst(s, e) = r
    <3>1. {i \in 1..n : s[i] = e} = {k}
      BY <1>1, <1>3 DEF Distinct
    <3>2. SelectInSeq(s, LAMBDA v : v = e) = Min({i \in 1..n : s[i] = e})
      BY <1>3 DEF SelectInSeq
    <3>3. Min({k}) = k
      BY <1>1 DEF Min
    <3>4. SelectInSeq(s, LAMBDA v : v = e) = k
      BY <3>1, <3>2, <3>3
    <3> QED BY <1>3, <3>4 DEF RemoveFirst, RemoveAt
  <2>2. /\ a \in Seq(S) /\ Len(a) = k - 1
        /\ \A i \in 1..(k - 1) : a[i] = s[i]
    <3>1. k - 1 \in 0..n
      BY <1>1
    <3> DEFINE l == k - 1
    <3> HIDE DEF l
    <3>2. SubSeq(s, 1, l) \in Seq(S) /\ Len(SubSeq(s, 1, l)) = l
          /\ \A i \in 1..l : SubSeq(s, 1, l)[i] = s[i]
      BY <3>1, PrefixOf DEF l
    <3> QED BY <3>2 DEF l
  <2>3. /\ b \in Seq(S) /\ Len(b) = n - k
        /\ \A i \in 1..(n - k) : b[i] = s[k + i]
    <3> DEFINE m == k + 1
    <3>1. /\ m \in Nat /\ 1 <= m /\ m <= n + 1
          /\ n - m + 1 = n - k
          /\ \A i \in 1..(n - k) : m + i - 1 = k + i
      BY <1>1
    <3> HIDE DEF m, n
    <3>2. /\ SubSeq(s, m, n) \in Seq(S)
          /\ Len(SubSeq(s, m, n)) = n - m + 1
          /\ \A i \in 1..(n - m + 1) : SubSeq(s, m, n)[i] = s[m + i - 1]
      BY <1>1, <3>1, Part DEF n
    <3> QED BY <3>1, <3>2 DEF m
  <2> HIDE DEF a, b
  <2>4. /\ r \in Seq(S) /\ DOMAIN r = 1..(n - 1)
        /\ \A i \in 1..(k - 1) : r[i] = s[i]
        /\ \A i \in 1..(n - k) : r[(k - 1) + i] = s[k + i]
    <3>1. a \in Seq(S) /\ b \in Seq(S)
      BY <2>2, <2>3
    <3>2. /\ r \in Seq(S)
          /\ DOMAIN r = 1..(Len(a) + Len(b))
          /\ \A i \in 1..Len(a) : r[i] = a[i]
          /\ \A i \in 1..Len(b) : r[Len(a) + i] = b[i]
      BY <3>1, Concat
    <3>3. Len(a) + Len(b) = n - 1
      BY <1>1, <2>2, <2>3
    <3> HIDE DEF r
    <3> QED BY <2>2, <2>3, <3>2, <3>3
  <2> HIDE DEF r
  <2>5. ASSUME NEW i \in 1..(n - 1)
        PROVE  \/ i < k /\ i \in 1..n /\ r[i] = s[i]
               \/ i >= k /\ i + 1 \in 1..n /\ r[i] = s[i + 1]
    <3>1. CASE i < k
      <4>1. i \in 1..(k - 1) /\ i \in 1..n
        BY <1>1, <3>1
      <4> QED BY <2>4, <3>1, <4>1
    <3>2. CASE i >= k
      <4> DEFINE j == i + 1 - k
      <4>1. j \in 1..(n - k) /\ (k - 1) + j = i /\ k + j = i + 1 /\ i + 1 \in 1..n
        BY <1>1, <3>2
      <4> HIDE DEF j
      <4>2. r[(k - 1) + j] = s[k + j]
        BY <2>4, <4>1
      <4> QED BY <3>2, <4>1, <4>2
    <3> QED BY <1>1, <3>1, <3>2
  <2>6. Distinct(r)
    <3> SUFFICES ASSUME NEW i \in 1..(n - 1), NEW j \in 1..(n - 1), r[i] = r[j]
                 PROVE  i = j
      BY <2>4 DEF Distinct
    <3>1. \A x, y \in 1..n : s[x] = s[y] => x = y
      BY <1>1 DEF Distinct
    <3> QED BY <1>1, <2>5, <3>1
  <2>7. ASSUME NEW i \in 1..n, i # k
        PROVE  \E j \in 1..(n - 1) : r[j] = s[i]
    <3>1. CASE i < k
      <4>1. i \in 1..(k - 1) /\ i \in 1..(n - 1)
        BY <1>1, <3>1
      <4> QED BY <2>4, <4>1
    <3>2. CASE i > k
      <4> DEFINE j == i - k
      <4>1. j \in 1..(n - k) /\ k + j = i /\ (k - 1) + j \in 1..(n - 1)
        BY <1>1, <3>2
      <4> HIDE DEF j
      <4>2. r[(k - 1) + j] = s[k + j]
        BY <2>4, <4>1
      <4> QED BY <4>1, <4>2
    <3> QED BY <1>1, <2>7, <3>1, <3>2
  <2>8. \A i \in 1..n : s[i] = e <=> i = k
    BY <1>1, <1>3 DEF Distinct
  <2>9. \A i \in 1..(n - 1) : \E j \in 1..n : j # k /\ r[i] = s[j]
    <3>1. \A i \in 1..(n - 1) : (i < k => i # k) /\ (i >= k => i + 1 # k)
      BY <1>1
    <3> QED BY <2>5, <3>1
  <2>10. Elements(r) = Elements(s) \ {e}
    <3>1. Elements(r) = {r[i] : i \in 1..(n - 1)} /\ Elements(s) = {s[i] : i \in 1..n}
      BY <1>1, <2>4 DEF Elements
    <3> HIDE DEF n
    <3> QED BY <2>7, <2>8, <2>9, <3>1, SMTT(30)
  <2> QED BY <2>1, <2>4, <2>6, <2>10
<1> QED BY <1>2, <1>3

\* On Bun only the two events of the transport change who has a session.
LEMMA SessionsStay ==
    ASSUME Platform = "bun",
           \/ \E s \in Sockets, now \in Clock : SendChat(s, now)
           \/ \E s \in Sockets :
                \/ Disconnect(s) \/ Logout(s)
                \/ \E u \in Users : RequestLogin(s, u)
           \/ \E t \in logins :
                \/ LoginFails(t) \/ LoginRepeats(t) \/ LoginOpenRoom(t)
                \/ LoginGatedRoom(t) \/ ChainRefuses(t) \/ ChainPasses(t)
    PROVE  /\ sessions' = sessions
           /\ \/ conn' = conn
              \/ \E s \in Sockets : conn' = [conn EXCEPT ![s] = "leaving"]
<1>1. ASSUME NEW frames, NEW S, NEW ses, NEW end, NEW out, NEW F \in Throwing(S, ses),
             Deliver(frames, F, end, out)
      PROVE  sessions' = sessions
  <2>1. F = {}
    BY <1>1, NobodyThrows
  <2> QED BY <1>1, <2>1 DEF Deliver
<1>2. ASSUME NEW frames, NEW ses, NEW out, Deliver(frames, {}, ses, out)
      PROVE  sessions' = sessions
  BY <1>2 DEF Deliver
<1>3. ASSUME NEW s \in Sockets, NEW now \in Clock, SendChat(s, now)
      PROVE  sessions' = sessions /\ conn' = conn
  BY <1>1, <1>3 DEF SendChat
<1>4. ASSUME NEW s \in Sockets, Logout(s)
      PROVE  sessions' = sessions /\ conn' = conn
  BY <1>1, <1>4 DEF Logout
<1>5. ASSUME NEW t \in logins, LoginOpenRoom(t)
      PROVE  sessions' = sessions /\ conn' = conn
  BY <1>1, <1>5 DEF LoginOpenRoom
<1>6. ASSUME NEW t \in logins, LoginGatedRoom(t)
      PROVE  sessions' = sessions /\ conn' = conn
  BY <1>1, <1>2, <1>6 DEF LoginGatedRoom
<1>7. ASSUME NEW t \in logins, ChainPasses(t)
      PROVE  sessions' = sessions /\ conn' = conn
  <2> DEFINE s       == t.socket
             ses     == [session EXCEPT ![s].authorized = TRUE, ![s].blocked = <<>>]
             flushed == IF conn[s] = "open"
                          THEN [sent EXCEPT ![s] = @ \o session[s].blocked] ELSE sent
             burst(F) == Burst(Joined({Who(s, session[s].address)}), F, ses)
  <2>1. conn' = conn
    BY <1>7 DEF ChainPasses
  <2>2. \E F \in Throwing(sessions, ses) : Deliver(burst(F), F, ses, flushed)
    BY <1>7 DEF ChainPasses
  <2> HIDE DEF ses, flushed, burst
  <2> QED
    BY <1>1, <2>1, <2>2
<1>8. ASSUME NEW s \in Sockets, Disconnect(s) \/ \E u \in Users : RequestLogin(s, u)
      PROVE  /\ sessions' = sessions
             /\ conn' = conn \/ conn' = [conn EXCEPT ![s] = "leaving"]
  BY <1>8 DEF Disconnect, RequestLogin
<1>9. ASSUME NEW t \in logins, LoginFails(t) \/ LoginRepeats(t) \/ ChainRefuses(t)
      PROVE  sessions' = sessions /\ conn' = conn
  BY <1>9 DEF LoginFails, LoginRepeats, ChainRefuses
<1> QED BY <1>3, <1>4, <1>5, <1>6, <1>7, <1>8, <1>9

\* The list of websockets and the map of sessions, with what makes each websocket
\* new to both when it is opened.
SocketsFit ==
    /\ websockets \in Seq(Sockets) /\ Distinct(websockets)
    /\ Elements(websockets) = sessions
    /\ \A s \in Sockets : conn[s] = "new" => s \notin sessions

LEMMA SocketsFitStep ==
    ASSUME Platform = "bun", TypeOK, SocketsFit, [BunNext]_bunVars
    PROVE  SocketsFit'
<1> DEFINE w == websockets
<1>1. /\ conn \in [Sockets -> {"new", "open", "leaving", "closed"}]
      /\ w \in Seq(Sockets) /\ Distinct(w) /\ Elements(w) = sessions
      /\ \A s \in Sockets : conn[s] = "new" => s \notin sessions
  BY DEF TypeOK, SocketsFit
<1>2. ASSUME NEW s \in Sockets, BunOpen(s) PROVE SocketsFit'
  <2>1. /\ w' = Append(w, s) /\ sessions' = sessions \cup {s}
        /\ conn[s] = "new" /\ conn' = [conn EXCEPT ![s] = "open"]
    BY <1>2 DEF BunOpen, Open
  <2>2. /\ Append(w, s) \in Seq(Sockets) /\ Distinct(Append(w, s))
        /\ Elements(Append(w, s)) = Elements(w) \cup {s}
    BY <1>1, <2>1, DistinctAppend
  <2>3. w' \in Seq(Sockets) /\ Distinct(w') /\ Elements(w') = sessions'
    BY <1>1, <2>1, <2>2
  <2>4. \A r \in Sockets : conn'[r] = "new" => r \notin sessions'
    BY <1>1, <2>1
  <2> QED BY <2>3, <2>4 DEF SocketsFit, Distinct, Elements
<1>3. ASSUME NEW s \in Sockets, BunClose(s) PROVE SocketsFit'
  <2>1. /\ w' = RemoveFirst(w, s)
        /\ conn' = [conn EXCEPT ![s] = "closed"]
    BY <1>3 DEF BunClose, CloseEvent
  <2>2. sessions' = sessions \ {s}
    <3>1. \/ sessions' = sessions \ {s}
          \/ \E F \in Throwing(sessions \ {s}, session) : sessions' = sessions \ (F \cup {s})
      BY <1>3 DEF BunClose, CloseEvent, Deliver
    <3> QED BY <3>1, NobodyThrows
  <2>3. w' \in Seq(Sockets) /\ Distinct(w') /\ Elements(w') = Elements(w) \ {s}
    <3> DEFINE r == RemoveFirst(w, s)
    <3>1. r \in Seq(Sockets) /\ Distinct(r) /\ Elements(r) = Elements(w) \ {s}
      BY <1>1, DistinctRemove
    <3>2. w' = r
      BY <2>1
    <3> HIDE DEF r
    <3> QED BY <3>1, <3>2
  <2>4. \A r \in Sockets : conn'[r] = "new" => r \notin sessions'
    BY <1>1, <2>1, <2>2
  <2> QED BY <1>1, <2>2, <2>3, <2>4 DEF SocketsFit, Distinct, Elements
<1>4. ASSUME w' = w, sessions' = sessions,
             \A r \in Sockets : conn'[r] = "new" => conn[r] = "new"
      PROVE  SocketsFit'
  BY <1>1, <1>4 DEF SocketsFit, Distinct, Elements
<1>5. ASSUME \/ \E s \in Sockets, now \in Clock : BunChat(s, now)
             \/ /\ \/ \E s \in Sockets :
                        \/ Disconnect(s) \/ Logout(s)
                        \/ \E u \in Users : RequestLogin(s, u)
                   \/ \E t \in logins :
                        \/ LoginFails(t) \/ LoginRepeats(t) \/ LoginOpenRoom(t)
                        \/ LoginGatedRoom(t) \/ ChainRefuses(t) \/ ChainPasses(t)
                /\ UNCHANGED <<storage, websockets>>
      PROVE  SocketsFit'
  <2>1. w' = w
    BY <1>5 DEF BunChat
  <2>2. /\ sessions' = sessions
        /\ \/ conn' = conn
           \/ \E s \in Sockets : conn' = [conn EXCEPT ![s] = "leaving"]
    BY <1>5, SessionsStay DEF BunChat
  <2>3. \A r \in Sockets : conn'[r] = "new" => conn[r] = "new"
    BY <1>1, <2>2
  <2> QED BY <1>4, <2>1, <2>2, <2>3
<1>6. CASE UNCHANGED bunVars
  BY <1>4, <1>6 DEF bunVars, vars
<1> QED BY <1>2, <1>3, <1>5, <1>6 DEF BunNext

\* On Bun the websockets that the adapter lists are those that have a session in
\* the room, once each.
THEOREM SocketsAgree ==
    ASSUME Platform = "bun"
    PROVE  BunSpec => []SameSockets
<1>1. BunInit => SocketsFit
  BY DEF BunInit, Init, SocketsFit, Distinct, Elements
<1>2. TypeOK /\ SocketsFit /\ [BunNext]_bunVars => SocketsFit'
  BY SocketsFitStep
<1>3. SocketsFit => SameSockets
  BY DistinctElements DEF SocketsFit, SameSockets, Elements
<1>4. BunInit => Init
  BY DEF BunInit
<1>5. [BunNext]_bunVars => [Next]_vars
  BY BunRoomIsRoom
<1> QED BY <1>1, <1>2, <1>3, <1>4, <1>5, TypeCorrect, PTL DEF BunSpec, Spec

-----------------------------------------------------------------------------
(* The storage. *)

LEMMA Least ==
    ASSUME NEW C, C \subseteq Nat, IsFiniteSet(C), C # {}
    PROVE  \E m \in C : \A j \in C : m <= j
<1> DEFINE m == Nth(C, 1)
<1>1. Cardinality(C) \in Nat /\ Cardinality(C) # 0
  BY FS_CardinalityType, FS_EmptySet
<1>2. m \in C /\ Rank(C, m) = 1
  <2>1. 1 \in 1..Cardinality(C)
    BY <1>1
  <2>2. Nth(C, 1) \in C /\ Rank(C, Nth(C, 1)) = 1
    BY <2>1, Ranks
  <2> QED BY <2>2
<1> HIDE DEF m
<1>3. ASSUME NEW j \in C, j < m PROVE FALSE
  <2> DEFINE T == {i \in C : i <= j}
             U == {i \in C : i <= m}
  <2>1. T \subseteq U
    <3>1. \A i \in C : i <= j => i <= m
      BY <1>2, <1>3
    <3> QED BY <3>1
  <2>2. U \subseteq C /\ m \in U /\ m \notin T
    BY <1>2, <1>3
  <2>3. IsFiniteSet(U) /\ Cardinality(U) = 1
    BY <1>2, <2>2, FS_Subset DEF Rank
  <2>4. Rank(C, j) \in 1..Cardinality(C)
    BY Ranks
  <2>5. Cardinality(T) \in Nat /\ Cardinality(T) >= 1
    BY <1>1, <2>4 DEF Rank
  <2> HIDE DEF T, U
  <2>6. Cardinality(T) <= 1 /\ (Cardinality(T) = 1 => T = U)
    BY <2>1, <2>3, FS_Subset
  <2> QED BY <2>2, <2>5, <2>6
<1>4. \A j \in C : m <= j
  BY <1>2, <1>3
<1> QED BY <1>2, <1>4

LEMMA UpTo ==
    ASSUME NEW n \in Nat
    PROVE  IsFiniteSet(1..n) /\ Cardinality(1..n) = n
<1>1. 1 \in Int /\ n \in Int
  OBVIOUS
<1>2. Cardinality(1..n) = IF 1 > n THEN 0 ELSE n - 1 + 1
  BY <1>1, FS_Interval
<1> QED BY <1>1, <1>2, FS_Interval

LEMMA NthOfAll ==
    ASSUME NEW n \in Nat, NEW i \in 1..n
    PROVE  Nth(1..n, i) = i
<1> DEFINE S == 1..n
<1>1. S \subseteq Nat /\ IsFiniteSet(S) /\ i \in S
  BY FS_Interval
<1>2. {j \in S : j <= i} = 1..i /\ i \in Nat
  OBVIOUS
<1>3. Rank(S, i) = i
  <2>1. Cardinality(1..i) = i
    BY <1>2, UpTo
  <2> QED BY <1>2, <2>1 DEF Rank
<1> HIDE DEF S
<1>4. Nth(S, Rank(S, i)) = i
  BY <1>1, Ranks
<1> QED BY <1>3, <1>4 DEF S

\* What current is in turn i, after at.
Turn(d, reverse, at, i) ==
    IF i = 1 THEN IF reverse THEN d.last ELSE d.first
    ELSE IF at[i - 1] = 0 THEN 0
    ELSE IF reverse THEN d.entries[at[i - 1]].prev ELSE d.entries[at[i - 1]].next

\* The iterator is the one function that takes its turns.
LEMMA CurrentIs ==
    ASSUME NEW d, NEW reverse, NEW n \in Nat, NEW w,
           w = [i \in 1..n |-> Turn(d, reverse, w, i)]
    PROVE  Current(d, reverse, n) = w
<1> DEFINE f == Current(d, reverse, n)
<1>1. f = CHOOSE at : at = [i \in 1..n |-> Turn(d, reverse, at, i)]
  BY DEF Current, Turn
<1> HIDE DEF f
<1>2. f = [i \in 1..n |-> Turn(d, reverse, f, i)]
  BY <1>1
<1> DEFINE C == {i \in 1..n : f[i] # w[i]}
<1>3. ASSUME C # {} PROVE FALSE
  <2>1. C \subseteq 1..n /\ IsFiniteSet(1..n)
    BY FS_Interval
  <2>2. C \subseteq Nat /\ IsFiniteSet(C)
    BY <2>1, FS_Subset
  <2>3. PICK m \in C : \A j \in C : m <= j
    <3> HIDE DEF C
    <3> QED BY <1>3, <2>2, Least
  <2>4. m \in 1..n /\ f[m] # w[m]
    OBVIOUS
  <2>5. f[m] = Turn(d, reverse, f, m) /\ w[m] = Turn(d, reverse, w, m)
    BY <1>2, <2>4
  <2>6. CASE m = 1
    BY <2>4, <2>5, <2>6 DEF Turn
  <2>7. CASE m # 1
    <3>1. m - 1 \in 1..n /\ ~(m <= m - 1)
      BY <2>4, <2>7
    <3>2. f[m - 1] = w[m - 1]
      BY <2>3, <3>1
    <3> QED BY <2>4, <2>5, <2>7, <3>2 DEF Turn
  <2> QED BY <2>6, <2>7
<1>4. \A i \in 1..n : f[i] = w[i]
  BY <1>3
<1>5. f = w
  BY <1>2, <1>4
<1> QED BY <1>5 DEF f

\* k turns that show the n entries of p, then null; and what is met in them.
Turns(p, n, k)   == [i \in 1..k |-> IF i <= n THEN p[i] ELSE 0]
Entries(p, n, k) == [i \in 1..(IF k <= n THEN k ELSE n) |-> p[i]]

NoNull(p, n) == \A i \in 1..n : p[i] \in Nat \ {0}

\* A walk ends at the first null.
LEMMA WalkIs ==
    ASSUME NEW d, NEW reverse, NEW k \in Nat, NEW n \in Nat, NEW p, NoNull(p, n),
           Current(d, reverse, k) = Turns(p, n, k)
    PROVE  Walk(d, reverse, k) = Entries(p, n, k)
<1> DEFINE c  == IF k <= n THEN k ELSE n
           at == [i \in 1..k |-> IF i <= n THEN p[i] ELSE 0]
<1>1. c \in Nat /\ c <= k /\ c <= n /\ \A i \in 1..k : i <= n <=> i <= c
  OBVIOUS
<1>2. \A i \in 1..k : i <= n => i \in 1..n /\ p[i] \in Nat \ {0}
  BY DEF NoNull
<1>3. {i \in 1..k : at[i] # 0} = 1..c
  <2>1. \A i \in 1..k : at[i] # 0 <=> i <= n
    BY <1>2
  <2>2. \A i \in 1..c : i \in 1..k
    BY <1>1
  <2> HIDE DEF at
  <2>3. \A i \in 1..k : i <= c <=> i \in 1..c
    BY <1>1
  <2> HIDE DEF c
  <2> QED BY <1>1, <2>1, <2>2, <2>3
<1>4. Cardinality({i \in 1..k : at[i] # 0}) = c
  <2> HIDE DEF at, c
  <2>1. Cardinality(1..c) = c
    BY <1>1, UpTo
  <2> QED BY <1>3, <2>1
<1>5. at \in Seq(Nat) /\ Len(at) = k
  <2>1. \A i \in 1..k : at[i] \in Nat
    BY <1>2
  <2> QED BY <2>1
<1>6. \A i \in 1..c : at[i] = p[i]
  BY <1>1
<1>7. Current(d, reverse, k) = at
  BY DEF Turns
<1> DEFINE s == SubSeq(at, 1, c)
<1>8. s \in Seq(Nat) /\ Len(s) = c /\ \A i \in 1..c : s[i] = at[i]
  <2> HIDE DEF at, c
  <2>1. c \in 0..Len(at)
    BY <1>1, <1>5
  <2> QED BY <1>5, <2>1, PrefixOf
<1>9. Walk(d, reverse, k) = s
  <2> HIDE DEF at, c
  <2> QED BY <1>4, <1>7 DEF Walk
<1>10. s = [i \in 1..c |-> p[i]]
  <2> HIDE DEF s, at, c
  <2>1. s = [i \in 1..c |-> s[i]]
    BY <1>8, LenProperties
  <2> QED BY <1>6, <1>8, <2>1
<1> QED BY <1>9, <1>10 DEF Entries

\* The values of the entries met, and that no two of these have one key.
Values(d, met) == [i \in DOMAIN met |-> d.entries[met[i]].value]

KeysDiffer(d, met) ==
    \A i, j \in DOMAIN met : d.entries[met[i]].key = d.entries[met[j]].key => i = j

\* A Map of entries with keys of their own.
LEMMA AsMapIs ==
    ASSUME NEW d, NEW c \in Nat, NEW met, DOMAIN met = 1..c, KeysDiffer(d, met)
    PROVE  AsMap(d, met) = Values(d, met)
<1> DEFINE key(i)  == d.entries[met[i]].key
           fresh   == {i \in DOMAIN met : \A j \in 1..(i - 1) : key(j) # key(i)}
           last(i) == CHOOSE j \in DOMAIN met :
                        /\ key(j) = key(i)
                        /\ \A k \in DOMAIN met : key(k) = key(i) => k <= j
<1>1. \A i, j \in 1..c : key(i) = key(j) => i = j
  BY DEF KeysDiffer
<1> HIDE DEF key
<1>2. fresh = 1..c
  <2>1. ASSUME NEW i \in 1..c, NEW j \in 1..(i - 1) PROVE key(j) # key(i)
    <3>1. j \in 1..c /\ j # i
      BY <2>1
    <3> QED BY <1>1, <3>1
  <2> QED BY <2>1
<1>3. Cardinality(fresh) = c
  <2>1. Cardinality(1..c) = c
    BY UpTo
  <2> HIDE DEF fresh
  <2> QED BY <1>2, <2>1
<1>4. ASSUME NEW i \in 1..c PROVE last(i) = i
  <2>1. i <= i
    BY <1>4
  <2>2. \A j \in 1..c : key(j) = key(i) <=> j = i
    BY <1>1, <1>4
  <2> QED BY <1>4, <2>1, <2>2
<1>5. AsMap(d, met) = [i \in 1..Cardinality(fresh) |->
                         d.entries[met[last(Nth(fresh, i))]].value]
  BY DEF AsMap, key
<1> HIDE DEF fresh, last
<1>6. ASSUME NEW i \in 1..c PROVE last(Nth(fresh, i)) = i
  BY <1>2, <1>4, <1>6, NthOfAll
<1>7. AsMap(d, met) = [i \in 1..c |-> d.entries[met[i]].value]
  BY <1>3, <1>5, <1>6
<1> QED BY <1>7 DEF Values

Linked == [key : Nat, value : Message, prev : Nat, next : Nat]

\* The storage that holds h: an entry for each message, linked both ways.
Chain(h) ==
    [entries |-> [i \in 1..Len(h) |->
                    [key |-> h[i].ts, value |-> h[i], prev |-> i - 1,
                     next |-> IF i < Len(h) THEN i + 1 ELSE 0]],
     first   |-> IF Len(h) = 0 THEN 0 ELSE 1,
     last    |-> Len(h)]

\* No two messages have one timestamp.
Sorted(h) == \A i, j \in DOMAIN h : i < j => h[i].ts < h[j].ts

LEMMA ChainFields ==
    ASSUME NEW h \in Seq(Message)
    PROVE  /\ Len(h) \in Nat /\ DOMAIN h = 1..Len(h)
           /\ \A i \in 1..Len(h) : h[i] \in Message /\ h[i].ts \in Nat
           /\ Chain(h).first = IF Len(h) = 0 THEN 0 ELSE 1
           /\ Chain(h).last = Len(h)
           /\ \A i \in 1..Len(h) :
                /\ Chain(h).entries[i].key = h[i].ts
                /\ Chain(h).entries[i].value = h[i]
                /\ Chain(h).entries[i].prev = i - 1
                /\ Chain(h).entries[i].next = IF i < Len(h) THEN i + 1 ELSE 0
           /\ Chain(h).entries \in Seq(Linked) /\ Len(Chain(h).entries) = Len(h)
<1> DEFINE n == Len(h)
           e == Chain(h).entries
<1>1. n \in Nat /\ DOMAIN h = 1..n
  BY LenProperties
<1>2. \A i \in 1..n : h[i] \in Message /\ h[i].ts \in Nat
  <2>1. \A i \in 1..n : h[i] \in Message
    BY ElementOfSeq
  <2>2. \A m \in Message : m.ts \in Nat
    BY DEF Message
  <2> QED BY <2>1, <2>2
<1>3. Chain(h).first = (IF n = 0 THEN 0 ELSE 1) /\ Chain(h).last = n
  BY DEF Chain
<1>4. e = [i \in 1..n |-> [key |-> h[i].ts, value |-> h[i], prev |-> i - 1,
                           next |-> IF i < n THEN i + 1 ELSE 0]]
  BY DEF Chain
<1> HIDE DEF e, n
<1>5. \A i \in 1..n : /\ e[i].key = h[i].ts /\ e[i].value = h[i]
                      /\ e[i].prev = i - 1
                      /\ e[i].next = IF i < n THEN i + 1 ELSE 0
  BY <1>4
<1>6. \A i \in 1..n : e[i] \in Linked
  <2> SUFFICES ASSUME NEW i \in 1..n PROVE e[i] \in Linked
    OBVIOUS
  <2>1. i - 1 \in Nat /\ (IF i < n THEN i + 1 ELSE 0) \in Nat
    BY <1>1
  <2> QED BY <1>2, <1>4, <2>1 DEF Linked
<1>7. e \in [1..n -> Linked]
  BY <1>4, <1>6
<1>8. e \in Seq(Linked) /\ Len(e) = n
  BY <1>1, <1>7
<1> QED BY <1>1, <1>2, <1>3, <1>5, <1>8 DEF n, e

\* set() links a message at the end.
LEMMA SetChain ==
    ASSUME NEW h \in Seq(Message), NEW m \in Message
    PROVE  Set(Chain(h), m.ts, m) = Chain(h \o <<m>>)
<1> DEFINE n    == Len(h)
           g    == h \o <<m>>
           e    == Chain(h).entries
           link == IF n = 0 THEN e ELSE [e EXCEPT ![n].next = n + 1]
           one  == [key |-> m.ts, value |-> m, prev |-> n, next |-> 0]
           all  == Append(link, one)
           to   == [i \in 1..(n + 1) |->
                      [key |-> g[i].ts, value |-> g[i], prev |-> i - 1,
                       next |-> IF i < n + 1 THEN i + 1 ELSE 0]]
<1>1. /\ n \in Nat /\ e \in Seq(Linked) /\ Len(e) = n
      /\ Chain(h).last = n /\ Chain(h).first = IF n = 0 THEN 0 ELSE 1
      /\ e = [i \in 1..n |-> [key |-> h[i].ts, value |-> h[i], prev |-> i - 1,
                              next |-> IF i < n THEN i + 1 ELSE 0]]
  BY ChainFields DEF Chain
<1>2. /\ g \in Seq(Message) /\ Len(g) = n + 1
      /\ \A i \in 1..n : g[i] = h[i]
      /\ g[n + 1] = m
  BY OneMore
<1>3. Set(Chain(h), m.ts, m) =
        [entries |-> all, first |-> IF n = 0 THEN n + 1 ELSE Chain(h).first, last |-> n + 1]
  BY <1>1 DEF Set
<1>4. Chain(g) = [entries |-> to, first |-> 1, last |-> n + 1]
  <2> HIDE DEF g
  <2>1. n + 1 # 0
    BY <1>1
  <2> QED BY <1>2, <2>1 DEF Chain
<1> HIDE DEF g, e
<1>5. one \in Linked
  <2>1. m.ts \in Nat
    BY DEF Message
  <2> QED BY <1>1, <2>1 DEF Linked
<1>6. /\ link \in Seq(Linked) /\ Len(link) = n
      /\ \A i \in 1..n : link[i] = to[i]
  <2>1. CASE n = 0
    BY <1>1, <2>1
  <2>2. CASE n # 0
    <3>1. n \in 1..n
      BY <1>1, <2>2
    <3>2. e \in [1..n -> Linked] /\ e[n] \in Linked
      BY <1>1, <3>1, LenProperties, ElementOfSeq
    <3>3. [e[n] EXCEPT !.next = n + 1] \in Linked
      <4>1. \A x \in Linked, k \in Nat : [x EXCEPT !.next = k] \in Linked
        BY DEF Linked
      <4>2. n + 1 \in Nat
        BY <1>1
      <4> QED BY <3>2, <4>1, <4>2
    <3>4. link = [e EXCEPT ![n] = [e[n] EXCEPT !.next = n + 1]]
      BY <2>2
    <3> HIDE DEF link
    <3>5. link \in [1..n -> Linked]
      BY <3>2, <3>3, <3>4
    <3>6. link \in Seq(Linked) /\ Len(link) = n
      BY <1>1, <3>5
    <3>7. ASSUME NEW i \in 1..n PROVE link[i] = to[i]
      <4>1. i \in 1..(n + 1) /\ i < n + 1 /\ (i < n \/ i = n)
        <5> HIDE DEF n
        <5> QED BY <1>1, <3>7
      <4>2. to[i] = [key |-> h[i].ts, value |-> h[i], prev |-> i - 1, next |-> i + 1]
        BY <1>2, <4>1
      <4>3. CASE i < n
        <5>1. link[i] = e[i]
          BY <1>1, <3>2, <3>4, <3>7, <4>3
        <5>2. e[i] = [key |-> h[i].ts, value |-> h[i], prev |-> i - 1, next |-> i + 1]
          BY <1>1, <3>7, <4>3
        <5> QED BY <4>2, <5>1, <5>2
      <4>4. CASE i = n
        <5>1. link[i] = [e[i] EXCEPT !.next = i + 1]
          BY <3>2, <3>4, <3>7, <4>4
        <5>2. e[i] = [key |-> h[i].ts, value |-> h[i], prev |-> i - 1, next |-> 0]
          BY <1>1, <3>7, <4>4
        <5>3. link[i] = [key |-> h[i].ts, value |-> h[i], prev |-> i - 1, next |-> i + 1]
          BY <5>1, <5>2
        <5> QED BY <4>2, <5>3
      <4> QED BY <4>1, <4>3, <4>4
    <3> QED BY <3>6, <3>7
  <2> QED BY <2>1, <2>2
<1>7. to[n + 1] = one
  <2>1. n + 1 \in 1..(n + 1) /\ (n + 1) - 1 = n /\ ~(n + 1 < n + 1)
    BY <1>1
  <2> QED BY <1>2, <2>1
<1> HIDE DEF link, one, to
<1>8. /\ all \in Seq(Linked) /\ Len(all) = n + 1
      /\ \A i \in 1..n : all[i] = to[i]
      /\ all[n + 1] = to[n + 1]
  BY <1>5, <1>6, <1>7, AppendProperties
<1> HIDE DEF all
<1>9. \A i \in 1..(n + 1) : all[i] = to[i]
  <2>1. \A i \in 1..(n + 1) : i \in 1..n \/ i = n + 1
    BY <1>1
  <2> QED BY <1>8, <2>1
<1>10. all = to
  <2>1. all = [i \in 1..(n + 1) |-> all[i]]
    BY <1>8, LenProperties
  <2>2. to = [i \in 1..(n + 1) |-> to[i]]
    BY DEF to
  <2> QED BY <1>9, <2>1, <2>2
<1>11. (IF n = 0 THEN n + 1 ELSE Chain(h).first) = 1
  BY <1>1
<1> QED BY <1>3, <1>4, <1>10, <1>11 DEF g

LEMMA SortedGrows ==
    ASSUME NEW h \in Seq(Message), Sorted(h), NEW m \in Message,
           \A i \in DOMAIN h : h[i].ts < m.ts
    PROVE  Sorted(h \o <<m>>)
<1> DEFINE n == Len(h)
           g == h \o <<m>>
<1>1. /\ n \in Nat /\ DOMAIN h = 1..n
      /\ DOMAIN g = 1..(n + 1)
      /\ \A i \in 1..n : g[i] = h[i]
      /\ g[n + 1] = m
  BY OneMore, LenProperties
<1> HIDE DEF g
<1>2. SUFFICES ASSUME NEW i \in 1..(n + 1), NEW j \in 1..(n + 1), i < j
               PROVE  g[i].ts < g[j].ts
  BY <1>1 DEF Sorted, g
<1>3. i \in 1..n /\ (j \in 1..n \/ j = n + 1)
  BY <1>1, <1>2
<1> QED BY <1>1, <1>2, <1>3 DEF Sorted

\* Keys of their own.
LEMMA SortedKeys ==
    ASSUME NEW h \in Seq(Message), Sorted(h),
           NEW i \in DOMAIN h, NEW j \in DOMAIN h, h[i].ts = h[j].ts
    PROVE  i = j
<1>1. i \in Nat /\ j \in Nat /\ h[i].ts \in Nat /\ h[j].ts \in Nat
  BY ChainFields
<1>2. (i < j => h[i].ts < h[j].ts) /\ (j < i => h[j].ts < h[i].ts)
  BY DEF Sorted
<1> QED BY <1>1, <1>2

LEMMA ListForward ==
    ASSUME NEW h \in Seq(Message), Sorted(h)
    PROVE  List(Chain(h), FALSE, Len(h)) = h
<1> DEFINE n == Len(h)
           d == Chain(h)
           p == [i \in 1..n |-> i]
           w == [i \in 1..n |-> IF i <= n THEN p[i] ELSE 0]
           forward == FALSE
<1>1. /\ n \in Nat /\ DOMAIN h = 1..n
      /\ d.first = IF n = 0 THEN 0 ELSE 1
      /\ \A i \in 1..n : /\ d.entries[i].key = h[i].ts
                         /\ d.entries[i].value = h[i]
                         /\ d.entries[i].next = IF i < n THEN i + 1 ELSE 0
  BY ChainFields
<1>0. ~forward
  OBVIOUS
<1> HIDE DEF d, n, forward
<1>2. \A i \in 1..n : w[i] = i /\ p[i] = i
  BY <1>1
<1>3. ASSUME NEW i \in 1..n PROVE Turn(d, forward, w, i) = i
  <2>1. CASE i = 1
    <3>1. n # 0
      BY <1>1, <1>3
    <3> QED BY <1>0, <1>1, <2>1, <3>1 DEF Turn
  <2>2. CASE i # 1
    <3>1. i - 1 \in 1..n /\ i - 1 # 0 /\ i - 1 < n /\ (i - 1) + 1 = i
      BY <1>1, <1>3, <2>2
    <3>2. w[i - 1] = i - 1
      BY <1>2, <3>1
    <3>3. d.entries[i - 1].next = i
      BY <1>1, <3>1
    <3> HIDE DEF w
    <3> QED BY <1>0, <2>2, <3>1, <3>2, <3>3 DEF Turn
  <2> QED BY <2>1, <2>2
<1>4. w = [i \in 1..n |-> Turn(d, forward, w, i)]
  BY <1>2, <1>3
<1>5. Current(d, forward, n) = w
  <2> HIDE DEF w
  <2> QED BY <1>1, <1>4, CurrentIs
<1>6. NoNull(p, n)
  BY <1>1 DEF NoNull
<1>7. Walk(d, forward, n) = p
  <2> HIDE DEF p
  <2>1. Current(d, forward, n) = Turns(p, n, n)
    BY <1>5 DEF Turns
  <2>2. Walk(d, forward, n) = Entries(p, n, n)
    BY <1>1, <1>6, <2>1, WalkIs
  <2>3. p = Entries(p, n, n)
    BY <1>1 DEF Entries, p
  <2> QED BY <2>2, <2>3
<1>8. \A i, j \in 1..n : d.entries[p[i]].key = d.entries[p[j]].key => i = j
  <2>1. \A i \in 1..n : d.entries[p[i]].key = h[i].ts
    BY <1>1, <1>2
  <2> HIDE DEF p
  <2> SUFFICES ASSUME NEW i \in 1..n, NEW j \in 1..n,
                      d.entries[p[i]].key = d.entries[p[j]].key
               PROVE  i = j
    OBVIOUS
  <2>2. i \in DOMAIN h /\ j \in DOMAIN h /\ h[i].ts = h[j].ts
    BY <1>1, <2>1
  <2> QED BY <2>2, SortedKeys
<1>9. AsMap(d, p) = [i \in 1..n |-> d.entries[p[i]].value]
  <2>1. DOMAIN p = 1..n
    OBVIOUS
  <2> HIDE DEF p
  <2>2. KeysDiffer(d, p)
    BY <1>8, <2>1 DEF KeysDiffer
  <2>3. AsMap(d, p) = Values(d, p)
    BY <1>1, <2>1, <2>2, AsMapIs
  <2> QED BY <2>1, <2>3 DEF Values
<1>10. AsMap(d, p) = h
  <2>1. \A i \in 1..n : d.entries[p[i]].value = h[i]
    BY <1>1, <1>2
  <2>2. h = [i \in 1..n |-> h[i]]
    BY LenProperties DEF n
  <2> QED BY <1>9, <2>1, <2>2
<1> QED BY <1>7, <1>10 DEF List, d, n, forward

LEMMA ListBackward ==
    ASSUME NEW h \in Seq(Message), Sorted(h), NEW k \in Nat
    PROVE  List(Chain(h), TRUE, k) =
             [i \in 1..(IF k <= Len(h) THEN k ELSE Len(h)) |-> h[Len(h) + 1 - i]]
<1> DEFINE n == Len(h)
           c == IF k <= n THEN k ELSE n
           d == Chain(h)
           backward == TRUE
           p == [i \in 1..n |-> n + 1 - i]
           w == [i \in 1..k |-> IF i <= n THEN p[i] ELSE 0]
           q == [i \in 1..c |-> p[i]]
<1>1. /\ n \in Nat /\ DOMAIN h = 1..n
      /\ d.last = n
      /\ \A i \in 1..n : /\ d.entries[i].key = h[i].ts
                         /\ d.entries[i].value = h[i]
                         /\ d.entries[i].prev = i - 1
  BY ChainFields
<1>0. backward
  OBVIOUS
<1> HIDE DEF d, n, backward
<1>2. \A i \in 1..k : w[i] = IF i <= n THEN n + 1 - i ELSE 0
  BY <1>1
<1>3. ASSUME NEW i \in 1..k
      PROVE  Turn(d, backward, w, i) = IF i <= n THEN n + 1 - i ELSE 0
  <2>1. CASE i = 1
    <3>1. (IF i <= n THEN n + 1 - i ELSE 0) = n
      BY <1>1, <2>1
    <3> QED BY <1>0, <1>1, <2>1, <3>1 DEF Turn
  <2>2. CASE i # 1
    <3>1. i - 1 \in 1..k
      BY <1>3, <2>2
    <3>2. w[i - 1] = IF i - 1 <= n THEN n + 1 - (i - 1) ELSE 0
      BY <1>2, <3>1
    <3>3. CASE i - 1 <= n
      <4> DEFINE e == n + 1 - (i - 1)
      <4>1. /\ e \in 1..n /\ e # 0
            /\ e - 1 = IF i <= n THEN n + 1 - i ELSE 0
        BY <1>1, <1>3, <2>2, <3>3
      <4>2. d.entries[e].prev = e - 1 /\ w[i - 1] = e
        BY <1>1, <3>2, <3>3, <4>1
      <4> HIDE DEF e, w
      <4> QED BY <1>0, <2>2, <4>1, <4>2 DEF Turn
    <3>4. CASE ~(i - 1 <= n)
      <4>1. w[i - 1] = 0 /\ ~(i <= n)
        BY <1>1, <1>3, <3>2, <3>4
      <4> HIDE DEF w
      <4> QED BY <1>0, <2>2, <4>1 DEF Turn
    <3> QED BY <3>3, <3>4
  <2> QED BY <2>1, <2>2
<1>4. w = [i \in 1..k |-> Turn(d, backward, w, i)]
  BY <1>2, <1>3
<1>5. Current(d, backward, k) = w
  <2> HIDE DEF w
  <2> QED BY <1>4, CurrentIs
<1>6. NoNull(p, n)
  BY <1>1 DEF NoNull
<1>7. Walk(d, backward, k) = q
  <2> HIDE DEF p
  <2>1. Current(d, backward, k) = Turns(p, n, k)
    BY <1>5 DEF Turns
  <2>2. Walk(d, backward, k) = Entries(p, n, k)
    <3> HIDE DEF backward, w, q, c
    <3>1. k \in Nat /\ n \in Nat
      BY <1>1
    <3> QED BY <1>6, <2>1, <3>1, WalkIs
  <2> QED BY <2>2 DEF Entries
<1>8. /\ c \in Nat
      /\ \A i \in 1..c : i \in 1..n /\ n + 1 - i \in 1..n /\ q[i] = n + 1 - i
  BY <1>1
<1>9. \A i, j \in 1..c : d.entries[q[i]].key = d.entries[q[j]].key => i = j
  <2> SUFFICES ASSUME NEW i \in 1..c, NEW j \in 1..c,
                      d.entries[q[i]].key = d.entries[q[j]].key
               PROVE  i = j
    OBVIOUS
  <2> HIDE DEF q
  <2> DEFINE x == n + 1 - i
             y == n + 1 - j
  <2>1. /\ x \in 1..n /\ y \in 1..n /\ q[i] = x /\ q[j] = y
        /\ i \in Int /\ j \in Int
    BY <1>8
  <2>2. x \in DOMAIN h /\ y \in DOMAIN h /\ h[x].ts = h[y].ts
    <3> HIDE DEF x, y
    <3> QED BY <1>1, <2>1
  <2>3. x = y
    <3> HIDE DEF x, y
    <3> QED BY <2>2, SortedKeys
  <2> QED BY <1>1, <2>3
<1>10. AsMap(d, q) = [i \in 1..c |-> d.entries[q[i]].value]
  <2>1. DOMAIN q = 1..c
    OBVIOUS
  <2> HIDE DEF q, c
  <2>2. KeysDiffer(d, q)
    BY <1>9, <2>1 DEF KeysDiffer
  <2>3. AsMap(d, q) = Values(d, q)
    BY <1>8, <2>1, <2>2, AsMapIs
  <2> QED BY <2>1, <2>3 DEF Values
<1>11. AsMap(d, q) = [i \in 1..c |-> h[n + 1 - i]]
  <2>1. \A i \in 1..c : d.entries[q[i]].value = h[n + 1 - i]
    <3> HIDE DEF q
    <3> QED BY <1>1, <1>8
  <2> HIDE DEF q, c
  <2> QED BY <1>10, <2>1
<1> QED BY <1>7, <1>11 DEF List, d, n, backward

\* The lists of the storage, if it holds the history.
LEMMA ChainLists ==
    ASSUME history \in Seq(Message), Sorted(history), storage = Chain(history)
    PROVE  StorageIsHistory
<1> DEFINE n == Len(history)
           m == Maximum(1, n - Backlog + 1)
           c == IF Backlog <= n THEN Backlog ELSE n
<1>1. n \in Nat /\ Backlog \in Nat /\ Len(storage.entries) = n
  BY ChainFields, BoundsAssumption
<1>2. List(storage, FALSE, n) = history
  BY ListForward
<1>3. List(storage, TRUE, n) = Reverse(history)
  <2>1. List(storage, TRUE, n) = [i \in 1..(IF n <= n THEN n ELSE n) |-> history[n + 1 - i]]
    BY <1>1, ListBackward
  <2>2. \A i \in 1..n : n + 1 - i = (n - i) + 1
    BY <1>1
  <2>3. Reverse(history) = [i \in 1..n |-> history[(n - i) + 1]]
    BY DEF Reverse
  <2> HIDE DEF n
  <2> QED BY <2>1, <2>2, <2>3
<1>4. List(storage, TRUE, Backlog) = Reverse(Latest)
  <2>1. List(storage, TRUE, Backlog) = [i \in 1..c |-> history[n + 1 - i]]
    BY <1>1, ListBackward
  <2>2. /\ m \in Nat /\ 1 <= m /\ m <= n + 1 /\ n - m + 1 = c
        /\ \A i \in 1..c : (c - i) + 1 \in 1..c /\ m + ((c - i) + 1) - 1 = n + 1 - i
    <3> HIDE DEF n
    <3> QED BY <1>1 DEF Maximum
  <2>3. Latest = SubSeq(history, m, n)
    BY DEF Latest
  <2> HIDE DEF m, n, c
  <2>4. Len(Latest) = c /\ \A i \in 1..c : Latest[i] = history[m + i - 1]
    <3>1. /\ Len(SubSeq(history, m, n)) = n - m + 1
          /\ \A i \in 1..(n - m + 1) : SubSeq(history, m, n)[i] = history[m + i - 1]
      BY <1>1, <2>2, Part DEF n
    <3> QED BY <2>2, <2>3, <3>1
  <2>5. Reverse(Latest) = [i \in 1..c |-> Latest[(c - i) + 1]]
    BY <2>4 DEF Reverse
  <2>6. \A i \in 1..c : Latest[(c - i) + 1] = history[n + 1 - i]
    <3> SUFFICES ASSUME NEW i \in 1..c PROVE Latest[(c - i) + 1] = history[n + 1 - i]
      OBVIOUS
    <3> DEFINE x == (c - i) + 1
    <3>1. x \in 1..c /\ m + x - 1 = n + 1 - i
      BY <2>2
    <3>2. Latest[x] = history[m + x - 1]
      BY <2>4, <3>1
    <3> QED BY <3>1, <3>2
  <2> QED BY <2>1, <2>5, <2>6
<1> QED BY <1>1, <1>2, <1>3, <1>4 DEF StorageIsHistory

StorageFits == Sorted(history) /\ storage = Chain(history)

LEMMA StorageFitsStep ==
    ASSUME Platform = "bun", TypeOK, HistoryBelowLast, StorageFits, [BunNext]_bunVars
    PROVE  StorageFits'
<1>1. history \in Seq(Message) /\ Sorted(history) /\ storage = Chain(history)
  BY DEF TypeOK, StorageFits
<1>2. ASSUME NEW s \in Sockets, NEW now \in Clock, BunChat(s, now)
      PROVE  StorageFits'
  <2> DEFINE m == Chat(Stamp(now), session[s].address)
  <2>1. /\ m \in Message
        /\ history' = history \o <<m>>
        /\ \A i \in DOMAIN history : history[i].ts < m.ts
    BY <1>2, ChatAppends DEF BunChat
  <2>2. storage' = Set(storage, m.ts, m)
    BY <1>2 DEF BunChat, Chat
  <2> HIDE DEF m
  <2>3. storage' = Chain(history')
    BY <1>1, <2>1, <2>2, SetChain
  <2>4. Sorted(history')
    BY <1>1, <2>1, SortedGrows
  <2> QED BY <2>3, <2>4 DEF StorageFits, Sorted, Chain
<1>3. ASSUME ~ \E s \in Sockets, now \in Clock : BunChat(s, now)
      PROVE  StorageFits'
  <2>1. CASE UNCHANGED bunVars
    BY <1>1, <2>1 DEF bunVars, vars, StorageFits, Sorted, Chain
  <2>2. CASE \E s \in Sockets : BunOpen(s) \/ BunClose(s)
    BY <1>1, <2>2 DEF BunOpen, BunClose, Open, CloseEvent, StorageFits, Sorted, Chain
  <2>3. CASE UNCHANGED <<storage, websockets>> /\ UNCHANGED history
    BY <1>1, <2>3 DEF StorageFits, Sorted, Chain
  <2>4. ASSUME \/ \E s \in Sockets :
                    \/ Disconnect(s) \/ Logout(s)
                    \/ \E u \in Users : RequestLogin(s, u)
               \/ \E t \in logins :
                    \/ LoginFails(t) \/ LoginRepeats(t) \/ LoginOpenRoom(t)
                    \/ LoginGatedRoom(t) \/ ChainRefuses(t) \/ ChainPasses(t)
        PROVE  UNCHANGED history
    BY <2>4 DEF Disconnect, Logout, RequestLogin, LoginFails, LoginRepeats,
                LoginOpenRoom, LoginGatedRoom, ChainRefuses, ChainPasses
  <2> QED BY <1>3, <2>1, <2>2, <2>3, <2>4 DEF BunNext
<1> QED BY <1>2, <1>3

\* On Bun the linked list, which only appends, answers each list of the room as a
\* storage that keeps its keys in order does, for any backlog: in it no key occurs
\* twice, its order is that of the timestamps, and both chains of links are whole.
THEOREM StorageAgrees ==
    ASSUME Platform = "bun"
    PROVE  BunSpec => []StorageIsHistory
<1>1. BunInit => StorageFits
  <2> SUFFICES ASSUME BunInit PROVE StorageFits
    OBVIOUS
  <2>1. history = <<>> /\ storage = EmptyMap
    BY DEF BunInit, Init
  <2>2. Chain(history) = EmptyMap /\ Sorted(history)
    BY <2>1 DEF Chain, EmptyMap, Sorted
  <2> QED BY <2>1, <2>2 DEF StorageFits
<1>2. TypeOK /\ HistoryBelowLast /\ StorageFits /\ [BunNext]_bunVars => StorageFits'
  BY StorageFitsStep
<1>3. TypeOK /\ StorageFits => StorageIsHistory
  BY ChainLists DEF StorageFits, TypeOK
<1>4. HistoryInvariant => TypeOK /\ HistoryBelowLast
  BY DEF HistoryInvariant
<1>5. BunInit => Init
  BY DEF BunInit
<1>6. [BunNext]_bunVars => [Next]_vars
  BY BunRoomIsRoom
<1> QED BY <1>1, <1>2, <1>3, <1>4, <1>5, <1>6, HistoryInvariantHolds, PTL
        DEF BunSpec, Spec
=============================================================================
