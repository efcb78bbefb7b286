-------------------------- MODULE ChatRequest_proofs --------------------------
(* Proofs about ChatRequest and the parameters of ChatTemplate: what a request     *)
(* that reaches the engine has been checked for, whatever its body, and what its   *)
(* prompt holds of its messages and images.                                        *)
EXTENDS ChatRequest, FiniteSetTheorems, WellFoundedInduction, TLAPS

-----------------------------------------------------------------------------
(* FlattenSeq, the loops of the parsers that append to a vector *)

\* Every set of naturals that has a member has a least one.
LEMMA Least ==
  ASSUME NEW T, T \subseteq Nat, T # {}
  PROVE  \E n \in T : \A m \in T : ~(m < n)
  <1>1. \E n \in T : \A m \in T : <<m, n>> \notin OpToRel(<, Nat)
    BY NatLessThanWellFounded, WFMin, Zenon
  <1> QED BY <1>1 DEF OpToRel

\* The recursion of FlattenSeq, on the first n sequences.
Flattens(f, s, n) ==
  f = [i \in 1..n |-> IF i = 1 THEN s[i] ELSE f[i - 1] \o s[i]]

\* A function that obeys the recursion exists: the one for n sequences is extended
\* to n + 1, and the least n without one would be such an extension.
LEMMA FlattenExists ==
  ASSUME NEW S, NEW s, NEW n \in Nat, \A i \in 1..n : s[i] \in Seq(S)
  PROVE  \E f : Flattens(f, s, n)
  <1> DEFINE Q(k, f) == Flattens(f, s, k)
             bad == {k \in 0..n : ~\E f : Q(k, f)}
  <1>1. Q(0, [i \in 1..0 |-> <<>>])
    BY DEF Flattens
  <1>2. ASSUME NEW k \in 0..(n - 1), NEW f, Q(k, f)
        PROVE  \E g : Q(k + 1, g)
    <2> DEFINE g == [i \in 1..(k + 1) |-> IF i = 1 THEN s[i] ELSE f[i - 1] \o s[i]]
    <2>1. f = [i \in 1..k |-> IF i = 1 THEN s[i] ELSE f[i - 1] \o s[i]]
      BY <1>2 DEF Flattens
    <2>2. ASSUME NEW i \in 1..k PROVE g[i] = f[i]
      <3>1. i \in 1..(k + 1)
        OBVIOUS
      <3>2. g[i] = IF i = 1 THEN s[i] ELSE f[i - 1] \o s[i]
        BY <3>1
      <3>3. f[i] = IF i = 1 THEN s[i] ELSE f[i - 1] \o s[i]
        BY <2>1, Zenon
      <3> QED BY <3>2, <3>3
    <2>3. g = [i \in 1..(k + 1) |-> IF i = 1 THEN s[i] ELSE g[i - 1] \o s[i]]
      <3> DEFINE h == [i \in 1..(k + 1) |-> IF i = 1 THEN s[i] ELSE g[i - 1] \o s[i]]
      <3>1. ASSUME NEW i \in 1..(k + 1) PROVE g[i] = h[i]
        <4>1. CASE i = 1
          BY <4>1
        <4>2. CASE i # 1
          <5>1. i - 1 \in 1..k
            BY <4>2
          <5>2. g[i - 1] = f[i - 1]
            BY <2>2, <5>1
          <5>3. g[i] = f[i - 1] \o s[i]
            BY <4>2
          <5> HIDE DEF g
          <5>4. h[i] = g[i - 1] \o s[i]
            BY <4>2
          <5> QED BY <5>2, <5>3, <5>4
        <4> QED BY <4>1, <4>2
      <3>2. DOMAIN g = 1..(k + 1) /\ g = [i \in DOMAIN g |-> g[i]]
        OBVIOUS
      <3>3. DOMAIN h = 1..(k + 1) /\ h = [i \in DOMAIN h |-> h[i]]
        OBVIOUS
      <3>4. g = h
        <4> HIDE DEF g, h
        <4> QED BY <3>1, <3>2, <3>3
      <3> QED BY <3>4
    <2> HIDE DEF g
    <2> QED BY <2>3 DEF Flattens
  <1>3. bad = {}
    <2> SUFFICES ASSUME bad # {} PROVE FALSE
      OBVIOUS
    <2>1. PICK k \in bad : \A m \in bad : ~(m < k)
      <3>1. bad \subseteq Nat
        OBVIOUS
      <3> HIDE DEF bad
      <3> QED BY <3>1, Least
    <2>2. k # 0
      BY <1>1, <2>1
    <2>3. k - 1 \in 0..(n - 1) /\ (k - 1) + 1 = k
      BY <2>1, <2>2
    <2>4. k - 1 \notin bad
      <3>1. k \in Int
        BY <2>1
      <3>2. k - 1 < k
        BY <3>1
      <3> HIDE DEF bad
      <3> QED BY <2>1, <3>2
    <2>5. PICK f : Q(k - 1, f)
      BY <2>3, <2>4
    <2> HIDE DEF Q
    <2>6. \E g : Q((k - 1) + 1, g)
      BY <1>2, <2>3, <2>5
    <2> QED BY <2>1, <2>3, <2>6
  <1>4. n \notin bad /\ n \in 0..n
    BY <1>3
  <1> QED BY <1>4

\* Its values are sequences over the same set.
LEMMA FlattensType ==
  ASSUME NEW S, NEW s, NEW n \in Nat, \A i \in 1..n : s[i] \in Seq(S),
         NEW f, Flattens(f, s, n)
  PROVE  \A k \in 1..n : f[k] \in Seq(S)
  <1> DEFINE bad == {k \in 1..n : f[k] \notin Seq(S)}
  <1>0. ASSUME NEW i \in 1..n
        PROVE  f[i] = IF i = 1 THEN s[i] ELSE f[i - 1] \o s[i]
    BY Zenon DEF Flattens
  <1> SUFFICES ASSUME bad # {} PROVE FALSE
    OBVIOUS
  <1>1. PICK k \in bad : \A m \in bad : ~(m < k)
    <2>1. bad \subseteq Nat
      OBVIOUS
    <2> HIDE DEF bad
    <2> QED BY <2>1, Least
  <1>2. CASE k = 1
    BY <1>0, <1>1, <1>2
  <1>3. CASE k # 1
    <2>1. k \in 1..n /\ k - 1 \in 1..n /\ k - 1 < k
      BY <1>1, <1>3
    <2>2. f[k - 1] \in Seq(S) /\ s[k] \in Seq(S)
      BY <1>1, <2>1
    <2>3. f[k] = f[k - 1] \o s[k]
      BY <1>0, <1>3, <2>1
    <2>4. f[k - 1] \o s[k] \in Seq(S)
      BY <2>2
    <2>5. f[k] \notin Seq(S)
      BY <1>1
    <2> QED BY <2>3, <2>4, <2>5, Zenon
  <1> QED BY <1>2, <1>3

\* A loop over n elements that appends members of S leaves a sequence over S.
LEMMA FlattenSeqType ==
  ASSUME NEW S, NEW n \in Nat, NEW s, s = [i \in 1..n |-> s[i]],
         \A i \in 1..n : s[i] \in Seq(S)
  PROVE  FlattenSeq(s) \in Seq(S)
  <1>0. Len(s) = n
    OBVIOUS
  <1>1. CASE n = 0
    <2>1. s = <<>>
      BY <1>1
    <2>2. FlattenSeq(s) = s
      BY <1>0, <1>1 DEF FlattenSeq
    <2>3. <<>> \in Seq(S)
      OBVIOUS
    <2> QED BY <2>1, <2>2, <2>3, Zenon
  <1>2. CASE n # 0
    <2> DEFINE F == CHOOSE f : Flattens(f, s, n)
    <2>1. Flattens(F, s, n)
      BY FlattenExists
    <2>2. FlattenSeq(s) = F[n]
      BY <1>0, <1>2, Zenon DEF FlattenSeq, Flattens
    <2>3. F[n] \in Seq(S)
      <3>1. n \in 1..n
        BY <1>2
      <3> HIDE DEF F
      <3> QED BY <2>1, <3>1, FlattensType
    <2> QED BY <2>2, <2>3
  <1> QED BY <1>1, <1>2

LEMMA ConcatType ==
  ASSUME NEW S, NEW s \in Seq(S), NEW t \in Seq(S)
  PROVE  s \o t \in Seq(S)
  OBVIOUS

\* The m first members of r are those of p, and the n next those of q.
Behind(p, m, q, n, r) ==
  (\A i \in 1..m : r[i] = p[i]) /\ \A j \in 1..n : r[m + j] = q[j]

\* n sequences over S, and the results of joining the first of them.
Pieces(s, n, S) ==
  /\ s = [i \in 1..n |-> s[i]]
  /\ \A i \in 1..n : s[i] \in Seq(S)

Joins(f, s, n, S) ==
  /\ f[0] = <<>>
  /\ \A i \in 1..n : f[i] = f[i - 1] \o s[i]
  /\ \A i \in 0..n : f[i] \in Seq(S)

LEMMA FlattenJoins ==
  ASSUME NEW S, NEW n \in Nat, NEW s, Pieces(s, n, S)
  PROVE  \E f : Joins(f, s, n, S) /\ FlattenSeq(s) = f[n]
  <1>0. /\ s = [i \in 1..n |-> s[i]]
        /\ \A i \in 1..n : s[i] \in Seq(S)
    BY Zenon DEF Pieces
  <1>1. Len(s) = n
    BY <1>0
  <1> DEFINE F == CHOOSE f : Flattens(f, s, n)
             f == [i \in 0..n |-> IF i = 0 THEN <<>> ELSE F[i]]
  <1>2. Flattens(F, s, n)
    BY <1>0, FlattenExists
  <1>3. \A i \in 1..n : F[i] = IF i = 1 THEN s[i] ELSE F[i - 1] \o s[i]
    BY <1>2, Zenon DEF Flattens
  <1>4. /\ n = 0 => FlattenSeq(s) = s
        /\ n # 0 => FlattenSeq(s) = F[n]
    <2>1. CASE n = 0
      BY <1>1, <2>1 DEF FlattenSeq
    <2>2. CASE n # 0
      BY <1>1, <2>2, Zenon DEF FlattenSeq, Flattens
    <2> QED BY <2>1, <2>2
  <1>5. \A i \in 1..n : F[i] \in Seq(S)
    <2> HIDE DEF F
    <2> QED BY <1>0, <1>2, FlattensType
  <1> HIDE DEF F
  <1>6. f[0] = <<>> /\ \A i \in 1..n : f[i] = F[i]
    OBVIOUS
  <1>7. ASSUME NEW i \in 1..n PROVE f[i] = f[i - 1] \o s[i]
    <2>1. CASE i = 1
      <3>1. f[i - 1] = <<>> /\ f[i] = s[i] /\ s[i] \in Seq(S)
        BY <1>0, <1>3, <1>6, <2>1
      <3>2. <<>> \o s[i] = s[i]
        BY <3>1
      <3> QED BY <3>1, <3>2, Zenon
    <2>2. CASE i # 1
      <3>1. i - 1 \in 1..n
        BY <2>2
      <3> QED BY <1>3, <1>6, <2>2, <3>1
    <2> QED BY <2>1, <2>2
  <1>8. \A i \in 0..n : f[i] \in Seq(S)
    BY <1>5, <1>6
  <1>9. FlattenSeq(s) = f[n]
    <2>1. CASE n = 0
      <3>1. s = <<>>
        BY <1>0, <2>1
      <3> QED BY <1>4, <1>6, <2>1, <3>1
    <2>2. CASE n # 0
      <3>1. n \in 1..n
        BY <2>2
      <3> QED BY <1>4, <1>6, <2>2, <3>1
    <2> QED BY <2>1, <2>2
  <1> HIDE DEF f
  <1> QED BY <1>6, <1>7, <1>8, <1>9 DEF Joins

Assoc(a, b, c) == (a \o b) \o c = a \o (b \o c)

LEMMA ConcatAssoc ==
  ASSUME NEW S, NEW a \in Seq(S), NEW b \in Seq(S), NEW c \in Seq(S)
  PROVE  Assoc(a, b, c)
  BY DEF Assoc

LEMMA ConcatEmpty ==
  ASSUME NEW S, NEW a \in Seq(S)
  PROVE  a \o <<>> = a /\ <<>> \o a = a
  OBVIOUS

\* Joining the members of two rows, one behind the other.
TwoRows(S, n, m, a, b, c) ==
  /\ n \in Nat /\ m \in Nat
  /\ Pieces(a, n, S) /\ Pieces(b, m, S) /\ Pieces(c, n + m, S) /\ Behind(a, n, b, m, c)

LEMMA FlattenConcat ==
  ASSUME NEW S, NEW n, NEW m, NEW a, NEW b, NEW c, TwoRows(S, n, m, a, b, c)
  PROVE  FlattenSeq(c) = FlattenSeq(a) \o FlattenSeq(b)
  <1>a. /\ n \in Nat /\ m \in Nat
        /\ Pieces(a, n, S) /\ Pieces(b, m, S) /\ Pieces(c, n + m, S) /\ Behind(a, n, b, m, c)
    BY DEF TwoRows
  <1>0. (\A i \in 1..n : c[i] = a[i]) /\ \A j \in 1..m : c[n + j] = b[j]
    BY <1>a DEF Behind
  <1>1. PICK f : Joins(f, a, n, S) /\ FlattenSeq(a) = f[n]
    BY <1>a, FlattenJoins
  <1>2. PICK g : Joins(g, b, m, S) /\ FlattenSeq(b) = g[m]
    BY <1>a, FlattenJoins
  <1>3. PICK h : Joins(h, c, n + m, S) /\ FlattenSeq(c) = h[n + m]
    <2>1. n + m \in Nat
      BY <1>a
    <2> QED BY <1>a, <2>1, FlattenJoins, Zenon
  <1>4. \A i \in 0..n : h[i] = f[i]
    <2> DEFINE bad == {i \in 0..n : h[i] # f[i]}
    <2> SUFFICES ASSUME bad # {} PROVE FALSE
      OBVIOUS
    <2>1. PICK i \in bad : \A k \in bad : ~(k < i)
      <3>1. bad \subseteq Nat
        BY <1>a
      <3> HIDE DEF bad
      <3> QED BY <3>1, Least
    <2>2. i \in 0..n /\ h[i] # f[i]
      BY <2>1
    <2>3. h[0] = f[0]
      BY <1>1, <1>3 DEF Joins
    <2>4. i \in 1..n /\ i \in 1..(n + m) /\ i - 1 \in 0..n /\ i - 1 < i
      BY <1>a, <2>2, <2>3
    <2>5. h[i - 1] = f[i - 1]
      <3>1. i - 1 \notin bad
        <4> HIDE DEF bad
        <4> QED BY <2>1, <2>4
      <3> QED BY <2>4, <3>1
    <2>6. h[i] = h[i - 1] \o c[i] /\ f[i] = f[i - 1] \o a[i] /\ c[i] = a[i]
      BY <1>0, <1>1, <1>3, <2>4, Zenon DEF Joins
    <2> QED BY <2>2, <2>5, <2>6, Zenon
  <1>5. \A j \in 0..m : h[n + j] = f[n] \o g[j]
    <2> DEFINE bad == {j \in 0..m : h[n + j] # f[n] \o g[j]}
    <2> SUFFICES ASSUME bad # {} PROVE FALSE
      OBVIOUS
    <2>1. PICK j \in bad : \A k \in bad : ~(k < j)
      <3>1. 0..m \subseteq Nat /\ bad \subseteq 0..m
        <4>1. 0..m \subseteq Nat
          BY <1>a
        <4>2. bad \subseteq 0..m
          BY Zenon
        <4> QED BY <4>1, <4>2, Zenon
      <3> HIDE DEF bad
      <3>2. bad \subseteq Nat
        BY <3>1, Zenon
      <3> QED BY <3>2, Least
    <2>2. j \in 0..m /\ h[n + j] # f[n] \o g[j]
      BY <2>1
    <2>3. f[n] \in Seq(S) /\ g[0] = <<>>
      <3>1. n \in 0..n
        BY <1>a
      <3> QED BY <1>1, <1>2, <3>1, Zenon DEF Joins
    <2>4. h[n + 0] = f[n] \o g[0]
      <3>1. n + 0 = n /\ n \in 0..n
        BY <1>a
      <3>2. f[n] \o <<>> = f[n]
        BY <2>3, ConcatEmpty
      <3> QED BY <1>4, <2>3, <3>1, <3>2, Zenon
    <2>a. j # 0
      BY <2>2, <2>4
    <2>5. j \in 1..m /\ n + j \in 1..(n + m) /\ j - 1 \in 0..m /\ j - 1 < j /\ (n + j) - 1 = n + (j - 1)
      BY <1>a, <2>2, <2>a
    <2>6. h[n + (j - 1)] = f[n] \o g[j - 1]
      <3>1. j - 1 \notin bad
        <4> HIDE DEF bad
        <4> QED BY <2>1, <2>5
      <3> QED BY <2>5, <3>1
    <2>7. h[n + j] = h[(n + j) - 1] \o c[n + j] /\ g[j] = g[j - 1] \o b[j] /\ c[n + j] = b[j]
      BY <1>0, <1>2, <1>3, <2>5, Zenon DEF Joins
    <2>8. g[j - 1] \in Seq(S) /\ b[j] \in Seq(S)
      BY <1>2, <1>a, <2>5, Zenon DEF Joins, Pieces
    <2>b. \A p, q, r \in Seq(S) : Assoc(p, q, r)
      BY ConcatAssoc
    <2>9. (f[n] \o g[j - 1]) \o b[j] = f[n] \o (g[j - 1] \o b[j])
      BY <2>3, <2>8, <2>b, Zenon DEF Assoc
    <2> QED BY <2>2, <2>5, <2>6, <2>7, <2>9, Zenon
  <1>6. m \in 0..m
    BY <1>a
  <1> QED BY <1>1, <1>2, <1>3, <1>5, <1>6

-----------------------------------------------------------------------------
(* The text of a message *)

\* The symbols the parsers and the template write themselves.
Literals ==
  {"pad", "space", "<image>", "<think>", "</think>", "<tool_response>", "</tool_response>",
   "system", "user", "assistant"}
Words == STRING \cup Literals

\* What the parsers make of the messages of a request.
IsConversation(ms) ==
  /\ Len(ms) \in Nat /\ ms = [i \in 1..Len(ms) |-> ms[i]]
  /\ \A i \in 1..Len(ms) : ms[i].content \in Seq(Words) /\ ms[i].reasoning = <<>>

\* The recursion of ContentOf, over the first n parts.
Collects(f, parts, n) ==
  f = [k \in 0..n |-> IF k = 0 THEN <<>> ELSE AddPart(f[k - 1], parts[k])]

LEMMA CollectExists ==
  ASSUME NEW parts, NEW n \in Nat
  PROVE  \E f : Collects(f, parts, n)
  <1> DEFINE bad == {k \in 0..n : ~\E f : Collects(f, parts, k)}
  <1>1. Collects([i \in 0..0 |-> <<>>], parts, 0)
    <2> DEFINE f == [i \in 0..0 |-> <<>>]
               g == [k \in 0..0 |-> IF k = 0 THEN <<>> ELSE AddPart(f[k - 1], parts[k])]
    <2>1. \A k \in 0..0 : k = 0
      OBVIOUS
    <2>2. \A k \in 0..0 : f[k] = g[k]
      BY <2>1, Zenon
    <2>3. f = g
      BY <2>2, Zenon
    <2> QED BY <2>3, Zenon DEF Collects
  <1>2. ASSUME NEW k \in 0..(n - 1), NEW f, Collects(f, parts, k)
        PROVE  \E g : Collects(g, parts, k + 1)
    <2> DEFINE g == [i \in 0..(k + 1) |-> IF i = 0 THEN <<>> ELSE AddPart(f[i - 1], parts[i])]
               h == [i \in 0..(k + 1) |-> IF i = 0 THEN <<>> ELSE AddPart(g[i - 1], parts[i])]
    <2>1. f = [i \in 0..k |-> IF i = 0 THEN <<>> ELSE AddPart(f[i - 1], parts[i])]
      BY <1>2, Zenon DEF Collects
    <2>2. ASSUME NEW i \in 0..k PROVE g[i] = f[i]
      <3>1. i \in 0..(k + 1)
        OBVIOUS
      <3>2. g[i] = IF i = 0 THEN <<>> ELSE AddPart(f[i - 1], parts[i])
        BY <3>1, Zenon
      <3>3. f[i] = IF i = 0 THEN <<>> ELSE AddPart(f[i - 1], parts[i])
        BY <2>1, Zenon
      <3> QED BY <3>2, <3>3, Zenon
    <2>3. ASSUME NEW i \in 0..(k + 1) PROVE g[i] = h[i]
      <3>1. CASE i = 0
        BY <3>1, Zenon
      <3>2. CASE i # 0
        <4>1. i - 1 \in 0..k
          BY <3>2
        <4>2. g[i - 1] = f[i - 1]
          BY <2>2, <4>1
        <4>3. g[i] = AddPart(f[i - 1], parts[i])
          BY <3>2, Zenon
        <4>4. h[i] = AddPart(g[i - 1], parts[i])
          BY <3>2, Zenon
        <4> QED BY <4>2, <4>3, <4>4, Zenon
      <3> QED BY <3>1, <3>2
    <2>4. g = h
      <3>1. DOMAIN g = 0..(k + 1) /\ g = [i \in DOMAIN g |-> g[i]]
        BY Zenon
      <3> HIDE DEF g
      <3>2. DOMAIN h = 0..(k + 1) /\ h = [i \in DOMAIN h |-> h[i]]
        BY Zenon
      <3> HIDE DEF h
      <3> QED BY <2>3, <3>1, <3>2
    <2>5. Collects(g, parts, k + 1)
      BY <2>4, Zenon DEF Collects
    <2> QED BY <2>5, Zenon
  <1>3. bad = {}
    <2> SUFFICES ASSUME bad # {} PROVE FALSE
      OBVIOUS
    <2>1. PICK k \in bad : \A m \in bad : ~(m < k)
      <3>1. bad \subseteq Nat
        OBVIOUS
      <3> HIDE DEF bad
      <3> QED BY <3>1, Least
    <2>2. k # 0
      BY <1>1, <2>1
    <2>3. k - 1 \in 0..(n - 1) /\ (k - 1) + 1 = k /\ k - 1 \in 0..n /\ k - 1 < k
      BY <2>1, <2>2
    <2>4. k - 1 \notin bad
      <3> HIDE DEF bad
      <3> QED BY <2>1, <2>3
    <2>5. PICK f : Collects(f, parts, k - 1)
      BY <2>3, <2>4
    <2>6. \E g : Collects(g, parts, (k - 1) + 1)
      BY <1>2, <2>3, <2>5, Zenon
    <2> QED BY <2>1, <2>3, <2>6
  <1>4. n \notin bad /\ n \in 0..n
    BY <1>3
  <1> QED BY <1>4

Collected(f, parts, n) ==
  f[0] = <<>> /\ \A k \in 1..n : f[k] = AddPart(f[k - 1], parts[k])

LEMMA ContentIs ==
  ASSUME NEW item, "parts" \in DOMAIN item, Len(item.parts) \in Nat
  PROVE  \E f : Collected(f, item.parts, Len(item.parts)) /\ ContentOf(item) = f[Len(item.parts)]
  <1> DEFINE n == Len(item.parts)
             F == CHOOSE f : Collects(f, item.parts, n)
  <1>1. ContentOf(item) = F[n]
    BY Zenon DEF ContentOf, Collects
  <1>2. Collects(F, item.parts, n)
    BY CollectExists
  <1> HIDE DEF F
  <1>3. F = [k \in 0..n |-> IF k = 0 THEN <<>> ELSE AddPart(F[k - 1], item.parts[k])]
    BY <1>2, Zenon DEF Collects
  <1>4. 0 \in 0..n /\ \A k \in 1..n : k \in 0..n /\ k # 0
    OBVIOUS
  <1>5. F[0] = <<>>
    BY <1>3, <1>4, Zenon
  <1>6. \A k \in 1..n : F[k] = AddPart(F[k - 1], item.parts[k])
    BY <1>3, <1>4, Zenon
  <1>7. Collected(F, item.parts, n)
    BY <1>5, <1>6, Zenon DEF Collected
  <1> QED BY <1>1, <1>7, Zenon

\* The texts of the parts are over W, and so is what AddPart puts between them.
Over(W, parts) ==
  /\ "space" \in W /\ "<image>" \in W
  /\ \A k \in DOMAIN parts : parts[k].type = "text" => parts[k].text \in Seq(W)

LEMMA AddPartType ==
  ASSUME NEW W, NEW parts, Over(W, parts), NEW k \in DOMAIN parts, NEW text \in Seq(W)
  PROVE  AddPart(text, parts[k]) \in Seq(W)
  <1>1. "space" \in W /\ "<image>" \in W
    BY Zenon DEF Over
  <1> DEFINE gap == IF text = <<>> \/ Last(text) = "space" THEN <<>> ELSE <<"space">>
  <1>2. gap \in Seq(W) /\ <<"<image>">> \in Seq(W)
    <2>1. <<>> \in Seq(W) /\ <<"space">> \in Seq(W) /\ <<"<image>">> \in Seq(W)
      BY <1>1
    <2> QED BY <2>1, Zenon
  <1> HIDE DEF gap
  <1>3. (text \o gap) \o <<"<image>">> \in Seq(W)
    BY <1>2, ConcatType
  <1>4. CASE parts[k].type = "text"
    <2>2. parts[k].text \in Seq(W)
      BY <1>4, Zenon DEF Over
    <2>3. text \o parts[k].text \in Seq(W)
      BY <2>2, ConcatType
    <2> QED BY <1>4, <2>3, Zenon DEF AddPart
  <1>5. CASE parts[k].type # "text"
    BY <1>3, <1>5, Zenon DEF AddPart, gap
  <1> QED BY <1>4, <1>5

LEMMA ContentType ==
  ASSUME NEW item \in ItemType, item # NotObject, NEW W,
         IF "parts" \in DOMAIN item THEN Over(W, item.parts) ELSE item.content \in Seq(W)
  PROVE  ContentOf(item) \in Seq(W)
  <1>1. CASE "parts" \notin DOMAIN item
    <2>2. item.content \in Seq(W)
      BY <1>1
    <2> QED BY <1>1, <2>2, Zenon DEF ContentOf
  <1>2. CASE "parts" \in DOMAIN item
    <2> DEFINE parts == item.parts
               n == Len(parts)
    <2>1. parts \in Seq(PartType)
      BY <1>2 DEF ItemType
    <2>2. n \in Nat /\ DOMAIN parts = 1..n
      BY <2>1
    <2>a. Over(W, parts)
      BY <1>2
    <2>3. PICK f : Collected(f, parts, n) /\ ContentOf(item) = f[n]
      BY <1>2, <2>2, ContentIs, Zenon
    <2> HIDE DEF parts, n
    <2>4. f[0] = <<>> /\ \A k \in 1..n : f[k] = AddPart(f[k - 1], parts[k])
      BY <2>3, Zenon DEF Collected
    <2> DEFINE bad == {k \in 0..n : f[k] \notin Seq(W)}
    <2>5. bad = {}
      <3> SUFFICES ASSUME bad # {} PROVE FALSE
        OBVIOUS
      <3>1. PICK k \in bad : \A m \in bad : ~(m < k)
        <4>1. bad \subseteq Nat
          BY <2>2
        <4> HIDE DEF bad
        <4> QED BY <4>1, Least
      <3>2. k \in 0..n /\ f[k] \notin Seq(W)
        BY <3>1
      <3>a. <<>> \in Seq(W)
        OBVIOUS
      <3>3. k # 0
        BY <2>4, <3>2, <3>a
      <3>4. k \in 1..n /\ k - 1 \in 0..n /\ k - 1 < k
        BY <2>2, <3>2, <3>3
      <3>5. f[k - 1] \in Seq(W)
        <4>1. k - 1 \notin bad
          <5> HIDE DEF bad
          <5> QED BY <3>1, <3>4
        <4> QED BY <3>4, <4>1
      <3>6. AddPart(f[k - 1], parts[k]) \in Seq(W)
        BY <2>2, <2>a, <3>4, <3>5, AddPartType
      <3> QED BY <2>4, <3>2, <3>4, <3>6, Zenon
    <2>6. n \in 0..n
      BY <2>2
    <2> QED BY <2>3, <2>5, <2>6
  <1> QED BY <1>1, <1>2

LEMMA OverWords ==
  ASSUME NEW item \in ItemType, item # NotObject
  PROVE  IF "parts" \in DOMAIN item THEN Over(Words, item.parts) ELSE item.content \in Seq(Words)
  <1>1. "space" \in Words /\ "<image>" \in Words
    BY Zenon DEF Words, Literals
  <1>2. CASE "parts" \notin DOMAIN item
    <2>1. item.content \in Seq(STRING)
      BY <1>2 DEF ItemType
    <2>2. item.content \in Seq(Words)
      BY <2>1 DEF Words
    <2> QED BY <1>2, <2>2
  <1>3. CASE "parts" \in DOMAIN item
    <2> DEFINE parts == item.parts
    <2>1. parts \in Seq(PartType)
      BY <1>3 DEF ItemType
    <2> HIDE DEF parts
    <2>2. ASSUME NEW k \in DOMAIN parts, parts[k].type = "text"
          PROVE  parts[k].text \in Seq(Words)
      <3>1. parts[k] \in PartType
        BY <2>1
      <3>2. parts[k].text \in Seq(STRING)
        BY <2>2, <3>1 DEF PartType
      <3> QED BY <3>2 DEF Words
    <2>3. Over(Words, parts)
      BY <1>1, <2>2, Zenon DEF Over
    <2> QED BY <1>3, <2>3, Zenon DEF parts
  <1> QED BY <1>2, <1>3

-----------------------------------------------------------------------------
(* What the parsers return *)

\* A request the parsers accept: its images can be checked, its budget is an int.
IsRequest(r) ==
  /\ r = [messages |-> r.messages, images |-> r.images, max_tokens |-> r.max_tokens,
          temperature |-> r.temperature, top_p |-> r.top_p, stream |-> r.stream]
  /\ IsConversation(r.messages)
  /\ r.images \in Seq(ImageType)
  /\ r.max_tokens \in 1..IntMax

LEMMA RecordIsRequest ==
  ASSUME NEW m, IsConversation(m), NEW images \in Seq(ImageType), NEW n \in 1..IntMax, NEW t, NEW p, NEW b,
         NEW r, r = [messages |-> m, images |-> images, max_tokens |-> n,
                     temperature |-> t, top_p |-> p, stream |-> b]
  PROVE  IsRequest(r)
  BY DEF IsRequest

LEMMA RequestUpdate ==
  ASSUME NEW r, IsRequest(r), NEW m, IsConversation(m), NEW images \in Seq(ImageType)
  PROVE  /\ IsRequest([r EXCEPT !.images = images, !.messages = m])
         /\ IsRequest([r EXCEPT !.messages = m])
  <1> DEFINE Made(x, y) == [messages |-> x, images |-> y, max_tokens |-> r.max_tokens,
                            temperature |-> r.temperature, top_p |-> r.top_p, stream |-> r.stream]
  <1>1. /\ r = Made(r.messages, r.images) /\ r.images \in Seq(ImageType) /\ r.max_tokens \in 1..IntMax
    BY DEF IsRequest
  <1>2. DOMAIN r = {"messages", "images", "max_tokens", "temperature", "top_p", "stream"}
    BY <1>1
  <1>3. [r EXCEPT !.images = images, !.messages = m] = Made(m, images)
    <2> DEFINE s == [r EXCEPT !.images = images]
    <2>1. s = Made(r.messages, images)
      BY <1>2
    <2>2. DOMAIN s = DOMAIN r /\ s.max_tokens = r.max_tokens /\ s.temperature = r.temperature
          /\ s.top_p = r.top_p /\ s.stream = r.stream /\ s.images = images
      BY <2>1, <1>2
    <2>3. [r EXCEPT !.images = images, !.messages = m] = [s EXCEPT !.messages = m]
      BY <1>2
    <2> HIDE DEF s
    <2>4. [s EXCEPT !.messages = m] = Made(m, images)
      BY <1>2, <2>2
    <2> QED BY <2>3, <2>4
  <1>4. [r EXCEPT !.messages = m] = Made(m, r.images)
    BY <1>2
  <1>5. IsRequest(Made(m, images)) /\ IsRequest(Made(m, r.images))
    BY <1>1, RecordIsRequest, Zenon
  <1> QED BY <1>3, <1>4, <1>5, Zenon

LEMMA ResultRequest ==
  ASSUME NEW q, NEW w, w = [code |-> "", req |-> q]
  PROVE  w.req = q
  OBVIOUS

LEMMA NameDomains == DOMAIN JsonNames = 1..3 /\ DOMAIN <<"prompt">> = 1..1
  BY DEF JsonNames

LEMMA EmptyIsRequest == IsRequest(EmptyRequest)
  <1>1. IsConversation(<<>>)
    BY DEF IsConversation
  <1>2. EmptyRequest.messages = <<>>
    BY DEF EmptyRequest
  <1>3. IsConversation(EmptyRequest.messages)
    BY <1>1, <1>2, Zenon
  <1> QED BY <1>3, RequestAssumption DEF IsRequest, EmptyRequest

LEMMA SeqFacts ==
  ASSUME NEW S, NEW s \in Seq(S)
  PROVE  /\ DOMAIN s = 1..Len(s) /\ Len(s) \in Nat
         /\ \A i \in 1..Len(s) : s[i] \in S
  OBVIOUS

LEMMA ImagesOfType ==
  ASSUME NEW item \in ItemType
  PROVE  ImagesOf(item) \in Seq(ImageType)
  <1>1. CASE "parts" \in DOMAIN item
    <2> DEFINE parts == item.parts
               s == [i \in 1..Len(parts) |->
                       IF IsImagePart(parts[i]) THEN <<parts[i].url>> ELSE <<>>]
    <2>1. parts \in Seq(PartType)
      BY <1>1 DEF ItemType, NotObject
    <2>2. ImagesOf(item) = FlattenSeq(s)
      <3>1. DOMAIN parts = 1..Len(parts)
        BY <2>1
      <3> QED BY <1>1, <3>1 DEF ImagesOf
    <2> HIDE DEF parts
    <2>3. Len(parts) \in Nat
      BY <2>1
    <2>4. ASSUME NEW i \in 1..Len(parts) PROVE s[i] \in Seq(ImageType)
      <3>1. parts[i] \in PartType
        BY <2>1
      <3>2. IsImagePart(parts[i]) => parts[i].url \in ImageType
        BY <3>1 DEF PartType, IsImagePart
      <3>3. s[i] = IF IsImagePart(parts[i]) THEN <<parts[i].url>> ELSE <<>>
        OBVIOUS
      <3> QED BY <3>2, <3>3
    <2>5. s = [i \in 1..Len(parts) |-> s[i]]
      OBVIOUS
    <2> HIDE DEF s
    <2> QED BY <2>2, <2>3, <2>4, <2>5, FlattenSeqType
  <1>2. CASE "parts" \notin DOMAIN item
    BY <1>2 DEF ImagesOf
  <1> QED BY <1>1, <1>2

\* A positive result of the conversion to int is within int, also when the number
\* was not.
LEMMA ParseMaxTokensType ==
  ASSUME NEW n \in MaxTokensType, NEW k \in ParseMaxTokens(n), ~(k <= 0)
  PROVE  k \in 1..IntMax
  <1>1. CASE n.type = Absent
    BY <1>1, RequestAssumption DEF ParseMaxTokens
  <1>2. CASE n.type # Absent
    <2>1. n.type = "number" /\ k \in ToInt(n.value)
      <3>1. CASE n.type # "number" \/ n.value <= 0
        <4>1. k = 0
          BY <1>2, <3>1 DEF ParseMaxTokens
        <4> QED BY <4>1
      <3>2. CASE ~(n.type # "number" \/ n.value <= 0)
        BY <1>2, <3>2 DEF ParseMaxTokens
      <3> QED BY <3>1, <3>2
    <2> DEFINE v == n.value
    <2>2. v \in Int /\ ~(v <= 0)
      <3>1. v \in Int
        BY <2>1 DEF MaxTokensType
      <3>2. v <= 0 => k = 0
        BY <1>2, <2>1 DEF ParseMaxTokens
      <3> QED BY <3>1, <3>2
    <2> HIDE DEF v
    <2>3. IntMax \in Nat
      BY RequestAssumption
    <2>4. CASE v <= IntMax
      BY <2>1, <2>2, <2>3, <2>4 DEF ToInt, v
    <2>5. CASE ~(v <= IntMax)
      <3> DEFINE m == 2 * (IntMax + 1)
                 r == (v + IntMax + 1) % m
      <3>1. r \in 0..(m - 1) /\ m \in Nat
        BY <2>2, <2>3
      <3>2. k = -IntMax - 1 \/ k = r - IntMax - 1
        BY <2>1, <2>5 DEF ToInt, v
      <3>3. m = 2 * IntMax + 2
        BY <2>3
      <3> HIDE DEF r, m
      <3> QED BY <2>3, <3>1, <3>2, <3>3
    <2> QED BY <2>4, <2>5
  <1> QED BY <1>1, <1>2

LEMMA FailedCode ==
  ASSUME NEW code PROVE Failed(code).code = code
  BY DEF Failed

\* Without an error every item is a message.
NoErrors(items) == FirstError(items) = ""
IsMessage(item) == ItemError(item) = "" /\ item # NotObject
ErrorsAt(items) == {k \in DOMAIN items : ItemError(items[k]) # ""}

LEMMA NoErrorsAt ==
  ASSUME NEW items, ErrorsAt(items) \subseteq Nat, NoErrors(items)
  PROVE  ErrorsAt(items) = {}
  <1> DEFINE bad == ErrorsAt(items)
             first == CHOOSE k \in bad : \A j \in bad : k <= j
  <1>1. FirstError(items) = IF bad = {} THEN "" ELSE ItemError(items[first])
    BY Zenon DEF FirstError, ErrorsAt
  <1>2. \A k \in bad : ItemError(items[k]) # ""
    BY Zenon DEF ErrorsAt
  <1>3. ASSUME bad # {} PROVE first \in bad
    <2> HIDE DEF bad
    <2>1. bad \subseteq Nat
      BY DEF bad
    <2>2. PICK n \in bad : \A m \in bad : ~(m < n)
      BY <2>1, <1>3, Least
    <2>3. \A m \in bad : n <= m
      BY <2>1, <2>2
    <2> QED BY <2>2, <2>3, Zenon
  <1> HIDE DEF bad, first
  <1>4. FirstError(items) = ""
    BY Zenon DEF NoErrors
  <1>5. bad = {}
    BY <1>1, <1>2, <1>3, <1>4, Zenon
  <1> QED BY <1>5 DEF bad

LEMMA NoError ==
  ASSUME NEW items \in Seq(ItemType), NoErrors(items), NEW i \in 1..Len(items)
  PROVE  IsMessage(items[i])
  <1>1. DOMAIN items = 1..Len(items) /\ Len(items) \in Nat
    OBVIOUS
  <1>2. DOMAIN items \subseteq Nat
    BY <1>1
  <1>3. ErrorsAt(items) \subseteq Nat
    BY <1>2, Zenon DEF ErrorsAt
  <1>4. ErrorsAt(items) = {}
    BY <1>3, NoErrorsAt, Zenon
  <1>5. ItemError(items[i]) = ""
    BY <1>1, <1>4, Zenon DEF ErrorsAt
  <1>6. "invalid_message" # ""
    BY Z3
  <1>7. items[i] = NotObject => ItemError(items[i]) = "invalid_message"
    BY Zenon DEF ItemError
  <1> QED BY <1>5, <1>6, <1>7, Zenon DEF IsMessage

LEMMA ParsedIsConversation ==
  ASSUME NEW items \in Seq(ItemType), NoErrors(items)
  PROVE  IsConversation(ParsedMessages(items))
  <1> DEFINE n == Len(items)
             ms == [i \in 1..n |->
                      [role |-> items[i].role, content |-> ContentOf(items[i]), reasoning |-> <<>>]]
  <1>1. n \in Nat /\ DOMAIN items = 1..n /\ \A i \in 1..n : items[i] \in ItemType
    OBVIOUS
  <1>2. ParsedMessages(items) = ms
    BY <1>1, Zenon DEF ParsedMessages
  <1>3. ASSUME NEW i \in 1..n PROVE ContentOf(items[i]) \in Seq(Words)
    <2>1. IsMessage(items[i])
      BY NoError
    <2>2. items[i] \in ItemType /\ items[i] # NotObject
      BY <1>1, <2>1, Zenon DEF IsMessage
    <2> QED BY <2>2, OverWords, ContentType
  <1>4. \A i \in 1..n : ms[i].content = ContentOf(items[i]) /\ ms[i].reasoning = <<>>
    OBVIOUS
  <1>5. ms = [i \in 1..n |-> ms[i]] /\ Len(ms) = n
    BY <1>1
  <1> HIDE DEF ms, n
  <1> QED BY <1>1, <1>2, <1>3, <1>4, <1>5, Zenon DEF IsConversation

\* What an accepted JSON text says of the messages and images of the request.
FromJson(json, r) ==
  /\ json \in JsonType /\ json.type = "object" /\ NoErrors(json.messages)
  /\ r.messages = ParsedMessages(json.messages)
  /\ r.images = FlattenSeq([i \in DOMAIN json.messages |-> ImagesOf(json.messages[i])])

LEMMA ParseRequestType ==
  ASSUME NEW json \in JsonType, NEW r \in ParseRequest(json), r.code = ""
  PROVE  IsRequest(r.req) /\ FromJson(json, r.req)
  <1> DEFINE items == json.messages
             parsed == FlattenSeq([i \in DOMAIN items |-> ImagesOf(items[i])])
             Good(n) == [messages |-> ParsedMessages(items), images |-> parsed,
                         max_tokens |-> n, temperature |-> Temperature(json.temperature),
                         top_p |-> TopP(json.top_p), stream |-> json.stream]
             Result(n) == IF n <= 0 THEN Failed("invalid_parameter")
                          ELSE IF items = <<>> THEN Failed("missing_required_field")
                          ELSE IF FirstError(items) # "" THEN Failed(FirstError(items))
                          ELSE [code |-> "", req |-> Good(n)]
  <1>1. json.type = "object"
    <2> SUFFICES ASSUME json.type # "object" PROVE FALSE
      OBVIOUS
    <2>1. r = Failed("parse_error") \/ r = Failed("bad_request")
      BY Zenon DEF ParseRequest
    <2>2. r.code = "parse_error" \/ r.code = "bad_request"
      BY <2>1, FailedCode
    <2> QED BY <2>2
  <1>2. PICK n \in ParseMaxTokens(json.max_tokens) : r = Result(n)
    <2>1. json.type # "malformed"
      BY <1>1
    <2>2. ParseRequest(json) = {Result(n) : n \in ParseMaxTokens(json.max_tokens)}
      BY <1>1, <2>1, Zenon DEF ParseRequest
    <2> HIDE DEF Result
    <2> QED BY <2>2, Zenon
  <1>3. items \in Seq(ItemType)
    BY <1>1 DEF JsonType
  <1>4. json.max_tokens \in MaxTokensType
    BY <1>1 DEF JsonType
  <1> HIDE DEF items
  <1>5. ~(n <= 0) /\ NoErrors(items) /\ r = [code |-> "", req |-> Good(n)]
    <2> HIDE DEF Good
    <2>1. CASE n <= 0
      <3>1. r = Failed("invalid_parameter")
        BY <1>2, <2>1
      <3>2. r.code = "invalid_parameter"
        BY <3>1, FailedCode
      <3> QED BY <3>2
    <2>2. CASE ~(n <= 0) /\ items = <<>>
      <3>1. r = Failed("missing_required_field")
        BY <1>2, <2>2
      <3>2. r.code = "missing_required_field"
        BY <3>1, FailedCode
      <3> QED BY <3>2
    <2>3. CASE ~(n <= 0) /\ items # <<>> /\ FirstError(items) # ""
      <3>1. r = Failed(FirstError(items))
        BY <1>2, <2>3, Zenon
      <3>2. r.code = FirstError(items)
        BY <3>1, FailedCode
      <3> QED BY <2>3, <3>2
    <2>4. CASE ~(n <= 0) /\ items # <<>> /\ FirstError(items) = ""
      BY <1>2, <2>4, Zenon DEF NoErrors
    <2> QED BY <2>1, <2>2, <2>3, <2>4, Zenon
  <1>6. n \in 1..IntMax
    BY <1>2, <1>4, <1>5, ParseMaxTokensType
  <1>7. parsed \in Seq(ImageType)
    <2> DEFINE images == [i \in 1..Len(items) |-> ImagesOf(items[i])]
    <2>1. DOMAIN items = 1..Len(items) /\ Len(items) \in Nat
      BY <1>3, SeqFacts, Zenon
    <2>2. \A i \in 1..Len(items) : items[i] \in ItemType
      BY <1>3, SeqFacts, Zenon
    <2>3. \A i \in 1..Len(items) : images[i] \in Seq(ImageType)
      BY <2>2, ImagesOfType
    <2>4. images = [i \in 1..Len(items) |-> images[i]]
      OBVIOUS
    <2>5. parsed = FlattenSeq(images)
      BY <2>1
    <2> HIDE DEF images
    <2> QED BY <2>1, <2>3, <2>4, <2>5, FlattenSeqType
  <1>a. parsed = FlattenSeq([i \in DOMAIN items |-> ImagesOf(items[i])])
    OBVIOUS
  <1> HIDE DEF parsed
  <1>8. r.req = Good(n)
    BY <1>5
  <1>9. IsConversation(ParsedMessages(items))
    BY <1>3, <1>5, ParsedIsConversation
  <1>10. IsRequest(r.req)
    BY <1>6, <1>7, <1>8, <1>9, RecordIsRequest, Zenon
  <1> HIDE DEF Result
  <1>11. r.req.messages = ParsedMessages(items) /\ r.req.images = parsed
    <2>1. Good(n).messages = ParsedMessages(items)
      OBVIOUS
    <2>2. Good(n).images = parsed
      OBVIOUS
    <2> QED BY <1>8, <2>1, <2>2, Zenon
  <1>12. FromJson(json, r.req)
    <2> HIDE DEF Good
    <2> QED BY <1>1, <1>5, <1>11, <1>a, Zenon DEF FromJson, items
  <1> QED BY <1>10, <1>12

Named(parts, names, i) == \E k \in DOMAIN names : parts[i].name = names[k]

\* FindPart returns a part that has one of the names.
LEMMA FindPartFacts ==
  ASSUME NEW N \in Nat, NEW parts, DOMAIN parts = 1..N,
         NEW K \in Nat, NEW names, DOMAIN names = 1..K,
         FindPart(parts, names) # 0
  PROVE  /\ FindPart(parts, names) \in 1..N
         /\ Named(parts, names, FindPart(parts, names))
  <1> DEFINE named(k) == {i \in DOMAIN parts : parts[i].name = names[k]}
             known == {k \in DOMAIN names : named(k) # {}}
             k == CHOOSE n \in known : \A m \in known : n <= m
             i == CHOOSE j \in named(k) : \A l \in named(k) : j <= l
  <1>1. known # {} /\ FindPart(parts, names) = i
    <2>1. FindPart(parts, names) = IF known = {} THEN 0 ELSE i
      BY Zenon DEF FindPart
    <2> HIDE DEF known, i
    <2> QED BY <2>1
  <1>2. k \in known
    <2>1. known \subseteq Nat
      OBVIOUS
    <2> HIDE DEF known
    <2>2. PICK n \in known : \A m \in known : ~(m < n)
      BY <1>1, <2>1, Least
    <2>3. \A m \in known : n <= m
      BY <2>1, <2>2
    <2> QED BY <2>2, <2>3
  <1>3. k \in DOMAIN names /\ named(k) # {}
    BY <1>2
  <1> HIDE DEF k
  <1>4. i \in named(k)
    <2> DEFINE T == named(k)
    <2>1. T \subseteq Nat /\ T # {}
      BY <1>3
    <2> HIDE DEF T
    <2>2. PICK j \in T : \A l \in T : ~(l < j)
      BY <2>1, Least
    <2>3. \A l \in T : j <= l
      BY <2>1, <2>2
    <2>4. (CHOOSE jj \in T : \A l \in T : jj <= l) \in T
      BY <2>2, <2>3
    <2> QED BY <2>4 DEF T
  <1>5. i \in 1..N /\ parts[i].name = names[k]
    BY <1>4
  <1> HIDE DEF i
  <1> QED BY <1>1, <1>3, <1>5 DEF Named

\* The parts of a form are parts it was sent with.
LEMMA FormPartsType ==
  ASSUME NEW form, IsForm(form)
  PROVE  /\ DOMAIN FormParts(form) = 1..Len(FormParts(form))
         /\ Len(FormParts(form)) \in Nat
         /\ \A i \in 1..Len(FormParts(form)) : IsFormPart(FormParts(form)[i])
  <1> DEFINE sent == form.parts
             P == {sent[i] : i \in 1..Len(sent)}
             kept == IF form.closed THEN sent ELSE Front(sent)
             s == [i \in 1..Len(kept) |-> IF kept[i].headers THEN <<kept[i]>> ELSE <<>>]
  <1>1. /\ Len(sent) \in Nat /\ sent = [i \in 1..Len(sent) |-> sent[i]]
        /\ \A i \in 1..Len(sent) : IsFormPart(sent[i])
    BY DEF IsForm
  <1>2. FormParts(form) = FlattenSeq([i \in DOMAIN kept |->
                                        IF kept[i].headers THEN <<kept[i]>> ELSE <<>>])
    BY Zenon DEF FormParts
  <1> HIDE DEF sent
  <1>3. sent \in Seq(P)
    BY <1>1
  <1>4. \A p \in P : IsFormPart(p)
    BY <1>1
  <1> HIDE DEF P
  <1>5. kept \in Seq(P)
    <2>1. Front(sent) \in Seq(P)
      BY <1>3 DEF Front
    <2> QED BY <1>3, <2>1
  <1> HIDE DEF kept
  <1>6. DOMAIN kept = 1..Len(kept) /\ Len(kept) \in Nat /\ \A i \in 1..Len(kept) : kept[i] \in P
    BY <1>5, SeqFacts, Zenon
  <1>7. \A i \in 1..Len(kept) : s[i] \in Seq(P)
    BY <1>6
  <1>8. s = [i \in 1..Len(kept) |-> s[i]]
    OBVIOUS
  <1>9. FormParts(form) = FlattenSeq(s)
    BY <1>2, <1>6
  <1> HIDE DEF s
  <1>10. FlattenSeq(s) \in Seq(P)
    BY <1>6, <1>7, <1>8, FlattenSeqType
  <1>11. FormParts(form) \in Seq(P)
    BY <1>9, <1>10
  <1> QED BY <1>4, <1>11, SeqFacts, Zenon

LEMMA FormImagesType ==
  ASSUME NEW parts, DOMAIN parts = 1..Len(parts), Len(parts) \in Nat,
         \A i \in 1..Len(parts) : IsFormPart(parts[i])
  PROVE  FormImages(parts) \in Seq(ImageType)
  <1> DEFINE s == [i \in 1..Len(parts) |->
                     IF HasImage(parts[i]) THEN <<parts[i].image>> ELSE <<>>]
  <1>1. ASSUME NEW i \in 1..Len(parts) PROVE s[i] \in Seq(ImageType)
    <2>1. HasImage(parts[i]) => parts[i].image \in ImageType
      BY DEF IsFormPart
    <2>2. s[i] = IF HasImage(parts[i]) THEN <<parts[i].image>> ELSE <<>>
      OBVIOUS
    <2> QED BY <2>1, <2>2
  <1>2. s = [i \in 1..Len(parts) |-> s[i]]
    OBVIOUS
  <1>3. FormImages(parts) = FlattenSeq(s)
    BY DEF FormImages
  <1> HIDE DEF s
  <1> QED BY <1>1, <1>2, <1>3, FlattenSeqType

\* A prompt alone in a form is one message.
LEMMA NamedPrompt ==
  ASSUME NEW parts, NEW i, Named(parts, <<"prompt">>, i)
  PROVE  parts[i].name = "prompt"
  <1> DEFINE names == <<"prompt">>
  <1>1. PICK k \in DOMAIN names : parts[i].name = names[k]
    BY Zenon DEF Named
  <1>2. names[k] = "prompt"
    <2>1. k \in 1..1
      BY NameDomains
    <2>2. k = 1
      BY <2>1
    <2> QED BY <2>2
  <1> QED BY <1>1, <1>2, Zenon

LEMMA StringWords == \A t \in Seq(STRING) : t \in Seq(Words)
  BY DEF Words

LEMMA OneMessage ==
  ASSUME NEW m, m.content \in Seq(Words), m.reasoning = <<>>
  PROVE  IsConversation(<<m>>)
  <1> DEFINE ms == <<m>>
  <1>1. Len(ms) = 1 /\ ms = [i \in 1..1 |-> ms[i]] /\ \A i \in 1..1 : ms[i] = m
    OBVIOUS
  <1>2. 1 \in Nat
    OBVIOUS
  <1> HIDE DEF ms
  <1>3. IsConversation(ms)
    BY <1>1, <1>2, Zenon DEF IsConversation
  <1> QED BY <1>3 DEF ms

\* The tag is put before one text and changes no other.
LEMMA AddTagType ==
  ASSUME NEW ms, IsConversation(ms)
  PROVE  IsConversation(AddTag(ms))
  <1> DEFINE users == {i \in DOMAIN ms : ms[i].role = "user"}
             first == CHOOSE i \in users : \A j \in users : i <= j
             front == <<"<image>", "space">>
             added == [ms EXCEPT ![first].content = front \o @]
             n == Len(ms)
  <1>1. /\ n \in Nat /\ ms = [i \in 1..n |-> ms[i]]
        /\ \A i \in 1..n : ms[i].content \in Seq(Words) /\ ms[i].reasoning = <<>>
    BY Zenon DEF IsConversation
  <1>2. DOMAIN ms = 1..n
    BY <1>1, Zenon
  <1>3. AddTag(ms) = ms \/ AddTag(ms) = added
    BY Zenon DEF AddTag
  <1>4. front \in Seq(Words)
    <2>1. "<image>" \in Words /\ "space" \in Words
      BY Zenon DEF Words, Literals
    <2> QED BY <2>1
  <1> HIDE DEF first, front, n
  <1>5. added = [i \in 1..n |-> IF i = first THEN [ms[i] EXCEPT !.content = front \o @] ELSE ms[i]]
    BY <1>1, <1>2, Zenon
  <1>6. ASSUME NEW i \in 1..n
        PROVE  added[i].content \in Seq(Words) /\ added[i].reasoning = <<>>
    <2>1. added[i] = IF i = first THEN [ms[i] EXCEPT !.content = front \o @] ELSE ms[i]
      BY <1>5, Zenon
    <2> HIDE DEF added
    <2>2. CASE i # first
      BY <1>1, <2>1, <2>2
    <2>3. CASE i = first
      <3> DEFINE m == ms[i]
                 t == front \o m.content
      <3>1. t \in Seq(Words) /\ m.reasoning = <<>> /\ m.content \in Seq(Words)
        BY <1>1, <1>4, ConcatType
      <3>2. added[i] = [m EXCEPT !.content = t]
        BY <2>1, <2>3, Zenon
      <3> HIDE DEF m, t
      <3>3. [m EXCEPT !.content = t].content = t \/ [m EXCEPT !.content = t].content = m.content
        OBVIOUS
      <3>4. [m EXCEPT !.content = t].reasoning = m.reasoning
        OBVIOUS
      <3> QED BY <3>1, <3>2, <3>3, <3>4, Zenon
    <2> QED BY <2>2, <2>3
  <1>7. added = [i \in 1..n |-> added[i]] /\ DOMAIN added = 1..n
    BY <1>5, Zenon
  <1> HIDE DEF added
  <1>8. Len(added) = n
    BY <1>1, <1>7
  <1>9. IsConversation(added)
    BY <1>1, <1>6, <1>7, <1>8, Zenon DEF IsConversation
  <1> QED BY <1>3, <1>9, Zenon

LEMMA WithFormType ==
  ASSUME NEW parts, DOMAIN parts = 1..Len(parts), Len(parts) \in Nat,
         \A i \in 1..Len(parts) : IsFormPart(parts[i]),
         NEW r, IsRequest(r), WithForm(parts, r).code = ""
  PROVE  IsRequest(WithForm(parts, r).req)
  <1> DEFINE images == r.images \o FormImages(parts)
             messages == IF images = <<>> THEN r.messages ELSE AddTag(r.messages)
             q == [r EXCEPT !.images = images, !.messages = messages]
  <1>1. r.messages # <<>>
    <2> SUFFICES ASSUME r.messages = <<>> PROVE FALSE
      OBVIOUS
    <2>1. WithForm(parts, r) = Failed("missing_required_field")
      BY Zenon DEF WithForm
    <2>2. WithForm(parts, r).code = "missing_required_field"
      BY <2>1, FailedCode, Zenon
    <2> QED BY <2>2
  <1>2. WithForm(parts, r) = [code |-> "", req |-> q]
    BY <1>1, Zenon DEF WithForm
  <1>3. WithForm(parts, r).req = q
    BY <1>2, ResultRequest, Zenon
  <1>4. FormImages(parts) \in Seq(ImageType)
    BY FormImagesType, Zenon
  <1>5. images \in Seq(ImageType)
    <2>1. r.images \in Seq(ImageType)
      BY Zenon DEF IsRequest
    <2> QED BY <1>4, <2>1, ConcatType, Zenon
  <1>a. IsConversation(messages)
    <2>1. IsConversation(r.messages)
      BY Zenon DEF IsRequest
    <2>2. IsConversation(AddTag(r.messages))
      BY <2>1, AddTagType
    <2> QED BY <2>1, <2>2, Zenon
  <1> HIDE DEF images, messages
  <1>6. IsRequest(q)
    BY <1>5, <1>a, RequestUpdate, Zenon
  <1> HIDE DEF q
  <1> QED BY <1>3, <1>6, Zenon

LEMMA ParseFormType ==
  ASSUME NEW form, IsForm(form), NEW r \in ParseForm(form), r.code = ""
  PROVE  IsRequest(r.req)
  <1> DEFINE parts == FormParts(form)
             json == FindPart(parts, JsonNames)
             text == FindPart(parts, <<"prompt">>)
             user == [role |-> "user", content |-> parts[text].text, reasoning |-> <<>>]
             asked == [EmptyRequest EXCEPT !.messages = <<user>>]
  <1>1. /\ DOMAIN parts = 1..Len(parts) /\ Len(parts) \in Nat
        /\ \A i \in 1..Len(parts) : IsFormPart(parts[i])
    BY FormPartsType, Zenon
  <1>2. form.boundary = "found"
    <2> SUFFICES ASSUME form.boundary # "found" PROVE FALSE
      OBVIOUS
    <2>1. r = Failed("multipart_parse_error")
      BY Zenon DEF ParseForm
    <2>2. r.code = "multipart_parse_error"
      BY <2>1, FailedCode, Zenon
    <2> QED BY <2>2
  <1>3. ParseForm(form) =
          IF json # 0
          THEN {IF q.code # "" THEN q ELSE WithForm(parts, q.req) : q \in ParseRequest(parts[json].json)}
          ELSE IF text # 0 THEN {WithForm(parts, asked)} ELSE {WithForm(parts, EmptyRequest)}
    BY <1>2, Zenon DEF ParseForm
  <1> HIDE DEF parts
  <1>4. CASE json # 0
    <2>1. json \in 1..Len(parts) /\ Named(parts, JsonNames, json)
      <3> DEFINE K == 3
                 N == Len(parts)
      <3>1. K \in Nat /\ DOMAIN JsonNames = 1..K
        BY NameDomains
      <3>2. N \in Nat /\ DOMAIN parts = 1..N
        BY <1>1
      <3> HIDE DEF K, N
      <3>3. FindPart(parts, JsonNames) \in 1..N
        BY <1>4, <3>1, <3>2, FindPartFacts, Zenon
      <3>4. Named(parts, JsonNames, FindPart(parts, JsonNames))
        BY <1>4, <3>1, <3>2, FindPartFacts, Zenon
      <3> QED BY <3>3, <3>4, Zenon DEF N
    <2> HIDE DEF json
    <2>2. parts[json].json \in JsonType
      BY <1>1, <2>1 DEF IsFormPart, Named
    <2>3. PICK q \in ParseRequest(parts[json].json) :
            r = IF q.code # "" THEN q ELSE WithForm(parts, q.req)
      BY <1>3, <1>4, Zenon
    <2>4. q.code = "" /\ r = WithForm(parts, q.req)
      BY <2>3, Zenon
    <2>5. IsRequest(q.req)
      BY <2>2, <2>3, <2>4, ParseRequestType, Zenon
    <2> QED BY <1>1, <2>4, <2>5, WithFormType, Zenon
  <1>5. CASE json = 0 /\ text # 0
    <2>1. r = WithForm(parts, asked)
      BY <1>3, <1>5, Zenon
    <2>2. IsRequest(asked)
      <3>1. EmptyRequest.images \in Seq(ImageType)
        BY EmptyIsRequest, Zenon DEF IsRequest
      <3>2. parts[text].text \in Seq(STRING)
        <4> DEFINE K == 1
                   N == Len(parts)
        <4>1. K \in Nat /\ DOMAIN <<"prompt">> = 1..K
          BY NameDomains
        <4>2. N \in Nat /\ DOMAIN parts = 1..N
          BY <1>1
        <4>3. text \in 1..N /\ Named(parts, <<"prompt">>, text)
          <5> HIDE DEF K, N
          <5>1. FindPart(parts, <<"prompt">>) \in 1..N
            BY <1>5, <4>1, <4>2, FindPartFacts, Zenon
          <5>2. Named(parts, <<"prompt">>, FindPart(parts, <<"prompt">>))
            BY <1>5, <4>1, <4>2, FindPartFacts, Zenon
          <5> QED BY <5>1, <5>2, Zenon
        <4> HIDE DEF text
        <4>4. parts[text].name = "prompt"
          BY <4>3, NamedPrompt, Zenon
        <4>5. IsFormPart(parts[text])
          BY <1>1, <4>3, Zenon
        <4> QED BY <4>4, <4>5, Zenon DEF IsFormPart
      <3>3. user.content \in Seq(Words) /\ user.reasoning = <<>>
        <4> DEFINE asks == parts[text].text
        <4>1. asks \in Seq(Words)
          <5> QED BY <3>2, StringWords, Zenon
        <4> HIDE DEF asks
        <4>2. user = [role |-> "user", content |-> asks, reasoning |-> <<>>]
          BY DEF asks
        <4> QED BY <4>1, <4>2
      <3> HIDE DEF user
      <3>4. IsConversation(<<user>>)
        BY <3>3, OneMessage, Zenon
      <3> QED BY <3>1, <3>4, EmptyIsRequest, RequestUpdate, Zenon
    <2> HIDE DEF asked
    <2> QED BY <1>1, <2>1, <2>2, WithFormType, Zenon
  <1>6. CASE json = 0 /\ text = 0
    <2>1. r = WithForm(parts, EmptyRequest)
      BY <1>3, <1>6, Zenon
    <2> QED BY <1>1, <2>1, EmptyIsRequest, WithFormType, Zenon
  <1> QED BY <1>4, <1>5, <1>6

-----------------------------------------------------------------------------
(* The parameters of the template *)

TemplateInv ==
  /\ is_loaded \in BOOLEAN /\ effort \in Efforts /\ DOMAIN instructions = Efforts
  /\ ParametersOfOneTemplate

LEMMA InitTemplateInv == Init => TemplateInv
  BY DEF Init, InitTemplate, TemplateInv, ParametersOfOneTemplate, DefaultEffort,
         DefaultInstructions, Efforts

LEMMA LoadTemplateInv ==
  ASSUME NEW t, LoadFromString(t) PROVE TemplateInv'
  <1>1. raw_template' = t /\ is_loaded' = Parses(t)
    BY DEF LoadFromString
  <1>2. CASE Parses(t)
    <2>1. effort' = t.effort /\ instructions' = Extracted(t)
      BY <1>2 DEF LoadFromString
    <2>2. t.effort \in Efforts
      BY <1>2 DEF Parses, ParsesEffort
    <2>3. DOMAIN Extracted(t) = Efforts
      BY DEF Extracted, Efforts
    <2>4. is_loaded' = TRUE
      BY <1>1, <1>2 DEF Parses, ParsesEffort
    <2> QED BY <1>1, <2>1, <2>2, <2>3, <2>4 DEF TemplateInv, ParametersOfOneTemplate
  <1>3. CASE ~Parses(t)
    <2>1. effort' = DefaultEffort /\ instructions' = DefaultInstructions
      BY <1>3 DEF LoadFromString
    <2>2. DefaultEffort \in Efforts /\ DOMAIN DefaultInstructions = Efforts
      BY DEF DefaultEffort, DefaultInstructions, Efforts
    <2>3. is_loaded' = FALSE
      BY <1>1, <1>3 DEF Parses, ParsesEffort
    <2> QED BY <2>1, <2>2, <2>3 DEF TemplateInv, ParametersOfOneTemplate
  <1> QED BY <1>2, <1>3

LEMMA KeepTemplateInv ==
  ASSUME TemplateInv, UNCHANGED templateVars PROVE TemplateInv'
  BY DEF TemplateInv, ParametersOfOneTemplate, templateVars

LEMMA NextTemplateInv == TemplateInv /\ [Next]_vars => TemplateInv'
  <1> SUFFICES ASSUME TemplateInv, [Next]_vars PROVE TemplateInv'
    OBVIOUS
  <1>1. CASE LoadTemplate
    BY <1>1, LoadTemplateInv, KeepTemplateInv DEF LoadTemplate, LoadEmpty
  <1>2. CASE UNCHANGED templateVars
    BY <1>2, KeepTemplateInv
  <1>3. LoadTemplate \/ UNCHANGED templateVars
    BY DEF Next, vars, Receive, Parse, CheckImage, CheckParameters, ApplyTemplate,
           CheckContext, Generate
  <1> QED BY <1>1, <1>2, <1>3

\* However often and with whatever templates load_from_string was called, the
\* effort and the instructions render() uses come from one template, or both are
\* the built-in ones.
THEOREM OneTemplate == Spec => []ParametersOfOneTemplate
  <1>1. TemplateInv => ParametersOfOneTemplate
    BY DEF TemplateInv
  <1> QED BY <1>1, InitTemplateInv, NextTemplateInv, PTL DEF Spec

-----------------------------------------------------------------------------
(* Indices and sizes *)

LEMMA NoIndex ==
  ASSUME NEW n \in Nat, NEW c, c = 0
  PROVE  c \in 0..n /\ \A i \in 1..c : FALSE
  OBVIOUS

LEMMA NextIndex ==
  ASSUME NEW n \in Nat, NEW c \in 0..n, c < n
  PROVE  c + 1 \in 0..n /\ \A i \in 1..(c + 1) : i = c + 1 \/ i \in 1..c
  OBVIOUS

LEMMA Shorter ==
  ASSUME NEW a \in Int, NEW b \in Int
  PROVE  /\ a + b - a = b /\ a + b - b = a
         /\ (a >= b => b <= a) /\ (~(a >= b) => a <= b)
  OBVIOUS

\* When the long side is within the aspect of the short one, both are within bounds.
LEMMA AspectBounds ==
  ASSUME NEW max \in Nat, NEW aspect \in Nat, NEW long \in Int, NEW short \in Int,
         short <= long, ~(long > max), ~(short <= 0), ~(long > aspect * short)
  PROVE  /\ long \in 1..max /\ short \in 1..max
         /\ long <= aspect * short /\ short <= aspect * long
  <1>1. aspect * short \in Int /\ aspect * long \in Int
    OBVIOUS
  <1>2. aspect # 0
    OBVIOUS
  <1>3. aspect * long >= long
    BY <1>2
  <1> QED BY <1>1, <1>3

-----------------------------------------------------------------------------
(* Admission *)

\* What has been checked when handle_client is at a stage.
AdmissionInv ==
  /\ stage \in {"load", "parse", "images", "template", "context", "generate", "closed"}
  /\ stage = "parse" => body \in Bodies
  /\ IsRequest(req)
  /\ checked \in 0..Len(req.images)
  /\ stage \in {"load", "parse"} => checked = 0
  /\ \A i \in 1..checked : ImageError(req.images[i]) = ""
  /\ stage \in {"template", "context", "generate"} =>
       checked = Len(req.images) /\ ParameterError = ""
  /\ stage = "generate" => ValidateTokens(CountTokens(prompt), req.max_tokens)

LEMMA InitAdmission == Init => AdmissionInv
  <1> SUFFICES ASSUME Init PROVE AdmissionInv
    OBVIOUS
  <1>1. stage = "load" /\ checked = 0 /\ req = EmptyRequest
    BY DEF Init
  <1>2. IsRequest(req)
    BY <1>1, EmptyIsRequest, Zenon
  <1>3. req.images \in Seq(ImageType)
    BY <1>2, Zenon DEF IsRequest
  <1>4. checked \in 0..Len(req.images)
    BY <1>1, <1>3
  <1> QED BY <1>1, <1>2, <1>4 DEF AdmissionInv

LEMMA ParseAdmission ==
  ASSUME AdmissionInv, Parse PROVE AdmissionInv'
  <1>1. /\ stage = "parse" /\ body \in Bodies /\ checked = 0 /\ checked' = checked
        /\ IsRequest(req)
    BY DEF Parse, AdmissionInv
  <1>2. PICK r \in (IF "json" \in DOMAIN body THEN ParseRequest(body.json) ELSE ParseForm(body.form)) :
          IF r.code # "" THEN Answer(400, r.code) /\ UNCHANGED req
          ELSE req' = r.req /\ stage' = "images" /\ UNCHANGED response
    BY Zenon DEF Parse
  <1>3. CASE r.code # ""
    <2>1. stage' = "closed" /\ req' = req
      BY <1>2, <1>3 DEF Answer
    <2> QED BY <1>1, <2>1 DEF AdmissionInv
  <1>4. CASE r.code = ""
    <2>1. stage' = "images" /\ req' = r.req
      BY <1>2, <1>4
    <2>2. IsRequest(r.req)
      <3>1. CASE "json" \in DOMAIN body
        <4>1. body.json \in JsonType /\ r \in ParseRequest(body.json)
          BY <1>1, <1>2, <3>1, BodyAssumption, Zenon
        <4> QED BY <1>4, <4>1, ParseRequestType, Zenon
      <3>2. CASE "json" \notin DOMAIN body
        <4>1. IsForm(body.form) /\ r \in ParseForm(body.form)
          BY <1>1, <1>2, <3>2, BodyAssumption, Zenon
        <4> QED BY <1>4, <4>1, ParseFormType, Zenon
      <3> QED BY <3>1, <3>2
    <2>3. IsRequest(req')
      BY <2>1, <2>2, Zenon
    <2>4. req'.images \in Seq(ImageType)
      BY <2>3, Zenon DEF IsRequest
    <2>5. checked' = 0 /\ checked' \in 0..Len(req'.images) /\ \A i \in 1..checked' : FALSE
      <3>1. Len(req'.images) \in Nat
        BY <2>4, SeqFacts, Zenon
      <3> QED BY <1>1, <3>1, NoIndex, Zenon
    <2> QED BY <2>1, <2>3, <2>5, Zenon DEF AdmissionInv
  <1> QED BY <1>3, <1>4

LEMMA CheckImageAdmission ==
  ASSUME AdmissionInv, CheckImage PROVE AdmissionInv'
  <1> DEFINE error == ImageError(req.images[checked + 1])
  <1>1. /\ stage = "images" /\ checked < Len(req.images)
        /\ UNCHANGED <<body, req, prompt>>
        /\ IF error # "" THEN Answer(400, error) /\ UNCHANGED checked
           ELSE checked' = checked + 1 /\ UNCHANGED <<stage, response>>
    BY Zenon DEF CheckImage
  <1>2. CASE error # ""
    <2>1. stage' = "closed" /\ checked' = checked
      BY <1>1, <1>2, Zenon DEF Answer
    <2> QED BY <1>1, <2>1 DEF AdmissionInv
  <1>3. CASE error = ""
    <2>1. checked' = checked + 1 /\ stage' = "images"
      BY <1>1, <1>3, Zenon
    <2>2. checked \in 0..Len(req.images) /\ \A i \in 1..checked : ImageError(req.images[i]) = ""
      BY DEF AdmissionInv
    <2>3. req.images \in Seq(ImageType)
      BY DEF AdmissionInv, IsRequest
    <2>a. /\ checked + 1 \in 0..Len(req.images)
          /\ \A i \in 1..(checked + 1) : i = checked + 1 \/ i \in 1..checked
      <3>1. Len(req.images) \in Nat
        BY <2>3, SeqFacts, Zenon
      <3> QED BY <1>1, <2>2, <3>1, NextIndex, Zenon
    <2>4. checked' \in 0..Len(req'.images)
      BY <1>1, <2>1, <2>a
    <2>5. ASSUME NEW i \in 1..checked' PROVE ImageError(req'.images[i]) = ""
      <3>1. i = checked + 1 \/ i \in 1..checked
        BY <2>1, <2>a, Zenon
      <3> QED BY <1>1, <1>3, <2>2, <3>1
    <2>6. IsRequest(req')
      BY <1>1 DEF AdmissionInv
    <2> QED BY <2>1, <2>4, <2>5, <2>6 DEF AdmissionInv
  <1> QED BY <1>2, <1>3

LEMMA CheckParametersAdmission ==
  ASSUME AdmissionInv, CheckParameters PROVE AdmissionInv'
  <1>1. /\ stage = "images" /\ checked = Len(req.images)
        /\ UNCHANGED <<body, req, checked, prompt>>
        /\ (ParameterError = "" /\ stage' = "template") \/ stage' = "closed"
    BY DEF CheckParameters, Answer
  <1>2. ParameterError' = ParameterError
    BY <1>1 DEF ParameterError
  <1> QED BY <1>1, <1>2 DEF AdmissionInv

LEMMA CheckContextAdmission ==
  ASSUME AdmissionInv, CheckContext PROVE AdmissionInv'
  <1>1. /\ stage = "context"
        /\ UNCHANGED <<body, req, checked, prompt>>
        /\ \/ ValidateTokens(CountTokens(prompt), req.max_tokens) /\ stage' = "generate"
           \/ stage' = "closed"
    BY DEF CheckContext, Answer
  <1>2. ParameterError' = ParameterError
    BY <1>1 DEF ParameterError
  <1> QED BY <1>1, <1>2 DEF AdmissionInv

LEMMA NextAdmission == AdmissionInv /\ [Next]_vars => AdmissionInv'
  <1> SUFFICES ASSUME AdmissionInv, [Next]_vars PROVE AdmissionInv'
    OBVIOUS
  <1>1. CASE UNCHANGED vars
    <2>1. UNCHANGED <<stage, body, req, checked, prompt>>
      BY <1>1 DEF vars, requestVars
    <2>2. ParameterError' = ParameterError
      BY <2>1 DEF ParameterError
    <2> QED BY <2>1, <2>2 DEF AdmissionInv
  <1>2. CASE LoadTemplate
    <2>1. UNCHANGED <<stage, body, req, checked, prompt>>
      BY <1>2 DEF LoadTemplate, requestVars
    <2>2. ParameterError' = ParameterError
      BY <2>1 DEF ParameterError
    <2> QED BY <2>1, <2>2 DEF AdmissionInv
  <1>3. ASSUME NEW b \in Bodies, Receive(b) PROVE AdmissionInv'
    <2>1. stage = "load" /\ stage' = "parse" /\ body' = b /\ UNCHANGED <<req, checked>>
      BY <1>3 DEF Receive
    <2> QED BY <2>1 DEF AdmissionInv
  <1>4. CASE ApplyTemplate
    <2>1. stage = "template" /\ stage' = "context" /\ UNCHANGED <<body, req, checked>>
      BY <1>4 DEF ApplyTemplate
    <2>2. ParameterError' = ParameterError
      BY <2>1 DEF ParameterError
    <2> QED BY <2>1, <2>2 DEF AdmissionInv
  <1>5. CASE Generate
    <2>1. stage' = "closed" /\ UNCHANGED <<req, checked>> /\ stage = "generate"
      BY <1>5 DEF Generate, Answer
    <2> QED BY <2>1 DEF AdmissionInv
  <1> QED BY <1>1, <1>2, <1>3, <1>4, <1>5, ParseAdmission, CheckImageAdmission,
             CheckParametersAdmission, CheckContextAdmission DEF Next

\* An image without error is within the bounds on both sides.
LEMMA CheckedInBounds ==
  ASSUME NEW image \in ImageType, ImageError(image) = ""
  PROVE  InBounds(image)
  <1>1. HeaderError(image) = "" /\ SizeError(image) = ""
    BY DEF ImageError
  <1>2. image.format \in Readable
    BY <1>1 DEF HeaderError
  <1> DEFINE w == image.width
             h == image.height
  <1>3. w \in Int /\ h \in Int
    BY <1>2 DEF ImageType
  <1>4. MaxResolution \in Nat /\ MaxAspect \in Nat
    BY RequestAssumption
  <1>5. /\ w + h - w = h /\ w + h - h = w
        /\ (w >= h => h <= w) /\ (~(w >= h) => w <= h)
    BY <1>3, Shorter, Zenon
  <1>6. CASE w >= h
    <2>1. ~(w > MaxResolution) /\ ~(h <= 0) /\ ~(w > MaxAspect * h)
      BY <1>1, <1>5, <1>6 DEF SizeError
    <2> HIDE DEF w, h
    <2>2. h <= w
      BY <1>5, <1>6, Zenon
    <2>3. /\ w \in 1..MaxResolution /\ h \in 1..MaxResolution
          /\ w <= MaxAspect * h /\ h <= MaxAspect * w
      BY <1>3, <1>4, <2>1, <2>2, AspectBounds, Zenon
    <2> QED BY <2>3 DEF InBounds, w, h
  <1>7. CASE ~(w >= h)
    <2>1. ~(h > MaxResolution) /\ ~(w <= 0) /\ ~(h > MaxAspect * w)
      BY <1>1, <1>5, <1>7 DEF SizeError
    <2> HIDE DEF w, h
    <2>2. w <= h
      BY <1>5, <1>7, Zenon
    <2>3. /\ w \in 1..MaxResolution /\ h \in 1..MaxResolution
          /\ w <= MaxAspect * h /\ h <= MaxAspect * w
      BY <1>3, <1>4, <2>1, <2>2, AspectBounds, Zenon
    <2> QED BY <2>3 DEF InBounds, w, h
  <1> QED BY <1>6, <1>7

\* Whatever the body of a request, JSON or form, and however its max_tokens was
\* converted, what handle_client passes to generate has images within the bounds,
\* greedy parameters, and a prompt and a budget that fit in the context together.
THEOREM AdmissionIsSound == Spec => []AdmittedIsServable
  <1>1. AdmissionInv => AdmittedIsServable
    <2> SUFFICES ASSUME AdmissionInv, stage = "generate"
                 PROVE  /\ \A i \in DOMAIN req.images : InBounds(req.images[i])
                        /\ req.temperature = "zero" /\ req.top_p = "one"
                        /\ req.max_tokens > 0 /\ Len(prompt) + req.max_tokens <= MaxSeqLen
      BY Zenon DEF AdmittedIsServable
    <2>1. checked = Len(req.images) /\ ParameterError = ""
      BY DEF AdmissionInv
    <2>2. req.images \in Seq(ImageType) /\ \A i \in 1..checked : ImageError(req.images[i]) = ""
      BY DEF AdmissionInv, IsRequest
    <2>3. ASSUME NEW i \in DOMAIN req.images PROVE InBounds(req.images[i])
      <3>1. req.images[i] \in ImageType /\ i \in 1..checked
        BY <2>1, <2>2, SeqFacts, Zenon
      <3> QED BY <2>2, <3>1, CheckedInBounds, Zenon
    <2>4. req.temperature = "zero" /\ req.top_p = "one"
      BY <2>1 DEF ParameterError
    <2>5. req.max_tokens > 0 /\ Len(prompt) + req.max_tokens <= MaxSeqLen
      BY DEF AdmissionInv, ValidateTokens, CountTokens
    <2> QED BY <2>3, <2>4, <2>5
  <1> QED BY <1>1, InitAdmission, NextAdmission, PTL DEF Spec

\* The rest of the type invariant.
Answered == response.status \in {0, 200, 400} /\ loads \in 0..MaxLoads

\* The state of a request keeps its types: in particular max_tokens of an accepted
\* request is a positive int, also after an undefined conversion, and no more images
\* are checked than there are.
THEOREM RequestTypeCorrect == Spec => []TypeOK
  <1>1. Init => Answered
    <2> SUFFICES ASSUME Init PROVE Answered
      OBVIOUS
    <2>1. response = None /\ loads = 0
      BY DEF Init
    <2>2. response.status = 0
      BY <2>1 DEF None
    <2>3. loads \in 0..MaxLoads
      BY <2>1, RequestAssumption
    <2> QED BY <2>2, <2>3 DEF Answered
  <1>2. Answered /\ [Next]_vars => Answered'
    <2> SUFFICES ASSUME Answered, [Next]_vars PROVE Answered'
      OBVIOUS
    <2>1. CASE LoadTemplate
      <3>1. loads < MaxLoads /\ loads' = loads + 1 /\ response' = response
        BY <2>1 DEF LoadTemplate, requestVars
      <3>2. loads' \in 0..MaxLoads
        BY <3>1, RequestAssumption DEF Answered
      <3> QED BY <3>1, <3>2 DEF Answered
    <2>2. ASSUME NEW status \in {200, 400}, NEW code, Answer(status, code), loads' = loads
          PROVE  Answered'
      <3>1. response'.status = status
        BY <2>2 DEF Answer
      <3> QED BY <2>2, <3>1 DEF Answered
    <2>3. CASE UNCHANGED <<response, loads>>
      BY <2>3 DEF Answered
    <2>4. CASE Generate
      <3>1. loads' = loads
        BY <2>4, Zenon DEF Generate
      <3> DEFINE ok == 200
                 refused == 400
      <3>2. Answer(ok, "") \/ Answer(refused, "empty_prompt")
        BY <2>4, Zenon DEF Generate
      <3>3. ok \in {200, 400} /\ refused \in {200, 400}
        OBVIOUS
      <3> HIDE DEF ok, refused
      <3> QED BY <2>2, <3>1, <3>2, <3>3, Zenon
    <2>5. ASSUME ~Generate
          PROVE  \/ LoadTemplate \/ UNCHANGED <<response, loads>>
                 \/ \E status \in {200, 400} : \E code : Answer(status, code) /\ loads' = loads
      <3>1. CASE Parse
        <4>1. loads' = loads
          BY <3>1 DEF Parse
        <4>2. response' = response \/ \E code : Answer(400, code)
          BY <3>1, Zenon DEF Parse
        <4> QED BY <4>1, <4>2
      <3>2. CASE CheckImage
        BY <3>2 DEF CheckImage
      <3>3. CASE CheckParameters
        BY <3>3 DEF CheckParameters
      <3>4. CASE CheckContext
        BY <3>4 DEF CheckContext
      <3>5. CASE UNCHANGED vars \/ ApplyTemplate \/ \E b \in Bodies : Receive(b)
        BY <3>5 DEF vars, requestVars, ApplyTemplate, Receive
      <3> QED BY <2>5, <3>1, <3>2, <3>3, <3>4, <3>5 DEF Next
    <2> QED BY <2>1, <2>2, <2>3, <2>4, <2>5
  <1>3. TemplateInv /\ AdmissionInv /\ Answered => TypeOK
    BY Zenon DEF TemplateInv, AdmissionInv, Answered, TypeOK, IsRequest
  <1> QED BY <1>1, <1>2, <1>3, InitTemplateInv, NextTemplateInv, InitAdmission, NextAdmission, PTL
          DEF Spec

-----------------------------------------------------------------------------
(* Counting in a sequence *)

\* How often x is among the first k members of s.
CountTo(s, x, k) == Cardinality({i \in 1..k : s[i] = x})

LEMMA CountZero ==
  ASSUME NEW s, NEW x, NEW k \in Nat, \A i \in 1..k : s[i] # x
  PROVE  CountTo(s, x, k) = 0
  <1>1. {i \in 1..k : s[i] = x} = {}
    OBVIOUS
  <1> QED BY <1>1, FS_EmptySet, Zenon DEF CountTo

LEMMA CountNat ==
  ASSUME NEW s, NEW x, NEW k \in Nat
  PROVE  CountTo(s, x, k) \in Nat
  <1>1. IsFiniteSet(1..k)
    BY FS_Interval
  <1>2. IsFiniteSet({i \in 1..k : s[i] = x})
    BY <1>1, FS_Subset
  <1> QED BY <1>2, FS_CardinalityType DEF CountTo

LEMMA CountSame ==
  ASSUME NEW s, NEW t, NEW x, NEW k \in Nat, \A i \in 1..k : s[i] = t[i]
  PROVE  CountTo(s, x, k) = CountTo(t, x, k)
  <1>1. {i \in 1..k : s[i] = x} = {i \in 1..k : t[i] = x}
    OBVIOUS
  <1> QED BY <1>1, Zenon DEF CountTo

LEMMA CountNext ==
  ASSUME NEW s, NEW x, NEW k \in Nat
  PROVE  CountTo(s, x, k + 1) = CountTo(s, x, k) + IF s[k + 1] = x THEN 1 ELSE 0
  <1> DEFINE T == {i \in 1..k : s[i] = x}
             U == {i \in 1..(k + 1) : s[i] = x}
  <1>1. IsFiniteSet(T) /\ Cardinality(T) \in Nat
    <2>1. IsFiniteSet(1..k)
      BY FS_Interval
    <2>2. IsFiniteSet(T)
      BY <2>1, FS_Subset
    <2> QED BY <2>2, FS_CardinalityType
  <1>2. CASE s[k + 1] = x
    <2>1. U = T \cup {k + 1} /\ k + 1 \notin T
      BY <1>2
    <2> HIDE DEF T, U
    <2>2. Cardinality(U) = Cardinality(T) + 1
      BY <1>1, <2>1, FS_AddElement
    <2> QED BY <1>2, <2>2 DEF CountTo, T, U
  <1>3. CASE s[k + 1] # x
    <2>1. U = T
      BY <1>3
    <2>2. CountTo(s, x, k + 1) = CountTo(s, x, k)
      BY <2>1, Zenon DEF CountTo
    <2>3. CountTo(s, x, k) \in Nat
      BY CountNat
    <2> QED BY <1>3, <2>2, <2>3
  <1> QED BY <1>2, <1>3

LEMMA CountShift ==
  ASSUME NEW p, NEW q, NEW r, NEW x, NEW m \in Nat, NEW n \in Nat, Behind(p, m, q, n, r)
  PROVE  CountTo(r, x, m + n) = CountTo(p, x, m) + CountTo(q, x, n)
  <1>0. (\A i \in 1..m : r[i] = p[i]) /\ \A j \in 1..n : r[m + j] = q[j]
    BY DEF Behind
  <1> DEFINE bad == {j \in 0..n : CountTo(r, x, m + j) # CountTo(p, x, m) + CountTo(q, x, j)}
  <1> SUFFICES ASSUME bad # {} PROVE FALSE
    OBVIOUS
  <1>1. PICK j \in bad : \A i \in bad : ~(i < j)
    <2>1. bad \subseteq Nat
      OBVIOUS
    <2> HIDE DEF bad
    <2> QED BY <2>1, Least
  <1>2. j \in 0..n /\ CountTo(r, x, m + j) # CountTo(p, x, m) + CountTo(q, x, j)
    BY <1>1
  <1>3. CountTo(p, x, m) \in Nat
    BY CountNat
  <1>4. CASE j = 0
    <2>1. CountTo(r, x, m) = CountTo(p, x, m)
      BY <1>0, CountSame
    <2>2. CountTo(q, x, 0) = 0
      BY CountZero
    <2>3. m + j = m
      BY <1>4
    <2> QED BY <1>2, <1>3, <1>4, <2>1, <2>2, <2>3
  <1>5. CASE j # 0
    <2> DEFINE i == j - 1
    <2>1. i \in 0..n /\ i \in Nat /\ i < j /\ j = i + 1 /\ m + j = (m + i) + 1 /\ m + i \in Nat
      BY <1>2, <1>5
    <2>2. i \notin bad
      <3> HIDE DEF bad, i
      <3> QED BY <1>1, <2>1
    <2>3. CountTo(r, x, m + i) = CountTo(p, x, m) + CountTo(q, x, i)
      BY <2>1, <2>2
    <2>4. r[(m + i) + 1] = q[i + 1]
      BY <1>0, <1>2, <2>1
    <2> HIDE DEF bad, i
    <2>5. CountTo(r, x, (m + i) + 1) = CountTo(r, x, m + i) + IF r[(m + i) + 1] = x THEN 1 ELSE 0
      BY <2>1, CountNext
    <2>6. CountTo(q, x, i + 1) = CountTo(q, x, i) + IF q[i + 1] = x THEN 1 ELSE 0
      BY <2>1, CountNext
    <2>7. CountTo(q, x, i) \in Nat
      BY <2>1, CountNat
    <2>8. CountTo(r, x, (m + i) + 1) = CountTo(p, x, m) + CountTo(q, x, i + 1)
      BY <1>3, <2>3, <2>4, <2>5, <2>6, <2>7
    <2> QED BY <1>2, <2>1, <2>8
  <1> QED BY <1>4, <1>5

CountsAdd(p, q, r, x) ==
  /\ \A k \in 0..Len(p) : CountTo(r, x, k) = CountTo(p, x, k)
  /\ \A j \in 0..Len(q) : CountTo(r, x, Len(p) + j) = CountTo(p, x, Len(p)) + CountTo(q, x, j)

LEMMA CountCat ==
  ASSUME NEW S, NEW p \in Seq(S), NEW q \in Seq(S), NEW x
  PROVE  CountsAdd(p, q, p \o q, x)
  <1> DEFINE r == p \o q
  <1>1. /\ Len(p) \in Nat /\ Len(q) \in Nat
        /\ \A i \in 1..Len(p) : r[i] = p[i]
        /\ \A j \in 1..Len(q) : r[Len(p) + j] = q[j]
    OBVIOUS
  <1> HIDE DEF r
  <1>2. ASSUME NEW k \in 0..Len(p) PROVE CountTo(r, x, k) = CountTo(p, x, k)
    <2>1. k \in Nat /\ \A i \in 1..k : r[i] = p[i]
      BY <1>1
    <2> QED BY <2>1, CountSame
  <1>3. ASSUME NEW j \in 0..Len(q)
        PROVE  CountTo(r, x, Len(p) + j) = CountTo(p, x, Len(p)) + CountTo(q, x, j)
    <2>1. j \in Nat /\ \A i \in 1..j : r[Len(p) + i] = q[i]
      BY <1>1
    <2>2. Behind(p, Len(p), q, j, r)
      BY <1>1, <2>1 DEF Behind
    <2>3. Len(p) \in Nat /\ j \in Nat
      BY <1>1, <2>1
    <2>4. \A m, n \in Nat : Behind(p, m, q, n, r) =>
            CountTo(r, x, m + n) = CountTo(p, x, m) + CountTo(q, x, n)
      BY CountShift
    <2> QED BY <2>2, <2>3, <2>4, Zenon
  <1> QED BY <1>2, <1>3 DEF CountsAdd, r

-----------------------------------------------------------------------------
(* Turns: what opens and closes them *)

\* From a open turns, each x in p opens a turn and each y closes one, never two at a
\* time, and b are open at its end.
Walks(p, x, y, a, b) ==
  /\ a \in {0, 1}
  /\ \A k \in 0..Len(p) : a + CountTo(p, x, k) - CountTo(p, y, k) \in {0, 1}
  /\ a + CountTo(p, x, Len(p)) - CountTo(p, y, Len(p)) = b

LEMMA WalksCat ==
  ASSUME NEW S, NEW p \in Seq(S), NEW q \in Seq(S), NEW x, NEW y, NEW a, NEW b, NEW c,
         Walks(p, x, y, a, b), Walks(q, x, y, b, c)
  PROVE  Walks(p \o q, x, y, a, c)
  <1> DEFINE r == p \o q
  <1>1. Len(p) \in Nat /\ Len(q) \in Nat /\ Len(r) = Len(p) + Len(q)
    OBVIOUS
  <1>2. CountsAdd(p, q, r, x) /\ CountsAdd(p, q, r, y)
    BY CountCat
  <1> HIDE DEF r
  <1>3. /\ \A k \in Nat : CountTo(p, x, k) \in Nat /\ CountTo(p, y, k) \in Nat
        /\ \A k \in Nat : CountTo(q, x, k) \in Nat /\ CountTo(q, y, k) \in Nat
    BY CountNat
  <1>4. /\ a \in {0, 1}
        /\ \A k \in 0..Len(p) : a + CountTo(p, x, k) - CountTo(p, y, k) \in {0, 1}
        /\ a + CountTo(p, x, Len(p)) - CountTo(p, y, Len(p)) = b
        /\ \A k \in 0..Len(q) : b + CountTo(q, x, k) - CountTo(q, y, k) \in {0, 1}
        /\ b + CountTo(q, x, Len(q)) - CountTo(q, y, Len(q)) = c
    BY DEF Walks
  <1>5. ASSUME NEW j \in 0..Len(q)
        PROVE  a + CountTo(r, x, Len(p) + j) - CountTo(r, y, Len(p) + j)
                 = b + CountTo(q, x, j) - CountTo(q, y, j)
    <2>1. /\ CountTo(r, x, Len(p) + j) = CountTo(p, x, Len(p)) + CountTo(q, x, j)
          /\ CountTo(r, y, Len(p) + j) = CountTo(p, y, Len(p)) + CountTo(q, y, j)
      BY <1>2 DEF CountsAdd
    <2>2. j \in Nat
      BY <1>1
    <2>3. /\ CountTo(p, x, Len(p)) \in Nat /\ CountTo(p, y, Len(p)) \in Nat
          /\ CountTo(q, x, j) \in Nat /\ CountTo(q, y, j) \in Nat
      BY <1>1, <1>3, <2>2
    <2>4. a \in Int /\ a + CountTo(p, x, Len(p)) - CountTo(p, y, Len(p)) = b
      BY <1>4
    <2> QED BY <2>1, <2>3, <2>4
  <1>6. ASSUME NEW k \in 0..Len(r)
        PROVE  a + CountTo(r, x, k) - CountTo(r, y, k) \in {0, 1}
    <2>1. CASE k \in 0..Len(p)
      <3>1. CountTo(r, x, k) = CountTo(p, x, k) /\ CountTo(r, y, k) = CountTo(p, y, k)
        BY <1>2, <2>1 DEF CountsAdd
      <3> QED BY <1>4, <2>1, <3>1
    <2>2. CASE k \notin 0..Len(p)
      <3>1. k - Len(p) \in 0..Len(q) /\ Len(p) + (k - Len(p)) = k
        BY <1>1, <2>2
      <3>2. a + CountTo(r, x, k) - CountTo(r, y, k)
              = b + CountTo(q, x, k - Len(p)) - CountTo(q, y, k - Len(p))
        BY <1>5, <3>1
      <3> QED BY <1>4, <3>1, <3>2
    <2> QED BY <2>1, <2>2
  <1>7. a + CountTo(r, x, Len(r)) - CountTo(r, y, Len(r)) = c
    <2>1. Len(q) \in 0..Len(q)
      BY <1>1
    <2> QED BY <1>1, <1>4, <1>5, <2>1
  <1>8. a \in {0, 1}
    BY <1>4
  <1> QED BY <1>6, <1>7, <1>8 DEF Walks, r

LEMMA WalksText ==
  ASSUME NEW S, NEW p \in Seq(S), NEW x, NEW y, x \notin S, y \notin S, NEW a \in {0, 1}
  PROVE  Walks(p, x, y, a, a)
  <1>1. Len(p) \in Nat /\ \A i \in 1..Len(p) : p[i] \in S
    OBVIOUS
  <1>2. ASSUME NEW k \in 0..Len(p) PROVE CountTo(p, x, k) = 0 /\ CountTo(p, y, k) = 0
    <2>1. k \in Nat /\ \A i \in 1..k : p[i] # x /\ p[i] # y
      BY <1>1
    <2> QED BY <2>1, CountZero
  <1>3. Len(p) \in 0..Len(p)
    BY <1>1
  <1> QED BY <1>2, <1>3 DEF Walks

LEMMA WalksMarker ==
  ASSUME NEW x, NEW y, x # y
  PROVE  Walks(<<x>>, x, y, 0, 1) /\ Walks(<<y>>, x, y, 1, 0)
  <1> DEFINE u == <<x>>
             v == <<y>>
  <1>1. u[1] = x /\ v[1] = y /\ Len(u) = 1 /\ Len(v) = 1
    OBVIOUS
  <1> HIDE DEF u, v
  <1>2. \A s, z : CountTo(s, z, 0) = 0
    BY CountZero
  <1>3. \A s, z : CountTo(s, z, 1) = IF s[1] = z THEN 1 ELSE 0
    <2> SUFFICES ASSUME NEW s, NEW z PROVE CountTo(s, z, 1) = IF s[1] = z THEN 1 ELSE 0
      OBVIOUS
    <2>1. CountTo(s, z, 0 + 1) = CountTo(s, z, 0) + IF s[0 + 1] = z THEN 1 ELSE 0
      BY CountNext
    <2> QED BY <1>2, <2>1
  <1>4. 0..1 = {0, 1}
    OBVIOUS
  <1>5. Walks(u, x, y, 0, 1)
    BY <1>1, <1>2, <1>3, <1>4 DEF Walks
  <1>6. Walks(v, x, y, 1, 0)
    BY <1>1, <1>2, <1>3, <1>4 DEF Walks
  <1> QED BY <1>5, <1>6 DEF u, v

\* What follows each x in p.
Follower(p, x, i) == IF p[i] = x THEN <<p[i + 1]>> ELSE <<>>
Followers(p, x) == FlattenSeq([i \in DOMAIN p |-> Follower(p, x, i)])

Followed(p, x) == \A i \in 1..Len(p) : p[i] = x => i + 1 \in 1..Len(p)

LEMMA FollowerPieces ==
  ASSUME NEW S, NEW p \in Seq(S), NEW x, Followed(p, x)
  PROVE  /\ Pieces([i \in 1..Len(p) |-> Follower(p, x, i)], Len(p), S)
         /\ Followers(p, x) = FlattenSeq([i \in 1..Len(p) |-> Follower(p, x, i)])
         /\ Len(p) \in Nat
  <1>1. DOMAIN p = 1..Len(p) /\ Len(p) \in Nat /\ \A i \in 1..Len(p) : p[i] \in S
    OBVIOUS
  <1> DEFINE f == [i \in 1..Len(p) |-> Follower(p, x, i)]
  <1>2. ASSUME NEW i \in 1..Len(p) PROVE Follower(p, x, i) \in Seq(S)
    <2>1. p[i] = x => p[i + 1] \in S
      BY <1>1 DEF Followed
    <2> QED BY <2>1 DEF Follower
  <1>3. f = [i \in 1..Len(p) |-> f[i]] /\ \A i \in 1..Len(p) : f[i] = Follower(p, x, i)
    OBVIOUS
  <1>4. Pieces(f, Len(p), S)
    <2> HIDE DEF f
    <2> QED BY <1>2, <1>3 DEF Pieces
  <1>5. Followers(p, x) = FlattenSeq(f)
    BY <1>1, Zenon DEF Followers
  <1> QED BY <1>1, <1>4, <1>5

LEMMA FollowersCat ==
  ASSUME NEW S, NEW p \in Seq(S), NEW q \in Seq(S), NEW x, Followed(p, x), Followed(q, x)
  PROVE  Followed(p \o q, x) /\ Followers(p \o q, x) = Followers(p, x) \o Followers(q, x)
  <1> DEFINE r == p \o q
             f == [i \in 1..Len(p) |-> Follower(p, x, i)]
             g == [i \in 1..Len(q) |-> Follower(q, x, i)]
             h == [i \in 1..Len(r) |-> Follower(r, x, i)]
  <1>1. /\ r \in Seq(S) /\ Len(p) \in Nat /\ Len(q) \in Nat /\ Len(r) = Len(p) + Len(q)
        /\ \A i \in 1..Len(p) : r[i] = p[i]
        /\ \A j \in 1..Len(q) : r[Len(p) + j] = q[j]
    OBVIOUS
  <1> HIDE DEF r
  <1>2. /\ \A i \in 1..Len(p) : p[i] = x => i + 1 \in 1..Len(p)
        /\ \A i \in 1..Len(q) : q[i] = x => i + 1 \in 1..Len(q)
    BY DEF Followed
  <1>3. ASSUME NEW i \in 1..Len(r), r[i] = x PROVE i + 1 \in 1..Len(r)
    <2>1. CASE i \in 1..Len(p)
      BY <1>1, <1>2, <1>3, <2>1
    <2>2. CASE i \notin 1..Len(p)
      <3>1. i - Len(p) \in 1..Len(q) /\ Len(p) + (i - Len(p)) = i
        BY <1>1, <2>2
      <3>2. (i - Len(p)) + 1 \in 1..Len(q)
        BY <1>1, <1>2, <1>3, <3>1
      <3> QED BY <1>1, <3>1, <3>2
    <2> QED BY <2>1, <2>2
  <1>4. Followed(r, x)
    BY <1>3 DEF Followed
  <1>5. \A i \in 1..Len(p) : Follower(r, x, i) = Follower(p, x, i)
    BY <1>1, <1>2 DEF Follower
  <1>6. \A j \in 1..Len(q) : Follower(r, x, Len(p) + j) = Follower(q, x, j)
    <2> SUFFICES ASSUME NEW j \in 1..Len(q)
                 PROVE  Follower(r, x, Len(p) + j) = Follower(q, x, j)
      OBVIOUS
    <2>1. r[Len(p) + j] = q[j] /\ (q[j] = x => r[Len(p) + (j + 1)] = q[j + 1])
      BY <1>1, <1>2
    <2>2. (Len(p) + j) + 1 = Len(p) + (j + 1)
      BY <1>1
    <2> QED BY <2>1, <2>2, Zenon DEF Follower
  <1>7. \A j \in 1..Len(q) : Len(p) + j \in 1..Len(r)
    BY <1>1
  <1>8. \A i \in 1..Len(p) : i \in 1..Len(r)
    BY <1>1
  <1>9. Behind(f, Len(p), g, Len(q), h)
    BY <1>5, <1>6, <1>7, <1>8, Zenon DEF Behind
  <1>10. /\ Pieces(f, Len(p), S) /\ Followers(p, x) = FlattenSeq(f)
         /\ Pieces(g, Len(q), S) /\ Followers(q, x) = FlattenSeq(g)
         /\ Pieces(h, Len(p) + Len(q), S) /\ Followers(r, x) = FlattenSeq(h)
    BY <1>1, <1>4, FollowerPieces
  <1> HIDE DEF f, g, h
  <1>11. FlattenSeq(h) = FlattenSeq(f) \o FlattenSeq(g)
    <2>1. TwoRows(S, Len(p), Len(q), f, g, h)
      BY <1>1, <1>9, <1>10, Zenon DEF TwoRows
    <2> QED BY <2>1, FlattenConcat
  <1>12. Followers(r, x) = Followers(p, x) \o Followers(q, x)
    BY <1>10, <1>11, Zenon
  <1> QED BY <1>4, <1>12 DEF r

\* p leads from a open turns to b, and opens turns of the roles rs.
Segment(S, x, y, p, a, b, rs) ==
  /\ p \in Seq(S) /\ rs \in Seq(S)
  /\ Walks(p, x, y, a, b)
  /\ Followed(p, x) /\ Followers(p, x) = rs

LEMMA SegmentCat ==
  ASSUME NEW S, NEW x, NEW y, NEW p, NEW q, NEW a, NEW b, NEW c, NEW rs, NEW ts,
         Segment(S, x, y, p, a, b, rs), Segment(S, x, y, q, b, c, ts)
  PROVE  Segment(S, x, y, p \o q, a, c, rs \o ts)
  <1>1. /\ p \in Seq(S) /\ rs \in Seq(S) /\ q \in Seq(S) /\ ts \in Seq(S)
        /\ Walks(p, x, y, a, b) /\ Walks(q, x, y, b, c)
        /\ Followed(p, x) /\ Followed(q, x)
        /\ Followers(p, x) = rs /\ Followers(q, x) = ts
    BY DEF Segment
  <1>2. p \o q \in Seq(S) /\ rs \o ts \in Seq(S)
    BY <1>1
  <1>3. Walks(p \o q, x, y, a, c)
    BY <1>1, WalksCat
  <1>4. Followed(p \o q, x) /\ Followers(p \o q, x) = rs \o ts
    <2>1. \A u, v \in Seq(S) : Followed(u, x) /\ Followed(v, x) =>
            Followed(u \o v, x) /\ Followers(u \o v, x) = Followers(u, x) \o Followers(v, x)
      BY FollowersCat
    <2> QED BY <1>1, <2>1, Zenon
  <1> QED BY <1>2, <1>3, <1>4, Zenon DEF Segment

\* Joining nothing but empty sequences.
LEMMA FlattenEmpty ==
  ASSUME NEW n \in Nat, NEW s, s = [i \in 1..n |-> <<>>]
  PROVE  FlattenSeq(s) = <<>>
  <1>1. /\ s = [i \in 1..n |-> s[i]]
        /\ \A i \in 1..n : s[i] = <<>>
    BY Zenon
  <1>2. Pieces(s, n, {})
    BY <1>1 DEF Pieces
  <1>3. PICK f : Joins(f, s, n, {}) /\ FlattenSeq(s) = f[n]
    BY <1>2, FlattenJoins
  <1>4. f[n] \in Seq({})
    BY <1>3 DEF Joins
  <1> QED BY <1>3, <1>4

LEMMA SegmentText ==
  ASSUME NEW S, NEW T, T \subseteq S, NEW x, NEW y, x \notin T, y \notin T,
         NEW p \in Seq(T), NEW a \in {0, 1}
  PROVE  Segment(S, x, y, p, a, a, <<>>)
  <1>1. Len(p) \in Nat /\ DOMAIN p = 1..Len(p) /\ \A i \in 1..Len(p) : p[i] # x
    OBVIOUS
  <1>2. Walks(p, x, y, a, a)
    BY WalksText
  <1>3. Followed(p, x)
    BY <1>1 DEF Followed
  <1>4. Followers(p, x) = <<>>
    <2> DEFINE f == [i \in 1..Len(p) |-> Follower(p, x, i)]
    <2>1. f = [i \in 1..Len(p) |-> <<>>]
      BY <1>1 DEF Follower
    <2>2. Followers(p, x) = FlattenSeq(f)
      BY <1>1, Zenon DEF Followers
    <2> HIDE DEF f
    <2> QED BY <1>1, <2>1, <2>2, FlattenEmpty
  <1>5. p \in Seq(S) /\ <<>> \in Seq(S)
    OBVIOUS
  <1> QED BY <1>2, <1>3, <1>4, <1>5 DEF Segment

LEMMA SegmentEnd ==
  ASSUME NEW S, NEW x, NEW y, x # y, y \in S
  PROVE  Segment(S, x, y, <<y>>, 1, 0, <<>>)
  <1> DEFINE p == <<y>>
  <1>1. Len(p) \in Nat /\ DOMAIN p = 1..Len(p) /\ (\A i \in 1..Len(p) : p[i] # x) /\ p \in Seq(S)
    OBVIOUS
  <1>2. Walks(p, x, y, 1, 0)
    BY WalksMarker
  <1> HIDE DEF p
  <1>3. Followed(p, x)
    BY <1>1 DEF Followed
  <1>4. Followers(p, x) = <<>>
    <2> DEFINE f == [i \in 1..Len(p) |-> Follower(p, x, i)]
    <2>1. f = [i \in 1..Len(p) |-> <<>>]
      BY <1>1 DEF Follower
    <2>2. Followers(p, x) = FlattenSeq(f)
      BY <1>1, Zenon DEF Followers
    <2> HIDE DEF f
    <2> QED BY <1>1, <2>1, <2>2, FlattenEmpty
  <1>5. <<>> \in Seq(S)
    OBVIOUS
  <1> QED BY <1>1, <1>2, <1>3, <1>4, <1>5 DEF Segment, p

LEMMA SegmentStart ==
  ASSUME NEW S, NEW x, NEW y, x # y, x \in S, NEW r \in S, r # x, r # y
  PROVE  Segment(S, x, y, <<x, r>>, 0, 1, <<r>>)
  <1> DEFINE p == <<x, r>>
             u == <<x>>
             v == <<r>>
  <1>1. /\ Len(p) = 2 /\ DOMAIN p = 1..2 /\ p[1] = x /\ p[2] = r /\ p \in Seq(S)
        /\ u \in Seq(S) /\ v \in Seq(S) /\ v \in Seq({r}) /\ p = u \o v
    OBVIOUS
  <1>2. Walks(u, x, y, 0, 1)
    BY WalksMarker
  <1> HIDE DEF p, u, v
  <1>3. Walks(v, x, y, 1, 1)
    <2>1. x \notin {r} /\ y \notin {r} /\ 1 \in {0, 1}
      OBVIOUS
    <2> QED BY <1>1, <2>1, WalksText
  <1>4. Walks(p, x, y, 0, 1)
    BY <1>1, <1>2, <1>3, WalksCat
  <1>5. Followed(p, x)
    BY <1>1 DEF Followed
  <1>6. Followers(p, x) = v
    <2> DEFINE f == [i \in 1..2 |-> Follower(p, x, i)]
    <2>1. f[1] = v /\ f[2] = <<>>
      BY <1>1 DEF Follower, v
    <2>2. Followers(p, x) = FlattenSeq(f)
      BY <1>1, Zenon DEF Followers
    <2>3. f = [i \in 1..2 |-> f[i]]
      OBVIOUS
    <2> HIDE DEF f
    <2>a. \A i \in 1..2 : i = 1 \/ i = 2
      OBVIOUS
    <2>b. <<>> \in Seq(S) /\ 1 \in 1..2 /\ 2 \in 1..2 /\ 1 - 1 = 0 /\ 2 - 1 = 1
      OBVIOUS
    <2>c. \A i \in 1..2 : f[i] \in Seq(S)
      BY <1>1, <2>1, <2>a, <2>b, Zenon
    <2>4. Pieces(f, 2, S)
      BY <2>3, <2>c, Zenon DEF Pieces
    <2>5. PICK g : Joins(g, f, 2, S) /\ FlattenSeq(f) = g[2]
      BY <2>4, FlattenJoins
    <2>6. /\ g[0] = <<>>
          /\ g[1] = g[0] \o f[1]
          /\ g[2] = g[1] \o f[2]
      <3>1. g[0] = <<>> /\ \A i \in 1..2 : g[i] = g[i - 1] \o f[i]
        BY <2>5, Zenon DEF Joins
      <3>2. g[1] = g[1 - 1] \o f[1] /\ g[2] = g[2 - 1] \o f[2]
        BY <2>b, <3>1, Zenon
      <3> QED BY <2>b, <3>1, <3>2, Zenon
    <2>7. <<>> \o v = v /\ v \o <<>> = v
      BY <1>1, ConcatEmpty
    <2> QED BY <2>1, <2>2, <2>5, <2>6, <2>7, Zenon
  <1> QED BY <1>1, <1>4, <1>5, <1>6 DEF Segment, p, v

\* A row of n segments, each beginning where the one before ends.
SegmentRow(S, x, y, n, s, st, rs) ==
  /\ n \in Nat
  /\ s = [i \in 1..n |-> s[i]] /\ rs = [i \in 1..n |-> rs[i]] /\ st[0] \in {0, 1}
  /\ \A i \in 1..n : Segment(S, x, y, s[i], st[i - 1], st[i], rs[i])

LEMMA SegmentFlatten ==
  ASSUME NEW S, NEW T, T \subseteq S, NEW x, NEW y, x \notin T, y \notin T,
         NEW n, NEW s, NEW st, NEW rs, SegmentRow(S, x, y, n, s, st, rs)
  PROVE  Segment(S, x, y, FlattenSeq(s), st[0], st[n], FlattenSeq(rs))
  <1>1. /\ n \in Nat
        /\ s = [i \in 1..n |-> s[i]] /\ rs = [i \in 1..n |-> rs[i]] /\ st[0] \in {0, 1}
        /\ \A i \in 1..n : Segment(S, x, y, s[i], st[i - 1], st[i], rs[i])
    BY DEF SegmentRow
  <1>2. Pieces(s, n, S) /\ Pieces(rs, n, S)
    BY <1>1 DEF Pieces, Segment
  <1>a. n \in Nat
    BY <1>1
  <1>3. PICK f : Joins(f, s, n, S) /\ FlattenSeq(s) = f[n]
    BY <1>a, <1>2, FlattenJoins
  <1>4. PICK g : Joins(g, rs, n, S) /\ FlattenSeq(rs) = g[n]
    BY <1>a, <1>2, FlattenJoins
  <1> DEFINE bad == {i \in 0..n : ~ Segment(S, x, y, f[i], st[0], st[i], g[i])}
  <1>5. bad = {}
    <2> SUFFICES ASSUME bad # {} PROVE FALSE
      OBVIOUS
    <2>1. PICK i \in bad : \A k \in bad : ~(k < i)
      <3>1. bad \subseteq Nat
        BY <1>1
      <3> HIDE DEF bad
      <3> QED BY <3>1, Least
    <2>2. i \in 0..n /\ ~ Segment(S, x, y, f[i], st[0], st[i], g[i])
      BY <2>1
    <2>3. Segment(S, x, y, f[0], st[0], st[0], g[0])
      <3>1. f[0] = <<>> /\ g[0] = <<>>
        BY <1>3, <1>4 DEF Joins
      <3>2. <<>> \in Seq(T)
        OBVIOUS
      <3>3. Segment(S, x, y, <<>>, st[0], st[0], <<>>)
        BY <1>1, <3>2, SegmentText
      <3> QED BY <3>1, <3>3
    <2>a. i # 0
      BY <2>2, <2>3
    <2>4. i \in 1..n /\ i - 1 \in 0..n /\ i - 1 < i
      BY <1>1, <2>2, <2>a
    <2>5. Segment(S, x, y, f[i - 1], st[0], st[i - 1], g[i - 1])
      <3>1. i - 1 \notin bad
        <4> HIDE DEF bad
        <4> QED BY <2>1, <2>4
      <3> QED BY <2>4, <3>1
    <2>6. f[i] = f[i - 1] \o s[i] /\ g[i] = g[i - 1] \o rs[i]
      BY <1>3, <1>4, <2>4, Zenon DEF Joins
    <2>7. Segment(S, x, y, s[i], st[i - 1], st[i], rs[i])
      BY <1>1, <2>4, Zenon
    <2>8. Segment(S, x, y, f[i - 1] \o s[i], st[0], st[i], g[i - 1] \o rs[i])
      <3> HIDE DEF bad
      <3> QED BY <2>5, <2>7, SegmentCat
    <2> QED BY <2>2, <2>6, <2>8, Zenon
  <1>6. n \in 0..n
    BY <1>1
  <1> QED BY <1>3, <1>4, <1>5, <1>6

\* The symbols a prompt is made of, but for the markers of a turn, and with them.
Plain == (STRING \cup Literals \cup {Instruction(DefaultOptions)}) \ Markers
Symbols == Plain \cup Markers
Seg(p, a, b, rs) == Segment(Symbols, "<|im_start|>", "<|im_end|>", p, a, b, rs)

LEMMA PlainFacts ==
  /\ "<|im_start|>" \in Symbols /\ "<|im_end|>" \in Symbols /\ "<|im_start|>" # "<|im_end|>"
  /\ "<|im_start|>" \notin Plain /\ "<|im_end|>" \notin Plain /\ Plain \subseteq Symbols
  /\ \A r \in Plain : r \in Symbols /\ r # "<|im_start|>" /\ r # "<|im_end|>"
  <1>1. "<|im_start|>" \in Symbols /\ "<|im_end|>" \in Symbols
    BY Zenon DEF Symbols, Markers
  <1>2. "<|im_start|>" # "<|im_end|>"
    OBVIOUS
  <1>3. Plain \subseteq Symbols
    BY Zenon DEF Symbols
  <1>4. \A r \in Plain : r # "<|im_start|>" /\ r # "<|im_end|>"
    BY Zenon DEF Plain, Markers
  <1>5. "<|im_start|>" \notin Plain /\ "<|im_end|>" \notin Plain
    BY <1>4, Zenon
  <1> QED BY <1>1, <1>2, <1>3, <1>4, <1>5, Zenon

LEMMA LiteralsPlain ==
  ASSUME NEW r \in Literals
  PROVE  r \in Plain
  <1>1. r # "<|im_start|>" /\ r # "<|im_end|>"
    BY DEF Literals
  <1> QED BY <1>1, Zenon DEF Plain, Markers

LEMMA PlainSymbols ==
  /\ "pad" \in Plain /\ "<think>" \in Plain /\ "</think>" \in Plain
  /\ "<tool_response>" \in Plain /\ "</tool_response>" \in Plain
  /\ "system" \in Plain /\ "user" \in Plain /\ "assistant" \in Plain
  BY LiteralsPlain, Zenon DEF Literals

LEMMA SegCat ==
  ASSUME NEW p, NEW q, NEW a, NEW b, NEW c, NEW rs, NEW ts, Seg(p, a, b, rs), Seg(q, b, c, ts)
  PROVE  Seg(p \o q, a, c, rs \o ts)
  BY SegmentCat DEF Seg

LEMMA SegText ==
  ASSUME NEW p \in Seq(Plain), NEW a \in {0, 1}
  PROVE  Seg(p, a, a, <<>>)
  BY PlainFacts, SegmentText DEF Seg

LEMMA SegEnd == Seg(<<"<|im_end|>">>, 1, 0, <<>>)
  BY PlainFacts, SegmentEnd DEF Seg

LEMMA SegStart ==
  ASSUME NEW r \in Plain
  PROVE  Seg(<<"<|im_start|>", r>>, 0, 1, <<r>>)
  BY PlainFacts, SegmentStart DEF Seg

LEMMA SegMore ==
  ASSUME NEW p, NEW a, NEW b, NEW rs, Seg(p, a, b, rs), NEW q \in Seq(Plain), b \in {0, 1}
  PROVE  Seg(p \o q, a, b, rs)
  <1>1. Seg(q, b, b, <<>>)
    BY SegText
  <1>2. Seg(p \o q, a, b, rs \o <<>>)
    BY <1>1, SegCat
  <1>3. rs \in Seq(Symbols)
    BY Zenon DEF Seg, Segment
  <1>4. rs \o <<>> = rs
    BY <1>3, ConcatEmpty
  <1> QED BY <1>2, <1>4, Zenon

LEMMA SegClose ==
  ASSUME NEW p, NEW a, NEW rs, Seg(p, a, 1, rs)
  PROVE  Seg(p \o <<"<|im_end|>">>, a, 0, rs)
  <1>1. Seg(p \o <<"<|im_end|>">>, a, 0, rs \o <<>>)
    BY SegEnd, SegCat
  <1>2. rs \in Seq(Symbols)
    BY Zenon DEF Seg, Segment
  <1>3. rs \o <<>> = rs
    BY <1>2, ConcatEmpty
  <1> QED BY <1>1, <1>3, Zenon

LEMMA SegTurn ==
  ASSUME NEW role \in Plain, NEW text \in Seq(Plain)
  PROVE  Seg(Turn(role, text), 0, 0, <<role>>)
  <1>1. Seg(<<"<|im_start|>", role>>, 0, 1, <<role>>)
    BY SegStart
  <1>2. 1 \in {0, 1}
    OBVIOUS
  <1>3. Seg(<<"<|im_start|>", role>> \o text, 0, 1, <<role>>)
    BY <1>1, <1>2, SegMore
  <1>4. Seg((<<"<|im_start|>", role>> \o text) \o <<"<|im_end|>">>, 0, 0, <<role>>)
    BY <1>3, SegClose
  <1> QED BY <1>4, Zenon DEF Turn

\* A whole prompt that leaves one turn open.
LEMMA SegPrompt ==
  ASSUME NEW p, NEW rs, Seg(p, 0, 1, rs)
  PROVE  /\ Alternates(p)
         /\ Cardinality(Starts(p)) = Cardinality(Ends(p)) + 1
         /\ TurnRoles(p) = rs
  <1> DEFINE x == "<|im_start|>"
             y == "<|im_end|>"
  <1>1. /\ p \in Seq(Symbols) /\ Walks(p, x, y, 0, 1) /\ Followers(p, x) = rs
    BY Zenon DEF Seg, Segment
  <1>2. TurnRoles(p) = rs
    BY <1>1, Zenon DEF TurnRoles, Followers, Follower
  <1>3. Len(p) \in Nat /\ DOMAIN p = 1..Len(p)
    BY <1>1
  <1>4. /\ Starts(p) = {i \in 1..Len(p) : p[i] = x}
        /\ Ends(p) = {i \in 1..Len(p) : p[i] = y}
    BY <1>3, Zenon DEF Starts, Ends
  <1> HIDE DEF x, y
  <1>5. \A k \in 0..Len(p) : 0 + CountTo(p, x, k) - CountTo(p, y, k) \in {0, 1}
    BY <1>1, Zenon DEF Walks
  <1>6. 0 + CountTo(p, x, Len(p)) - CountTo(p, y, Len(p)) = 1
    BY <1>1, Zenon DEF Walks
  <1>7. \A k \in Nat : CountTo(p, x, k) \in Nat /\ CountTo(p, y, k) \in Nat
    BY CountNat
  <1>8. /\ Cardinality(Starts(p)) = CountTo(p, x, Len(p))
        /\ Cardinality(Ends(p)) = CountTo(p, y, Len(p))
    BY <1>4, Zenon DEF CountTo
  <1>9. Cardinality(Starts(p)) = Cardinality(Ends(p)) + 1
    BY <1>3, <1>6, <1>7, <1>8
  <1>10. ASSUME NEW i \in DOMAIN p
         PROVE  Cardinality(Ends(p) \cap 1..i) \in
                  {Cardinality(Starts(p) \cap 1..i) - 1, Cardinality(Starts(p) \cap 1..i)}
    <2>1. i \in Nat /\ i \in 0..Len(p) /\ \A j \in 1..i : j \in 1..Len(p)
      BY <1>3
    <2>2. /\ Starts(p) \cap 1..i = {j \in 1..i : p[j] = x}
          /\ Ends(p) \cap 1..i = {j \in 1..i : p[j] = y}
      BY <1>4, <2>1, Zenon
    <2>3. /\ Cardinality(Starts(p) \cap 1..i) = CountTo(p, x, i)
          /\ Cardinality(Ends(p) \cap 1..i) = CountTo(p, y, i)
      BY <2>2, Zenon DEF CountTo
    <2>4. CountTo(p, y, i) \in {CountTo(p, x, i) - 1, CountTo(p, x, i)}
      <3>1. 0 + CountTo(p, x, i) - CountTo(p, y, i) \in {0, 1}
        BY <1>5, <2>1
      <3>2. CountTo(p, x, i) \in Nat /\ CountTo(p, y, i) \in Nat
        BY <1>7, <2>1
      <3> QED BY <3>1, <3>2
    <2> QED BY <2>3, <2>4, Zenon
  <1> QED BY <1>2, <1>9, <1>10, Zenon DEF Alternates

-----------------------------------------------------------------------------
(* The turns of a rendered conversation *)

Solid(t) == {i \in DOMAIN t : t[i] # "space"}

\* A text without white space at its ends, when it is not all white space.
Trims(t, lo, hi) ==
  /\ lo \in Solid(t) /\ hi \in Solid(t) /\ \A i \in Solid(t) : lo <= i /\ i <= hi
  /\ Trim(t) = SubSeq(t, lo, hi)

LEMMA TrimIs ==
  ASSUME NEW S, NEW t \in Seq(S)
  PROVE  \/ Solid(t) = {} /\ Trim(t) = <<>>
         \/ \E lo, hi : Trims(t, lo, hi)
  <1> DEFINE solid == Solid(t)
             lo == CHOOSE i \in solid : \A j \in solid : i <= j
             hi == CHOOSE i \in solid : \A j \in solid : j <= i
  <1>1. Trim(t) = IF solid = {} THEN <<>> ELSE SubSeq(t, lo, hi)
    BY Zenon DEF Trim, Solid
  <1>2. Len(t) \in Nat /\ solid \subseteq 1..Len(t)
    BY DEF Solid
  <1> SUFFICES ASSUME solid # {} PROVE \E l, h : Trims(t, l, h)
    BY <1>1
  <1>3. lo \in solid /\ \A j \in solid : lo <= j
    <2>1. solid \subseteq Nat
      BY <1>2
    <2> HIDE DEF solid
    <2>2. PICK n \in solid : \A m \in solid : ~(m < n)
      BY <2>1, Least
    <2>3. \A m \in solid : n <= m
      BY <2>1, <2>2
    <2> QED BY <2>2, <2>3, Zenon
  <1>4. hi \in solid /\ \A j \in solid : j <= hi
    <2> DEFINE back == {Len(t) - i : i \in solid}
    <2> HIDE DEF solid
    <2>1. back \subseteq Nat /\ back # {}
      <3>1. ASSUME NEW i \in solid PROVE Len(t) - i \in Nat
        <4>1. i \in 1..Len(t)
          BY <1>2
        <4> QED BY <1>2, <4>1
      <3>2. back \subseteq Nat
        BY <3>1
      <3>3. back # {}
        BY Zenon
      <3> QED BY <3>2, <3>3
    <2>2. PICK n \in back : \A m \in back : ~(m < n)
      <3> HIDE DEF back
      <3> QED BY <2>1, Least
    <2>3. PICK i \in solid : n = Len(t) - i
      BY <2>2
    <2>4. ASSUME NEW j \in solid PROVE j <= i
      <3>1. Len(t) - j \in back
        OBVIOUS
      <3>2. ~(Len(t) - j < Len(t) - i)
        <4> HIDE DEF back
        <4> QED BY <2>2, <2>3, <3>1
      <3>3. i \in Int /\ j \in Int /\ Len(t) \in Int
        BY <1>2
      <3> HIDE DEF back
      <3> QED BY <3>2, <3>3
    <2>5. \A j \in solid : j <= i
      BY <2>4
    <2> QED BY <2>5, Zenon
  <1>5. Trims(t, lo, hi)
    <2> HIDE DEF lo, hi
    <2> QED BY <1>1, <1>3, <1>4, Zenon DEF Trims
  <1> QED BY <1>5

LEMMA TrimType ==
  ASSUME NEW S, NEW t \in Seq(S)
  PROVE  Trim(t) \in Seq(S)
  <1>1. CASE Solid(t) = {} /\ Trim(t) = <<>>
    BY <1>1
  <1>2. CASE \E lo, hi : Trims(t, lo, hi)
    <2>1. PICK lo, hi : Trims(t, lo, hi)
      BY <1>2
    <2>2. lo \in 1..Len(t) /\ hi \in 1..Len(t) /\ Trim(t) = SubSeq(t, lo, hi)
      BY <2>1 DEF Trims, Solid
    <2>3. SubSeq(t, lo, hi) \in Seq(S)
      BY <2>2
    <2> QED BY <2>2, <2>3
  <1> QED BY <1>1, <1>2, TrimIs

Expanded(text, i) ==
  IF text[i] = "<image>" /\ Patches > 0 THEN [p \in 1..Patches |-> "pad"] ELSE <<text[i]>>

LEMMA ExpandPieces ==
  ASSUME NEW S, NEW text \in Seq(S), "pad" \in S
  PROVE  /\ Pieces([i \in 1..Len(text) |-> Expanded(text, i)], Len(text), S)
         /\ ExpandImageTags(text) = FlattenSeq([i \in 1..Len(text) |-> Expanded(text, i)])
         /\ Len(text) \in Nat
  <1>1. DOMAIN text = 1..Len(text) /\ Len(text) \in Nat /\ \A i \in 1..Len(text) : text[i] \in S
    OBVIOUS
  <1> DEFINE f == [i \in 1..Len(text) |-> Expanded(text, i)]
  <1>2. ASSUME NEW i \in 1..Len(text) PROVE Expanded(text, i) \in Seq(S)
    <2>1. Patches \in Nat
      BY TemplateAssumption
    <2>2. [p \in 1..Patches |-> "pad"] \in Seq(S)
      BY <2>1
    <2>3. <<text[i]>> \in Seq(S)
      BY <1>1
    <2> QED BY <2>2, <2>3, Zenon DEF Expanded
  <1>3. f = [i \in 1..Len(text) |-> f[i]] /\ \A i \in 1..Len(text) : f[i] = Expanded(text, i)
    OBVIOUS
  <1>4. Pieces(f, Len(text), S)
    <2> HIDE DEF f
    <2> QED BY <1>2, <1>3 DEF Pieces
  <1>5. ExpandImageTags(text) = FlattenSeq(f)
    BY <1>1, Zenon DEF ExpandImageTags, Expanded
  <1> QED BY <1>1, <1>4, <1>5

LEMMA ExpandType ==
  ASSUME NEW S, NEW text \in Seq(S), "pad" \in S
  PROVE  ExpandImageTags(text) \in Seq(S)
  <1> DEFINE f == [i \in 1..Len(text) |-> Expanded(text, i)]
  <1>1. Pieces(f, Len(text), S) /\ ExpandImageTags(text) = FlattenSeq(f) /\ Len(text) \in Nat
    BY ExpandPieces
  <1> HIDE DEF f
  <1>2. f = [i \in 1..Len(text) |-> f[i]] /\ \A i \in 1..Len(text) : f[i] \in Seq(S)
    BY <1>1, Zenon DEF Pieces
  <1>3. FlattenSeq(f) \in Seq(S)
    BY <1>1, <1>2, FlattenSeqType
  <1> QED BY <1>1, <1>3, Zenon

\* One whose texts hold no marker.
PlainConversation(ms) ==
  /\ Len(ms) \in Nat /\ DOMAIN ms = 1..Len(ms) /\ ms = [i \in 1..Len(ms) |-> ms[i]]
  /\ \A i \in 1..Len(ms) : ms[i].content \in Seq(Plain) /\ ms[i].reasoning = <<>>

LEMMA PlainContents ==
  ASSUME NEW ms, IsConversation(ms), \A i \in DOMAIN ms : Lacks(ms[i].content, Markers)
  PROVE  PlainConversation(ms)
  <1>1. /\ Len(ms) \in Nat /\ ms = [i \in 1..Len(ms) |-> ms[i]]
        /\ \A i \in 1..Len(ms) : ms[i].content \in Seq(Words) /\ ms[i].reasoning = <<>>
    BY Zenon DEF IsConversation
  <1>2. DOMAIN ms = 1..Len(ms)
    BY <1>1
  <1>3. ASSUME NEW t \in Seq(Words), Lacks(t, Markers) PROVE t \in Seq(Plain)
    <2>1. \A k \in 1..Len(t) : t[k] \in Words /\ t[k] \notin Markers
      BY <1>3 DEF Lacks
    <2>2. \A k \in 1..Len(t) : t[k] \in Plain
      BY <2>1, Zenon DEF Words, Plain
    <2> QED BY <2>2
  <1> QED BY <1>1, <1>2, <1>3, Zenon DEF PlainConversation

LEMMA BlockText ==
  ASSUME NEW ms, PlainConversation(ms), NEW i \in 1..Len(ms)
  PROVE  ExpandImageTags(Trim(ms[i].content)) \in Seq(Plain)
  <1>1. ms[i].content \in Seq(Plain)
    BY DEF PlainConversation
  <1>2. Trim(ms[i].content) \in Seq(Plain)
    BY <1>1, TrimType
  <1> QED BY <1>2, ExpandType, PlainSymbols

\* The turns that are open after message k: one within a row of tool messages.
OpenAfter(ms, k) == IF IsTool(ms, k) /\ IsTool(ms, k + 1) THEN 1 ELSE 0

LEMMA ToolSegment ==
  ASSUME NEW ms, NEW i \in Int, IsTool(ms, i), i > 1 \/ IsTool(ms, i - 1), NEW text \in Seq(Plain)
  PROVE  Seg(ToolBlock(ms, i, text), OpenAfter(ms, i - 1), OpenAfter(ms, i),
             ExpectedRole(ms, i))
  <1> DEFINE head == IF i > 1 /\ ~ IsTool(ms, i - 1) THEN <<"<|im_start|>", "user">> ELSE <<>>
             role == IF IsTool(ms, i - 1) THEN <<>> ELSE <<"user">>
             open == <<"<tool_response>">>
             shut == <<"</tool_response>">>
             tail == IF IsTool(ms, i + 1) THEN <<>> ELSE <<"<|im_end|>">>
             b == IF IsTool(ms, i + 1) THEN 1 ELSE 0
             a == IF IsTool(ms, i - 1) THEN 1 ELSE 0
  <1>1. a = OpenAfter(ms, i - 1) /\ b = OpenAfter(ms, i)
    <2>1. (i - 1) + 1 = i
      OBVIOUS
    <2> QED BY <2>1, Zenon DEF OpenAfter
  <1>2. ExpectedRole(ms, i) = role
    <2>1. ms[i].role = "tool"
      BY DEF IsTool
    <2>2. ms[i].role # "system"
      BY <2>1
    <2> QED BY <2>2, Zenon DEF ExpectedRole
  <1>3. Seg(head, a, 1, role)
    <2>1. CASE IsTool(ms, i - 1)
      <3>1. <<>> \in Seq(Plain) /\ 1 \in {0, 1}
        OBVIOUS
      <3>2. Seg(<<>>, 1, 1, <<>>)
        BY <3>1, SegText
      <3> QED BY <2>1, <3>2, Zenon
    <2>2. CASE ~ IsTool(ms, i - 1)
      <3>1. Seg(<<"<|im_start|>", "user">>, 0, 1, <<"user">>)
        BY SegStart, PlainSymbols
      <3> QED BY <2>2, <3>1, Zenon
    <2> QED BY <2>1, <2>2
  <1>4. open \in Seq(Plain) /\ shut \in Seq(Plain) /\ 1 \in {0, 1}
    BY PlainSymbols
  <1>5. Seg(((head \o open) \o text) \o shut, a, 1, role)
    <2> HIDE DEF head, role, open, shut, a
    <2>1. Seg(head \o open, a, 1, role)
      BY <1>3, <1>4, SegMore
    <2>2. Seg((head \o open) \o text, a, 1, role)
      BY <1>4, <2>1, SegMore
    <2> QED BY <1>4, <2>2, SegMore
  <1>6. Seg((((head \o open) \o text) \o shut) \o tail, a, b, role)
    <2>1. CASE IsTool(ms, i + 1)
      <3>1. <<>> \in Seq(Plain)
        OBVIOUS
      <3>2. tail = <<>> /\ b = 1
        BY <2>1
      <3> HIDE DEF head, role, open, shut, a, tail, b
      <3>3. Seg((((head \o open) \o text) \o shut) \o <<>>, a, 1, role)
        BY <1>4, <1>5, <3>1, SegMore
      <3> QED BY <3>2, <3>3, Zenon
    <2>2. CASE ~ IsTool(ms, i + 1)
      <3>1. tail = <<"<|im_end|>">> /\ b = 0
        BY <2>2
      <3> HIDE DEF head, role, open, shut, a, tail, b
      <3>2. Seg((((head \o open) \o text) \o shut) \o <<"<|im_end|>">>, a, 0, role)
        BY <1>5, SegClose
      <3> QED BY <3>1, <3>2, Zenon
    <2> QED BY <2>1, <2>2
  <1>7. ToolBlock(ms, i, text) = (((head \o open) \o text) \o shut) \o tail
    BY Zenon DEF ToolBlock
  <1> HIDE DEF head, role, open, shut, a, tail, b
  <1> QED BY <1>1, <1>2, <1>6, <1>7, Zenon

\* What the template accepts.
LEMMA AcceptedRoles ==
  ASSUME NEW ms, Accepts(ms, DefaultOptions), NEW i \in DOMAIN ms
  PROVE  ms[i].role \in {"system", "user", "assistant", "tool"}
  BY Zenon DEF Accepts

LEMMA NotTool ==
  ASSUME NEW ms, NEW i, ms[i].role # "tool"
  PROVE  ~ IsTool(ms, i)
  BY Zenon DEF IsTool

LEMMA ClosedBeside ==
  ASSUME NEW ms, NEW i \in Int, ~ IsTool(ms, i)
  PROVE  OpenAfter(ms, i - 1) = 0 /\ OpenAfter(ms, i) = 0
  <1>1. (i - 1) + 1 = i
    OBVIOUS
  <1> QED BY <1>1, Zenon DEF OpenAfter

\* Each message of an accepted conversation adds the turns expected of it.
LEMMA BlockSegment ==
  ASSUME NEW ms, PlainConversation(ms), Accepts(ms, DefaultOptions), ms[1].role # "tool",
         NEW i \in 1..Len(ms)
  PROVE  Seg(MessageBlock(ms, i, DefaultOptions), OpenAfter(ms, i - 1), OpenAfter(ms, i),
             ExpectedRole(ms, i))
  <1> DEFINE text == ExpandImageTags(Trim(ms[i].content))
             block == MessageBlock(ms, i, DefaultOptions)
  <1>1. Len(ms) \in Nat /\ DOMAIN ms = 1..Len(ms) /\ ms[i].reasoning = <<>>
    BY DEF PlainConversation
  <1>2. i \in Int /\ i \in DOMAIN ms
    BY <1>1
  <1>3. text \in Seq(Plain)
    BY BlockText
  <1>4. block = CASE ms[i].role = "system" -> <<>>
                  [] ms[i].role = "user" -> Turn("user", text)
                  [] ms[i].role = "assistant" ->
                       Turn("assistant", AssistantBody(ms, i, DefaultOptions, text))
                  [] ms[i].role = "tool" -> ToolBlock(ms, i, text)
    BY Zenon DEF MessageBlock
  <1> HIDE DEF text, block
  <1>5. CASE ms[i].role = "system"
    <2>1. block = <<>>
      BY <1>4, <1>5
    <2>2. ms[i].role # "tool"
      BY <1>5
    <2>3. OpenAfter(ms, i - 1) = 0 /\ OpenAfter(ms, i) = 0
      BY <1>2, <2>2, NotTool, ClosedBeside
    <2>4. ExpectedRole(ms, i) = <<>>
      BY <1>5, Zenon DEF ExpectedRole
    <2>5. Seg(<<>>, 0, 0, <<>>)
      <3>1. <<>> \in Seq(Plain) /\ 0 \in {0, 1}
        OBVIOUS
      <3> QED BY <3>1, SegText
    <2> QED BY <2>1, <2>3, <2>4, <2>5, Zenon DEF block
  <1>6. CASE ms[i].role = "user"
    <2>1. block = Turn("user", text)
      BY <1>4, <1>6
    <2>2. ms[i].role # "tool" /\ ms[i].role # "system"
      BY <1>6
    <2>3. OpenAfter(ms, i - 1) = 0 /\ OpenAfter(ms, i) = 0 /\ ~ IsTool(ms, i)
      BY <1>2, <2>2, NotTool, ClosedBeside
    <2>4. ExpectedRole(ms, i) = <<"user">>
      BY <1>6, <2>2, <2>3, Zenon DEF ExpectedRole
    <2>5. Seg(Turn("user", text), 0, 0, <<"user">>)
      BY <1>3, PlainSymbols, SegTurn
    <2> QED BY <2>1, <2>3, <2>4, <2>5, Zenon DEF block
  <1>7. CASE ms[i].role = "assistant"
    <2> DEFINE turn == AssistantBody(ms, i, DefaultOptions, text)
    <2>1. block = Turn("assistant", turn)
      BY <1>4, <1>7
    <2>2. ms[i].role # "tool" /\ ms[i].role # "system"
      BY <1>7
    <2>3. OpenAfter(ms, i - 1) = 0 /\ OpenAfter(ms, i) = 0 /\ ~ IsTool(ms, i)
      BY <1>2, <2>2, NotTool, ClosedBeside
    <2>4. ExpectedRole(ms, i) = <<"assistant">>
      BY <1>7, <2>2, <2>3, Zenon DEF ExpectedRole
    <2>5. turn \in Seq(Plain)
      <3>1. DefaultOptions.preserve = TRUE
        BY DEF DefaultOptions
      <3>2. turn = ((<<"<think>">> \o Trim(ms[i].reasoning)) \o <<"</think>">>) \o text
        BY <3>1, Zenon DEF AssistantBody
      <3>3. Trim(ms[i].reasoning) \in Seq(Plain)
        <4>1. <<>> \in Seq(Plain)
          OBVIOUS
        <4> QED BY <1>1, <4>1, TrimType
      <3>4. <<"<think>">> \in Seq(Plain) /\ <<"</think>">> \in Seq(Plain)
        BY PlainSymbols
      <3>5. <<"<think>">> \o Trim(ms[i].reasoning) \in Seq(Plain)
        BY <3>3, <3>4, ConcatType
      <3>6. (<<"<think>">> \o Trim(ms[i].reasoning)) \o <<"</think>">> \in Seq(Plain)
        BY <3>4, <3>5, ConcatType
      <3>7. ((<<"<think>">> \o Trim(ms[i].reasoning)) \o <<"</think>">>) \o text \in Seq(Plain)
        BY <1>3, <3>6, ConcatType
      <3> QED BY <3>2, <3>7, Zenon
    <2> HIDE DEF turn
    <2>6. Seg(Turn("assistant", turn), 0, 0, <<"assistant">>)
      BY <2>5, PlainSymbols, SegTurn
    <2> QED BY <2>1, <2>3, <2>4, <2>6, Zenon DEF block
  <1>8. CASE ms[i].role = "tool"
    <2>1. block = ToolBlock(ms, i, text)
      BY <1>4, <1>8
    <2>2. IsTool(ms, i)
      BY <1>2, <1>8, Zenon DEF IsTool
    <2>3. i > 1
      <3>1. i # 1
        BY <1>8
      <3> QED BY <1>1, <3>1
    <2>4. Seg(ToolBlock(ms, i, text), OpenAfter(ms, i - 1), OpenAfter(ms, i), ExpectedRole(ms, i))
      BY <1>2, <1>3, <2>2, <2>3, ToolSegment
    <2> QED BY <2>1, <2>4, Zenon DEF block
  <1>9. ms[i].role \in {"system", "user", "assistant", "tool"}
    BY <1>2, AcceptedRoles
  <1> QED BY <1>5, <1>6, <1>7, <1>8, <1>9, Zenon

\* The message blocks of a conversation are a row of closed turns.
LEMMA BlocksSegment ==
  ASSUME NEW ms, PlainConversation(ms), Accepts(ms, DefaultOptions), ms[1].role # "tool"
  PROVE  Seg(FlattenSeq([i \in DOMAIN ms |-> MessageBlock(ms, i, DefaultOptions)]), 0, 0,
             FlattenSeq([i \in DOMAIN ms |-> ExpectedRole(ms, i)]))
  <1> DEFINE n == Len(ms)
             s == [i \in 1..n |-> MessageBlock(ms, i, DefaultOptions)]
             rs == [i \in 1..n |-> ExpectedRole(ms, i)]
             st == [i \in 0..n |-> OpenAfter(ms, i)]
  <1>1. n \in Nat /\ DOMAIN ms = 1..n
    BY DEF PlainConversation
  <1>2. st[0] = 0 /\ st[n] = 0
    <2>1. 0 \notin 1..n /\ n + 1 \notin 1..n /\ 0 \in 0..n /\ n \in 0..n
      BY <1>1
    <2>2. ~ IsTool(ms, 0) /\ ~ IsTool(ms, n + 1)
      BY <1>1, <2>1, Zenon DEF IsTool
    <2> QED BY <2>1, <2>2, Zenon DEF OpenAfter
  <1>3. ASSUME NEW i \in 1..n PROVE Seg(s[i], st[i - 1], st[i], rs[i])
    <2>1. i \in 0..n /\ i - 1 \in 0..n
      BY <1>1
    <2>2. /\ s[i] = MessageBlock(ms, i, DefaultOptions) /\ rs[i] = ExpectedRole(ms, i)
          /\ st[i - 1] = OpenAfter(ms, i - 1) /\ st[i] = OpenAfter(ms, i)
      BY <2>1, Zenon
    <2>3. Seg(MessageBlock(ms, i, DefaultOptions), OpenAfter(ms, i - 1), OpenAfter(ms, i),
              ExpectedRole(ms, i))
      BY BlockSegment
    <2> HIDE DEF s, st, rs
    <2> QED BY <2>2, <2>3, Zenon
  <1>4. s = [i \in 1..n |-> s[i]] /\ rs = [i \in 1..n |-> rs[i]]
    OBVIOUS
  <1>5. /\ FlattenSeq([i \in DOMAIN ms |-> MessageBlock(ms, i, DefaultOptions)]) = FlattenSeq(s)
        /\ FlattenSeq([i \in DOMAIN ms |-> ExpectedRole(ms, i)]) = FlattenSeq(rs)
    BY <1>1, Zenon
  <1> HIDE DEF s, st, rs, n
  <1>6. SegmentRow(Symbols, "<|im_start|>", "<|im_end|>", n, s, st, rs)
    <2>1. st[0] \in {0, 1}
      BY <1>2
    <2> QED BY <1>1, <1>3, <1>4, <2>1, Zenon DEF SegmentRow, Seg
  <1>7. Seg(FlattenSeq(s), st[0], st[n], FlattenSeq(rs))
    BY <1>6, PlainFacts, SegmentFlatten DEF Seg
  <1> QED BY <1>2, <1>5, <1>7, Zenon

\* The system turn, if there is one.
LEMMA SystemSegment ==
  ASSUME NEW ms, PlainConversation(ms), ms # <<>>, Instruction(DefaultOptions) \notin Markers
  PROVE  Seg(SystemBlock(ms, DefaultOptions), 0, 0,
             IF SystemBlock(ms, DefaultOptions) = <<>> THEN <<>> ELSE <<"system">>)
  <1> DEFINE content == IF ms[1].role = "system" THEN Trim(ms[1].content) ELSE <<>>
             head == IF Instruction(DefaultOptions) = "" THEN <<>> ELSE <<Instruction(DefaultOptions)>>
             block == SystemBlock(ms, DefaultOptions)
  <1>1. 1 \in 1..Len(ms)
    <2>1. Len(ms) \in Nat /\ DOMAIN ms = 1..Len(ms)
      BY DEF PlainConversation
    <2>2. ms[1].content = ms[1].content
      OBVIOUS
    <2> QED BY <2>1
  <1>2. content \in Seq(Plain)
    <2>1. ms[1].content \in Seq(Plain)
      BY <1>1 DEF PlainConversation
    <2>2. Trim(ms[1].content) \in Seq(Plain)
      BY <2>1, TrimType
    <2>3. <<>> \in Seq(Plain)
      OBVIOUS
    <2> QED BY <2>2, <2>3, Zenon
  <1>3. head \in Seq(Plain)
    <2>1. Instruction(DefaultOptions) \in Plain
      BY Zenon DEF Plain
    <2>2. <<Instruction(DefaultOptions)>> \in Seq(Plain)
      BY <2>1
    <2>3. <<>> \in Seq(Plain)
      OBVIOUS
    <2> QED BY <2>2, <2>3, Zenon
  <1>4. block = IF head \o content = <<>> THEN <<>> ELSE Turn("system", head \o content)
    BY Zenon DEF SystemBlock
  <1> HIDE DEF head, content, block
  <1>5. head \o content \in Seq(Plain)
    BY <1>2, <1>3, ConcatType
  <1>6. CASE block = <<>>
    <2>1. <<>> \in Seq(Plain) /\ 0 \in {0, 1}
      OBVIOUS
    <2>2. Seg(<<>>, 0, 0, <<>>)
      BY <2>1, SegText
    <2> QED BY <1>6, <2>2, Zenon DEF block
  <1>7. CASE block # <<>>
    <2>1. block = Turn("system", head \o content)
      BY <1>4, <1>7, Zenon
    <2>2. Seg(Turn("system", head \o content), 0, 0, <<"system">>)
      BY <1>5, PlainSymbols, SegTurn
    <2> QED BY <1>7, <2>1, <2>2, Zenon DEF block
  <1> QED BY <1>6, <1>7

LEMMA GenerationSegment == Seg(GenerationPrompt(DefaultOptions), 0, 1, <<"assistant">>)
  <1> DEFINE open == <<"<|im_start|>", "assistant">>
  <1>1. GenerationPrompt(DefaultOptions) = <<"<|im_start|>", "assistant", "<think>">> \o <<>>
    <2>1. DefaultOptions.generation = TRUE /\ DefaultOptions.thinking = TRUE
      BY DEF DefaultOptions
    <2> QED BY <2>1, Zenon DEF GenerationPrompt
  <1>2. <<"<|im_start|>", "assistant", "<think>">> \o <<>> = open \o <<"<think>">>
    OBVIOUS
  <1>3. Seg(open, 0, 1, <<"assistant">>)
    BY SegStart, PlainSymbols
  <1>4. <<"<think>">> \in Seq(Plain) /\ 1 \in {0, 1}
    BY PlainSymbols
  <1> HIDE DEF open
  <1>5. Seg(open \o <<"<think>">>, 0, 1, <<"assistant">>)
    BY <1>3, <1>4, SegMore
  <1> QED BY <1>1, <1>2, <1>5, Zenon

LEMMA RenderSegment ==
  ASSUME NEW ms, PlainConversation(ms), ms[1].role # "tool",
         Instruction(DefaultOptions) \notin Markers, Render(ms, DefaultOptions) # <<>>
  PROVE  Seg(Render(ms, DefaultOptions), 0, 1, ExpectedRoles(ms))
  <1> DEFINE system == SystemBlock(ms, DefaultOptions)
             blocks == FlattenSeq([i \in DOMAIN ms |-> MessageBlock(ms, i, DefaultOptions)])
             last == GenerationPrompt(DefaultOptions)
             one == IF SystemBlock(ms, DefaultOptions) = <<>> THEN <<>> ELSE <<"system">>
             roles == FlattenSeq([i \in DOMAIN ms |-> ExpectedRole(ms, i)])
  <1>1. Accepts(ms, DefaultOptions)
    BY Zenon DEF Render
  <1>2. ms # <<>>
    BY <1>1, Zenon DEF Accepts
  <1>3. Render(ms, DefaultOptions) = (system \o blocks) \o last
    BY <1>1, Zenon DEF Render
  <1>4. ExpectedRoles(ms) = (one \o roles) \o <<"assistant">>
    BY Zenon DEF ExpectedRoles
  <1>5. Seg(system, 0, 0, one)
    BY <1>2, SystemSegment
  <1>6. Seg(blocks, 0, 0, roles)
    BY <1>1, BlocksSegment
  <1>7. Seg(last, 0, 1, <<"assistant">>)
    BY GenerationSegment
  <1> HIDE DEF system, blocks, last, one, roles
  <1>8. Seg(system \o blocks, 0, 0, one \o roles)
    BY <1>5, <1>6, SegCat
  <1>9. Seg((system \o blocks) \o last, 0, 1, (one \o roles) \o <<"assistant">>)
    BY <1>7, <1>8, SegCat
  <1> QED BY <1>3, <1>4, <1>9, Zenon

-----------------------------------------------------------------------------
(* Tags in a text, patch tokens in a prompt *)

\* How often x is in s.
Many(s, x) == CountTo(s, x, Len(s))

LEMMA ManyCat ==
  ASSUME NEW S, NEW p \in Seq(S), NEW q \in Seq(S), NEW x
  PROVE  Many(p \o q, x) = Many(p, x) + Many(q, x)
  <1> DEFINE r == p \o q
  <1>1. CountsAdd(p, q, r, x)
    BY CountCat
  <1>2. Len(r) = Len(p) + Len(q) /\ Len(q) \in 0..Len(q)
    OBVIOUS
  <1> HIDE DEF r
  <1>3. CountTo(r, x, Len(p) + Len(q)) = CountTo(p, x, Len(p)) + CountTo(q, x, Len(q))
    BY <1>1, <1>2, Zenon DEF CountsAdd
  <1> QED BY <1>2, <1>3, Zenon DEF Many, r

LEMMA ManyNat ==
  ASSUME NEW S, NEW p \in Seq(S), NEW x
  PROVE  Many(p, x) \in Nat
  <1>1. Len(p) \in Nat
    OBVIOUS
  <1> QED BY <1>1, CountNat DEF Many

LEMMA ManyNone ==
  ASSUME NEW S, NEW p \in Seq(S), NEW x, x \notin S
  PROVE  Many(p, x) = 0
  <1>1. Len(p) \in Nat /\ \A i \in 1..Len(p) : p[i] # x
    OBVIOUS
  <1> QED BY <1>1, CountZero DEF Many

LEMMA ManyAll ==
  ASSUME NEW n \in Nat, NEW x
  PROVE  Many([i \in 1..n |-> x], x) = n
  <1> DEFINE s == [i \in 1..n |-> x]
  <1>1. Len(s) = n
    OBVIOUS
  <1>2. {i \in 1..n : s[i] = x} = 1..n
    OBVIOUS
  <1> HIDE DEF s
  <1>3. Cardinality(1..n) = n
    <2>1. Cardinality(1..n) = IF 1 > n THEN 0 ELSE n - 1 + 1
      BY FS_Interval
    <2> QED BY <2>1
  <1> QED BY <1>1, <1>2, <1>3, Zenon DEF Many, CountTo, s

LEMMA ManyOne ==
  ASSUME NEW x
  PROVE  Many(<<x>>, x) = 1
  <1>1. <<x>> = [i \in 1..1 |-> x]
    OBVIOUS
  <1> QED BY <1>1, ManyAll

\* Trimming takes white space only.
LEMMA TrimMany ==
  ASSUME NEW S, NEW t \in Seq(S), NEW x, x # "space"
  PROVE  Many(Trim(t), x) = Many(t, x)
  <1>1. Len(t) \in Nat /\ DOMAIN t = 1..Len(t)
    OBVIOUS
  <1>2. \A i \in 1..Len(t) : t[i] = x => i \in Solid(t)
    BY <1>1 DEF Solid
  <1>3. CASE Solid(t) = {} /\ Trim(t) = <<>>
    <2>1. \A i \in 1..Len(t) : t[i] # x
      BY <1>2, <1>3
    <2>2. CountTo(t, x, Len(t)) = 0
      BY <1>1, <2>1, CountZero
    <2>4. Many(<<>>, x) = 0
      <3>1. Len(<<>>) = 0
        OBVIOUS
      <3>2. CountTo(<<>>, x, 0) = 0
        BY CountZero
      <3> QED BY <3>1, <3>2, Zenon DEF Many
    <2> QED BY <1>3, <2>2, <2>4 DEF Many
  <1>4. CASE \E lo, hi : Trims(t, lo, hi)
    <2>1. PICK lo, hi : Trims(t, lo, hi)
      BY <1>4
    <2> DEFINE mid == SubSeq(t, lo, hi)
               m == lo - 1
               n == hi - lo + 1
               k == Len(t) - hi
               tail == [j \in 1..k |-> t[hi + j]]
    <2>2. /\ lo \in 1..Len(t) /\ hi \in 1..Len(t) /\ lo <= hi
          /\ (\A i \in Solid(t) : lo <= i /\ i <= hi) /\ Trim(t) = mid
      BY <2>1 DEF Trims, Solid
    <2>3. m \in Nat /\ n \in Nat /\ k \in Nat /\ m + n = hi /\ hi + k = Len(t)
      BY <1>1, <2>2
    <2>4. Len(mid) = n /\ \A j \in 1..n : t[m + j] = mid[j]
      BY <2>2
    <2>5. \A j \in 1..k : t[hi + j] = tail[j]
      OBVIOUS
    <2>6. ASSUME NEW j \in 1..k PROVE tail[j] # x
      <3>1. hi + j \in 1..Len(t) /\ ~(hi + j <= hi)
        BY <1>1, <2>2
      <3>2. hi + j \notin Solid(t)
        BY <2>2, <3>1
      <3> QED BY <1>2, <2>5, <3>1, <3>2
    <2>7. ASSUME NEW i \in 1..m PROVE t[i] # x
      <3>1. i \in 1..Len(t) /\ ~(lo <= i)
        BY <1>1, <2>2
      <3>2. i \notin Solid(t)
        BY <2>2, <3>1
      <3> QED BY <1>2, <3>1, <3>2
    <2> HIDE DEF mid, tail, m, n, k
    <2>8. CountTo(t, x, m) = 0 /\ CountTo(tail, x, k) = 0
      BY <2>3, <2>6, <2>7, CountZero
    <2>9. Behind(t, m, mid, n, t) /\ Behind(t, hi, tail, k, t)
      BY <2>4, <2>5 DEF Behind
    <2>10. CountTo(t, x, m + n) = CountTo(t, x, m) + CountTo(mid, x, n)
      BY <2>3, <2>9, CountShift
    <2>11. CountTo(t, x, hi + k) = CountTo(t, x, hi) + CountTo(tail, x, k)
      <3>1. hi \in Nat
        BY <1>1, <2>2
      <3> QED BY <2>3, <2>9, <3>1, CountShift
    <2>12. CountTo(mid, x, n) \in Nat
      BY <2>3, CountNat
    <2>13. CountTo(t, x, Len(t)) = CountTo(mid, x, n)
      BY <2>3, <2>8, <2>10, <2>11, <2>12
    <2> QED BY <2>2, <2>4, <2>13, Zenon DEF Many
  <1> QED BY <1>3, <1>4, TrimIs

LEMMA Distributes ==
  ASSUME NEW a \in Nat, NEW b \in Nat, NEW c \in Nat
  PROVE  a * (b + c) = a * b + a * c /\ a * 0 = 0 /\ a * 1 = a /\ a * b \in Nat
  OBVIOUS

\* The words but for the patch token.
Bare == Words \ {"pad"}
ImagePiece(p) == IF IsImagePart(p) THEN <<p.url>> ELSE <<>>

LEMMA BareFacts ==
  /\ "space" \in Bare /\ "<image>" \in Bare /\ "pad" \notin Bare /\ Bare \subseteq Words
  /\ "pad" # "space" /\ "<image>" # "space" /\ "<image>" # "pad"
  <1>1. "pad" # "space" /\ "<image>" # "space" /\ "<image>" # "pad"
    OBVIOUS
  <1>2. "space" \in Words /\ "<image>" \in Words
    BY Zenon DEF Words, Literals
  <1> QED BY <1>1, <1>2, Zenon DEF Bare

\* A part of a message that names no tag itself.
PlainPart(p) == p.type = "text" => p.text \in Seq(Bare) /\ Lacks(p.text, Tags)

LEMMA AddPartTags ==
  ASSUME NEW text \in Seq(Bare), NEW p, PlainPart(p)
  PROVE  /\ AddPart(text, p) \in Seq(Bare)
         /\ Many(AddPart(text, p), "<image>") = Many(text, "<image>") + Len(ImagePiece(p))
  <1> DEFINE tag == "<image>"
             gap == IF text = <<>> \/ Last(text) = "space" THEN <<>> ELSE <<"space">>
             sign == <<tag>>
  <1>1. gap \in Seq(Bare) /\ Many(gap, tag) = 0 /\ sign \in Seq(Bare) /\ Many(sign, tag) = 1
    <2>1. <<>> \in Seq(Bare) /\ <<"space">> \in Seq(Bare) /\ sign \in Seq(Bare)
      BY BareFacts
    <2>2. <<>> \in Seq({"space"}) /\ <<"space">> \in Seq({"space"}) /\ tag \notin {"space"}
      OBVIOUS
    <2>3. gap \in Seq({"space"}) /\ gap \in Seq(Bare)
      BY <2>1, <2>2, Zenon
    <2> HIDE DEF gap, tag
    <2>4. Many(gap, tag) = 0
      BY <2>2, <2>3, ManyNone
    <2>5. Many(sign, tag) = 1
      BY ManyOne
    <2> QED BY <2>1, <2>3, <2>4, <2>5
  <1>2. Many(text, tag) \in Nat
    BY ManyNat
  <1>3. CASE p.type = "text"
    <2>1. p.text \in Seq(Bare) /\ \A k \in DOMAIN p.text : p.text[k] \notin Tags
      BY <1>3, Zenon DEF PlainPart, Lacks
    <2>2. p.text \in Seq(Bare \ {tag})
      <3>1. tag \in Tags
        BY DEF Tags
      <3> HIDE DEF tag
      <3> QED BY <2>1, <3>1
    <2>3. Many(p.text, tag) = 0
      <3>1. tag \notin Bare \ {tag}
        OBVIOUS
      <3> HIDE DEF tag
      <3> QED BY <2>2, <3>1, ManyNone
    <2>4. AddPart(text, p) = text \o p.text
      BY <1>3, Zenon DEF AddPart
    <2>5. ImagePiece(p) = <<>>
      <3>1. ~ IsImagePart(p)
        BY <1>3 DEF IsImagePart
      <3> QED BY <3>1, Zenon DEF ImagePiece
    <2> HIDE DEF tag
    <2>6. Many(text \o p.text, tag) = Many(text, tag) + Many(p.text, tag)
      BY <2>1, ManyCat
    <2>7. text \o p.text \in Seq(Bare)
      BY <2>1, ConcatType
    <2>8. Len(<<>>) = 0
      OBVIOUS
    <2>9. Many(text \o p.text, tag) = Many(text, tag) + Len(<<>>)
      BY <2>3, <2>6, <2>8
    <2> QED BY <2>4, <2>5, <2>7, <2>9, Zenon DEF tag
  <1>4. CASE p.type # "text" /\ ~ IsImagePart(p)
    <2>1. AddPart(text, p) = text /\ ImagePiece(p) = <<>>
      BY <1>4, Zenon DEF AddPart, ImagePiece
    <2>2. Len(<<>>) = 0
      OBVIOUS
    <2> HIDE DEF tag
    <2>3. Many(text, tag) = Many(text, tag) + Len(<<>>)
      BY <1>2, <2>2
    <2> QED BY <2>1, <2>3, Zenon DEF tag
  <1>5. CASE p.type # "text" /\ IsImagePart(p)
    <2>1. AddPart(text, p) = (text \o gap) \o sign /\ ImagePiece(p) = <<p.url>>
      BY <1>5, Zenon DEF AddPart, ImagePiece
    <2>2. Len(<<p.url>>) = 1
      OBVIOUS
    <2> HIDE DEF gap, sign, tag
    <2>3. text \o gap \in Seq(Bare)
      BY <1>1, ConcatType
    <2>4. (text \o gap) \o sign \in Seq(Bare)
      BY <1>1, <2>3, ConcatType
    <2>5. Many(text \o gap, tag) = Many(text, tag) + Many(gap, tag)
      BY <1>1, ManyCat
    <2>6. Many((text \o gap) \o sign, tag) = Many(text \o gap, tag) + Many(sign, tag)
      BY <1>1, <2>3, ManyCat
    <2>7. Many((text \o gap) \o sign, tag) = Many(text, tag) + Len(<<p.url>>)
      BY <1>1, <1>2, <2>2, <2>5, <2>6
    <2> QED BY <2>1, <2>4, <2>7, Zenon DEF tag
  <1> QED BY <1>3, <1>4, <1>5

PlainItem(item) ==
  IF "parts" \in DOMAIN item THEN \A k \in DOMAIN item.parts : PlainPart(item.parts[k])
  ELSE item.content \in Seq(Bare) /\ Lacks(item.content, Tags)

\* The text of an item has a tag for each of its images.
LEMMA ContentTags ==
  ASSUME NEW item \in ItemType, item # NotObject, PlainItem(item)
  PROVE  /\ ContentOf(item) \in Seq(Bare)
         /\ Many(ContentOf(item), "<image>") = Len(ImagesOf(item))
  <1> DEFINE tag == "<image>"
  <1>1. CASE "parts" \notin DOMAIN item
    <2>1. item.content \in Seq(Bare) /\ \A k \in DOMAIN item.content : item.content[k] \notin Tags
      BY <1>1, Zenon DEF PlainItem, Lacks
    <2>2. ContentOf(item) = item.content /\ ImagesOf(item) = <<>>
      BY <1>1, Zenon DEF ContentOf, ImagesOf
    <2>3. tag \in Tags
      BY DEF Tags
    <2>4. Len(<<>>) = 0 /\ tag \notin Bare \ {tag}
      OBVIOUS
    <2> HIDE DEF tag
    <2>5. item.content \in Seq(Bare \ {tag})
      BY <2>1, <2>3
    <2>6. Many(item.content, tag) = 0
      BY <2>4, <2>5, ManyNone
    <2> QED BY <2>1, <2>2, <2>4, <2>6, Zenon DEF tag
  <1>2. CASE "parts" \in DOMAIN item
    <2> DEFINE parts == item.parts
               n == Len(parts)
               s == [i \in 1..n |-> ImagePiece(parts[i])]
    <2>1. parts \in Seq(PartType)
      BY <1>2 DEF ItemType, NotObject
    <2>2. n \in Nat /\ DOMAIN parts = 1..n /\ \A i \in 1..n : parts[i] \in PartType
      BY <2>1
    <2>3. \A i \in 1..n : PlainPart(parts[i])
      BY <1>2, <2>2, Zenon DEF PlainItem
    <2>4. PICK f : Collected(f, parts, n) /\ ContentOf(item) = f[n]
      BY <1>2, <2>2, ContentIs, Zenon
    <2>5. ImagesOf(item) = FlattenSeq(s)
      BY <1>2, <2>2, Zenon DEF ImagesOf, ImagePiece
    <2> HIDE DEF parts, n
    <2>6. Pieces(s, n, ImageType)
      <3>1. ASSUME NEW i \in 1..n PROVE ImagePiece(parts[i]) \in Seq(ImageType)
        <4>1. parts[i] \in PartType
          BY <2>2
        <4>2. IsImagePart(parts[i]) => parts[i].url \in ImageType
          BY <4>1 DEF PartType, IsImagePart
        <4>3. CASE IsImagePart(parts[i])
          <5>1. <<parts[i].url>> \in Seq(ImageType)
            BY <4>2, <4>3
          <5> QED BY <4>3, <5>1, Zenon DEF ImagePiece
        <4>4. CASE ~ IsImagePart(parts[i])
          <5>1. <<>> \in Seq(ImageType)
            OBVIOUS
          <5> QED BY <4>4, <5>1, Zenon DEF ImagePiece
        <4> QED BY <4>3, <4>4
      <3>2. s = [i \in 1..n |-> s[i]] /\ \A i \in 1..n : s[i] = ImagePiece(parts[i])
        OBVIOUS
      <3> HIDE DEF s
      <3> QED BY <3>1, <3>2 DEF Pieces
    <2>7. \A i \in 1..n : s[i] = ImagePiece(parts[i])
      OBVIOUS
    <2> HIDE DEF s
    <2>8. PICK g : Joins(g, s, n, ImageType) /\ FlattenSeq(s) = g[n]
      BY <2>2, <2>6, FlattenJoins
    <2>9. f[0] = <<>> /\ \A k \in 1..n : f[k] = AddPart(f[k - 1], parts[k])
      BY <2>4, Zenon DEF Collected
    <2>10. /\ g[0] = <<>> /\ \A k \in 1..n : g[k] = g[k - 1] \o s[k]
           /\ \A k \in 0..n : g[k] \in Seq(ImageType)
      BY <2>8, Zenon DEF Joins
    <2> DEFINE Agree(k) == f[k] \in Seq(Bare) /\ Many(f[k], tag) = Len(g[k])
               bad == {k \in 0..n : ~ Agree(k)}
    <2> HIDE DEF tag
    <2>11. bad = {}
      <3> SUFFICES ASSUME bad # {} PROVE FALSE
        OBVIOUS
      <3>1. PICK k \in bad : \A m \in bad : ~(m < k)
        <4>1. bad \subseteq Nat
          BY <2>2
        <4> HIDE DEF bad
        <4> QED BY <4>1, Least
      <3>2. k \in 0..n /\ ~ Agree(k)
        BY <3>1
      <3>3. Agree(0)
        <4>1. Len(<<>>) = 0 /\ <<>> \in Seq(Bare)
          OBVIOUS
        <4>2. CountTo(<<>>, tag, 0) = 0
          BY CountZero
        <4> QED BY <2>9, <2>10, <4>1, <4>2, Zenon DEF Many
      <3>a. k # 0
        BY <3>2, <3>3, Zenon
      <3>4. k \in 1..n /\ k - 1 \in 0..n /\ k - 1 < k
        BY <2>2, <3>2, <3>a
      <3>5. Agree(k - 1)
        <4>1. k - 1 \notin bad
          <5> HIDE DEF bad
          <5> QED BY <3>1, <3>4
        <4> QED BY <3>4, <4>1
      <3>6. f[k] = AddPart(f[k - 1], parts[k]) /\ g[k] = g[k - 1] \o s[k] /\ s[k] = ImagePiece(parts[k])
        BY <2>7, <2>9, <2>10, <3>4, Zenon
      <3>7. /\ AddPart(f[k - 1], parts[k]) \in Seq(Bare)
            /\ Many(AddPart(f[k - 1], parts[k]), tag) = Many(f[k - 1], tag) + Len(ImagePiece(parts[k]))
        <4>1. PlainPart(parts[k]) /\ f[k - 1] \in Seq(Bare)
          BY <2>3, <3>4, <3>5, Zenon
        <4> QED BY <4>1, AddPartTags DEF tag
      <3>8. Len(g[k - 1] \o s[k]) = Len(g[k - 1]) + Len(s[k])
        <4>1. g[k - 1] \in Seq(ImageType) /\ s[k] \in Seq(ImageType)
          BY <2>6, <2>10, <3>4, Zenon DEF Pieces
        <4> QED BY <4>1
      <3>9. Agree(k)
        BY <3>5, <3>6, <3>7, <3>8, Zenon
      <3> QED BY <3>2, <3>9, Zenon
    <2>12. n \in 0..n
      BY <2>2
    <2>13. Agree(n)
      BY <2>11, <2>12
    <2> QED BY <2>4, <2>5, <2>8, <2>13, Zenon DEF tag, n, parts
  <1> QED BY <1>1, <1>2

\* Each tag of a text becomes one run of patch tokens.
LEMMA ExpandMany ==
  ASSUME NEW text \in Seq(Bare)
  PROVE  Many(ExpandImageTags(text), "pad") = Patches * Many(text, "<image>")
  <1> DEFINE tag == "<image>"
             pad == "pad"
             n == Len(text)
             s == [i \in 1..n |-> Expanded(text, i)]
  <1>1. text \in Seq(Words) /\ pad \in Words
    <2>1. pad \in Words
      BY Zenon DEF Words, Literals
    <2>2. Bare \subseteq Words
      BY BareFacts
    <2> QED BY <2>1, <2>2
  <1>2. Pieces(s, n, Words) /\ ExpandImageTags(text) = FlattenSeq(s) /\ n \in Nat
    BY <1>1, ExpandPieces
  <1>3. \A i \in 1..n : s[i] = Expanded(text, i)
    OBVIOUS
  <1>4. PICK f : Joins(f, s, n, Words) /\ FlattenSeq(s) = f[n]
    <2> HIDE DEF s, n
    <2> QED BY <1>2, FlattenJoins
  <1>5. /\ f[0] = <<>> /\ \A k \in 1..n : f[k] = f[k - 1] \o s[k]
        /\ \A k \in 0..n : f[k] \in Seq(Words)
    BY <1>4, Zenon DEF Joins
  <1>6. Patches \in Nat
    BY TemplateAssumption
  <1>7. ASSUME NEW i \in 1..n
        PROVE  Many(Expanded(text, i), pad) = IF text[i] = tag THEN Patches ELSE 0
    <2>1. CASE text[i] = tag /\ Patches > 0
      <3>1. Expanded(text, i) = [p \in 1..Patches |-> pad]
        BY <2>1, Zenon DEF Expanded
      <3> HIDE DEF pad, tag
      <3>2. Many([p \in 1..Patches |-> pad], pad) = Patches
        BY <1>6, ManyAll
      <3> QED BY <2>1, <3>1, <3>2, Zenon
    <2>2. CASE ~(text[i] = tag /\ Patches > 0)
      <3>1. Expanded(text, i) = <<text[i]>>
        BY <2>2, Zenon DEF Expanded
      <3>2. text[i] # pad
        <4>1. text[i] \in Bare
          OBVIOUS
        <4> QED BY <4>1, BareFacts, Zenon
      <3>3. <<text[i]>> \in Seq({text[i]}) /\ pad \notin {text[i]}
        BY <3>2
      <3> HIDE DEF pad, tag
      <3>4. Many(<<text[i]>>, pad) = 0
        BY <3>3, ManyNone
      <3>5. text[i] = tag => Patches = 0
        BY <1>6, <2>2
      <3> QED BY <3>1, <3>4, <3>5
    <2> QED BY <2>1, <2>2
  <1> DEFINE Agree(k) == Many(f[k], pad) = Patches * CountTo(text, tag, k)
             bad == {k \in 0..n : ~ Agree(k)}
  <1> HIDE DEF tag, pad, s, n
  <1>8. bad = {}
    <2> SUFFICES ASSUME bad # {} PROVE FALSE
      OBVIOUS
    <2>1. PICK k \in bad : \A m \in bad : ~(m < k)
      <3>1. bad \subseteq Nat
        BY <1>2
      <3> HIDE DEF bad
      <3> QED BY <3>1, Least
    <2>2. k \in 0..n /\ ~ Agree(k)
      BY <2>1
    <2>3. Agree(0)
      <3>1. Len(<<>>) = 0
        OBVIOUS
      <3>2. CountTo(<<>>, pad, 0) = 0 /\ CountTo(text, tag, 0) = 0
        BY CountZero
      <3>3. Patches * 0 = 0
        BY <1>6
      <3> QED BY <1>5, <3>1, <3>2, <3>3, Zenon DEF Many
    <2>a. k # 0
      BY <2>2, <2>3, Zenon
    <2>4. k \in 1..n /\ k - 1 \in 0..n /\ k - 1 < k /\ k - 1 \in Nat /\ (k - 1) + 1 = k
      BY <1>2, <2>2, <2>a
    <2>5. Agree(k - 1)
      <3>1. k - 1 \notin bad
        <4> HIDE DEF bad
        <4> QED BY <2>1, <2>4
      <3> QED BY <2>4, <3>1
    <2>6. f[k] = f[k - 1] \o s[k] /\ s[k] = Expanded(text, k)
      BY <1>3, <1>5, <2>4, Zenon
    <2>7. Many(f[k - 1] \o s[k], pad) = Many(f[k - 1], pad) + Many(s[k], pad)
      <3>1. f[k - 1] \in Seq(Words) /\ s[k] \in Seq(Words)
        BY <1>2, <1>5, <2>4, Zenon DEF Pieces
      <3> QED BY <3>1, ManyCat
    <2>8. Many(s[k], pad) = IF text[k] = tag THEN Patches ELSE 0
      BY <1>7, <2>4, <2>6, Zenon
    <2>9. CountTo(text, tag, k) = CountTo(text, tag, k - 1) + IF text[k] = tag THEN 1 ELSE 0
      <3>1. CountTo(text, tag, (k - 1) + 1)
              = CountTo(text, tag, k - 1) + IF text[(k - 1) + 1] = tag THEN 1 ELSE 0
        BY <2>4, CountNext
      <3> QED BY <2>4, <3>1
    <2>10. CountTo(text, tag, k - 1) \in Nat
      BY <2>4, CountNat
    <2>11. Many(f[k], pad) = Patches * CountTo(text, tag, k - 1) + IF text[k] = tag THEN Patches ELSE 0
      BY <2>5, <2>6, <2>7, <2>8, Zenon
    <2>12. Patches * CountTo(text, tag, k)
             = Patches * CountTo(text, tag, k - 1) + IF text[k] = tag THEN Patches ELSE 0
      <3> DEFINE c == CountTo(text, tag, k - 1)
      <3>1. /\ Patches * (c + 1) = Patches * c + Patches * 1 /\ Patches * 1 = Patches
            /\ Patches * (c + 0) = Patches * c + Patches * 0 /\ Patches * 0 = 0
        <4>1. 0 \in Nat /\ 1 \in Nat
          OBVIOUS
        <4> QED BY <1>6, <2>10, <4>1, Distributes
      <3>2. CASE text[k] = tag
        BY <2>9, <3>1, <3>2, Zenon
      <3>3. CASE text[k] # tag
        BY <2>9, <3>1, <3>3, Zenon
      <3> QED BY <3>2, <3>3
    <2>13. Agree(k)
      <3> HIDE DEF bad
      <3> QED BY <2>11, <2>12
    <2> QED BY <2>2, <2>13
  <1>9. n \in 0..n
    BY <1>2
  <1>10. Agree(n)
    BY <1>8, <1>9
  <1> QED BY <1>2, <1>4, <1>10, Zenon DEF Many, tag, pad, n

\* The symbols a prompt is made of, and n patch tokens in one.
Marked == Words \cup Markers \cup {Instruction(DefaultOptions)}
Pads(p, n) == p \in Seq(Marked) /\ n \in Nat /\ Many(p, "pad") = n

LEMMA PadsCat ==
  ASSUME NEW p, NEW q, NEW m, NEW n, Pads(p, m), Pads(q, n)
  PROVE  Pads(p \o q, m + n)
  <1>1. /\ p \in Seq(Marked) /\ q \in Seq(Marked) /\ m \in Nat /\ n \in Nat
        /\ Many(p, "pad") = m /\ Many(q, "pad") = n
    BY Zenon DEF Pads
  <1>2. p \o q \in Seq(Marked) /\ m + n \in Nat
    BY <1>1, ConcatType
  <1>3. Many(p \o q, "pad") = Many(p, "pad") + Many(q, "pad")
    BY <1>1, ManyCat
  <1> QED BY <1>1, <1>2, <1>3, Zenon DEF Pads

LEMMA PadsNone ==
  ASSUME NEW p \in Seq(Marked \ {"pad"})
  PROVE  Pads(p, 0)
  <1>1. p \in Seq(Marked) /\ 0 \in Nat /\ "pad" \notin Marked \ {"pad"}
    OBVIOUS
  <1>2. Many(p, "pad") = 0
    BY <1>1, ManyNone
  <1> QED BY <1>1, <1>2, Zenon DEF Pads

\* What surrounds a text adds no patch tokens.
LEMMA PadsWithin ==
  ASSUME NEW p, NEW n, Pads(p, n), NEW q, Pads(q, 0)
  PROVE  Pads(p \o q, n) /\ Pads(q \o p, n)
  <1>1. Pads(p \o q, n + 0) /\ Pads(q \o p, 0 + n)
    BY PadsCat
  <1>2. n \in Nat
    BY Zenon DEF Pads
  <1>3. n + 0 = n /\ 0 + n = n
    BY <1>2
  <1> QED BY <1>1, <1>3, Zenon

LEMMA PadsLiterals ==
  /\ Pads(<<>>, 0) /\ Pads(<<"<|im_end|>">>, 0) /\ Pads(<<"<think>">>, 0) /\ Pads(<<"</think>">>, 0)
  /\ Pads(<<"<tool_response>">>, 0) /\ Pads(<<"</tool_response>">>, 0)
  /\ Pads(<<"<|im_start|>", "system">>, 0) /\ Pads(<<"<|im_start|>", "user">>, 0)
  /\ Pads(<<"<|im_start|>", "assistant">>, 0)
  <1> DEFINE Safe == Marked \ {"pad"}
             known == {"<|im_start|>", "<|im_end|>", "<think>", "</think>", "<tool_response>",
                       "</tool_response>", "system", "user", "assistant"}
  <1>1. known \subseteq Marked
    BY Zenon DEF Marked, Markers, Words, Literals
  <1>2. "pad" \notin known
    OBVIOUS
  <1>3. \A a \in known : a \in Safe
    BY <1>1, <1>2, Zenon
  <1> HIDE DEF Safe
  <1>4. \A a, b \in Safe : <<a>> \in Seq(Safe) /\ <<a, b>> \in Seq(Safe) /\ <<>> \in Seq(Safe)
    OBVIOUS
  <1>5. \A a, b \in known : Pads(<<a>>, 0) /\ Pads(<<a, b>>, 0) /\ Pads(<<>>, 0)
    <2> HIDE DEF known
    <2>1. \A p \in Seq(Safe) : Pads(p, 0)
      BY PadsNone DEF Safe
    <2> QED BY <1>3, <1>4, <2>1, Zenon
  <1>6. /\ "<|im_start|>" \in known /\ "<|im_end|>" \in known /\ "<think>" \in known
        /\ "</think>" \in known /\ "<tool_response>" \in known /\ "</tool_response>" \in known
        /\ "system" \in known /\ "user" \in known /\ "assistant" \in known
    BY Zenon
  <1> HIDE DEF known
  <1> QED BY <1>5, <1>6, Zenon

\* A conversation whose texts name no patch token, with the images its tags stand for.
TaggedConversation(ms, images) ==
  /\ Len(ms) \in Nat /\ ms = [i \in 1..Len(ms) |-> ms[i]] /\ Len(images) = Len(ms)
  /\ images = [i \in 1..Len(ms) |-> images[i]]
  /\ \A i \in 1..Len(ms) :
       /\ ms[i].content \in Seq(Bare) /\ ms[i].reasoning = <<>>
       /\ images[i] \in Seq(ImageType) /\ Many(ms[i].content, "<image>") = Len(images[i])
       /\ ms[i].role = "system" => images[i] = <<>>

LEMMA PadsTurn ==
  ASSUME NEW role \in {"system", "user", "assistant"}, NEW text, NEW n, Pads(text, n)
  PROVE  Pads(Turn(role, text), n)
  <1> DEFINE open == <<"<|im_start|>", role>>
             end == <<"<|im_end|>">>
  <1>1. Pads(open, 0) /\ Pads(end, 0)
    BY PadsLiterals, Zenon
  <1>2. Turn(role, text) = (open \o text) \o end
    BY Zenon DEF Turn
  <1> HIDE DEF open, end
  <1>3. Pads(open \o text, n)
    BY <1>1, PadsWithin
  <1>4. Pads((open \o text) \o end, n)
    BY <1>1, <1>3, PadsWithin
  <1> QED BY <1>2, <1>4, Zenon

LEMMA PadsTool ==
  ASSUME NEW ms, NEW i, NEW text, NEW n, Pads(text, n)
  PROVE  Pads(ToolBlock(ms, i, text), n)
  <1> DEFINE head == IF i > 1 /\ ~ IsTool(ms, i - 1) THEN <<"<|im_start|>", "user">> ELSE <<>>
             open == <<"<tool_response>">>
             shut == <<"</tool_response>">>
             tail == IF IsTool(ms, i + 1) THEN <<>> ELSE <<"<|im_end|>">>
  <1>1. Pads(head, 0) /\ Pads(open, 0) /\ Pads(shut, 0) /\ Pads(tail, 0)
    BY PadsLiterals, Zenon
  <1>2. ToolBlock(ms, i, text) = (((head \o open) \o text) \o shut) \o tail
    BY Zenon DEF ToolBlock
  <1> HIDE DEF head, open, shut, tail
  <1>3. Pads(head \o open, 0)
    BY <1>1, PadsWithin
  <1>4. Pads((head \o open) \o text, n)
    BY <1>3, PadsWithin
  <1>5. Pads(((head \o open) \o text) \o shut, n)
    BY <1>1, <1>4, PadsWithin
  <1>6. Pads((((head \o open) \o text) \o shut) \o tail, n)
    BY <1>1, <1>5, PadsWithin
  <1> QED BY <1>2, <1>6, Zenon

LEMMA BareMarked == Bare \subseteq Marked \ {"pad"} /\ Words \subseteq Marked /\ "pad" \in Words
  <1>1. "pad" \in Words
    BY Zenon DEF Words, Literals
  <1> QED BY <1>1, Zenon DEF Bare, Marked

\* The patch tokens of one message.
LEMMA BlockPads ==
  ASSUME NEW ms, NEW images, TaggedConversation(ms, images), Accepts(ms, DefaultOptions),
         NEW i \in 1..Len(ms)
  PROVE  Pads(MessageBlock(ms, i, DefaultOptions), Patches * Len(images[i]))
  <1> DEFINE text == ExpandImageTags(Trim(ms[i].content))
             block == MessageBlock(ms, i, DefaultOptions)
             n == Patches * Len(images[i])
  <1>1. /\ ms[i].content \in Seq(Bare) /\ ms[i].reasoning = <<>>
        /\ images[i] \in Seq(ImageType) /\ Many(ms[i].content, "<image>") = Len(images[i])
        /\ ms[i].role = "system" => images[i] = <<>>
    BY Zenon DEF TaggedConversation
  <1>2. Pads(text, n)
    <2>1. Trim(ms[i].content) \in Seq(Bare)
      BY <1>1, TrimType
    <2>2. Many(Trim(ms[i].content), "<image>") = Len(images[i])
      <3>1. "<image>" # "space"
        BY BareFacts
      <3>2. Many(Trim(ms[i].content), "<image>") = Many(ms[i].content, "<image>")
        BY <1>1, <3>1, TrimMany
      <3> QED BY <1>1, <3>2, Zenon
    <2>3. Many(text, "pad") = n
      <3>1. Many(text, "pad") = Patches * Many(Trim(ms[i].content), "<image>")
        BY <2>1, ExpandMany
      <3> QED BY <2>2, <3>1, Zenon
    <2>4. text \in Seq(Marked)
      <3>1. Trim(ms[i].content) \in Seq(Words)
        <4>1. Bare \subseteq Words
          BY BareFacts
        <4> QED BY <2>1, <4>1
      <3>2. text \in Seq(Words)
        BY <3>1, BareMarked, ExpandType
      <3> HIDE DEF text
      <3> QED BY <3>2, BareMarked
    <2>5. n \in Nat
      <3>1. Patches \in Nat /\ Len(images[i]) \in Nat
        BY <1>1, TemplateAssumption
      <3> QED BY <3>1
    <2> QED BY <2>3, <2>4, <2>5, Zenon DEF Pads
  <1>3. block = CASE ms[i].role = "system" -> <<>>
                  [] ms[i].role = "user" -> Turn("user", text)
                  [] ms[i].role = "assistant" ->
                       Turn("assistant", AssistantBody(ms, i, DefaultOptions, text))
                  [] ms[i].role = "tool" -> ToolBlock(ms, i, text)
    BY Zenon DEF MessageBlock
  <1> HIDE DEF text, block, n
  <1>4. CASE ms[i].role = "system"
    <2>1. block = <<>>
      BY <1>3, <1>4
    <2>2. n = 0
      <3>1. Len(images[i]) = 0 /\ Patches \in Nat
        BY <1>1, <1>4, TemplateAssumption
      <3> QED BY <3>1 DEF n
    <2> QED BY <2>1, <2>2, PadsLiterals, Zenon DEF block, n
  <1>5. CASE ms[i].role = "user"
    <2>1. block = Turn("user", text)
      BY <1>3, <1>5
    <2>2. Pads(Turn("user", text), n)
      BY <1>2, PadsTurn
    <2> QED BY <2>1, <2>2, Zenon DEF block, n
  <1>6. CASE ms[i].role = "assistant"
    <2> DEFINE turn == AssistantBody(ms, i, DefaultOptions, text)
               think == <<"<think>">>
               thought == <<"</think>">>
    <2>1. block = Turn("assistant", turn)
      BY <1>3, <1>6
    <2>2. turn = ((think \o Trim(ms[i].reasoning)) \o thought) \o text
      <3>1. DefaultOptions.preserve = TRUE
        BY DEF DefaultOptions
      <3> QED BY <3>1, Zenon DEF AssistantBody
    <2>3. Pads(think, 0) /\ Pads(thought, 0)
      BY PadsLiterals, Zenon
    <2>4. Pads(Trim(ms[i].reasoning), 0)
      <3>1. <<>> \in Seq(Marked \ {"pad"})
        OBVIOUS
      <3>2. Trim(<<>>) \in Seq(Marked \ {"pad"})
        BY <3>1, TrimType
      <3>3. Pads(Trim(<<>>), 0)
        BY <3>2, PadsNone
      <3> QED BY <1>1, <3>3, Zenon
    <2> HIDE DEF turn, think, thought
    <2>5. Pads(think \o Trim(ms[i].reasoning), 0)
      BY <2>3, <2>4, PadsWithin
    <2>6. Pads((think \o Trim(ms[i].reasoning)) \o thought, 0)
      BY <2>3, <2>5, PadsWithin
    <2>7. Pads(((think \o Trim(ms[i].reasoning)) \o thought) \o text, n)
      BY <1>2, <2>6, PadsWithin
    <2>8. Pads(Turn("assistant", turn), n)
      <3>1. Pads(turn, n)
        BY <2>2, <2>7, Zenon
      <3> QED BY <3>1, PadsTurn
    <2> QED BY <2>1, <2>8, Zenon DEF block, n
  <1>7. CASE ms[i].role = "tool"
    <2>1. block = ToolBlock(ms, i, text)
      BY <1>3, <1>7
    <2>2. Pads(ToolBlock(ms, i, text), n)
      BY <1>2, PadsTool
    <2> QED BY <2>1, <2>2, Zenon DEF block, n
  <1>8. ms[i].role \in {"system", "user", "assistant", "tool"}
    <2>1. i \in DOMAIN ms
      BY DEF TaggedConversation
    <2> QED BY <2>1, AcceptedRoles
  <1> QED BY <1>4, <1>5, <1>6, <1>7, <1>8, Zenon

\* The patch tokens of all messages.
LEMMA BlocksPads ==
  ASSUME NEW ms, NEW images, TaggedConversation(ms, images), Accepts(ms, DefaultOptions)
  PROVE  Pads(FlattenSeq([i \in DOMAIN ms |-> MessageBlock(ms, i, DefaultOptions)]),
              Patches * Len(FlattenSeq(images)))
  <1> DEFINE n == Len(ms)
             s == [i \in 1..n |-> MessageBlock(ms, i, DefaultOptions)]
  <1>1. /\ n \in Nat /\ ms = [i \in 1..n |-> ms[i]] /\ images = [i \in 1..n |-> images[i]]
        /\ \A i \in 1..n : images[i] \in Seq(ImageType)
    BY Zenon DEF TaggedConversation
  <1>2. DOMAIN ms = 1..n
    BY <1>1, Zenon
  <1>3. FlattenSeq([i \in DOMAIN ms |-> MessageBlock(ms, i, DefaultOptions)]) = FlattenSeq(s)
    BY <1>2, Zenon
  <1>4. \A i \in 1..n : Pads(s[i], Patches * Len(images[i]))
    <2>1. \A i \in 1..n : s[i] = MessageBlock(ms, i, DefaultOptions)
      OBVIOUS
    <2>2. \A i \in 1..n : Pads(MessageBlock(ms, i, DefaultOptions), Patches * Len(images[i]))
      BY BlockPads
    <2> QED BY <2>1, <2>2, Zenon
  <1>5. s = [i \in 1..n |-> s[i]]
    OBVIOUS
  <1> HIDE DEF s, n
  <1>6. Pieces(s, n, Marked) /\ Pieces(images, n, ImageType)
    BY <1>1, <1>4, <1>5, Zenon DEF Pieces, Pads
  <1>7. PICK f : Joins(f, s, n, Marked) /\ FlattenSeq(s) = f[n]
    <2>1. n \in Nat
      BY <1>1
    <2> QED BY <1>6, <2>1, FlattenJoins
  <1>8. PICK g : Joins(g, images, n, ImageType) /\ FlattenSeq(images) = g[n]
    <2>1. n \in Nat
      BY <1>1
    <2> QED BY <1>6, <2>1, FlattenJoins
  <1>9. /\ f[0] = <<>> /\ \A k \in 1..n : f[k] = f[k - 1] \o s[k]
        /\ g[0] = <<>> /\ \A k \in 1..n : g[k] = g[k - 1] \o images[k]
        /\ \A k \in 0..n : g[k] \in Seq(ImageType)
    BY <1>7, <1>8, Zenon DEF Joins
  <1>10. Patches \in Nat
    BY TemplateAssumption
  <1> DEFINE Agree(k) == Pads(f[k], Patches * Len(g[k]))
             bad == {k \in 0..n : ~ Agree(k)}
  <1>11. bad = {}
    <2> SUFFICES ASSUME bad # {} PROVE FALSE
      OBVIOUS
    <2>1. PICK k \in bad : \A m \in bad : ~(m < k)
      <3>1. bad \subseteq Nat
        BY <1>1
      <3> HIDE DEF bad
      <3> QED BY <3>1, Least
    <2>2. k \in 0..n /\ ~ Agree(k)
      BY <2>1
    <2>3. Agree(0)
      <3>1. Len(<<>>) = 0
        OBVIOUS
      <3>2. Patches * 0 = 0
        BY <1>10
      <3> QED BY <1>9, <3>1, <3>2, PadsLiterals, Zenon
    <2>a. k # 0
      BY <2>2, <2>3, Zenon
    <2>4. k \in 1..n /\ k - 1 \in 0..n /\ k - 1 < k
      BY <1>1, <2>2, <2>a
    <2>5. Agree(k - 1)
      <3>1. k - 1 \notin bad
        <4> HIDE DEF bad
        <4> QED BY <2>1, <2>4
      <3> QED BY <2>4, <3>1
    <2>6. f[k] = f[k - 1] \o s[k] /\ g[k] = g[k - 1] \o images[k]
      BY <1>9, <2>4, Zenon
    <2>7. Pads(s[k], Patches * Len(images[k]))
      BY <1>4, <2>4, Zenon
    <2>8. Pads(f[k - 1] \o s[k], Patches * Len(g[k - 1]) + Patches * Len(images[k]))
      <3> HIDE DEF bad
      <3> QED BY <2>5, <2>7, PadsCat
    <2>9. g[k - 1] \in Seq(ImageType) /\ images[k] \in Seq(ImageType)
      BY <1>1, <1>9, <2>4, Zenon
    <2>10. /\ Len(g[k - 1] \o images[k]) = Len(g[k - 1]) + Len(images[k])
           /\ Len(g[k - 1]) \in Nat /\ Len(images[k]) \in Nat
      BY <2>9
    <2>11. Patches * (Len(g[k - 1]) + Len(images[k])) = Patches * Len(g[k - 1]) + Patches * Len(images[k])
      BY <1>10, <2>10, Distributes
    <2>12. Agree(k)
      BY <2>6, <2>8, <2>10, <2>11, Zenon
    <2> QED BY <2>2, <2>12, Zenon
  <1>12. n \in 0..n
    BY <1>1
  <1>13. Agree(n)
    BY <1>11, <1>12
  <1> QED BY <1>3, <1>7, <1>8, <1>13, Zenon

\* The system turn holds no patch token: its content is not expanded.
LEMMA SystemPads ==
  ASSUME NEW ms, NEW images, TaggedConversation(ms, images), ms # <<>>,
         Instruction(DefaultOptions) \notin Tags
  PROVE  Pads(SystemBlock(ms, DefaultOptions), 0)
  <1> DEFINE content == IF ms[1].role = "system" THEN Trim(ms[1].content) ELSE <<>>
             head == IF Instruction(DefaultOptions) = "" THEN <<>> ELSE <<Instruction(DefaultOptions)>>
             block == SystemBlock(ms, DefaultOptions)
  <1>1. 1 \in 1..Len(ms)
    <2>1. Len(ms) \in Nat /\ ms = [i \in 1..Len(ms) |-> ms[i]]
      BY Zenon DEF TaggedConversation
    <2>2. Len(ms) # 0
      BY <2>1
    <2> QED BY <2>1, <2>2
  <1>2. Pads(content, 0)
    <2>1. ms[1].content \in Seq(Bare)
      BY <1>1, Zenon DEF TaggedConversation
    <2>2. Trim(ms[1].content) \in Seq(Bare)
      BY <2>1, TrimType
    <2>3. Trim(ms[1].content) \in Seq(Marked \ {"pad"})
      BY <2>2, BareMarked
    <2>4. Pads(Trim(ms[1].content), 0)
      BY <2>3, PadsNone
    <2> QED BY <2>4, PadsLiterals, Zenon
  <1>3. Pads(head, 0)
    <2>1. "pad" \in Tags
      BY Zenon DEF Tags
    <2>2. Instruction(DefaultOptions) \in Marked \ {"pad"}
      BY <2>1, Zenon DEF Marked
    <2>3. <<Instruction(DefaultOptions)>> \in Seq(Marked \ {"pad"})
      BY <2>2
    <2>4. Pads(<<Instruction(DefaultOptions)>>, 0)
      BY <2>3, PadsNone
    <2> QED BY <2>4, PadsLiterals, Zenon
  <1>4. block = IF head \o content = <<>> THEN <<>> ELSE Turn("system", head \o content)
    BY Zenon DEF SystemBlock
  <1> HIDE DEF head, content, block
  <1>5. Pads(head \o content, 0)
    BY <1>2, <1>3, PadsWithin
  <1>6. Pads(Turn("system", head \o content), 0)
    BY <1>5, PadsTurn
  <1> QED BY <1>4, <1>6, PadsLiterals, Zenon DEF block

LEMMA GenerationPads == Pads(GenerationPrompt(DefaultOptions), 0)
  <1> DEFINE open == <<"<|im_start|>", "assistant">>
             think == <<"<think>">>
  <1>1. GenerationPrompt(DefaultOptions) = <<"<|im_start|>", "assistant", "<think>">> \o <<>>
    <2>1. DefaultOptions.generation = TRUE /\ DefaultOptions.thinking = TRUE
      BY DEF DefaultOptions
    <2> QED BY <2>1, Zenon DEF GenerationPrompt
  <1>2. <<"<|im_start|>", "assistant", "<think>">> \o <<>> = open \o think
    OBVIOUS
  <1>3. Pads(open, 0) /\ Pads(think, 0)
    BY PadsLiterals, Zenon
  <1> HIDE DEF open, think
  <1>4. Pads(open \o think, 0)
    BY <1>3, PadsWithin
  <1> QED BY <1>1, <1>2, <1>4, Zenon

LEMMA RenderPads ==
  ASSUME NEW ms, NEW images, TaggedConversation(ms, images),
         Instruction(DefaultOptions) \notin Tags, Render(ms, DefaultOptions) # <<>>
  PROVE  Pads(Render(ms, DefaultOptions), Patches * Len(FlattenSeq(images)))
  <1> DEFINE system == SystemBlock(ms, DefaultOptions)
             blocks == FlattenSeq([i \in DOMAIN ms |-> MessageBlock(ms, i, DefaultOptions)])
             last == GenerationPrompt(DefaultOptions)
             n == Patches * Len(FlattenSeq(images))
  <1>1. Accepts(ms, DefaultOptions)
    BY Zenon DEF Render
  <1>2. ms # <<>>
    BY <1>1, Zenon DEF Accepts
  <1>3. Render(ms, DefaultOptions) = (system \o blocks) \o last
    BY <1>1, Zenon DEF Render
  <1>4. Pads(system, 0)
    BY <1>2, SystemPads
  <1>5. Pads(blocks, n)
    BY <1>1, BlocksPads
  <1>6. Pads(last, 0)
    BY GenerationPads
  <1> HIDE DEF system, blocks, last, n
  <1>7. Pads(system \o blocks, n)
    BY <1>4, <1>5, PadsWithin
  <1>8. Pads((system \o blocks) \o last, n)
    BY <1>6, <1>7, PadsWithin
  <1> QED BY <1>3, <1>8, Zenon DEF n

-----------------------------------------------------------------------------
(* What the prompt holds of the messages and images *)

Rendered == Render(req.messages, DefaultOptions)

ParsedStages == {"images", "template", "context", "generate"}
RenderedStages == {"context", "generate"}

\* From the parser on the request is that of the JSON text, and from the template on
\* the prompt is that of its messages.
RenderInv ==
  /\ stage \in ParsedStages /\ "json" \in DOMAIN body => FromJson(body.json, req)
  /\ stage \in RenderedStages => prompt = Rendered

LEMMA InitRender == Init => RenderInv
  <1> SUFFICES ASSUME Init PROVE RenderInv
    OBVIOUS
  <1>1. stage = "load"
    BY DEF Init
  <1>2. stage \notin ParsedStages /\ stage \notin RenderedStages
    BY <1>1 DEF ParsedStages, RenderedStages
  <1> QED BY <1>2, Zenon DEF RenderInv

LEMMA ParseRender ==
  ASSUME AdmissionInv, Parse PROVE RenderInv'
  <1>1. stage = "parse" /\ body \in Bodies /\ body' = body
    BY DEF Parse, AdmissionInv
  <1>2. PICK r \in (IF "json" \in DOMAIN body THEN ParseRequest(body.json) ELSE ParseForm(body.form)) :
          IF r.code # "" THEN Answer(400, r.code) /\ UNCHANGED req
          ELSE req' = r.req /\ stage' = "images" /\ UNCHANGED response
    BY Zenon DEF Parse
  <1>3. CASE r.code # ""
    <2>1. stage' = "closed"
      BY <1>2, <1>3 DEF Answer
    <2>2. stage' \notin ParsedStages /\ stage' \notin RenderedStages
      BY <2>1 DEF ParsedStages, RenderedStages
    <2> QED BY <2>2, Zenon DEF RenderInv
  <1>4. CASE r.code = ""
    <2>1. stage' = "images" /\ req' = r.req
      BY <1>2, <1>4
    <2>2. stage' \notin RenderedStages
      BY <2>1 DEF RenderedStages
    <2>3. ASSUME "json" \in DOMAIN body PROVE FromJson(body.json, r.req)
      <3>1. body.json \in JsonType /\ r \in ParseRequest(body.json)
        BY <1>1, <1>2, <2>3, BodyAssumption, Zenon
      <3> QED BY <1>4, <3>1, ParseRequestType, Zenon
    <2> QED BY <1>1, <2>1, <2>2, <2>3, Zenon DEF RenderInv
  <1> QED BY <1>3, <1>4

\* A step that changes neither the template nor the request.
LEMMA KeepRender ==
  ASSUME RenderInv, UNCHANGED <<effort, instructions, body, req>>,
         stage' \in ParsedStages => stage \in ParsedStages,
         stage' \in RenderedStages => prompt' = Rendered
  PROVE  RenderInv'
  <1>1. Rendered' = Rendered
    BY Zenon DEF Rendered, Render, SystemBlock, Instruction
  <1>2. stage' \in ParsedStages /\ "json" \in DOMAIN body' => FromJson(body'.json, req')
    BY Zenon DEF RenderInv
  <1> QED BY <1>1, <1>2, Zenon DEF RenderInv

LEMMA NextRender == AdmissionInv /\ RenderInv /\ [Next]_vars => RenderInv'
  <1> SUFFICES ASSUME AdmissionInv, RenderInv, [Next]_vars PROVE RenderInv'
    OBVIOUS
  <1>1. CASE UNCHANGED vars
    <2>1. UNCHANGED <<effort, instructions, stage, body, req, prompt>>
      BY <1>1 DEF vars, templateVars, requestVars
    <2> QED BY <2>1, KeepRender, Zenon DEF RenderInv
  <1>2. CASE LoadTemplate
    <2>1. stage' = "load"
      BY <1>2 DEF LoadTemplate, requestVars
    <2>2. stage' \notin ParsedStages /\ stage' \notin RenderedStages
      BY <2>1 DEF ParsedStages, RenderedStages
    <2> QED BY <2>2, Zenon DEF RenderInv
  <1>3. ASSUME NEW b \in Bodies, Receive(b) PROVE RenderInv'
    <2>1. stage' = "parse"
      BY <1>3 DEF Receive
    <2>2. stage' \notin ParsedStages /\ stage' \notin RenderedStages
      BY <2>1 DEF ParsedStages, RenderedStages
    <2> QED BY <2>2, Zenon DEF RenderInv
  <1>4. CASE Parse
    BY <1>4, ParseRender
  <1>5. CASE CheckImage
    <2>1. UNCHANGED <<effort, instructions, body, req>> /\ stage = "images"
      BY <1>5 DEF CheckImage, templateVars
    <2>2. stage' \in {"images", "closed"}
      BY <1>5, <2>1 DEF CheckImage, Answer
    <2>3. stage \in ParsedStages /\ stage' \notin RenderedStages
      BY <2>1, <2>2 DEF ParsedStages, RenderedStages
    <2> QED BY <2>1, <2>3, KeepRender, Zenon
  <1>6. CASE CheckParameters
    <2>1. UNCHANGED <<effort, instructions, body, req>> /\ stage = "images"
      BY <1>6 DEF CheckParameters, templateVars
    <2>2. stage' \in {"template", "closed"}
      BY <1>6 DEF CheckParameters, Answer
    <2>3. stage \in ParsedStages /\ stage' \notin RenderedStages
      BY <2>1, <2>2 DEF ParsedStages, RenderedStages
    <2> QED BY <2>1, <2>3, KeepRender, Zenon
  <1>7. CASE ApplyTemplate
    <2>1. UNCHANGED <<effort, instructions, body, req>> /\ stage = "template"
      BY <1>7 DEF ApplyTemplate, templateVars
    <2>2. prompt' = Rendered
      BY <1>7, Zenon DEF ApplyTemplate, Rendered
    <2>3. stage \in ParsedStages
      BY <2>1 DEF ParsedStages
    <2> QED BY <2>1, <2>2, <2>3, KeepRender, Zenon
  <1>8. CASE CheckContext
    <2>1. UNCHANGED <<effort, instructions, body, req>> /\ stage = "context" /\ prompt' = prompt
      BY <1>8 DEF CheckContext, templateVars
    <2>2. stage \in ParsedStages /\ stage \in RenderedStages
      BY <2>1 DEF ParsedStages, RenderedStages
    <2>3. prompt' = Rendered
      BY <2>1, <2>2, Zenon DEF RenderInv
    <2> QED BY <2>1, <2>2, <2>3, KeepRender, Zenon
  <1>9. CASE Generate
    <2>1. stage' = "closed"
      BY <1>9 DEF Generate, Answer
    <2>2. stage' \notin ParsedStages /\ stage' \notin RenderedStages
      BY <2>1 DEF ParsedStages, RenderedStages
    <2> QED BY <2>2, Zenon DEF RenderInv
  <1> QED BY <1>1, <1>2, <1>3, <1>4, <1>5, <1>6, <1>7, <1>8, <1>9, Zenon DEF Next

\* Whatever the body and however it was parsed, the prompt of a conversation that does
\* not begin with a tool message and names no marker is a row of closed turns, one for
\* each message or row of tool messages, before the open turn of the assistant.
THEOREM TurnsAreMessages == Spec => []TurnsFollowMessages
  <1>1. AdmissionInv /\ RenderInv => TurnsFollowMessages
    <2> SUFFICES ASSUME AdmissionInv, RenderInv, stage \in RenderedStages, prompt # <<>>,
                        req.messages[1].role # "tool", NoLiteralMarker
                 PROVE  /\ Alternates(prompt)
                        /\ Cardinality(Starts(prompt)) = Cardinality(Ends(prompt)) + 1
                        /\ TurnRoles(prompt) = ExpectedRoles(req.messages)
      BY Zenon DEF TurnsFollowMessages, RenderedStages
    <2> DEFINE ms == req.messages
    <2>1. prompt = Render(ms, DefaultOptions) /\ Render(ms, DefaultOptions) # <<>>
      BY Zenon DEF RenderInv, Rendered
    <2>2. IsConversation(ms)
      BY Zenon DEF AdmissionInv, IsRequest
    <2>3. /\ \A i \in DOMAIN ms : Lacks(ms[i].content, Markers)
          /\ Instruction(DefaultOptions) \notin Markers
      BY Zenon DEF NoLiteralMarker
    <2> HIDE DEF ms
    <2>4. PlainConversation(ms)
      BY <2>2, <2>3, PlainContents
    <2>5. ms[1].role # "tool"
      BY Zenon DEF ms
    <2>6. Seg(Render(ms, DefaultOptions), 0, 1, ExpectedRoles(ms))
      BY <2>1, <2>3, <2>4, <2>5, RenderSegment
    <2>7. Seg(prompt, 0, 1, ExpectedRoles(ms))
      BY <2>1, <2>6, Zenon
    <2> QED BY <2>7, SegPrompt DEF ms
  <1> QED BY <1>1, InitAdmission, NextAdmission, InitRender, NextRender, PTL DEF Spec

LEMMA TagFreeText ==
  ASSUME NEW t \in Seq(STRING), Lacks(t, Tags) PROVE t \in Seq(Bare)
  <1>1. \A k \in 1..Len(t) : t[k] \in STRING /\ t[k] \notin Tags
    BY DEF Lacks
  <1>2. \A w : w \in STRING /\ w \notin Tags => w \in Bare
    BY Zenon DEF Tags, Bare, Words
  <1>3. \A k \in 1..Len(t) : t[k] \in Bare
    BY <1>1, <1>2, Zenon
  <1> QED BY <1>3

\* What NoLiteralTag says of one item.
TagFree(item) ==
  IF "parts" \in DOMAIN item
  THEN /\ item.role = "system" => ImagesOf(item) = <<>>
       /\ \A k \in DOMAIN item.parts :
            item.parts[k].type = "text" => Lacks(item.parts[k].text, Tags)
  ELSE Lacks(item.content, Tags)

LEMMA TagFreeItem ==
  ASSUME NEW item \in ItemType, item # NotObject, TagFree(item)
  PROVE  PlainItem(item) /\ (item.role = "system" => ImagesOf(item) = <<>>)
  <1>1. CASE "parts" \notin DOMAIN item
    <2>1. item.content \in Seq(STRING)
      BY <1>1 DEF ItemType
    <2>2. Lacks(item.content, Tags)
      BY <1>1, Zenon DEF TagFree
    <2>3. item.content \in Seq(Bare)
      BY <2>1, <2>2, TagFreeText
    <2>4. ImagesOf(item) = <<>>
      BY <1>1, Zenon DEF ImagesOf
    <2> QED BY <1>1, <2>2, <2>3, <2>4, Zenon DEF PlainItem
  <1>2. CASE "parts" \in DOMAIN item
    <2> DEFINE parts == item.parts
    <2>1. parts \in Seq(PartType)
      BY <1>2 DEF ItemType
    <2>2. /\ \A k \in DOMAIN parts : parts[k].type = "text" => Lacks(parts[k].text, Tags)
          /\ item.role = "system" => ImagesOf(item) = <<>>
      BY <1>2, Zenon DEF TagFree
    <2> HIDE DEF parts
    <2>3. ASSUME NEW k \in DOMAIN parts, parts[k].type = "text"
          PROVE  parts[k].text \in Seq(Bare) /\ Lacks(parts[k].text, Tags)
      <3>1. parts[k] \in PartType
        BY <2>1
      <3>2. parts[k].text \in Seq(STRING)
        BY <2>3, <3>1 DEF PartType
      <3>3. Lacks(parts[k].text, Tags)
        BY <2>2, <2>3, Zenon
      <3> QED BY <3>2, <3>3, TagFreeText
    <2>4. \A k \in DOMAIN parts : PlainPart(parts[k])
      BY <2>3, Zenon DEF PlainPart
    <2> QED BY <1>2, <2>2, <2>4, Zenon DEF PlainItem, parts
  <1> QED BY <1>1, <1>2

\* The images of the messages of a JSON text.
ItemImages(items) == [i \in DOMAIN items |-> ImagesOf(items[i])]

LEMMA RequestIsTagged ==
  ASSUME NEW json, NEW r, FromJson(json, r), NoLiteralTag(json)
  PROVE  TaggedConversation(r.messages, ItemImages(json.messages))
  <1> DEFINE items == json.messages
             n == Len(items)
             images == ItemImages(items)
             ms == [i \in 1..n |->
                      [role |-> items[i].role, content |-> ContentOf(items[i]), reasoning |-> <<>>]]
  <1>1. /\ json \in JsonType /\ json.type = "object" /\ NoErrors(items)
        /\ r.messages = ParsedMessages(items)
    BY Zenon DEF FromJson
  <1>2. items \in Seq(ItemType)
    BY <1>1 DEF JsonType
  <1>3. \A i \in DOMAIN items : TagFree(items[i])
    BY Zenon DEF NoLiteralTag, TagFree
  <1> HIDE DEF items
  <1>4. n \in Nat /\ DOMAIN items = 1..n /\ \A i \in 1..n : items[i] \in ItemType
    BY <1>2
  <1>5. r.messages = ms
    BY <1>1, <1>4, Zenon DEF ParsedMessages
  <1>6. images = [i \in 1..n |-> ImagesOf(items[i])]
    BY <1>4, Zenon DEF ItemImages
  <1>7. \A i \in 1..n : /\ ms[i].content = ContentOf(items[i]) /\ ms[i].reasoning = <<>>
                        /\ ms[i].role = items[i].role
    OBVIOUS
  <1>8. ms = [i \in 1..n |-> ms[i]] /\ Len(ms) = n
    BY <1>4
  <1>9. images = [i \in 1..n |-> images[i]] /\ Len(images) = n
    <2>1. images = [i \in 1..n |-> images[i]] /\ DOMAIN images = 1..n
      BY <1>6, Zenon
    <2> HIDE DEF images
    <2> QED BY <1>4, <2>1
  <1>10. \A i \in 1..n : images[i] = ImagesOf(items[i])
    BY <1>6, Zenon
  <1> HIDE DEF ms, images, n
  <1>11. ASSUME NEW i \in 1..n
         PROVE  /\ ms[i].content \in Seq(Bare) /\ images[i] \in Seq(ImageType)
                /\ Many(ms[i].content, "<image>") = Len(images[i])
                /\ ms[i].role = "system" => images[i] = <<>>
    <2> DEFINE item == items[i]
    <2>1. IsMessage(item)
      BY <1>1, <1>2, NoError DEF n
    <2>2. item \in ItemType /\ item # NotObject /\ TagFree(item)
      BY <1>3, <1>4, <2>1, Zenon DEF IsMessage
    <2> HIDE DEF item
    <2>3. PlainItem(item) /\ (item.role = "system" => ImagesOf(item) = <<>>)
      BY <2>2, TagFreeItem
    <2>4. ContentOf(item) \in Seq(Bare) /\ Many(ContentOf(item), "<image>") = Len(ImagesOf(item))
      BY <2>2, <2>3, ContentTags
    <2>5. ImagesOf(item) \in Seq(ImageType)
      BY <2>2, ImagesOfType
    <2> QED BY <1>7, <1>10, <2>3, <2>4, <2>5, Zenon DEF item
  <1>12. TaggedConversation(ms, images)
    BY <1>4, <1>7, <1>8, <1>9, <1>11, Zenon DEF TaggedConversation
  <1> QED BY <1>5, <1>12, Zenon DEF images, items

\* However the images of a JSON request are spread over its messages and parts, its
\* prompt has the patch tokens of exactly the images that were validated, as long as its
\* texts name no tag themselves.
THEOREM ImagesArePads == Spec => []ImagesBecomePads
  <1>1. AdmissionInv /\ RenderInv => ImagesBecomePads
    <2> DEFINE pads == {i \in DOMAIN prompt : prompt[i] = "pad"}
               json == body.json
               images == ItemImages(json.messages)
               n == Len(FlattenSeq(images))
    <2> SUFFICES ASSUME AdmissionInv, RenderInv, stage = "generate", "json" \in DOMAIN body,
                        prompt # <<>>, NoLiteralTag(body.json)
                 PROVE  checked = Len(req.images) /\ Cardinality(pads) = Patches * checked
      BY Zenon DEF ImagesBecomePads
    <2>1. stage \in ParsedStages /\ stage \in RenderedStages
      BY DEF ParsedStages, RenderedStages
    <2>2. FromJson(json, req) /\ prompt = Render(req.messages, DefaultOptions)
      BY <2>1, Zenon DEF RenderInv, Rendered
    <2>3. req.images = FlattenSeq(images)
      BY <2>2, Zenon DEF FromJson, ItemImages
    <2>4. checked = Len(req.images)
      BY DEF AdmissionInv
    <2>5. Instruction(DefaultOptions) \notin Tags
      BY Zenon DEF NoLiteralTag
    <2>6. TaggedConversation(req.messages, images)
      BY <2>2, RequestIsTagged
    <2>7. Pads(prompt, Patches * n)
      <3> HIDE DEF images
      <3>1. Pads(Render(req.messages, DefaultOptions), Patches * n)
        BY <2>2, <2>5, <2>6, RenderPads
      <3> QED BY <2>2, <3>1, Zenon
    <2>8. Cardinality(pads) = Many(prompt, "pad")
      <3>1. prompt \in Seq(Marked)
        BY <2>7, Zenon DEF Pads
      <3>2. DOMAIN prompt = 1..Len(prompt)
        BY <3>1
      <3> QED BY <3>2, Zenon DEF Many, CountTo
    <2>9. Many(prompt, "pad") = Patches * n
      BY <2>7, Zenon DEF Pads
    <2> QED BY <2>3, <2>4, <2>8, <2>9, Zenon
  <1> QED BY <1>1, InitAdmission, NextAdmission, InitRender, NextRender, PTL DEF Spec

=============================================================================
