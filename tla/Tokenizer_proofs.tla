--------------------------- MODULE Tokenizer_proofs ---------------------------
(***************************************************************************)
(* Proofs about Tokenizer, for every character set, table and text.        *)
(***************************************************************************)
EXTENDS Tokenizer, WellFoundedInduction, TLAPS

-----------------------------------------------------------------------------
(***************************************************************************)
(* Least and greatest elements.                                            *)
(***************************************************************************)
LEMMA Least ==
  ASSUME NEW T, T \subseteq Nat, T # {}
  PROVE  \E n \in T : \A m \in T : n <= m
  <1>1. \E n \in T : \A m \in T : <<m, n>> \notin OpToRel(<, Nat)
    BY NatLessThanWellFounded, WFMin, Zenon
  <1>2. PICK n \in T : \A m \in T : <<m, n>> \notin OpToRel(<, Nat)
    BY <1>1
  <1>3. ASSUME NEW m \in T PROVE n <= m
    <2>1. m \in Nat /\ n \in Nat
      OBVIOUS
    <2>2. ~ (m < n)
      BY <1>2, <2>1 DEF OpToRel
    <2> QED BY <2>1, <2>2
  <1> QED BY <1>3

LEMMA MinOf ==
  ASSUME NEW T, T \subseteq Nat, T # {}
  PROVE  Min(T) \in T /\ \A m \in T : Min(T) <= m
  <1>1. \E n \in T : \A m \in T : n <= m
    BY Least
  <1> QED BY <1>1, Zenon DEF Min

LEMMA MinIs ==
  ASSUME NEW T, T \subseteq Nat, NEW n \in T, \A m \in T : n <= m
  PROVE  Min(T) = n
  <1>1. Min(T) \in T /\ \A m \in T : Min(T) <= m
    BY MinOf
  <1>2. Min(T) \in Nat /\ n \in Nat /\ Min(T) <= n /\ n <= Min(T)
    BY <1>1
  <1> QED BY <1>2

LEMMA MaxOf ==
  ASSUME NEW b \in Nat, NEW T, T \subseteq 0..b, T # {}
  PROVE  Max(T) \in T /\ \A m \in T : m <= Max(T)
  <1> DEFINE U == {u \in 0..b : b - u \in T}
  <1>1. ASSUME NEW m \in T PROVE b - m \in U
    <2>1. m \in 0..b
      OBVIOUS
    <2>2. b - m \in 0..b /\ b - (b - m) = m
      BY <2>1
    <2> QED BY <2>2
  <1>2. U \subseteq Nat /\ U # {}
    <2>1. U \subseteq Nat
      OBVIOUS
    <2> HIDE DEF U
    <2> QED BY <1>1, <2>1
  <1>3. PICK u \in U : \A v \in U : u <= v
    <2> HIDE DEF U
    <2> QED BY <1>2, Least
  <1>4. b - u \in T /\ \A m \in T : m <= b - u
    BY <1>1, <1>3
  <1>5. \E x \in T : \A y \in T : x >= y
    BY <1>4
  <1>6. Max(T) \in T /\ \A y \in T : Max(T) >= y
    BY <1>5, Zenon DEF Max
  <1> QED BY <1>6

LEMMA MaxIs ==
  ASSUME NEW b \in Nat, NEW T, T \subseteq 0..b, NEW n \in T, \A m \in T : m <= n
  PROVE  Max(T) = n
  <1>1. Max(T) \in T /\ \A m \in T : m <= Max(T)
    BY MaxOf
  <1>2. Max(T) <= n /\ n <= Max(T)
    BY <1>1
  <1>3. \A m \in T : m \in Int
    OBVIOUS
  <1>4. Max(T) \in Int /\ n \in Int
    BY <1>1, <1>3
  <1> QED BY <1>2, <1>4

-----------------------------------------------------------------------------
(***************************************************************************)
(* Runs of characters of one class in the segment.                         *)
(***************************************************************************)
SegOK == seg \in Seq(CodePoint)

LEMMA RunEndIs ==
  ASSUME SegOK, NEW S, NEW i \in 1..(Len(seg) + 1)
  PROVE  /\ RunEnd(i, S) \in i..(Len(seg) + 1)
         /\ \A k \in i..(RunEnd(i, S) - 1) : seg[k] \in S
         /\ RunEnd(i, S) <= Len(seg) => seg[RunEnd(i, S)] \notin S
  <1> DEFINE T == {j \in i..(Len(seg) + 1) : ~ Within(j, S)}
  <1>0. Len(seg) \in Nat
    BY DEF SegOK
  <1>1. Len(seg) + 1 \in T
    BY <1>0 DEF Within
  <1>2. T \subseteq Nat /\ T # {}
    BY <1>0, <1>1
  <1>3. RunEnd(i, S) = Min(T)
    BY DEF RunEnd
  <1>4. Min(T) \in T /\ \A m \in T : Min(T) <= m
    <2> HIDE DEF T
    <2> QED BY <1>2, MinOf
  <1>5. ASSUME NEW k \in i..(Min(T) - 1) PROVE seg[k] \in S
    <2>1. k \notin T
      <3>1. Min(T) \in Int /\ k < Min(T)
        BY <1>2, <1>4
      <3> HIDE DEF T
      <3> QED BY <1>4, <3>1
    <2>2. k \in i..(Len(seg) + 1)
      BY <1>0, <1>4
    <2> QED BY <2>1, <2>2 DEF Within
  <1>6. Min(T) <= Len(seg) => seg[Min(T)] \notin S
    BY <1>4 DEF Within
  <1>7. Min(T) \in i..(Len(seg) + 1)
    BY <1>4
  <1> HIDE DEF T
  <1> QED BY <1>3, <1>5, <1>6, <1>7

(***************************************************************************)
(* The ends of the matches of one alternative at a place, and when they    *)
(* decide the end the regular expression gives.                            *)
(***************************************************************************)
Ends(n, i) ==
  {j \in (i + 1)..(Len(seg) + 1) :
     Matches(n, SubSeq(seg, i, j - 1), SubSeq(seg, j, Len(seg)))}

LEMMA RegexEndIs ==
  ASSUME SegOK, NEW i \in 1..Len(seg), NEW n \in 1..7, NEW e \in Ends(n, i),
         \A m \in 1..7 : m < n => Ends(m, i) = {},
         \A j \in Ends(n, i) : j <= e
  PROVE  RegexEnd(seg, i) = e
  <1> DEFINE N == {m \in 1..7 : Ends(m, i) # {}}
  <1>0. Len(seg) \in Nat
    BY DEF SegOK
  <1>1. Min(N) = n
    <2>1. N \subseteq Nat /\ n \in N
      OBVIOUS
    <2>2. \A m \in N : n <= m
      OBVIOUS
    <2> HIDE DEF N
    <2> QED BY <2>1, <2>2, MinIs
  <1>2. Ends(n, i) \subseteq 0..(Len(seg) + 1)
    BY <1>0 DEF Ends
  <1>3. Max(Ends(n, i)) = e
    BY <1>0, <1>2, MaxIs
  <1>4. RegexEnd(seg, i) = IF N = {} THEN i + 1 ELSE Max(Ends(Min(N), i))
    BY Zenon DEF RegexEnd, Ends
  <1>5. n \in N
    OBVIOUS
  <1> HIDE DEF N
  <1> QED BY <1>1, <1>3, <1>4, <1>5

LEMMA RegexEndNone ==
  ASSUME NEW i, \A m \in 1..7 : Ends(m, i) = {}
  PROVE  RegexEnd(seg, i) = i + 1
  <1> DEFINE N == {m \in 1..7 : Ends(m, i) # {}}
  <1>1. RegexEnd(seg, i) = IF N = {} THEN i + 1 ELSE Max(Ends(Min(N), i))
    BY Zenon DEF RegexEnd, Ends
  <1>2. N = {}
    OBVIOUS
  <1> HIDE DEF N
  <1> QED BY <1>1, <1>2

-----------------------------------------------------------------------------
(***************************************************************************)
(* The alternatives of the regular expression, by the places of the        *)
(* segment they look at.                                                   *)
(***************************************************************************)
LEMMA PartIs ==
  ASSUME NEW t \in Seq(CodePoint), NEW i \in 1..(Len(t) + 1), NEW j \in i..(Len(t) + 1)
  PROVE  /\ SubSeq(t, i, j - 1) \in Seq(CodePoint)
         /\ Len(SubSeq(t, i, j - 1)) = j - i
         /\ DOMAIN SubSeq(t, i, j - 1) = 1..(j - i)
         /\ \A k \in 1..(j - i) : SubSeq(t, i, j - 1)[k] = t[i + k - 1]
  <1>0. Len(t) \in Nat
    OBVIOUS
  <1>1. i \in Int /\ j \in Int /\ 1 <= i /\ i <= j /\ j <= Len(t) + 1
    BY <1>0
  <1>2. \A k \in i..(j - 1) : k \in 1..Len(t)
    BY <1>0, <1>1
  <1>3. SubSeq(t, i, j - 1) = [k \in 1..(j - i) |-> t[i + k - 1]]
    BY <1>0, <1>1
  <1>4. j - i \in Nat
    BY <1>1
  <1>5. \A k \in 1..(j - i) : t[i + k - 1] \in CodePoint
    BY <1>0, <1>1
  <1> QED BY <1>3, <1>4, <1>5

LEMMA AllPart ==
  ASSUME NEW t \in Seq(CodePoint), NEW S,
         NEW i \in 1..(Len(t) + 1), NEW j \in i..(Len(t) + 1)
  PROVE  All(SubSeq(t, i, j - 1), S) <=> \A k \in i..(j - 1) : t[k] \in S
  <1> DEFINE s == SubSeq(t, i, j - 1)
  <1>0. Len(t) \in Nat /\ i \in Int /\ j \in Int
    OBVIOUS
  <1>1. DOMAIN s = 1..(j - i) /\ \A k \in 1..(j - i) : s[k] = t[i + k - 1]
    BY PartIs
  <1>2. ASSUME All(s, S), NEW k \in i..(j - 1) PROVE t[k] \in S
    <2>1. k - i + 1 \in 1..(j - i) /\ i + (k - i + 1) - 1 = k
      BY <1>0
    <2> HIDE DEF s
    <2>2. s[k - i + 1] \in S
      BY <1>1, <1>2, <2>1 DEF All
    <2> QED BY <1>1, <2>1, <2>2
  <1>3. ASSUME \A k \in i..(j - 1) : t[k] \in S PROVE All(s, S)
    <2>1. \A k \in 1..(j - i) : i + k - 1 \in i..(j - 1)
      BY <1>0
    <2> HIDE DEF s
    <2> QED BY <1>1, <1>3, <2>1 DEF All
  <1> QED BY <1>2, <1>3

LEMMA PartOfPart ==
  ASSUME NEW t \in Seq(CodePoint), NEW i \in 1..(Len(t) + 1), NEW j \in i..(Len(t) + 1),
         NEW a \in 1..(j - i + 1), NEW b \in (a - 1)..(j - i)
  PROVE  SubSeq(SubSeq(t, i, j - 1), a, b) = SubSeq(t, i + a - 1, i + b - 1)
  <1> DEFINE s == SubSeq(t, i, j - 1)
  <1>0. Len(t) \in Nat /\ i \in Int /\ j \in Int /\ a \in Int /\ b \in Int
        /\ 1 <= i /\ i <= j /\ j <= Len(t) + 1 /\ 1 <= a /\ a <= b + 1 /\ b <= j - i
    OBVIOUS
  <1>1. /\ s \in Seq(CodePoint) /\ Len(s) = j - i
        /\ \A k \in 1..(j - i) : s[k] = t[i + k - 1]
    BY PartIs
  <1>2. SubSeq(s, a, b) = [k \in 1..(b - a + 1) |-> s[a + k - 1]]
    <2> HIDE DEF s
    <2> QED BY <1>0, <1>1
  <1>3. SubSeq(t, i + a - 1, i + b - 1) = [k \in 1..(b - a + 1) |-> t[(i + a - 1) + k - 1]]
    <2>1. (i + b - 1) - (i + a - 1) + 1 = b - a + 1
      BY <1>0
    <2>2. i + a - 1 \in 1..(Len(t) + 1) /\ i + b - 1 \in 0..Len(t)
      BY <1>0
    <2> QED BY <1>0, <2>1, <2>2
  <1>4. ASSUME NEW k \in 1..(b - a + 1) PROVE s[a + k - 1] = t[(i + a - 1) + k - 1]
    <2>1. a + k - 1 \in 1..(j - i) /\ i + (a + k - 1) - 1 = (i + a - 1) + k - 1
      BY <1>0
    <2> HIDE DEF s
    <2> QED BY <1>1, <2>1
  <1> HIDE DEF s
  <1>5. SubSeq(s, a, b) = SubSeq(t, i + a - 1, i + b - 1)
    BY <1>2, <1>3, <1>4
  <1> QED BY <1>5 DEF s

LEMMA LowerQuote ==
  ASSUME NEW c
  PROVE  Lower(c) = "'" <=> c = "'"
  BY TokenizerAssumption DEF Lower

Two == {"s", "t", "m", "d"}
Three == {<<"r", "e">>, <<"v", "e">>, <<"l", "l">>}

LEMMA DomainSize ==
  ASSUME NEW n \in Nat, NEW m \in Nat, 1..n = 1..m
  PROVE  n = m
  <1>1. n > m => n \in 1..n /\ n \notin 1..m
    OBVIOUS
  <1>2. m > n => m \in 1..m /\ m \notin 1..n
    OBVIOUS
  <1> QED BY <1>1, <1>2

LEMMA PairIn ==
  ASSUME NEW n \in Nat, NEW lower, lower = [k \in 1..n |-> lower[k]]
  PROVE  lower \in {<<"'", c>> : c \in Two} <=> n = 2 /\ lower[1] = "'" /\ lower[2] \in Two
  <1>1. ASSUME NEW c \in Two, lower = <<"'", c>>
        PROVE  n = 2 /\ lower[1] = "'" /\ lower[2] \in Two
    <2>1. DOMAIN lower = 1..n /\ DOMAIN <<"'", c>> = 1..2
      OBVIOUS
    <2>2. n = 2
      BY <1>1, <2>1, DomainSize
    <2> QED BY <1>1, <2>2
  <1>2. ASSUME n = 2, lower[1] = "'" PROVE lower = <<"'", lower[2]>>
    BY <1>2
  <1> QED BY <1>1, <1>2

IsTriple(lower, n, x, y) ==
  lower = <<"'", x, y>> <=> n = 3 /\ lower[1] = "'" /\ lower[2] = x /\ lower[3] = y

LEMMA TripleIn ==
  ASSUME NEW n \in Nat, NEW lower, lower = [k \in 1..n |-> lower[k]], NEW x, NEW y
  PROVE  IsTriple(lower, n, x, y)
  <1>1. ASSUME lower = <<"'", x, y>>
        PROVE  n = 3 /\ lower[1] = "'" /\ lower[2] = x /\ lower[3] = y
    <2>1. DOMAIN lower = 1..n /\ DOMAIN <<"'", x, y>> = 1..3
      OBVIOUS
    <2>2. n = 3
      BY <1>1, <2>1, DomainSize
    <2> QED BY <1>1, <2>2
  <1>2. ASSUME n = 3, lower[1] = "'", lower[2] = x, lower[3] = y PROVE lower = <<"'", x, y>>
    BY <1>2
  <1> QED BY <1>1, <1>2 DEF IsTriple

LEMMA Matches1 ==
  ASSUME SegOK, NEW i \in 1..Len(seg), NEW j \in (i + 1)..(Len(seg) + 1)
  PROVE  j \in Ends(1, i) <=>
           /\ seg[i] = "'"
           /\ \/ j = i + 2 /\ Lower(seg[i + 1]) \in Two
              \/ j = i + 3 /\ <<Lower(seg[i + 1]), Lower(seg[i + 2])>> \in Three
  <1> DEFINE s == SubSeq(seg, i, j - 1)
             behind == SubSeq(seg, j, Len(seg))
             f(k) == Lower(seg[i + k - 1])
             lower == [k \in DOMAIN s |-> Lower(s[k])]
  <1>0. Len(seg) \in Nat /\ i \in Int /\ j \in Int /\ seg \in Seq(CodePoint)
    BY DEF SegOK
  <1>1. DOMAIN s = 1..(j - i) /\ \A k \in 1..(j - i) : s[k] = seg[i + k - 1]
    <2>1. i \in 1..(Len(seg) + 1) /\ j \in i..(Len(seg) + 1)
      BY <1>0
    <2> QED BY <1>0, <2>1, PartIs
  <1>2. lower = [k \in 1..(j - i) |-> f(k)] /\ j - i \in Nat
    <2> HIDE DEF s
    <2> QED BY <1>0, <1>1
  <1>3. Matches(1, s, behind) <=>
          lower \in {<<"'", c>> : c \in Two}
            \cup {<<"'", "r", "e">>, <<"'", "v", "e">>, <<"'", "l", "l">>}
    <2> HIDE DEF s, behind
    <2> QED BY DEF Matches, Two
  <1> HIDE DEF lower
  <1>4. lower \in {<<"'", c>> : c \in Two} <=> j - i = 2 /\ f(1) = "'" /\ f(2) \in Two
    <2> HIDE DEF f
    <2>1. lower = [k \in 1..(j - i) |-> lower[k]]
      BY <1>2
    <2>2. lower \in {<<"'", c>> : c \in Two}
            <=> j - i = 2 /\ lower[1] = "'" /\ lower[2] \in Two
      <3>1. PICK n \in Nat : n = j - i
        BY <1>2
      <3>2. lower = [k \in 1..n |-> lower[k]]
        BY <2>1, <3>1
      <3> QED BY <3>1, <3>2, PairIn
    <2>3. j - i = 2 => lower[1] = f(1) /\ lower[2] = f(2)
      BY <1>2
    <2> QED BY <2>2, <2>3, Zenon
  <1>5. ASSUME NEW x, NEW y
        PROVE  lower = <<"'", x, y>> <=> j - i = 3 /\ f(1) = "'" /\ f(2) = x /\ f(3) = y
    <2> HIDE DEF f
    <2>1. lower = [k \in 1..(j - i) |-> lower[k]]
      BY <1>2
    <2>2. lower = <<"'", x, y>>
            <=> j - i = 3 /\ lower[1] = "'" /\ lower[2] = x /\ lower[3] = y
      <3>1. PICK n \in Nat : n = j - i
        BY <1>2
      <3>2. lower = [k \in 1..n |-> lower[k]]
        BY <2>1, <3>1
      <3>3. IsTriple(lower, n, x, y)
        BY <3>2, TripleIn, Zenon
      <3> QED BY <3>1, <3>3, Zenon DEF IsTriple
    <2>3. j - i = 3 => lower[1] = f(1) /\ lower[2] = f(2) /\ lower[3] = f(3)
      BY <1>2
    <2> QED BY <2>2, <2>3, Zenon
  <1>6. f(1) = "'" <=> seg[i] = "'"
    <2>1. i + 1 - 1 = i
      BY <1>0
    <2> QED BY <2>1, LowerQuote
  <1>7. f(2) = Lower(seg[i + 1]) /\ f(3) = Lower(seg[i + 2])
    <2>1. i + 2 - 1 = i + 1 /\ i + 3 - 1 = i + 2
      BY <1>0
    <2> QED BY <2>1
  <1>8. <<f(2), f(3)>> \in Three <=>
          \/ f(2) = "r" /\ f(3) = "e"
          \/ f(2) = "v" /\ f(3) = "e"
          \/ f(2) = "l" /\ f(3) = "l"
    <2> HIDE DEF f
    <2> QED BY DEF Three
  <1>9. j \in Ends(1, i) <=> Matches(1, s, behind)
    BY DEF Ends
  <1> HIDE DEF s, behind, f
  <1>10. (j - i = 2 <=> j = i + 2) /\ (j - i = 3 <=> j = i + 3)
    BY <1>0
  <1>11. lower \in {<<"'", "r", "e">>, <<"'", "v", "e">>, <<"'", "l", "l">>}
           <=> j - i = 3 /\ f(1) = "'" /\ <<f(2), f(3)>> \in Three
    <2>1. lower \in {<<"'", "r", "e">>, <<"'", "v", "e">>, <<"'", "l", "l">>} <=>
            \/ lower = <<"'", "r", "e">> \/ lower = <<"'", "v", "e">> \/ lower = <<"'", "l", "l">>
      BY Zenon
    <2> QED BY <1>5, <1>8, <2>1, Zenon
  <1> QED BY <1>3, <1>4, <1>6, <1>7, <1>9, <1>10, <1>11, Zenon

(***************************************************************************)
(* The first alternative is the contraction.                               *)
(***************************************************************************)
LEMMA ContractionIs ==
  ASSUME SegOK, NEW i \in 1..Len(seg)
  PROVE  /\ Contraction(i) \in {0, 2, 3}
         /\ Contraction(i) = 0 => Ends(1, i) = {}
         /\ Contraction(i) # 0 => /\ i + Contraction(i) \in Ends(1, i)
                                  /\ \A j \in Ends(1, i) : j = i + Contraction(i)
  <1> DEFINE two == i + 1 <= Len(seg) /\ Lower(seg[i + 1]) \in Two
             three == i + 2 <= Len(seg) /\ <<Lower(seg[i + 1]), Lower(seg[i + 2])>> \in Three
  <1>0. Len(seg) \in Nat /\ i \in Int
    BY DEF SegOK
  <1>1. Contraction(i) = IF seg[i] # "'" THEN 0 ELSE IF two THEN 2 ELSE IF three THEN 3 ELSE 0
    BY Zenon DEF Contraction, Two, Three
  <1>2. Lower(seg[i + 1]) \in Two => <<Lower(seg[i + 1]), Lower(seg[i + 2])>> \notin Three
    BY DEF Two, Three
  <1>3. \A j \in (i + 1)..(Len(seg) + 1) :
          j \in Ends(1, i) <=> /\ seg[i] = "'"
                               /\ (j = i + 2 /\ two) \/ (j = i + 3 /\ three)
    <2>1. ASSUME NEW j \in (i + 1)..(Len(seg) + 1)
          PROVE  /\ j = i + 2 => i + 1 <= Len(seg)
                 /\ j = i + 3 => i + 2 <= Len(seg)
      BY <1>0
    <2> QED BY <2>1, Matches1
  <1>4. \A j \in Ends(1, i) : j \in (i + 1)..(Len(seg) + 1)
    BY DEF Ends
  <1>5. two => i + 2 \in (i + 1)..(Len(seg) + 1)
    BY <1>0
  <1>6. three => i + 3 \in (i + 1)..(Len(seg) + 1)
    BY <1>0
  <1>7. two => ~ three
    BY <1>2
  <1> HIDE DEF two, three
  <1>8. CASE seg[i] # "'"
    BY <1>1, <1>3, <1>4, <1>8
  <1>9. CASE seg[i] = "'" /\ two
    BY <1>0, <1>1, <1>3, <1>4, <1>5, <1>7, <1>9
  <1>10. CASE seg[i] = "'" /\ ~ two /\ three
    BY <1>0, <1>1, <1>3, <1>4, <1>6, <1>10
  <1>11. CASE seg[i] = "'" /\ ~ two /\ ~ three
    BY <1>1, <1>3, <1>4, <1>11
  <1> QED BY <1>8, <1>9, <1>10, <1>11

LEMMA EmptyIs ==
  ASSUME NEW S, NEW s \in Seq(S)
  PROVE  s = <<>> <=> Len(s) = 0
  OBVIOUS

Run(i, j, S) == \A k \in i..(j - 1) : seg[k] \in S

LEMMA MatchedPart ==
  ASSUME SegOK, NEW i \in 1..Len(seg), NEW j \in (i + 1)..(Len(seg) + 1)
  PROVE  /\ SubSeq(seg, i, j - 1) \in Seq(CodePoint)
         /\ Len(SubSeq(seg, i, j - 1)) = j - i
         /\ DOMAIN SubSeq(seg, i, j - 1) = 1..(j - i)
         /\ SubSeq(seg, i, j - 1)[1] = seg[i]
         /\ \A S : All(SubSeq(seg, i, j - 1), S) <=> Run(i, j, S)
  <1> DEFINE s == SubSeq(seg, i, j - 1)
  <1>0. Len(seg) \in Nat /\ i \in Int /\ j \in Int /\ seg \in Seq(CodePoint)
    BY DEF SegOK
  <1>1. i \in 1..(Len(seg) + 1) /\ j \in i..(Len(seg) + 1)
    BY <1>0
  <1>2. /\ s \in Seq(CodePoint) /\ Len(s) = j - i /\ DOMAIN s = 1..(j - i)
        /\ \A k \in 1..(j - i) : s[k] = seg[i + k - 1]
    BY <1>0, <1>1, PartIs
  <1>3. s[1] = seg[i]
    <2>1. 1 \in 1..(j - i) /\ i + 1 - 1 = i
      BY <1>0
    <2> HIDE DEF s
    <2> QED BY <1>2, <2>1
  <1>4. ASSUME NEW S PROVE All(s, S) <=> Run(i, j, S)
    <2>1. All(s, S) <=> \A k \in i..(j - 1) : seg[k] \in S
      BY <1>0, <1>1, AllPart
    <2> QED BY <2>1 DEF Run
  <1> HIDE DEF s
  <1>5. /\ s \in Seq(CodePoint) /\ Len(s) = j - i /\ DOMAIN s = 1..(j - i) /\ s[1] = seg[i]
        /\ \A S : All(s, S) <=> Run(i, j, S)
    BY <1>2, <1>3, <1>4
  <1> QED BY <1>5, Zenon DEF s

LEMMA RunOfPart ==
  ASSUME SegOK, NEW i \in 1..Len(seg), NEW j \in (i + 1)..(Len(seg) + 1), NEW S,
         NEW a \in 1..(j - i + 1), NEW b \in (a - 1)..(j - i)
  PROVE  All(SubSeq(SubSeq(seg, i, j - 1), a, b), S) <=> Run(i + a - 1, i + b, S)
  <1>0. Len(seg) \in Nat /\ i \in Int /\ j \in Int /\ a \in Int /\ b \in Int
        /\ seg \in Seq(CodePoint)
    BY DEF SegOK
  <1>1. i \in 1..(Len(seg) + 1) /\ j \in i..(Len(seg) + 1)
    BY <1>0
  <1>2. SubSeq(SubSeq(seg, i, j - 1), a, b) = SubSeq(seg, i + a - 1, i + b - 1)
    BY <1>0, <1>1, PartOfPart
  <1>3. i + a - 1 \in 1..(Len(seg) + 1) /\ i + b \in (i + a - 1)..(Len(seg) + 1)
    BY <1>0, <1>1
  <1>4. All(SubSeq(seg, i + a - 1, (i + b) - 1), S)
          <=> \A k \in (i + a - 1)..((i + b) - 1) : seg[k] \in S
    BY <1>0, <1>3, AllPart
  <1>5. (i + b) - 1 = i + b - 1
    BY <1>0
  <1> QED BY <1>2, <1>4, <1>5 DEF Run

LEMMA Matches2 ==
  ASSUME SegOK, NEW i \in 1..Len(seg), NEW j \in (i + 1)..(Len(seg) + 1)
  PROVE  j \in Ends(2, i) <=>
           \/ Run(i, j, LetterMark)
           \/ /\ seg[i] \notin NewLine \cup Of({"L", "N"})
              /\ j > i + 1 /\ Run(i + 1, j, LetterMark)
  <1> DEFINE s == SubSeq(seg, i, j - 1)
             behind == SubSeq(seg, j, Len(seg))
  <1>0. Len(seg) \in Nat /\ i \in Int /\ j \in Int /\ seg \in Seq(CodePoint) /\ j > i
    BY DEF SegOK
  <1>1. /\ s \in Seq(CodePoint) /\ Len(s) = j - i /\ s[1] = seg[i]
        /\ \A S : All(s, S) <=> Run(i, j, S)
    BY MatchedPart, Zenon
  <1>2. /\ Tail(s) # <<>> <=> j > i + 1
        /\ Tail(s) = SubSeq(s, 2, j - i)
    <2> HIDE DEF s
    <2>1. s # <<>>
      BY <1>0, <1>1
    <2>2. Len(Tail(s)) = Len(s) - 1 /\ Tail(s) \in Seq(CodePoint)
      BY <1>1, <2>1
    <2>3. Tail(s) = <<>> <=> Len(Tail(s)) = 0
      BY <2>2, EmptyIs
    <2>4. Tail(s) = SubSeq(s, 2, Len(s))
      BY <1>1, <2>1
    <2> QED BY <1>0, <1>1, <2>2, <2>3, <2>4
  <1>3. All(Tail(s), LetterMark) <=> Run(i + 1, j, LetterMark)
    <2>1. 2 \in 1..(j - i + 1) /\ j - i \in (2 - 1)..(j - i) /\ i + 2 - 1 = i + 1 /\ i + (j - i) = j
      BY <1>0
    <2>2. All(SubSeq(s, 2, j - i), LetterMark) <=> Run(i + 2 - 1, i + (j - i), LetterMark)
      BY <2>1, RunOfPart
    <2> QED BY <1>2, <2>1, <2>2
  <1>4. j \in Ends(2, i) <=> Matches(2, s, behind)
    BY DEF Ends
  <1> HIDE DEF s, behind
  <1>5. Matches(2, s, behind) <=>
          \/ All(s, LetterMark)
          \/ /\ s[1] \notin NewLine \cup Of({"L", "N"})
             /\ Tail(s) # <<>> /\ All(Tail(s), LetterMark)
    BY DEF Matches
  <1> QED BY <1>1, <1>2, <1>3, <1>4, <1>5, Zenon

LEMMA Matches3 ==
  ASSUME SegOK, NEW i \in 1..Len(seg), NEW j \in (i + 1)..(Len(seg) + 1)
  PROVE  j \in Ends(3, i) <=> j = i + 1 /\ seg[i] \in Of({"N"})
  <1> DEFINE s == SubSeq(seg, i, j - 1)
             behind == SubSeq(seg, j, Len(seg))
  <1>0. Len(seg) \in Nat /\ i \in Int /\ j \in Int
    BY DEF SegOK
  <1>1. Len(s) = j - i /\ s[1] = seg[i]
    BY MatchedPart, Zenon
  <1>2. j \in Ends(3, i) <=> Matches(3, s, behind)
    BY DEF Ends
  <1> HIDE DEF s, behind
  <1>3. Matches(3, s, behind) <=> Len(s) = 1 /\ s[1] \in Of({"N"})
    BY DEF Matches
  <1>4. j - i = 1 <=> j = i + 1
    BY <1>0
  <1> QED BY <1>1, <1>2, <1>3, <1>4, Zenon

LEMMA Matches67 ==
  ASSUME SegOK, NEW i \in 1..Len(seg), NEW j \in (i + 1)..(Len(seg) + 1)
  PROVE  /\ j \in Ends(6, i) <=>
              Run(i, j, White) /\ (j = Len(seg) + 1 \/ seg[j] \in White)
         /\ j \in Ends(7, i) <=> Run(i, j, White)
  <1> DEFINE s == SubSeq(seg, i, j - 1)
             behind == SubSeq(seg, j, Len(seg))
  <1>0. Len(seg) \in Nat /\ i \in Int /\ j \in Int /\ seg \in Seq(CodePoint)
    BY DEF SegOK
  <1>1. \A S : All(s, S) <=> Run(i, j, S)
    BY MatchedPart, Zenon
  <1>2. /\ j \in Ends(6, i) <=> Matches(6, s, behind)
        /\ j \in Ends(7, i) <=> Matches(7, s, behind)
    BY DEF Ends
  <1>3. CASE j = Len(seg) + 1
    <2>1. behind = <<>>
      BY <1>0, <1>3
    <2> HIDE DEF s, behind
    <2>2. Matches(6, s, behind) <=> All(s, White)
      BY <2>1 DEF Matches
    <2>3. Matches(7, s, behind) <=> All(s, White)
      BY DEF Matches
    <2> QED BY <1>1, <1>2, <1>3, <2>2, <2>3, Zenon
  <1>4. CASE j # Len(seg) + 1
    <2>1. behind # <<>> /\ behind[1] = seg[j]
      <3> DEFINE m == Len(seg) + 1
      <3>1. /\ j \in 1..m /\ m \in j..m /\ m - 1 = Len(seg)
            /\ m - j # 0 /\ 1 \in 1..(m - j) /\ j + 1 - 1 = j
        BY <1>0, <1>4
      <3>2. /\ SubSeq(seg, j, m - 1) \in Seq(CodePoint)
            /\ Len(SubSeq(seg, j, m - 1)) = m - j
            /\ \A k \in 1..(m - j) : SubSeq(seg, j, m - 1)[k] = seg[j + k - 1]
        BY <1>0, <3>1, PartIs
      <3>3. behind \in Seq(CodePoint) /\ Len(behind) = m - j /\ behind[1] = seg[j]
        BY <3>1, <3>2
      <3> HIDE DEF behind
      <3> QED BY <3>1, <3>3, EmptyIs
    <2> HIDE DEF s, behind
    <2>2. Matches(6, s, behind) <=> All(s, White) /\ behind[1] \in White
      BY <2>1 DEF Matches
    <2>3. Matches(7, s, behind) <=> All(s, White)
      BY DEF Matches
    <2> QED BY <1>1, <1>2, <1>4, <2>1, <2>2, <2>3, Zenon
  <1> QED BY <1>3, <1>4

LEMMA Matches4 ==
  ASSUME SegOK, NEW i \in 1..Len(seg), NEW j \in (i + 1)..(Len(seg) + 1)
  PROVE  j \in Ends(4, i) <=>
           \E a \in {0, 1} : \E b \in (a + 1)..(j - i) :
             /\ a = 1 => seg[i] = " "
             /\ Run(i + a, i + b, Solid)
             /\ Run(i + b, j, NewLine)
  <1> DEFINE s == SubSeq(seg, i, j - 1)
             behind == SubSeq(seg, j, Len(seg))
  <1>0. Len(seg) \in Nat /\ i \in Int /\ j \in Int /\ j > i
    BY DEF SegOK
  <1>1. Len(s) = j - i /\ s[1] = seg[i]
    BY MatchedPart, Zenon
  <1>2. j \in Ends(4, i) <=> Matches(4, s, behind)
    BY DEF Ends
  <1>3. ASSUME NEW a \in {0, 1}, NEW b \in (a + 1)..(j - i)
        PROVE  /\ All(SubSeq(s, a + 1, b), Solid) <=> Run(i + a, i + b, Solid)
               /\ All(SubSeq(s, b + 1, j - i), NewLine) <=> Run(i + b, j, NewLine)
    <2>1. /\ a + 1 \in 1..(j - i + 1) /\ b \in ((a + 1) - 1)..(j - i)
          /\ i + (a + 1) - 1 = i + a
          /\ b + 1 \in 1..(j - i + 1) /\ j - i \in ((b + 1) - 1)..(j - i)
          /\ i + (b + 1) - 1 = i + b /\ i + (j - i) = j
      BY <1>0
    <2>2. All(SubSeq(s, a + 1, b), Solid) <=> Run(i + (a + 1) - 1, i + b, Solid)
      BY <2>1, RunOfPart
    <2>3. All(SubSeq(s, b + 1, j - i), NewLine) <=> Run(i + (b + 1) - 1, i + (j - i), NewLine)
      BY <2>1, RunOfPart
    <2> QED BY <2>1, <2>2, <2>3
  <1> HIDE DEF s, behind
  <1>4. Matches(4, s, behind) <=>
          \E a \in {0, 1} : \E b \in (a + 1)..Len(s) :
            /\ a = 1 => s[1] = " "
            /\ All(SubSeq(s, a + 1, b), Solid)
            /\ All(SubSeq(s, b + 1, Len(s)), NewLine)
    BY DEF Matches
  <1> QED BY <1>1, <1>2, <1>3, <1>4, Zenon

LEMMA Matches5 ==
  ASSUME SegOK, NEW i \in 1..Len(seg), NEW j \in (i + 1)..(Len(seg) + 1)
  PROVE  j \in Ends(5, i) <=>
           \E b \in 1..(j - i) : Run(i, i + b - 1, White) /\ Run(i + b - 1, j, NewLine)
  <1> DEFINE s == SubSeq(seg, i, j - 1)
             behind == SubSeq(seg, j, Len(seg))
  <1>0. Len(seg) \in Nat /\ i \in Int /\ j \in Int /\ j > i
    BY DEF SegOK
  <1>1. Len(s) = j - i /\ DOMAIN s = 1..(j - i)
    BY MatchedPart, Zenon
  <1>2. j \in Ends(5, i) <=> Matches(5, s, behind)
    BY DEF Ends
  <1>3. ASSUME NEW b \in 1..(j - i)
        PROVE  /\ All(SubSeq(s, 1, b - 1), White) <=> Run(i, i + b - 1, White)
               /\ All(SubSeq(s, b, j - i), NewLine) <=> Run(i + b - 1, j, NewLine)
    <2>1. /\ 1 \in 1..(j - i + 1) /\ b - 1 \in (1 - 1)..(j - i)
          /\ i + 1 - 1 = i /\ i + (b - 1) = i + b - 1
          /\ b \in 1..(j - i + 1) /\ j - i \in (b - 1)..(j - i)
          /\ i + (j - i) = j
      BY <1>0
    <2>2. All(SubSeq(s, 1, b - 1), White) <=> Run(i + 1 - 1, i + (b - 1), White)
      BY <2>1, RunOfPart
    <2>3. All(SubSeq(s, b, j - i), NewLine) <=> Run(i + b - 1, i + (j - i), NewLine)
      BY <2>1, RunOfPart
    <2> QED BY <2>1, <2>2, <2>3
  <1> HIDE DEF s, behind
  <1>4. Matches(5, s, behind) <=>
          \E b \in DOMAIN s :
            All(SubSeq(s, 1, b - 1), White) /\ All(SubSeq(s, b, Len(s)), NewLine)
    BY DEF Matches
  <1> QED BY <1>1, <1>2, <1>3, <1>4, Zenon

-----------------------------------------------------------------------------
(***************************************************************************)
(* The branches of split_qwen35, one by one: which alternatives a failed   *)
(* test rules out, and where the one that is taken ends.                   *)
(***************************************************************************)
LEMMA Classes ==
  ASSUME NEW c \in CodePoint
  PROVE  /\ Category[c] \in {"L", "M", "N", "Z", "P", "O"}
         /\ \A S : c \in Of(S) <=> Category[c] \in S
         /\ c \in LetterMark <=> Category[c] \in {"L", "M"}
         /\ c \in White <=> Category[c] = "Z"
         /\ c \in Solid <=> Category[c] = "P"
         /\ c \in NewLine => Category[c] = "Z"
         /\ c = " " => Category[c] = "Z"
  <1>1. Category[c] \in {"L", "M", "N", "Z", "P", "O"}
    BY TokenizerAssumption
  <1>2. \A S : c \in Of(S) <=> Category[c] \in S
    BY DEF Of
  <1>3. c \in LetterMark <=> Category[c] \in {"L", "M"}
    BY <1>2 DEF LetterMark
  <1>4. c \in White <=> Category[c] = "Z"
    BY <1>2 DEF White
  <1>5. c \in Solid <=> Category[c] = "P"
    BY <1>2 DEF Solid
  <1>7. (c \in NewLine => c \in White) /\ (c = " " => c \in White)
    BY TokenizerAssumption
  <1> QED BY <1>1, <1>2, <1>3, <1>4, <1>5, <1>7, Zenon

LEMMA SegClasses ==
  ASSUME SegOK, NEW k \in 1..Len(seg)
  PROVE  seg[k] \in CodePoint
  BY DEF SegOK

LEMMA EndsRange ==
  ASSUME NEW n, NEW i, NEW j \in Ends(n, i)
  PROVE  j \in (i + 1)..(Len(seg) + 1)
  BY DEF Ends

LEMMA NoWord ==
  ASSUME SegOK, NEW i \in 1..Len(seg), ~ WordAt(i)
  PROVE  Ends(2, i) = {}
  <1> SUFFICES ASSUME NEW j \in Ends(2, i) PROVE FALSE
    OBVIOUS
  <1>0. Len(seg) \in Nat /\ i \in Int /\ seg[i] \in CodePoint
    BY SegClasses DEF SegOK
  <1>1. j \in (i + 1)..(Len(seg) + 1)
    BY EndsRange
  <1>2. \/ Run(i, j, LetterMark)
        \/ /\ seg[i] \notin NewLine \cup Of({"L", "N"})
           /\ j > i + 1 /\ Run(i + 1, j, LetterMark)
    BY <1>1, Matches2
  <1>3. CASE Run(i, j, LetterMark)
    <2>1. i \in i..(j - 1)
      BY <1>0, <1>1
    <2>2. seg[i] \in LetterMark
      BY <1>3, <2>1 DEF Run
    <2>3. Category[seg[i]] \in {"L", "M"}
      BY <1>0, <2>2, Classes, Zenon
    <2>4. seg[i] \notin NewLine
      BY <1>0, <2>3, Classes
    <2>5. seg[i] \notin Of({"N"})
      BY <2>3 DEF Of
    <2>6. Within(i, LetterMark)
      BY <1>0, <2>2 DEF Within
    <2> QED BY <2>4, <2>5, <2>6 DEF WordAt
  <1>4. CASE /\ seg[i] \notin NewLine \cup Of({"L", "N"})
             /\ j > i + 1 /\ Run(i + 1, j, LetterMark)
    <2>1. i + 1 \in (i + 1)..(j - 1) /\ i + 1 <= Len(seg)
      BY <1>0, <1>1, <1>4
    <2>2. seg[i + 1] \in LetterMark
      BY <1>4, <2>1 DEF Run
    <2>3. Within(i + 1, LetterMark)
      BY <2>1, <2>2 DEF Within
    <2>4. seg[i] \notin Of({"N"})
      BY <1>4 DEF Of
    <2> QED BY <1>4, <2>3, <2>4 DEF WordAt
  <1> QED BY <1>2, <1>3, <1>4

LEMMA WordEnds ==
  ASSUME SegOK, NEW i \in 1..Len(seg), WordAt(i)
  PROVE  /\ RunEnd(i + 1, LetterMark) \in Ends(2, i)
         /\ \A j \in Ends(2, i) : j <= RunEnd(i + 1, LetterMark)
  <1> DEFINE e == RunEnd(i + 1, LetterMark)
  <1>0. Len(seg) \in Nat /\ i \in Int /\ seg[i] \in CodePoint /\ i + 1 \in 1..(Len(seg) + 1)
    BY SegClasses DEF SegOK
  <1>1. /\ e \in (i + 1)..(Len(seg) + 1)
        /\ Run(i + 1, e, LetterMark)
        /\ e <= Len(seg) => seg[e] \notin LetterMark
    BY <1>0, RunEndIs DEF Run
  <1> HIDE DEF e
  <1>2. e \in Ends(2, i)
    <2>1. CASE Within(i, LetterMark)
      <3>1. seg[i] \in LetterMark
        BY <2>1 DEF Within
      <3>2. ASSUME NEW k \in i..(e - 1) PROVE seg[k] \in LetterMark
        <4>1. k = i \/ k \in (i + 1)..(e - 1)
          BY <1>0, <1>1
        <4> QED BY <1>1, <3>1, <4>1 DEF Run
      <3>3. Run(i, e, LetterMark)
        BY <3>2 DEF Run
      <3> QED BY <1>1, <3>3, Matches2
    <2>2. CASE ~ Within(i, LetterMark)
      <3>1. Within(i + 1, LetterMark) /\ seg[i] \notin NewLine \cup Of({"N"})
        BY <2>2 DEF WordAt
      <3>2. seg[i] \notin LetterMark
        BY <2>2 DEF Within
      <3>3. seg[i] \notin NewLine \cup Of({"L", "N"})
        BY <3>1, <3>2 DEF LetterMark, Of
      <3>4. e # i + 1
        BY <1>1, <3>1 DEF Within
      <3>5. e > i + 1
        BY <1>0, <1>1, <3>4
      <3> QED BY <1>1, <3>3, <3>5, Matches2
    <2> QED BY <2>1, <2>2
  <1>3. ASSUME NEW j \in Ends(2, i) PROVE j <= e
    <2>1. j \in (i + 1)..(Len(seg) + 1)
      BY EndsRange
    <2>2. Run(i, j, LetterMark) \/ Run(i + 1, j, LetterMark)
      BY <2>1, Matches2
    <2> SUFFICES ASSUME j > e PROVE FALSE
      BY <1>0, <1>1, <2>1
    <2>3. e \in i..(j - 1) /\ e \in (i + 1)..(j - 1) /\ e <= Len(seg)
      BY <1>0, <1>1, <2>1
    <2>4. seg[e] \in LetterMark
      BY <2>2, <2>3 DEF Run
    <2> QED BY <1>1, <2>3, <2>4
  <1> QED BY <1>2, <1>3 DEF e

LEMMA NumberEnds ==
  ASSUME SegOK, NEW i \in 1..Len(seg)
  PROVE  /\ ~ NumberAt(i) => Ends(3, i) = {}
         /\ NumberAt(i) => i + 1 \in Ends(3, i) /\ \A j \in Ends(3, i) : j <= i + 1
  <1>0. Len(seg) \in Nat /\ i \in Int /\ i + 1 \in (i + 1)..(Len(seg) + 1)
    BY DEF SegOK
  <1>1. \A j \in Ends(3, i) : j = i + 1 /\ NumberAt(i)
    BY EndsRange, Matches3 DEF NumberAt
  <1>2. NumberAt(i) => i + 1 \in Ends(3, i)
    BY <1>0, Matches3 DEF NumberAt
  <1> QED BY <1>0, <1>1, <1>2

LEMMA NoSymbols ==
  ASSUME SegOK, NEW i \in 1..Len(seg), ~ SymbolsAt(i)
  PROVE  Ends(4, i) = {}
  <1> SUFFICES ASSUME NEW j \in Ends(4, i) PROVE FALSE
    OBVIOUS
  <1>0. Len(seg) \in Nat /\ i \in Int /\ seg[i] \in CodePoint
    BY SegClasses DEF SegOK
  <1>1. j \in (i + 1)..(Len(seg) + 1)
    BY EndsRange
  <1>2. PICK a \in {0, 1} : \E b \in (a + 1)..(j - i) :
          /\ a = 1 => seg[i] = " "
          /\ Run(i + a, i + b, Solid)
          /\ Run(i + b, j, NewLine)
    BY <1>1, Matches4
  <1>3. PICK b \in (a + 1)..(j - i) :
          /\ a = 1 => seg[i] = " "
          /\ Run(i + a, i + b, Solid)
    BY <1>2
  <1>4. i + a \in (i + a)..((i + b) - 1) /\ i + a \in 1..Len(seg) /\ i + 0 = i
    <2>1. a \in Int /\ b \in Int /\ j \in Int /\ 0 <= a /\ a < b /\ b <= j - i
          /\ j <= Len(seg) + 1 /\ 1 <= i
      BY <1>0, <1>1
    <2> QED BY <1>0, <2>1
  <1>5. seg[i + a] \in Solid /\ seg[i + a] \in CodePoint
    <2>1. seg[i + a] \in CodePoint
      BY <1>4, SegClasses
    <2>2. seg[i + a] \in Solid
      BY <1>3, <1>4, Zenon DEF Run
    <2> QED BY <2>1, <2>2
  <1>6. seg[i + a] \notin Of({"Z", "L", "M", "N"})
    BY <1>5 DEF Solid, Of
  <1>9. Category[seg[i]] # "O"
    <2>1. CASE a = 0
      <3>1. i + a = i
        BY <1>0, <2>1
      <3>2. Category[seg[i]] = "P"
        BY <1>0, <1>5, <3>1, Classes
      <3> QED BY <3>2
    <2>2. CASE a = 1
      <3>1. Category[seg[i]] = "Z"
        BY <1>0, <1>3, <2>2, Classes
      <3> QED BY <3>1
    <2> QED BY <2>1, <2>2
  <1>7. CASE seg[i] = " "
    <2>1. seg[i] \notin Solid
      BY <1>0, <1>7, Classes
    <2>2. a = 1
      BY <1>4, <1>5, <2>1
    <2>3. Within(i + 1, Of({"Z", "L", "M", "N"}))
      BY <1>0, <1>9, <1>7 DEF SymbolsAt
    <2> QED BY <1>6, <2>2, <2>3 DEF Within
  <1>8. CASE seg[i] # " "
    <2>1. a = 0
      BY <1>3, <1>8
    <2>2. Within(i, Of({"Z", "L", "M", "N"}))
      BY <1>0, <1>9, <1>8 DEF SymbolsAt
    <2> QED BY <1>4, <1>6, <2>1, <2>2 DEF Within
  <1> QED BY <1>7, <1>8

IsBlank(i) == seg[i] = " "
FirstSymbol(i) == IF IsBlank(i) THEN i + 1 ELSE i
SymbolsEnd(i) == RunEnd(RunEnd(FirstSymbol(i), Solid), NewLine)

LEMMA SolidIs ==
  ASSUME SegOK, NEW k \in 1..Len(seg)
  PROVE  /\ seg[k] \in Solid <=> seg[k] \notin Of({"Z", "L", "M", "N"}) /\ Category[seg[k]] # "O"
         /\ seg[k] \in Solid => seg[k] \notin NewLine
  <1>1. seg[k] \in CodePoint
    BY SegClasses
  <1> DEFINE c == seg[k]
  <1>2. /\ Category[c] \in {"L", "M", "N", "Z", "P", "O"}
        /\ c \in Of({"Z", "L", "M", "N"}) <=> Category[c] \in {"Z", "L", "M", "N"}
        /\ c \in Solid <=> Category[c] = "P"
        /\ c \in NewLine => Category[c] = "Z"
    BY <1>1, Classes, Zenon
  <1> QED BY <1>1, <1>2

\* A blank with no symbol or space behind it.
LoneBlank(i) ==
  IsBlank(i) /\ (i + 1 <= Len(seg) => seg[i + 1] \notin Solid /\ seg[i + 1] \notin White)

LEMMA SymbolRuns ==
  ASSUME SegOK, NEW i \in 1..Len(seg)
  PROVE  LET f == FirstSymbol(i)
             g == RunEnd(f, Solid)
             e == SymbolsEnd(i)
         IN  /\ f \in {i, i + 1} /\ f \in 1..(Len(seg) + 1)
             /\ g \in f..(Len(seg) + 1) /\ Run(f, g, Solid)
             /\ g <= Len(seg) => seg[g] \notin Solid
             /\ e \in g..(Len(seg) + 1) /\ Run(g, e, NewLine)
             /\ e <= Len(seg) => seg[e] \notin NewLine
  <1> DEFINE f == FirstSymbol(i)
             g == RunEnd(f, Solid)
             e == RunEnd(g, NewLine)
  <1>0. Len(seg) \in Nat /\ i \in Int
    BY DEF SegOK
  <1>1. f \in {i, i + 1} /\ f \in 1..(Len(seg) + 1)
    BY <1>0 DEF FirstSymbol
  <1> HIDE DEF f
  <1>2. /\ g \in f..(Len(seg) + 1) /\ Run(f, g, Solid)
        /\ g <= Len(seg) => seg[g] \notin Solid
    BY <1>1, RunEndIs DEF Run
  <1>3. g \in 1..(Len(seg) + 1)
    BY <1>0, <1>1, <1>2
  <1> HIDE DEF g
  <1>4. /\ e \in g..(Len(seg) + 1) /\ Run(g, e, NewLine)
        /\ e <= Len(seg) => seg[e] \notin NewLine
    BY <1>3, RunEndIs DEF Run
  <1>5. SymbolsEnd(i) = e
    BY DEF SymbolsEnd, g, f
  <1> HIDE DEF e
  <1> QED BY <1>1, <1>2, <1>4, <1>5, Zenon DEF f, g

LEMMA SymbolEnds ==
  ASSUME SegOK, NEW i \in 1..Len(seg), SymbolsAt(i), ~ LoneBlank(i)
  PROVE  /\ SymbolsEnd(i) \in Ends(4, i)
         /\ \A j \in Ends(4, i) : j <= SymbolsEnd(i)
  <1> DEFINE f == FirstSymbol(i)
             g == RunEnd(f, Solid)
             e == SymbolsEnd(i)
  <1>0. Len(seg) \in Nat /\ i \in Int /\ 1 <= i /\ i <= Len(seg)
    BY DEF SegOK
  <1>1. /\ f \in {i, i + 1} /\ f \in 1..(Len(seg) + 1)
        /\ g \in f..(Len(seg) + 1) /\ Run(f, g, Solid)
        /\ g <= Len(seg) => seg[g] \notin Solid
        /\ e \in g..(Len(seg) + 1) /\ Run(g, e, NewLine)
        /\ e <= Len(seg) => seg[e] \notin NewLine
    BY SymbolRuns, Zenon
  <1>2. /\ IsBlank(i) => f = i + 1
        /\ ~ IsBlank(i) => f = i
    BY DEF FirstSymbol
  <1>3. f \in 1..Len(seg) /\ seg[f] \in Solid
    <2>1. CASE IsBlank(i)
      <3>1. i + 1 <= Len(seg) /\ (seg[i + 1] \in Solid \/ seg[i + 1] \in White)
        BY <2>1 DEF LoneBlank
      <3>2. f = i + 1 /\ i + 1 \in 1..Len(seg)
        BY <1>0, <1>2, <2>1, <3>1
      <3>3. ~ Within(i + 1, Of({"Z", "L", "M", "N"}))
        BY <2>1 DEF SymbolsAt, IsBlank
      <3>4. seg[i + 1] \notin White
        BY <3>1, <3>3 DEF Within, White, Of
      <3> QED BY <3>1, <3>2, <3>4
    <2>2. CASE ~ IsBlank(i)
      <3>1. f = i
        BY <1>2, <2>2
      <3>2. ~ Within(i, Of({"Z", "L", "M", "N"})) /\ Category[seg[i]] # "O"
        BY <2>2 DEF SymbolsAt, IsBlank
      <3> QED BY <1>0, <3>1, <3>2, SolidIs DEF Within
    <2> QED BY <2>1, <2>2
  <1> HIDE DEF f, g, e
  <1>4. seg[f] \in Solid
    BY <1>3
  <1>5. g # f
    BY <1>1, <1>3, <1>4
  <1>6. f \in Int /\ g \in Int /\ e \in Int /\ f < g /\ g <= e /\ e <= Len(seg) + 1
        /\ i <= f /\ f <= i + 1
    BY <1>0, <1>1, <1>5
  <1>7. Run(f, g, Solid)
    BY <1>1
  <1>8. e \in Ends(4, i)
    <2> DEFINE a == f - i
               b == g - i
    <2>1. a \in {0, 1} /\ b \in (a + 1)..(e - i) /\ i + a = f /\ i + b = g
      BY <1>0, <1>6
    <2>2. a = 1 => IsBlank(i)
      BY <1>0, <1>2
    <2>3. e \in (i + 1)..(Len(seg) + 1)
      BY <1>0, <1>6
    <2> HIDE DEF a, b
    <2>4. \E aa \in {0, 1} : \E bb \in (aa + 1)..(e - i) :
             /\ aa = 1 => IsBlank(i)
             /\ Run(i + aa, i + bb, Solid)
             /\ Run(i + bb, e, NewLine)
      BY <1>1, <1>7, <2>1, <2>2, Zenon
    <2>5. \E aa \in {0, 1} : \E bb \in (aa + 1)..(e - i) :
             /\ aa = 1 => seg[i] = " "
             /\ Run(i + aa, i + bb, Solid)
             /\ Run(i + bb, e, NewLine)
      BY <2>4, Zenon DEF IsBlank
    <2> QED BY <2>3, <2>5, Matches4
  <1>9. ASSUME NEW j \in Ends(4, i) PROVE j <= e
    <2>1. j \in (i + 1)..(Len(seg) + 1)
      BY EndsRange
    <2>2. PICK a \in {0, 1} : \E b \in (a + 1)..(j - i) :
            /\ a = 1 => IsBlank(i)
            /\ Run(i + a, i + b, Solid)
            /\ Run(i + b, j, NewLine)
      BY <2>1, Matches4 DEF IsBlank
    <2>3. PICK b \in (a + 1)..(j - i) :
            /\ a = 1 => IsBlank(i)
            /\ Run(i + a, i + b, Solid)
            /\ Run(i + b, j, NewLine)
      BY <2>2
    <2>4. j \in Int /\ a \in Int /\ b \in Int /\ a < b /\ b <= j - i /\ j <= Len(seg) + 1
          /\ 0 <= a
      BY <1>0, <2>1
    <2>5. i + a = f
      <3>1. CASE IsBlank(i)
        <4>1. seg[i] \notin Solid
          <5>1. seg[i] \in CodePoint /\ seg[i] = " "
            BY <3>1, SegClasses DEF IsBlank
          <5>2. Category[seg[i]] = "Z"
            BY <5>1, Classes
          <5> QED BY <5>1, <5>2, Classes
        <4>2. i \in i..((i + b) - 1)
          BY <1>0, <2>4
        <4>3. i + 0 = i
          BY <1>0
        <4>4. a # 0
          BY <2>3, <4>1, <4>2, <4>3 DEF Run
        <4> QED BY <1>2, <3>1, <4>4
      <3>2. CASE ~ IsBlank(i)
        <4>1. a = 0
          BY <2>3, <3>2
        <4> QED BY <1>0, <1>2, <3>2, <4>1
      <3> QED BY <3>1, <3>2
    <2> DEFINE h == i + b
    <2>6. h \in Int /\ f < h /\ h <= j /\ Run(f, h, Solid) /\ Run(h, j, NewLine)
      BY <1>0, <2>3, <2>4, <2>5
    <2> HIDE DEF h
    <2>7. h <= g
      <3> SUFFICES ASSUME h > g PROVE FALSE
        BY <1>6, <2>6
      <3>1. g \in f..(h - 1) /\ g \in 1..Len(seg) /\ g <= Len(seg)
        BY <1>0, <1>6, <2>4, <2>6
      <3>2. seg[g] \in Solid
        BY <2>6, <3>1 DEF Run
      <3> QED BY <1>1, <3>1, <3>2, SolidIs
    <2>8. CASE h < g
      <3>1. CASE h = j
        BY <1>6, <2>4, <2>8, <3>1
      <3>2. CASE h # j
        <4>1. h \in h..(j - 1) /\ h \in f..(g - 1) /\ h \in 1..Len(seg)
          BY <1>0, <1>6, <2>4, <2>6, <2>8, <3>2
        <4>2. seg[h] \in NewLine /\ seg[h] \in Solid
          BY <1>1, <2>6, <4>1 DEF Run
        <4> QED BY <4>1, <4>2, SolidIs
      <3> QED BY <3>1, <3>2
    <2>9. CASE h = g
      <3> SUFFICES ASSUME j > e PROVE FALSE
        BY <1>6, <2>4
      <3>1. e \in h..(j - 1) /\ e <= Len(seg)
        BY <1>6, <2>4, <2>9
      <3>2. seg[e] \in NewLine
        BY <2>6, <3>1 DEF Run
      <3> QED BY <1>1, <3>1, <3>2
    <2> QED BY <1>6, <2>6, <2>7, <2>8, <2>9
  <1> QED BY <1>8, <1>9 DEF e

LEMMA SpaceRun ==
  ASSUME SegOK, NEW i \in 1..Len(seg)
  PROVE  /\ SpacesEnd(i) \in i..(Len(seg) + 1)
         /\ Run(i, SpacesEnd(i), White)
         /\ SpacesEnd(i) <= Len(seg) => seg[SpacesEnd(i)] \notin White
  <1>1. i \in 1..(Len(seg) + 1)
    BY DEF SegOK
  <1> QED BY <1>1, RunEndIs DEF SpacesEnd, Run

LEMMA WhiteRunEnds ==
  ASSUME SegOK, NEW i \in 1..Len(seg), NEW j \in (i + 1)..(Len(seg) + 1), Run(i, j, White)
  PROVE  j <= SpacesEnd(i)
  <1> DEFINE e == SpacesEnd(i)
  <1>0. Len(seg) \in Nat /\ i \in Int /\ j \in Int /\ e \in Int /\ i <= e
        /\ j <= Len(seg) + 1
    BY SpaceRun DEF SegOK
  <1>1. e <= Len(seg) => seg[e] \notin White
    BY SpaceRun
  <1> HIDE DEF e
  <1>2. j > e => e \in i..(j - 1) /\ e <= Len(seg)
    BY <1>0
  <1>3. ~ (j > e)
    BY <1>1, <1>2 DEF Run
  <1>4. j <= e
    BY <1>0, <1>3
  <1> QED BY <1>4 DEF e

LEMMA NewLineEnds ==
  ASSUME SegOK, NEW i \in 1..Len(seg)
  PROVE  /\ LastNewLine(i) \in 0..Len(seg)
         /\ LastNewLine(i) = 0 => Ends(5, i) = {}
         /\ LastNewLine(i) > 0 => /\ LastNewLine(i) >= i
                                  /\ LastNewLine(i) + 1 \in Ends(5, i)
                                  /\ \A j \in Ends(5, i) : j <= LastNewLine(i) + 1
  <1> DEFINE e == SpacesEnd(i)
             at == {j \in i..(e - 1) : seg[j] \in NewLine}
  <1>0. Len(seg) \in Nat /\ i \in Int /\ 1 <= i /\ i <= Len(seg)
        /\ e \in Int /\ i <= e /\ e <= Len(seg) + 1
    BY SpaceRun DEF SegOK
  <1>1. Run(i, e, White)
    BY SpaceRun
  <1>2. LastNewLine(i) = IF at = {} THEN 0 ELSE Max(at)
    BY DEF LastNewLine
  <1> HIDE DEF e
  <1>3. ASSUME NEW j \in Ends(5, i) PROVE j - 1 \in at /\ j \in Int
    <2>1. j \in (i + 1)..(Len(seg) + 1)
      BY EndsRange
    <2>2. PICK b \in 1..(j - i) : Run(i, i + b - 1, White) /\ Run(i + b - 1, j, NewLine)
      BY <2>1, Matches5
    <2>3. j \in Int /\ b \in Int /\ 1 <= b /\ b <= j - i /\ i < j /\ j <= Len(seg) + 1
      BY <1>0, <2>1
    <2>4. seg[j - 1] \in NewLine
      <3>1. j - 1 \in (i + b - 1)..(j - 1)
        BY <1>0, <2>3
      <3> QED BY <2>2, <3>1 DEF Run
    <2>5. ASSUME NEW k \in i..(j - 1) PROVE seg[k] \in White
      <3>1. k \in i..((i + b - 1) - 1) \/ k \in (i + b - 1)..(j - 1)
        BY <1>0, <2>3
      <3>2. k \in 1..Len(seg)
        BY <1>0, <2>3
      <3>3. CASE k \in i..((i + b - 1) - 1)
        BY <2>2, <3>3 DEF Run
      <3>4. CASE k \in (i + b - 1)..(j - 1)
        <4>1. seg[k] \in NewLine /\ seg[k] \in CodePoint
          BY <2>2, <3>2, <3>4, SegClasses DEF Run
        <4> QED BY <4>1, Classes
      <3> QED BY <3>1, <3>3, <3>4
    <2>6. j <= e
      BY <2>1, <2>5, WhiteRunEnds DEF Run, e
    <2>7. j - 1 \in i..(e - 1)
      BY <1>0, <2>3, <2>6
    <2> QED BY <2>3, <2>4, <2>7
  <1>4. CASE at = {}
    BY <1>0, <1>2, <1>3, <1>4
  <1>5. CASE at # {}
    <2> DEFINE m == Max(at)
    <2>1. at \subseteq 0..(Len(seg) + 1) /\ Len(seg) + 1 \in Nat
      BY <1>0
    <2>2. m \in at /\ \A k \in at : k <= m
      <3> HIDE DEF at
      <3> QED BY <1>5, <2>1, MaxOf, Zenon
    <2>3. m \in i..(e - 1) /\ seg[m] \in NewLine
      BY <2>2
    <2>4. LastNewLine(i) = m
      BY <1>2, <1>5
    <2> HIDE DEF m, at
    <2>5. m \in Int /\ i <= m /\ m < e /\ m \in 0..Len(seg)
      BY <1>0, <2>3
    <2>6. m + 1 \in Ends(5, i)
      <3> DEFINE b == m - i + 1
      <3>1. b \in 1..((m + 1) - i) /\ i + b - 1 = m /\ m + 1 \in (i + 1)..(Len(seg) + 1)
        BY <1>0, <2>5
      <3>2. Run(i, m, White)
        <4>1. \A k \in i..(m - 1) : k \in i..(e - 1)
          BY <1>0, <2>5
        <4> QED BY <1>1, <4>1 DEF Run
      <3>3. Run(m, m + 1, NewLine)
        <4>1. \A k \in m..((m + 1) - 1) : k = m
          BY <2>5
        <4> QED BY <2>3, <4>1 DEF Run
      <3> HIDE DEF b
      <3>4. \E bb \in 1..((m + 1) - i) :
               Run(i, i + bb - 1, White) /\ Run(i + bb - 1, m + 1, NewLine)
        BY <3>1, <3>2, <3>3, Zenon
      <3> QED BY <3>1, <3>4, Matches5
    <2>7. ASSUME NEW j \in Ends(5, i) PROVE j <= m + 1
      <3>1. j - 1 \in at /\ j \in Int
        BY <1>3
      <3>2. j - 1 <= m
        BY <2>2, <3>1
      <3> QED BY <2>5, <3>1, <3>2
    <2>8. m # 0
      BY <1>0, <2>5
    <2> QED BY <1>0, <2>4, <2>5, <2>6, <2>7, <2>8
  <1> QED BY <1>4, <1>5

LEMMA SpaceEnds ==
  ASSUME SegOK, NEW i \in 1..Len(seg), SpacesEnd(i) > i
  PROVE  LET e == SpacesEnd(i)
         IN  /\ e = Len(seg) + 1 => e \in Ends(6, i) /\ \A j \in Ends(6, i) : j <= e
             /\ e <= Len(seg) /\ e > i + 1 =>
                  e - 1 \in Ends(6, i) /\ \A j \in Ends(6, i) : j <= e - 1
             /\ e <= Len(seg) /\ e = i + 1 =>
                  /\ Ends(6, i) = {}
                  /\ e \in Ends(7, i) /\ \A j \in Ends(7, i) : j <= e
  <1> DEFINE e == SpacesEnd(i)
  <1>0. Len(seg) \in Nat /\ i \in Int /\ 1 <= i /\ i <= Len(seg)
        /\ e \in Int /\ i < e /\ e <= Len(seg) + 1
    BY SpaceRun DEF SegOK
  <1>1. Run(i, e, White) /\ (e <= Len(seg) => seg[e] \notin White)
    BY SpaceRun
  <1>2. ASSUME NEW j \in Ends(6, i)
        PROVE  j \in (i + 1)..(Len(seg) + 1) /\ j <= e /\ (e <= Len(seg) => j < e)
    <2>1. j \in (i + 1)..(Len(seg) + 1)
      BY EndsRange
    <2>2. Run(i, j, White) /\ (j = Len(seg) + 1 \/ seg[j] \in White)
      BY <2>1, Matches67
    <2>3. j <= e
      BY <2>1, <2>2, WhiteRunEnds
    <2> HIDE DEF e
    <2>4. e <= Len(seg) => j # e
      BY <1>0, <1>1, <2>2
    <2> QED BY <1>0, <2>1, <2>3, <2>4
  <1>3. ASSUME NEW j \in Ends(7, i) PROVE j <= e
    <2>1. j \in (i + 1)..(Len(seg) + 1)
      BY EndsRange
    <2>2. Run(i, j, White)
      BY <2>1, Matches67
    <2> QED BY <2>1, <2>2, WhiteRunEnds
  <1> HIDE DEF e
  <1>4. ASSUME e = Len(seg) + 1 PROVE e \in Ends(6, i)
    <2>1. e \in (i + 1)..(Len(seg) + 1)
      BY <1>0
    <2> QED BY <1>1, <1>4, <2>1, Matches67
  <1>5. ASSUME e <= Len(seg), e > i + 1
        PROVE  e - 1 \in Ends(6, i) /\ \A j \in Ends(6, i) : j <= e - 1
    <2>1. e - 1 \in (i + 1)..(Len(seg) + 1) /\ e - 1 \in i..(e - 1)
          /\ \A k \in i..((e - 1) - 1) : k \in i..(e - 1)
      BY <1>0, <1>5
    <2>2. Run(i, e - 1, White) /\ seg[e - 1] \in White
      BY <1>1, <2>1 DEF Run
    <2>3. e - 1 \in Ends(6, i)
      BY <2>1, <2>2, Matches67
    <2> QED BY <1>0, <1>2, <1>5, <2>3
  <1>6. ASSUME e <= Len(seg), e = i + 1
        PROVE  Ends(6, i) = {} /\ e \in Ends(7, i)
    <2>1. e \in (i + 1)..(Len(seg) + 1)
      BY <1>0
    <2>2. e \in Ends(7, i)
      BY <1>1, <2>1, Matches67
    <2>3. ASSUME NEW j \in Ends(6, i) PROVE FALSE
      BY <1>0, <1>2, <1>6
    <2> QED BY <2>2, <2>3
  <1> QED BY <1>2, <1>3, <1>4, <1>5, <1>6 DEF e

LEMMA LoneBlankIs ==
  ASSUME SegOK, NEW i \in 1..Len(seg), LoneBlank(i)
  PROVE  /\ SymbolsEnd(i) = i + 1 /\ SpacesEnd(i) = i + 1 /\ LastNewLine(i) = 0
         /\ Ends(4, i) = {} /\ Ends(5, i) = {}
  <1>0. Len(seg) \in Nat /\ i \in Int /\ i <= Len(seg) /\ IsBlank(i)
    BY DEF SegOK, LoneBlank
  <1>1. seg[i] \in White /\ seg[i] \notin Solid /\ seg[i] \notin NewLine
    <2>1. seg[i] \in CodePoint
      BY SegClasses
    <2>2. Category[seg[i]] = "Z" /\ (seg[i] \in White <=> Category[seg[i]] = "Z")
          /\ (seg[i] \in Solid <=> Category[seg[i]] = "P")
      BY <1>0, <2>1, Classes, Zenon DEF IsBlank
    <2>3. seg[i] \notin NewLine
      BY <1>0 DEF IsBlank, NewLine
    <2> QED BY <2>2, <2>3
  <1>2. i + 1 <= Len(seg) => /\ seg[i + 1] \notin Solid /\ seg[i + 1] \notin White
                             /\ seg[i + 1] \notin NewLine
    <2> SUFFICES ASSUME i + 1 <= Len(seg)
                 PROVE  /\ seg[i + 1] \notin Solid /\ seg[i + 1] \notin White
                        /\ seg[i + 1] \notin NewLine
      OBVIOUS
    <2>1. seg[i + 1] \notin Solid /\ seg[i + 1] \notin White
      BY DEF LoneBlank
    <2>2. i + 1 \in 1..Len(seg)
      BY <1>0
    <2>3. seg[i + 1] \in CodePoint
      BY <2>2, SegClasses
    <2>4. /\ seg[i + 1] \in White <=> Category[seg[i + 1]] = "Z"
          /\ seg[i + 1] \in NewLine => Category[seg[i + 1]] = "Z"
      BY <2>3, Classes, Zenon
    <2> QED BY <2>1, <2>4
  <1>3. SymbolsEnd(i) = i + 1
    <2> DEFINE g == RunEnd(FirstSymbol(i), Solid)
               e == SymbolsEnd(i)
    <2>1. FirstSymbol(i) = i + 1
      BY <1>0 DEF FirstSymbol
    <2>2. /\ g \in (i + 1)..(Len(seg) + 1) /\ Run(i + 1, g, Solid)
          /\ e \in g..(Len(seg) + 1) /\ Run(g, e, NewLine)
      BY <2>1, SymbolRuns, Zenon
    <2> HIDE DEF g, e
    <2>3. g = i + 1
      <3> SUFFICES ASSUME g # i + 1 PROVE FALSE
        OBVIOUS
      <3>1. i + 1 \in (i + 1)..(g - 1) /\ i + 1 <= Len(seg)
        BY <1>0, <2>2
      <3> QED BY <1>2, <2>2, <3>1 DEF Run
    <2>4. e = i + 1
      <3> SUFFICES ASSUME e # i + 1 PROVE FALSE
        OBVIOUS
      <3>1. i + 1 \in g..(e - 1) /\ i + 1 <= Len(seg)
        BY <1>0, <2>2, <2>3
      <3> QED BY <1>2, <2>2, <3>1 DEF Run
    <2> QED BY <2>4 DEF e
  <1>4. SpacesEnd(i) = i + 1
    <2> DEFINE e == SpacesEnd(i)
    <2>1. e \in i..(Len(seg) + 1) /\ Run(i, e, White) /\ (e <= Len(seg) => seg[e] \notin White)
      BY SpaceRun
    <2> HIDE DEF e
    <2>2. e # i
      BY <1>0, <1>1, <2>1
    <2>3. ~ (e > i + 1)
      <3> SUFFICES ASSUME e > i + 1 PROVE FALSE
        OBVIOUS
      <3>1. i + 1 \in i..(e - 1) /\ i + 1 <= Len(seg)
        BY <1>0, <2>1
      <3> QED BY <1>2, <2>1, <3>1 DEF Run
    <2>4. e = i + 1
      BY <1>0, <2>1, <2>2, <2>3
    <2> QED BY <2>4 DEF e
  <1>5. Ends(4, i) = {}
    <2> SUFFICES ASSUME NEW j \in Ends(4, i) PROVE FALSE
      OBVIOUS
    <2>1. j \in (i + 1)..(Len(seg) + 1)
      BY EndsRange
    <2>2. PICK a \in {0, 1} : \E b \in (a + 1)..(j - i) : Run(i + a, i + b, Solid)
      BY <2>1, Matches4
    <2>3. PICK b \in (a + 1)..(j - i) : Run(i + a, i + b, Solid)
      BY <2>2
    <2>4. i + a \in (i + a)..((i + b) - 1) /\ i + a <= Len(seg)
      BY <1>0, <2>1, <2>3
    <2>5. seg[i + a] \in Solid
      BY <2>3, <2>4, Zenon DEF Run
    <2>6. CASE a = 0
      <3>1. i + a = i
        BY <1>0, <2>6
      <3> QED BY <1>1, <2>5, <3>1
    <2>7. CASE a = 1
      BY <1>2, <2>4, <2>5, <2>7
    <2> QED BY <2>6, <2>7
  <1>6. LastNewLine(i) = 0
    <2>1. \A k \in i..(SpacesEnd(i) - 1) : k = i
      BY <1>0, <1>4
    <2> QED BY <1>1, <2>1 DEF LastNewLine
  <1>7. Ends(5, i) = {}
    BY <1>6, NewLineEnds
  <1> QED BY <1>3, <1>4, <1>5, <1>6, <1>7

(***************************************************************************)
(* Every branch of the loop ends where the regular expression does, and    *)
(* makes progress.                                                         *)
(***************************************************************************)
Ends1To(n, i) == \A m \in 1..7 : m < n => Ends(m, i) = {}

LEMMA NoEndsTo ==
  ASSUME NEW i
  PROVE  /\ Ends1To(1, i)
         /\ Ends1To(1, i) /\ Ends(1, i) = {} => Ends1To(2, i)
         /\ Ends1To(2, i) /\ Ends(2, i) = {} => Ends1To(3, i)
         /\ Ends1To(3, i) /\ Ends(3, i) = {} => Ends1To(4, i)
         /\ Ends1To(4, i) /\ Ends(4, i) = {} => Ends1To(5, i)
         /\ Ends1To(5, i) /\ Ends(5, i) = {} => Ends1To(6, i)
         /\ Ends1To(6, i) /\ Ends(6, i) = {} => Ends1To(7, i)
  <1>1. ASSUME NEW n \in 1..6, Ends1To(n, i), Ends(n, i) = {} PROVE Ends1To(n + 1, i)
    BY <1>1 DEF Ends1To
  <1>2. Ends1To(1, i)
    BY DEF Ends1To
  <1>3. /\ Ends1To(1, i) /\ Ends(1, i) = {} => Ends1To(1 + 1, i)
        /\ Ends1To(2, i) /\ Ends(2, i) = {} => Ends1To(2 + 1, i)
        /\ Ends1To(3, i) /\ Ends(3, i) = {} => Ends1To(3 + 1, i)
        /\ Ends1To(4, i) /\ Ends(4, i) = {} => Ends1To(4 + 1, i)
        /\ Ends1To(5, i) /\ Ends(5, i) = {} => Ends1To(5 + 1, i)
        /\ Ends1To(6, i) /\ Ends(6, i) = {} => Ends1To(6 + 1, i)
    BY <1>1
  <1> QED BY <1>2, <1>3

Cuts(i, e) ==
  /\ e \in (i + 1)..(Len(seg) + 1)
  /\ RegexEnd(seg, i) = e

LEMMA CutsAt ==
  ASSUME SegOK, NEW i \in 1..Len(seg), NEW n \in 1..7, Ends1To(n, i),
         NEW e \in Ends(n, i), \A j \in Ends(n, i) : j <= e
  PROVE  Cuts(i, e)
  <1>1. RegexEnd(seg, i) = e
    BY RegexEndIs DEF Ends1To
  <1> QED BY <1>1, EndsRange DEF Cuts

LEMMA CutContraction ==
  ASSUME SegOK, NEW i \in 1..Len(seg), Contraction(i) > 0
  PROVE  Cuts(i, i + Contraction(i))
  <1> DEFINE e == i + Contraction(i)
  <1>1. Contraction(i) \in {0, 2, 3} /\ i \in Int
    BY ContractionIs
  <1>2. e \in Ends(1, i) /\ \A j \in Ends(1, i) : j = e
    BY <1>1, ContractionIs
  <1>3. e \in Int /\ Ends1To(1, i)
    BY <1>1, NoEndsTo
  <1> HIDE DEF e
  <1>4. e \in Ends(1, i) /\ \A j \in Ends(1, i) : j <= e
    BY <1>2, <1>3
  <1>5. Cuts(i, e)
    BY <1>3, <1>4, CutsAt
  <1> QED BY <1>5 DEF e

LEMMA CutWord ==
  ASSUME SegOK, NEW i \in 1..Len(seg), Contraction(i) = 0, WordAt(i)
  PROVE  Cuts(i, RunEnd(i + 1, LetterMark))
  <1>1. Ends1To(2, i)
    BY NoEndsTo, ContractionIs
  <1> QED BY <1>1, WordEnds, CutsAt

LEMMA CutNumber ==
  ASSUME SegOK, NEW i \in 1..Len(seg), Contraction(i) = 0, ~ WordAt(i), NumberAt(i)
  PROVE  Cuts(i, i + 1)
  <1>1. Ends1To(3, i)
    BY NoEndsTo, ContractionIs, NoWord
  <1> QED BY <1>1, NumberEnds, CutsAt

LEMMA NoneBeforeSymbols ==
  ASSUME SegOK, NEW i \in 1..Len(seg), Contraction(i) = 0, ~ WordAt(i), ~ NumberAt(i)
  PROVE  Ends1To(4, i)
  BY NoEndsTo, ContractionIs, NoWord, NumberEnds

LEMMA SymbolsFirst ==
  ASSUME SegOK, NEW i \in 1..Len(seg), Ends1To(4, i), ~ SymbolsAt(i)
  PROVE  Ends1To(5, i)
  BY NoEndsTo, NoSymbols

LEMMA CutNewLines ==
  ASSUME SegOK, NEW i \in 1..Len(seg), Ends1To(5, i), LastNewLine(i) > 0
  PROVE  Cuts(i, LastNewLine(i) + 1)
  BY NewLineEnds, CutsAt

LEMMA CutSpacesBefore ==
  ASSUME SegOK, NEW i \in 1..Len(seg), Ends1To(5, i), LastNewLine(i) = 0,
         SpacesEnd(i) > i + 1, SpacesEnd(i) <= Len(seg)
  PROVE  Cuts(i, SpacesEnd(i) - 1)
  <1> DEFINE e == SpacesEnd(i) - 1
  <1>0. i \in Int /\ SpacesEnd(i) \in Int
    BY SpaceRun
  <1>1. SpacesEnd(i) > i
    BY <1>0
  <1>2. e \in Ends(6, i) /\ \A j \in Ends(6, i) : j <= e
    BY <1>1, SpaceEnds
  <1> HIDE DEF e
  <1>3. Ends1To(6, i)
    BY NoEndsTo, NewLineEnds
  <1>4. Cuts(i, e)
    BY <1>2, <1>3, CutsAt
  <1> QED BY <1>4 DEF e

LEMMA CutSpaces ==
  ASSUME SegOK, NEW i \in 1..Len(seg), Ends1To(5, i), LastNewLine(i) = 0,
         SpacesEnd(i) > i, ~ (SpacesEnd(i) > i + 1 /\ SpacesEnd(i) <= Len(seg))
  PROVE  Cuts(i, SpacesEnd(i))
  <1> DEFINE e == SpacesEnd(i)
  <1>0. Len(seg) \in Nat /\ i \in Int /\ e \in Int /\ e > i /\ e <= Len(seg) + 1
    BY SpaceRun DEF SegOK
  <1>1. e = Len(seg) + 1 \/ (e <= Len(seg) /\ e = i + 1)
    BY <1>0
  <1>2. Ends1To(6, i)
    BY NoEndsTo, NewLineEnds
  <1>3. CASE e = Len(seg) + 1
    <2>1. e \in Ends(6, i) /\ \A j \in Ends(6, i) : j <= e
      BY <1>3, SpaceEnds
    <2> QED BY <1>2, <2>1, CutsAt
  <1>4. CASE e <= Len(seg) /\ e = i + 1
    <2>1. Ends(6, i) = {} /\ e \in Ends(7, i) /\ \A j \in Ends(7, i) : j <= e
      BY <1>4, SpaceEnds
    <2>2. Ends1To(7, i)
      BY <1>2, <2>1, NoEndsTo
    <2> QED BY <2>1, <2>2, CutsAt
  <1> QED BY <1>1, <1>3, <1>4

LEMMA CutSymbols ==
  ASSUME SegOK, NEW i \in 1..Len(seg), Ends1To(4, i), SymbolsAt(i)
  PROVE  Cuts(i, SymbolsEnd(i))
  <1>1. CASE LoneBlank(i)
    <2>1. /\ SymbolsEnd(i) = i + 1 /\ SpacesEnd(i) = i + 1 /\ LastNewLine(i) = 0
          /\ Ends(4, i) = {}
      BY <1>1, LoneBlankIs
    <2>2. Ends1To(5, i)
      BY <2>1, NoEndsTo
    <2>3. i \in Int /\ SpacesEnd(i) > i /\ ~ (SpacesEnd(i) > i + 1)
      BY <2>1
    <2>4. Cuts(i, SpacesEnd(i))
      BY <2>1, <2>2, <2>3, CutSpaces
    <2> QED BY <2>1, <2>4
  <1>2. CASE ~ LoneBlank(i)
    BY <1>2, SymbolEnds, CutsAt
  <1> QED BY <1>1, <1>2

LEMMA CutOther ==
  ASSUME SegOK, NEW i \in 1..Len(seg), Ends1To(5, i), SpacesEnd(i) = i
  PROVE  Cuts(i, i + 1)
  <1>0. Len(seg) \in Nat /\ i \in Int /\ i <= Len(seg)
    BY DEF SegOK
  <1>1. seg[i] \notin White
    BY <1>0, SpaceRun
  <1>2. Ends(5, i) = {}
    <2>1. i..(SpacesEnd(i) - 1) = {}
      BY <1>0
    <2>2. LastNewLine(i) = 0
      BY <2>1 DEF LastNewLine
    <2> QED BY <2>2, NewLineEnds
  <1>3. ASSUME NEW n \in {6, 7}, NEW j \in Ends(n, i) PROVE FALSE
    <2>1. j \in (i + 1)..(Len(seg) + 1)
      BY EndsRange
    <2>2. Run(i, j, White)
      BY <1>3, <2>1, Matches67
    <2>3. i \in i..(j - 1)
      BY <1>0, <2>1
    <2> QED BY <1>1, <2>2, <2>3 DEF Run
  <1>4. Ends1To(7, i) /\ Ends(7, i) = {}
    BY <1>2, <1>3, NoEndsTo
  <1>5. RegexEnd(seg, i) = i + 1
    <2>1. \A m \in 1..7 : Ends(m, i) = {}
      <3> SUFFICES ASSUME NEW m \in 1..7 PROVE Ends(m, i) = {}
        OBVIOUS
      <3>1. m < 7 \/ m = 7
        OBVIOUS
      <3> QED BY <1>4, <3>1 DEF Ends1To
    <2> QED BY <2>1, RegexEndNone
  <1> QED BY <1>0, <1>5 DEF Cuts

-----------------------------------------------------------------------------
(***************************************************************************)
(* The search for the next special token.                                  *)
(***************************************************************************)
SpecialToken == Seq(CodePoint) \X Int

SpecialsOK ==
  /\ special_tokens \in Seq(SpecialToken)
  /\ \A i \in DOMAIN special_tokens : special_tokens[i][1] # <<>>
  /\ \A i, j \in DOMAIN special_tokens :
       i < j => Len(special_tokens[i][1]) >= Len(special_tokens[j][1])

LEMMA FindIs ==
  ASSUME NEW t \in Seq(CodePoint), NEW s \in Seq(CodePoint), NEW p \in 1..(Len(t) + 1)
  PROVE  /\ Find(t, s, p) \in 0..(Len(t) + 1)
         /\ Find(t, s, p) # 0 =>
              /\ Find(t, s, p) >= p /\ OccursAt(t, s, Find(t, s, p))
              /\ \A i \in p..(Len(t) + 1) : OccursAt(t, s, i) => Find(t, s, p) <= i
         /\ Find(t, s, p) = 0 => \A i \in p..(Len(t) + 1) : ~ OccursAt(t, s, i)
  <1> DEFINE at == {i \in p..(Len(t) - Len(s) + 1) : OccursAt(t, s, i)}
  <1>0. Len(t) \in Nat /\ Len(s) \in Nat /\ p \in Int /\ 1 <= p
    OBVIOUS
  <1>1. Find(t, s, p) = IF at = {} THEN 0 ELSE Min(at)
    BY DEF Find
  <1>2. ASSUME NEW i \in p..(Len(t) + 1), OccursAt(t, s, i) PROVE i \in at
    <2>1. i + Len(s) <= Len(t) + 1
      BY <1>2 DEF OccursAt
    <2>2. i \in p..(Len(t) - Len(s) + 1)
      BY <1>0, <2>1
    <2> QED BY <1>2, <2>2
  <1>3. \A i \in at : i \in p..(Len(t) + 1) /\ OccursAt(t, s, i)
    BY <1>0
  <1>4. at \subseteq Nat
    BY <1>0
  <1> HIDE DEF at
  <1>5. CASE at = {}
    BY <1>0, <1>1, <1>2, <1>5
  <1>6. CASE at # {}
    <2>1. Min(at) \in at /\ \A m \in at : Min(at) <= m
      BY <1>4, <1>6, MinOf
    <2>2. Find(t, s, p) = Min(at)
      BY <1>1, <1>6
    <2>3. Min(at) \in p..(Len(t) + 1) /\ OccursAt(t, s, Min(at))
      BY <1>3, <2>1
    <2>4. Min(at) # 0 /\ Min(at) >= p /\ Min(at) \in 0..(Len(t) + 1)
      BY <1>0, <2>3
    <2> QED BY <1>2, <2>1, <2>2, <2>3, <2>4
  <1> QED BY <1>5, <1>6

(***************************************************************************)
(* The token Nearest picks is found, no token is found before it, and of   *)
(* those found there it is the first in the order of the table.            *)
(***************************************************************************)
Place(s, p) == Find(text, special_tokens[s][1], p)

LEMMA PlaceIs ==
  ASSUME text \in Seq(CodePoint), SpecialsOK, NEW p \in 1..(Len(text) + 1),
         NEW s \in DOMAIN special_tokens
  PROVE  /\ special_tokens[s][1] \in Seq(CodePoint) /\ special_tokens[s][2] \in Int
         /\ Place(s, p) \in 0..(Len(text) + 1)
         /\ Place(s, p) # 0 =>
              /\ Place(s, p) >= p /\ OccursAt(text, special_tokens[s][1], Place(s, p))
              /\ \A i \in p..(Len(text) + 1) :
                   OccursAt(text, special_tokens[s][1], i) => Place(s, p) <= i
         /\ Place(s, p) = 0 =>
              \A i \in p..(Len(text) + 1) : ~ OccursAt(text, special_tokens[s][1], i)
  <1>1. special_tokens[s][1] \in Seq(CodePoint) /\ special_tokens[s][2] \in Int
    BY DEF SpecialsOK, SpecialToken
  <1> DEFINE name == special_tokens[s][1]
  <1>2. Place(s, p) = Find(text, name, p)
    BY DEF Place
  <1> HIDE DEF name
  <1> QED BY <1>1, <1>2, FindIs DEF name

LEMMA NearestIs ==
  ASSUME text \in Seq(CodePoint), SpecialsOK, NEW p \in 1..(Len(text) + 1)
  PROVE  /\ Nearest(p) = 0 => \A s \in DOMAIN special_tokens : Place(s, p) = 0
         /\ Nearest(p) # 0 =>
              /\ Nearest(p) \in DOMAIN special_tokens /\ Place(Nearest(p), p) # 0
              /\ \A r \in DOMAIN special_tokens :
                   Place(r, p) # 0 =>
                     \/ Place(Nearest(p), p) < Place(r, p)
                     \/ Place(Nearest(p), p) = Place(r, p) /\ Nearest(p) <= r
  <1> DEFINE found == {s \in DOMAIN special_tokens : Place(s, p) # 0}
             before(s, r) == Place(s, p) < Place(r, p) \/ (Place(s, p) = Place(r, p) /\ s <= r)
  <1>1. Nearest(p) = IF found = {} THEN 0
                     ELSE CHOOSE s \in found : \A r \in found : before(s, r)
    BY DEF Nearest, Place
  <1>2. found \subseteq Nat /\ 0 \notin found
    BY DEF SpecialsOK
  <1>3. \A s \in found : Place(s, p) \in Nat
    BY PlaceIs
  <1>4. ASSUME found # {} PROVE \E s \in found : \A r \in found : before(s, r)
    <2> DEFINE places == {Place(s, p) : s \in found}
    <2>1. PICK n \in places : \A m \in places : n <= m
      <3>1. places \subseteq Nat /\ places # {}
        BY <1>3, <1>4
      <3> HIDE DEF places
      <3> QED BY <3>1, Least
    <2> DEFINE here == {s \in found : Place(s, p) = n}
    <2>2. PICK s \in here : \A r \in here : s <= r
      <3>1. here \subseteq Nat /\ here # {}
        BY <1>2, <2>1
      <3> HIDE DEF here
      <3> QED BY <3>1, Least
    <2>3. ASSUME NEW r \in found PROVE before(s, r)
      <3>1. Place(s, p) = n /\ n \in Nat /\ Place(r, p) \in Nat /\ n <= Place(r, p)
        BY <1>3, <2>1, <2>2
      <3>2. Place(r, p) = n => s <= r
        BY <2>2
      <3> QED BY <3>1, <3>2
    <2> QED BY <2>2, <2>3
  <1>5. CASE found = {}
    <2>1. Nearest(p) = 0
      BY <1>1, <1>5
    <2> QED BY <1>5, <2>1
  <1>6. CASE found # {}
    <2> DEFINE n == CHOOSE s \in found : \A r \in found : before(s, r)
    <2>1. n \in found /\ \A r \in found : before(n, r)
      BY <1>4, <1>6, Zenon
    <2>2. Nearest(p) = n
      BY <1>1, <1>6
    <2> HIDE DEF n
    <2>3. n # 0
      BY <1>2, <2>1
    <2> QED BY <2>1, <2>2, <2>3
  <1> QED BY <1>5, <1>6

-----------------------------------------------------------------------------
(***************************************************************************)
(* The inductive invariant: a token that was found stands at pos, the      *)
(* pieces cut so far are inside of the segment and end where the regular   *)
(* expression does, and a piece is being encoded only while there is one.  *)
(***************************************************************************)
Phases == {"idle", "scan", "special", "split", "chunk", "merge", "emit", "done", "torn"}

ScanOK ==
  /\ text \in Seq(CodePoint) /\ pos \in 1..(Len(text) + 1)
  /\ match \in 0..Len(special_tokens)
  /\ phase \in {"idle", "scan", "done"} => match = 0
  /\ match # 0 => OccursAt(text, special_tokens[match][1], pos)

Offset(n) == (1..n) \X (2..(n + 1))

SplitOK ==
  /\ SegOK /\ cur \in 1..(Len(seg) + 1)
  /\ offsets \in Seq(Offset(Len(seg)))
  /\ SplitsAsRegex

ChunkOK ==
  /\ chunk \in 1..(Len(offsets) + 1)
  /\ phase \in {"merge", "emit"} => chunk <= Len(offsets)
  /\ phase \notin {"chunk", "merge", "emit", "torn"} => chunk = 1

ControlOK ==
  /\ phase \in Phases /\ calls \in 0..Len(Texts) /\ load_ok \in BOOLEAN

TokInv == ControlOK /\ SpecialsOK /\ ScanOK /\ SplitOK /\ ChunkOK

LEMMA InitTok == Init => TokInv
  <1> SUFFICES ASSUME Init PROVE TokInv
    OBVIOUS
  <1>0. Len(Texts) \in Nat
    BY TokenizerAssumption
  <1>1. ControlOK
    <2>1. load_ok \in BOOLEAN
      BY Zenon DEF Init
    <2>2. calls \in 0..Len(Texts) /\ phase \in Phases
      BY <1>0 DEF Init, Phases
    <2> QED BY <2>1, <2>2 DEF ControlOK
  <1>2. SpecialsOK
    <2>1. special_tokens = <<>> /\ DOMAIN special_tokens = {}
      BY DEF Init
    <2> QED BY <2>1 DEF SpecialsOK
  <1>3. ScanOK
    <2>1. special_tokens = <<>> /\ text = <<>> /\ pos = 1 /\ match = 0
      BY DEF Init
    <2>2. Len(special_tokens) = 0 /\ Len(text) = 0 /\ text \in Seq(CodePoint)
      BY <2>1
    <2> QED BY <2>1, <2>2 DEF ScanOK
  <1>4. SplitOK
    <2>1. seg = <<>> /\ offsets = <<>> /\ cur = 1
      BY DEF Init
    <2>2. Len(seg) = 0 /\ seg \in Seq(CodePoint)
          /\ offsets \in Seq(Offset(Len(seg))) /\ DOMAIN offsets = {}
      BY <2>1
    <2> QED BY <2>1, <2>2 DEF SplitOK, SegOK, SplitsAsRegex
  <1>5. ChunkOK
    <2>1. offsets = <<>> /\ chunk = 1 /\ phase = "idle"
      BY DEF Init
    <2>2. Len(offsets) = 0
      BY <2>1
    <2> QED BY <2>1, <2>2 DEF ChunkOK
  <1> QED BY <1>1, <1>2, <1>3, <1>4, <1>5 DEF TokInv

LEMMA SplitSame ==
  ASSUME SplitOK, UNCHANGED split
  PROVE  SplitOK'
  BY DEF split, SplitOK, SegOK, SplitsAsRegex

LEMMA SpecialsSame ==
  ASSUME SpecialsOK, UNCHANGED special_tokens
  PROVE  SpecialsOK'
  BY DEF SpecialsOK

(***************************************************************************)
(* The sort leaves the same tokens, longest first.                         *)
(***************************************************************************)
LEMMA SortedSpecials ==
  ASSUME NEW added \in Seq(SpecialToken), \A i \in DOMAIN added : added[i][1] # <<>>,
         NEW t \in SortSpecials(added)
  PROVE  /\ t \in Seq(SpecialToken) /\ \A i \in DOMAIN t : t[i][1] # <<>>
         /\ \A i, j \in DOMAIN t : i < j => Len(t[i][1]) >= Len(t[j][1])
  <1> DEFINE place == DOMAIN added
  <1>1. PICK p \in Bijection(place, place) : t = [i \in place |-> added[p[i]]]
    BY DEF SortSpecials
  <1>2. \A i, j \in place : i < j => Len(t[i][1]) >= Len(t[j][1])
    BY DEF SortSpecials
  <1>3. p \in [place -> place]
    BY <1>1 DEF Bijection, Injection
  <1>4. place = 1..Len(added) /\ Len(added) \in Nat
    OBVIOUS
  <1>5. DOMAIN t = place /\ \A i \in place : t[i] \in SpecialToken /\ t[i][1] # <<>>
    <2>1. \A i \in place : added[i] \in SpecialToken
      OBVIOUS
    <2> HIDE DEF place
    <2> QED BY <1>1, <1>3, <2>1 DEF place
  <1>6. t \in Seq(SpecialToken)
    <2>1. t = [i \in 1..Len(added) |-> t[i]]
      BY <1>1, <1>4
    <2>2. \A i \in 1..Len(added) : t[i] \in SpecialToken
      BY <1>4, <1>5
    <2> HIDE DEF place
    <2> QED BY <1>4, <2>1, <2>2
  <1> QED BY <1>2, <1>5, <1>6

LEMMA LoadTok ==
  ASSUME TokInv, calls < Len(Texts), NEW d \in Documents[calls + 1], Load(d)
  PROVE  TokInv'
  <1>0. Len(Texts) \in Nat /\ calls \in 0..Len(Texts) /\ DOMAIN Texts = 1..Len(Texts)
    BY TokenizerAssumption DEF TokInv, ControlOK
  <1>1. calls + 1 \in DOMAIN Texts /\ calls + 1 \in 0..Len(Texts)
    BY <1>0
  <1>2. d.added \in Seq(SpecialToken) /\ \A i \in DOMAIN d.added : d.added[i][1] # <<>>
    BY <1>1, TokenizerAssumption DEF SpecialToken
  <1>3. SpecialsOK'
    <2>1. special_tokens' \in SortSpecials(d.added)
      BY DEF Load
    <2> QED BY <1>2, <2>1, SortedSpecials DEF SpecialsOK
  <1>4. ControlOK'
    <2>1. phase' = "idle" /\ calls' = calls + 1 /\ load_ok' \in BOOLEAN
      BY DEF Load, LoadSucceeds
    <2> QED BY <1>1, <2>1 DEF ControlOK, Phases
  <1>5. ScanOK'
    <2>1. match = 0 /\ text \in Seq(CodePoint) /\ pos \in 1..(Len(text) + 1)
      BY DEF Load, TokInv, ScanOK
    <2>2. UNCHANGED <<text, pos, match>>
      BY DEF Load
    <2>3. Len(special_tokens') \in Nat
      BY <1>3 DEF SpecialsOK
    <2> QED BY <2>1, <2>2, <2>3 DEF ScanOK
  <1>6. SplitOK'
    BY SplitSame DEF Load, TokInv
  <1>7. ChunkOK'
    <2>1. chunk = 1 /\ phase' = "idle" /\ UNCHANGED <<chunk, offsets>> /\ chunk \in 1..(Len(offsets) + 1)
      BY DEF Load, TokInv, ChunkOK, split, merge
    <2> QED BY <2>1 DEF ChunkOK
  <1> QED BY <1>3, <1>4, <1>5, <1>6, <1>7 DEF TokInv

LEMMA LoadEmptyTok ==
  ASSUME TokInv, LoadEmptyBuffer
  PROVE  TokInv'
  <1>0. Len(Texts) \in Nat /\ calls \in 0..Len(Texts) /\ calls < Len(Texts)
    BY TokenizerAssumption DEF TokInv, ControlOK, LoadEmptyBuffer
  <1>1. calls + 1 \in 0..Len(Texts)
    BY <1>0
  <1>2. ControlOK'
    BY <1>1 DEF LoadEmptyBuffer, ControlOK, Phases
  <1>3. SpecialsOK'
    BY SpecialsSame DEF LoadEmptyBuffer, TokInv
  <1>4. ScanOK'
    <2>1. match = 0 /\ text \in Seq(CodePoint) /\ pos \in 1..(Len(text) + 1)
          /\ match \in 0..Len(special_tokens)
      BY DEF LoadEmptyBuffer, TokInv, ScanOK
    <2>2. UNCHANGED <<text, pos, match, special_tokens>>
      BY DEF LoadEmptyBuffer
    <2> QED BY <2>1, <2>2 DEF ScanOK
  <1>5. SplitOK'
    BY SplitSame DEF LoadEmptyBuffer, TokInv
  <1>6. ChunkOK'
    <2>1. chunk = 1 /\ phase' = "idle" /\ UNCHANGED <<chunk, offsets>> /\ chunk \in 1..(Len(offsets) + 1)
      BY DEF LoadEmptyBuffer, TokInv, ChunkOK, split, merge
    <2> QED BY <2>1 DEF ChunkOK
  <1> QED BY <1>2, <1>3, <1>4, <1>5, <1>6 DEF TokInv

LEMMA EncodeTok ==
  ASSUME TokInv, calls < Len(Texts), NEW t \in Texts[calls + 1], Encode(t)
  PROVE  TokInv'
  <1>0. Len(Texts) \in Nat /\ calls \in 0..Len(Texts) /\ DOMAIN Texts = 1..Len(Texts)
    BY TokenizerAssumption DEF TokInv, ControlOK
  <1>1. calls + 1 \in DOMAIN Texts /\ calls + 1 \in 0..Len(Texts)
    BY <1>0
  <1>2. t \in Seq(CodePoint)
    BY <1>1, TokenizerAssumption
  <1>3. phase' \in {"done", "scan"}
    BY DEF Encode
  <1>4. ControlOK'
    <2>1. calls' = calls + 1 /\ load_ok' = load_ok /\ load_ok \in BOOLEAN
      BY DEF Encode, tables, TokInv, ControlOK
    <2> QED BY <1>1, <1>3, <2>1 DEF ControlOK, Phases
  <1>5. SpecialsOK' /\ UNCHANGED special_tokens
    BY SpecialsSame DEF Encode, tables, TokInv
  <1>6. ScanOK'
    <2>1. text' = t /\ pos' = 1 /\ match' = 0
      BY DEF Encode
    <2>2. Len(special_tokens') \in Nat /\ Len(t) \in Nat
      BY <1>2, <1>5 DEF SpecialsOK
    <2>3. match' \in 0..Len(special_tokens') /\ pos' \in 1..(Len(text') + 1)
      BY <2>1, <2>2
    <2> QED BY <1>2, <2>1, <2>3 DEF ScanOK
  <1>7. SplitOK'
    BY SplitSame DEF Encode, TokInv
  <1>8. ChunkOK'
    <2>1. chunk = 1 /\ UNCHANGED <<chunk, offsets>> /\ chunk \in 1..(Len(offsets) + 1)
      BY DEF Encode, TokInv, ChunkOK, split, merge
    <2> QED BY <1>3, <2>1 DEF ChunkOK
  <1> QED BY <1>4, <1>5, <1>6, <1>7, <1>8 DEF TokInv

LEMMA ScanTok ==
  ASSUME TokInv, Scan
  PROVE  TokInv'
  <1>0. text \in Seq(CodePoint) /\ pos \in 1..(Len(text) + 1) /\ SpecialsOK /\ Len(text) \in Nat
    BY DEF TokInv, ScanOK
  <1>1. UNCHANGED <<special_tokens, text, calls, load_ok, chunk>>
    BY DEF Scan, tables, merge
  <1>2. phase' \in {"special", "split"}
    BY DEF Scan
  <1>3. match' = Nearest(pos) /\ pos' = IF match' = 0 THEN Len(text) + 1 ELSE Place(match', pos)
    BY DEF Scan, Place
  <1>4. /\ match' \in 0..Len(special_tokens)
        /\ pos' \in pos..(Len(text) + 1)
        /\ match' # 0 => OccursAt(text, special_tokens[match'][1], pos')
    <2>1. CASE match' = 0
      <3>1. Len(special_tokens) \in Nat
        BY <1>0 DEF SpecialsOK
      <3> QED BY <1>0, <1>3, <2>1, <3>1
    <2>2. CASE match' # 0
      <3>1. match' \in DOMAIN special_tokens /\ Place(match', pos) # 0
        BY <1>0, <1>3, <2>2, NearestIs
      <3>2. Place(match', pos) \in 0..(Len(text) + 1) /\ Place(match', pos) >= pos
            /\ OccursAt(text, special_tokens[match'][1], Place(match', pos))
        BY <1>0, <3>1, PlaceIs
      <3>3. match' \in 0..Len(special_tokens)
        BY <1>0, <3>1 DEF SpecialsOK
      <3>4. pos' = Place(match', pos)
        BY <1>3, <2>2
      <3> QED BY <1>0, <3>2, <3>3, <3>4
    <2> QED BY <2>1, <2>2
  <1>5. ControlOK'
    BY <1>1, <1>2 DEF TokInv, ControlOK, Phases
  <1>6. SpecialsOK'
    BY <1>0, <1>1, SpecialsSame
  <1>7. ScanOK'
    <2>1. pos' \in 1..(Len(text) + 1)
      BY <1>0, <1>4
    <2> QED BY <1>0, <1>1, <1>2, <1>4, <2>1 DEF ScanOK
  <1>8. SplitOK'
    <2>1. seg' = SubSeq(text, pos, pos' - 1) /\ cur' = 1 /\ offsets' = <<>>
      BY DEF Scan
    <2>2. seg' \in Seq(CodePoint)
      BY <1>0, <1>4, <2>1, PartIs
    <2>3. Len(seg') \in Nat /\ offsets' \in Seq(Offset(Len(seg'))) /\ DOMAIN offsets' = {}
      BY <2>1, <2>2
    <2>4. cur' \in 1..(Len(seg') + 1)
      <3>1. Len(seg') \in Nat /\ cur' = 1
        BY <2>1, <2>2
      <3> QED BY <3>1
    <2> QED BY <2>2, <2>3, <2>4 DEF SplitOK, SegOK, SplitsAsRegex
  <1>9. ChunkOK'
    <2>1. offsets' = <<>> /\ chunk' = 1
      BY <1>1 DEF Scan, TokInv, ChunkOK
    <2>2. Len(offsets') = 0
      BY <2>1
    <2> QED BY <1>2, <2>1, <2>2 DEF ChunkOK
  <1> QED BY <1>5, <1>6, <1>7, <1>8, <1>9 DEF TokInv

LEMMA PushSpecialTok ==
  ASSUME TokInv, PushSpecial
  PROVE  TokInv'
  <1>0. text \in Seq(CodePoint) /\ pos \in 1..(Len(text) + 1) /\ SpecialsOK /\ Len(text) \in Nat
        /\ match \in 0..Len(special_tokens)
    BY DEF TokInv, ScanOK
  <1>1. UNCHANGED <<special_tokens, text, calls, load_ok, chunk, offsets>>
        /\ phase' = "scan" /\ match' = 0
    BY DEF PushSpecial, tables, merge, split
  <1>2. pos' \in 1..(Len(text) + 1)
    <2>1. CASE match = 0
      BY <1>0, <2>1 DEF PushSpecial
    <2>2. CASE match # 0
      <3> DEFINE name == special_tokens[match][1]
      <3>1. OccursAt(text, name, pos)
        BY <2>2 DEF TokInv, ScanOK
      <3>2. match \in DOMAIN special_tokens
        BY <1>0, <2>2 DEF SpecialsOK
      <3>3. name \in Seq(CodePoint)
        BY <1>0, <3>2 DEF SpecialsOK, SpecialToken
      <3>4. pos' = pos + Len(name)
        BY <2>2 DEF PushSpecial
      <3> HIDE DEF name
      <3>5. pos + Len(name) <= Len(text) + 1 /\ Len(name) \in Nat
        BY <3>1, <3>3 DEF OccursAt
      <3> QED BY <1>0, <3>4, <3>5
    <2> QED BY <2>1, <2>2
  <1>3. ControlOK'
    BY <1>1 DEF TokInv, ControlOK, Phases
  <1>4. SpecialsOK' /\ Len(special_tokens') \in Nat
    BY <1>0, <1>1, SpecialsSame DEF SpecialsOK
  <1>5. ScanOK'
    <2>1. match' \in 0..Len(special_tokens')
      BY <1>1, <1>4
    <2> QED BY <1>0, <1>1, <1>2, <2>1 DEF ScanOK
  <1>6. SplitOK'
    BY SplitSame DEF PushSpecial, TokInv
  <1>7. ChunkOK'
    <2>1. chunk = 1 /\ chunk \in 1..(Len(offsets) + 1)
      BY DEF PushSpecial, TokInv, ChunkOK
    <2> QED BY <1>1, <2>1 DEF ChunkOK
  <1> QED BY <1>3, <1>4, <1>5, <1>6, <1>7 DEF TokInv

LEMMA FinishTok ==
  ASSUME TokInv, Finish
  PROVE  TokInv'
  <1>1. UNCHANGED <<special_tokens, text, pos, match, calls, load_ok, chunk, offsets>>
        /\ phase = "scan" /\ phase' = "done"
    BY DEF Finish, tables, outer, merge, split
  <1>2. ControlOK'
    BY <1>1 DEF TokInv, ControlOK, Phases
  <1>3. SpecialsOK'
    BY <1>1, SpecialsSame DEF TokInv
  <1>4. ScanOK'
    BY <1>1 DEF TokInv, ScanOK
  <1>5. SplitOK'
    BY SplitSame DEF Finish, TokInv
  <1>6. ChunkOK'
    BY <1>1 DEF TokInv, ChunkOK
  <1> QED BY <1>2, <1>3, <1>4, <1>5, <1>6 DEF TokInv

(***************************************************************************)
(* One piece more keeps the pieces on the cuts of the regular expression.  *)
(***************************************************************************)
LEMMA AddTokenTok ==
  ASSUME TokInv, phase = "split", cur \in 1..Len(seg), NEW e, Cuts(cur, e), AddToken(e)
  PROVE  TokInv'
  <1>0. SegOK /\ Len(seg) \in Nat /\ cur \in Int /\ offsets \in Seq(Offset(Len(seg)))
    BY DEF TokInv, SplitOK, SegOK
  <1>1. UNCHANGED <<special_tokens, text, pos, match, calls, load_ok, chunk, seg, phase>>
        /\ cur' = e
    BY DEF AddToken, tables, outer, merge
  <1>2. e \in (cur + 1)..(Len(seg) + 1)
    BY DEF Cuts
  <1>3. offsets' = Append(offsets, <<cur, e>>)
    <2>1. e > cur
      BY <1>0, <1>2
    <2> QED BY <2>1 DEF AddToken
  <1>4. <<cur, e>> \in Offset(Len(seg))
    <2>1. e \in 2..(Len(seg) + 1)
      BY <1>0, <1>2
    <2> QED BY <2>1 DEF Offset
  <1>5. /\ offsets' \in Seq(Offset(Len(seg)))
        /\ Len(offsets') = Len(offsets) + 1
        /\ \A k \in 1..Len(offsets) : offsets'[k] = offsets[k]
        /\ offsets'[Len(offsets) + 1] = <<cur, e>>
    BY <1>0, <1>3, <1>4
  <1>6. ControlOK'
    BY <1>1 DEF TokInv, ControlOK, Phases
  <1>7. SpecialsOK'
    BY <1>1, SpecialsSame DEF TokInv
  <1>8. ScanOK'
    BY <1>1 DEF TokInv, ScanOK
  <1>9. SplitOK'
    <2>1. seg' \in Seq(CodePoint) /\ offsets' \in Seq(Offset(Len(seg')))
      BY <1>0, <1>1, <1>5 DEF SegOK
    <2>2. cur' \in 1..(Len(seg') + 1)
      BY <1>0, <1>1, <1>2
    <2>3. SplitsAsRegex'
      <3>2. SplitsAsRegex /\ RegexEnd(seg, cur) = e
        BY DEF TokInv, SplitOK, Cuts
      <3>3. ASSUME NEW k \in DOMAIN offsets'
            PROVE  offsets'[k][2] = RegexEnd(seg, offsets'[k][1])
        <4>1. Len(offsets) \in Nat /\ DOMAIN offsets = 1..Len(offsets)
          BY <1>0
        <4>2. k \in 1..Len(offsets) \/ k = Len(offsets) + 1
          BY <1>5, <4>1
        <4>3. CASE k \in 1..Len(offsets)
          BY <1>5, <3>2, <4>1, <4>3 DEF SplitsAsRegex
        <4>4. CASE k = Len(offsets) + 1
          <5>1. offsets'[k] = <<cur, e>>
            BY <1>5, <4>4
          <5> QED BY <3>2, <5>1
        <4> QED BY <4>2, <4>3, <4>4
      <3> QED BY <1>1, <3>3 DEF SplitsAsRegex
    <2> QED BY <2>1, <2>2, <2>3 DEF SplitOK, SegOK
  <1>10. ChunkOK'
    <2>1. chunk = 1 /\ Len(offsets) \in Nat
      BY <1>0 DEF TokInv, ChunkOK
    <2> QED BY <1>1, <1>5, <2>1 DEF ChunkOK
  <1> QED BY <1>6, <1>7, <1>8, <1>9, <1>10 DEF TokInv

\* Each branch of the splitter but the last adds a token that ends behind the cursor,
\* where the regular expression's does.
AddsToken(e) == cur \in 1..Len(seg) /\ phase = "split" /\ Cuts(cur, e) /\ AddToken(e)

LEMMA SplitAdvances ==
  ASSUME TokInv, Split
  PROVE  SplitDone \/ \E e : AddsToken(e)
  <1>0. SegOK /\ Len(seg) \in Nat /\ cur \in 1..(Len(seg) + 1)
    BY DEF TokInv, SplitOK, SegOK
  <1>1. Splitting => cur \in 1..Len(seg) /\ phase = "split"
    BY <1>0 DEF Splitting
  <1>2. CASE SplitContraction
    <2>1. cur \in 1..Len(seg) /\ phase = "split" /\ Contraction(cur) > 0
          /\ AddToken(cur + Contraction(cur))
      BY <1>1, <1>2 DEF SplitContraction
    <2>2. Cuts(cur, cur + Contraction(cur))
      BY <1>0, <2>1, CutContraction
    <2> QED BY <2>1, <2>2 DEF AddsToken
  <1>3. CASE SplitWord
    <2>1. cur \in 1..Len(seg) /\ phase = "split" /\ Contraction(cur) = 0 /\ WordAt(cur)
          /\ AddToken(RunEnd(cur + 1, LetterMark))
      BY <1>1, <1>3 DEF SplitWord
    <2>2. Cuts(cur, RunEnd(cur + 1, LetterMark))
      BY <1>0, <2>1, CutWord
    <2> QED BY <2>1, <2>2 DEF AddsToken
  <1>4. CASE SplitNumber
    <2>1. cur \in 1..Len(seg) /\ phase = "split" /\ Contraction(cur) = 0
          /\ ~ WordAt(cur) /\ NumberAt(cur) /\ AddToken(cur + 1)
      BY <1>1, <1>4 DEF SplitNumber
    <2>2. Cuts(cur, cur + 1)
      BY <1>0, <2>1, CutNumber
    <2> QED BY <2>1, <2>2 DEF AddsToken
  <1>5. BeforeSymbols =>
          /\ cur \in 1..Len(seg) /\ phase = "split" /\ Ends1To(4, cur)
          /\ ~ WordAt(cur) /\ ~ NumberAt(cur)
    BY <1>0, <1>1, NoneBeforeSymbols DEF BeforeSymbols
  <1>6. CASE SplitSymbols
    <2>1. BeforeSymbols /\ SymbolsAt(cur) /\ AddToken(SymbolsEnd(cur))
      BY <1>6 DEF SplitSymbols, SymbolsEnd, FirstSymbol, IsBlank
    <2>2. Cuts(cur, SymbolsEnd(cur))
      BY <1>0, <1>5, <2>1, CutSymbols
    <2> QED BY <1>5, <2>1, <2>2 DEF AddsToken
  <1>7. InSpaces =>
          /\ cur \in 1..Len(seg) /\ phase = "split" /\ Ends1To(5, cur)
          /\ ~ WordAt(cur) /\ ~ NumberAt(cur) /\ ~ SymbolsAt(cur)
    BY <1>0, <1>5, SymbolsFirst DEF InSpaces
  <1>8. CASE SplitNewLines
    <2>1. InSpaces /\ LastNewLine(cur) > 0 /\ AddToken(LastNewLine(cur) + 1)
      BY <1>8 DEF SplitNewLines
    <2>2. Cuts(cur, LastNewLine(cur) + 1)
      BY <1>0, <1>7, <2>1, CutNewLines
    <2> QED BY <1>7, <2>1, <2>2 DEF AddsToken
  <1>9. CASE SplitSpacesBefore
    <2>1. InSpaces /\ LastNewLine(cur) = 0 /\ AddToken(SpacesEnd(cur) - 1)
          /\ SpacesEnd(cur) > cur + 1 /\ SpacesEnd(cur) <= Len(seg)
      BY <1>9 DEF SplitSpacesBefore
    <2>2. Cuts(cur, SpacesEnd(cur) - 1)
      BY <1>0, <1>7, <2>1, CutSpacesBefore
    <2> QED BY <1>7, <2>1, <2>2 DEF AddsToken
  <1>10. CASE SplitSpaces
    <2>1. InSpaces /\ LastNewLine(cur) = 0 /\ AddToken(SpacesEnd(cur))
          /\ SpacesEnd(cur) > cur
          /\ ~ (SpacesEnd(cur) > cur + 1 /\ SpacesEnd(cur) <= Len(seg))
      BY <1>10 DEF SplitSpaces
    <2>2. Cuts(cur, SpacesEnd(cur))
      BY <1>0, <1>7, <2>1, CutSpaces
    <2> QED BY <1>7, <2>1, <2>2 DEF AddsToken
  <1>11. CASE SplitOther
    <2>1. InSpaces /\ SpacesEnd(cur) = cur /\ AddToken(cur + 1)
      BY <1>11 DEF SplitOther
    <2>2. Cuts(cur, cur + 1)
      BY <1>0, <1>7, <2>1, CutOther
    <2> QED BY <1>7, <2>1, <2>2 DEF AddsToken
  <1> QED BY <1>2, <1>3, <1>4, <1>6, <1>8, <1>9, <1>10, <1>11 DEF Split

LEMMA SplitTok ==
  ASSUME TokInv, Split
  PROVE  TokInv'
  <1>1. CASE \E e : AddsToken(e)
    BY <1>1, AddTokenTok DEF AddsToken
  <1>2. CASE SplitDone
    <2>1. UNCHANGED <<special_tokens, text, pos, match, calls, load_ok, offsets>>
          /\ phase = "split" /\ phase' = "chunk" /\ chunk' = 1
      BY <1>2 DEF SplitDone, tables, outer, split
    <2>2. ControlOK'
      BY <2>1 DEF TokInv, ControlOK, Phases
    <2>3. SpecialsOK'
      BY <2>1, SpecialsSame DEF TokInv
    <2>4. ScanOK'
      BY <2>1 DEF TokInv, ScanOK
    <2>5. SplitOK'
      BY <1>2, SplitSame DEF SplitDone, TokInv
    <2>6. ChunkOK'
      <3>1. Len(offsets) \in Nat
        BY DEF TokInv, SplitOK
      <3> QED BY <2>1, <3>1 DEF ChunkOK
    <2> QED BY <2>2, <2>3, <2>4, <2>5, <2>6 DEF TokInv
  <1> QED BY <1>1, <1>2, SplitAdvances

LEMMA MergingTok ==
  ASSUME TokInv, NextChunk \/ MergeStep \/ MergeEnd \/ Emit
  PROVE  TokInv'
  <1>0. phase \in {"chunk", "merge", "emit"} /\ phase' \in {"chunk", "merge", "emit"}
    BY DEF NextChunk, MergeStep, MergeEnd, Emit
  <1>1. UNCHANGED <<special_tokens, text, pos, match, calls, load_ok, offsets>> /\ UNCHANGED split
    BY DEF NextChunk, MergeStep, MergeEnd, Emit, tables, outer, split
  <1>2. ControlOK'
    BY <1>0, <1>1 DEF TokInv, ControlOK, Phases
  <1>3. SpecialsOK'
    BY <1>1, SpecialsSame DEF TokInv
  <1>4. ScanOK'
    BY <1>0, <1>1 DEF TokInv, ScanOK
  <1>5. SplitOK'
    BY <1>1, SplitSame DEF TokInv
  <1>6. Len(offsets) \in Nat /\ chunk \in 1..(Len(offsets) + 1)
    BY DEF TokInv, SplitOK, ChunkOK
  <1>7. CASE NextChunk
    <2>1. chunk <= Len(offsets) /\ chunk' = chunk
      BY <1>7 DEF NextChunk
    <2> QED BY <1>0, <1>1, <1>2, <1>3, <1>4, <1>5, <1>6, <2>1 DEF TokInv, ChunkOK
  <1>8. CASE MergeStep \/ MergeEnd
    <2>1. phase = "merge" /\ chunk' = chunk
      BY <1>8 DEF MergeStep, MergeEnd, merge
    <2>2. chunk <= Len(offsets)
      BY <2>1 DEF TokInv, ChunkOK
    <2> QED BY <1>0, <1>1, <1>2, <1>3, <1>4, <1>5, <1>6, <2>1, <2>2 DEF TokInv, ChunkOK
  <1>9. CASE Emit
    <2>1. phase = "emit" /\ phase' = "chunk" /\ chunk' = chunk + 1
      BY <1>9 DEF Emit
    <2>2. chunk <= Len(offsets)
      BY <2>1 DEF TokInv, ChunkOK
    <2>3. chunk' \in 1..(Len(offsets') + 1)
      BY <1>1, <1>6, <2>1, <2>2
    <2> QED BY <1>2, <1>3, <1>4, <1>5, <2>1, <2>3 DEF TokInv, ChunkOK
  <1> QED BY <1>7, <1>8, <1>9

LEMMA ChunksDoneTok ==
  ASSUME TokInv, ChunksDone
  PROVE  TokInv'
  <1>1. UNCHANGED <<special_tokens, text, pos, match, calls, load_ok>>
        /\ phase = "chunk" /\ phase' = "special"
        /\ seg' = <<>> /\ cur' = 1 /\ offsets' = <<>> /\ chunk' = 1
    BY DEF ChunksDone, tables, outer
  <1>2. ControlOK'
    BY <1>1 DEF TokInv, ControlOK, Phases
  <1>3. SpecialsOK'
    BY <1>1, SpecialsSame DEF TokInv
  <1>4. ScanOK'
    BY <1>1 DEF TokInv, ScanOK
  <1>5. SplitOK'
    <2>1. Len(seg') = 0 /\ seg' \in Seq(CodePoint)
          /\ offsets' \in Seq(Offset(Len(seg'))) /\ DOMAIN offsets' = {}
      BY <1>1
    <2> QED BY <1>1, <2>1 DEF SplitOK, SegOK, SplitsAsRegex
  <1>6. ChunkOK'
    <2>1. Len(offsets') = 0
      BY <1>1
    <2> QED BY <1>1, <2>1 DEF ChunkOK
  <1> QED BY <1>2, <1>3, <1>4, <1>5, <1>6 DEF TokInv

\* A step of another thread leaves everything of encode() alone but the cache, and the
\* phase unless two accesses race.
LEMMA OtherStepIs ==
  ASSUME OtherStep
  PROVE  /\ UNCHANGED <<vocab, id_to_token, bpe_ranks, special_tokens, load_ok>>
         /\ UNCHANGED <<calls, text, pos, match, tokens, seg, cur, offsets, chunk, piece, word>>
         /\ phase' = phase \/ phase' = "torn"
         /\ \/ UNCHANGED bpe_cache
            \/ \E t \in Others :
                 /\ other[t] # <<>> /\ Pairs(other[t][2]) = {}
                 /\ bpe_cache' = [p \in DOMAIN bpe_cache \cup {other[t][1]} |->
                                    IF p = other[t][1] THEN other[t][2] ELSE bpe_cache[p]]
  <1>1. CASE \E t \in Others : \E p \in OtherPieces[calls] : OtherLookup(t, p)
    BY <1>1 DEF OtherLookup, tables, outer, split, merge
  <1>2. CASE \E t \in Others : OtherMerge(t)
    BY <1>2 DEF OtherMerge, tables, outer, split, merge
  <1>3. CASE \E t \in Others : OtherInsert(t)
    <2>1. PICK t \in Others : OtherInsert(t)
      BY <1>3
    <2>2. /\ other[t] # <<>> /\ Pairs(other[t][2]) = {}
          /\ bpe_cache' = [p \in DOMAIN bpe_cache \cup {other[t][1]} |->
                             IF p = other[t][1] THEN other[t][2] ELSE bpe_cache[p]]
      BY <2>1, Zenon DEF OtherInsert
    <2>3. UNCHANGED <<tables, phase, outer, split, merge>>
      BY <2>1 DEF OtherInsert
    <2> QED BY <2>2, <2>3, Zenon DEF tables, outer, split, merge
  <1>4. CASE Tear
    BY <1>4 DEF Tear, tables, outer, split, merge
  <1> QED BY <1>1, <1>2, <1>3, <1>4 DEF OtherStep

LEMMA NextTok ==
  ASSUME TokInv, [Next]_vars
  PROVE  TokInv'
  <1>1. CASE calls < Len(Texts) /\ \E d \in Documents[calls + 1] : Load(d)
    BY <1>1, LoadTok
  <1>2. CASE LoadEmptyBuffer
    BY <1>2, LoadEmptyTok
  <1>3. CASE calls < Len(Texts) /\ \E t \in Texts[calls + 1] : Encode(t)
    BY <1>3, EncodeTok
  <1>4. CASE Step
    BY <1>4, ScanTok, PushSpecialTok, FinishTok, SplitTok, MergingTok, ChunksDoneTok DEF Step
  <1>5. CASE UNCHANGED vars
    <2>1. UNCHANGED <<special_tokens, text, pos, match, calls, load_ok, offsets, chunk, phase>>
          /\ UNCHANGED split
      BY <1>5 DEF vars, tables, outer, split, merge
    <2>2. ControlOK' /\ ScanOK' /\ ChunkOK'
      BY <2>1 DEF TokInv, ControlOK, ScanOK, ChunkOK
    <2> QED BY <2>1, <2>2, SplitSame, SpecialsSame DEF TokInv
  <1>6. CASE OtherStep
    <2>1. /\ UNCHANGED <<special_tokens, text, pos, match, calls, load_ok, offsets, chunk>>
          /\ UNCHANGED split /\ phase' \in {phase, "torn"}
      BY <1>6, OtherStepIs DEF split
    <2>2. ControlOK' /\ ScanOK' /\ ChunkOK'
      BY <2>1 DEF TokInv, ControlOK, ScanOK, ChunkOK, Phases
    <2> QED BY <2>1, <2>2, SplitSame, SpecialsSame DEF TokInv
  <1> QED BY <1>1, <1>2, <1>3, <1>4, <1>5, <1>6 DEF Next

LEMMA TokInvariant == Spec => []TokInv
  <1>1. TokInv /\ [Next]_vars => TokInv'
    BY NextTok
  <1> QED BY InitTok, <1>1, PTL DEF Spec

(***************************************************************************)
(* The type invariant: the loop of encode() stays within the text, each    *)
(* piece within its segment, and the piece index within the pieces.        *)
(***************************************************************************)
THEOREM TokenizerTypes == Spec => []TypeOK
  <1>1. TokInv => TypeOK
    <2> SUFFICES ASSUME TokInv PROVE TypeOK
      OBVIOUS
    <2>1. \A i \in DOMAIN offsets : offsets[i] \in (1..Len(seg)) \X (2..(Len(seg) + 1))
      BY DEF TokInv, SplitOK, Offset
    <2>2. phase \in Phases /\ calls \in 0..Len(Texts) /\ load_ok \in BOOLEAN
      BY DEF TokInv, ControlOK
    <2>3. pos \in 1..(Len(text) + 1) /\ match \in 0..Len(special_tokens)
      BY DEF TokInv, ScanOK
    <2>4. cur \in 1..(Len(seg) + 1) /\ chunk \in 1..(Len(offsets) + 1)
      BY DEF TokInv, SplitOK, ChunkOK
    <2> QED BY <2>1, <2>2, <2>3, <2>4, Zenon DEF TypeOK, Phases
  <1> QED BY <1>1, TokInvariant, PTL

(***************************************************************************)
(* The hand-written branches of split_qwen35 cut where the regular         *)
(* expression of its comment does, the first alternative that matches, as  *)
(* long as it can, but for the characters of CAT_OTHER: these the fourth   *)
(* alternative is taken not to match, and one that none matches is a piece *)
(* of its own. A text without such a character is cut as quoted.           *)
(***************************************************************************)
THEOREM SplitterIsTheRegex == Spec => []SplitFollowsRegex
  <1>1. TokInv => SplitFollowsRegex
    BY DEF TokInv, SplitOK, SplitFollowsRegex
  <1> QED BY <1>1, TokInvariant, PTL

-----------------------------------------------------------------------------
(***************************************************************************)
(* Concatenation, and the concatenation of a sequence of sequences.        *)
(***************************************************************************)
LEMMA Assoc ==
  ASSUME NEW S, NEW a \in Seq(S), NEW b \in Seq(S), NEW c \in Seq(S)
  PROVE  (a \o b) \o c = a \o (b \o c)
  OBVIOUS

LEMMA ConcatType ==
  ASSUME NEW S, NEW a \in Seq(S), NEW b \in Seq(S)
  PROVE  a \o b \in Seq(S) /\ Len(a \o b) = Len(a) + Len(b)
  OBVIOUS

LEMMA ConcatEmpty ==
  ASSUME NEW S, NEW a \in Seq(S)
  PROVE  a \o <<>> = a /\ <<>> \o a = a
  OBVIOUS

LEMMA AppendIs ==
  ASSUME NEW S, NEW a \in Seq(S), NEW x \in S
  PROVE  /\ Append(a, x) \in Seq(S) /\ Append(a, x) = a \o <<x>> /\ <<x>> \in Seq(S)
         /\ Len(Append(a, x)) = Len(a) + 1 /\ Append(a, x)[Len(a) + 1] = x
         /\ \A i \in 1..Len(a) : Append(a, x)[i] = a[i]
  OBVIOUS

LEMMA ConcatAppend ==
  ASSUME NEW S, NEW a \in Seq(S), NEW b \in Seq(S), NEW x \in S
  PROVE  a \o Append(b, x) = Append(a \o b, x)
  OBVIOUS

Flattens(f, s, n) ==
  f = [i \in 1..n |-> IF i = 1 THEN s[i] ELSE f[i - 1] \o s[i]]

\* A function that obeys the recursion exists: the one for n sequences is extended
\* to n + 1, and the least n without one would be such an extension.
LEMMA FlattenExists ==
  ASSUME NEW S, NEW s, NEW n \in Nat, \A i \in 1..n : s[i] \in Seq(S)
  PROVE  \E f : Flattens(f, s, n)
  <1> DEFINE Q(k, f) == Flattens(f, s, k)
             bad == {k \in 0..n : ~\E f : Q(k, f)}
  <1>1. Q(0, [i \in 1..0 |-> <<>>])
    BY DEF Flattens
  <1>2. ASSUME NEW k \in 0..(n - 1), NEW f, Q(k, f)
        PROVE  \E g : Q(k + 1, g)
    <2> DEFINE g == [i \in 1..(k + 1) |-> IF i = 1 THEN s[i] ELSE f[i - 1] \o s[i]]
    <2>1. f = [i \in 1..k |-> IF i = 1 THEN s[i] ELSE f[i - 1] \o s[i]]
      BY <1>2 DEF Flattens
    <2>2. ASSUME NEW i \in 1..k PROVE g[i] = f[i]
      <3>1. i \in 1..(k + 1)
        OBVIOUS
      <3>2. g[i] = IF i = 1 THEN s[i] ELSE f[i - 1] \o s[i]
        BY <3>1
      <3>3. f[i] = IF i = 1 THEN s[i] ELSE f[i - 1] \o s[i]
        BY <2>1, Zenon
      <3> QED BY <3>2, <3>3
    <2>3. g = [i \in 1..(k + 1) |-> IF i = 1 THEN s[i] ELSE g[i - 1] \o s[i]]
      <3> DEFINE h == [i \in 1..(k + 1) |-> IF i = 1 THEN s[i] ELSE g[i - 1] \o s[i]]
      <3>1. ASSUME NEW i \in 1..(k + 1) PROVE g[i] = h[i]
        <4>1. CASE i = 1
          BY <4>1
        <4>2. CASE i # 1
          <5>1. i - 1 \in 1..k
            BY <4>2
          <5>2. g[i - 1] = f[i - 1]
            BY <2>2, <5>1
          <5>3. g[i] = f[i - 1] \o s[i]
            BY <4>2
          <5> HIDE DEF g
          <5>4. h[i] = g[i - 1] \o s[i]
            BY <4>2
          <5> QED BY <5>2, <5>3, <5>4
        <4> QED BY <4>1, <4>2
      <3>2. DOMAIN g = 1..(k + 1) /\ g = [i \in DOMAIN g |-> g[i]]
        OBVIOUS
      <3>3. DOMAIN h = 1..(k + 1) /\ h = [i \in DOMAIN h |-> h[i]]
        OBVIOUS
      <3>4. g = h
        <4> HIDE DEF g, h
        <4> QED BY <3>1, <3>2, <3>3
      <3> QED BY <3>4
    <2> HIDE DEF g
    <2> QED BY <2>3 DEF Flattens
  <1>3. bad = {}
    <2> SUFFICES ASSUME bad # {} PROVE FALSE
      OBVIOUS
    <2>1. PICK k \in bad : \A m \in bad : k <= m
      <3>1. bad \subseteq Nat
        OBVIOUS
      <3> HIDE DEF bad
      <3> QED BY <3>1, Least
    <2>2. k # 0
      BY <1>1, <2>1
    <2>3. k - 1 \in 0..(n - 1) /\ (k - 1) + 1 = k
      BY <2>1, <2>2
    <2>4. k - 1 \notin bad
      <3>1. k \in Int
        BY <2>1
      <3>2. k - 1 < k
        BY <3>1
      <3> HIDE DEF bad
      <3> QED BY <2>1, <3>1, <3>2
    <2>5. PICK f : Q(k - 1, f)
      BY <2>3, <2>4
    <2> HIDE DEF Q
    <2>6. \E g : Q((k - 1) + 1, g)
      BY <1>2, <2>3, <2>5
    <2> QED BY <2>1, <2>3, <2>6
  <1>4. n \notin bad /\ n \in 0..n
    BY <1>3
  <1> QED BY <1>4

\* Its values are sequences over the same set.
LEMMA FlattensType ==
  ASSUME NEW S, NEW s, NEW n \in Nat, \A i \in 1..n : s[i] \in Seq(S),
         NEW f, Flattens(f, s, n)
  PROVE  \A k \in 1..n : f[k] \in Seq(S)
  <1> DEFINE bad == {k \in 1..n : f[k] \notin Seq(S)}
  <1>0. ASSUME NEW i \in 1..n
        PROVE  f[i] = IF i = 1 THEN s[i] ELSE f[i - 1] \o s[i]
    BY Zenon DEF Flattens
  <1> SUFFICES ASSUME bad # {} PROVE FALSE
    OBVIOUS
  <1>1. PICK k \in bad : \A m \in bad : k <= m
    <2>1. bad \subseteq Nat
      OBVIOUS
    <2> HIDE DEF bad
    <2> QED BY <2>1, Least
  <1>2. CASE k = 1
    BY <1>0, <1>1, <1>2
  <1>3. CASE k # 1
    <2>1. k \in 1..n /\ k - 1 \in 1..n /\ k - 1 < k
      BY <1>1, <1>3
    <2>2. f[k - 1] \in Seq(S) /\ s[k] \in Seq(S)
      BY <1>1, <2>1
    <2>3. f[k] = f[k - 1] \o s[k]
      BY <1>0, <1>3, <2>1
    <2>4. f[k - 1] \o s[k] \in Seq(S)
      BY <2>2
    <2>5. f[k] \notin Seq(S)
      BY <1>1
    <2> QED BY <2>3, <2>4, <2>5, Zenon
  <1> QED BY <1>2, <1>3

LEMMA FlattenIs ==
  ASSUME NEW S, NEW s \in Seq(Seq(S))
  PROVE  \E f : Flattens(f, s, Len(s)) /\ FlattenSeq(s) = IF Len(s) = 0 THEN <<>> ELSE f[Len(s)]
  <1>1. \E f : Flattens(f, s, Len(s))
    <2>1. Len(s) \in Nat /\ \A i \in 1..Len(s) : s[i] \in Seq(S)
      OBVIOUS
    <2> QED BY <2>1, FlattenExists
  <1> DEFINE g == CHOOSE f : Flattens(f, s, Len(s))
  <1>2. Flattens(g, s, Len(s))
    BY <1>1, Zenon
  <1>3. FlattenSeq(s) = IF Len(s) = 0 THEN s ELSE g[Len(s)]
    BY Zenon DEF FlattenSeq, Flattens
  <1>4. Len(s) = 0 => s = <<>>
    OBVIOUS
  <1> HIDE DEF g
  <1> QED BY <1>2, <1>3, <1>4

LEMMA FlattenType ==
  ASSUME NEW S, NEW s \in Seq(Seq(S))
  PROVE  FlattenSeq(s) \in Seq(S)
  <1>1. PICK f : Flattens(f, s, Len(s)) /\ FlattenSeq(s) = IF Len(s) = 0 THEN <<>> ELSE f[Len(s)]
    BY FlattenIs
  <1>2. Len(s) \in Nat /\ \A i \in 1..Len(s) : s[i] \in Seq(S)
    OBVIOUS
  <1>3. \A k \in 1..Len(s) : f[k] \in Seq(S)
    BY <1>1, <1>2, FlattensType
  <1> QED BY <1>1, <1>2, <1>3

-----------------------------------------------------------------------------
(***************************************************************************)
(* Scans from left to right: ScanFrom obeys its recursion.                 *)
(***************************************************************************)
\* f obeys the recursion of a scan on the places m .. n + 1.
Scans(f, m, n, made, next) ==
  f = [i \in m..(n + 1) |-> IF i > n THEN <<>> ELSE made[i] \o f[next[i]]]

Forward(n, next) == \A i \in 1..n : next[i] \in (i + 1)..(n + 1)

IsScan(f, n, made, next) ==
  f[n + 1] = <<>> /\ \A i \in 1..n : f[i] = made[i] \o f[next[i]]

LEMMA ScanExists ==
  ASSUME NEW n \in Nat, NEW made, NEW next, Forward(n, next)
  PROVE  \E f : Scans(f, 1, n, made, next)
  <1> DEFINE Q(m, f) == Scans(f, m, n, made, next)
             bad == {m \in 1..(n + 1) : ~\E f : Q(m, f)}
  <1>1. Q(n + 1, [i \in (n + 1)..(n + 1) |-> <<>>])
    <2> DEFINE e == [i \in (n + 1)..(n + 1) |-> <<>>]
               h == [i \in (n + 1)..(n + 1) |-> IF i > n THEN <<>> ELSE made[i] \o e[next[i]]]
    <2>1. \A i \in (n + 1)..(n + 1) : i > n
      OBVIOUS
    <2>2. e = h
      BY <2>1, Zenon
    <2> QED BY <2>2 DEF Scans
  <1>2. ASSUME NEW m \in 1..n, NEW f, Q(m + 1, f)
        PROVE  \E g : Q(m, g)
    <2> DEFINE g == [i \in m..(n + 1) |-> IF i > n THEN <<>> ELSE made[i] \o f[next[i]]]
    <2>1. f = [i \in (m + 1)..(n + 1) |-> IF i > n THEN <<>> ELSE made[i] \o f[next[i]]]
      BY <1>2 DEF Scans
    <2>2. ASSUME NEW i \in (m + 1)..(n + 1) PROVE g[i] = f[i]
      <3>1. i \in m..(n + 1)
        OBVIOUS
      <3>2. g[i] = IF i > n THEN <<>> ELSE made[i] \o f[next[i]]
        BY <3>1
      <3>3. f[i] = IF i > n THEN <<>> ELSE made[i] \o f[next[i]]
        BY <2>1, Zenon
      <3> QED BY <3>2, <3>3, Zenon
    <2>3. g = [i \in m..(n + 1) |-> IF i > n THEN <<>> ELSE made[i] \o g[next[i]]]
      <3> DEFINE h == [i \in m..(n + 1) |-> IF i > n THEN <<>> ELSE made[i] \o g[next[i]]]
      <3>1. ASSUME NEW i \in m..(n + 1) PROVE g[i] = h[i]
        <4>1. CASE i > n
          BY <4>1
        <4>2. CASE ~ (i > n)
          <5>1. next[i] \in (m + 1)..(n + 1)
            <6>1. i \in 1..n
              BY <4>2
            <6>2. next[i] \in (i + 1)..(n + 1)
              BY <6>1 DEF Forward
            <6> QED BY <6>1, <6>2
          <5>2. g[next[i]] = f[next[i]]
            BY <2>2, <5>1, Zenon
          <5>3. g[i] = made[i] \o f[next[i]]
            BY <4>2
          <5> HIDE DEF g
          <5>4. h[i] = made[i] \o g[next[i]]
            BY <4>2
          <5> QED BY <5>2, <5>3, <5>4
        <4> QED BY <4>1, <4>2
      <3>2. DOMAIN g = m..(n + 1) /\ g = [i \in DOMAIN g |-> g[i]]
        OBVIOUS
      <3>3. DOMAIN h = m..(n + 1) /\ h = [i \in DOMAIN h |-> h[i]]
        OBVIOUS
      <3>4. g = h
        <4> HIDE DEF g, h
        <4> QED BY <3>1, <3>2, <3>3
      <3> QED BY <3>4
    <2> HIDE DEF g
    <2> QED BY <2>3 DEF Scans
  <1>3. bad = {}
    <2> SUFFICES ASSUME bad # {} PROVE FALSE
      OBVIOUS
    <2>0. n + 1 \in Nat /\ bad \subseteq 0..(n + 1)
      OBVIOUS
    <2>1. PICK k \in bad : \A m \in bad : m <= k
      <3> HIDE DEF bad
      <3>1. PICK b \in Nat : b = n + 1
        BY <2>0
      <3>2. bad \subseteq 0..b
        BY <2>0, <3>1
      <3>3. Max(bad) \in bad /\ \A m \in bad : m <= Max(bad)
        BY <3>2, MaxOf
      <3> QED BY <3>3
    <2>2. k # n + 1
      <3>1. \E f : Q(n + 1, f)
        BY <1>1, Zenon
      <3> HIDE DEF Q
      <3> QED BY <2>1, <3>1
    <2>3. k \in 1..n /\ k + 1 \in 1..(n + 1)
      BY <2>1, <2>2
    <2>4. k + 1 \notin bad
      <3>1. k \in Int
        BY <2>1
      <3>2. ~ (k + 1 <= k)
        BY <3>1
      <3> HIDE DEF bad
      <3> QED BY <2>1, <3>1, <3>2
    <2>5. PICK f : Q(k + 1, f)
      BY <2>3, <2>4
    <2> HIDE DEF Q
    <2>6. \E g : Q(k, g)
      BY <1>2, <2>3, <2>5
    <2> QED BY <2>1, <2>6
  <1>4. 1 \notin bad /\ 1 \in 1..(n + 1)
    BY <1>3
  <1> QED BY <1>4

\* A scan yields nothing past the end, and before it what is made at a place and then
\* what the scan yields from the next one.
LEMMA ScanFromIs ==
  ASSUME NEW n \in Nat, NEW made, NEW next, Forward(n, next)
  PROVE  IsScan(ScanFrom(n, made, next), n, made, next)
  <1> DEFINE g == CHOOSE f : Scans(f, 1, n, made, next)
  <1>1. Scans(g, 1, n, made, next)
    BY ScanExists, Zenon
  <1>2. ScanFrom(n, made, next) = g
    BY Zenon DEF ScanFrom, Scans
  <1> HIDE DEF g
  <1>3. ASSUME NEW i \in 1..(n + 1)
        PROVE  g[i] = IF i > n THEN <<>> ELSE made[i] \o g[next[i]]
    BY <1>1, Zenon DEF Scans
  <1>4. g[n + 1] = <<>>
    BY <1>3
  <1>5. ASSUME NEW i \in 1..n PROVE g[i] = made[i] \o g[next[i]]
    <2>1. i \in 1..(n + 1) /\ ~ (i > n)
      OBVIOUS
    <2> QED BY <1>3, <2>1
  <1> QED BY <1>2, <1>4, <1>5, Zenon DEF IsScan

LEMMA ScanFromType ==
  ASSUME NEW n \in Nat, NEW S, NEW made, NEW next,
         Forward(n, next), \A i \in 1..n : made[i] \in Seq(S)
  PROVE  \A i \in 1..(n + 1) : ScanFrom(n, made, next)[i] \in Seq(S)
  <1> DEFINE g == ScanFrom(n, made, next)
             bad == {i \in 1..(n + 1) : g[i] \notin Seq(S)}
  <1>1. g[n + 1] = <<>> /\ \A i \in 1..n : g[i] = made[i] \o g[next[i]]
    <2>1. IsScan(g, n, made, next)
      BY ScanFromIs
    <2> QED BY <2>1, Zenon DEF IsScan
  <1> SUFFICES ASSUME bad # {} PROVE FALSE
    BY Zenon
  <1> HIDE DEF g
  <1>2. PICK k \in bad : \A m \in bad : m <= k
    <2>0. n + 1 \in Nat /\ bad \subseteq 0..(n + 1)
      OBVIOUS
    <2> HIDE DEF bad
    <2>1. PICK b \in Nat : b = n + 1
      BY <2>0
    <2>2. bad \subseteq 0..b
      BY <2>0, <2>1
    <2>3. Max(bad) \in bad /\ \A m \in bad : m <= Max(bad)
      BY <2>2, MaxOf
    <2> QED BY <2>3
  <1>3. k \in 1..(n + 1) /\ g[k] \notin Seq(S)
    BY <1>2
  <1>4. k # n + 1
    <2>1. <<>> \in Seq(S)
      OBVIOUS
    <2> QED BY <1>1, <1>3, <2>1, Zenon
  <1>5. k \in 1..n
    BY <1>3, <1>4
  <1>6. next[k] \in (k + 1)..(n + 1) /\ made[k] \in Seq(S) /\ g[k] = made[k] \o g[next[k]]
    BY <1>1, <1>5 DEF Forward
  <1>7. next[k] \in 1..(n + 1) /\ ~ (next[k] <= k)
    BY <1>5, <1>6
  <1>8. g[next[k]] \in Seq(S)
    BY <1>2, <1>7
  <1>9. made[k] \o g[next[k]] \in Seq(S)
    BY <1>6, <1>8
  <1> QED BY <1>3, <1>6, <1>9, Zenon

-----------------------------------------------------------------------------
(***************************************************************************)
(* Byte pair encoding. With a trained table one pass of the loop of bpe_merge, *)
(* which merges every occurrence of the best pair, is a number of steps of the *)
(* usual definition, which merges the leftmost one.                        *)
(***************************************************************************)
Piece == Seq(CodePoint) \ {<<>>}

RanksOK ==
  /\ bpe_ranks \in [DOMAIN bpe_ranks -> Nat]
  /\ \A p, q \in DOMAIN bpe_ranks : bpe_ranks[p] = bpe_ranks[q] => p = q

Low(u, p) == \A q \in Pairs(u) : bpe_ranks[p] <= bpe_ranks[q]

\* The best pair has the lowest rank, and it is the only one that has.
LEMMA BestPairIs ==
  ASSUME RanksOK, NEW w, Pairs(w) # {}
  PROVE  BestPair(w) \in Pairs(w) /\ Low(w, BestPair(w))
  <1> DEFINE ranks == {bpe_ranks[q] : q \in Pairs(w)}
  <1>0. \A q \in Pairs(w) : bpe_ranks[q] \in Nat
    BY DEF Pairs, RanksOK
  <1>1. ranks \subseteq Nat /\ ranks # {}
    BY <1>0
  <1>2. PICK r \in ranks : \A s \in ranks : r <= s
    <2> HIDE DEF ranks
    <2> QED BY <1>1, Least
  <1>3. PICK p \in Pairs(w) : r = bpe_ranks[p]
    BY <1>2
  <1>4. \A q \in Pairs(w) : bpe_ranks[p] <= bpe_ranks[q]
    BY <1>2, <1>3
  <1> QED BY <1>3, <1>4, Zenon DEF BestPair, Low

LEMMA BestPairUnique ==
  ASSUME RanksOK, NEW w, NEW p \in Pairs(w), Low(w, p)
  PROVE  BestPair(w) = p
  <1>1. BestPair(w) \in Pairs(w) /\ Low(w, BestPair(w))
    BY BestPairIs
  <1>2. Pairs(w) \subseteq DOMAIN bpe_ranks
    BY DEF Pairs
  <1>3. bpe_ranks[BestPair(w)] <= bpe_ranks[p] /\ bpe_ranks[p] <= bpe_ranks[BestPair(w)]
    BY <1>1 DEF Low
  <1>4. bpe_ranks[BestPair(w)] \in Nat /\ bpe_ranks[p] \in Nat
    BY <1>1, <1>2 DEF RanksOK
  <1>5. bpe_ranks[BestPair(w)] = bpe_ranks[p]
    BY <1>3, <1>4
  <1> QED BY <1>1, <1>2, <1>5 DEF RanksOK

LEMMA SeqEqual ==
  ASSUME NEW S, NEW s \in Seq(S), NEW t \in Seq(S), Len(s) = Len(t),
         \A i \in 1..Len(s) : s[i] = t[i]
  PROVE  s = t
  OBVIOUS

\* The word after the scan has reached i: what it made, then the rest of w.
Glue(pre, w, i) == pre \o SubSeq(w, i, Len(w))

IsGlue(u, pre, w, i) ==
  /\ Len(u) = Len(pre) + (Len(w) - i + 1)
  /\ \A k \in 1..Len(pre) : u[k] = pre[k]
  /\ \A k \in 1..(Len(w) - i + 1) : u[Len(pre) + k] = w[i + k - 1]

LEMMA GlueIs ==
  ASSUME NEW S, NEW pre \in Seq(S), NEW w \in Seq(S), NEW i \in 1..(Len(w) + 1)
  PROVE  Glue(pre, w, i) \in Seq(S) /\ IsGlue(Glue(pre, w, i), pre, w, i)
  <1>1. /\ SubSeq(w, i, Len(w)) \in Seq(S) /\ Len(SubSeq(w, i, Len(w))) = Len(w) - i + 1
        /\ \A k \in 1..(Len(w) - i + 1) : SubSeq(w, i, Len(w))[k] = w[i + k - 1]
    OBVIOUS
  <1> DEFINE t == SubSeq(w, i, Len(w))
  <1> HIDE DEF t
  <1>2. /\ t \in Seq(S) /\ Len(t) = Len(w) - i + 1
        /\ \A k \in 1..(Len(w) - i + 1) : t[k] = w[i + k - 1]
    BY <1>1 DEF t
  <1>3. /\ pre \o t \in Seq(S) /\ Len(pre \o t) = Len(pre) + Len(t)
        /\ \A k \in 1..Len(pre) : (pre \o t)[k] = pre[k]
        /\ \A k \in 1..Len(t) : (pre \o t)[Len(pre) + k] = t[k]
    BY <1>2
  <1>4. /\ pre \o t \in Seq(S) /\ Len(pre \o t) = Len(pre) + (Len(w) - i + 1)
        /\ \A k \in 1..Len(pre) : (pre \o t)[k] = pre[k]
        /\ \A k \in 1..(Len(w) - i + 1) : (pre \o t)[Len(pre) + k] = w[i + k - 1]
    BY <1>2, <1>3
  <1> QED BY <1>4 DEF t, Glue, IsGlue

\* An element that is kept moves to the front part.
LEMMA GlueKeep ==
  ASSUME NEW S, NEW pre \in Seq(S), NEW w \in Seq(S), NEW i \in 1..Len(w)
  PROVE  Glue(Append(pre, w[i]), w, i + 1) = Glue(pre, w, i)
  <1>0. Len(w) \in Nat /\ Len(pre) \in Nat /\ w[i] \in S
        /\ i \in 1..(Len(w) + 1) /\ i + 1 \in 1..(Len(w) + 1)
    OBVIOUS
  <1>1. PICK x \in S : x = w[i]
    BY <1>0
  <1> DEFINE a == Append(pre, x)
             u == Glue(pre, w, i)
             v == Glue(a, w, i + 1)
  <1>2. /\ a \in Seq(S) /\ Len(a) = Len(pre) + 1 /\ a[Len(pre) + 1] = x
        /\ \A k \in 1..Len(pre) : a[k] = pre[k]
    BY AppendIs
  <1> HIDE DEF a
  <1>3. u \in Seq(S) /\ IsGlue(u, pre, w, i)
    BY <1>0, GlueIs
  <1>4. v \in Seq(S) /\ IsGlue(v, a, w, i + 1)
    BY <1>0, <1>2, GlueIs
  <1> HIDE DEF u, v
  <1>5. Len(u) = Len(v)
    BY <1>0, <1>2, <1>3, <1>4 DEF IsGlue
  <1>6. ASSUME NEW k \in 1..Len(u) PROVE u[k] = v[k]
    <2>0. Len(u) = Len(pre) + (Len(w) - i + 1)
      BY <1>3 DEF IsGlue
    <2>1. Len(u) = Len(pre) + (Len(w) - i + 1) /\ Len(u) \in Nat /\ k \in 1..Len(u) /\ k \in Nat
      BY <1>0, <2>0
    <2>2. CASE k <= Len(pre)
      <3>1. k \in 1..Len(pre) /\ k \in 1..Len(a)
        BY <2>2, <1>0, <1>2
      <3>2. u[k] = pre[k] /\ v[k] = a[k] /\ a[k] = pre[k]
        BY <1>2, <1>3, <1>4, <3>1 DEF IsGlue
      <3> QED BY <3>2
    <2>3. CASE k = Len(pre) + 1
      <3>1. 1 \in 1..(Len(w) - i + 1) /\ k \in 1..Len(a)
        BY <2>3, <1>0, <1>2
      <3>2. u[Len(pre) + 1] = w[i + 1 - 1] /\ v[k] = a[k] /\ i + 1 - 1 = i
        BY <1>0, <1>3, <1>4, <3>1 DEF IsGlue
      <3> QED BY <1>1, <1>2, <2>3, <3>2
    <2>4. CASE k > Len(pre) + 1
      <3>0. k - Len(pre) \in Nat
        BY <2>1, <2>4, <1>0
      <3>1. PICK m \in Nat : m = k - Len(pre)
        BY <3>0
      <3>2. /\ m \in 1..(Len(w) - i + 1) /\ k = Len(pre) + m
            /\ m - 1 \in 1..(Len(w) - (i + 1) + 1) /\ k = Len(a) + (m - 1)
            /\ i + m - 1 = (i + 1) + (m - 1) - 1
        BY <2>1, <2>4, <3>1, <1>0, <1>2
      <3>3. u[k] = w[i + m - 1]
        BY <1>3, <3>2 DEF IsGlue
      <3>4. v[k] = w[(i + 1) + (m - 1) - 1]
        BY <1>4, <3>2 DEF IsGlue
      <3> QED BY <3>2, <3>3, <3>4
    <2> QED BY <2>2, <2>3, <2>4, <1>0
  <1>7. u = v
    BY <1>3, <1>4, <1>5, <1>6, SeqEqual
  <1> QED BY <1>1, <1>7 DEF u, v, a

\* Replacing the elements at k and k + 1 by one.
ReplaceTwo(u, k, x) == SubSeq(u, 1, k - 1) \o <<x>> \o SubSeq(u, k + 2, Len(u))

LEMMA GlueMerge ==
  ASSUME NEW S, NEW pre \in Seq(S), NEW w \in Seq(S), NEW i \in 1..(Len(w) - 1), NEW x \in S,
         NEW u, u = Glue(pre, w, i), NEW k, k = Len(pre) + 1
  PROVE  ReplaceTwo(u, k, x) = Glue(Append(pre, x), w, i + 2)
  <1>0. Len(w) \in Nat /\ Len(pre) \in Nat /\ i \in 1..(Len(w) + 1) /\ i + 2 \in 1..(Len(w) + 1)
    OBVIOUS
  <1>1. u \in Seq(S) /\ IsGlue(u, pre, w, i)
    BY <1>0, GlueIs
  <1>2. Len(u) = Len(pre) + (Len(w) - i + 1) /\ k - 1 = Len(pre) /\ Len(u) \in Nat
    BY <1>0, <1>1 DEF IsGlue
  <1>3. SubSeq(u, 1, Len(pre)) = pre
    <2>1. /\ SubSeq(u, 1, Len(pre)) \in Seq(S) /\ Len(SubSeq(u, 1, Len(pre))) = Len(pre)
          /\ \A j \in 1..Len(pre) : SubSeq(u, 1, Len(pre))[j] = u[j]
      BY <1>0, <1>1, <1>2
    <2>2. \A j \in 1..Len(pre) : u[j] = pre[j]
      BY <1>1 DEF IsGlue
    <2> QED BY <2>1, <2>2, SeqEqual
  <1>4. SubSeq(u, k + 2, Len(u)) = SubSeq(w, i + 2, Len(w))
    <2> DEFINE n == Len(w) - i - 1
    <2>0. n \in Nat /\ Len(u) = k + 1 + n /\ Len(w) = i + 1 + n
      BY <1>0, <1>2
    <2>1. /\ SubSeq(w, i + 2, Len(w)) \in Seq(S) /\ Len(SubSeq(w, i + 2, Len(w))) = n
          /\ \A j \in 1..n : SubSeq(w, i + 2, Len(w))[j] = w[i + 2 + j - 1]
      BY <1>0
    <2>2. /\ SubSeq(u, k + 2, Len(u)) \in Seq(S) /\ Len(SubSeq(u, k + 2, Len(u))) = n
          /\ \A j \in 1..n : SubSeq(u, k + 2, Len(u))[j] = u[k + 2 + j - 1]
      BY <1>0, <1>1, <1>2, <2>0
    <2>3. ASSUME NEW j \in 1..n PROVE u[k + 2 + j - 1] = w[i + 2 + j - 1]
      <3>1. j + 2 \in 1..(Len(w) - i + 1)
        BY <2>0, <1>0
      <3>2. u[Len(pre) + (j + 2)] = w[i + (j + 2) - 1]
        BY <1>1, <3>1 DEF IsGlue
      <3>3. k + 2 + j - 1 = Len(pre) + (j + 2) /\ i + (j + 2) - 1 = i + 2 + j - 1
        BY <1>0
      <3> QED BY <3>2, <3>3
    <2> DEFINE a == SubSeq(u, k + 2, Len(u))
               b == SubSeq(w, i + 2, Len(w))
    <2>4. a \in Seq(S) /\ b \in Seq(S) /\ Len(a) = n /\ Len(b) = n
      BY <2>1, <2>2
    <2>5. \A j \in 1..n : a[j] = b[j]
      BY <2>1, <2>2, <2>3
    <2> HIDE DEF n, a, b
    <2>6. a = b
      BY <2>4, <2>5, SeqEqual
    <2> QED BY <2>6 DEF a, b
  <1>5. pre \o <<x>> = Append(pre, x)
    BY AppendIs
  <1> QED BY <1>2, <1>3, <1>4, <1>5 DEF Glue, ReplaceTwo

\* v is u with the elements at n + 1 and n + 2 replaced by x.
Merged(v, u, n, x) ==
  /\ Len(v) = Len(u) - 1
  /\ \A k \in 1..n : v[k] = u[k]
  /\ v[n + 1] = x
  /\ \A k \in (n + 2)..Len(v) : v[k] = u[k + 1]

LEMMA GlueMerged ==
  ASSUME NEW S, NEW pre \in Seq(S), NEW w \in Seq(S), NEW i \in 1..(Len(w) - 1), NEW x \in S
  PROVE  Merged(Glue(Append(pre, x), w, i + 2), Glue(pre, w, i), Len(pre), x)
  <1>0. Len(w) \in Nat /\ Len(pre) \in Nat /\ i \in 1..(Len(w) + 1) /\ i + 2 \in 1..(Len(w) + 1)
    OBVIOUS
  <1> DEFINE a == Append(pre, x)
             u == Glue(pre, w, i)
             v == Glue(a, w, i + 2)
  <1>1. /\ a \in Seq(S) /\ Len(a) = Len(pre) + 1 /\ a[Len(pre) + 1] = x
        /\ \A k \in 1..Len(pre) : a[k] = pre[k]
    BY AppendIs
  <1> HIDE DEF a
  <1>2. u \in Seq(S) /\ IsGlue(u, pre, w, i)
    BY <1>0, GlueIs
  <1>3. v \in Seq(S) /\ IsGlue(v, a, w, i + 2)
    BY <1>0, <1>1, GlueIs
  <1> HIDE DEF u, v
  <1>4. /\ Len(u) = Len(pre) + (Len(w) - i + 1) /\ Len(v) = Len(a) + (Len(w) - (i + 2) + 1)
        /\ \A k \in 1..Len(pre) : u[k] = pre[k]
        /\ \A k \in 1..(Len(w) - i + 1) : u[Len(pre) + k] = w[i + k - 1]
        /\ \A k \in 1..Len(a) : v[k] = a[k]
        /\ \A k \in 1..(Len(w) - (i + 2) + 1) : v[Len(a) + k] = w[(i + 2) + k - 1]
    BY <1>2, <1>3, Zenon DEF IsGlue
  <1>5. Len(v) = Len(u) - 1
    <2>1. Len(a) = Len(pre) + 1
      BY <1>1
    <2>2. Len(u) = Len(pre) + (Len(w) - i + 1)
      BY <1>4
    <2>3. Len(v) = Len(a) + (Len(w) - (i + 2) + 1)
      BY <1>4
    <2>4. Len(w) \in Int /\ Len(pre) \in Int /\ i \in Int
      BY <1>0
    <2> QED BY <2>1, <2>2, <2>3, <2>4
  <1>6. ASSUME NEW k \in 1..Len(pre) PROVE v[k] = u[k]
    <2>1. k \in 1..Len(a)
      BY <1>0, <1>1
    <2> QED BY <1>1, <1>4, <2>1
  <1>7. v[Len(pre) + 1] = x
    <2>1. Len(pre) + 1 \in 1..Len(a)
      BY <1>0, <1>1
    <2> QED BY <1>1, <1>4, <2>1
  <1>8. ASSUME NEW k \in (Len(pre) + 2)..Len(v) PROVE v[k] = u[k + 1]
    <2>0. Len(v) \in Int /\ k \in Int /\ Len(pre) + 2 <= k /\ k <= Len(v)
      BY <1>0, <1>1, <1>4
    <2>1. k - Len(a) \in Nat
      BY <1>0, <1>1, <2>0
    <2>2. PICK m \in Nat : m = k - Len(a)
      BY <2>1
    <2>3. /\ m \in 1..(Len(w) - (i + 2) + 1) /\ k = Len(a) + m
          /\ m + 2 \in 1..(Len(w) - i + 1) /\ k + 1 = Len(pre) + (m + 2)
          /\ (i + 2) + m - 1 = i + (m + 2) - 1
      BY <1>0, <1>1, <1>4, <2>0, <2>2
    <2>4. v[k] = w[(i + 2) + m - 1]
      BY <1>4, <2>3
    <2>5. u[k + 1] = w[i + (m + 2) - 1]
      BY <1>4, <2>3
    <2> QED BY <2>3, <2>4, <2>5
  <1>9. Merged(v, u, Len(pre), x)
    BY <1>5, <1>6, <1>7, <1>8, Zenon DEF Merged
  <1> QED BY <1>9 DEF u, v, a

LEMMA PairsIs ==
  ASSUME NEW u, Len(u) \in Nat, NEW q
  PROVE  q \in Pairs(u) <=> q \in DOMAIN bpe_ranks /\ \E k \in 1..(Len(u) - 1) : PairAt(u, q, k)
  BY DEF Pairs, PairAt

\* A pair with the result of p in it ranks behind p: it was learned later.
LEMMA LearnedLater ==
  ASSUME RanksOK, TrainedRanks, NEW p \in DOMAIN bpe_ranks, NEW x, x = p[1] \o p[2], Len(x) # 1,
         NEW q \in DOMAIN bpe_ranks, q[1] = x \/ q[2] = x
  PROVE  bpe_ranks[p] <= bpe_ranks[q]
  <1>1. PICK s \in DOMAIN bpe_ranks : s[1] \o s[2] = x /\ bpe_ranks[s] < bpe_ranks[q]
    BY DEF TrainedRanks
  <1>2. s = p
    BY <1>1 DEF TrainedRanks
  <1>3. bpe_ranks[p] \in Nat /\ bpe_ranks[q] \in Nat
    BY DEF RanksOK
  <1> QED BY <1>1, <1>2, <1>3

\* After a merge of p no pair ranks before p.
LEMMA LowMerged ==
  ASSUME RanksOK, TrainedRanks, NEW p \in DOMAIN bpe_ranks, NEW x, x = p[1] \o p[2], Len(x) # 1,
         NEW u, NEW v, NEW n \in Nat, Merged(v, u, n, x), Len(u) \in Nat, n + 2 <= Len(u), Low(u, p)
  PROVE  Low(v, p)
  <1> SUFFICES ASSUME NEW q \in Pairs(v) PROVE bpe_ranks[p] <= bpe_ranks[q]
    BY DEF Low
  <1>0. Len(v) = Len(u) - 1 /\ Len(v) \in Nat
    BY DEF Merged
  <1>1. q \in DOMAIN bpe_ranks
    BY DEF Pairs
  <1>2. PICK k \in 1..(Len(v) - 1) : PairAt(v, q, k)
    BY <1>0, PairsIs
  <1>3. q = <<v[k], v[k + 1]>> /\ q[1] = v[k] /\ q[2] = v[k + 1]
    BY <1>2 DEF PairAt
  <1>4. ASSUME NEW j \in 1..(Len(u) - 1), u[j] = v[k], u[j + 1] = v[k + 1]
        PROVE  bpe_ranks[p] <= bpe_ranks[q]
    <2>1. PairAt(u, q, j)
      BY <1>3, <1>4 DEF PairAt
    <2>2. q \in Pairs(u)
      BY <1>1, <2>1, PairsIs
    <2> QED BY <2>2 DEF Low
  <1>5. CASE k < n
    <2>1. k \in 1..n /\ k + 1 \in 1..n /\ k \in 1..(Len(u) - 1)
      BY <1>0, <1>5
    <2>2. v[k] = u[k] /\ v[k + 1] = u[k + 1]
      BY <2>1 DEF Merged
    <2> QED BY <1>4, <2>1, <2>2
  <1>6. CASE k = n
    <2>1. q[2] = x
      BY <1>3, <1>6 DEF Merged
    <2> QED BY <1>1, <2>1, LearnedLater
  <1>7. CASE k = n + 1
    <2>1. q[1] = x
      BY <1>3, <1>7 DEF Merged
    <2> QED BY <1>1, <2>1, LearnedLater
  <1>8. CASE k > n + 1
    <2>1. /\ k \in (n + 2)..Len(v) /\ k + 1 \in (n + 2)..Len(v)
          /\ k + 1 \in 1..(Len(u) - 1)
      BY <1>0, <1>8
    <2>2. v[k] = u[k + 1] /\ v[k + 1] = u[(k + 1) + 1]
      BY <2>1 DEF Merged
    <2> QED BY <1>4, <2>1, <2>2
  <1> QED BY <1>5, <1>6, <1>7, <1>8

\* The pair p does not start in the first n elements.
Clean(u, p, n) == \A k \in 1..n : ~ PairAt(u, p, k)

\* A merge of p makes no new p.
LEMMA CleanMerged ==
  ASSUME NEW p, NEW x, x # p[1], x # p[2], NEW u, NEW v, NEW n \in Nat, Merged(v, u, n, x),
         Len(u) \in Nat, n + 2 <= Len(u), Clean(u, p, n)
  PROVE  Clean(v, p, n + 1)
  <1> SUFFICES ASSUME NEW k \in 1..(n + 1), PairAt(v, p, k) PROVE FALSE
    BY DEF Clean
  <1>0. k < Len(v) /\ <<v[k], v[k + 1]>> = p /\ p[1] = v[k] /\ p[2] = v[k + 1]
    BY DEF PairAt
  <1>1. CASE k < n
    <2>1. k \in 1..n /\ k + 1 \in 1..n /\ k < Len(u)
      BY <1>1
    <2>2. v[k] = u[k] /\ v[k + 1] = u[k + 1]
      BY <2>1 DEF Merged
    <2>3. PairAt(u, p, k)
      BY <1>0, <2>1, <2>2 DEF PairAt
    <2> QED BY <2>1, <2>3 DEF Clean
  <1>2. CASE k = n
    BY <1>0, <1>2 DEF Merged
  <1>3. CASE k = n + 1
    BY <1>0, <1>3 DEF Merged
  <1> QED BY <1>1, <1>2, <1>3

RefStep(u) == IF Pairs(u) = {} THEN u ELSE MergeFirst(u, BestPair(u))

\* The leftmost occurrence is the one behind the clean part.
LEMMA FirstOccurrence ==
  ASSUME NEW u, Len(u) \in Nat, NEW p, NEW n \in Nat, n + 2 <= Len(u), Clean(u, p, n),
         PairAt(u, p, n + 1)
  PROVE  Min({k \in 1..(Len(u) - 1) : <<u[k], u[k + 1]>> = p}) = n + 1
  <1> DEFINE T == {k \in 1..(Len(u) - 1) : <<u[k], u[k + 1]>> = p}
  <1>1. PICK m \in Nat : m = n + 1
    OBVIOUS
  <1>2. T \subseteq Nat /\ m \in T
    BY <1>1 DEF PairAt
  <1>3. ASSUME NEW k \in T PROVE m <= k
    <2>1. PairAt(u, p, k) /\ k \in Nat /\ k >= 1
      BY DEF PairAt
    <2>2. ~ (k <= n)
      BY <2>1 DEF Clean
    <2> QED BY <1>1, <2>1, <2>2
  <1> HIDE DEF T
  <1>4. Min(T) = m
    BY <1>2, <1>3, MinIs
  <1> QED BY <1>1, <1>4 DEF T

Advances(u, v, p, n) ==
  RefStep(u) = v /\ Low(v, p) /\ Clean(v, p, n + 1) /\ Len(v) = Len(u) - 1

\* One turn of the loop over the word at an occurrence of the pair is one step of the
\* usual definition.
LEMMA AdvanceMerge ==
  ASSUME RanksOK, TrainedRanks, NEW w \in Seq(Piece), NEW p \in DOMAIN bpe_ranks,
         NEW i \in 1..Len(w), PairAt(w, p, i), NEW pre \in Seq(Piece),
         Low(Glue(pre, w, i), p), Clean(Glue(pre, w, i), p, Len(pre)),
         NEW x, x = w[i] \o w[i + 1]
  PROVE  x \in Piece /\ Advances(Glue(pre, w, i), Glue(Append(pre, x), w, i + 2), p, Len(pre))
  <1> DEFINE v == Glue(Append(pre, x), w, i + 2)
  <1> HIDE DEF v
  <1>0. Len(w) \in Nat /\ Len(pre) \in Nat /\ i < Len(w) /\ i \in 1..(Len(w) - 1)
        /\ i \in 1..(Len(w) + 1)
    BY DEF PairAt
  <1>1. /\ w[i] \in Piece /\ w[i + 1] \in Piece
        /\ p[1] = w[i] /\ p[2] = w[i + 1] /\ p = <<w[i], w[i + 1]>>
    BY <1>0 DEF PairAt
  <1>2. /\ x \in Piece /\ Len(x) # 1 /\ x # p[1] /\ x # p[2]
    <2>1. PICK a \in Piece, b \in Piece : a = w[i] /\ b = w[i + 1]
      BY <1>1
    <2>2. Len(a) \in Nat /\ Len(b) \in Nat /\ Len(a) # 0 /\ Len(b) # 0
          /\ a \in Seq(CodePoint) /\ b \in Seq(CodePoint)
      BY DEF Piece
    <2>3. x = a \o b /\ x \in Seq(CodePoint) /\ Len(x) = Len(a) + Len(b)
      BY <2>1, <2>2
    <2>4. Len(x) # 1 /\ Len(x) # Len(a) /\ Len(x) # Len(b) /\ Len(x) # 0
      BY <2>2, <2>3
    <2>5. x # <<>>
      BY <2>4
    <2> QED BY <1>1, <2>1, <2>3, <2>4, <2>5 DEF Piece
  <1> DEFINE u == Glue(pre, w, i)
  <1>3. u \in Seq(Piece) /\ IsGlue(u, pre, w, i)
    BY <1>0, GlueIs
  <1>4. Merged(v, u, Len(pre), x)
    BY <1>0, <1>2, GlueMerged DEF v
  <1>5. PICK n \in Nat : n = Len(pre)
    BY <1>0
  <1> HIDE DEF u
  <1>6. Len(u) = Len(pre) + (Len(w) - i + 1) /\ Len(u) \in Nat /\ n + 2 <= Len(u)
    <2>1. Len(u) = Len(pre) + (Len(w) - i + 1)
      BY <1>3 DEF IsGlue
    <2> QED BY <1>0, <1>5, <2>1
  <1>7. PairAt(u, p, n + 1)
    <2>1. 1 \in 1..(Len(w) - i + 1) /\ 2 \in 1..(Len(w) - i + 1)
      BY <1>0
    <2>2. u[Len(pre) + 1] = w[i + 1 - 1] /\ u[Len(pre) + 2] = w[i + 2 - 1]
      BY <1>3, <2>1 DEF IsGlue
    <2>3. n + 1 < Len(u) /\ (n + 1) + 1 = Len(pre) + 2 /\ i + 1 - 1 = i /\ i + 2 - 1 = i + 1
      BY <1>0, <1>5, <1>6
    <2> QED BY <1>1, <1>5, <2>2, <2>3 DEF PairAt
  <1>8. p \in Pairs(u)
    <2>1. n + 1 \in 1..(Len(u) - 1)
      BY <1>6
    <2> QED BY <1>6, <1>7, <2>1, PairsIs
  <1>9. BestPair(u) = p
    BY <1>8, BestPairUnique DEF u
  <1>10. Clean(u, p, n)
    BY <1>5 DEF u
  <1>11. Min({k \in 1..(Len(u) - 1) : <<u[k], u[k + 1]>> = p}) = n + 1
    BY <1>6, <1>7, <1>10, FirstOccurrence
  <1>12. MergeFirst(u, p) = v
    <2> DEFINE k == Min({j \in 1..(Len(u) - 1) : <<u[j], u[j + 1]>> = p})
    <2>1. MergeFirst(u, p)
            = SubSeq(u, 1, k - 1) \o <<u[k] \o u[k + 1]>> \o SubSeq(u, k + 2, Len(u))
      BY Zenon DEF MergeFirst
    <2>2. k = Len(pre) + 1
      BY <1>5, <1>11
    <2> HIDE DEF k
    <2>3. u[k] = w[i] /\ u[k + 1] = w[i + 1]
      BY <1>1, <1>5, <1>7, <2>2 DEF PairAt
    <2>4. u[k] \o u[k + 1] = x
      BY <2>3
    <2>5. SubSeq(u, 1, k - 1) \o <<x>> \o SubSeq(u, k + 2, Len(u)) = v
      <3>1. x \in Piece
        BY <1>2
      <3>2. u = Glue(pre, w, i) /\ i \in 1..(Len(w) - 1) /\ k = Len(pre) + 1
        BY <1>0, <2>2 DEF u
      <3>3. ReplaceTwo(u, k, x) = Glue(Append(pre, x), w, i + 2)
        BY <3>1, <3>2, GlueMerge
      <3> QED BY <3>3 DEF ReplaceTwo, v
    <2> QED BY <2>1, <2>4, <2>5
  <1>13. RefStep(u) = v
    BY <1>8, <1>9, <1>12 DEF RefStep
  <1>14. Low(v, p)
    <2>1. Low(u, p) /\ Merged(v, u, n, x)
      BY <1>4, <1>5 DEF u
    <2>2. Len(x) # 1 /\ x = p[1] \o p[2]
      BY <1>1, <1>2
    <2> QED BY <1>6, <2>1, <2>2, LowMerged
  <1>15. Clean(v, p, n + 1)
    <2>1. Merged(v, u, n, x) /\ x # p[1] /\ x # p[2]
      BY <1>2, <1>4, <1>5
    <2> QED BY <1>6, <1>10, <2>1, CleanMerged
  <1>16. Len(v) = Len(u) - 1
    BY <1>4 DEF Merged
  <1>17. Advances(u, v, p, Len(pre))
    BY <1>5, <1>13, <1>14, <1>15, <1>16 DEF Advances
  <1> QED BY <1>2, <1>17 DEF u, v

\* Where the pair does not occur the clean part grows.
LEMMA AdvanceKeep ==
  ASSUME NEW w \in Seq(Piece), NEW p, NEW i \in 1..Len(w), ~ PairAt(w, p, i),
         NEW pre \in Seq(Piece), Clean(Glue(pre, w, i), p, Len(pre))
  PROVE  Clean(Glue(pre, w, i), p, Len(pre) + 1)
  <1>0. Len(w) \in Nat /\ Len(pre) \in Nat /\ i \in 1..(Len(w) + 1)
    OBVIOUS
  <1> DEFINE u == Glue(pre, w, i)
  <1>1. u \in Seq(Piece) /\ IsGlue(u, pre, w, i)
    BY <1>0, GlueIs
  <1>2. Clean(u, p, Len(pre))
    OBVIOUS
  <1> HIDE DEF u
  <1>3. Len(u) = Len(pre) + (Len(w) - i + 1)
    BY <1>1 DEF IsGlue
  <1>4. ~ PairAt(u, p, Len(pre) + 1)
    <2> SUFFICES ASSUME PairAt(u, p, Len(pre) + 1) PROVE FALSE
      OBVIOUS
    <2>1. Len(pre) + 1 < Len(u) /\ p = <<u[Len(pre) + 1], u[(Len(pre) + 1) + 1]>>
      BY DEF PairAt
    <2>2. i < Len(w) /\ 1 \in 1..(Len(w) - i + 1) /\ 2 \in 1..(Len(w) - i + 1)
      BY <1>0, <1>3, <2>1
    <2>3. u[Len(pre) + 1] = w[i + 1 - 1] /\ u[Len(pre) + 2] = w[i + 2 - 1]
      BY <1>1, <2>2 DEF IsGlue
    <2>4. (Len(pre) + 1) + 1 = Len(pre) + 2 /\ i + 1 - 1 = i /\ i + 2 - 1 = i + 1
      BY <1>0
    <2>5. p = <<w[i], w[i + 1]>>
      BY <2>1, <2>3, <2>4
    <2> QED BY <2>2, <2>5 DEF PairAt
  <1>5. ASSUME NEW k \in 1..(Len(pre) + 1) PROVE ~ PairAt(u, p, k)
    <2>1. k \in 1..Len(pre) \/ k = Len(pre) + 1
      BY <1>0
    <2> QED BY <1>2, <1>4, <2>1 DEF Clean
  <1> QED BY <1>5 DEF Clean, u

Iterates(f, N) == \A k \in 1..N : f[k] = RefStep(f[k - 1])

\* u is the word after N - Len(u) merges.
Reach(f, N, u) == \E n \in 0..N : f[n] = u /\ n + Len(u) = N

LEMMA ReachStep ==
  ASSUME NEW f, NEW N \in Nat, Iterates(f, N), NEW u, Len(u) \in Nat \ {0}, Reach(f, N, u),
         NEW v, RefStep(u) = v, Len(v) = Len(u) - 1
  PROVE  Reach(f, N, v)
  <1>1. PICK n \in 0..N : f[n] = u /\ n + Len(u) = N
    BY DEF Reach
  <1>2. n + 1 \in 1..N /\ n + 1 \in 0..N /\ (n + 1) - 1 = n /\ (n + 1) + Len(v) = N
    BY <1>1
  <1>3. f[n + 1] = v
    BY <1>1, <1>2 DEF Iterates
  <1> QED BY <1>2, <1>3 DEF Reach

\* What bpe_merge's loop over the word appends at i, and where it goes on.
Made(w, p) == [i \in DOMAIN w |-> <<IF PairAt(w, p, i) THEN w[i] \o w[i + 1] ELSE w[i]>>]
After(w, p) == [i \in DOMAIN w |-> IF PairAt(w, p, i) THEN i + 2 ELSE i + 1]

LEMMA MergeScan ==
  ASSUME NEW w \in Seq(Piece), NEW p
  PROVE  LET scan == ScanFrom(Len(w), Made(w, p), After(w, p))
         IN /\ MergeAll(w, p) = scan[1]
            /\ Len(w) \in Nat /\ Forward(Len(w), After(w, p))
            /\ \A i \in 1..Len(w) : Made(w, p)[i] \in Seq(Piece)
            /\ IsScan(scan, Len(w), Made(w, p), After(w, p))
            /\ \A i \in 1..(Len(w) + 1) : scan[i] \in Seq(Piece)
  <1>0. Len(w) \in Nat /\ DOMAIN w = 1..Len(w)
    OBVIOUS
  <1>1. ASSUME NEW i \in 1..Len(w)
        PROVE  After(w, p)[i] \in (i + 1)..(Len(w) + 1)
    BY <1>0 DEF After, PairAt
  <1>2. Forward(Len(w), After(w, p))
    BY <1>1 DEF Forward
  <1>3. ASSUME NEW i \in 1..Len(w)
        PROVE  Made(w, p)[i] \in Seq(Piece)
    <2>1. Made(w, p)[i] = <<IF PairAt(w, p, i) THEN w[i] \o w[i + 1] ELSE w[i]>>
      BY <1>0 DEF Made
    <2>2. ASSUME PairAt(w, p, i) PROVE w[i] \o w[i + 1] \in Piece
      <3>1. i + 1 \in 1..Len(w)
        BY <1>0, <2>2 DEF PairAt
      <3>2. PICK a \in Piece, b \in Piece : a = w[i] /\ b = w[i + 1]
        BY <3>1
      <3>3. a \in Seq(CodePoint) /\ b \in Seq(CodePoint) /\ Len(a) # 0
        BY DEF Piece
      <3>4. a \o b \in Seq(CodePoint) /\ Len(a \o b) # 0
        BY <3>3
      <3> QED BY <3>2, <3>4 DEF Piece
    <2>3. (IF PairAt(w, p, i) THEN w[i] \o w[i + 1] ELSE w[i]) \in Piece
      BY <2>2
    <2> HIDE DEF Piece
    <2> QED BY <2>1, <2>3
  <1>4. IsScan(ScanFrom(Len(w), Made(w, p), After(w, p)), Len(w), Made(w, p), After(w, p))
    BY <1>0, <1>2, ScanFromIs
  <1>5. \A i \in 1..(Len(w) + 1) : ScanFrom(Len(w), Made(w, p), After(w, p))[i] \in Seq(Piece)
    BY <1>0, <1>2, <1>3, ScanFromType
  <1>6. MergeAll(w, p) = ScanFrom(Len(w), Made(w, p), After(w, p))[1]
    BY Zenon DEF MergeAll, Made, After
  <1> QED BY <1>0, <1>2, <1>3, <1>4, <1>5, <1>6, Zenon

LEMMA AppendConcat ==
  ASSUME NEW S, NEW a \in Seq(S), NEW x \in S, NEW t \in Seq(S)
  PROVE  Append(a, x) \o t = a \o (<<x>> \o t)
  OBVIOUS

\* Merging every occurrence of the best pair from left to right is a number of steps of
\* the usual definition: the part behind the scan is as in w, the part before it is
\* done, and p stays the best pair of the whole until its last occurrence is merged.
LEMMA MergeAllReaches ==
  ASSUME RanksOK, TrainedRanks, NEW f, NEW N \in Nat, Iterates(f, N),
         NEW w \in Seq(Piece), Reach(f, N, w), NEW p \in Pairs(w), Low(w, p)
  PROVE  MergeAll(w, p) \in Seq(Piece) /\ Reach(f, N, MergeAll(w, p))
  <1> DEFINE scan == ScanFrom(Len(w), Made(w, p), After(w, p))
             Good(i, pre) ==
               /\ Reach(f, N, Glue(pre, w, i)) /\ Low(Glue(pre, w, i), p)
               /\ Clean(Glue(pre, w, i), p, Len(pre)) /\ pre \o scan[i] = scan[1]
             good == {i \in 1..(Len(w) + 1) : \E pre \in Seq(Piece) : Good(i, pre)}
  <1>0. /\ MergeAll(w, p) = scan[1] /\ Len(w) \in Nat /\ DOMAIN w = 1..Len(w)
        /\ IsScan(scan, Len(w), Made(w, p), After(w, p))
        /\ \A i \in 1..(Len(w) + 1) : scan[i] \in Seq(Piece)
    <2>1. DOMAIN w = 1..Len(w)
      OBVIOUS
    <2> QED BY <2>1, MergeScan, Zenon
  <1> HIDE DEF scan
  <1>1. /\ scan[Len(w) + 1] = <<>>
        /\ \A i \in 1..Len(w) : scan[i] = Made(w, p)[i] \o scan[After(w, p)[i]]
    BY <1>0, Zenon DEF IsScan
  <1>2. 1 \in good
    <2>1. <<>> \in Seq(Piece) /\ Len(<<>>) = 0 /\ SubSeq(w, 1, Len(w)) = w /\ <<>> \o w = w
      OBVIOUS
    <2>2. Glue(<<>>, w, 1) = w
      BY <2>1 DEF Glue
    <2>3. scan[1] \in Seq(Piece)
      BY <1>0
    <2>4. <<>> \o scan[1] = scan[1]
      BY <2>3
    <2>5. Clean(w, p, 0)
      BY DEF Clean
    <2>6. Good(1, <<>>)
      BY <2>1, <2>2, <2>4, <2>5
    <2>7. 1 \in 1..(Len(w) + 1)
      BY <1>0
    <2> HIDE DEF Good
    <2> QED BY <2>1, <2>6, <2>7
  <1>3. ASSUME NEW i \in 1..Len(w), NEW pre \in Seq(Piece), Good(i, pre)
        PROVE  \E j \in (i + 1)..(Len(w) + 1) : j \in good
    <2>00. pre \in Seq(Piece)
      BY <1>3
    <2>0. Len(pre) \in Nat /\ w[i] \in Piece /\ scan[i] = Made(w, p)[i] \o scan[After(w, p)[i]]
          /\ i \in 1..(Len(w) + 1) /\ p \in DOMAIN bpe_ranks
      <3>1. Len(pre) \in Nat /\ w[i] \in Piece
        OBVIOUS
      <3>2. i \in 1..(Len(w) + 1)
        BY <1>0
      <3>3. p \in DOMAIN bpe_ranks
        BY DEF Pairs
      <3>4. scan[i] = Made(w, p)[i] \o scan[After(w, p)[i]]
        BY <1>1
      <3> QED BY <3>1, <3>2, <3>3, <3>4
    <2>1. CASE PairAt(w, p, i)
      <3> DEFINE joined == w[i] \o w[i + 1]
                 head == Append(pre, joined)
                 merged == Glue(head, w, i + 2)
      <3>1. /\ joined \in Piece /\ RefStep(Glue(pre, w, i)) = merged /\ Low(merged, p) /\ Clean(merged, p, Len(pre) + 1)
            /\ Len(merged) = Len(Glue(pre, w, i)) - 1
        <4>1. Low(Glue(pre, w, i), p) /\ Clean(Glue(pre, w, i), p, Len(pre))
          BY <1>3
        <4>2. joined \in Piece /\ Advances(Glue(pre, w, i), merged, p, Len(pre))
          BY <2>0, <2>1, <4>1, AdvanceMerge
        <4> HIDE DEF joined, merged
        <4> QED BY <4>2 DEF Advances
      <3>2. Made(w, p)[i] = <<joined>> /\ After(w, p)[i] = i + 2
        BY <1>0, <2>1 DEF Made, After
      <3>3. i + 2 \in (i + 1)..(Len(w) + 1) /\ i + 2 \in 1..(Len(w) + 1)
        BY <1>0, <2>1 DEF PairAt
      <3> HIDE DEF joined
      <3>4. head \in Seq(Piece) /\ head = pre \o <<joined>> /\ Len(head) = Len(pre) + 1 /\ <<joined>> \in Seq(Piece)
        BY <3>1, AppendIs
      <3> HIDE DEF head
      <3>5. head \o scan[i + 2] = scan[1]
        <4>1. scan[i + 2] \in Seq(Piece)
          BY <1>0, <3>3
        <4>2. head \o scan[i + 2] = pre \o (<<joined>> \o scan[i + 2])
          <5>1. PICK rest \in Seq(Piece) : rest = scan[i + 2]
            BY <4>1
          <5>2. Append(pre, joined) \o rest = pre \o (<<joined>> \o rest)
            BY <2>0, <3>1, AppendConcat
          <5> QED BY <5>1, <5>2 DEF head
        <4>3. scan[i] = <<joined>> \o scan[i + 2]
          BY <2>0, <3>2
        <4> QED BY <1>3, <3>4, <4>2, <4>3
      <3>6. Reach(f, N, merged)
        <4> DEFINE u == Glue(pre, w, i)
        <4>1. u \in Seq(Piece) /\ IsGlue(u, pre, w, i)
          BY <2>0, GlueIs
        <4>2. Len(u) = Len(pre) + (Len(w) - i + 1)
          BY <4>1 DEF IsGlue
        <4>3. Len(u) \in Nat \ {0}
          BY <1>0, <2>0, <4>2
        <4> HIDE DEF u, merged
        <4>4. RefStep(u) = merged /\ Len(merged) = Len(u) - 1 /\ Reach(f, N, u)
          BY <1>3, <3>1 DEF u
        <4> QED BY <4>3, <4>4, ReachStep
      <3>7. Good(i + 2, head)
        BY <3>1, <3>4, <3>5, <3>6
      <3> HIDE DEF Good
      <3>8. i + 2 \in good
        BY <3>3, <3>4, <3>7
      <3> QED BY <3>3, <3>8
    <2>2. CASE ~ PairAt(w, p, i)
      <3> DEFINE head == Append(pre, w[i])
      <3>1. Clean(Glue(pre, w, i), p, Len(pre) + 1)
        BY <1>3, <2>2, AdvanceKeep
      <3>2. Glue(head, w, i + 1) = Glue(pre, w, i)
        BY GlueKeep
      <3>3. Made(w, p)[i] = <<w[i]>> /\ After(w, p)[i] = i + 1
        BY <1>0, <2>2 DEF Made, After
      <3>4. i + 1 \in (i + 1)..(Len(w) + 1) /\ i + 1 \in 1..(Len(w) + 1)
        BY <1>0
      <3>5. head \in Seq(Piece) /\ head = pre \o <<w[i]>> /\ Len(head) = Len(pre) + 1
            /\ <<w[i]>> \in Seq(Piece)
        BY <2>0, AppendIs
      <3> HIDE DEF head
      <3>6. head \o scan[i + 1] = scan[1]
        <4>1. scan[i + 1] \in Seq(Piece)
          BY <1>0, <3>4
        <4>2. head \o scan[i + 1] = pre \o (<<w[i]>> \o scan[i + 1])
          <5>1. PICK rest \in Seq(Piece) : rest = scan[i + 1]
            BY <4>1
          <5>2. Append(pre, w[i]) \o rest = pre \o (<<w[i]>> \o rest)
            BY <2>0, AppendConcat
          <5> QED BY <5>1, <5>2 DEF head
        <4>3. scan[i] = <<w[i]>> \o scan[i + 1]
          BY <2>0, <3>3
        <4> QED BY <1>3, <3>5, <4>2, <4>3
      <3>7. Good(i + 1, head)
        BY <1>3, <3>1, <3>2, <3>5, <3>6
      <3> HIDE DEF Good
      <3>8. i + 1 \in good
        BY <3>4, <3>5, <3>7
      <3> QED BY <3>4, <3>8
    <2> QED BY <2>1, <2>2
  <1>4. Len(w) + 1 \in good
    <2>0. Len(w) + 1 \in Nat /\ good \subseteq 0..(Len(w) + 1)
      BY <1>0
    <2>1. PICK b \in Nat : b = Len(w) + 1
      BY <2>0
    <2>2. PICK m \in good : \A k \in good : k <= m
      <3> HIDE DEF good
      <3>1. Max(good) \in good /\ \A k \in good : k <= Max(good)
        BY <1>2, <2>0, <2>1, MaxOf
      <3> QED BY <3>1
    <2>3. m \in 1..(Len(w) + 1) /\ \E pre \in Seq(Piece) : Good(m, pre)
      BY <2>2
    <2> SUFFICES ASSUME m # Len(w) + 1 PROVE FALSE
      BY <2>2
    <2>4. m \in 1..Len(w)
      BY <1>0, <2>3
    <2> HIDE DEF Good, good
    <2>5. PICK j \in (m + 1)..(Len(w) + 1) : j \in good
      BY <1>3, <2>3, <2>4
    <2>6. j <= m /\ m \in Int /\ j \in Int /\ j >= m + 1
      BY <1>0, <2>2, <2>4, <2>5
    <2> QED BY <2>6
  <1>5. PICK pre \in Seq(Piece) : Good(Len(w) + 1, pre)
    BY <1>4
  <1>6. Glue(pre, w, Len(w) + 1) = pre
    <2>1. SubSeq(w, Len(w) + 1, Len(w)) = <<>> /\ pre \o <<>> = pre
      BY <1>0
    <2> QED BY <2>1 DEF Glue
  <1>7. pre = scan[1]
    <2>1. pre \o <<>> = pre
      OBVIOUS
    <2> QED BY <1>1, <1>5, <2>1
  <1> QED BY <1>0, <1>5, <1>6, <1>7

-----------------------------------------------------------------------------
(***************************************************************************)
(* The words of the usual definition exist, one after every merge.         *)
(***************************************************************************)
\* The usual definition again, with the table as a parameter.
StepOf(r, u) ==
  LET pairs == {<<u[i], u[i + 1]>> : i \in 1..(Len(u) - 1)} \cap DOMAIN r
  IN IF pairs = {} THEN u
     ELSE MergeFirst(u, CHOOSE p \in pairs : \A q \in pairs : r[p] <= r[q])

RunsTo(f, r, w, n) == f = [k \in 0..n |-> IF k = 0 THEN w ELSE StepOf(r, f[k - 1])]

RunOf(r, p) == CHOOSE f : RunsTo(f, r, Letters(p), Len(Letters(p)))

ReferenceOf(r, p) == RunOf(r, p)[Len(Letters(p))]

\* A function that obeys the recursion exists, as in FlattenExists.
LEMMA RunExists ==
  ASSUME NEW r, NEW w, NEW n \in Nat
  PROVE  \E f : RunsTo(f, r, w, n)
  <1> DEFINE Q(k, f) == RunsTo(f, r, w, k)
             bad == {k \in 0..n : ~\E f : Q(k, f)}
  <1>1. Q(0, [i \in 0..0 |-> w])
    <2> DEFINE e == [i \in 0..0 |-> w]
               h == [i \in 0..0 |-> IF i = 0 THEN w ELSE StepOf(r, e[i - 1])]
    <2>1. \A i \in 0..0 : i = 0
      OBVIOUS
    <2>2. e = h
      BY <2>1, Zenon
    <2> QED BY <2>2 DEF RunsTo
  <1>2. ASSUME NEW k \in 0..(n - 1), NEW f, Q(k, f)
        PROVE  \E g : Q(k + 1, g)
    <2> DEFINE g == [i \in 0..(k + 1) |-> IF i = 0 THEN w ELSE StepOf(r, f[i - 1])]
    <2>1. f = [i \in 0..k |-> IF i = 0 THEN w ELSE StepOf(r, f[i - 1])]
      BY <1>2 DEF RunsTo
    <2>2. ASSUME NEW i \in 0..k PROVE g[i] = f[i]
      <3>1. i \in 0..(k + 1)
        OBVIOUS
      <3>2. g[i] = IF i = 0 THEN w ELSE StepOf(r, f[i - 1])
        BY <3>1
      <3>3. f[i] = IF i = 0 THEN w ELSE StepOf(r, f[i - 1])
        BY <2>1, Zenon
      <3> QED BY <3>2, <3>3
    <2>3. g = [i \in 0..(k + 1) |-> IF i = 0 THEN w ELSE StepOf(r, g[i - 1])]
      <3> DEFINE h == [i \in 0..(k + 1) |-> IF i = 0 THEN w ELSE StepOf(r, g[i - 1])]
      <3>1. ASSUME NEW i \in 0..(k + 1) PROVE g[i] = h[i]
        <4>1. CASE i = 0
          BY <4>1
        <4>2. CASE i # 0
          <5>1. i - 1 \in 0..k
            BY <4>2
          <5>2. g[i - 1] = f[i - 1]
            BY <2>2, <5>1
          <5>3. g[i] = StepOf(r, f[i - 1])
            BY <4>2
          <5> HIDE DEF g
          <5>4. h[i] = StepOf(r, g[i - 1])
            BY <4>2
          <5> QED BY <5>2, <5>3, <5>4
        <4> QED BY <4>1, <4>2
      <3>2. DOMAIN g = 0..(k + 1) /\ g = [i \in DOMAIN g |-> g[i]]
        OBVIOUS
      <3>3. DOMAIN h = 0..(k + 1) /\ h = [i \in DOMAIN h |-> h[i]]
        OBVIOUS
      <3>4. g = h
        <4> HIDE DEF g, h
        <4> QED BY <3>1, <3>2, <3>3
      <3> QED BY <3>4
    <2> HIDE DEF g
    <2> QED BY <2>3 DEF RunsTo
  <1>3. bad = {}
    <2> SUFFICES ASSUME bad # {} PROVE FALSE
      OBVIOUS
    <2>1. PICK k \in bad : \A m \in bad : k <= m
      <3>1. bad \subseteq Nat
        OBVIOUS
      <3> HIDE DEF bad
      <3> QED BY <3>1, Least
    <2>2. k # 0
      <3>1. \E f : Q(0, f)
        BY <1>1, Zenon
      <3> HIDE DEF Q
      <3> QED BY <2>1, <3>1
    <2>3. k - 1 \in 0..(n - 1) /\ (k - 1) + 1 = k
      BY <2>1, <2>2
    <2>4. k - 1 \notin bad
      <3>1. k \in Int
        BY <2>1
      <3>2. k - 1 < k
        BY <3>1
      <3> HIDE DEF bad
      <3> QED BY <2>1, <3>1, <3>2
    <2>5. PICK f : Q(k - 1, f)
      BY <2>3, <2>4
    <2> HIDE DEF Q
    <2>6. \E g : Q((k - 1) + 1, g)
      BY <1>2, <2>3, <2>5
    <2> QED BY <2>1, <2>3, <2>6
  <1>4. n \notin bad /\ n \in 0..n
    BY <1>3
  <1> QED BY <1>4

LEMMA LettersIs ==
  ASSUME NEW p \in Seq(CodePoint)
  PROVE  Letters(p) \in Seq(Piece) /\ Len(Letters(p)) = Len(p)
  <1>1. ASSUME NEW i \in DOMAIN p PROVE <<p[i]>> \in Piece
    BY DEF Piece
  <1>2. Letters(p) = [i \in 1..Len(p) |-> <<p[i]>>] /\ Len(p) \in Nat /\ DOMAIN p = 1..Len(p)
    BY DEF Letters
  <1> HIDE DEF Piece
  <1> QED BY <1>1, <1>2

LEMMA RunIs ==
  ASSUME NEW p \in Seq(CodePoint)
  PROVE  /\ Iterates(RunOf(bpe_ranks, p), Len(p)) /\ RunOf(bpe_ranks, p)[0] = Letters(p)
         /\ ReferenceOf(bpe_ranks, p) = RunOf(bpe_ranks, p)[Len(p)]
  <1>0. Len(Letters(p)) = Len(p) /\ Len(p) \in Nat
    BY LettersIs
  <1> DEFINE f == RunOf(bpe_ranks, p)
  <1>1. RunsTo(f, bpe_ranks, Letters(p), Len(Letters(p)))
    BY <1>0, RunExists, Zenon DEF RunOf
  <1> HIDE DEF f
  <1>2. \A k \in 0..Len(p) : f[k] = IF k = 0 THEN Letters(p) ELSE StepOf(bpe_ranks, f[k - 1])
    BY <1>0, <1>1, Zenon DEF RunsTo
  <1>3. \A u : StepOf(bpe_ranks, u) = RefStep(u)
    BY Zenon DEF StepOf, RefStep, Pairs, BestPair
  <1>4. ASSUME NEW k \in 1..Len(p) PROVE f[k] = RefStep(f[k - 1])
    <2>1. k \in 0..Len(p) /\ k # 0
      BY <1>0
    <2> QED BY <1>2, <1>3, <2>1
  <1>5. f[0] = Letters(p)
    <2>1. 0 \in 0..Len(p)
      BY <1>0
    <2> QED BY <1>2, <2>1
  <1>6. Iterates(f, Len(p))
    BY <1>4 DEF Iterates
  <1> QED BY <1>0, <1>5, <1>6, Zenon DEF f, ReferenceOf

LEMMA ReferenceIs == \A p : ReferenceBpe(p) = ReferenceOf(bpe_ranks, p)
  BY Zenon DEF ReferenceBpe, ReferenceOf, RunOf, RunsTo, StepOf, Pairs, BestPair

\* A word without a pair of the table stays as it is.
LEMMA RunStays ==
  ASSUME NEW f, NEW N \in Nat, Iterates(f, N), NEW n \in 0..N, NEW u, f[n] = u, Pairs(u) = {}
  PROVE  f[N] = u
  <1> DEFINE bad == {k \in n..N : f[k] # u}
  <1> SUFFICES ASSUME bad # {} PROVE FALSE
    OBVIOUS
  <1>1. PICK k \in bad : \A m \in bad : k <= m
    <2>1. bad \subseteq Nat
      OBVIOUS
    <2> HIDE DEF bad
    <2> QED BY <2>1, Least
  <1>2. k \in n..N /\ k # n /\ f[k] # u
    BY <1>1
  <1>3. k \in 1..N /\ k - 1 \in n..N /\ ~ (k <= k - 1)
    BY <1>2
  <1>4. f[k - 1] = u
    BY <1>1, <1>3
  <1>5. f[k] = RefStep(u)
    BY <1>3, <1>4 DEF Iterates
  <1> QED BY <1>2, <1>5 DEF RefStep

-----------------------------------------------------------------------------
(***************************************************************************)
(* The inductive invariant of the merges, action by action.                *)
(***************************************************************************)
LEMMA BytesType ==
  ASSUME NEW t \in Seq(CodePoint)
  PROVE  Bytes(t) \in Seq(DOMAIN ByteSymbol)
  <1> DEFINE s == [i \in DOMAIN t |-> Utf8[t[i]]]
  <1>1. \A i \in DOMAIN t : Utf8[t[i]] \in Seq(DOMAIN ByteSymbol)
    <2>1. Utf8 \in [CodePoint -> Seq(DOMAIN ByteSymbol) \ {<<>>}]
      BY TokenizerAssumption
    <2>2. \A i \in DOMAIN t : t[i] \in CodePoint
      OBVIOUS
    <2> QED BY <2>1, <2>2
  <1>2. s \in Seq(Seq(DOMAIN ByteSymbol))
    <2>1. DOMAIN t = 1..Len(t) /\ Len(t) \in Nat
      OBVIOUS
    <2> QED BY <1>1, <2>1
  <1> HIDE DEF s
  <1>3. FlattenSeq(s) \in Seq(DOMAIN ByteSymbol)
    BY <1>2, FlattenType
  <1> QED BY <1>3 DEF s, Bytes

LEMMA SymbolsType ==
  ASSUME NEW t \in Seq(CodePoint)
  PROVE  Symbols(t) \in Seq(CodePoint)
  <1>1. PICK b \in Seq(DOMAIN ByteSymbol) : b = Bytes(t)
    BY BytesType
  <1>2. \A i \in DOMAIN b : ByteSymbol[b[i]] \in CodePoint
    <2>1. ByteSymbol \in [DOMAIN ByteSymbol -> CodePoint]
      BY TokenizerAssumption
    <2>2. \A i \in DOMAIN b : b[i] \in DOMAIN ByteSymbol
      OBVIOUS
    <2> QED BY <2>1, <2>2, Zenon
  <1>3. DOMAIN b = 1..Len(b) /\ Len(b) \in Nat
    OBVIOUS
  <1>4. [i \in DOMAIN b |-> ByteSymbol[b[i]]] \in Seq(CodePoint)
    BY <1>2, <1>3
  <1> QED BY <1>1, <1>4 DEF Symbols

\* Two pairs of the merges have different last places.
LEMMA RanksAre ==
  ASSUME NEW S, NEW merges \in Seq(S), NEW r, r = Ranks(merges)
  PROVE  /\ r \in [DOMAIN r -> Nat]
         /\ \A p, q \in DOMAIN r : r[p] = r[q] => p = q
  <1> DEFINE entries == [i \in DOMAIN merges |-> <<merges[i], i - 1>>]
             at(k) == {i \in DOMAIN entries : entries[i][1] = k}
  <1>0. /\ DOMAIN merges = 1..Len(merges) /\ Len(merges) \in Nat
        /\ DOMAIN entries = 1..Len(merges)
        /\ \A i \in 1..Len(merges) : entries[i][1] = merges[i] /\ entries[i][2] = i - 1
    OBVIOUS
  <1>1. r = [k \in {entries[i][1] : i \in DOMAIN entries} |-> entries[Max(at(k))][2]]
    BY Zenon DEF Ranks, Table
  <1> HIDE DEF entries
  <1>2. ASSUME NEW k \in DOMAIN r
        PROVE  Max(at(k)) \in 1..Len(merges) /\ merges[Max(at(k))] = k /\ r[k] = Max(at(k)) - 1
    <2>1. k \in {entries[i][1] : i \in DOMAIN entries}
      BY <1>1
    <2>2. at(k) \subseteq 0..Len(merges) /\ at(k) # {}
      BY <1>0, <2>1
    <2>3. Max(at(k)) \in at(k)
      <3> DEFINE T == at(k)
      <3>1. T \subseteq 0..Len(merges) /\ T # {}
        BY <2>2
      <3> HIDE DEF T
      <3>2. Max(T) \in T
        BY <1>0, <3>1, MaxOf
      <3> QED BY <3>2 DEF T
    <2>4. Max(at(k)) \in 1..Len(merges) /\ entries[Max(at(k))][1] = k
      BY <1>0, <2>3
    <2>5. r[k] = entries[Max(at(k))][2]
      BY <1>1, <2>1
    <2> HIDE DEF at
    <2> QED BY <1>0, <2>4, <2>5
  <1> HIDE DEF at
  <1>3. \A k \in DOMAIN r : r[k] \in Nat
    BY <1>0, <1>2
  <1>4. r \in [DOMAIN r -> Nat]
    <2>1. r = [k \in DOMAIN r |-> r[k]]
      BY <1>1
    <2> QED BY <1>3, <2>1
  <1>5. ASSUME NEW p \in DOMAIN r, NEW q \in DOMAIN r, r[p] = r[q] PROVE p = q
    <2>1. PICK i \in 1..Len(merges) : merges[i] = p /\ r[p] = i - 1
      BY <1>2
    <2>2. PICK j \in 1..Len(merges) : merges[j] = q /\ r[q] = j - 1
      BY <1>2
    <2>3. i = j
      <3>1. i - 1 = j - 1
        BY <1>5, <2>1, <2>2, Zenon
      <3>2. i \in Int /\ j \in Int
        BY <1>0
      <3> QED BY <3>1, <3>2
    <2> QED BY <2>1, <2>2, <2>3
  <1> QED BY <1>4, <1>5

MergingOf(p, w) ==
  /\ p \in Seq(CodePoint) /\ w \in Seq(Piece)
  /\ Reach(RunOf(bpe_ranks, p), Len(p), w)

Merging == MergingOf(piece, word)

CacheOK == \A p \in DOMAIN bpe_cache : bpe_cache[p] = ReferenceOf(bpe_ranks, p)

\* While a word is merged it is one of the words of the usual definition, and the
\* cache holds the last ones.
MergeOK ==
  TrainedRanks =>
    /\ CacheOK
    /\ phase = "merge" => Merging
    /\ phase = "emit" => word = ReferenceOf(bpe_ranks, piece)

MergeInv == RanksOK /\ MergeOK

\* The same for the words the other threads merge.
OthersTyped == other = [t \in Others |-> other[t]]

OthersMerge ==
  TrainedRanks => \A t \in Others : other[t] # <<>> => MergingOf(other[t][1], other[t][2])

\* Encode() and a load leave the other threads alone.
LEMMA OwnStep ==
  ASSUME Next, ~ OtherStep
  PROVE  UNCHANGED other
  <1>1. CASE calls < Len(Texts) /\ \E d \in Documents[calls + 1] : Load(d)
    BY <1>1 DEF Load
  <1>2. CASE LoadEmptyBuffer
    BY <1>2 DEF LoadEmptyBuffer
  <1>3. CASE calls < Len(Texts) /\ \E x \in Texts[calls + 1] : Encode(x)
    BY <1>3 DEF Encode
  <1>4. CASE Split
    <2>1. CASE SplitDone
      BY <2>1 DEF SplitDone
    <2>2. CASE \E e : AddToken(e) /\ phase = "split"
      BY <2>2 DEF AddToken
    <2> QED BY <1>4, <2>1, <2>2, Zenon
         DEF Split, SplitContraction, SplitWord, SplitNumber, SplitSymbols, SplitNewLines,
             SplitSpacesBefore, SplitSpaces, SplitOther, InSpaces, BeforeSymbols, Splitting
  <1>5. CASE Step /\ ~ Split
    BY <1>5 DEF Step, Scan, PushSpecial, Finish, NextChunk, MergeStep, MergeEnd, Emit, ChunksDone
  <1> QED BY <1>1, <1>2, <1>3, <1>4, <1>5 DEF Next

LEMMA InitOthers == Init => OthersTyped /\ \A t \in Others : other[t] = <<>>
  BY DEF Init, OthersTyped

LEMMA NextOthers ==
  ASSUME OthersTyped, [Next]_vars
  PROVE  OthersTyped'
  <1>1. CASE UNCHANGED other
    BY <1>1 DEF OthersTyped
  <1>2. CASE \E t \in Others : \E v : other' = [other EXCEPT ![t] = v]
    BY <1>2 DEF OthersTyped
  <1>3. CASE OtherStep
    BY <1>1, <1>2, <1>3, Zenon DEF OtherStep, OtherLookup, OtherMerge, OtherInsert, Tear
  <1>4. CASE UNCHANGED vars
    BY <1>1, <1>4 DEF vars
  <1> QED BY <1>1, <1>3, <1>4, OwnStep

\* What a step does to another thread's word, if it has one afterwards.
LEMMA OtherCases ==
  ASSUME OthersTyped, [Next]_vars, NEW t \in Others, other'[t] # <<>>
  PROVE  /\ UNCHANGED bpe_ranks
         /\ \/ other'[t] = other[t] /\ other[t] # <<>>
            \/ \E p \in OtherPieces[calls] : other'[t] = <<p, Letters(p)>>
            \/ /\ other[t] # <<>> /\ Pairs(other[t][2]) # {}
               /\ other'[t] = <<other[t][1], MergeAll(other[t][2], BestPair(other[t][2]))>>
  <1>0. ASSUME NEW u \in Others, NEW v, other' = [other EXCEPT ![u] = v]
        PROVE  other'[u] = v /\ \A x \in Others : x # u => other'[x] = other[x]
    BY <1>0 DEF OthersTyped
  <1>1. CASE calls < Len(Texts) /\ \E d \in Documents[calls + 1] : Load(d)
    BY <1>1 DEF Load, OthersIdle
  <1>2. CASE LoadEmptyBuffer
    BY <1>2 DEF LoadEmptyBuffer
  <1>3. CASE calls < Len(Texts) /\ \E x \in Texts[calls + 1] : Encode(x)
    BY <1>3 DEF Encode, tables
  <1>4. CASE Step /\ ~ OtherStep
    <2>1. UNCHANGED bpe_ranks
      <3>1. CASE Split
        <4>1. CASE SplitDone
          BY <4>1 DEF SplitDone, tables
        <4>2. CASE \E e : AddToken(e) /\ phase = "split"
          BY <4>2 DEF AddToken, tables
        <4> QED BY <3>1, <4>1, <4>2, Zenon
             DEF Split, SplitContraction, SplitWord, SplitNumber, SplitSymbols, SplitNewLines,
                 SplitSpacesBefore, SplitSpaces, SplitOther, InSpaces, BeforeSymbols, Splitting
      <3>2. CASE ~ Split
        BY <1>4, <3>2 DEF Step, Scan, PushSpecial, Finish, NextChunk, MergeStep, MergeEnd, Emit,
                          ChunksDone, tables
      <3> QED BY <3>1, <3>2
    <2>2. UNCHANGED other
      BY <1>4, OwnStep DEF Next
    <2> QED BY <2>1, <2>2
  <1>5. CASE OtherStep
    <2>1. UNCHANGED bpe_ranks
      BY <1>5, OtherStepIs
    <2>2. ASSUME NEW u \in Others, NEW p \in OtherPieces[calls], OtherLookup(u, p)
          PROVE  other'[t] = other[t] \/ other'[t] = <<p, Letters(p)>>
      <3>1. other' = [other EXCEPT ![u] = <<p, Letters(p)>>]
        BY <2>2 DEF OtherLookup
      <3> QED BY <1>0, <3>1
    <2>3. ASSUME NEW u \in Others, OtherMerge(u)
          PROVE  \/ other'[t] = other[t]
                 \/ /\ other[t] # <<>> /\ Pairs(other[t][2]) # {}
                    /\ other'[t] = <<other[t][1], MergeAll(other[t][2], BestPair(other[t][2]))>>
      <3>1. /\ other[u] # <<>> /\ Pairs(other[u][2]) # {}
            /\ other' = [other EXCEPT
                 ![u] = <<other[u][1], MergeAll(other[u][2], BestPair(other[u][2]))>>]
        BY <2>3, Zenon DEF OtherMerge
      <3> QED BY <1>0, <3>1
    <2>4. ASSUME NEW u \in Others, OtherInsert(u)
          PROVE  other'[t] = other[t]
      <3>1. other' = [other EXCEPT ![u] = <<>>]
        BY <2>4, Zenon DEF OtherInsert
      <3> QED BY <1>0, <3>1
    <2>5. CASE Tear
      BY <2>1, <2>5 DEF Tear
    <2> QED BY <1>5, <2>1, <2>2, <2>3, <2>4, <2>5 DEF OtherStep
  <1>6. CASE UNCHANGED vars
    BY <1>6 DEF vars, tables
  <1> QED BY <1>1, <1>2, <1>3, <1>4, <1>5, <1>6 DEF Next

LEMMA InitMerge == Init => MergeInv
  <1> SUFFICES ASSUME Init PROVE MergeInv
    OBVIOUS
  <1>1. bpe_ranks = Empty /\ bpe_cache = Empty /\ phase = "idle"
    BY DEF Init
  <1>2. DOMAIN Empty = {} /\ Empty \in [{} -> Nat]
    BY DEF Empty
  <1>3. RanksOK
    BY <1>1, <1>2 DEF RanksOK
  <1>4. MergeOK
    BY <1>1, <1>2 DEF MergeOK, CacheOK
  <1> QED BY <1>3, <1>4 DEF MergeInv

LEMMA RanksSame ==
  ASSUME MergeInv, UNCHANGED bpe_ranks
  PROVE  RanksOK' /\ (TrainedRanks' <=> TrainedRanks)
  BY DEF MergeInv, RanksOK, TrainedRanks

\* Whatever leaves the tables and the cache alone and no merge behind.
LEMMA QuietMerge ==
  ASSUME MergeInv, UNCHANGED <<bpe_ranks, bpe_cache>>, phase' \notin {"merge", "emit"}
  PROVE  MergeInv'
  <1>1. RanksOK' /\ (TrainedRanks' <=> TrainedRanks)
    BY RanksSame
  <1>2. MergeOK'
    BY <1>1 DEF MergeInv, MergeOK, CacheOK
  <1> QED BY <1>1, <1>2 DEF MergeInv

LEMMA LoadMerge ==
  ASSUME MergeInv, calls \in 0..Len(Texts), calls < Len(Texts), NEW d \in Documents[calls + 1], Load(d)
  PROVE  MergeInv'
  <1>1. bpe_ranks' = Ranks(d.merges) /\ bpe_cache' = Empty /\ phase' = "idle"
    BY DEF Load, ClearedCache
  <1>2. calls + 1 \in DOMAIN Texts
    <2>1. Len(Texts) \in Nat /\ DOMAIN Texts = 1..Len(Texts)
      BY TokenizerAssumption
    <2> QED BY <2>1
  <1>3. d.merges \in Seq(Seq(CodePoint) \X Seq(CodePoint))
    BY <1>2, TokenizerAssumption
  <1>4. RanksOK'
    <2>1. PICK m \in Seq(Seq(CodePoint) \X Seq(CodePoint)) : m = d.merges
      BY <1>3
    <2>2. PICK r : r = Ranks(m)
      OBVIOUS
    <2>3. r \in [DOMAIN r -> Nat] /\ \A p, q \in DOMAIN r : r[p] = r[q] => p = q
      BY <2>2, RanksAre
    <2> QED BY <1>1, <2>1, <2>2, <2>3 DEF RanksOK
  <1>5. MergeOK'
    <2>1. DOMAIN bpe_cache' = {}
      BY <1>1 DEF Empty
    <2> QED BY <1>1, <2>1 DEF MergeOK, CacheOK
  <1> QED BY <1>4, <1>5 DEF MergeInv

\* A piece starts with its letters, a merge of the best pair is a step of the usual
\* definition, and the word without a pair is its last one.
LEMMA LettersMerge ==
  ASSUME NEW p \in Seq(CodePoint)
  PROVE  MergingOf(p, Letters(p))
  <1>1. RunOf(bpe_ranks, p)[0] = Letters(p)
    BY RunIs
  <1>2. Letters(p) \in Seq(Piece) /\ Len(Letters(p)) = Len(p) /\ Len(p) \in Nat
    BY LettersIs
  <1>3. 0 \in 0..Len(p) /\ 0 + Len(Letters(p)) = Len(p)
    BY <1>2
  <1>4. Reach(RunOf(bpe_ranks, p), Len(p), Letters(p))
    BY <1>1, <1>3 DEF Reach
  <1> QED BY <1>2, <1>4 DEF MergingOf

LEMMA MergeOnce ==
  ASSUME RanksOK, TrainedRanks, NEW p, NEW w, MergingOf(p, w), Pairs(w) # {}
  PROVE  MergingOf(p, MergeAll(w, BestPair(w)))
  <1>1. PICK N \in Nat, f \in {RunOf(bpe_ranks, p)} : N = Len(p)
    <2>1. Len(p) \in Nat
      BY DEF MergingOf
    <2> QED BY <2>1
  <1>2. Iterates(f, N)
    BY <1>1, RunIs DEF MergingOf
  <1>3. BestPair(w) \in Pairs(w) /\ Low(w, BestPair(w))
    BY BestPairIs
  <1>4. PICK u \in Seq(Piece) : u = w
    BY DEF MergingOf
  <1>5. Reach(f, N, u) /\ BestPair(u) \in Pairs(u) /\ Low(u, BestPair(u))
    BY <1>1, <1>3, <1>4 DEF MergingOf
  <1>6. MergeAll(u, BestPair(u)) \in Seq(Piece) /\ Reach(f, N, MergeAll(u, BestPair(u)))
    BY <1>2, <1>5, MergeAllReaches
  <1> QED BY <1>1, <1>4, <1>6 DEF MergingOf

LEMMA MergedIs ==
  ASSUME NEW p, NEW w, MergingOf(p, w), Pairs(w) = {}
  PROVE  w = ReferenceOf(bpe_ranks, p)
  <1>1. PICK N \in Nat, f \in {RunOf(bpe_ranks, p)} : N = Len(p)
    <2>1. Len(p) \in Nat
      BY DEF MergingOf
    <2> QED BY <2>1
  <1>2. Iterates(f, N) /\ ReferenceOf(bpe_ranks, p) = f[N]
    BY <1>1, RunIs DEF MergingOf
  <1>3. PICK n \in 0..N : f[n] = w
    BY <1>1 DEF MergingOf, Reach
  <1>4. f[N] = w
    BY <1>2, <1>3, RunStays
  <1> QED BY <1>2, <1>4

LEMMA NextChunkMerge ==
  ASSUME TokInv, MergeInv, NextChunk
  PROVE  MergeInv'
  <1>1. /\ UNCHANGED <<bpe_ranks, bpe_cache>> /\ chunk \in 1..Len(offsets)
        /\ piece' = Symbols(SubSeq(seg, offsets[chunk][1], offsets[chunk][2] - 1))
        /\ IF piece' \in DOMAIN bpe_cache
           THEN word' = bpe_cache[piece'] /\ phase' = "emit"
           ELSE word' = Letters(piece') /\ phase' = "merge"
    <2>1. Len(offsets) \in Nat /\ chunk \in 1..(Len(offsets) + 1)
      BY DEF TokInv, SplitOK, ChunkOK
    <2>2. chunk <= Len(offsets)
      BY DEF NextChunk
    <2>3. chunk \in 1..Len(offsets)
      BY <2>1, <2>2
    <2> QED BY <2>3 DEF NextChunk, tables
  <1>2. piece' \in Seq(CodePoint)
    <2>1. seg \in Seq(CodePoint) /\ offsets[chunk] \in Offset(Len(seg))
      BY <1>1 DEF TokInv, SplitOK, SegOK
    <2>2. offsets[chunk][1] \in 1..Len(seg) /\ offsets[chunk][2] - 1 \in 1..Len(seg)
      BY <2>1 DEF Offset
    <2>3. SubSeq(seg, offsets[chunk][1], offsets[chunk][2] - 1) \in Seq(CodePoint)
      BY <2>1, <2>2
    <2> QED BY <1>1, <2>3, SymbolsType
  <1>3. RanksOK' /\ (TrainedRanks' <=> TrainedRanks)
    BY <1>1, RanksSame
  <1>4. ASSUME TrainedRanks
        PROVE  /\ CacheOK' /\ (phase' = "merge" => Merging')
               /\ phase' = "emit" => word' = ReferenceOf(bpe_ranks', piece')
    <2>1. CacheOK
      BY <1>4 DEF MergeInv, MergeOK
    <2>2. CacheOK'
      BY <1>1, <2>1 DEF CacheOK
    <2>3. CASE piece' \in DOMAIN bpe_cache
      <3>1. word' = ReferenceOf(bpe_ranks', piece') /\ phase' = "emit"
        BY <1>1, <2>1, <2>3 DEF CacheOK
      <3> QED BY <2>2, <3>1
    <2>4. CASE piece' \notin DOMAIN bpe_cache
      <3>1. word' = Letters(piece') /\ phase' = "merge"
        BY <1>1, <2>4
      <3>2. PICK p \in Seq(CodePoint) : p = piece'
        BY <1>2
      <3>3. MergingOf(p, Letters(p))
        BY LettersMerge
      <3>4. Merging'
        BY <1>1, <3>1, <3>2, <3>3 DEF Merging, MergingOf
      <3> QED BY <2>2, <3>1, <3>4
    <2> QED BY <2>3, <2>4
  <1> QED BY <1>3, <1>4 DEF MergeInv, MergeOK

LEMMA MergeStepMerge ==
  ASSUME MergeInv, MergeStep
  PROVE  MergeInv'
  <1>1. /\ UNCHANGED <<bpe_ranks, bpe_cache, piece>> /\ phase = "merge" /\ phase' = "merge"
        /\ Pairs(word) # {} /\ word' = MergeAll(word, BestPair(word))
    BY DEF MergeStep, tables
  <1>2. RanksOK' /\ (TrainedRanks' <=> TrainedRanks)
    BY <1>1, RanksSame
  <1>3. ASSUME TrainedRanks PROVE CacheOK' /\ Merging'
    <2>1. CacheOK'
      BY <1>1, <1>3 DEF MergeInv, MergeOK, CacheOK
    <2>2. Merging
      BY <1>1, <1>3 DEF MergeInv, MergeOK
    <2>3. MergingOf(piece, MergeAll(word, BestPair(word)))
      BY <1>1, <1>3, <2>2, MergeOnce DEF Merging, MergeInv
    <2>4. Merging'
      BY <1>1, <2>3 DEF Merging, MergingOf
    <2> QED BY <2>1, <2>4
  <1> QED BY <1>1, <1>2, <1>3 DEF MergeInv, MergeOK

LEMMA MergeEndMerge ==
  ASSUME MergeInv, MergeEnd
  PROVE  MergeInv'
  <1>1. /\ UNCHANGED <<bpe_ranks, piece, word>> /\ phase = "merge" /\ phase' = "emit"
        /\ Pairs(word) = {}
        /\ bpe_cache' = [p \in DOMAIN bpe_cache \cup {piece} |->
                           IF p = piece THEN word ELSE bpe_cache[p]]
    BY DEF MergeEnd, tables, merge
  <1>2. RanksOK' /\ (TrainedRanks' <=> TrainedRanks)
    BY <1>1, RanksSame
  <1>3. ASSUME TrainedRanks PROVE CacheOK' /\ word' = ReferenceOf(bpe_ranks', piece')
    <2>1. CacheOK /\ Merging
      BY <1>1, <1>3 DEF MergeInv, MergeOK
    <2>6. word = ReferenceOf(bpe_ranks, piece)
      BY <1>1, <2>1, MergedIs DEF Merging
    <2>7. CacheOK'
      BY <1>1, <2>1, <2>6 DEF CacheOK
    <2> QED BY <1>1, <2>6, <2>7
  <1> QED BY <1>1, <1>2, <1>3 DEF MergeInv, MergeOK

\* An insertion of another thread.
LEMMA OtherStepMerge ==
  ASSUME MergeInv, OthersMerge, OtherStep
  PROVE  MergeInv'
  <1>1. UNCHANGED <<bpe_ranks, piece, word>> /\ phase' \in {phase, "torn"}
    BY OtherStepIs
  <1>2. RanksOK' /\ (TrainedRanks' <=> TrainedRanks)
    BY <1>1, RanksSame
  <1>3. ASSUME TrainedRanks PROVE CacheOK'
    <2>1. CacheOK
      BY <1>3 DEF MergeInv, MergeOK
    <2>2. CASE UNCHANGED bpe_cache
      BY <1>1, <2>1, <2>2 DEF CacheOK
    <2>3. ASSUME NEW t \in Others, other[t] # <<>>, Pairs(other[t][2]) = {},
                 bpe_cache' = [p \in DOMAIN bpe_cache \cup {other[t][1]} |->
                                IF p = other[t][1] THEN other[t][2] ELSE bpe_cache[p]]
          PROVE  CacheOK'
      <3>1. other[t][2] = ReferenceOf(bpe_ranks, other[t][1])
        <4>1. MergingOf(other[t][1], other[t][2])
          BY <1>3, <2>3 DEF OthersMerge
        <4> QED BY <2>3, <4>1, MergedIs
      <3> QED BY <1>1, <2>1, <2>3, <3>1 DEF CacheOK
    <2> QED BY <2>2, <2>3, OtherStepIs
  <1> QED BY <1>1, <1>2, <1>3 DEF MergeInv, MergeOK, Merging, MergingOf

LEMMA NextMerge ==
  ASSUME TokInv, MergeInv, OthersMerge, [Next]_vars
  PROVE  MergeInv'
  <1>1. CASE calls < Len(Texts) /\ \E d \in Documents[calls + 1] : Load(d)
    <2>1. calls \in 0..Len(Texts)
      BY DEF TokInv, ControlOK
    <2> QED BY <1>1, <2>1, LoadMerge
  <1>2. CASE LoadEmptyBuffer
    <2>1. UNCHANGED <<bpe_ranks, bpe_cache>> /\ phase' = "idle"
      BY <1>2 DEF LoadEmptyBuffer
    <2> QED BY <2>1, QuietMerge
  <1>3. CASE calls < Len(Texts) /\ \E t \in Texts[calls + 1] : Encode(t)
    <2>1. UNCHANGED <<bpe_ranks, bpe_cache>> /\ phase' \in {"done", "scan"}
      BY <1>3 DEF Encode, tables
    <2> QED BY <2>1, QuietMerge
  <1>4. CASE Scan \/ PushSpecial \/ Finish \/ Emit \/ ChunksDone
    <2>1. UNCHANGED <<bpe_ranks, bpe_cache>> /\ phase' \notin {"merge", "emit"}
      BY <1>4 DEF Scan, PushSpecial, Finish, Emit, ChunksDone, tables
    <2> QED BY <2>1, QuietMerge
  <1>5. CASE Split
    <2>1. UNCHANGED <<bpe_ranks, bpe_cache>> /\ phase' \in {"split", "chunk"}
      <3>1. CASE SplitDone
        BY <3>1 DEF SplitDone, tables
      <3>2. CASE \E e : AddToken(e) /\ phase = "split"
        BY <3>2 DEF AddToken, tables
      <3> QED BY <1>5, <3>1, <3>2, Zenon
           DEF Split, SplitContraction, SplitWord, SplitNumber, SplitSymbols, SplitNewLines,
               SplitSpacesBefore, SplitSpaces, SplitOther, InSpaces, BeforeSymbols, Splitting
    <2> QED BY <2>1, QuietMerge
  <1>6. CASE NextChunk
    BY <1>6, NextChunkMerge
  <1>7. CASE MergeStep
    BY <1>7, MergeStepMerge
  <1>8. CASE MergeEnd
    BY <1>8, MergeEndMerge
  <1>9. CASE UNCHANGED vars
    <2>1. UNCHANGED <<bpe_ranks, bpe_cache, phase, piece, word>>
      BY <1>9 DEF vars, tables, merge
    <2>2. RanksOK' /\ (TrainedRanks' <=> TrainedRanks)
      BY <2>1, RanksSame
    <2> QED BY <2>1, <2>2 DEF MergeInv, MergeOK, CacheOK, Merging, MergingOf
  <1>10. CASE OtherStep
    BY <1>10, OtherStepMerge
  <1> QED BY <1>1, <1>2, <1>3, <1>4, <1>5, <1>6, <1>7, <1>8, <1>9, <1>10 DEF Next, Step

\* The pieces of the other threads are of the symbols of bytes.
LEMMA OtherPieceIs ==
  ASSUME TokInv, NEW p \in OtherPieces[calls]
  PROVE  p \in Seq(Range(ByteSymbol)) /\ p \in Seq(CodePoint)
  <1>1. calls \in 0..Len(Texts)
    BY DEF TokInv, ControlOK
  <1>2. p \in Seq(Range(ByteSymbol))
    BY <1>1, TokenizerAssumption
  <1>3. Range(ByteSymbol) \subseteq CodePoint
    <2>1. ByteSymbol \in [DOMAIN ByteSymbol -> CodePoint]
      BY TokenizerAssumption
    <2> QED BY <2>1 DEF Range
  <1> QED BY <1>2, <1>3

LEMMA NextOthersMerge ==
  ASSUME TokInv, MergeInv, OthersTyped, OthersMerge, [Next]_vars
  PROVE  OthersMerge'
  <1> SUFFICES ASSUME TrainedRanks', NEW t \in Others, other'[t] # <<>>
               PROVE  MergingOf(other[t][1], other[t][2])'
    BY DEF OthersMerge
  <1>1. UNCHANGED bpe_ranks
    BY OtherCases
  <1>2. RanksOK /\ TrainedRanks
    BY <1>1, RanksSame DEF MergeInv
  <1>3. MergingOf(other'[t][1], other'[t][2])
    <2>1. CASE other'[t] = other[t] /\ other[t] # <<>>
      BY <1>2, <2>1 DEF OthersMerge
    <2>2. CASE \E p \in OtherPieces[calls] : other'[t] = <<p, Letters(p)>>
      BY <2>2, OtherPieceIs, LettersMerge
    <2>3. CASE /\ other[t] # <<>> /\ Pairs(other[t][2]) # {}
               /\ other'[t] = <<other[t][1], MergeAll(other[t][2], BestPair(other[t][2]))>>
      <3>1. MergingOf(other[t][1], other[t][2])
        BY <1>2, <2>3 DEF OthersMerge
      <3>2. MergingOf(other[t][1], MergeAll(other[t][2], BestPair(other[t][2])))
        BY <1>2, <2>3, <3>1, MergeOnce
      <3> QED BY <2>3, <3>2
    <2> QED BY <2>1, <2>2, <2>3, OtherCases
  <1> QED BY <1>1, <1>3 DEF MergingOf

LEMMA MergeInvariant == Spec => [](TokInv /\ MergeInv /\ OthersTyped /\ OthersMerge)
  <1>1. Init => TokInv /\ MergeInv /\ OthersTyped /\ OthersMerge
    BY InitTok, InitMerge, InitOthers DEF OthersMerge
  <1>2. (TokInv /\ MergeInv /\ OthersTyped /\ OthersMerge) /\ [Next]_vars
          => (TokInv /\ MergeInv /\ OthersTyped /\ OthersMerge)'
    BY NextTok, NextMerge, NextOthers, NextOthersMerge
  <1> QED BY <1>1, <1>2, PTL DEF Spec

(***************************************************************************)
(* With a trained table the word bpe_merge returns, from the cache or by   *)
(* merging every occurrence of the best pair at once, is the one that      *)
(* merging one pair at a time gives with the table loaded now, for every   *)
(* interleaving of the finds and insertions of any number of threads. The  *)
(* code does not make these accesses whole: nothing is said of a word      *)
(* returned after two of them have raced.                                  *)
(***************************************************************************)
THEOREM MergesAreBytePairs == Spec => []MergesFollowRanks
  <1>1. MergeInv => MergesFollowRanks
    BY ReferenceIs DEF MergeInv, MergeOK, MergesFollowRanks
  <1> QED BY <1>1, MergeInvariant, PTL

-----------------------------------------------------------------------------
(***************************************************************************)
(* What a function gives for the elements of a sequence, one result behind *)
(* the other: the texts, ids and bytes of encode() and decode().           *)
(***************************************************************************)
\* The sequence of the values g has for the elements of s, one behind the other.
FlatMap(g, s) == FlattenSeq([i \in DOMAIN s |-> g[s[i]]])

\* f[k] is what the first k elements give.
Collects(f, g, s) ==
  f[0] = <<>> /\ \A k \in 1..Len(s) : f[k] = f[k - 1] \o g[s[k]]

IsFlat(f, g, s) == Collects(f, g, s) /\ f[Len(s)] = FlatMap(g, s)

LEMMA FlatMapCollects ==
  ASSUME NEW D, NEW S, NEW g \in [D -> Seq(S)], NEW s \in Seq(D)
  PROVE  (\E f : IsFlat(f, g, s)) /\ FlatMap(g, s) \in Seq(S)
  <1> DEFINE t == [i \in DOMAIN s |-> g[s[i]]]
             n == Len(s)
  <1>0. n \in Nat /\ DOMAIN s = 1..n
    OBVIOUS
  <1>1. t \in Seq(Seq(S)) /\ Len(t) = n /\ \A i \in 1..n : t[i] = g[s[i]] /\ t[i] \in Seq(S)
    OBVIOUS
  <1> HIDE DEF t, n
  <1>2. PICK h : Flattens(h, t, n) /\ FlattenSeq(t) = IF n = 0 THEN <<>> ELSE h[n]
    BY <1>1, FlattenIs
  <1>3. \A k \in 1..n : h[k] \in Seq(S)
    BY <1>0, <1>1, <1>2, FlattensType
  <1>4. \A k \in 1..n : h[k] = IF k = 1 THEN t[k] ELSE h[k - 1] \o t[k]
    BY <1>2, Zenon DEF Flattens
  <1> DEFINE f == [k \in 0..n |-> IF k = 0 THEN <<>> ELSE h[k]]
  <1>5. f[0] = <<>>
    BY <1>0
  <1>6. ASSUME NEW k \in 1..n PROVE f[k] = f[k - 1] \o g[s[k]]
    <2>1. k \in 0..n /\ k - 1 \in 0..n /\ k # 0
      BY <1>0
    <2>2. f[k] = h[k] /\ t[k] = g[s[k]] /\ t[k] \in Seq(S)
      BY <1>1, <2>1
    <2>3. CASE k = 1
      <3>1. f[k - 1] = <<>> /\ h[k] = t[k]
        BY <1>4, <2>1, <2>3
      <3>2. <<>> \o t[k] = t[k]
        BY <2>2, ConcatEmpty
      <3> QED BY <2>2, <3>1, <3>2
    <2>4. CASE k # 1
      <3>1. f[k - 1] = h[k - 1] /\ h[k] = h[k - 1] \o t[k]
        <4>1. k - 1 # 0
          BY <2>4, <1>0
        <4> QED BY <1>4, <2>1, <2>4, <4>1
      <3> QED BY <2>2, <3>1
    <2> QED BY <2>3, <2>4
  <1>7. f[n] = FlattenSeq(t) /\ FlattenSeq(t) \in Seq(S)
    <2>1. f[n] = IF n = 0 THEN <<>> ELSE h[n]
      BY <1>0
    <2>2. FlattenSeq(t) \in Seq(S)
      BY <1>1, FlattenType
    <2> QED BY <1>2, <2>1, <2>2
  <1>8. FlatMap(g, s) = FlattenSeq(t)
    BY DEF FlatMap, t
  <1> HIDE DEF f
  <1>9. IsFlat(f, g, s)
    BY <1>5, <1>6, <1>7, <1>8 DEF Collects, IsFlat, n
  <1> QED BY <1>7, <1>8, <1>9, Zenon

StartsWith(t, s) == Len(s) <= Len(t) /\ \A i \in 1..Len(s) : s[i] = t[i]

LEMMA CollectsUnique ==
  ASSUME NEW f, NEW h, NEW g, NEW D, NEW s \in Seq(D), NEW t \in Seq(D),
         Collects(f, g, s), Collects(h, g, t), StartsWith(t, s)
  PROVE  f[Len(s)] = h[Len(s)]
  <1> DEFINE bad == {k \in 0..Len(s) : f[k] # h[k]}
  <1>0. Len(s) \in Nat /\ Len(t) \in Nat /\ Len(s) \in 0..Len(s)
    OBVIOUS
  <1> SUFFICES ASSUME bad # {} PROVE FALSE
    BY <1>0, Zenon
  <1>1. PICK k \in bad : \A m \in bad : k <= m
    <2>1. bad \subseteq Nat
      OBVIOUS
    <2> HIDE DEF bad
    <2> QED BY <2>1, Least
  <1>2. k \in 0..Len(s) /\ f[k] # h[k]
    BY <1>1
  <1>3. k # 0
    BY <1>2, Zenon DEF Collects
  <1>4. k \in 1..Len(s) /\ k \in 1..Len(t) /\ k - 1 \in 0..Len(s) /\ ~ (k <= k - 1)
    BY <1>0, <1>2, <1>3 DEF StartsWith
  <1>5. f[k - 1] = h[k - 1]
    BY <1>1, <1>4
  <1>6. f[k] = f[k - 1] \o g[s[k]] /\ h[k] = h[k - 1] \o g[t[k]] /\ s[k] = t[k]
    BY <1>4 DEF Collects, StartsWith
  <1> QED BY <1>2, <1>5, <1>6

LEMMA FlatMapType ==
  ASSUME NEW D, NEW S, NEW g \in [D -> Seq(S)], NEW s \in Seq(D)
  PROVE  FlatMap(g, s) \in Seq(S)
  BY FlatMapCollects, Zenon

LEMMA FlatMapEmpty ==
  ASSUME NEW g
  PROVE  FlatMap(g, <<>>) = <<>>
  <1> DEFINE t == [i \in DOMAIN <<>> |-> g[<<>>[i]]]
  <1>1. Len(t) = 0 /\ t = <<>>
    OBVIOUS
  <1> HIDE DEF t
  <1>2. FlattenSeq(t) = t
    BY <1>1 DEF FlattenSeq
  <1> QED BY <1>1, <1>2 DEF FlatMap, t

LEMMA FlatMapAppend ==
  ASSUME NEW D, NEW S, NEW g \in [D -> Seq(S)], NEW s \in Seq(D), NEW x \in D
  PROVE  FlatMap(g, Append(s, x)) = FlatMap(g, s) \o g[x]
  <1>0. Append(s, x) \in Seq(D) /\ Len(s) \in Nat
    OBVIOUS
  <1>1. PICK t \in Seq(D) : t = Append(s, x)
    BY <1>0
  <1>a. Len(t) = Len(s) + 1 /\ t[Len(s) + 1] = x /\ \A i \in 1..Len(s) : s[i] = t[i]
    BY <1>1
  <1>2. PICK f : IsFlat(f, g, s)
    BY FlatMapCollects, Zenon
  <1>3. PICK h : IsFlat(h, g, t)
    BY FlatMapCollects, Zenon
  <1>4. f[Len(s)] = h[Len(s)]
    <2>1. StartsWith(t, s)
      BY <1>0, <1>a DEF StartsWith
    <2>2. Collects(f, g, s) /\ Collects(h, g, t)
      BY <1>2, <1>3 DEF IsFlat
    <2> QED BY <2>1, <2>2, CollectsUnique
  <1>5. h[Len(t)] = h[Len(s)] \o g[x]
    <2>1. Len(t) \in 1..Len(t) /\ Len(t) - 1 = Len(s)
      BY <1>0, <1>a
    <2> QED BY <1>a, <1>3, <2>1 DEF Collects, IsFlat
  <1> QED BY <1>1, <1>2, <1>3, <1>4, <1>5 DEF IsFlat

LEMMA FlatMapOne ==
  ASSUME NEW D, NEW S, NEW g \in [D -> Seq(S)], NEW x \in D
  PROVE  FlatMap(g, <<x>>) = g[x]
  <1>1. <<>> \in Seq(D) /\ Append(<<>>, x) = <<x>> /\ g[x] \in Seq(S)
    OBVIOUS
  <1>2. FlatMap(g, Append(<<>>, x)) = FlatMap(g, <<>>) \o g[x]
    BY <1>1, FlatMapAppend
  <1>3. <<>> \o g[x] = g[x]
    BY <1>1, ConcatEmpty
  <1> QED BY <1>1, <1>2, <1>3, FlatMapEmpty

\* Two functions on the prefixes of t that start alike and grow alike are the same.
Prefix(t, k) == SubSeq(t, 1, k)

LEMMA PrefixIs ==
  ASSUME NEW D, NEW t \in Seq(D), NEW k \in 1..Len(t)
  PROVE  /\ Prefix(t, k - 1) \in Seq(D) /\ t[k] \in D
         /\ Prefix(t, k) = Append(Prefix(t, k - 1), t[k])
  BY DEF Prefix

LEMMA PrefixEnds ==
  ASSUME NEW D, NEW t \in Seq(D)
  PROVE  Prefix(t, 0) = <<>> /\ Prefix(t, Len(t)) = t
  BY DEF Prefix

LEMMA FlatMapConcat ==
  ASSUME NEW D, NEW S, NEW g \in [D -> Seq(S)], NEW s \in Seq(D), NEW t \in Seq(D)
  PROVE  FlatMap(g, s \o t) = FlatMap(g, s) \o FlatMap(g, t)
  <1> DEFINE P(k) == FlatMap(g, s \o Prefix(t, k)) = FlatMap(g, s) \o FlatMap(g, Prefix(t, k))
             bad == {k \in 0..Len(t) : ~ P(k)}
  <1>0. Len(t) \in Nat /\ FlatMap(g, s) \in Seq(S)
    BY FlatMapType
  <1>1. P(0)
    <2>1. s \o <<>> = s /\ FlatMap(g, s) \o <<>> = FlatMap(g, s)
      BY <1>0, ConcatEmpty
    <2>2. Prefix(t, 0) = <<>>
      BY PrefixEnds
    <2> QED BY <2>1, <2>2, FlatMapEmpty
  <1>2. ASSUME NEW k \in 1..Len(t), P(k - 1) PROVE P(k)
    <2>1. PICK u \in Seq(D), x \in D : u = Prefix(t, k - 1) /\ x = t[k]
      BY PrefixIs
    <2>2. Prefix(t, k) = Append(u, x)
      BY <2>1, PrefixIs
    <2>3. s \o Append(u, x) = Append(s \o u, x) /\ s \o u \in Seq(D)
      OBVIOUS
    <2>4. FlatMap(g, Append(s \o u, x)) = FlatMap(g, s \o u) \o g[x]
      BY <2>3, FlatMapAppend
    <2>5. FlatMap(g, Append(u, x)) = FlatMap(g, u) \o g[x]
      BY FlatMapAppend
    <2>6. FlatMap(g, s \o u) = FlatMap(g, s) \o FlatMap(g, u)
      BY <1>2, <2>1
    <2>7. PICK a \in Seq(S), b \in Seq(S), c \in Seq(S) :
            a = FlatMap(g, s) /\ b = FlatMap(g, u) /\ c = g[x]
      <3>1. FlatMap(g, u) \in Seq(S) /\ g[x] \in Seq(S)
        BY FlatMapType
      <3> QED BY <1>0, <3>1
    <2>8. (a \o b) \o c = a \o (b \o c)
      OBVIOUS
    <2> QED BY <2>2, <2>3, <2>4, <2>5, <2>6, <2>7, <2>8
  <1> HIDE DEF P
  <1>3. bad = {}
    <2> SUFFICES ASSUME bad # {} PROVE FALSE
      OBVIOUS
    <2>1. PICK k \in bad : \A m \in bad : k <= m
      <3>1. bad \subseteq Nat
        OBVIOUS
      <3> HIDE DEF bad
      <3> QED BY <3>1, Least
    <2>2. k \in 0..Len(t) /\ ~ P(k)
      BY <2>1
    <2>3. k # 0
      BY <1>1, <2>2
    <2>4. k \in 1..Len(t) /\ k - 1 \in 0..Len(t) /\ ~ (k <= k - 1)
      BY <1>0, <2>2, <2>3
    <2>5. P(k - 1)
      BY <2>1, <2>4
    <2> QED BY <1>2, <2>2, <2>4, <2>5
  <1>4. P(Len(t))
    <2>1. Len(t) \in 0..Len(t)
      BY <1>0
    <2> QED BY <1>3, <2>1
  <1> QED BY <1>4, PrefixEnds DEF P

-----------------------------------------------------------------------------
(***************************************************************************)
(* The special tokens of the text: the reference definition scans it from  *)
(* left to right, and a turn of the loop over the text finds the same place*)
(* and a token of the same name.                                           *)
(***************************************************************************)
Here(i) == {s \in DOMAIN special_tokens : OccursAt(text, special_tokens[s][1], i)}

\* m is one of the longest special tokens at place i.
LongestAt(m, i) ==
  m \in Here(i) /\ \A r \in Here(i) : Len(special_tokens[r][1]) <= Len(special_tokens[m][1])

LEMMA LongestIs ==
  ASSUME text \in Seq(CodePoint), SpecialsOK, NEW i, Occurs(i)
  PROVE  LongestAt(Longest(i), i)
  <1>1. Here(i) \subseteq Nat /\ Here(i) # {} /\ Here(i) \subseteq DOMAIN special_tokens
    BY DEF Occurs, Here, SpecialsOK
  <1>2. PICK s \in Here(i) : \A r \in Here(i) : s <= r
    BY <1>1, Least
  <1>3. ASSUME NEW r \in Here(i)
        PROVE  Len(special_tokens[r][1]) <= Len(special_tokens[s][1])
    <2>1. s <= r /\ s \in Nat /\ r \in Nat /\ s \in DOMAIN special_tokens /\ r \in DOMAIN special_tokens
      BY <1>1, <1>2
    <2>2. special_tokens[s][1] \in Seq(CodePoint) /\ special_tokens[r][1] \in Seq(CodePoint)
      BY <2>1 DEF SpecialsOK, SpecialToken
    <2>3. Len(special_tokens[s][1]) \in Nat /\ Len(special_tokens[r][1]) \in Nat
      BY <2>2
    <2>4. s < r => Len(special_tokens[s][1]) >= Len(special_tokens[r][1])
      BY <2>1 DEF SpecialsOK
    <2>5. s = r \/ s < r
      BY <2>1
    <2> QED BY <2>3, <2>4, <2>5
  <1>4. \E m \in Here(i) : \A r \in Here(i) : Len(special_tokens[r][1]) <= Len(special_tokens[m][1])
    BY <1>3
  <1> QED BY <1>4, Zenon DEF Longest, LongestAt, Here

\* Two longest tokens at one place have one name.
LEMMA SameName ==
  ASSUME text \in Seq(CodePoint), SpecialsOK, NEW i, NEW m, NEW n, LongestAt(m, i), LongestAt(n, i)
  PROVE  special_tokens[m][1] = special_tokens[n][1]
  <1>1. m \in DOMAIN special_tokens /\ n \in DOMAIN special_tokens
    BY DEF LongestAt, Here
  <1>2. /\ special_tokens[m][1] \in Seq(CodePoint) /\ special_tokens[n][1] \in Seq(CodePoint)
    BY <1>1 DEF SpecialsOK, SpecialToken
  <1>3. Len(special_tokens[m][1]) \in Nat /\ Len(special_tokens[n][1]) \in Nat
    BY <1>2
  <1>4. Len(special_tokens[m][1]) <= Len(special_tokens[n][1])
        /\ Len(special_tokens[n][1]) <= Len(special_tokens[m][1])
    BY DEF LongestAt
  <1>5. Len(special_tokens[m][1]) = Len(special_tokens[n][1])
    BY <1>3, <1>4
  <1>6. OccursAt(text, special_tokens[m][1], i) /\ OccursAt(text, special_tokens[n][1], i)
    BY DEF LongestAt, Here
  <1> QED BY <1>5, <1>6 DEF OccursAt

LEMMA NameFits ==
  ASSUME text \in Seq(CodePoint), SpecialsOK, NEW i \in 1..Len(text), NEW m, LongestAt(m, i)
  PROVE  /\ m \in DOMAIN special_tokens /\ special_tokens[m][1] \in Seq(CodePoint)
         /\ special_tokens[m][2] \in Int
         /\ i + Len(special_tokens[m][1]) \in (i + 1)..(Len(text) + 1)
  <1>1. m \in DOMAIN special_tokens /\ OccursAt(text, special_tokens[m][1], i)
    BY DEF LongestAt, Here
  <1>2. special_tokens[m][1] \in Seq(CodePoint) /\ special_tokens[m][1] # <<>>
        /\ special_tokens[m][2] \in Int
    BY <1>1 DEF SpecialsOK, SpecialToken
  <1>3. PICK s \in Seq(CodePoint) : s = special_tokens[m][1]
    BY <1>2
  <1>4. Len(s) \in Nat /\ Len(s) # 0 /\ Len(text) \in Nat
    BY <1>2, <1>3
  <1>5. i + Len(s) <= Len(text) + 1
    BY <1>1, <1>3 DEF OccursAt
  <1> QED BY <1>1, <1>2, <1>3, <1>4, <1>5

LEMMA NextCutIs ==
  ASSUME text \in Seq(CodePoint), SpecialsOK
  PROVE  /\ Forward(Len(text), NextCut) /\ Len(text) \in Nat
         /\ \A i \in 1..Len(text) : ~ Occurs(i) => NextCut[i] = i + 1
         /\ \A i \in 1..Len(text) :
              Occurs(i) => NextCut[i] = i + Len(special_tokens[Longest(i)][1])
  <1>0. Len(text) \in Nat /\ DOMAIN text = 1..Len(text)
    OBVIOUS
  <1>1. ASSUME NEW i \in 1..Len(text)
        PROVE  NextCut[i] = IF Occurs(i) THEN i + Len(special_tokens[Longest(i)][1]) ELSE i + 1
    BY <1>0 DEF NextCut
  <1>2. ASSUME NEW i \in 1..Len(text) PROVE NextCut[i] \in (i + 1)..(Len(text) + 1)
    <2>1. CASE Occurs(i)
      <3>1. i + Len(special_tokens[Longest(i)][1]) \in (i + 1)..(Len(text) + 1)
        BY <2>1, LongestIs, NameFits
      <3> QED BY <1>1, <2>1, <3>1
    <2>2. CASE ~ Occurs(i)
      BY <1>0, <1>1, <2>2
    <2> QED BY <2>1, <2>2
  <1> QED BY <1>0, <1>1, <1>2 DEF Forward

IdMade == [i \in DOMAIN text |-> IF Occurs(i) THEN <<special_tokens[Longest(i)][2]>> ELSE <<>>]

LEMMA CutIdsScan ==
  ASSUME text \in Seq(CodePoint), SpecialsOK
  PROVE  /\ IsScan(CutIds, Len(text), IdMade, NextCut)
         /\ \A i \in 1..(Len(text) + 1) : CutIds[i] \in Seq(Int)
  <1>0. Len(text) \in Nat /\ DOMAIN text = 1..Len(text)
    OBVIOUS
  <1>1. Forward(Len(text), NextCut)
    BY NextCutIs
  <1>2. CutIds = ScanFrom(Len(text), IdMade, NextCut)
    BY Zenon DEF CutIds, IdMade
  <1>3. ASSUME NEW i \in 1..Len(text) PROVE IdMade[i] \in Seq(Int)
    <2>1. IdMade[i] = IF Occurs(i) THEN <<special_tokens[Longest(i)][2]>> ELSE <<>>
      BY <1>0 DEF IdMade
    <2>2. Occurs(i) => special_tokens[Longest(i)][2] \in Int
      BY LongestIs, NameFits
    <2> QED BY <2>1, <2>2
  <1>4. PICK made, next : made = IdMade /\ next = NextCut
    OBVIOUS
  <1>5. PICK n \in Nat : n = Len(text)
    BY <1>0
  <1>6. Forward(n, next) /\ \A i \in 1..n : made[i] \in Seq(Int)
    BY <1>1, <1>3, <1>4, <1>5
  <1>7. IsScan(ScanFrom(n, made, next), n, made, next)
    BY <1>6, ScanFromIs
  <1>8. \A i \in 1..(n + 1) : ScanFrom(n, made, next)[i] \in Seq(Int)
    BY <1>6, ScanFromType
  <1> QED BY <1>2, <1>4, <1>5, <1>7, <1>8

\* Where no special token occurs the scan goes on without one.
LEMMA SkipIds ==
  ASSUME text \in Seq(CodePoint), SpecialsOK, NEW i \in 1..(Len(text) + 1), NEW j \in i..(Len(text) + 1),
         \A k \in i..(j - 1) : ~ Occurs(k)
  PROVE  CutIds[i] = CutIds[j]
  <1> DEFINE bad == {k \in i..j : CutIds[k] # CutIds[j]}
  <1>0. Len(text) \in Nat /\ DOMAIN text = 1..Len(text) /\ i \in Int /\ j \in Nat
    OBVIOUS
  <1>1. ASSUME NEW k \in i..(j - 1) PROVE CutIds[k] = CutIds[k + 1]
    <2>1. k \in 1..Len(text) /\ ~ Occurs(k) /\ k + 1 \in 1..(Len(text) + 1)
      BY <1>0
    <2>2. NextCut[k] = k + 1
      BY <2>1, NextCutIs
    <2>3. IdMade[k] = <<>>
      BY <1>0, <2>1 DEF IdMade
    <2>4. CutIds[k] = IdMade[k] \o CutIds[NextCut[k]]
      BY <2>1, CutIdsScan DEF IsScan
    <2>5. CutIds[k + 1] \in Seq(Int)
      BY <2>1, CutIdsScan
    <2>6. <<>> \o CutIds[k + 1] = CutIds[k + 1]
      BY <2>5, ConcatEmpty
    <2> QED BY <2>2, <2>3, <2>4, <2>6
  <1> SUFFICES ASSUME bad # {} PROVE FALSE
    BY <1>0
  <1>2. PICK k \in bad : \A m \in bad : m <= k
    <2>0. bad \subseteq 0..j
      BY <1>0
    <2> HIDE DEF bad
    <2>1. Max(bad) \in bad /\ \A m \in bad : m <= Max(bad)
      BY <1>0, <2>0, MaxOf
    <2> QED BY <2>1
  <1>3. k \in i..j /\ CutIds[k] # CutIds[j]
    BY <1>2
  <1>4. k # j
    BY <1>3
  <1>5. k \in i..(j - 1) /\ k + 1 \in i..j /\ ~ (k + 1 <= k)
    BY <1>0, <1>3, <1>4
  <1>6. CutIds[k + 1] = CutIds[j]
    BY <1>2, <1>5
  <1> QED BY <1>1, <1>3, <1>5, <1>6

LEMMA IdsAtToken ==
  ASSUME text \in Seq(CodePoint), SpecialsOK, SpecialsApart, NEW i \in 1..Len(text), NEW m, LongestAt(m, i)
  PROVE  CutIds[i] = <<special_tokens[m][2]>> \o CutIds[i + Len(special_tokens[m][1])]
  <1>0. Occurs(i) /\ i \in DOMAIN text /\ m \in DOMAIN special_tokens
    BY DEF Occurs, LongestAt, Here
  <1>1. LongestAt(Longest(i), i)
    BY <1>0, LongestIs
  <1>2. special_tokens[Longest(i)][1] = special_tokens[m][1] /\ Longest(i) \in DOMAIN special_tokens
    BY <1>1, SameName DEF LongestAt, Here
  <1>3. special_tokens[Longest(i)][2] = special_tokens[m][2]
    BY <1>0, <1>2 DEF SpecialsApart
  <1>4. CutIds[i] = IdMade[i] \o CutIds[NextCut[i]]
    BY CutIdsScan DEF IsScan
  <1>5. IdMade[i] = <<special_tokens[Longest(i)][2]>>
    BY <1>0 DEF IdMade
  <1>6. NextCut[i] = i + Len(special_tokens[Longest(i)][1])
    BY <1>0, NextCutIs
  <1> QED BY <1>2, <1>3, <1>4, <1>5, <1>6

\* What a turn of the loop over the text finds.
LEMMA ScanFinds ==
  ASSUME TokInv, Scan
  PROVE  /\ pos \in 1..Len(text) /\ pos' \in pos..(Len(text) + 1)
         /\ \A k \in pos..(pos' - 1) : ~ Occurs(k)
         /\ match' # 0 => LongestAt(match', pos') /\ pos' \in 1..Len(text)
         /\ match' = 0 => pos' = Len(text) + 1
  <1>0. text \in Seq(CodePoint) /\ pos \in 1..(Len(text) + 1) /\ SpecialsOK /\ Len(text) \in Nat
    BY DEF TokInv, ScanOK
  <1>1. match' = Nearest(pos) /\ pos' = IF match' = 0 THEN Len(text) + 1 ELSE Place(match', pos)
    BY DEF Scan, Place
  <1>2. pos \in 1..Len(text)
    BY <1>0 DEF Scan
  <1>3. CASE match' = 0
    <2>1. pos' = Len(text) + 1
      BY <1>1, <1>3
    <2>2. ASSUME NEW k \in pos..(pos' - 1), Occurs(k) PROVE FALSE
      <3>1. PICK s \in DOMAIN special_tokens : OccursAt(text, special_tokens[s][1], k)
        BY <2>2 DEF Occurs
      <3>2. Place(s, pos) = 0
        BY <1>0, <1>1, <1>3, NearestIs
      <3>3. k \in pos..(Len(text) + 1)
        BY <1>0, <2>1
      <3> QED BY <1>0, <3>1, <3>2, <3>3, PlaceIs
    <2> QED BY <1>0, <1>2, <1>3, <2>1, <2>2
  <1>4. CASE match' # 0
    <2>1. pos' = Place(match', pos)
      BY <1>1, <1>4
    <2>2. /\ match' \in DOMAIN special_tokens /\ Place(match', pos) # 0
          /\ \A r \in DOMAIN special_tokens :
               Place(r, pos) # 0 =>
                 \/ Place(match', pos) < Place(r, pos)
                 \/ Place(match', pos) = Place(r, pos) /\ match' <= r
      BY <1>0, <1>1, <1>4, NearestIs
    <2>3. pos' \in 0..(Len(text) + 1) /\ pos' >= pos
          /\ OccursAt(text, special_tokens[match'][1], pos')
      BY <1>0, <2>1, <2>2, PlaceIs
    <2>4. ASSUME NEW k \in pos..(Len(text) + 1), NEW r \in DOMAIN special_tokens,
                 OccursAt(text, special_tokens[r][1], k)
          PROVE  Place(r, pos) \in Nat /\ Place(r, pos) # 0 /\ Place(r, pos) <= k
                 /\ Place(r, pos) >= pos
      BY <1>0, <2>4, PlaceIs
    <2>5. ASSUME NEW k \in pos..(pos' - 1), Occurs(k) PROVE FALSE
      <3>1. PICK r \in DOMAIN special_tokens : OccursAt(text, special_tokens[r][1], k)
        BY <2>5 DEF Occurs
      <3>0. pos' \in Int /\ pos \in Int /\ pos' <= Len(text) + 1 /\ Len(text) \in Nat
        <4>1. pos' \in 0..(Len(text) + 1)
          BY <2>3
        <4> QED BY <1>0, <4>1
      <3>2. k \in pos..(Len(text) + 1) /\ k < pos' /\ k \in Int
        <4>1. PICK p \in Int, q \in Int, n \in Int : p = pos /\ q = pos' /\ n = Len(text)
          BY <3>0
        <4>2. k \in p..(q - 1) /\ q <= n + 1
          BY <2>5, <3>0, <4>1
        <4>3. k \in p..(n + 1) /\ k < q /\ k \in Int
          BY <4>2
        <4> QED BY <4>1, <4>3
      <3>3. Place(r, pos) \in Nat /\ Place(r, pos) # 0 /\ Place(r, pos) <= k
        BY <2>4, <3>1, <3>2
      <3>4. pos' < Place(r, pos) \/ pos' = Place(r, pos)
        BY <2>1, <2>2, <3>3
      <3> QED BY <3>0, <3>2, <3>3, <3>4
    <2>6. ASSUME NEW r \in Here(pos')
          PROVE  Len(special_tokens[r][1]) <= Len(special_tokens[match'][1])
      <3>1. r \in DOMAIN special_tokens /\ OccursAt(text, special_tokens[r][1], pos')
        BY DEF Here
      <3>2. pos' \in pos..(Len(text) + 1)
        BY <1>0, <2>3
      <3>3. Place(r, pos) \in Nat /\ Place(r, pos) # 0 /\ Place(r, pos) <= pos'
        BY <2>4, <3>1, <3>2
      <3>4. match' <= r
        BY <2>1, <2>2, <2>3, <3>1, <3>3
      <3>5. special_tokens[r][1] \in Seq(CodePoint) /\ special_tokens[match'][1] \in Seq(CodePoint)
        BY <1>0, <2>2, <3>1 DEF SpecialsOK, SpecialToken
      <3>6. Len(special_tokens[r][1]) \in Nat /\ Len(special_tokens[match'][1]) \in Nat
        BY <3>5
      <3>7. match' \in Nat /\ r \in Nat
        BY <1>0, <2>2, <3>1 DEF SpecialsOK
      <3>8. match' < r => Len(special_tokens[match'][1]) >= Len(special_tokens[r][1])
        BY <1>0, <2>2, <3>1 DEF SpecialsOK
      <3>9. match' = r \/ match' < r
        BY <3>4, <3>7
      <3> QED BY <3>6, <3>8, <3>9
    <2>7. LongestAt(match', pos')
      BY <2>2, <2>3, <2>6 DEF LongestAt, Here
    <2>8. pos' \in 1..Len(text)
      <3>1. special_tokens[match'][1] \in Seq(CodePoint) /\ special_tokens[match'][1] # <<>>
        BY <1>0, <2>2 DEF SpecialsOK, SpecialToken
      <3>2. Len(special_tokens[match'][1]) \in Nat \ {0}
        BY <3>1
      <3>3. pos' + Len(special_tokens[match'][1]) <= Len(text) + 1
        BY <2>3 DEF OccursAt
      <3> QED BY <1>0, <2>3, <3>2, <3>3
    <2>9. pos' \in pos..(Len(text) + 1)
      BY <1>0, <2>3
    <2> QED BY <1>2, <1>4, <2>5, <2>7, <2>8, <2>9
  <1> QED BY <1>3, <1>4

-----------------------------------------------------------------------------
(***************************************************************************)
(* The tables have their types, and words are made of the symbols of bytes *)
(* and the results of merges, in the cache as well.                        *)
(***************************************************************************)
LEMMA TableIs ==
  ASSUME NEW K, NEW V, NEW entries \in Seq(K \X V)
  PROVE  Table(entries) \in [DOMAIN Table(entries) -> V] /\ DOMAIN Table(entries) \subseteq K
  <1> DEFINE keys == {entries[i][1] : i \in DOMAIN entries}
             at(k) == {i \in DOMAIN entries : entries[i][1] = k}
  <1>0. DOMAIN entries = 1..Len(entries) /\ Len(entries) \in Nat
    OBVIOUS
  <1>1. Table(entries) = [k \in keys |-> entries[Max(at(k))][2]]
    BY Zenon DEF Table
  <1>2. ASSUME NEW k \in keys PROVE entries[Max(at(k))][2] \in V
    <2> DEFINE T == at(k)
    <2>1. T \subseteq 0..Len(entries) /\ T # {}
      BY <1>0
    <2>2. T \subseteq DOMAIN entries
      OBVIOUS
    <2> HIDE DEF T
    <2>3. Max(T) \in T
      BY <1>0, <2>1, MaxOf
    <2>4. Max(T) \in DOMAIN entries
      BY <2>2, <2>3
    <2>5. entries[Max(T)] \in K \X V
      BY <2>4
    <2>6. entries[Max(T)][2] \in V
      BY <2>5
    <2> QED BY <2>6 DEF T
  <1>3. keys \subseteq K
    OBVIOUS
  <1> HIDE DEF keys, at
  <1> QED BY <1>1, <1>2, <1>3

\* Words and the cache are made of atoms.
AtomsOf(r) ==
  {<<ByteSymbol[b]>> : b \in DOMAIN ByteSymbol} \cup {p[1] \o p[2] : p \in DOMAIN r}

TablesOK ==
  /\ vocab \in [DOMAIN vocab -> Int]
  /\ DOMAIN bpe_ranks \subseteq Seq(CodePoint) \X Seq(CodePoint)

WordsOK ==
  /\ \A p \in DOMAIN bpe_cache : bpe_cache[p] \in Seq(AtomsOf(bpe_ranks))
  /\ phase \in {"merge", "emit"} => word \in Seq(AtomsOf(bpe_ranks))

LEMMA AtomsTyped ==
  ASSUME TablesOK
  PROVE  AtomsOf(bpe_ranks) \subseteq Seq(CodePoint) /\ Atoms = AtomsOf(bpe_ranks)
  <1>1. Atoms = AtomsOf(bpe_ranks)
    BY Zenon DEF Atoms, AtomsOf
  <1>2. ASSUME NEW b \in DOMAIN ByteSymbol PROVE <<ByteSymbol[b]>> \in Seq(CodePoint)
    <2>1. ByteSymbol \in [DOMAIN ByteSymbol -> CodePoint]
      BY TokenizerAssumption
    <2>2. ByteSymbol[b] \in CodePoint
      BY <2>1, Zenon
    <2> QED BY <2>2
  <1>3. ASSUME NEW p \in DOMAIN bpe_ranks PROVE p[1] \o p[2] \in Seq(CodePoint)
    <2>1. p[1] \in Seq(CodePoint) /\ p[2] \in Seq(CodePoint)
      BY DEF TablesOK
    <2> QED BY <2>1, ConcatType
  <1> QED BY <1>1, <1>2, <1>3 DEF AtomsOf

LEMMA TablesLoad ==
  ASSUME calls \in 0..Len(Texts), calls < Len(Texts), NEW d \in Documents[calls + 1], Load(d)
  PROVE  TablesOK'
  <1>2. calls + 1 \in DOMAIN Texts
    <2>1. Len(Texts) \in Nat /\ DOMAIN Texts = 1..Len(Texts)
      BY TokenizerAssumption
    <2> QED BY <2>1
  <1>3. /\ d.merges \in Seq(Seq(CodePoint) \X Seq(CodePoint))
        /\ d.added \in Seq(Seq(CodePoint) \X Int) /\ d.vocab \in Seq(Seq(CodePoint) \X Int)
    BY <1>2, TokenizerAssumption
  <1>4. vocab' = Table(d.added \o d.vocab) /\ bpe_ranks' = Ranks(d.merges)
    BY DEF Load
  <1>5. vocab' \in [DOMAIN vocab' -> Int]
    <2> DEFINE K == Seq(CodePoint) \X Int
    <2>0. PICK a \in Seq(K), b \in Seq(K) : a = d.added /\ b = d.vocab
      BY <1>3
    <2> HIDE DEF K
    <2>a. a \o b \in Seq(K)
      OBVIOUS
    <2>1. PICK e \in Seq(Seq(CodePoint) \X Int) : e = d.added \o d.vocab
      BY <2>0, <2>a DEF K
    <2>2. Table(e) \in [DOMAIN Table(e) -> Int]
      BY TableIs
    <2> QED BY <1>4, <2>1, <2>2
  <1>6. DOMAIN bpe_ranks' \subseteq Seq(CodePoint) \X Seq(CodePoint)
    <2> DEFINE K == Seq(CodePoint) \X Seq(CodePoint)
    <2>1. PICK m \in Seq(K) : m = d.merges
      BY <1>3
    <2> HIDE DEF K
    <2> DEFINE e == [i \in DOMAIN m |-> <<m[i], i - 1>>]
    <2>2. e \in Seq(K \X Int)
      <3>1. DOMAIN m = 1..Len(m) /\ Len(m) \in Nat /\ \A i \in DOMAIN m : m[i] \in K
        OBVIOUS
      <3>2. \A i \in 1..Len(m) : <<m[i], i - 1>> \in K \X Int
        BY <3>1
      <3> QED BY <3>1, <3>2
    <2>3. Ranks(m) = Table(e)
      BY DEF Ranks
    <2> HIDE DEF e
    <2>4. DOMAIN Table(e) \subseteq K
      BY <2>2, TableIs
    <2> QED BY <1>4, <2>1, <2>3, <2>4 DEF K
  <1> QED BY <1>5, <1>6 DEF TablesOK

LEMMA LettersAreAtoms ==
  ASSUME NEW t \in Seq(CodePoint)
  PROVE  Letters(Symbols(t)) \in Seq(AtomsOf(bpe_ranks))
  <1>1. PICK b \in Seq(DOMAIN ByteSymbol) : b = Bytes(t)
    BY BytesType
  <1>2. DOMAIN b = 1..Len(b) /\ Len(b) \in Nat /\ \A i \in DOMAIN b : b[i] \in DOMAIN ByteSymbol
    OBVIOUS
  <1>3. Letters(Symbols(t)) = [i \in 1..Len(b) |-> <<ByteSymbol[b[i]]>>]
    <2>1. Symbols(t) = [i \in 1..Len(b) |-> ByteSymbol[b[i]]]
      BY <1>1, <1>2 DEF Symbols
    <2> QED BY <2>1 DEF Letters
  <1>4. \A i \in 1..Len(b) : <<ByteSymbol[b[i]]>> \in AtomsOf(bpe_ranks)
    BY <1>2 DEF AtomsOf
  <1> QED BY <1>2, <1>3, <1>4

LEMMA MergeAllAtoms ==
  ASSUME NEW A, NEW w \in Seq(A), NEW p, p[1] \o p[2] \in A
  PROVE  MergeAll(w, p) \in Seq(A)
  <1>0. Len(w) \in Nat /\ DOMAIN w = 1..Len(w)
    OBVIOUS
  <1>1. ASSUME NEW i \in 1..Len(w)
        PROVE  After(w, p)[i] \in (i + 1)..(Len(w) + 1)
    BY <1>0 DEF After, PairAt
  <1>2. Forward(Len(w), After(w, p))
    BY <1>1 DEF Forward
  <1>3. ASSUME NEW i \in 1..Len(w)
        PROVE  Made(w, p)[i] \in Seq(A)
    <2>1. Made(w, p)[i] = <<IF PairAt(w, p, i) THEN w[i] \o w[i + 1] ELSE w[i]>>
      BY <1>0 DEF Made
    <2>2. ASSUME PairAt(w, p, i) PROVE w[i] \o w[i + 1] \in A
      <3>1. p[1] = w[i] /\ p[2] = w[i + 1]
        BY <2>2 DEF PairAt
      <3> QED BY <3>1
    <2>3. w[i] \in A
      OBVIOUS
    <2>4. (IF PairAt(w, p, i) THEN w[i] \o w[i + 1] ELSE w[i]) \in A
      BY <2>2, <2>3
    <2> QED BY <2>1, <2>4
  <1>4. PICK made, next : made = Made(w, p) /\ next = After(w, p)
    OBVIOUS
  <1>5. PICK n \in Nat : n = Len(w)
    BY <1>0
  <1>6. Forward(n, next) /\ \A i \in 1..n : made[i] \in Seq(A)
    BY <1>2, <1>3, <1>4, <1>5
  <1>7. \A i \in 1..(n + 1) : ScanFrom(n, made, next)[i] \in Seq(A)
    BY <1>6, ScanFromType
  <1>8. MergeAll(w, p) = ScanFrom(n, made, next)[1]
    <2>1. MergeAll(w, p) = ScanFrom(Len(w), Made(w, p), After(w, p))[1]
      BY Zenon DEF MergeAll, Made, After
    <2> QED BY <1>4, <1>5, <2>1
  <1>9. 1 \in 1..(n + 1)
    OBVIOUS
  <1> QED BY <1>7, <1>8, <1>9

LEMMA EmptyTables == vocab = Empty /\ bpe_ranks = Empty => TablesOK
  BY DEF TablesOK, Empty

LEMMA NextChunkIs ==
  ASSUME TokInv, NextChunk
  PROVE  /\ UNCHANGED <<vocab, bpe_ranks, bpe_cache>> /\ chunk \in 1..Len(offsets)
         /\ piece' = Symbols(SubSeq(seg, offsets[chunk][1], offsets[chunk][2] - 1))
         /\ IF piece' \in DOMAIN bpe_cache
            THEN word' = bpe_cache[piece'] /\ phase' = "emit"
            ELSE word' = Letters(piece') /\ phase' = "merge"
         /\ SubSeq(seg, offsets[chunk][1], offsets[chunk][2] - 1) \in Seq(CodePoint)
  <1>1. chunk \in 1..Len(offsets)
    <2>1. Len(offsets) \in Nat /\ chunk \in 1..(Len(offsets) + 1)
      BY DEF TokInv, SplitOK, ChunkOK
    <2>2. chunk <= Len(offsets)
      BY DEF NextChunk
    <2> QED BY <2>1, <2>2
  <1>2. SubSeq(seg, offsets[chunk][1], offsets[chunk][2] - 1) \in Seq(CodePoint)
    <2>1. seg \in Seq(CodePoint) /\ offsets[chunk] \in Offset(Len(seg))
      BY <1>1 DEF TokInv, SplitOK, SegOK
    <2>2. offsets[chunk][1] \in 1..Len(seg) /\ offsets[chunk][2] - 1 \in 1..Len(seg)
      BY <2>1 DEF Offset
    <2> QED BY <2>1, <2>2
  <1> QED BY <1>1, <1>2 DEF NextChunk, tables

AtomInv == TablesOK /\ WordsOK

OthersAtoms ==
  \A t \in Others : other[t] # <<>> => other[t][2] \in Seq(AtomsOf(bpe_ranks))

LEMMA InitAtoms == Init => AtomInv
  <1> SUFFICES ASSUME Init PROVE AtomInv
    OBVIOUS
  <1>1. vocab = Empty /\ bpe_ranks = Empty /\ bpe_cache = Empty /\ phase = "idle"
    BY DEF Init
  <1>2. WordsOK
    BY <1>1 DEF WordsOK, Empty
  <1> QED BY <1>1, <1>2, EmptyTables DEF AtomInv

LEMMA QuietAtoms ==
  ASSUME AtomInv, UNCHANGED <<vocab, bpe_ranks, bpe_cache>>, phase' \notin {"merge", "emit"}
  PROVE  AtomInv'
  BY DEF AtomInv, TablesOK, WordsOK

\* A merge of the best pair leaves a word made of atoms.
LEMMA BestPairAtoms ==
  ASSUME RanksOK, NEW u \in Seq(AtomsOf(bpe_ranks)), Pairs(u) # {}
  PROVE  MergeAll(u, BestPair(u)) \in Seq(AtomsOf(bpe_ranks))
  <1>1. BestPair(u) \in DOMAIN bpe_ranks
    <2>1. BestPair(u) \in Pairs(u)
      BY BestPairIs
    <2> QED BY <2>1 DEF Pairs
  <1>2. BestPair(u)[1] \o BestPair(u)[2] \in AtomsOf(bpe_ranks)
    BY <1>1 DEF AtomsOf
  <1>3. PICK w, p, A : w = u /\ p = BestPair(u) /\ A = AtomsOf(bpe_ranks)
    OBVIOUS
  <1>4. w \in Seq(A) /\ p[1] \o p[2] \in A
    BY <1>2, <1>3
  <1>5. MergeAll(w, p) \in Seq(A)
    BY <1>4, MergeAllAtoms
  <1> QED BY <1>3, <1>5

LEMMA OtherLettersAtoms ==
  ASSUME NEW p \in Seq(Range(ByteSymbol))
  PROVE  Letters(p) \in Seq(AtomsOf(bpe_ranks))
  <1>1. ASSUME NEW i \in DOMAIN p PROVE <<p[i]>> \in AtomsOf(bpe_ranks)
    <2>1. PICK b \in DOMAIN ByteSymbol : ByteSymbol[b] = p[i]
      <3>1. p[i] \in Range(ByteSymbol)
        OBVIOUS
      <3> QED BY <3>1 DEF Range
    <2> QED BY <2>1 DEF AtomsOf
  <1>2. Letters(p) = [i \in 1..Len(p) |-> <<p[i]>>] /\ Len(p) \in Nat /\ DOMAIN p = 1..Len(p)
    BY DEF Letters
  <1>3. PICK A : A = AtomsOf(bpe_ranks)
    OBVIOUS
  <1> QED BY <1>1, <1>2, <1>3

LEMMA NextOthersAtoms ==
  ASSUME TokInv, MergeInv, OthersTyped, OthersAtoms, [Next]_vars
  PROVE  OthersAtoms'
  <1> SUFFICES ASSUME NEW t \in Others, other'[t] # <<>>
               PROVE  other'[t][2] \in Seq(AtomsOf(bpe_ranks'))
    BY DEF OthersAtoms, AtomsOf
  <1>1. UNCHANGED bpe_ranks
    BY OtherCases
  <1>2. other'[t][2] \in Seq(AtomsOf(bpe_ranks))
    <2>1. CASE other'[t] = other[t] /\ other[t] # <<>>
      BY <2>1 DEF OthersAtoms
    <2>2. CASE \E p \in OtherPieces[calls] : other'[t] = <<p, Letters(p)>>
      BY <2>2, OtherPieceIs, OtherLettersAtoms
    <2>3. CASE /\ other[t] # <<>> /\ Pairs(other[t][2]) # {}
               /\ other'[t] = <<other[t][1], MergeAll(other[t][2], BestPair(other[t][2]))>>
      BY <2>3, BestPairAtoms DEF OthersAtoms, MergeInv
    <2> QED BY <2>1, <2>2, <2>3, OtherCases
  <1> QED BY <1>1, <1>2

LEMMA NextAtoms ==
  ASSUME TokInv, MergeInv, AtomInv, OthersAtoms, [Next]_vars
  PROVE  AtomInv'
  <1>1. CASE calls < Len(Texts) /\ \E d \in Documents[calls + 1] : Load(d)
    <2>1. calls \in 0..Len(Texts)
      BY DEF TokInv, ControlOK
    <2>2. PICK d \in Documents[calls + 1] : Load(d)
      BY <1>1
    <2>3. TablesOK'
      BY <1>1, <2>1, <2>2, TablesLoad
    <2>4. bpe_cache' = Empty /\ phase' = "idle"
      BY <2>2 DEF Load, ClearedCache
    <2>5. WordsOK'
      BY <2>4 DEF WordsOK, Empty
    <2> QED BY <2>3, <2>5 DEF AtomInv
  <1>2. CASE LoadEmptyBuffer
    <2>1. UNCHANGED <<vocab, bpe_ranks, bpe_cache>> /\ phase' = "idle"
      BY <1>2 DEF LoadEmptyBuffer
    <2> QED BY <2>1, QuietAtoms
  <1>3. CASE calls < Len(Texts) /\ \E t \in Texts[calls + 1] : Encode(t)
    <2>1. UNCHANGED <<vocab, bpe_ranks, bpe_cache>> /\ phase' \in {"done", "scan"}
      BY <1>3 DEF Encode, tables
    <2> QED BY <2>1, QuietAtoms
  <1>4. CASE Scan \/ PushSpecial \/ Finish \/ Emit \/ ChunksDone
    <2>1. UNCHANGED <<vocab, bpe_ranks, bpe_cache>> /\ phase' \notin {"merge", "emit"}
      BY <1>4 DEF Scan, PushSpecial, Finish, Emit, ChunksDone, tables
    <2> QED BY <2>1, QuietAtoms
  <1>5. CASE Split
    <2>1. UNCHANGED <<vocab, bpe_ranks, bpe_cache>> /\ phase' \in {"split", "chunk"}
      <3>1. CASE SplitDone
        BY <3>1 DEF SplitDone, tables
      <3>2. CASE \E e : AddToken(e) /\ phase = "split"
        BY <3>2 DEF AddToken, tables
      <3> QED BY <1>5, <3>1, <3>2, Zenon
           DEF Split, SplitContraction, SplitWord, SplitNumber, SplitSymbols, SplitNewLines,
               SplitSpacesBefore, SplitSpaces, SplitOther, InSpaces, BeforeSymbols, Splitting
    <2> QED BY <2>1, QuietAtoms
  <1>6. CASE NextChunk
    <2>1. /\ UNCHANGED <<vocab, bpe_ranks, bpe_cache>> /\ chunk \in 1..Len(offsets)
          /\ piece' = Symbols(SubSeq(seg, offsets[chunk][1], offsets[chunk][2] - 1))
          /\ IF piece' \in DOMAIN bpe_cache
             THEN word' = bpe_cache[piece'] /\ phase' = "emit"
             ELSE word' = Letters(piece') /\ phase' = "merge"
      BY <1>6, NextChunkIs
    <2>2. SubSeq(seg, offsets[chunk][1], offsets[chunk][2] - 1) \in Seq(CodePoint)
      BY <1>6, NextChunkIs
    <2>3. Letters(piece') \in Seq(AtomsOf(bpe_ranks))
      BY <2>1, <2>2, LettersAreAtoms
    <2>4. word' \in Seq(AtomsOf(bpe_ranks))
      BY <2>1, <2>3 DEF AtomInv, WordsOK
    <2> QED BY <2>1, <2>4 DEF AtomInv, TablesOK, WordsOK
  <1>7. CASE MergeStep
    <2>1. /\ UNCHANGED <<vocab, bpe_ranks, bpe_cache>> /\ phase = "merge" /\ phase' = "merge"
          /\ Pairs(word) # {} /\ word' = MergeAll(word, BestPair(word))
      BY <1>7 DEF MergeStep, tables
    <2>2. MergeAll(word, BestPair(word)) \in Seq(AtomsOf(bpe_ranks))
      BY <2>1, BestPairAtoms DEF AtomInv, WordsOK, MergeInv
    <2> QED BY <2>1, <2>2 DEF AtomInv, TablesOK, WordsOK
  <1>8. CASE MergeEnd
    <2>1. /\ UNCHANGED <<vocab, bpe_ranks, word>> /\ phase = "merge" /\ phase' = "emit"
          /\ bpe_cache' = [p \in DOMAIN bpe_cache \cup {piece} |->
                             IF p = piece THEN word ELSE bpe_cache[p]]
      BY <1>8 DEF MergeEnd, tables, merge
    <2>2. word \in Seq(AtomsOf(bpe_ranks))
      BY <2>1 DEF AtomInv, WordsOK
    <2> QED BY <2>1, <2>2 DEF AtomInv, TablesOK, WordsOK
  <1>9. CASE UNCHANGED vars
    <2>1. UNCHANGED <<vocab, bpe_ranks, bpe_cache, phase, word>>
      BY <1>9 DEF vars, tables, merge
    <2> QED BY <2>1 DEF AtomInv, TablesOK, WordsOK
  <1>10. CASE OtherStep
    <2>1. UNCHANGED <<vocab, bpe_ranks, word>> /\ phase' \in {phase, "torn"}
      BY <1>10, OtherStepIs
    <2>2. CASE UNCHANGED bpe_cache
      BY <2>1, <2>2 DEF AtomInv, TablesOK, WordsOK
    <2>3. ASSUME NEW t \in Others, other[t] # <<>>,
                 bpe_cache' = [p \in DOMAIN bpe_cache \cup {other[t][1]} |->
                                IF p = other[t][1] THEN other[t][2] ELSE bpe_cache[p]]
          PROVE  AtomInv'
      <3>1. other[t][2] \in Seq(AtomsOf(bpe_ranks))
        BY <2>3 DEF OthersAtoms
      <3> QED BY <2>1, <2>3, <3>1 DEF AtomInv, TablesOK, WordsOK
    <2> QED BY <1>10, <2>2, <2>3, OtherStepIs
  <1> QED BY <1>1, <1>2, <1>3, <1>4, <1>5, <1>6, <1>7, <1>8, <1>9, <1>10 DEF Next, Step

-----------------------------------------------------------------------------
(***************************************************************************)
(* The inductive invariant of the special tokens: the ones emitted so far  *)
(* and the ones from here on are those of the text.                        *)
(***************************************************************************)
\* The definitions the property is made of, as functions of the state they read.
OccursIn(t, st, i) == \E s \in DOMAIN st : OccursAt(t, st[s][1], i)

LongestIn(t, st, i) ==
  LET here == {s \in DOMAIN st : OccursAt(t, st[s][1], i)}
  IN CHOOSE s \in here : \A r \in here : Len(st[r][1]) <= Len(st[s][1])

NextCutOf(t, st) ==
  [i \in DOMAIN t |-> IF OccursIn(t, st, i) THEN i + Len(st[LongestIn(t, st, i)][1]) ELSE i + 1]

CutIdsOf(t, st) ==
  ScanFrom(Len(t),
    [i \in DOMAIN t |-> IF OccursIn(t, st, i) THEN <<st[LongestIn(t, st, i)][2]>> ELSE <<>>],
    NextCutOf(t, st))

LongestAtOf(t, st, m, i) ==
  LET here == {s \in DOMAIN st : OccursAt(t, st[s][1], i)}
  IN m \in here /\ \A r \in here : Len(st[r][1]) <= Len(st[m][1])

SpecialMap(st) ==
  [x \in Int |-> IF \E s \in DOMAIN st : st[s][2] = x THEN <<x>> ELSE <<>>]

LEMMA CutIdsSame ==
  ASSUME UNCHANGED <<text, special_tokens>>
  PROVE  CutIds' = CutIds
  <1>1. CutIds = CutIdsOf(text, special_tokens)
    BY Zenon DEF CutIds, CutIdsOf, NextCut, NextCutOf, Occurs, OccursIn, Longest, LongestIn
  <1>2. CutIds' = CutIdsOf(text', special_tokens')
    BY Zenon DEF CutIds, CutIdsOf, NextCut, NextCutOf, Occurs, OccursIn, Longest, LongestIn
  <1> QED BY <1>1, <1>2

LEMMA LongestSame ==
  ASSUME UNCHANGED special_tokens, text' = text, NEW m, NEW i, LongestAt(m, i), m = match', i = pos'
  PROVE  LongestAt(match, pos)'
  <1>1. LongestAt(m, i) = LongestAtOf(text, special_tokens, m, i)
    BY Zenon DEF LongestAt, LongestAtOf, Here
  <1>2. LongestAt(match, pos)' = LongestAtOf(text', special_tokens', match', pos')
    BY Zenon DEF LongestAt, LongestAtOf, Here
  <1> QED BY <1>1, <1>2

LEMMA ApartSame ==
  ASSUME UNCHANGED <<vocab, bpe_ranks, special_tokens>>, SpecialsApart'
  PROVE  SpecialsApart
  BY Zenon DEF SpecialsApart, Atoms, IsSpecialId

LEMMA SpecialIdsIs ==
  ASSUME NEW ids \in Seq(Int)
  PROVE  SpecialIds(ids) = FlatMap(SpecialMap(special_tokens), ids)
  <1>1. ASSUME NEW i \in DOMAIN ids
        PROVE  SpecialMap(special_tokens)[ids[i]] = IF IsSpecialId(ids[i]) THEN <<ids[i]>> ELSE <<>>
    <2>1. ids[i] \in Int
      OBVIOUS
    <2> QED BY <2>1, Zenon DEF SpecialMap, IsSpecialId
  <1>2. [i \in DOMAIN ids |-> SpecialMap(special_tokens)[ids[i]]]
          = [i \in DOMAIN ids |-> IF IsSpecialId(ids[i]) THEN <<ids[i]>> ELSE <<>>]
    BY <1>1, Zenon
  <1> QED BY <1>2 DEF SpecialIds, FlatMap

LEMMA SpecialIdsNext ==
  ASSUME tokens' \in Seq(Int)
  PROVE  SpecialIds(tokens)' = FlatMap(SpecialMap(special_tokens'), tokens')
  <1>1. ASSUME NEW i \in DOMAIN tokens'
        PROVE  SpecialMap(special_tokens')[tokens'[i]]
                 = IF IsSpecialId(tokens[i])' THEN <<tokens'[i]>> ELSE <<>>
    <2>1. tokens'[i] \in Int
      OBVIOUS
    <2> QED BY <2>1, Zenon DEF SpecialMap, IsSpecialId
  <1>2. [i \in DOMAIN tokens' |-> SpecialMap(special_tokens')[tokens'[i]]]
          = [i \in DOMAIN tokens' |-> IF IsSpecialId(tokens[i])' THEN <<tokens'[i]>> ELSE <<>>]
    BY <1>1, Zenon
  <1> QED BY <1>2 DEF SpecialIds, FlatMap

LEMMA SpecialMapType ==
  ASSUME NEW st
  PROVE  SpecialMap(st) \in [Int -> Seq(Int)]
  BY DEF SpecialMap

\* The ids text may be turned into: where the special tokens are apart, ids of none.
Plain == {x \in Int : SpecialsApart => ~ IsSpecialId(x)}

LEMMA AtomIds ==
  ASSUME TablesOK, NEW a \in Atoms
  PROVE  IdsOf(a) \in Seq(Plain)
  <1>1. ASSUME NEW b \in Atoms \cap DOMAIN vocab PROVE vocab[b] \in Plain
    <2>1. vocab[b] \in Int
      BY DEF TablesOK
    <2>2. SpecialsApart => ~ IsSpecialId(vocab[b])
      BY Zenon DEF SpecialsApart
    <2> QED BY <2>1, <2>2 DEF Plain
  <1>2. CASE a \in DOMAIN vocab
    <2>1. IdsOf(a) = <<vocab[a]>>
      BY <1>2 DEF IdsOf
    <2>2. vocab[a] \in Plain
      BY <1>1, <1>2
    <2> QED BY <2>1, <2>2
  <1>3. CASE a \notin DOMAIN vocab
    <2> DEFINE one(x) == IF <<ByteSymbol[x]>> \in DOMAIN vocab THEN <<vocab[<<ByteSymbol[x]>>]>> ELSE <<>>
               g == [x \in DOMAIN ByteSymbol |-> one(x)]
    <2>1. ASSUME NEW x \in DOMAIN ByteSymbol PROVE one(x) \in Seq(Plain)
      <3>1. <<ByteSymbol[x]>> \in Atoms
        BY Zenon DEF Atoms
      <3>2. <<ByteSymbol[x]>> \in DOMAIN vocab => vocab[<<ByteSymbol[x]>>] \in Plain
        BY <1>1, <3>1
      <3> QED BY <3>2
    <2>2. g \in [DOMAIN ByteSymbol -> Seq(Plain)]
      BY <2>1
    <2>3. PICK b \in Seq(DOMAIN ByteSymbol) : b = Bytes(a)
      BY AtomsTyped, BytesType
    <2>4. [i \in DOMAIN b |-> g[b[i]]] = [i \in DOMAIN b |-> one(b[i])]
      <3>1. \A i \in DOMAIN b : b[i] \in DOMAIN ByteSymbol
        OBVIOUS
      <3>2. \A i \in DOMAIN b : g[b[i]] = one(b[i])
        BY <3>1, Zenon
      <3> HIDE DEF g
      <3> QED BY <3>2, Zenon
    <2>5. IdsOf(a) = FlattenSeq([i \in DOMAIN b |-> one(b[i])])
      BY <1>3, <2>3, Zenon DEF IdsOf
    <2> HIDE DEF g
    <2>6. IdsOf(a) = FlatMap(g, b)
      BY <2>4, <2>5, Zenon DEF FlatMap
    <2>7. FlatMap(g, b) \in Seq(Plain)
      BY <2>2, FlatMapType
    <2> QED BY <2>6, <2>7
  <1> QED BY <1>2, <1>3

IdsOfWord(w) == FlattenSeq([i \in DOMAIN w |-> IdsOf(w[i])])

LEMMA WordIds ==
  ASSUME TablesOK, NEW w \in Seq(Atoms)
  PROVE  IdsOfWord(w) \in Seq(Plain)
  <1> DEFINE t == [i \in DOMAIN w |-> IdsOf(w[i])]
  <1>0. DOMAIN w = 1..Len(w) /\ Len(w) \in Nat /\ \A i \in DOMAIN w : w[i] \in Atoms
    OBVIOUS
  <1>1. \A i \in DOMAIN w : IdsOf(w[i]) \in Seq(Plain)
    BY <1>0, AtomIds
  <1>2. t \in Seq(Seq(Plain))
    BY <1>0, <1>1
  <1> HIDE DEF t
  <1>3. FlattenSeq(t) \in Seq(Plain)
    BY <1>2, FlattenType
  <1> QED BY <1>3 DEF t, IdsOfWord

\* None of them is a special token's.
LEMMA PlainIds ==
  ASSUME SpecialsApart, NEW ids \in Seq(Plain)
  PROVE  SpecialIds(ids) = <<>>
  <1> DEFINE g == [x \in Plain |-> IF IsSpecialId(x) THEN <<x>> ELSE <<>>]
  <1>1. \A x \in Plain : ~ IsSpecialId(x)
    BY DEF Plain
  <1>2. g \in [Plain -> Seq({})]
    BY <1>1
  <1>3. \A i \in DOMAIN ids : g[ids[i]] = IF IsSpecialId(ids[i]) THEN <<ids[i]>> ELSE <<>>
    <2>1. \A i \in DOMAIN ids : ids[i] \in Plain
      OBVIOUS
    <2> QED BY <2>1, Zenon
  <1> HIDE DEF g
  <1>4. SpecialIds(ids) = FlatMap(g, ids)
    <2>1. [i \in DOMAIN ids |-> g[ids[i]]]
            = [i \in DOMAIN ids |-> IF IsSpecialId(ids[i]) THEN <<ids[i]>> ELSE <<>>]
      BY <1>3, Zenon
    <2> QED BY <2>1, Zenon DEF SpecialIds, FlatMap
  <1>5. FlatMap(g, ids) \in Seq({})
    BY <1>2, FlatMapType
  <1>6. \A s \in Seq({}) : s = <<>>
    <2> SUFFICES ASSUME NEW s \in Seq({}) PROVE s = <<>>
      OBVIOUS
    <2>1. \A i \in 1..Len(s) : s[i] \in {}
      OBVIOUS
    <2>2. Len(s) \in Nat /\ ~ (Len(s) >= 1)
      BY <2>1
    <2> QED BY <2>2
  <1> QED BY <1>4, <1>5, <1>6

-----------------------------------------------------------------------------
\* The special tokens encoded so far, and those from here on.
Upto(ids, p) == SpecialIds(ids) \o CutIds[p] = CutIds[1]

SpecialInv ==
  /\ tokens \in Seq(Int)
  /\ match # 0 /\ phase # "torn" => LongestAt(match, pos) /\ pos \in 1..Len(text)
  /\ match = 0 /\ phase \in {"special", "split", "chunk", "merge", "emit"} => pos = Len(text) + 1
  /\ phase \notin {"idle", "torn"} /\ SpecialsApart => (tokens = <<>> /\ pos = 1) \/ Upto(tokens, pos)
  /\ phase = "done" /\ vocab # Empty => pos = Len(text) + 1

LEMMA UptoIs ==
  ASSUME TokInv, SpecialInv, phase \notin {"idle", "torn"}, SpecialsApart
  PROVE  Upto(tokens, pos)
  <1>0. text \in Seq(CodePoint) /\ SpecialsOK /\ Len(text) \in Nat
    BY DEF TokInv, ScanOK
  <1>1. CASE tokens = <<>> /\ pos = 1
    <2>1. SpecialIds(tokens) = <<>>
      BY <1>1, SpecialIdsIs, FlatMapEmpty DEF SpecialInv
    <2>2. 1 \in 1..(Len(text) + 1)
      BY <1>0
    <2>3. CutIds[1] \in Seq(Int)
      BY <1>0, <2>2, CutIdsScan
    <2>4. <<>> \o CutIds[1] = CutIds[1]
      BY <2>3, ConcatEmpty
    <2> QED BY <1>1, <2>1, <2>4 DEF Upto
  <1>2. CASE Upto(tokens, pos)
    BY <1>2
  <1> QED BY <1>1, <1>2 DEF SpecialInv

\* A step that leaves the text and the tables alone, and what it has to show.
LEMMA UptoNext ==
  ASSUME UNCHANGED <<text, special_tokens>>, tokens' \in Seq(Int),
         NEW ids \in Seq(Int), ids = tokens', NEW p, p = pos', Upto(ids, p)
  PROVE  Upto(tokens, pos)'
  <1>1. SpecialIds(tokens)' = FlatMap(SpecialMap(special_tokens'), tokens')
    BY SpecialIdsNext
  <1>2. SpecialIds(ids) = FlatMap(SpecialMap(special_tokens), ids)
    BY SpecialIdsIs
  <1>3. CutIds' = CutIds
    BY CutIdsSame
  <1> QED BY <1>1, <1>2, <1>3 DEF Upto

LEMMA InitSpecial == Init => SpecialInv
  <1> SUFFICES ASSUME Init PROVE SpecialInv
    OBVIOUS
  <1>1. phase = "idle" /\ match = 0 /\ tokens = <<>>
    BY DEF Init
  <1> QED BY <1>1 DEF SpecialInv

LEMMA SubSequences ==
  ASSUME NEW P, NEW Q, P \subseteq Q, NEW s \in Seq(P)
  PROVE  s \in Seq(Q)
  <1>1. DOMAIN s = 1..Len(s) /\ Len(s) \in Nat /\ s = [i \in 1..Len(s) |-> s[i]]
        /\ \A i \in 1..Len(s) : s[i] \in P
    OBVIOUS
  <1>2. \A i \in 1..Len(s) : s[i] \in Q
    BY <1>1
  <1> QED BY <1>1, <1>2

LEMMA SpecialIdsType ==
  ASSUME NEW ids \in Seq(Int)
  PROVE  SpecialIds(ids) \in Seq(Int)
  <1>1. PICK g \in [Int -> Seq(Int)] : g = SpecialMap(special_tokens)
    BY SpecialMapType
  <1>2. FlatMap(g, ids) \in Seq(Int)
    BY FlatMapType
  <1> QED BY <1>1, <1>2, SpecialIdsIs

IsMap(g, D, S) == g \in [D -> Seq(S)]

LEMMA FlatMapJoin ==
  ASSUME NEW D, NEW S, NEW g, IsMap(g, D, S), NEW s \in Seq(D), NEW t \in Seq(D)
  PROVE  FlatMap(g, s \o t) = FlatMap(g, s) \o FlatMap(g, t)
  <1>1. PICK h \in [D -> Seq(S)] : h = g
    BY DEF IsMap
  <1> QED BY <1>1, FlatMapConcat

Ids == Int

LEMMA SpecialIdsConcat ==
  ASSUME NEW ids \in Seq(Ids), NEW b \in Seq(Ids)
  PROVE  SpecialIds(ids \o b) = SpecialIds(ids) \o SpecialIds(b)
  <1>1. PICK g : g = SpecialMap(special_tokens)
    OBVIOUS
  <1>3. IsMap(g, Ids, Ids)
    BY <1>1, SpecialMapType DEF IsMap, Ids
  <1>4. FlatMap(g, ids \o b) = FlatMap(g, ids) \o FlatMap(g, b)
    BY <1>3, FlatMapJoin
  <1>5. ids \o b \in Seq(Ids)
    BY ConcatType
  <1>6. \A s \in Seq(Ids) : SpecialIds(s) = FlatMap(g, s)
    BY <1>1, SpecialIdsIs DEF Ids
  <1> QED BY <1>4, <1>5, <1>6

\* A step inside of a turn that emits nothing and moves nowhere.
LEMMA QuietSpecial ==
  ASSUME TokInv, SpecialInv, UNCHANGED <<vocab, bpe_ranks, special_tokens, text, pos, match, tokens>>,
         phase \notin {"idle", "torn"}, phase' \notin {"idle", "torn"},
         phase' = "done" => phase = "done" \/ pos = Len(text) + 1,
         phase' \in {"special", "split", "chunk", "merge", "emit"} =>
           phase \in {"special", "split", "chunk", "merge", "emit"}
  PROVE  SpecialInv'
  <1>1. tokens' \in Seq(Int)
    BY DEF SpecialInv
  <1>2. match' # 0 => LongestAt(match, pos)' /\ (pos \in 1..Len(text))'
    <2> SUFFICES ASSUME match' # 0 PROVE LongestAt(match, pos)' /\ (pos \in 1..Len(text))'
      OBVIOUS
    <2>1. LongestAt(match, pos) /\ pos \in 1..Len(text)
      BY DEF SpecialInv
    <2>2. LongestAt(match, pos)'
      <3>1. PICK m, i : m = match /\ i = pos
        OBVIOUS
      <3>2. m = match' /\ i = pos' /\ LongestAt(m, i)
        BY <2>1, <3>1
      <3> QED BY <3>2, LongestSame
    <2> QED BY <2>1, <2>2
  <1>3. ASSUME SpecialsApart' PROVE Upto(tokens, pos)'
    <2>1. SpecialsApart
      BY <1>3, ApartSame
    <2>2. PICK ids \in Seq(Int), p \in {pos} : ids = tokens /\ p = pos
      BY DEF SpecialInv
    <2>3. Upto(ids, p)
      BY <2>1, <2>2, UptoIs
    <2>4. ids = tokens' /\ p = pos'
      BY <2>2
    <2> QED BY <1>1, <2>3, <2>4, UptoNext
  <1>4. (match = 0 /\ phase \in {"special", "split", "chunk", "merge", "emit"} => pos = Len(text) + 1)'
    BY DEF SpecialInv
  <1>5. (phase = "done" /\ vocab # Empty => pos = Len(text) + 1)'
    BY DEF SpecialInv
  <1> QED BY <1>1, <1>2, <1>3, <1>4, <1>5 DEF SpecialInv

LEMMA ScanSpecial ==
  ASSUME TokInv, SpecialInv, Scan
  PROVE  SpecialInv'
  <1>0. text \in Seq(CodePoint) /\ SpecialsOK /\ Len(text) \in Nat
    BY DEF TokInv, ScanOK
  <1>1. UNCHANGED <<vocab, bpe_ranks, special_tokens, text, tokens>> /\ phase = "scan"
        /\ phase' \in {"special", "split"}
    BY DEF Scan, tables
  <1>2. /\ pos \in 1..Len(text) /\ pos' \in pos..(Len(text) + 1)
        /\ \A k \in pos..(pos' - 1) : ~ Occurs(k)
        /\ match' # 0 => LongestAt(match', pos') /\ pos' \in 1..Len(text)
        /\ match' = 0 => pos' = Len(text) + 1
    BY ScanFinds
  <1>3. tokens' \in Seq(Int)
    BY <1>1 DEF SpecialInv
  <1>4. match' # 0 => LongestAt(match, pos)' /\ (pos \in 1..Len(text))'
    <2> SUFFICES ASSUME match' # 0 PROVE LongestAt(match, pos)' /\ (pos \in 1..Len(text))'
      OBVIOUS
    <2>1. PICK m, i : m = match' /\ i = pos'
      OBVIOUS
    <2>2. LongestAt(m, i)
      BY <1>2, <2>1
    <2>3. LongestAt(match, pos)'
      BY <1>1, <2>1, <2>2, LongestSame
    <2> QED BY <1>1, <1>2, <2>3
  <1>5. ASSUME SpecialsApart' PROVE Upto(tokens, pos)'
    <2>1. SpecialsApart
      BY <1>1, <1>5, ApartSame
    <2>2. Upto(tokens, pos)
      BY <1>1, <2>1, UptoIs
    <2>3. CutIds[pos] = CutIds[pos']
      <3>0. PICK i \in 1..(Len(text) + 1) : i = pos
        BY <1>0, <1>2
      <3>1. PICK j \in i..(Len(text) + 1) : j = pos'
        BY <1>2, <3>0
      <3>2. \A k \in i..(j - 1) : ~ Occurs(k)
        BY <1>2, <3>0, <3>1
      <3>3. CutIds[i] = CutIds[j]
        BY <1>0, <3>2, SkipIds
      <3> QED BY <3>0, <3>1, <3>3
    <2>4. PICK ids \in Seq(Int), p \in {pos'} : ids = tokens /\ p = pos'
      BY DEF SpecialInv
    <2>5. Upto(ids, p)
      BY <2>2, <2>3, <2>4 DEF Upto
    <2>6. ids = tokens' /\ p = pos'
      BY <1>1, <2>4
    <2> QED BY <1>1, <1>3, <2>5, <2>6, UptoNext
  <1>6. (match = 0 /\ phase \in {"special", "split", "chunk", "merge", "emit"} => pos = Len(text) + 1)'
    BY <1>1, <1>2
  <1>7. phase' # "done"
    BY <1>1
  <1> QED BY <1>3, <1>4, <1>5, <1>6, <1>7 DEF SpecialInv

LEMMA PushSpecialSpecial ==
  ASSUME TokInv, SpecialInv, PushSpecial
  PROVE  SpecialInv'
  <1>0. text \in Seq(CodePoint) /\ SpecialsOK /\ Len(text) \in Nat
    BY DEF TokInv, ScanOK
  <1>1. UNCHANGED <<vocab, bpe_ranks, special_tokens, text>> /\ phase = "special"
        /\ phase' = "scan" /\ match' = 0
    BY DEF PushSpecial, tables
  <1>2. CASE match = 0
    <2>1. UNCHANGED <<tokens, pos>>
      BY <1>2 DEF PushSpecial
    <2>2. UNCHANGED <<vocab, bpe_ranks, special_tokens, text, pos, match, tokens>>
      BY <1>1, <1>2, <2>1
    <2> QED BY <1>1, <2>2, QuietSpecial
  <1>3. CASE match # 0
    <2>1. tokens' = Append(tokens, special_tokens[match][2])
          /\ pos' = pos + Len(special_tokens[match][1])
      BY <1>3 DEF PushSpecial
    <2>2. LongestAt(match, pos) /\ pos \in 1..Len(text)
      BY <1>1, <1>3 DEF SpecialInv
    <2>3. match \in DOMAIN special_tokens /\ special_tokens[match][2] \in Int
      BY <1>0, <2>2, NameFits
    <2>4. PICK ids \in Seq(Int), x \in Int : ids = tokens /\ x = special_tokens[match][2]
      BY <2>3 DEF SpecialInv
    <2>5. Append(ids, x) \in Seq(Int) /\ tokens' \in Seq(Int)
      BY <2>1, <2>4
    <2>6. ASSUME SpecialsApart' PROVE Upto(tokens, pos)'
      <3>1. SpecialsApart
        BY <1>1, <2>6, ApartSame
      <3>2. SpecialIds(ids) \o CutIds[pos] = CutIds[1]
        BY <1>1, <2>4, <3>1, UptoIs DEF Upto
      <3>3. CutIds[pos] = <<x>> \o CutIds[pos']
        BY <1>0, <2>1, <2>2, <2>4, <3>1, IdsAtToken
      <3>4. SpecialIds(Append(ids, x)) = SpecialIds(ids) \o <<x>>
        <4>1. PICK g \in [Int -> Seq(Int)] : g = SpecialMap(special_tokens)
          BY SpecialMapType
        <4>2. FlatMap(g, Append(ids, x)) = FlatMap(g, ids) \o g[x]
          BY FlatMapAppend
        <4>3. g[x] = <<x>>
          BY <2>3, <2>4, <4>1 DEF SpecialMap
        <4> QED BY <2>5, <4>1, <4>2, <4>3, SpecialIdsIs
      <3>5. PICK a \in Seq(Int), c \in Seq(Int) : a = SpecialIds(ids) /\ c = CutIds[pos']
        <4>1. SpecialIds(ids) \in Seq(Int)
          BY SpecialIdsType
        <4>2. pos' \in 1..(Len(text) + 1)
          <5>1. pos + Len(special_tokens[match][1]) \in (pos + 1)..(Len(text) + 1)
            BY <1>0, <2>2, NameFits
          <5>2. PICK p \in Int, q \in Int, n \in Nat :
                  p = pos /\ q = pos + Len(special_tokens[match][1]) /\ n = Len(text)
            BY <1>0, <2>2, <5>1
          <5>3. q \in (p + 1)..(n + 1) /\ p \in 1..n
            BY <2>2, <5>1, <5>2
          <5>4. q \in 1..(n + 1)
            BY <5>3
          <5> QED BY <2>1, <5>2, <5>4
        <4>3. CutIds[pos'] \in Seq(Int)
          BY <1>0, <4>2, CutIdsScan
        <4> QED BY <4>1, <4>3
      <3>6. (a \o <<x>>) \o c = a \o (<<x>> \o c)
        OBVIOUS
      <3>7. SpecialIds(Append(ids, x)) \o CutIds[pos'] = CutIds[1]
        BY <3>2, <3>3, <3>4, <3>5, <3>6
      <3>8. PICK new \in Seq(Int), p \in {pos'} : new = Append(ids, x) /\ p = pos'
        BY <2>5
      <3>9. Upto(new, p) /\ new = tokens'
        BY <2>1, <2>4, <3>7, <3>8 DEF Upto
      <3> QED BY <1>1, <2>5, <3>8, <3>9, UptoNext
    <2> QED BY <1>1, <2>5, <2>6 DEF SpecialInv
  <1> QED BY <1>2, <1>3

LEMMA EmitSpecial ==
  ASSUME TokInv, SpecialInv, AtomInv, Emit
  PROVE  SpecialInv'
  <1>0. text \in Seq(CodePoint) /\ SpecialsOK /\ Len(text) \in Nat
    BY DEF TokInv, ScanOK
  <1>1. UNCHANGED <<vocab, bpe_ranks, special_tokens, text, pos, match>> /\ phase = "emit"
        /\ phase' = "chunk" /\ tokens' = tokens \o IdsOfWord(word)
    BY DEF Emit, tables, IdsOfWord
  <1>2. IdsOfWord(word) \in Seq(Plain)
    <2>1. word \in Seq(Atoms) /\ TablesOK
      BY <1>1, AtomsTyped DEF AtomInv, WordsOK
    <2> QED BY <2>1, WordIds
  <1>3. PICK ids \in Seq(Int), b \in Seq(Int) : ids = tokens /\ b = IdsOfWord(word)
    <2>1. IdsOfWord(word) \in Seq(Int)
      <3>1. Plain \subseteq Int
        BY DEF Plain
      <3> QED BY <1>2, <3>1, SubSequences
    <2> QED BY <2>1 DEF SpecialInv
  <1>4. ids \o b \in Seq(Int) /\ tokens' = ids \o b
    BY <1>1, <1>3, ConcatType
  <1>5. match' # 0 => LongestAt(match, pos)' /\ (pos \in 1..Len(text))'
    <2> SUFFICES ASSUME match' # 0 PROVE LongestAt(match, pos)' /\ (pos \in 1..Len(text))'
      OBVIOUS
    <2>1. LongestAt(match, pos) /\ pos \in 1..Len(text)
      BY <1>1 DEF SpecialInv
    <2>2. LongestAt(match, pos)'
      <3>1. PICK m, i : m = match /\ i = pos
        OBVIOUS
      <3>2. m = match' /\ i = pos' /\ LongestAt(m, i)
        BY <1>1, <2>1, <3>1
      <3> QED BY <1>1, <3>2, LongestSame
    <2> QED BY <1>1, <2>1, <2>2
  <1>6. ASSUME SpecialsApart' PROVE Upto(tokens, pos)'
    <2>1. SpecialsApart
      BY <1>1, <1>6, ApartSame
    <2>2. Upto(ids, pos)
      BY <1>1, <1>3, <2>1, UptoIs
    <2>3. SpecialIds(b) = <<>>
      BY <1>2, <1>3, <2>1, PlainIds
    <2>4. SpecialIds(ids \o b) = SpecialIds(ids)
      <3>1. SpecialIds(ids) \o <<>> = SpecialIds(ids)
        BY SpecialIdsType, ConcatEmpty
      <3>2. ids \in Seq(Ids) /\ b \in Seq(Ids)
        BY DEF Ids
      <3>3. SpecialIds(ids \o b) = SpecialIds(ids) \o SpecialIds(b)
        BY <3>2, SpecialIdsConcat
      <3> QED BY <2>3, <3>1, <3>3
    <2>5. PICK new \in Seq(Int), p \in {pos} : new = ids \o b /\ p = pos
      BY <1>4
    <2>6. Upto(new, p) /\ new = tokens' /\ p = pos'
      BY <1>1, <1>4, <2>2, <2>4, <2>5 DEF Upto
    <2> QED BY <1>1, <1>4, <2>6, UptoNext
  <1>7. (match = 0 /\ phase \in {"special", "split", "chunk", "merge", "emit"} => pos = Len(text) + 1)'
    BY <1>1 DEF SpecialInv
  <1> QED BY <1>1, <1>4, <1>5, <1>6, <1>7 DEF SpecialInv

LEMMA NextSpecial ==
  ASSUME TokInv, AtomInv, SpecialInv, [Next]_vars
  PROVE  SpecialInv'
  <1>1. CASE \/ calls < Len(Texts) /\ \E d \in Documents[calls + 1] : Load(d)
             \/ LoadEmptyBuffer
    <2>1. phase \in {"idle", "done"} /\ phase' = "idle" /\ UNCHANGED <<match, tokens>>
      BY <1>1 DEF Load, LoadEmptyBuffer
    <2>2. match = 0
      BY <2>1 DEF TokInv, ScanOK
    <2> QED BY <2>1, <2>2 DEF SpecialInv
  <1>2. CASE calls < Len(Texts) /\ \E t \in Texts[calls + 1] : Encode(t)
    <2>1. /\ pos' = 1 /\ match' = 0 /\ tokens' = <<>> /\ UNCHANGED vocab
          /\ phase' = IF text' = <<>> \/ vocab = Empty THEN "done" ELSE "scan"
      BY <1>2 DEF Encode, tables
    <2>2. phase' = "done" /\ vocab' # Empty => pos' = Len(text') + 1
      BY <2>1
    <2> QED BY <2>1, <2>2 DEF SpecialInv
  <1>3. CASE Scan
    BY <1>3, ScanSpecial
  <1>4. CASE PushSpecial
    BY <1>4, PushSpecialSpecial
  <1>5. CASE Emit
    BY <1>5, EmitSpecial
  <1>6. CASE Finish
    <2>1. UNCHANGED <<vocab, bpe_ranks, special_tokens, text, pos, match, tokens>>
          /\ phase = "scan" /\ phase' = "done" /\ pos > Len(text)
      BY <1>6 DEF Finish, tables, outer
    <2>2. pos = Len(text) + 1
      <3>1. pos \in 1..(Len(text) + 1) /\ Len(text) \in Nat
        BY DEF TokInv, ScanOK
      <3> QED BY <2>1, <3>1
    <2> QED BY <2>1, <2>2, QuietSpecial
  <1>7. CASE Split
    <2>1. UNCHANGED <<vocab, bpe_ranks, special_tokens, text, pos, match, tokens>>
          /\ phase = "split" /\ phase' \in {"split", "chunk"}
      <3>1. CASE SplitDone
        BY <3>1 DEF SplitDone, tables, outer
      <3>2. CASE \E e : AddToken(e) /\ phase = "split"
        BY <3>2 DEF AddToken, tables, outer
      <3> QED BY <1>7, <3>1, <3>2, Zenon
           DEF Split, SplitContraction, SplitWord, SplitNumber, SplitSymbols, SplitNewLines,
               SplitSpacesBefore, SplitSpaces, SplitOther, InSpaces, BeforeSymbols, Splitting
    <2> QED BY <2>1, QuietSpecial
  <1>8. CASE NextChunk \/ MergeStep \/ MergeEnd \/ ChunksDone
    <2>1. UNCHANGED <<vocab, bpe_ranks, special_tokens, text, pos, match, tokens>>
          /\ phase \in {"chunk", "merge"} /\ phase' \in {"merge", "emit", "special"}
      BY <1>8 DEF NextChunk, MergeStep, MergeEnd, ChunksDone, tables, outer
    <2> QED BY <2>1, QuietSpecial
  <1>9. CASE OtherStep \/ UNCHANGED vars
    <2>1. /\ UNCHANGED <<vocab, bpe_ranks, special_tokens, text, pos, match, tokens>>
          /\ phase' \in {phase, "torn"}
      BY <1>9, OtherStepIs DEF vars, tables, outer
    <2>2. CASE phase' = "idle"
      <3>1. match = 0
        BY <2>1, <2>2 DEF TokInv, ScanOK
      <3> QED BY <2>1, <2>2, <3>1 DEF SpecialInv
    <2>3. CASE phase' = "torn"
      BY <2>1, <2>3 DEF SpecialInv
    <2>4. CASE phase' \notin {"idle", "torn"}
      BY <2>1, <2>4, QuietSpecial
    <2> QED BY <2>2, <2>3, <2>4
  <1> QED BY <1>1, <1>2, <1>3, <1>4, <1>5, <1>6, <1>7, <1>8, <1>9 DEF Next, Step

OthersOK == OthersTyped /\ OthersAtoms

LEMMA SpecialInvariant ==
  Spec => [](TokInv /\ MergeInv /\ AtomInv /\ SpecialInv /\ OthersOK)
  <1>1. Init => AtomInv /\ SpecialInv /\ OthersAtoms
    BY InitAtoms, InitSpecial, InitOthers DEF OthersAtoms
  <1>2. (TokInv /\ MergeInv /\ OthersTyped /\ OthersMerge) /\ (AtomInv /\ SpecialInv /\ OthersAtoms)
          /\ [Next]_vars => (AtomInv /\ SpecialInv /\ OthersAtoms)'
    BY NextAtoms, NextSpecial, NextOthersAtoms
  <1> QED BY <1>1, <1>2, MergeInvariant, PTL DEF Spec, OthersOK

(***************************************************************************)
(* The special tokens encode() emits are the leftmost ones of the text,    *)
(* and of those that start at one place the longest, for every table that  *)
(* gives no other token the id of one and every order std::sort may leave. *)
(***************************************************************************)
THEOREM SpecialsAreCutOut == Spec => []SpecialsAreLeftmostLongest
  <1>1. TokInv /\ SpecialInv => SpecialsAreLeftmostLongest
    <2> SUFFICES ASSUME TokInv, SpecialInv, phase = "done", vocab # Empty, SpecialsApart
                 PROVE  SpecialIds(tokens) = CutIds[1]
      BY DEF SpecialsAreLeftmostLongest
    <2>0. text \in Seq(CodePoint) /\ SpecialsOK /\ Len(text) \in Nat
      BY DEF TokInv, ScanOK
    <2>1. SpecialIds(tokens) \o CutIds[pos] = CutIds[1] /\ pos = Len(text) + 1
      <3>1. Upto(tokens, pos)
        BY UptoIs
      <3> QED BY <3>1 DEF Upto, SpecialInv
    <2>2. CutIds[Len(text) + 1] = <<>>
      BY <2>0, CutIdsScan DEF IsScan
    <2>3. SpecialIds(tokens) \in Seq(Int)
      BY SpecialIdsType DEF SpecialInv
    <2>4. SpecialIds(tokens) \o <<>> = SpecialIds(tokens)
      BY <2>3, ConcatEmpty
    <2> QED BY <2>1, <2>2, <2>4
  <1> QED BY <1>1, SpecialInvariant, PTL

-----------------------------------------------------------------------------
(***************************************************************************)
(* More about the results for the elements of a sequence: two functions one*)
(* behind the other.                                                       *)
(***************************************************************************)
\* Only the values for the elements of the sequence count.
LEMMA FlatMapSame ==
  ASSUME NEW s, NEW g, NEW h, \A i \in DOMAIN s : g[s[i]] = h[s[i]]
  PROVE  FlatMap(g, s) = FlatMap(h, s)
  <1>1. [i \in DOMAIN s |-> g[s[i]]] = [i \in DOMAIN s |-> h[s[i]]]
    BY Zenon
  <1> QED BY <1>1, Zenon DEF FlatMap

LEMMA FlatMapGrows ==
  ASSUME NEW D, NEW S, NEW g, IsMap(g, D, S), NEW s \in Seq(D), NEW x \in D
  PROVE  FlatMap(g, Append(s, x)) = FlatMap(g, s) \o g[x]
  <1>1. PICK h \in [D -> Seq(S)] : h = g
    BY DEF IsMap
  <1> QED BY <1>1, FlatMapAppend

LEMMA FlatMapIn ==
  ASSUME NEW D, NEW S, NEW g, IsMap(g, D, S), NEW s \in Seq(D)
  PROVE  FlatMap(g, s) \in Seq(S)
  <1>1. PICK h \in [D -> Seq(S)] : h = g
    BY DEF IsMap
  <1> QED BY <1>1, FlatMapType

\* g behind h, element by element.
Compose(g, h, D) == [x \in D |-> FlatMap(g, h[x])]

LEMMA ComposeIsMap ==
  ASSUME NEW D, NEW E, NEW S, NEW g, NEW h, IsMap(h, D, E), IsMap(g, E, S)
  PROVE  IsMap(Compose(g, h, D), D, S)
  <1>1. ASSUME NEW x \in D PROVE FlatMap(g, h[x]) \in Seq(S)
    <2>1. h[x] \in Seq(E)
      BY DEF IsMap
    <2> QED BY <2>1, FlatMapIn
  <1> QED BY <1>1 DEF IsMap, Compose

LEMMA FlatMapCompose ==
  ASSUME NEW D, NEW E, NEW S, NEW g, NEW h, IsMap(h, D, E), IsMap(g, E, S), NEW t \in Seq(D)
  PROVE  FlatMap(g, FlatMap(h, t)) = FlatMap(Compose(g, h, D), t)
  <1> DEFINE c == Compose(g, h, D)
             P(k) == FlatMap(g, FlatMap(h, Prefix(t, k))) = FlatMap(c, Prefix(t, k))
             bad == {k \in 0..Len(t) : ~ P(k)}
  <1>0. Len(t) \in Nat
    OBVIOUS
  <1>c. IsMap(c, D, S)
    BY ComposeIsMap
  <1>d. \A x \in D : c[x] = FlatMap(g, h[x]) /\ h[x] \in Seq(E)
    BY DEF Compose, IsMap
  <1> HIDE DEF c
  <1>1. P(0)
    BY PrefixEnds, FlatMapEmpty
  <1>2. ASSUME NEW k \in 1..Len(t), P(k - 1) PROVE P(k)
    <2>1. PICK u \in Seq(D), x \in D : u = Prefix(t, k - 1) /\ x = t[k]
      BY PrefixIs
    <2>2. Prefix(t, k) = Append(u, x)
      BY <2>1, PrefixIs
    <2>3. FlatMap(h, Append(u, x)) = FlatMap(h, u) \o h[x]
      BY FlatMapGrows
    <2>4. FlatMap(c, Append(u, x)) = FlatMap(c, u) \o c[x]
      BY <1>c, FlatMapGrows
    <2>5. FlatMap(h, u) \in Seq(E) /\ h[x] \in Seq(E)
      BY <1>d, FlatMapIn
    <2>6. PICK a \in Seq(E), b \in Seq(E) : a = FlatMap(h, u) /\ b = h[x]
      BY <2>5
    <2>7. FlatMap(g, a \o b) = FlatMap(g, a) \o FlatMap(g, b)
      BY FlatMapJoin
    <2>8. FlatMap(g, a) = FlatMap(c, u)
      BY <1>2, <2>1, <2>6
    <2> QED BY <1>d, <2>2, <2>3, <2>4, <2>6, <2>7, <2>8
  <1> HIDE DEF P
  <1>3. bad = {}
    <2> SUFFICES ASSUME bad # {} PROVE FALSE
      OBVIOUS
    <2>1. PICK k \in bad : \A m \in bad : k <= m
      <3>1. bad \subseteq Nat
        OBVIOUS
      <3> HIDE DEF bad
      <3> QED BY <3>1, Least
    <2>2. k \in 0..Len(t) /\ ~ P(k)
      BY <2>1
    <2>3. k # 0
      BY <1>1, <2>2
    <2>4. k \in 1..Len(t) /\ k - 1 \in 0..Len(t) /\ ~ (k <= k - 1)
      BY <1>0, <2>2, <2>3
    <2>5. P(k - 1)
      BY <2>1, <2>4
    <2> QED BY <1>2, <2>2, <2>4, <2>5
  <1>4. P(Len(t))
    <2>1. Len(t) \in 0..Len(t)
      BY <1>0
    <2> QED BY <1>3, <2>1
  <1> QED BY <1>4, PrefixEnds DEF P, c

\* One element each: the sequence itself.
Single(D) == [x \in D |-> <<x>>]

LEMMA FlatMapSingle ==
  ASSUME NEW D, NEW t \in Seq(D)
  PROVE  FlatMap(Single(D), t) = t
  <1> DEFINE g == Single(D)
             P(k) == FlatMap(g, Prefix(t, k)) = Prefix(t, k)
             bad == {k \in 0..Len(t) : ~ P(k)}
  <1>0. Len(t) \in Nat
    OBVIOUS
  <1>c. IsMap(g, D, D) /\ \A x \in D : g[x] = <<x>>
    BY DEF IsMap, Single
  <1> HIDE DEF g
  <1>1. P(0)
    BY PrefixEnds, FlatMapEmpty
  <1>2. ASSUME NEW k \in 1..Len(t), P(k - 1) PROVE P(k)
    <2>1. PICK u \in Seq(D), x \in D : u = Prefix(t, k - 1) /\ x = t[k]
      BY PrefixIs
    <2>2. Prefix(t, k) = Append(u, x)
      BY <2>1, PrefixIs
    <2>3. FlatMap(g, Append(u, x)) = FlatMap(g, u) \o g[x]
      BY <1>c, FlatMapGrows
    <2>4. u \o <<x>> = Append(u, x)
      OBVIOUS
    <2>5. FlatMap(g, u) = u
      BY <1>2, <2>1
    <2> QED BY <1>c, <2>2, <2>3, <2>4, <2>5
  <1> HIDE DEF P
  <1>3. bad = {}
    <2> SUFFICES ASSUME bad # {} PROVE FALSE
      OBVIOUS
    <2>1. PICK k \in bad : \A m \in bad : k <= m
      <3>1. bad \subseteq Nat
        OBVIOUS
      <3> HIDE DEF bad
      <3> QED BY <3>1, Least
    <2>2. k \in 0..Len(t) /\ ~ P(k)
      BY <2>1
    <2>3. k # 0
      BY <1>1, <2>2
    <2>4. k \in 1..Len(t) /\ k - 1 \in 0..Len(t) /\ ~ (k <= k - 1)
      BY <1>0, <2>2, <2>3
    <2>5. P(k - 1)
      BY <2>1, <2>4
    <2> QED BY <1>2, <2>2, <2>4, <2>5
  <1>4. P(Len(t))
    <2>1. Len(t) \in 0..Len(t)
      BY <1>0
    <2> QED BY <1>3, <2>1
  <1> QED BY <1>4, PrefixEnds DEF P, g

-----------------------------------------------------------------------------
(***************************************************************************)
(* A merge does not change what a word spells.                             *)
(***************************************************************************)
\* The text a word spells.
Itself == [x \in Seq(CodePoint) |-> x]
Spelled(w) == FlatMap(Itself, w)

LEMMA ItselfIs == IsMap(Itself, Seq(CodePoint), CodePoint) /\ \A x \in Seq(CodePoint) : Itself[x] = x
  BY DEF Itself, IsMap

LEMMA SpelledJoin ==
  ASSUME NEW a \in Seq(Seq(CodePoint)), NEW b \in Seq(Seq(CodePoint))
  PROVE  Spelled(a \o b) = Spelled(a) \o Spelled(b)
  <1>1. PICK D : D = Seq(CodePoint)
    OBVIOUS
  <1>2. IsMap(Itself, D, CodePoint) /\ a \in Seq(D) /\ b \in Seq(D)
    BY <1>1, ItselfIs
  <1>3. FlatMap(Itself, a \o b) = FlatMap(Itself, a) \o FlatMap(Itself, b)
    BY <1>2, FlatMapJoin
  <1> QED BY <1>3 DEF Spelled

LEMMA SpelledType ==
  ASSUME NEW a \in Seq(Seq(CodePoint))
  PROVE  Spelled(a) \in Seq(CodePoint)
  BY ItselfIs, FlatMapIn DEF Spelled

LEMMA SpelledOne ==
  ASSUME NEW x \in Seq(CodePoint)
  PROVE  Spelled(<<x>>) = x
  <1>1. Itself \in [Seq(CodePoint) -> Seq(CodePoint)]
    BY DEF Itself
  <1>2. FlatMap(Itself, <<x>>) = Itself[x]
    BY <1>1, FlatMapOne
  <1> QED BY <1>2, ItselfIs DEF Spelled

LEMMA SpelledEmpty == Spelled(<<>>) = <<>>
  BY FlatMapEmpty DEF Spelled

LEMMA LettersSpell ==
  ASSUME NEW t \in Seq(CodePoint)
  PROVE  Spelled(Letters(t)) = t
  <1>1. DOMAIN Letters(t) = DOMAIN t /\ \A i \in DOMAIN t : Letters(t)[i] = <<t[i]>>
    BY DEF Letters
  <1>2. ASSUME NEW i \in DOMAIN t PROVE Itself[Letters(t)[i]] = Single(CodePoint)[t[i]]
    <2>1. t[i] \in CodePoint
      OBVIOUS
    <2>2. <<t[i]>> \in Seq(CodePoint)
      BY <2>1
    <2>3. Itself[<<t[i]>>] = <<t[i]>>
      BY <2>2, ItselfIs
    <2>4. Single(CodePoint)[t[i]] = <<t[i]>>
      BY <2>1 DEF Single
    <2> QED BY <1>1, <2>3, <2>4
  <1>3. [i \in DOMAIN Letters(t) |-> Itself[Letters(t)[i]]] = [i \in DOMAIN t |-> Single(CodePoint)[t[i]]]
    BY <1>1, <1>2, Zenon
  <1>4. Spelled(Letters(t)) = FlatMap(Single(CodePoint), t)
    BY <1>3, Zenon DEF Spelled, FlatMap
  <1> QED BY <1>4, FlatMapSingle

Suffix(w, i) == SubSeq(w, i, Len(w))

LEMMA SuffixIs ==
  ASSUME NEW D, NEW w \in Seq(D), NEW i \in 1..Len(w)
  PROVE  /\ Suffix(w, i) = <<w[i]>> \o Suffix(w, i + 1)
         /\ Suffix(w, i + 1) \in Seq(D) /\ w[i] \in D
  BY DEF Suffix

LEMMA SuffixEnds ==
  ASSUME NEW D, NEW w \in Seq(D)
  PROVE  Suffix(w, 1) = w /\ Suffix(w, Len(w) + 1) = <<>>
  BY DEF Suffix

LEMMA SuffixSpells ==
  ASSUME NEW w \in Seq(Seq(CodePoint)), NEW i \in 1..Len(w)
  PROVE  Spelled(Suffix(w, i)) = w[i] \o Spelled(Suffix(w, i + 1))
  <1>1. PICK D : D = Seq(CodePoint)
    OBVIOUS
  <1>2. w \in Seq(D)
    BY <1>1
  <1>3. Suffix(w, i) = <<w[i]>> \o Suffix(w, i + 1) /\ Suffix(w, i + 1) \in Seq(D) /\ w[i] \in D
    BY <1>2, SuffixIs
  <1>4. PICK x \in Seq(CodePoint), s \in Seq(Seq(CodePoint)) : x = w[i] /\ s = Suffix(w, i + 1)
    BY <1>1, <1>3
  <1>5. <<x>> \in Seq(Seq(CodePoint))
    OBVIOUS
  <1>6. Spelled(<<x>> \o s) = Spelled(<<x>>) \o Spelled(s)
    BY <1>5, SpelledJoin
  <1> QED BY <1>3, <1>4, <1>6, SpelledOne

\* What holds behind the end and wherever it holds at the next place holds everywhere.
LEMMA ScanDown ==
  ASSUME NEW n \in Nat, NEW next, Forward(n, next), NEW B, B \subseteq 1..(n + 1), n + 1 \notin B,
         \A i \in 1..n : next[i] \notin B => i \notin B
  PROVE  B = {}
  <1> SUFFICES ASSUME B # {} PROVE FALSE
    OBVIOUS
  <1>1. B \subseteq 0..(n + 1) /\ n + 1 \in Nat
    OBVIOUS
  <1>2. Max(B) \in B /\ \A m \in B : m <= Max(B)
    BY <1>1, MaxOf
  <1>3. PICK k \in B : \A m \in B : m <= k
    BY <1>2
  <1>4. k \in 1..n
    <2>1. k \in 1..(n + 1) /\ k # n + 1
      BY <1>3
    <2> QED BY <2>1
  <1>5. next[k] \in (k + 1)..(n + 1)
    BY <1>4 DEF Forward
  <1>6. next[k] \in B
    BY <1>3, <1>4
  <1>7. next[k] <= k
    BY <1>3, <1>6
  <1> QED BY <1>4, <1>5, <1>7

\* A scan that puts together what the rest of the word spells.
Keeps(w, n, f, made, next) ==
  /\ \A i \in 1..(n + 1) : f[i] \in Seq(Seq(CodePoint))
  /\ \A i \in 1..n : made[i] \in Seq(Seq(CodePoint))
  /\ \A i \in 1..n :
       Spelled(Suffix(w, i)) = Spelled(made[i]) \o Spelled(Suffix(w, next[i]))

LEMMA ScanSpells ==
  ASSUME NEW w \in Seq(Seq(CodePoint)), NEW n \in Nat, n = Len(w), NEW f, NEW made, NEW next,
         Forward(n, next), IsScan(f, n, made, next),
         Keeps(w, n, f, made, next)
  PROVE  Spelled(f[1]) = Spelled(w)
  <1>a. /\ \A i \in 1..(n + 1) : f[i] \in Seq(Seq(CodePoint))
        /\ \A i \in 1..n : made[i] \in Seq(Seq(CodePoint))
    BY DEF Keeps
  <1>b. \A i \in 1..n : Spelled(Suffix(w, i)) = Spelled(made[i]) \o Spelled(Suffix(w, next[i]))
    BY DEF Keeps
  <1> DEFINE P(i) == Spelled(f[i]) = Spelled(Suffix(w, i))
             bad == {i \in 1..(n + 1) : ~ P(i)}
  <1>1. P(n + 1)
    <2>1. f[n + 1] = <<>>
      BY DEF IsScan
    <2>2. Suffix(w, n + 1) = <<>>
      <3>1. PICK D : w \in Seq(D)
        OBVIOUS
      <3> QED BY <3>1, SuffixEnds
    <2> QED BY <2>1, <2>2
  <1>2. ASSUME NEW i \in 1..n, P(next[i]) PROVE P(i)
    <2>1. next[i] \in (i + 1)..(n + 1)
      BY DEF Forward
    <2>2. next[i] \in 1..(n + 1)
      BY <2>1
    <2>3. f[i] = made[i] \o f[next[i]]
      BY DEF IsScan
    <2>4. Spelled(made[i] \o f[next[i]]) = Spelled(made[i]) \o Spelled(f[next[i]])
      BY <1>a, <2>2, SpelledJoin
    <2> QED BY <1>2, <1>b, <2>3, <2>4
  <1> HIDE DEF P
  <1>3. bad = {}
    <2>1. bad \subseteq 1..(n + 1) /\ n + 1 \notin bad
      BY <1>1
    <2>2. ASSUME NEW i \in 1..n, next[i] \notin bad PROVE i \notin bad
      <3>1. next[i] \in 1..(n + 1)
        <4>1. next[i] \in (i + 1)..(n + 1)
          BY DEF Forward
        <4> QED BY <4>1
      <3>2. P(next[i])
        BY <2>2, <3>1
      <3> QED BY <1>2, <3>2
    <2> HIDE DEF bad
    <2> QED BY <2>1, <2>2, ScanDown
  <1>4. P(1)
    <2>1. 1 \in 1..(n + 1)
      OBVIOUS
    <2> QED BY <1>3, <2>1
  <1>5. Suffix(w, 1) = w
    <2>1. PICK D : w \in Seq(D)
      OBVIOUS
    <2> QED BY <2>1, SuffixEnds
  <1> QED BY <1>4, <1>5 DEF P

LEMMA MergeAllSpells ==
  ASSUME NEW w \in Seq(Seq(CodePoint)), NEW p
  PROVE  Spelled(MergeAll(w, p)) = Spelled(w) /\ MergeAll(w, p) \in Seq(Seq(CodePoint))
  <1>0. Len(w) \in Nat /\ DOMAIN w = 1..Len(w) /\ \A i \in 1..Len(w) : w[i] \in Seq(CodePoint)
    OBVIOUS
  <1>1. ASSUME NEW i \in 1..Len(w)
        PROVE  After(w, p)[i] \in (i + 1)..(Len(w) + 1)
    BY <1>0 DEF After, PairAt
  <1>2. Forward(Len(w), After(w, p))
    BY <1>1 DEF Forward
  <1>3. ASSUME NEW i \in 1..Len(w)
        PROVE  /\ Made(w, p)[i] \in Seq(Seq(CodePoint))
               /\ Spelled(Suffix(w, i))
                    = Spelled(Made(w, p)[i]) \o Spelled(Suffix(w, After(w, p)[i]))
    <2>1. Spelled(Suffix(w, i)) = w[i] \o Spelled(Suffix(w, i + 1))
      BY SuffixSpells
    <2>2. CASE PairAt(w, p, i)
      <3>1. i + 1 \in 1..Len(w)
        BY <1>0, <2>2 DEF PairAt
      <3>2. Made(w, p)[i] = <<w[i] \o w[i + 1]>> /\ After(w, p)[i] = i + 2
        BY <1>0, <2>2 DEF Made, After
      <3>3. Spelled(Suffix(w, i + 1)) = w[i + 1] \o Spelled(Suffix(w, i + 1 + 1))
        BY <3>1, SuffixSpells
      <3>4. i + 1 + 1 = i + 2
        OBVIOUS
      <3>5. Suffix(w, i + 2) \in Seq(Seq(CodePoint))
        BY <1>0, <3>1 DEF Suffix
      <3>6. PICK a \in Seq(CodePoint), b \in Seq(CodePoint), c \in Seq(CodePoint) :
              a = w[i] /\ b = w[i + 1] /\ c = Spelled(Suffix(w, i + 2))
        BY <1>0, <3>1, <3>5, SpelledType
      <3>7. a \o (b \o c) = (a \o b) \o c /\ a \o b \in Seq(CodePoint)
        OBVIOUS
      <3>8. Spelled(<<a \o b>>) = a \o b /\ <<a \o b>> \in Seq(Seq(CodePoint))
        <4>1. PICK x \in Seq(CodePoint) : x = a \o b
          BY <3>7
        <4>2. Spelled(<<x>>) = x /\ <<x>> \in Seq(Seq(CodePoint))
          BY SpelledOne
        <4> QED BY <4>1, <4>2
      <3> QED BY <2>1, <3>2, <3>3, <3>4, <3>6, <3>7, <3>8
    <2>3. CASE ~ PairAt(w, p, i)
      <3>1. Made(w, p)[i] = <<w[i]>> /\ After(w, p)[i] = i + 1
        BY <1>0, <2>3 DEF Made, After
      <3>2. PICK a \in Seq(CodePoint) : a = w[i]
        BY <1>0
      <3>3. Spelled(<<a>>) = a /\ <<a>> \in Seq(Seq(CodePoint))
        BY SpelledOne
      <3> QED BY <2>1, <3>1, <3>2, <3>3
    <2> QED BY <2>2, <2>3
  <1>4. PICK made, next : made = Made(w, p) /\ next = After(w, p)
    OBVIOUS
  <1>5. PICK n \in Nat : n = Len(w)
    BY <1>0
  <1>6. /\ Forward(n, next) /\ \A i \in 1..n : made[i] \in Seq(Seq(CodePoint))
        /\ \A i \in 1..n :
             Spelled(Suffix(w, i)) = Spelled(made[i]) \o Spelled(Suffix(w, next[i]))
    BY <1>2, <1>3, <1>4, <1>5
  <1>7. IsScan(ScanFrom(n, made, next), n, made, next)
    BY <1>6, ScanFromIs
  <1>8. \A i \in 1..(n + 1) : ScanFrom(n, made, next)[i] \in Seq(Seq(CodePoint))
    BY <1>6, ScanFromType
  <1>9. MergeAll(w, p) = ScanFrom(n, made, next)[1]
    <2>1. MergeAll(w, p) = ScanFrom(Len(w), Made(w, p), After(w, p))[1]
      BY Zenon DEF MergeAll, Made, After
    <2> QED BY <1>4, <1>5, <2>1
  <1>10. PICK f : f = ScanFrom(n, made, next)
    OBVIOUS
  <1>11. Spelled(f[1]) = Spelled(w)
    <2>1. Keeps(w, n, f, made, next)
      BY <1>6, <1>8, <1>10 DEF Keeps
    <2>2. IsScan(f, n, made, next) /\ Forward(n, next)
      BY <1>6, <1>7, <1>10
    <2> QED BY <1>5, <2>1, <2>2, ScanSpells
  <1>12. 1 \in 1..(n + 1)
    OBVIOUS
  <1> QED BY <1>8, <1>9, <1>10, <1>11, <1>12

-----------------------------------------------------------------------------
(***************************************************************************)
(* What decode() gives for the ids of encode(): the bytes of a special token*)
(* that is no marker, of a word and of the text between special tokens.    *)
(***************************************************************************)
Byte == DOMAIN ByteSymbol
Markers == {EndOfText, ImStart, ImEnd}

\* The bytes of one character in decode_token.
SymbolBytes ==
  [c \in CodePoint |-> IF c \in Range(ByteSymbol) THEN <<SymbolByte(c)>> ELSE Utf8[c]]

DecodeMap(names) ==
  [x \in Ids |-> IF x \notin DOMAIN names \/ names[x] \in Markers THEN <<>>
                 ELSE FlatMap(SymbolBytes, names[x])]

NamesOK == id_to_token \in [DOMAIN id_to_token -> Seq(CodePoint)]

LEMMA Utf8Is == IsMap(Utf8, CodePoint, Byte)
  <1>1. Utf8 \in [CodePoint -> Seq(DOMAIN ByteSymbol) \ {<<>>}]
    BY TokenizerAssumption
  <1> QED BY <1>1 DEF IsMap, Byte

LEMMA BytesIs == \A t : Bytes(t) = FlatMap(Utf8, t)
  BY Zenon DEF Bytes, FlatMap

LEMMA SymbolByteIs ==
  ASSUME NEW b \in Byte
  PROVE  ByteSymbol[b] \in Range(ByteSymbol) /\ SymbolByte(ByteSymbol[b]) = b
  <1>1. IsInjective(ByteSymbol)
    BY TokenizerAssumption
  <1>2. \A c \in DOMAIN ByteSymbol : ByteSymbol[c] = ByteSymbol[b] => c = b
    BY <1>1, Zenon DEF IsInjective, Byte
  <1>3. SymbolByte(ByteSymbol[b]) = b
    BY <1>2, Zenon DEF SymbolByte, Byte
  <1> QED BY <1>3, Zenon DEF Range, Byte

LEMMA SymbolBytesIs == IsMap(SymbolBytes, CodePoint, Byte)
  <1>1. ASSUME NEW c \in CodePoint
        PROVE  (IF c \in Range(ByteSymbol) THEN <<SymbolByte(c)>> ELSE Utf8[c]) \in Seq(Byte)
    <2>1. Utf8[c] \in Seq(Byte)
      BY Utf8Is DEF IsMap
    <2>2. c \in Range(ByteSymbol) => SymbolByte(c) \in Byte
      BY Zenon DEF Range, SymbolByte, Byte
    <2> QED BY <2>1, <2>2
  <1> QED BY <1>1 DEF IsMap, SymbolBytes

LEMMA DecodeMapIs ==
  ASSUME NEW names, names \in [DOMAIN names -> Seq(CodePoint)]
  PROVE  IsMap(DecodeMap(names), Ids, Byte)
  <1>1. ASSUME NEW x \in Ids
        PROVE  (IF x \notin DOMAIN names \/ names[x] \in Markers THEN <<>>
                ELSE FlatMap(SymbolBytes, names[x])) \in Seq(Byte)
    <2>1. CASE x \in DOMAIN names
      <3>1. names[x] \in Seq(CodePoint)
        BY <2>1
      <3>2. FlatMap(SymbolBytes, names[x]) \in Seq(Byte)
        BY <3>1, SymbolBytesIs, FlatMapIn
      <3> QED BY <3>2
    <2>2. CASE x \notin DOMAIN names
      BY <2>2
    <2> QED BY <2>1, <2>2
  <1> QED BY <1>1 DEF IsMap, DecodeMap

LEMMA DecodeTokenIs ==
  ASSUME NamesOK, NEW x \in Ids
  PROVE  DecodeToken(x) = DecodeMap(id_to_token)[x]
  <1>1. CASE x \notin DOMAIN id_to_token \/ id_to_token[x] \in Markers
    <2>1. DecodeToken(x) = <<>>
      BY <1>1, Zenon DEF DecodeToken, Markers
    <2>2. DecodeMap(id_to_token)[x] = <<>>
      BY <1>1, Zenon DEF DecodeMap
    <2> QED BY <2>1, <2>2
  <1>2. CASE x \in DOMAIN id_to_token /\ id_to_token[x] \notin Markers
    <2>1. PICK name \in Seq(CodePoint) : name = id_to_token[x]
      BY <1>2 DEF NamesOK
    <2>2. DecodeToken(x) = FlattenSeq([i \in DOMAIN name |->
             IF name[i] \in Range(ByteSymbol) THEN <<SymbolByte(name[i])>> ELSE Utf8[name[i]]])
      BY <1>2, <2>1, Zenon DEF DecodeToken, Markers
    <2>3. ASSUME NEW i \in DOMAIN name
          PROVE  SymbolBytes[name[i]]
                   = IF name[i] \in Range(ByteSymbol) THEN <<SymbolByte(name[i])>> ELSE Utf8[name[i]]
      <3>1. name[i] \in CodePoint
        OBVIOUS
      <3> QED BY <3>1, Zenon DEF SymbolBytes
    <2>4. [i \in DOMAIN name |-> SymbolBytes[name[i]]]
            = [i \in DOMAIN name |->
                 IF name[i] \in Range(ByteSymbol) THEN <<SymbolByte(name[i])>> ELSE Utf8[name[i]]]
      BY <2>3, Zenon
    <2>5. DecodeToken(x) = FlatMap(SymbolBytes, name)
      BY <2>2, <2>4, Zenon DEF FlatMap
    <2>6. DecodeMap(id_to_token)[x] = FlatMap(SymbolBytes, name)
      BY <1>2, <2>1, Zenon DEF DecodeMap
    <2> QED BY <2>5, <2>6
  <1> QED BY <1>1, <1>2

LEMMA DecodeIs ==
  ASSUME NamesOK, NEW ids \in Seq(Ids)
  PROVE  Decode(ids) = FlatMap(DecodeMap(id_to_token), ids)
  <1>1. \A i \in DOMAIN ids : ids[i] \in Ids
    OBVIOUS
  <1>2. \A i \in DOMAIN ids : DecodeMap(id_to_token)[ids[i]] = DecodeToken(ids[i])
    BY <1>1, DecodeTokenIs
  <1>3. [i \in DOMAIN ids |-> DecodeMap(id_to_token)[ids[i]]] = [i \in DOMAIN ids |-> DecodeToken(ids[i])]
    BY <1>2, Zenon
  <1> QED BY <1>3, Zenon DEF Decode, FlatMap

\* Decoding the symbols of a text gives its bytes.
LEMMA SymbolsDecode ==
  ASSUME NEW t \in Seq(CodePoint)
  PROVE  FlatMap(SymbolBytes, Symbols(t)) = Bytes(t)
  <1>1. PICK b \in Seq(Byte) : b = Bytes(t)
    BY BytesType DEF Byte
  <1>2. DOMAIN b = 1..Len(b) /\ \A i \in DOMAIN b : b[i] \in Byte
    OBVIOUS
  <1>3. DOMAIN Symbols(t) = DOMAIN b /\ \A i \in DOMAIN b : Symbols(t)[i] = ByteSymbol[b[i]]
    BY <1>1, Zenon DEF Symbols
  <1>4. ASSUME NEW i \in DOMAIN b PROVE SymbolBytes[Symbols(t)[i]] = Single(Byte)[b[i]]
    <2>1. b[i] \in Byte
      BY <1>2
    <2>2. ByteSymbol[b[i]] \in CodePoint
      <3>1. ByteSymbol \in [DOMAIN ByteSymbol -> CodePoint]
        BY TokenizerAssumption
      <3> QED BY <2>1, <3>1, Zenon DEF Byte
    <2>3. ByteSymbol[b[i]] \in Range(ByteSymbol) /\ SymbolByte(ByteSymbol[b[i]]) = b[i]
      BY <2>1, SymbolByteIs
    <2>4. SymbolBytes[ByteSymbol[b[i]]] = <<b[i]>>
      BY <2>2, <2>3, Zenon DEF SymbolBytes
    <2>5. Single(Byte)[b[i]] = <<b[i]>>
      BY <2>1, Zenon DEF Single
    <2> QED BY <1>3, <2>4, <2>5
  <1>5. [i \in DOMAIN Symbols(t) |-> SymbolBytes[Symbols(t)[i]]] = [i \in DOMAIN b |-> Single(Byte)[b[i]]]
    BY <1>3, <1>4, Zenon
  <1>6. FlatMap(SymbolBytes, Symbols(t)) = FlatMap(Single(Byte), b)
    BY <1>5, Zenon DEF FlatMap
  <1> QED BY <1>1, <1>6, FlatMapSingle

LEMMA FlatMapOfOne ==
  ASSUME NEW D, NEW S, NEW g, IsMap(g, D, S), NEW x \in D
  PROVE  FlatMap(g, <<x>>) = g[x]
  <1>1. PICK h \in [D -> Seq(S)] : h = g
    BY DEF IsMap
  <1> QED BY <1>1, FlatMapOne

LEMMA AtomDecodes ==
  ASSUME ClosedVocabulary, TablesOK, NamesOK, NEW a \in Atoms
  PROVE  IdsOf(a) \in Seq(Ids) /\ FlatMap(DecodeMap(id_to_token), IdsOf(a)) = FlatMap(SymbolBytes, a)
  <1>1. a \in DOMAIN vocab /\ Spells(vocab[a], a) /\ a \notin Markers
    BY DEF ClosedVocabulary, Markers
  <1>2. IdsOf(a) = <<vocab[a]>>
    BY <1>1 DEF IdsOf
  <1>3. vocab[a] \in Ids
    BY <1>1 DEF TablesOK, Ids
  <1>4. PICK x \in Ids : x = vocab[a]
    BY <1>3
  <1>5. x \in DOMAIN id_to_token /\ id_to_token[x] = a
    BY <1>1, <1>4 DEF Spells
  <1>6. DecodeMap(id_to_token)[x] = FlatMap(SymbolBytes, a)
    BY <1>1, <1>5, Zenon DEF DecodeMap
  <1>7. FlatMap(DecodeMap(id_to_token), <<x>>) = DecodeMap(id_to_token)[x]
    <2>1. IsMap(DecodeMap(id_to_token), Ids, Byte)
      BY DecodeMapIs DEF NamesOK
    <2> QED BY <2>1, FlatMapOfOne
  <1> QED BY <1>2, <1>4, <1>6, <1>7

LEMMA WordDecodes ==
  ASSUME ClosedVocabulary, TablesOK, NamesOK, NEW w \in Seq(Atoms), NEW d, d = DecodeMap(id_to_token)
  PROVE  /\ IdsOfWord(w) \in Seq(Ids)
         /\ FlatMap(d, IdsOfWord(w)) = FlatMap(SymbolBytes, Spelled(w))
  <1> DEFINE m == [a \in Atoms |-> IdsOf(a)]
  <1>0. \A i \in DOMAIN w : w[i] \in Atoms
    OBVIOUS
  <1>a. Atoms \subseteq Seq(CodePoint)
    BY AtomsTyped
  <1>1. IsMap(m, Atoms, Ids) /\ \A a \in Atoms : m[a] = IdsOf(a)
    BY AtomDecodes DEF IsMap
  <1> HIDE DEF m
  <1>2. IdsOfWord(w) = FlatMap(m, w)
    <2>1. \A i \in DOMAIN w : m[w[i]] = IdsOf(w[i])
      BY <1>0, <1>1
    <2>2. [i \in DOMAIN w |-> m[w[i]]] = [i \in DOMAIN w |-> IdsOf(w[i])]
      BY <2>1, Zenon
    <2> QED BY <2>2, Zenon DEF IdsOfWord, FlatMap
  <1>3. IsMap(d, Ids, Byte)
    BY DecodeMapIs DEF NamesOK
  <1>4. FlatMap(d, FlatMap(m, w)) = FlatMap(Compose(d, m, Atoms), w)
    BY <1>1, <1>3, FlatMapCompose
  <1>5. w \in Seq(Seq(CodePoint))
    BY <1>a, SubSequences
  <1>6. FlatMap(SymbolBytes, FlatMap(Itself, w)) = FlatMap(Compose(SymbolBytes, Itself, Seq(CodePoint)), w)
    <2>1. PICK D : D = Seq(CodePoint)
      OBVIOUS
    <2>2. IsMap(Itself, D, CodePoint) /\ w \in Seq(D)
      BY <1>5, <2>1, ItselfIs
    <2>3. FlatMap(SymbolBytes, FlatMap(Itself, w)) = FlatMap(Compose(SymbolBytes, Itself, D), w)
      BY <2>2, SymbolBytesIs, FlatMapCompose
    <2> QED BY <2>1, <2>3
  <1>7. ASSUME NEW i \in DOMAIN w
        PROVE  Compose(d, m, Atoms)[w[i]] = Compose(SymbolBytes, Itself, Seq(CodePoint))[w[i]]
    <2>1. PICK a \in Atoms : a = w[i]
      BY <1>0
    <2>2. a \in Seq(CodePoint) /\ Itself[a] = a
      BY <1>a, ItselfIs
    <2>3. Compose(d, m, Atoms)[a] = FlatMap(d, m[a])
      BY Zenon DEF Compose
    <2>4. Compose(SymbolBytes, Itself, Seq(CodePoint))[a] = FlatMap(SymbolBytes, Itself[a])
      BY <2>2, Zenon DEF Compose
    <2>5. FlatMap(d, m[a]) = FlatMap(SymbolBytes, a)
      BY <1>1, AtomDecodes
    <2> QED BY <2>1, <2>2, <2>3, <2>4, <2>5
  <1>8. FlatMap(Compose(d, m, Atoms), w) = FlatMap(Compose(SymbolBytes, Itself, Seq(CodePoint)), w)
    <2>1. PICK g, h : g = Compose(d, m, Atoms) /\ h = Compose(SymbolBytes, Itself, Seq(CodePoint))
      OBVIOUS
    <2>2. \A i \in DOMAIN w : g[w[i]] = h[w[i]]
      BY <1>7, <2>1
    <2>3. FlatMap(g, w) = FlatMap(h, w)
      BY <2>2, FlatMapSame
    <2> QED BY <2>1, <2>3
  <1>9. FlatMap(m, w) \in Seq(Ids)
    BY <1>1, FlatMapIn
  <1> QED BY <1>2, <1>4, <1>6, <1>8, <1>9 DEF Spelled

\* The text a special token leaves: none for the three markers, else its name.
Shown(name) == IF name \in Markers THEN <<>> ELSE name

LEMMA SpecialDecodes ==
  ASSUME ClosedVocabulary, SpecialsOK, NamesOK, NEW m \in DOMAIN special_tokens
  PROVE  /\ special_tokens[m][2] \in Ids
         /\ DecodeMap(id_to_token)[special_tokens[m][2]] = Bytes(Shown(special_tokens[m][1]))
  <1>1. special_tokens[m][1] \in Seq(CodePoint) /\ special_tokens[m][2] \in Ids
    BY DEF SpecialsOK, SpecialToken, Ids
  <1>2. PICK x \in Ids, name \in Seq(CodePoint) : x = special_tokens[m][2] /\ name = special_tokens[m][1]
    BY <1>1
  <1>3. /\ x \in DOMAIN id_to_token /\ id_to_token[x] = name
        /\ \A c \in Range(name) \cap Range(ByteSymbol) : Utf8[c] = <<SymbolByte(c)>>
    BY <1>2 DEF ClosedVocabulary, Spells
  <1>4. CASE name \in Markers
    <2>1. DecodeMap(id_to_token)[x] = <<>>
      BY <1>3, <1>4, Zenon DEF DecodeMap
    <2>2. Bytes(Shown(name)) = <<>>
      BY <1>4, BytesIs, FlatMapEmpty DEF Shown
    <2> QED BY <1>2, <2>1, <2>2
  <1>5. CASE name \notin Markers
    <2>1. DecodeMap(id_to_token)[x] = FlatMap(SymbolBytes, name)
      BY <1>3, <1>5, Zenon DEF DecodeMap
    <2>2. ASSUME NEW i \in DOMAIN name PROVE SymbolBytes[name[i]] = Utf8[name[i]]
      <3>1. name[i] \in CodePoint
        OBVIOUS
      <3>2. name[i] \in Range(name)
        BY Zenon DEF Range
      <3> QED BY <1>3, <3>1, <3>2 DEF SymbolBytes
    <2>3. FlatMap(SymbolBytes, name) = FlatMap(Utf8, name)
      BY <2>2, FlatMapSame
    <2> QED BY <1>2, <1>5, <2>1, <2>3, BytesIs DEF Shown
  <1> QED BY <1>1, <1>2, <1>4, <1>5

LEMMA NamesLoad ==
  ASSUME calls \in 0..Len(Texts), calls < Len(Texts), NEW d \in Documents[calls + 1], Load(d)
  PROVE  NamesOK'
  <1>2. calls + 1 \in DOMAIN Texts
    <2>1. Len(Texts) \in Nat /\ DOMAIN Texts = 1..Len(Texts)
      BY TokenizerAssumption
    <2> QED BY <2>1
  <1>3. d.added \in Seq(Seq(CodePoint) \X Int) /\ d.vocab \in Seq(Seq(CodePoint) \X Int)
    BY <1>2, TokenizerAssumption
  <1>4. id_to_token' = Table(Inverse1(d.added \o d.vocab))
    BY DEF Load
  <1> DEFINE N == Seq(CodePoint)
             K == N \X Int
  <1>5. PICK a \in Seq(K), b \in Seq(K) : a = d.added /\ b = d.vocab
    BY <1>3
  <1> HIDE DEF K
  <1>6. a \o b \in Seq(K)
    OBVIOUS
  <1>7. PICK e \in Seq(K) : e = a \o b
    BY <1>6
  <1> HIDE DEF N
  <1>8. PICK r : r = Inverse1(e)
    OBVIOUS
  <1>9. r \in Seq(Int \X N)
    <2>1. DOMAIN e = 1..Len(e) /\ Len(e) \in Nat /\ \A i \in 1..Len(e) : e[i] \in K
      OBVIOUS
    <2>2. \A i \in 1..Len(e) : <<e[i][2], e[i][1]>> \in Int \X N
      BY <2>1 DEF K
    <2>3. r = [i \in 1..Len(e) |-> <<e[i][2], e[i][1]>>]
      BY <1>8, <2>1 DEF Inverse1
    <2> QED BY <2>1, <2>2, <2>3
  <1>10. Table(r) \in [DOMAIN Table(r) -> N]
    BY <1>9, TableIs
  <1> QED BY <1>4, <1>5, <1>7, <1>8, <1>10 DEF NamesOK, N

TextMade ==
  [i \in DOMAIN text |->
     IF ~ Occurs(i) THEN <<text[i]>> ELSE Shown(special_tokens[Longest(i)][1])]

LEMMA CutTextScan ==
  ASSUME text \in Seq(CodePoint), SpecialsOK
  PROVE  /\ IsScan(CutText, Len(text), TextMade, NextCut)
         /\ \A i \in 1..(Len(text) + 1) : CutText[i] \in Seq(CodePoint)
  <1>0. Len(text) \in Nat /\ DOMAIN text = 1..Len(text)
    OBVIOUS
  <1>1. Forward(Len(text), NextCut)
    BY NextCutIs
  <1>2. CutText = ScanFrom(Len(text), TextMade, NextCut)
    BY Zenon DEF CutText, TextMade, Shown, Markers
  <1>3. ASSUME NEW i \in 1..Len(text) PROVE TextMade[i] \in Seq(CodePoint)
    <2>1. TextMade[i] = IF ~ Occurs(i) THEN <<text[i]>> ELSE Shown(special_tokens[Longest(i)][1])
      BY <1>0 DEF TextMade
    <2>2. Occurs(i) => special_tokens[Longest(i)][1] \in Seq(CodePoint)
      BY LongestIs, NameFits
    <2>3. text[i] \in CodePoint
      OBVIOUS
    <2> QED BY <2>1, <2>2, <2>3 DEF Shown
  <1>4. PICK made, next : made = TextMade /\ next = NextCut
    OBVIOUS
  <1>5. PICK n \in Nat : n = Len(text)
    BY <1>0
  <1>6. Forward(n, next) /\ \A i \in 1..n : made[i] \in Seq(CodePoint)
    BY <1>1, <1>3, <1>4, <1>5
  <1>7. IsScan(ScanFrom(n, made, next), n, made, next)
    BY <1>6, ScanFromIs
  <1>8. \A i \in 1..(n + 1) : ScanFrom(n, made, next)[i] \in Seq(CodePoint)
    BY <1>6, ScanFromType
  <1> QED BY <1>2, <1>4, <1>5, <1>7, <1>8

LEMMA TextAtToken ==
  ASSUME text \in Seq(CodePoint), SpecialsOK, NEW i \in 1..Len(text), NEW m, LongestAt(m, i)
  PROVE  CutText[i] = Shown(special_tokens[m][1]) \o CutText[i + Len(special_tokens[m][1])]
  <1>0. Occurs(i) /\ i \in DOMAIN text /\ m \in DOMAIN special_tokens
    BY DEF Occurs, LongestAt, Here
  <1>1. LongestAt(Longest(i), i)
    BY <1>0, LongestIs
  <1>2. special_tokens[Longest(i)][1] = special_tokens[m][1]
    BY <1>1, SameName
  <1>4. CutText[i] = TextMade[i] \o CutText[NextCut[i]]
    BY CutTextScan DEF IsScan
  <1>5. TextMade[i] = Shown(special_tokens[Longest(i)][1])
    BY <1>0 DEF TextMade
  <1>6. NextCut[i] = i + Len(special_tokens[Longest(i)][1])
    BY <1>0, NextCutIs
  <1> QED BY <1>2, <1>4, <1>5, <1>6

LEMMA SubSeqFirst ==
  ASSUME NEW t \in Seq(CodePoint), NEW k \in 1..Len(t), NEW e \in Nat, k <= e, e <= Len(t)
  PROVE  SubSeq(t, k, e) = <<t[k]>> \o SubSeq(t, k + 1, e)
  OBVIOUS

LEMMA StepDown ==
  ASSUME NEW j \in Nat, NEW i \in 1..j, NEW B, B \subseteq i..j, j \notin B,
         \A k \in i..(j - 1) : k + 1 \notin B => k \notin B
  PROVE  B = {}
  <1> SUFFICES ASSUME B # {} PROVE FALSE
    OBVIOUS
  <1>1. B \subseteq 0..j
    OBVIOUS
  <1>2. Max(B) \in B /\ \A m \in B : m <= Max(B)
    BY <1>1, MaxOf
  <1>3. PICK k \in B : \A m \in B : m <= k
    BY <1>2
  <1>4. k \in i..(j - 1)
    <2>1. k \in i..j /\ k # j
      BY <1>3
    <2> QED BY <2>1
  <1>5. k + 1 \in B
    BY <1>3, <1>4
  <1>6. k + 1 <= k
    BY <1>3, <1>5
  <1> QED BY <1>4, <1>6

\* Where no special token occurs the text itself is left.
LEMMA SkipText ==
  ASSUME text \in Seq(CodePoint), SpecialsOK, NEW i \in 1..(Len(text) + 1), NEW j \in i..(Len(text) + 1),
         \A k \in i..(j - 1) : ~ Occurs(k)
  PROVE  CutText[i] = SubSeq(text, i, j - 1) \o CutText[j]
  <1> DEFINE P(k) == CutText[k] = SubSeq(text, k, j - 1) \o CutText[j]
             bad == {k \in i..j : ~ P(k)}
  <1>0. Len(text) \in Nat /\ DOMAIN text = 1..Len(text) /\ i \in Int /\ j \in Nat /\ i \in 1..j
    OBVIOUS
  <1>a. CutText[j] \in Seq(CodePoint)
    <2>1. j \in 1..(Len(text) + 1)
      BY <1>0
    <2> QED BY <2>1, CutTextScan
  <1>1. ASSUME NEW k \in i..(j - 1), P(k + 1) PROVE P(k)
    <2>1. k \in 1..Len(text) /\ ~ Occurs(k)
      BY <1>0
    <2>2. NextCut[k] = k + 1
      BY <2>1, NextCutIs
    <2>3. TextMade[k] = <<text[k]>>
      BY <1>0, <2>1 DEF TextMade
    <2>4. CutText[k] = TextMade[k] \o CutText[NextCut[k]]
      BY <2>1, CutTextScan DEF IsScan
    <2>5. SubSeq(text, k, j - 1) = <<text[k]>> \o SubSeq(text, k + 1, j - 1)
      <3>1. PICK t \in Seq(CodePoint), e \in Nat : t = text /\ e = j - 1
        BY <1>0
      <3>2. k \in 1..Len(t) /\ k <= e /\ e <= Len(t)
        BY <1>0, <2>1, <3>1
      <3>3. SubSeq(t, k, e) = <<t[k]>> \o SubSeq(t, k + 1, e)
        BY <3>2, SubSeqFirst
      <3> QED BY <3>1, <3>3
    <2>6. PICK x \in Seq(CodePoint), s \in Seq(CodePoint), c \in Seq(CodePoint) :
            x = <<text[k]>> /\ s = SubSeq(text, k + 1, j - 1) /\ c = CutText[j]
      <3>1. text[k] \in CodePoint
        BY <2>1
      <3>2. SubSeq(text, k + 1, j - 1) \in Seq(CodePoint)
        BY <1>0, <2>1
      <3>3. <<text[k]>> \in Seq(CodePoint)
        BY <3>1
      <3> QED BY <1>a, <3>2, <3>3, Zenon
    <2>7. x \o (s \o c) = (x \o s) \o c
      OBVIOUS
    <2>8. CutText[k + 1] = s \o c
      BY <1>1, <2>6
    <2> QED BY <2>2, <2>3, <2>4, <2>5, <2>6, <2>7, <2>8
  <1>2. P(j)
    <2>1. SubSeq(text, j, j - 1) = <<>>
      BY <1>0
    <2> QED BY <1>a, <2>1, ConcatEmpty
  <1> HIDE DEF P
  <1>3. bad = {}
    <2>1. bad \subseteq i..j /\ j \notin bad
      BY <1>2
    <2>2. \A k \in i..(j - 1) : k + 1 \notin bad => k \notin bad
      <3>1. ASSUME NEW k \in i..(j - 1), k + 1 \notin bad PROVE k \notin bad
        <4>1. k + 1 \in i..j
          BY <1>0
        <4>2. P(k + 1)
          BY <3>1, <4>1
        <4> QED BY <1>1, <4>2
      <3> QED BY <3>1
    <2> HIDE DEF bad
    <2> QED BY <1>0, <2>1, <2>2, StepDown
  <1>4. P(i)
    <2>1. i \in i..j
      BY <1>0
    <2> QED BY <1>3, <2>1
  <1> QED BY <1>4 DEF P

-----------------------------------------------------------------------------
(***************************************************************************)
(* The pieces of a segment lie one behind the other up to its end, and each*)
(* word spells its piece.                                                  *)
(***************************************************************************)
\* The tokens of the splitter lie one behind the other, up to the cursor.
Start(k) == IF k <= Len(offsets) THEN offsets[k][1] ELSE cur

Tiled ==
  /\ Start(1) = 1
  /\ \A k \in 1..Len(offsets) : offsets[k][2] = Start(k + 1) /\ offsets[k][1] < offsets[k][2]

TileOK == Tiled /\ (phase \in {"chunk", "merge", "emit"} => cur = Len(seg) + 1)

Part == SubSeq(seg, offsets[chunk][1], offsets[chunk][2] - 1)

\* Words spell the piece they come from, in the cache as well.
SpellOK ==
  /\ \A p \in DOMAIN bpe_cache : Spelled(bpe_cache[p]) = p
  /\ phase \in {"merge", "emit"} => Spelled(word) = piece /\ piece = Symbols(Part)

SpellInv == NamesOK /\ TileOK /\ SpellOK

OthersSpell == \A t \in Others : other[t] # <<>> => Spelled(other[t][2]) = other[t][1]

LEMMA NoTiles ==
  ASSUME offsets = <<>>, cur = 1
  PROVE  Tiled
  <1>1. Len(offsets) = 0
    OBVIOUS
  <1> QED BY <1>1 DEF Tiled, Start

LEMMA InitSpell == Init => SpellInv
  <1> SUFFICES ASSUME Init PROVE SpellInv
    OBVIOUS
  <1>1. id_to_token = Empty /\ bpe_cache = Empty /\ phase = "idle" /\ offsets = <<>> /\ cur = 1
    BY DEF Init
  <1>2. NamesOK
    BY <1>1 DEF NamesOK, Empty
  <1>3. TileOK
    BY <1>1, NoTiles DEF TileOK
  <1>4. SpellOK
    BY <1>1 DEF SpellOK, Empty
  <1> QED BY <1>2, <1>3, <1>4 DEF SpellInv

LEMMA TiledNext ==
  ASSUME Tiled, UNCHANGED <<offsets, cur>>
  PROVE  Tiled'
  BY DEF Tiled, Start

LEMMA QuietSpell ==
  ASSUME SpellInv, UNCHANGED <<id_to_token, bpe_cache, offsets, cur>>,
         phase' \notin {"merge", "emit"}, phase' = "chunk" => cur = Len(seg) + 1 /\ UNCHANGED seg
  PROVE  SpellInv'
  <1>1. NamesOK' /\ SpellOK'
    BY DEF SpellInv, NamesOK, SpellOK
  <1>2. TileOK'
    BY TiledNext DEF SpellInv, TileOK
  <1> QED BY <1>1, <1>2 DEF SpellInv

\* A step from nothing cut yet.
LEMMA FreshSpell ==
  ASSUME SpellInv, UNCHANGED <<id_to_token, bpe_cache>>, offsets' = <<>>, cur' = 1,
         phase' \notin {"chunk", "merge", "emit"}
  PROVE  SpellInv'
  <1>1. NamesOK' /\ SpellOK'
    BY DEF SpellInv, NamesOK, SpellOK
  <1>2. Tiled'
    <2>1. Len(offsets') = 0
      OBVIOUS
    <2> QED BY <2>1 DEF Tiled, Start
  <1> QED BY <1>1, <1>2 DEF SpellInv, TileOK

LEMMA AdvanceTiles ==
  ASSUME TokInv, Tiled, NEW e, AddsToken(e)
  PROVE  Tiled'
  <1>0. Len(seg) \in Nat /\ cur \in Int /\ offsets \in Seq(Offset(Len(seg))) /\ cur \in 1..Len(seg)
    BY DEF TokInv, SplitOK, SegOK, AddsToken
  <1>1. e \in (cur + 1)..(Len(seg) + 1)
    BY DEF Cuts, AddsToken
  <1>2. e > cur /\ e \in Int
    BY <1>0, <1>1
  <1>3. offsets' = Append(offsets, <<cur, e>>) /\ cur' = e
    BY <1>2 DEF AddToken, AddsToken
  <1>4. PICK n \in Nat : n = Len(offsets)
    BY <1>0
  <1>5. /\ Len(offsets') = n + 1
        /\ \A k \in 1..n : offsets'[k] = offsets[k]
        /\ offsets'[n + 1] = <<cur, e>>
    BY <1>0, <1>3, <1>4
  <1>6. ASSUME NEW k \in 1..(n + 1) PROVE Start(k)' = Start(k)
    <2>1. CASE k \in 1..n
      <3>1. k <= n /\ k <= n + 1
        BY <2>1
      <3>2. Start(k)' = offsets'[k][1] /\ Start(k) = offsets[k][1]
        BY <1>4, <1>5, <3>1 DEF Start
      <3> QED BY <1>5, <2>1, <3>2
    <2>2. CASE k = n + 1
      <3>1. k <= n + 1 /\ ~ (k <= n)
        BY <2>2
      <3>2. Start(k)' = offsets'[k][1] /\ Start(k) = cur
        BY <1>4, <1>5, <3>1 DEF Start
      <3> QED BY <1>5, <2>2, <3>2
    <2>3. k \in 1..n \/ k = n + 1
      OBVIOUS
    <2> QED BY <2>1, <2>2, <2>3
  <1>7. Start(n + 1 + 1)' = e
    <2>1. ~ (n + 1 + 1 <= n + 1)
      OBVIOUS
    <2> QED BY <1>3, <1>5, <2>1 DEF Start
  <1>8. Start(1)' = 1
    <2>1. 1 \in 1..(n + 1)
      OBVIOUS
    <2>2. Start(1)' = Start(1)
      BY <1>6, <2>1
    <2> QED BY <2>2 DEF Tiled
  <1>9. ASSUME NEW k \in 1..(n + 1)
        PROVE  offsets'[k][2] = Start(k + 1)' /\ offsets'[k][1] < offsets'[k][2]
    <2>1. CASE k \in 1..n
      <3>1. k + 1 \in 1..(n + 1)
        BY <2>1
      <3>2. offsets[k][2] = Start(k + 1) /\ offsets[k][1] < offsets[k][2]
        BY <1>4, <2>1 DEF Tiled
      <3>3. Start(k + 1)' = Start(k + 1)
        BY <1>6, <3>1
      <3> QED BY <1>5, <2>1, <3>2, <3>3
    <2>2. CASE k = n + 1
      <3>1. offsets'[k] = <<cur, e>>
        BY <1>5, <2>2
      <3> QED BY <1>0, <1>2, <1>7, <2>2, <3>1
    <2>3. k \in 1..n \/ k = n + 1
      OBVIOUS
    <2> QED BY <2>1, <2>2, <2>3
  <1> QED BY <1>5, <1>8, <1>9 DEF Tiled

LEMMA NextOthersSpell ==
  ASSUME TokInv, AtomInv, OthersOK, OthersSpell, [Next]_vars
  PROVE  OthersSpell'
  <1> SUFFICES ASSUME NEW t \in Others, other'[t] # <<>>
               PROVE  Spelled(other'[t][2]) = other'[t][1]
    BY DEF OthersSpell
  <1>1. CASE other'[t] = other[t] /\ other[t] # <<>>
    BY <1>1 DEF OthersSpell
  <1>2. CASE \E p \in OtherPieces[calls] : other'[t] = <<p, Letters(p)>>
    BY <1>2, OtherPieceIs, LettersSpell
  <1>3. CASE /\ other[t] # <<>> /\ Pairs(other[t][2]) # {}
             /\ other'[t] = <<other[t][1], MergeAll(other[t][2], BestPair(other[t][2]))>>
    <2>1. other[t][2] \in Seq(Seq(CodePoint))
      <3>1. other[t][2] \in Seq(AtomsOf(bpe_ranks)) /\ AtomsOf(bpe_ranks) \subseteq Seq(CodePoint)
        BY <1>3, AtomsTyped DEF AtomInv, OthersOK, OthersAtoms
      <3> QED BY <3>1, SubSequences
    <2>2. PICK w \in Seq(Seq(CodePoint)), p \in {BestPair(other[t][2])} : w = other[t][2]
      BY <2>1
    <2>3. Spelled(MergeAll(w, p)) = Spelled(w)
      BY MergeAllSpells
    <2> QED BY <1>3, <2>2, <2>3 DEF OthersSpell
  <1> QED BY <1>1, <1>2, <1>3, OtherCases DEF OthersOK

LEMMA NextSpell ==
  ASSUME TokInv, AtomInv, SpellInv, OthersSpell, [Next]_vars
  PROVE  SpellInv'
  <1>1. CASE calls < Len(Texts) /\ \E d \in Documents[calls + 1] : Load(d)
    <2>1. calls \in 0..Len(Texts)
      BY DEF TokInv, ControlOK
    <2>2. PICK d \in Documents[calls + 1] : Load(d)
      BY <1>1
    <2>3. NamesOK'
      BY <1>1, <2>1, <2>2, NamesLoad
    <2>4. bpe_cache' = Empty /\ phase' = "idle" /\ UNCHANGED <<offsets, cur>>
      BY <2>2 DEF Load, ClearedCache, split
    <2>5. SpellOK'
      BY <2>4 DEF SpellOK, Empty
    <2>6. TileOK'
      BY <2>4, TiledNext DEF SpellInv, TileOK
    <2> QED BY <2>3, <2>5, <2>6 DEF SpellInv
  <1>2. CASE LoadEmptyBuffer
    <2>1. UNCHANGED <<id_to_token, bpe_cache, offsets, cur>> /\ phase' = "idle"
      BY <1>2 DEF LoadEmptyBuffer, split
    <2> QED BY <2>1, QuietSpell
  <1>3. CASE calls < Len(Texts) /\ \E t \in Texts[calls + 1] : Encode(t)
    <2>1. UNCHANGED <<id_to_token, bpe_cache, offsets, cur>> /\ phase' \in {"done", "scan"}
      BY <1>3 DEF Encode, tables, split
    <2> QED BY <2>1, QuietSpell
  <1>4. CASE PushSpecial \/ Finish
    <2>1. UNCHANGED <<id_to_token, bpe_cache, offsets, cur>> /\ phase' \in {"done", "scan"}
      BY <1>4 DEF PushSpecial, Finish, tables, split
    <2> QED BY <2>1, QuietSpell
  <1>5. CASE Scan \/ ChunksDone
    <2>1. /\ UNCHANGED <<id_to_token, bpe_cache>> /\ offsets' = <<>> /\ cur' = 1
          /\ phase' \in {"special", "split"}
      BY <1>5 DEF Scan, ChunksDone, tables
    <2> QED BY <2>1, FreshSpell
  <1>6. CASE Split
    <2>1. CASE SplitDone
      <3>1. /\ UNCHANGED <<id_to_token, bpe_cache, offsets, cur, seg>> /\ phase' = "chunk"
            /\ cur > Len(seg)
        BY <2>1 DEF SplitDone, tables, split
      <3>2. cur = Len(seg) + 1
        <4>1. cur \in 1..(Len(seg) + 1) /\ Len(seg) \in Nat
          BY DEF TokInv, SplitOK, SegOK
        <4> QED BY <3>1, <4>1
      <3> QED BY <3>1, <3>2, QuietSpell
    <2>2. CASE \E e : AddsToken(e)
      <3>1. PICK e : AddsToken(e)
        BY <2>2
      <3>2. Tiled'
        BY <3>1, AdvanceTiles DEF SpellInv, TileOK
      <3>3. UNCHANGED <<id_to_token, bpe_cache>> /\ phase' = "split"
        BY <3>1 DEF AddsToken, AddToken, tables
      <3>4. NamesOK' /\ SpellOK'
        BY <3>3 DEF SpellInv, NamesOK, SpellOK
      <3> QED BY <3>2, <3>3, <3>4 DEF SpellInv, TileOK
    <2> QED BY <1>6, <2>1, <2>2, SplitAdvances
  <1>7. CASE NextChunk
    <2>1. /\ chunk \in 1..Len(offsets)
          /\ piece' = Symbols(Part)
          /\ IF piece' \in DOMAIN bpe_cache
             THEN word' = bpe_cache[piece'] /\ phase' = "emit"
             ELSE word' = Letters(piece') /\ phase' = "merge"
      BY <1>7, NextChunkIs DEF Part
    <2>2. Part \in Seq(CodePoint)
      BY <1>7, NextChunkIs DEF Part
    <2>3. UNCHANGED <<id_to_token, bpe_cache, offsets, cur, seg, chunk>> /\ phase = "chunk"
      BY <1>7 DEF NextChunk, tables, split
    <2>4. piece' \in Seq(CodePoint)
      BY <2>1, <2>2, SymbolsType
    <2>5. Spelled(Letters(piece')) = piece'
      BY <2>4, LettersSpell
    <2>6. Spelled(word') = piece'
      BY <2>1, <2>5 DEF SpellInv, SpellOK
    <2>7. Part' = Part
      BY <2>3 DEF Part
    <2>8. SpellOK'
      BY <2>1, <2>3, <2>6, <2>7 DEF SpellInv, SpellOK
    <2>9. NamesOK'
      BY <2>3 DEF SpellInv, NamesOK
    <2>10. TileOK'
      BY <2>3, TiledNext DEF SpellInv, TileOK
    <2> QED BY <2>8, <2>9, <2>10 DEF SpellInv
  <1>8. CASE MergeStep
    <2>1. /\ UNCHANGED <<id_to_token, bpe_cache, offsets, cur, seg, chunk, piece>>
          /\ phase = "merge" /\ phase' = "merge" /\ word' = MergeAll(word, BestPair(word))
      BY <1>8 DEF MergeStep, tables, split
    <2>2. word \in Seq(Seq(CodePoint))
      <3>1. word \in Seq(AtomsOf(bpe_ranks)) /\ AtomsOf(bpe_ranks) \subseteq Seq(CodePoint)
        BY <2>1, AtomsTyped DEF AtomInv, WordsOK
      <3> QED BY <3>1, SubSequences
    <2>3. PICK w \in Seq(Seq(CodePoint)), p \in {BestPair(word)} : w = word /\ p = BestPair(word)
      BY <2>2
    <2>4. Spelled(MergeAll(w, p)) = Spelled(w)
      BY MergeAllSpells
    <2>5. Spelled(word') = piece /\ Part' = Part /\ piece = Symbols(Part)
      BY <2>1, <2>3, <2>4 DEF Part, SpellInv, SpellOK
    <2>6. SpellOK'
      BY <2>1, <2>5 DEF SpellInv, SpellOK
    <2>7. NamesOK'
      BY <2>1 DEF SpellInv, NamesOK
    <2>8. TileOK'
      BY <2>1, TiledNext DEF SpellInv, TileOK
    <2> QED BY <2>6, <2>7, <2>8 DEF SpellInv
  <1>9. CASE MergeEnd
    <2>1. /\ UNCHANGED <<id_to_token, offsets, cur, seg, chunk, piece, word>>
          /\ phase = "merge" /\ phase' = "emit"
          /\ bpe_cache' = [p \in DOMAIN bpe_cache \cup {piece} |->
                             IF p = piece THEN word ELSE bpe_cache[p]]
      BY <1>9 DEF MergeEnd, tables, split, merge
    <2>2. Spelled(word) = piece /\ Part' = Part /\ piece = Symbols(Part)
      BY <2>1 DEF Part, SpellInv, SpellOK
    <2>3. SpellOK'
      BY <2>1, <2>2 DEF SpellInv, SpellOK
    <2>4. NamesOK'
      BY <2>1 DEF SpellInv, NamesOK
    <2>5. TileOK'
      BY <2>1, TiledNext DEF SpellInv, TileOK
    <2> QED BY <2>3, <2>4, <2>5 DEF SpellInv
  <1>10. CASE Emit
    <2>1. UNCHANGED <<id_to_token, bpe_cache, offsets, cur, seg>> /\ phase = "emit" /\ phase' = "chunk"
      BY <1>10 DEF Emit, tables, split
    <2> QED BY <2>1, QuietSpell DEF SpellInv, TileOK
  <1>11. CASE UNCHANGED vars
    <2>1. UNCHANGED <<id_to_token, bpe_cache, offsets, cur, seg, chunk, piece, word, phase>>
      BY <1>11 DEF vars, tables, split, merge
    <2>2. SpellOK'
      BY <2>1 DEF SpellInv, SpellOK, Part
    <2>3. NamesOK'
      BY <2>1 DEF SpellInv, NamesOK
    <2>4. TileOK'
      BY <2>1, TiledNext DEF SpellInv, TileOK
    <2> QED BY <2>2, <2>3, <2>4 DEF SpellInv
  <1>12. CASE OtherStep
    <2>1. /\ UNCHANGED <<id_to_token, offsets, cur, seg, chunk, piece, word>>
          /\ phase' \in {phase, "torn"}
      BY <1>12, OtherStepIs
    <2>2. NamesOK' /\ TileOK'
      BY <2>1, TiledNext DEF SpellInv, NamesOK, TileOK
    <2>3. CASE UNCHANGED bpe_cache
      BY <2>1, <2>2, <2>3 DEF SpellInv, SpellOK, Part
    <2>4. ASSUME NEW t \in Others, other[t] # <<>>,
                 bpe_cache' = [p \in DOMAIN bpe_cache \cup {other[t][1]} |->
                                IF p = other[t][1] THEN other[t][2] ELSE bpe_cache[p]]
          PROVE  SpellInv'
      <3>1. Spelled(other[t][2]) = other[t][1]
        BY <2>4 DEF OthersSpell
      <3>2. SpellOK'
        BY <2>1, <2>4, <3>1 DEF SpellInv, SpellOK, Part
      <3> QED BY <2>2, <3>2 DEF SpellInv
    <2> QED BY <1>12, <2>3, <2>4, OtherStepIs
  <1> QED BY <1>1, <1>2, <1>3, <1>4, <1>5, <1>6, <1>7, <1>8, <1>9, <1>10, <1>11, <1>12 DEF Next, Step

-----------------------------------------------------------------------------
(***************************************************************************)
(* The inductive invariant of decoding: the ids so far decode to the bytes *)
(* of the text up to here.                                                 *)
(***************************************************************************)
CutTextOf(t, st) ==
  ScanFrom(Len(t),
    [i \in DOMAIN t |->
       IF ~ OccursIn(t, st, i) THEN <<t[i]>> ELSE Shown(st[LongestIn(t, st, i)][1])],
    NextCutOf(t, st))

LEMMA CutTextSame ==
  ASSUME UNCHANGED <<text, special_tokens>>
  PROVE  CutText' = CutText
  <1>1. CutText = CutTextOf(text, special_tokens)
    BY Zenon DEF CutText, CutTextOf, NextCut, NextCutOf, Occurs, OccursIn, Longest, LongestIn,
                 Shown, Markers
  <1>2. CutText' = CutTextOf(text', special_tokens')
    BY Zenon DEF CutText, CutTextOf, NextCut, NextCutOf, Occurs, OccursIn, Longest, LongestIn,
                 Shown, Markers
  <1> QED BY <1>1, <1>2

LEMMA ClosedSame ==
  ASSUME UNCHANGED <<vocab, bpe_ranks, special_tokens, id_to_token>>, ClosedVocabulary'
  PROVE  ClosedVocabulary
  BY Zenon DEF ClosedVocabulary, Atoms, Spells

LEMMA BytesIn ==
  ASSUME NEW a \in Seq(CodePoint)
  PROVE  Bytes(a) \in Seq(Byte)
  BY BytesType DEF Byte

LEMMA BytesJoin ==
  ASSUME NEW a \in Seq(CodePoint), NEW b \in Seq(CodePoint)
  PROVE  Bytes(a \o b) = Bytes(a) \o Bytes(b)
  <1>1. FlatMap(Utf8, a \o b) = FlatMap(Utf8, a) \o FlatMap(Utf8, b)
    BY Utf8Is, FlatMapJoin
  <1> QED BY <1>1, BytesIs

LEMMA BytesEmpty == Bytes(<<>>) = <<>>
  BY BytesIs, FlatMapEmpty

\* A byte has a symbol and the symbol a token: a closed vocabulary is not empty.
LEMMA ClosedNotEmpty ==
  ASSUME ClosedVocabulary, text \in Seq(CodePoint), text # <<>>
  PROVE  vocab # Empty
  <1>1. PICK c \in CodePoint : TRUE
    <2>1. Len(text) \in Nat /\ Len(text) # 0
      OBVIOUS
    <2>2. 1 \in 1..Len(text)
      BY <2>1
    <2>3. text[1] \in CodePoint
      BY <2>2
    <2> QED BY <2>3
  <1>2. Utf8[c] \in Seq(Byte) /\ Utf8[c] # <<>>
    <2>1. Utf8 \in [CodePoint -> Seq(DOMAIN ByteSymbol) \ {<<>>}]
      BY TokenizerAssumption
    <2> QED BY <2>1 DEF Byte
  <1>3. PICK b \in Byte : TRUE
    <2>1. PICK u \in Seq(Byte) : u = Utf8[c]
      BY <1>2
    <2>2. Len(u) \in Nat /\ Len(u) # 0
      BY <1>2, <2>1
    <2>3. 1 \in 1..Len(u)
      BY <2>2
    <2>4. u[1] \in Byte
      BY <2>3
    <2> QED BY <2>4
  <1>4. <<ByteSymbol[b]>> \in Atoms
    BY Zenon DEF Atoms, Byte
  <1>5. <<ByteSymbol[b]>> \in DOMAIN vocab
    BY <1>4 DEF ClosedVocabulary
  <1> QED BY <1>5 DEF Empty

\* What is left of the segment, and what is decoded so far with all that is left.
Left ==
  IF phase = "split" THEN seg
  ELSE IF phase \in {"chunk", "merge", "emit"} THEN SubSeq(seg, Start(chunk), Len(seg))
  ELSE <<>>

Owed(ids, left, p) ==
  FlatMap(DecodeMap(id_to_token), ids) \o (Bytes(left) \o Bytes(CutText[p])) = Bytes(CutText[1])

DecodeInv ==
  phase \notin {"idle", "torn"} /\ ClosedVocabulary =>
    (phase \in {"scan", "done"} /\ tokens = <<>> /\ pos = 1) \/ Owed(tokens, Left, pos)

LEMMA OwedIs ==
  ASSUME TokInv, DecodeInv, phase \notin {"idle", "torn"}, ClosedVocabulary
  PROVE  Owed(tokens, Left, pos)
  <1>1. CASE phase \in {"scan", "done"} /\ tokens = <<>> /\ pos = 1
    <2>0. text \in Seq(CodePoint) /\ SpecialsOK /\ Len(text) \in Nat
      BY DEF TokInv, ScanOK
    <2>1. Left = <<>>
      BY <1>1 DEF Left
    <2>2. 1 \in 1..(Len(text) + 1)
      BY <2>0
    <2>3. CutText[1] \in Seq(CodePoint)
      BY <2>0, <2>2, CutTextScan
    <2>4. PICK b \in Seq(Byte) : b = Bytes(CutText[1])
      BY <2>3, BytesIn
    <2>5. <<>> \o (<<>> \o b) = b
      BY ConcatEmpty
    <2>6. FlatMap(DecodeMap(id_to_token), tokens) = <<>>
      BY <1>1, FlatMapEmpty
    <2> QED BY <1>1, <2>1, <2>4, <2>5, <2>6, BytesEmpty DEF Owed
  <1>2. CASE Owed(tokens, Left, pos)
    BY <1>2
  <1> QED BY <1>1, <1>2 DEF DecodeInv

\* What a step inside of a call has to show.
LEMMA OwedNext ==
  ASSUME UNCHANGED <<vocab, bpe_ranks, special_tokens, id_to_token, text>>,
         NEW ids, ids = tokens', NEW left, left = Left', NEW p, p = pos',
         ClosedVocabulary => Owed(ids, left, p)
  PROVE  DecodeInv'
  <1> SUFFICES ASSUME ClosedVocabulary' PROVE Owed(tokens, Left, pos)'
    BY DEF DecodeInv
  <1>1. Owed(ids, left, p)
    BY ClosedSame
  <1>2. CutText' = CutText
    BY CutTextSame
  <1> QED BY <1>1, <1>2 DEF Owed

LEMMA QuietDecode ==
  ASSUME TokInv, DecodeInv, phase \notin {"idle", "torn"},
         UNCHANGED <<vocab, bpe_ranks, special_tokens, id_to_token, text, tokens, pos>>, Left' = Left
  PROVE  DecodeInv'
  <1>1. PICK ids, left, p : ids = tokens /\ left = Left /\ p = pos
    OBVIOUS
  <1>2. ClosedVocabulary => Owed(ids, left, p)
    BY <1>1, OwedIs
  <1>3. ids = tokens' /\ left = Left' /\ p = pos'
    BY <1>1
  <1> QED BY <1>2, <1>3, OwedNext

LEMMA ScanDecode ==
  ASSUME TokInv, SpecialInv, SpellInv, DecodeInv, Scan
  PROVE  DecodeInv'
  <1>0. text \in Seq(CodePoint) /\ SpecialsOK /\ Len(text) \in Nat
    BY DEF TokInv, ScanOK
  <1>1. /\ UNCHANGED <<vocab, bpe_ranks, special_tokens, id_to_token, text, tokens>> /\ phase = "scan"
        /\ seg' = SubSeq(text, pos, pos' - 1)
        /\ phase' = IF seg' = <<>> THEN "special" ELSE "split"
    BY DEF Scan, tables
  <1>2. Left = <<>> /\ Left' = seg'
    BY <1>1 DEF Left
  <1>3. /\ pos \in 1..Len(text) /\ pos' \in pos..(Len(text) + 1)
        /\ \A k \in pos..(pos' - 1) : ~ Occurs(k)
    BY ScanFinds
  <1>4. PICK i \in 1..(Len(text) + 1) : i = pos
    BY <1>0, <1>3
  <1>5. PICK j \in i..(Len(text) + 1) : j = pos'
    BY <1>3, <1>4
  <1>6. \A k \in i..(j - 1) : ~ Occurs(k)
    BY <1>3, <1>4, <1>5
  <1>7. CutText[i] = SubSeq(text, i, j - 1) \o CutText[j]
    BY <1>0, <1>6, SkipText
  <1>8. PICK s \in Seq(CodePoint), c \in Seq(CodePoint) : s = SubSeq(text, i, j - 1) /\ c = CutText[j]
    <2>1. SubSeq(text, i, j - 1) \in Seq(CodePoint)
      <3>1. PICK e \in Int : e = j - 1
        BY <1>0
      <3>2. i >= 1 /\ e <= Len(text)
        BY <1>0, <3>1
      <3>3. SubSeq(text, i, e) \in Seq(CodePoint)
        BY <1>0, <3>2
      <3> QED BY <3>1, <3>3
    <2>2. j \in 1..(Len(text) + 1)
      BY <1>0
    <2>3. CutText[j] \in Seq(CodePoint)
      BY <1>0, <2>2, CutTextScan
    <2> QED BY <2>1, <2>3
  <1>9. ASSUME ClosedVocabulary PROVE Owed(tokens, s, j)
    <2>1. Owed(tokens, <<>>, i)
      BY <1>1, <1>2, <1>4, <1>9, OwedIs
    <2>2. Bytes(CutText[i]) = Bytes(s) \o Bytes(c)
      BY <1>7, <1>8, BytesJoin
    <2>3. PICK b \in Seq(Byte) : b = Bytes(s) \o Bytes(c)
      BY BytesIn, ConcatType
    <2>4. <<>> \o b = b
      BY ConcatEmpty
    <2> QED BY <1>8, <2>1, <2>2, <2>3, <2>4, BytesEmpty DEF Owed
  <1>10. PICK ids : ids = tokens
    OBVIOUS
  <1>11. ids = tokens' /\ s = Left' /\ j = pos' /\ (ClosedVocabulary => Owed(ids, s, j))
    BY <1>1, <1>2, <1>4, <1>5, <1>8, <1>9, <1>10
  <1> QED BY <1>1, <1>11, OwedNext

LEMMA JoinIs ==
  ASSUME NEW D, NEW a \in Seq(D), NEW b \in Seq(D)
  PROVE  /\ Len(a \o b) = Len(a) + Len(b)
         /\ \A k \in 1..Len(a) : (a \o b)[k] = a[k]
         /\ \A k \in 1..Len(b) : (a \o b)[Len(a) + k] = b[k]
  OBVIOUS

Regroups(a, b, c, e) == a \o ((b \o c) \o e) = (a \o b) \o (c \o e)

LEMMA Regroup ==
  ASSUME NEW D, NEW a \in Seq(D), NEW b \in Seq(D), NEW c \in Seq(D), NEW e \in Seq(D)
  PROVE  Regroups(a, b, c, e)
  <1>1. PICK y \in Seq(D) : y = c \o e
    BY ConcatType
  <1>2. (b \o c) \o e = b \o y
    BY <1>1, Assoc
  <1>3. (a \o b) \o y = a \o (b \o y)
    OBVIOUS
  <1> QED BY <1>1, <1>2, <1>3 DEF Regroups

LEMMA MapJoin ==
  ASSUME NEW d, IsMap(d, Ids, Byte), NEW a \in Seq(Ids), NEW b \in Seq(Ids)
  PROVE  FlatMap(d, a \o b) = FlatMap(d, a) \o FlatMap(d, b)
  BY FlatMapJoin

\* tokens and the ids a step appends, decoded.
LEMMA DecodeJoin ==
  ASSUME SpellInv, NEW d, d = DecodeMap(id_to_token), NEW a \in Seq(Ids), NEW b \in Seq(Ids)
  PROVE  /\ FlatMap(d, a \o b) = FlatMap(d, a) \o FlatMap(d, b)
         /\ FlatMap(d, a) \in Seq(Byte) /\ FlatMap(d, b) \in Seq(Byte)
  <1>1. IsMap(d, Ids, Byte)
    BY DecodeMapIs DEF SpellInv, NamesOK
  <1>2. FlatMap(d, a \o b) = FlatMap(d, a) \o FlatMap(d, b)
    BY <1>1, MapJoin
  <1>3. FlatMap(d, a) \in Seq(Byte) /\ FlatMap(d, b) \in Seq(Byte)
    BY <1>1, FlatMapIn
  <1> QED BY <1>2, <1>3

LEMMA PushDecode ==
  ASSUME TokInv, SpecialInv, SpellInv, DecodeInv, PushSpecial
  PROVE  DecodeInv'
  <1>0. text \in Seq(CodePoint) /\ SpecialsOK /\ Len(text) \in Nat
    BY DEF TokInv, ScanOK
  <1>1. /\ UNCHANGED <<vocab, bpe_ranks, special_tokens, id_to_token, text>>
        /\ phase = "special" /\ phase' = "scan"
    BY DEF PushSpecial, tables
  <1>2. Left = <<>> /\ Left' = <<>>
    BY <1>1 DEF Left
  <1>3. CASE match = 0
    <2>1. UNCHANGED <<tokens, pos>>
      BY <1>3 DEF PushSpecial
    <2> QED BY <1>1, <1>2, <2>1, QuietDecode
  <1>4. CASE match # 0
    <2>1. tokens' = Append(tokens, special_tokens[match][2])
          /\ pos' = pos + Len(special_tokens[match][1])
      BY <1>4 DEF PushSpecial
    <2>2. LongestAt(match, pos) /\ pos \in 1..Len(text)
      BY <1>1, <1>4 DEF SpecialInv
    <2>3. /\ match \in DOMAIN special_tokens /\ special_tokens[match][1] \in Seq(CodePoint)
          /\ pos + Len(special_tokens[match][1]) \in (pos + 1)..(Len(text) + 1)
      BY <1>0, <2>2, NameFits
    <2>4. PICK q \in 1..(Len(text) + 1) : q = pos'
      <3>1. PICK p \in Int, r \in Int, n \in Nat : p = pos /\ r = pos' /\ n = Len(text)
        BY <1>0, <2>1, <2>2, <2>3
      <3>2. r \in (p + 1)..(n + 1) /\ p \in 1..n
        BY <2>1, <2>2, <2>3, <3>1
      <3>3. r \in 1..(n + 1)
        BY <3>2
      <3> QED BY <3>1, <3>3
    <2>5. CutText[pos] = Shown(special_tokens[match][1]) \o CutText[q]
      BY <1>0, <2>1, <2>2, <2>4, TextAtToken
    <2>6. PICK s \in Seq(CodePoint), c \in Seq(CodePoint) :
            s = Shown(special_tokens[match][1]) /\ c = CutText[q]
      <3>1. Shown(special_tokens[match][1]) \in Seq(CodePoint)
        BY <2>3 DEF Shown
      <3>2. CutText[q] \in Seq(CodePoint)
        BY <1>0, CutTextScan
      <3> QED BY <3>1, <3>2
    <2>7. PICK new : new = tokens'
      OBVIOUS
    <2>8. ASSUME ClosedVocabulary PROVE Owed(new, <<>>, q)
      <3>1. Owed(tokens, <<>>, pos)
        BY <1>1, <1>2, <2>8, OwedIs
      <3>2. /\ special_tokens[match][2] \in Ids
            /\ DecodeMap(id_to_token)[special_tokens[match][2]] = Bytes(s)
        BY <1>0, <2>3, <2>6, <2>8, SpecialDecodes DEF SpellInv
      <3>3. PICK d : d = DecodeMap(id_to_token)
        OBVIOUS
      <3>4. PICK a \in Seq(Ids), x \in Ids : a = tokens /\ x = special_tokens[match][2]
        BY <3>2 DEF SpecialInv, Ids
      <3>5. IsMap(d, Ids, Byte)
        BY <3>3, DecodeMapIs DEF SpellInv, NamesOK
      <3>6. FlatMap(d, Append(a, x)) = FlatMap(d, a) \o d[x] /\ FlatMap(d, a) \in Seq(Byte)
        BY <3>5, FlatMapGrows, FlatMapIn
      <3>7. Bytes(CutText[pos]) = Bytes(s) \o Bytes(c)
        BY <2>5, <2>6, BytesJoin
      <3>8. PICK A \in Seq(Byte), S \in Seq(Byte), C \in Seq(Byte) :
              A = FlatMap(d, a) /\ S = Bytes(s) /\ C = Bytes(c)
        BY <3>6, BytesIn
      <3>9. A \o (<<>> \o (S \o C)) = (A \o S) \o (<<>> \o C)
        <4>1. (A \o S) \o C = A \o (S \o C)
          BY Assoc
        <4>2. PICK Y \in Seq(Byte) : Y = S \o C
          BY ConcatType
        <4>3. <<>> \o C = C /\ <<>> \o Y = Y
          BY ConcatEmpty
        <4> QED BY <4>1, <4>2, <4>3
      <3>10. A \o (<<>> \o (S \o C)) = Bytes(CutText[1])
        BY <3>1, <3>3, <3>4, <3>7, <3>8, BytesEmpty DEF Owed
      <3>11. FlatMap(d, new) = A \o S
        BY <2>1, <2>7, <3>2, <3>3, <3>4, <3>6, <3>8
      <3> QED BY <2>6, <3>3, <3>8, <3>9, <3>10, <3>11, BytesEmpty DEF Owed
    <2>9. PICK left : left = <<>>
      OBVIOUS
    <2>10. new = tokens' /\ left = Left' /\ q = pos' /\ (ClosedVocabulary => Owed(new, left, q))
      BY <1>2, <2>4, <2>7, <2>8, <2>9
    <2> QED BY <1>1, <2>10, OwedNext
  <1> QED BY <1>3, <1>4

LEMMA SubSeqSplits ==
  ASSUME NEW t \in Seq(CodePoint), NEW s \in 1..Len(t), NEW e \in 2..(Len(t) + 1), s < e
  PROVE  /\ SubSeq(t, s, e - 1) \in Seq(CodePoint) /\ SubSeq(t, e, Len(t)) \in Seq(CodePoint)
         /\ SubSeq(t, s, Len(t)) = SubSeq(t, s, e - 1) \o SubSeq(t, e, Len(t))
  <1>0. PICK n \in Nat : n = Len(t)
    OBVIOUS
  <1>1. s \in 1..n /\ e \in 2..(n + 1) /\ s < e
    BY <1>0
  <1>2. /\ s \in 1..(n + 1) /\ e \in s..(n + 1) /\ e \in 1..(n + 1)
        /\ n + 1 \in e..(n + 1) /\ n + 1 \in s..(n + 1) /\ n + 1 - 1 = n
    BY <1>1
  <1>3. /\ SubSeq(t, s, e - 1) \in Seq(CodePoint) /\ Len(SubSeq(t, s, e - 1)) = e - s
        /\ \A k \in 1..(e - s) : SubSeq(t, s, e - 1)[k] = t[s + k - 1]
    BY <1>0, <1>2, PartIs
  <1>4. /\ SubSeq(t, e, n) \in Seq(CodePoint) /\ Len(SubSeq(t, e, n)) = n + 1 - e
        /\ \A k \in 1..(n + 1 - e) : SubSeq(t, e, n)[k] = t[e + k - 1]
    BY <1>0, <1>2, PartIs
  <1>5. /\ SubSeq(t, s, n) \in Seq(CodePoint) /\ Len(SubSeq(t, s, n)) = n + 1 - s
        /\ \A k \in 1..(n + 1 - s) : SubSeq(t, s, n)[k] = t[s + k - 1]
    BY <1>0, <1>2, PartIs
  <1>6. PICK a \in Seq(CodePoint), b \in Seq(CodePoint), c \in Seq(CodePoint) :
          a = SubSeq(t, s, e - 1) /\ b = SubSeq(t, e, n) /\ c = SubSeq(t, s, n)
    BY <1>3, <1>4, <1>5
  <1>7. /\ Len(a) = e - s /\ \A k \in 1..(e - s) : a[k] = t[s + k - 1]
        /\ Len(b) = n + 1 - e /\ \A k \in 1..(n + 1 - e) : b[k] = t[e + k - 1]
        /\ Len(c) = n + 1 - s /\ \A k \in 1..(n + 1 - s) : c[k] = t[s + k - 1]
    BY <1>3, <1>4, <1>5, <1>6
  <1>8. PICK u \in Seq(CodePoint) : u = a \o b
    BY ConcatType
  <1>9. /\ Len(u) = n + 1 - s
        /\ \A k \in 1..(e - s) : u[k] = a[k]
        /\ \A k \in 1..(n + 1 - e) : u[e - s + k] = b[k]
    <2>1. /\ Len(u) = Len(a) + Len(b) /\ \A k \in 1..Len(a) : u[k] = a[k]
          /\ \A k \in 1..Len(b) : u[Len(a) + k] = b[k]
      BY <1>8, JoinIs
    <2>2. (e - s) + (n + 1 - e) = n + 1 - s
      BY <1>1
    <2> QED BY <1>7, <2>1, <2>2
  <1>10. ASSUME NEW k \in 1..(n + 1 - s) PROVE u[k] = t[s + k - 1]
    <2>1. CASE k \in 1..(e - s)
      BY <1>7, <1>9, <2>1
    <2>2. CASE k \notin 1..(e - s)
      <3>1. PICK m \in 1..(n + 1 - e) : k = e - s + m
        <4>1. k - (e - s) \in 1..(n + 1 - e) /\ k = e - s + (k - (e - s))
          BY <1>1, <2>2
        <4> QED BY <4>1
      <3>2. u[k] = b[m] /\ b[m] = t[e + m - 1]
        BY <1>7, <1>9, <3>1
      <3>3. s + k - 1 = e + m - 1
        BY <1>1, <3>1
      <3> QED BY <3>2, <3>3
    <2> QED BY <2>1, <2>2
  <1>11. u = c
    <2>1. Len(u) = Len(c) /\ \A k \in 1..Len(u) : u[k] = c[k]
      BY <1>7, <1>9, <1>10
    <2> QED BY <2>1, SeqEqual
  <1> QED BY <1>0, <1>6, <1>8, <1>11

\* The piece of the segment the tokens of a word stand for.
LEMMA LeftSplits ==
  ASSUME TokInv, SpellInv, phase \in {"merge", "emit"}
  PROVE  /\ Part \in Seq(CodePoint) /\ SubSeq(seg, Start(chunk + 1), Len(seg)) \in Seq(CodePoint)
         /\ Left = Part \o SubSeq(seg, Start(chunk + 1), Len(seg))
  <1>0. seg \in Seq(CodePoint) /\ Len(seg) \in Nat
    BY DEF TokInv, SplitOK, SegOK
  <1>1. chunk \in 1..Len(offsets) /\ chunk <= Len(offsets)
    <2>1. Len(offsets) \in Nat /\ chunk \in 1..(Len(offsets) + 1) /\ chunk <= Len(offsets)
      BY DEF TokInv, SplitOK, ChunkOK
    <2> QED BY <2>1
  <1>2. offsets[chunk] \in Offset(Len(seg))
    BY <1>1 DEF TokInv, SplitOK
  <1>3. PICK s \in 1..Len(seg), e \in 2..(Len(seg) + 1) : s = offsets[chunk][1] /\ e = offsets[chunk][2]
    BY <1>2 DEF Offset
  <1>4. Start(chunk) = s /\ Start(chunk + 1) = e /\ s < e
    BY <1>1, <1>3 DEF SpellInv, TileOK, Tiled, Start
  <1>5. Left = SubSeq(seg, s, Len(seg)) /\ Part = SubSeq(seg, s, e - 1)
    BY <1>3, <1>4 DEF Left, Part
  <1>6. /\ SubSeq(seg, s, e - 1) \in Seq(CodePoint) /\ SubSeq(seg, e, Len(seg)) \in Seq(CodePoint)
        /\ SubSeq(seg, s, Len(seg)) = SubSeq(seg, s, e - 1) \o SubSeq(seg, e, Len(seg))
    <2>1. PICK t \in Seq(CodePoint) : t = seg
      BY <1>0
    <2>2. s \in 1..Len(t) /\ e \in 2..(Len(t) + 1) /\ s < e
      BY <1>4, <2>1
    <2>3. /\ SubSeq(t, s, e - 1) \in Seq(CodePoint) /\ SubSeq(t, e, Len(t)) \in Seq(CodePoint)
          /\ SubSeq(t, s, Len(t)) = SubSeq(t, s, e - 1) \o SubSeq(t, e, Len(t))
      BY <2>2, SubSeqSplits
    <2> QED BY <2>1, <2>3
  <1> QED BY <1>4, <1>5, <1>6

LEMMA EmitDecode ==
  ASSUME TokInv, AtomInv, SpecialInv, SpellInv, DecodeInv, Emit
  PROVE  DecodeInv'
  <1>0. text \in Seq(CodePoint) /\ SpecialsOK /\ Len(text) \in Nat /\ pos \in 1..(Len(text) + 1)
    BY DEF TokInv, ScanOK
  <1>1. /\ UNCHANGED <<vocab, bpe_ranks, special_tokens, id_to_token, text, pos, seg, cur, offsets>>
        /\ phase = "emit" /\ phase' = "chunk" /\ tokens' = tokens \o IdsOfWord(word)
        /\ chunk' = chunk + 1
    BY DEF Emit, tables, split, IdsOfWord
  <1>2. Left' = SubSeq(seg, Start(chunk + 1), Len(seg))
    BY <1>1 DEF Left, Start
  <1>3. PICK s \in Seq(CodePoint), t \in Seq(CodePoint) :
          s = Part /\ t = SubSeq(seg, Start(chunk + 1), Len(seg))
    BY <1>1, LeftSplits
  <1>4. Left = s \o t
    BY <1>1, <1>3, LeftSplits
  <1>5. word \in Seq(Atoms) /\ TablesOK /\ Spelled(word) = Symbols(s)
    BY <1>1, <1>3, AtomsTyped DEF AtomInv, WordsOK, SpellInv, SpellOK
  <1>6. PICK new : new = tokens'
    OBVIOUS
  <1>7. ASSUME ClosedVocabulary PROVE Owed(new, t, pos)
    <2>1. Owed(tokens, s \o t, pos)
      BY <1>1, <1>4, <1>7, OwedIs
    <2>2. PICK d : d = DecodeMap(id_to_token)
      OBVIOUS
    <2>3. /\ IdsOfWord(word) \in Seq(Ids)
          /\ FlatMap(d, IdsOfWord(word)) = FlatMap(SymbolBytes, Spelled(word))
      BY <1>5, <1>7, <2>2, WordDecodes DEF SpellInv
    <2>4. PICK a \in Seq(Ids), b \in Seq(Ids) : a = tokens /\ b = IdsOfWord(word)
      BY <2>3 DEF SpecialInv, Ids
    <2>5. FlatMap(d, b) = Bytes(s)
      BY <1>5, <2>3, <2>4, SymbolsDecode
    <2>6. FlatMap(d, a \o b) = FlatMap(d, a) \o FlatMap(d, b) /\ FlatMap(d, a) \in Seq(Byte)
      BY <2>2, DecodeJoin
    <2>7. CutText[pos] \in Seq(CodePoint)
      BY <1>0, CutTextScan
    <2>8. PICK A \in Seq(Byte), S \in Seq(Byte), T \in Seq(Byte), C \in Seq(Byte) :
            A = FlatMap(d, a) /\ S = Bytes(s) /\ T = Bytes(t) /\ C = Bytes(CutText[pos])
      BY <2>6, <2>7, BytesIn
    <2>9. Bytes(s \o t) = S \o T
      BY <2>8, BytesJoin
    <2>10. A \o ((S \o T) \o C) = (A \o S) \o (T \o C)
      <3>1. Regroups(A, S, T, C)
        BY Regroup
      <3> QED BY <3>1, Zenon DEF Regroups
    <2>11. A \o ((S \o T) \o C) = Bytes(CutText[1])
      BY <2>1, <2>2, <2>4, <2>8, <2>9 DEF Owed
    <2>12. FlatMap(d, new) = A \o S
      BY <1>1, <1>6, <2>4, <2>5, <2>6, <2>8
    <2> QED BY <2>2, <2>8, <2>10, <2>11, <2>12 DEF Owed
  <1>8. PICK p : p = pos
    OBVIOUS
  <1>9. new = tokens' /\ t = Left' /\ p = pos' /\ (ClosedVocabulary => Owed(new, t, p))
    BY <1>1, <1>2, <1>3, <1>6, <1>7, <1>8
  <1> QED BY <1>1, <1>9, OwedNext

LEMMA NextDecode ==
  ASSUME TokInv, AtomInv, SpecialInv, SpellInv, DecodeInv, [Next]_vars
  PROVE  DecodeInv'
  <1> DEFINE Same == UNCHANGED <<vocab, bpe_ranks, special_tokens, id_to_token, text, tokens, pos>>
  <1>1. CASE \/ calls < Len(Texts) /\ \E d \in Documents[calls + 1] : Load(d)
             \/ LoadEmptyBuffer
    <2>1. phase' = "idle"
      BY <1>1 DEF Load, LoadEmptyBuffer
    <2> QED BY <2>1 DEF DecodeInv
  <1>2. CASE calls < Len(Texts) /\ \E t \in Texts[calls + 1] : Encode(t)
    <2>1. pos' = 1 /\ tokens' = <<>> /\ phase' \in {"scan", "done"}
      BY <1>2 DEF Encode
    <2> QED BY <2>1 DEF DecodeInv
  <1>3. CASE Scan
    BY <1>3, ScanDecode
  <1>4. CASE PushSpecial
    BY <1>4, PushDecode
  <1>5. CASE Emit
    BY <1>5, EmitDecode
  <1>6. CASE Finish
    <2>1. Same /\ phase = "scan" /\ phase' = "done"
      BY <1>6 DEF Finish, tables, outer
    <2>2. Left' = Left
      BY <2>1 DEF Left
    <2> QED BY <2>1, <2>2, QuietDecode
  <1>7. CASE Split
    <2>1. CASE SplitDone
      <3>1. Same /\ UNCHANGED <<seg, cur, offsets>> /\ phase = "split" /\ phase' = "chunk" /\ chunk' = 1
        BY <2>1 DEF SplitDone, tables, outer, split
      <3>2. Start(1) = 1 /\ seg \in Seq(CodePoint)
        BY DEF SpellInv, TileOK, Tiled, TokInv, SplitOK, SegOK
      <3>3. Start(chunk)' = 1
        BY <3>1, <3>2 DEF Start
      <3>4. Left' = SubSeq(seg, 1, Len(seg)) /\ Left = seg
        BY <3>1, <3>3 DEF Left
      <3>5. SubSeq(seg, 1, Len(seg)) = seg
        BY <3>2
      <3> QED BY <3>1, <3>4, <3>5, QuietDecode
    <2>2. CASE \E e : AddsToken(e)
      <3>1. Same /\ UNCHANGED seg /\ phase = "split" /\ phase' = "split"
        BY <2>2 DEF AddsToken, AddToken, tables, outer
      <3>2. Left' = Left
        BY <3>1 DEF Left
      <3> QED BY <3>1, <3>2, QuietDecode
    <2> QED BY <1>7, <2>1, <2>2, SplitAdvances
  <1>8. CASE NextChunk \/ MergeStep \/ MergeEnd
    <2>1. Same /\ UNCHANGED <<seg, cur, offsets, chunk>>
          /\ phase \in {"chunk", "merge"} /\ phase' \in {"merge", "emit"}
      BY <1>8 DEF NextChunk, MergeStep, MergeEnd, tables, outer, split, merge
    <2>2. Left' = Left
      BY <2>1 DEF Left, Start
    <2> QED BY <2>1, <2>2, QuietDecode
  <1>9. CASE ChunksDone
    <2>1. Same /\ phase = "chunk" /\ phase' = "special" /\ chunk > Len(offsets)
      BY <1>9 DEF ChunksDone, tables, outer
    <2>2. seg \in Seq(CodePoint) /\ Len(offsets) \in Nat /\ chunk \in 1..(Len(offsets) + 1)
      BY DEF TokInv, SplitOK, SegOK, ChunkOK
    <2>3. ~ (chunk <= Len(offsets))
      BY <2>1, <2>2
    <2>4. Start(chunk) = Len(seg) + 1
      BY <2>1, <2>3 DEF Start, SpellInv, TileOK
    <2>5. SubSeq(seg, Len(seg) + 1, Len(seg)) = <<>>
      BY <2>2
    <2>6. Left' = Left
      BY <2>1, <2>4, <2>5 DEF Left
    <2> QED BY <2>1, <2>6, QuietDecode
  <1>10. CASE OtherStep \/ UNCHANGED vars
    <2>1. Same /\ UNCHANGED <<seg, cur, offsets, chunk>> /\ phase' \in {phase, "torn"}
      BY <1>10, OtherStepIs DEF vars, tables, outer, split, merge
    <2>2. CASE phase' \in {"idle", "torn"}
      BY <2>1, <2>2 DEF DecodeInv
    <2>3. CASE phase' \notin {"idle", "torn"}
      <3>1. UNCHANGED phase
        BY <2>1, <2>3
      <3>2. Left' = Left
        BY <2>1, <3>1 DEF Left, Start
      <3> QED BY <2>1, <2>3, <3>1, <3>2, QuietDecode
    <2> QED BY <2>2, <2>3
  <1> QED BY <1>1, <1>2, <1>3, <1>4, <1>5, <1>6, <1>7, <1>8, <1>9, <1>10 DEF Next, Step

(***************************************************************************)
(* With a closed vocabulary decode() of what encode() returns is the text  *)
(* again, byte for byte, without the three markers decode_token drops:     *)
(* no character is lost or doubled at a special token, at a cut of the     *)
(* splitter, in a merge or in the cache.                                   *)
(***************************************************************************)
THEOREM DecodeGivesTheText == Spec => []DecodeInvertsEncode
  <1> DEFINE Inv == TokInv /\ MergeInv /\ AtomInv /\ SpecialInv /\ OthersOK
  <1>1. Init => SpellInv /\ OthersSpell /\ DecodeInv
    <2>1. Init => phase = "idle"
      BY DEF Init
    <2> QED BY <2>1, InitSpell, InitOthers DEF DecodeInv, OthersSpell
  <1>2. Inv /\ SpellInv /\ OthersSpell /\ DecodeInv /\ [Next]_vars
          => (SpellInv /\ OthersSpell /\ DecodeInv)'
    BY NextSpell, NextOthersSpell, NextDecode
  <1>3. Inv /\ SpellInv /\ DecodeInv => DecodeInvertsEncode
    <2> SUFFICES ASSUME Inv, SpellInv, DecodeInv, phase = "done", ClosedVocabulary
                 PROVE  Decode(tokens) = Bytes(CutText[1])
      BY DEF DecodeInvertsEncode
    <2>0. text \in Seq(CodePoint) /\ SpecialsOK /\ Len(text) \in Nat /\ pos \in 1..(Len(text) + 1)
      BY DEF TokInv, ScanOK
    <2>1. pos = Len(text) + 1
      <3>1. CASE text = <<>>
        <4>1. Len(text) = 0
          BY <3>1
        <4> QED BY <2>0, <4>1
      <3>2. CASE text # <<>>
        BY <2>0, <3>2, ClosedNotEmpty DEF SpecialInv
      <3> QED BY <3>1, <3>2
    <2>2. CutText[pos] = <<>>
      BY <2>0, <2>1, CutTextScan DEF IsScan
    <2>3. Owed(tokens, <<>>, pos)
      <3>1. Left = <<>>
        BY DEF Left
      <3> QED BY <3>1, OwedIs
    <2>4. PICK d \in {DecodeMap(id_to_token)}, a \in Seq(Ids) : d = DecodeMap(id_to_token) /\ a = tokens
      BY DEF SpecialInv, Ids
    <2>5. Decode(a) = FlatMap(d, a)
      BY <2>4, DecodeIs DEF SpellInv
    <2>6. FlatMap(d, a) \in Seq(Byte)
      BY <2>4, DecodeMapIs, FlatMapIn DEF SpellInv, NamesOK
    <2>7. PICK b \in Seq(Byte) : b = FlatMap(d, a)
      BY <2>6
    <2>8. b \o (<<>> \o <<>>) = b
      OBVIOUS
    <2>9. b \o (<<>> \o <<>>) = Bytes(CutText[1])
      BY <2>2, <2>3, <2>4, <2>7, BytesEmpty DEF Owed
    <2> QED BY <2>4, <2>5, <2>7, <2>8, <2>9
  <1> QED BY <1>1, <1>2, <1>3, SpecialInvariant, PTL DEF Spec
=============================================================================
