--------------------------- MODULE Artifact_proofs ---------------------------
(* Proofs about Artifact, for every set of names, payloads and metadata, every   *)
(* alignment and number of sections, writes and reads.                           *)
EXTENDS Artifact, WellFoundedInduction, TLAPS

-----------------------------------------------------------------------------
(* Sequences of cells of any kind *)

IsSeq(f) == \E S : f \in Seq(S)

LEMMA SeqLen ==
  ASSUME NEW f, IsSeq(f)
  PROVE  Len(f) \in Nat /\ DOMAIN f = 1 .. Len(f)
  <1>1. PICK S : f \in Seq(S)
    BY DEF IsSeq
  <1> QED BY <1>1

LEMMA SeqEqual ==
  ASSUME NEW f, NEW g, IsSeq(f), IsSeq(g), Len(f) = Len(g),
         \A i \in 1 .. Len(f) : f[i] = g[i]
  PROVE  f = g
  <1>1. PICK S : f \in Seq(S)
    BY DEF IsSeq
  <1>2. PICK T : g \in Seq(T)
    BY DEF IsSeq
  <1> QED BY <1>1, <1>2

LEMMA CatFacts ==
  ASSUME NEW f, NEW g, IsSeq(f), IsSeq(g)
  PROVE  /\ IsSeq(f \o g) /\ Len(f \o g) = Len(f) + Len(g)
         /\ \A i \in 1 .. Len(f) : (f \o g)[i] = f[i]
         /\ \A i \in 1 .. Len(g) : (f \o g)[Len(f) + i] = g[i]
  <1>1. PICK S : f \in Seq(S)
    BY DEF IsSeq
  <1>2. PICK T : g \in Seq(T)
    BY DEF IsSeq
  <1>3. f \in Seq(S \cup T) /\ g \in Seq(S \cup T)
    BY <1>1, <1>2
  <1>4. f \o g \in Seq(S \cup T)
    BY <1>3
  <1>5. IsSeq(f \o g)
    BY <1>4 DEF IsSeq
  <1> QED BY <1>3, <1>5

LEMMA AppendFacts ==
  ASSUME NEW f, NEW x, IsSeq(f)
  PROVE  /\ IsSeq(Append(f, x)) /\ Len(Append(f, x)) = Len(f) + 1
         /\ \A i \in 1 .. Len(f) : Append(f, x)[i] = f[i]
         /\ Append(f, x)[Len(f) + 1] = x
  <1>1. PICK S : f \in Seq(S)
    BY DEF IsSeq
  <1>2. f \in Seq(S \cup {x}) /\ x \in S \cup {x}
    BY <1>1
  <1>3. Append(f, x) \in Seq(S \cup {x})
    BY <1>2
  <1>4. IsSeq(Append(f, x))
    BY <1>3 DEF IsSeq
  <1> QED BY <1>2, <1>4

LEMMA CellsFacts ==
  ASSUME NEW f, IsSeq(f), NEW o \in Nat, NEW n \in Nat, o + n <= Len(f)
  PROVE  /\ IsSeq(Cells(f, o, n)) /\ Len(Cells(f, o, n)) = n
         /\ \A i \in 1 .. n : Cells(f, o, n)[i] = f[o + i]
  <1>1. PICK S : f \in Seq(S)
    BY DEF IsSeq
  <1>2. /\ SubSeq(f, o + 1, o + n) \in Seq(S) /\ Len(SubSeq(f, o + 1, o + n)) = n
        /\ \A i \in 1 .. n : SubSeq(f, o + 1, o + n)[i] = f[o + i]
    BY <1>1
  <1>3. IsSeq(SubSeq(f, o + 1, o + n))
    BY <1>2 DEF IsSeq
  <1> QED BY <1>2, <1>3 DEF Cells

LEMMA ExceptFacts ==
  ASSUME NEW f, IsSeq(f), NEW k \in 1 .. Len(f), NEW x
  PROVE  /\ IsSeq([f EXCEPT ![k] = x]) /\ Len([f EXCEPT ![k] = x]) = Len(f)
         /\ [f EXCEPT ![k] = x][k] = x
         /\ \A i \in 1 .. Len(f) : i # k => [f EXCEPT ![k] = x][i] = f[i]
  <1>1. PICK S : f \in Seq(S)
    BY DEF IsSeq
  <1>2. f \in Seq(S \cup {x}) /\ x \in S \cup {x}
    BY <1>1
  <1>3. [f EXCEPT ![k] = x] \in Seq(S \cup {x})
    BY <1>2
  <1>4. IsSeq([f EXCEPT ![k] = x])
    BY <1>3 DEF IsSeq
  <1> QED BY <1>2, <1>3, <1>4

LEMMA CellsAgree ==
  ASSUME NEW f, NEW g, IsSeq(f), IsSeq(g), NEW o \in Nat, NEW n \in Nat,
         o + n <= Len(f), o + n <= Len(g),
         \A i \in 1 .. n : f[o + i] = g[o + i]
  PROVE  Cells(f, o, n) = Cells(g, o, n)
  <1>1. /\ IsSeq(Cells(f, o, n)) /\ Len(Cells(f, o, n)) = n
        /\ \A i \in 1 .. n : Cells(f, o, n)[i] = f[o + i]
    BY CellsFacts
  <1>2. /\ IsSeq(Cells(g, o, n)) /\ Len(Cells(g, o, n)) = n
        /\ \A i \in 1 .. n : Cells(g, o, n)[i] = g[o + i]
    BY CellsFacts
  <1> DEFINE a == Cells(f, o, n)
             b == Cells(g, o, n)
  <1> HIDE DEF a, b
  <1>3. /\ IsSeq(a) /\ IsSeq(b) /\ Len(a) = Len(b)
        /\ \A i \in 1 .. Len(a) : a[i] = b[i]
    BY <1>1, <1>2 DEF a, b
  <1>4. a = b
    BY <1>3, SeqEqual
  <1> QED BY <1>4 DEF a, b

LEMMA HeadCells ==
  ASSUME NEW f, IsSeq(f), NEW n \in Nat, n <= Len(f)
  PROVE  /\ IsSeq(Cells(f, 0, n)) /\ Len(Cells(f, 0, n)) = n
         /\ \A i \in 1 .. n : Cells(f, 0, n)[i] = f[i]
  <1> DEFINE o == 0
  <1>1. o \in Nat /\ o + n <= Len(f) /\ \A i \in 1 .. n : o + i = i
    BY SeqLen
  <1> HIDE DEF o
  <1>2. /\ IsSeq(Cells(f, o, n)) /\ Len(Cells(f, o, n)) = n
        /\ \A i \in 1 .. n : Cells(f, o, n)[i] = f[o + i]
    BY <1>1, CellsFacts
  <1>3. \A i \in 1 .. n : Cells(f, o, n)[i] = f[i]
    BY <1>1, <1>2
  <1> QED BY <1>2, <1>3 DEF o

LEMMA CellsOfCat ==
  ASSUME NEW f, NEW g, IsSeq(f), IsSeq(g)
  PROVE  Cells(f \o g, Len(f), Len(g)) = g
  <1> DEFINE h == f \o g
             c == Cells(h, Len(f), Len(g))
  <1>1. Len(f) \in Nat /\ Len(g) \in Nat
    BY SeqLen
  <1>2. /\ IsSeq(h) /\ Len(h) = Len(f) + Len(g)
        /\ \A i \in 1 .. Len(g) : h[Len(f) + i] = g[i]
    BY CatFacts
  <1> HIDE DEF h
  <1>3. /\ IsSeq(c) /\ Len(c) = Len(g)
        /\ \A i \in 1 .. Len(g) : c[i] = h[Len(f) + i]
    <2>1. Len(f) + Len(g) <= Len(h)
      BY <1>1, <1>2
    <2> QED BY <1>1, <1>2, <2>1, CellsFacts
  <1> HIDE DEF c
  <1>4. c = g
    BY <1>1, <1>2, <1>3, SeqEqual
  <1> QED BY <1>4 DEF c, h

LEMMA ZerosFacts ==
  ASSUME NEW n \in Nat
  PROVE  IsSeq(Zeros(n)) /\ Len(Zeros(n)) = n
  <1>1. Zeros(n) \in Seq({Zero}) /\ Len(Zeros(n)) = n
    BY DEF Zeros
  <1> QED BY <1>1 DEF IsSeq

LEMMA DataIsSeq ==
  ASSUME NEW d \in Payloads \cup Metadata
  PROVE  IsSeq(d)
  BY ArtifactAssumption DEF IsSeq

-----------------------------------------------------------------------------
(* Padding and addresses *)

LEMMA ModFacts ==
  ASSUME NEW a \in Nat, NEW m \in Nat \ {0}
  PROVE  /\ a % m \in 0 .. m - 1
         /\ a = m * (a \div m) + (a % m) /\ a \div m \in Int
  <1>1. a % m \in 0 .. m - 1
    OBVIOUS
  <1>2. a \div m \in Int
    OBVIOUS
  <1>3. a = m * (a \div m) + (a % m)
    OBVIOUS
  <1> QED BY <1>1, <1>2, <1>3

LEMMA MultipleMod ==
  ASSUME NEW q \in Int, NEW m \in Nat \ {0}
  PROVE  (m * q) % m = 0
  <1> DEFINE r == (m * q) % m
             d == (m * q) \div m
  <1>1. m * q \in Int /\ m * q = m * d + r /\ r \in 0 .. m - 1 /\ d \in Int
    OBVIOUS
  <1> HIDE DEF r, d
  <1>2. r = m * (q - d)
    BY <1>1
  <1>3. CASE q - d = 0
    BY <1>2, <1>3
  <1>4. CASE q - d >= 1
    <2>1. m * (q - d) >= m
      BY <1>1, <1>4
    <2> QED BY <1>1, <1>2, <2>1
  <1>5. CASE q - d <= -1
    <2>1. m * (q - d) <= -m
      BY <1>1, <1>5
    <2> QED BY <1>1, <1>2, <2>1
  <1>6. r = 0
    BY <1>1, <1>3, <1>4, <1>5
  <1> QED BY <1>6 DEF r

LEMMA SmallMod ==
  ASSUME NEW a \in Nat, NEW m \in Nat \ {0}, a < m
  PROVE  a % m = a
  OBVIOUS

LEMMA PadFacts ==
  ASSUME NEW o \in Nat
  PROVE  Pad(o) \in Nat /\ (o + Pad(o)) % Align = 0
  <1> DEFINE r == o % Align
             q == o \div Align
  <1>1. Align \in Nat \ {0}
    BY ArtifactAssumption
  <1>2. r \in 0 .. Align - 1 /\ o = Align * q + r /\ q \in Int
    BY <1>1, ModFacts
  <1>3. Pad(o) = (Align - r) % Align
    BY DEF Pad
  <1> HIDE DEF r, q
  <1>4. CASE r = 0
    <2>1. Align % Align = 0
      <3>1. Align * 1 = Align
        BY <1>1
      <3>2. (Align * 1) % Align = 0
        BY <1>1, MultipleMod
      <3> QED BY <3>1, <3>2
    <2>2. Align - r = Align
      BY <1>1, <1>4
    <2>3. Pad(o) = 0
      BY <1>3, <2>1, <2>2
    <2>4. o + Pad(o) = Align * q
      BY <1>1, <1>2, <1>4, <2>3
    <2> QED BY <1>1, <1>2, <2>3, <2>4, MultipleMod
  <1>5. CASE r # 0
    <2>1. Align - r \in Nat /\ Align - r < Align
      BY <1>1, <1>2, <1>5
    <2>2. Pad(o) = Align - r
      BY <1>1, <1>3, <2>1, SmallMod
    <2>3. o + Pad(o) = Align * (q + 1)
      BY <1>1, <1>2, <2>2
    <2>4. (Align * (q + 1)) % Align = 0
      <3>1. q + 1 \in Int
        BY <1>2
      <3> QED BY <1>1, <3>1, MultipleMod
    <2> QED BY <2>1, <2>2, <2>3, <2>4
  <1> QED BY <1>2, <1>4, <1>5

LEMMA SumFacts ==
  ASSUME NEW a \in Nat, NEW b \in Nat
  PROVE  Sum(a, b) <= a + b
  <1>1. Wrap \in Nat \ {0} /\ a + b \in Nat
    BY ArtifactAssumption
  <1> DEFINE s == a + b
             r == s % Wrap
             q == s \div Wrap
  <1>2. r \in 0 .. Wrap - 1 /\ s = Wrap * q + r /\ q \in Int
    BY <1>1, ModFacts
  <1>3. s \in Nat
    BY <1>1
  <1> HIDE DEF s, r, q
  <1>4. q >= 0
    <2> SUFFICES ASSUME q <= -1 PROVE FALSE
      BY <1>2
    <2>1. Wrap * q <= -Wrap
      BY <1>1, <1>2
    <2> QED BY <1>1, <1>2, <1>3, <2>1
  <1>5. Wrap * q >= 0
    BY <1>1, <1>2, <1>4
  <1>6. r <= s
    BY <1>1, <1>2, <1>3, <1>5
  <1> QED BY <1>6 DEF r, s, Sum

-----------------------------------------------------------------------------
(* The layout of a file: entry e describes section s in file f, and the metadata *)
(* m and the sections ss with entries es are where the header will say.          *)

Placed(f, e, s) ==
  /\ e = [name |-> StoredName(s.name), offset |-> e.offset, size |-> Len(s.data), sum |-> s.data]
  /\ e.offset \in Nat \ {0} /\ e.offset % Align = 0
  /\ IsSeq(s.data) /\ e.offset + Len(s.data) <= Len(f)
  /\ Cells(f, e.offset, Len(s.data)) = s.data

Layout(f, m, ss, es) ==
  /\ IsSeq(f) /\ IsSeq(m) /\ IsSeq(es)
  /\ 1 + Len(m) <= Len(f) /\ Cells(f, 1, Len(m)) = m
  /\ \A i \in 1 .. Len(es) : Placed(f, es[i], ss[i])

LEMMA PlacedKept ==
  ASSUME NEW f, NEW g, NEW e, NEW s, IsSeq(f), IsSeq(g), Len(f) <= Len(g),
         \A i \in 2 .. Len(f) : g[i] = f[i], Placed(f, e, s)
  PROVE  Placed(g, e, s)
  <1> DEFINE o == e.offset
             n == Len(s.data)
  <1>1. o \in Nat \ {0} /\ n \in Nat /\ o + n <= Len(f) /\ Cells(f, o, n) = s.data
    BY SeqLen DEF Placed
  <1>2. Len(f) \in Nat /\ Len(g) \in Nat
    BY SeqLen
  <1> HIDE DEF o, n
  <1>3. \A i \in 1 .. n : f[o + i] = g[o + i]
    BY <1>1, <1>2
  <1>4. o + n <= Len(g)
    BY <1>1, <1>2
  <1>5. Cells(f, o, n) = Cells(g, o, n)
    BY <1>1, <1>3, <1>4, CellsAgree
  <1> QED BY <1>1, <1>4, <1>5 DEF Placed, o, n

LEMMA LayoutKept ==
  ASSUME NEW f, NEW g, NEW m, NEW ss, NEW es, Layout(f, m, ss, es),
         IsSeq(g), Len(f) <= Len(g), \A i \in 2 .. Len(f) : g[i] = f[i]
  PROVE  Layout(g, m, ss, es)
  <1>1. \A i \in 1 .. Len(es) : Placed(g, es[i], ss[i])
    BY PlacedKept DEF Layout
  <1>2. Len(f) \in Nat /\ Len(g) \in Nat /\ Len(m) \in Nat
    BY SeqLen DEF Layout
  <1>3. 1 + Len(m) <= Len(f) /\ 1 + Len(m) <= Len(g)
    BY <1>2 DEF Layout
  <1>4. \A i \in 1 .. Len(m) : f[1 + i] = g[1 + i]
    BY <1>2, <1>3
  <1>5. Cells(f, 1, Len(m)) = Cells(g, 1, Len(m))
    BY <1>2, <1>3, <1>4, CellsAgree DEF Layout
  <1> QED BY <1>1, <1>3, <1>5 DEF Layout

LEMMA LayoutExtends ==
  ASSUME NEW f, NEW g, NEW m, NEW ss, NEW es, Layout(f, m, ss, es), IsSeq(g)
  PROVE  Layout(f \o g, m, ss, es)
  <1>1. /\ IsSeq(f) /\ Len(f) \in Nat /\ Len(g) \in Nat
    BY SeqLen DEF Layout
  <1>2. /\ IsSeq(f \o g) /\ Len(f) <= Len(f \o g)
        /\ \A i \in 2 .. Len(f) : (f \o g)[i] = f[i]
    BY <1>1, CatFacts
  <1> QED BY <1>2, LayoutKept

\* The header, the table and the footer of a completely written file.
HeaderOf(f, m, n) ==
  [count |-> n, moff |-> 1, msize |-> Len(m), toff |-> Len(f) - 1 - n, tsize |-> n,
   total |-> Len(f), magic |-> TRUE]
TableOf(f, n) == Cells(f, Len(f) - 1 - n, n)

Whole(f, m, ss) ==
  /\ IsSeq(ss) /\ 2 + Len(ss) <= Len(f)
  /\ Layout(f, m, ss, TableOf(f, Len(ss)))
  /\ f[1] = HeaderOf(f, m, Len(ss))
  /\ f[Len(f)] = [crc |-> Cells(f, 0, Len(f) - 1), foot |-> TRUE]

Writing == {"metadata", "sections", "header", "footer"}

WriterInv ==
  /\ step \in Writing \cup {"idle", "done", "dead"}
  /\ metadata \in Metadata
  /\ IsSeq(sections) /\ \A i \in 1 .. Len(sections) : sections[i].data \in Payloads
  /\ written \in 0 .. Len(sections)
  /\ IsSeq(entries) /\ Len(entries) = written
  /\ step \in {"idle", "metadata"} => written = 0
  /\ IsSeq(file)
  /\ step \in Writing => ~ altered /\ 1 <= Len(file) /\ IsHeader(file[1])
  /\ step = "metadata" => Len(file) = 1
  /\ step \in {"metadata", "sections", "header"} => file[1].total = 0
  /\ step \in {"sections", "header", "footer"} => Layout(file, metadata, sections, entries)
  /\ step \in {"header", "footer"} =>
       /\ written = Len(sections) /\ 1 + written <= Len(file)
       /\ Cells(file, Len(file) - written, written) = entries
  /\ step = "footer" => file[1] = FinalHeader(file)

LEMMA InitWriter == Init => WriterInv
  <1>1. IsSeq(<< >>)
    <2>1. << >> \in Seq({})
      OBVIOUS
    <2> QED BY <2>1 DEF IsSeq
  <1> QED BY <1>1 DEF Init, WriterInv, Writing

LEMMA AddWriter ==
  ASSUME WriterInv, NEW n \in Names, NEW d \in Payloads,
         AddSection(n, d) \/ AddTensor(n, d)
  PROVE  WriterInv'
  <1>1. /\ sections' = Append(sections, [name |-> n, data |-> d]) /\ step = "idle"
        /\ UNCHANGED <<metadata, step, written, entries, file>>
    BY DEF AddSection, AddTensor
  <1>2. /\ IsSeq(sections) /\ Len(sections) \in Nat
    BY SeqLen DEF WriterInv
  <1> DEFINE x == [name |-> n, data |-> d]
             ss == Append(sections, x)
  <1>3. x.data \in Payloads
    OBVIOUS
  <1> HIDE DEF x
  <1>4. /\ IsSeq(ss) /\ Len(ss) = Len(sections) + 1
        /\ \A i \in 1 .. Len(sections) : ss[i] = sections[i]
        /\ ss[Len(sections) + 1] = x
    BY <1>2, AppendFacts
  <1>5. sections' = ss
    BY <1>1 DEF x
  <1> HIDE DEF ss
  <1>6. \A i \in 1 .. Len(ss) : ss[i].data \in Payloads
    <2> SUFFICES ASSUME NEW i \in 1 .. Len(ss) PROVE ss[i].data \in Payloads
      OBVIOUS
    <2>1. i \in 1 .. Len(sections) \/ i = Len(sections) + 1
      BY <1>2, <1>4
    <2> QED BY <1>3, <1>4, <2>1 DEF WriterInv
  <1>7. written \in 0 .. Len(ss)
    BY <1>2, <1>4 DEF WriterInv
  <1> QED BY <1>1, <1>4, <1>5, <1>6, <1>7 DEF WriterInv, Writing

LEMMA BeginWriter ==
  ASSUME WriterInv, Begin
  PROVE  WriterInv'
  <1> DEFINE h == IF tool = "writer"
                  THEN [NoHeader EXCEPT !.magic = TRUE, !.count = Len(sections)]
                  ELSE NoHeader
  <1>1. /\ file' = <<h>> /\ step' = "metadata" /\ altered' = FALSE /\ step = "idle"
        /\ UNCHANGED <<sections, metadata, written, entries>>
    BY DEF Begin
  <1>2. IsHeader(h) /\ h.total = 0
    BY DEF IsHeader, NoHeader
  <1> HIDE DEF h
  <1>3. IsSeq(<<h>>) /\ Len(<<h>>) = 1 /\ <<h>>[1] = h
    <2>1. <<h>> \in Seq({h})
      OBVIOUS
    <2> QED BY <2>1 DEF IsSeq
  <1> QED BY <1>1, <1>2, <1>3 DEF WriterInv, Writing

LEMMA MetadataWriter ==
  ASSUME WriterInv, WriteMetadata
  PROVE  WriterInv'
  <1>1. /\ file' = file \o metadata /\ step = "metadata" /\ step' = "sections"
        /\ UNCHANGED <<sections, metadata, written, entries, altered>>
    BY DEF WriteMetadata
  <1>2. /\ IsSeq(file) /\ IsSeq(metadata) /\ Len(file) \in Nat /\ Len(metadata) \in Nat
        /\ 1 <= Len(file)
    BY <1>1, DataIsSeq, SeqLen DEF WriterInv, Writing
  <1>3. /\ IsSeq(file') /\ Len(file') = Len(file) + Len(metadata) /\ file'[1] = file[1]
        /\ \A i \in 1 .. Len(metadata) : file'[Len(file) + i] = metadata[i]
    BY <1>1, <1>2, CatFacts
  <1>4. Len(file) = 1 /\ written = 0
    BY <1>1 DEF WriterInv
  <1>5. Cells(file', 1, Len(metadata)) = metadata
    BY <1>1, <1>2, <1>4, CellsOfCat
  <1>6. Layout(file', metadata, sections, entries)
    BY <1>2, <1>3, <1>4, <1>5 DEF Layout, WriterInv
  <1> QED BY <1>1, <1>2, <1>3, <1>6 DEF WriterInv, Writing

LEMMA SectionWriter ==
  ASSUME WriterInv, WriteSection
  PROVE  WriterInv'
  <1> DEFINE s == sections[written + 1]
             pad == Pad(Len(file))
             o == Len(file) + pad
             e == [name |-> StoredName(s.name), offset |-> o, size |-> Len(s.data),
                   sum |-> s.data]
             g == file \o Zeros(pad)
             es == Append(entries, e)
             F == g \o s.data
  <1>1. /\ step = "sections" /\ written < Len(sections)
        /\ file' = F /\ entries' = es /\ written' = written + 1
        /\ UNCHANGED <<sections, metadata, step, altered>>
    BY DEF WriteSection, Crc64
  <1>2. /\ IsSeq(file) /\ Len(file) \in Nat /\ 1 <= Len(file)
        /\ written \in Nat /\ Len(sections) \in Nat
        /\ IsSeq(entries) /\ Len(entries) = written
        /\ Layout(file, metadata, sections, entries)
    BY <1>1, SeqLen DEF WriterInv, Writing
  <1>3. IsSeq(s.data) /\ Len(s.data) \in Nat
    <2>1. written + 1 \in 1 .. Len(sections)
      BY <1>1, <1>2
    <2>2. s.data \in Payloads
      BY <2>1 DEF WriterInv
    <2> QED BY <2>2, DataIsSeq, SeqLen
  <1>4. pad \in Nat /\ o % Align = 0
    BY <1>2, PadFacts
  <1>5. IsSeq(Zeros(pad)) /\ Len(Zeros(pad)) = pad
    BY <1>4, ZerosFacts
  <1>6. /\ IsSeq(g) /\ Len(g) = o /\ \A i \in 1 .. Len(file) : g[i] = file[i]
    BY <1>2, <1>5, CatFacts
  <1> HIDE DEF g, pad, s, es
  <1>7. /\ IsSeq(F) /\ Len(F) = o + Len(s.data)
        /\ \A i \in 1 .. o : F[i] = g[i]
    <2>1. /\ IsSeq(F) /\ Len(F) = Len(g) + Len(s.data)
          /\ \A i \in 1 .. Len(g) : F[i] = g[i]
      BY <1>3, <1>6, CatFacts
    <2> HIDE DEF F
    <2> QED BY <1>6, <2>1
  <1>8. Cells(F, o, Len(s.data)) = s.data
    BY <1>3, <1>6, CellsOfCat
  <1> HIDE DEF F
  <1>9. /\ Len(file) <= Len(F) /\ \A i \in 1 .. Len(file) : F[i] = file[i]
    <2>1. o \in Nat /\ Len(file) <= o /\ o <= Len(F)
      <3>1. o \in Nat /\ Len(file) <= o
        BY <1>2, <1>4
      <3> HIDE DEF o
      <3>2. Len(F) = o + Len(s.data)
        BY <1>7
      <3> QED BY <1>3, <3>1, <3>2
    <2> HIDE DEF o
    <2>2. Len(file) <= Len(F) /\ \A i \in 1 .. Len(file) : i \in 1 .. o
      BY <1>2, <1>7, <2>1, SeqLen
    <2> QED BY <1>6, <1>7, <2>2
  <1>10. Layout(F, metadata, sections, entries)
    <2>1. \A i \in 2 .. Len(file) : F[i] = file[i]
      BY <1>2, <1>9
    <2> QED BY <1>2, <1>7, <1>9, <2>1, LayoutKept
  <1>11. Placed(F, e, s)
    <2>1. o \in Nat \ {0} /\ o + Len(s.data) <= Len(F)
      BY <1>2, <1>3, <1>4, <1>7
    <2>2. e.offset = o
      OBVIOUS
    <2> HIDE DEF o
    <2> QED BY <1>3, <1>4, <1>8, <2>1, <2>2 DEF Placed
  <1> HIDE DEF e, o
  <1>12. /\ IsSeq(es) /\ Len(es) = written + 1
         /\ \A i \in 1 .. written : es[i] = entries[i]
         /\ es[written + 1] = e
    BY <1>2, AppendFacts DEF es
  <1>13. Layout(F, metadata, sections, es)
    <2>1. \A i \in 1 .. written : Placed(F, entries[i], sections[i])
      BY <1>2, <1>10 DEF Layout
    <2> SUFFICES ASSUME NEW i \in 1 .. Len(es) PROVE Placed(F, es[i], sections[i])
      BY <1>10, <1>12 DEF Layout
    <2>2. i \in 1 .. written \/ i = written + 1
      BY <1>2, <1>12
    <2>3. CASE i \in 1 .. written
      BY <1>12, <2>1, <2>3
    <2>4. CASE i = written + 1
      BY <1>11, <1>12, <2>4 DEF s
    <2> QED BY <2>2, <2>3, <2>4
  <1>14. written' \in 0 .. Len(sections)
    BY <1>1, <1>2
  <1>15. 1 <= Len(F) /\ F[1] = file[1]
    BY <1>2, <1>7, <1>9, SeqLen
  <1> QED BY <1>1, <1>7, <1>12, <1>13, <1>14, <1>15 DEF WriterInv, Writing

LEMMA TableWriter ==
  ASSUME WriterInv, WriteTable
  PROVE  WriterInv'
  <1> DEFINE pad == Pad(Len(file))
             g == file \o Zeros(pad)
             F == g \o entries
  <1>1. /\ step = "sections" /\ step' = "header" /\ written = Len(sections)
        /\ file' = F
        /\ UNCHANGED <<sections, metadata, written, entries, altered>>
    BY DEF WriteTable
  <1>2. /\ IsSeq(file) /\ Len(file) \in Nat /\ 1 <= Len(file) /\ written \in Nat
        /\ IsSeq(entries) /\ Len(entries) = written
        /\ Layout(file, metadata, sections, entries)
    BY <1>1, SeqLen DEF WriterInv, Writing
  <1>3. pad \in Nat /\ IsSeq(Zeros(pad)) /\ Len(Zeros(pad)) = pad
    BY <1>2, PadFacts, ZerosFacts
  <1>4. /\ IsSeq(g) /\ Len(g) = Len(file) + pad /\ g[1] = file[1]
    BY <1>2, <1>3, CatFacts
  <1>5. Layout(g, metadata, sections, entries)
    BY <1>2, <1>3, LayoutExtends
  <1> HIDE DEF g, pad
  <1>6. Layout(F, metadata, sections, entries)
    BY <1>2, <1>5, LayoutExtends
  <1>7. /\ IsSeq(F) /\ Len(F) = Len(g) + written /\ F[1] = g[1]
    <2>1. /\ IsSeq(F) /\ Len(F) = Len(g) + Len(entries)
          /\ \A i \in 1 .. Len(g) : F[i] = g[i]
      BY <1>2, <1>4, CatFacts
    <2>2. 1 \in 1 .. Len(g)
      BY <1>2, <1>3, <1>4
    <2> HIDE DEF F
    <2> QED BY <1>2, <2>1, <2>2
  <1>8. Cells(F, Len(g), written) = entries
    BY <1>2, <1>4, CellsOfCat
  <1> HIDE DEF F
  <1>9. Len(F) - written = Len(g) /\ 1 + written <= Len(F)
    BY <1>2, <1>3, <1>4, <1>7
  <1> QED BY <1>1, <1>2, <1>4, <1>6, <1>7, <1>8, <1>9 DEF WriterInv, Writing

LEMMA HeaderWriter ==
  ASSUME WriterInv, WriteHeader
  PROVE  WriterInv'
  <1> DEFINE h == FinalHeader(file)
             F == [file EXCEPT ![1] = h]
  <1>1. /\ step = "header" /\ step' = "footer" /\ file' = F
        /\ UNCHANGED <<sections, metadata, written, entries, altered>>
    BY DEF WriteHeader
  <1>2. /\ IsSeq(file) /\ Len(file) \in Nat /\ 1 \in 1 .. Len(file) /\ written \in Nat
        /\ 1 + written <= Len(file) /\ Len(entries) = written
        /\ Layout(file, metadata, sections, entries)
    BY <1>1, SeqLen DEF WriterInv, Writing
  <1>3. IsHeader(h)
    BY DEF IsHeader, FinalHeader
  <1> HIDE DEF h
  <1>4. /\ IsSeq(F) /\ Len(F) = Len(file) /\ F[1] = h
        /\ \A i \in 1 .. Len(file) : i # 1 => F[i] = file[i]
    BY <1>2, ExceptFacts
  <1> HIDE DEF F
  <1>5. Layout(F, metadata, sections, entries)
    <2>1. \A i \in 2 .. Len(file) : F[i] = file[i]
      BY <1>2, <1>4
    <2> QED BY <1>2, <1>4, <2>1, LayoutKept
  <1>6. Cells(F, Len(file) - written, written) = entries
    <2> DEFINE o == Len(file) - written
    <2>1. o \in Nat /\ o >= 1 /\ o + written <= Len(file)
      BY <1>2
    <2> HIDE DEF o
    <2>2. \A i \in 1 .. written : file[o + i] = F[o + i]
      BY <1>2, <1>4, <2>1
    <2>3. o + written <= Len(F)
      BY <1>4, <2>1
    <2>4. Cells(file, o, written) = Cells(F, o, written)
      <3>1. IsSeq(file) /\ IsSeq(F) /\ written \in Nat /\ o \in Nat
        BY <1>2, <1>4, <2>1
      <3>2. o + written <= Len(file)
        BY <2>1
      <3> QED BY <2>2, <2>3, <3>1, <3>2, CellsAgree
    <2> QED BY <1>1, <2>4 DEF o, WriterInv
  <1>7. FinalHeader(F) = FinalHeader(file)
    BY <1>4 DEF FinalHeader
  <1>8. (FinalHeader(file))' = FinalHeader(F)
    BY <1>1 DEF FinalHeader
  <1> QED BY <1>1, <1>2, <1>3, <1>4, <1>5, <1>6, <1>7, <1>8 DEF WriterInv, Writing, h

LEMMA FooterWriter ==
  ASSUME WriterInv, WriteFooter
  PROVE  WriterInv' /\ Whole(file', metadata, sections)
  <1> DEFINE ft == [crc |-> file, foot |-> TRUE]
             F == Append(file, ft)
             n == Len(sections)
             L == Len(file)
  <1>1. /\ step = "footer" /\ step' = "done" /\ file' = F
        /\ UNCHANGED <<sections, metadata, written, entries>>
    BY DEF WriteFooter, Crc64
  <1>2. /\ IsSeq(file) /\ L \in Nat /\ n \in Nat /\ 1 + n <= L
        /\ IsSeq(sections) /\ Len(entries) = n
        /\ Layout(file, metadata, sections, entries)
        /\ Cells(file, L - n, n) = entries /\ file[1] = FinalHeader(file)
    BY <1>1, SeqLen DEF WriterInv
  <1> HIDE DEF ft
  <1>3. /\ IsSeq(F) /\ Len(F) = L + 1 /\ \A i \in 1 .. L : F[i] = file[i]
        /\ F[L + 1] = ft
    BY <1>2, AppendFacts
  <1> HIDE DEF F
  <1>4. WriterInv'
    BY <1>1, <1>3 DEF WriterInv, Writing
  <1>5. Layout(F, metadata, sections, entries)
    <2>1. L <= Len(F) /\ \A i \in 2 .. L : F[i] = file[i]
      BY <1>2, <1>3
    <2> QED BY <1>2, <1>3, <2>1, LayoutKept
  <1>6. TableOf(F, n) = entries
    <2> DEFINE o == L - n
    <2>1. o \in Nat /\ o + n <= L /\ o + n <= Len(F) /\ Len(F) - 1 - n = o
      BY <1>2, <1>3
    <2>2. \A i \in 1 .. n : o + i \in 1 .. L
      BY <1>2
    <2> HIDE DEF o
    <2>3. \A i \in 1 .. n : file[o + i] = F[o + i]
      BY <1>3, <2>2
    <2> HIDE DEF n, L
    <2>4. Cells(file, o, n) = Cells(F, o, n)
      <3>1. IsSeq(file) /\ IsSeq(F) /\ o \in Nat /\ n \in Nat
        BY <1>2, <1>3, <2>1
      <3>2. o + n <= Len(file) /\ o + n <= Len(F)
        BY <2>1 DEF L
      <3> QED BY <2>3, <3>1, <3>2, CellsAgree
    <2> QED BY <1>2, <2>1, <2>4 DEF TableOf, o
  <1>7. Cells(F, 0, L) = file
    <2> DEFINE c == Cells(F, 0, L)
    <2>1. /\ IsSeq(c) /\ Len(c) = L /\ \A i \in 1 .. L : c[i] = F[i]
      <3>1. L <= Len(F)
        BY <1>2, <1>3
      <3> HIDE DEF L
      <3> QED BY <1>2, <1>3, <3>1, HeadCells
    <2> HIDE DEF c
    <2>2. \A i \in 1 .. Len(c) : c[i] = file[i]
      BY <1>2, <1>3, <2>1
    <2>3. c = file
      BY <1>2, <2>1, <2>2, SeqEqual
    <2> QED BY <2>3 DEF c
  <1>8. F[1] = HeaderOf(F, metadata, n)
    <2>1. F[1] = FinalHeader(file)
      BY <1>2, <1>3
    <2>2. /\ Len(file) - Len(entries) = Len(F) - 1 - n /\ Len(entries) * EntrySize = n
          /\ Len(file) + FooterSize = Len(F) /\ HeaderSize = 1
      BY <1>2, <1>3 DEF EntrySize, FooterSize, HeaderSize
    <2> QED BY <1>2, <2>1, <2>2 DEF FinalHeader, HeaderOf
  <1>9. F[Len(F)] = [crc |-> Cells(F, 0, Len(F) - 1), foot |-> TRUE]
    <2>1. Len(F) - 1 = L
      BY <1>2, <1>3
    <2> QED BY <1>3, <1>7, <2>1 DEF ft
  <1>10. 2 + n <= Len(F)
    BY <1>2, <1>3
  <1>11. Whole(F, metadata, sections)
    BY <1>2, <1>5, <1>6, <1>8, <1>9, <1>10 DEF Whole
  <1> QED BY <1>1, <1>4, <1>11

LEMMA FaultWriter ==
  ASSUME WriterInv, Die \/ Damage
  PROVE  WriterInv'
  <1>1. CASE Die
    <2>1. PICK n \in 0 .. Len(file) : file' = SubSeq(file, 1, n)
      BY <1>1 DEF Die
    <2>2. /\ step' = "dead" /\ UNCHANGED <<sections, metadata, written, entries>>
      BY <1>1 DEF Die
    <2>3. IsSeq(SubSeq(file, 1, n))
      <3>1. PICK S : file \in Seq(S)
        BY DEF WriterInv, IsSeq
      <3>2. SubSeq(file, 1, n) \in Seq(S)
        BY <3>1
      <3> QED BY <3>2 DEF IsSeq
    <2> QED BY <2>1, <2>2, <2>3 DEF WriterInv, Writing
  <1>2. CASE Damage
    <2>0. PICK i \in DOMAIN file : \E c \in Damaged(file[i]) : file' = [file EXCEPT ![i] = c]
      BY <1>2 DEF Damage
    <2>1. PICK c \in Damaged(file[i]) : file' = [file EXCEPT ![i] = c]
      BY <2>0
    <2>2. IsSeq(file) /\ i \in 1 .. Len(file)
      BY SeqLen DEF WriterInv
    <2>3. IsSeq([file EXCEPT ![i] = c])
      BY <2>2, ExceptFacts
    <2>4. step \in {"done", "dead"} /\ UNCHANGED <<step, sections, metadata, written, entries>>
      BY <1>2 DEF Damage, writer
    <2> QED BY <2>1, <2>3, <2>4 DEF WriterInv, Writing
  <1> QED BY <1>1, <1>2

LEMMA RestartWriter ==
  ASSUME WriterInv, NEW m \in Metadata, NEW t \in {"writer", "converter"}, Restart(m, t)
  PROVE  WriterInv'
  <1>1. IsSeq(<< >>)
    <2>1. << >> \in Seq({})
      OBVIOUS
    <2> QED BY <2>1 DEF IsSeq
  <1> QED BY <1>1 DEF Restart, WriterInv, Writing

\* The steps of the reader touch neither the tool nor the file.
ReaderStep ==
  OpenFails \/ Open \/ ValidateChecksum \/ \E n \in Names : ReadSection(n)

LEMMA ReaderLeaves ==
  ASSUME ReaderStep \/ UNCHANGED vars
  PROVE  /\ UNCHANGED <<sections, metadata, step, written, entries, file, altered>>
         /\ UNCHANGED <<versions, writes, faults>>
  BY DEF ReaderStep, OpenFails, Open, ValidateChecksum, ReadSection, writer, vars

LEMMA ReaderWriter ==
  ASSUME WriterInv, ReaderStep \/ UNCHANGED vars
  PROVE  WriterInv'
  <1>1. UNCHANGED <<sections, metadata, step, written, entries, file, altered>>
    BY ReaderLeaves
  <1>2. (FinalHeader(file))' = FinalHeader(file)
    BY <1>1 DEF FinalHeader
  <1> QED BY <1>1, <1>2 DEF WriterInv

LEMMA NextWriter == WriterInv /\ [Next]_vars => WriterInv'
  BY AddWriter, BeginWriter, MetadataWriter, SectionWriter, TableWriter, HeaderWriter,
     FooterWriter, RestartWriter, FaultWriter, ReaderWriter DEF Next, ReaderStep

-----------------------------------------------------------------------------
(* Completely written files *)

VersionsInv == \A v \in versions : Whole(v.file, v.metadata, v.sections)

LEMMA NextVersions == WriterInv /\ VersionsInv /\ [Next]_vars => VersionsInv'
  <1> SUFFICES ASSUME WriterInv, VersionsInv, [Next]_vars PROVE VersionsInv'
    OBVIOUS
  <1>1. CASE WriteFooter
    <2> DEFINE x == [file |-> file', sections |-> sections, metadata |-> metadata]
    <2>1. versions' = versions \cup {x}
      BY <1>1 DEF WriteFooter
    <2>2. Whole(x.file, x.metadata, x.sections)
      BY <1>1, FooterWriter
    <2> HIDE DEF x
    <2> QED BY <2>1, <2>2 DEF VersionsInv
  <1>2. CASE ~ WriteFooter
    <2>1. UNCHANGED versions
      BY <1>2, ReaderLeaves
         DEF Next, ReaderStep, AddSection, AddTensor, Begin, WriteMetadata, WriteSection,
             WriteTable, WriteHeader, Restart, Die, Damage
    <2> QED BY <2>1 DEF VersionsInv
  <1> QED BY <1>1, <1>2

LEMMA LargestElement ==
  ASSUME NEW n \in Nat, NEW P \in SUBSET (1 .. n), P # {}
  PROVE  \E k \in P : \A j \in P : j <= k
  <1> DEFINE R == {ss \in Nat \X Nat : ss[1] < ss[2]}
             S == {n - j : j \in P}
  <1>1. IsWellFoundedOn(R, Nat)
    BY NatLessThanWellFounded, Zenon DEF OpToRel
  <1>2. S \in SUBSET Nat /\ S # {}
    <2>1. PICK j \in P : TRUE
      OBVIOUS
    <2>2. n - j \in S
      OBVIOUS
    <2>3. \A x \in S : x \in Nat
      OBVIOUS
    <2> QED BY <2>2, <2>3
  <1>3. \E x \in S : \A y \in S : ~(<<y, x>> \in R)
    <2> HIDE DEF R, S
    <2> QED BY <1>1, <1>2, WFMin, Zenon
  <1>4. PICK k \in P : \A y \in S : ~(<<y, n - k>> \in R)
    BY <1>3
  <1>5. ASSUME NEW j \in P PROVE j <= k
    <2>1. n - j \in Nat /\ n - k \in Nat /\ n - j \in S
      OBVIOUS
    <2>2. ~(<<n - j, n - k>> \in R)
      BY <1>4, <2>1
    <2>3. ~(n - j < n - k)
      BY <2>1, <2>2
    <2> QED BY <2>3
  <1> QED BY <1>5

\* The index finds the last entry of a name.
LEMMA IndexFacts ==
  ASSUME NEW t, IsSeq(t), NEW i \in 1 .. Len(t), NEW j, j = IndexOf(t)[t[i].name]
  PROVE  /\ t[i].name \in DOMAIN IndexOf(t)
         /\ j \in 1 .. Len(t) /\ t[j].name = t[i].name /\ i <= j
  <1> DEFINE nm == t[i].name
             P == {k \in 1 .. Len(t) : t[k].name = nm}
  <1>1. Len(t) \in Nat /\ DOMAIN t = 1 .. Len(t)
    BY SeqLen
  <1>2. PICK k \in P : \A l \in P : l <= k
    BY <1>1, LargestElement
  <1>3. /\ k \in DOMAIN t /\ t[k].name = nm
        /\ \A l \in DOMAIN t : t[l].name = nm => l <= k
    BY <1>1, <1>2
  <1>4. nm \in {t[l].name : l \in DOMAIN t}
    BY <1>1
  <1> HIDE DEF nm
  <1>5. IndexOf(t)[nm] = CHOOSE l \in DOMAIN t : t[l].name = nm
                           /\ \A r \in DOMAIN t : t[r].name = nm => r <= l
    BY <1>4 DEF IndexOf
  <1>6. /\ IndexOf(t)[nm] \in DOMAIN t /\ t[IndexOf(t)[nm]].name = nm
        /\ \A r \in DOMAIN t : t[r].name = nm => r <= IndexOf(t)[nm]
    BY <1>3, <1>5
  <1>7. nm \in DOMAIN IndexOf(t)
    BY <1>4 DEF IndexOf
  <1> QED BY <1>1, <1>6, <1>7 DEF nm

LEMMA NoCells ==
  ASSUME NEW f, IsSeq(f), NEW o \in Nat, o <= Len(f)
  PROVE  Cells(f, o, 0) = << >>
  <1> DEFINE c == Cells(f, o, 0)
  <1>1. IsSeq(c) /\ Len(c) = 0
    <2>1. o + 0 <= Len(f) /\ 0 \in Nat
      BY SeqLen
    <2> QED BY <2>1, CellsFacts
  <1> HIDE DEF c
  <1>2. c = << >>
    <2>1. PICK S : c \in Seq(S)
      BY <1>1 DEF IsSeq
    <2> QED BY <1>1, <2>1
  <1> QED BY <1>2 DEF c

\* A completely written file passes every check of open(), which reads the table and
\* the metadata that were written and nothing else.
LEMMA WholeOpens ==
  ASSUME NEW f, NEW m, NEW ss, Whole(f, m, ss)
  PROVE  /\ FramingOk(f) /\ MetadataOk(f, f[1]) /\ TableOk(f, f[1])
         /\ Cells(f, f[1].moff, f[1].msize) = m
         /\ TablesOf(f, f[1]) = {TableOf(f, Len(ss))}
         /\ EntriesOk(f, TableOf(f, Len(ss)))
         /\ IsSeq(TableOf(f, Len(ss))) /\ Len(TableOf(f, Len(ss))) = Len(ss)
  <1> DEFINE n == Len(ss)
             L == Len(f)
             M == Len(m)
             es == TableOf(f, n)
             h == f[1]
  <1>1. /\ IsSeq(f) /\ L \in Nat /\ n \in Nat /\ M \in Nat /\ 2 + n <= L /\ 1 + M <= L
        /\ IsSeq(es) /\ Cells(f, 1, M) = m
        /\ \A i \in 1 .. Len(es) : Placed(f, es[i], ss[i])
    BY SeqLen DEF Whole, Layout
  <1>2. h = [count |-> n, moff |-> 1, msize |-> M, toff |-> L - 1 - n, tsize |-> n,
             total |-> L, magic |-> TRUE]
    BY DEF Whole, HeaderOf
  <1>3. /\ h.count = n /\ h.moff = 1 /\ h.msize = M /\ h.toff = L - 1 - n /\ h.tsize = n
        /\ h.total = L /\ h.magic /\ IsHeader(h)
    BY <1>2 DEF IsHeader
  <1>4. AsFooter(f[L]).foot
    BY DEF Whole, AsFooter, IsFooter
  <1>5. es = Cells(f, L - 1 - n, n)
    BY DEF TableOf
  <1> HIDE DEF h, es, n, L, M
  <1>6. FramingOk(f)
    <2>1. AsHeader(h) = h /\ L >= HeaderSize + FooterSize
      BY <1>1, <1>3 DEF AsHeader, HeaderSize, FooterSize
    <2> QED BY <1>3, <1>4, <2>1 DEF FramingOk, h, L
  <1>7. MetadataOk(f, h)
    <2>1. Sum(1, M) <= 1 + M
      BY <1>1, SumFacts
    <2>2. Sum(1, M) \in Int
      BY <1>1, ArtifactAssumption DEF Sum
    <2>3. Sum(1, M) <= L
      BY <1>1, <2>1, <2>2
    <2> QED BY <1>1, <1>3, <2>3 DEF MetadataOk, InFile, L
  <1>8. L - 1 - n \in Nat /\ (L - 1 - n) + n <= L
    BY <1>1
  <1>9. TableOk(f, h)
    <2> DEFINE o == L - 1 - n
    <2> HIDE DEF o
    <2>1. Sum(o, n) <= o + n /\ o + n <= L /\ o \in Nat
      BY <1>1, <1>8, SumFacts DEF o
    <2>2. Sum(o, n) \in Int
      BY <1>1, <2>1, ArtifactAssumption DEF Sum
    <2>3. Sum(o, n) <= L
      BY <1>1, <2>1, <2>2
    <2>4. h.toff = o /\ n = n * EntrySize
      BY <1>1, <1>3 DEF o, EntrySize
    <2> QED BY <1>3, <2>1, <2>3, <2>4 DEF TableOk, InFile, L
  <1>10. Len(es) = n
    <2>1. L - 1 - n + n <= Len(f)
      BY <1>8 DEF L
    <2> QED BY <1>1, <1>5, <1>8, <2>1, CellsFacts
  <1>11. EntriesOk(f, es)
    <2> SUFFICES ASSUME NEW i \in 1 .. Len(es)
                 PROVE  Sum(es[i].offset, es[i].size) <= Len(f)
      BY <1>1, SeqLen DEF EntriesOk
    <2> DEFINE o == es[i].offset
               z == es[i].size
    <2>1. Placed(f, es[i], ss[i])
      BY <1>1
    <2>2. o \in Nat /\ z \in Nat /\ o + z <= Len(f)
      <3>1. z = Len(ss[i].data)
        BY <2>1 DEF Placed
      <3> QED BY <2>1, <3>1, SeqLen DEF Placed
    <2> HIDE DEF o, z
    <2>3. Sum(o, z) <= o + z /\ Sum(o, z) \in Int
      BY <2>2, SumFacts, ArtifactAssumption DEF Sum
    <2>4. Sum(o, z) <= Len(f)
      BY <1>1, <2>2, <2>3 DEF L
    <2> QED BY <2>4 DEF o, z
  <1>12. TablesOf(f, h) = {es}
    <2>1. CASE n = 0
      <3>1. es = << >>
        <4>1. L - 1 - n <= Len(f)
          BY <1>1 DEF L
        <4> QED BY <1>1, <1>5, <1>8, <2>1, <4>1, NoCells
      <3> QED BY <1>3, <2>1, <3>1 DEF TablesOf
    <2>2. CASE n # 0
      <3> DEFINE poss == UNION {AsEntries(es[i]) : i \in DOMAIN es}
                 T == {t \in [DOMAIN es -> poss] : \A i \in DOMAIN es : t[i] \in AsEntries(es[i])}
      <3>1. Cells(f, h.toff, h.tsize) = es
        BY <1>3, <1>5
      <3>2. TablesOf(f, h) = T
        BY <1>3, <2>2, <3>1 DEF TablesOf
      <3>3. DOMAIN es = 1 .. n
        BY <1>1, <1>10, SeqLen
      <3>4. \A i \in 1 .. n : AsEntries(es[i]) = {es[i]}
        <4> SUFFICES ASSUME NEW i \in 1 .. n PROVE AsEntries(es[i]) = {es[i]}
          OBVIOUS
        <4>1. Placed(f, es[i], ss[i])
          BY <1>1, <1>10
        <4>2. "offset" \in DOMAIN es[i]
          BY <4>1 DEF Placed
        <4> QED BY <4>2 DEF AsEntries
      <3>5. \A i \in DOMAIN es : es[i] \in poss
        BY <3>3, <3>4
      <3>6. es \in [DOMAIN es -> poss]
        <4>1. PICK S : es \in Seq(S)
          BY <1>1 DEF IsSeq
        <4>2. es = [i \in DOMAIN es |-> es[i]]
          BY <4>1
        <4> HIDE DEF poss
        <4> QED BY <3>5, <4>2
      <3> HIDE DEF poss
      <3>7. es \in T
        BY <3>3, <3>4, <3>6
      <3>8. ASSUME NEW t \in T PROVE t = es
        <4>1. t \in [DOMAIN es -> poss] /\ \A i \in DOMAIN es : t[i] = es[i]
          BY <3>3, <3>4
        <4> QED BY <3>6, <4>1
      <3> QED BY <3>2, <3>7, <3>8
    <2> QED BY <2>1, <2>2
  <1>13. Cells(f, h.moff, h.msize) = m
    BY <1>1, <1>3
  <1> QED BY <1>1, <1>6, <1>7, <1>9, <1>10, <1>11, <1>12, <1>13 DEF h, es, n

\* The section a name is found at, in a completely written file.
LEMMA WholeFinds ==
  ASSUME NEW f, NEW m, NEW ss, Whole(f, m, ss), NEW i \in 1 .. Len(ss),
         NEW t, t = TableOf(f, Len(ss)), NEW e, e = t[IndexOf(t)[StoredName(ss[i].name)]]
  PROVE  \/ /\ e.offset % Align = 0 /\ e.sum = Crc64(ss[i].data)
            /\ Cells(f, e.offset, e.size) = ss[i].data
         \/ \E j \in (i + 1) .. Len(ss) : StoredName(ss[j].name) = StoredName(ss[i].name)
  <1>1. /\ IsSeq(t) /\ Len(t) = Len(ss) /\ Len(ss) \in Nat
        /\ \A k \in 1 .. Len(ss) : Placed(f, t[k], ss[k])
    BY WholeOpens, SeqLen DEF Whole, Layout
  <1>2. \A k \in 1 .. Len(ss) : t[k].name = StoredName(ss[k].name)
    <2> SUFFICES ASSUME NEW k \in 1 .. Len(ss) PROVE t[k].name = StoredName(ss[k].name)
      OBVIOUS
    <2> DEFINE x == t[k]
               s == ss[k]
    <2>1. Placed(f, x, s)
      BY <1>1
    <2> HIDE DEF x, s
    <2>2. x.name = StoredName(s.name)
      BY <2>1 DEF Placed
    <2> QED BY <2>2 DEF x, s
  <1> DEFINE j == IndexOf(t)[t[i].name]
  <1>3. j \in 1 .. Len(ss) /\ t[j].name = t[i].name /\ i <= j
    BY <1>1, IndexFacts
  <1>4. e = t[j]
    BY <1>2
  <1> HIDE DEF j
  <1>5. CASE j = i
    <2>1. Placed(f, e, ss[i])
      BY <1>1, <1>4, <1>5
    <2>2. e.size = Len(ss[i].data) /\ e.sum = ss[i].data
      BY <2>1 DEF Placed
    <2> QED BY <2>1, <2>2 DEF Placed, Crc64
  <1>6. CASE j # i
    <2>1. j \in (i + 1) .. Len(ss)
      BY <1>1, <1>3, <1>6
    <2>2. StoredName(ss[j].name) = StoredName(ss[i].name)
      BY <1>2, <1>3
    <2> QED BY <2>1, <2>2
  <1> QED BY <1>5, <1>6

\* A completely written file opens and every section is found where it was put, for
\* every alignment, every set of sections and every order of the writes and faults.
THEOREM FilesRoundTrip == Spec => []CompleteFileRoundTrips
  <1>1. Init => VersionsInv
    BY DEF Init, VersionsInv
  <1>2. VersionsInv => CompleteFileRoundTrips
    <2> SUFFICES ASSUME VersionsInv, NEW v \in versions
                 PROVE  LET f == v.file  h == v.file[1]
                        IN /\ FramingOk(f) /\ MetadataOk(f, h) /\ TableOk(f, h)
                           /\ Cells(f, h.moff, h.msize) = v.metadata
                           /\ \E t \in TablesOf(f, h) :
                                /\ EntriesOk(f, t)
                                /\ \A i \in DOMAIN v.sections :
                                     LET s == v.sections[i]
                                         e == t[IndexOf(t)[StoredName(s.name)]]
                                     IN \/ /\ e.offset % Align = 0 /\ e.sum = Crc64(s.data)
                                           /\ Cells(f, e.offset, e.size) = s.data
                                        \/ \E j \in (i + 1)..Len(v.sections) :
                                             StoredName(v.sections[j].name) = StoredName(s.name)
      BY DEF CompleteFileRoundTrips
    <2> DEFINE f == v.file
               ss == v.sections
               t == TableOf(f, Len(ss))
               at(i) == t[IndexOf(t)[StoredName(ss[i].name)]]
    <2>1. Whole(f, v.metadata, ss)
      BY DEF VersionsInv
    <2>2. /\ FramingOk(f) /\ MetadataOk(f, f[1]) /\ TableOk(f, f[1])
          /\ Cells(f, f[1].moff, f[1].msize) = v.metadata
          /\ t \in TablesOf(f, f[1]) /\ EntriesOk(f, t)
      <3> HIDE DEF f, ss
      <3> QED BY <2>1, WholeOpens
    <2>3. DOMAIN ss = 1 .. Len(ss)
      BY <2>1, SeqLen DEF Whole
    <2>4. \A i \in DOMAIN ss :
            \/ /\ at(i).offset % Align = 0 /\ at(i).sum = Crc64(ss[i].data)
               /\ Cells(f, at(i).offset, at(i).size) = ss[i].data
            \/ \E j \in (i + 1) .. Len(ss) : StoredName(ss[j].name) = StoredName(ss[i].name)
      <3> HIDE DEF f, ss
      <3> SUFFICES ASSUME NEW i \in 1 .. Len(ss)
                   PROVE  \/ /\ at(i).offset % Align = 0 /\ at(i).sum = Crc64(ss[i].data)
                             /\ Cells(f, at(i).offset, at(i).size) = ss[i].data
                          \/ \E j \in (i + 1) .. Len(ss) :
                               StoredName(ss[j].name) = StoredName(ss[i].name)
        BY <2>3
      <3> QED BY <2>1, WholeFinds
    <2> HIDE DEF t
    <2> QED BY <2>2, <2>4
  <1> QED BY <1>1, <1>2, InitWriter, NextWriter, NextVersions, PTL DEF Spec

-----------------------------------------------------------------------------
(* Files whose writing stopped *)

\* The total size in the header cannot be the size of the file.
Unfinished(f) ==
  1 <= Len(f) => /\ IsHeader(f[1])
                 /\ f[1].total = 0 \/ (f[1].total \in Nat /\ Len(f) < f[1].total)

LEMMA WritingIsUnfinished == WriterInv => (step \in Writing => Unfinished(file))
  <1> SUFFICES ASSUME WriterInv, step \in Writing PROVE Unfinished(file)
    OBVIOUS
  <1>1. IsHeader(file[1]) /\ Len(file) \in Nat
    BY SeqLen DEF WriterInv
  <1>2. CASE step \in {"metadata", "sections", "header"}
    BY <1>1, <1>2 DEF WriterInv, Unfinished
  <1>3. CASE step = "footer"
    <2>1. file[1].total = Len(file) + 1
      BY <1>3 DEF WriterInv, FinalHeader, FooterSize
    <2> QED BY <1>1, <2>1 DEF Unfinished
  <1> QED BY <1>2, <1>3 DEF Writing

LEMMA CutIsUnfinished ==
  ASSUME NEW f, IsSeq(f), Unfinished(f), NEW n \in 0 .. Len(f)
  PROVE  Unfinished(SubSeq(f, 1, n))
  <1>1. Len(f) \in Nat
    BY SeqLen
  <1> DEFINE g == SubSeq(f, 1, n)
  <1>2. Len(g) = n /\ (n >= 1 => g[1] = f[1])
    <2>1. PICK S : f \in Seq(S)
      BY DEF IsSeq
    <2> QED BY <2>1
  <1> HIDE DEF g
  <1>3. Unfinished(g)
    BY <1>1, <1>2 DEF Unfinished
  <1> QED BY <1>3 DEF g

LEMMA UnfinishedIsRefused ==
  ASSUME NEW f, IsSeq(f), Unfinished(f)
  PROVE  ~ FramingOk(f)
  <1> SUFFICES ASSUME FramingOk(f) PROVE FALSE
    OBVIOUS
  <1>1. Len(f) \in Nat /\ Len(f) >= 2
    BY SeqLen DEF FramingOk, HeaderSize, FooterSize
  <1>2. AsHeader(f[1]) = f[1]
    BY <1>1 DEF Unfinished, AsHeader
  <1>3. f[1].total = Len(f)
    BY <1>2 DEF FramingOk
  <1> QED BY <1>1, <1>3 DEF Unfinished

CrashInv == ~ altered => Complete(file) \/ Unfinished(file)

LEMMA NextCrash == WriterInv /\ WriterInv' /\ CrashInv /\ [Next]_vars => CrashInv'
  <1> SUFFICES ASSUME WriterInv, WriterInv', CrashInv, [Next]_vars PROVE CrashInv'
    OBVIOUS
  <1>1. CASE step' \in Writing
    <2>1. (WriterInv => (step \in Writing => Unfinished(file)))'
      BY WritingIsUnfinished, PTL
    <2> QED BY <1>1, <2>1 DEF CrashInv
  <1>2. CASE WriteFooter
    <2> DEFINE x == [file |-> file', sections |-> sections, metadata |-> metadata]
    <2>1. x \in versions' /\ x.file = file'
      BY <1>2 DEF WriteFooter
    <2> QED BY <2>1 DEF CrashInv, Complete
  <1>3. CASE Die
    <2>1. PICK n \in 0 .. Len(file) : file' = SubSeq(file, 1, n)
      BY <1>3 DEF Die
    <2>2. IsSeq(file) /\ Unfinished(file)
      BY <1>3, WritingIsUnfinished DEF WriterInv, Die, Writing
    <2>3. Unfinished(file')
      BY <2>1, <2>2, CutIsUnfinished
    <2> QED BY <2>3 DEF CrashInv
  <1>4. CASE Damage
    BY <1>4 DEF Damage, CrashInv
  <1>5. CASE /\ step' \notin Writing /\ ~ WriteFooter /\ ~ Die /\ ~ Damage
    <2>1. UNCHANGED <<file, altered, versions>>
      BY <1>5, ReaderLeaves
         DEF Next, ReaderStep, AddSection, AddTensor, Begin, WriteMetadata, WriteSection,
             WriteTable, WriteHeader, Restart, Writing
    <2> QED BY <2>1 DEF CrashInv, Complete
  <1> QED BY <1>1, <1>2, <1>3, <1>4, <1>5

\* Wherever a tool died, what it left opens only if it was completely written: for
\* every metadata and set of sections, and however little of the file was flushed.
THEOREM TornFilesAreRefused == Spec => []OnlyCompleteFilesOpen
  <1>1. Init => CrashInv
    BY DEF Init, CrashInv, Unfinished
  <1>2. WriterInv /\ CrashInv => OnlyCompleteFilesOpen
    BY UnfinishedIsRefused DEF WriterInv, CrashInv, OnlyCompleteFilesOpen
  <1> QED BY <1>1, <1>2, InitWriter, NextWriter, NextCrash, PTL DEF Spec

-----------------------------------------------------------------------------
(* Validation, under a single fault *)

\* At most one fault hits the file, and a cell that reads as a footer has the fields
\* of one.
SingleFault ==
  /\ MaxFaults <= 1
  /\ \A c : \A d \in Damaged(c) :
       IsFooter(d) => d = [crc |-> d.crc, foot |-> d.foot] /\ d.foot \in BOOLEAN

\* One cell of a completely written file was changed.
Struck ==
  \E v \in versions : \E i \in DOMAIN v.file : \E c \in Damaged(v.file[i]) :
    file = [v.file EXCEPT ![i] = c]

FaultInv ==
  /\ faults \in 0 .. MaxFaults
  /\ altered \/ step = "dead" => 1 <= faults
  /\ step = "done" /\ ~ altered => Complete(file)
  /\ altered => Struck

\* What open() keeps of file f.
Kept(f) ==
  /\ header = f[1] /\ footer = f[Len(f)]
  /\ raw_metadata = Cells(f, f[1].moff, f[1].msize)
  /\ table \in TablesOf(f, f[1]) /\ index = IndexOf(table)

KeptWhole == \E v \in versions : Kept(v.file)

OpenInv ==
  /\ writes \in Nat /\ opened \in Nat /\ opened <= writes
  /\ is_open => \/ KeptWhole
                \/ opened = writes => altered /\ FramingOk(file) /\ Kept(file)
  /\ validated => KeptWhole

ReadInv ==
  last # NoRead =>
    /\ last.of = footer.crc /\ last.name \in DOMAIN index
    /\ \/ EntryOf(last.name).size = 0 /\ last.data = <<>>
       \/ last.data = EntryOf(last.name).sum

LEMMA NextFault ==
  ASSUME SingleFault, WriterInv, FaultInv, [Next]_vars
  PROVE  FaultInv'
  <1>1. MaxFaults \in Nat /\ MaxFaults <= 1
    BY ArtifactAssumption DEF SingleFault
  <1>2. CASE Damage
    <2>1. /\ step \in {"done", "dead"} /\ faults < MaxFaults /\ faults' = faults + 1
          /\ altered' = TRUE /\ UNCHANGED <<step, versions>>
      BY <1>2 DEF Damage, writer
    <2>2. faults = 0 /\ faults' \in 0 .. MaxFaults /\ 1 <= faults'
      BY <1>1, <2>1 DEF FaultInv
    <2>3. step = "done" /\ ~ altered
      BY <2>1, <2>2 DEF FaultInv
    <2>4. PICK v \in versions : v.file = file
      BY <2>3 DEF FaultInv, Complete
    <2>5. PICK i \in DOMAIN file : \E c \in Damaged(file[i]) : file' = [file EXCEPT ![i] = c]
      BY <1>2 DEF Damage
    <2>6. Struck'
      <3>1. i \in DOMAIN v.file /\ v \in versions'
        BY <2>1, <2>4
      <3>2. \E c \in Damaged(v.file[i]) : file' = [v.file EXCEPT ![i] = c]
        BY <2>4, <2>5
      <3>3. \E w \in versions' : \E j \in DOMAIN w.file : \E c \in Damaged(w.file[j]) :
              file' = [w.file EXCEPT ![j] = c]
        BY <3>1, <3>2
      <3> QED BY <3>3 DEF Struck
    <2> QED BY <2>1, <2>2, <2>6 DEF FaultInv
  <1>3. CASE Die
    <2>1. /\ step \in Writing /\ step' = "dead" /\ faults < MaxFaults
          /\ faults' = faults + 1 /\ UNCHANGED <<altered>>
      BY <1>3 DEF Die, Writing
    <2>2. ~ altered
      BY <2>1 DEF WriterInv
    <2>3. faults' \in 0 .. MaxFaults /\ 1 <= faults'
      BY <1>1, <2>1 DEF FaultInv
    <2> QED BY <2>1, <2>2, <2>3 DEF FaultInv
  <1>4. CASE WriteFooter
    <2> DEFINE x == [file |-> file', sections |-> sections, metadata |-> metadata]
    <2>1. x \in versions' /\ x.file = file' /\ step = "footer" /\ step' = "done"
            /\ UNCHANGED <<altered, faults>>
      BY <1>4 DEF WriteFooter
    <2>2. ~ altered
      BY <2>1 DEF WriterInv, Writing
    <2>3. (Complete(file))'
      BY <2>1 DEF Complete
    <2> QED BY <2>1, <2>2, <2>3 DEF FaultInv, Complete
  <1>5. CASE Begin
    BY <1>5 DEF Begin, FaultInv
  <1>6. CASE WriteMetadata \/ WriteSection \/ WriteTable \/ WriteHeader
    <2>1. /\ step \in Writing /\ step' \in Writing /\ UNCHANGED <<altered, faults>>
      BY <1>6 DEF WriteMetadata, WriteSection, WriteTable, WriteHeader, Writing
    <2>2. ~ altered
      BY <2>1 DEF WriterInv
    <2> QED BY <2>1, <2>2 DEF FaultInv, Writing
  <1>7. CASE \/ \E n \in Names, d \in Payloads : AddSection(n, d) \/ AddTensor(n, d)
             \/ \E m \in Metadata, t \in {"writer", "converter"} : Restart(m, t)
    <2>1. /\ UNCHANGED <<file, altered, versions, faults>> /\ step' = "idle"
      BY <1>7 DEF AddSection, AddTensor, Restart
    <2> QED BY <2>1 DEF FaultInv, Struck
  <1>8. CASE ReaderStep \/ UNCHANGED vars
    <2>1. UNCHANGED <<file, altered, versions, faults, step>>
      BY <1>8, ReaderLeaves
    <2> QED BY <2>1 DEF FaultInv, Struck, Complete
  <1> QED BY <1>2, <1>3, <1>4, <1>5, <1>6, <1>7, <1>8 DEF Next, ReaderStep

\* A struck file that its own footer still vouches for is the file as written.
LEMMA StruckIsCaught ==
  ASSUME SingleFault, NEW g, NEW m, NEW ss, Whole(g, m, ss), NEW i \in DOMAIN g,
         NEW c \in Damaged(g[i]), NEW f, f = [g EXCEPT ![i] = c], FramingOk(f),
         Cells(f, 0, Len(f) - 1) = f[Len(f)].crc
  PROVE  f = g
  <1> DEFINE L == Len(g)
             A == Cells(g, 0, L - 1)
             B == Cells(f, 0, L - 1)
  <1>1. /\ IsSeq(g) /\ L \in Nat /\ 2 <= L /\ DOMAIN g = 1 .. L
        /\ g[L] = [crc |-> A, foot |-> TRUE]
    <2>1. IsSeq(g) /\ L \in Nat /\ DOMAIN g = 1 .. L /\ Len(ss) \in Nat /\ 2 + Len(ss) <= L
      BY SeqLen DEF Whole, Layout
    <2> QED BY <2>1 DEF Whole
  <1>2. /\ IsSeq(f) /\ Len(f) = L /\ f[i] = c
        /\ \A j \in 1 .. L : j # i => f[j] = g[j]
    BY <1>1, ExceptFacts
  <1>3. B = f[L].crc
    BY <1>2
  <1>4. /\ IsSeq(A) /\ Len(A) = L - 1 /\ \A j \in 1 .. L - 1 : A[j] = g[j]
        /\ IsSeq(B) /\ Len(B) = L - 1 /\ \A j \in 1 .. L - 1 : B[j] = f[j]
    <2>1. L - 1 \in Nat /\ L - 1 <= Len(g) /\ L - 1 <= Len(f)
      BY <1>1, <1>2
    <2> DEFINE k == L - 1
    <2>2. IsSeq(g) /\ IsSeq(f) /\ k \in Nat /\ k <= Len(g) /\ k <= Len(f)
      BY <1>1, <1>2, <2>1
    <2> HIDE DEF k
    <2>3. /\ IsSeq(Cells(g, 0, k)) /\ Len(Cells(g, 0, k)) = k
          /\ \A j \in 1 .. k : Cells(g, 0, k)[j] = g[j]
      BY <2>2, HeadCells
    <2>4. /\ IsSeq(Cells(f, 0, k)) /\ Len(Cells(f, 0, k)) = k
          /\ \A j \in 1 .. k : Cells(f, 0, k)[j] = f[j]
      BY <2>2, HeadCells
    <2> QED BY <2>3, <2>4 DEF k
  <1>5. f[i] = g[i]
    <2>1. CASE i = L
      <3>1. A = B
        <4>1. \A j \in 1 .. L - 1 : g[j] = f[j]
          BY <1>1, <1>2, <2>1
        <4>2. /\ IsSeq(A) /\ IsSeq(B) /\ Len(A) = Len(B) /\ Len(A) = L - 1
              /\ \A j \in 1 .. L - 1 : A[j] = g[j]
              /\ \A j \in 1 .. L - 1 : B[j] = f[j]
          BY <1>4
        <4> HIDE DEF A, B
        <4>3. \A j \in 1 .. Len(A) : A[j] = B[j]
          BY <4>1, <4>2
        <4> QED BY <4>2, <4>3, SeqEqual
      <3>2. IsFooter(c) /\ c.foot
        BY <1>2, <2>1 DEF FramingOk, AsFooter, NoFooter
      <3>3. c = [crc |-> c.crc, foot |-> c.foot] /\ c.foot \in BOOLEAN
        BY <3>2 DEF SingleFault
      <3> HIDE DEF A, B
      <3>4. c.foot = TRUE
        BY <3>2, <3>3
      <3>5. c.crc = A
        BY <1>2, <1>3, <2>1, <3>1
      <3> QED BY <1>1, <1>2, <2>1, <3>3, <3>4, <3>5
    <2>2. CASE i # L
      <3>1. f[L] = g[L] /\ i \in 1 .. L - 1
        BY <1>1, <1>2, <2>2
      <3>2. A = B
        <4> HIDE DEF A, B
        <4> QED BY <1>1, <1>3, <3>1
      <3>3. A[i] = g[i] /\ B[i] = f[i]
        BY <1>4, <3>1
      <3> HIDE DEF A, B
      <3> QED BY <3>2, <3>3
    <2> QED BY <2>1, <2>2
  <1>6. \A j \in 1 .. Len(f) : f[j] = g[j]
    BY <1>2, <1>5
  <1> QED BY <1>1, <1>2, <1>6, SeqEqual

LEMMA ReaderKeeps ==
  ASSUME UNCHANGED <<header, footer, raw_metadata, table, index>>
  PROVE  /\ versions \subseteq versions' /\ KeptWhole => KeptWhole'
         /\ UNCHANGED file /\ Kept(file) => (Kept(file))'
  <1>1. \A f : Kept(f) => /\ header' = f[1] /\ footer' = f[Len(f)]
                          /\ raw_metadata' = Cells(f, f[1].moff, f[1].msize)
                          /\ table' \in TablesOf(f, f[1]) /\ index' = IndexOf(table')
    BY DEF Kept
  <1> QED BY <1>1 DEF KeptWhole, Kept

\* The steps of the tools and the faults.
ToolStep ==
  \/ \E n \in Names, d \in Payloads : AddSection(n, d) \/ AddTensor(n, d)
  \/ Begin \/ WriteMetadata \/ WriteSection \/ WriteTable \/ WriteHeader \/ WriteFooter
  \/ \E m \in Metadata, t \in {"writer", "converter"} : Restart(m, t)
  \/ Die \/ Damage

LEMMA ToolFacts ==
  ASSUME SingleFault, WriterInv, FaultInv, ToolStep
  PROVE  /\ UNCHANGED reader /\ versions \subseteq versions'
         /\ \/ UNCHANGED <<file, altered, writes>>
            \/ ~ altered /\ UNCHANGED writes
            \/ writes' = writes + 1
  <1>1. UNCHANGED reader /\ versions \subseteq versions'
    BY DEF ToolStep, AddSection, AddTensor, Begin, WriteMetadata, WriteSection, WriteTable,
           WriteHeader, WriteFooter, Restart, Die, Damage
  <1>2. CASE Begin
    BY <1>1, <1>2 DEF Begin
  <1>3. CASE WriteMetadata \/ WriteSection \/ WriteTable \/ WriteHeader \/ WriteFooter \/ Die
    <2>1. step \in Writing /\ UNCHANGED writes
      BY <1>3 DEF WriteMetadata, WriteSection, WriteTable, WriteHeader, WriteFooter, Die, Writing
    <2> QED BY <1>1, <2>1 DEF WriterInv
  <1>4. CASE Damage
    <2>1. faults < MaxFaults /\ UNCHANGED writes
      BY <1>4 DEF Damage
    <2>2. ~(1 <= faults)
      BY <2>1, ArtifactAssumption DEF SingleFault, FaultInv
    <2> QED BY <1>1, <2>1, <2>2 DEF FaultInv
  <1>5. CASE \/ \E n \in Names, d \in Payloads : AddSection(n, d) \/ AddTensor(n, d)
             \/ \E m \in Metadata, t \in {"writer", "converter"} : Restart(m, t)
    BY <1>1, <1>5 DEF AddSection, AddTensor, Restart
  <1> QED BY <1>2, <1>3, <1>4, <1>5 DEF ToolStep

LEMMA ToolOpen ==
  ASSUME SingleFault, WriterInv, FaultInv, OpenInv, ToolStep
  PROVE  OpenInv'
  <1>1. /\ UNCHANGED <<is_open, header, footer, raw_metadata, table, index, opened, validated>>
        /\ versions \subseteq versions'
    BY ToolFacts DEF reader
  <1>2. KeptWhole => KeptWhole'
    BY <1>1, ReaderKeeps
  <1>3. writes' \in Nat /\ opened' \in Nat /\ opened' <= writes'
    BY <1>1, ToolFacts DEF OpenInv
  <1>4. ASSUME is_open', ~ KeptWhole', opened' = writes'
        PROVE  (altered /\ FramingOk(file) /\ Kept(file))'
    <2>1. writes' = writes /\ opened = writes
      BY <1>1, <1>4, ToolFacts DEF OpenInv
    <2>2. altered /\ FramingOk(file) /\ Kept(file)
      BY <1>1, <1>2, <1>4, <2>1 DEF OpenInv
    <2>3. writes' # writes + 1
      BY <2>1 DEF OpenInv
    <2>4. UNCHANGED <<file, altered>>
      BY <2>2, <2>3, ToolFacts
    <2>5. (Kept(file))'
      BY <1>1, <2>2, <2>4, ReaderKeeps
    <2> QED BY <2>2, <2>4, <2>5
  <1> QED BY <1>1, <1>2, <1>3, <1>4 DEF OpenInv

\* A successful validation speaks for a completely written file.
LEMMA ValidateOpen ==
  ASSUME SingleFault, VersionsInv, FaultInv, OpenInv, ValidateChecksum
  PROVE  OpenInv'
  <1>1. /\ UNCHANGED <<is_open, header, footer, raw_metadata, table, index, opened>>
        /\ UNCHANGED <<versions, file, altered, writes>>
        /\ is_open /\ validated' = (validated \/ (opened = writes /\ ChecksumOk))
    BY DEF ValidateChecksum
  <1>2. (KeptWhole => KeptWhole') /\ (Kept(file) => (Kept(file))')
    BY <1>1, ReaderKeeps
  <1>3. ASSUME opened = writes, ChecksumOk, ~ KeptWhole
        PROVE  FALSE
    <2>1. altered /\ FramingOk(file) /\ Kept(file)
      BY <1>1, <1>3 DEF OpenInv
    <2>2. PICK v \in versions :
            \E i \in DOMAIN v.file : \E c \in Damaged(v.file[i]) : file = [v.file EXCEPT ![i] = c]
      BY <2>1 DEF FaultInv, Struck
    <2>3. PICK i \in DOMAIN v.file :
            \E c \in Damaged(v.file[i]) : file = [v.file EXCEPT ![i] = c]
      BY <2>2
    <2>4. PICK c \in Damaged(v.file[i]) : file = [v.file EXCEPT ![i] = c]
      BY <2>3
    <2>5. header = file[1] /\ footer = file[Len(file)]
      BY <2>1 DEF Kept
    <2>6. AsHeader(file[1]) = file[1] /\ file[1].total = Len(file)
      BY <2>1 DEF FramingOk, AsHeader, NoHeader
    <2>7. Cells(file, 0, Len(file) - 1) = file[Len(file)].crc
      BY <1>3, <2>5, <2>6 DEF ChecksumOk, Crc64, FooterSize
    <2>8. Whole(v.file, v.metadata, v.sections)
      BY DEF VersionsInv
    <2> DEFINE g == v.file
    <2>9. g \in {w.file : w \in versions}
      OBVIOUS
    <2> HIDE DEF g
    <2>10. file = g
      <3>1. /\ Whole(g, v.metadata, v.sections) /\ i \in DOMAIN g
            /\ c \in Damaged(g[i]) /\ file = [g EXCEPT ![i] = c]
        BY <2>4, <2>8 DEF g
      <3> QED BY <2>1, <2>7, <3>1, StruckIsCaught
    <2>11. v.file = file
      BY <2>10 DEF g
    <2> QED BY <1>3, <2>1, <2>11 DEF KeptWhole
  <1>4. validated' => KeptWhole'
    BY <1>1, <1>2, <1>3 DEF OpenInv
  <1> QED BY <1>1, <1>2, <1>4 DEF OpenInv

LEMMA OpenOpen ==
  ASSUME WriterInv, CrashInv, OpenInv, Open
  PROVE  OpenInv'
  <1>1. /\ is_open' /\ ~ validated' /\ opened' = writes /\ UNCHANGED <<writes, file, altered, versions>>
        /\ FramingOk(file)
    BY DEF Open
  <1>2. (Kept(file))'
    BY DEF Open, Kept
  <1>3. CASE altered
    BY <1>1, <1>2, <1>3 DEF OpenInv
  <1>4. CASE ~ altered
    <2>1. Complete(file)
      BY <1>1, <1>4, UnfinishedIsRefused DEF CrashInv, WriterInv
    <2>2. PICK v \in versions' : v.file = file'
      BY <1>1, <2>1 DEF Complete
    <2>3. KeptWhole'
      BY <1>2, <2>2 DEF KeptWhole
    <2> QED BY <1>1, <2>3 DEF OpenInv
  <1> QED BY <1>3, <1>4

LEMMA NextOpen ==
  ASSUME SingleFault, WriterInv, VersionsInv, FaultInv, CrashInv, OpenInv, [Next]_vars
  PROVE  OpenInv'
  <1>1. CASE OpenFails
    <2>1. ~ is_open' /\ ~ validated' /\ opened' = writes /\ UNCHANGED writes
      BY <1>1 DEF OpenFails, CloseReader
    <2> QED BY <2>1 DEF OpenInv
  <1>2. CASE (\E n \in Names : ReadSection(n)) \/ UNCHANGED vars
    <2>1. /\ UNCHANGED <<is_open, header, footer, raw_metadata, table, index, opened, validated>>
          /\ UNCHANGED <<versions, file, altered, writes>>
      BY <1>2 DEF ReadSection, vars, reader
    <2>2. (KeptWhole => KeptWhole') /\ (Kept(file) => (Kept(file))')
      BY <2>1, ReaderKeeps
    <2> QED BY <2>1, <2>2 DEF OpenInv
  <1> QED BY <1>1, <1>2, ToolOpen, ValidateOpen, OpenOpen DEF Next, ToolStep

LEMMA NextRead == ReadInv /\ [Next]_vars => ReadInv'
  <1> SUFFICES ASSUME ReadInv, [Next]_vars PROVE ReadInv'
    OBVIOUS
  <1>1. CASE OpenFails \/ Open
    BY <1>1 DEF OpenFails, Open, CloseReader, ReadInv
  <1>2. ASSUME NEW n \in Names, ReadSection(n) PROVE ReadInv'
    <2> DEFINE e == EntryOf(n)
               got == Cells(file, e.offset, e.size)
    <2>1. UNCHANGED <<footer, table, index>> /\ n \in DOMAIN index
      BY <1>2 DEF ReadSection
    <2>2. \/ e.size = 0 /\ last' = [name |-> n, data |-> <<>>, of |-> footer.crc]
          \/ got = e.sum /\ last' = [name |-> n, data |-> got, of |-> footer.crc]
          \/ last' = last
      BY <1>2 DEF ReadSection, Crc64
    <2> HIDE DEF e, got
    <2>4. CASE e.size = 0 /\ last' = [name |-> n, data |-> <<>>, of |-> footer.crc]
      <3>1. last'.name = n /\ last'.data = <<>> /\ last'.of = footer.crc
        BY <2>4
      <3>2. EntryOf(last.name)' = e
        BY <2>1, <3>1 DEF EntryOf, e
      <3> QED BY <2>1, <2>4, <3>1, <3>2 DEF ReadInv
    <2>5. CASE got = e.sum /\ last' = [name |-> n, data |-> got, of |-> footer.crc]
      <3>1. last'.name = n /\ last'.data = got /\ last'.of = footer.crc
        BY <2>5
      <3>2. EntryOf(last.name)' = e
        BY <2>1, <3>1 DEF EntryOf, e
      <3> QED BY <2>1, <2>5, <3>1, <3>2 DEF ReadInv
    <2>6. CASE last' = last
      BY <2>1, <2>6 DEF ReadInv, EntryOf
    <2> QED BY <2>2, <2>4, <2>5, <2>6
  <1>3. CASE ValidateChecksum \/ UNCHANGED vars
    BY <1>3 DEF ValidateChecksum, vars, reader, ReadInv, EntryOf
  <1>4. CASE ToolStep
    <2>1. UNCHANGED reader
      BY <1>4
         DEF ToolStep, AddSection, AddTensor, Begin, WriteMetadata, WriteSection, WriteTable,
             WriteHeader, WriteFooter, Restart, Die, Damage
    <2> QED BY <2>1 DEF reader, ReadInv, EntryOf
  <1> QED BY <1>1, <1>2, <1>3, <1>4 DEF Next, ToolStep

ArtifactInv == WriterInv /\ VersionsInv /\ CrashInv /\ FaultInv /\ OpenInv /\ ReadInv

LEMMA InitArtifact == Init => ArtifactInv
  <1> SUFFICES ASSUME Init PROVE ArtifactInv
    OBVIOUS
  <1>1. VersionsInv /\ CrashInv /\ OpenInv /\ ReadInv
    BY DEF Init, VersionsInv, CrashInv, Unfinished, OpenInv, ReadInv
  <1>2. FaultInv
    <2>1. 0 \in 0 .. MaxFaults
      BY ArtifactAssumption
    <2> QED BY <2>1 DEF Init, FaultInv
  <1> QED BY <1>1, <1>2, InitWriter DEF ArtifactInv

LEMMA NextArtifact ==
  ASSUME SingleFault, ArtifactInv, [Next]_vars
  PROVE  ArtifactInv'
  <1> USE DEF ArtifactInv
  <1>1. WriterInv'
    BY NextWriter
  <1>2. VersionsInv' /\ CrashInv'
    BY <1>1, NextVersions, NextCrash
  <1>3. FaultInv' /\ OpenInv'
    BY NextFault, NextOpen
  <1> QED BY <1>1, <1>2, <1>3, NextRead

\* Under a single fault, the header, footer and metadata of a reader whose
\* validate_checksum has succeeded are those of one completely written artifact:
\* for every artifact, number of writes and point of the fault, and for every
\* damage that leaves a footer a footer.
THEOREM ValidationIsSound == SingleFault => (Spec => []ValidatedIsWritten)
  <1> SUFFICES ASSUME SingleFault PROVE Spec => []ValidatedIsWritten
    OBVIOUS
  <1>1. ArtifactInv /\ [Next]_vars => ArtifactInv'
    BY NextArtifact
  <1>2. ArtifactInv => ValidatedIsWritten
    <2> SUFFICES ASSUME ArtifactInv, validated
                 PROVE  \E v \in versions : v.file[1] = header /\ v.file[Len(v.file)] = footer
                                              /\ raw_metadata = v.metadata
      BY DEF ValidatedIsWritten
    <2>1. PICK v \in versions : Kept(v.file)
      BY DEF ArtifactInv, OpenInv, KeptWhole
    <2> DEFINE f == v.file
    <2>2. Whole(f, v.metadata, v.sections) /\ Kept(f)
      BY <2>1 DEF ArtifactInv, VersionsInv
    <2> HIDE DEF f
    <2>3. Cells(f, f[1].moff, f[1].msize) = v.metadata
      BY <2>2, WholeOpens
    <2>4. f[1] = header /\ f[Len(f)] = footer /\ raw_metadata = v.metadata
      BY <2>2, <2>3 DEF Kept
    <2> QED BY <2>4 DEF f
  <1> QED BY <1>1, <1>2, InitArtifact, PTL DEF Spec

\* Under a single fault, a section read by a validated reader is the payload the
\* opened artifact was written with under that name, also when the file was damaged
\* or written anew between open(), the read and the validation.
THEOREM ReadsAreWritten == SingleFault => (Spec => []ReadsAreAuthentic)
  <1> SUFFICES ASSUME SingleFault PROVE Spec => []ReadsAreAuthentic
    OBVIOUS
  <1>1. ArtifactInv /\ [Next]_vars => ArtifactInv'
    BY NextArtifact
  <1>2. ArtifactInv => ReadsAreAuthentic
    <2> SUFFICES ASSUME ArtifactInv, validated, last # NoRead
                 PROVE  \E v \in versions :
                          /\ v.file[Len(v.file)].crc = last.of
                          /\ \E i \in DOMAIN v.sections :
                               StoredName(v.sections[i].name) = last.name
                                 /\ v.sections[i].data = last.data
      BY DEF ReadsAreAuthentic
    <2>1. PICK v \in versions : Kept(v.file)
      BY DEF ArtifactInv, OpenInv, KeptWhole
    <2> DEFINE f == v.file
               ss == v.sections
               es == TableOf(f, Len(ss))
    <2>2. Whole(f, v.metadata, ss) /\ Kept(f)
      BY <2>1 DEF ArtifactInv, VersionsInv
    <2> HIDE DEF f, ss
    <2>3. /\ TablesOf(f, f[1]) = {es} /\ IsSeq(es) /\ Len(es) = Len(ss)
      BY <2>2, WholeOpens
    <2>4. \A k \in 1 .. Len(es) : Placed(f, es[k], ss[k])
      BY <2>2 DEF Whole, Layout
    <2> HIDE DEF es
    <2>5. footer = f[Len(f)] /\ table = es /\ index = IndexOf(es)
      BY <2>2, <2>3 DEF Kept
    <2>6. /\ last.of = footer.crc /\ last.name \in DOMAIN IndexOf(es)
          /\ \/ es[IndexOf(es)[last.name]].size = 0 /\ last.data = <<>>
             \/ last.data = es[IndexOf(es)[last.name]].sum
      BY <2>5 DEF ArtifactInv, ReadInv, EntryOf
    <2>7. PICK k \in 1 .. Len(es) : es[k].name = last.name
      BY <2>3, <2>6, SeqLen DEF IndexOf
    <2> DEFINE j == IndexOf(es)[es[k].name]
    <2>8. j \in 1 .. Len(es) /\ es[j].name = last.name
      BY <2>3, <2>7, IndexFacts
    <2>9. \/ es[j].size = 0 /\ last.data = <<>>
          \/ last.data = es[j].sum
      BY <2>6, <2>7
    <2> HIDE DEF j
    <2> DEFINE e == es[j]
               s == ss[j]
    <2>10. Placed(f, e, s)
      BY <2>4, <2>8
    <2>11. e.name = last.name /\ ((e.size = 0 /\ last.data = <<>>) \/ last.data = e.sum)
      BY <2>8, <2>9
    <2> HIDE DEF e, s
    <2>12. e.name = StoredName(s.name) /\ e.size = Len(s.data) /\ e.sum = s.data
      BY <2>10 DEF Placed
    <2>13. Len(s.data) = 0 => s.data = <<>>
      <3>1. PICK S : s.data \in Seq(S)
        BY <2>10 DEF Placed, IsSeq
      <3> QED BY <3>1
    <2>14. StoredName(s.name) = last.name /\ s.data = last.data
      BY <2>11, <2>12, <2>13
    <2>15. j \in DOMAIN ss
      BY <2>2, <2>3, <2>8, SeqLen DEF Whole
    <2>16. f[Len(f)].crc = last.of
      BY <2>5, <2>6
    <2> QED BY <2>14, <2>15, <2>16 DEF f, ss, s
  <1> QED BY <1>1, <1>2, InitArtifact, PTL DEF Spec
=============================================================================
