---------------------------- MODULE ClientPartsProofs ----------------------------
(***************************************************************************)
(* The parts of a client that keep and show its data, for any values, any  *)
(* records, any number of appends and crashes, any handles, any users and  *)
(* any lines: BinFile's bookkeeping agrees with the stream below it; the   *)
(* profile, which is such a file, is read as it was written; the handles   *)
(* of the C interface; and the console client's menus.                     *)
(***************************************************************************)
EXTENDS BinFileEdit, ProfileStorage, ApiHandles, ConsoleClient, SequenceTheorems, TLAPS

-----------------------------------------------------------------------------
\* A file over a stream of some length: its own position and size are the stream's
\* (after an append of no values: StaleFile below), and a stream that was last read is remembered as such, so that a write seeks first.
\* A write that has ended leaves nothing to seek for.
GoodFile(f, length) ==
    /\ f \in [pos : 0..length, size : Nat, cursor : 0..length, prev : {"none", "read", "write"},
              stdio : {"none", "read"}, undefined : {FALSE}]
    /\ f.pos = f.cursor
    /\ f.stdio = "read" => f.prev = "read"

LEMMA OpenedGood ==
    ASSUME NEW S, NEW c \in Seq(S)
    PROVE  GoodFile(Opened(c), Len(c))
BY LenProperties DEF GoodFile, Opened

LEMMA SeekGood ==
    ASSUME NEW l \in Nat, NEW f, GoodFile(f, l), NEW p \in 0..l
    PROVE  GoodFile(SetPos(f, p), l) /\ SetPos(f, p).size = f.size /\ SetPos(f, p).pos = p
BY DEF GoodFile, Seek, SetPos

\* What a seek for an operation of the other kind leaves.
LEMMA RefreshedGood ==
    ASSUME NEW l \in Nat, NEW f, GoodFile(f, l), NEW other \in {"read", "write"}
    PROVE  /\ GoodFile(Refreshed(f, other), l)
           /\ Refreshed(f, other).stdio = "read" => other # "read"
           /\ Refreshed(f, other).cursor = f.cursor /\ Refreshed(f, other).size = f.size
BY DEF GoodFile, Refreshed, Seek

\* A piece of a sequence, by the positions it lies between.
LEMMA PieceProperties ==
    ASSUME NEW S, NEW c \in Seq(S), NEW a \in Nat, NEW b \in Nat, a <= b, b <= Len(c)
    PROVE  /\ SubSeq(c, a + 1, b) \in Seq(S)
           /\ Len(SubSeq(c, a + 1, b)) = b - a
           /\ \A i \in 1..(b - a) : SubSeq(c, a + 1, b)[i] = c[a + i]
<1> DEFINE m == a + 1
<1>1. Len(c) \in Nat
  BY LenProperties
<1>2. m \in Int /\ b \in Int
  OBVIOUS
<1>3. \A i \in m..b : c[i] \in S
  BY <1>1, ElementOfSeq
<1>4. b - m + 1 = b - a /\ (m <= b <=> a < b) /\ \A i \in Int : m + i - 1 = a + i
  OBVIOUS
<1> HIDE DEF m
<1>5. /\ SubSeq(c, m, b) \in Seq(S)
      /\ Len(SubSeq(c, m, b)) = IF m <= b THEN b - m + 1 ELSE 0
      /\ \A i \in 1..(b - m + 1) : SubSeq(c, m, b)[i] = c[m + i - 1]
  BY <1>2, <1>3, SubSeqProperties
<1>6. Len(SubSeq(c, m, b)) = b - a
  <2>1. CASE a < b
    BY <1>4, <1>5, <2>1
  <2>2. CASE a = b
    BY <1>4, <1>5, <2>2
  <2>3. a < b \/ a = b
    OBVIOUS
  <2> QED
    BY <2>1, <2>2, <2>3
<1>7. ASSUME NEW i \in 1..(b - a)
      PROVE  SubSeq(c, m, b)[i] = c[a + i]
  BY <1>4, <1>5
<1> QED
  BY <1>5, <1>6, <1>7 DEF m

\* What a read gives, and where it leaves the file.
LEMMA GotProperties ==
    ASSUME NEW S, NEW c \in Seq(S), NEW f, GoodFile(f, Len(c)), NEW n \in Nat
    PROVE  /\ Got(f, c, n) \in Seq(S)
           /\ Len(Got(f, c, n)) = Smaller(n, Len(c) - f.cursor)
           /\ \A i \in 1..Len(Got(f, c, n)) : Got(f, c, n)[i] = c[f.cursor + i]
<1> DEFINE at == f.cursor
           last == Smaller(at + n, Len(c))
<1>0. Len(c) \in Nat
  BY LenProperties
<1>1. at \in 0..Len(c) /\ Refreshed(f, "write").cursor = at
  BY <1>0, RefreshedGood DEF GoodFile
<1>2. Got(f, c, n) = SubSeq(c, at + 1, last)
  BY <1>1 DEF Got
<1>3. at \in Nat /\ last \in Nat /\ at <= last /\ last <= Len(c) /\ last - at = Smaller(n, Len(c) - at)
  BY <1>0, <1>1 DEF Smaller
<1> HIDE DEF at, last
<1>4. /\ SubSeq(c, at + 1, last) \in Seq(S)
      /\ Len(SubSeq(c, at + 1, last)) = last - at
      /\ \A i \in 1..(last - at) : SubSeq(c, at + 1, last)[i] = c[at + i]
  BY <1>3, PieceProperties
<1> QED
  BY <1>2, <1>3, <1>4 DEF at

LEMMA AfterReadGood ==
    ASSUME NEW S, NEW c \in Seq(S), NEW f, GoodFile(f, Len(c)), NEW n \in Nat
    PROVE  /\ GoodFile(AfterRead(f, c, n), Len(c))
           /\ AfterRead(f, c, n).size = f.size
           /\ AfterRead(f, c, n).pos = f.cursor + Len(Got(f, c, n))
<1> DEFINE g == Refreshed(f, "write")
           k == Len(Got(f, c, n))
           l == Len(c)
<1>1. l \in Nat
  BY LenProperties
<1>2. /\ GoodFile(g, l) /\ g.cursor = f.cursor /\ g.size = f.size /\ g.stdio # "write"
      /\ f.cursor \in 0..l
  <2>1. GoodFile(g, l) /\ g.cursor = f.cursor /\ g.size = f.size
    BY <1>1, RefreshedGood
  <2> HIDE DEF g, l
  <2> QED
    BY <2>1 DEF GoodFile
<1>3. k = Smaller(n, l - f.cursor) /\ (Got(f, c, n) = <<>> => k = 0)
  BY GotProperties
<1>4. k \in Nat /\ f.cursor + k \in 0..l
  BY <1>1, <1>2, <1>3 DEF Smaller
<1>5. AfterRead(f, c, n) = IF n = 0 THEN f ELSE IF Got(f, c, n) = <<>> THEN g
        ELSE [Used(g, "read", "write") EXCEPT !.cursor = f.cursor + k, !.pos = f.cursor + k]
  BY <1>2 DEF AfterRead, Used, GoodFile
<1>8. n = 0 => k = 0
  BY <1>1, <1>2, <1>3 DEF Smaller
<1> SUFFICES /\ GoodFile(AfterRead(f, c, n), l) /\ AfterRead(f, c, n).size = f.size
             /\ AfterRead(f, c, n).pos = f.cursor + k
  OBVIOUS
<1> HIDE DEF g, k, l
<1>9. CASE n = 0
  <2>1. AfterRead(f, c, n) = f
    BY <1>5, <1>9
  <2>2. GoodFile(f, l)
    BY DEF l
  <2>3. f.pos = f.cursor
    BY <2>2 DEF GoodFile
  <2>4. f.cursor + k = f.cursor
    BY <1>1, <1>2, <1>8, <1>9
  <2> QED
    BY <2>1, <2>2, <2>3, <2>4
<1>6. CASE n # 0 /\ Got(f, c, n) = <<>>
  <2>1. AfterRead(f, c, n) = g
    BY <1>5, <1>6
  <2>2. g.pos = f.cursor /\ f.cursor + k = f.cursor
    BY <1>1, <1>2, <1>3, <1>6 DEF GoodFile
  <2> QED
    BY <1>2, <2>1, <2>2
<1>7. CASE n # 0 /\ Got(f, c, n) # <<>>
  <2>1. AfterRead(f, c, n) = [Used(g, "read", "write") EXCEPT !.cursor = f.cursor + k, !.pos = f.cursor + k]
    BY <1>5, <1>7
  <2>2. g.undefined = FALSE /\ (g.undefined \/ g.stdio = "write") = FALSE
    BY <1>2 DEF GoodFile
  <2> DEFINE x == f.cursor + k
             h == [g EXCEPT !.prev = "read", !.stdio = "read", !.undefined = FALSE]
  <2>3. AfterRead(f, c, n) = [h EXCEPT !.cursor = x, !.pos = x]
    BY <2>1, <2>2 DEF Used
  <2>4. x \in 0..l
    BY <1>4
  <2> HIDE DEF x
  <2>5. h.size = f.size /\ h.stdio = "read" /\ h.prev = "read"
    BY <1>2 DEF GoodFile
  <2>6. h \in [pos : 0..l, size : Nat, cursor : 0..l, prev : {"none", "read", "write"},
                stdio : {"none", "read"}, undefined : {FALSE}]
    BY <1>2 DEF GoodFile
  <2> HIDE DEF h
  <2>7. GoodFile([h EXCEPT !.cursor = x, !.pos = x], l)
    BY <2>4, <2>5, <2>6 DEF GoodFile
  <2>8. [h EXCEPT !.cursor = x, !.pos = x].size = f.size /\ [h EXCEPT !.cursor = x, !.pos = x].pos = x
    BY <2>5, <2>6
  <2> QED
    BY <2>3, <2>7, <2>8 DEF x
<1> QED
  BY <1>6, <1>7, <1>9

\* The same, from the position that the file keeps.
LEMMA ReadAt ==
    ASSUME NEW S, NEW c \in Seq(S), NEW f, GoodFile(f, Len(c)), NEW n \in Nat
    PROVE  /\ f.pos \in 0..Len(c) /\ Len(Got(f, c, n)) \in 0..n
           /\ f.pos + Len(Got(f, c, n)) <= Len(c) /\ Got(f, c, n) \in Seq(S)
<1> DEFINE k == Len(Got(f, c, n))
<1>1. Len(c) \in Nat
  BY LenProperties
<1>2. f.pos \in 0..Len(c) /\ f.cursor = f.pos
  BY DEF GoodFile
<1>3. Got(f, c, n) \in Seq(S) /\ k = Smaller(n, Len(c) - f.pos)
  <2>1. f.cursor \in 0..Len(c)
    BY <1>2
  <2>2. Got(f, c, n) \in Seq(S) /\ k = Smaller(n, Len(c) - f.cursor)
    BY <2>1, GotProperties
  <2> HIDE DEF k
  <2> QED
    BY <1>2, <2>2
<1> HIDE DEF k
<1>4. k \in 0..n /\ f.pos + k <= Len(c)
  BY <1>1, <1>2, <1>3 DEF Smaller
<1> QED
  BY <1>2, <1>3, <1>4 DEF k

LEMMA ReadCell ==
    ASSUME NEW S, NEW c \in Seq(S), NEW f, GoodFile(f, Len(c)), NEW n \in Nat,
           NEW i \in 1..Len(Got(f, c, n))
    PROVE  Got(f, c, n)[i] = c[f.pos + i] /\ Got(f, c, n)[i] \in S
<1>1. f.cursor = f.pos
  BY DEF GoodFile
<1>2. Got(f, c, n) \in Seq(S) /\ Got(f, c, n)[i] = c[f.pos + i]
  BY <1>1, GotProperties
<1> QED
  BY <1>2, ElementOfSeq

LEMMA ReadMoves ==
    ASSUME NEW S, NEW c \in Seq(S), NEW f, GoodFile(f, Len(c)), NEW n \in Nat
    PROVE  /\ GoodFile(AfterRead(f, c, n), Len(c)) /\ AfterRead(f, c, n).size = f.size
           /\ AfterRead(f, c, n).pos = f.pos + Len(Got(f, c, n))
<1>1. f.cursor = f.pos
  BY DEF GoodFile
<1> QED
  BY <1>1, AfterReadGood

\* Where there is enough to read, all that was asked for is read.
LEMMA ReadFull ==
    ASSUME NEW S, NEW c \in Seq(S), NEW f, GoodFile(f, Len(c)), NEW n \in Nat,
           f.pos + n <= Len(c)
    PROVE  Len(Got(f, c, n)) = n
<1>1. Len(c) \in Nat /\ Len(Got(f, c, n)) = Smaller(n, Len(c) - f.cursor)
  BY LenProperties, GotProperties
<1>2. f.cursor = f.pos /\ f.pos \in 0..Len(c)
  BY DEF GoodFile
<1> QED
  BY <1>1, <1>2 DEF Smaller

\* What a write needs: the stream is nowhere that C leaves undefined.
ReadyToWrite(g, length) ==
    g \in [pos : 0..length, size : Nat, cursor : 0..length, prev : {"none", "read", "write"},
          stdio : {"none"}, undefined : {FALSE}]

LEMMA ReadyProperties ==
    ASSUME NEW l \in Nat, NEW f, GoodFile(f, l)
    PROVE  /\ ReadyToWrite(Refreshed(f, "read"), l)
           /\ ReadyToWrite(Seek(f, l), l) /\ Refreshed(Seek(f, l), "read") = Seek(f, l)
           /\ Seek(f, l).cursor = l
<1>1. ReadyToWrite(Refreshed(f, "read"), l)
  BY DEF GoodFile, ReadyToWrite, Refreshed, Seek
<1>2. ReadyToWrite(Seek(f, l), l) /\ Seek(f, l).cursor = l /\ Seek(f, l).prev = "none"
  <2>1. l \in 0..l
    OBVIOUS
  <2> QED
    BY <2>1 DEF GoodFile, ReadyToWrite, Seek
<1> QED
  BY <1>1, <1>2 DEF Refreshed

\* Writing overwrites what is there and goes on past the end.
LEMMA OverwrittenProperties ==
    ASSUME NEW S, NEW c \in Seq(S), NEW v \in Seq(S), NEW at \in 0..Len(c)
    PROVE  /\ Overwritten(c, at, v) \in Seq(S)
           /\ at + Len(v) \in 0..Len(Overwritten(c, at, v))
           /\ at = Len(c) => Overwritten(c, at, v) = c \o v
<1> DEFINE before == SubSeq(c, 1, at)
           rest == SubSeq(c, at + Len(v) + 1, Len(c))
<1>1. Len(c) \in Nat /\ Len(v) \in Nat /\ at \in Nat /\ at <= Len(c)
  BY LenProperties
<1>2. before \in Seq(S) /\ Len(before) = at
  <2>1. SubSeq(c, 0 + 1, at) \in Seq(S) /\ Len(SubSeq(c, 0 + 1, at)) = at - 0
    BY <1>1, PieceProperties
  <2> QED
    BY <1>1, <2>1
<1>3. rest \in Seq(S) /\ (at = Len(c) => rest = <<>>)
  <2>1. CASE at + Len(v) < Len(c)
    BY <1>1, <2>1, PieceProperties
  <2>2. CASE ~(at + Len(v) < Len(c))
    <3> DEFINE m == at + Len(v) + 1
    <3>1. m \in Int /\ Len(c) \in Int /\ Len(c) < m
      BY <1>1, <2>2
    <3> HIDE DEF m
    <3>2. SubSeq(c, m, Len(c)) = <<>>
      BY <3>1, SubSeqEmpty
    <3> QED
      BY <3>2, EmptySeq DEF m
  <2> QED
    BY <1>1, <2>1, <2>2
<1> HIDE DEF before, rest
<1> DEFINE front == before \o v
<1>4. Overwritten(c, at, v) = front \o rest
  BY DEF Overwritten, before, rest
<1>5. front \in Seq(S) /\ Len(front) = at + Len(v)
  BY <1>2, ConcatProperties
<1>6. ASSUME at = Len(c)
      PROVE  front \o rest = c \o v
  <2>1. before = c
    BY <1>6, SubSeqFull DEF before
  <2>2. rest = <<>>
    BY <1>3, <1>6
  <2> HIDE DEF front
  <2>3. front \o rest = front
    BY <1>5, <2>2, ConcatEmptySeq
  <2> QED
    BY <2>1, <2>3 DEF front
<1> HIDE DEF front
<1>7. front \o rest \in Seq(S) /\ Len(front \o rest) = at + Len(v) + Len(rest)
  <2>1. front \o rest \in Seq(S) /\ Len(front \o rest) = Len(front) + Len(rest)
    BY <1>3, <1>5, ConcatProperties
  <2> QED
    BY <1>5, <2>1
<1>8. Len(rest) \in Nat
  BY <1>3, LenProperties
<1>9. at + Len(v) \in 0..Len(Overwritten(c, at, v))
  BY <1>1, <1>4, <1>7, <1>8
<1> QED
  BY <1>4, <1>6, <1>7, <1>9

LEMMA AfterWriteGood ==
    ASSUME NEW S, NEW c \in Seq(S), NEW v \in Seq(S), NEW f, v # <<>>,
           ReadyToWrite(Refreshed(f, "read"), Len(c))
    PROVE  /\ WrittenContent(f, c, v) \in Seq(S)
           /\ GoodFile(AfterWrite(f, c, v), Len(WrittenContent(f, c, v)))
           /\ AfterWrite(f, c, v).size = Len(WrittenContent(f, c, v))
<1> DEFINE g == Refreshed(f, "read")
           w == WrittenContent(f, c, v)
           x == g.cursor + Len(v)
           l == Len(w)
           h == [g EXCEPT !.prev = "write", !.stdio = "write", !.undefined = FALSE]
<1>1. Len(c) \in Nat
  BY LenProperties
<1>2. g.cursor \in 0..Len(c) /\ g.stdio = "none" /\ g.undefined = FALSE
  BY DEF ReadyToWrite
<1>3. w \in Seq(S) /\ x \in 0..l /\ w = Overwritten(c, g.cursor, v)
  BY <1>2, OverwrittenProperties DEF WrittenContent
<1>4. l \in Nat
  BY <1>3, LenProperties
<1>5. AfterWrite(f, c, v) = [h EXCEPT !.cursor = x, !.pos = x, !.stdio = "none", !.size = l]
  <2>1. (g.undefined \/ g.stdio = "read") = FALSE
    BY <1>2
  <2> HIDE DEF g, w
  <2>2. Used(g, "write", "read") = h
    BY <2>1 DEF Used
  <2>3. h.cursor = g.cursor
    BY DEF g, ReadyToWrite
  <2> QED
    BY <2>2, <2>3 DEF AfterWrite, g, w
<1>6. h \in [pos : 0..Len(c), size : Nat, cursor : 0..Len(c), prev : {"write"}, stdio : {"write"}, undefined : {FALSE}]
  BY DEF ReadyToWrite
<1> HIDE DEF g, w, x, l, h
<1>7. GoodFile([h EXCEPT !.cursor = x, !.pos = x, !.stdio = "none", !.size = l], l)
  BY <1>3, <1>4, <1>6 DEF GoodFile
<1>8. [h EXCEPT !.cursor = x, !.pos = x, !.stdio = "none", !.size = l].size = l
  BY <1>6
<1> QED
  BY <1>3, <1>5, <1>7, <1>8 DEF w, l

-----------------------------------------------------------------------------
\* A sequence is its two parts.
LEMMA SplitAgain ==
    ASSUME NEW S, NEW c \in Seq(S), NEW at \in 0..Len(c)
    PROVE  /\ SubSeq(c, 1, at) \in Seq(S)
           /\ SubSeq(c, 1, at) \o SubSeq(c, at + 1, Len(c)) = c
<1> DEFINE l == Len(c)
           before == SubSeq(c, 1, at)
           rest == SubSeq(c, at + 1, l)
<1>1. l \in Nat /\ at \in Nat /\ at <= l /\ 0 \in Nat /\ 0 + 1 = 1 /\ at - 0 = at
  BY LenProperties
<1>2. before \in Seq(S) /\ Len(before) = at /\ \A i \in 1..at : before[i] = c[i]
  <2>1. /\ SubSeq(c, 0 + 1, at) \in Seq(S) /\ Len(SubSeq(c, 0 + 1, at)) = at - 0
        /\ \A i \in 1..(at - 0) : SubSeq(c, 0 + 1, at)[i] = c[0 + i]
    BY <1>1, PieceProperties
  <2>2. \A i \in 1..at : 0 + i = i
    BY <1>1
  <2> QED
    BY <1>1, <2>1, <2>2
<1>3. rest \in Seq(S) /\ Len(rest) = l - at /\ \A i \in 1..(l - at) : rest[i] = c[at + i]
  BY <1>1, PieceProperties
<1> HIDE DEF before, rest
<1>4. /\ before \o rest \in Seq(S) /\ Len(before \o rest) = at + (l - at)
      /\ \A i \in 1..(at + (l - at)) : (before \o rest)[i] = IF i <= at THEN before[i] ELSE rest[i - at]
  <2>1. l - at \in Nat
    BY <1>1
  <2>2. Len(before) = at /\ Len(rest) = l - at
    BY <1>2, <1>3
  <2>3. /\ before \o rest \in Seq(S) /\ Len(before \o rest) = Len(before) + Len(rest)
        /\ \A i \in 1..(Len(before) + Len(rest)) :
              (before \o rest)[i] = IF i <= Len(before) THEN before[i] ELSE rest[i - Len(before)]
    BY <1>2, <1>3, ConcatProperties
  <2> QED
    BY <2>2, <2>3
<1>5. at + (l - at) = l
  BY <1>1
<1>6. ASSUME NEW i \in 1..l PROVE (before \o rest)[i] = c[i]
  <2>1. (before \o rest)[i] = IF i <= at THEN before[i] ELSE rest[i - at]
    BY <1>4, <1>5
  <2>2. CASE i <= at
    <3>1. i \in 1..at
      BY <1>1, <2>2
    <3> QED
      BY <1>2, <2>1, <2>2, <3>1
  <2>3. CASE ~(i <= at)
    <3>1. i - at \in 1..(l - at) /\ at + (i - at) = i
      BY <1>1, <2>3
    <3>2. rest[i - at] = c[at + (i - at)]
      BY <1>3, <3>1
    <3> QED
      BY <2>1, <2>3, <3>1, <3>2
  <2> QED
    BY <2>2, <2>3
<1>7. before \o rest = c
  <2> DEFINE w == before \o rest
  <2>1. w \in Seq(S) /\ c \in Seq(S) /\ Len(w) = Len(c) /\ \A i \in 1..Len(w) : w[i] = c[i]
    BY <1>4, <1>5, <1>6 DEF l
  <2> HIDE DEF w
  <2>2. w = c
    BY <2>1, SeqEqual
  <2> QED
    BY <2>2 DEF w
<1> QED
  BY <1>2, <1>7 DEF before, rest, l

\* After an append of no values the stream is at its end and the file's position is the old one.
StaleFile(f, length) ==
    f \in [pos : 0..length, size : Nat, cursor : {length}, prev : {"none"}, stdio : {"none"}, undefined : {FALSE}]

LEMMA StaleProperties ==
    ASSUME NEW S, NEW c \in Seq(S), NEW f, StaleFile(f, Len(c)), NEW n \in Nat, NEW p \in 0..Len(c)
    PROVE  /\ Refreshed(f, "read") = f /\ ReadyToWrite(f, Len(c))
           /\ Seek(f, Len(c)) = f
           /\ AfterRead(f, c, n) = f
           /\ SetPos(f, p) = f \/ (GoodFile(SetPos(f, p), Len(c)) /\ SetPos(f, p).size = f.size)
<1> DEFINE l == Len(c)
<1>1. l \in Nat
  BY LenProperties
<1>2. StaleFile(f, l)
  OBVIOUS
<1> HIDE DEF l
<1>3. Refreshed(f, "read") = f /\ Refreshed(f, "write") = f /\ ReadyToWrite(f, l) /\ Seek(f, l) = f
  <2>1. f.prev = "none" /\ f.stdio = "none" /\ f.cursor = l
    BY <1>2 DEF StaleFile
  <2>2. Refreshed(f, "read") = f /\ Refreshed(f, "write") = f
    BY <2>1 DEF Refreshed
  <2>3. ReadyToWrite(f, l)
    <3>1. l \in 0..l
      BY <1>1
    <3>2. "none" \in {"none", "read", "write"}
      OBVIOUS
    <3> QED
      BY <1>2, <3>1, <3>2 DEF StaleFile, ReadyToWrite
  <2>4. Seek(f, l) = f
    BY <1>2 DEF StaleFile, Seek
  <2> QED
    BY <2>2, <2>3, <2>4
<1>4. AfterRead(f, c, n) = f
  <2>1. f.cursor = l
    BY <1>2 DEF StaleFile
  <2>2. Smaller(l + n, l) = l /\ l < l + 1 /\ l + 1 \in Int /\ l \in Int
    BY <1>1 DEF Smaller
  <2>3. Got(f, c, n) = SubSeq(c, l + 1, l)
    BY <1>3, <2>1, <2>2 DEF Got, l
  <2>4. Got(f, c, n) = <<>>
    BY <2>2, <2>3, SubSeqEmpty
  <2> QED
    BY <1>3, <2>4 DEF AfterRead
<1>5. SetPos(f, p) = f \/ (GoodFile(SetPos(f, p), l) /\ SetPos(f, p).size = f.size)
  <2>1. p \in 0..l
    BY DEF l
  <2> QED
    BY <1>2, <2>1 DEF StaleFile, GoodFile, SetPos, Seek
<1> QED
  BY <1>3, <1>4, <1>5 DEF l

FileInv ==
    /\ content \in Seq(Values) /\ file.size = Len(content)
    /\ GoodFile(file, Len(content)) \/ StaleFile(file, Len(content))

LEMMA InitFileInv == FileInit => FileInv
<1> SUFFICES ASSUME FileInit PROVE FileInv
  OBVIOUS
<1>1. content \in Seq(Values) /\ file = Opened(content)
  BY EmptySeq DEF FileInit
<1>2. GoodFile(file, Len(content)) /\ file.size = Len(content)
  BY <1>1, OpenedGood DEF Opened
<1> QED
  BY <1>1, <1>2 DEF FileInv

\* An append of values is a write at the end.
LEMMA AppendGood ==
    ASSUME NEW S, NEW c \in Seq(S), NEW values \in Seq(S), NEW f,
           GoodFile(f, Len(c)) \/ StaleFile(f, Len(c)), f.size = Len(c)
    PROVE  LET g == AfterWrite(AtEnd(f, c), c, values)
           IN  /\ values # <<>> => GoodFile(g, Len(c \o values))
               /\ values = <<>> => StaleFile(g, Len(c \o values))
               /\ g.size = Len(c \o values)
<1> DEFINE l == Len(c)
           h == AtEnd(f, c)
<1>1. l \in Nat
  BY LenProperties
<1>2. ReadyToWrite(Refreshed(h, "read"), l) /\ Refreshed(h, "read").cursor = l
  <2>1. CASE GoodFile(f, l)
    BY <1>1, <2>1, ReadyProperties DEF AtEnd
  <2>2. CASE StaleFile(f, l)
    <3>1. Seek(f, l) = f /\ Refreshed(f, "read") = f /\ ReadyToWrite(f, l)
      <4>1. 0 \in Nat /\ 0 \in 0..l
        BY <1>1
      <4> QED
        BY <2>2, <4>1, StaleProperties
    <3> QED
      BY <2>2, <3>1 DEF AtEnd, StaleFile
  <2> QED
    BY <2>1, <2>2
<1>3. StaleFile(h, l) /\ h.size = l
  BY <1>1 DEF AtEnd, Seek, StaleFile, GoodFile
<1> HIDE DEF h
<1>4. CASE values # <<>>
  <2>1. WrittenContent(h, c, values) = c \o values
    <3>1. l \in 0..l
      BY <1>1
    <3>2. Overwritten(c, l, values) = c \o values
      BY <3>1, OverwrittenProperties
    <3> QED
      BY <1>2, <3>2 DEF WrittenContent
  <2>2. /\ GoodFile(AfterWrite(h, c, values), Len(WrittenContent(h, c, values)))
        /\ AfterWrite(h, c, values).size = Len(WrittenContent(h, c, values))
    BY <1>2, <1>4, AfterWriteGood
  <2> QED
    BY <1>4, <2>1, <2>2 DEF h
<1>5. CASE values = <<>>
  <2>1. AfterWrite(h, c, values) = h
    BY <1>5 DEF AfterWrite
  <2>2. c \o values = c
    BY <1>5, ConcatEmptySeq
  <2> QED
    BY <1>3, <1>5, <2>1, <2>2 DEF h
<1> QED
  BY <1>4, <1>5

LEMMA NextFileInv == FileInv /\ [FileNext]_fileVars => FileInv'
<1> SUFFICES ASSUME FileInv, [FileNext]_fileVars PROVE FileInv'
  OBVIOUS
<1>1. content \in Seq(Values) /\ Len(content) \in Nat /\ file.size = Len(content)
  BY LenProperties DEF FileInv
<1>2. GoodFile(file, Len(content)) \/ StaleFile(file, Len(content))
  BY DEF FileInv
<1>3. ASSUME NEW values \in Seq(Values), Write(values)
      PROVE  FileInv'
  <2>1. /\ content' = WrittenContent(file, content, values)
        /\ file' = AfterWrite(file, content, values)
    BY <1>3 DEF Write
  <2>2. ReadyToWrite(Refreshed(file, "read"), Len(content))
    <3>1. CASE GoodFile(file, Len(content))
      BY <1>1, <3>1, ReadyProperties
    <3>2. CASE StaleFile(file, Len(content))
      <4>1. 0 \in Nat /\ 0 \in 0..Len(content)
        BY <1>1
      <4>2. Refreshed(file, "read") = file /\ ReadyToWrite(file, Len(content))
        BY <1>1, <3>2, <4>1, StaleProperties
      <4> QED
        BY <4>2
    <3> QED
      BY <1>2, <3>1, <3>2
  <2>3. CASE values # <<>>
    BY <1>1, <2>1, <2>2, <2>3, AfterWriteGood DEF FileInv
  <2>4. CASE values = <<>>
    <3>1. file' = file
      BY <2>1, <2>4 DEF AfterWrite
    <3>2. Refreshed(file, "read").cursor \in 0..Len(content)
      BY <2>2 DEF ReadyToWrite
    <3>3. content' = content
      <4> DEFINE at == Refreshed(file, "read").cursor
                 before == SubSeq(content, 1, at)
                 rest == SubSeq(content, at + 1, Len(content))
      <4>1. content' = before \o values \o rest
        <5>1. Len(values) = 0 /\ at \in Nat
          BY <1>1, <2>4, <3>2, EmptySeq
        <5>2. at + Len(values) + 1 = at + 1
          BY <5>1
        <5> HIDE DEF at
        <5> QED
          BY <2>1, <5>2 DEF WrittenContent, Overwritten, at
      <4>2. before \in Seq(Values) /\ before \o rest = content
        BY <1>1, <3>2, SplitAgain
      <4> HIDE DEF before, rest
      <4>3. before \o values = before
        BY <2>4, <4>2, ConcatEmptySeq
      <4> QED
        BY <4>1, <4>2, <4>3
    <3> QED
      BY <1>1, <1>2, <3>1, <3>3 DEF FileInv
  <2> QED
    BY <2>3, <2>4
<1>4. ASSUME NEW values \in Seq(Values), Append_(values)
      PROVE  FileInv'
  <2>1. content' = content \o values /\ file' = AfterWrite(AtEnd(file, content), content, values)
    BY <1>4 DEF Append_
  <2>2. content' \in Seq(Values)
    BY <1>1, <2>1, ConcatProperties
  <2>3. /\ values # <<>> => GoodFile(file', Len(content'))
        /\ values = <<>> => StaleFile(file', Len(content'))
        /\ file'.size = Len(content')
    BY <1>1, <1>2, <2>1, AppendGood
  <2> QED
    BY <2>2, <2>3 DEF FileInv
<1>5. ASSUME NEW n \in 0..2, ReadUpTo(n)
      PROVE  FileInv'
  <2>1. file' = AfterRead(file, content, n) /\ content' = content /\ n \in Nat
    BY <1>5 DEF ReadUpTo
  <2>2. CASE GoodFile(file, Len(content))
    BY <1>1, <2>1, <2>2, AfterReadGood DEF FileInv
  <2>3. CASE StaleFile(file, Len(content))
    <3>1. 0 \in 0..Len(content)
      BY <1>1
    <3>2. file' = file
      BY <1>1, <2>1, <2>3, <3>1, StaleProperties
    <3> QED
      BY <1>1, <1>2, <2>1, <3>2 DEF FileInv
  <2> QED
    BY <1>2, <2>2, <2>3
<1>6. ASSUME NEW p \in 0..Len(content), MoveTo(p)
      PROVE  FileInv'
  <2>1. file' = SetPos(file, p) /\ content' = content
    BY <1>6 DEF MoveTo
  <2>2. CASE GoodFile(file, Len(content))
    BY <1>1, <2>1, <2>2, SeekGood DEF FileInv
  <2>3. CASE StaleFile(file, Len(content))
    <3>1. file' = file \/ (GoodFile(file', Len(content)) /\ file'.size = file.size)
      <4>1. 0 \in Nat
        OBVIOUS
      <4> QED
        BY <1>1, <2>1, <2>3, <4>1, StaleProperties
    <3> QED
      BY <1>1, <1>2, <2>1, <3>1 DEF FileInv
  <2> QED
    BY <1>2, <2>2, <2>3
<1>7. CASE UNCHANGED fileVars
  BY <1>1, <1>2, <1>7 DEF fileVars, FileInv
<1>8. \A values \in {<<>>} \cup {<<a>> : a \in Values} \cup {<<a, b>> : a, b \in Values} : values \in Seq(Values)
  <2> SUFFICES ASSUME NEW values \in {<<>>} \cup {<<a>> : a \in Values} \cup {<<a, b>> : a, b \in Values}
               PROVE  values \in Seq(Values)
    OBVIOUS
  <2>1. values = <<>> \/ (\E a \in Values : values = <<a>>) \/ (\E a, b \in Values : values = <<a, b>>)
    OBVIOUS
  <2>2. CASE \E a \in Values : values = <<a>>
    BY <2>2
  <2>3. CASE \E a, b \in Values : values = <<a, b>>
    BY <2>3
  <2>4. CASE values = <<>>
    BY <2>4, EmptySeq
  <2> QED
    BY <2>1, <2>2, <2>3, <2>4
<1> QED
  BY <1>3, <1>4, <1>5, <1>6, <1>7, <1>8 DEF FileNext

\* Through any writes, appends, reads and seeks, of no values too, the size that a BinFile
\* keeps is the stream's, and so is its position, but right after an append of no values, and
\* no operation is one that C leaves undefined.
THEOREM FilesAgree == FileSpec => []FileAgrees
<1>1. FileInv => FileAgrees
  BY DEF FileInv, GoodFile, StaleFile, FileAgrees, AppendedNothing
<1>2. FileSpec => []FileInv
  BY InitFileInv, NextFileInv, PTL DEF FileSpec
<1> QED
  BY <1>1, <1>2, PTL

-----------------------------------------------------------------------------
\* The profile's cells, and where a record's are.
Cells == [of : Records, size : Nat] \cup [of : Records, byte : Nat]
IsSize(cell) == "size" \in DOMAIN cell
PartsSize(r) == PartSizes[r][1] + PartSizes[r][2]
RecordSize(r) == HeaderSize + PartsSize(r)

\* The first n records lie one after the other; at[i] is where record i begins.
Laid(at, cells, records, n) ==
    /\ at \in [1..(n + 1) -> 0..Len(cells)] /\ at[1] = 0
    /\ \A i, j \in 1..(n + 1) : i < j => at[i] < at[j]
    /\ \A i \in 1..n :
          /\ at[i + 1] = at[i] + RecordSize(records[i])
          /\ \A j \in 1..RecordSize(records[i]) : cells[at[i] + j] = Encoded(records[i])[j]

\* From b on, the first k cells of a record, and a size where its next one should be, or
\* nothing yet; a size, or nothing yet, where its parts should begin if there is no more
\* than its first size.
Torn(b, r, k, cells) ==
    /\ b + k <= Len(cells)
    /\ \A j \in 1..k : cells[b + j] = Encoded(r)[j]
    /\ b + (k + 1) <= Len(cells) => IsSize(cells[b + (k + 1)])
    /\ k = 1 /\ b + 3 <= Len(cells) => IsSize(cells[b + 3])
TornAt(b, cells) == \E r \in Records : \E k \in 1..(RecordSize(r) - 1) : Torn(b, r, k, cells)

\* Those sizes will come first: only who has added no more than a size is adding.
SizesComeFirst(b, k) ==
    /\ Len(disk) = b + k => \A a \in Appenders : adding[a].done = 0
    /\ k = 1 /\ Len(disk) = b + 2 => \A a \in Appenders : adding[a].done <= 1
DamagedTail(b) ==
    \E r \in Records : \E k \in 1..(RecordSize(r) - 1) : Torn(b, r, k, disk) /\ SizesComeFirst(b, k)

\* The beginning of the one record that is being added.
OnlyAdding(a, b) ==
    /\ Adding(a) /\ \A c \in Appenders \ {a} : ~Adding(c)
    /\ Len(disk) = b + EndOf(adding[a].record, adding[a].done)
    /\ \A j \in 1..EndOf(adding[a].record, adding[a].done) : disk[b + j] = Encoded(adding[a].record)[j]

\* What follows the whole records.
AfterWhole(b) == IF damaged THEN DamagedTail(b)
            ELSE (Idle /\ Len(disk) = b) \/ \E a \in Appenders : OnlyAdding(a, b)

\* What a loop over the profile saw when it opened it, and what it has met.
IsReader ==
    reader = [mode |-> reader.mode, wanted |-> reader.wanted, toMake |-> reader.toMake,
              file |-> reader.file, it |-> reader.it, met |-> reader.met,
              result |-> reader.result, opened |-> reader.opened, clean |-> reader.clean]
OpenedWell(at) ==
    /\ reader.opened \in 0..Len(whole) /\ reader.file.size \in 0..Len(disk)
    /\ GoodFile(reader.file, Len(disk))
    /\ reader.clean => reader.file.size = at[reader.opened + 1]
    /\ ~reader.clean => at[reader.opened + 1] < reader.file.size
    /\ ~reader.clean /\ reader.opened < Len(whole) => reader.file.size < at[reader.opened + 2]
MetWell ==
    /\ reader.met \in Seq(Records) /\ Len(reader.met) <= Len(whole)
    /\ \A i \in 1..Len(reader.met) : reader.met[i] = whole[i]

\* Its iterator is at the next record, up to the one that was unfinished.
Has(it, r) == it.sizes = PartSizes[r] /\ it.record = r
ItAt(at, it, n) ==
    /\ it = [pos |-> it.pos, sizes |-> it.sizes, record |-> it.record, file |-> it.file]
    /\ it.pos = at[n + 1]
    /\ n < reader.opened => Has(it, whole[n + 1])
    /\ n = reader.opened => \/ it.pos = reader.file.size \/ it.record = "none"
                            \/ n < Len(whole) /\ Has(it, whole[n + 1])
    /\ n > reader.opened => it.record = "none"
Phase(at) ==
    \/ /\ reader.result = "reading" /\ reader.toMake = <<"begin", "end">>
       /\ Len(reader.met) = 0 /\ reader.file.pos = 0
    \/ /\ reader.result = "reading" /\ reader.toMake = <<"end">>
       /\ Len(reader.met) = 0 /\ ItAt(at, reader.it, Len(reader.met))
       /\ reader.opened > 0 => reader.file.pos = at[2]
    \/ /\ reader.result = "reading" /\ reader.toMake = <<>>
       /\ ItAt(at, reader.it, Len(reader.met))
    \/ /\ reader.result # "reading"
       /\ \/ Len(reader.met) >= reader.opened
          \/ /\ Len(reader.met) = 0 /\ reader.opened = 1 /\ ~reader.clean
             /\ reader.result = "threw"

ReaderPlace(at) ==
    \/ reader = NoReader
    \/ IsReader /\ reader.mode = "find"
    \/ IsReader /\ reader.mode = "iterate" /\ OpenedWell(at) /\ MetWell /\ Phase(at)

ProfileTyped ==
    /\ disk \in Seq(Cells) /\ whole \in Seq(Records) /\ damaged \in BOOLEAN
    /\ adding \in [Appenders -> {NotAdding} \cup [record : Records, done : 1..3]]

ProfileInv ==
    /\ ProfileTyped
    /\ \E at : Laid(at, disk, whole, Len(whole)) /\ AfterWhole(at[Len(whole) + 1]) /\ ReaderPlace(at)

LEMMA RecordProperties ==
    ASSUME NEW r \in Records
    PROVE  /\ PartSizes[r][1] \in Nat /\ PartSizes[r][2] \in Nat
           /\ PartSizes[r] = <<PartSizes[r][1], PartSizes[r][2]>>
           /\ PartsSize(r) \in Nat /\ PartsSize(r) > 0
           /\ RecordSize(r) = PartsSize(r) + 2 /\ RecordSize(r) \in Nat
           /\ r \notin {"garbled", "none"}
BY RecordsAssumption DEF PartsSize, RecordSize, HeaderSize

LEMMA CellProperties ==
    ASSUME NEW r \in Records
    PROVE  /\ \A k \in Nat : [of |-> r, size |-> k] \in Cells /\ IsSize([of |-> r, size |-> k])
           /\ \A k \in Nat : [of |-> r, byte |-> k] \in Cells /\ ~IsSize([of |-> r, byte |-> k])
<1>1. ASSUME NEW k \in Nat
      PROVE  IsSize([of |-> r, size |-> k]) /\ ~IsSize([of |-> r, byte |-> k])
  BY DEF IsSize
<1> QED
  BY <1>1 DEF Cells

LEMMA PartCellsProperties ==
    ASSUME NEW r \in Records
    PROVE  /\ PartCells(r) \in Seq(Cells) /\ Len(PartCells(r)) = PartsSize(r)
           /\ \A k \in 1..PartsSize(r) : PartCells(r)[k] = [of |-> r, byte |-> k]
<1> DEFINE n == PartsSize(r)
<1>1. n \in Nat
  BY RecordProperties
<1>2. PartCells(r) = [k \in 1..n |-> [of |-> r, byte |-> k]]
  BY DEF PartCells, PartsSize
<1> HIDE DEF n
<1>3. \A k \in 1..n : [of |-> r, byte |-> k] \in Cells
  BY <1>1, CellProperties
<1>4. PartCells(r) \in [1..n -> Cells]
  BY <1>2, <1>3
<1>5. PartCells(r) \in Seq(Cells) /\ Len(PartCells(r)) = n
  BY <1>1, <1>4
<1> QED
  BY <1>2, <1>5 DEF n

\* A file that grows keeps what it holds.
LEMMA GrownProperties ==
    ASSUME NEW c \in Seq(Cells), NEW s \in Seq(Cells)
    PROVE  /\ c \o s \in Seq(Cells) /\ Len(c \o s) = Len(c) + Len(s)
           /\ Len(c) \in Nat /\ Len(s) \in Nat
           /\ \A i \in 1..Len(c) : (c \o s)[i] = c[i]
           /\ \A i \in 1..Len(s) : (c \o s)[Len(c) + i] = s[i]
<1>1. Len(c) \in Nat /\ Len(s) \in Nat
  BY LenProperties
<1>2. /\ c \o s \in Seq(Cells) /\ Len(c \o s) = Len(c) + Len(s)
      /\ \A i \in 1..(Len(c) + Len(s)) : (c \o s)[i] = IF i <= Len(c) THEN c[i] ELSE s[i - Len(c)]
  BY ConcatProperties
<1>3. ASSUME NEW i \in 1..Len(c) PROVE (c \o s)[i] = c[i]
  BY <1>1, <1>2
<1>4. ASSUME NEW i \in 1..Len(s) PROVE (c \o s)[Len(c) + i] = s[i]
  <2>1. Len(c) + i \in 1..(Len(c) + Len(s)) /\ ~(Len(c) + i <= Len(c)) /\ Len(c) + i - Len(c) = i
    BY <1>1
  <2> QED
    BY <1>2, <2>1
<1> QED
  BY <1>1, <1>2, <1>3, <1>4

\* A record's cells: two sizes, then the parts.
LEMMA EncodedProperties ==
    ASSUME NEW r \in Records
    PROVE  /\ Encoded(r) \in Seq(Cells) /\ Len(Encoded(r)) = RecordSize(r)
           /\ Encoded(r)[1] = [of |-> r, size |-> PartSizes[r][1]]
           /\ Encoded(r)[2] = [of |-> r, size |-> PartSizes[r][2]]
           /\ \A k \in 1..PartsSize(r) : Encoded(r)[2 + k] = [of |-> r, byte |-> k]
<1> DEFINE head == SizesOf(r)
           tail == PartCells(r)
<1>1. PartsSize(r) \in Nat /\ RecordSize(r) = PartsSize(r) + 2
  BY RecordProperties
<1>2. /\ head \in Seq(Cells) /\ Len(head) = 2
      /\ head[1] = [of |-> r, size |-> PartSizes[r][1]]
      /\ head[2] = [of |-> r, size |-> PartSizes[r][2]]
  <2>1. /\ [of |-> r, size |-> PartSizes[r][1]] \in Cells
        /\ [of |-> r, size |-> PartSizes[r][2]] \in Cells
    BY RecordProperties, CellProperties
  <2> QED
    BY <2>1 DEF SizesOf
<1>3. /\ tail \in Seq(Cells) /\ Len(tail) = PartsSize(r)
      /\ \A k \in 1..PartsSize(r) : tail[k] = [of |-> r, byte |-> k]
  BY PartCellsProperties
<1> HIDE DEF head, tail
<1>4. head \in Seq(Cells) /\ tail \in Seq(Cells)
  BY <1>2, <1>3
<1> DEFINE n == Len(tail)
<1>5. /\ head \o tail \in Seq(Cells) /\ Len(head \o tail) = 2 + n
      /\ \A i \in 1..2 : (head \o tail)[i] = head[i]
      /\ \A i \in 1..n : (head \o tail)[2 + i] = tail[i]
  <2>1. /\ head \o tail \in Seq(Cells) /\ Len(head \o tail) = Len(head) + Len(tail)
        /\ \A i \in 1..Len(head) : (head \o tail)[i] = head[i]
        /\ \A i \in 1..Len(tail) : (head \o tail)[Len(head) + i] = tail[i]
    BY <1>4, GrownProperties
  <2> QED
    BY <1>2, <2>1
<1>6. Encoded(r) = head \o tail /\ n = PartsSize(r)
  BY <1>3 DEF Encoded, head, tail
<1>7. 1 \in 1..2 /\ 2 \in 1..2 /\ 2 + PartsSize(r) = RecordSize(r)
  BY <1>1
<1> HIDE DEF n
<1> QED
  BY <1>2, <1>3, <1>5, <1>6, <1>7

-----------------------------------------------------------------------------
LEMMA LaidStays ==
    ASSUME NEW c \in Seq(Cells), NEW s \in Seq(Cells), NEW records \in Seq(Records),
           NEW n \in 0..Len(records), NEW at, Laid(at, c, records, n)
    PROVE  Laid(at, c \o s, records, n)
<1>1. Len(records) \in Nat
  BY LenProperties
<1>2. /\ Len(c) \in Nat /\ Len(c \o s) \in Nat /\ Len(c) <= Len(c \o s)
      /\ \A i \in 1..Len(c) : (c \o s)[i] = c[i]
  BY GrownProperties
<1>3. at \in [1..(n + 1) -> 0..Len(c \o s)]
  BY <1>2 DEF Laid
<1>4. ASSUME NEW i \in 1..n, NEW j \in 1..RecordSize(records[i])
      PROVE  (c \o s)[at[i] + j] = Encoded(records[i])[j]
  <2>1. records[i] \in Records
    BY <1>1, ElementOfSeq
  <2>2. RecordSize(records[i]) \in Nat
    BY <2>1, RecordProperties
  <2>3. at[i] \in 0..Len(c) /\ at[i + 1] \in 0..Len(c) /\ at[i + 1] = at[i] + RecordSize(records[i])
    BY <1>1 DEF Laid
  <2>4. at[i] + j \in 1..Len(c)
    <3> DEFINE x == at[i]
               y == at[i + 1]
               z == RecordSize(records[i])
               l == Len(c)
    <3>1. x \in 0..l /\ y \in 0..l /\ y = x + z /\ z \in Nat /\ l \in Nat /\ j \in 1..z
      BY <1>2, <2>2, <2>3
    <3> HIDE DEF x, y, z, l
    <3>2. x + j \in 1..l
      BY <3>1
    <3> QED
      BY <3>2 DEF x, l
  <2> QED
    BY <1>2, <2>4 DEF Laid
<1> QED
  BY <1>3, <1>4 DEF Laid

-----------------------------------------------------------------------------
\* What reading two sizes gives, wherever the file is.
LEMMA SizesProperties ==
    ASSUME disk \in Seq(Cells), NEW f, GoodFile(f, Len(disk))
    PROVE  /\ GoodFile(AfterSizes(f), Len(disk)) /\ AfterSizes(f).size = f.size
           /\ \/ f.pos >= f.size /\ EncSizes(f) = ZeroSizes
              \/ EncSizes(f) = <<"garbled">>
              \/ /\ f.pos + 2 <= Len(disk) /\ IsSize(disk[f.pos + 1]) /\ IsSize(disk[f.pos + 2])
                 /\ EncSizes(f) = <<disk[f.pos + 1].size, disk[f.pos + 2].size>>
                 /\ disk[f.pos + 1].size \in Nat /\ disk[f.pos + 2].size \in Nat
                 /\ AfterSizes(f).pos = f.pos + 2
<1> DEFINE cells == Got(f, disk, 2)
           p == f.pos
<1>1. Len(disk) \in Nat
  BY LenProperties
<1>2. p \in 0..Len(disk) /\ f.cursor = p /\ f.size \in Nat
  BY DEF GoodFile
<1>3. /\ Len(cells) \in 0..2 /\ p + Len(cells) <= Len(disk)
      /\ GoodFile(AfterRead(f, disk, 2), Len(disk)) /\ AfterRead(f, disk, 2).size = f.size
      /\ AfterRead(f, disk, 2).pos = p + Len(cells)
  <2>1. Len(cells) \in 0..2 /\ p + Len(cells) <= Len(disk)
    BY ReadAt
  <2>2. /\ GoodFile(AfterRead(f, disk, 2), Len(disk)) /\ AfterRead(f, disk, 2).size = f.size
        /\ AfterRead(f, disk, 2).pos = p + Len(cells)
    BY ReadMoves
  <2> QED
    BY <2>1, <2>2
<1>4. ASSUME NEW i \in 1..Len(cells) PROVE cells[i] = disk[p + i] /\ cells[i] \in Cells
  BY ReadCell
<1>5. EncSizes(f) = IF p >= f.size THEN ZeroSizes
                    ELSE IF ReadsSizes(cells) THEN <<cells[1].size, cells[2].size>> ELSE <<"garbled">>
  BY DEF EncSizes
<1>6. AfterSizes(f) = IF p >= f.size THEN f ELSE AfterRead(f, disk, 2)
  BY DEF AfterSizes
<1> HIDE DEF cells
<1>7. CASE p >= f.size
  BY <1>5, <1>6, <1>7
<1>8. CASE ~(p >= f.size) /\ ~ReadsSizes(cells)
  BY <1>3, <1>5, <1>6, <1>8
<1>9. CASE ~(p >= f.size) /\ ReadsSizes(cells)
  <2>1. /\ EncSizes(f) = <<cells[1].size, cells[2].size>>
        /\ AfterSizes(f) = AfterRead(f, disk, 2)
    BY <1>5, <1>6, <1>9
  <2>2. Len(cells) = 2 /\ IsSize(cells[1]) /\ IsSize(cells[2])
    BY <1>9 DEF ReadsSizes, IsSize
  <2>3. p + 2 <= Len(disk)
    BY <1>3, <2>2
  <2>4. cells[1] = disk[p + 1] /\ cells[2] = disk[p + 2] /\ cells[1] \in Cells /\ cells[2] \in Cells
    <3>1. 1 \in 1..Len(cells) /\ 2 \in 1..Len(cells)
      BY <2>2
    <3> HIDE DEF p
    <3> QED
      BY <1>4, <3>1
  <2>5. \A cell \in Cells : IsSize(cell) => cell.size \in Nat
    BY DEF Cells, IsSize
  <2> QED
    BY <1>3, <2>1, <2>2, <2>3, <2>4, <2>5
<1> QED
  BY <1>7, <1>8, <1>9

\* Whatever an iterator reads, the file below it stays one that can be read.
LEMMA IteratorProperties ==
    ASSUME disk \in Seq(Cells), NEW f, GoodFile(f, Len(disk)), NEW p
    PROVE  /\ GoodFile(Iterator(f, p).file, Len(disk)) /\ Iterator(f, p).file.size = f.size
           /\ Iterator(f, p).pos = p /\ Iterator(f, p).sizes = EncSizes(f)
           /\ Iterator(f, p).record = RecordAt(AfterSizes(f), EncSizes(f))
<1> DEFINE g == AfterSizes(f)
           sizes == EncSizes(f)
<1>1. GoodFile(g, Len(disk)) /\ g.size = f.size
  BY SizesProperties
<1>2. sizes \in {ZeroSizes, <<"garbled">>} \/ sizes[1] + sizes[2] \in Nat
  BY SizesProperties
<1>3. GoodFile(AfterRecord(g, sizes), Len(disk)) /\ AfterRecord(g, sizes).size = f.size
  <2>1. CASE sizes \in {ZeroSizes, <<"garbled">>}
    BY <1>1, <2>1 DEF AfterRecord
  <2>2. CASE ~(sizes \in {ZeroSizes, <<"garbled">>})
    <3>1. AfterRecord(g, sizes) = AfterRead(g, disk, sizes[1] + sizes[2])
      BY <2>2 DEF AfterRecord
    <3> DEFINE n == sizes[1] + sizes[2]
    <3>2. n \in Nat
      BY <1>2, <2>2
    <3> HIDE DEF g, n
    <3>3. GoodFile(AfterRead(g, disk, n), Len(disk)) /\ AfterRead(g, disk, n).size = g.size
      BY <1>1, <3>2, AfterReadGood
    <3> QED
      BY <1>1, <3>1, <3>3 DEF n
  <2> QED
    BY <2>1, <2>2
<1>4. Iterator(f, p) = [pos |-> p, sizes |-> sizes, record |-> RecordAt(g, sizes), file |-> AfterRecord(g, sizes)]
  BY DEF Iterator
<1> HIDE DEF g, sizes
<1> QED
  BY <1>3, <1>4 DEF g, sizes

LEMMA SizesFull ==
    ASSUME disk \in Seq(Cells), NEW f, GoodFile(f, Len(disk)), f.pos + 2 <= Len(disk)
    PROVE  Len(Got(f, disk, 2)) = 2
BY ReadFull

\* Where a record was added, it is read.
LEMMA IteratorAtRecord ==
    ASSUME disk \in Seq(Cells), NEW f, GoodFile(f, Len(disk)), NEW p, NEW r \in Records,
           f.pos < f.size, f.pos + RecordSize(r) <= Len(disk),
           \A j \in 1..RecordSize(r) : disk[f.pos + j] = Encoded(r)[j]
    PROVE  Has(Iterator(f, p), r) /\ Iterator(f, p).file.pos = f.pos + RecordSize(r)
<1> DEFINE b == f.pos
           g == AfterSizes(f)
           sizes == EncSizes(f)
           n == PartsSize(r)
<1>1. /\ Len(disk) \in Nat /\ b \in 0..Len(disk) /\ f.cursor = b /\ f.size \in Nat
      /\ n \in Nat /\ n > 0 /\ RecordSize(r) = n + 2
  BY LenProperties, RecordProperties DEF GoodFile
<1>2. /\ disk[b + 1] = [of |-> r, size |-> PartSizes[r][1]]
      /\ disk[b + 2] = [of |-> r, size |-> PartSizes[r][2]]
      /\ \A k \in 1..n : disk[b + (2 + k)] = [of |-> r, byte |-> k]
  <2>1. 1 \in 1..RecordSize(r) /\ 2 \in 1..RecordSize(r) /\ \A k \in 1..n : 2 + k \in 1..RecordSize(r)
    BY <1>1
  <2> QED
    BY <2>1, EncodedProperties
<1>3. sizes = PartSizes[r] /\ g = AfterRead(f, disk, 2) /\ Len(Got(f, disk, 2)) = 2
  <2> DEFINE cells == Got(f, disk, 2)
  <2>1. ASSUME NEW i \in 1..Len(cells) PROVE cells[i] = disk[b + i]
    BY ReadCell
  <2>2. Len(cells) = 2
    <3>1. f.pos + 2 <= Len(disk)
      BY <1>1
    <3> QED
      BY <3>1, SizesFull
  <2>3. cells[1] = [of |-> r, size |-> PartSizes[r][1]] /\ cells[2] = [of |-> r, size |-> PartSizes[r][2]]
    BY <1>2, <2>1, <2>2
  <2> HIDE DEF cells
  <2>4. IsSize(cells[1]) /\ IsSize(cells[2])
    BY <2>3, CellProperties, RecordProperties
  <2>5. ReadsSizes(cells)
    BY <2>2, <2>4 DEF ReadsSizes, IsSize
  <2>6. ~(f.pos >= f.size)
    BY <1>1
  <2>7. sizes = <<cells[1].size, cells[2].size>> /\ g = AfterRead(f, disk, 2)
    BY <2>5, <2>6 DEF EncSizes, AfterSizes, cells
  <2>8. sizes = PartSizes[r]
    BY <2>3, <2>7, RecordProperties
  <2> QED
    BY <2>2, <2>7, <2>8 DEF cells
<1>4. GoodFile(g, Len(disk)) /\ g.cursor = b + 2
  <2>1. /\ GoodFile(AfterRead(f, disk, 2), Len(disk))
        /\ AfterRead(f, disk, 2).pos = b + Len(Got(f, disk, 2))
    BY ReadMoves
  <2> QED
    BY <1>3, <2>1 DEF GoodFile
<1>5. Got(g, disk, n) = PartCells(r)
  <2> HIDE DEF b, g, n
  <2>1. g.pos = b + 2 /\ n \in Nat /\ b + 2 + n <= Len(disk)
    BY <1>1, <1>4 DEF b, GoodFile
  <2> DEFINE parts == Got(g, disk, n)
  <2>2. /\ parts \in Seq(Cells)
        /\ \A i \in 1..Len(parts) : parts[i] = disk[b + 2 + i]
    <3>1. parts \in Seq(Cells)
      BY <1>4, <2>1, ReadAt
    <3>2. ASSUME NEW i \in 1..Len(parts) PROVE parts[i] = disk[g.pos + i]
      BY <1>4, <2>1, ReadCell
    <3> QED
      BY <2>1, <3>1, <3>2
  <2>3. Len(parts) = n
    BY <1>4, <2>1, ReadFull
  <2>4. /\ PartCells(r) \in Seq(Cells) /\ Len(PartCells(r)) = n
        /\ \A k \in 1..n : PartCells(r)[k] = [of |-> r, byte |-> k]
    BY PartCellsProperties DEF n
  <2> HIDE DEF parts
  <2>5. ASSUME NEW k \in 1..n PROVE parts[k] = PartCells(r)[k]
    <3>1. b + 2 + k = b + (2 + k)
      <4>1. b \in Nat /\ k \in Nat
        BY <1>1, <2>1 DEF b
      <4> QED
        BY <4>1
    <3>2. parts[k] = disk[b + (2 + k)]
      BY <2>2, <2>3, <3>1
    <3> QED
      BY <1>2, <2>4, <3>2
  <2> QED
    BY <2>2, <2>3, <2>4, <2>5, SeqEqual DEF parts
<1>6. sizes # ZeroSizes /\ sizes # <<"garbled">> /\ sizes[1] + sizes[2] = n
  <2>1. sizes = <<PartSizes[r][1], PartSizes[r][2]>> /\ PartSizes[r][1] + PartSizes[r][2] > 0
    BY <1>3, RecordProperties DEF PartsSize
  <2>2. sizes # ZeroSizes
    BY <2>1 DEF ZeroSizes
  <2>3. Len(<<PartSizes[r][1], PartSizes[r][2]>>) # Len(<<"garbled">>)
    OBVIOUS
  <2> QED
    BY <2>1, <2>2, <2>3 DEF PartsSize
<1>7. RecordAt(g, sizes) = r
  <2>1. disk[g.cursor].of = r
    BY <1>2, <1>4
  <2> QED
    BY <1>5, <1>6, <2>1 DEF RecordAt
<1>8. Iterator(f, p).file.pos = b + RecordSize(r)
  <2>1. AfterRecord(g, sizes) = AfterRead(g, disk, n)
    <3> HIDE DEF g, sizes, n
    <3> QED
      BY <1>6 DEF AfterRecord
  <2>2. Iterator(f, p).file = AfterRecord(g, sizes)
    BY DEF Iterator
  <2> HIDE DEF g, n, sizes
  <2>3. g.pos = b + 2 /\ n \in Nat /\ b + 2 + n <= Len(disk)
    BY <1>1, <1>4 DEF GoodFile
  <2>4. Len(Got(g, disk, n)) = n /\ AfterRead(g, disk, n).pos = g.pos + Len(Got(g, disk, n))
    BY <1>4, <2>3, ReadFull, ReadMoves
  <2> HIDE DEF b
  <2> QED
    BY <1>1, <2>1, <2>2, <2>3, <2>4 DEF b
<1> QED
  BY <1>3, <1>7, <1>8, IteratorProperties DEF Has

\* At a tear no record is read: where the rest of the torn one should be, there is
\* nothing, or the sizes of another.
LEMMA IteratorAtTear ==
    ASSUME disk \in Seq(Cells), NEW f, GoodFile(f, Len(disk)), NEW p, TornAt(f.pos, disk)
    PROVE  Iterator(f, p).record \in {"garbled", "none"}
<1> DEFINE b == f.pos
           g == AfterSizes(f)
           sizes == EncSizes(f)
<1>1. Len(disk) \in Nat /\ b \in 0..Len(disk)
  BY LenProperties DEF GoodFile
<1>2. Len(<<"garbled">>) # Len(<<0, 0>>)
  OBVIOUS
<1>3. CASE sizes = ZeroSizes
  BY <1>3, IteratorProperties DEF RecordAt
<1>4. CASE sizes = <<"garbled">>
  <2>1. <<"garbled">> # ZeroSizes
    BY <1>2 DEF ZeroSizes
  <2> HIDE DEF g, sizes
  <2>2. RecordAt(g, sizes) = "garbled"
    BY <1>4, <2>1 DEF RecordAt
  <2> QED
    BY <2>2, IteratorProperties DEF g, sizes
<1>5. CASE /\ sizes # ZeroSizes /\ b + 2 <= Len(disk) /\ g.pos = b + 2
           /\ IsSize(disk[b + 2])
           /\ sizes[1] + sizes[2] \in Nat
  <2> DEFINE r0 == disk[b + 2].of
             n0 == PartsSize(r0)
             m == sizes[1] + sizes[2]
             parts == Got(g, disk, m)
  <2>1. GoodFile(g, Len(disk)) /\ g.cursor = b + 2
    BY <1>5, SizesProperties DEF GoodFile
  <2>2. disk[b + 2] \in Cells /\ r0 \in Records
    <3>1. b + 2 \in 1..Len(disk)
      BY <1>1, <1>5
    <3>2. disk[b + 2] \in Cells
      BY <3>1, ElementOfSeq
    <3> QED
      BY <3>2 DEF Cells
  <2>3. n0 \in Nat /\ n0 > 0
    BY <2>2, RecordProperties
  <2>4. ASSUME parts = PartCells(r0)
        PROVE  FALSE
    <3>1. Len(parts) = n0 /\ \A i \in 1..n0 : parts[i] = [of |-> r0, byte |-> i]
      BY <2>2, <2>4, PartCellsProperties
    <3>2. g.pos = b + 2 /\ m \in Nat
      BY <1>5
    <3> HIDE DEF g, m
    <3>3. b + 2 + n0 <= Len(disk)
      <4> HIDE DEF n0
      <4>1. g.pos + Len(parts) <= Len(disk)
        BY <2>1, <3>2, ReadAt
      <4> QED
        BY <3>1, <3>2, <4>1
    <3>4. ASSUME NEW i \in 1..n0
          PROVE  ~IsSize(disk[b + 2 + i])
      <4> HIDE DEF n0, r0
      <4>1. parts[i] = disk[g.pos + i]
        BY <2>1, <3>1, <3>2, ReadCell
      <4>2. disk[b + 2 + i] = [of |-> r0, byte |-> i] /\ i \in Nat
        BY <2>3, <3>1, <3>2, <4>1
      <4> QED
        BY <2>2, <4>2, CellProperties
    <3> HIDE DEF parts
    <3>5. PICK r \in Records : \E k \in 1..(RecordSize(r) - 1) : Torn(b, r, k, disk)
      BY DEF TornAt
    <3>10. PICK k \in 1..(RecordSize(r) - 1) : Torn(b, r, k, disk)
      BY <3>5
    <3>6. /\ b + k <= Len(disk)
          /\ \A j \in 1..k : disk[b + j] = Encoded(r)[j]
          /\ b + (k + 1) <= Len(disk) => IsSize(disk[b + (k + 1)])
          /\ k = 1 /\ b + 3 <= Len(disk) => IsSize(disk[b + 3])
      BY <3>10 DEF Torn
    <3>7. RecordSize(r) = PartsSize(r) + 2 /\ PartsSize(r) \in Nat
      BY RecordProperties
    <3>8. CASE k \in 1..2
      <4>1. /\ k = 1 \/ (k + 1 = 3 /\ b + (k + 1) = b + 3)
            /\ b + 3 <= Len(disk) /\ 1 \in 1..n0 /\ b + 2 + 1 = b + 3
        <5> HIDE DEF n0, b
        <5> QED
          BY <1>1, <2>3, <3>3, <3>8
      <4>2. IsSize(disk[b + 3])
        BY <3>6, <4>1
      <4>3. ~IsSize(disk[b + 2 + 1])
        BY <3>4, <4>1
      <4> QED
        BY <4>1, <4>2, <4>3
    <3>9. CASE k > 2
      <4>1. 2 \in 1..k
        BY <3>7, <3>9
      <4>2. disk[b + 2] = [of |-> r, size |-> PartSizes[r][2]]
        BY <3>6, <4>1, EncodedProperties
      <4>3. r0 = r
        BY <4>2
      <4>4. n0 = PartsSize(r)
        BY <4>3
      <4> HIDE DEF n0, b
      <4>5. /\ k - 1 \in 1..n0 /\ b + 2 + (k - 1) = b + (k + 1)
            /\ b + (k + 1) <= Len(disk)
        BY <1>1, <2>3, <3>3, <3>7, <3>9, <4>4
      <4>6. IsSize(disk[b + (k + 1)])
        BY <3>6, <4>5
      <4>7. ~IsSize(disk[b + 2 + (k - 1)])
        BY <3>4, <4>5
      <4> QED
        BY <4>5, <4>6, <4>7
    <3> QED
      BY <3>7, <3>8, <3>9
  <2>5. RecordAt(g, sizes) = "garbled"
    <3> HIDE DEF g, sizes
    <3>1. disk[g.cursor].of = r0
      BY <2>1
    <3>2. Got(g, disk, sizes[1] + sizes[2]) # PartCells(r0)
      BY <2>4
    <3> QED
      BY <1>5, <3>1, <3>2 DEF RecordAt
  <2> QED
    BY <2>5, IteratorProperties
<1>6. \/ sizes = ZeroSizes \/ sizes = <<"garbled">>
      \/ /\ b + 2 <= Len(disk) /\ g.pos = b + 2 /\ IsSize(disk[b + 2])
         /\ sizes[1] + sizes[2] \in Nat
  BY SizesProperties
<1> QED
  BY <1>3, <1>4, <1>5, <1>6

-----------------------------------------------------------------------------
\* What a reader that opens the file, or goes on, finds where it gets to.
-----------------------------------------------------------------------------
\* Where the pieces of a record end, and what they hold.
LEMMA EndProperties ==
    ASSUME NEW r \in Records
    PROVE  /\ EndOf(r, 0) = 0 /\ EndOf(r, 1) = 1 /\ EndOf(r, 2) = 2 /\ EndOf(r, 4) = RecordSize(r)
           /\ EndOf(r, 3) = 2 + PartSizes[r][1]
           /\ \A n \in 0..4 : EndOf(r, n) \in 0..RecordSize(r)
           /\ \A n \in 0..3 : EndOf(r, n) < EndOf(r, n + 1)
           /\ \A n \in 1..3 : EndOf(r, n) \in 1..(RecordSize(r) - 1)
<1> DEFINE x == PartSizes[r][1]
           y == PartSizes[r][2]
<1>1. x \in Nat /\ y \in Nat /\ x > 0 /\ y > 0 /\ RecordSize(r) = 2 + (x + y)
  BY RecordsAssumption DEF RecordSize, PartsSize, HeaderSize
<1>2. EndOf(r, 0) = 0 /\ EndOf(r, 1) = 1 /\ EndOf(r, 2) = 2 /\ EndOf(r, 3) = 2 + x /\ EndOf(r, 4) = 2 + x + y
  BY DEF EndOf, PieceEnds
<1> HIDE DEF x, y
<1>3. \A n \in 0..4 : n = 0 \/ n = 1 \/ n = 2 \/ n = 3 \/ n = 4
  OBVIOUS
<1>4. 2 + x + y = RecordSize(r) /\ RecordSize(r) \in Nat
  BY <1>1
<1>5. ASSUME NEW n \in 0..4 PROVE EndOf(r, n) \in 0..RecordSize(r)
  BY <1>1, <1>2, <1>3
<1>6. ASSUME NEW n \in 0..3 PROVE EndOf(r, n) < EndOf(r, n + 1)
  <2>1. n \in 0..4
    OBVIOUS
  <2>2. 0 + 1 = 1 /\ 1 + 1 = 2 /\ 2 + 1 = 3 /\ 3 + 1 = 4 /\ ~(4 \in 0..3)
    OBVIOUS
  <2>3. EndOf(r, 0) < EndOf(r, 1) /\ EndOf(r, 1) < EndOf(r, 2) /\ EndOf(r, 2) < EndOf(r, 3) /\ EndOf(r, 3) < EndOf(r, 4)
    BY <1>1, <1>2
  <2> QED
    BY <1>3, <2>1, <2>2, <2>3
<1>7. ASSUME NEW n \in 1..3 PROVE EndOf(r, n) \in 1..(RecordSize(r) - 1)
  <2>1. n \in 0..4 /\ ~(0 \in 1..3) /\ ~(4 \in 1..3)
    OBVIOUS
  <2>2. {1, 2, 2 + x} \subseteq 1..(RecordSize(r) - 1)
    BY <1>1
  <2> QED
    BY <1>2, <1>3, <2>1, <2>2
<1> QED
  BY <1>2, <1>4, <1>5, <1>6, <1>7 DEF x

LEMMA BeginsWithSizes ==
    ASSUME NEW r \in Records
    PROVE  /\ \A j \in 1..2 : IsSize(Encoded(r)[j])
           /\ Encoded(r) \in Seq(Cells) /\ Len(Encoded(r)) = RecordSize(r)
           /\ RecordSize(r) \in Nat /\ RecordSize(r) > 2
<1>1. PICK x \in Nat, y \in Nat : x = PartSizes[r][1] /\ y = PartSizes[r][2]
  BY RecordProperties
<1>2. Encoded(r)[1] = [of |-> r, size |-> x] /\ Encoded(r)[2] = [of |-> r, size |-> y]
  BY <1>1, EncodedProperties
<1>3. IsSize([of |-> r, size |-> x]) /\ IsSize([of |-> r, size |-> y])
  BY CellProperties
<1>4. \A j \in 1..2 : j = 1 \/ j = 2
  OBVIOUS
<1>5. \A j \in 1..2 : IsSize(Encoded(r)[j])
  BY <1>2, <1>3, <1>4
<1>6. RecordSize(r) \in Nat /\ RecordSize(r) > 2
  BY RecordProperties
<1>7. Encoded(r) \in Seq(Cells) /\ Len(Encoded(r)) = RecordSize(r)
  BY EncodedProperties
<1> QED
  BY <1>5, <1>6, <1>7

LEMMA RecordPieces ==
    ASSUME NEW r \in Records, NEW n \in 0..3
    PROVE  /\ Piece(r, n) \in Seq(Cells) /\ Len(Piece(r, n)) = EndOf(r, n + 1) - EndOf(r, n)
           /\ Len(Piece(r, n)) \in Nat /\ Len(Piece(r, n)) > 0
           /\ \A i \in 1..Len(Piece(r, n)) : Piece(r, n)[i] = Encoded(r)[EndOf(r, n) + i]
           /\ n <= 1 => Len(Piece(r, n)) = 1 /\ IsSize(Piece(r, n)[1])
<1> DEFINE a == EndOf(r, n)
           b == EndOf(r, n + 1)
           e == Encoded(r)
<1>1. e \in Seq(Cells) /\ Len(e) = RecordSize(r)
  BY EncodedProperties
<1>2. a \in Nat /\ b \in Nat /\ a < b /\ b <= RecordSize(r)
  <2>1. n + 1 \in 0..4 /\ n \in 0..4
    OBVIOUS
  <2> QED
    BY <2>1, EndProperties, RecordProperties
<1>3. Piece(r, n) = SubSeq(e, a + 1, b)
  BY DEF Piece
<1>4. n <= 1 => b - a = 1 /\ a + 1 \in 1..2
  <2>1. n = 0 \/ n = 1 \/ n > 1
    OBVIOUS
  <2>2. CASE n = 0
    BY <2>2, EndProperties
  <2>3. CASE n = 1
    BY <2>3, EndProperties
  <2> QED
    BY <2>1, <2>2, <2>3
<1> HIDE DEF a, b, e
<1>5. /\ SubSeq(e, a + 1, b) \in Seq(Cells) /\ Len(SubSeq(e, a + 1, b)) = b - a
      /\ \A i \in 1..(b - a) : SubSeq(e, a + 1, b)[i] = e[a + i]
  BY <1>1, <1>2, PieceProperties
<1>6. ASSUME n <= 1 PROVE IsSize(Piece(r, n)[1])
  <2>1. 1 \in 1..(b - a) /\ a + 1 \in 1..2
    BY <1>4, <1>6
  <2>2. Piece(r, n)[1] = e[a + 1]
    BY <1>3, <1>5, <2>1
  <2>3. PICK k \in 1..2 : k = a + 1
    BY <2>1
  <2>5. IsSize(e[k])
    BY BeginsWithSizes DEF e
  <2> QED
    BY <2>2, <2>3, <2>5
<1>7. b - a \in Nat /\ b - a > 0
  BY <1>2
<1> QED
  BY <1>3, <1>4, <1>5, <1>6, <1>7 DEF a, b, e

\* What is appended goes to the file's end.
LEMMA AppendedProperties ==
    ASSUME disk \in Seq(Cells), NEW s \in Seq(Cells)
    PROVE  Appended(s) = disk \o s
<1> DEFINE f == AtEnd(Opened(disk), disk)
           l == Len(disk)
<1>1. l \in Nat /\ l \in 0..l
  BY LenProperties
<1>2. GoodFile(Opened(disk), l)
  BY OpenedGood
<1>3. Refreshed(f, "read").cursor = l
  BY <1>1, <1>2, ReadyProperties DEF AtEnd
<1>4. Appended(s) = WrittenContent(f, disk, s)
  BY DEF Appended
<1> HIDE DEF f
<1>5. Appended(s) = Overwritten(disk, l, s)
  BY <1>3, <1>4 DEF WrittenContent
<1> QED
  BY <1>1, <1>5, OverwrittenProperties

-----------------------------------------------------------------------------
LEMMA TypedProperties ==
    ASSUME ProfileTyped
    PROVE  /\ disk \in Seq(Cells) /\ Len(disk) \in Nat /\ whole \in Seq(Records) /\ Len(whole) \in Nat
           /\ \A a \in Appenders : ~Adding(a) => adding[a].done = 0
           /\ \A a \in Appenders : Adding(a) => adding[a].record \in Records /\ adding[a].done \in 1..3
<1>1. /\ disk \in Seq(Cells) /\ whole \in Seq(Records)
      /\ adding \in [Appenders -> {NotAdding} \cup [record : Records, done : 1..3]]
  BY DEF ProfileTyped
<1>2. ASSUME NEW a \in Appenders
      PROVE  /\ ~Adding(a) => adding[a].done = 0
             /\ Adding(a) => adding[a].record \in Records /\ adding[a].done \in 1..3
  BY <1>1 DEF Adding, NotAdding
<1> QED
  BY <1>1, <1>2, LenProperties

LEMMA LaidProperties ==
    ASSUME ProfileTyped, NEW at, Laid(at, disk, whole, Len(whole))
    PROVE  /\ at[1] = 0
           /\ \A i \in 1..(Len(whole) + 1) : at[i] \in 0..Len(disk)
           /\ \A i, j \in 1..(Len(whole) + 1) : i < j => at[i] < at[j]
           /\ at[Len(whole) + 1] \in Nat /\ Len(whole) + 1 \in 1..(Len(whole) + 1)
<1>1. Len(whole) \in Nat /\ Len(disk) \in Nat
  BY TypedProperties
<1>2. Len(whole) + 1 \in 1..(Len(whole) + 1)
  BY <1>1
<1>3. \A i \in 1..(Len(whole) + 1) : at[i] \in 0..Len(disk)
  BY DEF Laid
<1>4. at[Len(whole) + 1] \in 0..Len(disk)
  BY <1>2, <1>3
<1> QED
  BY <1>1, <1>2, <1>3, <1>4 DEF Laid

\* Where there is no whole record any more, none is read, unless the file ends there.
LEMMA TailIsTorn ==
    ASSUME ProfileTyped, NEW b \in Nat, AfterWhole(b), b < Len(disk)
    PROVE  TornAt(b, disk)
<1>1. Len(disk) \in Nat
  BY TypedProperties
<1>2. CASE damaged
  BY <1>2 DEF AfterWhole, DamagedTail, TornAt
<1>3. CASE ~damaged
  <2>1. PICK a \in Appenders : OnlyAdding(a, b)
    BY <1>1, <1>3 DEF AfterWhole
  <2> DEFINE r == adding[a].record
             n == adding[a].done
             k == EndOf(r, n)
  <2>2. r \in Records /\ n \in 1..3
    BY <2>1, TypedProperties DEF OnlyAdding
  <2>3. Len(disk) = b + k /\ \A j \in 1..k : disk[b + j] = Encoded(r)[j]
    BY <2>1 DEF OnlyAdding
  <2> HIDE DEF r, n
  <2>4. k \in 1..(RecordSize(r) - 1) /\ RecordSize(r) \in Nat
    BY <2>2, EndProperties, RecordProperties
  <2>5. k \in Nat /\ k >= 1
    BY <2>4
  <2> HIDE DEF k
  <2>6. /\ b + k <= Len(disk) /\ ~(b + (k + 1) <= Len(disk))
        /\ k = 1 => ~(b + 3 <= Len(disk))
    BY <1>1, <2>3, <2>5
  <2>7. Torn(b, r, k, disk)
    BY <2>3, <2>6 DEF Torn
  <2> QED
    BY <2>2, <2>4, <2>7 DEF TornAt
<1> QED
  BY <1>2, <1>3

\* What an iterator reads where the first n records end, for a loop that saw no fewer.
LEMMA RecordHere ==
    ASSUME ProfileTyped, NEW at, Laid(at, disk, whole, Len(whole)), AfterWhole(at[Len(whole) + 1]),
           OpenedWell(at), NEW n \in 0..reader.opened,
           NEW f, GoodFile(f, Len(disk)), f.pos = at[n + 1], f.size = reader.file.size, NEW p
    PROVE  /\ n < reader.opened =>
                 Has(Iterator(f, p), whole[n + 1]) /\ Iterator(f, p).file.pos = at[n + 2]
           /\ n = reader.opened =>
                 \/ reader.clean /\ f.pos = f.size /\ Iterator(f, p).record = "none"
                 \/ ~reader.clean /\ Iterator(f, p).record \in {"none", "garbled"}
                 \/ ~reader.clean /\ n < Len(whole) /\ Has(Iterator(f, p), whole[n + 1])
<1> DEFINE o == reader.opened
           e == reader.file.size
           w == Len(whole)
<1>1. /\ disk \in Seq(Cells) /\ whole \in Seq(Records) /\ w \in Nat /\ Len(disk) \in Nat
  BY TypedProperties
<1>2. /\ o \in 0..w /\ e \in 0..Len(disk)
      /\ reader.clean => e = at[o + 1]
      /\ ~reader.clean => at[o + 1] < e
      /\ ~reader.clean /\ o < w => e < at[o + 2]
  BY DEF OpenedWell
<1>3. /\ \A i \in 1..(w + 1) : at[i] \in 0..Len(disk)
      /\ \A i, j \in 1..(w + 1) : i < j => at[i] < at[j]
  BY LaidProperties
<1> HIDE DEF o, e, w
<1>4. o \in Nat /\ n \in Nat /\ n <= o /\ o <= w
  BY <1>1, <1>2 DEF o
<1>5. n + 1 \in 1..(w + 1) /\ o + 1 \in 1..(w + 1)
  BY <1>1, <1>4
<1>6. ASSUME n < w, f.pos < f.size
      PROVE  Has(Iterator(f, p), whole[n + 1]) /\ Iterator(f, p).file.pos = at[n + 2]
  <2> DEFINE r == whole[n + 1]
  <2>1. n + 1 \in 1..w /\ n + 2 \in 1..(w + 1) /\ n + 1 + 1 = n + 2
    BY <1>1, <1>4, <1>6
  <2>2. r \in Records
    BY <1>1, <2>1, ElementOfSeq DEF w
  <2>3. /\ at[n + 2] = at[n + 1] + RecordSize(r)
        /\ \A j \in 1..RecordSize(r) : disk[at[n + 1] + j] = Encoded(r)[j]
    <3>1. /\ at[n + 1 + 1] = at[n + 1] + RecordSize(whole[n + 1])
          /\ \A j \in 1..RecordSize(whole[n + 1]) : disk[at[n + 1] + j] = Encoded(whole[n + 1])[j]
      BY <2>1 DEF Laid, w
    <3> QED
      BY <2>1, <3>1
  <2>4. at[n + 2] \in 0..Len(disk)
    BY <1>3, <2>1
  <2> HIDE DEF r
  <2>5. f.pos + RecordSize(r) <= Len(disk) /\ f.pos + RecordSize(r) = at[n + 2]
    BY <1>1, <2>3, <2>4
  <2>6. \A j \in 1..RecordSize(r) : disk[f.pos + j] = Encoded(r)[j]
    BY <2>3
  <2>7. Has(Iterator(f, p), r) /\ Iterator(f, p).file.pos = f.pos + RecordSize(r)
    BY <1>1, <1>6, <2>2, <2>5, <2>6, IteratorAtRecord
  <2> QED
    BY <2>5, <2>7 DEF r
<1>7. ASSUME n < o
      PROVE  n < w /\ f.pos < f.size
  <2>1. at[n + 1] < at[o + 1] /\ at[n + 1] \in 0..Len(disk) /\ at[o + 1] \in 0..Len(disk)
    BY <1>3, <1>4, <1>5, <1>7
  <2>2. at[o + 1] <= e
    BY <1>1, <1>2, <2>1
  <2> QED
    BY <1>1, <1>2, <1>4, <1>7, <2>1, <2>2 DEF e
<1>8. ASSUME n = o, reader.clean
      PROVE  f.pos = f.size /\ Iterator(f, p).record = "none"
  <2>1. f.pos = f.size
    BY <1>2, <1>8 DEF e
  <2>5. f.size \in Nat
    BY DEF GoodFile
  <2>2. f.pos >= f.size
    BY <2>1, <2>5
  <2>3. EncSizes(f) = ZeroSizes
    BY <2>2 DEF EncSizes
  <2>4. Iterator(f, p).record = RecordAt(AfterSizes(f), ZeroSizes)
    BY <1>1, <2>3, IteratorProperties
  <2> QED
    BY <2>1, <2>4 DEF RecordAt
<1>9. ASSUME n = o, ~reader.clean, n = w
      PROVE  Iterator(f, p).record \in {"none", "garbled"}
  <2>1. at[w + 1] \in Nat /\ at[w + 1] < Len(disk)
    BY <1>1, <1>2, <1>3, <1>5, <1>9
  <2>2. AfterWhole(at[w + 1])
    BY DEF w
  <2>3. TornAt(at[w + 1], disk)
    BY <2>1, <2>2, TailIsTorn
  <2>4. TornAt(f.pos, disk)
    BY <1>9, <2>3
  <2> QED
    BY <1>1, <2>4, IteratorAtTear
<1>10. ASSUME n = o, ~reader.clean, n # w
       PROVE  n < w /\ Has(Iterator(f, p), whole[n + 1])
  <2>1. n < w /\ f.pos < f.size
    BY <1>1, <1>2, <1>4, <1>10 DEF e
  <2> QED
    BY <1>6, <2>1
<1> QED
  BY <1>6, <1>7, <1>8, <1>9, <1>10 DEF o, w

-----------------------------------------------------------------------------
LEMMA InitProfileInv == ProfileInit => ProfileInv
<1> SUFFICES ASSUME ProfileInit PROVE ProfileInv
  OBVIOUS
<1>1. /\ disk = <<>> /\ whole = <<>> /\ damaged = FALSE /\ reader = NoReader
      /\ adding = [a \in Appenders |-> NotAdding]
  BY DEF ProfileInit
<1>2. ProfileTyped /\ Len(disk) = 0 /\ Len(whole) = 0
  BY <1>1, EmptySeq DEF ProfileTyped
<1> DEFINE at == [i \in 1..(Len(whole) + 1) |-> 0]
<1>3. Laid(at, disk, whole, Len(whole)) /\ at[Len(whole) + 1] = 0
  BY <1>1, <1>2 DEF Laid
<1>4. AfterWhole(0)
  BY <1>1, <1>2 DEF AfterWhole, Idle, Adding
<1>5. ReaderPlace(at)
  BY <1>1 DEF ReaderPlace
<1> HIDE DEF at
<1> QED
  BY <1>2, <1>3, <1>4, <1>5 DEF ProfileInv

\* A step of a reader moves nothing else.
LEMMA ReaderStep ==
    ASSUME ProfileTyped, UNCHANGED <<disk, adding, whole, damaged>>,
           NEW at, Laid(at, disk, whole, Len(whole)), AfterWhole(at[Len(whole) + 1]), ReaderPlace(at)'
    PROVE  ProfileInv'
<1>1. PICK b : b = at[Len(whole) + 1]
  OBVIOUS
<1>2. AfterWhole(b)'
  BY <1>1 DEF AfterWhole, DamagedTail, SizesComeFirst, OnlyAdding, Idle, Adding
<1>3. Laid(at, disk', whole', Len(whole')) /\ b = at[Len(whole') + 1]
  BY <1>1
<1>4. ProfileTyped'
  BY DEF ProfileTyped
<1> QED
  BY <1>2, <1>3, <1>4 DEF ProfileInv

\* When a loop opens the file, it ends where its whole records end, or further.
LEMMA FileEnds ==
    ASSUME ProfileTyped, NEW b \in Nat, AfterWhole(b)
    PROVE  IF ~damaged /\ Idle THEN Len(disk) = b ELSE b < Len(disk)
<1>1. Len(disk) \in Nat
  BY TypedProperties
<1>2. CASE damaged
  <2>1. PICK r \in Records : \E k \in 1..(RecordSize(r) - 1) : b + k <= Len(disk)
    BY <1>2 DEF AfterWhole, DamagedTail, Torn
  <2>2. PICK k \in 1..(RecordSize(r) - 1) : b + k <= Len(disk)
    BY <2>1
  <2>3. k \in Nat /\ k >= 1
    BY RecordProperties
  <2> QED
    BY <1>1, <1>2, <2>2, <2>3
<1>3. CASE ~damaged /\ Idle
  BY <1>3 DEF AfterWhole, OnlyAdding, Idle
<1>4. CASE ~damaged /\ ~Idle
  <2>1. PICK a \in Appenders : OnlyAdding(a, b)
    BY <1>4 DEF AfterWhole
  <2> DEFINE r == adding[a].record
             n == adding[a].done
             k == EndOf(r, n)
  <2>2. r \in Records /\ n \in 1..3
    BY <2>1, TypedProperties DEF OnlyAdding
  <2>3. Len(disk) = b + k
    BY <2>1 DEF OnlyAdding
  <2> HIDE DEF r, n
  <2>4. k \in 1..(RecordSize(r) - 1) /\ RecordSize(r) \in Nat
    BY <2>2, EndProperties, RecordProperties
  <2> HIDE DEF k
  <2>5. k \in Nat /\ k >= 1
    BY <2>4
  <2> QED
    BY <1>4, <2>3, <2>5
<1> QED
  BY <1>2, <1>3, <1>4

LEMMA OpenToIterateInv == ProfileInv /\ OpenToIterate => ProfileInv'
<1> SUFFICES ASSUME ProfileInv, OpenToIterate PROVE ProfileInv'
  OBVIOUS
<1>1. PICK at : Laid(at, disk, whole, Len(whole)) /\ AfterWhole(at[Len(whole) + 1])
  BY DEF ProfileInv
<1>2. ProfileTyped
  BY DEF ProfileInv
<1>3. /\ UNCHANGED <<disk, adding, whole, damaged>>
      /\ reader' = [mode |-> "iterate", wanted |-> "none", toMake |-> <<"begin", "end">>,
                    file |-> Opened(disk), it |-> NoReader, met |-> <<>>, result |-> "reading",
                    opened |-> Len(whole), clean |-> ~damaged /\ Idle]
  BY DEF OpenToIterate, Opening
<1>4. /\ disk \in Seq(Cells) /\ Len(disk) \in Nat /\ Len(whole) \in Nat
      /\ at[Len(whole) + 1] \in Nat
  BY <1>1, <1>2, TypedProperties, LaidProperties
<1>5. GoodFile(Opened(disk), Len(disk)) /\ Opened(disk).pos = 0 /\ Opened(disk).size = Len(disk)
  BY <1>4, OpenedGood DEF Opened
<1>6. IF ~damaged /\ Idle THEN Len(disk) = at[Len(whole) + 1] ELSE at[Len(whole) + 1] < Len(disk)
  BY <1>1, <1>2, <1>4, FileEnds
<1> DEFINE f == Opened(disk)
<1> HIDE DEF f
<1>7. /\ reader'.mode = "iterate" /\ reader'.toMake = <<"begin", "end">> /\ reader'.file = f
      /\ reader'.met = <<>> /\ reader'.result = "reading" /\ reader'.opened = Len(whole)
      /\ reader'.clean = (~damaged /\ Idle)
  BY <1>3 DEF f
<1>8. IsReader'
  BY <1>3 DEF IsReader
<1>9. OpenedWell(at)'
  <2>1. disk' = disk /\ whole' = whole
    BY <1>3
  <2>2. GoodFile(f, Len(disk)) /\ f.size = Len(disk)
    BY <1>5 DEF f
  <2>3. /\ reader'.clean => Len(disk) = at[Len(whole) + 1]
        /\ ~reader'.clean => at[Len(whole) + 1] < Len(disk)
    BY <1>6, <1>7
  <2>4. reader'.opened = Len(whole) /\ reader'.file = f
    BY <1>7
  <2>5. Len(whole) \in 0..Len(whole) /\ Len(disk) \in 0..Len(disk) /\ ~(Len(whole) < Len(whole))
    BY <1>4
  <2> QED
    BY <2>1, <2>2, <2>3, <2>4, <2>5 DEF OpenedWell
<1>10. MetWell' /\ Phase(at)'
  <2>1. reader'.met \in Seq(Records) /\ Len(reader'.met) = 0
    BY <1>7, EmptySeq
  <2>2. MetWell'
    BY <1>3, <1>4, <2>1 DEF MetWell
  <2>3. Phase(at)'
    BY <1>5, <1>7, <2>1 DEF Phase, f
  <2> QED
    BY <2>2, <2>3
<1>11. ReaderPlace(at)'
  BY <1>7, <1>8, <1>9, <1>10 DEF ReaderPlace
<1> QED
  BY <1>1, <1>2, <1>3, <1>11, ReaderStep

\* A search's reader, or none, says nothing.
LEMMA OpenToFindInv ==
    ASSUME NEW r PROVE ProfileInv /\ OpenToFind(r) => ProfileInv'
<1> SUFFICES ASSUME ProfileInv, OpenToFind(r) PROVE ProfileInv'
  OBVIOUS
<1>1. PICK at : Laid(at, disk, whole, Len(whole)) /\ AfterWhole(at[Len(whole) + 1])
  BY DEF ProfileInv
<1>2. UNCHANGED <<disk, adding, whole, damaged>> /\ \E order : reader' = Opening("find", r, order)
  BY DEF OpenToFind
<1>3. IsReader' /\ reader'.mode = "find"
  BY <1>2 DEF IsReader, Opening
<1>4. ReaderPlace(at)'
  BY <1>3 DEF ReaderPlace
<1> QED
  BY <1>1, <1>2, <1>4, ReaderStep DEF ProfileInv

LEMMA StopReadingInv == ProfileInv /\ StopReading => ProfileInv'
<1> SUFFICES ASSUME ProfileInv, StopReading PROVE ProfileInv'
  OBVIOUS
<1>1. PICK at : Laid(at, disk, whole, Len(whole)) /\ AfterWhole(at[Len(whole) + 1])
  BY DEF ProfileInv
<1>2. UNCHANGED <<disk, adding, whole, damaged>> /\ reader' = NoReader
  BY DEF StopReading
<1>3. ReaderPlace(at)'
  BY <1>2 DEF ReaderPlace
<1> QED
  BY <1>1, <1>2, <1>3, ReaderStep DEF ProfileInv

-----------------------------------------------------------------------------
\* What each step of a loop makes of the reader.
LEMMA MakeIteratorFields ==
    ASSUME IsReader, MakeIterator
    PROVE  LET made == Head(reader.toMake)
               it == Iterator(reader.file, IF made = "begin" THEN 0 ELSE reader.file.size)
           IN  /\ UNCHANGED <<disk, adding, whole, damaged>> /\ reader.result = "reading" /\ reader.toMake # <<>>
               /\ IsReader' /\ reader'.mode = reader.mode /\ reader'.met = reader.met
               /\ reader'.opened = reader.opened /\ reader'.clean = reader.clean
               /\ reader'.toMake = Tail(reader.toMake) /\ reader'.file = it.file
               /\ reader'.it = IF made = "begin" THEN it ELSE reader.it
               /\ reader'.result = IF it.record = "garbled" THEN "threw" ELSE "reading"
<1> DEFINE made == Head(reader.toMake)
           it == Iterator(reader.file, IF made = "begin" THEN 0 ELSE reader.file.size)
<1>1. /\ UNCHANGED <<disk, adding, whole, damaged>> /\ reader.result = "reading" /\ reader.toMake # <<>>
      /\ reader' = [reader EXCEPT !.toMake = Tail(@), !.file = it.file,
                       !.it = IF made = "begin" THEN it ELSE @, !.result = ResultOf(it, @)]
  BY DEF MakeIterator, Looping, Reads
<1> HIDE DEF made, it
<1>2. reader' = [mode |-> reader.mode, wanted |-> reader.wanted, toMake |-> Tail(reader.toMake),
                 file |-> it.file, it |-> IF made = "begin" THEN it ELSE reader.it, met |-> reader.met,
                 result |-> IF it.record = "garbled" THEN "threw" ELSE "reading",
                 opened |-> reader.opened, clean |-> reader.clean]
  BY <1>1 DEF IsReader, ResultOf
<1>3. IsReader'
  BY <1>2 DEF IsReader
<1>4. /\ reader'.mode = reader.mode /\ reader'.met = reader.met
      /\ reader'.opened = reader.opened /\ reader'.clean = reader.clean
      /\ reader'.toMake = Tail(reader.toMake) /\ reader'.file = it.file
      /\ reader'.it = IF made = "begin" THEN it ELSE reader.it
      /\ reader'.result = IF it.record = "garbled" THEN "threw" ELSE "reading"
  BY <1>2
<1> QED
  BY <1>1, <1>3, <1>4 DEF made, it

LEMMA ReadOnFields ==
    ASSUME IsReader, ReadOn
    PROVE  LET it == Advanced([reader.it EXCEPT !.file = reader.file])
           IN  /\ UNCHANGED <<disk, adding, whole, damaged>>
               /\ reader.result = "reading" /\ reader.toMake = <<>>
               /\ reader.it.pos # reader.file.size /\ reader.it.record # "none"
               /\ IsReader' /\ reader'.mode = reader.mode
               /\ reader'.met = Append(reader.met, reader.it.record)
               /\ reader'.opened = reader.opened /\ reader'.clean = reader.clean
               /\ reader'.toMake = <<>> /\ reader'.file = it.file /\ reader'.it = it
               /\ reader'.result = IF it.record = "garbled" THEN "threw" ELSE "reading"
<1> DEFINE it == Advanced([reader.it EXCEPT !.file = reader.file])
<1>1. /\ UNCHANGED <<disk, adding, whole, damaged>> /\ reader.result = "reading" /\ reader.toMake = <<>>
      /\ reader.it.pos # reader.file.size /\ reader.it.record # "none"
      /\ reader' = [reader EXCEPT !.met = Append(@, reader.it.record), !.it = it,
                       !.file = it.file, !.result = ResultOf(it, @)]
  BY DEF ReadOn, Looping, Reads, AtTheEnd
<1> HIDE DEF it
<1>2. reader' = [mode |-> reader.mode, wanted |-> reader.wanted, toMake |-> <<>>,
                 file |-> it.file, it |-> it, met |-> Append(reader.met, reader.it.record),
                 result |-> IF it.record = "garbled" THEN "threw" ELSE "reading",
                 opened |-> reader.opened, clean |-> reader.clean]
  BY <1>1 DEF IsReader, ResultOf
<1>3. IsReader'
  BY <1>2 DEF IsReader
<1>4. /\ reader'.mode = reader.mode /\ reader'.met = Append(reader.met, reader.it.record)
      /\ reader'.opened = reader.opened /\ reader'.clean = reader.clean
      /\ reader'.toMake = <<>> /\ reader'.file = it.file /\ reader'.it = it
      /\ reader'.result = IF it.record = "garbled" THEN "threw" ELSE "reading"
  BY <1>2
<1> QED
  BY <1>1, <1>3, <1>4 DEF it

LEMMA LoopEndsFields ==
    ASSUME IsReader, LoopEnds
    PROVE  /\ UNCHANGED <<disk, adding, whole, damaged>>
           /\ reader.result = "reading" /\ reader.toMake = <<>>
           /\ IsReader' /\ reader'.mode = reader.mode /\ reader'.met = reader.met
           /\ reader'.opened = reader.opened /\ reader'.clean = reader.clean /\ reader'.file = reader.file
           /\ reader.mode = "iterate" =>
                 /\ reader.it.pos = reader.file.size \/ reader.it.record = "none"
                 /\ reader'.result # "reading"
<1>1. /\ UNCHANGED <<disk, adding, whole, damaged>> /\ reader.result = "reading" /\ reader.toMake = <<>>
  BY DEF LoopEnds, Looping, Reads
<1>2. PICK result : /\ reader' = [reader EXCEPT !.result = result]
                    /\ reader.mode = "iterate" =>
                          /\ reader.it.pos = reader.file.size \/ reader.it.record = "none"
                          /\ result # "reading"
  <2> DEFINE end == Iterator(reader.file, reader.file.size)
  <2>1. \/ AtTheEnd /\ reader' = [reader EXCEPT !.result = IF reader.mode = "iterate" THEN "ended"
                                                            ELSE ResultOf(end, "not found")]
        \/ Found /\ reader' = [reader EXCEPT !.result = ResultOf(end, "found")]
        \/ reader.it.record = "none" /\ reader' = [reader EXCEPT !.result = "undefined"]
    BY DEF LoopEnds
  <2> HIDE DEF end
  <2>2. CASE AtTheEnd /\ reader' = [reader EXCEPT !.result = IF reader.mode = "iterate" THEN "ended"
                                                             ELSE ResultOf(end, "not found")]
    <3>1. PICK result : /\ result = IF reader.mode = "iterate" THEN "ended" ELSE ResultOf(end, "not found")
                        /\ reader' = [reader EXCEPT !.result = result]
      BY <2>2
    <3>2. reader.mode = "iterate" => result # "reading"
      BY <3>1
    <3> QED
      BY <2>2, <3>1, <3>2 DEF AtTheEnd
  <2>3. CASE Found /\ reader' = [reader EXCEPT !.result = ResultOf(end, "found")]
    BY <2>3 DEF Found
  <2>4. CASE reader.it.record = "none" /\ reader' = [reader EXCEPT !.result = "undefined"]
    BY <2>4
  <2> QED
    BY <2>1, <2>2, <2>3, <2>4
<1>3. reader' = [mode |-> reader.mode, wanted |-> reader.wanted, toMake |-> reader.toMake,
                 file |-> reader.file, it |-> reader.it, met |-> reader.met,
                 result |-> result, opened |-> reader.opened, clean |-> reader.clean]
  BY <1>2 DEF IsReader
<1>4. IsReader'
  BY <1>3 DEF IsReader
<1> QED
  BY <1>1, <1>2, <1>3, <1>4

LEMMA OpenedWellStays ==
    ASSUME NEW at, OpenedWell(at), UNCHANGED <<disk, whole>>, reader'.opened = reader.opened,
           reader'.clean = reader.clean, reader'.file.size = reader.file.size, GoodFile(reader'.file, Len(disk))
    PROVE  OpenedWell(at)'
BY DEF OpenedWell

\* The iterator is where it was, for a reader that is.
LEMMA ItAtStays ==
    ASSUME NEW at, NEW it, NEW n, ItAt(at, it, n), UNCHANGED whole, reader'.opened = reader.opened,
           reader'.file.size = reader.file.size, reader'.it = it, Len(reader'.met) = n
    PROVE  ItAt(at, reader.it, Len(reader.met))'
BY DEF ItAt

\* The iterator made where the first n records end is at the next, if it could be made.
LEMMA NewItAt ==
    ASSUME ProfileTyped, NEW at, Laid(at, disk, whole, Len(whole)), AfterWhole(at[Len(whole) + 1]),
           OpenedWell(at), NEW n \in 0..reader.opened,
           NEW f, GoodFile(f, Len(disk)), f.pos = at[n + 1], f.size = reader.file.size
    PROVE  /\ Iterator(f, f.pos).record = "garbled" => n = reader.opened
           /\ Iterator(f, f.pos).record # "garbled" => ItAt(at, Iterator(f, f.pos), n)
<1> DEFINE it == Iterator(f, f.pos)
<1>1. /\ n < reader.opened => Has(it, whole[n + 1])
      /\ n = reader.opened =>
            \/ reader.clean /\ f.pos = f.size /\ it.record = "none"
            \/ ~reader.clean /\ it.record \in {"none", "garbled"}
            \/ ~reader.clean /\ n < Len(whole) /\ Has(it, whole[n + 1])
  BY RecordHere
<1>2. it = [pos |-> it.pos, sizes |-> it.sizes, record |-> it.record, file |-> it.file] /\ it.pos = f.pos
  BY DEF Iterator
<1>3. /\ n \in Nat /\ reader.opened \in Nat /\ Len(whole) \in Nat /\ n <= reader.opened
      /\ reader.opened <= Len(whole)
  BY TypedProperties DEF OpenedWell
<1>4. n < reader.opened => whole[n + 1] \in Records
  <2> SUFFICES ASSUME n < reader.opened PROVE whole[n + 1] \in Records
    OBVIOUS
  <2>1. n + 1 \in 1..Len(whole)
    BY <1>3
  <2> QED
    BY <2>1, TypedProperties, ElementOfSeq
<1> HIDE DEF it
<1>5. n < reader.opened => it.record # "garbled"
  BY <1>1, <1>4, RecordProperties DEF Has
<1>6. ASSUME it.record # "garbled" PROVE ItAt(at, it, n)
  <2>1. it.pos = at[n + 1]
    BY <1>2
  <2>2. n = reader.opened => \/ it.pos = reader.file.size \/ it.record = "none"
                             \/ n < Len(whole) /\ Has(it, whole[n + 1])
    BY <1>1, <1>2, <1>6
  <2>3. ~(n > reader.opened)
    BY <1>3
  <2> QED
    BY <1>1, <1>2, <2>1, <2>2, <2>3 DEF ItAt
<1> QED
  BY <1>3, <1>5, <1>6 DEF it

LEMMA MakeIteratorInv == ProfileInv /\ MakeIterator => ProfileInv'
<1> SUFFICES ASSUME ProfileInv, MakeIterator PROVE ProfileInv'
  OBVIOUS
<1>1. PICK at : Laid(at, disk, whole, Len(whole)) /\ AfterWhole(at[Len(whole) + 1]) /\ ReaderPlace(at)
  BY DEF ProfileInv
<1>2. ProfileTyped /\ reader.mode # "none"
  BY DEF ProfileInv, MakeIterator, Reads
<1>3. IsReader
  BY <1>1, <1>2 DEF ReaderPlace, NoReader
<1> DEFINE made == Head(reader.toMake)
           it == Iterator(reader.file, IF made = "begin" THEN 0 ELSE reader.file.size)
<1>4. /\ UNCHANGED <<disk, adding, whole, damaged>> /\ reader.result = "reading" /\ reader.toMake # <<>>
      /\ IsReader' /\ reader'.mode = reader.mode /\ reader'.met = reader.met
      /\ reader'.opened = reader.opened /\ reader'.clean = reader.clean
      /\ reader'.toMake = Tail(reader.toMake) /\ reader'.file = it.file
      /\ reader'.it = IF made = "begin" THEN it ELSE reader.it
      /\ reader'.result = IF it.record = "garbled" THEN "threw" ELSE "reading"
  BY <1>3, MakeIteratorFields
<1>5. CASE reader.mode = "find"
  BY <1>1, <1>2, <1>4, <1>5, ReaderStep DEF ReaderPlace
<1>6. CASE reader.mode # "find"
  <2>1. OpenedWell(at) /\ MetWell /\ Phase(at) /\ reader.mode = "iterate"
    BY <1>1, <1>2, <1>6 DEF ReaderPlace, NoReader
  <2>2. /\ disk \in Seq(Cells) /\ Len(disk) \in Nat /\ Len(whole) \in Nat
        /\ GoodFile(reader.file, Len(disk)) /\ reader.opened \in Nat
    BY <1>2, <2>1, TypedProperties DEF OpenedWell
  <2>3. GoodFile(it.file, Len(disk)) /\ it.file.size = reader.file.size
    BY <2>2, IteratorProperties
  <2>4. OpenedWell(at)'
    BY <1>4, <2>1, <2>3, OpenedWellStays
  <2>5. MetWell'
    BY <1>4, <2>1 DEF MetWell
  <2>6. Phase(at)'
    <3>1. CASE /\ reader.toMake = <<"begin", "end">> /\ Len(reader.met) = 0 /\ reader.file.pos = 0
      <4>1. made = "begin" /\ Tail(reader.toMake) = <<"end">>
        BY <3>1
      <4> DEFINE f == reader.file
      <4>2. it = Iterator(f, f.pos)
        BY <3>1, <4>1
      <4>3. 0 \in 0..reader.opened /\ f.pos = at[0 + 1] /\ at[1] = 0
        BY <1>1, <1>2, <2>2, <3>1, LaidProperties
      <4> HIDE DEF f, it, made
      <4>4. /\ Iterator(f, f.pos).record = "garbled" => 0 = reader.opened
            /\ Iterator(f, f.pos).record # "garbled" => ItAt(at, Iterator(f, f.pos), 0)
        BY <1>1, <1>2, <2>1, <2>2, <4>3, NewItAt DEF f
      <4>5. reader.opened > 0 => it.file.pos = at[2]
        <5>1. 0 < reader.opened => Iterator(f, f.pos).file.pos = at[0 + 2]
          BY <1>1, <1>2, <2>1, <2>2, <4>3, RecordHere DEF f
        <5> QED
          BY <4>2, <5>1
      <4>6. CASE it.record = "garbled"
        BY <1>4, <2>2, <3>1, <4>2, <4>4, <4>6 DEF Phase
      <4>7. CASE it.record # "garbled"
        <5>1. ItAt(at, it, 0)
          BY <4>2, <4>4, <4>7
        <5>2. reader'.it = it /\ reader'.file.size = reader.file.size
          BY <1>4, <2>3, <4>1
        <5>3. ItAt(at, reader.it, Len(reader.met))'
          BY <1>4, <3>1, <5>1, <5>2, ItAtStays
        <5>4. reader'.result = "reading" /\ reader'.toMake = <<"end">> /\ Len(reader'.met) = 0
          BY <1>4, <3>1, <4>1, <4>7
        <5>5. reader'.opened > 0 => reader'.file.pos = at[2]
          BY <1>4, <4>5
        <5> QED
          BY <5>3, <5>4, <5>5 DEF Phase
      <4> QED
        BY <4>6, <4>7
    <3>2. CASE /\ reader.toMake = <<"end">> /\ Len(reader.met) = 0
               /\ ItAt(at, reader.it, Len(reader.met))
               /\ reader.opened > 0 => reader.file.pos = at[2]
      <4>1. made = "end" /\ Tail(reader.toMake) = <<>>
        BY <3>2
      <4> DEFINE f == reader.file
      <4>2. it = Iterator(f, f.size)
        BY <4>1
      <4>3. ItAt(at, reader.it, Len(reader.met))'
        <5>1. reader'.it = reader.it /\ reader'.file.size = reader.file.size
          BY <1>4, <2>3, <4>1
        <5>2. PICK i, n : i = reader.it /\ n = Len(reader.met)
          OBVIOUS
        <5>3. ItAt(at, i, n) /\ reader'.it = i /\ Len(reader'.met) = n
          BY <1>4, <3>2, <5>1, <5>2
        <5> QED
          BY <1>4, <5>1, <5>3, ItAtStays
      <4>4. ASSUME it.record = "garbled", reader.opened # 0
            PROVE  reader.opened = 1 /\ ~reader.clean
        <5> HIDE DEF it, made
        <5>1. 1 \in 0..reader.opened /\ f.pos = at[1 + 1] /\ 1 + 1 \in 1..(Len(whole) + 1) /\ 1 + 1 = 2
          BY <2>1, <2>2, <3>2, <4>4 DEF OpenedWell, f
        <5> HIDE DEF f
        <5>2. /\ 1 < reader.opened => Has(Iterator(f, f.size), whole[1 + 1])
              /\ 1 = reader.opened =>
                   \/ reader.clean /\ f.pos = f.size /\ Iterator(f, f.size).record = "none"
                   \/ ~reader.clean /\ Iterator(f, f.size).record \in {"none", "garbled"}
                   \/ ~reader.clean /\ 1 < Len(whole) /\ Has(Iterator(f, f.size), whole[1 + 1])
          BY <1>1, <1>2, <2>1, <2>2, <5>1, RecordHere DEF f
        <5>3. 1 < reader.opened => whole[2] \in Records
          <6> SUFFICES ASSUME 1 < reader.opened PROVE whole[2] \in Records
            OBVIOUS
          <6>1. 2 \in 1..Len(whole)
            BY <2>1, <2>2 DEF OpenedWell
          <6> QED
            BY <1>2, <6>1, TypedProperties, ElementOfSeq
        <5>4. 1 < reader.opened \/ 1 = reader.opened
          BY <2>2, <4>4
        <5>5. Iterator(f, f.size).record = "garbled"
          BY <4>2, <4>4
        <5>6. ~(1 < reader.opened)
          BY <5>1, <5>2, <5>3, <5>5, RecordProperties DEF Has
        <5>7. 1 = reader.opened => ~reader.clean
          BY <5>2, <5>5
        <5> QED
          BY <5>4, <5>6, <5>7
      <4> HIDE DEF f, it, made
      <4>5. CASE it.record = "garbled"
        <5>1. reader'.result = "threw" /\ Len(reader'.met) = 0
          BY <1>4, <3>2, <4>5
        <5>2. CASE reader.opened = 0
          <6>1. Len(reader'.met) >= reader'.opened
            BY <1>4, <5>1, <5>2
          <6> QED
            BY <5>1, <6>1 DEF Phase
        <5>3. CASE reader.opened # 0
          <6>1. reader.opened = 1 /\ ~reader.clean
            BY <4>4, <4>5, <5>3
          <6>2. reader'.opened = 1 /\ ~reader'.clean
            BY <1>4, <6>1
          <6> QED
            BY <5>1, <6>2 DEF Phase
        <5> QED
          BY <5>2, <5>3
      <4>6. CASE it.record # "garbled"
        <5>1. reader'.result = "reading" /\ reader'.toMake = <<>>
          BY <1>4, <4>1, <4>6
        <5> QED
          BY <4>3, <5>1 DEF Phase
      <4> QED
        BY <4>5, <4>6
    <3> QED
      BY <1>4, <2>1, <3>1, <3>2 DEF Phase
  <2> QED
    BY <1>1, <1>2, <1>4, <2>1, <2>4, <2>5, <2>6, ReaderStep DEF ReaderPlace
<1> QED
  BY <1>5, <1>6

\* Going on: the file is moved to the next record before it is read, wherever another
\* iterator has left it.
LEMMA ReadOnInv == ProfileInv /\ ReadOn => ProfileInv'
<1> SUFFICES ASSUME ProfileInv, ReadOn PROVE ProfileInv'
  OBVIOUS
<1>1. PICK at : Laid(at, disk, whole, Len(whole)) /\ AfterWhole(at[Len(whole) + 1]) /\ ReaderPlace(at)
  BY DEF ProfileInv
<1>2. ProfileTyped /\ reader.mode # "none"
  BY DEF ProfileInv, ReadOn, Looping, Reads
<1>3. IsReader
  BY <1>1, <1>2 DEF ReaderPlace, NoReader
<1> DEFINE it1 == Advanced([reader.it EXCEPT !.file = reader.file])
<1>4. /\ UNCHANGED <<disk, adding, whole, damaged>>
      /\ reader.result = "reading" /\ reader.toMake = <<>>
      /\ reader.it.pos # reader.file.size /\ reader.it.record # "none"
      /\ IsReader' /\ reader'.mode = reader.mode
      /\ reader'.met = Append(reader.met, reader.it.record)
      /\ reader'.opened = reader.opened /\ reader'.clean = reader.clean
      /\ reader'.toMake = <<>> /\ reader'.file = it1.file /\ reader'.it = it1
      /\ reader'.result = IF it1.record = "garbled" THEN "threw" ELSE "reading"
  BY <1>3, ReadOnFields
<1>5. CASE reader.mode = "find"
  BY <1>1, <1>2, <1>4, <1>5, ReaderStep DEF ReaderPlace
<1>6. CASE reader.mode # "find"
  <2> DEFINE n == Len(reader.met)
             o == reader.opened
             e == reader.file.size
             w == Len(whole)
             it == reader.it
             r == whole[n + 1]
             p == at[n + 2]
             f == SetPos(reader.file, p)
  <2>1. OpenedWell(at) /\ MetWell /\ reader.mode = "iterate" /\ ItAt(at, it, n)
    BY <1>1, <1>2, <1>4, <1>6 DEF ReaderPlace, NoReader, Phase
  <2>2. /\ disk \in Seq(Cells) /\ Len(disk) \in Nat /\ w \in Nat /\ whole \in Seq(Records)
        /\ GoodFile(reader.file, Len(disk)) /\ o \in 0..w /\ o \in Nat /\ n \in Nat /\ e \in Nat
        /\ reader.met \in Seq(Records) /\ n <= w /\ \A i \in 1..n : reader.met[i] = whole[i]
    BY <1>2, <2>1, TypedProperties, LenProperties DEF OpenedWell, MetWell
  <2>3. /\ \A i \in 1..(w + 1) : at[i] \in 0..Len(disk)
        /\ \A i, j \in 1..(w + 1) : i < j => at[i] < at[j]
    BY <1>1, <1>2, LaidProperties
  <2>4. n <= o /\ n < w /\ Has(it, r)
    <3>1. /\ n < o => Has(it, r)
          /\ n = o => n < w /\ Has(it, r)
          /\ ~(n > o)
      BY <1>4, <2>1 DEF ItAt
    <3> HIDE DEF n, o, w, it, r
    <3> QED
      BY <2>2, <3>1
  <2>5. it.pos = at[n + 1] /\ it = [pos |-> it.pos, sizes |-> it.sizes, record |-> it.record, file |-> it.file]
    BY <2>1 DEF ItAt
  <2>6. r \in Records
    <3>1. n + 1 \in 1..w
      BY <2>2, <2>4
    <3> QED
      BY <2>2, <3>1, ElementOfSeq
  <2>7. p = at[n + 1] + RecordSize(r) /\ p \in 0..Len(disk) /\ n + 2 \in 1..(w + 1) /\ at[n + 1] \in Nat
    <3>1. n + 1 \in 1..w /\ n + 2 \in 1..(w + 1) /\ n + 1 + 1 = n + 2 /\ n + 1 \in 1..(w + 1)
      BY <2>2, <2>4
    <3>2. at[n + 1 + 1] = at[n + 1] + RecordSize(whole[n + 1])
      BY <1>1, <3>1 DEF Laid
    <3> QED
      BY <2>2, <2>3, <3>1, <3>2
  <2>8. it1 = Iterator(f, p)
    <3> DEFINE it2 == [it EXCEPT !.file = reader.file]
    <3>1. it2.pos = at[n + 1] /\ it2.sizes = PartSizes[r] /\ it2.file = reader.file
      BY <2>4, <2>5 DEF Has
    <3>2. /\ PartSizes[r][1] \in Nat /\ PartSizes[r][2] \in Nat /\ HeaderSize = 2
          /\ RecordSize(r) = 2 + (PartSizes[r][1] + PartSizes[r][2])
      BY <2>6, RecordProperties DEF RecordSize, PartsSize, HeaderSize
    <3> HIDE DEF r, p, n, it, it2
    <3>3. NextPos(it2) = at[n + 1] + 2 + PartSizes[r][1] + PartSizes[r][2]
      BY <3>1, <3>2 DEF NextPos
    <3>4. NextPos(it2) = p
      BY <2>7, <3>2, <3>3
    <3> QED
      BY <3>1, <3>4 DEF Advanced, it2, it
  <2>9. GoodFile(f, Len(disk)) /\ f.size = e /\ f.pos = p
    <3> HIDE DEF p
    <3>1. GoodFile(reader.file, Len(disk)) /\ Len(disk) \in Nat /\ p \in 0..Len(disk)
      BY <2>2, <2>7
    <3> DEFINE g == SetPos(reader.file, p)
    <3>2. GoodFile(g, Len(disk)) /\ g.size = reader.file.size /\ g.pos = p
      BY <3>1, SeekGood
    <3> QED
      BY <3>2
  <2>10. GoodFile(it1.file, Len(disk)) /\ it1.file.size = e /\ it1.pos = p
    <3> HIDE DEF f, p, e
    <3> QED
      BY <2>2, <2>8, <2>9, IteratorProperties
  <2>11. OpenedWell(at)'
    <3> HIDE DEF it1
    <3> QED
      BY <1>4, <2>1, <2>10, OpenedWellStays
  <2>12. /\ reader'.met \in Seq(Records) /\ Len(reader'.met) = n + 1
         /\ \A i \in 1..(n + 1) : reader'.met[i] = whole[i]
    <3>1. reader'.met = Append(reader.met, r)
      BY <1>4, <2>4 DEF Has
    <3>2. /\ Append(reader.met, r) \in Seq(Records) /\ Len(Append(reader.met, r)) = n + 1
          /\ \A i \in 1..n : Append(reader.met, r)[i] = reader.met[i]
          /\ Append(reader.met, r)[n + 1] = r
      BY <2>2, <2>6, AppendProperties
    <3>3. \A i \in 1..(n + 1) : i \in 1..n \/ i = n + 1
      BY <2>2
    <3> QED
      BY <2>2, <3>1, <3>2, <3>3
  <2> HIDE DEF it1, f, p, r, it
  <2>13. MetWell'
    <3>1. n + 1 <= w
      BY <2>2, <2>4
    <3> QED
      BY <1>4, <2>12, <3>1 DEF MetWell
  <2>14. Phase(at)'
    <3>1. ASSUME ItAt(at, it1, n + 1), it1.record # "garbled"
          PROVE  Phase(at)'
      <4>1. reader'.file.size = reader.file.size
        BY <1>4, <2>10
      <4>2. ItAt(at, reader.it, Len(reader.met))'
        BY <1>4, <2>12, <3>1, <4>1, ItAtStays
      <4>3. reader'.result = "reading" /\ reader'.toMake = <<>>
        BY <1>4, <3>1
      <4> QED
        BY <4>2, <4>3 DEF Phase
    <3>2. CASE n < o
      <4>1. n + 1 \in 0..o /\ n + 2 = n + 1 + 1 /\ f.pos = at[n + 1 + 1]
        BY <2>2, <2>9, <3>2 DEF p
      <4>2. /\ Iterator(f, f.pos).record = "garbled" => n + 1 = o
            /\ Iterator(f, f.pos).record # "garbled" => ItAt(at, Iterator(f, f.pos), n + 1)
        BY <1>1, <1>2, <2>1, <2>9, <4>1, NewItAt
      <4>3. it1 = Iterator(f, f.pos)
        BY <2>8, <2>9
      <4>4. CASE it1.record = "garbled"
        <5>1. reader'.result = "threw" /\ Len(reader'.met) >= reader'.opened
          BY <1>4, <2>2, <2>12, <4>2, <4>3, <4>4
        <5> QED
          BY <5>1 DEF Phase
      <4>5. CASE it1.record # "garbled"
        BY <3>1, <4>2, <4>3, <4>5
      <4> QED
        BY <4>4, <4>5
    <3>3. CASE ~(n < o)
      <4>1. n = o /\ n + 1 > o /\ o + 2 = n + 2
        BY <2>2, <2>4, <3>3
      <4>2. ~reader.clean
        <5>1. reader.it.pos = at[o + 1]
          BY <2>5, <4>1 DEF it
        <5> QED
          BY <1>4, <2>1, <5>1 DEF OpenedWell
      <4>3. f.pos >= f.size
        <5>1. e < p
          BY <2>1, <2>4, <4>1, <4>2 DEF OpenedWell, p
        <5> HIDE DEF e
        <5>2. e \in Nat /\ p \in Nat
          BY <2>2, <2>7
        <5> QED
          BY <2>9, <5>1, <5>2
      <4>4. EncSizes(f) = ZeroSizes
        BY <4>3 DEF EncSizes
      <4>5. Iterator(f, p).record = RecordAt(AfterSizes(f), ZeroSizes)
        BY <2>2, <2>9, <4>4, IteratorProperties
      <4>6. it1.record = "none"
        BY <2>8, <4>5 DEF RecordAt
      <4>7. it1 = [pos |-> it1.pos, sizes |-> it1.sizes, record |-> it1.record, file |-> it1.file]
        BY <2>8 DEF Iterator
      <4>8. it1.pos = at[n + 1 + 1] /\ ~(n + 1 < o) /\ ~(n + 1 = o)
        <5>1. n + 1 + 1 = n + 2
          BY <2>2
        <5> QED
          BY <2>2, <2>10, <4>1, <5>1 DEF p
      <4>9. ItAt(at, it1, n + 1)
        BY <4>6, <4>7, <4>8 DEF ItAt
      <4> QED
        BY <3>1, <4>6, <4>9
    <3> QED
      BY <3>2, <3>3
  <2> QED
    BY <1>1, <1>2, <1>4, <2>1, <2>11, <2>13, <2>14, ReaderStep DEF ReaderPlace
<1> QED
  BY <1>5, <1>6

\* A loop that goes through its end, or on to no record, has met what was there.
LEMMA LoopEndsInv == ProfileInv /\ LoopEnds => ProfileInv'
<1> SUFFICES ASSUME ProfileInv, LoopEnds PROVE ProfileInv'
  OBVIOUS
<1>1. PICK at : Laid(at, disk, whole, Len(whole)) /\ AfterWhole(at[Len(whole) + 1]) /\ ReaderPlace(at)
  BY DEF ProfileInv
<1>2. ProfileTyped /\ reader.mode # "none"
  BY DEF ProfileInv, LoopEnds, Looping, Reads
<1>3. IsReader
  BY <1>1, <1>2 DEF ReaderPlace, NoReader
<1>4. /\ UNCHANGED <<disk, adding, whole, damaged>>
      /\ reader.result = "reading" /\ reader.toMake = <<>>
      /\ IsReader' /\ reader'.mode = reader.mode /\ reader'.met = reader.met
      /\ reader'.opened = reader.opened /\ reader'.clean = reader.clean /\ reader'.file = reader.file
      /\ reader.mode = "iterate" =>
            /\ reader.it.pos = reader.file.size \/ reader.it.record = "none"
            /\ reader'.result # "reading"
  BY <1>3, LoopEndsFields
<1>5. CASE reader.mode = "find"
  BY <1>1, <1>2, <1>4, <1>5, ReaderStep DEF ReaderPlace
<1>6. CASE reader.mode # "find"
  <2> DEFINE n == Len(reader.met)
             o == reader.opened
             w == Len(whole)
             it == reader.it
  <2>1. OpenedWell(at) /\ MetWell /\ reader.mode = "iterate" /\ ItAt(at, it, n)
    BY <1>1, <1>2, <1>4, <1>6 DEF ReaderPlace, NoReader, Phase
  <2>2. /\ Len(disk) \in Nat /\ w \in Nat /\ o \in 0..w /\ o \in Nat /\ n \in Nat
    BY <1>2, <2>1, TypedProperties, LenProperties DEF OpenedWell, MetWell
  <2>3. /\ \A i \in 1..(w + 1) : at[i] \in 0..Len(disk)
        /\ \A i, j \in 1..(w + 1) : i < j => at[i] < at[j]
    BY <1>1, <1>2, LaidProperties
  <2>4. OpenedWell(at)' /\ MetWell'
    <3>1. GoodFile(reader'.file, Len(disk)) /\ reader'.file.size = reader.file.size
      BY <1>4, <2>1 DEF OpenedWell
    <3>2. OpenedWell(at)'
      BY <1>4, <2>1, <3>1, OpenedWellStays
    <3>3. MetWell'
      BY <1>4, <2>1 DEF MetWell
    <3> QED
      BY <3>2, <3>3
  <2>5. n >= o
    <3> SUFFICES ASSUME n < o PROVE FALSE
      BY <2>2
    <3>1. Has(it, whole[n + 1]) /\ it.pos = at[n + 1]
      BY <2>1 DEF ItAt
    <3> HIDE DEF it, n, o, w
    <3>2. n + 1 \in 1..w /\ n + 1 \in 1..(w + 1) /\ o + 1 \in 1..(w + 1) /\ n + 1 < o + 1
      BY <2>2
    <3>3. whole[n + 1] \in Records
      BY <1>2, <3>2, TypedProperties, ElementOfSeq DEF w
    <3>4. it.record # "none"
      BY <3>1, <3>3, RecordProperties DEF Has
    <3>5. at[n + 1] < at[o + 1] /\ at[n + 1] \in Nat /\ at[o + 1] \in Nat
      BY <2>2, <2>3, <3>2
    <3>6. at[o + 1] <= reader.file.size /\ reader.file.size \in Nat
      BY <2>1, <2>2, <3>5 DEF OpenedWell, o
    <3>7. it.pos # reader.file.size
      BY <3>1, <3>5, <3>6
    <3> QED
      BY <1>4, <2>1, <3>4, <3>7 DEF it
  <2>6. Phase(at)'
    BY <1>4, <2>1, <2>5 DEF Phase
  <2> QED
    BY <1>1, <1>2, <1>4, <2>1, <2>4, <2>6, ReaderStep DEF ReaderPlace
<1> QED
  BY <1>5, <1>6

\* So what a loop has met when it ends is what was there, in order.
LEMMA AddedIsReadThere == ProfileInv => AddedIsRead
<1> SUFFICES ASSUME ProfileInv, reader.mode = "iterate", ~Reads
             PROVE  LET n == Len(reader.met)
                    IN  /\ n <= Len(whole) /\ reader.met = SubSeq(whole, 1, n)
                        /\ \/ n >= reader.opened
                           \/ n = 0 /\ reader.opened = 1 /\ ~reader.clean /\ reader.result = "threw"
  BY DEF AddedIsRead
<1>1. PICK at : ReaderPlace(at)
  BY DEF ProfileInv
<1>2. MetWell /\ Phase(at) /\ reader.result # "reading"
  BY <1>1 DEF ReaderPlace, NoReader, Reads
<1> DEFINE k == Len(reader.met)
<1>3. /\ reader.met \in Seq(Records) /\ k <= Len(whole) /\ k \in Nat
      /\ \A i \in 1..k : reader.met[i] = whole[i]
  BY <1>2, LenProperties DEF MetWell
<1>4. whole \in Seq(Records) /\ Len(whole) \in Nat
  BY TypedProperties DEF ProfileInv
<1> HIDE DEF k
<1>5. SubSeq(whole, 1, k) = reader.met
  <2>1. /\ SubSeq(whole, 0 + 1, k) \in Seq(Records) /\ Len(SubSeq(whole, 0 + 1, k)) = k - 0
        /\ \A i \in 1..(k - 0) : SubSeq(whole, 0 + 1, k)[i] = whole[0 + i]
    BY <1>3, <1>4, PieceProperties
  <2>2. 0 + 1 = 1 /\ k - 0 = k /\ \A i \in 1..k : 0 + i = i
    BY <1>3
  <2>3. \A i \in 1..k : SubSeq(whole, 1, k)[i] = reader.met[i]
    BY <1>3, <2>1, <2>2
  <2>4. SubSeq(whole, 1, k) \in Seq(Records) /\ Len(SubSeq(whole, 1, k)) = Len(reader.met)
    BY <2>1, <2>2 DEF k
  <2> QED
    BY <1>3, <2>3, <2>4, SeqEqual DEF k
<1>6. \/ k >= reader.opened
      \/ k = 0 /\ reader.opened = 1 /\ ~reader.clean /\ reader.result = "threw"
  BY <1>2 DEF Phase, k
<1> QED
  BY <1>3, <1>5, <1>6 DEF k

-----------------------------------------------------------------------------
\* A file that has only grown can still be read.
LEMMA GoodFileGrows ==
    ASSUME NEW l \in Nat, NEW l2 \in Nat, l <= l2, NEW f, GoodFile(f, l)
    PROVE  GoodFile(f, l2)
<1>1. \A x \in 0..l : x \in 0..l2
  OBVIOUS
<1> QED
  BY <1>1 DEF GoodFile

\* What is appended to a profile leaves a loop over it where it is.
LEMMA ReaderGrows ==
    ASSUME ProfileTyped, NEW at, ReaderPlace(at), reader' = reader,
           Len(disk') \in Nat, Len(disk) <= Len(disk'),
           NEW at2, \A i \in 1..(Len(whole) + 1) : at2[i] = at[i],
           Len(whole') \in Nat, Len(whole) <= Len(whole'), \A i \in 1..Len(whole) : whole'[i] = whole[i],
           Len(whole) < Len(whole') => at2[Len(whole) + 2] \in Int /\ Len(disk) < at2[Len(whole) + 2]
    PROVE  ReaderPlace(at2)'
<1>1. CASE reader = NoReader
  BY <1>1 DEF ReaderPlace
<1>2. CASE IsReader /\ reader.mode = "find"
  BY <1>2 DEF ReaderPlace, IsReader
<1>3. CASE IsReader /\ reader.mode = "iterate" /\ OpenedWell(at) /\ MetWell /\ Phase(at)
  <2> DEFINE n == Len(reader.met)
             o == reader.opened
             w == Len(whole)
             w2 == Len(whole')
             e == reader.file.size
             it == reader.it
  <2>1. /\ Len(disk) \in Nat /\ w \in Nat /\ o \in 0..w /\ o \in Nat /\ n \in Nat /\ n <= w
        /\ e \in 0..Len(disk) /\ e \in Nat /\ w2 \in Nat /\ w <= w2
    BY <1>3, TypedProperties, LenProperties DEF OpenedWell, MetWell
  <2>2. \A i \in 1..(w + 1) : at2[i] = at[i]
    OBVIOUS
  <2>3. \A i \in 1..w : whole'[i] = whole[i]
    OBVIOUS
  <2>4. OpenedWell(at2)'
    <3>1. o \in 0..w2 /\ e \in 0..Len(disk')
      BY <2>1
    <3>2. GoodFile(reader.file, Len(disk'))
      BY <1>3, <2>1, GoodFileGrows DEF OpenedWell
    <3>3. at2[o + 1] = at[o + 1]
      <4>1. o + 1 \in 1..(w + 1)
        BY <2>1
      <4> QED
        BY <2>2, <4>1
    <3>4. ASSUME ~reader.clean, o < w2 PROVE e < at2[o + 2]
      <4>1. CASE o < w
        <5>1. o + 2 \in 1..(w + 1)
          BY <2>1, <4>1
        <5>2. at2[o + 2] = at[o + 2]
          BY <2>2, <5>1
        <5> QED
          BY <1>3, <3>4, <4>1, <5>2 DEF OpenedWell
      <4>2. CASE ~(o < w)
        <5>1. o = w /\ w < w2
          BY <2>1, <3>4, <4>2
        <5>2. Len(disk) < at2[w + 2] /\ at2[w + 2] \in Int
          BY <5>1
        <5>3. PICK x \in Int : x = at2[w + 2]
          BY <5>2
        <5> HIDE DEF e, w, o
        <5>4. e < x
          BY <2>1, <5>2, <5>3
        <5> QED
          BY <5>1, <5>3, <5>4
      <4> QED
        BY <4>1, <4>2
    <3>5. /\ reader.clean => e = at2[o + 1]
          /\ ~reader.clean => at2[o + 1] < e
      BY <1>3, <3>3 DEF OpenedWell
    <3> QED
      BY <3>1, <3>2, <3>4, <3>5 DEF OpenedWell
  <2>5. MetWell'
    <3>1. \A i \in 1..n : i \in 1..w
      BY <2>1
    <3>2. reader.met \in Seq(Records) /\ \A i \in 1..n : reader.met[i] = whole[i]
      BY <1>3 DEF MetWell
    <3>3. \A i \in 1..n : reader.met[i] = whole'[i]
      BY <2>3, <3>1, <3>2
    <3>4. n <= w2
      BY <2>1
    <3> QED
      BY <3>2, <3>3, <3>4 DEF MetWell
  <2>6. ASSUME ItAt(at, it, n)
        PROVE  ItAt(at2, reader.it, Len(reader.met))'
    <3>1. /\ it = [pos |-> it.pos, sizes |-> it.sizes, record |-> it.record, file |-> it.file]
          /\ it.pos = at[n + 1]
          /\ n < o => Has(it, whole[n + 1])
          /\ n = o => \/ it.pos = e \/ it.record = "none"
                      \/ n < w /\ Has(it, whole[n + 1])
          /\ n > o => it.record = "none"
      BY <2>6 DEF ItAt
    <3>2. at2[n + 1] = at[n + 1]
      <4>1. n + 1 \in 1..(w + 1)
        BY <2>1
      <4> QED
        BY <2>2, <4>1
    <3>3. n < w => whole'[n + 1] = whole[n + 1]
      <4> SUFFICES ASSUME n < w PROVE whole'[n + 1] = whole[n + 1]
        OBVIOUS
      <4>1. n + 1 \in 1..w
        BY <2>1
      <4> QED
        BY <2>3, <4>1
    <3>4. (n < o => n < w) /\ (n < w => n < w2)
      BY <2>1
    <3> HIDE DEF n, o, w, w2, e, it
    <3>5. /\ n < o => Has(it, whole'[n + 1])
          /\ n = o => \/ it.pos = e \/ it.record = "none"
                      \/ n < w2 /\ Has(it, whole'[n + 1])
      BY <3>1, <3>3, <3>4
    <3>6. it.pos = at2[n + 1]
      BY <3>1, <3>2
    <3> QED
      BY <3>1, <3>5, <3>6 DEF ItAt, Has, n, o, w2, e, it
  <2>7. o > 0 => at2[2] = at[2]
    <3> SUFFICES ASSUME o > 0 PROVE at2[2] = at[2]
      OBVIOUS
    <3>1. 2 \in 1..(w + 1)
      BY <2>1
    <3> QED
      BY <2>2, <3>1
  <2>8. Phase(at2)'
    <3> HIDE DEF n, o, w, w2, e, it
    <3>1. CASE /\ reader.result = "reading" /\ reader.toMake = <<"end">>
               /\ Len(reader.met) = 0 /\ ItAt(at, reader.it, Len(reader.met))
               /\ reader.opened > 0 => reader.file.pos = at[2]
      <4>1. ItAt(at2, reader.it, Len(reader.met))'
        BY <2>6, <3>1 DEF it, n
      <4>2. reader.opened > 0 => reader.file.pos = at2[2]
        BY <2>7, <3>1 DEF o
      <4> QED
        BY <3>1, <4>1, <4>2 DEF Phase
    <3>2. CASE /\ reader.result = "reading" /\ reader.toMake = <<>>
               /\ ItAt(at, reader.it, Len(reader.met))
      <4>1. ItAt(at2, reader.it, Len(reader.met))'
        BY <2>6, <3>2 DEF it, n
      <4> QED
        BY <3>2, <4>1 DEF Phase
    <3>3. CASE /\ reader.result = "reading" /\ reader.toMake = <<"begin", "end">>
               /\ Len(reader.met) = 0 /\ reader.file.pos = 0
      BY <3>3 DEF Phase
    <3>4. CASE /\ reader.result # "reading"
               /\ \/ Len(reader.met) >= reader.opened
                  \/ /\ Len(reader.met) = 0 /\ reader.opened = 1 /\ ~reader.clean
                     /\ reader.result = "threw"
      BY <3>4 DEF Phase
    <3> QED
      BY <1>3, <3>1, <3>2, <3>3, <3>4 DEF Phase
  <2>9. IsReader' /\ reader'.mode = "iterate"
    BY <1>3 DEF IsReader
  <2> QED
    BY <2>4, <2>5, <2>8, <2>9 DEF ReaderPlace
<1> QED
  BY <1>1, <1>2, <1>3 DEF ReaderPlace

\* When no record is finished, the whole ones are where they were.
LEMMA NoneFinished ==
    ASSUME ProfileTyped, ProfileTyped', NEW at, Laid(at, disk, whole, Len(whole)),
           (ReaderPlace(at) /\ reader' = reader) \/ reader' = NoReader,
           whole' = whole, NEW s \in Seq(Cells), disk' = disk \o s,
           NEW b, b = at[Len(whole) + 1], AfterWhole(b)'
    PROVE  ProfileInv'
<1>1. /\ disk \in Seq(Cells) /\ Len(disk) \in Nat /\ whole \in Seq(Records) /\ Len(whole) \in Nat
  BY TypedProperties
<1>2. Len(disk') \in Nat /\ Len(disk) <= Len(disk')
  BY <1>1, GrownProperties
<1>3. Laid(at, disk', whole, Len(whole))
  BY <1>1, LaidStays
<1>4. ReaderPlace(at)'
  <2>1. CASE reader' = NoReader
    BY <2>1 DEF ReaderPlace
  <2>2. CASE ReaderPlace(at) /\ reader' = reader
    <3>1. Len(whole') \in Nat /\ Len(whole) <= Len(whole') /\ ~(Len(whole) < Len(whole'))
      BY <1>1
    <3> QED
      BY <1>2, <2>2, <3>1, ReaderGrows
  <2> QED
    BY <2>1, <2>2
<1>5. Laid(at, disk', whole', Len(whole')) /\ b = at[Len(whole') + 1]
  BY <1>3
<1> QED
  BY <1>4, <1>5 DEF ProfileInv

\* Damage stays what it is, whatever is appended next.
LEMMA DamageStays ==
    ASSUME ProfileTyped, NEW b \in Nat, DamagedTail(b), NEW s \in Seq(Cells), disk' = disk \o s, Len(s) > 0,
           NEW a \in Appenders, adding[a].done <= 1 => Len(s) = 1 /\ IsSize(s[1]),
           adding[a].done \in Nat, adding'[a].done \in 0..(adding[a].done + 1),
           \A c \in Appenders \ {a} : adding'[c] = adding[c] /\ adding[c].done \in Nat
    PROVE  DamagedTail(b)'
<1> DEFINE l == Len(disk)
           m == Len(s)
<1>1. PICK r \in Records : \E k \in 1..(RecordSize(r) - 1) : Torn(b, r, k, disk) /\ SizesComeFirst(b, k)
  BY DEF DamagedTail
<1>2. PICK k \in 1..(RecordSize(r) - 1) : Torn(b, r, k, disk) /\ SizesComeFirst(b, k)
  BY <1>1
<1>3. RecordSize(r) \in Nat /\ k \in Nat /\ k >= 1
  BY RecordProperties
<1>4. /\ l \in Nat /\ m \in Nat /\ m > 0 /\ Len(disk') = l + m
      /\ \A i \in 1..l : disk'[i] = disk[i]
      /\ disk'[l + 1] = s[1]
  <2>1. disk \in Seq(Cells)
    BY TypedProperties
  <2>2. /\ Len(disk \o s) = l + m /\ l \in Nat /\ m \in Nat
        /\ \A i \in 1..l : (disk \o s)[i] = disk[i]
        /\ \A i \in 1..m : (disk \o s)[l + i] = s[i]
    BY <2>1, GrownProperties
  <2>3. 1 \in 1..m
    BY <2>2
  <2> QED
    BY <2>2, <2>3
<1>5. /\ b + k <= l
      /\ \A j \in 1..k : disk[b + j] = Encoded(r)[j]
      /\ b + (k + 1) <= l => IsSize(disk[b + (k + 1)])
      /\ k = 1 /\ b + 3 <= l => IsSize(disk[b + 3])
  BY <1>2 DEF Torn
<1>6. /\ l = b + k => \A c \in Appenders : adding[c].done = 0
      /\ k = 1 /\ l = b + 2 => \A c \in Appenders : adding[c].done <= 1
  BY <1>2 DEF SizesComeFirst
<1>7. /\ l = b + k => m = 1 /\ IsSize(s[1])
      /\ k = 1 /\ l = b + 2 => m = 1 /\ IsSize(s[1])
  BY <1>6
<1> HIDE DEF l, m
<1>8. \A j \in 1..k : disk'[b + j] = Encoded(r)[j]
  <2> SUFFICES ASSUME NEW j \in 1..k PROVE disk'[b + j] = Encoded(r)[j]
    OBVIOUS
  <2>1. b + j \in 1..l
    BY <1>3, <1>4, <1>5
  <2> QED
    BY <1>4, <1>5, <2>1
<1>9. b + (k + 1) <= Len(disk') => IsSize(disk'[b + (k + 1)])
  <2>1. CASE b + (k + 1) <= l
    <3>1. b + (k + 1) \in 1..l
      BY <1>3, <1>4, <2>1
    <3> QED
      BY <1>4, <1>5, <2>1, <3>1
  <2>2. CASE ~(b + (k + 1) <= l)
    <3>1. l = b + k /\ b + (k + 1) = l + 1
      BY <1>3, <1>4, <1>5, <2>2
    <3> QED
      BY <1>4, <1>7, <3>1
  <2> QED
    BY <2>1, <2>2
<1>10. k = 1 /\ b + 3 <= Len(disk') => IsSize(disk'[b + 3])
  <2> SUFFICES ASSUME k = 1, b + 3 <= Len(disk') PROVE IsSize(disk'[b + 3])
    OBVIOUS
  <2>1. CASE b + 3 <= l
    <3>1. b + 3 \in 1..l
      BY <1>4, <2>1
    <3> QED
      BY <1>4, <1>5, <2>1, <3>1
  <2>2. CASE ~(b + 3 <= l)
    <3>1. l = b + 1 \/ l = b + 2
      BY <1>4, <1>5, <2>2
    <3>2. l # b + 1
      BY <1>4, <1>7
    <3>3. l = b + 2 /\ b + 3 = l + 1
      BY <3>1, <3>2
    <3> QED
      BY <1>4, <1>7, <3>3
  <2> QED
    BY <2>1, <2>2
<1>11. Torn(b, r, k, disk')
  <2>1. b + k <= Len(disk')
    BY <1>3, <1>4, <1>5
  <2> QED
    BY <1>8, <1>9, <1>10, <2>1 DEF Torn
<1>12. SizesComeFirst(b, k)'
  <2>1. Len(disk') # b + k
    BY <1>3, <1>4, <1>5
  <2>2. ASSUME k = 1, Len(disk') = b + 2, NEW c \in Appenders PROVE adding'[c].done <= 1
    <3>1. l = b + k
      BY <1>3, <1>4, <1>5, <2>2
    <3>2. adding[c].done = 0 /\ adding[a].done = 0
      BY <1>6, <3>1
    <3> QED
      BY <3>2
  <2> QED
    BY <2>1, <2>2 DEF SizesComeFirst
<1> QED
  BY <1>11, <1>12 DEF DamagedTail

\* What is appended is typed like what is there.
LEMMA GrownTyped ==
    ASSUME ProfileTyped, NEW s \in Seq(Cells), disk' = disk \o s, whole' \in Seq(Records),
           damaged' \in BOOLEAN,
           adding' \in [Appenders -> {NotAdding} \cup [record : Records, done : 1..3]]
    PROVE  ProfileTyped'
<1>1. disk \o s \in Seq(Cells)
  BY TypedProperties, GrownProperties
<1> QED
  BY <1>1 DEF ProfileTyped

\* The first size of a record goes behind what is there: alone, it begins the next record;
\* otherwise it is the damage.
LEMMA AddProfileDataInv ==
    ASSUME NEW a \in Appenders, NEW r \in RecordsOf(a)
    PROVE  ProfileInv /\ AddProfileData(a, r) => ProfileInv'
<1> SUFFICES ASSUME ProfileInv, AddProfileData(a, r) PROVE ProfileInv'
  OBVIOUS
<1>1. PICK at : Laid(at, disk, whole, Len(whole)) /\ AfterWhole(at[Len(whole) + 1]) /\ ReaderPlace(at)
  BY DEF ProfileInv
<1>2. ProfileTyped /\ r \in Records
  BY DEF ProfileInv, RecordsOf, Records
<1> DEFINE s == Piece(r, 0)
           l == Len(disk)
<1>3. s \in Seq(Cells) /\ Len(s) = 1 /\ IsSize(s[1]) /\ s[1] = Encoded(r)[1]
  <2>1. 0 \in 0..3 /\ 0 <= 1
    OBVIOUS
  <2>2. /\ s \in Seq(Cells) /\ Len(s) = 1 /\ IsSize(s[1])
        /\ \A i \in 1..Len(s) : s[i] = Encoded(r)[EndOf(r, 0) + i]
    BY <1>2, <2>1, RecordPieces
  <2>3. EndOf(r, 0) = 0 /\ 1 \in 1..Len(s)
    BY <1>2, <2>2, EndProperties
  <2> HIDE DEF s
  <2> QED
    BY <2>2, <2>3
<1>4. /\ ~Adding(a) /\ disk' = disk \o s /\ UNCHANGED <<whole, reader>>
      /\ damaged' = (damaged \/ ~Idle)
      /\ adding' = [adding EXCEPT ![a] = [record |-> r, done |-> 1]]
  <2>1. Appended(s) = disk \o s
    BY <1>2, <1>3, TypedProperties, AppendedProperties
  <2> QED
    BY <2>1 DEF AddProfileData
<1> HIDE DEF s
<1>5. /\ adding'[a] = [record |-> r, done |-> 1] /\ adding[a].done = 0
      /\ \A c \in Appenders \ {a} : adding'[c] = adding[c] /\ adding[c].done \in 0..3
  <2>1. adding \in [Appenders -> {NotAdding} \cup [record : Records, done : 1..3]]
    BY <1>2 DEF ProfileTyped
  <2>2. \A c \in Appenders : adding[c].done \in 0..3
    BY <2>1 DEF NotAdding
  <2>3. adding[a].done = 0
    BY <1>2, <1>4, TypedProperties
  <2> QED
    BY <1>4, <2>1, <2>2, <2>3
<1>6. ProfileTyped'
  <2>1. adding' \in [Appenders -> {NotAdding} \cup [record : Records, done : 1..3]]
    <3>1. [record |-> r, done |-> 1] \in [record : Records, done : 1..3]
      BY <1>2
    <3> QED
      BY <1>2, <1>4, <3>1 DEF ProfileTyped
  <2>2. damaged' \in BOOLEAN /\ whole' \in Seq(Records)
    BY <1>2, <1>4, TypedProperties
  <2> QED
    BY <1>2, <1>3, <1>4, <2>1, <2>2, GrownTyped
<1>7. /\ l \in Nat /\ Len(disk') = l + 1 /\ disk'[l + 1] = s[1]
      /\ \A i \in 1..l : disk'[i] = disk[i]
  <2>1. /\ Len(disk \o s) = Len(disk) + Len(s) /\ Len(disk) \in Nat
        /\ \A i \in 1..Len(disk) : (disk \o s)[i] = disk[i]
        /\ \A i \in 1..Len(s) : (disk \o s)[Len(disk) + i] = s[i]
    BY <1>2, <1>3, TypedProperties, GrownProperties
  <2>2. 1 \in 1..Len(s)
    BY <1>3
  <2> QED
    BY <1>3, <1>4, <2>1, <2>2
<1>8. PICK b : b = at[Len(whole) + 1]
  OBVIOUS
<1>9. b \in Nat /\ AfterWhole(b)
  BY <1>1, <1>2, <1>8, LaidProperties
<1>10. ASSUME damaged PROVE AfterWhole(b)'
  <2>1. DamagedTail(b)
    BY <1>9, <1>10 DEF AfterWhole
  <2>2. /\ adding[a].done \in Nat /\ adding'[a].done \in 0..(adding[a].done + 1)
        /\ \A c \in Appenders \ {a} : adding'[c] = adding[c] /\ adding[c].done \in Nat
    BY <1>5
  <2>3. Len(s) > 0 /\ (adding[a].done <= 1 => Len(s) = 1 /\ IsSize(s[1])) /\ disk' = disk \o s
    BY <1>3, <1>4
  <2>4. b \in Nat /\ s \in Seq(Cells)
    BY <1>3, <1>9
  <2>5. DamagedTail(b)'
    BY <1>2, <2>1, <2>2, <2>3, <2>4, DamageStays
  <2> QED
    BY <1>4, <1>10, <2>5 DEF AfterWhole
<1>11. ASSUME ~damaged /\ Idle PROVE AfterWhole(b)'
  <2>1. l = b
    BY <1>2, <1>9, <1>11, FileEnds
  <2>2. EndOf(r, 1) = 1 /\ adding'[a].record = r /\ adding'[a].done = 1
    BY <1>2, <1>5, EndProperties
  <2>3. Adding(a)' /\ \A c \in Appenders \ {a} : ~Adding(c)'
    <3>1. \A c \in Appenders \ {a} : ~Adding(c)
      BY <1>11 DEF Idle
    <3> QED
      BY <1>5, <3>1 DEF Adding, NotAdding
  <2>4. \A j \in 1..1 : disk'[b + j] = Encoded(r)[j]
    BY <1>3, <1>7, <2>1
  <2>5. OnlyAdding(a, b)'
    BY <1>7, <2>1, <2>2, <2>3, <2>4 DEF OnlyAdding
  <2> QED
    BY <1>4, <1>11, <2>5 DEF AfterWhole
<1>12. ASSUME ~damaged /\ ~Idle PROVE AfterWhole(b)'
  <2>1. PICK c \in Appenders : OnlyAdding(c, b)
    BY <1>9, <1>12 DEF AfterWhole
  <2>2. PICK q, n : q = adding[c].record /\ n = adding[c].done
    OBVIOUS
  <2>3. q \in Records /\ n \in 1..3
    BY <1>2, <2>1, <2>2, TypedProperties DEF OnlyAdding
  <2>4. PICK k : k = EndOf(q, n)
    OBVIOUS
  <2>5. l = b + k /\ \A j \in 1..k : disk[b + j] = Encoded(q)[j]
    BY <2>1, <2>2, <2>4 DEF OnlyAdding
  <2>6. k \in 1..(RecordSize(q) - 1) /\ k \in Nat /\ k >= 1
    <3>1. k \in 1..(RecordSize(q) - 1) /\ RecordSize(q) \in Nat
      BY <2>3, <2>4, EndProperties, RecordProperties
    <3> QED
      BY <3>1
  <2> HIDE DEF l
  <2>7. Torn(b, q, k, disk')
    <3>1. \A j \in 1..k : b + j \in 1..l
      BY <1>9, <2>5, <2>6
    <3>2. \A j \in 1..k : disk'[b + j] = Encoded(q)[j]
      BY <1>7, <2>5, <3>1
    <3>3. b + k <= Len(disk') /\ b + (k + 1) = l + 1
      BY <1>7, <1>9, <2>5, <2>6
    <3>4. IsSize(disk'[b + (k + 1)])
      BY <1>3, <1>7, <3>3
    <3>5. k = 1 => ~(b + 3 <= Len(disk'))
      BY <1>7, <1>9, <2>5
    <3> QED
      BY <3>2, <3>3, <3>4, <3>5 DEF Torn
  <2>8. SizesComeFirst(b, k)'
    <3>1. Len(disk') # b + k
      BY <1>7, <1>9, <2>5, <2>6
    <3>2. ASSUME k = 1, NEW d \in Appenders PROVE adding'[d].done <= 1
      <4>1. n = 1
        <5>1. n = 1 \/ n = 2 \/ n = 3
          BY <2>3
        <5>2. EndOf(q, 2) = 2 /\ EndOf(q, 2) < EndOf(q, 3) /\ EndOf(q, 3) \in Nat
          BY <2>3, EndProperties
        <5>3. 2 # k /\ EndOf(q, 3) # k
          BY <3>2, <5>2
        <5> QED
          BY <2>4, <5>1, <5>2, <5>3
      <4>2. CASE d = a
        BY <1>5, <4>2
      <4>3. CASE d # a
        <5>1. CASE d = c
          <6>1. adding'[d] = adding[d] /\ adding[d].done = 1
            BY <1>5, <2>2, <4>1, <4>3, <5>1
          <6> QED
            BY <6>1
        <5>2. CASE d # c
          BY <1>2, <1>5, <2>1, <4>3, <5>2, TypedProperties DEF OnlyAdding
        <5> QED
          BY <5>1, <5>2
      <4> QED
        BY <4>2, <4>3
    <3> QED
      BY <3>1, <3>2 DEF SizesComeFirst
  <2>9. DamagedTail(b)'
    BY <2>3, <2>6, <2>7, <2>8 DEF DamagedTail
  <2> QED
    BY <1>4, <1>12, <2>9 DEF AfterWhole
<1>13. AfterWhole(b)'
  BY <1>10, <1>11, <1>12
<1> QED
  BY <1>1, <1>2, <1>3, <1>4, <1>6, <1>8, <1>13, NoneFinished

\* Where records begin, when the last of one has been appended.
NewBeginnings(at, n, l) == [i \in 1..(n + 2) |-> IF i <= n + 1 THEN at[i] ELSE l]

LEMMA RecordFinished ==
    ASSUME ProfileTyped, ProfileTyped', NEW at, Laid(at, disk, whole, Len(whole)), ReaderPlace(at),
           reader' = reader, NEW r \in Records, whole' = Append(whole, r),
           NEW s \in Seq(Cells), Len(s) > 0, disk' = disk \o s,
           NEW b, b = at[Len(whole) + 1], Len(disk') = b + RecordSize(r),
           \A j \in 1..RecordSize(r) : disk'[b + j] = Encoded(r)[j],
           ~damaged', Idle'
    PROVE  ProfileInv'
<1>1. PICK w, at2 : w = Len(whole) /\ at2 = NewBeginnings(at, Len(whole), Len(disk'))
  OBVIOUS
<1>2. /\ disk \in Seq(Cells) /\ Len(disk) \in Nat /\ whole \in Seq(Records) /\ w \in Nat
      /\ RecordSize(r) \in Nat
  BY <1>1, TypedProperties, RecordProperties
<1>3. PICK l, l2 : l = Len(disk) /\ l2 = Len(disk')
  OBVIOUS
<1>4. l \in Nat /\ l2 \in Nat /\ l < l2 /\ b \in 0..l /\ l2 = b + RecordSize(r)
  <2>1. Len(disk \o s) = Len(disk) + Len(s) /\ Len(s) \in Nat /\ Len(disk) \in Nat
    BY <1>2, GrownProperties
  <2>2. b \in 0..Len(disk)
    BY <1>1, <1>2, LaidProperties
  <2> QED
    BY <1>3, <2>1, <2>2
<1>5. /\ whole' \in Seq(Records) /\ Len(whole') = w + 1
      /\ \A i \in 1..w : whole'[i] = whole[i]
      /\ whole'[w + 1] = r
  BY <1>1, <1>2, AppendProperties
<1>6. /\ \A i \in 1..(w + 1) : at2[i] = at[i]
      /\ at2[w + 2] = l2 /\ DOMAIN at2 = 1..(w + 2)
  BY <1>1, <1>2, <1>3 DEF NewBeginnings
<1>7. /\ Laid(at, disk', whole, w) /\ b = at[w + 1]
  BY <1>1, <1>2, LaidStays
<1>8. \A i \in 1..(w + 1) : at[i] \in 0..l
  BY <1>1, <1>3 DEF Laid
<1>9. at2 \in [1..((w + 1) + 1) -> 0..l2] /\ at2[1] = 0
  <2>1. at2 = [i \in 1..(w + 2) |-> IF i <= w + 1 THEN at[i] ELSE l2]
    BY <1>1, <1>3 DEF NewBeginnings
  <2>2. \A i \in 1..(w + 2) : i \in 1..(w + 1) \/ ~(i <= w + 1)
    BY <1>2
  <2>3. \A i \in 1..(w + 1) : at[i] \in 0..l2
    BY <1>4, <1>8
  <2>4. l2 \in 0..l2 /\ (w + 1) + 1 = w + 2 /\ 1 \in 1..(w + 1)
    BY <1>2, <1>4
  <2>5. at[1] = 0
    BY DEF Laid
  <2> QED
    BY <1>6, <2>1, <2>2, <2>3, <2>4, <2>5
<1>10. ASSUME NEW i \in 1..((w + 1) + 1), NEW j \in 1..((w + 1) + 1), i < j
       PROVE  at2[i] < at2[j]
  <2>1. i \in 1..(w + 1)
    BY <1>2, <1>10
  <2>2. CASE j \in 1..(w + 1)
    <3>1. at[i] < at[j]
      BY <1>7, <1>10, <2>1, <2>2 DEF Laid
    <3> QED
      BY <1>6, <2>1, <2>2, <3>1
  <2>3. CASE j = w + 2
    <3>1. at[i] \in 0..l
      BY <1>8, <2>1
    <3>2. at2[i] = at[i] /\ at2[j] = l2
      BY <1>6, <2>1, <2>3
    <3>3. PICK x \in 0..l : x = at[i]
      BY <3>1
    <3>4. x < l2
      BY <1>4, <3>3
    <3> QED
      BY <3>2, <3>3, <3>4
  <2> QED
    BY <1>2, <2>2, <2>3
<1>11. ASSUME NEW i \in 1..(w + 1)
       PROVE  /\ at2[i + 1] = at2[i] + RecordSize(whole'[i])
              /\ \A j \in 1..RecordSize(whole'[i]) : disk'[at2[i] + j] = Encoded(whole'[i])[j]
  <2>1. CASE i \in 1..w
    <3>1. i \in 1..(w + 1) /\ i + 1 \in 1..(w + 1)
      BY <1>2, <2>1
    <3>2. at2[i] = at[i] /\ at2[i + 1] = at[i + 1] /\ whole'[i] = whole[i]
      BY <1>5, <1>6, <2>1, <3>1
    <3>3. /\ at[i + 1] = at[i] + RecordSize(whole[i])
          /\ \A j \in 1..RecordSize(whole[i]) : disk'[at[i] + j] = Encoded(whole[i])[j]
      BY <1>7, <2>1 DEF Laid
    <3> QED
      BY <3>2, <3>3
  <2>2. CASE i = w + 1
    <3>1. i \in 1..(w + 1) /\ i + 1 = w + 2
      BY <1>2, <2>2
    <3>2. at2[i] = b /\ at2[i + 1] = l2 /\ whole'[i] = r
      BY <1>5, <1>6, <1>7, <2>2, <3>1
    <3> QED
      BY <1>4, <3>2
  <2>3. i \in 1..w \/ i = w + 1
    BY <1>2
  <2> QED
    BY <2>1, <2>2, <2>3
<1>12. Laid(at2, disk', whole', Len(whole'))
  <2>1. at2 \in [1..(Len(whole') + 1) -> 0..Len(disk')] /\ at2[1] = 0
    BY <1>3, <1>5, <1>9
  <2>2. \A i, j \in 1..(Len(whole') + 1) : i < j => at2[i] < at2[j]
    BY <1>5, <1>10
  <2>3. \A i \in 1..Len(whole') :
          /\ at2[i + 1] = at2[i] + RecordSize(whole'[i])
          /\ \A j \in 1..RecordSize(whole'[i]) : disk'[at2[i] + j] = Encoded(whole'[i])[j]
    BY <1>5, <1>11
  <2> QED
    BY <2>1, <2>2, <2>3 DEF Laid
<1>13. PICK b2 : b2 = at2[Len(whole') + 1]
  OBVIOUS
<1>14. AfterWhole(b2)'
  <2>1. Len(disk') = b2
    <3>1. Len(whole') + 1 = w + 2
      BY <1>2, <1>5
    <3> QED
      BY <1>3, <1>6, <1>13, <3>1
  <2> QED
    BY <2>1 DEF AfterWhole
<1>15. ReaderPlace(at2)'
  <2>1. Len(disk') \in Nat /\ Len(disk) <= Len(disk')
    BY <1>3, <1>4
  <2>2. Len(whole') \in Nat /\ Len(whole) <= Len(whole')
    BY <1>1, <1>2, <1>5
  <2>3. at2[Len(whole) + 2] \in Int /\ Len(disk) < at2[Len(whole) + 2]
    BY <1>1, <1>3, <1>4, <1>6
  <2> QED
    BY <1>1, <1>5, <1>6, <2>1, <2>2, <2>3, ReaderGrows
<1> QED
  BY <1>12, <1>13, <1>14, <1>15 DEF ProfileInv

\* The next piece of a record goes behind what is there: it goes on with the one record that
\* is being added, and may finish it; otherwise it is more of the damage.
LEMMA AppendPieceInv ==
    ASSUME NEW a \in Appenders PROVE ProfileInv /\ AppendPiece(a) => ProfileInv'
<1> SUFFICES ASSUME ProfileInv, AppendPiece(a) PROVE ProfileInv'
  OBVIOUS
<1>1. PICK at : Laid(at, disk, whole, Len(whole)) /\ AfterWhole(at[Len(whole) + 1]) /\ ReaderPlace(at)
  BY DEF ProfileInv
<1>2. ProfileTyped /\ Adding(a)
  BY DEF ProfileInv, AppendPiece
<1>3. PICK r, n : r = adding[a].record /\ n = adding[a].done
  OBVIOUS
<1>4. r \in Records /\ n \in 1..3 /\ n \in 0..3
  BY <1>2, <1>3, TypedProperties
<1>5. PICK s : s = Piece(r, n)
  OBVIOUS
<1>6. /\ s \in Seq(Cells) /\ Len(s) = EndOf(r, n + 1) - EndOf(r, n) /\ Len(s) > 0
      /\ \A i \in 1..Len(s) : s[i] = Encoded(r)[EndOf(r, n) + i]
      /\ n <= 1 => Len(s) = 1 /\ IsSize(s[1])
  BY <1>4, <1>5, RecordPieces
<1>7. /\ disk' = disk \o s /\ UNCHANGED <<damaged, reader>>
      /\ whole' = IF n + 1 = 4 /\ ~damaged THEN Append(whole, r) ELSE whole
      /\ adding' = [adding EXCEPT ![a] = IF n + 1 = 4 THEN NotAdding ELSE [@ EXCEPT !.done = n + 1]]
  <2>1. Appended(s) = disk \o s
    BY <1>2, <1>6, TypedProperties, AppendedProperties
  <2> QED
    BY <1>3, <1>5, <2>1 DEF AppendPiece
<1>8. /\ adding'[a] = IF n + 1 = 4 THEN NotAdding ELSE [record |-> r, done |-> n + 1]
      /\ adding' \in [Appenders -> {NotAdding} \cup [record : Records, done : 1..3]]
      /\ \A c \in Appenders \ {a} : adding'[c] = adding[c] /\ adding[c].done \in Nat
  <2>1. adding \in [Appenders -> {NotAdding} \cup [record : Records, done : 1..3]]
    BY <1>2 DEF ProfileTyped
  <2>2. \A c \in Appenders : adding[c].done \in Nat
    BY <2>1 DEF NotAdding
  <2>3. adding[a] \in [record : Records, done : 1..3]
    BY <1>2, <2>1 DEF Adding
  <2>4. [adding[a] EXCEPT !.done = n + 1] = [record |-> r, done |-> n + 1]
    BY <1>3, <2>3
  <2>5. n + 1 # 4 => [record |-> r, done |-> n + 1] \in [record : Records, done : 1..3]
    BY <1>4
  <2> QED
    BY <1>7, <2>1, <2>2, <2>4, <2>5
<1>9. ProfileTyped'
  <2>1. Append(whole, r) \in Seq(Records) /\ whole \in Seq(Records) /\ damaged \in BOOLEAN
    BY <1>2, <1>4, AppendProperties DEF ProfileTyped
  <2>2. whole' \in Seq(Records) /\ damaged' \in BOOLEAN
    BY <1>7, <2>1
  <2> QED
    BY <1>2, <1>6, <1>7, <1>8, <2>2, GrownTyped
<1>10. PICK b : b = at[Len(whole) + 1]
  OBVIOUS
<1>11. b \in Nat /\ AfterWhole(b)
  BY <1>1, <1>2, <1>10, LaidProperties
<1>12. CASE damaged
  <2>1. DamagedTail(b)
    BY <1>11, <1>12 DEF AfterWhole
  <2>2. adding[a].done = n /\ n \in Nat /\ adding'[a].done \in 0..(n + 1)
    BY <1>3, <1>4, <1>8 DEF NotAdding
  <2>3. adding[a].done <= 1 => Len(s) = 1 /\ IsSize(s[1])
    BY <1>6, <2>2
  <2>4. adding[a].done \in Nat /\ adding'[a].done \in 0..(adding[a].done + 1)
    BY <2>2
  <2>5. DamagedTail(b)'
    BY <1>2, <1>6, <1>7, <1>8, <1>11, <2>1, <2>3, <2>4, DamageStays
  <2>6. AfterWhole(b)' /\ whole' = whole
    BY <1>7, <1>12, <2>5 DEF AfterWhole
  <2> QED
    BY <1>1, <1>2, <1>6, <1>7, <1>9, <1>10, <2>6, NoneFinished
<1>13. CASE ~damaged
  <2>1. /\ \A c \in Appenders \ {a} : ~Adding(c)
        /\ Len(disk) = b + EndOf(r, n)
        /\ \A j \in 1..EndOf(r, n) : disk[b + j] = Encoded(r)[j]
    <3>1. PICK c \in Appenders : OnlyAdding(c, b)
      BY <1>2, <1>11, <1>13 DEF AfterWhole, Idle
    <3>2. c = a
      BY <1>2, <3>1 DEF OnlyAdding
    <3> QED
      BY <1>3, <3>1, <3>2 DEF OnlyAdding
  <2>2. PICK x, y, l : x = EndOf(r, n) /\ y = EndOf(r, n + 1) /\ l = Len(disk)
    OBVIOUS
  <2>3. x \in Nat /\ y \in Nat /\ x < y /\ l \in Nat
    <3>1. n \in 0..4 /\ n + 1 \in 0..4
      BY <1>4
    <3>2. RecordSize(r) \in Nat /\ x \in 0..RecordSize(r) /\ y \in 0..RecordSize(r) /\ x < y
      BY <1>4, <2>2, <3>1, EndProperties, RecordProperties
    <3> QED
      BY <1>2, <2>2, <3>2, TypedProperties
  <2>4. /\ l = b + x /\ Len(disk') = b + y
        /\ \A j \in 1..l : disk'[j] = disk[j]
        /\ \A j \in 1..(y - x) : disk'[l + j] = Encoded(r)[x + j]
    <3>1. /\ Len(disk \o s) = l + Len(s)
          /\ \A j \in 1..l : (disk \o s)[j] = disk[j]
          /\ \A j \in 1..Len(s) : (disk \o s)[l + j] = s[j]
      BY <1>2, <1>6, <2>2, TypedProperties, GrownProperties
    <3>2. Len(s) = y - x /\ \A j \in 1..(y - x) : s[j] = Encoded(r)[x + j]
      BY <1>6, <2>2
    <3>3. l = b + x
      BY <2>1, <2>2
    <3>4. l + (y - x) = b + y
      BY <1>11, <2>3, <3>3
    <3> QED
      BY <1>7, <3>1, <3>2, <3>3, <3>4
  <2>5. \A j \in 1..y : disk'[b + j] = Encoded(r)[j]
    <3> SUFFICES ASSUME NEW j \in 1..y PROVE disk'[b + j] = Encoded(r)[j]
      OBVIOUS
    <3>1. CASE j <= x
      <4>1. j \in 1..x /\ b + j \in 1..l
        BY <1>11, <2>3, <2>4, <3>1
      <4> QED
        BY <2>1, <2>2, <2>4, <4>1
    <3>2. CASE ~(j <= x)
      <4>1. PICK i \in 1..(y - x) : i = j - x
        BY <2>3, <3>2
      <4>2. x + i = j /\ l + i = b + j
        BY <1>11, <2>3, <2>4, <4>1
      <4> QED
        BY <2>4, <4>2
    <3> QED
      BY <3>1, <3>2
  <2>6. \A c \in Appenders \ {a} : ~Adding(c)'
    BY <1>8, <2>1 DEF Adding, NotAdding
  <2>7. CASE n + 1 = 4
    <3>1. y = RecordSize(r)
      BY <1>4, <2>2, <2>7, EndProperties
    <3>2. Idle'
      BY <1>8, <2>6, <2>7 DEF Idle, Adding, NotAdding
    <3>3. whole' = Append(whole, r) /\ ~damaged'
      BY <1>7, <1>13, <2>7
    <3>4. Len(disk') = b + RecordSize(r) /\ \A j \in 1..RecordSize(r) : disk'[b + j] = Encoded(r)[j]
      BY <2>4, <2>5, <3>1
    <3> QED
      BY <1>1, <1>2, <1>4, <1>6, <1>7, <1>9, <1>10, <3>2, <3>3, <3>4, RecordFinished
  <2>8. CASE n + 1 # 4
    <3>1. adding'[a] = [record |-> r, done |-> n + 1]
      BY <1>8, <2>8
    <3>2. Adding(a)'
      <4>1. [record |-> r, done |-> n + 1].done # 0
        BY <1>4
      <4>2. NotAdding.done = 0
        BY DEF NotAdding
      <4> QED
        BY <3>1, <4>1, <4>2 DEF Adding
    <3>3. OnlyAdding(a, b)'
      <4>1. adding'[a].record = r /\ adding'[a].done = n + 1
        BY <3>1
      <4> QED
        BY <2>2, <2>4, <2>5, <2>6, <3>2, <4>1 DEF OnlyAdding
    <3>4. AfterWhole(b)' /\ whole' = whole
      BY <1>7, <1>13, <2>8, <3>3 DEF AfterWhole
    <3> QED
      BY <1>1, <1>2, <1>6, <1>7, <1>9, <1>10, <3>4, NoneFinished
  <2> QED
    BY <2>7, <2>8
<1> QED
  BY <1>12, <1>13

\* A crash cuts a record short, or leaves the damage that was there.
LEMMA CrashWhileAddingInv ==
    ASSUME NEW a \in Appenders PROVE ProfileInv /\ CrashWhileAdding(a) => ProfileInv'
<1> SUFFICES ASSUME ProfileInv, CrashWhileAdding(a) PROVE ProfileInv'
  OBVIOUS
<1>1. PICK at : Laid(at, disk, whole, Len(whole)) /\ AfterWhole(at[Len(whole) + 1])
  BY DEF ProfileInv
<1>2. ProfileTyped /\ Adding(a)
  BY DEF ProfileInv, CrashWhileAdding
<1>3. PICK r, n : r = adding[a].record /\ n = adding[a].done
  OBVIOUS
<1>4. r \in Records /\ n \in 1..3 /\ n \in 0..3
  BY <1>2, <1>3, TypedProperties
<1>5. PICK piece : piece = Piece(r, n)
  OBVIOUS
<1>6. PICK x, y, m : x = EndOf(r, n) /\ y = EndOf(r, n + 1) /\ m = Len(piece)
  OBVIOUS
<1>7. /\ piece \in Seq(Cells) /\ m = y - x
      /\ \A i \in 1..m : piece[i] = Encoded(r)[x + i]
      /\ n <= 1 => m = 1
  BY <1>4, <1>5, <1>6, RecordPieces
<1>8. x \in Nat /\ y \in Nat /\ x >= 1 /\ x < y /\ y <= RecordSize(r) /\ RecordSize(r) \in Nat
  <2>1. n + 1 \in 0..4
    BY <1>4
  <2>2. /\ RecordSize(r) \in Nat /\ y \in 0..RecordSize(r) /\ x < y
        /\ x \in 1..(RecordSize(r) - 1)
    BY <1>4, <1>6, <2>1, EndProperties, RecordProperties
  <2> QED
    BY <2>2
<1>9. PICK k \in 0..(m - 1) : disk' = disk \o SubSeq(piece, 1, k)
  BY <1>3, <1>5, <1>6 DEF CrashWhileAdding
<1>10. /\ adding' = [c \in Appenders |-> NotAdding] /\ damaged' = TRUE /\ reader' = NoReader
       /\ whole' = whole
  BY DEF CrashWhileAdding
<1>11. PICK t : t = SubSeq(piece, 1, k)
  OBVIOUS
<1>12. /\ k \in Nat /\ t \in Seq(Cells) /\ Len(t) = k
       /\ \A i \in 1..k : t[i] = Encoded(r)[x + i]
  <2>1. k \in Nat /\ 0 <= k /\ k <= Len(piece) /\ m \in Nat
    BY <1>6, <1>7, <1>8
  <2>2. /\ SubSeq(piece, 0 + 1, k) \in Seq(Cells) /\ Len(SubSeq(piece, 0 + 1, k)) = k - 0
        /\ \A i \in 1..(k - 0) : SubSeq(piece, 0 + 1, k)[i] = piece[0 + i]
    BY <1>7, <2>1, PieceProperties
  <2>3. 0 + 1 = 1 /\ k - 0 = k /\ \A i \in 1..k : 0 + i = i /\ i \in 1..m
    BY <2>1, <1>6
  <2> QED
    BY <1>7, <1>11, <2>1, <2>2, <2>3
<1>13. PICK l, l2 : l = Len(disk) /\ l2 = Len(disk')
  OBVIOUS
<1>14. /\ l \in Nat /\ l2 = l + k
       /\ \A i \in 1..l : disk'[i] = disk[i]
       /\ \A i \in 1..k : disk'[l + i] = t[i]
  <2>1. /\ Len(disk \o t) = l + k /\ l \in Nat
        /\ \A i \in 1..l : (disk \o t)[i] = disk[i]
        /\ \A i \in 1..k : (disk \o t)[l + i] = t[i]
    BY <1>2, <1>12, <1>13, TypedProperties, GrownProperties
  <2>2. disk' = disk \o t
    BY <1>9, <1>11
  <2> QED
    BY <1>13, <2>1, <2>2
<1>15. ProfileTyped'
  <2>1. whole \in Seq(Records) /\ [c \in Appenders |-> NotAdding] \in
              [Appenders -> {NotAdding} \cup [record : Records, done : 1..3]]
    BY <1>2, TypedProperties
  <2>2. disk' = disk \o t
    BY <1>9, <1>11
  <2> QED
    BY <1>2, <1>10, <1>12, <2>1, <2>2, GrownTyped
<1>16. PICK b : b = at[Len(whole) + 1]
  OBVIOUS
<1>17. b \in Nat /\ AfterWhole(b)
  BY <1>1, <1>2, <1>16, LaidProperties
<1>18. \A q, j : SizesComeFirst(q, j)'
  <2>1. \A c \in Appenders : adding'[c].done = 0
    BY <1>10 DEF NotAdding
  <2> QED
    BY <2>1 DEF SizesComeFirst
<1>19. ASSUME damaged PROVE DamagedTail(b)'
  <2>1. PICK q \in Records : \E j \in 1..(RecordSize(q) - 1) : Torn(b, q, j, disk) /\ SizesComeFirst(b, j)
    BY <1>17, <1>19 DEF AfterWhole, DamagedTail
  <2>2. PICK j \in 1..(RecordSize(q) - 1) : Torn(b, q, j, disk) /\ SizesComeFirst(b, j)
    BY <2>1
  <2>3. j \in Nat /\ j >= 1
    BY RecordProperties
  <2>4. /\ b + j <= l
        /\ \A i \in 1..j : disk[b + i] = Encoded(q)[i]
        /\ b + (j + 1) <= l => IsSize(disk[b + (j + 1)])
        /\ j = 1 /\ b + 3 <= l => IsSize(disk[b + 3])
    BY <1>13, <2>2 DEF Torn
  <2>5. l # b + j /\ (j = 1 /\ l = b + 2 => n <= 1)
    <3>1. /\ l = b + j => n = 0
          /\ j = 1 /\ l = b + 2 => n <= 1
      BY <1>3, <1>13, <2>2 DEF SizesComeFirst
    <3> QED
      BY <1>4, <3>1
  <2>6. b + (j + 1) \in 1..l
    BY <1>14, <1>17, <2>3, <2>4, <2>5
  <2>7. \A i \in 1..j : disk'[b + i] = Encoded(q)[i]
    <3>1. \A i \in 1..j : b + i \in 1..l
      BY <1>14, <1>17, <2>3, <2>4
    <3> QED
      BY <1>14, <2>4, <3>1
  <2>8. IsSize(disk'[b + (j + 1)])
    <3>1. b + (j + 1) <= l
      BY <2>6, <1>14
    <3> QED
      BY <1>14, <2>4, <2>6, <3>1
  <2>9. ASSUME j = 1, b + 3 <= l2 PROVE IsSize(disk'[b + 3])
    <3>1. l # b + 2
      <4> SUFFICES ASSUME l = b + 2 PROVE FALSE
        OBVIOUS
      <4>1. m = 1
        BY <1>7, <2>5, <2>9
      <4>2. k = 0
        BY <1>12, <4>1
      <4> QED
        BY <1>14, <1>17, <2>9, <4>2
    <3>2. b + 3 \in 1..l /\ b + 3 <= l
      BY <1>14, <1>17, <2>6, <2>9, <3>1
    <3> QED
      BY <1>14, <2>4, <2>9, <3>2
  <2>10. b + j <= l2
    BY <1>12, <1>14, <1>17, <2>3, <2>4
  <2>11. Torn(b, q, j, disk')
    BY <1>13, <2>7, <2>8, <2>9, <2>10 DEF Torn
  <2> QED
    BY <1>18, <2>11 DEF DamagedTail
<1>20. ASSUME ~damaged PROVE DamagedTail(b)'
  <2>1. l = b + x /\ \A j \in 1..x : disk[b + j] = Encoded(r)[j]
    <3>1. PICK c \in Appenders : OnlyAdding(c, b)
      BY <1>2, <1>17, <1>20 DEF AfterWhole, Idle
    <3>2. c = a
      BY <1>2, <3>1 DEF OnlyAdding
    <3> QED
      BY <1>3, <1>6, <1>13, <3>1, <3>2 DEF OnlyAdding
  <2>2. PICK z : z = x + k
    OBVIOUS
  <2>3. z \in 1..(RecordSize(r) - 1) /\ z \in Nat /\ b + z = l2
    <3>1. k \in Nat /\ k < y - x
      BY <1>7, <1>8, <1>9
    <3> QED
      BY <1>8, <1>14, <1>17, <2>1, <2>2, <3>1
  <2>4. \A j \in 1..z : disk'[b + j] = Encoded(r)[j]
    <3> SUFFICES ASSUME NEW j \in 1..z PROVE disk'[b + j] = Encoded(r)[j]
      OBVIOUS
    <3>1. CASE j <= x
      <4>1. j \in 1..x /\ b + j \in 1..l
        BY <1>8, <1>14, <1>17, <2>1, <3>1
      <4> QED
        BY <1>14, <2>1, <4>1
    <3>2. CASE ~(j <= x)
      <4>1. PICK i \in 1..k : i = j - x
        BY <1>8, <1>12, <2>2, <3>2
      <4>2. x + i = j /\ l + i = b + j
        BY <1>8, <1>17, <2>1, <4>1
      <4> QED
        BY <1>12, <1>14, <4>2
    <3> QED
      BY <3>1, <3>2
  <2>5. ~(b + (z + 1) <= l2) /\ (z = 1 => ~(b + 3 <= l2)) /\ b + z <= l2
    BY <1>17, <2>3
  <2>6. Torn(b, r, z, disk')
    BY <1>13, <2>4, <2>5 DEF Torn
  <2> QED
    BY <1>4, <1>18, <2>3, <2>6 DEF DamagedTail
<1>21. AfterWhole(b)'
  <2>1. DamagedTail(b)'
    BY <1>19, <1>20
  <2> QED
    BY <1>10, <2>1 DEF AfterWhole
<1> QED
  <2>1. disk' = disk \o t
    BY <1>9, <1>11
  <2> QED
    BY <1>1, <1>2, <1>10, <1>12, <1>15, <1>16, <1>21, <2>1, NoneFinished

LEMMA NextProfileInv == ProfileInv /\ [ProfileNext]_profileVars => ProfileInv'
<1> SUFFICES ASSUME ProfileInv, [ProfileNext]_profileVars PROVE ProfileInv'
  OBVIOUS
<1>1. CASE ProfileNext
  <2>1. ASSUME NEW a \in Appenders, NEW r \in RecordsOf(a), AddProfileData(a, r) PROVE ProfileInv'
    BY <2>1, AddProfileDataInv
  <2>2. ASSUME NEW a \in Appenders, AppendPiece(a) \/ CrashWhileAdding(a) PROVE ProfileInv'
    BY <2>2, AppendPieceInv, CrashWhileAddingInv
  <2>3. ASSUME NEW r \in Sought, OpenToFind(r) PROVE ProfileInv'
    BY <2>3, OpenToFindInv
  <2>4. ASSUME OpenToIterate \/ MakeIterator \/ ReadOn \/ LoopEnds \/ StopReading PROVE ProfileInv'
    BY <2>4, OpenToIterateInv, MakeIteratorInv, ReadOnInv, LoopEndsInv, StopReadingInv
  <2> QED
    BY <1>1, <2>1, <2>2, <2>3, <2>4 DEF ProfileNext
<1>2. CASE UNCHANGED profileVars
  <2>1. PICK at : /\ Laid(at, disk, whole, Len(whole)) /\ AfterWhole(at[Len(whole) + 1])
                  /\ ReaderPlace(at)
    BY DEF ProfileInv
  <2>2. UNCHANGED <<disk, adding, whole, damaged>> /\ reader' = reader /\ ProfileTyped
    BY <1>2 DEF profileVars, ProfileInv
  <2>3. ReaderPlace(at)'
    BY <2>1, <2>2 DEF ReaderPlace, IsReader, OpenedWell, MetWell, Phase, ItAt
  <2> QED
    BY <2>1, <2>2, <2>3, ReaderStep
<1> QED
  BY <1>1, <1>2

\* However many records two threads add, with whatever sizes, one piece after the other, and
\* whatever crashes cut short: a loop over the profile meets what was whole in it when it
\* opened the file, in order, and never what was not added, even if it throws at what is
\* unfinished or damaged behind.  The one exception is a profile of one whole record, and
\* such damage behind it: making end() reads that, and the loop meets none.
THEOREM ProfilesAreReadAsAdded == ProfileSpec => []AddedIsRead
<1>1. ProfileSpec => []ProfileInv
  BY InitProfileInv, NextProfileInv, PTL DEF ProfileSpec
<1> QED
  BY <1>1, AddedIsReadThere, PTL

-----------------------------------------------------------------------------
\* The handles of the C interface.

\* What a client can be: its profile is gone with its packet handler, there is no session
\* without a link, and while the link lasts a profile is of the session's user.
GoodClient(c) ==
    /\ c \in [there : BOOLEAN, handler : BOOLEAN, linked : BOOLEAN,
              profile : APIUsers \cup {Nobody}, session : APIUsers \cup {Nobody}]
    /\ ~c.handler => c.profile = Nobody
    /\ ~c.linked => c.session = Nobody
    /\ c.linked /\ c.profile # Nobody => c.session = c.profile

ObjectTypes == {"error", "client", "string", "ciphertext", "bytes"}
HeapObject == {Object(type) : type \in ObjectTypes}

\* What is at an address.
HeapTyped ==
    /\ DOMAIN objects = Handles \cup Statics
    /\ \A h \in Handles : objects[h] \in HeapObject \cup {NoObject}
    /\ \A h \in Statics : objects[h] = StaticError

\* The caller holds what was allocated.
HeldAllocated == held = {h \in Handles : objects[h] # NoObject}

\* The last call that gave a handle gave one that can be asked for its error, but for an
\* update whose failure was swallowed.
LastCallShows ==
    /\ lastCall.handle \in Handles \cup Statics \cup {NullHandle}
    /\ lastCall.handle \in Handles => objects[lastCall.handle] # NoObject
    /\ lastCall.failed <=> SENC_HasError(lastCall.handle) \/ lastCall.swallowed

ClientsGood ==
    /\ DOMAIN clients = Handles
    /\ \A h \in Handles : GoodClient(clients[h]) /\ (clients[h].there => objects[h].type = "client")

\* The inductive invariant.
ApiInv == HeapTyped /\ HeldAllocated /\ LastCallShows /\ ClientsGood

LEMMA Sound == ApiInv => HandlesSound
<1> SUFFICES ASSUME ApiInv PROVE HandlesSound
  OBVIOUS
<1>1. held = {h \in Handles : objects[h] # NoObject}
  BY DEF ApiInv, HeldAllocated
<1>2. lastCall.failed <=> SENC_HasError(lastCall.handle) \/ lastCall.swallowed
  BY DEF ApiInv, LastCallShows
<1>3. ASSUME NEW h \in Handles
      PROVE  /\ clients[h].there => objects[h].type = "client"
             /\ {clients[h].profile, clients[h].session} \subseteq APIUsers =>
                    clients[h].profile = clients[h].session
  BY ApiConstants DEF ApiInv, ClientsGood, GoodClient
<1> QED
  BY <1>1, <1>2, <1>3 DEF HandlesSound

LEMMA InitApiInv == ApiInit => ApiInv
<1> SUFFICES ASSUME ApiInit PROVE ApiInv
  OBVIOUS
<1>1. HeapTyped /\ HeldAllocated
  BY ApiConstants DEF ApiInit, HeapTyped, HeldAllocated, Statics, NoObject, StaticError
<1>2. LastCallShows
  BY ApiConstants DEF ApiInit, LastCallShows, SENC_HasError, Statics
<1>3. ClientsGood
  BY DEF ApiInit, ClientsGood, GoodClient, NoClient
<1> QED
  BY <1>1, <1>2, <1>3 DEF ApiInv

-----------------------------------------------------------------------------
\* What new_instance, RetNew and RetNullOrErr keep of the heap, and of the objects that
\* were there.
GivesWell ==
    /\ HeapTyped' /\ HeldAllocated' /\ LastCallShows'
    /\ \A h \in Handles : objects[h] # NoObject => objects'[h] = objects[h]

\* What a call keeps that ends the process, and one that gives no new object.
LEMMA NothingGiven ==
    ASSUME ApiInv, UNCHANGED <<objects, held>>, UNCHANGED lastCall \/ LastCallShows'
    PROVE  GivesWell
<1>1. HeapTyped' /\ HeldAllocated'
  BY DEF ApiInv, HeapTyped, HeldAllocated
<1>2. LastCallShows'
  BY DEF ApiInv, LastCallShows, SENC_HasError, TypeOf
<1> QED
  BY <1>1, <1>2 DEF GivesWell

LEMMA NewInstanceGives ==
    ASSUME ApiInv, NEW type \in ObjectTypes, NEW failed \in BOOLEAN, failed <=> type = "error",
           NewInstance(type, failed)
    PROVE  GivesWell
<1>1. CASE Give(TRUE, ALLOCATION) /\ UNCHANGED objects
  BY <1>1, ApiConstants DEF Give, GivesWell, ApiInv, HeapTyped, HeldAllocated, LastCallShows,
     SENC_HasError, TypeOf, Statics, StaticError
<1>2. ASSUME NEW h \in Fresh, objects' = [objects EXCEPT ![h] = Object(type)], Give(failed, h)
      PROVE  GivesWell
  <2>1. h \in Handles /\ objects[h] = NoObject /\ Object(type) # NoObject /\ objects'[h] = Object(type)
    BY <1>2 DEF Fresh, Object, NoObject, ApiInv, HeapTyped
  <2>2. HeapTyped'
    BY <1>2, <2>1, ApiConstants DEF ApiInv, HeapTyped, HeapObject, Statics
  <2>3. HeldAllocated'
    BY <1>2, <2>1 DEF Give, ApiInv, HeapTyped, HeldAllocated
  <2>4. LastCallShows'
    BY <1>2, <2>1, ApiConstants DEF Give, LastCallShows, SENC_HasError, TypeOf, Object
  <2> QED
    BY <1>2, <2>1, <2>2, <2>3, <2>4 DEF GivesWell, ApiInv, HeapTyped
<1> QED
  BY <1>1, <1>2 DEF NewInstance

LEMMA ErrorGives ==
    ASSUME ApiInv, Give(TRUE, ALLOCATION), UNCHANGED objects
    PROVE  GivesWell
  BY ApiConstants DEF Give, GivesWell, ApiInv, HeapTyped, HeldAllocated, LastCallShows,
     SENC_HasError, TypeOf, Statics, StaticError

LEMMA NewErrorGives ==
    ASSUME ApiInv, NewError
    PROVE  GivesWell
  BY NewInstanceGives, NothingGiven DEF NewError, ObjectTypes

LEMMA RetNewGives ==
    ASSUME ApiInv, NEW type \in ObjectTypes \ {"error"}, NEW o, RetNew(type, o)
    PROVE  GivesWell
<1>1. NewInstance(type, FALSE) \/ (Give(TRUE, ALLOCATION) /\ UNCHANGED objects) \/ NewError
  BY DEF RetNew
<1>2. type \in ObjectTypes /\ (FALSE <=> type = "error") /\ FALSE \in BOOLEAN
  BY DEF ObjectTypes
<1> QED
  BY <1>1, <1>2, NewInstanceGives, ErrorGives, NewErrorGives

LEMMA RetNullOrErrGives ==
    ASSUME ApiInv, NEW o, RetNullOrErr(o)
    PROVE  GivesWell
<1>1. CASE Give(FALSE, NullHandle) /\ UNCHANGED objects
  BY <1>1, ApiConstants DEF Give, GivesWell, ApiInv, HeapTyped, HeldAllocated, LastCallShows, SENC_HasError
<1>2. CASE ~(Give(FALSE, NullHandle) /\ UNCHANGED objects)
  BY <1>2, NewErrorGives, ErrorGives DEF RetNullOrErr
<1> QED
  BY <1>1, <1>2

\* A call that changes one client at most, to a good one that was there before.
LEMMA CallKeeps ==
    ASSUME ApiInv, GivesWell, NEW h \in held, NEW c, GoodClient(c), c.there => clients[h].there,
           UNCHANGED clients \/ SetClient(h, c)
    PROVE  ApiInv'
<1>1. h \in Handles
  BY DEF ApiInv, HeldAllocated
<1>2. \A k \in Handles : objects[k].type = "client" => objects'[k] = objects[k]
  BY DEF GivesWell, NoObject
<1>3. ClientsGood'
  BY <1>1, <1>2 DEF ApiInv, ClientsGood, GoodClient, SetClient
<1> QED
  BY <1>3 DEF GivesWell, ApiInv

\* The same when no client changes.
LEMMA CallKeepsAll ==
    ASSUME ApiInv, GivesWell, UNCHANGED clients
    PROVE  ApiInv'
<1>1. \A k \in Handles : objects[k].type = "client" => objects'[k] = objects[k]
  BY DEF GivesWell, NoObject
<1>2. ClientsGood'
  BY <1>1 DEF ApiInv, ClientsGood, GoodClient
<1> QED
  BY <1>2 DEF GivesWell, ApiInv

-----------------------------------------------------------------------------
LEMMA FreeHandleInv ==
    ASSUME ApiInv, NEW h \in held \cup Statics \cup {NullHandle}, SENC_FreeHandle(h)
    PROVE  ApiInv'
<1>1. lastCall' = [failed |-> FALSE, handle |-> NullHandle, swallowed |-> FALSE]
  BY DEF SENC_FreeHandle
<1>2. LastCallShows'
  BY <1>1, ApiConstants DEF LastCallShows, SENC_HasError
<1>3. CASE ~MayDelete(h)
  <2>1. UNCHANGED <<objects, held, clients>>
    BY <1>3 DEF SENC_FreeHandle
  <2> QED
    BY <1>2, <2>1 DEF ApiInv, HeapTyped, HeldAllocated, ClientsGood
<1>4. CASE MayDelete(h)
  <2>1. h \in Handles
    BY <1>4 DEF MayDelete, Allocated, StaticError, ApiInv, HeapTyped, HeldAllocated
  <2>2. objects' = [objects EXCEPT ![h] = NoObject] /\ held' = held \ {h}
    BY <1>4 DEF SENC_FreeHandle
  <2>3. HeapTyped' /\ HeldAllocated'
    BY <2>1, <2>2, ApiConstants DEF ApiInv, HeapTyped, HeldAllocated, Statics
  <2>4. GoodClient(NoClient) /\ ~NoClient.there
    BY DEF GoodClient, NoClient
  <2>5. ClientsGood'
    <3>1. CASE TypeOf(h) = "client"
      BY <3>1, <1>4, <2>1, <2>2, <2>4 DEF SENC_FreeHandle, ApiInv, HeapTyped, ClientsGood
    <3>2. CASE TypeOf(h) # "client"
      <4>1. UNCHANGED clients /\ ~clients[h].there
        BY <3>2, <1>4, <2>1 DEF SENC_FreeHandle, TypeOf, ApiInv, ClientsGood, GoodClient
      <4> QED
        BY <4>1, <2>1, <2>2 DEF ApiInv, HeapTyped, ClientsGood
    <3> QED
      BY <3>1, <3>2
  <2> QED
    BY <1>2, <2>3, <2>5 DEF ApiInv
<1> QED
  BY <1>3, <1>4

LEMMA DisconnectInv ==
    ASSUME ApiInv, NEW h \in held, SENC_Disconnect(h)
    PROVE  ApiInv'
<1>1. UNCHANGED <<objects, held, lastCall>> /\ SetClient(h, NoClient)
  BY DEF SENC_Disconnect, SetClient
<1>2. GoodClient(NoClient) /\ ~NoClient.there
  BY DEF GoodClient, NoClient
<1>3. GivesWell
  BY <1>1 DEF GivesWell, ApiInv, HeapTyped, HeldAllocated, LastCallShows, SENC_HasError, TypeOf
<1> QED
  BY <1>1, <1>2, <1>3, CallKeeps

LEMMA ConnectInv ==
    ASSUME ApiInv, NEW o, SENC_Connect(o)
    PROVE  ApiInv'
<1>1. GivesWell
  BY RetNewGives DEF SENC_Connect, ObjectTypes
<1>2. GoodClient(NewClient) /\ NewClient \in [there : BOOLEAN, handler : BOOLEAN, linked : BOOLEAN,
              profile : APIUsers \cup {Nobody}, session : APIUsers \cup {Nobody}]
  BY DEF GoodClient, NewClient
<1>3. clients' = [k \in Handles |-> IF objects'[k].type = "client" /\ objects[k] = NoObject
                                    THEN NewClient ELSE clients[k]]
  BY DEF SENC_Connect
<1>4. \A k \in Handles : objects[k].type = "client" => objects'[k] = objects[k]
  BY <1>1 DEF GivesWell, NoObject
<1>5. ASSUME NEW k \in Handles
      PROVE  GoodClient(clients'[k]) /\ (clients'[k].there => objects'[k].type = "client")
  BY <1>2, <1>3, <1>4 DEF ApiInv, ClientsGood
<1>6. ClientsGood'
  BY <1>3, <1>5 DEF ClientsGood, GoodClient
<1> QED
  BY <1>1, <1>6 DEF GivesWell, ApiInv

LEMMA LogInInv ==
    ASSUME ApiInv, NEW h \in held, NEW u \in APIUsers, NEW o, SENC_LogIn(h, u, o)
    PROVE  ApiInv'
<1> DEFINE c == Connected(Client(h))
<1>1. h \in Handles /\ GoodClient(clients[h])
  BY DEF ApiInv, HeldAllocated, ClientsGood
<1>2. GoodClient(c) /\ c.there = clients[h].there
  BY <1>1, ApiConstants DEF Connected, Client, GoodClient
<1>3. GivesWell
  BY RetNullOrErrGives DEF SENC_LogIn
<1>4. CASE UNCHANGED clients
  BY <1>3, <1>4, CallKeepsAll
<1>5. CASE SetClient(h, c)
  BY <1>2, <1>3, <1>5, CallKeeps
<1>6. CASE c.linked /\ c.session = Nobody
           /\ (SetClient(h, [c EXCEPT !.profile = u, !.session = u]) \/ SetClient(h, [c EXCEPT !.session = u]))
  <2>1. c.profile = Nobody
    BY <1>2, <1>6 DEF GoodClient
  <2>2. c.handler
    BY <1>1 DEF Connected, Client, GoodClient
  <2>3. GoodClient([c EXCEPT !.profile = u, !.session = u]) /\ GoodClient([c EXCEPT !.session = u])
    BY <1>2, <1>6, <2>1, <2>2 DEF GoodClient
  <2>4. [c EXCEPT !.profile = u, !.session = u].there = c.there /\ [c EXCEPT !.session = u].there = c.there
    BY <1>2 DEF GoodClient
  <2> HIDE DEF c
  <2> QED
    BY <1>2, <1>3, <1>6, <2>3, <2>4, CallKeeps
<1> QED
  BY <1>4, <1>5, <1>6 DEF SENC_LogIn

LEMMA LogOutInv ==
    ASSUME ApiInv, NEW h \in held, NEW o, SENC_LogOut(h, o)
    PROVE  ApiInv'
<1>1. GoodClient(clients[h])
  BY DEF ApiInv, HeldAllocated, ClientsGood
<1>2. GoodClient(LoggedOut(clients[h])) /\ LoggedOut(clients[h]).there = clients[h].there
  BY <1>1 DEF GoodClient, LoggedOut
<1>3. GivesWell
  BY RetNullOrErrGives DEF SENC_LogOut
<1>4. UNCHANGED clients \/ SetClient(h, LoggedOut(clients[h]))
  BY DEF SENC_LogOut, Client
<1> QED
  BY <1>2, <1>3, <1>4, CallKeeps

LEMMA LoseLinkInv ==
    ASSUME ApiInv, NEW h \in held, LoseLink(h)
    PROVE  ApiInv'
<1> DEFINE c == [clients[h] EXCEPT !.linked = FALSE, !.session = Nobody]
<1>1. UNCHANGED <<objects, held, lastCall>> /\ SetClient(h, c)
  BY DEF LoseLink, Client
<1>2. GoodClient(clients[h])
  BY DEF ApiInv, HeldAllocated, ClientsGood
<1>3. GoodClient(c) /\ c.there = clients[h].there
  BY <1>2 DEF GoodClient
<1>4. GivesWell
  BY <1>1 DEF GivesWell, ApiInv, HeapTyped, HeldAllocated, LastCallShows, SENC_HasError, TypeOf
<1> HIDE DEF c
<1> QED
  BY <1>1, <1>3, <1>4, CallKeeps

\* The calls that change no client.
LEMMA PlainCallInv ==
    ASSUME ApiInv, UNCHANGED clients, NEW o,
           \/ RetNullOrErr(o)
           \/ \E type \in ObjectTypes \ {"error"} : RetNew(type, o)
           \/ UNCHANGED <<objects, held, lastCall>>
           \/ UNCHANGED <<objects, held>> /\ lastCall'.failed /\ lastCall'.swallowed
              /\ lastCall'.handle = NullHandle
    PROVE  ApiInv'
<1>3. CASE UNCHANGED <<objects, held>> /\ lastCall'.failed /\ lastCall'.swallowed
           /\ lastCall'.handle = NullHandle
  <2>1. LastCallShows'
    BY <1>3, ApiConstants DEF LastCallShows
  <2> QED
    BY <1>3, <2>1, NothingGiven, CallKeepsAll
<1>1. CASE UNCHANGED <<objects, held, lastCall>>
  BY <1>1 DEF ApiInv, HeapTyped, HeldAllocated, LastCallShows, ClientsGood, SENC_HasError, TypeOf
<1>2. CASE RetNullOrErr(o) \/ \E type \in ObjectTypes \ {"error"} : RetNew(type, o)
  BY <1>2, RetNullOrErrGives, RetNewGives, CallKeepsAll
<1> QED
  BY <1>1, <1>2, <1>3

LEMMA NextApiInv == ApiInv /\ [ApiNext]_apiVars => ApiInv'
<1> SUFFICES ASSUME ApiInv, [ApiNext]_apiVars PROVE ApiInv'
  OBVIOUS
<1>1. CASE UNCHANGED apiVars
  BY <1>1, PlainCallInv DEF apiVars
<1>2. ASSUME NEW o \in Outcomes, SENC_NewCiphertext(o) \/ SENC_GetBytesBase64(o) \/ SENC_GetCiphertextC1(o)
      PROVE  ApiInv'
  BY <1>2, PlainCallInv DEF SENC_NewCiphertext, SENC_GetBytesBase64, SENC_GetCiphertextC1, ObjectTypes
<1>3. ASSUME NEW o \in Outcomes, NEW h \in held,
             \/ SENC_MakeUserSet(h, o) \/ SENC_GetUserSets(h, o) \/ SENC_GetUserSetMembers(h, o)
             \/ SENC_IterUserProfile(h, o) \/ SENC_Encrypt(h, o)
             \/ SENC_GetProfileRecordBytes(o) \/ SENC_Decrypt(h, o)
      PROVE  ApiInv'
  <2>1. UNCHANGED clients
    BY <1>3 DEF SENC_MakeUserSet, SENC_GetUserSets, SENC_GetUserSetMembers,
       SENC_IterUserProfile, SENC_Encrypt, SENC_GetProfileRecordBytes, SENC_Decrypt, Posts
  <2>2. \/ RetNullOrErr(o)
        \/ \E type \in ObjectTypes \ {"error"} : RetNew(type, o)
        \/ UNCHANGED <<objects, held, lastCall>>
    BY <1>3 DEF SENC_MakeUserSet, SENC_GetUserSets, SENC_GetUserSetMembers,
       SENC_IterUserProfile, SENC_Encrypt, SENC_GetProfileRecordBytes, SENC_Decrypt, Posts, ObjectTypes
  <2> QED
    BY <2>1, <2>2, PlainCallInv
<1>4. ASSUME NEW o \in Outcomes, NEW h \in held, SENC_ForceUpdate(h, o)
      PROVE  ApiInv'
  <2>1. UNCHANGED clients
    BY <1>4 DEF SENC_ForceUpdate
  <2>2. \/ RetNullOrErr(o)
        \/ UNCHANGED <<objects, held>> /\ lastCall'.failed /\ lastCall'.swallowed
           /\ lastCall'.handle = NullHandle
    BY <1>4 DEF SENC_ForceUpdate
  <2> QED
    BY <2>1, <2>2, PlainCallInv
<1> QED
  BY <1>1, <1>2, <1>3, <1>4, FreeHandleInv, ConnectInv, LogInInv, LogOutInv, DisconnectInv, LoseLinkInv DEF ApiNext

\* No handle leaks or dangles; a call that returns shows that it failed by an error handle,
\* also with no memory for one, but for the update that the server refused, which returns
\* null; and a profile is of the session's user while both last (new_instance, RetNew,
\* SENC_FreeHandle, update_callback, the Client behind a handle).  Nothing is said of a call
\* that ends the process instead.
THEOREM HandlesAreSound == ApiSpec => []HandlesSound
<1>1. ApiSpec => []ApiInv
  BY InitApiInv, NextApiInv, PTL DEF ApiSpec
<1> QED
  BY <1>1, Sound, PTL

-----------------------------------------------------------------------------
\* The console client's menus.

Ways == {"connecting", "connected", "ended"}

\* What the variables hold, and where a line can be on its way.
Typed ==
    /\ menu \in {"start", "login", "main", "gone", "aborted"}
    /\ status \in {"NoChange", "Connected"} /\ (menu \in {"start", "login"} => status = "NoChange")
    /\ session \in [at : Ways, user : Lines \cup {NoUser}]
    /\ answer = NoAnswer \/ answer.updates \subseteq UpdateKinds
    /\ shown.fetched \subseteq shown.printed

\* An option runs in its own menu; a login has read the name by the time it posts.
OptionRuns ==
    /\ menu = "login" => option \in LoginOpts \cup {NoOption}
    /\ menu = "main" => option \in MainOpts \cup {NoOption}
    /\ menu \notin {"login", "main"} => option = NoOption
    /\ option = NoOption => asks = <<>>
    /\ option \in {Signup, Login} =>
          asks \in Seq({InputWord}) /\ given \in Seq(Lines) /\ Len(asks) + Len(given) >= 2

Posted == option # NoOption /\ option.posts /\ asks = <<>> /\ ~GiveUp

\* Only a request that was posted is answered.
AnswersArePosted == answer # NoAnswer => Posted

\* Before the login menu there is a session of nobody; in it there is one of somebody only
\* between the server's answer to a login and its receipt, or if it broke in between.
LoginSession ==
    /\ menu = "start" => session = [at |-> "connecting", user |-> NoUser]
    /\ menu = "login" =>
         /\ \/ session.user = NoUser /\ session.at \in {"connecting", "ended"}
            \/ /\ Posted /\ option \in {Signup, Login}
               /\ \/ session.at = "ended" /\ answer = NoAnswer
                  \/ session.at = "connected" /\ answer # NoAnswer /\ answer.is = "success"
         /\ answer # NoAnswer /\ answer.is \notin {"error", "refused"} =>
               \/ option = Logout /\ session.at = "ended"
               \/ option \in {Signup, Login} /\ session.at = "connected" /\ session.user # NoUser

\* The main menu has a user's session, or one that ended.
MainSession ==
    /\ menu = "main" =>
         /\ session.at \in {"connected", "ended"} /\ session.user # NoUser
         /\ answer # NoAnswer /\ option = Logout => session.at = "ended"
    /\ menu = "gone" => session.at = "ended"

\* The inductive invariant.
MenuInv == Typed /\ OptionRuns /\ AnswersArePosted /\ LoginSession /\ MainSession

LEMMA Matches == MenuInv => MenuMatchesSession
<1> SUFFICES ASSUME MenuInv PROVE MenuMatchesSession
  OBVIOUS
<1>1. option = NoOption => ~Posted
  BY DEF Posted
<1>2. menu = "login" /\ option = NoOption => session.user = NoUser /\ session.at \in {"connecting", "ended"}
  BY <1>1 DEF MenuInv, LoginSession
<1> QED
  BY <1>2 DEF MenuInv, MenuMatchesSession, MainSession, Typed

\* What tells the options apart.
LEMMA Options ==
    /\ Signup \notin MainOpts /\ Login \notin MainOpts /\ Logout \notin {Signup, Login}
    /\ LoginOpts = {Signup, Login, Logout} /\ Update \notin LoginOpts
    /\ NoOption \notin LoginOpts \cup MainOpts
    /\ \A opt \in LoginOpts : opt.posts
    /\ \A opt \in {Signup, Login} : opt.asks \in Seq({InputWord}) /\ Len(opt.asks) >= 2
<1>1. /\ Signup.name = "signup" /\ Login.name = "login" /\ Logout.name = "logout"
      /\ MakeUserSet.name = "make_userset" /\ GetUserSets.name = "get_usersets"
      /\ GetMembers.name = "get_members" /\ Encrypt.name = "encrypt" /\ Decrypt.name = "decrypt"
      /\ Update.name = "update" /\ Participate.name = "participate" /\ CompPart.name = "comp_part"
      /\ SendPart.name = "send_part" /\ JoinParts.name = "join_parts" /\ NoOption.name = ""
  BY DEF NoOption, Option, Signup, Login, Logout, MakeUserSet, GetUserSets,
     GetMembers, Encrypt, Decrypt, Update, Participate, CompPart, SendPart, JoinParts
<1>2. Signup.posts /\ Login.posts /\ Logout.posts
  BY DEF Option, Signup, Login, Logout
<1>3. /\ Signup.asks = <<InputWord, InputWord, InputWord>> /\ Login.asks = <<InputWord, InputWord>>
      /\ NoOption.asks = <<>>
  BY DEF Option, Signup, Login, NoOption
<1>4. Signup.asks \in Seq({InputWord}) /\ Len(Signup.asks) = 3 /\ Login.asks \in Seq({InputWord}) /\ Len(Login.asks) = 2
  BY <1>3
<1>5. Signup \notin MainOpts /\ Login \notin MainOpts /\ NoOption \notin MainOpts
  BY <1>1 DEF MainOpts
<1>6. /\ NoOption \notin LoginOpts /\ Update \notin LoginOpts /\ Logout \notin {Signup, Login}
      /\ LoginOpts = {Signup, Login, Logout}
  <2>1. Update # Signup /\ Update # Login /\ Update # Logout
    BY <1>1
  <2>2. NoOption # Signup /\ NoOption # Login /\ NoOption # Logout
    BY <1>1
  <2>3. Logout # Signup /\ Logout # Login
    BY <1>1
  <2> QED
    BY <2>1, <2>2, <2>3, Zenon DEF LoginOpts
<1>7. \A opt \in {Signup, Login} : opt.asks \in Seq({InputWord}) /\ Len(opt.asks) >= 2
  <2>1. Len(Signup.asks) >= 2 /\ Len(Login.asks) >= 2
    BY <1>4
  <2> QED
    BY <1>4, <2>1, Zenon
<1> QED
  BY <1>2, <1>5, <1>6, <1>7

LEMMA InitMenuInv == ClientProgramInit => MenuInv
<1> SUFFICES ASSUME ClientProgramInit PROVE MenuInv
  OBVIOUS
<1>1. Typed
  BY DEF ClientProgramInit, Typed, Ways, Nothing
<1>2. OptionRuns
  BY Options DEF ClientProgramInit, OptionRuns
<1> QED
  BY <1>1, <1>2 DEF ClientProgramInit, MenuInv, AnswersArePosted, LoginSession, MainSession

-----------------------------------------------------------------------------
LEMMA HandshakeInv ==
    ASSUME MenuInv, NEW r \in {"open", "refused", "lost"}, Handshake(r)
    PROVE  MenuInv'
<1>1. option = NoOption /\ ~Posted /\ UNCHANGED <<option, asks, given, answer, status, shown, eof>>
  BY DEF Handshake, optionVars, MenuInv, OptionRuns, Posted
<1>2. answer = NoAnswer /\ ~Posted'
  BY <1>1 DEF MenuInv, AnswersArePosted, Posted
<1>3. menu' \in {"login", "gone", "aborted"} /\ session' \in [at : Ways, user : Lines \cup {NoUser}]
  BY DEF Handshake, MenuInv, Typed, Ways
<1>4. /\ menu' = "login" => session'.user = NoUser /\ session'.at = "connecting"
      /\ menu' = "gone" => session'.at = "ended"
      /\ menu = "start"
  BY DEF Handshake, MenuInv, LoginSession
<1>5. Typed'
  BY <1>1, <1>2, <1>3, <1>4 DEF MenuInv, Typed
<1>6. OptionRuns'
  BY <1>1, <1>3, Options DEF MenuInv, OptionRuns
<1> QED
  BY <1>1, <1>2, <1>3, <1>4, <1>5, <1>6 DEF MenuInv, AnswersArePosted, LoginSession, MainSession

LEMMA ChooseOptionInv ==
    ASSUME MenuInv, NEW opt, ChooseOption(opt)
    PROVE  MenuInv'
<1>1. option = NoOption /\ ~Posted /\ answer = NoAnswer
  BY DEF ChooseOption, MenuInv, AnswersArePosted, Posted
<1>2. UNCHANGED <<menu, status, session, answer>> /\ shown' = Nothing
  BY DEF ChooseOption, serverVars
<1>3. /\ menu = "login" => opt \in LoginOpts
      /\ menu = "main" => opt \in MainOpts
      /\ menu \in {"login", "main"}
  BY DEF ChooseOption
<1>4. Typed'
  BY <1>1, <1>2 DEF MenuInv, Typed, Nothing
<1>5. OptionRuns'
  <2>1. option' = opt /\ asks' = opt.asks /\ given' = <<>>
    BY DEF ChooseOption
  <2>2. opt \in {Signup, Login} => opt.asks \in Seq({InputWord}) /\ Len(opt.asks) >= 2
    BY Options
  <2>3. <<>> \in Seq(Lines) /\ Len(<<>>) = 0
    OBVIOUS
  <2>4. opt \in {Signup, Login} => asks' \in Seq({InputWord}) /\ given' \in Seq(Lines) /\ Len(asks') + Len(given') >= 2
    BY <2>1, <2>2, <2>3
  <2> QED
    BY <1>2, <1>3, <2>1, <2>4, Options DEF OptionRuns
<1> QED
  BY <1>1, <1>2, <1>4, <1>5 DEF MenuInv, AnswersArePosted, LoginSession, MainSession

LEMMA TypeLineInv ==
    ASSUME MenuInv, NEW l \in Lines, TypeLine(l)
    PROVE  MenuInv'
<1>1. ~Posted /\ answer = NoAnswer
  BY DEF TypeLine, MenuInv, AnswersArePosted, Posted
<1>2. UNCHANGED <<menu, status, option, session, answer, shown>>
  BY DEF TypeLine, serverVars
<1>3. OptionRuns'
  <2>1. ASSUME option \in {Signup, Login}
        PROVE  asks' \in Seq({InputWord}) /\ given' \in Seq(Lines) /\ Len(asks') + Len(given') >= 2
    <3>1. asks \in Seq({InputWord}) /\ asks # <<>> /\ given \in Seq(Lines) /\ Len(asks) + Len(given) >= 2
      BY <2>1 DEF MenuInv, OptionRuns, TypeLine
    <3>2. Head(asks) = InputWord
      BY <3>1
    <3>3. InputWord.takes = Lines /\ InputWord.list = FALSE
      BY DEF InputWord, Input
    <3>4. asks' = Tail(asks) /\ given' = Append(given, l)
      BY <2>1, <3>2, <3>3, Options DEF TypeLine
    <3>5. Len(Tail(asks)) = Len(asks) - 1 /\ Len(Append(given, l)) = Len(given) + 1
      BY <3>1
    <3>6. Len(asks) \in Nat /\ Len(given) \in Nat
      BY <3>1
    <3> QED
      BY <3>1, <3>4, <3>5, <3>6
  <2>2. option # NoOption
    BY DEF TypeLine, MenuInv, OptionRuns
  <2> QED
    BY <1>2, <2>1, <2>2 DEF MenuInv, OptionRuns
<1> QED
  BY <1>1, <1>2, <1>3 DEF MenuInv, Typed, AnswersArePosted, LoginSession, MainSession

-----------------------------------------------------------------------------
\* An option that has no answer to wait for returns to a menu of its session.
LEMMA ReturnInv ==
    ASSUME MenuInv, NEW st \in {"NoChange", "Connected"}, Return(st), ~Posted, option # NoOption,
           UNCHANGED <<session, answer, shown>>,
           menu = "login" => st = "NoChange"
    PROVE  MenuInv'
<1>1. answer = NoAnswer /\ menu \in {"login", "main"}
  BY DEF MenuInv, AnswersArePosted, OptionRuns, Typed
<1>2. menu' = menu /\ status' = st /\ option' = NoOption /\ asks' = <<>>
  BY <1>1 DEF Return, NextMenu
<1>3. Typed' /\ OptionRuns'
  BY <1>1, <1>2, Options DEF MenuInv, Typed, OptionRuns
<1> QED
  BY <1>1, <1>2, <1>3 DEF MenuInv, AnswersArePosted, LoginSession, MainSession

LEMMA LocalReturnsInv ==
    ASSUME MenuInv, (\E l \in Lines : TypeLineThrows(l)) \/ ComputeThrows \/ Compute \/ Stay
    PROVE  MenuInv'
<1>1. UNCHANGED <<session, answer, shown>>
  BY DEF TypeLineThrows, ComputeThrows, Compute, Stay, serverVars
<1>2. ~Posted
  BY DEF TypeLineThrows, ComputeThrows, Compute, Stay, Posted
<1>3. option # NoOption
  BY DEF TypeLineThrows, ComputeThrows, Compute, Stay, MenuInv, OptionRuns
<1>4. Return(status) \/ Return("NoChange") \/ (Return("Connected") /\ ~option.posts)
  BY DEF TypeLineThrows, ComputeThrows, Compute, Stay
<1>5. status \in {"NoChange", "Connected"} /\ (menu = "login" => status = "NoChange")
  BY DEF MenuInv, Typed
<1>6. menu = "login" => option.posts
  BY <1>3, Options DEF MenuInv, OptionRuns
<1> QED
  BY <1>1, <1>2, <1>3, <1>4, <1>5, <1>6, ReturnInv

-----------------------------------------------------------------------------
LEMMA ServeInv ==
    ASSUME MenuInv, NEW is \in {"success", "refused", "error"}, NEW ups \in SUBSET UpdateKinds, Serve(is, ups)
    PROVE  MenuInv'
<1>1. Posted /\ Posted' /\ answer = NoAnswer /\ session.at \in {"connecting", "connected"}
      /\ UNCHANGED <<menu, status, option, asks, given, shown, eof>>
  BY DEF Serve, Posting, Posted, optionVars, GiveUp
<1>2. answer' = [of |-> option.name, is |-> is, updates |-> ups] /\ answer' # NoAnswer
  BY DEF Serve, NoAnswer
<1>3. menu \in {"login", "main"}
  BY <1>1 DEF MenuInv, OptionRuns, Posted, Typed
<1>4. option \in {Signup, Login} => given[1] \in Lines
  BY <1>1 DEF MenuInv, OptionRuns, Posted
<1>5. /\ is = "success" /\ option \in {Signup, Login} =>
            session' = [at |-> "connected", user |-> given[1]]
      /\ ~(is = "success" /\ option \in {Signup, Login}) /\ option = Logout =>
            session' = [session EXCEPT !.at = "ended"]
      /\ ~(is = "success" /\ option \in {Signup, Login}) /\ option # Logout =>
            session' = session
  BY Options DEF Serve
<1>6. Typed'
  BY <1>1, <1>2, <1>3, <1>4, <1>5 DEF MenuInv, Typed, Ways
<1>7. OptionRuns' /\ AnswersArePosted'
  BY <1>1 DEF MenuInv, OptionRuns, AnswersArePosted
<1>8. CASE menu = "login"
  <2>1. session.user = NoUser /\ session.at = "connecting"
    BY <1>1, <1>8, Options DEF MenuInv, LoginSession
  <2>2. option \in {Signup, Login, Logout}
    BY <1>1, <1>8, Options DEF MenuInv, OptionRuns, Posted
  <2>3. option = Logout => is = "success"
    BY <2>1, Options DEF Serve
  <2>4. LoginSession'
    <3>1. CASE option = Logout
      BY <1>1, <1>2, <1>5, <1>8, <2>1, <2>3, <3>1, Options DEF LoginSession, MenuInv, Typed
    <3>2. CASE option \in {Signup, Login} /\ is = "success"
      BY <1>1, <1>2, <1>4, <1>5, <1>8, <3>2, TypedNamesAreUsers DEF LoginSession
    <3>3. CASE option \in {Signup, Login} /\ is # "success"
      BY <1>1, <1>2, <1>5, <1>8, <2>1, <3>3, Options DEF LoginSession
    <3> QED
      BY <2>2, <3>1, <3>2, <3>3
  <2> QED
    BY <1>1, <1>6, <1>7, <1>8, <2>4 DEF MenuInv, MainSession
<1>9. CASE menu = "main"
  <2>1. option \in MainOpts
    BY <1>1, <1>9 DEF MenuInv, OptionRuns, Posted
  <2>2. IF option = Logout THEN session' = [session EXCEPT !.at = "ended"] ELSE session' = session
    BY <1>5, <2>1, Options
  <2>3. MainSession'
    BY <1>1, <1>9, <2>2 DEF MainSession, MenuInv, Typed
  <2> QED
    BY <1>1, <1>6, <1>7, <1>9, <2>3 DEF MenuInv, LoginSession
<1> QED
  BY <1>3, <1>8, <1>9

LEMMA BreakInv == MenuInv /\ Break => MenuInv'
<1> SUFFICES ASSUME MenuInv, Break PROVE MenuInv'
  OBVIOUS
<1>1. /\ UNCHANGED <<menu, status, option, asks, given, shown, eof>> /\ answer' = NoAnswer
      /\ session' = [session EXCEPT !.at = "ended"] /\ menu # "start"
  BY DEF Break, optionVars
<1>2. session'.at = "ended" /\ session'.user = session.user
  BY <1>1 DEF MenuInv, Typed
<1>3. Posted' = Posted
  BY <1>1 DEF Posted, GiveUp
<1>4. Typed' /\ OptionRuns' /\ AnswersArePosted'
  BY <1>1 DEF MenuInv, Typed, Ways, OptionRuns, AnswersArePosted
<1>5. LoginSession'
  BY <1>1, <1>2, <1>3 DEF MenuInv, LoginSession
<1>6. MainSession'
  BY <1>1, <1>2 DEF MenuInv, MainSession
<1> QED
  BY <1>4, <1>5, <1>6 DEF MenuInv

LEMMA ReceiveInv == MenuInv /\ Receive => MenuInv'
<1> SUFFICES ASSUME MenuInv, Receive PROVE MenuInv'
  OBVIOUS
<1> DEFINE st == IF answer.is = "error" THEN status
                 ELSE IF answer.is = "refused" THEN "NoChange"
                 ELSE IF option = Logout THEN "Disconnected" ELSE "Connected"
<1>1. answer # NoAnswer /\ answer' = NoAnswer /\ Return(st) /\ UNCHANGED session
  BY DEF Receive
<1>2. Posted /\ menu \in {"login", "main"} /\ session.at \in Ways
  BY <1>1 DEF MenuInv, AnswersArePosted, Posted, OptionRuns, Typed
<1>3. /\ answer.is = "error" => st = status
      /\ answer.is = "refused" => st = "NoChange"
      /\ answer.is \notin {"error", "refused"} => st = IF option = Logout THEN "Disconnected" ELSE "Connected"
  OBVIOUS
<1> HIDE DEF st
<1>4. status' \in {"NoChange", "Connected"} /\ (menu' = "login" => status' = "NoChange")
      /\ option' = NoOption /\ asks' = <<>> /\ menu' = NextMenu(menu, st)
  BY <1>1, <1>2, <1>3 DEF Return, NextMenu, MenuInv, Typed
<1>5. shown'.fetched \subseteq shown'.printed
  BY <1>1 DEF Receive, Printed, MenuInv, Typed
<1>6. menu' \in {"login", "main", "gone"}
  BY <1>2, <1>4 DEF NextMenu
<1>7. Typed' /\ OptionRuns' /\ AnswersArePosted'
  BY <1>1, <1>4, <1>5, <1>6, Options DEF MenuInv, Typed, OptionRuns, AnswersArePosted
<1>8. LoginSession' /\ MainSession'
  <2>1. CASE menu = "login" /\ answer.is \in {"error", "refused"}
    <3>1. menu' = "login"
      BY <1>3, <1>4, <2>1 DEF NextMenu, MenuInv, Typed
    <3>2. session.user = NoUser /\ session.at \in {"connecting", "ended"}
      BY <1>1, <2>1 DEF MenuInv, LoginSession
    <3> QED
      BY <1>1, <3>1, <3>2 DEF LoginSession, MainSession
  <2>2. CASE menu = "login" /\ answer.is \notin {"error", "refused"}
    <3>1. \/ option = Logout /\ session.at = "ended"
          \/ option \in {Signup, Login} /\ session.at = "connected" /\ session.user # NoUser
      BY <1>1, <2>2 DEF MenuInv, LoginSession
    <3>2. option = Logout => menu' = "gone"
      BY <1>3, <1>4, <2>2 DEF NextMenu
    <3>3. option # Logout => menu' = "main"
      BY <1>3, <1>4, <2>2 DEF NextMenu
    <3> QED
      BY <1>1, <3>1, <3>2, <3>3, Options DEF LoginSession, MainSession
  <2>3. CASE menu = "main"
    <3>1. session.at \in {"connected", "ended"} /\ session.user # NoUser
          /\ (option = Logout => session.at = "ended")
      BY <1>1, <2>3 DEF MenuInv, MainSession
    <3>2. menu' = "main" \/ (menu' = "gone" /\ option = Logout)
      BY <1>3, <1>4, <2>3 DEF NextMenu, MenuInv, Typed
    <3> QED
      BY <1>1, <3>1, <3>2 DEF LoginSession, MainSession
  <2> QED
    BY <1>2, <2>1, <2>2, <2>3
<1> QED
  BY <1>7, <1>8 DEF MenuInv

LEMMA ReceiveThrowsInv == MenuInv /\ ReceiveThrows => MenuInv'
<1> SUFFICES ASSUME MenuInv, ReceiveThrows PROVE MenuInv'
  OBVIOUS
<1>1. /\ menu' = "gone" /\ status' = "NoChange" /\ option' = NoOption /\ asks' = <<>>
      /\ answer = NoAnswer /\ session.at = "ended" /\ UNCHANGED <<session, answer, shown>>
  <2>1. menu # "gone"
    BY DEF ReceiveThrows, Posting, MenuInv, OptionRuns
  <2> QED
    BY <2>1 DEF ReceiveThrows, Posting, Return, NextMenu, serverVars
<1> QED
  BY <1>1, Options DEF MenuInv, Typed, OptionRuns, AnswersArePosted, LoginSession, MainSession

LEMMA AsideInv ==
    ASSUME MenuInv, UNCHANGED <<menu, status, optionVars, session, answer, shown>>
    PROVE  MenuInv'
<1>1. UNCHANGED <<option, asks, given>> /\ Posted' = Posted
  BY DEF optionVars, Posted, GiveUp
<1> QED
  BY <1>1 DEF MenuInv, Typed, OptionRuns, AnswersArePosted, LoginSession, MainSession

LEMMA NextMenuInv == MenuInv /\ [ClientProgramNext]_clientProgramVars => MenuInv'
<1> SUFFICES ASSUME MenuInv, [ClientProgramNext]_clientProgramVars PROVE MenuInv'
  OBVIOUS
<1>1. CASE CloseInput \/ UNCHANGED clientProgramVars
  BY <1>1, AsideInv DEF CloseInput, clientProgramVars, serverVars, optionVars
<1>2. CASE \E is \in {"success", "refused", "error"} : Serve(is, {})
  BY <1>2, ServeInv
<1> QED
  BY <1>1, <1>2, HandshakeInv, ChooseOptionInv, TypeLineInv, LocalReturnsInv, ServeInv, BreakInv,
     ReceiveInv, ReceiveThrowsInv DEF ClientProgramNext

\* The menu a user sees is the one of the session the server keeps, whatever is typed,
\* refused, thrown or lost; an update is printed whole (login_menu, main_menu, run_client).
THEOREM MenusMatchSessions == ClientProgramSpec => []MenuMatchesSession
<1>1. ClientProgramSpec => []MenuInv
  BY InitMenuInv, NextMenuInv, PTL DEF ClientProgramSpec
<1> QED
  BY <1>1, Matches, PTL
=============================================================================
