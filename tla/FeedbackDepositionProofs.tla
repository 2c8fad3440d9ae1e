---------------------- MODULE FeedbackDepositionProofs ----------------------
(***************************************************************************)
(* Proofs about the feedback ledger, for any items, orders of their ids    *)
(* and number of faults, if the runs of the automation do not overlap.     *)
(***************************************************************************)
EXTENDS FeedbackDeposition, FiniteSetTheorems, SequenceTheorems, TLAPS

\* There is one process that runs the automation: a rerun begins when the run
\* it replaces has ended or was killed.
OneRunner == \E r \in Runners : Runners = {r}

Piece == [item : Items, part : {"head", "rest", "newline"}, by : Runners]

\* What the ledger will hold once the append under way is written.
Full(r) == ledger \o pending[r]

\* ParsesAt, for the first n pieces of a file.
ParsesIn(file, n, i) ==
    /\ i = 1 \/ file[i-1].part = "newline"
    /\ i < n
    /\ file[i].part = "head"
    /\ file[i+1] = [file[i] EXCEPT !.part = "rest"]
    /\ i + 1 < n => file[i+2].part = "newline"

-----------------------------------------------------------------------------
(* Lines. *)

\* Where the pieces of a line are, lines counted from 0.
LEMMA LineOfPiece ==
    ASSUME NEW i \in Nat \ {0}
    PROVE  \E a \in Nat : /\ (i - 1) \div 3 = a
                          /\ \/ i = 3 * a + 1 /\ (i - 1) % 3 = 0
                             \/ i = 3 * a + 2 /\ (i - 1) % 3 = 1
                             \/ i = 3 * a + 3 /\ (i - 1) % 3 = 2
OBVIOUS

LEMMA PieceOfLine ==
    ASSUME NEW a \in Nat, NEW i \in Nat
    PROVE  /\ i = 3 * a + 1 => (i - 1) \div 3 = a /\ (i - 1) % 3 = 0
           /\ i = 3 * a + 2 => (i - 1) \div 3 = a /\ (i - 1) % 3 = 1
           /\ i = 3 * a + 3 => (i - 1) \div 3 = a /\ (i - 1) % 3 = 2
OBVIOUS

\* A piece that completes the text begun by another.
LEMMA RestOf ==
    ASSUME NEW p \in Piece, NEW q \in Piece
    PROVE  q = [p EXCEPT !.part = "rest"]
             <=> q.item = p.item /\ q.part = "rest" /\ q.by = p.by
BY DEF Piece

\* The part a piece of the lines of s is, and of which item.
PartOf(file, i, part, x) == file[i].part = part /\ file[i].item = x

\* The lines of a sequence of items: a head, a rest and a newline for each.
LEMMA LinesAre ==
    ASSUME NEW s \in Seq(Items), NEW r \in Runners
    PROVE  /\ Lines(s, r) \in Seq(Piece)
           /\ Len(Lines(s, r)) = 3 * Len(s)
           /\ \A i \in 1 .. 3 * Len(s) : Lines(s, r)[i].by = r
           /\ \A a \in 0 .. Len(s) - 1 : \A i \in Nat :
                 /\ i = 3*a+1 => PartOf(Lines(s, r), i, "head", s[a+1])
                 /\ i = 3*a+2 => PartOf(Lines(s, r), i, "rest", s[a+1])
                 /\ i = 3*a+3 => PartOf(Lines(s, r), i, "newline", s[a+1])
<1> DEFINE n == 3 * Len(s)
           piece(i) == [item |-> s[1 + ((i - 1) \div 3)], part |-> Parts[1 + ((i - 1) % 3)],
                        by |-> r]
<1>1. Len(s) \in Nat /\ n \in Nat
  OBVIOUS
<1>2. ASSUME NEW i \in 1..n PROVE piece(i) \in Piece
  <2>1. PICK a \in Nat : /\ (i - 1) \div 3 = a
                         /\ \/ i = 3 * a + 1 /\ (i - 1) % 3 = 0
                            \/ i = 3 * a + 2 /\ (i - 1) % 3 = 1
                            \/ i = 3 * a + 3 /\ (i - 1) % 3 = 2
    BY LineOfPiece
  <2>2. a + 1 \in 1..Len(s)
    BY <1>1, <2>1
  <2>3. s[1 + ((i - 1) \div 3)] \in Items
    BY <2>1, <2>2
  <2>4. Parts[1 + ((i - 1) % 3)] \in {"head", "rest", "newline"}
    BY <2>1 DEF Parts
  <2> QED
    BY <2>3, <2>4 DEF Piece
<1>3. Lines(s, r) = [i \in 1..n |-> piece(i)]
  BY DEF Lines
<1>4. Lines(s, r) \in [1..n -> Piece]
  BY <1>2, <1>3
<1>5. Lines(s, r) \in Seq(Piece) /\ Len(Lines(s, r)) = n
  BY <1>1, <1>4, SeqDef, LenProperties
<1>6. \A i \in 1..n : /\ Lines(s, r)[i].by = r
                      /\ Lines(s, r)[i].item = s[1 + ((i - 1) \div 3)]
                      /\ Lines(s, r)[i].part = Parts[1 + ((i - 1) % 3)]
  BY <1>3
<1>7. ASSUME NEW a \in 0 .. Len(s) - 1, NEW i \in Nat
      PROVE  /\ i = 3*a+1 => PartOf(Lines(s, r), i, "head", s[a+1])
             /\ i = 3*a+2 => PartOf(Lines(s, r), i, "rest", s[a+1])
             /\ i = 3*a+3 => PartOf(Lines(s, r), i, "newline", s[a+1])
  <2>1. a \in Nat /\ (i \in {3*a+1, 3*a+2, 3*a+3} => i \in 1..n)
    BY <1>1
  <2>2. 1 + a = a + 1 /\ Parts[1+0] = "head" /\ Parts[1+1] = "rest" /\ Parts[1+2] = "newline"
    BY <2>1 DEF Parts
  <2>3. CASE i = 3*a+1
    BY <1>6, <2>1, <2>2, <2>3, PieceOfLine DEF PartOf
  <2>4. CASE i = 3*a+2
    BY <1>6, <2>1, <2>2, <2>4, PieceOfLine DEF PartOf
  <2>5. CASE i = 3*a+3
    BY <1>6, <2>1, <2>2, <2>5, PieceOfLine DEF PartOf
  <2> QED
    BY <2>1, <2>3, <2>4, <2>5
<1> QED
  BY <1>5, <1>6, <1>7

\* A reader of part of these lines finds the items whose line got that far.
LEMMA ParsesInLines ==
    ASSUME NEW s \in Seq(Items), NEW r \in Runners, NEW n \in 0 .. Len(Lines(s, r)),
           NEW i \in 1..n
    PROVE  ParsesIn(Lines(s, r), n, i)
             <=> \E a \in 0 .. Len(s) - 1 : i = 3 * a + 1 /\ 3 * a + 2 <= n
<1> DEFINE f == Lines(s, r)
<1>1. Len(s) \in Nat /\ n \in Nat /\ n <= 3 * Len(s) /\ i \in Nat \ {0}
  BY LinesAre
<1>2. \A a \in 0 .. Len(s) - 1 : \A k \in Nat :
         /\ k = 3*a+1 => PartOf(f, k, "head", s[a+1])
         /\ k = 3*a+2 => PartOf(f, k, "rest", s[a+1])
         /\ k = 3*a+3 => PartOf(f, k, "newline", s[a+1])
  BY LinesAre
<1>3. f \in [1 .. 3 * Len(s) -> Piece] /\ \A k \in 1 .. 3 * Len(s) : f[k].by = r
  BY LinesAre, LenProperties
<1> HIDE DEF f
<1>4. ASSUME ParsesIn(f, n, i)
      PROVE  \E a \in 0 .. Len(s) - 1 : i = 3 * a + 1 /\ 3 * a + 2 <= n
  <2>1. f[i].part = "head" /\ i < n
    BY <1>4 DEF ParsesIn
  <2>2. PICK a \in Nat : i = 3*a+1 \/ i = 3*a+2 \/ i = 3*a+3
    BY <1>1, LineOfPiece
  <2>3. a \in 0 .. Len(s) - 1
    BY <1>1, <2>2
  <2>4. i # 3*a+2 /\ i # 3*a+3
    BY <1>1, <1>2, <2>1, <2>3 DEF PartOf
  <2> QED
    BY <1>1, <2>1, <2>2, <2>3, <2>4
<1>5. ASSUME NEW a \in 0 .. Len(s) - 1, i = 3 * a + 1, 3 * a + 2 <= n
      PROVE  ParsesIn(f, n, i)
  <2>1. i = 1 \/ f[i-1].part = "newline"
    <3>1. CASE a = 0
      BY <1>5, <3>1
    <3>2. CASE a # 0
      <4>1. a - 1 \in 0 .. Len(s) - 1 /\ i - 1 \in Nat /\ i - 1 = 3 * (a - 1) + 3
        BY <1>1, <1>5, <3>2
      <4> QED
        BY <1>2, <4>1 DEF PartOf
    <3> QED
      BY <3>1, <3>2
  <2>2. /\ i \in 1 .. 3 * Len(s)
        /\ i + 1 \in 1 .. 3 * Len(s) /\ i + 1 \in Nat /\ i + 1 = 3*a+2
        /\ i + 2 \in Nat /\ i + 2 = 3*a+3
    BY <1>1, <1>5
  <2>3. PartOf(f, i, "head", s[a+1]) /\ PartOf(f, i+1, "rest", s[a+1])
          /\ PartOf(f, i+2, "newline", s[a+1])
    BY <1>1, <1>2, <1>5, <2>2
  <2>4. f[i+1] = [f[i] EXCEPT !.part = "rest"]
    BY <1>3, <2>2, <2>3, RestOf DEF PartOf
  <2> QED
    BY <1>1, <1>5, <2>1, <2>3, <2>4 DEF ParsesIn, PartOf
<1> QED
  BY <1>4, <1>5 DEF f

\* Lines after m other lines.
LEMMA LaterPiece ==
    ASSUME NEW i \in Nat \ {0}, NEW m \in Nat, i > 3 * m
    PROVE  /\ (i - 3 * m - 1) \div 3 = ((i - 1) \div 3) - m
           /\ (i - 3 * m - 1) % 3 = (i - 1) % 3
OBVIOUS

\* The elements of a concatenation.
LEMMA ConcatAt ==
    ASSUME NEW S, NEW f \in Seq(S), NEW g \in Seq(S), NEW m \in Nat, NEW n \in Nat,
           Len(f) = m, Len(g) = n
    PROVE  /\ f \o g \in Seq(S) /\ Len(f \o g) = m + n
           /\ \A i \in 1 .. m + n : (f \o g)[i] = IF i <= m THEN f[i] ELSE g[i - m]
BY ConcatProperties

\* Appending lines to lines.
LEMMA LinesConcat ==
    ASSUME NEW s \in Seq(Items), NEW t \in Seq(Items), NEW r \in Runners
    PROVE  Lines(s, r) \o Lines(t, r) = Lines(s \o t, r)
<1> DEFINE m == Len(s)
           n == 3 * (Len(s) + Len(t))
           line(i) == 1 + ((i - 1) \div 3)
           part(i) == Parts[1 + ((i - 1) % 3)]
<1>1. /\ Lines(s, r) \in Seq(Piece) /\ Len(Lines(s, r)) = 3 * m
      /\ Lines(t, r) \in Seq(Piece) /\ Len(Lines(t, r)) = 3 * Len(t)
      /\ m \in Nat /\ Len(t) \in Nat /\ n \in Nat
  BY LinesAre
<1>2. /\ s \o t \in Seq(Items) /\ Len(s \o t) = m + Len(t)
      /\ \A k \in 1 .. m + Len(t) : (s \o t)[k] = IF k <= m THEN s[k] ELSE t[k - m]
  BY ConcatProperties
<1>3. Lines(s \o t, r) \in Seq(Piece) /\ Len(Lines(s \o t, r)) = n
  BY <1>2, LinesAre
<1>4. /\ Lines(s, r) \o Lines(t, r) \in Seq(Piece)
      /\ Len(Lines(s, r) \o Lines(t, r)) = n
      /\ \A i \in 1..n :
            /\ i <= 3 * m => (Lines(s, r) \o Lines(t, r))[i] = Lines(s, r)[i]
            /\ i > 3 * m => (Lines(s, r) \o Lines(t, r))[i] = Lines(t, r)[i - 3 * m]
  <2> DEFINE f == Lines(s, r)
             g == Lines(t, r)
             p == 3 * m
             q == 3 * Len(t)
  <2>1. p \in Nat /\ q \in Nat /\ n = p + q
    BY <1>1
  <2>2. f \in Seq(Piece) /\ g \in Seq(Piece) /\ Len(f) = p /\ Len(g) = q
    BY <1>1
  <2> HIDE DEF n, p, q, f, g
  <2>3. /\ f \o g \in Seq(Piece) /\ Len(f \o g) = p + q
        /\ \A i \in 1 .. p + q : /\ i <= p => (f \o g)[i] = f[i]
                                 /\ i > p => (f \o g)[i] = g[i - p]
    <3>1. /\ f \o g \in Seq(Piece) /\ Len(f \o g) = Len(f) + Len(g)
          /\ \A i \in 1 .. Len(f) + Len(g) :
                (f \o g)[i] = IF i <= Len(f) THEN f[i] ELSE g[i - Len(f)]
      BY <2>2, ConcatProperties
    <3>2. ASSUME NEW i \in 1 .. p + q
          PROVE  /\ i <= p => (f \o g)[i] = f[i]
                 /\ i > p => (f \o g)[i] = g[i - p]
      <4>1. (f \o g)[i] = IF i <= p THEN f[i] ELSE g[i - p]
        BY <2>2, <3>1
      <4> QED
        BY <2>1, <4>1
    <3> QED
      BY <2>2, <3>1, <3>2
  <2> QED
    BY <2>1, <2>3 DEF p, f, g
<1>5. ASSUME NEW i \in 1..n
      PROVE  (Lines(s, r) \o Lines(t, r))[i] = Lines(s \o t, r)[i]
  <2>1. Lines(s \o t, r)[i] = [item |-> (s \o t)[line(i)], part |-> part(i), by |-> r]
    BY <1>2 DEF Lines
  <2>2. i \in Nat \ {0} /\ line(i) \in 1 .. m + Len(t)
    BY <1>1
  <2>3. CASE i <= 3 * m
    <3>1. i \in 1 .. 3 * m /\ line(i) <= m
      BY <1>1, <2>2, <2>3
    <3>2. Lines(s, r)[i] = [item |-> s[line(i)], part |-> part(i), by |-> r]
      BY <1>1, <3>1 DEF Lines
    <3>3. (s \o t)[line(i)] = s[line(i)]
      BY <1>2, <2>2, <3>1
    <3>4. (Lines(s, r) \o Lines(t, r))[i] = Lines(s, r)[i]
      BY <1>4, <2>3
    <3> QED
      BY <2>1, <3>2, <3>3, <3>4
  <2>4. CASE i > 3 * m
    <3> DEFINE j == i - 3 * m
    <3>1. j \in 1 .. 3 * Len(t) /\ ~(line(i) <= m)
      BY <1>1, <2>2, <2>4
    <3>2. line(j) = line(i) - m /\ part(j) = part(i)
      <4>1. (j - 1) \div 3 = ((i - 1) \div 3) - m /\ (j - 1) % 3 = (i - 1) % 3
        BY <1>1, <2>2, <2>4, LaterPiece
      <4>2. (i - 1) \div 3 \in Int
        BY <2>2
      <4> HIDE DEF j
      <4> QED
        BY <1>1, <4>1, <4>2
    <3>3. Lines(t, r)[j] = [item |-> t[line(j)], part |-> part(j), by |-> r]
      BY <1>1, <3>1 DEF Lines
    <3>4. (s \o t)[line(i)] = t[line(i) - m]
      BY <1>2, <2>2, <3>1
    <3>5. (Lines(s, r) \o Lines(t, r))[i] = Lines(t, r)[j]
      BY <1>1, <1>4, <2>2, <2>4
    <3> QED
      BY <2>1, <3>2, <3>3, <3>4, <3>5
  <2> QED
    BY <1>1, <2>2, <2>3, <2>4
<1> QED
  BY <1>3, <1>4, <1>5, SeqEqual

-----------------------------------------------------------------------------
(* Each item at most once. *)

\* A reader of the first n pieces finds no item twice.
OnceIn(file, n) ==
    \A i, j \in 1..n :
        ParsesIn(file, n, i) /\ ParsesIn(file, n, j) /\ file[i].item = file[j].item => i = j

\* What a reader of n pieces finds depends on nothing else.
LEMMA ReadersOfPrefix ==
    ASSUME NEW f, NEW g, NEW n \in Nat, \A k \in 1..n : f[k] = g[k], NEW i \in 1..n
    PROVE  ParsesIn(f, n, i) <=> ParsesIn(g, n, i)
<1>1. i # 1 => i - 1 \in 1..n
  OBVIOUS
<1>2. i < n => i + 1 \in 1..n
  OBVIOUS
<1>3. i + 1 < n => i + 2 \in 1..n
  OBVIOUS
<1> QED
  BY <1>1, <1>2, <1>3 DEF ParsesIn

\* If no item of s is in the file yet, and s has none twice, then however much
\* of its lines has been appended no reader finds an item twice.
LEMMA AppendKeepsOnce ==
    ASSUME NEW file \in Seq(Piece), OnceIn(file, Len(file)),
           NEW s \in Seq(Items), NEW r \in Runners,
           \A a, b \in 1..Len(s) : s[a] = s[b] => a = b,
           \A i \in 1..Len(file) : \A a \in 1..Len(s) :
              ParsesIn(file, Len(file), i) => file[i].item # s[a],
           NEW n \in Len(file) .. Len(file \o Lines(s, r))
    PROVE  OnceIn(file \o Lines(s, r), n)
<1> DEFINE old == Len(file)
           full == file \o Lines(s, r)
<1>1. /\ old \in Nat /\ Len(s) \in Nat /\ n \in Nat
      /\ n \in old .. old + 3 * Len(s)
      /\ \A k \in 1..old : full[k] = file[k]
      /\ \A k \in 1 .. 3 * Len(s) : full[old + k] = Lines(s, r)[k]
  <2>1. Lines(s, r) \in Seq(Piece) /\ Len(Lines(s, r)) = 3 * Len(s)
    BY LinesAre
  <2>2. /\ old \in Nat /\ Len(s) \in Nat
        /\ Len(full) = old + 3 * Len(s)
        /\ \A k \in 1 .. old + 3 * Len(s) :
              full[k] = IF k <= old THEN file[k] ELSE Lines(s, r)[k - old]
    <3> DEFINE g == Lines(s, r)
               m == Len(file)
               k == 3 * Len(s)
    <3>1. /\ Len(s) \in Nat /\ m \in Nat /\ k \in Nat
          /\ g \in Seq(Piece) /\ Len(g) = k
      BY <2>1
    <3> HIDE DEF g, m, k
    <3>2. /\ Len(file \o g) = m + k
          /\ \A i \in 1 .. m + k : (file \o g)[i] = IF i <= m THEN file[i] ELSE g[i - m]
      BY <3>1, ConcatAt DEF m
    <3> QED
      BY <3>1, <3>2 DEF g, m, k
  <2> QED
    BY <2>2
<1> HIDE DEF full
<1>2. ASSUME NEW i \in 1..n, ParsesIn(full, n, i), i < old
      PROVE  ParsesIn(file, old, i) /\ full[i].item = file[i].item
  <2>1. ParsesIn(full, old, i)
    BY <1>1, <1>2 DEF ParsesIn
  <2>2. i \in 1..old
    BY <1>1, <1>2
  <2> QED
    BY <1>1, <2>1, <2>2, ReadersOfPrefix
\* A line that is not in the file already begins with one of the lines of s.
<1>3. ASSUME NEW i \in 1..n, ParsesIn(full, n, i), i >= old
      PROVE  \E a \in 0 .. Len(s) - 1 : i = old + 3 * a + 1 /\ full[i].item = s[a+1]
  <2> DEFINE j == i + 1 - old
  <2>1. i < n /\ full[i].part = "head" /\ full[i+1] = [full[i] EXCEPT !.part = "rest"]
    BY <1>3 DEF ParsesIn
  <2>2. j \in Nat \ {0} /\ j \in 1 .. 3 * Len(s) /\ old + j = i + 1
    BY <1>1, <1>3, <2>1
  <2>3. full[i+1] = Lines(s, r)[j] /\ Lines(s, r)[j] \in Piece
    BY <1>1, <2>2, LinesAre
  <2>4. \A a \in 0 .. Len(s) - 1 : \A k \in Nat :
           /\ k = 3*a+1 => PartOf(Lines(s, r), k, "head", s[a+1])
           /\ k = 3*a+2 => PartOf(Lines(s, r), k, "rest", s[a+1])
           /\ k = 3*a+3 => PartOf(Lines(s, r), k, "newline", s[a+1])
    BY LinesAre
  <2>5. PICK a \in Nat : j = 3*a+1 \/ j = 3*a+2 \/ j = 3*a+3
    BY <2>2, LineOfPiece
  <2>6. a \in 0 .. Len(s) - 1
    BY <1>1, <2>2, <2>5
  <2>7. full[i] \in Piece
    <3>1. CASE i = old
      BY <1>1, <1>3, <3>1, ElementOfSeq
    <3>2. CASE i > old
      <4>1. i - old \in 1 .. 3 * Len(s) /\ old + (i - old) = i
        BY <1>1, <2>1, <3>2
      <4> QED
        <5>1. full[i] = Lines(s, r)[i - old]
          BY <1>1, <4>1
        <5> QED
          BY <4>1, <5>1, LinesAre, ElementOfSeq
    <3> QED
      BY <1>1, <1>3, <3>1, <3>2
  <2>8. full[i+1].part = "rest"
    BY <2>1, <2>7 DEF Piece
  <2>9. j = 3*a+2
    BY <2>2, <2>3, <2>4, <2>5, <2>6, <2>8 DEF PartOf
  <2>10. /\ i = old + 3 * a + 1 /\ 3 * a + 1 \in Nat /\ 3 * a + 1 \in 1 .. 3 * Len(s)
         /\ old + (3 * a + 1) = i
    <3>1. old \in Nat /\ Len(s) \in Nat /\ i \in Nat /\ i + 1 - old = 3 * a + 2
      BY <1>1, <2>9
    <3> QED
      BY <2>6, <3>1
  <2>11. full[i] = Lines(s, r)[3 * a + 1]
    BY <1>1, <2>10
  <2>12. full[i].item = s[a+1]
    BY <2>4, <2>6, <2>10, <2>11 DEF PartOf
  <2> QED
    BY <2>6, <2>10, <2>12
<1>4. SUFFICES ASSUME NEW i \in 1..n, NEW j \in 1..n, ParsesIn(full, n, i),
                      ParsesIn(full, n, j), full[i].item = full[j].item
               PROVE  i = j
  BY DEF OnceIn, full
<1>5. CASE i < old /\ j < old
  <2>1. i \in 1..old /\ j \in 1..old
    BY <1>1, <1>5
  <2>2. /\ ParsesIn(file, old, i) /\ full[i].item = file[i].item
        /\ ParsesIn(file, old, j) /\ full[j].item = file[j].item
    BY <1>2, <1>4, <1>5
  <2> QED
    BY <1>4, <2>1, <2>2 DEF OnceIn
<1>6. CASE i >= old /\ j >= old
  <2>1. PICK a \in 0 .. Len(s) - 1 : i = old + 3 * a + 1 /\ full[i].item = s[a+1]
    BY <1>3, <1>4, <1>6
  <2>2. PICK b \in 0 .. Len(s) - 1 : j = old + 3 * b + 1 /\ full[j].item = s[b+1]
    BY <1>3, <1>4, <1>6
  <2>3. a + 1 \in 1..Len(s) /\ b + 1 \in 1..Len(s)
    BY <1>1
  <2>4. a + 1 = b + 1
    BY <1>4, <2>1, <2>2, <2>3
  <2> QED
    BY <2>1, <2>2, <2>4
<1>7. ASSUME NEW k \in 1..n, ParsesIn(full, n, k), k < old,
             NEW l \in 1..n, ParsesIn(full, n, l), l >= old
      PROVE  full[k].item # full[l].item
  <2>1. PICK a \in 0 .. Len(s) - 1 : full[l].item = s[a+1]
    BY <1>3, <1>7
  <2>2. k \in 1..old /\ a + 1 \in 1..Len(s)
    BY <1>1, <1>7
  <2>3. ParsesIn(file, old, k) /\ full[k].item = file[k].item
    BY <1>2, <1>7
  <2> QED
    BY <2>1, <2>2, <2>3
<1> QED
  BY <1>1, <1>4, <1>5, <1>6, <1>7

\* Nor does a reader find one twice in a file that begins alike.
LEMMA OncePrefix ==
    ASSUME NEW f, NEW g, NEW n \in Nat, \A k \in 1..n : f[k] = g[k], OnceIn(f, n)
    PROVE  OnceIn(g, n)
<1> SUFFICES ASSUME NEW i \in 1..n, NEW j \in 1..n, ParsesIn(g, n, i), ParsesIn(g, n, j),
                    g[i].item = g[j].item
             PROVE  i = j
  BY DEF OnceIn
<1>1. ParsesIn(f, n, i) /\ ParsesIn(f, n, j)
  BY ReadersOfPrefix
<1> QED
  BY <1>1 DEF OnceIn

-----------------------------------------------------------------------------
(* The runs of the automation. *)

Types ==
    /\ inbox \subseteq Items /\ IsFiniteSet(inbox)
    /\ digest \subseteq Items /\ IsFiniteSet(digest)
    /\ items \in [Runners -> SUBSET Items]
    /\ \A r \in Runners : IsFiniteSet(items[r])
    /\ ledger \in Seq(Piece)
    /\ pending \in [Runners -> Seq(Piece)]
    /\ pc \in [Runners -> StepLabels \union {"idle", "advisor"}]
    /\ faults \in Nat
    /\ \A r \in Runners : pc[r] # "flush" => pending[r] = <<>>

\* The new items, in order, are a sequence without repetitions.
LEMMA InOrderAre ==
    ASSUME NEW some \in SUBSET Items, IsFiniteSet(some), NEW s \in InOrder(some)
    PROVE  /\ s \in Seq(Items)
           /\ \A a, b \in 1..Len(s) : s[a] = s[b] => a = b
           /\ \A a \in 1..Len(s) : s[a] \in some
           /\ \A x \in some : \E a \in 1..Len(s) : s[a] = x
<1>1. /\ s \in [1..Cardinality(some) -> some]
      /\ \A a, b \in 1..Cardinality(some) : s[a] = s[b] => a = b
      /\ \A x \in some : \E a \in 1..Cardinality(some) : s[a] = x
  BY DEF InOrder, Bijection, Injection, Surjection, IsInjective
<1>2. Cardinality(some) \in Nat
  BY FS_CardinalityType
<1>3. s \in Seq(some) /\ Len(s) = Cardinality(some)
  BY <1>1, <1>2, SeqDef, LenProperties
<1> QED
  BY <1>1, <1>3, SeqMonotonic

\* What is flushed and what is left of the append are the append.
LEMMA FlushKeepsFull ==
    ASSUME NEW file \in Seq(Piece), NEW p \in Seq(Piece), NEW n \in 1..Len(p)
    PROVE  /\ SubSeq(p, 1, n) \in Seq(Piece)
           /\ SubSeq(p, n + 1, Len(p)) \in Seq(Piece)
           /\ (file \o SubSeq(p, 1, n)) \o SubSeq(p, n + 1, Len(p)) = file \o p
           /\ Len(file \o SubSeq(p, 1, n)) = Len(file) + n
           /\ n = Len(p) => SubSeq(p, n + 1, Len(p)) = <<>>
<1>1. Len(p) \in Nat /\ n \in Nat /\ n <= Len(p) /\ \A i \in 1..Len(p) : p[i] \in Piece
  BY LenProperties
<1>2. /\ SubSeq(p, 1, n) \in Seq(Piece) /\ Len(SubSeq(p, 1, n)) = n
      /\ SubSeq(p, n + 1, Len(p)) \in Seq(Piece)
  BY <1>1, SubSeqProperties
<1>3. SubSeq(p, 1, n) \o SubSeq(p, n + 1, Len(p)) = SubSeq(p, 1, Len(p))
  BY <1>1, ConcatAdjacentSubSeq
<1>4. SubSeq(p, 1, Len(p)) = p
  BY SubSeqFull
<1>5. (file \o SubSeq(p, 1, n)) \o SubSeq(p, n + 1, Len(p)) = file \o p
  <2> DEFINE f == SubSeq(p, 1, n)
             g == SubSeq(p, n + 1, Len(p))
  <2>1. f \in Seq(Piece) /\ g \in Seq(Piece)
    BY <1>2
  <2>2. f \o g = p
    BY <1>3, <1>4
  <2> HIDE DEF f, g, Piece
  <2>3. (file \o f) \o g = file \o (f \o g)
    BY <2>1, ConcatAssociative
  <2> QED
    BY <2>2, <2>3 DEF f, g
<1>6. Len(file \o SubSeq(p, 1, n)) = Len(file) + n
  BY <1>2, ConcatProperties
<1>7. n = Len(p) => SubSeq(p, n + 1, Len(p)) = <<>>
  BY <1>1, SubSeqEmpty
<1> QED
  BY <1>2, <1>5, <1>6, <1>7

LEMMA InitTypes == Init => Types
<1>1. <<>> \in Seq(Piece)
  BY EmptySeq
<1> QED
  BY <1>1, FS_EmptySet DEF Init, Types, StepLabels

\* A step of a run that leaves the ledger and the pieces of appends alone.
Elsewhere(r) ==
    \/ Begin(r)
    \/ Mine(r) \/ OpenDigest(r) \/ WriteDigest(r) \/ ReadDigest(r)
    \/ OpenSummary(r) \/ WriteSummary(r) \/ Matrix(r) \/ Advise(r)

LEMMA StepsOf ==
    ASSUME NEW r \in Runners, Step(r)
    PROVE  Elsewhere(r) \/ ReadLedger(r) \/ Flush(r)
BY DEF Step, Elsewhere

LEMMA ElsewhereKeepsTypes ==
    ASSUME Types, NEW r \in Runners, Elsewhere(r)
    PROVE  Types' /\ UNCHANGED <<ledger, pending, faults>>
<1> USE DEF Goto, Take, files, run, StepLabels
<1>1. /\ UNCHANGED <<ledger, pending, faults>>
      /\ inbox' = inbox
      /\ digest' \in {digest, {}, items[r]}
      /\ \E some \in {items[r], {}, inbox, digest} : items' = [items EXCEPT ![r] = some]
      /\ pc[r] # "flush"
      /\ \E label \in (StepLabels \union {"idle", "advisor"}) \ {"flush"} :
            pc' = [pc EXCEPT ![r] = label]
  <2>1. items = [items EXCEPT ![r] = items[r]]
    BY DEF Types
  <2>2. CASE Begin(r)
    BY <2>2 DEF Begin
  <2>3. CASE Mine(r)
    BY <2>3 DEF Mine
  <2>4. CASE OpenDigest(r)
    BY <2>1, <2>4 DEF OpenDigest
  <2>5. CASE WriteDigest(r)
    BY <2>1, <2>5 DEF WriteDigest
  <2>6. CASE ReadDigest(r)
    BY <2>6 DEF ReadDigest
  <2>7. CASE OpenSummary(r)
    BY <2>1, <2>7 DEF OpenSummary
  <2>8. CASE WriteSummary(r)
    BY <2>1, <2>8 DEF WriteSummary
  <2>9. CASE Matrix(r)
    BY <2>1, <2>9 DEF Matrix
  <2>10. CASE Advise(r)
    BY <2>1, <2>10 DEF Advise
  <2> QED
    BY <2>2, <2>3, <2>4, <2>5, <2>6, <2>7, <2>8, <2>9, <2>10 DEF Elsewhere
<1>2. digest' \subseteq Items /\ IsFiniteSet(digest')
  BY <1>1, FS_EmptySet DEF Types
<1>3. items' \in [Runners -> SUBSET Items] /\ \A q \in Runners : IsFiniteSet(items'[q])
  <2>1. PICK some \in {items[r], {}, inbox, digest} : items' = [items EXCEPT ![r] = some]
    BY <1>1
  <2>2. some \in SUBSET Items /\ IsFiniteSet(some)
    BY FS_EmptySet DEF Types
  <2> QED
    BY <2>1, <2>2 DEF Types
<1>4. /\ pc' \in [Runners -> StepLabels \union {"idle", "advisor"}]
      /\ \A q \in Runners : pc'[q] # "flush" => pending'[q] = <<>>
  BY <1>1 DEF Types
<1> QED
  BY <1>1, <1>2, <1>3, <1>4 DEF Types

LEMMA ReadLedgerSteps ==
    ASSUME Types, NEW r \in Runners, ReadLedger(r)
    PROVE  /\ Types' /\ UNCHANGED <<ledger, faults>>
           /\ pending[r] = <<>>
           /\ items'[r] = New(items[r])
           /\ \E s \in Seq(Items) :
                 /\ pending'[r] = Lines(s, r)
                 /\ \A a, b \in 1..Len(s) : s[a] = s[b] => a = b
                 /\ \A a \in 1..Len(s) : s[a] \notin Recorded
                 /\ \A x \in New(items[r]) : \E a \in 1..Len(s) : s[a] = x
<1> DEFINE new == New(items[r])
<1>1. new \in SUBSET Items /\ IsFiniteSet(new) /\ \A x \in new : x \notin Recorded
  <2>1. new \in SUBSET items[r] /\ IsFiniteSet(items[r]) /\ items[r] \subseteq Items
    BY DEF New, Types
  <2> QED
    BY <2>1, FS_Subset DEF New
<1>2. PICK s \in InOrder(new) : pending' = [pending EXCEPT ![r] = Lines(s, r)]
  BY DEF ReadLedger
<1>3. /\ s \in Seq(Items)
      /\ \A a, b \in 1..Len(s) : s[a] = s[b] => a = b
      /\ \A a \in 1..Len(s) : s[a] \in new
      /\ \A x \in new : \E a \in 1..Len(s) : s[a] = x
  BY <1>1, <1>2, InOrderAre
<1>4. Lines(s, r) \in Seq(Piece) /\ Len(Lines(s, r)) = 3 * Len(s)
  BY <1>3, LinesAre
<1>5. /\ UNCHANGED <<inbox, digest, ledger, faults>>
      /\ items' = [items EXCEPT ![r] = new]
      /\ pc' = [pc EXCEPT ![r] = IF new = {} THEN "open_summary" ELSE "flush"]
      /\ pc[r] = "read_ledger"
  BY DEF ReadLedger, Take, Goto, AfterReading, files
<1> HIDE DEF new
<1>6. new = {} => Lines(s, r) = <<>>
  <2>1. new = {} => Len(s) = 0
    <3>1. Len(s) \in Nat
      BY <1>3, LenProperties
    <3> QED
      BY <1>3, <3>1
  <2> QED
    BY <1>4, <2>1, EmptySeq
<1>7. Types'
  BY <1>1, <1>2, <1>4, <1>5, <1>6 DEF Types, StepLabels
<1> QED
  BY <1>1, <1>2, <1>3, <1>5, <1>7 DEF Types, new

LEMMA FlushSteps ==
    ASSUME Types, NEW r \in Runners, Flush(r)
    PROVE  /\ Types' /\ UNCHANGED <<faults, items>>
           /\ pc[r] = "flush"
           /\ Full(r)' = Full(r)
           /\ Len(ledger) \in Nat /\ Len(ledger') \in Nat /\ Len(ledger) <= Len(ledger')
<1>1. PICK n \in 1..Len(pending[r]) :
          /\ ledger' = ledger \o SubSeq(pending[r], 1, n)
          /\ pending' = [pending EXCEPT ![r] = SubSeq(@, n + 1, Len(@))]
          /\ IF n = Len(pending[r]) THEN Goto(r, "open_summary") ELSE UNCHANGED pc
  BY DEF Flush
<1> DEFINE p == pending[r]
           left == SubSeq(p, n + 1, Len(p))
           flushed == SubSeq(p, 1, n)
<1>2. /\ ledger \in Seq(Piece) /\ p \in Seq(Piece)
      /\ flushed \in Seq(Piece) /\ left \in Seq(Piece)
      /\ (ledger \o flushed) \o left = ledger \o p
      /\ Len(ledger \o flushed) = Len(ledger) + n
      /\ n = Len(p) => left = <<>>
  BY FlushKeepsFull DEF Types
<1>3. /\ UNCHANGED <<inbox, digest, faults, items>>
      /\ pc[r] = "flush"
      /\ pending' = [pending EXCEPT ![r] = left]
      /\ ledger' = ledger \o flushed
      /\ IF n = Len(p) THEN pc' = [pc EXCEPT ![r] = "open_summary"] ELSE pc' = pc
  BY <1>1 DEF Flush, Goto
<1>4. /\ Len(ledger) \in Nat /\ Len(p) \in Nat /\ n \in Nat
      /\ ledger' \in Seq(Piece) /\ Len(ledger') = Len(ledger) + n
  BY <1>2, <1>3, LenProperties, ConcatProperties
<1> HIDE DEF left, flushed
<1>5. Types'
  BY <1>2, <1>3, <1>4 DEF Types, StepLabels
<1>6. pending'[r] = left
  BY <1>3 DEF Types
<1>7. Full(r)' = ledger' \o pending'[r] /\ Full(r) = ledger \o p
  BY DEF Full
<1> QED
  BY <1>2, <1>3, <1>4, <1>5, <1>6, <1>7

LEMMA FaultsKeepTypes ==
    ASSUME Types, NEW r \in Runners, TimeOut(r) \/ Kill(r)
    PROVE  Types' /\ ledger' = ledger /\ faults' # 0 /\ pending'[r] = <<>>
<1>1. /\ UNCHANGED <<inbox, digest, ledger, items>>
      /\ faults' = faults + 1
      /\ pending' = [pending EXCEPT ![r] = <<>>]
      /\ \E label \in {"advisor", "idle"} : pc' = [pc EXCEPT ![r] = label]
  BY DEF TimeOut, Kill, Goto, files
<1>2. <<>> \in Seq(Piece)
  BY EmptySeq
<1> QED
  BY <1>1, <1>2 DEF Types, StepLabels

LEMMA LeaveKeepsTypes ==
    ASSUME Types, NEW x \in Items, Leave(x)
    PROVE  Types' /\ UNCHANGED <<ledger, pending, faults, items, pc>>
<1>1. inbox' = inbox \union {x} /\ UNCHANGED <<digest, ledger, pending, faults, items, pc>>
  BY DEF Leave, files, run
<1>2. IsFiniteSet(inbox \union {x})
  BY FS_AddElement DEF Types
<1> QED
  BY <1>1, <1>2 DEF Types

\* What a step of a run that does not overlap with another does to the ledger
\* and to the append under way.
LEMMA StepKinds ==
    ASSUME Types, NEW r \in Runners, Runners = {r}, [Next]_vars
    PROVE  /\ Types'
           /\ \/ UNCHANGED <<ledger, pending, faults>>
              \/ ReadLedger(r)
              \/ Flush(r)
              \/ ledger' = ledger /\ pending'[r] = <<>> /\ faults' # 0
<1>1. CASE UNCHANGED vars
  BY <1>1 DEF vars, files, run, Types
<1>2. ASSUME NEW x \in Items, Leave(x)
      PROVE  Types' /\ UNCHANGED <<ledger, pending, faults>>
  BY <1>2, LeaveKeepsTypes
<1>3. CASE Step(r)
  BY <1>3, StepsOf, ElsewhereKeepsTypes, ReadLedgerSteps, FlushSteps
<1>4. CASE TimeOut(r) \/ Kill(r)
  BY <1>4, FaultsKeepTypes
<1>5. \/ UNCHANGED vars \/ \E x \in Items : Leave(x)
      \/ Step(r) \/ TimeOut(r) \/ Kill(r)
  BY DEF Next
<1> QED
  BY <1>1, <1>2, <1>3, <1>4, <1>5

LEMMA FullWithoutAppend ==
    ASSUME Types, NEW r \in Runners, pending[r] = <<>>
    PROVE  Full(r) = ledger
BY ConcatEmptySeq DEF Types, Full

\* The ledger is the beginning of what it will be.
LEMMA AppendExtends ==
    ASSUME NEW file \in Seq(Piece), NEW p \in Seq(Piece)
    PROVE  /\ Len(file) \in Nat /\ Len(file \o p) \in Nat /\ Len(file) <= Len(file \o p)
           /\ \A k \in 1..Len(file) : (file \o p)[k] = file[k]
<1>1. Len(file) \in Nat /\ Len(p) \in Nat
  BY LenProperties
<1>2. /\ Len(file \o p) = Len(file) + Len(p)
      /\ \A k \in 1 .. Len(file) + Len(p) :
            (file \o p)[k] = IF k <= Len(file) THEN file[k] ELSE p[k - Len(file)]
  BY ConcatProperties
<1>3. \A k \in 1..Len(file) : (file \o p)[k] = file[k]
  BY <1>1, <1>2
<1> QED
  BY <1>1, <1>2, <1>3

LEMMA FullExtends ==
    ASSUME Types, NEW r \in Runners
    PROVE  /\ Len(ledger) \in Nat /\ Len(Full(r)) \in Nat /\ Len(ledger) <= Len(Full(r))
           /\ \A k \in 1..Len(ledger) : Full(r)[k] = ledger[k]
BY AppendExtends DEF Types, Full

\* However much of the append under way is written when it ends, no reader of
\* the ledger finds an item twice.
Once ==
    \A r \in Runners : \A n \in Len(ledger) .. Len(Full(r)) : OnceIn(Full(r), n)

LEMMA OnceNow ==
    ASSUME Types, Once, NEW r \in Runners
    PROVE  OnceIn(ledger, Len(ledger))
<1>1. OnceIn(Full(r), Len(ledger))
  BY FullExtends DEF Once
<1> QED
  BY <1>1, FullExtends, OncePrefix

LEMMA OnceKept ==
    ASSUME Types, Once, NEW r \in Runners, Runners = {r}, [Next]_vars
    PROVE  Once'
<1>1. Types'
  BY StepKinds
<1>2. CASE UNCHANGED <<ledger, pending>>
  <2>1. Full(r)' = Full(r)
    BY <1>2 DEF Full
  <2> QED
    BY <1>2, <2>1 DEF Once
<1>3. CASE ReadLedger(r)
  <2>1. PICK s \in Seq(Items) :
           /\ pending'[r] = Lines(s, r)
           /\ \A a, b \in 1..Len(s) : s[a] = s[b] => a = b
           /\ \A a \in 1..Len(s) : s[a] \notin Recorded
    BY <1>3, ReadLedgerSteps
  <2>2. ledger' = ledger /\ pending[r] = <<>>
    BY <1>3, ReadLedgerSteps
  <2>3. OnceIn(ledger, Len(ledger))
    BY OnceNow
  <2>4. ASSUME NEW i \in 1..Len(ledger), NEW a \in 1..Len(s), ParsesIn(ledger, Len(ledger), i)
        PROVE  ledger[i].item # s[a]
    <3>1. ParsesAt(i)
      BY <2>4 DEF ParsesAt, ParsesIn
    <3>2. ledger \in Seq(Piece) /\ i \in DOMAIN ledger
      BY LenProperties DEF Types
    <3>3. ledger[i].item \in Items
      <4>1. ledger[i] \in Piece
        BY <3>2, LenProperties, ElementOfSeq
      <4> QED
        BY <4>1 DEF Piece
    <3>4. ledger[i].item \in Recorded
      BY <3>1, <3>2, <3>3 DEF Recorded, LinesOf
    <3> QED
      BY <2>1, <3>4
  <2>5. Full(r)' = ledger \o Lines(s, r)
    BY <2>1, <2>2 DEF Full
  <2>6. ASSUME NEW n \in Len(ledger) .. Len(ledger \o Lines(s, r))
        PROVE  OnceIn(ledger \o Lines(s, r), n)
    BY <2>1, <2>3, <2>4, AppendKeepsOnce DEF Types
  <2> QED
    BY <2>2, <2>5, <2>6 DEF Once
<1>4. CASE Flush(r)
  <2>1. /\ Full(r)' = Full(r)
        /\ Len(ledger) \in Nat /\ Len(ledger') \in Nat /\ Len(ledger) <= Len(ledger')
    BY <1>4, FlushSteps
  <2>2. Len(Full(r)) \in Nat
    BY FullExtends
  <2>3. \A n \in Len(ledger') .. Len(Full(r)) : OnceIn(Full(r), n)
    BY <2>1, <2>2 DEF Once
  <2> QED
    BY <2>1, <2>3 DEF Once
<1>5. CASE ledger' = ledger /\ pending'[r] = <<>>
  <2>1. Full(r)' = ledger
    <3>1. Full(r)' = ledger' \o pending'[r]
      BY DEF Full
    <3>2. ledger \o <<>> = ledger
      BY ConcatEmptySeq DEF Types
    <3> QED
      BY <1>5, <3>1, <3>2
  <2>2. OnceIn(ledger, Len(ledger)) /\ Len(ledger) \in Nat
    BY OnceNow, FullExtends
  <2> QED
    BY <1>5, <2>1, <2>2 DEF Once
<1> QED
  BY <1>2, <1>3, <1>4, <1>5, StepKinds

\* As long as there is no fault, the ledger and the append under way are whole
\* lines, and once they were read the new items are among them.
Listed == {"flush", "open_summary", "write_summary", "matrix", "advisor"}

Text ==
    faults = 0 =>
        \A r \in Runners : \E t \in Seq(Items) :
            /\ Full(r) = Lines(t, r)
            /\ pc[r] \in Listed => \A x \in items[r] : \E a \in 1..Len(t) : t[a] = x

\* The steps after the ledger was read keep its items in hand.
LEMMA ListedBefore ==
    ASSUME Types, NEW r \in Runners, Runners = {r}, [Next]_vars,
           UNCHANGED <<ledger, pending, faults>>, pc'[r] \in Listed
    PROVE  \/ pc[r] \in Listed /\ items'[r] = items[r]
           \/ ReadLedger(r)
<1> USE DEF Goto, Take, files, run, Listed
<1>1. CASE UNCHANGED vars
  BY <1>1 DEF vars
<1>2. ASSUME NEW x \in Items, Leave(x)
      PROVE  pc[r] \in Listed /\ items'[r] = items[r]
  BY <1>2, LeaveKeepsTypes
<1>3. ASSUME Elsewhere(r)
      PROVE  pc[r] \in Listed /\ items'[r] = items[r]
  <2>1. pc \in [Runners -> StepLabels \union {"idle", "advisor"}]
    BY DEF Types
  <2>2. CASE Begin(r)
    BY <2>1, <2>2 DEF Begin
  <2>3. CASE Mine(r)
    BY <2>1, <2>3 DEF Mine
  <2>4. CASE OpenDigest(r)
    BY <2>1, <2>4 DEF OpenDigest
  <2>5. CASE WriteDigest(r)
    BY <2>1, <2>5 DEF WriteDigest
  <2>6. CASE ReadDigest(r)
    BY <2>1, <2>6 DEF ReadDigest
  <2>7. CASE OpenSummary(r)
    BY <2>7 DEF OpenSummary
  <2>8. CASE WriteSummary(r)
    BY <2>8 DEF WriteSummary
  <2>9. CASE Matrix(r)
    BY <2>9 DEF Matrix
  <2>10. CASE Advise(r)
    BY <2>1, <2>10 DEF Advise
  <2> QED
    BY <1>3, <2>2, <2>3, <2>4, <2>5, <2>6, <2>7, <2>8, <2>9, <2>10 DEF Elsewhere
<1>4. ASSUME Flush(r)
      PROVE  pc[r] \in Listed /\ items'[r] = items[r]
  BY <1>4, FlushSteps
<1>5. ~TimeOut(r) /\ ~Kill(r)
  BY DEF TimeOut, Kill, Types
<1>6. \/ UNCHANGED vars \/ \E x \in Items : Leave(x)
      \/ Elsewhere(r) \/ ReadLedger(r) \/ Flush(r)
  BY <1>5, StepsOf DEF Next
<1> QED
  BY <1>1, <1>2, <1>3, <1>4, <1>6

LEMMA TextKept ==
    ASSUME Types, Text, NEW r \in Runners, Runners = {r}, [Next]_vars
    PROVE  Text'
<1> SUFFICES ASSUME faults' = 0
             PROVE  \E t \in Seq(Items) :
                       /\ Full(r)' = Lines(t, r)
                       /\ pc'[r] \in Listed =>
                             \A x \in items'[r] : \E a \in 1..Len(t) : t[a] = x
  BY DEF Text, Lines
<1>1. faults = 0 /\ (UNCHANGED <<ledger, pending>> \/ ReadLedger(r) \/ Flush(r))
  BY StepKinds, ReadLedgerSteps, FlushSteps
<1>2. PICK t \in Seq(Items) :
         /\ Full(r) = Lines(t, r)
         /\ pc[r] \in Listed => \A x \in items[r] : \E a \in 1..Len(t) : t[a] = x
  BY <1>1 DEF Text
<1>3. CASE UNCHANGED <<ledger, pending>> /\ ~ReadLedger(r)
  <2>1. Full(r)' = Full(r)
    BY <1>3 DEF Full
  <2>2. pc'[r] \in Listed => pc[r] \in Listed /\ items'[r] = items[r]
    BY <1>1, <1>3, ListedBefore
  <2> QED
    BY <1>2, <2>1, <2>2
<1>4. CASE ReadLedger(r)
  <2>1. PICK s \in Seq(Items) :
           /\ pending'[r] = Lines(s, r)
           /\ \A x \in New(items[r]) : \E a \in 1..Len(s) : s[a] = x
    BY <1>4, ReadLedgerSteps
  <2>2. ledger' = ledger /\ pending[r] = <<>> /\ items'[r] = New(items[r])
    BY <1>4, ReadLedgerSteps
  <2>3. ledger = Lines(t, r)
    BY <1>2, <2>2, FullWithoutAppend
  <2>4. Full(r)' = ledger \o Lines(s, r)
    BY <2>1, <2>2 DEF Full
  <2>5. Full(r)' = Lines(t \o s, r)
    BY <2>3, <2>4, LinesConcat
  <2>6. /\ t \o s \in Seq(Items) /\ Len(t) \in Nat /\ Len(s) \in Nat
        /\ Len(t \o s) = Len(t) + Len(s)
        /\ \A k \in 1 .. Len(t) + Len(s) :
              (t \o s)[k] = IF k <= Len(t) THEN t[k] ELSE s[k - Len(t)]
    BY ConcatProperties, LenProperties
  <2>7. ASSUME NEW x \in items'[r]
        PROVE  \E a \in 1 .. Len(t \o s) : (t \o s)[a] = x
    <3>1. PICK a \in 1..Len(s) : s[a] = x
      BY <2>1, <2>2, <2>7
    <3>2. /\ Len(t) + a \in 1 .. Len(t \o s) /\ ~(Len(t) + a <= Len(t))
          /\ Len(t) + a - Len(t) = a
      BY <2>6
    <3>3. (t \o s)[Len(t) + a] = x
      BY <2>6, <3>1, <3>2
    <3> QED
      BY <3>2, <3>3
  <2> QED
    BY <2>5, <2>6, <2>7
<1>5. CASE Flush(r)
  BY <1>2, <1>5, FlushSteps DEF Listed
<1> QED
  BY <1>1, <1>3, <1>4, <1>5

\* Whole lines are found by every reader.
LEMMA LinesAreRecorded ==
    ASSUME Types, NEW r \in Runners, NEW t \in Seq(Items), ledger = Lines(t, r),
           NEW a \in 1..Len(t)
    PROVE  t[a] \in Recorded
<1> DEFINE b == a - 1
           i == 3 * b + 1
<1>1. Len(t) \in Nat /\ Len(ledger) = 3 * Len(t) /\ ledger \in Seq(Piece)
  BY LinesAre
<1>2. /\ b \in 0 .. Len(t) - 1 /\ b + 1 = a /\ i \in Nat /\ i \in 1..Len(ledger)
      /\ 3 * b + 2 <= Len(ledger) /\ Len(ledger) \in 0 .. Len(ledger)
  BY <1>1
<1>3. PartOf(ledger, i, "head", t[b+1])
  BY <1>2, LinesAre
<1> HIDE DEF b
<1>4. \E c \in 0 .. Len(t) - 1 : i = 3 * c + 1 /\ 3 * c + 2 <= Len(ledger)
  BY <1>2
<1> HIDE DEF i
<1>5. ParsesIn(ledger, Len(ledger), i)
  BY <1>2, <1>4, ParsesInLines
<1>6. ParsesAt(i) /\ i \in DOMAIN ledger
  BY <1>1, <1>2, <1>5, LenProperties DEF ParsesAt, ParsesIn
<1>7. ledger[i].item = t[a] /\ t[a] \in Items
  BY <1>2, <1>3 DEF PartOf
<1> QED
  BY <1>6, <1>7 DEF Recorded, LinesOf

Inv == Types /\ Once /\ Text

LEMMA InitInv == ASSUME NEW r \in Runners, Runners = {r}, Init PROVE Inv
<1>1. Types
  BY InitTypes
<1>2. ledger = <<>> /\ pending[r] = <<>>
  BY DEF Init
<1>3. Full(r) = <<>> /\ Len(<<>>) = 0
  BY <1>1, <1>2, FullWithoutAppend
<1>4. Once
  BY <1>2, <1>3 DEF Once, OnceIn
<1>5. <<>> \in Seq(Items) /\ pc[r] \notin Listed
  BY EmptySeq DEF Init, Listed
<1>6. Lines(<<>>, r) \in Seq(Piece) /\ Len(Lines(<<>>, r)) = 0
  <2>1. Lines(<<>>, r) \in Seq(Piece) /\ Len(Lines(<<>>, r)) = 3 * Len(<<>>)
    BY <1>5, LinesAre
  <2> QED
    BY <1>3, <2>1
<1>7. Full(r) = Lines(<<>>, r)
  BY <1>3, <1>6, EmptySeq
<1>8. Text
  BY <1>5, <1>7 DEF Text
<1> QED
  BY <1>1, <1>4, <1>8 DEF Inv

LEMMA InvAlways == ASSUME OneRunner PROVE Spec => []Inv
<1>1. PICK r \in Runners : Runners = {r}
  BY DEF OneRunner
<1>2. Init => Inv
  BY <1>1, InitInv
<1>3. Inv /\ [Next]_vars => Inv'
  BY <1>1, StepKinds, OnceKept, TextKept DEF Inv
<1> QED
  BY <1>2, <1>3, PTL DEF Spec

-----------------------------------------------------------------------------
(* Theorems. *)

\* The same feedback_id is not found twice by a reader of the ledger, whatever
\* was left torn by a step that timed out or a run that was killed, and written
\* again by the next (append_feedback_ledger.py, line 139).
THEOREM RecordedOnce == ASSUME OneRunner PROVE Spec => []OnceEach
<1>1. ASSUME Inv PROVE OnceEach
  <2>1. PICK r \in Runners : Runners = {r}
    BY DEF OneRunner
  <2>2. OnceIn(ledger, Len(ledger)) /\ ledger \in Seq(Piece)
    BY <1>1, OnceNow DEF Inv, Types
  <2>3. ASSUME NEW x \in Items, NEW i \in LinesOf(x), NEW j \in LinesOf(x)
        PROVE  i = j
    <3>1. /\ i \in 1..Len(ledger) /\ ParsesIn(ledger, Len(ledger), i) /\ ledger[i].item = x
          /\ j \in 1..Len(ledger) /\ ParsesIn(ledger, Len(ledger), j) /\ ledger[j].item = x
      BY <2>2, <2>3, LenProperties DEF LinesOf, ParsesAt, ParsesIn
    <3> QED
      BY <2>2, <3>1 DEF OnceIn
  <2>4. ASSUME NEW x \in Items PROVE Cardinality(LinesOf(x)) <= 1
    <3>1. CASE LinesOf(x) = {}
      BY <3>1, FS_EmptySet
    <3>2. CASE LinesOf(x) # {}
      <4>1. PICK i : i \in LinesOf(x)
        BY <3>2
      <4>2. LinesOf(x) = {i}
        BY <2>3, <4>1
      <4> QED
        <5>1. Cardinality({i}) = 1
          BY FS_Singleton
        <5> QED
          BY <4>2, <5>1
    <3> QED
      BY <3>1, <3>2
  <2> QED
    BY <2>4 DEF OnceEach
<1> QED
  BY <1>1, InvAlways, PTL

\* Until something times out or is killed, what the summary reports as new is
\* in the ledger by the time the append has ended.
THEOREM SummaryIsTrue == ASSUME OneRunner PROVE Spec => []AppendedAreRecorded
<1>1. ASSUME Inv PROVE AppendedAreRecorded
  <2> SUFFICES ASSUME NEW r \in Runners, faults = 0, NEW x \in items[r],
                      pc[r] \in {"open_summary", "write_summary", "matrix", "advisor"}
               PROVE  x \in Recorded
    BY DEF AppendedAreRecorded
  <2>1. PICK t \in Seq(Items) :
           Full(r) = Lines(t, r) /\ \A y \in items[r] : \E a \in 1..Len(t) : t[a] = y
    BY <1>1 DEF Inv, Text, Listed
  <2>2. Types /\ pending[r] = <<>>
    BY <1>1 DEF Inv, Types
  <2>3. ledger = Lines(t, r)
    BY <2>1, <2>2, FullWithoutAppend
  <2> QED
    BY <2>1, <2>2, <2>3, LinesAreRecorded
<1> QED
  BY <1>1, InvAlways, PTL

\* Until something times out or is killed, what one reader of the ledger found
\* every later reader finds, in the middle of an append too.
THEOREM RecordedForGood == ASSUME OneRunner PROVE Spec => RecordedStays
<1>1. ASSUME Inv, [Next]_vars, faults = 0 PROVE Recorded \subseteq Recorded'
  <2>1. PICK r \in Runners : Runners = {r}
    BY DEF OneRunner
  <2>2. CASE ledger' = ledger
    BY <2>2 DEF Recorded, LinesOf, ParsesAt
  <2>3. CASE Flush(r)
    <3>1. PICK t \in Seq(Items) : Full(r) = Lines(t, r)
      BY <1>1 DEF Inv, Text
    <3>2. /\ Types /\ Types' /\ Full(r)' = Full(r)
          /\ Len(ledger) \in Nat /\ Len(ledger') \in Nat /\ Len(ledger) <= Len(ledger')
      BY <1>1, <2>3, FlushSteps DEF Inv
    <3>3. /\ Len(Full(r)) \in Nat /\ Len(ledger) <= Len(Full(r))
          /\ Len(ledger') <= Len(Full(r))
          /\ \A k \in 1..Len(ledger) : Full(r)[k] = ledger[k]
          /\ \A k \in 1..Len(ledger') : Full(r)[k] = ledger'[k]
      <4>1. ledger' \in Seq(Piece) /\ pending'[r] \in Seq(Piece)
        BY <3>2 DEF Types
      <4>2. Full(r)' = ledger' \o pending'[r]
        BY DEF Full
      <4>3. /\ Len(ledger') <= Len(Full(r)')
            /\ \A k \in 1..Len(ledger') : Full(r)'[k] = ledger'[k]
        BY <4>1, <4>2, AppendExtends
      <4> QED
        BY <3>2, <4>3, FullExtends
    <3>4. ASSUME NEW x \in Items, NEW i \in LinesOf(x)
          PROVE  i \in LinesOf(x)'
      <4>1. i \in 1..Len(ledger) /\ ParsesIn(ledger, Len(ledger), i) /\ ledger[i].item = x
        BY <3>2, <3>4, LenProperties DEF LinesOf, ParsesAt, ParsesIn, Types
      <4>2. ParsesIn(Lines(t, r), Len(ledger), i)
        BY <3>1, <3>2, <3>3, <4>1, ReadersOfPrefix
      <4>3. PICK a \in 0 .. Len(t) - 1 : i = 3 * a + 1 /\ 3 * a + 2 <= Len(ledger)
        BY <3>1, <3>2, <3>3, <4>1, <4>2, ParsesInLines
      <4>4. i \in 1..Len(ledger') /\ 3 * a + 2 <= Len(ledger')
        BY <3>2, <4>1, <4>3
      <4>5. ParsesIn(Lines(t, r), Len(ledger'), i)
        BY <3>1, <3>2, <3>3, <4>3, <4>4, ParsesInLines
      <4>6. ParsesIn(ledger', Len(ledger'), i)
        BY <3>1, <3>2, <3>3, <4>4, <4>5, ReadersOfPrefix
      <4>7. ledger'[i].item = x
        BY <3>3, <4>1, <4>4
      <4> QED
        BY <3>2, <4>4, <4>6, <4>7, LenProperties DEF LinesOf, ParsesAt, ParsesIn, Types
    <3> QED
      BY <3>4 DEF Recorded
  <2> QED
    BY <1>1, <2>1, <2>2, <2>3, StepKinds, ReadLedgerSteps DEF Inv
<1> QED
  BY <1>1, InvAlways, PTL DEF Spec, RecordedStays
=============================================================================
