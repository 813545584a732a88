--------------------------- MODULE LogShipProofs ---------------------------
(***************************************************************************)
(* Proofs about LogShip for any number of lines, any batch size and queue, *)
(* and any number of failures of sinks, stream, disk and process.          *)
(*                                                                         *)
(* The shipper keeps its lines in the order of the file: the batch before  *)
(* the queue, both before the read offset.  So a line is in one place only *)
(* and a full queue holds as many lines as its length says, which is what  *)
(* the promise of LogDelivery is about.                                    *)
(*                                                                         *)
(* The server's ring is the newest of all lines it was ever given, which   *)
(* capping and merging in any order keeps.                                 *)
(***************************************************************************)
EXTENDS LogShip, FiniteSetTheorems, SequenceTheorems, TLAPS

-----------------------------------------------------------------------------
(* Sets in an order.                                                       *)

\* R puts any two elements of S in one order.
Orders(R, S) ==
  /\ \A x \in S : <<x, x>> \notin R
  /\ \A x, y \in S : x = y \/ <<x, y>> \in R \/ <<y, x>> \in R
  /\ \A x, y, z \in S : <<x, y>> \in R /\ <<y, z>> \in R => <<x, z>> \in R

Below(x, S, R) == {y \in S : <<y, x>> \in R}

LEMMA RankGrows ==
  ASSUME NEW S, NEW R, IsFiniteSet(S), Orders(R, S)
  PROVE  /\ \A x \in S : /\ IsFiniteSet(Below(x, S, R))
                         /\ Cardinality(Below(x, S, R)) \in 0 .. Cardinality(S) - 1
         /\ \A x, y \in S : <<x, y>> \in R
              => Cardinality(Below(x, S, R)) < Cardinality(Below(y, S, R))
<1>1. ASSUME NEW x \in S
      PROVE  /\ IsFiniteSet(Below(x, S, R))
             /\ Cardinality(Below(x, S, R)) \in 0 .. Cardinality(S) - 1
  <2>1. Below(x, S, R) \in SUBSET S /\ x \notin Below(x, S, R)
    BY DEF Below, Orders
  <2>2. /\ IsFiniteSet(Below(x, S, R))
        /\ Cardinality(Below(x, S, R)) <= Cardinality(S)
        /\ Cardinality(Below(x, S, R)) # Cardinality(S)
    BY <2>1, FS_Subset
  <2>. QED BY <2>2, FS_CardinalityType
<1>2. ASSUME NEW x \in S, NEW y \in S, <<x, y>> \in R
      PROVE  Cardinality(Below(x, S, R)) < Cardinality(Below(y, S, R))
  <2>1. Below(x, S, R) \in SUBSET Below(y, S, R)
    BY <1>2 DEF Below, Orders
  <2>2. x \in Below(y, S, R) /\ x \notin Below(x, S, R)
    BY <1>2 DEF Below, Orders
  <2>3. /\ Cardinality(Below(x, S, R)) <= Cardinality(Below(y, S, R))
        /\ Cardinality(Below(x, S, R)) # Cardinality(Below(y, S, R))
    BY <1>1, <2>1, <2>2, FS_Subset
  <2>. QED BY <1>1, <2>3, FS_CardinalityType
<1>. QED BY <1>1, <1>2

LEMMA RankOnto ==
  ASSUME NEW S, NEW R, IsFiniteSet(S), Orders(R, S), NEW n \in 0 .. Cardinality(S) - 1
  PROVE  \E x \in S : Cardinality(Below(x, S, R)) = n
<1>. DEFINE T == 0 .. Cardinality(S) - 1
            f == [x \in S |-> Cardinality(Below(x, S, R))]
<1>1. Cardinality(S) \in Nat
  BY FS_CardinalityType
<1>2. IsFiniteSet(T) /\ Cardinality(T) = Cardinality(S)
  BY <1>1, FS_Interval
<1>3. f \in [S -> T]
  BY RankGrows
<1>4. ASSUME NEW x \in S, NEW y \in S, f[x] = f[y]
      PROVE  x = y
  <2>1. f[x] \in Int /\ f[y] \in Int
    BY <1>3
  <2>2. <<x, y>> \notin R /\ <<y, x>> \notin R
    BY <1>4, <2>1, RankGrows
  <2>. QED BY <2>2 DEF Orders
<1>5. f \in Injection(S, T)
  BY <1>3, <1>4 DEF Injection, IsInjective
<1>6. f \in Surjection(S, T)
  BY <1>2, <1>5, FS_Injection
<1>. QED BY <1>6 DEF Surjection

\* InOrder lists a finite set completely and in order.
LEMMA InOrderLists ==
  ASSUME NEW S, NEW R, IsFiniteSet(S), Orders(R, S)
  PROVE  /\ InOrder(S, R) \in Seq(S)
         /\ Len(InOrder(S, R)) = Cardinality(S)
         /\ Range(InOrder(S, R)) = S
         /\ \A i, j \in 1..Len(InOrder(S, R)) : i < j
              => <<InOrder(S, R)[i], InOrder(S, R)[j]>> \in R
<1>. DEFINE n == Cardinality(S)
            q == InOrder(S, R)
<1>1. n \in Nat
  BY FS_CardinalityType
<1>2. q = [i \in 1..n |-> CHOOSE x \in S : Cardinality(Below(x, S, R)) = i - 1]
  BY DEF InOrder, Below
<1>3. ASSUME NEW i \in 1..n
      PROVE  q[i] \in S /\ Cardinality(Below(q[i], S, R)) = i - 1
  <2>1. i - 1 \in 0 .. n - 1
    BY <1>1
  <2>2. \E x \in S : Cardinality(Below(x, S, R)) = i - 1
    BY <2>1, RankOnto
  <2>3. q[i] = CHOOSE x \in S : Cardinality(Below(x, S, R)) = i - 1
    BY <1>2
  <2>. HIDE DEF q
  <2>. QED BY <2>2, <2>3
<1>. HIDE DEF q
<1>4. q \in [1..n -> S]
  BY <1>2, <1>3
<1>5. q \in Seq(S) /\ Len(q) = n
  BY <1>1, <1>4
<1>6. ASSUME NEW i \in 1..n, NEW j \in 1..n, i < j
      PROVE  <<q[i], q[j]>> \in R
  <2>1. ~(<<q[j], q[i]>> \in R)
    BY <1>1, <1>3, <1>6, RankGrows
  <2>2. q[i] # q[j]
    <3>. SUFFICES ASSUME q[i] = q[j] PROVE FALSE
      OBVIOUS
    <3>1. i - 1 = j - 1
      BY <1>3
    <3>. QED BY <1>1, <1>6, <3>1
  <2>. QED BY <1>3, <2>1, <2>2 DEF Orders
<1>7. ASSUME NEW x \in S
      PROVE  \E i \in 1..n : q[i] = x
  <2>1. PICK i \in 1..n : i - 1 = Cardinality(Below(x, S, R))
    <3>1. Cardinality(Below(x, S, R)) \in 0 .. n - 1
      BY RankGrows
    <3>2. Cardinality(Below(x, S, R)) + 1 \in 1..n
      BY <1>1, <3>1
    <3>. QED BY <1>1, <3>1, <3>2
  <2>2. Cardinality(Below(q[i], S, R)) = Cardinality(Below(x, S, R))
    BY <1>3, <2>1
  <2>3. Cardinality(Below(x, S, R)) \in Int /\ Cardinality(Below(q[i], S, R)) \in Int
    BY <1>3, RankGrows
  <2>4. <<q[i], x>> \notin R /\ <<x, q[i]>> \notin R
    BY <1>3, <2>2, <2>3, RankGrows
  <2>. QED BY <1>3, <2>4 DEF Orders
<1>8. Range(q) = S
  BY <1>3, <1>4, <1>7 DEF Range
<1>. QED BY <1>5, <1>6, <1>8 DEF q

-----------------------------------------------------------------------------
(* Sequences of lines in the order of the file.                            *)

\* Complete log events up to a position of the file, in its order.
Sorted(q, w, pos) ==
  /\ q \in Seq(Nat)
  /\ \A i, j \in 1..Len(q) : i < j => q[i] < q[j]
  /\ \A i \in 1..Len(q) : q[i] \in 1..w /\ ParseLine(q[i]) /\ 2 * q[i] <= pos

LEMMA LinesOfSeq ==
  ASSUME NEW q \in Seq(Nat)
  PROVE  /\ \A l \in Range(q) : \E i \in 1..Len(q) : l = q[i]
         /\ \A i \in 1..Len(q) : q[i] \in Range(q)
         /\ Range(q) \subseteq Nat
<1>1. DOMAIN q = 1..Len(q) /\ \A i \in 1..Len(q) : q[i] \in Nat
  BY LenProperties
<1>. QED BY <1>1 DEF Range

\* A part of a sorted sequence is sorted.
LEMMA SortedPart ==
  ASSUME NEW q, NEW w \in Nat, NEW pos \in Nat, Sorted(q, w, pos),
         NEW m \in 1 .. Len(q) + 1, NEW n \in m - 1 .. Len(q)
  PROVE  /\ Sorted(SubSeq(q, m, n), w, pos)
         /\ Len(SubSeq(q, m, n)) = n - m + 1
         /\ Range(SubSeq(q, m, n)) \subseteq Range(q)
<1>. DEFINE p == SubSeq(q, m, n)
<1>1. q \in Seq(Nat) /\ Len(q) \in Nat
  BY DEF Sorted
<1>2. \A i \in m .. n : q[i] \in Nat
  BY <1>1, ElementOfSeq
<1>3. m \in Int /\ n \in Int
  BY <1>1
<1>4. /\ p \in Seq(Nat)
      /\ Len(p) = IF m <= n THEN n - m + 1 ELSE 0
      /\ \A i \in 1 .. n - m + 1 : p[i] = q[m + i - 1]
  BY <1>2, <1>3, SubSeqProperties
<1>5. Len(p) = n - m + 1
  BY <1>1, <1>3, <1>4
<1>. HIDE DEF p
<1>6. \A i \in 1..Len(p) : m + i - 1 \in 1..Len(q) /\ p[i] = q[m + i - 1]
  BY <1>1, <1>4, <1>5
<1>7. Sorted(p, w, pos)
  <2>1. ASSUME NEW i \in 1..Len(p), NEW j \in 1..Len(p), i < j
        PROVE  p[i] < p[j]
    <3>1. m + i - 1 < m + j - 1
      BY <1>1, <1>5, <2>1
    <3>. QED BY <1>6, <3>1 DEF Sorted
  <2>2. ASSUME NEW i \in 1..Len(p)
        PROVE  p[i] \in 1..w /\ ParseLine(p[i]) /\ 2 * p[i] <= pos
    BY <1>6 DEF Sorted
  <2>. QED BY <1>4, <2>1, <2>2 DEF Sorted
<1>8. Range(p) \subseteq Range(q)
  <2>1. ASSUME NEW l \in Range(p)
        PROVE  l \in Range(q)
    <3>1. PICK i \in 1..Len(p) : l = p[i]
      BY <1>4, LinesOfSeq
    <3>. QED BY <1>1, <1>6, <3>1, LinesOfSeq
  <2>. QED BY <2>1
<1>. QED BY <1>5, <1>7, <1>8 DEF p

\* What follows in the file is sorted behind what was read.
LEMMA SortedConcat ==
  ASSUME NEW q, NEW p, NEW w \in Nat, NEW pos \in Nat, NEW later \in Nat,
         Sorted(q, w, pos), Sorted(p, w, later), pos <= later,
         \A i \in 1..Len(p) : 2 * p[i] > pos
  PROVE  Sorted(q \o p, w, later)
<1>1. q \in Seq(Nat) /\ p \in Seq(Nat) /\ Len(q) \in Nat /\ Len(p) \in Nat
  BY DEF Sorted
<1>. DEFINE c == q \o p
<1>2. /\ c \in Seq(Nat) /\ Len(c) = Len(q) + Len(p)
      /\ \A i \in 1 .. Len(q) + Len(p) : c[i] = IF i <= Len(q) THEN q[i] ELSE p[i - Len(q)]
  BY <1>1, ConcatProperties
<1>. HIDE DEF c
<1>3. ASSUME NEW i \in 1 .. Len(q) + Len(p)
      PROVE  /\ i <= Len(q) => i \in 1..Len(q) /\ c[i] = q[i]
             /\ i > Len(q) => i - Len(q) \in 1..Len(p) /\ c[i] = p[i - Len(q)]
  BY <1>1, <1>2
<1>4. ASSUME NEW i \in 1 .. Len(q) + Len(p)
      PROVE  /\ c[i] \in 1..w /\ ParseLine(c[i])
             /\ 2 * c[i] <= later
             /\ i <= Len(q) => 2 * c[i] <= pos
             /\ i > Len(q) => 2 * c[i] > pos
  <2>1. CASE i <= Len(q)
    <3>1. i \in 1..Len(q) /\ c[i] = q[i]
      BY <1>3, <2>1
    <3>. QED BY <1>1, <2>1, <3>1 DEF Sorted
  <2>2. CASE i > Len(q)
    <3>1. i - Len(q) \in 1..Len(p) /\ c[i] = p[i - Len(q)]
      BY <1>3, <2>2
    <3>. QED BY <1>1, <2>2, <3>1 DEF Sorted
  <2>. QED BY <1>1, <2>1, <2>2
<1>5. ASSUME NEW i \in 1 .. Len(q) + Len(p), NEW j \in 1 .. Len(q) + Len(p), i < j
      PROVE  c[i] < c[j]
  <2>1. CASE j <= Len(q)
    <3>1. /\ i \in 1..Len(q) /\ c[i] = q[i]
          /\ j \in 1..Len(q) /\ c[j] = q[j]
      BY <1>1, <1>3, <1>5, <2>1
    <3>. QED BY <1>5, <3>1 DEF Sorted
  <2>2. CASE i > Len(q)
    <3>1. /\ i - Len(q) \in 1..Len(p) /\ c[i] = p[i - Len(q)]
          /\ j - Len(q) \in 1..Len(p) /\ c[j] = p[j - Len(q)]
      BY <1>1, <1>3, <1>5, <2>2
    <3>2. i - Len(q) < j - Len(q)
      BY <1>1, <1>5
    <3>. QED BY <3>1, <3>2 DEF Sorted
  <2>3. CASE i <= Len(q) /\ j > Len(q)
    <3>1. 2 * c[i] <= pos /\ 2 * c[j] > pos /\ c[i] \in Nat /\ c[j] \in Nat
      BY <1>4, <2>3
    <3>. QED BY <3>1
  <2>. QED BY <1>1, <1>5, <2>1, <2>2, <2>3
<1>6. Sorted(c, w, later)
  BY <1>1, <1>2, <1>4, <1>5 DEF Sorted
<1>. QED BY <1>6 DEF c

\* A sorted sequence names a line once.
LEMMA SortedIsCounted ==
  ASSUME NEW q, NEW w \in Nat, NEW pos \in Nat, Sorted(q, w, pos),
         NEW T, IsFiniteSet(T), Range(q) \subseteq T
  PROVE  Len(q) <= Cardinality(T)
<1>1. q \in Seq(Nat) /\ Len(q) \in Nat /\ q \in [1..Len(q) -> Nat]
  BY LenProperties DEF Sorted
<1>2. q \in [1..Len(q) -> T]
  BY <1>1, LinesOfSeq
<1>3. ASSUME NEW i \in 1..Len(q), NEW j \in 1..Len(q), q[i] = q[j]
      PROVE  i = j
  <2>1. ~(i < j) /\ ~(j < i)
    BY <1>1, <1>3 DEF Sorted
  <2>. QED BY <1>1, <2>1
<1>4. q \in Injection(1..Len(q), T)
  BY <1>1, <1>2, <1>3 DEF Injection, IsInjective
<1>5. Cardinality(1..Len(q)) <= Cardinality(T)
  BY <1>4, FS_Injection
<1>6. Cardinality(1..Len(q)) = Len(q)
  <2>1. 1 \in Int /\ Len(q) \in Int
    BY <1>1
  <2>2. Cardinality(1..Len(q)) = IF 1 > Len(q) THEN 0 ELSE Len(q) - 1 + 1
    BY <2>1, FS_Interval
  <2>. QED BY <1>1, <2>2
<1>. QED BY <1>5, <1>6

-----------------------------------------------------------------------------
(* The shipper's invariant.                                                *)

FileOK ==
  /\ written \in Nat /\ half \in BOOLEAN /\ written <= MaxLine /\ (half => written < MaxLine)
  /\ offset \in Nat /\ offset <= FilePos
  /\ saved = None \/ (saved \in Nat /\ saved <= FilePos)

\* A reader that stands inside the last line has read its first half itself.
PartialOK == partial \in BOOLEAN /\ (~partial => offset # 2 * written + 1)

HeldOK ==
  /\ batch \in Seq(Nat) /\ queue \in Seq(Nat)
  /\ Sorted(batch \o queue, written, offset)
  /\ Len(queue) <= MaxPending /\ Len(batch) <= BatchSize

StageOK ==
  /\ agent \in {"up", "stopping", "down"}
  /\ stage \in {"idle", "loki", "uplink", "done"} /\ failed \in BOOLEAN
  /\ stage = "idle" <=> batch = <<>>
  /\ agent = "down" => stage = "idle"

ShipInv == FileOK /\ PartialOK /\ HeldOK /\ StageOK

-----------------------------------------------------------------------------
(* Reading the file.                                                       *)

NewSet == {l \in 1..written : 2 * l > offset /\ ~(2 * l = offset + 1 /\ ~partial) /\ ParseLine(l)}

LEMMA FilePosType ==
  ASSUME FileOK
  PROVE  /\ FilePos \in Nat /\ 2 * written <= FilePos
         /\ FilePos = IF half THEN 2 * written + 1 ELSE 2 * written
  BY DEF FileOK, FilePos

\* readNew: what is read follows what is held, in the order of the file.
LEMMA NewLinesSorted ==
  ASSUME FileOK
  PROVE  /\ Sorted(NewLines, written, FilePos)
         /\ Range(NewLines) = NewSet
         /\ \A i \in 1..Len(NewLines) : 2 * NewLines[i] > offset
<1>1. NewLines = InOrder(NewSet, FileOrder)
  BY DEF NewLines, NewSet
<1>2. IsFiniteSet(NewSet)
  <2>1. IsFiniteSet(1..written)
    BY FS_Interval DEF FileOK
  <2>2. NewSet \in SUBSET (1..written)
    BY DEF NewSet
  <2>. QED BY <2>1, <2>2, FS_Subset
<1>3. \A l \in NewSet : /\ l \in Nat /\ l \in 1..written /\ l \in Line /\ ParseLine(l)
                        /\ 2 * l > offset /\ 2 * l <= FilePos
  BY LogAssumption, FilePosType DEF NewSet, FileOK, Line
<1>4. Orders(FileOrder, NewSet)
  <2>1. \A x, y \in NewSet : <<x, y>> \in FileOrder <=> x < y
    BY <1>3 DEF FileOrder
  <2>. QED BY <1>3, <2>1 DEF Orders
<1>. DEFINE q == NewLines
<1>5. /\ q \in Seq(NewSet) /\ Range(q) = NewSet
      /\ \A i, j \in 1..Len(q) : i < j => <<q[i], q[j]>> \in FileOrder
  BY <1>1, <1>2, <1>4, InOrderLists
<1>. HIDE DEF q
<1>6. \A i \in 1..Len(q) : q[i] \in NewSet
  BY <1>5, ElementOfSeq
<1>7. q \in Seq(Nat)
  <2>1. NewSet \subseteq Nat
    BY <1>3
  <2>. QED BY <1>5, <2>1, SeqMonotonic
<1>8. \A i, j \in 1..Len(q) : i < j => q[i] < q[j]
  BY <1>5, <1>6 DEF FileOrder
<1>9. Sorted(q, written, FilePos)
  BY <1>3, <1>6, <1>7, <1>8 DEF Sorted
<1>. QED BY <1>3, <1>5, <1>6, <1>9 DEF q

\* enqueue: nothing is lost unless the queue is full.
LEMMA EnqueueSorted ==
  ASSUME ShipInv, batch = <<>>,
         NEW q, q = Enqueue(queue, NewLines)
  PROVE  /\ Sorted(q, written, FilePos)
         /\ Len(q) <= MaxPending
         /\ Range(q) \subseteq Range(queue) \cup NewSet
         /\ Range(q) = Range(queue) \cup NewSet \/ Len(q) = MaxPending
<1>. DEFINE all == queue \o NewLines
<1>1. FileOK /\ queue \in Seq(Nat) /\ written \in Nat /\ offset \in Nat /\ offset <= FilePos
  BY DEF ShipInv, FileOK, HeldOK
<1>2. FilePos \in Nat
  BY <1>1, FilePosType
<1>3. Sorted(queue, written, offset)
  BY <1>1, ConcatEmptySeq DEF ShipInv, HeldOK
<1>4. Sorted(NewLines, written, FilePos) /\ NewLines \in Seq(Nat)
  BY <1>1, NewLinesSorted DEF Sorted
<1>5. Sorted(all, written, FilePos)
  BY <1>1, <1>2, <1>3, <1>4, NewLinesSorted, SortedConcat
<1>6. Range(all) = Range(queue) \cup NewSet
  BY <1>1, <1>4, NewLinesSorted, RangeConcatenation
<1>7. q = IF Len(all) <= MaxPending THEN all ELSE SubSeq(all, Len(all) - MaxPending + 1, Len(all))
  BY DEF Enqueue
<1>. HIDE DEF all
<1>8. CASE Len(all) <= MaxPending
  BY <1>5, <1>6, <1>7, <1>8
<1>9. CASE Len(all) > MaxPending
  <2>. DEFINE m == Len(all) - MaxPending + 1
  <2>1. Len(all) \in Nat /\ MaxPending \in Nat \ {0}
    BY <1>5, LogAssumption DEF Sorted
  <2>2. m \in 1 .. Len(all) + 1 /\ Len(all) \in m - 1 .. Len(all) /\ Len(all) - m + 1 = MaxPending
    BY <1>9, <2>1
  <2>3. q = SubSeq(all, m, Len(all))
    BY <1>7, <1>9, <2>1
  <2>. HIDE DEF m
  <2>4. Sorted(q, written, FilePos) /\ Len(q) = MaxPending /\ Range(q) \subseteq Range(all)
    BY <1>1, <1>2, <1>5, <2>2, <2>3, SortedPart
  <2>. QED BY <1>6, <2>1, <2>4
<1>. QED
  <2>1. Len(all) \in Nat /\ MaxPending \in Nat
    BY <1>5, LogAssumption DEF Sorted
  <2>. QED BY <1>8, <1>9, <2>1

\* takeBatch: the batch is the head of the queue.
LEMMA TakeBatchSplits ==
  ASSUME NEW q, NEW w \in Nat, NEW pos \in Nat, Sorted(q, w, pos),
         Len(q) <= MaxPending, TakeBatch(q)
  PROVE  /\ batch' \in Seq(Nat) /\ queue' \in Seq(Nat)
         /\ batch' \o queue' = q
         /\ Len(batch') <= BatchSize /\ Len(queue') <= MaxPending
         /\ batch' = <<>> <=> q = <<>>
         /\ Range(queue') \cup Range(batch') = Range(q)
<1>. DEFINE n == IF Len(q) < BatchSize THEN Len(q) ELSE BatchSize
<1>1. q \in Seq(Nat) /\ Len(q) \in Nat /\ BatchSize \in Nat \ {0} /\ MaxPending \in Nat
  BY LogAssumption DEF Sorted
<1>2. /\ n \in Nat /\ n <= Len(q) /\ n <= BatchSize /\ (n = 0 <=> Len(q) = 0)
  BY <1>1
<1>3. batch' = SubSeq(q, 1, n) /\ queue' = SubSeq(q, n + 1, Len(q))
  BY DEF TakeBatch
<1>. HIDE DEF n
<1>4. /\ 1 \in 1 .. Len(q) + 1 /\ n \in 1 - 1 .. Len(q)
      /\ n + 1 \in 1 .. Len(q) + 1 /\ Len(q) \in n + 1 - 1 .. Len(q)
  BY <1>1, <1>2
<1>5. /\ Sorted(batch', w, pos) /\ Len(batch') = n - 1 + 1
      /\ Sorted(queue', w, pos) /\ Len(queue') = Len(q) - (n + 1) + 1
  BY <1>3, <1>4, SortedPart
<1>6. batch' \in Seq(Nat) /\ queue' \in Seq(Nat)
  BY <1>5 DEF Sorted
<1>7. batch' \o queue' = q
  <2>1. CASE q = <<>>
    <3>1. Len(batch') = 0 /\ Len(queue') = 0
      BY <1>1, <1>2, <1>5, <2>1
    <3>2. batch' = <<>> /\ queue' = <<>>
      BY <1>6, <3>1, EmptySeq
    <3>. QED BY <2>1, <3>2
  <2>2. CASE q # <<>>
    <3>1. Len(q) # 0
      BY <1>1, <2>2, EmptySeq
    <3>2. /\ 1 \in 1 .. Len(q) + 1 /\ n \in 1 - 1 .. Len(q) /\ Len(q) \in n .. Len(q)
      BY <1>1, <1>2
    <3>3. SubSeq(q, 1, n) \o SubSeq(q, n + 1, Len(q)) = SubSeq(q, 1, Len(q))
      BY <1>1, <3>2, ConcatAdjacentSubSeq
    <3>. QED BY <1>1, <1>3, <3>3, SubSeqFull
  <2>. QED BY <2>1, <2>2
<1>8. batch' = <<>> <=> q = <<>>
  <2>1. Len(batch') = n
    BY <1>2, <1>5
  <2>2. batch' = <<>> <=> Len(batch') = 0
    BY <1>6, EmptySeq
  <2>3. q = <<>> <=> Len(q) = 0
    BY <1>1, EmptySeq
  <2>. QED BY <1>2, <2>1, <2>2, <2>3
<1>9. Range(queue') \cup Range(batch') = Range(q)
  <2>1. Range(batch' \o queue') = Range(batch') \cup Range(queue')
    BY <1>6, RangeConcatenation
  <2>. QED BY <1>7, <2>1
<1>. QED BY <1>1, <1>2, <1>5, <1>6, <1>7, <1>8, <1>9

-----------------------------------------------------------------------------
(* The invariant is kept.                                                  *)

LEMMA SortedLater ==
  ASSUME NEW q, NEW w \in Nat, NEW pos \in Nat, NEW w2 \in Nat, NEW pos2 \in Nat,
         Sorted(q, w, pos), w <= w2, pos <= pos2
  PROVE  Sorted(q, w2, pos2)
  BY DEF Sorted

LEMMA ShipInit == Init => ShipInv
<1>. SUFFICES ASSUME Init PROVE ShipInv
  OBVIOUS
<1>1. batch = <<>> /\ queue = <<>> /\ Len(<<>>) = 0 /\ <<>> \in Seq(Nat)
  BY EmptySeq DEF Init
<1>2. <<>> \o <<>> = <<>>
  BY <1>1, ConcatEmptySeq
<1>3. Sorted(<<>>, 0, 0)
  BY <1>1 DEF Sorted
<1>4. FileOK /\ PartialOK
  <2>1. /\ written = 0 /\ ~half /\ half \in BOOLEAN /\ offset = 0 /\ partial \in BOOLEAN
        /\ saved = None /\ MaxLine \in Nat
    BY LogAssumption DEF Init
  <2>2. FilePos = 0
    BY <2>1 DEF FilePos
  <2>3. FileOK
    BY <2>1, <2>2 DEF FileOK
  <2>4. PartialOK
    BY <2>1 DEF PartialOK
  <2>. QED BY <2>3, <2>4
<1>5. HeldOK
  <2>1. written = 0 /\ offset = 0
    BY DEF Init
  <2>. QED BY <1>1, <1>2, <1>3, <2>1, LogAssumption DEF HeldOK
<1>6. StageOK
  BY DEF Init, StageOK
<1>. QED BY <1>4, <1>5, <1>6 DEF ShipInv

\* A step that leaves the lines in memory and the stage alone.
LEMMA HeldUnchanged ==
  ASSUME ShipInv, UNCHANGED <<queue, batch, stage, failed, offset>>,
         agent' \in {"up", "stopping", "down"}, agent' = "down" => stage = "idle",
         written' \in Nat, written <= written'
  PROVE  HeldOK' /\ StageOK'
<1>1. Sorted(batch \o queue, written', offset)
  BY SortedLater DEF ShipInv, HeldOK, FileOK
<1>. QED BY <1>1 DEF ShipInv, HeldOK, StageOK

LEMMA ShipFileStep ==
  ASSUME ShipInv, HandleStarts \/ HandleEnds
  PROVE  ShipInv'
<1>. USE DEF FileOK, PartialOK, FilePos
<1>1. CASE HandleStarts
  <2>1. FileOK' /\ PartialOK'
    BY <1>1, LogAssumption DEF ShipInv, HandleStarts, shipVars
  <2>2. HeldOK' /\ StageOK'
    BY <1>1, HeldUnchanged DEF ShipInv, HandleStarts, shipVars, StageOK
  <2>. QED BY <2>1, <2>2 DEF ShipInv
<1>2. CASE HandleEnds
  <2>1. FileOK' /\ PartialOK'
    <3>1. /\ half /\ ~half' /\ half' \in BOOLEAN /\ written' = written + 1
          /\ UNCHANGED <<offset, partial, saved>>
      BY <1>2 DEF HandleEnds, shipVars
    <3>2. FilePos = 2 * written + 1 /\ FilePos' = 2 * (written + 1) /\ written \in Nat
      BY <3>1 DEF ShipInv
    <3>. HIDE DEF FilePos
    <3>3. FileOK'
      BY <3>1, <3>2, LogAssumption DEF ShipInv
    <3>4. offset \in Nat /\ offset <= FilePos
      BY DEF ShipInv
    <3>5. PartialOK'
      BY <3>1, <3>2, <3>4 DEF ShipInv
    <3>. QED BY <3>3, <3>5
  <2>2. HeldOK' /\ StageOK'
    BY <1>2, HeldUnchanged DEF ShipInv, HandleEnds, shipVars, StageOK
  <2>. QED BY <2>1, <2>2 DEF ShipInv
<1>. QED BY <1>1, <1>2

LEMMA ShipReadStep ==
  ASSUME ShipInv, ReadNew \/ Stop
  PROVE  ShipInv'
<1>. DEFINE q == Enqueue(queue, NewLines)
<1>1. batch = <<>> /\ FileOK /\ written \in Nat /\ UNCHANGED fileVars
  BY DEF ReadNew, Stop, ShipInv, StageOK, FileOK
<1>2. Sorted(q, written, FilePos) /\ Len(q) <= MaxPending /\ q \in Seq(Nat)
  BY <1>1, EnqueueSorted DEF Sorted
<1>3. FilePos \in Nat
  BY <1>1, FilePosType
<1>4. offset' = FilePos /\ partial' = half /\ UNCHANGED <<written, half, saved>> /\ FilePos' = FilePos
  BY <1>1 DEF ReadNew, Stop, fileVars, FilePos
<1>5. FileOK' /\ PartialOK'
  <2>1. FilePos = IF half THEN 2 * written + 1 ELSE 2 * written
    BY <1>1, FilePosType
  <2>. QED BY <1>1, <1>3, <1>4, <2>1 DEF FileOK, PartialOK
<1>. HIDE DEF q
<1>6. CASE ReadNew
  <2>1. queue' = q /\ batch' = <<>>
    BY <1>1, <1>6 DEF ReadNew, q
  <2>2. batch' \o queue' = q /\ batch' \in Seq(Nat) /\ Len(batch') = 0
    BY <1>2, <2>1, ConcatEmptySeq, EmptySeq
  <2>3. HeldOK'
    BY <1>2, <1>4, <2>1, <2>2, LogAssumption DEF HeldOK
  <2>4. StageOK'
    BY <1>1, <1>6, <2>1 DEF ReadNew, ShipInv, StageOK
  <2>. QED BY <1>5, <2>3, <2>4 DEF ShipInv
<1>7. CASE Stop
  <2>1. TakeBatch(q) /\ stage' = IF q = <<>> THEN "idle" ELSE IF LokiOn THEN "loki" ELSE "uplink"
    BY <1>7 DEF Stop, q
  <2>2. /\ batch' \in Seq(Nat) /\ queue' \in Seq(Nat) /\ batch' \o queue' = q
        /\ Len(batch') <= BatchSize /\ Len(queue') <= MaxPending
        /\ batch' = <<>> <=> q = <<>>
    BY <1>1, <1>2, <1>3, <2>1, TakeBatchSplits
  <2>3. HeldOK'
    BY <1>2, <1>4, <2>2 DEF HeldOK
  <2>4. StageOK'
    BY <1>7, <2>1, <2>2 DEF Stop, StageOK
  <2>. QED BY <1>5, <2>3, <2>4 DEF ShipInv
<1>. QED BY <1>6, <1>7

\* A step that leaves the file and the reader's place in it alone.
LEMMA FileUnchanged ==
  ASSUME ShipInv, UNCHANGED <<written, half, offset, partial>>,
         saved' \in {saved, offset}
  PROVE  FileOK' /\ PartialOK' /\ FilePos' = FilePos
  BY DEF ShipInv, FileOK, PartialOK, FilePos

LEMMA ShipFlushStep ==
  ASSUME ShipInv, Flush \/ Push \/ Uplink
  PROVE  ShipInv'
<1>1. FileOK' /\ PartialOK'
  BY FileUnchanged DEF Flush, Push, Uplink, fileVars
<1>2. CASE Flush
  <2>1. /\ batch = <<>> /\ queue \in Seq(Nat) /\ written \in Nat /\ offset \in Nat
        /\ Len(queue) <= MaxPending /\ queue # <<>> /\ TakeBatch(queue)
    BY <1>2 DEF Flush, ShipInv, StageOK, HeldOK, FileOK
  <2>2. Sorted(queue, written, offset)
    BY <2>1, ConcatEmptySeq DEF ShipInv, HeldOK
  <2>3. /\ batch' \in Seq(Nat) /\ queue' \in Seq(Nat) /\ batch' \o queue' = queue
        /\ Len(batch') <= BatchSize /\ Len(queue') <= MaxPending /\ batch' # <<>>
    BY <2>1, <2>2, TakeBatchSplits
  <2>4. HeldOK'
    BY <1>2, <2>2, <2>3 DEF HeldOK, Flush, fileVars
  <2>5. StageOK'
    BY <1>2, <2>3 DEF Flush, StageOK
  <2>. QED BY <1>1, <2>4, <2>5 DEF ShipInv
<1>3. CASE Push
  BY <1>1, <1>3 DEF ShipInv, HeldOK, StageOK, Push, fileVars
<1>4. CASE Uplink
  BY <1>1, <1>4 DEF ShipInv, HeldOK, StageOK, Uplink, fileVars
<1>. QED BY <1>2, <1>3, <1>4

\* requeue: a prefix of the batch and the queue.
LEMMA RequeueSorted ==
  ASSUME ShipInv
  PROVE  /\ Sorted(Requeue(queue), written, offset)
         /\ Len(Requeue(queue)) <= MaxPending
         /\ Range(Requeue(queue)) \subseteq Range(queue) \cup Range(batch)
         /\ \/ Range(Requeue(queue)) = Range(queue) \cup Range(batch)
            \/ Len(Requeue(queue)) = MaxPending
<1>. DEFINE all == batch \o queue
            n == IF Len(all) < MaxPending THEN Len(all) ELSE MaxPending
<1>1. /\ batch \in Seq(Nat) /\ queue \in Seq(Nat) /\ Sorted(all, written, offset)
      /\ written \in Nat /\ offset \in Nat
  BY DEF ShipInv, HeldOK, FileOK
<1>2. Range(all) = Range(queue) \cup Range(batch)
  BY <1>1, RangeConcatenation
<1>3. all \in Seq(Nat) /\ Len(all) \in Nat /\ MaxPending \in Nat
  BY <1>1, LogAssumption DEF Sorted
<1>4. Requeue(queue) = SubSeq(all, 1, n)
  BY DEF Requeue
<1>. HIDE DEF all
<1>5. /\ n \in 0 .. Len(all) /\ n <= MaxPending /\ (n = Len(all) \/ n = MaxPending)
      /\ 1 \in 1 .. Len(all) + 1 /\ n \in 1 - 1 .. Len(all) /\ n - 1 + 1 = n
  BY <1>3
<1>. HIDE DEF n
<1>6. /\ Sorted(SubSeq(all, 1, n), written, offset)
      /\ Len(SubSeq(all, 1, n)) = n - 1 + 1
      /\ Range(SubSeq(all, 1, n)) \subseteq Range(all)
  BY <1>1, <1>5, SortedPart
<1>7. n = Len(all) => SubSeq(all, 1, n) = all
  BY <1>3, SubSeqFull
<1>. QED BY <1>2, <1>4, <1>5, <1>6, <1>7

\* The queue is a sorted part of what is held.
LEMMA QueueSorted ==
  ASSUME ShipInv
  PROVE  /\ Sorted(queue, written, offset)
         /\ \A l \in Range(batch) : l \notin Range(queue)
         /\ \A l \in Range(queue) \cup Range(batch) : l \in 1..written /\ ParseLine(l) /\ 2 * l <= offset
<1>. DEFINE all == batch \o queue
            n == Len(batch)
<1>1. batch \in Seq(Nat) /\ queue \in Seq(Nat) /\ Sorted(all, written, offset)
  BY DEF ShipInv, HeldOK
<1>2. /\ all \in Seq(Nat) /\ Len(all) = n + Len(queue) /\ n \in Nat /\ Len(queue) \in Nat
      /\ \A i \in 1 .. n + Len(queue) : all[i] = IF i <= n THEN batch[i] ELSE queue[i - n]
  BY <1>1, ConcatProperties
<1>. HIDE DEF all
<1>3. \A i \in 1..n : i \in 1..Len(all) /\ all[i] = batch[i]
  BY <1>2
<1>4. \A j \in 1..Len(queue) : n + j \in 1..Len(all) /\ all[n + j] = queue[j]
  <2>. SUFFICES ASSUME NEW j \in 1..Len(queue)
                PROVE  n + j \in 1..Len(all) /\ all[n + j] = queue[j]
    OBVIOUS
  <2>1. n + j \in 1 .. n + Len(queue) /\ ~(n + j <= n) /\ n + j - n = j
    BY <1>2
  <2>. QED BY <1>2, <2>1
<1>5. Sorted(queue, written, offset)
  <2>1. ASSUME NEW i \in 1..Len(queue), NEW j \in 1..Len(queue), i < j
        PROVE  queue[i] < queue[j]
    <3>1. n + i < n + j
      BY <1>2, <2>1
    <3>. QED BY <1>1, <1>4, <3>1 DEF Sorted
  <2>2. ASSUME NEW i \in 1..Len(queue)
        PROVE  queue[i] \in 1..written /\ ParseLine(queue[i]) /\ 2 * queue[i] <= offset
    BY <1>1, <1>4 DEF Sorted
  <2>. QED BY <1>1, <2>1, <2>2 DEF Sorted
<1>6. ASSUME NEW l \in Range(batch), l \in Range(queue)
      PROVE  FALSE
  <2>1. PICK i \in 1..n : l = batch[i]
    BY <1>1, LinesOfSeq
  <2>2. PICK j \in 1..Len(queue) : l = queue[j]
    BY <1>1, <1>6, LinesOfSeq
  <2>3. i < n + j
    BY <1>2
  <2>4. all[i] < all[n + j]
    BY <1>1, <1>3, <1>4, <2>3 DEF Sorted
  <2>5. all[i] = l /\ all[n + j] = l /\ l \in Nat
    BY <1>1, <1>3, <1>4, <2>1, <2>2, LinesOfSeq
  <2>. QED BY <2>4, <2>5
<1>7. ASSUME NEW l \in Range(queue) \cup Range(batch)
      PROVE  l \in 1..written /\ ParseLine(l) /\ 2 * l <= offset
  <2>1. CASE l \in Range(queue)
    <3>1. PICK j \in 1..Len(queue) : l = queue[j]
      BY <1>1, <2>1, LinesOfSeq
    <3>. QED BY <1>5, <3>1 DEF Sorted
  <2>2. CASE l \in Range(batch)
    <3>1. PICK i \in 1..n : l = batch[i]
      BY <1>1, <2>2, LinesOfSeq
    <3>. QED BY <1>1, <1>3, <3>1 DEF Sorted
  <2>. QED BY <2>1, <2>2
<1>. QED BY <1>5, <1>6, <1>7

LEMMA ShipEndStep ==
  ASSUME ShipInv, FlushEnds \/ RunReturns \/ Crash \/ New
  PROVE  ShipInv'
<1>. USE DEF ShipInv
<1>0. /\ batch' = <<>> /\ queue' \in Seq(Nat) => batch' \o queue' = queue'
      /\ Len(<<>>) = 0 /\ <<>> \in Seq(Nat) /\ BatchSize \in Nat /\ MaxPending \in Nat
  BY ConcatEmptySeq, EmptySeq, LogAssumption
<1>1. CASE FlushEnds
  <2>1. FileOK' /\ PartialOK'
    BY <1>1, FileUnchanged DEF FlushEnds, WriteState, fileVars
  <2>2. UNCHANGED <<written, offset>> /\ batch' = <<>> /\ (queue' = Requeue(queue) \/ queue' = queue)
    BY <1>1 DEF FlushEnds, fileVars
  <2>3. Sorted(queue', written, offset) /\ Len(queue') <= MaxPending
    BY <2>2, RequeueSorted, QueueSorted DEF HeldOK
  <2>4. HeldOK'
    BY <1>0, <2>2, <2>3 DEF HeldOK, Sorted
  <2>5. StageOK'
    BY <1>1 DEF FlushEnds, StageOK
  <2>. QED BY <2>1, <2>4, <2>5
<1>2. CASE RunReturns
  BY <1>2, HeldUnchanged, FileUnchanged DEF RunReturns, fileVars, shipVars, StageOK, HeldOK, FileOK
<1>3. CASE Crash
  <2>1. FileOK' /\ PartialOK' /\ UNCHANGED <<offset, queue>> /\ written' \in Nat /\ written <= written'
    <3>1. /\ written' = written + (IF half THEN 1 ELSE 0) /\ ~half' /\ half' \in BOOLEAN
          /\ UNCHANGED <<offset, partial, saved, queue>>
      BY <1>3 DEF Crash
    <3>2. /\ written' \in Nat /\ written <= written' /\ written' <= MaxLine
          /\ FilePos <= FilePos' /\ FilePos \in Nat /\ FilePos' \in Nat
      BY <3>1, LogAssumption DEF FileOK, FilePos
    <3>3. FileOK'
      BY <3>1, <3>2 DEF FileOK
    <3>4. PartialOK'
      BY <3>1, FilePosType DEF FileOK, PartialOK
    <3>. QED BY <3>1, <3>2, <3>3, <3>4
  <2>2. Sorted(queue, written', offset)
    BY <2>1, QueueSorted, SortedLater DEF FileOK
  <2>3. batch' = <<>>
    BY <1>3 DEF Crash
  <2>4. HeldOK'
    BY <1>0, <2>1, <2>2, <2>3 DEF HeldOK
  <2>5. StageOK'
    BY <1>3 DEF Crash, StageOK
  <2>. QED BY <2>1, <2>4, <2>5
<1>4. CASE New
  <2>1. FileOK' /\ PartialOK'
    <3>1. /\ ~half /\ UNCHANGED <<written, half, saved>> /\ ~partial' /\ partial' \in BOOLEAN
          /\ offset' = IF saved = None \/ saved > FilePos THEN 0 ELSE saved
      BY <1>4 DEF New, fileVars
    <3>2. FilePos = 2 * written /\ FilePos' = FilePos /\ written \in Nat
      BY <3>1 DEF FilePos, FileOK
    <3>3. offset' \in Nat /\ offset' <= FilePos
      <4>1. CASE offset' = 0
        BY <3>2, <4>1
      <4>2. CASE saved # None /\ offset' = saved
        BY <4>2 DEF FileOK
      <4>. QED BY <3>1, <4>1, <4>2
    <3>4. FileOK'
      BY <3>1, <3>2, <3>3 DEF FileOK
    <3>5. PartialOK'
      <4>1. offset' # 2 * written + 1
        BY <3>2, <3>3
      <4>2. offset' # 2 * written' + 1
        BY <3>1, <4>1
      <4>. QED BY <3>1, <4>2 DEF PartialOK
    <3>. QED BY <3>4, <3>5
  <2>2. batch' = <<>> /\ queue' = <<>>
    BY <1>4 DEF New, StageOK
  <2>3. Sorted(<<>>, written', offset')
    BY <1>0 DEF Sorted
  <2>4. HeldOK'
    BY <1>0, <2>2, <2>3 DEF HeldOK
  <2>5. StageOK'
    BY <1>4, <2>2 DEF New, StageOK
  <2>. QED BY <2>1, <2>4, <2>5
<1>. QED BY <1>1, <1>2, <1>3, <1>4

LEMMA ShipOtherStep ==
  ASSUME ShipInv, UNCHANGED <<fileVars, agent, shipVars>>
  PROVE  ShipInv'
  BY FileUnchanged DEF ShipInv, HeldOK, StageOK, fileVars, shipVars

LEMMA ShipInvariant == Spec => []ShipInv
<1>1. ASSUME ShipInv, [Next]_vars
      PROVE  ShipInv'
  <2>1. CASE Connect \/ Disconnect \/ RecvLogs \/ OsLogs \/ Poll \/ UNCHANGED vars
    <3>1. UNCHANGED <<fileVars, agent, shipVars>>
      BY <2>1 DEF Connect, Disconnect, RecvLogs, OsLogs, Poll, vars
    <3>. QED BY <1>1, <3>1, ShipOtherStep
  <2>. QED BY <1>1, <2>1, ShipFileStep, ShipReadStep, ShipFlushStep, ShipEndStep DEF Next
<1>. QED BY <1>1, ShipInit, PTL DEF Spec

-----------------------------------------------------------------------------
(* The promise of LogDelivery is kept.                                     *)

LEMMA LoggedLines ==
  ASSUME FileOK
  PROVE  /\ IsFiniteSet(Logged) /\ Logged \subseteq Line
         /\ \A l : l \in Logged <=>
              /\ l \in Nat \ {0} /\ ParseLine(l)
              /\ l <= written \/ (half /\ l = written + 1)
<1>. DEFINE n == written + (IF half THEN 1 ELSE 0)
<1>1. n \in Nat /\ n <= MaxLine /\ written \in Nat
  BY LogAssumption DEF FileOK
<1>2. IsFiniteSet(1..n) /\ Logged \in SUBSET (1..n)
  BY <1>1, FS_Interval DEF Logged
<1>3. Logged \subseteq Line
  BY <1>1, LogAssumption DEF Logged, Line
<1>4. ASSUME NEW l
      PROVE  l \in Logged <=>
              /\ l \in Nat \ {0} /\ ParseLine(l)
              /\ l <= written \/ (half /\ l = written + 1)
  BY <1>1 DEF Logged
<1>. QED BY <1>2, <1>3, <1>4, FS_Subset

\* A reader that starts at the saved offset finds it in the file.
Start == IF saved = None THEN 0 ELSE saved

LEMMA ReadFromIs ==
  ASSUME FileOK
  PROVE  /\ agent # "down" => ReadFrom = offset
         /\ agent = "down" => ReadFrom = Start
<1>1. saved = None \/ (saved \in Nat /\ FilePos \in Nat /\ saved <= FilePos)
  BY FilePosType DEF FileOK
<1>2. saved # None => ~(saved > FilePos)
  BY <1>1
<1>. QED BY <1>2 DEF ReadFrom, Start

Ahead(l, pos, whole) == 2 * l > pos /\ ~(2 * l = pos + 1 /\ ~whole)

LEMMA OwedIs ==
  /\ agent # "down" =>
       Owed = {l \in Logged : \/ l \in Range(queue) \cup Range(batch)
                             \/ Ahead(l, ReadFrom, partial)}
  /\ agent = "down" => Owed = {l \in Logged : Ahead(l, ReadFrom, FALSE)}
  BY DEF Owed, Ahead

\* Over the cap: what is left of the debt still holds a full queue.
LEMMA ShrinkIsOverflow ==
  ASSUME FileOK, Logged' = Logged, pushed' = pushed, agent # "down", agent' # "down",
         Owed' \subseteq Owed,
         NEW q, NEW w \in Nat, NEW pos \in Nat, Sorted(q, w, pos),
         Len(q) = MaxPending, Range(q) \subseteq Owed'
  PROVE  Promise!Overflow
<1>. DEFINE S == Owed \ Owed'
<1>1. Owed \ S = Owed' /\ S \in SUBSET Owed
  OBVIOUS
<1>2. IsFiniteSet(Owed')
  <2>1. IsFiniteSet(Logged) /\ Owed' \in SUBSET Logged
    BY LoggedLines DEF Owed
  <2>. QED BY <2>1, FS_Subset
<1>3. MaxPending <= Cardinality(Owed') /\ Cardinality(Owed') \in Nat
  BY <1>2, SortedIsCounted, FS_CardinalityType
<1>4. Cardinality(Owed \ S) >= MaxPending
  BY <1>1, <1>3, LogAssumption
<1>5. \E T \in SUBSET Owed : Cardinality(Owed \ T) >= MaxPending /\ Owed' = Owed \ T
  BY <1>1, <1>4
<1>6. (agent' # "down") = (agent # "down")
  OBVIOUS
<1>7. /\ agent # "down"
      /\ \E T \in SUBSET Owed : Cardinality(Owed \ T) >= MaxPending /\ Owed' = Owed \ T
      /\ UNCHANGED <<Logged, pushed, agent # "down">>
  BY <1>5, <1>6
<1>. QED BY ONLY <1>7 DEF Promise!Overflow, Promise!Cardinality, Cardinality

LEMMA SameDebt ==
  ASSUME FileOK, FileOK', Logged' = Logged, ReadFrom' = ReadFrom, partial' = partial,
         agent' = "down" <=> agent = "down",
         Range(queue') \cup Range(batch') = Range(queue) \cup Range(batch)
  PROVE  Owed' = Owed
<1>1. CASE agent = "down"
  BY <1>1, OwedIs DEF Owed
<1>2. CASE agent # "down"
  BY <1>2, OwedIs DEF Owed
<1>. QED BY <1>1, <1>2

PromiseStutter == UNCHANGED <<Logged, Owed, pushed, agent # "down">>

LEMMA StartsIsLog ==
  ASSUME ShipInv, HandleStarts
  PROVE  Promise!Log
<1>. DEFINE S == {l \in {written + 1} : ParseLine(l)}
<1>1. /\ agent # "down" /\ ~half /\ half' /\ UNCHANGED <<written, agent, pushed, offset, partial, queue, batch>>
      /\ written < MaxLine /\ written \in Nat /\ MaxLine \in Nat
  BY LogAssumption DEF HandleStarts, shipVars, ShipInv, FileOK
<1>2. FileOK /\ FileOK'
  BY ShipFileStep DEF ShipInv
<1>3. Logged' = Logged \cup S
  BY <1>1, <1>2 DEF Logged
<1>4. S \in SUBSET (Line \ Logged)
  BY <1>1 DEF Line, Logged
<1>5. ReadFrom = offset /\ ReadFrom' = offset /\ offset \in Nat /\ offset <= 2 * written
  <2>1. ReadFrom = offset
    BY <1>1, <1>2, ReadFromIs
  <2>2. ReadFrom' = offset
    BY <1>1 DEF ReadFrom
  <2>3. FilePos = 2 * written
    BY <1>1, <1>2, FilePosType
  <2>. QED BY <1>2, <2>1, <2>2, <2>3 DEF FileOK
<1>6. Ahead(written + 1, offset, partial)
  BY <1>1, <1>5 DEF Ahead
<1>7. Owed' = Owed \cup S
  <2>1. /\ Owed = {l \in Logged : l \in Range(queue) \cup Range(batch) \/ Ahead(l, offset, partial)}
        /\ Owed' = {l \in Logged' : l \in Range(queue) \cup Range(batch) \/ Ahead(l, offset, partial)}
    BY <1>1, <1>5, OwedIs DEF Owed, Ahead
  <2>. QED BY <1>3, <1>6, <2>1
<1>. HIDE DEF S
<1>. QED BY <1>1, <1>3, <1>4, <1>7 DEF Promise!Log

LEMMA EndsIsStutter ==
  ASSUME ShipInv, HandleEnds
  PROVE  PromiseStutter
<1>1. /\ half /\ ~half' /\ written' = written + 1
      /\ UNCHANGED <<agent, pushed, offset, partial, queue, batch, saved>>
  BY DEF HandleEnds, shipVars
<1>2. FileOK /\ FileOK'
  BY ShipFileStep DEF ShipInv
<1>3. Logged' = Logged
  BY <1>1, <1>2 DEF Logged, FileOK
<1>4. ReadFrom' = ReadFrom
  <2>1. saved = None \/ (~(saved > FilePos) /\ ~(saved > FilePos'))
    <3>1. FilePos \in Nat /\ FilePos' \in Nat /\ saved' = saved
      BY <1>1, <1>2 DEF FileOK, FilePos
    <3>2. saved = None \/ (saved \in Nat /\ saved <= FilePos /\ saved <= FilePos')
      BY <1>2, <3>1 DEF FileOK
    <3>. QED BY <3>1, <3>2
  <2>. QED BY <1>1, <2>1 DEF ReadFrom
<1>. QED BY <1>1, <1>2, <1>3, <1>4, SameDebt DEF PromiseStutter

\* A step of the file's reader that takes every line up to the end.
LEMMA ReadsIsOverflow ==
  ASSUME ShipInv, ReadNew \/ Stop
  PROVE  PromiseStutter \/ Promise!Overflow
<1>. DEFINE q == Enqueue(queue, NewLines)
            last == {l \in Logged : l = written + 1}
<1>1. /\ agent # "down" /\ agent' # "down" /\ batch = <<>> /\ FileOK /\ FileOK'
      /\ offset' = FilePos /\ partial' = half /\ UNCHANGED <<written, half, pushed>>
  BY ShipReadStep DEF ReadNew, Stop, ShipInv, StageOK, fileVars
<1>2. /\ written \in Nat /\ offset \in Nat /\ FilePos \in Nat /\ offset <= FilePos
      /\ FilePos = IF half THEN 2 * written + 1 ELSE 2 * written
  BY <1>1, FilePosType DEF FileOK
<1>3. /\ Sorted(q, written, FilePos) /\ q \in Seq(Nat) /\ Len(q) <= MaxPending
      /\ Range(q) \subseteq Range(queue) \cup NewSet
      /\ Range(q) = Range(queue) \cup NewSet \/ Len(q) = MaxPending
  BY <1>1, EnqueueSorted DEF Sorted
<1>. HIDE DEF q
<1>4. Range(queue') \cup Range(batch') = Range(q)
  <2>1. CASE ReadNew
    <3>1. queue' = q /\ batch' = <<>>
      BY <1>1, <2>1 DEF ReadNew, q
    <3>2. Range(<<>>) = {}
      BY DEF Range
    <3>. QED BY <3>1, <3>2
  <2>2. CASE Stop
    <3>1. TakeBatch(q)
      BY <2>2 DEF Stop, q
    <3>. QED BY <1>2, <1>3, <3>1, TakeBatchSplits
  <2>. QED BY <2>1, <2>2
<1>5. Logged' = Logged
  BY <1>1 DEF Logged
<1>6. \A l \in Range(queue) \cup NewSet : l \in Logged /\ l \in Nat /\ l <= written
  BY <1>1, <1>2, QueueSorted, LoggedLines DEF NewSet
<1>7. Owed = Range(queue) \cup NewSet \cup last
  <2>1. Owed = {l \in Logged : l \in Range(queue) \/ Ahead(l, offset, partial)}
    <3>1. Range(<<>>) = {}
      BY DEF Range
    <3>. QED BY <1>1, <3>1, OwedIs, ReadFromIs
  <2>2. \A l \in NewSet : Ahead(l, offset, partial)
    BY DEF NewSet, Ahead
  <2>3. ASSUME NEW l \in Logged, Ahead(l, offset, partial)
        PROVE  l \in NewSet \cup last
    BY <1>1, <1>2, <2>3, LoggedLines DEF NewSet, Ahead
  <2>4. ASSUME NEW l \in last
        PROVE  Ahead(l, offset, partial)
    <3>1. half /\ l = written + 1
      BY <1>1, <1>2, LoggedLines
    <3>2. partial \/ offset # 2 * written + 1
      BY DEF ShipInv, PartialOK
    <3>. QED BY <1>2, <3>1, <3>2 DEF Ahead
  <2>. QED BY <1>6, <2>1, <2>2, <2>3, <2>4
<1>8. Owed' = Range(q) \cup last
  <2>1. ReadFrom' = FilePos
    BY <1>1 DEF ReadFrom
  <2>2. Owed' = {l \in Logged : l \in Range(q) \/ Ahead(l, FilePos, half)}
    BY <1>1, <1>4, <1>5, <2>1 DEF Owed, Ahead
  <2>3. ASSUME NEW l \in Logged
        PROVE  Ahead(l, FilePos, half) <=> l = written + 1
    BY <1>1, <1>2, LoggedLines DEF Ahead
  <2>. QED BY <1>3, <1>6, <2>2, <2>3
<1>9. CASE Range(q) = Range(queue) \cup NewSet
  <2>1. Owed' = Owed
    BY <1>7, <1>8, <1>9
  <2>. QED BY <1>1, <1>5, <2>1 DEF PromiseStutter
<1>10. CASE Len(q) = MaxPending
  <2>1. Owed' \subseteq Owed /\ Range(q) \subseteq Owed'
    BY <1>3, <1>7, <1>8
  <2>. QED BY <1>1, <1>2, <1>3, <1>5, <1>10, <2>1, ShrinkIsOverflow
<1>. QED BY <1>3, <1>9, <1>10

LEMMA FlushIsStutter ==
  ASSUME ShipInv, Flush \/ Push \/ Uplink
  PROVE  PromiseStutter
<1>1. /\ UNCHANGED <<written, half, agent, offset, partial, saved, pushed>> /\ FileOK /\ FileOK'
  BY ShipFlushStep DEF Flush, Push, Uplink, fileVars, ShipInv
<1>2. Logged' = Logged /\ ReadFrom' = ReadFrom
  BY <1>1 DEF Logged, ReadFrom, FilePos
<1>3. Range(queue') \cup Range(batch') = Range(queue) \cup Range(batch)
  <2>1. CASE Flush
    <3>1. batch = <<>> /\ TakeBatch(queue) /\ Len(queue) <= MaxPending /\ written \in Nat /\ offset \in Nat
      BY <2>1 DEF Flush, ShipInv, StageOK, HeldOK, FileOK
    <3>2. Range(queue') \cup Range(batch') = Range(queue)
      BY <3>1, QueueSorted, TakeBatchSplits
    <3>3. Range(<<>>) = {}
      BY DEF Range
    <3>. QED BY <3>1, <3>2, <3>3
  <2>2. CASE Push \/ Uplink
    BY <2>2 DEF Push, Uplink
  <2>. QED BY <2>1, <2>2
<1>. QED BY <1>1, <1>2, <1>3, SameDebt DEF PromiseStutter

LEMMA FlushEndsImplements ==
  ASSUME ShipInv, FlushEnds
  PROVE  PromiseStutter \/ Promise!Accept \/ Promise!Overflow
<1>1. /\ agent # "down" /\ agent' = agent /\ batch' = <<>> /\ batch # <<>>
      /\ UNCHANGED <<written, half, offset, partial>> /\ FileOK /\ FileOK'
      /\ written \in Nat /\ offset \in Nat
  BY ShipEndStep DEF FlushEnds, fileVars, ShipInv, StageOK, FileOK
<1>2. Logged' = Logged /\ Range(<<>>) = {}
  BY <1>1 DEF Logged, Range
<1>3. /\ Owed = {l \in Logged : l \in Range(queue) \cup Range(batch) \/ Ahead(l, offset, partial)}
      /\ Owed' = {l \in Logged : l \in Range(queue') \/ Ahead(l, offset, partial)}
  <2>1. ReadFrom = offset /\ ReadFrom' = offset
    BY <1>1 DEF ReadFrom
  <2>. QED BY <1>1, <1>2, <2>1 DEF Owed, Ahead
<1>4. \A l \in Range(queue) \cup Range(batch) : l \in Logged /\ ~Ahead(l, offset, partial)
  BY <1>1, QueueSorted, LoggedLines DEF Ahead
<1>5. CASE failed
  <2>1. queue' = Requeue(queue) /\ pushed' = pushed
    BY <1>5 DEF FlushEnds
  <2>2. CASE Range(queue') = Range(queue) \cup Range(batch)
    <3>1. Owed' = Owed
      BY <1>3, <2>2
    <3>. QED BY <1>1, <1>2, <2>1, <3>1 DEF PromiseStutter
  <2>3. CASE Len(queue') = MaxPending
    <3>1. Sorted(queue', written, offset) /\ Range(queue') \subseteq Range(queue) \cup Range(batch)
      BY <2>1, RequeueSorted
    <3>2. Owed' \subseteq Owed /\ Range(queue') \subseteq Owed'
      BY <1>3, <1>4, <3>1
    <3>. QED BY <1>1, <1>2, <2>1, <2>3, <3>1, <3>2, ShrinkIsOverflow
  <2>. QED BY <2>1, <2>2, <2>3, RequeueSorted
<1>6. CASE ~failed
  <2>1. queue' = queue /\ pushed' = pushed \cup Range(batch)
    BY <1>6 DEF FlushEnds
  <2>2. Range(batch) \in SUBSET Owed /\ Owed' = Owed \ Range(batch)
    BY <1>3, <1>4, <2>1, QueueSorted
  <2>3. Range(batch) # {}
    <3>1. batch \in Seq(Nat)
      BY DEF ShipInv, HeldOK
    <3>2. 1 \in 1..Len(batch)
      BY <1>1, <3>1, EmptySeq
    <3>. QED BY <3>1, <3>2, LinesOfSeq
  <2>4. Range(batch) \in (SUBSET Owed) \ {{}}
    BY <2>2, <2>3
  <2>5. \E S \in (SUBSET Owed) \ {{}} : pushed' = pushed \cup S /\ Owed' = Owed \ S
    BY <2>1, <2>2, <2>4
  <2>. QED BY <1>1, <1>2, <2>5 DEF Promise!Accept
<1>. QED BY <1>5, <1>6

LEMMA StopsIsEnd ==
  ASSUME ShipInv, RunReturns \/ Crash
  PROVE  Promise!End
<1>1. agent # "down" /\ agent' = "down" /\ pushed' = pushed
  BY DEF RunReturns, Crash, shipVars
<1>2. Logged' = Logged
  <2>1. CASE RunReturns
    BY <2>1 DEF RunReturns, fileVars, Logged
  <2>2. CASE Crash
    <3>1. written' = written + (IF half THEN 1 ELSE 0) /\ ~half' /\ written \in Nat
      BY <2>2 DEF Crash, ShipInv, FileOK
    <3>. QED BY <3>1 DEF Logged
  <2>. QED BY <2>1, <2>2
<1>3. Owed' \in SUBSET Logged
  BY <1>2 DEF Owed
<1>. QED BY <1>1, <1>2, <1>3 DEF Promise!End

LEMMA NewIsRestart ==
  ASSUME ShipInv, New
  PROVE  Promise!Restart
<1>1. /\ agent = "down" /\ agent' = "up" /\ pushed' = pushed /\ UNCHANGED <<written, half, saved>>
      /\ offset' = ReadFrom /\ ~partial' /\ partial' \in BOOLEAN /\ queue' = <<>> /\ batch' = <<>>
  BY DEF New, fileVars, ReadFrom, ShipInv, StageOK
<1>2. Logged' = Logged /\ Range(<<>>) = {}
  BY <1>1 DEF Logged, Range
<1>3. ReadFrom' = ReadFrom
  BY <1>1 DEF ReadFrom
<1>4. Owed' = {l \in Logged : Ahead(l, ReadFrom, FALSE)}
  BY <1>1, <1>2, <1>3 DEF Owed, Ahead
<1>5. Owed' = Owed
  BY <1>1, <1>4, OwedIs
<1>. QED BY <1>1, <1>2, <1>5 DEF Promise!Restart

LEMMA OtherIsStutter ==
  ASSUME UNCHANGED <<fileVars, agent, shipVars>>
  PROVE  PromiseStutter
<1>1. UNCHANGED <<written, half, agent, offset, partial, queue, batch, saved, pushed>>
  BY DEF fileVars, shipVars
<1>2. Logged' = Logged /\ ReadFrom' = ReadFrom
  BY <1>1 DEF Logged, ReadFrom, FilePos
<1>. QED BY <1>1, <1>2 DEF PromiseStutter, Owed

\* The shipper with its files, offsets, batches and retries implements the
\* promise of LogDelivery (KeepsPromise): as long as the agent runs, a logged
\* line stays owed until both sinks accepted it, or the cap was exceeded.
THEOREM ImplementsLogDelivery == Spec => KeepsPromise
<1>1. Init => Promise!Init
  <2>. SUFFICES ASSUME Init PROVE Promise!Init
    OBVIOUS
  <2>1. /\ written = 0 /\ ~half /\ agent = "up" /\ pushed = {}
    BY DEF Init
  <2>2. Logged = {}
    BY <2>1 DEF Logged
  <2>3. Owed = {}
    BY <2>2 DEF Owed
  <2>. QED BY <2>1, <2>2, <2>3 DEF Promise!Init
<1>2. ShipInv /\ [Next]_vars => [Promise!Next]_(Promise!absVars)
  <2>. SUFFICES ASSUME ShipInv, [Next]_vars
                PROVE  Promise!Next \/ PromiseStutter
    BY DEF PromiseStutter, Promise!absVars
  <2>1. CASE Connect \/ Disconnect \/ RecvLogs \/ OsLogs \/ Poll \/ UNCHANGED vars
    <3>1. UNCHANGED <<fileVars, agent, shipVars>>
      BY <2>1 DEF Connect, Disconnect, RecvLogs, OsLogs, Poll, vars
    <3>. QED BY <3>1, OtherIsStutter
  <2>2. CASE HandleStarts
    BY <2>2, StartsIsLog DEF Promise!Next
  <2>3. CASE HandleEnds
    BY <2>3, EndsIsStutter
  <2>4. CASE ReadNew \/ Stop
    BY <2>4, ReadsIsOverflow DEF Promise!Next
  <2>5. CASE Flush \/ Push \/ Uplink
    BY <2>5, FlushIsStutter
  <2>6. CASE FlushEnds
    BY <2>6, FlushEndsImplements DEF Promise!Next
  <2>7. CASE RunReturns \/ Crash
    BY <2>7, StopsIsEnd DEF Promise!Next
  <2>8. CASE New
    BY <2>8, NewIsRestart DEF Promise!Next
  <2>. QED BY <2>1, <2>2, <2>3, <2>4, <2>5, <2>6, <2>7, <2>8 DEF Next
<1>. QED BY <1>1, <1>2, ShipInvariant, PTL DEF Spec, KeepsPromise, Promise!Spec

-----------------------------------------------------------------------------
(* The server's ring.                                                      *)

Above(l, S) == {m \in S : m > l}

LEMMA AboveCounts ==
  ASSUME NEW S \in SUBSET Nat, IsFiniteSet(S), NEW T \in SUBSET S, NEW l \in Nat
  PROVE  /\ IsFiniteSet(Above(l, T)) /\ Cardinality(Above(l, T)) \in Nat
         /\ Cardinality(Above(l, T)) <= Cardinality(Above(l, S))
         /\ \A m \in Nat : m >= l => Cardinality(Above(m, T)) <= Cardinality(Above(l, T))
<1>1. ASSUME NEW X \in SUBSET S, NEW Y \in SUBSET X
      PROVE  /\ IsFiniteSet(Y) /\ Cardinality(Y) \in Nat
             /\ Cardinality(X) \in Nat /\ Cardinality(Y) <= Cardinality(X)
  BY FS_Subset, FS_CardinalityType
<1>2. Above(l, S) \in SUBSET S /\ Above(l, T) \in SUBSET Above(l, S)
  BY DEF Above
<1>3. ASSUME NEW m \in Nat, m >= l
      PROVE  Above(m, T) \in SUBSET Above(l, T) /\ Above(l, T) \in SUBSET S
  <2>1. \A x \in T : x \in Nat /\ x \in S
    OBVIOUS
  <2>2. \A x \in T : x > m => x > l
    BY <1>3, <2>1
  <2>. QED BY <2>1, <2>2 DEF Above
<1>4. /\ IsFiniteSet(Above(l, T)) /\ Cardinality(Above(l, T)) \in Nat
      /\ Cardinality(Above(l, T)) <= Cardinality(Above(l, S))
  BY <1>1, <1>2
<1>5. ASSUME NEW m \in Nat, m >= l
      PROVE  Cardinality(Above(m, T)) <= Cardinality(Above(l, T))
  BY <1>1, <1>3, <1>5
<1>. QED BY <1>4, <1>5

\* The n newest are at most n, and exactly n when one element is older.
LEMMA NewestCounted ==
  ASSUME NEW S \in SUBSET Nat, IsFiniteSet(S), NEW n \in Nat
  PROVE  /\ IsFiniteSet(Newest(S, n)) /\ Cardinality(Newest(S, n)) \in Nat
         /\ Cardinality(Newest(S, n)) <= n
         /\ \A m \in S \ Newest(S, n) :
              /\ Cardinality(Newest(S, n)) = n
              /\ \A l \in Newest(S, n) : l > m
<1>. DEFINE R == {p \in S \X S : p[1] > p[2]}
            N == Newest(S, n)
            f == [x \in N |-> Cardinality(Above(x, S))]
<1>1. Orders(R, S)
  BY DEF Orders
<1>2. \A x \in S : Below(x, S, R) = Above(x, S)
  BY DEF Below, Above
<1>3. N = {x \in S : Cardinality(Above(x, S)) < n}
  BY DEF Newest, Above
<1>4. IsFiniteSet(N) /\ Cardinality(N) \in Nat /\ N \subseteq S
  <2>1. N \in SUBSET S
    BY <1>3
  <2>. QED BY <2>1, FS_Subset, FS_CardinalityType
<1>5. \A x \in S : Cardinality(Above(x, S)) \in Nat
  BY AboveCounts
<1>6. \A x, y \in S : <<x, y>> \in R => Cardinality(Above(x, S)) < Cardinality(Above(y, S))
  BY <1>1, <1>2, RankGrows
<1>. HIDE DEF R, N
<1>7. /\ f \in [N -> 0 .. n - 1]
      /\ \A x \in N : f[x] = Cardinality(Above(x, S))
  <2>1. \A x \in N : Cardinality(Above(x, S)) \in 0 .. n - 1
    BY <1>3, <1>5
  <2>. QED BY <2>1
<1>. HIDE DEF f
<1>8. IsFiniteSet(0 .. n - 1) /\ Cardinality(0 .. n - 1) = n
  <2>1. 0 \in Int /\ n - 1 \in Int
    OBVIOUS
  <2>. QED BY <2>1, FS_Interval
<1>9. f \in Injection(N, 0 .. n - 1)
  <2>1. ASSUME NEW x \in N, NEW y \in N, f[x] = f[y]
        PROVE  x = y
    <3>1. /\ x \in S /\ y \in S
          /\ Cardinality(Above(x, S)) = Cardinality(Above(y, S))
          /\ Cardinality(Above(x, S)) \in Int
      BY <1>4, <1>5, <1>7, <2>1
    <3>2. <<x, y>> \notin R /\ <<y, x>> \notin R
      BY <1>6, <3>1
    <3>. QED BY <1>1, <3>1, <3>2 DEF Orders
  <2>. QED BY <1>7, <2>1 DEF Injection, IsInjective
<1>10. Cardinality(N) <= n
  BY <1>8, <1>9, FS_Injection
<1>11. ASSUME NEW m \in S \ N
       PROVE  Cardinality(N) = n /\ \A l \in N : l > m
  <2>1. Cardinality(Above(m, S)) >= n /\ Cardinality(Above(m, S)) \in Nat
    BY <1>3, <1>5
  <2>2. Cardinality(Above(m, S)) \in 0 .. Cardinality(S) - 1 /\ Cardinality(S) \in Nat
    BY <1>1, <1>2, RankGrows, FS_CardinalityType
  <2>3. ASSUME NEW k \in 0 .. n - 1
        PROVE  \E x \in N : f[x] = k
    <3>1. k \in 0 .. Cardinality(S) - 1 /\ k < n
      BY <2>1, <2>2
    <3>2. PICK x \in S : Cardinality(Below(x, S, R)) = k
      <4>1. \A i \in 0 .. Cardinality(S) - 1 : \E x \in S : Cardinality(Below(x, S, R)) = i
        BY <1>1, RankOnto
      <4>. QED BY <3>1, <4>1
    <3>3. x \in N /\ f[x] = k
      BY <1>2, <1>3, <1>7, <3>1, <3>2
    <3>. QED BY <3>3
  <2>4. f \in Surjection(N, 0 .. n - 1)
    BY <1>7, <2>3 DEF Surjection
  <2>5. n <= Cardinality(N)
    BY <1>4, <1>8, <2>4, FS_Surjection
  <2>6. ASSUME NEW l \in N
        PROVE  l > m
    <3>1. l \in Nat /\ m \in Nat /\ Cardinality(Above(l, S)) < n
          /\ Cardinality(Above(l, S)) \in Nat
      BY <1>3, <1>4, <1>5
    <3>2. ~(m >= l)
      BY <2>1, <3>1, AboveCounts
    <3>. QED BY <3>1, <3>2
  <2>. QED BY <1>4, <1>10, <2>5, <2>6
<1>. QED BY <1>4, <1>10, <1>11 DEF N

\* Capping a set before more is added to it does not change the cap of all.
LEMMA NewestOfNewest ==
  ASSUME NEW S \in SUBSET Nat, IsFiniteSet(S), NEW T \in SUBSET Nat, IsFiniteSet(T),
         NEW n \in Nat
  PROVE  Newest(Newest(S, n) \cup T, n) = Newest(S \cup T, n)
<1>. DEFINE N == Newest(S, n)
            A == N \cup T
            B == S \cup T
<1>1. N \subseteq S /\ \A l \in S : l \in N <=> Cardinality(Above(l, S)) < n
  BY DEF Newest, Above
<1>2. /\ \A l : l \in Newest(A, n) <=> l \in A /\ Cardinality(Above(l, A)) < n
      /\ \A l : l \in Newest(B, n) <=> l \in B /\ Cardinality(Above(l, B)) < n
  BY DEF Newest, Above
<1>3. B \in SUBSET Nat /\ IsFiniteSet(B) /\ A \in SUBSET B /\ S \in SUBSET B
  BY <1>1, FS_Union
<1>. HIDE DEF N
<1>4. ASSUME NEW l \in B
      PROVE  /\ Cardinality(Above(l, A)) <= Cardinality(Above(l, B))
             /\ Cardinality(Above(l, S)) <= Cardinality(Above(l, B))
             /\ Cardinality(Above(l, A)) \in Nat
             /\ Cardinality(Above(l, B)) \in Nat /\ Cardinality(Above(l, S)) \in Nat
  BY <1>3, AboveCounts
<1>5. ASSUME NEW l \in Newest(B, n)
      PROVE  l \in Newest(A, n)
  <2>1. l \in B /\ Cardinality(Above(l, B)) < n
    BY <1>2
  <2>2. Cardinality(Above(l, A)) < n /\ Cardinality(Above(l, S)) < n
    BY <1>4, <2>1
  <2>3. l \in A
    BY <1>1, <2>1, <2>2
  <2>. QED BY <1>2, <2>2, <2>3
<1>6. ASSUME NEW l \in Newest(A, n)
      PROVE  l \in Newest(B, n)
  <2>1. l \in A /\ l \in B /\ Cardinality(Above(l, A)) < n
    BY <1>2, <1>3
  <2>2. CASE \E m \in S \ N : m > l
    <3>1. PICK m \in S \ N : m > l
      BY <2>2
    <3>2. /\ Cardinality(N) = n /\ \A k \in N : k > m
          /\ IsFiniteSet(N)
      BY NewestCounted DEF N
    <3>3. N \in SUBSET Above(l, A)
      <4>1. \A k \in N : k \in Nat /\ m \in Nat /\ l \in Nat
        BY <1>1, <1>3, <2>1
      <4>2. \A k \in N : k > l
        BY <3>1, <3>2, <4>1
      <4>. QED BY <4>2 DEF Above
    <3>4. IsFiniteSet(Above(l, A))
      BY <1>3, <2>1, AboveCounts
    <3>5. n <= Cardinality(Above(l, A))
      BY <3>2, <3>3, <3>4, FS_Subset
    <3>. QED BY <1>4, <2>1, <3>5
  <2>3. CASE ~ \E m \in S \ N : m > l
    <3>1. Above(l, B) = Above(l, A)
      BY <1>1, <2>3 DEF Above
    <3>. QED BY <1>2, <2>1, <3>1
  <2>. QED BY <2>2, <2>3
<1>. QED BY <1>5, <1>6 DEF N

-----------------------------------------------------------------------------
(* Frames, the server's stores and the event tail.                         *)

Frames(evs) == [kind : {"log"}, ids : Seq(Line)] \cup [kind : {"os"}, ids : Seq(evs)]

StoreOK ==
  /\ wire \in Seq(Frames(osSent))
  /\ loki \subseteq Line /\ pushed \subseteq Line /\ indexed \subseteq Line
  /\ ring = Newest(indexed, RingCap)
  /\ live \in BOOLEAN /\ faults \in 0..MaxFault

TailOK ==
  /\ os \in 0..MaxOs /\ osSent \subseteq 1..os /\ osIndexed \subseteq osSent
  /\ osState \in [last_ts : Nat, seen_ids : Seq(osSent)]
  /\ Len(osState.seen_ids) <= MaxSeen

AllInv == ShipInv /\ StoreOK /\ TailOK

\* What was sent as an event stays an event that was sent.
LEMMA FramesGrow ==
  ASSUME NEW S, NEW T, S \subseteq T
  PROVE  /\ \A q \in Seq(S) : q \in Seq(T)
         /\ \A w \in Seq(Frames(S)) : w \in Seq(Frames(T))
<1>1. \A q \in Seq(S) : q \in Seq(T)
  BY SeqMonotonic
<1>2. Frames(S) \subseteq Frames(T)
  BY <1>1 DEF Frames
<1>3. \A w \in Seq(Frames(S)) : w \in Seq(Frames(T))
  BY <1>2, SeqMonotonic
<1>. QED BY <1>1, <1>3

LEMMA HeldLines ==
  ASSUME ShipInv
  PROVE  batch \in Seq(Line) /\ queue \in Seq(Line) /\ Range(batch) \subseteq Line
<1>1. ASSUME NEW q \in Seq(Nat), \A l \in Range(q) : l \in 1..written
      PROVE  q \in Seq(Line) /\ Range(q) \subseteq Line
  <2>1. Len(q) \in Nat /\ DOMAIN q = 1..Len(q) /\ q \in [1..Len(q) -> Nat]
    BY <1>1, LenProperties
  <2>2. \A l \in Range(q) : l \in Line
    BY <1>1, LogAssumption DEF ShipInv, FileOK, Line
  <2>3. q \in [1..Len(q) -> Line]
    BY <2>1, <2>2, LinesOfSeq
  <2>4. q \in Seq(Line)
    BY <2>1, <2>3, SeqDef
  <2>. QED BY <2>2, <2>4
<1>2. batch \in Seq(Nat) /\ queue \in Seq(Nat)
  BY DEF ShipInv, HeldOK
<1>3. \A l \in Range(queue) \cup Range(batch) : l \in 1..written
  BY QueueSorted
<1>. QED BY <1>1, <1>2, <1>3

LEMMA LineIsFinite == IsFiniteSet(Line) /\ Line \subseteq Nat
<1>1. IsFiniteSet(1..MaxLine)
  BY LogAssumption, FS_Interval
<1>. QED BY <1>1, LogAssumption DEF Line

\* MemoryWrite: the ring stays the newest of all that was ever indexed.
LEMMA RingFollows ==
  ASSUME indexed \subseteq Line, ring = Newest(indexed, RingCap),
         NEW ids \in SUBSET Line
  PROVE  Newest(ring \cup ids, RingCap) = Newest(indexed \cup ids, RingCap)
<1>1. /\ indexed \in SUBSET Nat /\ IsFiniteSet(indexed)
      /\ ids \in SUBSET Nat /\ IsFiniteSet(ids)
  BY LineIsFinite, FS_Subset
<1>2. RingCap \in Nat
  BY LogAssumption
<1>. QED BY <1>1, <1>2, NewestOfNewest

LEMMA AllInit == Init => StoreOK /\ TailOK
<1>. SUFFICES ASSUME Init PROVE StoreOK /\ TailOK
  OBVIOUS
<1>1. /\ wire = <<>> /\ indexed = {} /\ ring = {} /\ faults = 0 /\ loki = {} /\ pushed = {}
      /\ live \in BOOLEAN
      /\ os = 0 /\ osSent = {} /\ osIndexed = {}
      /\ osState = [last_ts |-> 0, seen_ids |-> <<>>]
  BY DEF Init
<1>2. \A S : <<>> \in Seq(S) /\ Len(<<>>) = 0
  BY EmptySeq
<1>3. Newest({}, RingCap) = {}
  BY DEF Newest
<1>. QED BY <1>1, <1>2, <1>3, LogAssumption DEF StoreOK, TailOK

\* Steps of the file, the shipper and the process.
LEMMA StoreShipStep ==
  ASSUME AllInv,
         \/ HandleStarts \/ HandleEnds \/ ReadNew \/ Flush \/ Push \/ Uplink \/ FlushEnds
         \/ Stop \/ RunReturns \/ Crash \/ New
  PROVE  StoreOK' /\ TailOK'
<1>. USE DEF srvVars, osVars, shipVars
<1>1. UNCHANGED <<os, osState, osSent, osIndexed, indexed, ring>>
  BY DEF HandleStarts, HandleEnds, ReadNew, Flush, Push, Uplink, FlushEnds, Stop, RunReturns, Crash, New
<1>2. TailOK'
  BY <1>1 DEF AllInv, TailOK
<1>3. wire' = wire \/ wire' = Append(wire, [kind |-> "log", ids |-> batch])
  BY DEF HandleStarts, HandleEnds, ReadNew, Flush, Push, Uplink, ShipBatch, PushLogs, FlushEnds,
         Stop, RunReturns, Crash, New
<1>4. /\ loki' = loki \/ loki' = loki \cup Range(batch)
      /\ pushed' = pushed \/ pushed' = pushed \cup Range(batch)
      /\ faults' = faults \/ (faults < MaxFault /\ faults' = faults + 1)
  BY DEF HandleStarts, HandleEnds, ReadNew, Flush, Push, Uplink, FlushEnds, WriteState,
         Stop, RunReturns, Crash, New, Fault
<1>5. [kind |-> "log", ids |-> batch] \in Frames(osSent)
  BY HeldLines DEF AllInv, Frames
<1>6. wire' \in Seq(Frames(osSent))
  <2>1. wire \in Seq(Frames(osSent))
    BY DEF AllInv, StoreOK
  <2>. QED BY <1>3, <1>5, <2>1, AppendProperties
<1>7. faults' \in 0..MaxFault
  BY <1>4, LogAssumption DEF AllInv, StoreOK
<1>8. loki' \subseteq Line /\ pushed' \subseteq Line
  BY <1>4, HeldLines DEF AllInv, StoreOK
<1>9. live' \in BOOLEAN
  BY DEF AllInv, StoreOK, HandleStarts, HandleEnds, ReadNew, Flush, Push, Uplink, FlushEnds, Stop,
         RunReturns, Crash, New
<1>. QED BY <1>1, <1>2, <1>6, <1>7, <1>8, <1>9 DEF AllInv, StoreOK

LEMMA StoreStreamStep ==
  ASSUME AllInv, Connect \/ Disconnect
  PROVE  StoreOK' /\ TailOK'
<1>. USE DEF srvVars, osVars, shipVars
<1>1. UNCHANGED <<os, osState, osSent, osIndexed, loki, pushed, indexed, ring>>
  BY DEF Connect, Disconnect
<1>2. TailOK'
  BY <1>1 DEF AllInv, TailOK
<1>3. wire \in Seq(Frames(osSent)) /\ Len(wire) \in Nat
  BY LenProperties DEF AllInv, StoreOK
<1>4. wire' \in Seq(Frames(osSent))
  <2>1. CASE Connect
    BY <2>1, EmptySeq DEF Connect
  <2>2. CASE Disconnect
    <3>1. PICK n \in 0..Len(wire) : wire' = SubSeq(wire, 1, n)
      BY <2>2 DEF Disconnect
    <3>2. \A i \in 1..n : wire[i] \in Frames(osSent)
      <4>1. \A i \in 1..n : i \in 1..Len(wire)
        BY <1>3, <3>1
      <4>. QED BY <1>3, <4>1, ElementOfSeq
    <3>3. 1 \in Int /\ n \in Int
      OBVIOUS
    <3>. QED BY <3>1, <3>2, <3>3, SubSeqProperties
  <2>. QED BY <2>1, <2>2
<1>5. faults' \in 0..MaxFault
  BY LogAssumption DEF AllInv, StoreOK, Connect, Disconnect, Fault
<1>6. live' \in BOOLEAN
  BY DEF Connect, Disconnect
<1>. QED BY <1>1, <1>2, <1>4, <1>5, <1>6 DEF AllInv, StoreOK

LEMMA StoreReceiveStep ==
  ASSUME AllInv, RecvLogs
  PROVE  StoreOK' /\ TailOK'
<1>. DEFINE b == Head(wire)
            ids == Range(b.ids)
<1>1. UNCHANGED <<os, osState, osSent, loki, pushed, live>> /\ wire # <<>> /\ wire' = Tail(wire)
  BY DEF RecvLogs, shipVars
<1>2. b \in Frames(osSent) /\ wire' \in Seq(Frames(osSent))
  <2>1. wire \in Seq(Frames(osSent))
    BY DEF AllInv, StoreOK
  <2>. QED BY <1>1, <2>1, HeadTailProperties
<1>3. \/ b.kind = "log" /\ MemoryWrite(ids) /\ PostgresWrite(ids) /\ UNCHANGED <<osIndexed, faults>>
      \/ b.kind = "os" /\ osIndexed' = osIndexed \cup ids /\ UNCHANGED <<indexed, ring, faults>>
      \/ Fault /\ UNCHANGED <<indexed, ring, osIndexed>>
  BY DEF RecvLogs
<1>. HIDE DEF b
<1>4. /\ b.kind = "log" => b.ids \in Seq(Line)
      /\ b.kind = "os" => b.ids \in Seq(osSent)
  BY <1>2 DEF Frames
<1>5. \A S : \A q \in Seq(S) : Range(q) \in SUBSET S
  <2>. SUFFICES ASSUME NEW S, NEW q \in Seq(S) PROVE Range(q) \in SUBSET S
    OBVIOUS
  <2>1. DOMAIN q = 1..Len(q)
    BY LenProperties
  <2>. QED BY <2>1, ElementOfSeq DEF Range
<1>6. (b.kind = "log" => ids \in SUBSET Line) /\ (b.kind = "os" => ids \in SUBSET osSent)
  BY <1>4, <1>5
<1>. HIDE DEF ids
<1>7. faults' \in 0..MaxFault
  BY <1>3, LogAssumption DEF AllInv, StoreOK, Fault
<1>8. indexed' \subseteq Line /\ ring' = Newest(indexed', RingCap)
  <2>1. indexed \subseteq Line /\ ring = Newest(indexed, RingCap)
    BY DEF AllInv, StoreOK
  <2>2. CASE b.kind = "log" /\ MemoryWrite(ids) /\ PostgresWrite(ids)
    <3>1. ids \in SUBSET Line /\ ring' = Newest(ring \cup ids, RingCap) /\ indexed' = indexed \cup ids
      BY <1>6, <2>2 DEF MemoryWrite, PostgresWrite
    <3>. QED BY <2>1, <3>1, RingFollows
  <2>3. CASE UNCHANGED <<indexed, ring>>
    BY <2>1, <2>3
  <2>. QED BY <1>3, <2>2, <2>3
<1>9. osIndexed' \subseteq osSent
  BY <1>3, <1>6 DEF AllInv, TailOK
<1>. QED BY <1>1, <1>2, <1>7, <1>8, <1>9 DEF AllInv, StoreOK, TailOK

LEMMA StoreEventStep ==
  ASSUME AllInv, OsLogs
  PROVE  StoreOK' /\ TailOK'
<1>1. UNCHANGED <<wire, loki, pushed, indexed, ring, live, faults, osState, osSent, osIndexed>>
  BY DEF OsLogs, srvVars, shipVars
<1>2. os \in Nat /\ os < MaxOs /\ os' = os + 1 /\ MaxOs \in Nat
  BY LogAssumption DEF OsLogs, AllInv, TailOK
<1>3. os' \in 0..MaxOs /\ osSent \subseteq 1..os'
  BY <1>2 DEF AllInv, TailOK
<1>. QED BY <1>1, <1>3 DEF AllInv, StoreOK, TailOK

\* poll sends the events it lists once each, in the order of their time.
LEMMA ByTimeLists ==
  ASSUME TailOK, NEW S \in SUBSET (1..os)
  PROVE  /\ ByTime(S) \in Seq(S) /\ Range(ByTime(S)) = S
         /\ \A i, j \in 1..Len(ByTime(S)) : i < j => OsTime[ByTime(S)[i]] <= OsTime[ByTime(S)[j]]
         /\ S # {} => Len(ByTime(S)) \in 1..Len(ByTime(S))
<1>1. IsFiniteSet(S)
  <2>1. 1 \in Int /\ os \in Int
    BY LogAssumption DEF TailOK
  <2>2. IsFiniteSet(1..os)
    BY <2>1, FS_Interval
  <2>. QED BY <2>2, FS_Subset
<1>2. \A e \in S : e \in 1..MaxOs /\ OsTime[e] \in Nat
  <2>1. \A e \in S : e \in 1..MaxOs /\ e \in 1..Len(OsTime)
    BY LogAssumption, LenProperties DEF TailOK
  <2>. QED BY <2>1, LogAssumption, ElementOfSeq
<1>3. \A x, y \in S : <<x, y>> \in TimeOrder
        <=> OsTime[x] < OsTime[y] \/ (OsTime[x] = OsTime[y] /\ x < y)
  BY <1>2 DEF TimeOrder
<1>4. Orders(TimeOrder, S)
  BY <1>2, <1>3 DEF Orders
<1>. DEFINE q == ByTime(S)
<1>5. /\ q \in Seq(S) /\ Range(q) = S /\ Len(q) = Cardinality(S)
      /\ \A i, j \in 1..Len(q) : i < j => <<q[i], q[j]>> \in TimeOrder
  BY <1>1, <1>4, InOrderLists DEF ByTime
<1>. HIDE DEF q
<1>6. ASSUME NEW i \in 1..Len(q), NEW j \in 1..Len(q), i < j
      PROVE  OsTime[q[i]] <= OsTime[q[j]]
  <2>1. q[i] \in S /\ q[j] \in S /\ <<q[i], q[j]>> \in TimeOrder
    BY <1>5, <1>6, ElementOfSeq
  <2>2. OsTime[q[i]] < OsTime[q[j]] \/ OsTime[q[i]] = OsTime[q[j]]
    BY <1>3, <2>1
  <2>3. OsTime[q[i]] \in Nat /\ OsTime[q[j]] \in Nat
    BY <1>2, <2>1
  <2>. QED BY <2>2, <2>3
<1>7. S # {} => Len(q) \in 1..Len(q)
  <2>1. Len(q) \in Nat /\ (S # {} => Len(q) # 0)
    BY <1>1, <1>5, FS_EmptySet, LenProperties
  <2>. QED BY <2>1
<1>. QED BY <1>5, <1>6, <1>7 DEF q

LEMMA StorePollStep ==
  ASSUME AllInv, Poll
  PROVE  StoreOK' /\ TailOK'
<1>. DEFINE fresh == Fresh(Read(OsLimit))
            evs == ByTime(fresh)
            all == osState.seen_ids \o evs
            n == Len(all)
            m == IF n > MaxSeen THEN n - MaxSeen + 1 ELSE 1
<1>1. /\ UNCHANGED <<os, osIndexed, loki, pushed, live, indexed, ring>>
      /\ wire' = Append(wire, [kind |-> "os", ids |-> evs])
      /\ osSent' = osSent \cup fresh /\ fresh # {}
      /\ \/ osState' = [last_ts |-> OsTime[Last(evs)], seen_ids |-> SubSeq(all, m, n)]
            /\ UNCHANGED faults
         \/ Fault /\ UNCHANGED osState
  BY DEF Poll, ShipEvents, PushLogs, Advance, srvVars, shipVars
<1>2. fresh \in SUBSET (1..os)
  BY DEF Fresh, Read
<1>3. evs \in Seq(fresh) /\ Len(evs) \in 1..Len(evs)
  BY <1>1, <1>2, ByTimeLists DEF AllInv
<1>. HIDE DEF fresh, evs, all, n, m
<1>4. osSent \subseteq osSent' /\ fresh \subseteq osSent' /\ osSent' \subseteq 1..os
  BY <1>1, <1>2 DEF AllInv, TailOK
<1>5. /\ wire \in Seq(Frames(osSent')) /\ evs \in Seq(osSent')
      /\ osState.seen_ids \in Seq(osSent')
  <2>1. osState.seen_ids \in Seq(osSent) /\ wire \in Seq(Frames(osSent))
    BY DEF AllInv, StoreOK, TailOK
  <2>. QED BY <1>3, <1>4, <2>1, FramesGrow
<1>6. wire' \in Seq(Frames(osSent'))
  <2>1. [kind |-> "os", ids |-> evs] \in Frames(osSent')
    BY <1>5 DEF Frames
  <2>. QED BY <1>1, <1>5, <2>1, AppendProperties
<1>7. OsTime[Last(evs)] \in Nat
  <2>1. Last(evs) = evs[Len(evs)]
    BY DEF Last
  <2>2. Last(evs) \in fresh
    BY <1>3, <2>1, ElementOfSeq
  <2>3. Last(evs) \in 1..Len(OsTime)
    <3>1. os \in 0..MaxOs /\ MaxOs \in Nat /\ Len(OsTime) \in Nat /\ Len(OsTime) >= MaxOs
      BY LogAssumption, LenProperties DEF AllInv, TailOK
    <3>2. Last(evs) \in 1..os
      BY <1>2, <2>2
    <3>. QED BY <3>1, <3>2
  <2>. QED BY <2>3, LogAssumption, ElementOfSeq
<1>8. SubSeq(all, m, n) \in Seq(osSent') /\ Len(SubSeq(all, m, n)) <= MaxSeen
  <2>1. all \in Seq(osSent') /\ n \in Nat
    BY <1>5, ConcatProperties, LenProperties DEF all, n
  <2>2. m \in Int /\ n \in Int /\ \A i \in m..n : i \in 1..n
    BY <2>1, LogAssumption DEF m
  <2>3. \A i \in m..n : all[i] \in osSent'
    BY <2>1, <2>2, ElementOfSeq DEF n
  <2>4. /\ SubSeq(all, m, n) \in Seq(osSent')
        /\ Len(SubSeq(all, m, n)) = IF m <= n THEN n - m + 1 ELSE 0
    BY <2>2, <2>3, SubSeqProperties
  <2>5. (IF m <= n THEN n - m + 1 ELSE 0) <= MaxSeen
    BY <2>1, LogAssumption DEF m
  <2>. QED BY <2>4, <2>5
<1>9. osState' \in [last_ts : Nat, seen_ids : Seq(osSent')] /\ Len(osState'.seen_ids) <= MaxSeen
  <2>1. CASE osState' = [last_ts |-> OsTime[Last(evs)], seen_ids |-> SubSeq(all, m, n)]
    BY <1>7, <1>8, <2>1
  <2>2. CASE UNCHANGED osState
    BY <1>5, <2>2 DEF AllInv, TailOK
  <2>. QED BY <1>1, <2>1, <2>2
<1>10. faults' \in 0..MaxFault
  BY <1>1, LogAssumption DEF AllInv, StoreOK, Fault
<1>11. osIndexed' \subseteq osSent'
  BY <1>1, <1>4 DEF AllInv, TailOK
<1>. QED BY <1>1, <1>4, <1>6, <1>9, <1>10, <1>11 DEF AllInv, StoreOK, TailOK

LEMMA AllInvariant == Spec => []AllInv
<1>1. Init => AllInv
  BY ShipInit, AllInit DEF AllInv
<1>2. ASSUME AllInv, ShipInv', [Next]_vars
      PROVE  AllInv'
  <2>1. CASE UNCHANGED vars
    BY <1>2, <2>1 DEF vars, shipVars, srvVars, osVars, AllInv, StoreOK, TailOK
  <2>. QED BY <1>2, <2>1, StoreShipStep, StoreStreamStep, StoreReceiveStep, StoreEventStep,
              StorePollStep DEF Next, AllInv
<1>. QED BY <1>1, <1>2, ShipInvariant, PTL DEF Spec

\* Every variable of the pipeline holds a value of its type (TypeOK): queues
\* and ring within their capacities, frames with known ids, and nothing of the
\* operating system's log at the server that was not sent.
THEOREM TypeCorrect == Spec => []TypeOK
<1>1. ASSUME AllInv
      PROVE  TypeOK
  <2>1. /\ written \in 0..MaxLine /\ half \in BOOLEAN /\ offset \in Pos /\ partial \in BOOLEAN
        /\ saved \in Pos \cup {None}
    BY <1>1, LogAssumption, FilePosType DEF AllInv, ShipInv, FileOK, PartialOK, Pos
  <2>2. /\ batch \in Seq(Line) /\ queue \in Seq(Line)
        /\ Len(queue) <= MaxPending /\ Len(batch) <= BatchSize
    BY <1>1, HeldLines DEF AllInv, ShipInv, HeldOK
  <2>3. /\ agent \in {"up", "stopping", "down"} /\ stage \in {"idle", "loki", "uplink", "done"}
        /\ failed \in BOOLEAN
    BY <1>1 DEF AllInv, ShipInv, StageOK
  <2>4. \A i \in DOMAIN wire : wire[i].kind \in {"log", "os"}
    <3>1. wire \in Seq(Frames(osSent)) /\ DOMAIN wire = 1..Len(wire)
      BY <1>1, LenProperties DEF AllInv, StoreOK
    <3>. QED BY <3>1, ElementOfSeq DEF Frames
  <2>5. ring \subseteq Line /\ Cardinality(ring) <= RingCap
    <3>1. indexed \in SUBSET Nat /\ IsFiniteSet(indexed) /\ RingCap \in Nat
      BY <1>1, LineIsFinite, LogAssumption, FS_Subset DEF AllInv, StoreOK
    <3>. QED BY <1>1, <3>1, NewestCounted DEF AllInv, StoreOK, Newest
  <2>6. /\ loki \cup pushed \subseteq Line /\ indexed \subseteq Line /\ faults \in 0..MaxFault
        /\ osState.last_ts \in Nat /\ Len(osState.seen_ids) <= MaxSeen
        /\ os \in 0..MaxOs /\ osIndexed \subseteq osSent /\ osSent \subseteq 1..os
    BY <1>1 DEF AllInv, StoreOK, TailOK
  <2>7. live \in BOOLEAN
    BY <1>1 DEF AllInv, StoreOK
  <2>. QED BY <2>1, <2>2, <2>3, <2>4, <2>5, <2>6, <2>7 DEF TypeOK
<1>. QED BY <1>1, AllInvariant, PTL

\* MemoryLogStore (RecentIsNewest): whatever is sent again, late or out of
\* order, the ring of a device shows what the table would show.
THEOREM RingShowsNewest == Spec => []RecentIsNewest
<1>1. ASSUME AllInv
      PROVE  RecentIsNewest
  <2>1. ring \cup {} = ring /\ indexed \cup {} = indexed
    OBVIOUS
  <2>2. Newest(ring, RingCap) = Newest(indexed, RingCap)
    BY <1>1, <2>1, RingFollows DEF AllInv, StoreOK
  <2>. QED BY <2>2 DEF RecentIsNewest, Recent, PostgresRecent
<1>. QED BY <1>1, AllInvariant, PTL

-----------------------------------------------------------------------------
(* The event tail.                                                         *)

\* The operating system logs its events in the order of their time stamps.
OsLogIsOrdered == \A i, j \in 1..MaxOs : i <= j => OsTime[i] <= OsTime[j]

\* No event that may still be read and was not sent is older than last_ts.
NoneOlder == \A e \in (1..MaxOs) \ osSent : e + OsLimit > os => OsTime[e] >= osState.last_ts

LEMMA NoneOlderStep ==
  ASSUME AllInv, NoneOlder, [Next]_vars, OsLogIsOrdered
  PROVE  NoneOlder'
<1>1. OsLimit \in Nat /\ os \in Nat /\ os <= MaxOs /\ MaxOs \in Nat
  BY LogAssumption DEF AllInv, TailOK
<1>2. \A e \in 1..MaxOs : OsTime[e] \in Nat
  <2>1. \A e \in 1..MaxOs : e \in 1..Len(OsTime)
    BY <1>1, LogAssumption, LenProperties
  <2>. QED BY <2>1, LogAssumption, ElementOfSeq
<1>3. CASE Poll /\ osState' # osState
  <2>. DEFINE fresh == Fresh(Read(OsLimit))
              evs == ByTime(fresh)
  <2>1. /\ os' = os /\ osSent' = osSent \cup fresh /\ fresh # {}
        /\ osState'.last_ts = OsTime[Last(evs)]
    BY <1>3 DEF Poll, Advance
  <2>2. fresh \in SUBSET (1..os)
    BY DEF Fresh, Read
  <2>3. evs \in Seq(fresh) /\ Len(evs) \in 1..Len(evs)
    BY <2>1, <2>2, ByTimeLists DEF AllInv
  <2>4. \A e : e \in fresh
          <=> /\ e \in 1..os /\ e + OsLimit > os
              /\ e \notin Range(osState.seen_ids) /\ OsTime[e] >= osState.last_ts
    BY DEF Fresh, Read
  <2>. HIDE DEF fresh, evs
  <2>5. Last(evs) \in fresh
    BY <2>3, ElementOfSeq DEF Last
  <2>6. ASSUME NEW e \in (1..MaxOs) \ osSent', e + OsLimit > os
        PROVE  OsTime[e] >= OsTime[Last(evs)]
    <3>1. e \notin osSent /\ e \notin fresh /\ e \in 1..MaxOs
      BY <2>1, <2>6
    <3>2. e \notin Range(osState.seen_ids)
      <4>1. osState.seen_ids \in Seq(osSent)
        BY DEF AllInv, TailOK
      <4>2. Range(osState.seen_ids) \subseteq osSent
        BY <4>1, LenProperties, ElementOfSeq DEF Range
      <4>. QED BY <3>1, <4>2
    <3>3. OsTime[e] >= osState.last_ts
      BY <2>6, <3>1 DEF NoneOlder
    <3>4. ~(e <= os)
      BY <1>1, <2>4, <2>6, <3>1, <3>2, <3>3
    <3>5. Last(evs) \in 1..MaxOs /\ Last(evs) <= e
      <4>1. Last(evs) \in 1..os
        BY <2>2, <2>5
      <4>. QED BY <1>1, <3>1, <3>4, <4>1
    <3>6. OsTime[Last(evs)] <= OsTime[e]
      BY <3>1, <3>5 DEF OsLogIsOrdered
    <3>. QED BY <1>2, <3>1, <3>5, <3>6
  <2>. QED BY <2>1, <2>6 DEF NoneOlder
<1>4. CASE ~Poll \/ osState' = osState
  <2>1. osState' = osState /\ osSent \subseteq osSent' /\ os' \in Nat /\ os <= os'
    <3>1. CASE Poll
      BY <1>1, <1>4, <3>1 DEF Poll
    <3>2. CASE OsLogs
      BY <1>1, <3>2 DEF OsLogs
    <3>3. CASE UNCHANGED <<os, osState, osSent>>
      BY <1>1, <3>3
    <3>4. CASE ~Poll /\ ~OsLogs
      <4>1. UNCHANGED <<os, osState, osSent>>
        BY <3>4 DEF Next, vars, HandleStarts, HandleEnds, ReadNew, Flush, Push, Uplink, FlushEnds, Stop,
                 RunReturns, Crash, New, Connect, Disconnect, RecvLogs, osVars
      <4>. QED BY <4>1, <3>3
    <3>. QED BY <3>1, <3>2, <3>4
  <2>2. ASSUME NEW e \in (1..MaxOs) \ osSent', e + OsLimit > os'
        PROVE  OsTime[e] >= osState'.last_ts
    <3>1. e \in (1..MaxOs) \ osSent /\ e \in Nat
      BY <2>1
    <3>2. e + OsLimit > os
      BY <1>1, <2>1, <2>2, <3>1
    <3>. QED BY <2>1, <3>1, <3>2 DEF NoneOlder
  <2>. QED BY <2>2 DEF NoneOlder
<1>. QED BY <1>3, <1>4

\* Tail.poll (UnsentStaysFresh): provided events are logged in the order of
\* their time stamps, one that is in the reader's window and was not sent is
\* not taken for an old one, whatever failed between sending and saving.
THEOREM UnsentIsNeverOld == ASSUME OsLogIsOrdered PROVE Spec => []UnsentStaysFresh
<1>1. Init => NoneOlder
  <2>. SUFFICES ASSUME Init PROVE NoneOlder
    OBVIOUS
  <2>1. osState.last_ts = 0
    BY DEF Init
  <2>2. \A e \in 1..MaxOs : OsTime[e] \in Nat
    <3>1. \A e \in 1..MaxOs : e \in 1..Len(OsTime)
      BY LogAssumption, LenProperties
    <3>. QED BY <3>1, LogAssumption, ElementOfSeq
  <2>. QED BY <2>1, <2>2 DEF NoneOlder
<1>2. AllInv /\ NoneOlder /\ [Next]_vars => NoneOlder'
  BY NoneOlderStep
<1>3. AllInv /\ NoneOlder => UnsentStaysFresh
  <2>. SUFFICES ASSUME AllInv, NoneOlder, NEW e \in Read(OsLimit) \ osSent
                PROVE  e \in Fresh(Read(OsLimit))
    BY DEF UnsentStaysFresh
  <2>1. e \in (1..MaxOs) \ osSent /\ e + OsLimit > os
    BY LogAssumption DEF Read, AllInv, TailOK
  <2>2. osState.seen_ids \in Seq(osSent)
    BY DEF AllInv, TailOK
  <2>3. Range(osState.seen_ids) \subseteq osSent
    BY <2>2, LenProperties, ElementOfSeq DEF Range
  <2>. QED BY <2>1, <2>3 DEF NoneOlder, Fresh
<1>. QED BY <1>1, <1>2, <1>3, AllInvariant, PTL DEF Spec

=============================================================================
