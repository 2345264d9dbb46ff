---------------------------- MODULE Editor_proofs ----------------------------
(***************************************************************************)
(* The blocks of a page, on the server and on their author's screen.       *)
(*                                                                         *)
(* Two blocks never claim the same place, whatever indexes creations ask   *)
(* for.  And no stored block is missing from the screen for good           *)
(* (EditorInv): a block that is in the table, or that a request will put   *)
(* there, is on the screen, or a request to take it off the table is out   *)
(* that puts it back when refused, or it is the one an undo brings back.   *)
(* And saves change nothing on the screen: no answer comes that would take *)
(* a gesture back (CalmInv).                                               *)
(*                                                                         *)
(* Requests wait on the wire or in the client, go from one place to the    *)
(* other and are answered in any order: what is said of them is said of    *)
(* families of requests, wherever they are (Same).                         *)
(***************************************************************************)
EXTENDS Editor, FiniteSetTheorems, SequenceTheorems, TLAPS

-----------------------------------------------------------------------------
(* The server's table alone.                                               *)

\* Indexes are numbers: the shift and the comparisons mean what they say.
IndexesAreNumbers == \A b \in DOMAIN table : table[b].index \in Nat

IndexesInv == IndexesAreNumbers /\ IndexesDistinct

\* Making room keeps places apart and leaves the asked-for one free.
LEMMA RoomIsMade ==
  ASSUME IndexesInv, NEW index \in Nat
  PROVE  LET s == ShiftedFrom(table, index)
         IN  /\ DOMAIN s = DOMAIN table
             /\ \A b \in DOMAIN s : s[b].index \in Nat /\ s[b].index # index
             /\ \A b, c \in DOMAIN s : s[b].index = s[c].index => b = c
<1> DEFINE s == ShiftedFrom(table, index)
<1>1. DOMAIN s = DOMAIN table
  BY DEF ShiftedFrom
<1>2. ASSUME NEW b \in DOMAIN table
      PROVE  \/ table[b].index >= index /\ s[b].index = table[b].index + 1
             \/ table[b].index < index /\ s[b].index = table[b].index
  <2>1. CASE table[b].index >= index
    <3>1. s[b] = [table[b] EXCEPT !.index = @ + 1]
      BY <2>1 DEF ShiftedFrom
    <3>2. s[b].index = table[b].index + 1
      BY <3>1
    <3> QED
      BY <2>1, <3>2
  <2>2. CASE ~(table[b].index >= index)
    <3>1. table[b].index \in Nat
      BY DEF IndexesInv, IndexesAreNumbers
    <3>2. s[b] = table[b]
      BY <2>2 DEF ShiftedFrom
    <3> QED
      BY <2>2, <3>1, <3>2
  <2> QED
    BY <2>1, <2>2
<1>3. \A b \in DOMAIN s : s[b].index \in Nat /\ s[b].index # index
  BY <1>1, <1>2 DEF IndexesInv, IndexesAreNumbers
<1>4. \A b, c \in DOMAIN s : s[b].index = s[c].index => b = c
  BY <1>1, <1>2 DEF IndexesInv, IndexesAreNumbers, IndexesDistinct
<1> QED
  BY <1>1, <1>3, <1>4

LEMMA CreateKeepsApart ==
  ASSUME IndexesInv, NEW b, NEW html, NEW type, NEW index \in Nat,
         CreateBlock(b, html, type, index)
  PROVE  IndexesInv'
<1> DEFINE s == ShiftedFrom(table, index)
           new == [html |-> html, type |-> type, index |-> index,
                   rowid |-> NextRowid(table)]
<1>1. /\ DOMAIN s = DOMAIN table
      /\ \A c \in DOMAIN s : s[c].index \in Nat /\ s[c].index # index
      /\ \A c, d \in DOMAIN s : s[c].index = s[d].index => c = d
  BY RoomIsMade
<1>2. /\ b \notin DOMAIN table
      /\ table' = [x \in DOMAIN table \union {b} |->
                     IF x = b THEN new ELSE s[x]]
  BY DEF CreateBlock, Inserted
<1>3. new.index = index
  OBVIOUS
<1> HIDE DEF s, new
<1>4. DOMAIN table' = DOMAIN table \union {b} /\ table'[b].index = index
  BY <1>2, <1>3
<1>5. \A c \in DOMAIN table : table'[c] = s[c]
  BY <1>2
<1> QED
  BY <1>1, <1>4, <1>5 DEF IndexesInv, IndexesAreNumbers, IndexesDistinct

\* An update writes a row's other columns.
LEMMA UpdateKeepsApart ==
  ASSUME IndexesInv, NEW b, NEW html, NEW type, UpdateBlock(b, html, type)
  PROVE  IndexesInv'
<1>1. table' = [table EXCEPT ![b].html = html, ![b].type = type]
  BY DEF UpdateBlock, Rewritten
<1>2. DOMAIN table' = DOMAIN table
  BY <1>1
<1>3. \A c \in DOMAIN table : table'[c].index = table[c].index
  BY <1>1
<1> QED
  BY <1>2, <1>3 DEF IndexesInv, IndexesAreNumbers, IndexesDistinct

LEMMA DeleteKeepsApart ==
  ASSUME IndexesInv, NEW b, DeleteBlock(b)
  PROVE  IndexesInv'
<1>1. table' = [x \in DOMAIN table \ {b} |-> table[x]]
  BY DEF DeleteBlock, Without
<1>2. /\ DOMAIN table' = DOMAIN table \ {b}
      /\ \A c \in DOMAIN table' : table'[c] = table[c]
  BY <1>1
<1> QED
  BY <1>2 DEF IndexesInv, IndexesAreNumbers, IndexesDistinct

\* A list of the whole page gives every block a position of its own.
LEMMA ReorderKeepsApart ==
  ASSUME NEW ids, WholePage(ids), ReorderBlocks(ids)
  PROVE  IndexesInv'
<1> DEFINE place(b) == CHOOSE i \in DOMAIN ids : ids[i] = b
<1>1. ASSUME NEW b \in DOMAIN table
      PROVE  /\ place(b) \in DOMAIN ids /\ ids[place(b)] = b
             /\ place(b) \in Nat \ {0}
  <2>1. \E i \in DOMAIN ids : ids[i] = b
    BY DEF WholePage
  <2>2. place(b) \in DOMAIN ids /\ ids[place(b)] = b
    BY <2>1
  <2>3. DOMAIN ids = 1..Len(ids) /\ Len(ids) \in Nat
    BY DEF WholePage
  <2> QED
    BY <2>2, <2>3
<1>2. /\ DOMAIN table' = DOMAIN table
      /\ \A b \in DOMAIN table : table'[b].index = place(b) - 1
  <2>1. table' = [b \in DOMAIN table |->
                    IF \E i \in DOMAIN ids : ids[i] = b
                    THEN [table[b] EXCEPT !.index = place(b) - 1]
                    ELSE table[b]]
    BY DEF ReorderBlocks, Reordered
  <2>2. \A b \in DOMAIN table : \E i \in DOMAIN ids : ids[i] = b
    BY DEF WholePage
  <2> HIDE DEF place
  <2>3. DOMAIN table' = DOMAIN table
    BY <2>1
  <2>4. ASSUME NEW b \in DOMAIN table
        PROVE  table'[b].index = place(b) - 1
    <3>1. table'[b] = [table[b] EXCEPT !.index = place(b) - 1]
      BY <2>1, <2>2
    <3> QED
      BY <3>1
  <2> QED
    BY <2>3, <2>4
<1> HIDE DEF place
<1> QED
  BY <1>1, <1>2 DEF IndexesInv, IndexesAreNumbers, IndexesDistinct

\* Two blocks of a page never claim the same place: creations make room for
\* the index they ask for (createBlock's shift), and a reorder that lists the
\* whole page numbers it afresh.
THEOREM PlacesAreDistinct == BlocksSpec => []IndexesDistinct
<1>1. BlocksInit => IndexesInv
  BY DEF BlocksInit, IndexesInv, IndexesAreNumbers, IndexesDistinct
<1>2. IndexesInv /\ [BlocksNext]_table => IndexesInv'
  <2> SUFFICES ASSUME IndexesInv, [BlocksNext]_table PROVE IndexesInv'
    OBVIOUS
  <2>1. ASSUME NEW b \in Block, NEW html \in Html, NEW type \in BlockType,
               NEW index \in 0..MaxIndex, CreateBlock(b, html, type, index)
        PROVE  IndexesInv'
    <3>1. index \in Nat
      BY IndexAssumption
    <3> QED
      BY <2>1, <3>1, CreateKeepsApart
  <2>2. ASSUME NEW b \in Block, NEW html \in Html, NEW type \in BlockType,
               UpdateBlock(b, html, type)
        PROVE  IndexesInv'
    BY <2>2, UpdateKeepsApart
  <2>3. ASSUME NEW b \in Block, DeleteBlock(b)
        PROVE  IndexesInv'
    BY <2>3, DeleteKeepsApart
  <2>4. ASSUME NEW ids \in Seq(Block), WholePage(ids), ReorderBlocks(ids)
        PROVE  IndexesInv'
    BY <2>4, ReorderKeepsApart
  <2>5. CASE UNCHANGED table
    BY <2>5 DEF IndexesInv, IndexesAreNumbers, IndexesDistinct
  <2> QED
    BY <2>1, <2>2, <2>3, <2>4, <2>5 DEF BlocksNext
<1>3. IndexesInv => IndexesDistinct
  BY DEF IndexesInv
<1> QED
  BY <1>1, <1>2, <1>3, PTL DEF BlocksSpec

-----------------------------------------------------------------------------
(* Sequences of anything.                                                  *)

IsSeq(s) == Len(s) \in Nat /\ s = [i \in 1..Len(s) |-> s[i]]

LEMMA SeqIs ==
  ASSUME NEW S, NEW s \in Seq(S)
  PROVE  IsSeq(s) /\ DOMAIN s = 1..Len(s)
  BY LenProperties DEF IsSeq

LEMMA IsSeqDomain ==
  ASSUME NEW s, IsSeq(s)
  PROVE  Len(s) \in Nat /\ DOMAIN s = 1..Len(s)
  BY DEF IsSeq

LEMMA IsSeqIn ==
  ASSUME NEW s, IsSeq(s), NEW T, \A i \in 1..Len(s) : s[i] \in T
  PROVE  s \in Seq(T)
<1>1. s \in [1..Len(s) -> T]
  BY DEF IsSeq
<1> QED
  BY <1>1, SeqDef DEF IsSeq

LEMMA TableIsSeq ==
  ASSUME NEW s, NEW n \in Nat, DOMAIN s = 1..n, s = [i \in 1..n |-> s[i]]
  PROVE  IsSeq(s) /\ Len(s) = n
<1> DEFINE T == {s[i] : i \in 1..n}
<1>1. s \in [1..n -> T]
  OBVIOUS
<1>2. s \in Seq(T)
  BY <1>1, SeqDef
<1>3. Len(s) \in Nat /\ DOMAIN s = 1..Len(s) /\ s \in [1..Len(s) -> T]
  BY <1>2, LenProperties
<1>4. Len(s) = n
  BY <1>3
<1> QED
  BY <1>3, <1>4 DEF IsSeq

LEMMA AppendIs ==
  ASSUME NEW s, IsSeq(s), NEW x
  PROVE  /\ IsSeq(Append(s, x))
         /\ Len(Append(s, x)) = Len(s) + 1
         /\ Append(s, x)[Len(s) + 1] = x
         /\ \A i \in 1..Len(s) : Append(s, x)[i] = s[i]
<1> DEFINE T == {s[i] : i \in 1..Len(s)} \union {x}
<1>1. s \in Seq(T) /\ x \in T
  <2>1. \A i \in 1..Len(s) : s[i] \in T
    OBVIOUS
  <2> HIDE DEF T
  <2>2. s \in Seq(T)
    BY <2>1, IsSeqIn
  <2> QED
    BY <2>2 DEF T
<1> HIDE DEF T
<1>2. Append(s, x) \in Seq(T)
  BY <1>1
<1>3. IsSeq(Append(s, x))
  BY <1>2, SeqIs
<1> QED
  BY <1>1, <1>3

LEMMA CatIs ==
  ASSUME NEW s, IsSeq(s), NEW t, IsSeq(t)
  PROVE  /\ IsSeq(s \o t)
         /\ Len(s \o t) = Len(s) + Len(t)
         /\ \A i \in 1..Len(s) + Len(t) :
              (s \o t)[i] = IF i <= Len(s) THEN s[i] ELSE t[i - Len(s)]
<1> DEFINE T == {s[i] : i \in 1..Len(s)} \union {t[i] : i \in 1..Len(t)}
<1>1. s \in Seq(T) /\ t \in Seq(T)
  <2>1. (\A i \in 1..Len(s) : s[i] \in T) /\ (\A i \in 1..Len(t) : t[i] \in T)
    OBVIOUS
  <2> HIDE DEF T
  <2> QED
    BY <2>1, IsSeqIn
<1> HIDE DEF T
<1>2. s \o t \in Seq(T)
  BY <1>1, ConcatProperties
<1>3. IsSeq(s \o t)
  BY <1>2, SeqIs
<1> QED
  BY <1>1, <1>3, ConcatProperties

LEMMA SubSeqIs ==
  ASSUME NEW s, IsSeq(s), NEW m \in 1..Len(s) + 1, NEW n \in 0..Len(s), m <= n + 1
  PROVE  /\ IsSeq(SubSeq(s, m, n))
         /\ Len(SubSeq(s, m, n)) = n + 1 - m
         /\ \A i \in 1..n + 1 - m : SubSeq(s, m, n)[i] = s[m + i - 1]
<1> DEFINE T == {s[i] : i \in 1..Len(s)}
<1>1. Len(s) \in Nat
  BY DEF IsSeq
<1>2. \A i \in m..n : s[i] \in T
  BY <1>1
<1> HIDE DEF T
<1>3. /\ SubSeq(s, m, n) \in Seq(T)
      /\ Len(SubSeq(s, m, n)) = IF m <= n THEN n - m + 1 ELSE 0
      /\ \A i \in 1..n - m + 1 : SubSeq(s, m, n)[i] = s[m + i - 1]
  BY <1>1, <1>2, SubSeqProperties
<1>4. IsSeq(SubSeq(s, m, n))
  BY <1>3, SeqIs
<1>5. n \in Int /\ m \in Int
  BY <1>1
<1>6. n - m + 1 = n + 1 - m /\ (~(m <= n) => n + 1 - m = 0)
  BY <1>5
<1>7. Len(SubSeq(s, m, n)) = n + 1 - m
  BY <1>3, <1>6
<1> QED
  BY <1>3, <1>4, <1>6, <1>7

LEMMA RemoveAtIs ==
  ASSUME NEW s, IsSeq(s), NEW i \in 1..Len(s)
  PROVE  /\ IsSeq(RemoveAt(s, i))
         /\ Len(RemoveAt(s, i)) = Len(s) - 1
         /\ \A j \in 1..Len(s) - 1 : RemoveAt(s, i)[j] = IF j < i THEN s[j] ELSE s[j + 1]
<1> DEFINE a == SubSeq(s, 1, i - 1)
           b == SubSeq(s, i + 1, Len(s))
<1>1. Len(s) \in Nat
  BY DEF IsSeq
<1>2. /\ IsSeq(a) /\ Len(a) = i - 1
      /\ \A j \in 1..i - 1 : a[j] = s[j]
  <2>1. 1 \in 1..Len(s) + 1 /\ i - 1 \in 0..Len(s) /\ 1 <= (i - 1) + 1
    BY <1>1
  <2>2. /\ IsSeq(a) /\ Len(a) = (i - 1) + 1 - 1
        /\ \A j \in 1..(i - 1) + 1 - 1 : a[j] = s[1 + j - 1]
    BY <2>1, SubSeqIs
  <2> HIDE DEF a
  <2> QED
    BY <2>2, <1>1
<1>3. /\ IsSeq(b) /\ Len(b) = Len(s) - i
      /\ \A j \in 1..Len(s) - i : b[j] = s[i + j]
  <2>1. i + 1 \in 1..Len(s) + 1 /\ Len(s) \in 0..Len(s) /\ i + 1 <= Len(s) + 1
    BY <1>1
  <2>2. /\ IsSeq(b) /\ Len(b) = Len(s) + 1 - (i + 1)
        /\ \A j \in 1..Len(s) + 1 - (i + 1) : b[j] = s[(i + 1) + j - 1]
    BY <2>1, SubSeqIs
  <2> HIDE DEF b
  <2> QED
    BY <2>2, <1>1
<1> HIDE DEF a, b
<1>4. RemoveAt(s, i) = a \o b
  BY DEF RemoveAt, a, b
<1>5. /\ IsSeq(a \o b) /\ Len(a \o b) = Len(a) + Len(b)
      /\ \A j \in 1..Len(a) + Len(b) :
           (a \o b)[j] = IF j <= Len(a) THEN a[j] ELSE b[j - Len(a)]
  BY <1>2, <1>3, CatIs
<1> DEFINE r == RemoveAt(s, i)
<1>6. /\ IsSeq(r) /\ Len(r) = Len(s) - 1
      /\ \A j \in 1..Len(s) - 1 : r[j] = IF j <= i - 1 THEN a[j] ELSE b[j - (i - 1)]
  BY <1>1, <1>2, <1>3, <1>4, <1>5
<1> HIDE DEF r
<1>7. ASSUME NEW j \in 1..Len(s) - 1 PROVE r[j] = IF j < i THEN s[j] ELSE s[j + 1]
  <2>1. CASE j < i
    BY <1>1, <1>2, <1>6, <2>1
  <2>2. CASE j >= i
    <3>1. r[j] = b[j - (i - 1)] /\ j - (i - 1) \in 1..Len(s) - i
      BY <1>1, <1>6, <2>2
    <3>2. b[j - (i - 1)] = s[i + (j - (i - 1))] /\ i + (j - (i - 1)) = j + 1
      BY <1>1, <1>3, <3>1
    <3> QED
      BY <3>1, <3>2, <2>2
  <2> QED
    BY <1>1, <2>1, <2>2
<1> QED
  BY <1>6, <1>7 DEF r

LEMMA FrontIs ==
  ASSUME NEW s, IsSeq(s)
  PROVE  /\ IsSeq(Front(s))
         /\ \A i \in DOMAIN Front(s) : i \in DOMAIN s /\ Front(s)[i] = s[i]
<1>1. Len(s) \in Nat /\ DOMAIN s = 1..Len(s)
  BY IsSeqDomain
<1>2. CASE Len(s) = 0
  <2>1. s = << >>
    <3>1. s = [i \in 1..0 |-> s[i]]
      BY <1>2 DEF IsSeq
    <3> QED
      BY <3>1
  <2>2. Front(s) = << >>
    BY <2>1 DEF Front
  <2>3. IsSeq(<< >>) /\ DOMAIN << >> = {}
    BY DEF IsSeq
  <2> QED
    BY <2>2, <2>3
<1>3. CASE Len(s) > 0
  <2>1. 1 \in 1..Len(s) + 1 /\ Len(s) - 1 \in 0..Len(s) /\ 1 <= (Len(s) - 1) + 1
    BY <1>1, <1>3
  <2>2. /\ IsSeq(Front(s)) /\ Len(Front(s)) = (Len(s) - 1) + 1 - 1
        /\ \A i \in 1..(Len(s) - 1) + 1 - 1 : Front(s)[i] = s[1 + i - 1]
    BY <2>1, SubSeqIs DEF Front
  <2>3. DOMAIN Front(s) = 1..Len(Front(s))
    BY <2>2, IsSeqDomain
  <2> QED
    BY <1>1, <2>2, <2>3
<1> QED
  BY <1>1, <1>2, <1>3

-----------------------------------------------------------------------------
(* A finite set in a strict order: below[i] is what comes before i.        *)

InLine(I, below) ==
  /\ IsFiniteSet(I)
  /\ \A i \in I : below[i] \subseteq I /\ i \notin below[i]
  /\ \A i, j \in I : j \in below[i] => below[j] \subseteq below[i]
  /\ \A i, j \in I : i = j \/ i \in below[j] \/ j \in below[i]

LEMMA RanksGrow ==
  ASSUME NEW I, NEW below, InLine(I, below), NEW i \in I, NEW j \in I, i \in below[j]
  PROVE  Cardinality(below[i]) < Cardinality(below[j])
<1>1. below[i] \subseteq below[j] /\ i \notin below[i]
  BY DEF InLine
<1>2. IsFiniteSet(below[i]) /\ IsFiniteSet(below[j])
  BY FS_Subset DEF InLine
<1>3. Cardinality(below[i]) \in Nat /\ Cardinality(below[j]) \in Nat
  BY <1>2, FS_CardinalityType
<1>4. Cardinality(below[i]) <= Cardinality(below[j]) /\ Cardinality(below[i]) # Cardinality(below[j])
  BY <1>1, <1>2, FS_Subset
<1> QED
  BY <1>3, <1>4

\* How many come before one is its place, and every place is taken once.
LEMMA Ranked ==
  ASSUME NEW I, NEW below, InLine(I, below)
  PROVE  /\ Cardinality(I) \in Nat
         /\ \A i \in I : Cardinality(below[i]) \in 0..Cardinality(I) - 1
         /\ \A i, j \in I : Cardinality(below[i]) = Cardinality(below[j]) => i = j
         /\ \A k \in 1..Cardinality(I) : \E i \in I : Cardinality(below[i]) = k - 1
<1> DEFINE rank(i) == Cardinality(below[i])
           n == Cardinality(I)
           r == [i \in I |-> rank(i) + 1]
<1>1. n \in Nat
  BY FS_CardinalityType DEF InLine
<1>2. ASSUME NEW i \in I PROVE rank(i) \in 0..n - 1
  <2>1. below[i] \subseteq I /\ i \notin below[i] /\ IsFiniteSet(I)
    BY DEF InLine
  <2>2. /\ IsFiniteSet(below[i]) /\ Cardinality(below[i]) <= Cardinality(I)
        /\ Cardinality(below[i]) # Cardinality(I)
    BY <2>1, FS_Subset
  <2>3. Cardinality(below[i]) \in Nat
    BY <2>2, FS_CardinalityType
  <2> QED
    BY <1>1, <2>2, <2>3
<1>3. ASSUME NEW i \in I, NEW j \in I, rank(i) = rank(j) PROVE i = j
  <2>1. ASSUME i \in below[j] PROVE FALSE
    BY <1>2, <1>3, <2>1, RanksGrow
  <2>2. ASSUME j \in below[i] PROVE FALSE
    BY <1>2, <1>3, <2>2, RanksGrow
  <2> QED
    BY <2>1, <2>2 DEF InLine
<1> HIDE DEF rank, n
<1>4. r \in [I -> 1..n] /\ \A i \in I : r[i] = rank(i) + 1
  BY <1>1, <1>2
<1>5. \A i, j \in I : r[i] = r[j] => i = j
  BY <1>2, <1>3, <1>4
<1> HIDE DEF r
<1>6. r \in Injection(I, 1..n)
  BY <1>4, <1>5 DEF Injection, IsInjective
<1>7. IsFiniteSet(1..n) /\ Cardinality(1..n) = n
  BY <1>1, FS_Interval
<1>8. IsFiniteSet(I) /\ Cardinality(I) = Cardinality(1..n)
  BY <1>7 DEF InLine, n
<1>9. r \in Surjection(I, 1..n)
  BY <1>6, <1>7, <1>8, FS_Injection
<1>10. \A k \in 1..n : \E i \in I : r[i] = k
  BY <1>9 DEF Surjection
<1>11. ASSUME NEW k \in 1..n PROVE \E i \in I : rank(i) = k - 1
  <2>1. PICK i \in I : r[i] = k
    BY <1>10
  <2>2. rank(i) + 1 = k /\ rank(i) \in 0..n - 1
    BY <1>2, <1>4, <2>1
  <2>3. rank(i) = k - 1
    BY <1>1, <2>2
  <2> QED
    BY <2>3
<1> QED
  BY <1>1, <1>2, <1>3, <1>11 DEF rank, n

\* The last in line.
LEMMA LastOne ==
  ASSUME NEW I, NEW below, InLine(I, below), I # {}
  PROVE  \E i \in I : \A j \in I : j = i \/ j \in below[i]
<1>1. Cardinality(I) \in Nat /\ Cardinality(I) # 0
  BY FS_CardinalityType, FS_EmptySet DEF InLine
<1>2. PICK i \in I : Cardinality(below[i]) = Cardinality(I) - 1
  <2>1. Cardinality(I) \in 1..Cardinality(I)
    BY <1>1
  <2> QED
    BY <2>1, Ranked
<1>3. ASSUME NEW j \in I, i \in below[j] PROVE FALSE
  <2>1. Cardinality(below[i]) < Cardinality(below[j])
    BY <1>3, RanksGrow
  <2>2. Cardinality(below[j]) \in 0..Cardinality(I) - 1
    BY Ranked
  <2> QED
    BY <1>1, <1>2, <2>1, <2>2
<1> QED
  BY <1>3 DEF InLine

-----------------------------------------------------------------------------
(* Picking: each place of I gives one entry, and each entry has its place. *)

\* g leads from the entries picked to their places.
Picks(t, s, I, g) ==
  /\ g \in [DOMAIN t -> I]
  /\ \A k \in DOMAIN t : t[k] = s[g[k]]
  /\ \A k, l \in DOMAIN t : g[k] = g[l] => k = l
  /\ \A i \in I : \E k \in DOMAIN t : g[k] = i

\* t takes s at the places I, in the order of their ranks.
TakesInLine(t, s, I, below) ==
  t = [k \in 1..Cardinality(I) |->
         s[CHOOSE i \in I : Cardinality(below[i]) = k - 1]]

LEMMA RankedPicks ==
  ASSUME NEW s, NEW I, NEW below, InLine(I, below),
         NEW t, TakesInLine(t, s, I, below)
  PROVE  IsSeq(t) /\ \E g : /\ Picks(t, s, I, g)
                             /\ \A k \in DOMAIN t : Cardinality(below[g[k]]) = k - 1
<1> DEFINE n == Cardinality(I)
           nth(k) == CHOOSE i \in I : Cardinality(below[i]) = k - 1
           g == [k \in 1..n |-> nth(k)]
<1>1. n \in Nat
  BY Ranked
<1>2. \A k \in 1..n : nth(k) \in I /\ Cardinality(below[nth(k)]) = k - 1
  BY Ranked
<1>3. ASSUME NEW i \in I
      PROVE  Cardinality(below[i]) + 1 \in 1..n /\ nth(Cardinality(below[i]) + 1) = i
  <2> DEFINE k == Cardinality(below[i]) + 1
  <2>1. Cardinality(below[i]) \in 0..n - 1
    BY Ranked
  <2>2. k \in 1..n /\ k - 1 = Cardinality(below[i])
    BY <1>1, <2>1
  <2> HIDE DEF k
  <2>3. nth(k) \in I /\ Cardinality(below[nth(k)]) = Cardinality(below[i])
    BY <1>2, <2>2
  <2>4. nth(k) = i
    BY <2>3, Ranked
  <2> QED
    BY <2>2, <2>4 DEF k
<1> HIDE DEF n, nth
<1>4. t = [k \in 1..n |-> s[nth(k)]]
  BY DEF n, nth, TakesInLine
<1>5. DOMAIN t = 1..n /\ t = [k \in 1..n |-> t[k]] /\ \A k \in 1..n : t[k] = s[nth(k)]
  BY <1>4
<1>6. IsSeq(t)
  BY <1>1, <1>5, TableIsSeq
<1>7. g \in [DOMAIN t -> I] /\ \A k \in DOMAIN t : t[k] = s[g[k]]
  BY <1>2, <1>5
<1>8. ASSUME NEW k \in DOMAIN t, NEW l \in DOMAIN t, g[k] = g[l] PROVE k = l
  <2>1. nth(k) = nth(l)
    BY <1>5, <1>8
  <2>2. k - 1 = l - 1
    BY <1>2, <1>5, <2>1
  <2> QED
    BY <1>1, <1>5, <2>2
<1>9. \A i \in I : \E k \in DOMAIN t : g[k] = i
  BY <1>3, <1>5
<1>10. Picks(t, s, I, g)
  BY <1>7, <1>8, <1>9 DEF Picks
<1>11. \A k \in DOMAIN t : Cardinality(below[g[k]]) = k - 1
  BY <1>2, <1>5
<1> QED
  BY <1>6, <1>10, <1>11

\* The places come in order.
Rising(g, t) == \A k, l \in DOMAIN t : k < l => g[k] < g[l]

LEMMA PickedIs ==
  ASSUME NEW s, IsSeq(s), NEW I, I \subseteq DOMAIN s
  PROVE  IsSeq(Picked(s, I)) /\ \E g : Picks(Picked(s, I), s, I, g) /\ Rising(g, Picked(s, I))
<1> DEFINE below == [i \in I |-> {j \in I : j < i}]
<1>1. I \subseteq Nat /\ IsFiniteSet(I)
  <2>1. Len(s) \in Nat /\ DOMAIN s = 1..Len(s)
    BY IsSeqDomain
  <2>2. IsFiniteSet(1..Len(s))
    BY <2>1, FS_Interval
  <2> QED
    BY <2>1, <2>2, FS_Subset
<1>2. InLine(I, below)
  <2>1. \A i \in I : below[i] \subseteq I /\ i \notin below[i]
    BY <1>1
  <2>2. \A i, j \in I : j \in below[i] => below[j] \subseteq below[i]
    BY <1>1
  <2>3. \A i, j \in I : i = j \/ i \in below[j] \/ j \in below[i]
    BY <1>1
  <2> HIDE DEF below
  <2> QED
    BY <1>1, <2>1, <2>2, <2>3 DEF InLine
<1>3. \A i \in I : below[i] = {j \in I : j < i}
  OBVIOUS
<1> HIDE DEF below
<1>4. Picked(s, I) = [k \in 1..Cardinality(I) |->
                       s[CHOOSE i \in I : Cardinality(below[i]) = k - 1]]
  <2> DEFINE u(k) == CHOOSE i \in I : Cardinality({j \in I : j < i}) = k - 1
             v(k) == CHOOSE i \in I : Cardinality(below[i]) = k - 1
  <2>1. \A k : u(k) = v(k)
    BY <1>3
  <2>2. Picked(s, I) = [k \in 1..Cardinality(I) |-> s[u(k)]]
    BY DEF Picked
  <2> HIDE DEF u
  <2>3. Picked(s, I) = [k \in 1..Cardinality(I) |-> s[v(k)]]
    <3> HIDE DEF v
    <3> QED
      BY <2>1, <2>2
  <2> QED
    BY <2>3
<1> DEFINE t == Picked(s, I)
<1>5. TakesInLine(t, s, I, below)
  BY <1>4 DEF TakesInLine
<1> HIDE DEF t
<1>6. IsSeq(t) /\ \E g : /\ Picks(t, s, I, g)
                         /\ \A k \in DOMAIN t : Cardinality(below[g[k]]) = k - 1
  BY <1>2, <1>5, RankedPicks
<1>7. PICK g : Picks(t, s, I, g) /\ \A k \in DOMAIN t : Cardinality(below[g[k]]) = k - 1
  BY <1>6
<1>8. Len(t) \in Nat /\ DOMAIN t = 1..Len(t)
  BY <1>6, IsSeqDomain
<1>9. ASSUME NEW k \in DOMAIN t, NEW l \in DOMAIN t, k < l PROVE g[k] < g[l]
  <2>1. g[k] \in I /\ g[l] \in I /\ g[k] # g[l] /\ g[k] \in Nat /\ g[l] \in Nat
    BY <1>1, <1>7, <1>8, <1>9 DEF Picks
  <2>2. ASSUME g[l] < g[k] PROVE FALSE
    <3>1. g[l] \in below[g[k]]
      BY <1>3, <2>1, <2>2
    <3>2. Cardinality(below[g[l]]) < Cardinality(below[g[k]])
      BY <1>2, <2>1, <3>1, RanksGrow, Zenon
    <3> QED
      BY <1>7, <1>8, <1>9, <3>2
  <2> QED
    BY <2>1, <2>2
<1>10. Picks(t, s, I, g) /\ Rising(g, t)
  BY <1>7, <1>9 DEF Rising
<1> QED
  BY <1>6, <1>10 DEF t

-----------------------------------------------------------------------------
(* The server's table and what it lists.                                   *)

IsTableRow(r) ==
  /\ r = [html |-> r.html, type |-> r.type, index |-> r.index, rowid |-> r.rowid]
  /\ r.index \in Int /\ r.rowid \in Nat

\* The rows of blocks among 1..n, each with a rowid of its own.
IsTable(t, n) ==
  /\ n \in Nat /\ DOMAIN t \subseteq 1..n
  /\ \A b \in DOMAIN t : IsTableRow(t[b])
  /\ \A b, c \in DOMAIN t : t[b].rowid = t[c].rowid => b = c

LEMMA TableIsFinite ==
  ASSUME NEW t, NEW n, IsTable(t, n)
  PROVE  IsFiniteSet(DOMAIN t)
<1>1. n \in Nat /\ DOMAIN t \subseteq 1..n
  BY DEF IsTable
<1>2. IsFiniteSet(1..n)
  BY <1>1, FS_Interval
<1> QED
  BY <1>1, <1>2, FS_Subset

LEMMA TableInLine ==
  ASSUME NEW t, NEW n, IsTable(t, n)
  PROVE  InLine(DOMAIN t, [b \in DOMAIN t |-> {c \in DOMAIN t : Above(t, c, b)}])
<1> DEFINE below == [b \in DOMAIN t |-> {c \in DOMAIN t : Above(t, c, b)}]
<1>1. IsFiniteSet(DOMAIN t)
  BY TableIsFinite
<1>2. \A b \in DOMAIN t : t[b].index \in Int /\ t[b].rowid \in Nat
  BY DEF IsTable, IsTableRow
<1>3. \A b, c \in DOMAIN t : c \in below[b] <=> Above(t, c, b)
  OBVIOUS
<1>4. \A b \in DOMAIN t : below[b] \subseteq DOMAIN t /\ b \notin below[b]
  BY <1>2 DEF Above
<1>5. \A b, c \in DOMAIN t : c \in below[b] => below[c] \subseteq below[b]
  <2> SUFFICES ASSUME NEW b \in DOMAIN t, NEW c \in DOMAIN t, c \in below[b],
                      NEW d \in below[c]
               PROVE  d \in below[b]
    OBVIOUS
  <2>1. d \in DOMAIN t /\ Above(t, c, b) /\ Above(t, d, c)
    BY <1>3, <1>4
  <2>2. Above(t, d, b)
    BY <1>2, <2>1 DEF Above
  <2> QED
    BY <1>3, <2>1, <2>2
<1>6. \A b, c \in DOMAIN t : b = c \/ b \in below[c] \/ c \in below[b]
  <2>1. \A b, c \in DOMAIN t : t[b].rowid = t[c].rowid => b = c
    BY DEF IsTable
  <2>2. \A b, c \in DOMAIN t : b = c \/ Above(t, b, c) \/ Above(t, c, b)
    BY <1>2, <2>1 DEF Above
  <2> QED
    BY <1>3, <2>2
<1> HIDE DEF below
<1>7. InLine(DOMAIN t, below)
  BY <1>1, <1>4, <1>5, <1>6 DEF InLine
<1> QED
  BY <1>7 DEF below

LEMMA ListIs ==
  ASSUME NEW t, NEW n, IsTable(t, n)
  PROVE  /\ Cardinality(DOMAIN t) \in Nat
         /\ DOMAIN ListBlocks(t) = 1..Cardinality(DOMAIN t)
         /\ \A k \in DOMAIN ListBlocks(t) : ListBlocks(t)[k] \in DOMAIN t
<1> DEFINE below == [b \in DOMAIN t |-> {c \in DOMAIN t : Above(t, c, b)}]
           u(k) == CHOOSE b \in DOMAIN t : Cardinality({c \in DOMAIN t : Above(t, c, b)}) = k - 1
<1>1. InLine(DOMAIN t, below)
  BY TableInLine
<1>2. \A b \in DOMAIN t : below[b] = {c \in DOMAIN t : Above(t, c, b)}
  OBVIOUS
<1> HIDE DEF below
<1>3. /\ Cardinality(DOMAIN t) \in Nat
      /\ \A k \in 1..Cardinality(DOMAIN t) : \E b \in DOMAIN t : Cardinality(below[b]) = k - 1
  BY <1>1, Ranked
<1>4. \A k \in 1..Cardinality(DOMAIN t) : u(k) \in DOMAIN t
  BY <1>2, <1>3
<1>5. ListBlocks(t) = [k \in 1..Cardinality(DOMAIN t) |-> u(k)]
  BY DEF ListBlocks
<1> HIDE DEF u
<1> QED
  BY <1>3, <1>4, <1>5

LEMMA NextRowidIs ==
  ASSUME NEW t, NEW n, IsTable(t, n)
  PROVE  NextRowid(t) \in Nat /\ \A b \in DOMAIN t : t[b].rowid < NextRowid(t)
<1> DEFINE S == {0} \union {t[b].rowid : b \in DOMAIN t}
           below == [i \in S |-> {j \in S : j < i}]
<1>1. IsFiniteSet(DOMAIN t)
  BY TableIsFinite
<1>2. IsFiniteSet({t[b].rowid : b \in DOMAIN t})
  <2> DEFINE T == {t[b].rowid : b \in DOMAIN t}
             f == [b \in DOMAIN t |-> t[b].rowid]
  <2>1. f \in Surjection(DOMAIN t, T)
    BY DEF Surjection
  <2> HIDE DEF T, f
  <2>2. IsFiniteSet(T)
    BY <1>1, <2>1, FS_Surjection
  <2> QED
    BY <2>2 DEF T
<1>3. IsFiniteSet(S) /\ S # {} /\ S \subseteq Nat
  <2>1. IsFiniteSet({0})
    BY FS_Singleton
  <2>2. IsFiniteSet(S)
    BY <1>2, <2>1, FS_Union
  <2> QED
    BY <2>2 DEF IsTable, IsTableRow
<1>4. \A b \in DOMAIN t : t[b].rowid \in S
  OBVIOUS
<1>5. NextRowid(t) = 1 + Max(S)
  BY DEF NextRowid
<1> HIDE DEF S
<1>6. \A i, j \in S : j \in below[i] <=> j < i
  OBVIOUS
<1>7. \A i \in S : below[i] \subseteq S
  OBVIOUS
<1> HIDE DEF below
<1>8. InLine(S, below)
  <2>1. ASSUME NEW i \in S PROVE below[i] \subseteq S /\ i \notin below[i]
    <3>1. ~(i < i)
      BY <1>3
    <3> QED
      BY <1>6, <1>7, <3>1, Zenon
  <2>2. ASSUME NEW i \in S, NEW j \in S, j \in below[i], NEW k \in below[j]
        PROVE  k \in below[i]
    <3>1. k \in S /\ k < j /\ j < i
      BY <1>6, <1>7, <2>2
    <3> QED
      BY <1>3, <1>6, <3>1
  <2>3. \A i, j \in S : i = j \/ i \in below[j] \/ j \in below[i]
    BY <1>3, <1>6
  <2> QED
    BY <1>3, <2>1, <2>2, <2>3 DEF InLine
<1>9. \E i \in S : \A j \in S : i >= j
  <2>1. PICK i \in S : \A j \in S : j = i \/ j \in below[i]
    BY <1>3, <1>8, LastOne
  <2> QED
    BY <1>3, <1>6, <2>1
<1>10. Max(S) \in S /\ \A j \in S : Max(S) >= j
  BY <1>9 DEF Max
<1> HIDE DEF Max
<1>11. Max(S) \in Nat
  BY <1>3, <1>10
<1>12. \A b \in DOMAIN t : t[b].rowid \in Nat /\ Max(S) >= t[b].rowid
  BY <1>3, <1>4, <1>10
<1> QED
  BY <1>5, <1>11, <1>12

-----------------------------------------------------------------------------
(* The statements keep a table a table.                                    *)

\* The table u holds the blocks of t and the block b.
Grown(u, t, b, n) == IsTable(u, n) /\ DOMAIN u = DOMAIN t \union {b}

LEMMA InsertedIs ==
  ASSUME NEW t, NEW n, IsTable(t, n), NEW b \in 1..n, b \notin DOMAIN t,
         NEW html, NEW type, NEW index \in Int
  PROVE  Grown(Inserted(t, b, html, type, index), t, b, n)
<1> DEFINE u == Inserted(t, b, html, type, index)
           new == [html |-> html, type |-> type, index |-> index, rowid |-> NextRowid(t)]
           s == ShiftedFrom(t, index)
<1>1. NextRowid(t) \in Nat /\ \A c \in DOMAIN t : t[c].rowid < NextRowid(t)
  BY NextRowidIs
<1>2. IsTableRow(new) /\ new.rowid = NextRowid(t)
  BY <1>1 DEF IsTableRow
<1>3. ASSUME NEW c \in DOMAIN t PROVE IsTableRow(s[c]) /\ s[c].rowid = t[c].rowid
  <2>1. IsTableRow(t[c])
    BY DEF IsTable
  <2>2. s[c] = [t[c] EXCEPT !.index = @ + 1] \/ s[c] = t[c]
    BY DEF ShiftedFrom
  <2>3. CASE s[c] = t[c]
    BY <2>1, <2>3
  <2>4. CASE s[c] = [t[c] EXCEPT !.index = @ + 1]
    <3> HIDE DEF s
    <3>1. s[c] = [html |-> t[c].html, type |-> t[c].type, index |-> t[c].index + 1,
                  rowid |-> t[c].rowid]
      BY <2>1, <2>4 DEF IsTableRow
    <3> QED
      BY <2>1, <3>1 DEF IsTableRow
  <2> QED
    BY <2>2, <2>3, <2>4
<1>4. u = [x \in DOMAIN t \union {b} |-> IF x = b THEN new ELSE s[x]]
  BY DEF Inserted
<1> HIDE DEF u, new, s
<1>5. DOMAIN u = DOMAIN t \union {b} /\ u[b] = new /\ \A c \in DOMAIN t : u[c] = s[c]
  BY <1>4
<1>6. \A c \in DOMAIN u : IsTableRow(u[c])
  BY <1>2, <1>3, <1>5
<1>7. \A c \in DOMAIN t : u[c].rowid = t[c].rowid /\ u[c].rowid \in Nat /\ u[c].rowid < u[b].rowid
  <2>1. \A c \in DOMAIN t : t[c].rowid \in Nat
    BY DEF IsTable, IsTableRow
  <2>2. u[b].rowid = NextRowid(t)
    BY <1>2, <1>5
  <2>3. ASSUME NEW c \in DOMAIN t
        PROVE  u[c].rowid = t[c].rowid /\ u[c].rowid \in Nat /\ u[c].rowid < u[b].rowid
    <3>1. u[c].rowid = t[c].rowid
      BY <1>3, <1>5
    <3> QED
      BY <1>1, <2>1, <2>2, <3>1
  <2> QED
    BY <2>3
<1>8. \A c, d \in DOMAIN u : u[c].rowid = u[d].rowid => c = d
  BY <1>1, <1>2, <1>5, <1>7 DEF IsTable
<1>9. IsTable(u, n)
  BY <1>5, <1>6, <1>8 DEF IsTable
<1> QED
  BY <1>5, <1>9 DEF u, Grown

LEMMA RewrittenIs ==
  ASSUME NEW t, NEW n, IsTable(t, n), NEW b, NEW html, NEW type
  PROVE  IsTable(Rewritten(t, b, html, type), n) /\ DOMAIN Rewritten(t, b, html, type) = DOMAIN t
<1> DEFINE u == Rewritten(t, b, html, type)
<1>1. DOMAIN u = DOMAIN t
  BY DEF Rewritten
<1>2. ASSUME NEW c \in DOMAIN t PROVE IsTableRow(u[c]) /\ u[c].rowid = t[c].rowid
  <2>1. IsTableRow(t[c])
    BY DEF IsTable
  <2>2. u[c] = t[c] \/ u[c] = [[t[c] EXCEPT !.html = html] EXCEPT !.type = type]
    BY DEF Rewritten
  <2> HIDE DEF u
  <2>3. CASE u[c] = t[c]
    BY <2>1, <2>3
  <2>4. CASE u[c] = [[t[c] EXCEPT !.html = html] EXCEPT !.type = type]
    <3>1. u[c] = [html |-> html, type |-> type, index |-> t[c].index, rowid |-> t[c].rowid]
      BY <2>1, <2>4 DEF IsTableRow
    <3> QED
      BY <2>1, <3>1 DEF IsTableRow
  <2> QED
    BY <2>2, <2>3, <2>4
<1> HIDE DEF u
<1>3. IsTable(u, n)
  BY <1>1, <1>2 DEF IsTable
<1> QED
  BY <1>1, <1>3 DEF u

LEMMA WithoutIs ==
  ASSUME NEW t, NEW n, IsTable(t, n), NEW b
  PROVE  IsTable(Without(t, b), n) /\ DOMAIN Without(t, b) = DOMAIN t \ {b}
<1>1. /\ DOMAIN Without(t, b) = DOMAIN t \ {b}
      /\ \A c \in DOMAIN Without(t, b) : Without(t, b)[c] = t[c]
  BY DEF Without
<1> QED
  BY <1>1 DEF IsTable

\* Places in a list are numbers.
IsPlaces(ids) == DOMAIN ids \subseteq Int

LEMMA ReorderedIs ==
  ASSUME NEW t, NEW n, IsTable(t, n), NEW ids, IsPlaces(ids)
  PROVE  IsTable(Reordered(t, ids), n) /\ DOMAIN Reordered(t, ids) = DOMAIN t
<1> DEFINE u == Reordered(t, ids)
           place(b) == CHOOSE i \in DOMAIN ids : ids[i] = b
<1>1. u = [b \in DOMAIN t |-> IF \E i \in DOMAIN ids : ids[i] = b
                              THEN [t[b] EXCEPT !.index = place(b) - 1] ELSE t[b]]
  BY DEF Reordered
<1>2. \A b : (\E i \in DOMAIN ids : ids[i] = b) => place(b) \in Int
  BY DEF IsPlaces
<1> HIDE DEF u, place
<1>3. ASSUME NEW c \in DOMAIN t PROVE IsTableRow(u[c]) /\ u[c].rowid = t[c].rowid
  <2>1. IsTableRow(t[c])
    BY DEF IsTable
  <2>2. CASE u[c] = t[c]
    BY <2>1, <2>2
  <2>3. CASE \E i \in DOMAIN ids : ids[i] = c
    <3>1. u[c] = [t[c] EXCEPT !.index = place(c) - 1] /\ place(c) \in Int
      BY <1>1, <1>2, <2>3
    <3>2. u[c] = [html |-> t[c].html, type |-> t[c].type, index |-> place(c) - 1,
                  rowid |-> t[c].rowid]
      BY <2>1, <3>1 DEF IsTableRow
    <3> QED
      BY <2>1, <3>1, <3>2 DEF IsTableRow
  <2> QED
    BY <1>1, <2>2, <2>3
<1>4. DOMAIN u = DOMAIN t
  BY <1>1
<1>5. IsTable(u, n)
  BY <1>3, <1>4 DEF IsTable
<1> QED
  BY <1>4, <1>5 DEF u

-----------------------------------------------------------------------------
(* The store's rows.                                                       *)

IsRow(r) ==
  /\ r = [id |-> r.id, html |-> r.html, type |-> r.type, index |-> r.index]
  /\ r.index \in Int

IsRows(s) == IsSeq(s) /\ \A i \in DOMAIN s : IsRow(s[i])

LEMMA IntervalIs ==
  ASSUME NEW n \in Nat
  PROVE  IsFiniteSet(1..n) /\ Cardinality(1..n) = n
  BY FS_Interval

\* A row with other contents.
Overwrites(w, r) == IsRow(w) /\ w.id = r.id /\ w.index = r.index

LEMMA RowWritten ==
  ASSUME NEW r, IsRow(r), NEW html, NEW type
  PROVE  LET w == [r EXCEPT !.html = html, !.type = type]
         IN  Overwrites(w, r) /\ w.html = html
<1> DEFINE v == [r EXCEPT !.html = html]
           w == [v EXCEPT !.type = type]
<1>1. v = [id |-> r.id, html |-> html, type |-> r.type, index |-> r.index]
  BY DEF IsRow
<1>2. w = [id |-> r.id, html |-> html, type |-> type, index |-> r.index]
  <2> HIDE DEF v
  <2> QED
    BY <1>1
<1>3. Overwrites(w, r) /\ w.html = html
  <2> HIDE DEF w
  <2> QED
    BY <1>2 DEF Overwrites, IsRow
<1> QED
  BY <1>3

LEMMA StoreRowIs ==
  ASSUME NEW b, NEW html, NEW type, NEW index \in Int
  PROVE  /\ IsRow(StoreRow(b, html, type, index))
         /\ StoreRow(b, html, type, index).id = b
         /\ StoreRow(b, html, type, index).html = html
         /\ StoreRow(b, html, type, index).index = index
  BY DEF IsRow, StoreRow

LEMMA NoRowIs == IsRow(NoRow) /\ NoRow.id = NoBlock
  BY StoreRowIs DEF NoRow

LEMMA RowInIs ==
  ASSUME NEW s, IsRows(s), NEW b \in Ids(s)
  PROVE  IsRow(RowIn(s, b)) /\ RowIn(s, b).id = b
<1>1. \E i \in DOMAIN s : s[i].id = b
  BY DEF Ids
<1> QED
  BY <1>1 DEF RowIn, IsRows

\* The stable sort: what comes before the row at j, and the place p[k] of the
\* k-th row.
Behind(s, j) ==
  {i \in DOMAIN s : s[i].index < s[j].index \/ (s[i].index = s[j].index /\ i < j)}
Sorts(p, s) ==
  /\ \A k \in DOMAIN s : p[k] \in DOMAIN s /\ Cardinality(Behind(s, p[k])) = k - 1
  /\ \A i, j \in DOMAIN s : Cardinality(Behind(s, i)) = Cardinality(Behind(s, j)) => i = j
  /\ Order(s) = [k \in DOMAIN s |-> s[p[k]].id]

LEMMA OrderSorts ==
  ASSUME NEW s, IsRows(s)
  PROVE  \E p : Sorts(p, s)
<1> DEFINE Earlier(i, j) == \/ s[i].index < s[j].index
                            \/ s[i].index = s[j].index /\ i < j
           below == [j \in DOMAIN s |-> {i \in DOMAIN s : Earlier(i, j)}]
           u(k) == CHOOSE j \in DOMAIN s : Cardinality({i \in DOMAIN s : Earlier(i, j)}) = k - 1
           p == [k \in DOMAIN s |-> u(k)]
<1>1. Len(s) \in Nat /\ DOMAIN s = 1..Len(s) /\ \A i \in DOMAIN s : s[i].index \in Int
  BY IsSeqDomain DEF IsRows, IsRow
<1>2. IsFiniteSet(DOMAIN s) /\ Cardinality(DOMAIN s) = Len(s)
  <2>1. IsFiniteSet(1..Len(s)) /\ Cardinality(1..Len(s)) = Len(s)
    BY <1>1, IntervalIs
  <2> QED
    BY <1>1, <2>1
<1>3. \A j, i \in DOMAIN s : i \in below[j] <=> Earlier(i, j)
  OBVIOUS
<1>4. \A j \in DOMAIN s : below[j] \subseteq DOMAIN s /\ below[j] = {i \in DOMAIN s : Earlier(i, j)}
  OBVIOUS
<1> HIDE DEF below
<1>5. InLine(DOMAIN s, below)
  <2>1. \A i \in DOMAIN s : i \notin below[i]
    BY <1>1, <1>3
  <2>2. ASSUME NEW i \in DOMAIN s, NEW j \in DOMAIN s, j \in below[i], NEW k \in below[j]
        PROVE  k \in below[i]
    <3>1. k \in DOMAIN s /\ Earlier(j, i) /\ Earlier(k, j)
      BY <1>3, <1>4, <2>2
    <3>2. s[i].index \in Int /\ s[j].index \in Int /\ s[k].index \in Int
      BY <1>1, <3>1
    <3>3. i \in Int /\ j \in Int /\ k \in Int
      BY <1>1, <3>1
    <3>4. Earlier(k, i)
      BY <3>1, <3>2, <3>3
    <3> QED
      BY <1>3, <3>1, <3>4
  <2>3. \A i, j \in DOMAIN s : i = j \/ i \in below[j] \/ j \in below[i]
    <3>1. ASSUME NEW i \in DOMAIN s, NEW j \in DOMAIN s
          PROVE  i = j \/ Earlier(i, j) \/ Earlier(j, i)
      <4>1. i \in Int /\ j \in Int /\ s[i].index \in Int /\ s[j].index \in Int
        BY <1>1
      <4> QED
        BY <4>1
    <3> QED
      BY <1>3, <3>1
  <2> QED
    BY <1>2, <1>4, <2>1, <2>2, <2>3 DEF InLine
<1>6. \A k \in DOMAIN s : \E j \in DOMAIN s : Cardinality(below[j]) = k - 1
  <2>1. \A k \in 1..Cardinality(DOMAIN s) : \E j \in DOMAIN s : Cardinality(below[j]) = k - 1
    BY <1>5, Ranked
  <2> QED
    BY <1>1, <1>2, <2>1
<1>7. \A k \in DOMAIN s : u(k) \in DOMAIN s /\ Cardinality(below[u(k)]) = k - 1
  BY <1>4, <1>6
<1>8. Ordered(s) = [k \in DOMAIN s |-> s[u(k)]]
  BY DEF Ordered
<1>9. \A i, j \in DOMAIN s : Cardinality(below[i]) = Cardinality(below[j]) => i = j
  BY <1>5, Ranked
<1>10. \A j \in DOMAIN s : below[j] = Behind(s, j)
  BY <1>4 DEF Behind
<1> HIDE DEF u
<1>11. \A k \in DOMAIN s : p[k] = u(k)
  OBVIOUS
<1>12. Order(s) = [k \in DOMAIN s |-> s[p[k]].id]
  BY <1>8, <1>11 DEF Order
<1> HIDE DEF p
<1>13. Sorts(p, s)
  BY <1>7, <1>9, <1>10, <1>11, <1>12 DEF Sorts
<1> QED
  BY <1>13

\* It lists the blocks of the store.
LEMMA OrderIs ==
  ASSUME NEW s, IsRows(s)
  PROVE  DOMAIN Order(s) = DOMAIN s /\ \A k \in DOMAIN Order(s) : Order(s)[k] \in Ids(s)
<1>1. PICK p : Sorts(p, s)
  BY OrderSorts
<1> QED
  BY <1>1 DEF Sorts, Ids

\* Ids and indexes decide it.
LEMMA SameOrder ==
  ASSUME NEW s, IsRows(s), NEW u, IsRows(u), DOMAIN u = DOMAIN s,
         \A i \in DOMAIN s : u[i].id = s[i].id /\ u[i].index = s[i].index
  PROVE  Order(u) = Order(s)
<1>1. PICK p : Sorts(p, s)
  BY OrderSorts
<1>2. PICK q : Sorts(q, u)
  BY OrderSorts
<1>3. \A j \in DOMAIN s : Behind(u, j) = Behind(s, j)
  BY DEF Behind
<1>4. ASSUME NEW k \in DOMAIN s PROVE q[k] \in DOMAIN s /\ p[k] \in DOMAIN s /\ q[k] = p[k]
  <2>1. q[k] \in DOMAIN s /\ Cardinality(Behind(u, q[k])) = k - 1
    BY <1>2 DEF Sorts
  <2>2. p[k] \in DOMAIN s /\ Cardinality(Behind(s, p[k])) = k - 1
    BY <1>1 DEF Sorts
  <2>3. Cardinality(Behind(s, q[k])) = k - 1
    BY <1>3, <2>1
  <2> QED
    BY <1>1, <2>1, <2>2, <2>3 DEF Sorts
<1>5. Order(s) = [k \in DOMAIN s |-> s[p[k]].id] /\ Order(u) = [k \in DOMAIN s |-> u[q[k]].id]
  BY <1>1, <1>2 DEF Sorts
<1> QED
  BY <1>4, <1>5

LEMMA AdoptedIs ==
  ASSUME NEW t, NEW n, IsTable(t, n)
  PROVE  IsRows(Adopted(t))
<1> DEFINE ids == ListBlocks(t)
           a == Adopted(t)
           row(i) == StoreRow(ids[i], t[ids[i]].html, t[ids[i]].type, t[ids[i]].index)
<1>1. a = [i \in DOMAIN ids |-> row(i)]
  BY DEF Adopted
<1>2. /\ Cardinality(DOMAIN t) \in Nat /\ DOMAIN ids = 1..Cardinality(DOMAIN t)
      /\ \A i \in DOMAIN ids : ids[i] \in DOMAIN t
  BY ListIs
<1> HIDE DEF ids
<1>3. \A i \in DOMAIN ids : IsRow(row(i))
  BY <1>2, StoreRowIs DEF IsTable, IsTableRow
<1> HIDE DEF a, row
<1>4. /\ DOMAIN a = 1..Cardinality(DOMAIN t) /\ a = [i \in 1..Cardinality(DOMAIN t) |-> a[i]]
      /\ \A i \in DOMAIN a : IsRow(a[i])
  BY <1>1, <1>2, <1>3
<1>5. IsSeq(a)
  BY <1>2, <1>4, TableIsSeq
<1> QED
  BY <1>4, <1>5 DEF IsRows, a

-----------------------------------------------------------------------------
(* What the store's operations do to the blocks it holds.                  *)

\* A row may change its columns, and keeps its id.
Recolumned(s, u) ==
  /\ DOMAIN u = DOMAIN s /\ u = [i \in DOMAIN s |-> u[i]]
  /\ \A i \in DOMAIN s : IsRow(u[i]) /\ u[i].id = s[i].id

LEMMA RecolumnedIs ==
  ASSUME NEW s, IsRows(s), NEW u, Recolumned(s, u)
  PROVE  IsRows(u) /\ Ids(u) = Ids(s)
<1>1. Len(s) \in Nat /\ DOMAIN s = 1..Len(s)
  BY IsSeqDomain DEF IsRows
<1>2. IsSeq(u)
  BY <1>1, TableIsSeq DEF Recolumned
<1> QED
  BY <1>2 DEF IsRows, Recolumned, Ids

LEMMA PutIs ==
  ASSUME NEW s, IsRows(s), NEW b, NEW html, NEW type
  PROVE  IsRows(Put(s, b, html, type)) /\ Ids(Put(s, b, html, type)) = Ids(s)
<1> DEFINE u == Put(s, b, html, type)
           written(i) == [s[i] EXCEPT !.html = html, !.type = type]
<1>0. /\ DOMAIN u = DOMAIN s /\ u = [i \in DOMAIN s |-> u[i]]
      /\ \A i \in DOMAIN s : u[i] = s[i] \/ u[i] = written(i)
  BY DEF Put
<1>1. ASSUME NEW i \in DOMAIN s, IsRow(s[i])
      PROVE  Overwrites(written(i), s[i])
  BY <1>1, RowWritten, Zenon
<1> HIDE DEF u, written
<1>2. \A i \in DOMAIN s : IsRow(s[i])
  BY DEF IsRows
<1>3. Recolumned(s, u)
  BY <1>0, <1>1, <1>2 DEF Recolumned, Overwrites
<1>4. IsRows(u) /\ Ids(u) = Ids(s)
  BY <1>3, RecolumnedIs
<1> QED
  BY <1>4 DEF u

LEMMA DropIs ==
  ASSUME NEW s, IsRows(s), NEW b
  PROVE  IsRows(Drop(s, b)) /\ Ids(Drop(s, b)) = Ids(s) \ {b}
<1> DEFINE I == {i \in DOMAIN s : s[i].id # b}
           u == Drop(s, b)
<1>1. u = Picked(s, I)
  BY DEF Drop
<1>2. I \subseteq DOMAIN s /\ \A i \in DOMAIN s : i \in I <=> s[i].id # b
  OBVIOUS
<1> HIDE DEF I, u
<1>3. IsSeq(u)
  BY <1>1, <1>2, PickedIs DEF IsRows
<1>4. PICK g : Picks(u, s, I, g)
  BY <1>1, <1>2, PickedIs DEF IsRows
<1>5. \A k \in DOMAIN u : g[k] \in DOMAIN s /\ g[k] \in I /\ u[k] = s[g[k]]
  BY <1>2, <1>4 DEF Picks
<1>6. \A i \in I : \E k \in DOMAIN u : u[k] = s[i]
  BY <1>4 DEF Picks
<1>7. IsRows(u)
  BY <1>3, <1>5 DEF IsRows
<1>8. Ids(u) = Ids(s) \ {b}
  <2>1. \A x \in Ids(u) : x \in Ids(s) \ {b}
    BY <1>2, <1>5 DEF Ids
  <2>2. \A x \in Ids(s) \ {b} : x \in Ids(u)
    BY <1>2, <1>6 DEF Ids
  <2> QED
    BY <2>1, <2>2
<1> QED
  BY <1>7, <1>8 DEF u

LEMMA AppendedIs ==
  ASSUME NEW s, IsRows(s), NEW r, IsRow(r)
  PROVE  IsRows(Append(s, r)) /\ Ids(Append(s, r)) = Ids(s) \union {r.id}
<1> DEFINE u == Append(s, r)
<1>1. Len(s) \in Nat /\ DOMAIN s = 1..Len(s) /\ IsSeq(s)
  BY IsSeqDomain DEF IsRows
<1>2. IsSeq(u) /\ Len(u) = Len(s) + 1 /\ u[Len(s) + 1] = r /\ \A i \in 1..Len(s) : u[i] = s[i]
  BY <1>1, AppendIs
<1>3. DOMAIN u = 1..Len(s) + 1
  BY <1>2, IsSeqDomain
<1> HIDE DEF u
<1>4. \A i \in DOMAIN u : i = Len(s) + 1 \/ i \in DOMAIN s
  BY <1>1, <1>3
<1>5. Len(s) + 1 \in DOMAIN u /\ \A i \in DOMAIN s : i \in DOMAIN u
  BY <1>1, <1>3
<1>6. IsRows(u)
  BY <1>1, <1>2, <1>4 DEF IsRows
<1>7. Ids(u) = Ids(s) \union {r.id}
  BY <1>1, <1>2, <1>4, <1>5 DEF Ids
<1> QED
  BY <1>6, <1>7 DEF u

\* Shifting moves rows, by one.
LEMMA OpenedIs ==
  ASSUME NEW s, IsRows(s), NEW index
  PROVE  IsRows(Opened(s, index)) /\ Ids(Opened(s, index)) = Ids(s)
<1> DEFINE u == Opened(s, index)
<1>1. /\ DOMAIN u = DOMAIN s /\ u = [i \in DOMAIN s |-> u[i]]
      /\ \A i \in DOMAIN s : u[i] = s[i] \/ u[i] = [s[i] EXCEPT !.index = s[i].index + 1]
  BY DEF Opened, Shift
<1> HIDE DEF u
<1>2. ASSUME NEW i \in DOMAIN s PROVE IsRow(u[i]) /\ u[i].id = s[i].id
  <2>1. IsRow(s[i])
    BY DEF IsRows
  <2>2. CASE u[i] = s[i]
    BY <2>1, <2>2
  <2>3. CASE u[i] = [s[i] EXCEPT !.index = s[i].index + 1]
    <3>1. u[i] = [id |-> s[i].id, html |-> s[i].html, type |-> s[i].type, index |-> s[i].index + 1]
      BY <2>1, <2>3 DEF IsRow
    <3> QED
      BY <2>1, <3>1 DEF IsRow
  <2> QED
    BY <1>1, <2>2, <2>3
<1>3. Recolumned(s, u)
  BY <1>1, <1>2 DEF Recolumned
<1>4. IsRows(u) /\ Ids(u) = Ids(s)
  BY <1>3, RecolumnedIs
<1> QED
  BY <1>4 DEF u

LEMMA ClosedIs ==
  ASSUME NEW s, IsRows(s), NEW index
  PROVE  IsRows(Closed(s, index)) /\ Ids(Closed(s, index)) = Ids(s)
<1> DEFINE u == Closed(s, index)
<1>1. /\ DOMAIN u = DOMAIN s /\ u = [i \in DOMAIN s |-> u[i]]
      /\ \A i \in DOMAIN s : u[i] = s[i] \/ u[i] = [s[i] EXCEPT !.index = s[i].index - 1]
  BY DEF Closed, Shift
<1> HIDE DEF u
<1>2. ASSUME NEW i \in DOMAIN s PROVE IsRow(u[i]) /\ u[i].id = s[i].id
  <2>1. IsRow(s[i])
    BY DEF IsRows
  <2>2. CASE u[i] = s[i]
    BY <2>1, <2>2
  <2>3. CASE u[i] = [s[i] EXCEPT !.index = s[i].index - 1]
    <3>1. u[i] = [id |-> s[i].id, html |-> s[i].html, type |-> s[i].type, index |-> s[i].index - 1]
      BY <2>1, <2>3 DEF IsRow
    <3> QED
      BY <2>1, <3>1 DEF IsRow
  <2> QED
    BY <1>1, <2>2, <2>3
<1>3. Recolumned(s, u)
  BY <1>1, <1>2 DEF Recolumned
<1>4. IsRows(u) /\ Ids(u) = Ids(s)
  BY <1>3, RecolumnedIs
<1> QED
  BY <1>4 DEF u

-----------------------------------------------------------------------------
(* Requests move between the wire and the queue: families of requests, up  *)
(* to the places they are at.  m leads from the places of Q to those of R, *)
(* w back.                                                                 *)

Pairs(m, w, Q, R) ==
  /\ \A p \in DOMAIN Q : m[p] \in DOMAIN R /\ w[m[p]] = p /\ R[m[p]] = Q[p]
  /\ \A p \in DOMAIN R : w[p] \in DOMAIN Q /\ m[w[p]] = p

Same(Q, R) == \E m, w : Pairs(m, w, Q, R)

\* Two families side by side.
Beside(Q, R) ==
  [p \in ({1} \X DOMAIN Q) \union ({2} \X DOMAIN R) |->
     IF p[1] = 1 THEN Q[p[2]] ELSE R[p[2]]]

LEMMA SameIs ==
  ASSUME NEW Q, NEW R, NEW m, NEW w, Pairs(m, w, Q, R)
  PROVE  Same(Q, R)
  BY DEF Same

LEMMA SameTurns ==
  ASSUME NEW Q, NEW R, Same(Q, R)
  PROVE  Same(R, Q)
<1>1. PICK m, w : Pairs(m, w, Q, R)
  BY DEF Same
<1>2. Pairs(w, m, R, Q)
  BY <1>1 DEF Pairs
<1> QED
  BY <1>2, SameIs

LEMMA SameGoesOn ==
  ASSUME NEW Q, NEW R, NEW S, Same(Q, R), Same(R, S)
  PROVE  Same(Q, S)
<1>1. PICK m, w : Pairs(m, w, Q, R)
  BY DEF Same
<1>2. PICK m2, w2 : Pairs(m2, w2, R, S)
  BY DEF Same
<1> DEFINE mm == [p \in DOMAIN Q |-> m2[m[p]]]
           ww == [p \in DOMAIN S |-> w[w2[p]]]
<1>3. /\ \A p \in DOMAIN Q : mm[p] = m2[m[p]]
      /\ \A p \in DOMAIN S : ww[p] = w[w2[p]]
  OBVIOUS
<1> HIDE DEF mm, ww
<1>4. Pairs(mm, ww, Q, S)
  BY <1>1, <1>2, <1>3 DEF Pairs
<1> QED
  BY <1>4, SameIs

LEMMA SameItself ==
  ASSUME NEW Q
  PROVE  Same(Q, Q)
<1> DEFINE e == [p \in DOMAIN Q |-> p]
<1>1. \A p \in DOMAIN Q : e[p] = p
  OBVIOUS
<1> HIDE DEF e
<1>2. Pairs(e, e, Q, Q)
  BY <1>1 DEF Pairs
<1> QED
  BY <1>2, SameIs

LEMMA BesideIs ==
  ASSUME NEW Q, NEW R
  PROVE  /\ \A x \in DOMAIN Q : <<1, x>> \in DOMAIN Beside(Q, R) /\ Beside(Q, R)[<<1, x>>] = Q[x]
         /\ \A y \in DOMAIN R : <<2, y>> \in DOMAIN Beside(Q, R) /\ Beside(Q, R)[<<2, y>>] = R[y]
         /\ \A p \in DOMAIN Beside(Q, R) : \/ \E x \in DOMAIN Q : p = <<1, x>>
                                           \/ \E y \in DOMAIN R : p = <<2, y>>
  BY DEF Beside

\* What is the same stays the same beside the same.
LEMMA SameBeside ==
  ASSUME NEW Q, NEW R, NEW Q2, NEW R2, Same(Q, Q2), Same(R, R2)
  PROVE  Same(Beside(Q, R), Beside(Q2, R2))
<1>1. PICK m, w : Pairs(m, w, Q, Q2)
  BY DEF Same
<1>2. PICK k, v : Pairs(k, v, R, R2)
  BY DEF Same
<1> DEFINE ml == [x \in DOMAIN Q |-> <<1, m[x]>>]
           mr == [y \in DOMAIN R |-> <<2, k[y]>>]
           wl == [x \in DOMAIN Q2 |-> <<1, w[x]>>]
           wr == [y \in DOMAIN R2 |-> <<2, v[y]>>]
           mm == Beside(ml, mr)
           ww == Beside(wl, wr)
           B == Beside(Q, R)
           C == Beside(Q2, R2)
<1>3. /\ \A x \in DOMAIN Q : mm[<<1, x>>] = <<1, m[x]>>
      /\ \A y \in DOMAIN R : mm[<<2, y>>] = <<2, k[y]>>
  <2>1. /\ DOMAIN ml = DOMAIN Q /\ \A x \in DOMAIN Q : ml[x] = <<1, m[x]>>
        /\ DOMAIN mr = DOMAIN R /\ \A y \in DOMAIN R : mr[y] = <<2, k[y]>>
    OBVIOUS
  <2> HIDE DEF ml, mr
  <2> QED
    BY <2>1, BesideIs
<1>4. /\ \A x \in DOMAIN Q2 : ww[<<1, x>>] = <<1, w[x]>>
      /\ \A y \in DOMAIN R2 : ww[<<2, y>>] = <<2, v[y]>>
  <2>1. /\ DOMAIN wl = DOMAIN Q2 /\ \A x \in DOMAIN Q2 : wl[x] = <<1, w[x]>>
        /\ DOMAIN wr = DOMAIN R2 /\ \A y \in DOMAIN R2 : wr[y] = <<2, v[y]>>
    OBVIOUS
  <2> HIDE DEF wl, wr
  <2> QED
    BY <2>1, BesideIs
<1>5. /\ \A x \in DOMAIN Q : <<1, x>> \in DOMAIN B /\ B[<<1, x>>] = Q[x]
      /\ \A y \in DOMAIN R : <<2, y>> \in DOMAIN B /\ B[<<2, y>>] = R[y]
      /\ \A p \in DOMAIN B : \/ \E x \in DOMAIN Q : p = <<1, x>>
                             \/ \E y \in DOMAIN R : p = <<2, y>>
  BY BesideIs
<1>6. /\ \A x \in DOMAIN Q2 : <<1, x>> \in DOMAIN C /\ C[<<1, x>>] = Q2[x]
      /\ \A y \in DOMAIN R2 : <<2, y>> \in DOMAIN C /\ C[<<2, y>>] = R2[y]
      /\ \A p \in DOMAIN C : \/ \E x \in DOMAIN Q2 : p = <<1, x>>
                             \/ \E y \in DOMAIN R2 : p = <<2, y>>
  BY BesideIs
<1> HIDE DEF mm, ww, B, C
<1>7. \A p \in DOMAIN B : mm[p] \in DOMAIN C /\ ww[mm[p]] = p /\ C[mm[p]] = B[p]
  BY <1>1, <1>2, <1>3, <1>4, <1>5, <1>6 DEF Pairs
<1>8. \A p \in DOMAIN C : ww[p] \in DOMAIN B /\ mm[ww[p]] = p
  BY <1>1, <1>2, <1>3, <1>4, <1>5, <1>6 DEF Pairs
<1>9. Pairs(mm, ww, B, C)
  BY <1>7, <1>8 DEF Pairs
<1>10. Same(B, C)
  BY <1>9, SameIs
<1> QED
  BY <1>10 DEF B, C

LEMMA BesideTurns ==
  ASSUME NEW Q, NEW R
  PROVE  Same(Beside(Q, R), Beside(R, Q))
<1> DEFINE ml == [x \in DOMAIN Q |-> <<2, x>>]
           mr == [y \in DOMAIN R |-> <<1, y>>]
           wl == [y \in DOMAIN R |-> <<2, y>>]
           wr == [x \in DOMAIN Q |-> <<1, x>>]
           mm == Beside(ml, mr)
           ww == Beside(wl, wr)
           B == Beside(Q, R)
           C == Beside(R, Q)
<1>3. /\ \A x \in DOMAIN Q : mm[<<1, x>>] = <<2, x>>
      /\ \A y \in DOMAIN R : mm[<<2, y>>] = <<1, y>>
  <2>1. /\ DOMAIN ml = DOMAIN Q /\ \A x \in DOMAIN Q : ml[x] = <<2, x>>
        /\ DOMAIN mr = DOMAIN R /\ \A y \in DOMAIN R : mr[y] = <<1, y>>
    OBVIOUS
  <2> HIDE DEF ml, mr
  <2> QED
    BY <2>1, BesideIs
<1>4. /\ \A y \in DOMAIN R : ww[<<1, y>>] = <<2, y>>
      /\ \A x \in DOMAIN Q : ww[<<2, x>>] = <<1, x>>
  <2>1. /\ DOMAIN wl = DOMAIN R /\ \A y \in DOMAIN R : wl[y] = <<2, y>>
        /\ DOMAIN wr = DOMAIN Q /\ \A x \in DOMAIN Q : wr[x] = <<1, x>>
    OBVIOUS
  <2> HIDE DEF wl, wr
  <2> QED
    BY <2>1, BesideIs
<1>5. /\ \A x \in DOMAIN Q : <<1, x>> \in DOMAIN B /\ B[<<1, x>>] = Q[x]
      /\ \A y \in DOMAIN R : <<2, y>> \in DOMAIN B /\ B[<<2, y>>] = R[y]
      /\ \A p \in DOMAIN B : \/ \E x \in DOMAIN Q : p = <<1, x>>
                             \/ \E y \in DOMAIN R : p = <<2, y>>
  BY BesideIs
<1>6. /\ \A x \in DOMAIN R : <<1, x>> \in DOMAIN C /\ C[<<1, x>>] = R[x]
      /\ \A y \in DOMAIN Q : <<2, y>> \in DOMAIN C /\ C[<<2, y>>] = Q[y]
      /\ \A p \in DOMAIN C : \/ \E x \in DOMAIN R : p = <<1, x>>
                             \/ \E y \in DOMAIN Q : p = <<2, y>>
  BY BesideIs
<1> HIDE DEF mm, ww, B, C
<1>7. \A p \in DOMAIN B : mm[p] \in DOMAIN C /\ ww[mm[p]] = p /\ C[mm[p]] = B[p]
  BY <1>3, <1>4, <1>5, <1>6
<1>8. \A p \in DOMAIN C : ww[p] \in DOMAIN B /\ mm[ww[p]] = p
  BY <1>3, <1>4, <1>5, <1>6
<1>9. Same(B, C)
  BY <1>7, <1>8, SameIs DEF Pairs
<1> QED
  BY <1>9 DEF B, C

LEMMA BesideGroups ==
  ASSUME NEW Q, NEW R, NEW S
  PROVE  Same(Beside(Beside(Q, R), S), Beside(Q, Beside(R, S)))
<1> DEFINE ma == [x \in DOMAIN Q |-> <<1, x>>]
           mb == [x \in DOMAIN R |-> <<2, <<1, x>>>>]
           mc == [x \in DOMAIN S |-> <<2, <<2, x>>>>]
           wa == [x \in DOMAIN Q |-> <<1, <<1, x>>>>]
           wb == [x \in DOMAIN R |-> <<1, <<2, x>>>>]
           wc == [x \in DOMAIN S |-> <<2, x>>]
           mab == Beside(ma, mb)
           mm == Beside(mab, mc)
           wbc == Beside(wb, wc)
           ww == Beside(wa, wbc)
           QR == Beside(Q, R)
           RS == Beside(R, S)
           B == Beside(QR, S)
           C == Beside(Q, RS)
<1>1. /\ DOMAIN ma = DOMAIN Q /\ DOMAIN mb = DOMAIN R /\ DOMAIN mc = DOMAIN S
      /\ DOMAIN wa = DOMAIN Q /\ DOMAIN wb = DOMAIN R /\ DOMAIN wc = DOMAIN S
      /\ \A x \in DOMAIN Q : ma[x] = <<1, x>> /\ wa[x] = <<1, <<1, x>>>>
      /\ \A x \in DOMAIN R : mb[x] = <<2, <<1, x>>>> /\ wb[x] = <<1, <<2, x>>>>
      /\ \A x \in DOMAIN S : mc[x] = <<2, <<2, x>>>> /\ wc[x] = <<2, x>>
  OBVIOUS
<1> HIDE DEF ma, mb, mc, wa, wb, wc
<1>2. /\ \A x \in DOMAIN Q : <<1, x>> \in DOMAIN QR /\ QR[<<1, x>>] = Q[x]
      /\ \A y \in DOMAIN R : <<2, y>> \in DOMAIN QR /\ QR[<<2, y>>] = R[y]
      /\ \A p \in DOMAIN QR : \/ \E x \in DOMAIN Q : p = <<1, x>>
                              \/ \E y \in DOMAIN R : p = <<2, y>>
  BY BesideIs
<1>3. /\ \A x \in DOMAIN R : <<1, x>> \in DOMAIN RS /\ RS[<<1, x>>] = R[x]
      /\ \A y \in DOMAIN S : <<2, y>> \in DOMAIN RS /\ RS[<<2, y>>] = S[y]
      /\ \A p \in DOMAIN RS : \/ \E x \in DOMAIN R : p = <<1, x>>
                              \/ \E y \in DOMAIN S : p = <<2, y>>
  BY BesideIs
<1>4. DOMAIN mab = DOMAIN QR /\ DOMAIN wbc = DOMAIN RS
  BY <1>1 DEF Beside
<1>5. /\ \A x \in DOMAIN Q : mab[<<1, x>>] = <<1, x>>
      /\ \A y \in DOMAIN R : mab[<<2, y>>] = <<2, <<1, y>>>>
      /\ \A x \in DOMAIN R : wbc[<<1, x>>] = <<1, <<2, x>>>>
      /\ \A y \in DOMAIN S : wbc[<<2, y>>] = <<2, y>>
  BY <1>1, BesideIs
<1> HIDE DEF mab, wbc, QR, RS
<1>6. /\ \A x \in DOMAIN QR : <<1, x>> \in DOMAIN B /\ B[<<1, x>>] = QR[x]
      /\ \A y \in DOMAIN S : <<2, y>> \in DOMAIN B /\ B[<<2, y>>] = S[y]
      /\ \A p \in DOMAIN B : \/ \E x \in DOMAIN QR : p = <<1, x>>
                             \/ \E y \in DOMAIN S : p = <<2, y>>
  BY BesideIs
<1>7. /\ \A x \in DOMAIN Q : <<1, x>> \in DOMAIN C /\ C[<<1, x>>] = Q[x]
      /\ \A y \in DOMAIN RS : <<2, y>> \in DOMAIN C /\ C[<<2, y>>] = RS[y]
      /\ \A p \in DOMAIN C : \/ \E x \in DOMAIN Q : p = <<1, x>>
                             \/ \E y \in DOMAIN RS : p = <<2, y>>
  BY BesideIs
<1>8. /\ \A x \in DOMAIN QR : mm[<<1, x>>] = mab[x]
      /\ \A y \in DOMAIN S : mm[<<2, y>>] = <<2, <<2, y>>>>
      /\ \A x \in DOMAIN Q : ww[<<1, x>>] = <<1, <<1, x>>>>
      /\ \A y \in DOMAIN RS : ww[<<2, y>>] = wbc[y]
  BY <1>1, <1>4, BesideIs
<1> HIDE DEF mm, ww, B, C
<1> DEFINE ba(x) == <<1, <<1, x>>>>
           bb(x) == <<1, <<2, x>>>>
           bc(x) == <<2, x>>
           ca(x) == <<1, x>>
           cb(x) == <<2, <<1, x>>>>
           cc(x) == <<2, <<2, x>>>>
<1>9. /\ \A x \in DOMAIN Q : /\ ba(x) \in DOMAIN B /\ B[ba(x)] = Q[x] /\ mm[ba(x)] = ca(x)
                            /\ ca(x) \in DOMAIN C /\ C[ca(x)] = Q[x] /\ ww[ca(x)] = ba(x)
      /\ \A x \in DOMAIN R : /\ bb(x) \in DOMAIN B /\ B[bb(x)] = R[x] /\ mm[bb(x)] = cb(x)
                            /\ cb(x) \in DOMAIN C /\ C[cb(x)] = R[x] /\ ww[cb(x)] = bb(x)
      /\ \A x \in DOMAIN S : /\ bc(x) \in DOMAIN B /\ B[bc(x)] = S[x] /\ mm[bc(x)] = cc(x)
                            /\ cc(x) \in DOMAIN C /\ C[cc(x)] = S[x] /\ ww[cc(x)] = bc(x)
  <2>1. ASSUME NEW x \in DOMAIN Q
        PROVE  /\ ba(x) \in DOMAIN B /\ B[ba(x)] = Q[x] /\ mm[ba(x)] = ca(x)
               /\ ca(x) \in DOMAIN C /\ C[ca(x)] = Q[x] /\ ww[ca(x)] = ba(x)
    <3>1. <<1, x>> \in DOMAIN QR /\ QR[<<1, x>>] = Q[x] /\ mab[<<1, x>>] = <<1, x>>
      BY <1>2, <1>5
    <3> QED
      BY <1>6, <1>7, <1>8, <3>1
  <2>2. ASSUME NEW x \in DOMAIN R
        PROVE  /\ bb(x) \in DOMAIN B /\ B[bb(x)] = R[x] /\ mm[bb(x)] = cb(x)
               /\ cb(x) \in DOMAIN C /\ C[cb(x)] = R[x] /\ ww[cb(x)] = bb(x)
    <3>1. <<2, x>> \in DOMAIN QR /\ QR[<<2, x>>] = R[x] /\ mab[<<2, x>>] = <<2, <<1, x>>>>
      BY <1>2, <1>5
    <3>2. <<1, x>> \in DOMAIN RS /\ RS[<<1, x>>] = R[x] /\ wbc[<<1, x>>] = <<1, <<2, x>>>>
      BY <1>3, <1>5
    <3> QED
      BY <1>6, <1>7, <1>8, <3>1, <3>2
  <2>3. ASSUME NEW x \in DOMAIN S
        PROVE  /\ bc(x) \in DOMAIN B /\ B[bc(x)] = S[x] /\ mm[bc(x)] = cc(x)
               /\ cc(x) \in DOMAIN C /\ C[cc(x)] = S[x] /\ ww[cc(x)] = bc(x)
    <3>1. <<2, x>> \in DOMAIN RS /\ RS[<<2, x>>] = S[x] /\ wbc[<<2, x>>] = <<2, x>>
      BY <1>3, <1>5
    <3> QED
      BY <1>6, <1>7, <1>8, <3>1
  <2> HIDE DEF ba, bb, bc, ca, cb, cc
  <2> QED
    BY <2>1, <2>2, <2>3
<1>10. /\ \A p \in DOMAIN B : \/ \E x \in DOMAIN Q : p = ba(x)
                              \/ \E x \in DOMAIN R : p = bb(x)
                              \/ \E x \in DOMAIN S : p = bc(x)
       /\ \A p \in DOMAIN C : \/ \E x \in DOMAIN Q : p = ca(x)
                              \/ \E x \in DOMAIN R : p = cb(x)
                              \/ \E x \in DOMAIN S : p = cc(x)
  BY <1>2, <1>3, <1>6, <1>7
<1> HIDE DEF ba, bb, bc, ca, cb, cc
<1>11. Same(B, C)
  BY <1>9, <1>10, SameIs DEF Pairs
<1> QED
  BY <1>11 DEF B, C, QR, RS

\* The two halves of two pairs, regrouped.
LEMMA BesideCrosses ==
  ASSUME NEW Q, NEW R, NEW S, NEW T
  PROVE  Same(Beside(Beside(Q, R), Beside(S, T)), Beside(Beside(Q, S), Beside(R, T)))
<1>1. Same(Beside(Beside(Q, R), Beside(S, T)), Beside(Q, Beside(R, Beside(S, T))))
  BY BesideGroups
<1>2. Same(Beside(R, Beside(S, T)), Beside(S, Beside(R, T)))
  <2>1. Same(Beside(R, Beside(S, T)), Beside(Beside(R, S), T))
    BY BesideGroups, SameTurns
  <2>2. Same(Beside(Beside(R, S), T), Beside(Beside(S, R), T))
    BY BesideTurns, SameItself, SameBeside
  <2>3. Same(Beside(Beside(S, R), T), Beside(S, Beside(R, T)))
    BY BesideGroups
  <2>4. Same(Beside(R, Beside(S, T)), Beside(Beside(S, R), T))
    BY <2>1, <2>2, SameGoesOn
  <2> QED
    BY <2>3, <2>4, SameGoesOn
<1>3. Same(Beside(Q, Beside(R, Beside(S, T))), Beside(Q, Beside(S, Beside(R, T))))
  BY <1>2, SameItself, SameBeside
<1>4. Same(Beside(Q, Beside(S, Beside(R, T))), Beside(Beside(Q, S), Beside(R, T)))
  BY BesideGroups, SameTurns
<1>5. Same(Beside(Beside(Q, R), Beside(S, T)), Beside(Q, Beside(S, Beside(R, T))))
  BY <1>1, <1>3, SameGoesOn
<1> QED
  BY <1>4, <1>5, SameGoesOn

LEMMA BesideCat ==
  ASSUME NEW f, IsSeq(f), NEW a, IsSeq(a)
  PROVE  Same(Beside(f, a), f \o a)
<1> DEFINE c == f \o a
           ml == [i \in DOMAIN f |-> i]
           mr == [i \in DOMAIN a |-> Len(f) + i]
           m == Beside(ml, mr)
           one(x) == <<1, x>>
           two(x) == <<2, x>>
           w == [k \in DOMAIN c |-> IF k <= Len(f) THEN one(k) ELSE two(k - Len(f))]
           B == Beside(f, a)
<1>1. /\ Len(f) \in Nat /\ DOMAIN f = 1..Len(f)
      /\ Len(a) \in Nat /\ DOMAIN a = 1..Len(a)
  BY IsSeqDomain
<1>2. /\ IsSeq(c) /\ Len(c) = Len(f) + Len(a)
      /\ \A i \in 1..Len(f) + Len(a) : c[i] = IF i <= Len(f) THEN f[i] ELSE a[i - Len(f)]
  BY CatIs
<1>3. DOMAIN c = 1..Len(f) + Len(a)
  BY <1>2, IsSeqDomain
<1> HIDE DEF c
<1>4. /\ \A i \in DOMAIN f : i \in DOMAIN c /\ c[i] = f[i] /\ i <= Len(f)
      /\ \A i \in DOMAIN a : /\ Len(f) + i \in DOMAIN c /\ c[Len(f) + i] = a[i]
                             /\ ~(Len(f) + i <= Len(f)) /\ (Len(f) + i) - Len(f) = i
  BY <1>1, <1>2, <1>3
<1>5. /\ \A x \in DOMAIN f : <<1, x>> \in DOMAIN B /\ B[<<1, x>>] = f[x]
      /\ \A y \in DOMAIN a : <<2, y>> \in DOMAIN B /\ B[<<2, y>>] = a[y]
      /\ \A p \in DOMAIN B : \/ \E x \in DOMAIN f : p = <<1, x>>
                             \/ \E y \in DOMAIN a : p = <<2, y>>
  BY BesideIs
<1>6. /\ \A x \in DOMAIN f : m[<<1, x>>] = x
      /\ \A y \in DOMAIN a : m[<<2, y>>] = Len(f) + y
  <2>1. /\ DOMAIN ml = DOMAIN f /\ \A x \in DOMAIN f : ml[x] = x
        /\ DOMAIN mr = DOMAIN a /\ \A y \in DOMAIN a : mr[y] = Len(f) + y
    OBVIOUS
  <2> HIDE DEF ml, mr
  <2> QED
    BY <2>1, BesideIs
<1>7. /\ \A x \in DOMAIN f : w[x] = <<1, x>>
      /\ \A y \in DOMAIN a : w[Len(f) + y] = <<2, y>>
  <2> HIDE DEF one, two
  <2>1. \A x \in DOMAIN f : w[x] = one(x)
    BY <1>4
  <2>2. ASSUME NEW y \in DOMAIN a PROVE w[Len(f) + y] = two(y)
    <3>1. /\ Len(f) + y \in DOMAIN c /\ ~(Len(f) + y <= Len(f))
          /\ (Len(f) + y) - Len(f) = y
      BY <1>4
    <3>2. \A k \in DOMAIN c : ~(k <= Len(f)) => w[k] = two(k - Len(f))
      OBVIOUS
    <3> DEFINE k == Len(f) + y
    <3> HIDE DEF w, k
    <3>3. k \in DOMAIN c /\ ~(k <= Len(f)) /\ k - Len(f) = y
      BY <3>1 DEF k
    <3>4. w[k] = two(k - Len(f))
      BY <3>2, <3>3
    <3> QED
      BY <3>3, <3>4 DEF k
  <2> HIDE DEF w
  <2> QED
    BY <2>1, <2>2 DEF one, two
<1>8. \A k \in DOMAIN c : k \in DOMAIN f \/ \E y \in DOMAIN a : k = Len(f) + y
  <2> SUFFICES ASSUME NEW k \in DOMAIN c, ~(k <= Len(f))
               PROVE  \E y \in DOMAIN a : k = Len(f) + y
    BY <1>1, <1>3
  <2>1. k - Len(f) \in DOMAIN a /\ k = Len(f) + (k - Len(f))
    BY <1>1, <1>3
  <2> QED
    BY <2>1
<1> HIDE DEF m, w, B
<1>9. ASSUME NEW p \in DOMAIN B PROVE m[p] \in DOMAIN c /\ w[m[p]] = p /\ c[m[p]] = B[p]
  <2>1. ASSUME NEW x \in DOMAIN f, p = <<1, x>>
        PROVE  m[p] \in DOMAIN c /\ w[m[p]] = p /\ c[m[p]] = B[p]
    BY <1>4, <1>5, <1>6, <1>7, <2>1
  <2>2. ASSUME NEW y \in DOMAIN a, p = <<2, y>>
        PROVE  m[p] \in DOMAIN c /\ w[m[p]] = p /\ c[m[p]] = B[p]
    <3>1. m[p] = Len(f) + y
      BY <1>6, <2>2
    <3>2. m[p] \in DOMAIN c /\ c[m[p]] = a[y]
      BY <1>4, <3>1
    <3>3. w[m[p]] = p /\ B[p] = a[y]
      BY <1>5, <1>7, <2>2, <3>1
    <3> QED
      BY <3>2, <3>3
  <2> QED
    BY <1>5, <2>1, <2>2, Zenon
<1>10. ASSUME NEW k \in DOMAIN c PROVE w[k] \in DOMAIN B /\ m[w[k]] = k
  <2>1. CASE k \in DOMAIN f
    BY <1>5, <1>6, <1>7, <2>1
  <2>2. ASSUME NEW y \in DOMAIN a, k = Len(f) + y PROVE w[k] \in DOMAIN B /\ m[w[k]] = k
    BY <1>5, <1>6, <1>7, <2>2
  <2> QED
    BY <1>8, <2>1, <2>2
<1>11. Same(B, c)
  BY <1>9, <1>10, SameIs DEF Pairs
<1> QED
  BY <1>11 DEF B, c

\* A sequence is what is picked from it, beside the rest.
LEMMA BesidePicked ==
  ASSUME NEW s, IsSeq(s), NEW I, I \subseteq DOMAIN s
  PROVE  Same(Beside(Picked(s, DOMAIN s \ I), Picked(s, I)), s)
<1> DEFINE t == Picked(s, DOMAIN s \ I)
           u == Picked(s, I)
           B == Beside(t, u)
<1>1. PICK g : Picks(t, s, DOMAIN s \ I, g)
  <2>1. DOMAIN s \ I \subseteq DOMAIN s
    OBVIOUS
  <2> QED
    BY <2>1, PickedIs, Zenon
<1>2. PICK h : Picks(u, s, I, h)
  BY PickedIs, Zenon
<1> HIDE DEF t, u
<1> DEFINE m == Beside(g, h)
           wt(i) == CHOOSE k \in DOMAIN t : g[k] = i
           wu(i) == CHOOSE k \in DOMAIN u : h[k] = i
           w == [i \in DOMAIN s |-> IF i \in I THEN <<2, wu(i)>> ELSE <<1, wt(i)>>]
<1>3. /\ DOMAIN g = DOMAIN t /\ DOMAIN h = DOMAIN u
      /\ \A k \in DOMAIN t : g[k] \in DOMAIN s /\ g[k] \notin I /\ s[g[k]] = t[k] /\ wt(g[k]) = k
      /\ \A k \in DOMAIN u : h[k] \in DOMAIN s /\ h[k] \in I /\ s[h[k]] = u[k] /\ wu(h[k]) = k
      /\ \A i \in DOMAIN s \ I : wt(i) \in DOMAIN t /\ g[wt(i)] = i
      /\ \A i \in I : wu(i) \in DOMAIN u /\ h[wu(i)] = i
  <2>1. /\ DOMAIN g = DOMAIN t /\ DOMAIN h = DOMAIN u
        /\ \A k \in DOMAIN t : g[k] \in DOMAIN s /\ g[k] \notin I /\ s[g[k]] = t[k]
        /\ \A k \in DOMAIN u : h[k] \in DOMAIN s /\ h[k] \in I /\ s[h[k]] = u[k]
    BY <1>1, <1>2 DEF Picks
  <2>2. /\ \A k \in DOMAIN t : wt(g[k]) = k
        /\ \A i \in DOMAIN s \ I : wt(i) \in DOMAIN t /\ g[wt(i)] = i
    BY <1>1 DEF Picks
  <2>3. /\ \A k \in DOMAIN u : wu(h[k]) = k
        /\ \A i \in I : wu(i) \in DOMAIN u /\ h[wu(i)] = i
    BY <1>2 DEF Picks
  <2> HIDE DEF wt, wu
  <2> QED
    BY <2>1, <2>2, <2>3
<1> HIDE DEF wt, wu
<1>4. /\ \A x \in DOMAIN t : <<1, x>> \in DOMAIN B /\ B[<<1, x>>] = t[x]
      /\ \A y \in DOMAIN u : <<2, y>> \in DOMAIN B /\ B[<<2, y>>] = u[y]
      /\ \A p \in DOMAIN B : \/ \E x \in DOMAIN t : p = <<1, x>>
                             \/ \E y \in DOMAIN u : p = <<2, y>>
  BY BesideIs
<1>5. /\ \A x \in DOMAIN t : m[<<1, x>>] = g[x]
      /\ \A y \in DOMAIN u : m[<<2, y>>] = h[y]
  BY <1>3, BesideIs
<1>6. /\ \A i \in DOMAIN s \ I : w[i] = <<1, wt(i)>>
      /\ \A i \in I : w[i] = <<2, wu(i)>>
  OBVIOUS
<1> HIDE DEF m, w, B
<1> HIDE DEF wt, wu
<1>7. \A p \in DOMAIN B : m[p] \in DOMAIN s /\ w[m[p]] = p /\ s[m[p]] = B[p]
  <2>1. ASSUME NEW x \in DOMAIN t
        PROVE  m[<<1, x>>] \in DOMAIN s /\ w[m[<<1, x>>]] = <<1, x>> /\ s[m[<<1, x>>]] = B[<<1, x>>]
    <3>1. m[<<1, x>>] = g[x] /\ B[<<1, x>>] = t[x]
      BY <1>4, <1>5
    <3>2. g[x] \in DOMAIN s \ I /\ s[g[x]] = t[x] /\ wt(g[x]) = x
      BY <1>3
    <3>3. w[g[x]] = <<1, wt(g[x])>>
      BY <1>6, <3>2
    <3> QED
      BY <3>1, <3>2, <3>3
  <2>2. ASSUME NEW y \in DOMAIN u
        PROVE  m[<<2, y>>] \in DOMAIN s /\ w[m[<<2, y>>]] = <<2, y>> /\ s[m[<<2, y>>]] = B[<<2, y>>]
    <3>1. m[<<2, y>>] = h[y] /\ B[<<2, y>>] = u[y]
      BY <1>4, <1>5
    <3>2. h[y] \in DOMAIN s /\ h[y] \in I /\ s[h[y]] = u[y] /\ wu(h[y]) = y
      BY <1>3
    <3>3. w[h[y]] = <<2, wu(h[y])>>
      BY <1>6, <3>2
    <3> QED
      BY <3>1, <3>2, <3>3
  <2>3. ASSUME NEW p \in DOMAIN B PROVE m[p] \in DOMAIN s /\ w[m[p]] = p /\ s[m[p]] = B[p]
    <3>1. ASSUME NEW x \in DOMAIN t, p = <<1, x>>
          PROVE  m[p] \in DOMAIN s /\ w[m[p]] = p /\ s[m[p]] = B[p]
      <4>1. m[<<1, x>>] \in DOMAIN s /\ w[m[<<1, x>>]] = <<1, x>> /\ s[m[<<1, x>>]] = B[<<1, x>>]
        BY <2>1
      <4> QED
        BY <3>1, <4>1
    <3>2. ASSUME NEW y \in DOMAIN u, p = <<2, y>>
          PROVE  m[p] \in DOMAIN s /\ w[m[p]] = p /\ s[m[p]] = B[p]
      <4>1. m[<<2, y>>] \in DOMAIN s /\ w[m[<<2, y>>]] = <<2, y>> /\ s[m[<<2, y>>]] = B[<<2, y>>]
        BY <2>2
      <4> QED
        BY <3>2, <4>1
    <3> QED
      BY <1>4, <3>1, <3>2
  <2> QED
    BY <2>3
<1>8. ASSUME NEW i \in DOMAIN s PROVE w[i] \in DOMAIN B /\ m[w[i]] = i
  <2>1. CASE i \in I
    <3>1. w[i] = <<2, wu(i)>> /\ wu(i) \in DOMAIN u /\ h[wu(i)] = i
      BY <1>3, <1>6, <2>1
    <3> QED
      BY <1>4, <1>5, <3>1
  <2>2. CASE i \notin I
    <3>1. w[i] = <<1, wt(i)>> /\ wt(i) \in DOMAIN t /\ g[wt(i)] = i
      BY <1>3, <1>6, <2>2
    <3> QED
      BY <1>4, <1>5, <3>1
  <2> QED
    BY <2>1, <2>2
<1>9. Same(B, s)
  BY <1>7, <1>8, SameIs DEF Pairs
<1> QED
  BY <1>9 DEF B, t, u

\* s with another entry at i is s without i, beside that entry.
LEMMA BesideOne ==
  ASSUME NEW s, IsSeq(s), NEW i \in DOMAIN s, NEW t, DOMAIN t = DOMAIN s,
         \A j \in DOMAIN s : j # i => t[j] = s[j]
  PROVE  Same(Beside(RemoveAt(s, i), <<t[i]>>), t)
<1> DEFINE r == RemoveAt(s, i)
           one == <<t[i]>>
           B == Beside(r, one)
           ml == [j \in DOMAIN r |-> IF j < i THEN j ELSE j + 1]
           mr == [j \in {1} |-> i]
           m == Beside(ml, mr)
           old(x) == <<1, x>>
           new == <<2, 1>>
           w == [k \in DOMAIN s |-> IF k < i THEN old(k) ELSE
                                    IF k = i THEN new ELSE old(k - 1)]
<1>1. Len(s) \in Nat /\ DOMAIN s = 1..Len(s)
  BY IsSeqDomain
<1>2. /\ IsSeq(r) /\ Len(r) = Len(s) - 1
      /\ \A j \in 1..Len(s) - 1 : r[j] = IF j < i THEN s[j] ELSE s[j + 1]
  <2> HIDE DEF one, B, m, w
  <2>1. i \in 1..Len(s)
    BY <1>1
  <2> QED
    BY <2>1, RemoveAtIs
<1>3. DOMAIN r = 1..Len(s) - 1
  BY <1>2, IsSeqDomain
<1>4. DOMAIN one = {1} /\ one[1] = t[i]
  OBVIOUS
<1> HIDE DEF r, one
<1>5. /\ \A x \in DOMAIN r : <<1, x>> \in DOMAIN B /\ B[<<1, x>>] = r[x]
      /\ <<2, 1>> \in DOMAIN B /\ B[<<2, 1>>] = t[i]
      /\ \A p \in DOMAIN B : p = <<2, 1>> \/ \E x \in DOMAIN r : p = <<1, x>>
  BY <1>4, BesideIs
<1>6. /\ \A x \in DOMAIN r : m[<<1, x>>] = IF x < i THEN x ELSE x + 1
      /\ m[<<2, 1>>] = i
  <2>1. /\ DOMAIN ml = DOMAIN r /\ \A x \in DOMAIN r : ml[x] = IF x < i THEN x ELSE x + 1
        /\ DOMAIN mr = {1} /\ mr[1] = i
    OBVIOUS
  <2> HIDE DEF ml, mr
  <2> QED
    BY <2>1, BesideIs
<1>7. \A k \in DOMAIN s : /\ k < i => w[k] = <<1, k>>
                          /\ k = i => w[k] = <<2, 1>>
                          /\ k > i => w[k] = <<1, k - 1>>
  <2> HIDE DEF old, new
  <2>1. \A k \in DOMAIN s : /\ k < i => w[k] = old(k)
                            /\ k = i => w[k] = new
                            /\ k > i => w[k] = old(k - 1)
    BY <1>1
  <2> HIDE DEF w
  <2> QED
    BY <2>1 DEF old, new
<1> HIDE DEF m, w, B
<1>8. ASSUME NEW x \in DOMAIN r
      PROVE  m[<<1, x>>] \in DOMAIN s /\ w[m[<<1, x>>]] = <<1, x>> /\ t[m[<<1, x>>]] = r[x]
  <2>1. CASE x < i
    <3>1. m[<<1, x>>] = x /\ x \in DOMAIN s /\ x # i /\ r[x] = s[x]
      BY <1>1, <1>2, <1>3, <1>6, <2>1
    <3> QED
      BY <1>7, <2>1, <3>1
  <2>2. CASE ~(x < i)
    <3>1. /\ m[<<1, x>>] = x + 1 /\ x + 1 \in DOMAIN s /\ x + 1 > i
          /\ r[x] = s[x + 1] /\ (x + 1) - 1 = x /\ x + 1 # i
      BY <1>1, <1>2, <1>3, <1>6, <2>2
    <3>2. w[x + 1] = <<1, x>>
      <4>1. w[x + 1] = <<1, (x + 1) - 1>>
        BY <1>7, <3>1
      <4> QED
        BY <3>1, <4>1
    <3> QED
      BY <3>1, <3>2
  <2> QED
    BY <2>1, <2>2
<1>9. m[<<2, 1>>] \in DOMAIN s /\ w[m[<<2, 1>>]] = <<2, 1>> /\ t[m[<<2, 1>>]] = t[i]
  <2>1. w[i] = <<2, 1>>
    BY <1>7
  <2> QED
    BY <1>6, <2>1
<1>10. ASSUME NEW p \in DOMAIN B PROVE m[p] \in DOMAIN t /\ w[m[p]] = p /\ t[m[p]] = B[p]
  <2>1. CASE p = <<2, 1>>
    BY <1>5, <1>9, <2>1
  <2>2. ASSUME NEW x \in DOMAIN r, p = <<1, x>>
        PROVE  m[p] \in DOMAIN t /\ w[m[p]] = p /\ t[m[p]] = B[p]
    BY <1>5, <1>8, <2>2
  <2> QED
    BY <1>5, <2>1, <2>2, Zenon
<1>11. ASSUME NEW k \in DOMAIN s PROVE w[k] \in DOMAIN B /\ m[w[k]] = k
  <2>1. CASE k < i
    <3>1. w[k] = <<1, k>> /\ k \in DOMAIN r
      BY <1>1, <1>3, <1>7, <2>1
    <3> QED
      BY <1>5, <1>6, <2>1, <3>1
  <2>2. CASE k = i
    <3>1. w[k] = <<2, 1>>
      BY <1>7, <2>2
    <3> QED
      BY <1>5, <1>6, <2>2, <3>1
  <2>3. CASE k > i
    <3>1. k - 1 \in DOMAIN r /\ ~(k - 1 < i) /\ (k - 1) + 1 = k
      BY <1>1, <1>3, <2>3
    <3>2. w[k] = <<1, k - 1>>
      BY <1>7, <2>3
    <3> QED
      BY <1>5, <1>6, <3>1, <3>2
  <2> QED
    BY <1>1, <2>1, <2>2, <2>3
<1>12. \A k \in DOMAIN t : w[k] \in DOMAIN B /\ m[w[k]] = k
  BY <1>11
<1>13. Same(B, t)
  BY <1>10, <1>12, SameIs DEF Pairs
<1> QED
  BY <1>13 DEF B, r, one

-----------------------------------------------------------------------------
(* The invariant of the requests Q under way, wherever they are, over what *)
(* the table (its ids T), the id counter n, the undo in progress app and   *)
(* the store (its ids) are.                                                *)

IsRequest(r) ==
  /\ r = [kind |-> r.kind, row |-> r.row, old |-> r.old, ids |-> r.ids,
          prev |-> r.prev, by |-> r.by, state |-> r.state, rows |-> r.rows]
  /\ IsRow(r.row) /\ IsRows(r.rows)
  /\ r.old = NoRow \/ (IsRow(r.old) /\ r.old.id = r.row.id)
  /\ IsPlaces(r.ids) /\ IsPlaces(r.prev)
  /\ r.state \in {"sent", "done", "refused"}

Creates(r) == r.kind \in {"create", "recreate"}
Undoes(r) == r.by # "user"
Brings(r) == r.kind \in {"recreate", "relist"}

\* r will put b in the table, or take it out and put it back on the screen.
Creating(r, b) == r.kind = "create" /\ r.state = "sent" /\ r.row.id = b
Removing(r, b) == r.kind = "delete" /\ r.state # "done" /\ r.row.id = b

\* An id is created once: what is in the table has been, and by one request.
CreatesNew(r, T, n) ==
  Creates(r) => r.row.id \in 1..n /\ (r.row.id \in T => r.state = "done")
CreationsApart(Q, T, n) ==
  /\ \A p \in DOMAIN Q : CreatesNew(Q[p], T, n)
  /\ \A p, q \in DOMAIN Q :
       Creates(Q[p]) /\ Creates(Q[q]) /\ Q[p].row.id = Q[q].row.id => p = q

\* The undo in progress is one request's.
OfUndo(r, app) ==
  /\ Brings(r) => Undoes(r)
  /\ Undoes(r) => app # Idle
  /\ r.kind = "recreate" => r.row.id = app.inverse.row.id
OneUndo(Q, app) ==
  /\ \A p \in DOMAIN Q : OfUndo(Q[p], app)
  /\ \A p, q \in DOMAIN Q : Undoes(Q[p]) /\ Undoes(Q[q]) => p = q

\* What the table holds, or will, is on the screen, or on its way off the
\* table, or on its way to the screen.
Coming(Q, b) == \E p \in DOMAIN Q : Creating(Q[p], b)
Going(Q, b) == \E p \in DOMAIN Q : Removing(Q[p], b)
Returning(Q, app, b) == b = app.inverse.row.id /\ \E p \in DOMAIN Q : Brings(Q[p])
Accounted(Q, T, n, app, ids) ==
  \A b \in 1..n : b \in T \/ Coming(Q, b) =>
                    b \in ids \/ Going(Q, b) \/ Returning(Q, app, b)

Sound(Q, T, n, app, ids, lost) ==
  /\ \A p \in DOMAIN Q : IsRequest(Q[p])
  /\ CreationsApart(Q, T, n)
  /\ OneUndo(Q, app)
  /\ lost \/ Accounted(Q, T, n, app, ids)

\* Where the requests are does not matter.
LEMMA SoundAnywhere ==
  ASSUME NEW Q, NEW R, Same(Q, R), NEW T, NEW n, NEW app, NEW ids, NEW lost,
         Sound(Q, T, n, app, ids, lost)
  PROVE  Sound(R, T, n, app, ids, lost)
<1>1. PICK m, w : Pairs(m, w, Q, R)
  BY DEF Same
<1>2. \A p \in DOMAIN R : w[p] \in DOMAIN Q /\ R[p] = Q[w[p]] /\ m[w[p]] = p
  BY <1>1 DEF Pairs
<1>3. \A p \in DOMAIN Q : m[p] \in DOMAIN R /\ R[m[p]] = Q[p]
  BY <1>1 DEF Pairs
<1>4. \A p \in DOMAIN R : IsRequest(R[p])
  BY <1>2 DEF Sound
<1>5. CreationsApart(R, T, n)
  <2>1. \A p \in DOMAIN R : CreatesNew(R[p], T, n)
    BY <1>2 DEF Sound, CreationsApart
  <2>2. ASSUME NEW p \in DOMAIN R, NEW q \in DOMAIN R,
               Creates(R[p]), Creates(R[q]), R[p].row.id = R[q].row.id
        PROVE  p = q
    <3>1. w[p] = w[q]
      BY <1>2, <2>2 DEF Sound, CreationsApart
    <3> QED
      BY <1>2, <3>1
  <2> QED
    BY <2>1, <2>2 DEF CreationsApart
<1>6. OneUndo(R, app)
  <2>1. \A p \in DOMAIN R : OfUndo(R[p], app)
    BY <1>2 DEF Sound, OneUndo
  <2>2. ASSUME NEW p \in DOMAIN R, NEW q \in DOMAIN R, Undoes(R[p]), Undoes(R[q])
        PROVE  p = q
    <3>1. w[p] = w[q]
      BY <1>2, <2>2 DEF Sound, OneUndo
    <3> QED
      BY <1>2, <3>1
  <2> QED
    BY <2>1, <2>2 DEF OneUndo
<1>7. lost \/ Accounted(R, T, n, app, ids)
  <2> SUFFICES ASSUME Accounted(Q, T, n, app, ids), NEW b \in 1..n, b \in T \/ Coming(R, b)
               PROVE  b \in ids \/ Going(R, b) \/ Returning(R, app, b)
    BY DEF Sound, Accounted
  <2>1. b \in T \/ Coming(Q, b)
    BY <1>2 DEF Coming
  <2>2. b \in ids \/ Going(Q, b) \/ Returning(Q, app, b)
    BY <2>1 DEF Accounted
  <2> QED
    BY <1>3, <2>2 DEF Going, Returning
<1> QED
  BY <1>4, <1>5, <1>6, <1>7 DEF Sound

-----------------------------------------------------------------------------
(* One request r beside the others Q.                                      *)

LEMMA WithIs ==
  ASSUME NEW Q, NEW r
  PROVE  /\ \A x \in DOMAIN Q : /\ <<1, x>> \in DOMAIN Beside(Q, <<r>>)
                                /\ Beside(Q, <<r>>)[<<1, x>>] = Q[x]
         /\ <<2, 1>> \in DOMAIN Beside(Q, <<r>>) /\ Beside(Q, <<r>>)[<<2, 1>>] = r
         /\ \A p \in DOMAIN Beside(Q, <<r>>) : p = <<2, 1>> \/ \E x \in DOMAIN Q : p = <<1, x>>
<1> DEFINE R == <<r>>
<1>1. DOMAIN R = {1} /\ R[1] = r
  OBVIOUS
<1> HIDE DEF R
<1>2. /\ \A x \in DOMAIN Q : <<1, x>> \in DOMAIN Beside(Q, R) /\ Beside(Q, R)[<<1, x>>] = Q[x]
      /\ <<2, 1>> \in DOMAIN Beside(Q, R) /\ Beside(Q, R)[<<2, 1>>] = r
      /\ \A p \in DOMAIN Beside(Q, R) : p = <<2, 1>> \/ \E x \in DOMAIN Q : p = <<1, x>>
  BY <1>1, BesideIs
<1> QED
  BY <1>2 DEF R

\* The invariant, with one request told from the others.
SoundWith(Q, r, T, n, app, ids, lost) ==
  /\ (\A p \in DOMAIN Q : IsRequest(Q[p])) /\ IsRequest(r)
  /\ CreationsApart(Q, T, n) /\ CreatesNew(r, T, n)
  /\ \A p \in DOMAIN Q : ~(Creates(Q[p]) /\ Creates(r) /\ Q[p].row.id = r.row.id)
  /\ OneUndo(Q, app) /\ OfUndo(r, app)
  /\ \A p \in DOMAIN Q : ~(Undoes(Q[p]) /\ Undoes(r))
  /\ lost \/ \A b \in 1..n : b \in T \/ Coming(Q, b) \/ Creating(r, b) =>
               \/ b \in ids
               \/ Going(Q, b) \/ Removing(r, b)
               \/ Returning(Q, app, b) \/ (Brings(r) /\ b = app.inverse.row.id)

LEMMA SoundTogether ==
  ASSUME NEW Q, NEW r, NEW T, NEW n, NEW app, NEW ids, NEW lost
  PROVE  Sound(Beside(Q, <<r>>), T, n, app, ids, lost)
           <=> SoundWith(Q, r, T, n, app, ids, lost)
<1> DEFINE B == Beside(Q, <<r>>)
           old(x) == <<1, x>>
           new == <<2, 1>>
<1>1. /\ \A x \in DOMAIN Q : old(x) \in DOMAIN B /\ B[old(x)] = Q[x] /\ old(x) # new
      /\ \A x, y \in DOMAIN Q : old(x) = old(y) => x = y
      /\ new \in DOMAIN B /\ B[new] = r
      /\ \A p \in DOMAIN B : p = new \/ \E x \in DOMAIN Q : p = old(x)
  BY WithIs
<1> HIDE DEF B, old, new
<1>2. (\A p \in DOMAIN B : IsRequest(B[p])) <=> (\A p \in DOMAIN Q : IsRequest(Q[p])) /\ IsRequest(r)
  BY <1>1
<1>3. CreationsApart(B, T, n) <=>
        /\ CreationsApart(Q, T, n) /\ CreatesNew(r, T, n)
        /\ \A p \in DOMAIN Q : ~(Creates(Q[p]) /\ Creates(r) /\ Q[p].row.id = r.row.id)
  BY <1>1 DEF CreationsApart
<1>4. OneUndo(B, app) <=>
        /\ OneUndo(Q, app) /\ OfUndo(r, app)
        /\ \A p \in DOMAIN Q : ~(Undoes(Q[p]) /\ Undoes(r))
  BY <1>1 DEF OneUndo
<1>5. \A b : /\ Coming(B, b) <=> Coming(Q, b) \/ Creating(r, b)
             /\ Going(B, b) <=> Going(Q, b) \/ Removing(r, b)
             /\ Returning(B, app, b) <=>
                  Returning(Q, app, b) \/ (Brings(r) /\ b = app.inverse.row.id)
  <2>1. \A b : Coming(B, b) <=> Coming(Q, b) \/ Creating(r, b)
    BY <1>1 DEF Coming
  <2>2. \A b : Going(B, b) <=> Going(Q, b) \/ Removing(r, b)
    BY <1>1 DEF Going
  <2>3. \A b : Returning(B, app, b) <=>
                 Returning(Q, app, b) \/ (Brings(r) /\ b = app.inverse.row.id)
    BY <1>1 DEF Returning
  <2> QED
    BY <2>1, <2>2, <2>3
<1>6. Accounted(B, T, n, app, ids) <=>
        \A b \in 1..n : b \in T \/ Coming(Q, b) \/ Creating(r, b) =>
          \/ b \in ids
          \/ Going(Q, b) \/ Removing(r, b)
          \/ Returning(Q, app, b) \/ (Brings(r) /\ b = app.inverse.row.id)
  BY <1>5 DEF Accounted
<1> HIDE DEF B
<1>7. Sound(B, T, n, app, ids, lost) <=> SoundWith(Q, r, T, n, app, ids, lost)
  BY <1>2, <1>3, <1>4, <1>6 DEF Sound, SoundWith
<1> QED
  BY <1>7 DEF B

-----------------------------------------------------------------------------
(* What sending, serving and answering a request does to the invariant.    *)

\* An update, an order or a deletion: a block may leave the screen once its
\* deletion is sent.
LEMMA Sends ==
  ASSUME NEW Q, NEW T, NEW n, NEW app, NEW ids, NEW lost, Sound(Q, T, n, app, ids, lost),
         NEW r, IsRequest(r), r.by = "user", r.state = "sent",
         r.kind \in {"update", "reorder", "delete"},
         NEW ids2, \A b \in ids : b \in ids2 \/ (r.kind = "delete" /\ b = r.row.id)
  PROVE  Sound(Beside(Q, <<r>>), T, n, app, ids2, lost)
<1>1. ~Creates(r) /\ ~Undoes(r) /\ ~Brings(r) /\ r.kind # "recreate"
  BY DEF Creates, Undoes, Brings
<1>2. \A b \in ids : b \in ids2 \/ Removing(r, b)
  BY DEF Removing
<1>3. CreatesNew(r, T, n) /\ OfUndo(r, app) /\ \A b : ~Creating(r, b)
  BY <1>1 DEF CreatesNew, OfUndo, Creating, Creates
<1>4. SoundWith(Q, r, T, n, app, ids2, lost)
  BY <1>1, <1>2, <1>3 DEF Sound, SoundWith, Accounted
<1> QED
  BY <1>4, SoundTogether

\* A creation, of a block that appears on the screen with it.
LEMMA SendsCreation ==
  ASSUME NEW Q, NEW T, NEW n \in Nat, NEW app, NEW ids, NEW lost,
         Sound(Q, T, n, app, ids, lost), T \subseteq 1..n,
         NEW r, IsRequest(r), r.by = "user", r.state = "sent", r.kind = "create",
         r.row.id = n + 1
  PROVE  Sound(Beside(Q, <<r>>), T, n + 1, app, ids \union {n + 1}, lost)
<1>1. Creates(r) /\ ~Undoes(r) /\ ~Brings(r) /\ r.kind # "recreate"
  BY DEF Creates, Undoes, Brings
<1>2. CreationsApart(Q, T, n + 1)
  <2>1. \A p \in DOMAIN Q : CreatesNew(Q[p], T, n + 1)
    BY DEF Sound, CreationsApart, CreatesNew
  <2> QED
    BY <2>1 DEF Sound, CreationsApart
<1>3. \A p \in DOMAIN Q : Creates(Q[p]) => Q[p].row.id # n + 1
  BY DEF Sound, CreationsApart, CreatesNew
<1>4. CreatesNew(r, T, n + 1) /\ OfUndo(r, app)
  <2>1. n + 1 \notin T /\ n + 1 \in 1..n + 1
    OBVIOUS
  <2> QED
    BY <1>1, <2>1 DEF CreatesNew, OfUndo
<1>5. lost \/ \A b \in 1..n + 1 : b \in T \/ Coming(Q, b) \/ Creating(r, b) =>
                b \in ids \union {n + 1} \/ Going(Q, b) \/ Returning(Q, app, b)
  <2> SUFFICES ASSUME Accounted(Q, T, n, app, ids), NEW b \in 1..n + 1, b # n + 1,
                      b \in T \/ Coming(Q, b) \/ Creating(r, b)
               PROVE  b \in ids \/ Going(Q, b) \/ Returning(Q, app, b)
    BY DEF Sound
  <2>1. b \in 1..n /\ ~Creating(r, b)
    BY DEF Creating
  <2> QED
    BY <2>1 DEF Accounted
<1>6. SoundWith(Q, r, T, n + 1, app, ids \union {n + 1}, lost)
  BY <1>1, <1>2, <1>3, <1>4, <1>5 DEF Sound, SoundWith
<1> QED
  BY <1>6, SoundTogether

\* Without an undo in progress no request is an undo's.
LEMMA NoUndo ==
  ASSUME NEW Q, OneUndo(Q, Idle)
  PROVE  \A p \in DOMAIN Q : ~Undoes(Q[p]) /\ ~Brings(Q[p]) /\ Q[p].kind # "recreate"
  BY DEF OneUndo, OfUndo, Brings

\* An undo begins, with a deletion or an order.
LEMMA SendsUndo ==
  ASSUME NEW Q, NEW T, NEW n, NEW ids, NEW lost, Sound(Q, T, n, Idle, ids, lost),
         NEW r, IsRequest(r), r.by # "user", r.state = "sent",
         r.kind \in {"reorder", "delete"},
         NEW app, app # Idle,
         NEW ids2, \A b \in ids : b \in ids2 \/ (r.kind = "delete" /\ b = r.row.id)
  PROVE  Sound(Beside(Q, <<r>>), T, n, app, ids2, lost)
<1>1. ~Creates(r) /\ Undoes(r) /\ ~Brings(r) /\ r.kind # "recreate"
  BY DEF Creates, Undoes, Brings
<1>2. \A b \in ids : b \in ids2 \/ Removing(r, b)
  BY DEF Removing
<1>3. CreatesNew(r, T, n) /\ OfUndo(r, app) /\ \A b : ~Creating(r, b)
  BY <1>1 DEF CreatesNew, OfUndo, Creating, Creates
<1>4. \A p \in DOMAIN Q : ~Undoes(Q[p]) /\ ~Brings(Q[p]) /\ Q[p].kind # "recreate"
  BY NoUndo DEF Sound
<1>5. OneUndo(Q, app) /\ \A b : ~Returning(Q, Idle, b)
  BY <1>4 DEF OneUndo, OfUndo, Returning
<1>6. SoundWith(Q, r, T, n, app, ids2, lost)
  BY <1>1, <1>2, <1>3, <1>4, <1>5 DEF Sound, SoundWith, Accounted
<1> QED
  BY <1>6, SoundTogether

\* An undo begins, with a creation under a new id.
LEMMA SendsRecreation ==
  ASSUME NEW Q, NEW T, NEW n \in Nat, NEW ids, NEW lost,
         Sound(Q, T, n, Idle, ids, lost), T \subseteq 1..n,
         NEW r, IsRequest(r), r.by # "user", r.state = "sent", r.kind = "recreate",
         r.row.id = n + 1,
         NEW app, app # Idle, app.inverse.row.id = n + 1
  PROVE  Sound(Beside(Q, <<r>>), T, n + 1, app, ids, lost)
<1>1. Creates(r) /\ Undoes(r) /\ Brings(r) /\ \A b : ~Creating(r, b)
  BY DEF Creates, Undoes, Brings, Creating
<1>2. CreationsApart(Q, T, n + 1)
  <2>1. \A p \in DOMAIN Q : CreatesNew(Q[p], T, n + 1)
    BY DEF Sound, CreationsApart, CreatesNew
  <2> QED
    BY <2>1 DEF Sound, CreationsApart
<1>3. \A p \in DOMAIN Q : Creates(Q[p]) => Q[p].row.id # n + 1
  BY DEF Sound, CreationsApart, CreatesNew
<1>4. CreatesNew(r, T, n + 1) /\ OfUndo(r, app)
  <2>1. n + 1 \notin T /\ n + 1 \in 1..n + 1
    OBVIOUS
  <2> QED
    BY <1>1, <2>1 DEF CreatesNew, OfUndo
<1>5. \A p \in DOMAIN Q : ~Undoes(Q[p]) /\ ~Brings(Q[p]) /\ Q[p].kind # "recreate"
  BY NoUndo DEF Sound
<1>6. OneUndo(Q, app) /\ \A b : ~Returning(Q, Idle, b)
  BY <1>5 DEF OneUndo, OfUndo, Returning
<1>7. lost \/ \A b \in 1..n + 1 : b \in T \/ Coming(Q, b) => b \in ids \/ Going(Q, b)
  <2> SUFFICES ASSUME Accounted(Q, T, n, Idle, ids), NEW b \in 1..n + 1,
                      b \in T \/ Coming(Q, b)
               PROVE  b \in ids \/ Going(Q, b)
    BY DEF Sound
  <2>1. b \in 1..n
    BY <1>3 DEF Coming, Creating, Creates
  <2> QED
    BY <1>6, <2>1 DEF Accounted
<1>8. SoundWith(Q, r, T, n + 1, app, ids, lost)
  BY <1>1, <1>2, <1>3, <1>4, <1>5, <1>6, <1>7 DEF Sound, SoundWith
<1> QED
  BY <1>8, SoundTogether

\* A request is answered and gone.  What it was to remove and did not is on
\* the screen again; what it was to bring back is there, unless it was refused.
LEMMA Settles ==
  ASSUME NEW Q, NEW r, NEW T, NEW n, NEW app, NEW ids, NEW lost,
         Sound(Beside(Q, <<r>>), T, n, app, ids, lost),
         NEW app2, app2 = app \/ Undoes(r),
         NEW lost2, lost => lost2,
         NEW ids2,
         lost2 \/ /\ \A b \in ids : b \in ids2 \/
                       (r.kind = "create" /\ r.state = "refused" /\ b = r.row.id)
                  /\ r.kind = "delete" /\ r.state # "done" => r.row.id \in ids2
                  /\ Brings(r) => \/ app.inverse.row.id \in ids2
                                  \/ r.kind = "recreate" /\ r.state = "refused",
         r.kind = "create" => r.state # "sent"
  PROVE  Sound(Q, T, n, app2, ids2, lost2)
<1>1. SoundWith(Q, r, T, n, app, ids, lost)
  BY SoundTogether
<1>2. OneUndo(Q, app2)
  <2>1. CASE app2 = app
    BY <1>1, <2>1 DEF SoundWith
  <2>2. CASE Undoes(r)
    <3>1. \A p \in DOMAIN Q : ~Undoes(Q[p]) /\ ~Brings(Q[p]) /\ Q[p].kind # "recreate"
      BY <1>1, <2>2 DEF SoundWith, OneUndo, OfUndo, Brings
    <3> QED
      BY <3>1 DEF OneUndo, OfUndo
  <2> QED
    BY <2>1, <2>2
<1>3. lost2 \/ Accounted(Q, T, n, app2, ids2)
  <2> SUFFICES ASSUME ~lost2, NEW b \in 1..n, b \in T \/ Coming(Q, b)
               PROVE  b \in ids2 \/ Going(Q, b) \/ Returning(Q, app2, b)
    BY DEF Accounted
  <2>1. \/ b \in ids
        \/ Going(Q, b) \/ Removing(r, b)
        \/ Returning(Q, app, b) \/ (Brings(r) /\ b = app.inverse.row.id)
    BY <1>1 DEF SoundWith
  <2>2. ~(Creates(r) /\ r.state = "refused" /\ b = r.row.id)
    BY <1>1 DEF SoundWith, CreatesNew, Coming, Creating, Creates
  <2>3. CASE b \in ids
    BY <2>2, <2>3 DEF Creates
  <2>4. CASE Removing(r, b)
    BY <2>4 DEF Removing
  <2>5. CASE Brings(r) /\ b = app.inverse.row.id
    <3>1. r.kind = "recreate" => Creates(r) /\ r.row.id = app.inverse.row.id
      BY <1>1 DEF SoundWith, OfUndo, Creates
    <3> QED
      BY <2>2, <2>5, <3>1
  <2>6. CASE Returning(Q, app, b)
    <3>1. app2 = app
      BY <1>1, <2>6 DEF SoundWith, Returning, OneUndo, OfUndo
    <3> QED
      BY <2>6, <3>1
  <2> QED
    BY <2>1, <2>3, <2>4, <2>5, <2>6
<1> QED
  BY <1>1, <1>2, <1>3 DEF Sound, SoundWith

\* r is q with an answer.
Answers(r, q) ==
  /\ IsRequest(r) /\ r.kind = q.kind /\ r.row = q.row /\ r.by = q.by
  /\ q.state = "sent" /\ r.state # "sent"

LEMMA AnswersIs ==
  ASSUME NEW r, NEW q, Answers(r, q)
  PROVE  /\ Creates(r) <=> Creates(q)
         /\ Undoes(r) <=> Undoes(q)
         /\ Brings(r) <=> Brings(q)
         /\ \A app : OfUndo(r, app) <=> OfUndo(q, app)
         /\ \A b : ~Creating(r, b)
         /\ \A b : Creating(q, b) <=> q.kind = "create" /\ b = q.row.id
  BY DEF Answers, Creates, Undoes, Brings, OfUndo, Creating

LEMMA ServesCreation ==
  ASSUME NEW Q, NEW q, NEW T, NEW n, NEW app, NEW ids, NEW lost,
         Sound(Beside(Q, <<q>>), T, n, app, ids, lost),
         NEW r, Answers(r, q), Creates(q), r.state = "done"
  PROVE  Sound(Beside(Q, <<r>>), T \union {q.row.id}, n, app, ids, lost)
<1>1. SoundWith(Q, q, T, n, app, ids, lost)
  BY SoundTogether
<1>2. r.row = q.row /\ r.kind = q.kind /\ IsRequest(r)
  BY DEF Answers
<1>3. CreationsApart(Q, T \union {q.row.id}, n)
  BY <1>1 DEF SoundWith, CreationsApart, CreatesNew
<1>4. CreatesNew(r, T \union {q.row.id}, n)
  BY <1>1, <1>2 DEF SoundWith, CreatesNew
<1>5. lost \/ \A b \in 1..n : b \in T \union {q.row.id} \/ Coming(Q, b) =>
                \/ b \in ids \/ Going(Q, b)
                \/ Returning(Q, app, b) \/ (Brings(r) /\ b = app.inverse.row.id)
  <2> SUFFICES ASSUME ~lost, NEW b \in 1..n, b \in T \union {q.row.id} \/ Coming(Q, b)
               PROVE  \/ b \in ids \/ Going(Q, b)
                      \/ Returning(Q, app, b) \/ (Brings(r) /\ b = app.inverse.row.id)
    OBVIOUS
  <2>1. CASE b = q.row.id /\ q.kind = "recreate"
    BY <1>1, <1>2, <2>1 DEF SoundWith, OfUndo, Brings
  <2>2. CASE b \in T \/ Coming(Q, b) \/ Creating(q, b)
    <3>1. ~Removing(q, b)
      BY DEF Removing, Creates
    <3> QED
      BY <1>1, <2>2, <3>1, AnswersIs DEF SoundWith
  <2> QED
    BY <2>1, <2>2, AnswersIs DEF Creates
<1>6. SoundWith(Q, r, T \union {q.row.id}, n, app, ids, lost)
  BY <1>1, <1>2, <1>3, <1>4, <1>5, AnswersIs DEF SoundWith
<1> QED
  BY <1>6, SoundTogether

LEMMA ServesDeletion ==
  ASSUME NEW Q, NEW q, NEW T, NEW n, NEW app, NEW ids, NEW lost,
         Sound(Beside(Q, <<q>>), T, n, app, ids, lost),
         NEW r, Answers(r, q), q.kind = "delete", r.state = "done", q.row.id \in T
  PROVE  Sound(Beside(Q, <<r>>), T \ {q.row.id}, n, app, ids, lost)
<1>1. SoundWith(Q, q, T, n, app, ids, lost)
  BY SoundTogether
<1>2. r.row = q.row /\ r.kind = q.kind /\ IsRequest(r)
  BY DEF Answers
<1>3. CreationsApart(Q, T \ {q.row.id}, n)
  BY <1>1 DEF SoundWith, CreationsApart, CreatesNew
<1>4. CreatesNew(r, T \ {q.row.id}, n)
  BY <1>2 DEF CreatesNew, Creates
<1>5. ~Coming(Q, q.row.id)
  BY <1>1 DEF SoundWith, CreationsApart, CreatesNew, Coming, Creating, Creates
<1>6. \A b : b # q.row.id => ~Removing(q, b)
  BY DEF Removing
<1>7. SoundWith(Q, r, T \ {q.row.id}, n, app, ids, lost)
  BY <1>1, <1>2, <1>3, <1>4, <1>5, <1>6, AnswersIs DEF SoundWith
<1> QED
  BY <1>7, SoundTogether

\* Refused, or read only.
LEMMA ServesNothing ==
  ASSUME NEW Q, NEW q, NEW T, NEW n, NEW app, NEW ids, NEW lost,
         Sound(Beside(Q, <<q>>), T, n, app, ids, lost),
         NEW r, Answers(r, q),
         r.state = "refused" \/ q.kind \in {"reorder", "relist"}
  PROVE  Sound(Beside(Q, <<r>>), T, n, app, ids, lost)
<1>1. SoundWith(Q, q, T, n, app, ids, lost)
  BY SoundTogether
<1>2. r.row = q.row /\ r.kind = q.kind /\ IsRequest(r) /\ q.state = "sent"
  BY DEF Answers
<1>3. CreatesNew(r, T, n)
  BY <1>1, <1>2 DEF SoundWith, CreatesNew, Creates
<1>4. \A b : Removing(r, b) <=> Removing(q, b)
  BY <1>2 DEF Removing
<1>5. SoundWith(Q, r, T, n, app, ids, lost)
  BY <1>1, <1>2, <1>3, <1>4, AnswersIs DEF SoundWith
<1> QED
  BY <1>5, SoundTogether

\* A listing follows a block created again.
LEMMA Follows ==
  ASSUME NEW Q, NEW q, NEW T, NEW n, NEW app, NEW ids, NEW lost,
         Sound(Beside(Q, <<q>>), T, n, app, ids, lost), q.kind = "recreate",
         NEW r, IsRequest(r), r.kind = "relist", r.by = q.by
  PROVE  Sound(Beside(Q, <<r>>), T, n, app, ids, lost)
<1>1. SoundWith(Q, q, T, n, app, ids, lost)
  BY SoundTogether
<1>2. ~Creates(r) /\ Brings(r) /\ (Undoes(r) <=> Undoes(q)) /\ Brings(q) /\ Undoes(q)
  BY <1>1 DEF Creates, Brings, Undoes, SoundWith, OfUndo
<1>3. \A b : ~Creating(r, b) /\ ~Removing(q, b)
  BY DEF Creating, Removing
<1>4. CreatesNew(r, T, n) /\ OfUndo(r, app)
  BY <1>1, <1>2 DEF CreatesNew, OfUndo, SoundWith
<1>5. SoundWith(Q, r, T, n, app, ids, lost)
  BY <1>1, <1>2, <1>3, <1>4 DEF SoundWith
<1> QED
  BY <1>5, SoundTogether

-----------------------------------------------------------------------------
(* The requests the gestures make.                                         *)

LEMMA RequestIs ==
  ASSUME NEW kind, NEW row, IsRow(row)
  PROVE  /\ IsRequest(Request(kind, row))
         /\ Request(kind, row).kind = kind /\ Request(kind, row).row = row
         /\ Request(kind, row).by = "user" /\ Request(kind, row).state = "sent"
<1> DEFINE r == Request(kind, row)
<1>1. r = [kind |-> kind, row |-> row, old |-> NoRow, ids |-> <<>>, prev |-> <<>>,
           by |-> "user", state |-> "sent", rows |-> <<>>]
  BY DEF Request
<1>2. IsPlaces(<<>>) /\ IsRows(<<>>)
  BY DEF IsPlaces, IsRows, IsSeq
<1> HIDE DEF r
<1>3. IsRequest(r)
  BY <1>1, <1>2 DEF IsRequest
<1> QED
  BY <1>1, <1>3 DEF r

LEMMA UpdateIs ==
  ASSUME IsRows(store), NEW b, NEW html, NEW type
  PROVE  /\ IsRequest(Update(b, html, type))
         /\ Update(b, html, type).kind = "update" /\ Update(b, html, type).row.id = b
         /\ Update(b, html, type).by = "user" /\ Update(b, html, type).state = "sent"
         /\ Update(b, html, type).row.html = html
<1> DEFINE row == StoreRow(b, html, type, 0)
           old == IF b \in Ids(store) THEN RowIn(store, b) ELSE NoRow
           r == Update(b, html, type)
<1>1. IsRow(row) /\ row.id = b /\ row.html = html
  BY StoreRowIs
<1>2. old = NoRow \/ (IsRow(old) /\ old.id = row.id)
  BY <1>1, RowInIs
<1>3. r = [Request("update", row) EXCEPT !.old = old]
  BY DEF Update
<1> HIDE DEF row, old, r
<1>4. r = [kind |-> "update", row |-> row, old |-> old, ids |-> <<>>, prev |-> <<>>,
           by |-> "user", state |-> "sent", rows |-> <<>>]
  BY <1>3 DEF Request
<1>5. IsPlaces(<<>>) /\ IsRows(<<>>)
  BY DEF IsPlaces, IsRows, IsSeq
<1>6. IsRequest(r)
  BY <1>1, <1>2, <1>4, <1>5 DEF IsRequest
<1> QED
  BY <1>1, <1>4, <1>6 DEF r

LEMMA DeleteIs ==
  ASSUME IsRows(store), NEW b \in Ids(store)
  PROVE  /\ IsRequest(Delete(b))
         /\ Delete(b).kind = "delete" /\ Delete(b).row.id = b
         /\ Delete(b).by = "user" /\ Delete(b).state = "sent"
<1>1. IsRow(RowIn(store, b)) /\ RowIn(store, b).id = b
  BY RowInIs
<1> QED
  BY <1>1, RequestIs DEF Delete

LEMMA ReorderIs ==
  ASSUME IsRows(store), NEW ids, IsPlaces(ids)
  PROVE  /\ IsRequest(Reorder(ids))
         /\ Reorder(ids).kind = "reorder"
         /\ Reorder(ids).by = "user" /\ Reorder(ids).state = "sent"
<1> DEFINE r == Reorder(ids)
           prev == Order(store)
<1>1. r = [[Request("reorder", NoRow) EXCEPT !.ids = ids] EXCEPT !.prev = prev]
  BY DEF Reorder
<1>2. IsPlaces(prev)
  BY OrderIs, IsSeqDomain DEF IsPlaces, IsRows
<1> HIDE DEF r, prev
<1>3. r = [kind |-> "reorder", row |-> NoRow, old |-> NoRow, ids |-> ids, prev |-> prev,
           by |-> "user", state |-> "sent", rows |-> <<>>]
  BY <1>1 DEF Request
<1>4. IsRows(<<>>)
  BY DEF IsRows, IsSeq
<1>5. IsRequest(r)
  BY <1>2, <1>3, <1>4, NoRowIs DEF IsRequest
<1> QED
  BY <1>3, <1>5 DEF r

\* The same request, in the name of an undo.
LEMMA PostIs ==
  ASSUME NEW r, IsRequest(r), NEW way
  PROVE  LET s == [r EXCEPT !.by = way]
         IN  /\ IsRequest(s)
             /\ s.kind = r.kind /\ s.row = r.row /\ s.by = way /\ s.state = r.state
<1> DEFINE s == [r EXCEPT !.by = way]
<1>1. s = [kind |-> r.kind, row |-> r.row, old |-> r.old, ids |-> r.ids,
           prev |-> r.prev, by |-> way, state |-> r.state, rows |-> r.rows]
  BY DEF IsRequest
<1> HIDE DEF s
<1>2. IsRequest(s)
  BY <1>1 DEF IsRequest
<1> QED
  BY <1>1, <1>2 DEF s

\* The same request, answered.
Answering(q, state, rows) == [q EXCEPT !.state = state, !.rows = rows]

LEMMA AnswerIs ==
  ASSUME NEW q, IsRequest(q), q.state = "sent",
         NEW state, state \in {"done", "refused"}, NEW rows, IsRows(rows)
  PROVE  Answers(Answering(q, state, rows), q) /\ Answering(q, state, rows).state = state
<1> DEFINE s == [q EXCEPT !.state = state]
           r == [s EXCEPT !.rows = rows]
<1>1. s = [kind |-> q.kind, row |-> q.row, old |-> q.old, ids |-> q.ids,
           prev |-> q.prev, by |-> q.by, state |-> state, rows |-> q.rows]
  BY DEF IsRequest
<1>2. r = [kind |-> q.kind, row |-> q.row, old |-> q.old, ids |-> q.ids,
           prev |-> q.prev, by |-> q.by, state |-> state, rows |-> rows]
  <2> HIDE DEF s
  <2> QED
    BY <1>1
<1> HIDE DEF r
<1>3. IsRequest(r)
  BY <1>2 DEF IsRequest
<1>4. Answers(r, q) /\ r.state = state
  BY <1>2, <1>3 DEF Answers
<1> QED
  BY <1>4 DEF r, Answering

-----------------------------------------------------------------------------
(* How requests move.                                                      *)

\* Some go out at once, the others wait: they are all there.
LEMMA Posted ==
  ASSUME NEW f, IsSeq(f), NEW h, IsSeq(h), NEW R, IsSeq(R), NEW W, W \subseteq DOMAIN R
  PROVE  LET f2 == f \o Picked(R, DOMAIN R \ W)
             h2 == h \o Picked(R, W)
         IN  IsSeq(f2) /\ IsSeq(h2) /\ Same(Beside(Beside(f, h), R), Beside(f2, h2))
<1> DEFINE A == Picked(R, DOMAIN R \ W)
           B == Picked(R, W)
<1>1. IsSeq(A) /\ IsSeq(B)
  <2>1. DOMAIN R \ W \subseteq DOMAIN R
    OBVIOUS
  <2> QED
    BY <2>1, PickedIs, Zenon
<1>2. Same(Beside(A, B), R)
  BY BesidePicked, Zenon
<1> HIDE DEF A, B
<1>3. IsSeq(f \o A) /\ IsSeq(h \o B)
  BY <1>1, CatIs, Zenon
<1>4. Same(Beside(Beside(f, h), R), Beside(Beside(f, h), Beside(A, B)))
  BY <1>2, SameTurns, SameItself, SameBeside, Zenon
<1>5. Same(Beside(Beside(f, h), Beside(A, B)), Beside(Beside(f, A), Beside(h, B)))
  BY BesideCrosses, Zenon
<1>6. Same(Beside(Beside(f, A), Beside(h, B)), Beside(f \o A, h \o B))
  BY <1>1, BesideCat, SameBeside, Zenon
<1>7. Same(Beside(Beside(f, h), R), Beside(f \o A, h \o B))
  BY <1>4, <1>5, <1>6, SameGoesOn, Zenon
<1> QED
  BY <1>3, <1>7 DEF A, B

LEMMA BesideTwo ==
  ASSUME NEW Q, NEW a, NEW b
  PROVE  Same(Beside(Beside(Q, <<a>>), <<b>>), Beside(Q, <<a, b>>))
<1> DEFINE A == <<a>>
           B == <<b>>
           AB == <<a, b>>
<1>1. IsSeq(A) /\ IsSeq(B) /\ A \o B = AB
  <2>1. IsSeq(A)
    BY DEF IsSeq
  <2>2. IsSeq(B)
    BY DEF IsSeq
  <2>3. A \o B = AB
    <3>1. Len(A) = 1 /\ A[1] = a /\ Len(B) = 1 /\ B[1] = b
      OBVIOUS
    <3>2. AB = [i \in 1..2 |-> AB[i]] /\ AB[1] = a /\ AB[2] = b
      OBVIOUS
    <3> HIDE DEF A, B, AB
    <3>3. /\ IsSeq(A \o B) /\ Len(A \o B) = Len(A) + Len(B)
          /\ \A i \in 1..Len(A) + Len(B) :
               (A \o B)[i] = IF i <= Len(A) THEN A[i] ELSE B[i - Len(A)]
      BY <2>1, <2>2, CatIs
    <3> DEFINE c == A \o B
    <3> HIDE DEF c
    <3>4. c = [i \in 1..2 |-> c[i]]
      BY <3>1, <3>3 DEF IsSeq, c
    <3>5. c[1] = a /\ c[2] = b
      BY <3>1, <3>3 DEF c
    <3>6. c = AB
      BY <3>2, <3>4, <3>5
    <3> QED
      BY <3>6 DEF c
  <2> QED
    BY <2>1, <2>2, <2>3
<1> HIDE DEF A, B, AB
<1>2. Same(Beside(A, B), AB)
  BY <1>1, BesideCat
<1>3. Same(Beside(Q, Beside(A, B)), Beside(Q, AB))
  BY <1>2, SameItself, SameBeside, Zenon
<1>4. Same(Beside(Beside(Q, A), B), Beside(Q, AB))
  BY <1>3, BesideGroups, SameGoesOn, Zenon
<1> QED
  BY <1>4 DEF A, B, AB

\* One of the requests on the wire, told from the others; it may change.
LEMMA OneOfMany ==
  ASSUME NEW f, IsSeq(f), NEW h, NEW i \in DOMAIN f,
         NEW f2, DOMAIN f2 = DOMAIN f, \A j \in DOMAIN f : j # i => f2[j] = f[j]
  PROVE  Same(Beside(Beside(RemoveAt(f, i), h), <<f2[i]>>), Beside(f2, h))
<1> DEFINE g == RemoveAt(f, i)
           r == <<f2[i]>>
<1>1. Same(Beside(g, r), f2)
  BY BesideOne
<1> HIDE DEF g, r
<1>2. Same(Beside(Beside(g, h), r), Beside(g, Beside(h, r)))
  BY BesideGroups
<1>3. Same(Beside(g, Beside(h, r)), Beside(g, Beside(r, h)))
  BY BesideTurns, SameItself, SameBeside, Zenon
<1>4. Same(Beside(g, Beside(r, h)), Beside(Beside(g, r), h))
  BY BesideGroups, SameTurns, Zenon
<1>5. Same(Beside(Beside(g, r), h), Beside(f2, h))
  BY <1>1, SameItself, SameBeside, Zenon
<1>6. Same(Beside(Beside(g, h), r), Beside(f2, h))
  BY <1>2, <1>3, <1>4, <1>5, SameGoesOn, Zenon
<1> QED
  BY <1>6 DEF g, r

\* What waited goes out: it is still there.
LEMMA Unblocked ==
  ASSUME NEW f, IsSeq(f), NEW h, IsSeq(h), NEW W, W \subseteq DOMAIN h
  PROVE  LET f2 == f \o Picked(h, W)
             h2 == Picked(h, DOMAIN h \ W)
         IN  IsSeq(f2) /\ IsSeq(h2) /\ Same(Beside(f, h), Beside(f2, h2))
<1> DEFINE A == Picked(h, W)
           B == Picked(h, DOMAIN h \ W)
<1>1. IsSeq(A) /\ IsSeq(B)
  <2>1. DOMAIN h \ W \subseteq DOMAIN h
    OBVIOUS
  <2> QED
    BY <2>1, PickedIs, Zenon
<1>2. Same(Beside(B, A), h)
  BY BesidePicked, Zenon
<1> HIDE DEF A, B
<1>3. IsSeq(f \o A)
  BY <1>1, CatIs, Zenon
<1>4. Same(h, Beside(A, B))
  BY <1>2, SameTurns, BesideTurns, SameGoesOn, Zenon
<1>5. Same(Beside(f, h), Beside(f, Beside(A, B)))
  BY <1>4, SameItself, SameBeside, Zenon
<1>6. Same(Beside(f, Beside(A, B)), Beside(Beside(f, A), B))
  BY BesideGroups, SameTurns, Zenon
<1>7. Same(Beside(Beside(f, A), B), Beside(f \o A, B))
  BY <1>1, BesideCat, SameItself, SameBeside, Zenon
<1>8. Same(Beside(f, h), Beside(f \o A, B))
  BY <1>5, <1>6, <1>7, SameGoesOn, Zenon
<1> QED
  BY <1>1, <1>3, <1>8 DEF A, B

-----------------------------------------------------------------------------
(* The inductive invariant.                                                *)

IsOp(op) == IsRow(op.row) /\ IsPlaces(op.ids)
IsOps(s) == IsSeq(s) /\ \A i \in DOMAIN s : IsOp(s[i])

HistoryInv == IsOps(past) /\ IsOps(future) /\ IsOp(applying.inverse)

UnderWay == Beside(flight, held)

EditorInv ==
  /\ IsTable(table, made)
  /\ IsRows(store)
  /\ HistoryInv
  /\ IsSeq(flight) /\ IsSeq(held)
  /\ Sound(UnderWay, DOMAIN table, made, applying, Ids(store), misread)

LEMMA InitKeeps == EditorInit => EditorInv
<1> SUFFICES ASSUME EditorInit PROVE EditorInv
  OBVIOUS
<1>1. opening \in Nat /\ made = opening
  BY OpeningAssumption DEF EditorInit
<1>2. IsTable(table, made)
  <2>1. DOMAIN table = 1..opening
    BY DEF EditorInit
  <2>2. ASSUME NEW b \in 1..opening
        PROVE  IsTableRow(table[b]) /\ table[b].rowid = b
    <3>1. table[b] = [html |-> Para(<<b>>), type |-> "paragraph", index |-> b - 1, rowid |-> b]
      BY DEF EditorInit
    <3> QED
      BY <1>1, <3>1 DEF IsTableRow
  <2> QED
    BY <1>1, <2>1, <2>2 DEF IsTable
<1>3. IsRows(store) /\ Ids(store) = 1..opening
  <2>1. DOMAIN store = 1..opening /\ \A b \in 1..opening : store[b] = OpeningRow(b)
    BY DEF EditorInit
  <2>2. store = [b \in 1..opening |-> store[b]]
    BY DEF EditorInit
  <2>3. IsSeq(store)
    BY <1>1, <2>1, <2>2, TableIsSeq
  <2>4. \A b \in 1..opening : IsRow(OpeningRow(b)) /\ OpeningRow(b).id = b
    BY <1>1, StoreRowIs DEF OpeningRow
  <2> QED
    BY <2>1, <2>3, <2>4 DEF IsRows, Ids
<1>4. IsSeq(<<>>)
  BY DEF IsSeq
<1>5. HistoryInv
  <2>1. IsOp(Idle.inverse)
    BY NoRowIs DEF IsOp, Idle, Op, IsPlaces
  <2> QED
    BY <1>4, <2>1 DEF EditorInit, HistoryInv, IsOps
<1>6. Sound(UnderWay, DOMAIN table, made, applying, Ids(store), misread)
  <2>1. DOMAIN UnderWay = {}
    BY DEF EditorInit, UnderWay, Beside
  <2>2. CreationsApart(UnderWay, DOMAIN table, made) /\ OneUndo(UnderWay, applying)
    BY <2>1 DEF CreationsApart, OneUndo
  <2>3. Accounted(UnderWay, DOMAIN table, made, applying, Ids(store))
    BY <1>1, <1>3 DEF Accounted
  <2> QED
    BY <2>1, <2>2, <2>3 DEF Sound
<1> QED
  BY <1>2, <1>3, <1>4, <1>5, <1>6 DEF EditorInv, EditorInit

LEMMA Unmoved ==
  ASSUME EditorInv, UNCHANGED <<table, made, flight, held, history, misread>>,
         IsRows(store'), Ids(store') = Ids(store)
  PROVE  EditorInv'
<1>1. HistoryInv'
  BY DEF EditorInv, HistoryInv, history
<1>2. UnderWay' = UnderWay /\ applying' = applying
  BY DEF UnderWay, history
<1> QED
  BY <1>1, <1>2 DEF EditorInv

LEMMA IdleIs == Idle.way = "none" /\ IsOp(Idle.inverse)
  BY NoRowIs DEF Idle, Op, IsOp, IsPlaces

LEMMA OpIs ==
  ASSUME NEW kind, NEW row, IsRow(row), NEW ids, IsPlaces(ids)
  PROVE  IsOp(Op(kind, row, ids))
  BY DEF IsOp, Op

LEMMA OpsGrow ==
  ASSUME NEW s, IsOps(s), NEW op, IsOp(op)
  PROVE  IsOps(Append(s, op)) /\ IsOps(Front(s))
<1>1. Len(s) \in Nat /\ DOMAIN s = 1..Len(s) /\ IsSeq(s)
  BY IsSeqDomain DEF IsOps
<1> DEFINE u == Append(s, op)
<1>2. IsSeq(u) /\ Len(u) = Len(s) + 1 /\ u[Len(s) + 1] = op /\ \A i \in 1..Len(s) : u[i] = s[i]
  BY <1>1, AppendIs
<1>3. DOMAIN u = 1..Len(s) + 1
  BY <1>2, IsSeqDomain
<1> HIDE DEF u
<1>4. \A i \in DOMAIN u : i = Len(s) + 1 \/ i \in 1..Len(s)
  BY <1>1, <1>3
<1>5. IsOps(u)
  BY <1>1, <1>2, <1>4 DEF IsOps
<1>6. IsOps(Front(s))
  BY <1>1, FrontIs DEF IsOps
<1> QED
  BY <1>5, <1>6 DEF u

LEMMA RecordKeeps ==
  ASSUME HistoryInv, NEW op, IsOp(op), Record(op)
  PROVE  HistoryInv' /\ applying' = applying
<1>1. IsOps(Append(past, op))
  BY OpsGrow DEF HistoryInv
<1>2. IsOps(<<>>)
  BY DEF IsOps, IsSeq
<1> QED
  BY <1>1, <1>2 DEF HistoryInv, Record, history

LEMMA FinishKeeps ==
  ASSUME HistoryInv, NEW way, NEW op, IsOp(op), Finish(way, op)
  PROVE  HistoryInv' /\ applying' = Idle
<1>1. /\ IsOps(Append(past, op)) /\ IsOps(Front(past))
      /\ IsOps(Append(future, op)) /\ IsOps(Front(future))
  BY OpsGrow DEF HistoryInv
<1> QED
  BY <1>1, IdleIs DEF HistoryInv, Finish

LEMMA HistoryStays ==
  ASSUME HistoryInv, UNCHANGED history
  PROVE  HistoryInv' /\ applying' = applying
  BY DEF HistoryInv, history

-----------------------------------------------------------------------------
(* The gestures.                                                           *)

LEMMA SendOne ==
  ASSUME EditorInv, NEW r, Send(<<r>>),
         IsTable(table', made'), IsRows(store'), HistoryInv',
         Sound(Beside(UnderWay, <<r>>), DOMAIN table', made', applying', Ids(store'), misread')
  PROVE  EditorInv'
<1> DEFINE R == <<r>>
<1>1. IsSeq(R)
  BY DEF IsSeq
<1> HIDE DEF R
<1> DEFINE W == {i \in DOMAIN R : AfterCreate(R[i])}
<1>2. W \subseteq DOMAIN R
  OBVIOUS
<1>3. /\ flight' = flight \o Picked(R, DOMAIN R \ W)
      /\ held' = held \o Picked(R, W)
  BY DEF Send, R
<1> HIDE DEF W
<1>4. /\ IsSeq(flight') /\ IsSeq(held')
      /\ Same(Beside(UnderWay, R), Beside(flight', held'))
  BY <1>1, <1>2, <1>3, Posted, Zenon DEF EditorInv, UnderWay
<1>5. Sound(Beside(flight', held'), DOMAIN table', made', applying', Ids(store'), misread')
  BY <1>4, SoundAnywhere, Zenon DEF R
<1> QED
  BY <1>4, <1>5 DEF EditorInv, UnderWay

LEMMA SendTwo ==
  ASSUME EditorInv, NEW a, NEW b, Send(<<a, b>>),
         IsTable(table', made'), IsRows(store'), HistoryInv',
         Sound(Beside(Beside(UnderWay, <<a>>), <<b>>),
               DOMAIN table', made', applying', Ids(store'), misread')
  PROVE  EditorInv'
<1> DEFINE R == <<a, b>>
<1>1. IsSeq(R)
  BY DEF IsSeq
<1> HIDE DEF R
<1> DEFINE W == {i \in DOMAIN R : AfterCreate(R[i])}
<1>2. W \subseteq DOMAIN R
  OBVIOUS
<1>3. /\ flight' = flight \o Picked(R, DOMAIN R \ W)
      /\ held' = held \o Picked(R, W)
  BY DEF Send, R
<1> HIDE DEF W
<1>4. /\ IsSeq(flight') /\ IsSeq(held')
      /\ Same(Beside(UnderWay, R), Beside(flight', held'))
  BY <1>1, <1>2, <1>3, Posted, Zenon DEF EditorInv, UnderWay
<1>5. Sound(Beside(UnderWay, R), DOMAIN table', made', applying', Ids(store'), misread')
  BY BesideTwo, SoundAnywhere, Zenon DEF R
<1>6. Sound(Beside(flight', held'), DOMAIN table', made', applying', Ids(store'), misread')
  BY <1>4, <1>5, SoundAnywhere, Zenon
<1> QED
  BY <1>4, <1>6 DEF EditorInv, UnderWay

\* An update or an order, on a store of the same blocks.
LEMMA SendsText ==
  ASSUME EditorInv, NEW r, IsRequest(r), r.kind \in {"update", "reorder"},
         r.by = "user", r.state = "sent", Send(<<r>>),
         IsRows(store'), Ids(store') = Ids(store),
         UNCHANGED <<table, made, history, misread>>
  PROVE  EditorInv'
<1>1. HistoryInv' /\ applying' = applying
  BY HistoryStays DEF EditorInv
<1>2. Sound(Beside(UnderWay, <<r>>), DOMAIN table, made, applying, Ids(store), misread)
  <2>1. \A b \in Ids(store) : b \in Ids(store) \/ (r.kind = "delete" /\ b = r.row.id)
    OBVIOUS
  <2>2. r.kind \in {"update", "reorder", "delete"}
    OBVIOUS
  <2>3. Sound(UnderWay, DOMAIN table, made, applying, Ids(store), misread)
    BY DEF EditorInv
  <2> QED
    BY <2>1, <2>2, <2>3, Sends, Zenon
<1>3. IsTable(table', made')
  BY DEF EditorInv
<1>4. Sound(Beside(UnderWay, <<r>>), DOMAIN table', made', applying', Ids(store'), misread')
  BY <1>1, <1>2
<1> QED
  BY <1>1, <1>3, <1>4, SendOne, Zenon

\* A block leaves the screen as its deletion is sent.
LEMMA SendsDeletion ==
  ASSUME EditorInv, NEW r, IsRequest(r), r.kind = "delete",
         r.by = "user", r.state = "sent", Send(<<r>>),
         IsRows(store'), Ids(store') = Ids(store) \ {r.row.id},
         UNCHANGED <<table, made, history, misread>>
  PROVE  EditorInv'
<1>1. HistoryInv' /\ applying' = applying
  BY HistoryStays DEF EditorInv
<1>2. Sound(Beside(UnderWay, <<r>>), DOMAIN table, made, applying, Ids(store'), misread)
  <2>1. \A b \in Ids(store) : b \in Ids(store') \/ (r.kind = "delete" /\ b = r.row.id)
    OBVIOUS
  <2>2. r.kind \in {"update", "reorder", "delete"}
    OBVIOUS
  <2>3. Sound(UnderWay, DOMAIN table, made, applying, Ids(store), misread)
    BY DEF EditorInv
  <2> QED
    BY <2>1, <2>2, <2>3, Sends, Zenon
<1>3. IsTable(table', made')
  BY DEF EditorInv
<1>4. Sound(Beside(UnderWay, <<r>>), DOMAIN table', made', applying', Ids(store'), misread')
  BY <1>1, <1>2
<1> QED
  BY <1>1, <1>3, <1>4, SendOne, Zenon

LEMMA EditKeeps ==
  ASSUME EditorInv, NEW b, NEW html, Edit(b, html)
  PROVE  EditorInv'
<1>1. IsRows(store') /\ Ids(store') = Ids(store)
  BY PutIs DEF EditorInv, Edit, SetLocalContent
<1> QED
  BY <1>1, Unmoved DEF Edit, marks

LEMMA TimerKeeps ==
  ASSUME EditorInv, NEW b, TimerFires(b)
  PROVE  EditorInv'
<1>1. CASE SaveNeeded(b)
  <2>1. IsRows(store') /\ Ids(store') = Ids(store)
    BY <1>1, PutIs DEF EditorInv, TimerFires, SetLocalContent
  <2> DEFINE r == Update(b, shown[b], LiveType(b))
  <2>2. IsRequest(r) /\ r.kind = "update" /\ r.by = "user" /\ r.state = "sent"
    BY UpdateIs DEF EditorInv
  <2>3. Send(<<r>>) /\ UNCHANGED <<table, made, history, misread>>
    BY <1>1 DEF TimerFires, bounds, marks
  <2> HIDE DEF r
  <2> QED
    BY <2>1, <2>2, <2>3, SendsText
<1>2. CASE ~SaveNeeded(b)
  <2>1. UNCHANGED <<table, made, store, flight, held, history, misread>>
    BY <1>2 DEF TimerFires, bounds, marks
  <2> QED
    BY <2>1, Unmoved DEF EditorInv
<1> QED
  BY <1>1, <1>2

LEMMA LeaveListKeeps ==
  ASSUME EditorInv, NEW b, LeaveList(b)
  PROVE  EditorInv'
<1> DEFINE html == Para(shown[b].text)
           r == Update(b, html, "paragraph")
<1>1. store' = Put(store, b, html, "paragraph") /\ Send(<<r>>)
  BY DEF LeaveList
<1>2. UNCHANGED <<table, made, history, misread>>
  BY DEF LeaveList, marks
<1>3. IsRequest(r) /\ r.kind = "update" /\ r.by = "user" /\ r.state = "sent"
  BY UpdateIs DEF EditorInv
<1> HIDE DEF r, html
<1>4. IsRows(store') /\ Ids(store') = Ids(store)
  BY <1>1, PutIs DEF EditorInv
<1> QED
  BY <1>1, <1>2, <1>3, <1>4, SendsText

LEMMA MoveKeeps ==
  ASSUME EditorInv, NEW i, MoveBlock(i)
  PROVE  EditorInv'
<1> DEFINE ids == Swapped(Order(store), i)
           r == Reorder(ids)
<1>1. IsPlaces(ids)
  BY OrderIs, IsSeqDomain DEF EditorInv, IsRows, IsPlaces, Swapped
<1>2. Send(<<r>>) /\ UNCHANGED <<table, store, made, history, misread>>
  BY DEF MoveBlock, marks
<1> HIDE DEF ids
<1>3. IsRequest(r) /\ r.kind = "reorder" /\ r.by = "user" /\ r.state = "sent"
  BY <1>1, ReorderIs DEF EditorInv
<1> HIDE DEF r
<1> QED
  BY <1>2, <1>3, SendsText DEF EditorInv

LEMMA RemoveKeeps ==
  ASSUME EditorInv, NEW b, RemoveBlock(b)
  PROVE  EditorInv'
<1> DEFINE r == Delete(b)
<1>1. b \in Ids(store)
  BY DEF RemoveBlock, At
<1>2. Send(<<r>>) /\ UNCHANGED <<table, made, history, misread>>
  BY DEF RemoveBlock, marks
<1>3. store' = Drop(store, b)
  BY DEF RemoveBlock, Show, ShowFrom
<1>4. IsRequest(r) /\ r.kind = "delete" /\ r.row.id = b /\ r.by = "user" /\ r.state = "sent"
  BY <1>1, DeleteIs DEF EditorInv
<1> HIDE DEF r
<1>5. IsRows(store') /\ Ids(store') = Ids(store) \ {r.row.id}
  BY <1>3, <1>4, DropIs DEF EditorInv
<1> QED
  BY <1>2, <1>4, <1>5, SendsDeletion

LEMMA TableGrows ==
  ASSUME NEW t, NEW n, IsTable(t, n)
  PROVE  n \in Nat /\ DOMAIN t \subseteq 1..n /\ IsTable(t, n + 1)
<1>1. n \in Nat /\ DOMAIN t \subseteq 1..n
  BY DEF IsTable
<1>2. n + 1 \in Nat /\ DOMAIN t \subseteq 1..n + 1
  BY <1>1
<1> QED
  BY <1>1, <1>2 DEF IsTable

\* A block appears on the screen as its creation is sent.
LEMMA CreateLocallyKeeps ==
  ASSUME EditorInv, NEW row, NEW focus, IsRow(row), row.id = made + 1,
         CreateLocally(row, focus)
  PROVE  EditorInv'
<1> DEFINE r == Create(row)
           opened == Opened(store, row.index)
<1>1. made' = made + 1
  BY DEF CreateLocally, ChooseId, Fresh
<1>2. Send(<<r>>) /\ UNCHANGED <<table, history, misread>>
  BY DEF CreateLocally, marks
<1>3. store' = Append(opened, row)
  BY DEF CreateLocally, ShowFrom
<1>4. IsRequest(r) /\ r.kind = "create" /\ r.row = row /\ r.by = "user" /\ r.state = "sent"
  BY RequestIs DEF Create
<1>5. IsRows(opened) /\ Ids(opened) = Ids(store)
  BY OpenedIs DEF EditorInv
<1> HIDE DEF opened, r
<1>6. IsRows(store') /\ Ids(store') = Ids(store) \union {made + 1}
  BY <1>3, <1>5, AppendedIs
<1>7. made \in Nat /\ DOMAIN table \subseteq 1..made /\ IsTable(table, made + 1)
  BY TableGrows DEF EditorInv
<1>8. HistoryInv' /\ applying' = applying
  BY <1>2, HistoryStays DEF EditorInv
<1>9. Sound(Beside(UnderWay, <<r>>), DOMAIN table, made + 1, applying,
            Ids(store) \union {made + 1}, misread)
  <2>1. Sound(UnderWay, DOMAIN table, made, applying, Ids(store), misread)
    BY DEF EditorInv
  <2>2. r.row.id = made + 1
    BY <1>4
  <2> QED
    BY <1>4, <1>7, <2>1, <2>2, SendsCreation
<1>10. Sound(Beside(UnderWay, <<r>>), DOMAIN table', made', applying', Ids(store'), misread')
  BY <1>1, <1>2, <1>6, <1>8, <1>9
<1>11. IsTable(table', made')
  BY <1>1, <1>2, <1>7
<1> QED
  BY <1>2, <1>6, <1>8, <1>10, <1>11, SendOne, Zenon

\* Mod-Enter and the duplication are such creations.
LEMMA InsertCreates ==
  ASSUME EditorInv, NEW b, InsertBlockAfter(b)
  PROVE  \E row, focus : IsRow(row) /\ row.id = made + 1 /\ CreateLocally(row, focus)
<1> DEFINE row == StoreRow(Fresh, Para(<<>>), "paragraph", RowIn(store, b).index + 1)
<1>1. CreateLocally(row, b) /\ b \in Ids(store)
  BY DEF InsertBlockAfter, At
<1>2. IsRow(RowIn(store, b))
  BY <1>1, RowInIs DEF EditorInv
<1>3. RowIn(store, b).index + 1 \in Int
  BY <1>2 DEF IsRow
<1>4. IsRow(row) /\ row.id = made + 1
  BY <1>3, StoreRowIs DEF Fresh
<1> HIDE DEF row
<1> QED
  BY <1>1, <1>4

LEMMA DuplicateCreates ==
  ASSUME EditorInv, NEW b, DuplicateBlock(b)
  PROVE  \E row, focus : IsRow(row) /\ row.id = made + 1 /\ CreateLocally(row, focus)
<1> DEFINE old == RowIn(store, b)
           row == [old EXCEPT !.id = Fresh, !.index = old.index + 1]
<1>1. CreateLocally(row, caret) /\ b \in Ids(store)
  BY DEF DuplicateBlock, At
<1>2. IsRow(old)
  BY <1>1, RowInIs DEF EditorInv
<1> HIDE DEF old
<1>3. row = [id |-> Fresh, html |-> old.html, type |-> old.type, index |-> old.index + 1]
  <2> DEFINE half == [old EXCEPT !.id = Fresh]
  <2>1. half = [id |-> Fresh, html |-> old.html, type |-> old.type, index |-> old.index]
    BY <1>2 DEF IsRow
  <2>2. row = [half EXCEPT !.index = old.index + 1]
    OBVIOUS
  <2> HIDE DEF half, row
  <2> QED
    BY <2>1, <2>2
<1> HIDE DEF row
<1>4. IsRow(row) /\ row.id = made + 1
  BY <1>2, <1>3 DEF IsRow, Fresh
<1> QED
  BY <1>1, <1>4

LEMMA CreationKeeps ==
  ASSUME EditorInv, NEW b, InsertBlockAfter(b) \/ DuplicateBlock(b)
  PROVE  EditorInv'
<1>1. PICK row, focus : IsRow(row) /\ row.id = made + 1 /\ CreateLocally(row, focus)
  BY InsertCreates, DuplicateCreates
<1> QED
  BY <1>1, CreateLocallyKeeps

LEMMA SplitKeeps ==
  ASSUME EditorInv, NEW b \in Ids(store), NEW before, NEW after, NEW type,
         NEW display, SplitBlock(b, before, after, type, display)
  PROVE  EditorInv'
<1> DEFINE current == RowIn(store, b)
           new == StoreRow(Fresh, after, TypeOf(after), current.index + 1)
           kept == Put(store, b, before, IF type = Keep THEN current.type ELSE type)
           opened == Opened(kept, new.index)
           c == Create(new)
           u == Update(b, before, type)
<1>1. made' = made + 1
  BY DEF SplitBlock, ChooseId, Fresh
<1>2. Send(<<c, u>>) /\ UNCHANGED <<table, history, misread>>
  BY DEF SplitBlock
<1>3. store' = Append(opened, new)
  BY DEF SplitBlock, ShowFrom
<1>4. IsRow(current)
  BY RowInIs DEF EditorInv
<1>5. current.index + 1 \in Int
  BY <1>4 DEF IsRow
<1> HIDE DEF current
<1>6. IsRow(new) /\ new.id = made + 1
  BY <1>5, StoreRowIs DEF Fresh
<1> HIDE DEF new
<1>7. IsRows(kept) /\ Ids(kept) = Ids(store)
  BY PutIs DEF EditorInv
<1> HIDE DEF kept
<1>8. IsRows(opened) /\ Ids(opened) = Ids(store)
  BY <1>7, OpenedIs
<1> HIDE DEF opened
<1>9. IsRows(store') /\ Ids(store') = Ids(store) \union {made + 1}
  BY <1>3, <1>6, <1>8, AppendedIs
<1>10. IsRequest(c) /\ c.kind = "create" /\ c.row = new /\ c.by = "user" /\ c.state = "sent"
  BY <1>6, RequestIs DEF Create
<1>11. IsRequest(u) /\ u.kind = "update" /\ u.by = "user" /\ u.state = "sent"
  BY UpdateIs DEF EditorInv
<1> HIDE DEF c, u
<1>12. made \in Nat /\ DOMAIN table \subseteq 1..made /\ IsTable(table, made + 1)
  BY TableGrows DEF EditorInv
<1>13. HistoryInv' /\ applying' = applying
  BY <1>2, HistoryStays DEF EditorInv
<1> DEFINE ids == Ids(store) \union {made + 1}
<1>14. Sound(Beside(UnderWay, <<c>>), DOMAIN table, made + 1, applying, ids, misread)
  <2>1. Sound(UnderWay, DOMAIN table, made, applying, Ids(store), misread)
    BY DEF EditorInv
  <2>2. c.row.id = made + 1
    BY <1>6, <1>10
  <2> QED
    BY <1>10, <1>12, <2>1, <2>2, SendsCreation
<1>15. Sound(Beside(Beside(UnderWay, <<c>>), <<u>>), DOMAIN table, made + 1, applying, ids, misread)
  <2> HIDE DEF ids
  <2>1. u.kind \in {"update", "reorder", "delete"}
    BY <1>11
  <2>2. \A x \in ids : x \in ids \/ (u.kind = "delete" /\ x = u.row.id)
    OBVIOUS
  <2> QED
    BY <1>11, <1>14, <2>1, <2>2, Sends, Zenon
<1>16. Sound(Beside(Beside(UnderWay, <<c>>), <<u>>),
             DOMAIN table', made', applying', Ids(store'), misread')
  BY <1>1, <1>2, <1>9, <1>13, <1>15
<1>17. IsTable(table', made')
  BY <1>1, <1>2, <1>12
<1> QED
  BY <1>2, <1>9, <1>13, <1>16, <1>17, SendTwo, Zenon

\* Enter and Mod-Enter divide a block.
LEMMA EnterDivides ==
  ASSUME NEW b, NEW k, Enter(b, k) \/ ModEnter(b, k)
  PROVE  b \in Ids(store) /\ \E before, after, type, display :
                               SplitBlock(b, before, after, type, display)
<1> DEFINE html == shown[b]
           before == [html EXCEPT !.text = Upto(html.text, k)]
           after == [html EXCEPT !.text = From(html.text, k)]
<1>1. CASE Enter(b, k)
  <2>1. b \in Ids(store) /\ SplitBlock(b, before, after, LiveType(b), Cut(b, before))
    BY <1>1 DEF Enter, At
  <2> HIDE DEF before, after
  <2> QED
    BY <2>1
<1>2. CASE ModEnter(b, k)
  <2>1. b \in Ids(store) /\ SplitBlock(b, Para(Upto(html.text, k)),
                                       Para(From(html.text, k)), Keep, shown)
    BY <1>2 DEF ModEnter
  <2> QED
    BY <2>1
<1> QED
  BY <1>1, <1>2

LEMMA EnterKeeps ==
  ASSUME EditorInv, NEW b, NEW k, Enter(b, k) \/ ModEnter(b, k)
  PROVE  EditorInv'
  BY EnterDivides, SplitKeeps, Zenon

\* The text of one block goes to another, and its deletion out.
LEMMA MergeKeeps ==
  ASSUME EditorInv, NEW p, NEW c \in Ids(store), MergeBlocks(p, c)
  PROVE  EditorInv'
<1> DEFINE html == Merged(RowIn(store, p), RowIn(store, c))
           kept == Put(store, p, html, RowIn(store, p).type)
           u == Update(p, html, Keep)
           d == Delete(c)
<1>1. Send(<<u, d>>) /\ UNCHANGED <<table, made, history, misread>>
  BY DEF MergeBlocks, marks
<1>2. store' = Drop(kept, c)
  BY DEF MergeBlocks, ShowFrom
<1> HIDE DEF html
<1>3. IsRows(kept) /\ Ids(kept) = Ids(store)
  BY PutIs DEF EditorInv
<1> HIDE DEF kept
<1>4. IsRows(store') /\ Ids(store') = Ids(store) \ {c}
  BY <1>2, <1>3, DropIs
<1>5. IsRequest(u) /\ u.kind = "update" /\ u.by = "user" /\ u.state = "sent"
  BY UpdateIs DEF EditorInv
<1>6. IsRequest(d) /\ d.kind = "delete" /\ d.row.id = c /\ d.by = "user" /\ d.state = "sent"
  BY DeleteIs DEF EditorInv
<1> HIDE DEF u, d
<1>7. HistoryInv' /\ applying' = applying
  BY <1>1, HistoryStays DEF EditorInv
<1>8. Sound(Beside(UnderWay, <<u>>), DOMAIN table, made, applying, Ids(store), misread)
  <2>1. Sound(UnderWay, DOMAIN table, made, applying, Ids(store), misread)
    BY DEF EditorInv
  <2>2. u.kind \in {"update", "reorder", "delete"}
    BY <1>5
  <2>3. \A x \in Ids(store) : x \in Ids(store) \/ (u.kind = "delete" /\ x = u.row.id)
    OBVIOUS
  <2> QED
    BY <1>5, <2>1, <2>2, <2>3, Sends, Zenon
<1>9. Sound(Beside(Beside(UnderWay, <<u>>), <<d>>), DOMAIN table, made, applying, Ids(store'), misread)
  <2>1. d.kind \in {"update", "reorder", "delete"}
    BY <1>6
  <2>2. \A x \in Ids(store) : x \in Ids(store') \/ (d.kind = "delete" /\ x = d.row.id)
    BY <1>4, <1>6
  <2> QED
    BY <1>6, <1>8, <2>1, <2>2, Sends, Zenon
<1>10. Sound(Beside(Beside(UnderWay, <<u>>), <<d>>),
             DOMAIN table', made', applying', Ids(store'), misread')
  BY <1>1, <1>7, <1>9
<1>11. IsTable(table', made')
  BY <1>1 DEF EditorInv
<1> QED
  BY <1>1, <1>4, <1>7, <1>10, <1>11, SendTwo, Zenon

LEMMA BackspaceKeeps ==
  ASSUME EditorInv, NEW i, Backspace(i) \/ ForwardDelete(i)
  PROVE  EditorInv'
<1>1. Len(store) \in Nat /\ DOMAIN store = 1..Len(store)
  BY IsSeqDomain DEF EditorInv, IsRows
<1>2. \A k \in 1..Len(store) : Order(store)[k] \in Ids(store)
  BY <1>1, OrderIs DEF EditorInv
<1>3. CASE Backspace(i)
  <2>1. i \in 2..Len(store) /\ MergeBlocks(Order(store)[i - 1], Order(store)[i])
    BY <1>3 DEF Backspace
  <2>2. Order(store)[i] \in Ids(store)
    BY <1>1, <1>2, <2>1
  <2> QED
    BY <2>1, <2>2, MergeKeeps
<1>4. CASE ForwardDelete(i)
  <2>1. i \in 1..Len(store) - 1 /\ MergeBlocks(Order(store)[i], Order(store)[i + 1])
    BY <1>4 DEF ForwardDelete
  <2>2. Order(store)[i + 1] \in Ids(store)
    BY <1>1, <1>2, <2>1
  <2> QED
    BY <2>1, <2>2, MergeKeeps
<1> QED
  BY <1>3, <1>4

-----------------------------------------------------------------------------
(* The undo stack.                                                         *)

LEMMA PendingIs ==
  ASSUME HistoryInv, NEW way \in {"undo", "redo"}, NEW kind, NEW row, IsRow(row),
         NEW ids, IsPlaces(ids),
         applying' = [way |-> way, inverse |-> Op(kind, row, ids)],
         UNCHANGED <<past, future>>
  PROVE  HistoryInv' /\ applying' # Idle /\ applying'.inverse.row = row
<1>1. IsOp(Op(kind, row, ids)) /\ Op(kind, row, ids).row = row
  BY OpIs DEF Op
<1>2. applying'.way = way /\ applying'.inverse = Op(kind, row, ids)
  OBVIOUS
<1>3. applying' # Idle
  BY <1>2, IdleIs
<1> QED
  BY <1>1, <1>2, <1>3 DEF HistoryInv

\* An undo sends a deletion or an order.
LEMMA UndoSends ==
  ASSUME EditorInv, applying = Idle, NEW r, IsRequest(r), r.kind \in {"reorder", "delete"},
         r.by # "user", r.state = "sent", Send(<<r>>),
         IsRows(store'), Ids(store') = IF r.kind = "delete" THEN Ids(store) \ {r.row.id} ELSE Ids(store),
         HistoryInv', applying' # Idle, UNCHANGED <<table, made, misread>>
  PROVE  EditorInv'
<1>1. \A b \in Ids(store) : b \in Ids(store') \/ (r.kind = "delete" /\ b = r.row.id)
  OBVIOUS
<1>2. Sound(UnderWay, DOMAIN table, made, Idle, Ids(store), misread)
  BY DEF EditorInv
<1>3. Sound(Beside(UnderWay, <<r>>), DOMAIN table, made, applying', Ids(store'), misread)
  BY <1>1, <1>2, SendsUndo, Zenon
<1>4. Sound(Beside(UnderWay, <<r>>), DOMAIN table', made', applying', Ids(store'), misread')
  BY <1>3
<1>5. IsTable(table', made')
  BY DEF EditorInv
<1> QED
  BY <1>4, <1>5, SendOne, Zenon

LEMMA ApplyKeeps ==
  ASSUME EditorInv, NEW way \in {"undo", "redo"}, NEW op, IsOp(op), Apply(way, op)
  PROVE  EditorInv'
<1> DEFINE b == op.row.id
           again == [op.row EXCEPT !.id = Fresh]
           del == Delete(b)
           ord == Reorder(op.ids)
           rec == Request("recreate", again)
           s(r) == [r EXCEPT !.by = way]
           Pending(kind, row, ids) ==
             applying' = [way |-> way, inverse |-> Op(kind, row, ids)]
                           /\ UNCHANGED <<past, future>>
           deletes == /\ b \in Ids(store) /\ Show(Drop(store, b)) /\ Send(<<s(del)>>)
                      /\ Pending("delete", RowIn(store, b), <<>>) /\ UNCHANGED made
           finishes == /\ Finish(way, Op("delete", op.row, <<>>))
                       /\ UNCHANGED <<store, flight, held, made>>
           recreates == /\ ChooseId /\ Send(<<s(rec)>>)
                        /\ Pending("create", again, <<>>) /\ UNCHANGED store
           reorders == /\ Send(<<s(ord)>>) /\ Pending("reorder", NoRow, Order(store))
                       /\ UNCHANGED <<store, made>>
<1>1. deletes \/ finishes \/ recreates \/ reorders
  BY DEF Apply, Revert
<1>2. applying = Idle /\ UNCHANGED <<table, misread>> /\ HistoryInv
  BY DEF Apply, EditorInv
<1>3. \A r : IsRequest(r) => /\ IsRequest(s(r)) /\ s(r).kind = r.kind /\ s(r).row = r.row
                             /\ s(r).by = way /\ s(r).state = r.state
  BY PostIs
<1>4. way # "user"
  OBVIOUS
<1>5. IsPlaces(<<>>)
  BY DEF IsPlaces
<1> HIDE DEF s
<1>6. CASE deletes
  <2>1. IsRequest(del) /\ del.kind = "delete" /\ del.row.id = b /\ del.state = "sent"
    BY <1>6, DeleteIs DEF EditorInv
  <2>2. IsRow(RowIn(store, b))
    BY <1>6, RowInIs DEF EditorInv
  <2>3. HistoryInv' /\ applying' # Idle
    BY <1>2, <1>5, <1>6, <2>2, PendingIs
  <2>4. store' = Drop(store, b) /\ Send(<<s(del)>>) /\ UNCHANGED made
    BY <1>6 DEF Show, ShowFrom
  <2>5. IsRows(store') /\ Ids(store') = Ids(store) \ {b}
    BY <2>4, DropIs DEF EditorInv
  <2> HIDE DEF del, b
  <2> DEFINE r == s(del)
  <2>6. IsRequest(r) /\ r.kind = "delete" /\ r.row.id = b /\ r.by # "user" /\ r.state = "sent"
    BY <1>3, <1>4, <2>1
  <2>7. Send(<<r>>)
    BY <2>4
  <2> HIDE DEF r
  <2> QED
    BY <1>2, <2>3, <2>4, <2>5, <2>6, <2>7, UndoSends
<1>7. CASE finishes
  <2>1. IsOp(Op("delete", op.row, <<>>))
    BY <1>5, OpIs DEF IsOp
  <2>2. HistoryInv' /\ applying' = applying
    BY <1>2, <1>7, <2>1, FinishKeeps
  <2>3. UNCHANGED <<table, made, flight, held, store, misread>>
    BY <1>2, <1>7
  <2>4. UnderWay' = UnderWay
    BY <2>3 DEF UnderWay
  <2> QED
    BY <2>2, <2>3, <2>4 DEF EditorInv
<1>8. CASE recreates
  <2>1. made' = made + 1 /\ store' = store /\ Send(<<s(rec)>>)
    BY <1>8 DEF ChooseId, Fresh
  <2>2. IsRow(again) /\ again.id = made + 1
    <3>1. IsRow(op.row)
      BY DEF IsOp
    <3>2. again = [id |-> made + 1, html |-> op.row.html, type |-> op.row.type, index |-> op.row.index]
      BY <3>1 DEF IsRow, Fresh
    <3> HIDE DEF again
    <3> QED
      BY <3>1, <3>2 DEF IsRow
  <2>3. HistoryInv' /\ applying' # Idle /\ applying'.inverse.row = again
    <3> HIDE DEF again
    <3> QED
      BY <1>2, <1>5, <1>8, <2>2, PendingIs
  <2>4. IsRequest(rec) /\ rec.kind = "recreate" /\ rec.row = again /\ rec.state = "sent"
    <3> HIDE DEF again
    <3> QED
      BY <2>2, RequestIs
  <2> HIDE DEF rec, again
  <2> DEFINE r == s(rec)
  <2>5. IsRequest(r) /\ r.kind = "recreate" /\ r.row = again /\ r.by # "user" /\ r.state = "sent"
    BY <1>3, <1>4, <2>4
  <2>6. Send(<<r>>)
    BY <2>1
  <2> HIDE DEF r
  <2>7. made \in Nat /\ DOMAIN table \subseteq 1..made /\ IsTable(table, made + 1)
    BY TableGrows DEF EditorInv
  <2>8. Sound(Beside(UnderWay, <<r>>), DOMAIN table, made + 1, applying', Ids(store), misread)
    <3>1. Sound(UnderWay, DOMAIN table, made, Idle, Ids(store), misread)
      BY <1>2 DEF EditorInv
    <3>2. r.row.id = made + 1 /\ applying'.inverse.row.id = made + 1
      BY <2>2, <2>3, <2>5
    <3> QED
      BY <2>3, <2>5, <2>7, <3>1, <3>2, SendsRecreation, Zenon
  <2>9. Sound(Beside(UnderWay, <<r>>), DOMAIN table', made', applying', Ids(store'), misread')
    BY <1>2, <2>1, <2>8
  <2>10. IsTable(table', made') /\ IsRows(store')
    BY <1>2, <2>1, <2>7 DEF EditorInv
  <2> QED
    BY <2>3, <2>6, <2>9, <2>10, SendOne, Zenon
<1>9. CASE reorders
  <2>1. IsRequest(ord) /\ ord.kind = "reorder" /\ ord.state = "sent"
    BY ReorderIs DEF EditorInv, IsOp
  <2>2. IsPlaces(Order(store))
    BY OrderIs, IsSeqDomain DEF EditorInv, IsRows, IsPlaces
  <2>3. HistoryInv' /\ applying' # Idle
    BY <1>2, <1>9, <2>2, NoRowIs, PendingIs
  <2>4. Send(<<s(ord)>>) /\ UNCHANGED <<store, made>>
    BY <1>9
  <2> HIDE DEF ord
  <2> DEFINE r == s(ord)
  <2>5. IsRequest(r) /\ r.kind = "reorder" /\ r.by # "user" /\ r.state = "sent"
    BY <1>3, <1>4, <2>1
  <2>6. Send(<<r>>)
    BY <2>4
  <2> HIDE DEF r
  <2>7. IsRows(store') /\ Ids(store') = Ids(store)
    BY <2>4 DEF EditorInv
  <2> QED
    BY <1>2, <2>3, <2>4, <2>5, <2>6, <2>7, UndoSends
<1> QED
  BY <1>1, <1>6, <1>7, <1>8, <1>9

LEMMA LastIs ==
  ASSUME NEW s, IsOps(s), s # <<>>
  PROVE  IsOp(Last(s))
<1>1. IsSeq(s) /\ Len(s) \in Nat /\ DOMAIN s = 1..Len(s)
  BY IsSeqDomain DEF IsOps
<1>2. ASSUME Len(s) = 0 PROVE FALSE
  <2>1. s = [i \in 1..0 |-> s[i]]
    BY <1>1, <1>2 DEF IsSeq
  <2>2. s = <<>>
    BY <1>1, <1>2, <2>1
  <2> QED
    BY <2>2
<1> QED
  BY <1>1, <1>2 DEF IsOps, Last

LEMMA UndoKeeps ==
  ASSUME EditorInv, Undo \/ Redo
  PROVE  EditorInv'
<1>1. IsOps(past) /\ IsOps(future)
  BY DEF EditorInv, HistoryInv
<1>2. CASE Undo
  BY <1>1, <1>2, LastIs, ApplyKeeps DEF Undo
<1>3. CASE Redo
  BY <1>1, <1>3, LastIs, ApplyKeeps DEF Redo
<1> QED
  BY <1>2, <1>3

-----------------------------------------------------------------------------
(* The server.                                                             *)

\* The other requests under way.
Others(i) == Beside(RemoveAt(flight, i), held)

LEMMA ToldApart ==
  ASSUME EditorInv, NEW i \in DOMAIN flight
  PROVE  /\ IsRequest(flight[i])
         /\ Sound(Beside(Others(i), <<flight[i]>>), DOMAIN table, made, applying,
                  Ids(store), misread)
<1> DEFINE r == flight[i]
<1>1. IsSeq(flight)
  BY DEF EditorInv
<1>2. Same(Beside(Others(i), <<r>>), UnderWay)
  BY <1>1, OneOfMany DEF Others, UnderWay
<1>3. Sound(Beside(Others(i), <<r>>), DOMAIN table, made, applying, Ids(store), misread)
  BY <1>2, SameTurns, SoundAnywhere DEF EditorInv
<1> HIDE DEF r
<1>4. IsRequest(r)
  BY <1>3, SoundTogether DEF SoundWith
<1> QED
  BY <1>3, <1>4 DEF r

\* The request has its answer; the client has not seen it.
LEMMA ServedKeeps ==
  ASSUME EditorInv, NEW i \in DOMAIN flight, NEW state \in {"done", "refused"},
         NEW rows, flight[i].state = "sent", IsRows(rows), Answer(i, state, rows),
         UNCHANGED <<store, held, history, made, misread>>, IsTable(table', made),
         NEW r, Answers(r, flight[i]), r = Answering(flight[i], state, rows),
         Sound(Beside(Others(i), <<r>>), DOMAIN table', made, applying, Ids(store), misread)
  PROVE  EditorInv'
<1>1. IsSeq(flight) /\ Len(flight) \in Nat /\ DOMAIN flight = 1..Len(flight)
  BY IsSeqDomain DEF EditorInv
<1>2. /\ DOMAIN flight' = DOMAIN flight /\ flight' = [j \in DOMAIN flight |-> flight'[j]]
      /\ flight'[i] = r /\ \A j \in DOMAIN flight : j # i => flight'[j] = flight[j]
  BY <1>1 DEF Answer, Answering
<1>3. IsSeq(flight')
  BY <1>1, <1>2, TableIsSeq
<1>4. Same(Beside(Others(i), <<r>>), Beside(flight', held))
  BY <1>1, <1>2, OneOfMany DEF Others
<1>5. Sound(Beside(flight', held), DOMAIN table', made, applying, Ids(store), misread)
  BY <1>4, SoundAnywhere, Zenon
<1>6. HistoryInv' /\ applying' = applying
  BY HistoryStays DEF EditorInv
<1>7. Sound(UnderWay', DOMAIN table', made', applying', Ids(store'), misread')
  BY <1>5, <1>6 DEF UnderWay
<1> QED
  BY <1>3, <1>6, <1>7 DEF EditorInv

\* An update that was written is answered at once.
LEMMA WrittenKeeps ==
  ASSUME EditorInv, NEW i \in DOMAIN flight, flight[i].kind = "update", ServeUpdate(i),
         UNCHANGED <<store, held, history, made, misread>>
  PROVE  EditorInv'
<1> DEFINE r == flight[i]
           type == IF r.row.type = Keep THEN table[r.row.id].type ELSE r.row.type
<1>1. /\ r.row.id \in DOMAIN table /\ table' = Rewritten(table, r.row.id, r.row.html, type)
      /\ flight' = RemoveAt(flight, i)
  BY DEF ServeUpdate, UpdateBlock
<1>2. Sound(Beside(Others(i), <<r>>), DOMAIN table, made, applying, Ids(store), misread)
  BY ToldApart
<1>3. r.kind = "update"
  OBVIOUS
<1> HIDE DEF r, type
<1>4. IsTable(table', made) /\ DOMAIN table' = DOMAIN table
  BY <1>1, RewrittenIs DEF EditorInv
<1>5. IsSeq(flight')
  BY <1>1, RemoveAtIs DEF EditorInv
<1>6. Sound(Others(i), DOMAIN table, made, applying, Ids(store), misread)
  BY <1>2, <1>3, Settles DEF Brings
<1>7. HistoryInv' /\ applying' = applying
  BY HistoryStays DEF EditorInv
<1>8. UnderWay' = Others(i)
  BY <1>1 DEF UnderWay, Others
<1> QED
  BY <1>4, <1>5, <1>6, <1>7, <1>8 DEF EditorInv

LEMMA ServeKeeps ==
  ASSUME EditorInv, NEW i \in DOMAIN flight, Serve(i)
  PROVE  EditorInv'
<1> DEFINE q == flight[i]
<1>1. UNCHANGED <<store, held, history, made, misread>> /\ q.state = "sent"
  BY DEF Serve, bounds
<1>2. IsTable(table, made) /\ made \in Nat
  BY DEF EditorInv, IsTable
<1>3. /\ IsRequest(q)
      /\ Sound(Beside(Others(i), <<q>>), DOMAIN table, made, applying, Ids(store), misread)
  BY ToldApart
<1>4. IsRows(<<>>)
  BY DEF IsRows, IsSeq
<1>5. CASE /\ q.kind \in {"create", "recreate"}
           /\ CreateBlock(q.row.id, q.row.html, q.row.type, q.row.index)
           /\ Answer(i, "done", <<>>)
  <2> DEFINE r == Answering(q, "done", <<>>)
  <2>1. Answers(r, q) /\ r.state = "done"
    BY <1>1, <1>3, <1>4, AnswerIs
  <2>2. r = Answering(flight[i], "done", <<>>)
    OBVIOUS
  <2> HIDE DEF r
  <2>3. Creates(q) /\ q.row.id \in 1..made /\ q.row.index \in Int
    <3> HIDE DEF q
    <3>1. SoundWith(Others(i), q, DOMAIN table, made, applying, Ids(store), misread)
      BY <1>3, SoundTogether, Zenon
    <3>2. CreatesNew(q, DOMAIN table, made)
      BY <3>1 DEF SoundWith
    <3>3. Creates(q)
      BY <1>5 DEF Creates
    <3>4. q.row.id \in 1..made
      BY <3>2, <3>3 DEF CreatesNew
    <3> QED
      BY <1>3, <3>3, <3>4 DEF IsRequest, IsRow
  <2>4. /\ q.row.id \notin DOMAIN table
        /\ table' = Inserted(table, q.row.id, q.row.html, q.row.type, q.row.index)
    BY <1>5 DEF CreateBlock
  <2>5. IsTable(table', made) /\ DOMAIN table' = DOMAIN table \union {q.row.id}
    <3> HIDE DEF q
    <3>1. Grown(Inserted(table, q.row.id, q.row.html, q.row.type, q.row.index), table, q.row.id, made)
      BY <1>2, <2>3, <2>4, InsertedIs
    <3> QED
      BY <2>4, <3>1 DEF Grown
  <2>6. Sound(Beside(Others(i), <<r>>), DOMAIN table', made, applying, Ids(store), misread)
    BY <1>3, <2>1, <2>3, <2>5, ServesCreation
  <2> QED
    BY <1>1, <1>4, <1>5, <2>1, <2>2, <2>5, <2>6, ServedKeeps
<1>6. CASE q.kind = "update" /\ ServeUpdate(i)
  BY <1>1, <1>6, WrittenKeeps
<1>7. CASE q.kind = "delete" /\ DeleteBlock(q.row.id) /\ Answer(i, "done", <<>>)
  <2> DEFINE r == Answering(q, "done", <<>>)
  <2>1. Answers(r, q) /\ r.state = "done"
    BY <1>1, <1>3, <1>4, AnswerIs
  <2>2. r = Answering(flight[i], "done", <<>>)
    OBVIOUS
  <2> HIDE DEF r
  <2>3. q.row.id \in DOMAIN table /\ table' = Without(table, q.row.id)
    BY <1>7 DEF DeleteBlock
  <2>4. IsTable(table', made) /\ DOMAIN table' = DOMAIN table \ {q.row.id}
    BY <1>2, <2>3, WithoutIs
  <2>5. Sound(Beside(Others(i), <<r>>), DOMAIN table', made, applying, Ids(store), misread)
    BY <1>3, <1>7, <2>1, <2>3, <2>4, ServesDeletion
  <2> QED
    BY <1>1, <1>4, <1>7, <2>1, <2>2, <2>4, <2>5, ServedKeeps
<1>8. CASE Answer(i, "refused", <<>>) /\ UNCHANGED table
  <2> DEFINE r == Answering(q, "refused", <<>>)
  <2>1. Answers(r, q) /\ r.state = "refused"
    BY <1>1, <1>3, <1>4, AnswerIs
  <2>2. r = Answering(flight[i], "refused", <<>>)
    OBVIOUS
  <2> HIDE DEF r
  <2>3. Sound(Beside(Others(i), <<r>>), DOMAIN table', made, applying, Ids(store), misread)
    BY <1>3, <1>8, <2>1, ServesNothing
  <2>4. IsTable(table', made)
    BY <1>2, <1>8
  <2> QED
    BY <1>1, <1>4, <1>8, <2>1, <2>2, <2>3, <2>4, ServedKeeps
<1>9. CASE \/ /\ q.kind = "reorder" /\ ReorderBlocks(q.ids)
               /\ Answer(i, "done", Adopted(table'))
            \/ /\ q.kind = "relist"
               /\ Answer(i, "done", Adopted(table)) /\ UNCHANGED table
  <2> DEFINE rows == Adopted(table')
             r == Answering(q, "done", rows)
  <2>1. IsTable(table', made) /\ DOMAIN table' = DOMAIN table
    BY <1>2, <1>3, <1>9, ReorderedIs DEF ReorderBlocks, IsRequest
  <2>2. IsRows(rows)
    BY <2>1, AdoptedIs
  <2>3. Answer(i, "done", rows)
    BY <1>9
  <2> HIDE DEF rows
  <2>4. Answers(r, q) /\ r.state = "done"
    BY <1>1, <1>3, <2>2, AnswerIs
  <2>5. r = Answering(flight[i], "done", rows)
    OBVIOUS
  <2> HIDE DEF r
  <2>6. q.kind \in {"reorder", "relist"}
    BY <1>9
  <2>7. Sound(Beside(Others(i), <<r>>), DOMAIN table', made, applying, Ids(store), misread)
    BY <1>3, <2>1, <2>4, <2>6, ServesNothing
  <2> QED
    BY <1>1, <2>1, <2>2, <2>3, <2>4, <2>5, <2>7, ServedKeeps
<1> QED
  BY <1>5, <1>6, <1>7, <1>8, <1>9 DEF Serve

LEMMA RefuseKeeps ==
  ASSUME EditorInv, NEW i \in DOMAIN flight, Refuse(i)
  PROVE  EditorInv'
<1> DEFINE q == flight[i]
           r == Answering(q, "refused", <<>>)
<1>1. /\ UNCHANGED <<table, store, held, history, made, misread>>
      /\ q.state = "sent" /\ Answer(i, "refused", <<>>)
  BY DEF Refuse
<1>2. /\ IsRequest(q)
      /\ Sound(Beside(Others(i), <<q>>), DOMAIN table, made, applying, Ids(store), misread)
  BY ToldApart
<1>3. IsRows(<<>>)
  BY DEF IsRows, IsSeq
<1>4. Answers(r, q) /\ r.state = "refused"
  BY <1>1, <1>2, <1>3, AnswerIs
<1> HIDE DEF r
<1>5. Sound(Beside(Others(i), <<r>>), DOMAIN table', made, applying, Ids(store), misread)
  BY <1>1, <1>2, <1>4, ServesNothing
<1>6. IsTable(table', made)
  BY <1>1 DEF EditorInv
<1> QED
  BY <1>1, <1>3, <1>4, <1>5, <1>6, ServedKeeps DEF r

-----------------------------------------------------------------------------
(* The answers.                                                            *)

LEMMA SettledIs ==
  ASSUME EditorInv, NEW i \in DOMAIN flight, Settled(i)
  PROVE  IsSeq(flight') /\ IsSeq(held') /\ Same(Others(i), UnderWay')
<1>1. IsSeq(flight) /\ IsSeq(held) /\ DOMAIN flight = 1..Len(flight)
  BY IsSeqDomain DEF EditorInv
<1>2. flight' = RemoveAt(flight, i) /\ held' = held
  BY DEF Settled
<1>3. IsSeq(flight')
  BY <1>1, <1>2, RemoveAtIs
<1>4. UnderWay' = Others(i)
  BY <1>2 DEF UnderWay, Others
<1> QED
  BY <1>1, <1>2, <1>3, <1>4, SameItself

LEMMA ReleasedIs ==
  ASSUME EditorInv, NEW i \in DOMAIN flight, Released(i)
  PROVE  IsSeq(flight') /\ IsSeq(held') /\ Same(Others(i), UnderWay')
<1> DEFINE W == {j \in DOMAIN held : held[j].row.id = flight[i].row.id}
           g == RemoveAt(flight, i)
<1>1. IsSeq(flight) /\ IsSeq(held) /\ DOMAIN flight = 1..Len(flight)
  BY IsSeqDomain DEF EditorInv
<1>2. flight' = g \o Picked(held, W) /\ held' = Picked(held, DOMAIN held \ W)
  BY DEF Released
<1>3. W \subseteq DOMAIN held
  OBVIOUS
<1>4. IsSeq(g)
  BY <1>1, RemoveAtIs
<1> HIDE DEF W, g
<1>5. IsSeq(flight') /\ IsSeq(held') /\ Same(Beside(g, held), Beside(flight', held'))
  BY <1>1, <1>2, <1>3, <1>4, Unblocked, Zenon
<1> QED
  BY <1>5 DEF g, UnderWay, Others

\* The client has taken an answer in, and the request is gone.
LEMMA AnsweredKeeps ==
  ASSUME EditorInv, NEW i \in DOMAIN flight,
         IsSeq(flight'), IsSeq(held'), Same(Others(i), UnderWay'),
         UNCHANGED <<table, made>>, IsRows(store'), HistoryInv',
         applying' = applying \/ Undoes(flight[i]), misread => misread',
         NEW r, r = flight[i],
         misread' \/ /\ \A b \in Ids(store) : b \in Ids(store') \/
                          (r.kind = "create" /\ r.state = "refused" /\ b = r.row.id)
                     /\ r.kind = "delete" /\ r.state # "done" => r.row.id \in Ids(store')
                     /\ Brings(r) => \/ applying.inverse.row.id \in Ids(store')
                                     \/ r.kind = "recreate" /\ r.state = "refused",
         r.kind = "create" => r.state # "sent"
  PROVE  EditorInv'
<1>1. Sound(Beside(Others(i), <<r>>), DOMAIN table, made, applying, Ids(store), misread)
  BY ToldApart
<1>2. applying' = applying \/ Undoes(r)
  OBVIOUS
<1>3. Sound(Others(i), DOMAIN table, made, applying', Ids(store'), misread')
  BY <1>1, <1>2, Settles
<1>4. Sound(UnderWay', DOMAIN table, made, applying', Ids(store'), misread')
  BY <1>3, SoundAnywhere, Zenon
<1>5. Sound(UnderWay', DOMAIN table', made', applying', Ids(store'), misread')
  BY <1>4
<1>6. IsTable(table', made')
  BY DEF EditorInv
<1> QED
  BY <1>5, <1>6 DEF EditorInv

\* What every answer does.
LEMMA ReplyIs ==
  ASSUME EditorInv, NEW i \in DOMAIN flight, Reply(i)
  PROVE  /\ UNCHANGED <<table, made>> /\ (misread => misread')
         /\ IsRequest(flight[i]) /\ OfUndo(flight[i], applying)
         /\ HistoryInv /\ IsOp(applying.inverse) /\ IsRows(store)
         /\ misread' \/ (~ReplacesMore(flight[i]) /\ ~Answered(i, "relist", "refused"))
<1> DEFINE r == flight[i]
<1>1. Sound(Beside(Others(i), <<r>>), DOMAIN table, made, applying, Ids(store), misread)
  BY ToldApart
<1> HIDE DEF r
<1>2. IsRequest(r) /\ OfUndo(r, applying)
  <2>1. SoundWith(Others(i), r, DOMAIN table, made, applying, Ids(store), misread)
    BY <1>1, SoundTogether, Zenon
  <2> QED
    BY <2>1 DEF SoundWith
<1>3. UNCHANGED <<table, made>>
  BY DEF Reply, bounds
<1>4. misread' = (misread \/ ReplacesMore(flight[i]) \/ Answered(i, "relist", "refused"))
  BY DEF Reply
<1> QED
  BY <1>2, <1>3, <1>4 DEF r, EditorInv, HistoryInv

LEMMA CreateAnsweredKeeps ==
  ASSUME EditorInv, NEW i \in DOMAIN flight, Reply(i), Created(i) \/ CreateFailed(i)
  PROVE  EditorInv'
<1> DEFINE r == flight[i]
<1>1. /\ UNCHANGED <<table, made>> /\ (misread => misread') /\ IsRequest(r)
      /\ HistoryInv /\ IsRows(store)
  BY ReplyIs
<1>2. r.kind = "create" /\ r.state \in {"done", "refused"} /\ ~Brings(r)
  BY DEF Created, CreateFailed, Answered, Brings
<1>3. IsSeq(flight') /\ IsSeq(held') /\ Same(Others(i), UnderWay')
  BY ReleasedIs DEF Created, CreateFailed
<1>4. CASE Created(i)
  <2>1. store' = store /\ Record(Op("create", r.row, <<>>))
    BY <1>4 DEF Created
  <2>2. IsOp(Op("create", r.row, <<>>))
    BY <1>1, OpIs DEF IsRequest, IsPlaces
  <2>3. HistoryInv' /\ applying' = applying
    BY <1>1, <2>1, <2>2, RecordKeeps
  <2>4. IsRows(store') /\ Ids(store') = Ids(store)
    BY <1>1, <2>1
  <2> QED
    BY <1>1, <1>2, <1>3, <2>3, <2>4, AnsweredKeeps
<1>5. CASE CreateFailed(i)
  <2> DEFINE dropped == Drop(store, r.row.id)
             remaining == Closed(dropped, r.row.index)
  <2>1. store' = remaining /\ UNCHANGED history /\ r.state = "refused"
    BY <1>5 DEF CreateFailed, Show, ShowFrom, Answered
  <2>2. IsRows(dropped) /\ Ids(dropped) = Ids(store) \ {r.row.id}
    BY <1>1, DropIs
  <2> HIDE DEF dropped
  <2>3. IsRows(remaining) /\ Ids(remaining) = Ids(dropped)
    BY <2>2, ClosedIs
  <2> HIDE DEF remaining
  <2>4. HistoryInv' /\ applying' = applying
    BY <1>1, <2>1, HistoryStays
  <2>5. IsRows(store') /\ Ids(store') = Ids(store) \ {r.row.id}
    BY <2>1, <2>2, <2>3
  <2> QED
    BY <1>1, <1>2, <1>3, <2>1, <2>4, <2>5, AnsweredKeeps
<1> QED
  BY <1>4, <1>5

\* A row that goes back is of the same block.
LEMMA RolledBackIs ==
  ASSUME IsRows(store), NEW r, IsRequest(r)
  PROVE  IsRows(RolledBack(r)) /\ Ids(RolledBack(r)) = Ids(store)
<1> DEFINE u == RolledBack(r)
<1>1. /\ DOMAIN u = DOMAIN store /\ u = [k \in DOMAIN store |-> u[k]]
      /\ \A k \in DOMAIN store :
           u[k] = store[k] \/ (u[k] = r.old /\ store[k].id = r.row.id /\ r.old # NoRow)
  BY DEF RolledBack
<1>2. r.old = NoRow \/ (IsRow(r.old) /\ r.old.id = r.row.id)
  BY DEF IsRequest
<1>3. \A k \in DOMAIN store : IsRow(store[k])
  BY DEF IsRows
<1> HIDE DEF u
<1>4. Recolumned(store, u)
  BY <1>1, <1>2, <1>3 DEF Recolumned
<1>5. IsRows(u) /\ Ids(u) = Ids(store)
  BY <1>4, RecolumnedIs
<1> QED
  BY <1>5 DEF u

LEMMA UpdateFailedKeeps ==
  ASSUME EditorInv, NEW i \in DOMAIN flight, Reply(i), UpdateFailed(i)
  PROVE  EditorInv'
<1> DEFINE r == flight[i]
<1>1. /\ UNCHANGED <<table, made>> /\ (misread => misread') /\ IsRequest(r)
      /\ HistoryInv /\ IsRows(store)
  BY ReplyIs
<1>2. r.kind = "update" /\ ~Brings(r) /\ store' = RolledBack(r) /\ UNCHANGED history
  BY DEF UpdateFailed, Answered, Brings, Show, ShowFrom
<1>3. IsSeq(flight') /\ IsSeq(held') /\ Same(Others(i), UnderWay')
  BY SettledIs DEF UpdateFailed
<1>4. IsRows(store') /\ Ids(store') = Ids(store)
  BY <1>1, <1>2, RolledBackIs
<1>5. HistoryInv' /\ applying' = applying
  BY <1>1, <1>2, HistoryStays
<1> QED
  BY <1>1, <1>2, <1>3, <1>4, <1>5, AnsweredKeeps

LEMMA DeleteAnsweredKeeps ==
  ASSUME EditorInv, NEW i \in DOMAIN flight, Reply(i), Deleted(i) \/ DeleteFailed(i)
  PROVE  EditorInv'
<1> DEFINE r == flight[i]
<1>1. /\ UNCHANGED <<table, made>> /\ (misread => misread') /\ IsRequest(r)
      /\ HistoryInv /\ IsOp(applying.inverse) /\ IsRows(store)
  BY ReplyIs
<1>2. r.kind = "delete" /\ ~Brings(r)
  BY DEF Deleted, DeleteFailed, Answered, Brings
<1>3. IsSeq(flight') /\ IsSeq(held') /\ Same(Others(i), UnderWay')
  BY SettledIs DEF Deleted, DeleteFailed
<1>4. HistoryInv' /\ (applying' = applying \/ Undoes(r))
  <2>1. IsOp(Op("delete", r.row, <<>>))
    BY <1>1, OpIs DEF IsRequest, IsPlaces
  <2>2. CASE r.by = "user"
    <3>1. Record(Op("delete", r.row, <<>>)) \/ UNCHANGED history
      BY <2>2 DEF Deleted, DeleteFailed
    <3> QED
      BY <1>1, <2>1, <3>1, RecordKeeps, HistoryStays
  <2>3. CASE r.by # "user"
    <3>1. Finish(r.by, applying.inverse)
      BY <2>3 DEF Deleted, DeleteFailed
    <3> QED
      BY <1>1, <2>3, <3>1, FinishKeeps DEF Undoes
  <2> QED
    BY <2>2, <2>3
<1>5. /\ IsRows(store') /\ \A b \in Ids(store) : b \in Ids(store')
      /\ r.state # "done" => r.row.id \in Ids(store')
  <2>1. CASE Deleted(i)
    BY <1>1, <2>1 DEF Deleted, Answered
  <2>2. CASE DeleteFailed(i)
    <3>1. store' = IF r.row.id \in Ids(store) THEN store ELSE Append(store, r.row)
      BY <2>2 DEF DeleteFailed, Show, ShowFrom, PutBack
    <3>2. IsRow(r.row)
      BY <1>1 DEF IsRequest
    <3> QED
      BY <1>1, <3>1, <3>2, AppendedIs
  <2> QED
    BY <2>1, <2>2
<1> QED
  BY <1>1, <1>2, <1>3, <1>4, <1>5, AnsweredKeeps

\* Rows with the same contents are of the same blocks.
LEMMA ContentsTell ==
  ASSUME NEW s, NEW t, \A c \in Contents(s) : c \in Contents(t)
  PROVE  \A b \in Ids(s) : b \in Ids(t)
<1> SUFFICES ASSUME NEW k \in DOMAIN s PROVE s[k].id \in Ids(t)
  BY DEF Ids
<1>1. <<s[k].id, s[k].html>> \in Contents(t)
  BY DEF Contents
<1>2. PICK j \in DOMAIN t : <<s[k].id, s[k].html>> = <<t[j].id, t[j].html>>
  BY <1>1 DEF Contents
<1>3. s[k].id = t[j].id
  BY <1>2
<1> QED
  BY <1>3 DEF Ids

LEMMA ReorderAnsweredKeeps ==
  ASSUME EditorInv, NEW i \in DOMAIN flight, Reply(i), ReorderAnswered(i)
  PROVE  EditorInv'
<1> DEFINE r == flight[i]
<1>1. /\ UNCHANGED <<table, made>> /\ (misread => misread') /\ IsRequest(r)
      /\ HistoryInv /\ IsOp(applying.inverse) /\ IsRows(store)
      /\ misread' \/ ~ReplacesMore(r)
  BY ReplyIs
<1>2. r.kind = "reorder" /\ ~Brings(r) /\ r.state # "sent"
  BY DEF ReorderAnswered, Brings
<1>3. IsSeq(flight') /\ IsSeq(held') /\ Same(Others(i), UnderWay')
  BY SettledIs DEF ReorderAnswered
<1>4. HistoryInv' /\ (applying' = applying \/ Undoes(r))
  <2>1. IsOp(Op("reorder", NoRow, r.prev))
    BY <1>1, NoRowIs, OpIs DEF IsRequest
  <2>2. CASE r.by = "user"
    <3>1. Record(Op("reorder", NoRow, r.prev)) \/ UNCHANGED history
      BY <2>2 DEF ReorderAnswered
    <3> QED
      BY <1>1, <2>1, <3>1, RecordKeeps, HistoryStays
  <2>3. CASE r.by # "user"
    <3>1. Finish(r.by, applying.inverse)
      BY <2>3 DEF ReorderAnswered
    <3> QED
      BY <1>1, <2>3, <3>1, FinishKeeps DEF Undoes
  <2> QED
    BY <2>2, <2>3
<1>5. IsRows(store') /\ (misread' \/ \A b \in Ids(store) : b \in Ids(store'))
  <2>1. CASE r.state = "done"
    <3>1. store' = r.rows /\ IsRows(r.rows)
      BY <1>1, <2>1 DEF ReorderAnswered, Adopt, ShowFrom, IsRequest
    <3>2. misread' \/ Contents(r.rows) = Contents(store)
      BY <1>1, <1>2, <2>1 DEF ReplacesMore, Listing
    <3> QED
      BY <3>1, <3>2, ContentsTell
  <2>2. CASE r.state # "done"
    <3>1. store' = store
      BY <2>2 DEF ReorderAnswered
    <3> QED
      BY <1>1, <3>1
  <2> QED
    BY <2>1, <2>2
<1> QED
  BY <1>1, <1>2, <1>3, <1>4, <1>5, AnsweredKeeps

LEMMA RelistedKeeps ==
  ASSUME EditorInv, NEW i \in DOMAIN flight, Reply(i), Relisted(i)
  PROVE  EditorInv'
<1> DEFINE r == flight[i]
           row == applying.inverse.row
<1>1. /\ UNCHANGED <<table, made>> /\ (misread => misread') /\ IsRequest(r)
      /\ HistoryInv /\ IsOp(applying.inverse) /\ IsRows(store)
      /\ OfUndo(r, applying) /\ (misread' \/ ~ReplacesMore(r))
  BY ReplyIs
<1>2. r.kind = "relist" /\ Brings(r) /\ r.state = "done" /\ Undoes(r)
  BY <1>1 DEF Relisted, Answered, Brings, OfUndo
<1>3. IsSeq(flight') /\ IsSeq(held') /\ Same(Others(i), UnderWay')
  BY SettledIs DEF Relisted
<1>4. HistoryInv'
  BY <1>1, FinishKeeps DEF Relisted
<1>5. store' = r.rows /\ IsRows(store')
  BY <1>1 DEF Relisted, Adopt, ShowFrom, IsRequest
<1>6. misread' \/ /\ \A b \in Ids(store) : b \in Ids(store')
                  /\ row.id \in Ids(store')
  <2> DEFINE again == <<row>>
  <2>1. misread' \/ Contents(r.rows) = Contents(store) \union Contents(again)
    BY <1>1, <1>2 DEF ReplacesMore, Listing
  <2>2. DOMAIN again = {1} /\ again[1] = row
    OBVIOUS
  <2> HIDE DEF again, row
  <2>3. row.id \in Ids(again)
    BY <2>2 DEF Ids
  <2> QED
    BY <1>5, <2>1, <2>3, ContentsTell
<1> QED
  BY <1>1, <1>2, <1>3, <1>4, <1>5, <1>6, AnsweredKeeps

LEMMA UndoFailedKeeps ==
  ASSUME EditorInv, NEW i \in DOMAIN flight, Reply(i), UndoFailed(i)
  PROVE  EditorInv'
<1> DEFINE r == flight[i]
<1>1. /\ UNCHANGED <<table, made>> /\ (misread => misread') /\ HistoryInv /\ IsRows(store)
      /\ OfUndo(r, applying) /\ (misread' \/ ~Answered(i, "relist", "refused"))
  BY ReplyIs
<1>2. r.kind \in {"recreate", "relist"} /\ r.state = "refused" /\ Undoes(r)
  BY <1>1 DEF UndoFailed, Brings, OfUndo
<1>3. IsSeq(flight') /\ IsSeq(held') /\ Same(Others(i), UnderWay')
  BY SettledIs DEF UndoFailed
<1>4. HistoryInv' /\ store' = store
  BY <1>1, IdleIs DEF UndoFailed, HistoryInv
<1>5. misread' \/ r.kind = "recreate"
  BY <1>1, <1>2 DEF Answered
<1>6. IsRows(store') /\ Ids(store') = Ids(store)
  BY <1>1, <1>4
<1> QED
  BY <1>1, <1>2, <1>3, <1>4, <1>5, <1>6, AnsweredKeeps

\* The block is there again, and a listing is asked for.
Relisting(i) == [Request("relist", NoRow) EXCEPT !.by = flight[i].by]

LEMMA RecreatedIs ==
  ASSUME EditorInv, NEW i \in DOMAIN flight, Recreated(i)
  PROVE  LET g == RemoveAt(flight, i)
             R == <<Relisting(i)>>
         IN  /\ IsSeq(g) /\ IsSeq(R) /\ flight' = g \o R /\ held' = held
             /\ IsSeq(flight') /\ Same(Beside(Others(i), R), UnderWay')
<1> DEFINE g == RemoveAt(flight, i)
           r == Relisting(i)
           R == <<r>>
           f == Append(g, r)
           c == g \o R
<1>1. IsSeq(g)
  BY IsSeqDomain, RemoveAtIs DEF EditorInv
<1>2. flight' = f /\ held' = held
  BY DEF Recreated, Relisting
<1>3. IsSeq(R) /\ Len(R) = 1 /\ R[1] = r
  BY DEF IsSeq
<1> HIDE DEF R, g, r
<1>4. Len(g) \in Nat /\ DOMAIN g = 1..Len(g)
  BY <1>1, IsSeqDomain
<1>5. /\ IsSeq(f) /\ Len(f) = Len(g) + 1 /\ f[Len(g) + 1] = r
      /\ \A k \in 1..Len(g) : f[k] = g[k]
  BY <1>1, AppendIs
<1>6. /\ IsSeq(c) /\ Len(c) = Len(g) + 1
      /\ \A k \in 1..Len(g) + 1 : c[k] = IF k <= Len(g) THEN g[k] ELSE R[k - Len(g)]
  <2>1. /\ IsSeq(c) /\ Len(c) = Len(g) + Len(R)
        /\ \A k \in 1..Len(g) + Len(R) : c[k] = IF k <= Len(g) THEN g[k] ELSE R[k - Len(g)]
    BY <1>1, <1>3, CatIs, Zenon DEF c
  <2> QED
    BY <1>3, <2>1
<1> HIDE DEF f, c
<1>7. c = f
  <2>1. c = [k \in 1..Len(g) + 1 |-> c[k]] /\ f = [k \in 1..Len(g) + 1 |-> f[k]]
    BY <1>5, <1>6 DEF IsSeq
  <2>2. ASSUME NEW k \in 1..Len(g) + 1 PROVE c[k] = f[k]
    <3>1. CASE k \in 1..Len(g)
      BY <1>4, <1>5, <1>6, <3>1
    <3>2. CASE k = Len(g) + 1
      BY <1>3, <1>4, <1>5, <1>6, <3>2
    <3> QED
      BY <1>4, <3>1, <3>2
  <2> QED
    BY <2>1, <2>2
<1>8. Same(Beside(Beside(g, held), R), Beside(f, held))
  <2>1. Same(Beside(g, R), f)
    BY <1>1, <1>3, <1>7, BesideCat DEF c
  <2>2. Same(Beside(Beside(g, held), R), Beside(g, Beside(held, R)))
    BY BesideGroups
  <2>3. Same(Beside(g, Beside(held, R)), Beside(g, Beside(R, held)))
    BY BesideTurns, SameItself, SameBeside, Zenon
  <2>4. Same(Beside(g, Beside(R, held)), Beside(Beside(g, R), held))
    BY BesideGroups, SameTurns, Zenon
  <2>5. Same(Beside(Beside(g, R), held), Beside(f, held))
    BY <2>1, SameItself, SameBeside, Zenon
  <2> QED
    BY <2>2, <2>3, <2>4, <2>5, SameGoesOn, Zenon
<1>9. Others(i) = Beside(g, held) /\ UnderWay' = Beside(f, held)
  BY <1>2 DEF Others, UnderWay, g
<1> QED
  BY <1>1, <1>2, <1>3, <1>5, <1>7, <1>8, <1>9 DEF g, r, R, c

LEMMA RecreatedKeeps ==
  ASSUME EditorInv, NEW i \in DOMAIN flight, Reply(i), Recreated(i)
  PROVE  EditorInv'
<1> DEFINE q == flight[i]
           r == Relisting(i)
<1>1. UNCHANGED <<table, made>> /\ (misread => misread') /\ HistoryInv
  BY ReplyIs
<1>2. q.kind = "recreate" /\ UNCHANGED <<store, history, held>> /\ IsSeq(held)
  BY DEF Recreated, Answered, EditorInv
<1>3. IsRequest(r) /\ r.kind = "relist" /\ r.by = q.by
  BY NoRowIs, RequestIs, PostIs DEF Relisting
<1>4. IsSeq(flight') /\ Same(Beside(Others(i), <<r>>), UnderWay')
  BY RecreatedIs
<1>5. Sound(Beside(Others(i), <<q>>), DOMAIN table, made, applying, Ids(store), misread)
  BY ToldApart
<1> HIDE DEF q, r
<1>6. Sound(Beside(Others(i), <<r>>), DOMAIN table, made, applying, Ids(store), misread)
  BY <1>2, <1>3, <1>5, Follows
<1>7. Sound(UnderWay', DOMAIN table, made, applying, Ids(store), misread)
  BY <1>4, <1>6, SoundAnywhere, Zenon
<1>8. HistoryInv' /\ applying' = applying
  BY <1>1, <1>2, HistoryStays
<1>9. Sound(UnderWay', DOMAIN table', made', applying', Ids(store'), misread')
  BY <1>1, <1>2, <1>7, <1>8 DEF Sound
<1> QED
  BY <1>1, <1>2, <1>4, <1>8, <1>9 DEF EditorInv

LEMMA ReplyKeeps ==
  ASSUME EditorInv, NEW i \in DOMAIN flight, Reply(i)
  PROVE  EditorInv'
<1>1. \/ Created(i) \/ CreateFailed(i) \/ UpdateFailed(i)
      \/ Deleted(i) \/ DeleteFailed(i) \/ ReorderAnswered(i)
      \/ Recreated(i) \/ Relisted(i) \/ UndoFailed(i)
  BY DEF Reply
<1> QED
  BY <1>1, CreateAnsweredKeeps, UpdateFailedKeeps, DeleteAnsweredKeeps,
     ReorderAnsweredKeeps, RecreatedKeeps, RelistedKeeps, UndoFailedKeeps

-----------------------------------------------------------------------------
(* Every step keeps the invariant.                                         *)

LEMMA StepKeeps ==
  ASSUME EditorInv, [EditorNext]_editorVars
  PROVE  EditorInv'
<1>1. ASSUME NEW b, Type(b) \/ MakeList(b)
      PROVE  EditorInv'
  BY <1>1, EditKeeps DEF Type, MakeList
<1>2. CASE Blur \/ \E b \in Block : Click(b)
  <2>1. UNCHANGED <<table, made, store, flight, held, history, misread>>
    BY <1>2 DEF Blur, Click, bounds, marks
  <2> QED
    BY <2>1, Unmoved DEF EditorInv
<1>3. CASE UNCHANGED editorVars
  <2>1. UNCHANGED <<table, made, store, flight, held, history, misread>>
    BY <1>3 DEF editorVars, bounds, marks
  <2> QED
    BY <2>1, Unmoved DEF EditorInv
<1>4. CASE Restructure
  <2>1. CASE \E b \in Block, k \in 0..typed : Enter(b, k) \/ ModEnter(b, k)
    BY <2>1, EnterKeeps
  <2>2. CASE \E b \in Block : InsertBlockAfter(b)
    BY <2>2, CreationKeeps
  <2>3. CASE \E i \in DOMAIN store : Backspace(i) \/ ForwardDelete(i)
    BY <2>3, BackspaceKeeps
  <2> QED
    BY <1>4, <2>1, <2>2, <2>3 DEF Restructure
<1>5. CASE Saving
  <2>1. CASE \E i \in DOMAIN flight : Serve(i) \/ Refuse(i) \/ Reply(i)
    BY <2>1, ServeKeeps, RefuseKeeps, ReplyKeeps
  <2>2. CASE \E b \in Block : TimerFires(b)
    BY <2>2, TimerKeeps
  <2> QED
    BY <1>5, <2>1, <2>2 DEF Saving
<1>6. ASSUME NEW b \in Block, LeaveList(b) \/ DuplicateBlock(b) \/ RemoveBlock(b)
      PROVE  EditorInv'
  BY <1>6, LeaveListKeeps, CreationKeeps, RemoveKeeps
<1>7. ASSUME NEW i \in DOMAIN store, MoveBlock(i)
      PROVE  EditorInv'
  BY <1>7, MoveKeeps
<1> QED
  BY <1>1, <1>2, <1>3, <1>4, <1>5, <1>6, <1>7, UndoKeeps DEF EditorNext

\* Nothing under way: what is stored is on the screen.
LEMMA QuietHidesNothing == EditorInv => NothingHidden
<1> SUFFICES ASSUME EditorInv, Quiet, ~misread, NEW b \in DOMAIN table
             PROVE  b \in Ids(store)
  BY DEF NothingHidden
<1>1. DOMAIN UnderWay = {}
  BY DEF Quiet, UnderWay, Beside
<1>2. ~Going(UnderWay, b) /\ ~Returning(UnderWay, applying, b)
  BY <1>1 DEF Going, Returning
<1>3. b \in 1..made
  BY DEF EditorInv, IsTable
<1> QED
  BY <1>2, <1>3 DEF EditorInv, Sound, Accounted

\* Once the network is quiet, no block the server keeps is missing from the
\* screen (BlockEditor.tsx, blockStore.ts, historyStore.ts): whatever number
\* of blocks, gestures and undos, of requests on the wire and held back, and
\* of refusals, and in whatever order the requests are served and answered.
THEOREM NoBlockIsHidden == EditorSpec => []NothingHidden
<1>1. EditorInv /\ [EditorNext]_editorVars => EditorInv'
  BY StepKeeps
<1> QED
  BY <1>1, InitKeeps, QuietHidesNothing, PTL DEF EditorSpec

\* A request that is to create a block carries an id no stored block has, so
\* that createBlock never meets a row of that id: ids are chosen once, and a
\* creation is sent once.
CreationsAreNew ==
  \A i \in DOMAIN flight :
    flight[i].kind \in {"create", "recreate"} /\ flight[i].state = "sent"
      => flight[i].row.id \notin DOMAIN table

THEOREM NoIdIsCreatedTwice == EditorSpec => []CreationsAreNew
<1>1. EditorInv /\ [EditorNext]_editorVars => EditorInv'
  BY StepKeeps
<1>2. EditorInv => CreationsAreNew
  <2> SUFFICES ASSUME EditorInv, NEW i \in DOMAIN flight,
                      flight[i].kind \in {"create", "recreate"}, flight[i].state = "sent"
               PROVE  flight[i].row.id \notin DOMAIN table
    BY DEF CreationsAreNew
  <2> DEFINE r == flight[i]
  <2>1. Sound(Beside(Others(i), <<r>>), DOMAIN table, made, applying, Ids(store), misread)
    BY ToldApart
  <2>2. r.kind \in {"create", "recreate"} /\ r.state = "sent"
    OBVIOUS
  <2> HIDE DEF r
  <2>3. CreatesNew(r, DOMAIN table, made)
    <3>1. SoundWith(Others(i), r, DOMAIN table, made, applying, Ids(store), misread)
      BY <2>1, SoundTogether, Zenon
    <3> QED
      BY <3>1 DEF SoundWith
  <2>4. r.row.id \notin DOMAIN table
    BY <2>2, <2>3 DEF CreatesNew, Creates
  <2> QED
    BY <2>4 DEF r
<1> QED
  BY <1>1, <1>2, InitKeeps, PTL DEF EditorSpec

\* The requests of an undo or a redo are out one at a time, and only while the
\* history store holds it as the one in progress: no answer is taken for that
\* of another undo (undo and redo of historyStore.ts return while applying).
OneUndoAtATime ==
  /\ \A i \in DOMAIN flight : flight[i].by # "user" => applying # Idle
  /\ \A i, j \in DOMAIN flight :
       flight[i].by # "user" /\ flight[j].by # "user" => i = j

THEOREM UndosAreOneAtATime == EditorSpec => []OneUndoAtATime
<1>1. EditorInv /\ [EditorNext]_editorVars => EditorInv'
  BY StepKeeps
<1>2. EditorInv => OneUndoAtATime
  <2> SUFFICES ASSUME EditorInv PROVE OneUndoAtATime
    OBVIOUS
  <2> DEFINE Q == Beside(flight, held)
             at(i) == <<1, i>>
  <2>1. OneUndo(Q, applying)
    BY DEF EditorInv, Sound, UnderWay
  <2>2. /\ \A i \in DOMAIN flight : at(i) \in DOMAIN Q /\ Q[at(i)] = flight[i]
        /\ \A i, j \in DOMAIN flight : at(i) = at(j) => i = j
    BY BesideIs
  <2> HIDE DEF Q, at
  <2> QED
    BY <2>1, <2>2 DEF OneUndo, OfUndo, Undoes, OneUndoAtATime
<1> QED
  BY <1>1, <1>2, InitKeeps, PTL DEF EditorSpec

-----------------------------------------------------------------------------
(* The requests on the wire, as a set.                                     *)

LEMMA SetOfCat ==
  ASSUME NEW s, IsSeq(s), NEW t, IsSeq(t)
  PROVE  ToSet(s \o t) = ToSet(s) \union ToSet(t)
<1> DEFINE c == s \o t
<1>1. /\ Len(s) \in Nat /\ DOMAIN s = 1..Len(s)
      /\ Len(t) \in Nat /\ DOMAIN t = 1..Len(t)
  BY IsSeqDomain
<1>2. /\ IsSeq(c) /\ Len(c) = Len(s) + Len(t)
      /\ \A i \in 1..Len(s) + Len(t) : c[i] = IF i <= Len(s) THEN s[i] ELSE t[i - Len(s)]
  BY CatIs
<1>3. DOMAIN c = 1..Len(s) + Len(t)
  BY <1>2, IsSeqDomain
<1> HIDE DEF c
<1>4. ASSUME NEW i \in DOMAIN c
      PROVE  c[i] \in ToSet(s) \union ToSet(t)
  <2>1. CASE i <= Len(s)
    BY <1>1, <1>2, <1>3, <2>1 DEF ToSet
  <2>2. CASE ~(i <= Len(s))
    <3>1. i - Len(s) \in DOMAIN t /\ c[i] = t[i - Len(s)]
      BY <1>1, <1>2, <1>3, <2>2
    <3> QED
      BY <3>1 DEF ToSet
  <2> QED
    BY <2>1, <2>2
<1>5. ASSUME NEW i \in DOMAIN s
      PROVE  s[i] \in ToSet(c)
  BY <1>1, <1>2, <1>3 DEF ToSet
<1>6. ASSUME NEW i \in DOMAIN t
      PROVE  t[i] \in ToSet(c)
  <2>1. Len(s) + i \in DOMAIN c /\ c[Len(s) + i] = t[i]
    BY <1>1, <1>2, <1>3
  <2> QED
    BY <2>1 DEF ToSet
<1>7. ToSet(c) = ToSet(s) \union ToSet(t)
  BY <1>4, <1>5, <1>6 DEF ToSet
<1> QED
  BY <1>7 DEF c

LEMMA SetOfPicked ==
  ASSUME NEW s, IsSeq(s), NEW I, I \subseteq DOMAIN s
  PROVE  ToSet(Picked(s, I)) = {s[i] : i \in I}
<1> DEFINE u == Picked(s, I)
<1>1. \E g : Picks(u, s, I, g)
  BY PickedIs
<1> HIDE DEF u
<1>2. PICK g : Picks(u, s, I, g)
  BY <1>1
<1>3. ToSet(u) = {s[i] : i \in I}
  BY <1>2 DEF Picks, ToSet
<1> QED
  BY <1>3 DEF u

\* The requests on the wire besides the one at i.
Rest(f, i) == {f[j] : j \in DOMAIN f \ {i}}

LEMMA SetOfRest ==
  ASSUME NEW f, IsSeq(f), NEW i \in DOMAIN f
  PROVE  ToSet(RemoveAt(f, i)) = Rest(f, i) /\ ToSet(f) = Rest(f, i) \union {f[i]}
<1> DEFINE g == RemoveAt(f, i)
<1>1. Len(f) \in Nat /\ DOMAIN f = 1..Len(f)
  BY IsSeqDomain
<1>2. /\ IsSeq(g) /\ Len(g) = Len(f) - 1
      /\ \A j \in 1..Len(f) - 1 : g[j] = IF j < i THEN f[j] ELSE f[j + 1]
  <2>1. i \in 1..Len(f)
    BY <1>1
  <2> QED
    BY <2>1, RemoveAtIs, Zenon
<1>3. DOMAIN g = 1..Len(f) - 1
  BY <1>2, IsSeqDomain
<1> HIDE DEF g
<1>4. ASSUME NEW j \in DOMAIN g
      PROVE  g[j] \in Rest(f, i)
  <2>1. CASE j < i
    <3>1. g[j] = f[j] /\ j \in DOMAIN f \ {i}
      BY <1>1, <1>2, <1>3, <2>1
    <3> QED
      BY <3>1 DEF Rest
  <2>2. CASE ~(j < i)
    <3>1. g[j] = f[j + 1] /\ j + 1 \in DOMAIN f \ {i}
      BY <1>1, <1>2, <1>3, <2>2
    <3> QED
      BY <3>1 DEF Rest
  <2> QED
    BY <2>1, <2>2
<1>5. ASSUME NEW j \in DOMAIN f \ {i}
      PROVE  f[j] \in ToSet(g)
  <2>1. CASE j < i
    <3>1. g[j] = f[j] /\ j \in DOMAIN g
      BY <1>1, <1>2, <1>3, <2>1
    <3> QED
      BY <3>1 DEF ToSet
  <2>2. CASE ~(j < i)
    <3>1. g[j - 1] = f[j] /\ j - 1 \in DOMAIN g
      BY <1>1, <1>2, <1>3, <2>2
    <3> QED
      BY <3>1 DEF ToSet
  <2> QED
    BY <2>1, <2>2
<1>6. ToSet(g) = Rest(f, i)
  BY <1>4, <1>5 DEF ToSet, Rest
<1> QED
  BY <1>6 DEF ToSet, Rest, g

-----------------------------------------------------------------------------
(* While nothing is refused and no listing goes astray, no save comes to   *)
(* nothing.                                                                *)

Writes(r) == r.kind \in {"update", "delete"}

\* Wherever the requests Q under way are: what is being deleted is off the
\* screen (its ids) and deleted by one request; the block an undo brings
\* back has never been on it, or written to.  tm are the timers.
Undisturbed(Q, T, n, back, ids, tm) ==
  /\ ids \subseteq 1..n /\ tm \subseteq 1..n
  /\ \A p \in DOMAIN Q : Writes(Q[p]) => Q[p].row.id \in 1..n
  /\ \A p \in DOMAIN Q : \A b \in ids : ~Removing(Q[p], b)
  /\ \A p, q \in DOMAIN Q : \A b : Removing(Q[p], b) /\ Removing(Q[q], b) => p = q
  /\ \A p, q \in DOMAIN Q : Brings(Q[p]) /\ Writes(Q[q]) => Q[q].row.id # back
  /\ \A p \in DOMAIN Q : Brings(Q[p]) =>
       back \in 1..n /\ back \notin ids /\ back \notin tm /\ (Q[p].kind = "relist" => back \in T)

\* On the wire (F) a creation comes before the writes to its block; those that
\* came too early are held (H).
InTurn(F, H, T, ids) ==
  /\ \A b \in ids : b \in T \/ \E q \in F : Creating(q, b)
  /\ \A q \in F : Creates(q) =>
       q.state # "refused" /\ (q.state = "done" => q.row.id \in T)
  /\ \A q, r \in F : q.kind = "create" /\ Writes(r) => q.row.id # r.row.id
  /\ \A q \in H : Writes(q) /\ q.state = "sent"
  /\ \A q \in F : q.kind = "delete" =>
       q.state # "refused" /\ (q.state = "sent" => q.row.id \in T)
  /\ \A q \in F : q.kind = "update" /\ q.state = "refused" => q.row.id \notin ids

Back == applying.inverse.row.id

CalmInv ==
  /\ 1..made \subseteq Block /\ shown = [b \in Block |-> shown[b]]
  /\ \/ misread \/ refused
     \/ /\ Undisturbed(UnderWay, DOMAIN table, made, Back, Ids(store), timers)
        /\ InTurn(ToSet(flight), ToSet(held), DOMAIN table, Ids(store))

LEMMA UndisturbedAnywhere ==
  ASSUME NEW Q, NEW R, Same(Q, R), NEW T, NEW n, NEW back, NEW ids, NEW tm,
         Undisturbed(Q, T, n, back, ids, tm)
  PROVE  Undisturbed(R, T, n, back, ids, tm)
<1>1. PICK m, w : Pairs(m, w, Q, R)
  BY DEF Same
<1>2. \A p \in DOMAIN R : w[p] \in DOMAIN Q /\ R[p] = Q[w[p]] /\ m[w[p]] = p
  BY <1>1 DEF Pairs
<1>3. ASSUME NEW p \in DOMAIN R, NEW q \in DOMAIN R, NEW b, Removing(R[p], b), Removing(R[q], b)
      PROVE  p = q
  <2>1. w[p] = w[q]
    BY <1>2, <1>3 DEF Undisturbed
  <2> QED
    BY <1>2, <2>1
<1>4. \A p, q \in DOMAIN R : Brings(R[p]) /\ Writes(R[q]) => R[q].row.id # back
  BY <1>2 DEF Undisturbed
<1>5. \A p \in DOMAIN R : \A b \in ids : ~Removing(R[p], b)
  BY <1>2 DEF Undisturbed
<1>6. \A p \in DOMAIN R : Writes(R[p]) => R[p].row.id \in 1..n
  BY <1>2 DEF Undisturbed
<1>7. \A p \in DOMAIN R : Brings(R[p]) =>
        back \in 1..n /\ back \notin ids /\ back \notin tm /\ (R[p].kind = "relist" => back \in T)
  BY <1>2 DEF Undisturbed
<1> QED
  BY <1>3, <1>4, <1>5, <1>6, <1>7 DEF Undisturbed

LEMMA CalmInit == EditorInit => CalmInv
<1> SUFFICES ASSUME EditorInit PROVE CalmInv
  OBVIOUS
<1>1. opening \in 1..MaxOpening /\ made = opening /\ MaxOpening \in Nat
  BY OpeningAssumption DEF EditorInit
<1>2. 1..made \subseteq Block
  BY <1>1, OpeningAssumption
<1>3. shown = [b \in Block |-> shown[b]]
  BY DEF EditorInit
<1>4. DOMAIN table = 1..made /\ timers = {} /\ flight = <<>> /\ held = <<>>
  BY DEF EditorInit
<1>5. Ids(store) = 1..made
  <2>1. DOMAIN store = 1..opening /\ \A b \in 1..opening : store[b].id = b
    BY DEF EditorInit, OpeningRow, StoreRow
  <2> QED
    BY <1>1, <2>1 DEF Ids
<1>6. DOMAIN UnderWay = {}
  BY <1>4 DEF UnderWay, Beside
<1>7. Undisturbed(UnderWay, DOMAIN table, made, Back, Ids(store), timers)
  BY <1>4, <1>5, <1>6 DEF Undisturbed
<1>8. ToSet(<<>>) = {}
  BY DEF ToSet
<1>9. InTurn(ToSet(flight), ToSet(held), DOMAIN table, Ids(store))
  BY <1>4, <1>5, <1>8 DEF InTurn
<1> QED
  BY <1>2, <1>3, <1>7, <1>9 DEF CalmInv

-----------------------------------------------------------------------------
(* What a gesture sends.  The client has chosen n ids before it and n2     *)
(* after it; ids are the blocks on the screen and tm the pending saves,    *)
(* ids2 and tm2 those after it, and back2 the block an undo then brings.   *)

Asks(r, n, ids, tm, n2, back2, ids2) ==
  /\ r.state = "sent" /\ r.kind # "relist"
  /\ Writes(r) => r.row.id \in ids \union tm
  /\ r.kind = "delete" => r.row.id \in ids \ ids2
  /\ Creates(r) => r.row.id = n + 1 /\ n2 = n + 1
  /\ r.kind = "recreate" => back2 = n + 1 /\ ids2 = ids
Asked(R, n, ids, tm, n2, back2, ids2) ==
  /\ \A p \in DOMAIN R : Asks(R[p], n, ids, tm, n2, back2, ids2)
  /\ \A p, q \in DOMAIN R : R[p].kind = "delete" /\ R[q].kind = "delete" => p = q

\* The screen gains the block created at most.
Gains(R, n, ids, n2, ids2) ==
  \A b \in ids2 : b \in ids \/ (b = n + 1 /\ n2 = n + 1 /\ \E p \in DOMAIN R : R[p].kind = "create")

LEMMA SendsUndisturbed ==
  ASSUME NEW Q, NEW T, NEW n \in Nat, NEW back, NEW ids, NEW tm,
         Undisturbed(Q, T, n, back, ids, tm),
         NEW R, NEW n2, n2 = n \/ n2 = n + 1, NEW back2, NEW ids2, NEW tm2,
         Asked(R, n, ids, tm, n2, back2, ids2), Gains(R, n, ids, n2, ids2),
         tm2 \subseteq tm \union ids,
         back2 = back \/ \A p \in DOMAIN Q : ~Brings(Q[p])
  PROVE  Undisturbed(Beside(Q, R), T, n2, back2, ids2, tm2)
<1> DEFINE B == Beside(Q, R)
           Old(p) == \E x \in DOMAIN Q : B[p] = Q[x] /\ p = <<1, x>>
           New(p) == \E y \in DOMAIN R : B[p] = R[y] /\ p = <<2, y>>
<1>1. \A p \in DOMAIN B : Old(p) \/ New(p)
  BY BesideIs
<1> HIDE DEF B
<1>2. /\ ids \subseteq 1..n /\ tm \subseteq 1..n /\ 1..n \subseteq 1..n2 /\ n + 1 \notin 1..n
      /\ n2 = n + 1 => n + 1 \in 1..n2
  BY DEF Undisturbed
<1>3. ids2 \subseteq 1..n2 /\ tm2 \subseteq 1..n2
  BY <1>2 DEF Gains
<1>4. \A p \in DOMAIN B : Writes(B[p]) => B[p].row.id \in 1..n
  <2> SUFFICES ASSUME NEW p \in DOMAIN B, Writes(B[p]) PROVE B[p].row.id \in 1..n
    OBVIOUS
  <2>1. CASE Old(p)
    BY <2>1 DEF Undisturbed
  <2>2. CASE New(p)
    BY <1>2, <2>2 DEF Asked, Asks
  <2> QED
    BY <1>1, <2>1, <2>2
<1>5. ASSUME NEW p \in DOMAIN B, NEW b \in ids2 PROVE ~Removing(B[p], b)
  <2>1. CASE New(p)
    BY <2>1 DEF Asked, Asks, Removing
  <2>2. CASE Old(p) /\ b \in ids
    BY <2>2 DEF Undisturbed
  <2>3. CASE b = n + 1
    <3>1. Removing(B[p], b) => Writes(B[p]) /\ B[p].row.id = n + 1
      BY <2>3 DEF Removing, Writes
    <3> QED
      BY <1>2, <1>4, <3>1
  <2> QED
    BY <1>1, <2>1, <2>2, <2>3 DEF Gains
<1>6. ASSUME NEW p \in DOMAIN B, NEW q \in DOMAIN B, NEW b, Removing(B[p], b), Removing(B[q], b)
      PROVE  p = q
  <2>1. CASE Old(p) /\ Old(q)
    BY <1>6, <2>1 DEF Undisturbed
  <2>2. CASE New(p) /\ New(q)
    BY <1>6, <2>2 DEF Asked, Removing
  <2>3. ASSUME NEW x \in DOMAIN Q, NEW y \in DOMAIN R, Removing(Q[x], b), Removing(R[y], b)
        PROVE  FALSE
    <3>1. b \in ids
      BY <2>3 DEF Asked, Asks, Removing
    <3> QED
      BY <2>3, <3>1 DEF Undisturbed
  <2>4. CASE Old(p) /\ New(q)
    BY <1>6, <2>3, <2>4
  <2>5. CASE New(p) /\ Old(q)
    BY <1>6, <2>3, <2>5
  <2> QED
    BY <1>1, <2>1, <2>2, <2>4, <2>5
<1>7. ASSUME NEW p \in DOMAIN B, Brings(B[p])
      PROVE  /\ back2 \in 1..n2 /\ back2 \notin ids2 /\ back2 \notin tm2
             /\ B[p].kind = "relist" => back2 \in T
             /\ \A q \in DOMAIN B : Writes(B[q]) => B[q].row.id # back2
  <2>1. CASE Old(p)
    <3>1. PICK x \in DOMAIN Q : B[p] = Q[x]
      BY <2>1
    <3>2. back2 = back
      BY <1>7, <3>1
    <3>3. /\ back \in 1..n /\ back \notin ids /\ back \notin tm
          /\ Q[x].kind = "relist" => back \in T
      BY <1>7, <3>1 DEF Undisturbed
    <3>4. ASSUME NEW q \in DOMAIN B, Writes(B[q]) PROVE B[q].row.id # back
      <4>1. CASE Old(q)
        BY <1>7, <3>1, <3>4, <4>1 DEF Undisturbed
      <4>2. CASE New(q)
        BY <3>3, <3>4, <4>2 DEF Asked, Asks
      <4> QED
        BY <1>1, <4>1, <4>2
    <3>5. back \notin ids2
      BY <1>2, <3>3 DEF Gains
    <3> QED
      BY <1>2, <3>1, <3>2, <3>3, <3>4, <3>5
  <2>2. CASE New(p)
    <3>1. B[p].kind = "recreate" /\ back2 = n + 1 /\ ids2 = ids /\ n2 = n + 1
      BY <1>7, <2>2 DEF Asked, Asks, Brings, Creates
    <3> QED
      BY <1>2, <1>4, <3>1
  <2> QED
    BY <1>1, <2>1, <2>2
<1>8. Undisturbed(B, T, n2, back2, ids2, tm2)
  <2>1. \A p \in DOMAIN B : Writes(B[p]) => B[p].row.id \in 1..n2
    BY <1>2, <1>4
  <2>2. \A p, q \in DOMAIN B : Brings(B[p]) /\ Writes(B[q]) => B[q].row.id # back2
    BY <1>7
  <2>3. \A p \in DOMAIN B : Brings(B[p]) =>
          back2 \in 1..n2 /\ back2 \notin ids2 /\ back2 \notin tm2 /\ (B[p].kind = "relist" => back2 \in T)
    BY <1>7
  <2>4. \A p, q \in DOMAIN B : \A b : Removing(B[p], b) /\ Removing(B[q], b) => p = q
    BY <1>6
  <2>5. \A p \in DOMAIN B : \A b \in ids2 : ~Removing(B[p], b)
    BY <1>5
  <2> QED
    BY <1>3, <2>1, <2>2, <2>3, <2>4, <2>5 DEF Undisturbed
<1> QED
  BY <1>8 DEF B

LEMMA SendsInTurn ==
  ASSUME NEW f, IsSeq(f), NEW h, IsSeq(h), NEW T, NEW n \in Nat, NEW back, NEW ids, NEW tm,
         Undisturbed(Beside(f, h), T, n, back, ids, tm), InTurn(ToSet(f), ToSet(h), T, ids),
         NEW R, IsSeq(R), NEW n2, NEW back2, NEW ids2,
         Asked(R, n, ids, tm, n2, back2, ids2), Gains(R, n, ids, n2, ids2),
         NEW W, W = {p \in DOMAIN R : /\ Writes(R[p])
                                      /\ \E q \in ToSet(f) : q.kind = "create" /\ q.row.id = R[p].row.id}
  PROVE  InTurn(ToSet(f \o Picked(R, DOMAIN R \ W)), ToSet(h \o Picked(R, W)), T, ids2)
<1> DEFINE F == ToSet(f)
           H == ToSet(h)
           F2 == ToSet(f \o Picked(R, DOMAIN R \ W))
           H2 == ToSet(h \o Picked(R, W))
<1>1. F2 = F \union {R[p] : p \in DOMAIN R \ W} /\ H2 = H \union {R[p] : p \in W}
  <2>1. W \subseteq DOMAIN R /\ DOMAIN R \ W \subseteq DOMAIN R
    OBVIOUS
  <2>2. IsSeq(Picked(R, DOMAIN R \ W)) /\ IsSeq(Picked(R, W))
    BY <2>1, PickedIs, Zenon
  <2>3. /\ ToSet(Picked(R, DOMAIN R \ W)) = {R[p] : p \in DOMAIN R \ W}
        /\ ToSet(Picked(R, W)) = {R[p] : p \in W}
    BY <2>1, SetOfPicked, Zenon
  <2>4. F2 = F \union ToSet(Picked(R, DOMAIN R \ W)) /\ H2 = H \union ToSet(Picked(R, W))
    BY <2>2, SetOfCat, Zenon
  <2> QED
    BY <2>3, <2>4
<1>2. \A q \in F : Writes(q) => q.row.id \in 1..n
  <2> DEFINE B == Beside(f, h)
  <2>1. \A p \in DOMAIN B : Writes(B[p]) => B[p].row.id \in 1..n
    BY DEF Undisturbed
  <2>2. \A i \in DOMAIN f : <<1, i>> \in DOMAIN B /\ B[<<1, i>>] = f[i]
    BY DEF Beside
  <2> HIDE DEF B
  <2>3. \A i \in DOMAIN f : Writes(f[i]) => f[i].row.id \in 1..n
    BY <2>1, <2>2
  <2> QED
    BY <2>3 DEF ToSet
<1>3. ids \subseteq 1..n /\ tm \subseteq 1..n /\ n + 1 \notin 1..n
  BY DEF Undisturbed
<1>4. /\ \A q \in F2 : q \in F \/ \E p \in DOMAIN R \ W : q = R[p]
      /\ F \subseteq F2 /\ \A p \in DOMAIN R \ W : R[p] \in F2
      /\ \A q \in H2 : q \in H \/ \E p \in W : q = R[p]
  BY <1>1
<1>5. \A p \in DOMAIN R : Asks(R[p], n, ids, tm, n2, back2, ids2)
  BY DEF Asked
<1>6. \A p \in DOMAIN R : /\ p \in W => Writes(R[p])
                          /\ p \notin W /\ Writes(R[p]) =>
                               \A q \in F : q.kind = "create" => q.row.id # R[p].row.id
  OBVIOUS
<1>7. InTurn(F, H, T, ids)
  OBVIOUS
<1> HIDE DEF F, H, F2, H2
<1>8. ASSUME NEW b \in ids2 PROVE b \in T \/ \E q \in F2 : Creating(q, b)
  <2>1. CASE b \in ids
    BY <1>4, <1>7, <2>1 DEF InTurn
  <2>2. ASSUME b = n + 1, NEW p \in DOMAIN R, R[p].kind = "create" PROVE \E q \in F2 : Creating(q, b)
    <3>1. Creating(R[p], b)
      BY <1>5, <2>2 DEF Asks, Creates, Creating
    <3>2. p \notin W
      BY <1>6, <2>2 DEF Writes
    <3> QED
      BY <1>4, <3>1, <3>2
  <2> QED
    BY <2>1, <2>2 DEF Gains
<1>9. \A q \in F2 : Creates(q) => q.state # "refused" /\ (q.state = "done" => q.row.id \in T)
  BY <1>4, <1>5, <1>7 DEF InTurn, Asks
<1>10. ASSUME NEW q \in F2, NEW r \in F2, q.kind = "create", Writes(r) PROVE q.row.id # r.row.id
  <2>1. CASE q \in F /\ r \in F
    BY <1>7, <1>10, <2>1 DEF InTurn
  <2>2. ASSUME q \in F, NEW p \in DOMAIN R \ W, r = R[p] PROVE q.row.id # r.row.id
    BY <1>6, <1>10, <2>2
  <2>3. ASSUME NEW p \in DOMAIN R, q = R[p] PROVE q.row.id # r.row.id
    <3>1. q.row.id = n + 1
      BY <1>5, <1>10, <2>3 DEF Asks, Creates
    <3>2. r.row.id \in 1..n
      <4>1. CASE r \in F
        BY <1>2, <1>10, <4>1
      <4>2. ASSUME NEW o \in DOMAIN R, r = R[o] PROVE r.row.id \in 1..n
        BY <1>3, <1>5, <1>10, <4>2 DEF Asks
      <4> QED
        BY <1>4, <4>1, <4>2
    <3> QED
      BY <1>3, <3>1, <3>2
  <2> QED
    BY <1>4, <2>1, <2>2, <2>3
<1>11. \A q \in H2 : Writes(q) /\ q.state = "sent"
  BY <1>4, <1>5, <1>6, <1>7 DEF InTurn, Asks
<1>12. ASSUME NEW q \in F2, q.kind = "delete"
       PROVE  q.state # "refused" /\ (q.state = "sent" => q.row.id \in T)
  <2>1. CASE q \in F
    BY <1>7, <1>12, <2>1 DEF InTurn
  <2>2. ASSUME NEW p \in DOMAIN R \ W, q = R[p] PROVE q.state = "sent" /\ q.row.id \in T
    <3>1. q.state = "sent" /\ q.row.id \in ids /\ Writes(q)
      BY <1>5, <1>12, <2>2 DEF Asks, Writes
    <3>2. \A c \in F : ~Creating(c, q.row.id)
      BY <1>6, <2>2, <3>1 DEF Creating
    <3> QED
      BY <1>7, <3>1, <3>2 DEF InTurn
  <2> QED
    BY <1>4, <2>1, <2>2
<1>13. ASSUME NEW q \in F2, q.kind = "update", q.state = "refused" PROVE q.row.id \notin ids2
  <2>1. q \in F
    BY <1>4, <1>5, <1>13 DEF Asks
  <2>2. q.row.id \notin ids /\ q.row.id \in 1..n
    BY <1>2, <1>7, <1>13, <2>1 DEF InTurn, Writes
  <2> QED
    BY <1>3, <2>2 DEF Gains
<1>14. InTurn(F2, H2, T, ids2)
  BY <1>8, <1>9, <1>10, <1>11, <1>12, <1>13 DEF InTurn
<1> QED
  BY <1>14 DEF F2, H2

LEMMA GestureStaysCalm ==
  ASSUME EditorInv, CalmInv, NEW R, IsSeq(R), Send(R),
         UNCHANGED <<table, misread, refused>>, made' = made \/ ChooseId,
         shown' = [b \in Block |-> shown'[b]], timers' \subseteq timers \union Ids(store),
         applying' = applying \/ applying = Idle,
         Asked(R, made, Ids(store), timers, made', Back', Ids(store')),
         Gains(R, made, Ids(store), made', Ids(store'))
  PROVE  CalmInv'
<1>1. PICK n2 : n2 = made'
  OBVIOUS
<1>2. PICK ids2 : ids2 = Ids(store')
  OBVIOUS
<1>3. PICK back2 : back2 = Back'
  OBVIOUS
<1>4. PICK tm2 : tm2 = timers'
  OBVIOUS
<1>5. IsSeq(flight) /\ IsSeq(held) /\ made \in Nat
  BY DEF EditorInv, IsTable
<1>6. n2 = made \/ (n2 = made + 1 /\ n2 \in Block)
  BY <1>1 DEF ChooseId, Fresh
<1>7. 1..n2 \subseteq Block
  BY <1>5, <1>6 DEF CalmInv
<1>8. /\ Asked(R, made, Ids(store), timers, n2, back2, ids2) /\ Gains(R, made, Ids(store), n2, ids2)
      /\ tm2 \subseteq timers \union Ids(store)
  BY <1>1, <1>2, <1>3, <1>4
<1>9. CASE misread \/ refused
  BY <1>1, <1>7, <1>9 DEF CalmInv
<1>10. CASE /\ Undisturbed(UnderWay, DOMAIN table, made, Back, Ids(store), timers)
            /\ InTurn(ToSet(flight), ToSet(held), DOMAIN table, Ids(store))
  <2> DEFINE W == {p \in DOMAIN R : /\ Writes(R[p])
                                    /\ \E q \in ToSet(flight) : q.kind = "create" /\ q.row.id = R[p].row.id}
  <2>1. W = {p \in DOMAIN R : AfterCreate(R[p])} /\ W \subseteq DOMAIN R
    BY DEF AfterCreate, InFlightCreate, Writes, ToSet
  <2>2. flight' = flight \o Picked(R, DOMAIN R \ W) /\ held' = held \o Picked(R, W)
    BY <2>1 DEF Send
  <2>3. PICK V : V = W
    OBVIOUS
  <2>4. InTurn(ToSet(flight \o Picked(R, DOMAIN R \ V)), ToSet(held \o Picked(R, V)), DOMAIN table, ids2)
    BY <1>5, <1>8, <1>10, <2>3, SendsInTurn DEF UnderWay
  <2>5. InTurn(ToSet(flight'), ToSet(held'), DOMAIN table', Ids(store'))
    BY <1>2, <2>2, <2>3, <2>4
  <2>6. V \subseteq DOMAIN R /\ flight' = flight \o Picked(R, DOMAIN R \ V) /\ held' = held \o Picked(R, V)
    BY <2>1, <2>2, <2>3
  <2> HIDE DEF W
  <2>7. back2 = Back \/ \A p \in DOMAIN UnderWay : ~Brings(UnderWay[p])
    <3>1. CASE applying' = applying
      BY <1>3, <3>1 DEF Back
    <3>2. CASE applying = Idle
      <4>1. OneUndo(UnderWay, Idle)
        BY <3>2 DEF EditorInv, Sound
      <4> QED
        BY <4>1, NoUndo, Zenon
    <3> QED
      BY <3>1, <3>2
  <2>8. Undisturbed(Beside(UnderWay, R), DOMAIN table, n2, back2, ids2, tm2)
    <3>1. n2 = made \/ n2 = made + 1
      BY <1>6
    <3> QED
      BY <1>5, <1>8, <1>10, <2>7, <3>1, SendsUndisturbed, Zenon
  <2>9. Same(Beside(UnderWay, R), UnderWay')
    <3>1. Same(Beside(Beside(flight, held), R),
               Beside(flight \o Picked(R, DOMAIN R \ V), held \o Picked(R, V)))
      BY <1>5, <2>6, Posted, Zenon
    <3> QED
      BY <2>6, <3>1 DEF UnderWay
  <2>10. PICK Q : Q = UnderWay'
    OBVIOUS
  <2>11. Undisturbed(Q, DOMAIN table, n2, back2, ids2, tm2)
    <3>1. Same(Beside(UnderWay, R), Q)
      BY <2>9, <2>10
    <3> QED
      BY <2>8, <3>1, UndisturbedAnywhere, Zenon
  <2>12. Undisturbed(UnderWay', DOMAIN table', made', Back', Ids(store'), timers')
    BY <1>1, <1>2, <1>3, <1>4, <2>10, <2>11
  <2> QED
    BY <1>1, <1>7, <2>5, <2>12 DEF CalmInv
<1> QED
  BY <1>9, <1>10 DEF CalmInv

\* One request of a gesture, or two.
LEMMA AskedOne ==
  ASSUME NEW r, NEW n, NEW ids, NEW tm, NEW n2, NEW back2, NEW ids2,
         Asks(r, n, ids, tm, n2, back2, ids2)
  PROVE  IsSeq(<<r>>) /\ Asked(<<r>>, n, ids, tm, n2, back2, ids2)
<1> DEFINE R == <<r>>
<1>1. IsSeq(R) /\ DOMAIN R = {1} /\ R[1] = r
  BY DEF IsSeq
<1> HIDE DEF R
<1>2. Asked(R, n, ids, tm, n2, back2, ids2)
  BY <1>1 DEF Asked
<1> QED
  BY <1>1, <1>2 DEF R

LEMMA AskedTwo ==
  ASSUME NEW a, NEW b, NEW n, NEW ids, NEW tm, NEW n2, NEW back2, NEW ids2,
         Asks(a, n, ids, tm, n2, back2, ids2), Asks(b, n, ids, tm, n2, back2, ids2),
         a.kind # "delete" \/ b.kind # "delete"
  PROVE  IsSeq(<<a, b>>) /\ Asked(<<a, b>>, n, ids, tm, n2, back2, ids2)
<1> DEFINE R == <<a, b>>
<1>1. IsSeq(R) /\ DOMAIN R = {1, 2} /\ R[1] = a /\ R[2] = b
  BY DEF IsSeq
<1> HIDE DEF R
<1>2. Asked(R, n, ids, tm, n2, back2, ids2)
  BY <1>1 DEF Asked
<1> QED
  BY <1>1, <1>2 DEF R

LEMMA CalmStays ==
  ASSUME CalmInv, UNCHANGED <<table, misread, refused, made, flight, held, applying>>,
         Ids(store') = Ids(store), timers' \subseteq timers \union Ids(store),
         shown' = [b \in Block |-> shown'[b]]
  PROVE  CalmInv'
<1>1. 1..made' \subseteq Block
  BY DEF CalmInv
<1>2. CASE misread \/ refused
  BY <1>1, <1>2 DEF CalmInv
<1>3. CASE /\ Undisturbed(UnderWay, DOMAIN table, made, Back, Ids(store), timers)
           /\ InTurn(ToSet(flight), ToSet(held), DOMAIN table, Ids(store))
  <2>1. UnderWay' = UnderWay /\ Back' = Back
    BY DEF UnderWay, Back
  <2>2. PICK tm : tm = timers'
    OBVIOUS
  <2>3. Undisturbed(UnderWay, DOMAIN table, made, Back, Ids(store), tm)
    BY <1>3, <2>2 DEF Undisturbed
  <2>4. Undisturbed(UnderWay', DOMAIN table', made', Back', Ids(store'), timers')
    BY <2>1, <2>2, <2>3
  <2>5. InTurn(ToSet(flight'), ToSet(held'), DOMAIN table', Ids(store'))
    BY <1>3
  <2> QED
    BY <1>1, <2>4, <2>5 DEF CalmInv
<1> QED
  BY <1>2, <1>3 DEF CalmInv

LEMMA ShownIs ==
  ASSUME NEW s, NEW display, NEW known, NEW focus, ShowFrom(s, display, known, focus)
  PROVE  store' = s /\ shown' = [b \in Block |-> shown'[b]]
  BY DEF ShowFrom

LEMMA EditIsCalm ==
  ASSUME EditorInv, CalmInv, NEW b \in Ids(store), NEW html, Edit(b, html)
  PROVE  CalmInv'
<1>1. Ids(store') = Ids(store)
  BY PutIs DEF EditorInv, Edit, SetLocalContent
<1>2. shown' = [c \in Block |-> shown'[c]]
  BY DEF Edit, CalmInv
<1>3. UNCHANGED <<table, misread, refused, made, flight, held, applying>>
  BY DEF Edit, marks, history
<1>4. timers' \subseteq timers \union Ids(store)
  BY DEF Edit
<1> QED
  BY <1>1, <1>2, <1>3, <1>4, CalmStays, Zenon

\* One request, the ids chosen and the undo in progress as they were.
LEMMA SendsOneCalmly ==
  ASSUME EditorInv, CalmInv, NEW r, Send(<<r>>),
         UNCHANGED <<table, misread, refused, made, timers>>,
         applying' = applying \/ applying = Idle,
         shown' = [b \in Block |-> shown'[b]],
         r.state = "sent", r.kind \in {"update", "delete", "reorder"},
         Writes(r) => r.row.id \in Ids(store),
         Ids(store') = IF r.kind = "delete" THEN Ids(store) \ {r.row.id} ELSE Ids(store)
  PROVE  CalmInv'
<1>1. PICK n2 : n2 = made'
  OBVIOUS
<1>2. PICK ids2 : ids2 = Ids(store')
  OBVIOUS
<1>3. PICK back2 : back2 = Back'
  OBVIOUS
<1>4. Asks(r, made, Ids(store), timers, n2, back2, ids2)
  BY <1>2 DEF Asks, Writes, Creates
<1>5. IsSeq(<<r>>) /\ Asked(<<r>>, made, Ids(store), timers, n2, back2, ids2)
  BY <1>4, AskedOne, Zenon
<1>6. Gains(<<r>>, made, Ids(store), n2, ids2)
  BY <1>2 DEF Gains
<1>7. /\ Asked(<<r>>, made, Ids(store), timers, made', Back', Ids(store'))
      /\ Gains(<<r>>, made, Ids(store), made', Ids(store'))
  BY <1>1, <1>2, <1>3, <1>5, <1>6
<1>8. timers' \subseteq timers \union Ids(store) /\ (made' = made \/ ChooseId)
  OBVIOUS
<1> QED
  BY <1>5, <1>7, <1>8, GestureStaysCalm, Zenon

\* A pending save may be of a block that has gone.
LEMMA TimerIsCalm ==
  ASSUME EditorInv, CalmInv, NEW b, TimerFires(b)
  PROVE  CalmInv'
<1>1. /\ UNCHANGED <<table, misread, refused, made, applying, shown>> /\ b \in timers
      /\ timers' \subseteq timers \union Ids(store)
  BY DEF TimerFires, history, bounds, marks
<1>2. shown' = [c \in Block |-> shown'[c]]
  BY <1>1 DEF CalmInv
<1>3. CASE SaveNeeded(b)
  <2> DEFINE r == Update(b, shown[b], LiveType(b))
  <2>1. Send(<<r>>) /\ store' = Put(store, b, shown[b], TypeOf(shown[b]))
    BY <1>3 DEF TimerFires, SetLocalContent
  <2>2. Ids(store') = Ids(store)
    BY <2>1, PutIs DEF EditorInv
  <2>3. r.kind = "update" /\ r.state = "sent" /\ r.row.id = b
    BY UpdateIs DEF EditorInv
  <2> HIDE DEF r
  <2>4. PICK n2 : n2 = made'
    OBVIOUS
  <2>5. PICK ids2 : ids2 = Ids(store')
    OBVIOUS
  <2>6. PICK back2 : back2 = Back'
    OBVIOUS
  <2>7. Asks(r, made, Ids(store), timers, n2, back2, ids2)
    BY <1>1, <2>3 DEF Asks, Writes, Creates
  <2>8. IsSeq(<<r>>) /\ Asked(<<r>>, made, Ids(store), timers, n2, back2, ids2)
    BY <2>7, AskedOne, Zenon
  <2>9. Gains(<<r>>, made, Ids(store), n2, ids2)
    BY <2>2, <2>5 DEF Gains
  <2>10. /\ Asked(<<r>>, made, Ids(store), timers, made', Back', Ids(store'))
         /\ Gains(<<r>>, made, Ids(store), made', Ids(store'))
    BY <2>4, <2>5, <2>6, <2>8, <2>9
  <2> QED
    BY <1>1, <1>2, <2>1, <2>8, <2>10, GestureStaysCalm
<1>4. CASE ~SaveNeeded(b)
  <2>1. UNCHANGED <<store, flight, held>>
    BY <1>4 DEF TimerFires
  <2> QED
    BY <1>1, <1>2, <2>1, CalmStays
<1> QED
  BY <1>3, <1>4

LEMMA LeaveListIsCalm ==
  ASSUME EditorInv, CalmInv, NEW b, LeaveList(b)
  PROVE  CalmInv'
<1> DEFINE html == Para(shown[b].text)
           r == Update(b, html, "paragraph")
<1>1. /\ store' = Put(store, b, html, "paragraph") /\ Send(<<r>>) /\ b \in Ids(store)
      /\ UNCHANGED <<table, misread, refused, made, timers, applying>>
  BY DEF LeaveList, At, history, marks
<1>2. shown' = [c \in Block |-> shown'[c]]
  BY DEF LeaveList, CalmInv
<1>3. r.kind = "update" /\ r.state = "sent" /\ r.row.id = b
  BY UpdateIs DEF EditorInv
<1> HIDE DEF r, html
<1>4. Ids(store') = Ids(store)
  BY <1>1, PutIs DEF EditorInv
<1> QED
  BY <1>1, <1>2, <1>3, <1>4, SendsOneCalmly

LEMMA MoveIsCalm ==
  ASSUME EditorInv, CalmInv, NEW i, MoveBlock(i)
  PROVE  CalmInv'
<1> DEFINE r == Reorder(Swapped(Order(store), i))
<1>1. Send(<<r>>) /\ UNCHANGED <<table, store, misread, refused, made, timers, applying, shown>>
  BY DEF MoveBlock, marks, history, screen
<1>2. shown' = [c \in Block |-> shown'[c]]
  BY <1>1 DEF CalmInv
<1>3. r.kind = "reorder" /\ r.state = "sent"
  BY DEF Reorder, Request
<1> HIDE DEF r
<1>4. ~Writes(r) /\ Ids(store') = Ids(store)
  BY <1>1, <1>3 DEF Writes
<1> QED
  BY <1>1, <1>2, <1>3, <1>4, SendsOneCalmly

LEMMA RemoveIsCalm ==
  ASSUME EditorInv, CalmInv, NEW b, RemoveBlock(b)
  PROVE  CalmInv'
<1> DEFINE r == Delete(b)
<1>1. /\ b \in Ids(store) /\ Send(<<r>>)
      /\ UNCHANGED <<table, misread, refused, made, timers, applying>>
  BY DEF RemoveBlock, At, marks, history
<1>2. store' = Drop(store, b) /\ shown' = [c \in Block |-> shown'[c]]
  BY ShownIs DEF RemoveBlock, Show
<1>3. r.kind = "delete" /\ r.row.id = b /\ r.state = "sent"
  BY <1>1, DeleteIs DEF EditorInv
<1> HIDE DEF r
<1>4. Ids(store') = Ids(store) \ {r.row.id}
  BY <1>2, <1>3, DropIs DEF EditorInv
<1> QED
  BY <1>1, <1>2, <1>3, <1>4, SendsOneCalmly

LEMMA CreateLocallyIsCalm ==
  ASSUME EditorInv, CalmInv, NEW row, NEW focus, IsRow(row), row.id = made + 1,
         CreateLocally(row, focus)
  PROVE  CalmInv'
<1> DEFINE r == Create(row)
           opened == Opened(store, row.index)
<1>1. /\ ChooseId /\ made' = made + 1 /\ Send(<<r>>)
      /\ UNCHANGED <<table, misread, refused, timers, applying>>
  BY DEF CreateLocally, ChooseId, Fresh, marks, history
<1>2. store' = Append(opened, row) /\ shown' = [c \in Block |-> shown'[c]]
  BY ShownIs DEF CreateLocally
<1>3. r.kind = "create" /\ r.row = row /\ r.state = "sent"
  BY RequestIs DEF Create
<1>4. IsRows(opened) /\ Ids(opened) = Ids(store)
  BY OpenedIs DEF EditorInv
<1> HIDE DEF opened, r
<1>5. Ids(store') = Ids(store) \union {made + 1}
  BY <1>2, <1>4, AppendedIs
<1>6. PICK n2 : n2 = made'
  OBVIOUS
<1>7. PICK ids2 : ids2 = Ids(store')
  OBVIOUS
<1>8. PICK back2 : back2 = Back'
  OBVIOUS
<1>9. Asks(r, made, Ids(store), timers, n2, back2, ids2)
  BY <1>1, <1>3, <1>6 DEF Asks, Writes, Creates
<1>10. IsSeq(<<r>>) /\ Asked(<<r>>, made, Ids(store), timers, n2, back2, ids2)
  BY <1>9, AskedOne, Zenon
<1>11. Gains(<<r>>, made, Ids(store), n2, ids2)
  BY <1>1, <1>3, <1>5, <1>6, <1>7 DEF Gains
<1>12. /\ Asked(<<r>>, made, Ids(store), timers, made', Back', Ids(store'))
       /\ Gains(<<r>>, made, Ids(store), made', Ids(store'))
  BY <1>6, <1>7, <1>8, <1>10, <1>11
<1> QED
  BY <1>1, <1>2, <1>10, <1>12, GestureStaysCalm

LEMMA CreationIsCalm ==
  ASSUME EditorInv, CalmInv, NEW b, InsertBlockAfter(b) \/ DuplicateBlock(b)
  PROVE  CalmInv'
<1>1. PICK row, focus : IsRow(row) /\ row.id = made + 1 /\ CreateLocally(row, focus)
  BY InsertCreates, DuplicateCreates
<1> QED
  BY <1>1, CreateLocallyIsCalm

LEMMA SplitIsCalm ==
  ASSUME EditorInv, CalmInv, NEW b \in Ids(store), NEW before, NEW after, NEW type,
         NEW display, SplitBlock(b, before, after, type, display)
  PROVE  CalmInv'
<1> DEFINE current == RowIn(store, b)
           new == StoreRow(Fresh, after, TypeOf(after), current.index + 1)
           kept == Put(store, b, before, IF type = Keep THEN current.type ELSE type)
           opened == Opened(kept, new.index)
           c == Create(new)
           u == Update(b, before, type)
<1>1. /\ ChooseId /\ made' = made + 1 /\ Send(<<c, u>>)
      /\ UNCHANGED <<table, misread, refused, timers, applying>>
  BY DEF SplitBlock, ChooseId, Fresh, history
<1>2. store' = Append(opened, new) /\ shown' = [x \in Block |-> shown'[x]]
  <2>1. ShowFrom(Append(opened, new), display, saved, b)
    BY DEF SplitBlock
  <2> HIDE DEF opened, new
  <2> QED
    BY <2>1, ShownIs
<1>3. current.index + 1 \in Int
  BY RowInIs DEF EditorInv, IsRow
<1> HIDE DEF current
<1>4. IsRow(new) /\ new.id = made + 1
  BY <1>3, StoreRowIs DEF Fresh
<1> HIDE DEF new
<1>5. IsRows(kept) /\ Ids(kept) = Ids(store)
  BY PutIs DEF EditorInv
<1> HIDE DEF kept
<1>6. IsRows(opened) /\ Ids(opened) = Ids(store)
  BY <1>5, OpenedIs
<1> HIDE DEF opened
<1>7. Ids(store') = Ids(store) \union {made + 1}
  BY <1>2, <1>4, <1>6, AppendedIs
<1>8. c.kind = "create" /\ c.row.id = made + 1 /\ c.state = "sent"
  BY <1>4, RequestIs DEF Create
<1>9. u.kind = "update" /\ u.row.id = b /\ u.state = "sent"
  BY UpdateIs DEF EditorInv
<1> HIDE DEF c, u
<1>10. PICK n2 : n2 = made'
  OBVIOUS
<1>11. PICK ids2 : ids2 = Ids(store')
  OBVIOUS
<1>12. PICK back2 : back2 = Back'
  OBVIOUS
<1>13. /\ Asks(c, made, Ids(store), timers, n2, back2, ids2)
       /\ Asks(u, made, Ids(store), timers, n2, back2, ids2)
  BY <1>1, <1>8, <1>9, <1>10 DEF Asks, Writes, Creates
<1>14. IsSeq(<<c, u>>) /\ Asked(<<c, u>>, made, Ids(store), timers, n2, back2, ids2)
  <2>1. c.kind # "delete" \/ u.kind # "delete"
    BY <1>9
  <2> QED
    BY <1>13, <2>1, AskedTwo, Zenon
<1>15. Gains(<<c, u>>, made, Ids(store), n2, ids2)
  BY <1>1, <1>7, <1>8, <1>10, <1>11 DEF Gains
<1>16. /\ Asked(<<c, u>>, made, Ids(store), timers, made', Back', Ids(store'))
       /\ Gains(<<c, u>>, made, Ids(store), made', Ids(store'))
  BY <1>10, <1>11, <1>12, <1>14, <1>15
<1> QED
  BY <1>1, <1>2, <1>14, <1>16, GestureStaysCalm

LEMMA EnterIsCalm ==
  ASSUME EditorInv, CalmInv, NEW b, NEW k, Enter(b, k) \/ ModEnter(b, k)
  PROVE  CalmInv'
  BY EnterDivides, SplitIsCalm, Zenon

LEMMA MergeIsCalm ==
  ASSUME EditorInv, CalmInv, NEW p \in Ids(store), NEW c \in Ids(store), MergeBlocks(p, c)
  PROVE  CalmInv'
<1> DEFINE html == Merged(RowIn(store, p), RowIn(store, c))
           kept == Put(store, p, html, RowIn(store, p).type)
           u == Update(p, html, Keep)
           d == Delete(c)
<1>1. Send(<<u, d>>) /\ UNCHANGED <<table, misread, refused, made, timers, applying>>
  BY DEF MergeBlocks, marks, history
<1>2. store' = Drop(kept, c) /\ shown' = [b \in Block |-> shown'[b]]
  <2>1. ShowFrom(Drop(kept, c), [shown EXCEPT ![p] = html], [saved EXCEPT ![p] = html], p)
    BY DEF MergeBlocks
  <2> HIDE DEF html, kept
  <2> QED
    BY <2>1, ShownIs
<1> HIDE DEF html
<1>3. IsRows(kept) /\ Ids(kept) = Ids(store)
  BY PutIs DEF EditorInv
<1> HIDE DEF kept
<1>4. Ids(store') = Ids(store) \ {c}
  BY <1>2, <1>3, DropIs
<1>5. u.kind = "update" /\ u.row.id = p /\ u.state = "sent"
  BY UpdateIs DEF EditorInv
<1>6. d.kind = "delete" /\ d.row.id = c /\ d.state = "sent"
  BY DeleteIs DEF EditorInv
<1> HIDE DEF u, d
<1>7. PICK n2 : n2 = made'
  OBVIOUS
<1>8. PICK ids2 : ids2 = Ids(store')
  OBVIOUS
<1>9. PICK back2 : back2 = Back'
  OBVIOUS
<1>10. /\ Asks(u, made, Ids(store), timers, n2, back2, ids2)
       /\ Asks(d, made, Ids(store), timers, n2, back2, ids2)
  BY <1>4, <1>5, <1>6, <1>8 DEF Asks, Writes, Creates
<1>11. IsSeq(<<u, d>>) /\ Asked(<<u, d>>, made, Ids(store), timers, n2, back2, ids2)
  <2>1. u.kind # "delete" \/ d.kind # "delete"
    BY <1>5
  <2> QED
    BY <1>10, <2>1, AskedTwo, Zenon
<1>12. Gains(<<u, d>>, made, Ids(store), n2, ids2)
  BY <1>4, <1>8 DEF Gains
<1>13. /\ Asked(<<u, d>>, made, Ids(store), timers, made', Back', Ids(store'))
       /\ Gains(<<u, d>>, made, Ids(store), made', Ids(store'))
  BY <1>7, <1>8, <1>9, <1>11, <1>12
<1> QED
  BY <1>1, <1>2, <1>11, <1>13, GestureStaysCalm

LEMMA BackspaceIsCalm ==
  ASSUME EditorInv, CalmInv, NEW i, Backspace(i) \/ ForwardDelete(i)
  PROVE  CalmInv'
<1>1. Len(store) \in Nat /\ DOMAIN store = 1..Len(store)
  BY IsSeqDomain DEF EditorInv, IsRows
<1>2. \A k \in 1..Len(store) : Order(store)[k] \in Ids(store)
  BY <1>1, OrderIs DEF EditorInv
<1>3. CASE Backspace(i)
  <2>1. i \in 2..Len(store) /\ MergeBlocks(Order(store)[i - 1], Order(store)[i])
    BY <1>3 DEF Backspace
  <2>2. Order(store)[i - 1] \in Ids(store) /\ Order(store)[i] \in Ids(store)
    BY <1>1, <1>2, <2>1
  <2> QED
    BY <2>1, <2>2, MergeIsCalm
<1>4. CASE ForwardDelete(i)
  <2>1. i \in 1..Len(store) - 1 /\ MergeBlocks(Order(store)[i], Order(store)[i + 1])
    BY <1>4 DEF ForwardDelete
  <2>2. Order(store)[i] \in Ids(store) /\ Order(store)[i + 1] \in Ids(store)
    BY <1>1, <1>2, <2>1
  <2> QED
    BY <2>1, <2>2, MergeIsCalm
<1> QED
  BY <1>3, <1>4

LEMMA ApplyIsCalm ==
  ASSUME EditorInv, CalmInv, NEW way \in {"undo", "redo"}, NEW op, IsOp(op), Apply(way, op)
  PROVE  CalmInv'
<1> DEFINE b == op.row.id
           again == [op.row EXCEPT !.id = Fresh]
           del == Delete(b)
           ord == Reorder(op.ids)
           rec == Request("recreate", again)
           s(r) == [r EXCEPT !.by = way]
           deletes == b \in Ids(store) /\ Show(Drop(store, b)) /\ Send(<<s(del)>>) /\ UNCHANGED made
           finishes == applying' = Idle /\ UNCHANGED <<store, shown, flight, held, made>>
           recreates == /\ ChooseId /\ Send(<<s(rec)>>) /\ UNCHANGED <<store, shown>>
                        /\ applying' = [way |-> way, inverse |-> Op("create", again, <<>>)]
           reorders == Send(<<s(ord)>>) /\ UNCHANGED <<store, shown, made>>
<1>1. deletes \/ finishes \/ recreates \/ reorders
  BY DEF Apply, Revert, Finish
<1>2. applying = Idle /\ UNCHANGED <<table, misread, refused, timers>>
  BY DEF Apply
<1>3. \A r : IsRequest(r) => s(r).kind = r.kind /\ s(r).row = r.row /\ s(r).state = r.state
  BY PostIs
<1> HIDE DEF s
<1>4. shown' = shown => shown' = [c \in Block |-> shown'[c]]
  BY DEF CalmInv
<1>5. CASE deletes
  <2>1. IsRequest(del) /\ del.kind = "delete" /\ del.row.id = b /\ del.state = "sent"
    BY <1>5, DeleteIs DEF EditorInv
  <2>2. store' = Drop(store, b) /\ shown' = [c \in Block |-> shown'[c]]
    BY <1>5, ShownIs DEF Show
  <2>3. Ids(store') = Ids(store) \ {b}
    BY <2>2, DropIs DEF EditorInv
  <2>4. b \in Ids(store) /\ Send(<<s(del)>>) /\ UNCHANGED made
    BY <1>5
  <2> HIDE DEF del, b
  <2> DEFINE r == s(del)
  <2>5. r.kind = "delete" /\ r.row.id = b /\ r.state = "sent" /\ Send(<<r>>)
    BY <1>3, <2>1, <2>4
  <2> HIDE DEF r
  <2> QED
    BY <1>2, <2>2, <2>3, <2>4, <2>5, SendsOneCalmly
<1>6. CASE finishes
  BY <1>2, <1>4, <1>6, CalmStays
<1>7. CASE recreates
  <2>1. IsRow(again) /\ again.id = made + 1
    <3>1. IsRow(op.row)
      BY DEF IsOp
    <3>2. again = [id |-> made + 1, html |-> op.row.html, type |-> op.row.type, index |-> op.row.index]
      BY <3>1 DEF IsRow, Fresh
    <3> HIDE DEF again
    <3> QED
      BY <3>1, <3>2 DEF IsRow
  <2>2. /\ ChooseId /\ made' = made + 1 /\ Send(<<s(rec)>>) /\ UNCHANGED <<store, shown>>
        /\ applying' = [way |-> way, inverse |-> Op("create", again, <<>>)]
    BY <1>7 DEF ChooseId, Fresh
  <2> HIDE DEF again
  <2>3. Back' = made + 1
    BY <2>1, <2>2 DEF Back, Op
  <2>4. IsRequest(rec) /\ rec.kind = "recreate" /\ rec.row = again /\ rec.state = "sent"
    BY <2>1, RequestIs
  <2> HIDE DEF rec
  <2> DEFINE r == s(rec)
  <2>5. r.kind = "recreate" /\ r.row.id = made + 1 /\ r.state = "sent" /\ Send(<<r>>)
    BY <1>3, <2>1, <2>2, <2>4
  <2> HIDE DEF r
  <2>6. PICK n2 : n2 = made'
    OBVIOUS
  <2>7. PICK ids2 : ids2 = Ids(store')
    OBVIOUS
  <2>8. PICK back2 : back2 = Back'
    OBVIOUS
  <2>9. Asks(r, made, Ids(store), timers, n2, back2, ids2)
    BY <2>2, <2>3, <2>5, <2>6, <2>7, <2>8 DEF Asks, Writes, Creates
  <2>10. IsSeq(<<r>>) /\ Asked(<<r>>, made, Ids(store), timers, n2, back2, ids2)
    BY <2>9, AskedOne, Zenon
  <2>11. Gains(<<r>>, made, Ids(store), n2, ids2)
    BY <2>2, <2>7 DEF Gains
  <2>12. /\ Asked(<<r>>, made, Ids(store), timers, made', Back', Ids(store'))
         /\ Gains(<<r>>, made, Ids(store), made', Ids(store'))
    BY <2>6, <2>7, <2>8, <2>10, <2>11
  <2> QED
    BY <1>2, <1>4, <2>2, <2>5, <2>10, <2>12, GestureStaysCalm
<1>8. CASE reorders
  <2>1. IsRequest(ord) /\ ord.kind = "reorder" /\ ord.state = "sent"
    BY ReorderIs DEF EditorInv, IsOp
  <2>2. Send(<<s(ord)>>) /\ UNCHANGED <<store, shown, made>>
    BY <1>8
  <2> HIDE DEF ord
  <2> DEFINE r == s(ord)
  <2>3. r.kind = "reorder" /\ r.state = "sent" /\ Send(<<r>>)
    BY <1>3, <2>1, <2>2
  <2> HIDE DEF r
  <2>4. ~Writes(r) /\ Ids(store') = Ids(store)
    BY <2>2, <2>3 DEF Writes
  <2> QED
    BY <1>2, <1>4, <2>2, <2>3, <2>4, SendsOneCalmly
<1> QED
  BY <1>1, <1>5, <1>6, <1>7, <1>8

LEMMA UndoIsCalm ==
  ASSUME EditorInv, CalmInv, Undo \/ Redo
  PROVE  CalmInv'
<1>1. IsOps(past) /\ IsOps(future)
  BY DEF EditorInv, HistoryInv
<1>2. CASE Undo
  BY <1>1, <1>2, LastIs, ApplyIsCalm DEF Undo
<1>3. CASE Redo
  BY <1>1, <1>3, LastIs, ApplyIsCalm DEF Redo
<1> QED
  BY <1>2, <1>3

-----------------------------------------------------------------------------
(* The server's answers leave the requests in turn.                        *)

\* r does at most what q does.
Milder(r, q) ==
  /\ Writes(r) => Writes(q) /\ r.row.id = q.row.id
  /\ \A b : Removing(r, b) => Removing(q, b)
  /\ Brings(r) => Brings(q)

\* Fewer requests, or milder ones; the block an undo brought may be there.
Fewer(C, B, m) ==
  /\ \A p \in DOMAIN C : m[p] \in DOMAIN B /\ Milder(C[p], B[m[p]])
  /\ \A p, q \in DOMAIN C : m[p] = m[q] => p = q
Brought(C, B, T2, back, ids, back2, ids2) ==
  /\ \A p \in DOMAIN C : C[p].kind = "relist" => back \in T2
  /\ back2 = back \/ \A p \in DOMAIN C : ~Brings(C[p])
  /\ \A b \in ids2 : \/ b \in ids
                      \/ /\ b = back /\ \E p \in DOMAIN B : Brings(B[p])
                         /\ \A p \in DOMAIN C : ~Brings(C[p])

LEMMA LessDisturbs ==
  ASSUME NEW B, NEW T, NEW n, NEW back, NEW ids, NEW tm, Undisturbed(B, T, n, back, ids, tm),
         NEW C, NEW m, Fewer(C, B, m),
         NEW T2, NEW back2, NEW ids2, Brought(C, B, T2, back, ids, back2, ids2)
  PROVE  Undisturbed(C, T2, n, back2, ids2, tm)
<1> USE DEF Fewer, Brought
<1>1. ids2 \subseteq 1..n /\ tm \subseteq 1..n
  BY DEF Undisturbed
<1>2. \A p \in DOMAIN C : Writes(C[p]) => C[p].row.id \in 1..n
  BY DEF Undisturbed, Milder
<1>3. ASSUME NEW p \in DOMAIN C, NEW b \in ids2 PROVE ~Removing(C[p], b)
  <2>1. CASE b \in ids
    BY <2>1 DEF Undisturbed, Milder
  <2>2. ASSUME b = back, NEW o \in DOMAIN B, Brings(B[o]) PROVE ~Removing(C[p], b)
    <3>1. Removing(B[m[p]], b) => Writes(B[m[p]]) /\ B[m[p]].row.id = b
      BY DEF Removing, Writes
    <3> QED
      BY <2>2, <3>1 DEF Undisturbed, Milder
  <2> QED
    BY <2>1, <2>2
<1>4. \A p, q \in DOMAIN C : \A b : Removing(C[p], b) /\ Removing(C[q], b) => p = q
  BY DEF Undisturbed, Milder
<1>5. \A p, q \in DOMAIN C : Brings(C[p]) /\ Writes(C[q]) => C[q].row.id # back2
  BY DEF Undisturbed, Milder
<1>6. ASSUME NEW p \in DOMAIN C, Brings(C[p])
      PROVE  back2 \in 1..n /\ back2 \notin ids2 /\ back2 \notin tm /\ (C[p].kind = "relist" => back2 \in T2)
  <2>1. back2 = back
    BY <1>6
  <2>2. back \in 1..n /\ back \notin ids /\ back \notin tm
    BY <1>6 DEF Undisturbed, Milder
  <2> QED
    BY <1>6, <2>1, <2>2
<1> QED
  BY <1>1, <1>2, <1>3, <1>4, <1>5, <1>6 DEF Undisturbed

LEMMA AnsweredUndisturbed ==
  ASSUME NEW Q, NEW q, NEW T, NEW n, NEW back, NEW ids, NEW tm,
         Undisturbed(Beside(Q, <<q>>), T, n, back, ids, tm),
         NEW r, Answers(r, q),
         NEW T2, \A b \in T : b \in T2 \/ (Writes(q) /\ b = q.row.id)
  PROVE  Undisturbed(Beside(Q, <<r>>), T2, n, back, ids, tm)
<1> DEFINE B == Beside(Q, <<q>>)
           C == Beside(Q, <<r>>)
           m == [p \in DOMAIN C |-> p]
<1>1. /\ \A x \in DOMAIN Q : <<1, x>> \in DOMAIN B /\ B[<<1, x>>] = Q[x]
      /\ <<2, 1>> \in DOMAIN B /\ B[<<2, 1>>] = q
  BY WithIs
<1>2. /\ \A x \in DOMAIN Q : <<1, x>> \in DOMAIN C /\ C[<<1, x>>] = Q[x]
      /\ <<2, 1>> \in DOMAIN C /\ C[<<2, 1>>] = r
      /\ \A p \in DOMAIN C : p = <<2, 1>> \/ \E x \in DOMAIN Q : p = <<1, x>>
  BY WithIs
<1>3. \A p \in DOMAIN C : m[p] = p
  OBVIOUS
<1> HIDE DEF B, C, m
<1>4. Milder(r, q) /\ r.kind = q.kind
  BY DEF Answers, Milder, Writes, Removing, Brings
<1>5. \A x : Milder(x, x)
  BY DEF Milder
<1>6. \A p \in DOMAIN C : p \in DOMAIN B /\ Milder(C[p], B[p]) /\ C[p].kind = B[p].kind
  BY <1>1, <1>2, <1>4, <1>5
<1>7. ASSUME NEW p \in DOMAIN C, C[p].kind = "relist" PROVE back \in T2
  <2>1. B[p].kind = "relist" /\ Brings(B[p]) /\ p \in DOMAIN B
    BY <1>6, <1>7 DEF Brings
  <2>2. back \in T /\ ~(Writes(q) /\ back = q.row.id)
    BY <1>1, <2>1 DEF Undisturbed, B
  <2> QED
    BY <2>2
<1>8. Undisturbed(B, T, n, back, ids, tm)
  BY DEF B
<1>9. Fewer(C, B, m) /\ Brought(C, B, T2, back, ids, back, ids)
  BY <1>3, <1>6, <1>7 DEF Fewer, Brought
<1>10. Undisturbed(C, T2, n, back, ids, tm)
  BY <1>8, <1>9, LessDisturbs, Zenon
<1> QED
  BY <1>10 DEF C

LEMMA LeftUndisturbed ==
  ASSUME NEW Q, NEW q, NEW T, NEW n, NEW back, NEW ids, NEW tm,
         Undisturbed(Beside(Q, <<q>>), T, n, back, ids, tm),
         NEW back2, back2 = back \/ \A x \in DOMAIN Q : ~Brings(Q[x]),
         NEW ids2,
         \A b \in ids2 : \/ b \in ids
                         \/ b = back /\ Brings(q) /\ \A x \in DOMAIN Q : ~Brings(Q[x])
  PROVE  Undisturbed(Q, T, n, back2, ids2, tm)
<1> DEFINE B == Beside(Q, <<q>>)
           m == [x \in DOMAIN Q |-> <<1, x>>]
<1>1. /\ \A x \in DOMAIN Q : <<1, x>> \in DOMAIN B /\ B[<<1, x>>] = Q[x]
      /\ <<2, 1>> \in DOMAIN B /\ B[<<2, 1>>] = q
  BY WithIs
<1>2. \A x \in DOMAIN Q : m[x] = <<1, x>>
  OBVIOUS
<1>3. Undisturbed(B, T, n, back, ids, tm)
  OBVIOUS
<1> HIDE DEF B, m
<1>4. \A x : Milder(x, x)
  BY DEF Milder
<1>5. \A x \in DOMAIN Q : m[x] \in DOMAIN B /\ Milder(Q[x], B[m[x]])
  BY <1>1, <1>2, <1>4
<1>6. \A x, y \in DOMAIN Q : m[x] = m[y] => x = y
  BY <1>2
<1>7. \A x \in DOMAIN Q : Q[x].kind = "relist" => back \in T
  BY <1>1, <1>3 DEF Undisturbed, Brings
<1>8. \A b \in ids2 : \/ b \in ids
                      \/ /\ b = back /\ \E p \in DOMAIN B : Brings(B[p])
                         /\ \A x \in DOMAIN Q : ~Brings(Q[x])
  BY <1>1
<1>9. Fewer(Q, B, m) /\ Brought(Q, B, T, back, ids, back2, ids2)
  BY <1>5, <1>6, <1>7, <1>8 DEF Fewer, Brought
<1> QED
  BY <1>3, <1>9, LessDisturbs, Zenon

LEMMA ServedInTurn ==
  ASSUME NEW G, NEW q, NEW H, NEW T, NEW ids, InTurn(G \union {q}, H, T, ids),
         NEW r, Answers(r, q),
         NEW T2, \A b \in T : b \in T2 \/ (q.kind = "delete" /\ b = q.row.id),
         Creates(q) => r.state = "done" /\ q.row.id \in T2,
         q.kind = "delete" =>
           /\ r.state = "done" /\ q.row.id \notin ids
           /\ \A g \in G : g.kind = "recreate" \/ (g.kind = "delete" /\ g.state = "sent")
                             => g.row.id # q.row.id,
         q.kind = "update" /\ r.state = "refused" => q.row.id \notin ids
  PROVE  InTurn(G \union {r}, H, T2, ids)
<1>1. r.kind = q.kind /\ r.row = q.row /\ q.state = "sent" /\ r.state # "sent"
  BY DEF Answers
<1>2. ASSUME NEW b \in ids PROVE b \in T2 \/ \E g \in G \union {r} : Creating(g, b)
  <2>1. CASE b \in T
    BY <2>1
  <2>2. ASSUME NEW g \in G \union {q}, Creating(g, b) PROVE b \in T2 \/ \E c \in G : Creating(c, b)
    BY <2>2 DEF Creating, Creates
  <2> QED
    BY <2>1, <2>2 DEF InTurn
<1>3. ASSUME NEW g \in G \union {r}, Creates(g)
      PROVE  g.state # "refused" /\ (g.state = "done" => g.row.id \in T2)
  <2>1. CASE g = r
    BY <1>1, <1>3, <2>1 DEF Creates
  <2>2. CASE g \in G
    <3>1. g.state # "refused" /\ (g.state = "done" => g.row.id \in T)
      BY <1>3, <2>2 DEF InTurn
    <3>2. q.kind = "delete" => g.row.id # q.row.id
      BY <1>3, <2>2 DEF InTurn, Creates, Writes
    <3> QED
      BY <3>1, <3>2
  <2> QED
    BY <2>1, <2>2
<1>4. \A g, c \in G \union {r} : g.kind = "create" /\ Writes(c) => g.row.id # c.row.id
  BY <1>1 DEF InTurn, Writes
<1>5. \A h \in H : Writes(h) /\ h.state = "sent"
  BY DEF InTurn
<1>6. ASSUME NEW g \in G \union {r}, g.kind = "delete"
      PROVE  g.state # "refused" /\ (g.state = "sent" => g.row.id \in T2)
  <2>1. CASE g = r
    BY <1>1, <1>6, <2>1
  <2>2. CASE g \in G
    <3>1. g.state # "refused" /\ (g.state = "sent" => g.row.id \in T)
      BY <1>6, <2>2 DEF InTurn
    <3> QED
      BY <1>6, <2>2, <3>1
  <2> QED
    BY <2>1, <2>2
<1>7. \A g \in G \union {r} : g.kind = "update" /\ g.state = "refused" => g.row.id \notin ids
  BY <1>1 DEF InTurn
<1> QED
  BY <1>2, <1>3, <1>4, <1>5, <1>6, <1>7 DEF InTurn

\* What is not in the table is not on the screen, and nobody deletes it.
LEMMA NotFoundIs ==
  ASSUME NEW F, NEW H, NEW T, NEW ids, InTurn(F, H, T, ids),
         NEW q \in F, Writes(q), q.state = "sent", q.row.id \notin T
  PROVE  q.kind = "update" /\ q.row.id \notin ids
<1>1. q.kind = "update"
  BY DEF InTurn, Writes
<1>2. \A g \in F : ~Creating(g, q.row.id)
  BY DEF InTurn, Creating
<1> QED
  BY <1>1, <1>2 DEF InTurn

\* The request at i taken away from the wire.
LEMMA LeftInTurn ==
  ASSUME NEW G, NEW q, NEW H, NEW T, NEW ids, InTurn(G \union {q}, H, T, ids),
         \A b : ~Creating(q, b) \/ b \in T
  PROVE  InTurn(G, H, T, ids)
<1>1. \A b \in ids : b \in T \/ \E g \in G : Creating(g, b)
  BY DEF InTurn
<1> QED
  BY <1>1 DEF InTurn

-----------------------------------------------------------------------------
(* The server's step.                                                      *)

Calm(i, r, T) ==
  /\ Undisturbed(Beside(Others(i), <<r>>), T, made, Back, Ids(store), timers)
  /\ InTurn(Rest(flight, i) \union {r}, ToSet(held), T, Ids(store))

LEMMA CalmApart ==
  ASSUME EditorInv, CalmInv, NEW i \in DOMAIN flight
  PROVE  misread \/ refused \/ Calm(i, flight[i], DOMAIN table)
<1> SUFFICES ASSUME Undisturbed(UnderWay, DOMAIN table, made, Back, Ids(store), timers),
                    InTurn(ToSet(flight), ToSet(held), DOMAIN table, Ids(store))
             PROVE  Calm(i, flight[i], DOMAIN table)
  BY DEF CalmInv
<1> DEFINE r == flight[i]
<1>1. IsSeq(flight)
  BY DEF EditorInv
<1>2. Same(Beside(Others(i), <<r>>), UnderWay)
  BY <1>1, OneOfMany DEF Others, UnderWay
<1> HIDE DEF r
<1>3. Same(UnderWay, Beside(Others(i), <<r>>))
  BY <1>2, SameTurns, Zenon
<1>4. Undisturbed(Beside(Others(i), <<r>>), DOMAIN table, made, Back, Ids(store), timers)
  BY <1>3, UndisturbedAnywhere, Zenon
<1>5. ToSet(flight) = Rest(flight, i) \union {r}
  BY <1>1, SetOfRest DEF r
<1> QED
  BY <1>4, <1>5 DEF Calm, r

\* The other requests, by where they are.
LEMMA OthersAre ==
  ASSUME EditorInv, NEW i \in DOMAIN flight
  PROVE  /\ ToSet(RemoveAt(flight, i)) = Rest(flight, i)
         /\ \A g \in Rest(flight, i) \union ToSet(held) : \E x \in DOMAIN Others(i) : Others(i)[x] = g
<1> DEFINE f == RemoveAt(flight, i)
           Q == Beside(f, held)
<1>1. ToSet(f) = Rest(flight, i)
  BY SetOfRest DEF EditorInv
<1> HIDE DEF f
<1>2. /\ \A x \in DOMAIN f : <<1, x>> \in DOMAIN Q /\ Q[<<1, x>>] = f[x]
      /\ \A y \in DOMAIN held : <<2, y>> \in DOMAIN Q /\ Q[<<2, y>>] = held[y]
  BY DEF Beside
<1> HIDE DEF Q
<1>3. \A g \in ToSet(f) \union ToSet(held) : \E x \in DOMAIN Q : Q[x] = g
  BY <1>2 DEF ToSet
<1> QED
  BY <1>1, <1>3 DEF f, Q, Others

LEMMA AnsweringStaysCalm ==
  ASSUME EditorInv, CalmInv, NEW i \in DOMAIN flight, NEW state, NEW rows,
         Answer(i, state, rows), NEW r, r = Answering(flight[i], state, rows),
         UNCHANGED <<store, held, applying, made, misread, refused, shown, timers>>,
         misread \/ refused \/ Calm(i, r, DOMAIN table')
  PROVE  CalmInv'
<1>1. 1..made' \subseteq Block /\ shown' = [b \in Block |-> shown'[b]]
  BY DEF CalmInv
<1>2. CASE misread \/ refused
  BY <1>1, <1>2 DEF CalmInv
<1>3. CASE Calm(i, r, DOMAIN table')
  <2>1. IsSeq(flight) /\ Len(flight) \in Nat /\ DOMAIN flight = 1..Len(flight)
    BY IsSeqDomain DEF EditorInv
  <2>2. /\ DOMAIN flight' = DOMAIN flight /\ flight' = [j \in DOMAIN flight |-> flight'[j]]
        /\ flight'[i] = r /\ \A j \in DOMAIN flight : j # i => flight'[j] = flight[j]
    BY <2>1 DEF Answer, Answering
  <2>3. Same(Beside(Others(i), <<r>>), UnderWay')
    <3>1. Same(Beside(Others(i), <<r>>), Beside(flight', held))
      BY <2>1, <2>2, OneOfMany DEF Others
    <3> QED
      BY <3>1 DEF UnderWay
  <2>4. ToSet(flight') = Rest(flight, i) \union {r}
    BY <2>2 DEF ToSet, Rest
  <2>5. PICK Q : Q = UnderWay'
    OBVIOUS
  <2>6. PICK T : T = DOMAIN table'
    OBVIOUS
  <2>7. Undisturbed(Q, T, made, Back, Ids(store), timers)
    <3>1. Undisturbed(Beside(Others(i), <<r>>), T, made, Back, Ids(store), timers)
      BY <1>3, <2>6 DEF Calm
    <3>2. Same(Beside(Others(i), <<r>>), Q)
      BY <2>3, <2>5
    <3> QED
      BY <3>1, <3>2, UndisturbedAnywhere, Zenon
  <2>8. Back' = Back
    BY DEF Back
  <2>9. Undisturbed(UnderWay', DOMAIN table', made', Back', Ids(store'), timers')
    BY <2>5, <2>6, <2>7, <2>8
  <2>10. InTurn(ToSet(flight'), ToSet(held'), DOMAIN table', Ids(store'))
    BY <1>3, <2>4 DEF Calm
  <2> QED
    BY <1>1, <2>9, <2>10 DEF CalmInv
<1> QED
  BY <1>2, <1>3

\* An answer leaves the requests calm.
LEMMA AnsweredCalm ==
  ASSUME EditorInv, NEW i \in DOMAIN flight, Calm(i, flight[i], DOMAIN table),
         NEW r, Answers(r, flight[i]),
         NEW T2, \A b \in DOMAIN table : b \in T2 \/ (flight[i].kind = "delete" /\ b = flight[i].row.id),
         Creates(flight[i]) => r.state = "done" /\ flight[i].row.id \in T2,
         flight[i].kind = "delete" => r.state = "done",
         flight[i].kind = "update" /\ r.state = "refused" => flight[i].row.id \notin Ids(store)
  PROVE  Calm(i, r, T2)
<1> DEFINE q == flight[i]
<1>1. PICK Q : Q = Others(i)
  OBVIOUS
<1>2. Undisturbed(Beside(Q, <<q>>), DOMAIN table, made, Back, Ids(store), timers)
  BY <1>1 DEF Calm
<1>3. InTurn(Rest(flight, i) \union {q}, ToSet(held), DOMAIN table, Ids(store))
  BY DEF Calm
<1>4. \A g \in Rest(flight, i) : \E x \in DOMAIN Q : Q[x] = g
  BY <1>1, OthersAre
<1>5. \A g \in Rest(flight, i) : g.kind = "recreate" => g.row.id = Back
  <2>1. Sound(Beside(Q, <<q>>), DOMAIN table, made, applying, Ids(store), misread)
    BY <1>1, ToldApart
  <2>2. SoundWith(Q, q, DOMAIN table, made, applying, Ids(store), misread)
    BY <2>1, SoundTogether, Zenon
  <2>3. \A x \in DOMAIN Q : OfUndo(Q[x], applying)
    BY <2>2 DEF SoundWith, OneUndo
  <2> QED
    BY <1>4, <2>3 DEF OfUndo, Back
<1>6. Answers(r, q) /\ q.state = "sent"
  BY DEF Answers
<1>7. \A b \in DOMAIN table : b \in T2 \/ (Writes(q) /\ b = q.row.id)
  BY DEF Writes
<1>8. Creates(q) => r.state = "done" /\ q.row.id \in T2
  OBVIOUS
<1>9. q.kind = "update" /\ r.state = "refused" => q.row.id \notin Ids(store)
  OBVIOUS
<1>10. \A b \in DOMAIN table : b \in T2 \/ (q.kind = "delete" /\ b = q.row.id)
  OBVIOUS
<1>11. q.kind = "delete" => r.state = "done"
  OBVIOUS
<1> HIDE DEF q
<1>12. Undisturbed(Beside(Q, <<r>>), T2, made, Back, Ids(store), timers)
  BY <1>2, <1>6, <1>7, AnsweredUndisturbed, Zenon
<1>13. ASSUME q.kind = "delete"
       PROVE  /\ r.state = "done" /\ q.row.id \notin Ids(store)
              /\ \A g \in Rest(flight, i) :
                   g.kind = "recreate" \/ (g.kind = "delete" /\ g.state = "sent")
                     => g.row.id # q.row.id
  <2> DEFINE B == Beside(Q, <<q>>)
  <2>1. /\ \A x \in DOMAIN Q : <<1, x>> \in DOMAIN B /\ B[<<1, x>>] = Q[x]
        /\ <<2, 1>> \in DOMAIN B /\ B[<<2, 1>>] = q
    BY WithIs
  <2>2. Undisturbed(B, DOMAIN table, made, Back, Ids(store), timers)
    BY <1>2
  <2> HIDE DEF B
  <2>3. Removing(q, q.row.id) /\ Writes(q)
    BY <1>6, <1>13 DEF Removing, Writes
  <2>4. q.row.id \notin Ids(store)
    BY <2>1, <2>2, <2>3 DEF Undisturbed
  <2>5. ASSUME NEW x \in DOMAIN Q, Q[x].kind = "delete", Q[x].state = "sent" PROVE Q[x].row.id # q.row.id
    <3>1. Removing(Q[x], Q[x].row.id) /\ <<1, x>> # <<2, 1>>
      BY <2>5 DEF Removing
    <3> QED
      BY <2>1, <2>2, <2>3, <3>1 DEF Undisturbed
  <2>6. ASSUME NEW x \in DOMAIN Q, Q[x].kind = "recreate" PROVE Q[x].row.id # q.row.id
    <3>1. Brings(Q[x]) /\ Q[x].row.id = Back
      <4>1. \A y \in DOMAIN Q : Q[y].kind = "recreate" => Q[y].row.id = Back
        <5>1. Sound(Beside(Q, <<q>>), DOMAIN table, made, applying, Ids(store), misread)
          BY <1>1, ToldApart DEF q
        <5>2. SoundWith(Q, q, DOMAIN table, made, applying, Ids(store), misread)
          BY <5>1, SoundTogether, Zenon
        <5> QED
          BY <5>2 DEF SoundWith, OneUndo, OfUndo, Back
      <4> QED
        BY <2>6, <4>1 DEF Brings
    <3> QED
      BY <2>1, <2>2, <2>3, <3>1 DEF Undisturbed
  <2> QED
    BY <1>4, <1>11, <1>13, <2>4, <2>5, <2>6
<1>14. InTurn(Rest(flight, i) \union {r}, ToSet(held), T2, Ids(store))
  BY <1>3, <1>6, <1>8, <1>9, <1>10, <1>13, ServedInTurn
<1> QED
  BY <1>1, <1>12, <1>14 DEF Calm

\* A request that is gone, with nothing else changed.
LEMMA GoneIsCalm ==
  ASSUME EditorInv, NEW i \in DOMAIN flight, Calm(i, flight[i], DOMAIN table),
         \A b : ~Creating(flight[i], b) \/ b \in DOMAIN table
  PROVE  /\ Undisturbed(Others(i), DOMAIN table, made, Back, Ids(store), timers)
         /\ InTurn(Rest(flight, i), ToSet(held), DOMAIN table, Ids(store))
<1> DEFINE q == flight[i]
<1>1. PICK Q : Q = Others(i)
  OBVIOUS
<1>2. PICK T : T = DOMAIN table
  OBVIOUS
<1>3. Undisturbed(Beside(Q, <<q>>), T, made, Back, Ids(store), timers)
  BY <1>1, <1>2 DEF Calm
<1>4. InTurn(Rest(flight, i) \union {q}, ToSet(held), T, Ids(store))
  BY <1>2 DEF Calm
<1>5. \A b : ~Creating(q, b) \/ b \in T
  BY <1>2
<1> HIDE DEF q
<1>6. Undisturbed(Q, T, made, Back, Ids(store), timers)
  BY <1>3, LeftUndisturbed
<1>7. InTurn(Rest(flight, i), ToSet(held), T, Ids(store))
  BY <1>4, <1>5, LeftInTurn, Zenon
<1> QED
  BY <1>1, <1>2, <1>6, <1>7

LEMMA WrittenIsCalm ==
  ASSUME EditorInv, CalmInv, NEW i \in DOMAIN flight, flight[i].kind = "update", ServeUpdate(i),
         UNCHANGED <<store, held, history, made, misread, refused, shown, timers>>
  PROVE  CalmInv'
<1> DEFINE q == flight[i]
           type == IF q.row.type = Keep THEN table[q.row.id].type ELSE q.row.type
<1>1. /\ q.row.id \in DOMAIN table /\ table' = Rewritten(table, q.row.id, q.row.html, type)
      /\ flight' = RemoveAt(flight, i)
  BY DEF ServeUpdate, UpdateBlock
<1> HIDE DEF type
<1>2. DOMAIN table' = DOMAIN table
  BY <1>1, RewrittenIs DEF EditorInv
<1>3. 1..made' \subseteq Block /\ shown' = [b \in Block |-> shown'[b]]
  BY DEF CalmInv
<1>4. CASE misread \/ refused
  BY <1>3, <1>4 DEF CalmInv
<1>5. CASE ~(misread \/ refused)
  <2>1. Calm(i, q, DOMAIN table)
    BY <1>5, CalmApart
  <2>2. \A b : ~Creating(q, b)
    BY DEF Creating
  <2>3. /\ Undisturbed(Others(i), DOMAIN table, made, Back, Ids(store), timers)
        /\ InTurn(Rest(flight, i), ToSet(held), DOMAIN table, Ids(store))
    BY <2>1, <2>2, GoneIsCalm
  <2>4. UnderWay' = Others(i) /\ Back' = Back
    BY <1>1 DEF UnderWay, Others, Back, history
  <2>5. ToSet(flight') = Rest(flight, i)
    BY <1>1, OthersAre
  <2>6. Undisturbed(UnderWay', DOMAIN table', made', Back', Ids(store'), timers')
    BY <1>2, <2>3, <2>4
  <2>7. InTurn(ToSet(flight'), ToSet(held'), DOMAIN table', Ids(store'))
    BY <1>2, <2>3, <2>5
  <2> QED
    BY <1>3, <2>6, <2>7 DEF CalmInv
<1> QED
  BY <1>4, <1>5

LEMMA ServeIsCalm ==
  ASSUME EditorInv, CalmInv, NEW i \in DOMAIN flight, Serve(i)
  PROVE  CalmInv'
<1> DEFINE q == flight[i]
<1>1. /\ UNCHANGED <<store, held, history, applying, made, misread, refused, shown, timers>>
      /\ q.state = "sent"
  BY DEF Serve, bounds, screen, history
<1>2. IsTable(table, made) /\ made \in Nat
  BY DEF EditorInv, IsTable
<1>3. IsRequest(q) /\ IsRows(<<>>)
  <2>1. IsRows(<<>>)
    BY DEF IsRows, IsSeq
  <2> QED
    BY <2>1, ToldApart, Zenon
<1>4. misread \/ refused \/ Calm(i, q, DOMAIN table)
  BY CalmApart
<1>5. CASE /\ q.kind \in {"create", "recreate"}
           /\ CreateBlock(q.row.id, q.row.html, q.row.type, q.row.index)
           /\ Answer(i, "done", <<>>)
  <2> DEFINE r == Answering(q, "done", <<>>)
  <2>1. Answers(r, q) /\ r.state = "done"
    BY <1>1, <1>3, AnswerIs
  <2> HIDE DEF r
  <2>2. DOMAIN table' = DOMAIN table \union {q.row.id}
    BY <1>5 DEF CreateBlock, Inserted
  <2>3. PICK T2 : T2 = DOMAIN table'
    OBVIOUS
  <2>4. misread \/ refused \/ Calm(i, r, T2)
    BY <1>4, <1>5, <2>1, <2>2, <2>3, AnsweredCalm
  <2> QED
    BY <1>1, <1>5, <2>3, <2>4, AnsweringStaysCalm DEF r
<1>6. CASE q.kind = "update" /\ ServeUpdate(i)
  BY <1>1, <1>6, WrittenIsCalm
<1>7. CASE q.kind = "delete" /\ DeleteBlock(q.row.id) /\ Answer(i, "done", <<>>)
  <2> DEFINE r == Answering(q, "done", <<>>)
  <2>1. Answers(r, q) /\ r.state = "done"
    BY <1>1, <1>3, AnswerIs
  <2> HIDE DEF r
  <2>2. DOMAIN table' = DOMAIN table \ {q.row.id}
    BY <1>7 DEF DeleteBlock, Without
  <2>3. PICK T2 : T2 = DOMAIN table'
    OBVIOUS
  <2>4. ~Creates(q) /\ q.kind # "update"
    BY <1>7 DEF Creates
  <2>5. \A b \in DOMAIN table : b \in T2 \/ (q.kind = "delete" /\ b = q.row.id)
    BY <1>7, <2>2, <2>3
  <2>6. misread \/ refused \/ Calm(i, r, T2)
    BY <1>4, <2>1, <2>4, <2>5, AnsweredCalm
  <2> QED
    BY <1>1, <1>7, <2>3, <2>6, AnsweringStaysCalm DEF r
<1>8. CASE /\ q.kind \in {"update", "delete"} /\ q.row.id \notin DOMAIN table
           /\ Answer(i, "refused", <<>>) /\ UNCHANGED table
  <2> DEFINE r == Answering(q, "refused", <<>>)
  <2>1. Answers(r, q) /\ r.state = "refused"
    BY <1>1, <1>3, AnswerIs
  <2> HIDE DEF r
  <2>2. DOMAIN table' = DOMAIN table /\ Writes(q) /\ ~Creates(q)
    BY <1>8 DEF Writes, Creates
  <2>3. misread \/ refused \/ (q.kind = "update" /\ q.row.id \notin Ids(store))
    <3>1. misread \/ refused \/
            InTurn(Rest(flight, i) \union {q}, ToSet(held), DOMAIN table, Ids(store))
      BY <1>4 DEF Calm
    <3>2. q \in Rest(flight, i) \union {q}
      OBVIOUS
    <3> HIDE DEF q
    <3> QED
      BY <1>1, <1>8, <2>2, <3>1, <3>2, NotFoundIs, Zenon
  <2>4. PICK T2 : T2 = DOMAIN table'
    OBVIOUS
  <2>5. misread \/ refused \/ Calm(i, r, T2)
    BY <1>4, <2>1, <2>2, <2>3, <2>4, AnsweredCalm
  <2> QED
    BY <1>1, <1>8, <2>4, <2>5, AnsweringStaysCalm DEF r
<1>9. CASE \/ /\ q.kind = "reorder" /\ ReorderBlocks(q.ids)
               /\ Answer(i, "done", Adopted(table'))
            \/ /\ q.kind = "relist"
               /\ Answer(i, "done", Adopted(table)) /\ UNCHANGED table
  <2> DEFINE rows == Adopted(table')
             r == Answering(q, "done", rows)
  <2>1. IsTable(table', made) /\ DOMAIN table' = DOMAIN table
    BY <1>2, <1>3, <1>9, ReorderedIs DEF ReorderBlocks, IsRequest
  <2>2. IsRows(rows)
    BY <2>1, AdoptedIs
  <2>3. Answer(i, "done", rows)
    BY <1>9
  <2> HIDE DEF rows
  <2>4. Answers(r, q) /\ r.state = "done"
    BY <1>1, <1>3, <2>2, AnswerIs
  <2> HIDE DEF r
  <2>5. ~Creates(q) /\ q.kind \notin {"update", "delete"}
    BY <1>9 DEF Creates
  <2>6. PICK T2 : T2 = DOMAIN table'
    OBVIOUS
  <2>7. misread \/ refused \/ Calm(i, r, T2)
    BY <1>4, <2>1, <2>4, <2>5, <2>6, AnsweredCalm
  <2> QED
    BY <1>1, <2>3, <2>6, <2>7, AnsweringStaysCalm DEF r
<1> QED
  BY <1>5, <1>6, <1>7, <1>8, <1>9 DEF Serve

LEMMA RefuseIsCalm ==
  ASSUME CalmInv, NEW i \in DOMAIN flight, Refuse(i)
  PROVE  CalmInv'
<1>1. refused' = TRUE /\ made' = made /\ shown' = shown
  BY DEF Refuse, screen
<1> QED
  BY <1>1 DEF CalmInv

-----------------------------------------------------------------------------
(* The client's step.                                                      *)

\* While the answer to an undo's request is out, no other request is an undo's.
LEMMA NoOtherUndo ==
  ASSUME EditorInv, NEW i \in DOMAIN flight, Undoes(flight[i])
  PROVE  \A x \in DOMAIN Others(i) : ~Brings(Others(i)[x])
<1> DEFINE r == flight[i]
<1>1. Sound(Beside(Others(i), <<r>>), DOMAIN table, made, applying, Ids(store), misread)
  BY ToldApart
<1>2. Undoes(r)
  OBVIOUS
<1> HIDE DEF r
<1>3. PICK Q : Q = Others(i)
  OBVIOUS
<1>4. SoundWith(Q, r, DOMAIN table, made, applying, Ids(store), misread)
  BY <1>1, <1>3, SoundTogether, Zenon
<1>5. \A x \in DOMAIN Q : ~Undoes(Q[x]) /\ (Brings(Q[x]) => Undoes(Q[x]))
  BY <1>2, <1>4 DEF SoundWith, OneUndo, OfUndo
<1> QED
  BY <1>3, <1>5

\* An answer taken in, and its request gone.
LEMMA SettlesCalmly ==
  ASSUME EditorInv, CalmInv, NEW i \in DOMAIN flight, NEW r, r = flight[i],
         UNCHANGED <<table, made, timers>>, shown' = [b \in Block |-> shown'[b]],
         Same(Others(i), UnderWay'), applying' = applying \/ Undoes(r),
         misread => misread', refused => refused',
         \/ misread' \/ refused'
         \/ /\ \A b \in Ids(store') : b \in Ids(store) \/ (b = Back /\ Brings(r))
            /\ InTurn(ToSet(flight'), ToSet(held'), DOMAIN table, Ids(store'))
  PROVE  CalmInv'
<1>1. 1..made' \subseteq Block
  BY DEF CalmInv
<1>2. CASE misread' \/ refused'
  BY <1>1, <1>2 DEF CalmInv
<1>3. CASE ~(misread' \/ refused')
  <2>1. PICK Q : Q = Others(i)
    OBVIOUS
  <2>2. PICK R : R = UnderWay'
    OBVIOUS
  <2>3. PICK ids2 : ids2 = Ids(store')
    OBVIOUS
  <2>4. PICK back2 : back2 = Back'
    OBVIOUS
  <2>5. Undisturbed(Beside(Q, <<r>>), DOMAIN table, made, Back, Ids(store), timers)
    <3>1. Calm(i, flight[i], DOMAIN table)
      BY <1>3, CalmApart
    <3> QED
      BY <2>1, <3>1 DEF Calm
  <2>6. Undoes(r) => \A x \in DOMAIN Q : ~Brings(Q[x])
    BY <2>1, NoOtherUndo
  <2>7. Brings(r) => Undoes(r)
    <3>1. SoundWith(Others(i), flight[i], DOMAIN table, made, applying, Ids(store), misread)
      BY ToldApart, SoundTogether, Zenon
    <3> QED
      BY <3>1 DEF SoundWith, OfUndo
  <2>8. back2 = Back \/ \A x \in DOMAIN Q : ~Brings(Q[x])
    BY <2>4, <2>6 DEF Back
  <2>9. \A b \in ids2 : \/ b \in Ids(store)
                        \/ b = Back /\ Brings(r) /\ \A x \in DOMAIN Q : ~Brings(Q[x])
    BY <1>3, <2>3, <2>6, <2>7
  <2>10. Undisturbed(Q, DOMAIN table, made, back2, ids2, timers)
    BY <2>5, <2>8, <2>9, LeftUndisturbed
  <2>11. Undisturbed(R, DOMAIN table, made, back2, ids2, timers)
    BY <2>1, <2>2, <2>10, UndisturbedAnywhere
  <2>12. Undisturbed(UnderWay', DOMAIN table', made', Back', Ids(store'), timers')
    BY <2>2, <2>3, <2>4, <2>11
  <2>13. InTurn(ToSet(flight'), ToSet(held'), DOMAIN table', Ids(store'))
    BY <1>3
  <2> QED
    BY <1>1, <2>12, <2>13 DEF CalmInv
<1> QED
  BY <1>2, <1>3

\* The request at i is one of them all, in turn.
LEMMA InTurnNow ==
  ASSUME EditorInv, CalmInv, NEW i \in DOMAIN flight
  PROVE  misread \/ refused \/
           InTurn(Rest(flight, i) \union {flight[i]}, ToSet(held), DOMAIN table, Ids(store))
  BY CalmApart DEF Calm

\* An answered request that settles leaves the others in turn.
LEMMA SettledInTurn ==
  ASSUME EditorInv, CalmInv, NEW i \in DOMAIN flight, flight[i].state # "sent", Settled(i)
  PROVE  misread \/ refused \/
           InTurn(ToSet(flight'), ToSet(held'), DOMAIN table, Ids(store))
<1> SUFFICES ASSUME ~(misread \/ refused)
             PROVE  InTurn(ToSet(flight'), ToSet(held'), DOMAIN table, Ids(store))
  OBVIOUS
<1>1. InTurn(Rest(flight, i) \union {flight[i]}, ToSet(held), DOMAIN table, Ids(store))
  BY InTurnNow
<1>2. \A b : ~Creating(flight[i], b)
  BY DEF Creating
<1>3. InTurn(Rest(flight, i), ToSet(held), DOMAIN table, Ids(store))
  BY <1>1, <1>2, LeftInTurn, Zenon
<1>4. ToSet(flight') = Rest(flight, i) /\ ToSet(held') = ToSet(held)
  BY OthersAre DEF Settled
<1> QED
  BY <1>3, <1>4

\* A creation's answer, and what waited for it.
LEMMA ReleasesInTurn ==
  ASSUME NEW G, NEW q, NEW H, NEW T, NEW ids, InTurn(G \union {q}, H, T, ids),
         q.kind = "create", q.state = "done",
         \A g \in G : g.kind = "create" => g.row.id # q.row.id,
         NEW W, W \subseteq H, \A w \in W : w.row.id = q.row.id,
         NEW H2, H2 \subseteq H
  PROVE  InTurn(G \union W, H2, T, ids)
<1>1. q.row.id \in T
  BY DEF InTurn, Creates
<1>2. \A b : ~Creating(q, b)
  BY DEF Creating
<1>3. InTurn(G, H, T, ids)
  BY <1>2, LeftInTurn, Zenon
<1>4. \A w \in W : Writes(w) /\ w.state = "sent" /\ w.row.id = q.row.id
  BY DEF InTurn
<1>5. \A w \in W : ~Creates(w) /\ w.kind # "create"
  BY <1>4 DEF Writes, Creates
<1>6. \A b \in ids : b \in T \/ \E g \in G \union W : Creating(g, b)
  BY <1>3 DEF InTurn
<1>7. ASSUME NEW g \in G \union W, Creates(g)
      PROVE  g.state # "refused" /\ (g.state = "done" => g.row.id \in T)
  BY <1>3, <1>5, <1>7 DEF InTurn
<1>8. ASSUME NEW g \in G \union W, g.kind = "create", NEW r \in G \union W, Writes(r)
      PROVE  g.row.id # r.row.id
  <2>1. g \in G
    BY <1>5, <1>8
  <2>2. CASE r \in G
    BY <1>3, <1>8, <2>1, <2>2 DEF InTurn
  <2>3. CASE r \in W
    BY <1>4, <1>8, <2>1, <2>3
  <2> QED
    BY <2>2, <2>3
<1>9. ASSUME NEW g \in G \union W, g.kind = "delete"
      PROVE  g.state # "refused" /\ (g.state = "sent" => g.row.id \in T)
  BY <1>1, <1>3, <1>4, <1>9 DEF InTurn
<1>10. \A g \in G \union W : g.kind = "update" /\ g.state = "refused" => g.row.id \notin ids
  BY <1>3, <1>4 DEF InTurn
<1>11. \A g \in H2 : Writes(g) /\ g.state = "sent"
  BY <1>3 DEF InTurn
<1> QED
  BY <1>6, <1>7, <1>8, <1>9, <1>10, <1>11 DEF InTurn

LEMMA ReleasedAre ==
  ASSUME EditorInv, NEW i \in DOMAIN flight, Released(i)
  PROVE  \E W : /\ W \subseteq ToSet(held) /\ \A w \in W : w.row.id = flight[i].row.id
                /\ ToSet(flight') = Rest(flight, i) \union W
                /\ ToSet(held') \subseteq ToSet(held)
<1> DEFINE I == {j \in DOMAIN held : held[j].row.id = flight[i].row.id}
           g == RemoveAt(flight, i)
           W == {held[j] : j \in I}
<1>1. flight' = g \o Picked(held, I) /\ held' = Picked(held, DOMAIN held \ I)
  BY DEF Released
<1>2. IsSeq(held) /\ IsSeq(g) /\ ToSet(g) = Rest(flight, i)
  BY IsSeqDomain, RemoveAtIs, OthersAre DEF EditorInv
<1>3. W \subseteq ToSet(held) /\ \A w \in W : w.row.id = flight[i].row.id
  BY DEF ToSet
<1>4. I \subseteq DOMAIN held
  OBVIOUS
<1> HIDE DEF g, I
<1>5. ToSet(Picked(held, I)) = W /\ IsSeq(Picked(held, I))
  BY <1>2, <1>4, SetOfPicked, PickedIs
<1>6. ToSet(Picked(held, DOMAIN held \ I)) = {held[j] : j \in DOMAIN held \ I}
  <2> DEFINE J == DOMAIN held \ I
  <2>1. J \subseteq DOMAIN held
    OBVIOUS
  <2> HIDE DEF J
  <2>2. ToSet(Picked(held, J)) = {held[j] : j \in J}
    BY <1>2, <2>1, SetOfPicked
  <2> QED
    BY <2>2 DEF J
<1>7. ToSet(held') \subseteq ToSet(held)
  <2>1. {held[j] : j \in DOMAIN held \ I} \subseteq ToSet(held)
    BY DEF ToSet
  <2> QED
    BY <1>1, <1>6, <2>1
<1>8. ToSet(flight') = Rest(flight, i) \union W
  BY <1>1, <1>2, <1>5, SetOfCat
<1> QED
  BY <1>3, <1>7, <1>8

LEMMA CreateAnsweredIsCalm ==
  ASSUME EditorInv, CalmInv, NEW i \in DOMAIN flight, Reply(i), Created(i) \/ CreateFailed(i)
  PROVE  CalmInv'
<1> DEFINE r == flight[i]
<1>1. /\ UNCHANGED <<table, made, timers, refused>> /\ (misread => misread')
      /\ HistoryInv /\ IsRequest(r)
  BY ReplyIs DEF Reply
<1>2. r.kind = "create" /\ r.state \in {"done", "refused"}
  BY DEF Created, CreateFailed, Answered
<1>3. Released(i) /\ Same(Others(i), UnderWay')
  BY ReleasedIs DEF Created, CreateFailed
<1>4. \/ misread \/ refused
      \/ InTurn(Rest(flight, i) \union {r}, ToSet(held), DOMAIN table, Ids(store))
  BY InTurnNow
<1>5. CASE misread \/ refused
  <2>1. shown' = [b \in Block |-> shown'[b]]
    BY ShownIs DEF Created, CreateFailed, Show, CalmInv
  <2>2. applying' = applying \/ Undoes(r)
    BY DEF Created, CreateFailed, Record, history
  <2> QED
    BY <1>1, <1>3, <1>5, <2>1, <2>2, SettlesCalmly
<1>6. CASE ~(misread \/ refused)
  <2>1. Created(i) /\ r.state = "done"
    <3>1. r.state # "refused"
      BY <1>2, <1>4, <1>6 DEF InTurn, Creates
    <3> QED
      BY <1>2, <3>1 DEF CreateFailed, Answered
  <2>2. store' = store /\ shown' = shown /\ applying' = applying
    BY <2>1 DEF Created, Record, history
  <2>3. PICK W : /\ W \subseteq ToSet(held) /\ \A w \in W : w.row.id = r.row.id
                 /\ ToSet(flight') = Rest(flight, i) \union W
                 /\ ToSet(held') \subseteq ToSet(held)
    BY <1>3, ReleasedAre
  <2>4. \A g \in Rest(flight, i) : g.kind = "create" => g.row.id # r.row.id
    <3>1. Sound(Beside(Others(i), <<r>>), DOMAIN table, made, applying, Ids(store), misread)
      BY ToldApart
    <3>2. PICK Q : Q = Others(i)
      OBVIOUS
    <3>3. \A g \in Rest(flight, i) : \E x \in DOMAIN Q : Q[x] = g
      BY <3>2, OthersAre
    <3> HIDE DEF r
    <3>4. SoundWith(Q, r, DOMAIN table, made, applying, Ids(store), misread)
      BY <3>1, <3>2, SoundTogether, Zenon
    <3>5. \A x \in DOMAIN Q : Q[x].kind = "create" => Q[x].row.id # r.row.id
      BY <1>2, <3>4 DEF SoundWith, Creates
    <3> QED
      BY <3>3, <3>5
  <2>5. InTurn(ToSet(flight'), ToSet(held'), DOMAIN table, Ids(store))
    <3>1. InTurn(Rest(flight, i) \union {r}, ToSet(held), DOMAIN table, Ids(store))
      BY <1>4, <1>6
    <3>2. r.state = "done"
      BY <2>1
    <3> HIDE DEF r
    <3>3. InTurn(Rest(flight, i) \union W, ToSet(held'), DOMAIN table, Ids(store))
      BY <1>2, <2>3, <2>4, <3>1, <3>2, ReleasesInTurn
    <3> QED
      BY <2>3, <3>3
  <2>6. shown' = [b \in Block |-> shown'[b]]
    BY <2>2 DEF CalmInv
  <2> QED
    BY <1>1, <1>3, <2>2, <2>5, <2>6, SettlesCalmly
<1> QED
  BY <1>5, <1>6

LEMMA UpdateFailedIsCalm ==
  ASSUME EditorInv, CalmInv, NEW i \in DOMAIN flight, Reply(i), UpdateFailed(i)
  PROVE  CalmInv'
<1> DEFINE r == flight[i]
           u == RolledBack(r)
<1>1. /\ UNCHANGED <<table, made, timers, refused>> /\ (misread => misread') /\ IsRequest(r)
      /\ IsRows(store)
  BY ReplyIs DEF Reply
<1>2. /\ r.state # "sent" /\ store' = u /\ applying' = applying
      /\ Settled(i) /\ shown' = [b \in Block |-> shown'[b]]
  BY ShownIs DEF UpdateFailed, Answered, Show, history
<1>3. Same(Others(i), UnderWay')
  BY <1>2, SettledIs
<1>4. Ids(store') = Ids(store)
  BY <1>1, <1>2, RolledBackIs
<1>5. misread \/ refused \/ InTurn(ToSet(flight'), ToSet(held'), DOMAIN table, Ids(store))
  BY <1>2, SettledInTurn
<1> QED
  BY <1>1, <1>2, <1>3, <1>4, <1>5, SettlesCalmly

LEMMA DeleteAnsweredIsCalm ==
  ASSUME EditorInv, CalmInv, NEW i \in DOMAIN flight, Reply(i), Deleted(i) \/ DeleteFailed(i)
  PROVE  CalmInv'
<1> DEFINE r == flight[i]
<1>1. UNCHANGED <<table, made, timers, refused>> /\ (misread => misread')
  BY ReplyIs DEF Reply
<1>2. /\ r.kind = "delete" /\ r.state # "sent" /\ Settled(i)
      /\ shown' = [b \in Block |-> shown'[b]]
  BY ShownIs DEF Deleted, DeleteFailed, Answered, Show, CalmInv
<1>3. Same(Others(i), UnderWay')
  BY <1>2, SettledIs
<1>4. applying' = applying \/ Undoes(r)
  BY DEF Deleted, DeleteFailed, Record, history, Undoes
<1>5. misread \/ refused \/ InTurn(ToSet(flight'), ToSet(held'), DOMAIN table, Ids(store))
  BY <1>2, SettledInTurn
<1>6. misread \/ refused \/ r.state # "refused"
  BY <1>2, InTurnNow DEF InTurn
<1>7. misread \/ refused \/ store' = store
  BY <1>6 DEF Deleted, DeleteFailed, Answered
<1> QED
  BY <1>1, <1>2, <1>3, <1>4, <1>5, <1>7, SettlesCalmly

LEMMA ReorderAnsweredIsCalm ==
  ASSUME EditorInv, CalmInv, NEW i \in DOMAIN flight, Reply(i), ReorderAnswered(i)
  PROVE  CalmInv'
<1> DEFINE r == flight[i]
<1>1. /\ UNCHANGED <<table, made, timers, refused>> /\ (misread => misread')
      /\ misread' \/ ~ReplacesMore(r)
  BY ReplyIs DEF Reply
<1>2. /\ r.kind = "reorder" /\ r.state # "sent" /\ Settled(i)
      /\ shown' = [b \in Block |-> shown'[b]]
  BY ShownIs DEF ReorderAnswered, Adopt, CalmInv
<1>3. Same(Others(i), UnderWay')
  BY <1>2, SettledIs
<1>4. applying' = applying \/ Undoes(r)
  BY DEF ReorderAnswered, Record, history, Undoes
<1>5. misread \/ refused \/ InTurn(ToSet(flight'), ToSet(held'), DOMAIN table, Ids(store))
  BY <1>2, SettledInTurn
<1>6. misread' \/ Ids(store') = Ids(store)
  <2>1. CASE r.state = "done"
    <3>1. store' = r.rows
      BY <2>1 DEF ReorderAnswered, Adopt, ShowFrom
    <3>2. misread' \/ Contents(r.rows) = Contents(store)
      BY <1>1, <1>2, <2>1 DEF ReplacesMore, Listing
    <3>3. misread' \/ ((\A b \in Ids(r.rows) : b \in Ids(store))
                       /\ \A b \in Ids(store) : b \in Ids(r.rows))
      BY <3>2, ContentsTell
    <3> QED
      BY <3>1, <3>3
  <2>2. CASE r.state # "done"
    BY <2>2 DEF ReorderAnswered
  <2> QED
    BY <2>1, <2>2
<1> QED
  BY <1>1, <1>2, <1>3, <1>4, <1>5, <1>6, SettlesCalmly

LEMMA UndoFailedIsCalm ==
  ASSUME EditorInv, CalmInv, NEW i \in DOMAIN flight, Reply(i), UndoFailed(i)
  PROVE  CalmInv'
<1> DEFINE r == flight[i]
<1>1. /\ UNCHANGED <<table, made, timers, refused>> /\ (misread => misread')
      /\ misread' \/ ~Answered(i, "relist", "refused")
      /\ OfUndo(r, applying)
  BY ReplyIs DEF Reply
<1>2. /\ r.kind \in {"recreate", "relist"} /\ r.state = "refused" /\ Settled(i)
      /\ shown' = [b \in Block |-> shown'[b]]
  BY DEF UndoFailed, CalmInv
<1>3. Same(Others(i), UnderWay')
  BY <1>2, SettledIs
<1>4. Undoes(r)
  BY <1>1, <1>2 DEF OfUndo, Brings
<1>5. misread' \/ refused'
  <2>1. CASE r.kind = "relist"
    BY <1>1, <1>2, <2>1 DEF Answered
  <2>2. CASE r.kind = "recreate"
    <3>1. misread \/ refused
      BY <1>2, <2>2, InTurnNow DEF InTurn, Creates
    <3> QED
      BY <1>1, <3>1
  <2> QED
    BY <1>2, <2>1, <2>2
<1> QED
  BY <1>1, <1>2, <1>3, <1>4, <1>5, SettlesCalmly

\* More blocks on the screen: stored ones that no request writes to.
LEMMA MoreInTurn ==
  ASSUME NEW F, NEW H, NEW T, NEW ids, InTurn(F, H, T, ids),
         NEW ids2,
         \A b \in ids2 : b \in ids \/ (b \in T /\ \A q \in F : Writes(q) => q.row.id # b)
  PROVE  InTurn(F, H, T, ids2)
<1>1. \A b \in ids2 : b \in T \/ \E q \in F : Creating(q, b)
  BY DEF InTurn
<1>2. \A q \in F : q.kind = "update" /\ q.state = "refused" => q.row.id \notin ids2
  BY DEF InTurn, Writes
<1> QED
  BY <1>1, <1>2 DEF InTurn

\* The block a listing brings is stored, and no request writes to it.
LEMMA BroughtIs ==
  ASSUME EditorInv, CalmInv, NEW i \in DOMAIN flight, Brings(flight[i])
  PROVE  \/ misread \/ refused
         \/ /\ \A g \in Rest(flight, i) : Writes(g) => g.row.id # Back
            /\ flight[i].kind = "relist" => Back \in DOMAIN table
<1> SUFFICES ASSUME ~(misread \/ refused)
             PROVE  /\ \A g \in Rest(flight, i) : Writes(g) => g.row.id # Back
                    /\ flight[i].kind = "relist" => Back \in DOMAIN table
  OBVIOUS
<1>1. PICK Q : Q = Others(i)
  OBVIOUS
<1>2. PICK r : r = flight[i]
  OBVIOUS
<1> DEFINE B == Beside(Q, <<r>>)
<1>3. Undisturbed(B, DOMAIN table, made, Back, Ids(store), timers)
  BY <1>1, <1>2, CalmApart DEF Calm
<1>4. /\ \A x \in DOMAIN Q : <<1, x>> \in DOMAIN B /\ B[<<1, x>>] = Q[x]
      /\ <<2, 1>> \in DOMAIN B /\ B[<<2, 1>>] = r
  BY WithIs
<1> HIDE DEF B
<1>5. Brings(r)
  BY <1>2
<1>6. \A x \in DOMAIN Q : Writes(Q[x]) => Q[x].row.id # Back
  BY <1>3, <1>4, <1>5 DEF Undisturbed
<1>7. r.kind = "relist" => Back \in DOMAIN table
  BY <1>3, <1>4, <1>5 DEF Undisturbed
<1>8. \A g \in Rest(flight, i) : \E x \in DOMAIN Q : Q[x] = g
  BY <1>1, OthersAre
<1> QED
  BY <1>2, <1>6, <1>7, <1>8

LEMMA RelistedIsCalm ==
  ASSUME EditorInv, CalmInv, NEW i \in DOMAIN flight, Reply(i), Relisted(i)
  PROVE  CalmInv'
<1> DEFINE r == flight[i]
           row == applying.inverse.row
<1>1. /\ UNCHANGED <<table, made, timers, refused>> /\ (misread => misread')
      /\ misread' \/ ~ReplacesMore(r)
      /\ OfUndo(r, applying)
  BY ReplyIs DEF Reply
<1>2. /\ r.kind = "relist" /\ r.state = "done" /\ Settled(i) /\ store' = r.rows
      /\ shown' = [b \in Block |-> shown'[b]]
  BY ShownIs DEF Relisted, Answered, Adopt
<1>3. Same(Others(i), UnderWay')
  BY <1>2, SettledIs
<1>4. Brings(r) /\ Undoes(r)
  BY <1>1, <1>2 DEF OfUndo, Brings
<1>5. misread \/ refused \/ InTurn(ToSet(flight'), ToSet(held'), DOMAIN table, Ids(store))
  BY <1>2, SettledInTurn
<1>6. misread' \/ \A b \in Ids(store') : b \in Ids(store) \/ b = Back
  <2> DEFINE again == <<row>>
  <2>1. misread' \/ Contents(r.rows) = Contents(store) \union Contents(again)
    BY <1>1, <1>2 DEF ReplacesMore, Listing
  <2>2. DOMAIN again = {1} /\ again[1] = row
    OBVIOUS
  <2> HIDE DEF again, row
  <2>3. ASSUME Contents(r.rows) = Contents(store) \union Contents(again), NEW b \in Ids(r.rows)
        PROVE  b \in Ids(store) \/ b = Back
    <3>1. PICK k \in DOMAIN r.rows : r.rows[k].id = b
      BY <2>3 DEF Ids
    <3>2. <<b, r.rows[k].html>> \in Contents(r.rows)
      BY <3>1 DEF Contents
    <3>3. CASE <<b, r.rows[k].html>> \in Contents(store)
      BY <3>3 DEF Contents, Ids
    <3>4. CASE <<b, r.rows[k].html>> \in Contents(again)
      <4>1. b = row.id
        BY <2>2, <3>4 DEF Contents
      <4> QED
        BY <4>1 DEF row, Back
    <3> QED
      BY <2>3, <3>2, <3>3, <3>4
  <2> QED
    BY <1>2, <2>1, <2>3
<1>7. \/ misread' \/ refused'
      \/ InTurn(ToSet(flight'), ToSet(held'), DOMAIN table, Ids(store'))
  <2> SUFFICES ASSUME ~(misread' \/ refused')
               PROVE  InTurn(ToSet(flight'), ToSet(held'), DOMAIN table, Ids(store'))
    OBVIOUS
  <2>1. InTurn(ToSet(flight'), ToSet(held'), DOMAIN table, Ids(store))
    BY <1>1, <1>5
  <2>2. Back \in DOMAIN table /\ \A g \in Rest(flight, i) : Writes(g) => g.row.id # Back
    BY <1>1, <1>2, <1>4, BroughtIs
  <2>3. ToSet(flight') = Rest(flight, i)
    BY <1>2, OthersAre DEF Settled
  <2>4. PICK ids2 : ids2 = Ids(store')
    OBVIOUS
  <2>5. PICK F : F = ToSet(flight')
    OBVIOUS
  <2>6. PICK H : H = ToSet(held')
    OBVIOUS
  <2>7. \A b \in ids2 : \/ b \in Ids(store)
                        \/ b \in DOMAIN table /\ \A g \in F : Writes(g) => g.row.id # b
    BY <1>6, <2>2, <2>3, <2>4, <2>5
  <2>8. InTurn(F, H, DOMAIN table, ids2)
    BY <2>1, <2>5, <2>6, <2>7, MoreInTurn
  <2> QED
    BY <2>4, <2>5, <2>6, <2>8
<1> QED
  BY <1>1, <1>2, <1>3, <1>4, <1>6, <1>7, SettlesCalmly

\* The request after a creation done over asks for a listing.
LEMMA RelistingUndisturbed ==
  ASSUME NEW Q, NEW q, NEW T, NEW n, NEW back, NEW ids, NEW tm,
         Undisturbed(Beside(Q, <<q>>), T, n, back, ids, tm),
         Brings(q), back \in T,
         NEW r, r.kind = "relist"
  PROVE  Undisturbed(Beside(Q, <<r>>), T, n, back, ids, tm)
<1> DEFINE B == Beside(Q, <<q>>)
           C == Beside(Q, <<r>>)
           m == [p \in DOMAIN C |-> p]
<1>1. /\ \A x \in DOMAIN Q : <<1, x>> \in DOMAIN B /\ B[<<1, x>>] = Q[x]
      /\ <<2, 1>> \in DOMAIN B /\ B[<<2, 1>>] = q
  BY WithIs
<1>2. /\ \A x \in DOMAIN Q : <<1, x>> \in DOMAIN C /\ C[<<1, x>>] = Q[x]
      /\ <<2, 1>> \in DOMAIN C /\ C[<<2, 1>>] = r
      /\ \A p \in DOMAIN C : p = <<2, 1>> \/ \E x \in DOMAIN Q : p = <<1, x>>
  BY WithIs
<1>3. \A p \in DOMAIN C : m[p] = p
  OBVIOUS
<1>4. Undisturbed(B, T, n, back, ids, tm)
  OBVIOUS
<1> HIDE DEF B, C, m
<1>5. Milder(r, q) /\ \A x : Milder(x, x)
  BY DEF Milder, Writes, Removing, Brings
<1>6. \A p \in DOMAIN C : p \in DOMAIN B /\ Milder(C[p], B[p])
  BY <1>1, <1>2, <1>5
<1>7. Fewer(C, B, m) /\ Brought(C, B, T, back, ids, back, ids)
  BY <1>3, <1>6 DEF Fewer, Brought
<1>8. Undisturbed(C, T, n, back, ids, tm)
  BY <1>4, <1>7, LessDisturbs, Zenon
<1> QED
  BY <1>8 DEF C

LEMMA JoinsInTurn ==
  ASSUME NEW F, NEW H, NEW T, NEW ids, InTurn(F, H, T, ids), NEW r, ~Creates(r), ~Writes(r)
  PROVE  InTurn(F \union {r}, H, T, ids)
<1>1. r.kind \notin {"create", "recreate", "update", "delete"}
  BY DEF Creates, Writes
<1>2. \A b \in ids : b \in T \/ \E q \in F \union {r} : Creating(q, b)
  BY DEF InTurn
<1> QED
  BY <1>1, <1>2 DEF InTurn

LEMMA RecreatedIsCalm ==
  ASSUME EditorInv, CalmInv, NEW i \in DOMAIN flight, Reply(i), Recreated(i)
  PROVE  CalmInv'
<1> DEFINE q == flight[i]
<1>1. /\ UNCHANGED <<table, made, timers, refused>> /\ (misread => misread')
      /\ OfUndo(q, applying)
  BY ReplyIs DEF Reply
<1>2. /\ q.kind = "recreate" /\ q.state = "done"
      /\ UNCHANGED <<store, shown, held, applying>>
  BY DEF Recreated, Answered, history
<1>3. 1..made' \subseteq Block /\ shown' = [b \in Block |-> shown'[b]]
  BY <1>1, <1>2 DEF CalmInv
<1>4. CASE misread \/ refused
  BY <1>1, <1>3, <1>4 DEF CalmInv
<1>5. CASE ~(misread \/ refused)
  <2>1. PICK r : r = Relisting(i)
    OBVIOUS
  <2>2. r.kind = "relist" /\ r.state = "sent"
    BY <2>1, NoRowIs, RequestIs, PostIs DEF Relisting
  <2>3. PICK R : R = UnderWay'
    OBVIOUS
  <2>4. PICK Q : Q = Others(i)
    OBVIOUS
  <2>5. Same(Beside(Q, <<r>>), R)
    BY <2>1, <2>3, <2>4, RecreatedIs
  <2>6. Calm(i, q, DOMAIN table)
    BY <1>5, CalmApart
  <2>7. InTurn(Rest(flight, i) \union {q}, ToSet(held), DOMAIN table, Ids(store))
    BY <2>6 DEF Calm
  <2>8. Back \in DOMAIN table
    <3>1. q.row.id \in DOMAIN table
      BY <1>2, <2>7 DEF InTurn, Creates
    <3> QED
      BY <1>1, <1>2, <3>1 DEF OfUndo, Back
  <2>9. Undisturbed(R, DOMAIN table, made, Back, Ids(store), timers)
    <3>1. Undisturbed(Beside(Q, <<q>>), DOMAIN table, made, Back, Ids(store), timers) /\ Brings(q)
      BY <1>2, <2>4, <2>6 DEF Calm, Brings
    <3> HIDE DEF q
    <3>2. Undisturbed(Beside(Q, <<r>>), DOMAIN table, made, Back, Ids(store), timers)
      BY <2>2, <2>8, <3>1, RelistingUndisturbed
    <3> QED
      BY <2>5, <3>2, UndisturbedAnywhere, Zenon
  <2>10. InTurn(Rest(flight, i) \union {r}, ToSet(held), DOMAIN table, Ids(store))
    <3>1. \A b : ~Creating(q, b)
      BY <1>2 DEF Creating
    <3>2. InTurn(Rest(flight, i), ToSet(held), DOMAIN table, Ids(store))
      BY <2>7, <3>1, LeftInTurn, Zenon
    <3>3. ~Creates(r) /\ ~Writes(r)
      BY <2>2 DEF Creates, Writes
    <3> QED
      BY <2>2, <3>2, <3>3, JoinsInTurn
  <2>11. ToSet(flight') = Rest(flight, i) \union {r}
    <3>1. IsSeq(RemoveAt(flight, i)) /\ IsSeq(<<r>>) /\ flight' = RemoveAt(flight, i) \o <<r>>
      BY <2>1, RecreatedIs
    <3>2. ToSet(<<r>>) = {r}
      BY DEF ToSet
    <3> QED
      BY <3>1, <3>2, SetOfCat, OthersAre
  <2>12. Undisturbed(UnderWay', DOMAIN table', made', Back', Ids(store'), timers')
    BY <1>1, <1>2, <2>3, <2>9 DEF Back
  <2>13. InTurn(ToSet(flight'), ToSet(held'), DOMAIN table', Ids(store'))
    BY <1>1, <1>2, <2>10, <2>11
  <2> QED
    BY <1>3, <2>12, <2>13 DEF CalmInv
<1> QED
  BY <1>4, <1>5

LEMMA ReplyIsCalm ==
  ASSUME EditorInv, CalmInv, NEW i \in DOMAIN flight, Reply(i)
  PROVE  CalmInv'
<1>1. \/ Created(i) \/ CreateFailed(i) \/ UpdateFailed(i)
      \/ Deleted(i) \/ DeleteFailed(i) \/ ReorderAnswered(i)
      \/ Recreated(i) \/ Relisted(i) \/ UndoFailed(i)
  BY DEF Reply
<1> QED
  BY <1>1, CreateAnsweredIsCalm, UpdateFailedIsCalm, DeleteAnsweredIsCalm,
     ReorderAnsweredIsCalm, RecreatedIsCalm, RelistedIsCalm, UndoFailedIsCalm

-----------------------------------------------------------------------------
(* Every step keeps the calm.                                              *)

LEMMA CalmStep ==
  ASSUME EditorInv, CalmInv, [EditorNext]_editorVars
  PROVE  CalmInv'
<1>1. ASSUME NEW b, Type(b) \/ MakeList(b)
      PROVE  CalmInv'
  <2>1. b \in Ids(store) /\ \E html : Edit(b, html)
    BY <1>1 DEF Type, MakeList, At
  <2> QED
    BY <2>1, EditIsCalm
<1>2. CASE Blur \/ (\E b \in Block : Click(b)) \/ UNCHANGED editorVars
  <2>1. UNCHANGED <<table, misread, refused, made, flight, held, applying, store, timers, shown>>
    BY <1>2 DEF Blur, Click, editorVars, bounds, marks, history, screen
  <2>2. shown' = [b \in Block |-> shown'[b]]
    BY <2>1 DEF CalmInv
  <2> QED
    BY <2>1, <2>2, CalmStays
<1>3. CASE Restructure
  <2>1. CASE \E b \in Block, k \in 0..typed : Enter(b, k) \/ ModEnter(b, k)
    BY <2>1, EnterIsCalm
  <2>2. CASE \E b \in Block : InsertBlockAfter(b)
    BY <2>2, CreationIsCalm
  <2>3. CASE \E i \in DOMAIN store : Backspace(i) \/ ForwardDelete(i)
    BY <2>3, BackspaceIsCalm
  <2> QED
    BY <1>3, <2>1, <2>2, <2>3 DEF Restructure
<1>4. CASE Saving
  <2>1. CASE \E i \in DOMAIN flight : Serve(i) \/ Refuse(i) \/ Reply(i)
    BY <2>1, ServeIsCalm, RefuseIsCalm, ReplyIsCalm
  <2>2. CASE \E b \in Block : TimerFires(b)
    BY <2>2, TimerIsCalm
  <2> QED
    BY <1>4, <2>1, <2>2 DEF Saving
<1>5. ASSUME NEW b \in Block, LeaveList(b) \/ DuplicateBlock(b) \/ RemoveBlock(b)
      PROVE  CalmInv'
  BY <1>5, LeaveListIsCalm, CreationIsCalm, RemoveIsCalm
<1>6. ASSUME NEW i \in DOMAIN store, MoveBlock(i)
      PROVE  CalmInv'
  BY <1>6, MoveIsCalm
<1> QED
  BY <1>1, <1>2, <1>3, <1>4, <1>5, <1>6, UndoIsCalm DEF EditorNext

-----------------------------------------------------------------------------
(* Saves leave the text alone.                                             *)

\* A row written over stays in its place.
LEMMA PutKeepsOrder ==
  ASSUME NEW s, IsRows(s), NEW b, NEW html, NEW type
  PROVE  /\ DOMAIN Put(s, b, html, type) = DOMAIN s
         /\ Order(Put(s, b, html, type)) = Order(s)
<1> DEFINE u == Put(s, b, html, type)
           written(i) == [s[i] EXCEPT !.html = html, !.type = type]
<1>1. DOMAIN u = DOMAIN s /\ \A i \in DOMAIN s : u[i] = s[i] \/ u[i] = written(i)
  BY DEF Put
<1>2. ASSUME NEW i \in DOMAIN s
      PROVE  Overwrites(written(i), s[i])
  <2>1. IsRow(s[i])
    BY DEF IsRows
  <2> QED
    BY <2>1, RowWritten, Zenon
<1>3. IsRows(u)
  BY PutIs
<1> HIDE DEF u, written
<1>4. \A i \in DOMAIN s : u[i].id = s[i].id /\ u[i].index = s[i].index
  BY <1>1, <1>2 DEF Overwrites
<1>5. Order(u) = Order(s)
  BY <1>1, <1>3, <1>4, SameOrder
<1> QED
  BY <1>1, <1>5 DEF u

\* A store that shows what is there changes nothing.
LEMMA ShowAgain ==
  ASSUME CalmInv, Show(store)
  PROVE  store' = store /\ shown' = shown
<1>1. /\ store' = store
      /\ shown' = [b \in Block |->
           IF \/ b \in Ids(store) \ Ids(store)
              \/ /\ b \in Ids(store) \intersect Ids(store) /\ b # caret
                 /\ RowIn(store, b) # RowIn(store, b)
           THEN RowIn(store, b).html ELSE shown[b]]
  BY DEF Show, ShowFrom
<1>2. shown' = [b \in Block |-> shown[b]]
  BY <1>1
<1> QED
  BY <1>1, <1>2 DEF CalmInv

\* The page reads as it did.
LEMMA SameReading ==
  ASSUME DOMAIN store' = DOMAIN store, Order(store') = Order(store), shown' = shown
  PROVE  Reading' = Reading
<1>1. Order(store)' = Order(store)
  OBVIOUS
<1> QED
  BY <1>1 DEF Reading

LEMMA UpdateFailedKeepsText ==
  ASSUME EditorInv, CalmInv, ~misread, ~refused, NEW i \in DOMAIN flight, Reply(i), UpdateFailed(i)
  PROVE  Reading' = Reading
<1> DEFINE r == flight[i]
<1>1. r.kind = "update" /\ r.state = "refused" /\ Show(RolledBack(r))
  BY DEF UpdateFailed, Answered
<1>2. r.row.id \notin Ids(store)
  <2>1. InTurn(Rest(flight, i) \union {r}, ToSet(held), DOMAIN table, Ids(store))
    BY InTurnNow
  <2> QED
    BY <1>1, <2>1 DEF InTurn
<1>3. RolledBack(r) = store
  <2>1. \A k \in DOMAIN store : store[k].id # r.row.id
    BY <1>2 DEF Ids
  <2>2. RolledBack(r) = [k \in DOMAIN store |-> store[k]]
    BY <2>1 DEF RolledBack
  <2>3. store = [k \in DOMAIN store |-> store[k]]
    BY IsSeqDomain DEF EditorInv, IsRows, IsSeq
  <2> QED
    BY <2>2, <2>3
<1>4. store' = store /\ shown' = shown
  BY <1>1, <1>3, ShowAgain
<1> QED
  BY <1>4, SameReading

LEMMA ReplyKeepsText ==
  ASSUME EditorInv, CalmInv, ~misread, ~refused, NEW i \in DOMAIN flight, Reply(i),
         flight[i].kind \notin {"reorder", "relist"}
  PROVE  Reading' = Reading
<1> DEFINE r == flight[i]
<1>1. InTurn(Rest(flight, i) \union {r}, ToSet(held), DOMAIN table, Ids(store))
  BY InTurnNow
<1>2. (Creates(r) => r.state # "refused") /\ (r.kind = "delete" => r.state # "refused")
  BY <1>1 DEF InTurn
<1>3. ~CreateFailed(i) /\ ~DeleteFailed(i) /\ ~UndoFailed(i)
  BY <1>2 DEF CreateFailed, DeleteFailed, UndoFailed, Answered, Creates
<1>4. ~ReorderAnswered(i) /\ ~Relisted(i)
  BY DEF ReorderAnswered, Relisted, Answered
<1>5. Created(i) \/ UpdateFailed(i) \/ Deleted(i) \/ Recreated(i)
  BY <1>3, <1>4 DEF Reply
<1>6. CASE UpdateFailed(i)
  BY <1>6, UpdateFailedKeepsText
<1>7. CASE Created(i) \/ Deleted(i) \/ Recreated(i)
  <2>1. store' = store /\ shown' = shown
    BY <1>7 DEF Created, Deleted, Recreated
  <2> QED
    BY <2>1, SameReading
<1> QED
  BY <1>5, <1>6, <1>7

LEMMA TimerKeepsText ==
  ASSUME EditorInv, NEW b, TimerFires(b)
  PROVE  Reading' = Reading
<1>1. shown' = shown /\ (store' = store \/ store' = SetLocalContent(b, shown[b]))
  BY DEF TimerFires
<1>2. DOMAIN store' = DOMAIN store /\ Order(store') = Order(store)
  BY <1>1, PutKeepsOrder DEF SetLocalContent, EditorInv
<1> QED
  BY <1>1, <1>2, SameReading

SavesText ==
  \/ Reading' = Reading
  \/ misread \/ refused
  \/ \E i \in DOMAIN flight :
       Reply(i) /\ flight[i].kind \in {"reorder", "relist"}
  \/ ~Saving

LEMMA SavingStep ==
  ASSUME EditorInv, CalmInv
  PROVE  SavesText
<1> SUFFICES ASSUME ~misread, ~refused, Saving,
                    ~\E i \in DOMAIN flight : Reply(i) /\ flight[i].kind \in {"reorder", "relist"}
             PROVE  Reading' = Reading
  BY DEF SavesText
<1>1. ASSUME NEW i \in DOMAIN flight, Serve(i) \/ Refuse(i)
      PROVE  Reading' = Reading
  <2>1. store' = store /\ shown' = shown
    BY <1>1 DEF Serve, Refuse, screen
  <2> QED
    BY <2>1, SameReading
<1>2. ASSUME NEW i \in DOMAIN flight, Reply(i)
      PROVE  Reading' = Reading
  BY <1>2, ReplyKeepsText
<1>3. ASSUME NEW b \in Block, TimerFires(b)
      PROVE  Reading' = Reading
  BY <1>3, TimerKeepsText
<1> QED
  BY <1>1, <1>2, <1>3 DEF Saving

\* Saves and their answers change nothing on the screen (BlockEditor.tsx,
\* blockStore.ts): whatever is under way, in whatever order it is served and
\* answered, the page reads after a save, a server's step or an answer as it
\* did before, but for the answers to a move and to an undo, and unless the
\* network refused a request or a listing went astray.  No request comes to
\* nothing that would take its gesture back (CalmInv).
THEOREM SavesKeepTheText == EditorSpec => SavingKeepsTheText
<1>1. EditorInv /\ [EditorNext]_editorVars => EditorInv'
  BY StepKeeps
<1>2. EditorInv /\ CalmInv /\ [EditorNext]_editorVars => CalmInv'
  BY CalmStep
<1>3. EditorInit => EditorInv /\ CalmInv
  BY InitKeeps, CalmInit
<1>4. EditorInv /\ CalmInv => [SavesText]_editorVars
  BY SavingStep
<1>5. SavingKeepsTheText <=> [][SavesText]_editorVars
  BY DEF SavingKeepsTheText, SavesText
<1> QED
  BY <1>1, <1>2, <1>3, <1>4, <1>5, PTL DEF EditorSpec

-----------------------------------------------------------------------------
(* The last update of a block under way.                                   *)

Updating(r, b) == r.kind = "update" /\ r.state = "sent" /\ r.row.id = b
Silent(s, b) == \A i \in DOMAIN s : ~Updating(s[i], b)
\* The last of s to update b carries html.
Ends(s, b, html) ==
  \E i \in DOMAIN s : /\ Updating(s[i], b) /\ s[i].row.html = html
                      /\ \A j \in DOMAIN s : i < j => ~Updating(s[j], b)

LEMMA EndsNot ==
  ASSUME NEW s, NEW b, NEW html, Ends(s, b, html)
  PROVE  ~Silent(s, b)
  BY DEF Ends, Silent

LEMMA CatEnds ==
  ASSUME NEW s, IsSeq(s), NEW t, IsSeq(t), NEW b
  PROVE  /\ Silent(s, b) /\ Silent(t, b) => Silent(s \o t, b)
         /\ \A html : Ends(t, b, html) => Ends(s \o t, b, html)
         /\ \A html : Ends(s, b, html) /\ Silent(t, b) => Ends(s \o t, b, html)
<1> DEFINE u == s \o t
           m == Len(s)
           n == Len(t)
<1>1. m \in Nat /\ n \in Nat /\ DOMAIN s = 1..m /\ DOMAIN t = 1..n
  BY IsSeqDomain
<1>2. DOMAIN u = 1..m + n /\ \A i \in 1..m + n : u[i] = IF i <= m THEN s[i] ELSE t[i - m]
  BY CatIs, IsSeqDomain
<1> HIDE DEF u, m, n
<1>3. \A i \in 1..m : i \in 1..m + n /\ u[i] = s[i]
  BY <1>1, <1>2
<1>4. \A i \in 1..n : m + i \in 1..m + n /\ u[m + i] = t[i]
  <2>1. ASSUME NEW i \in 1..n PROVE m + i \in 1..m + n /\ u[m + i] = t[i]
    <3>1. PICK k : k = m + i
      OBVIOUS
    <3>2. k \in 1..m + n /\ ~(k <= m) /\ k - m = i
      BY <1>1, <3>1
    <3>3. u[k] = t[k - m]
      BY <1>2, <3>2
    <3> QED
      BY <3>1, <3>2, <3>3
  <2> QED
    BY <2>1
<1>5. \A j \in 1..m + n : j \in 1..m \/ (j - m \in 1..n /\ m + (j - m) = j)
  BY <1>1
<1>6. Silent(s, b) /\ Silent(t, b) => Silent(u, b)
  <2>1. ASSUME Silent(s, b), Silent(t, b), NEW j \in 1..m + n PROVE ~Updating(u[j], b)
    <3>1. CASE j \in 1..m
      BY <1>1, <1>3, <2>1, <3>1 DEF Silent
    <3>2. CASE j - m \in 1..n /\ m + (j - m) = j
      <4>1. u[j] = t[j - m]
        BY <1>4, <3>2
      <4> QED
        BY <1>1, <2>1, <3>2, <4>1 DEF Silent
    <3> QED
      BY <1>5, <3>1, <3>2
  <2> QED
    BY <1>2, <2>1 DEF Silent
<1>7. ASSUME NEW html, Ends(t, b, html) PROVE Ends(u, b, html)
  <2>1. PICK i \in 1..n : /\ Updating(t[i], b) /\ t[i].row.html = html
                          /\ \A j \in 1..n : i < j => ~Updating(t[j], b)
    BY <1>1, <1>7 DEF Ends
  <2>2. ASSUME NEW j \in 1..m + n, m + i < j PROVE ~Updating(u[j], b)
    <3>1. j - m \in 1..n /\ m + (j - m) = j /\ i < j - m
      BY <1>1, <2>2
    <3>2. u[j] = t[j - m]
      BY <1>4, <3>1
    <3> QED
      BY <2>1, <3>1, <3>2
  <2> QED
    BY <1>2, <1>4, <2>1, <2>2 DEF Ends
<1>8. ASSUME NEW html, Ends(s, b, html), Silent(t, b) PROVE Ends(u, b, html)
  <2>1. PICK i \in 1..m : /\ Updating(s[i], b) /\ s[i].row.html = html
                          /\ \A j \in 1..m : i < j => ~Updating(s[j], b)
    BY <1>1, <1>8 DEF Ends
  <2>2. ASSUME NEW j \in 1..m + n, i < j PROVE ~Updating(u[j], b)
    <3>1. CASE j \in 1..m
      BY <1>3, <2>1, <2>2, <3>1
    <3>2. CASE j - m \in 1..n /\ m + (j - m) = j
      <4>1. u[j] = t[j - m]
        BY <1>4, <3>2
      <4> QED
        BY <1>1, <1>8, <3>2, <4>1 DEF Silent
    <3> QED
      BY <1>5, <3>1, <3>2
  <2> QED
    BY <1>2, <1>3, <2>1, <2>2 DEF Ends
<1> QED
  BY <1>6, <1>7, <1>8 DEF u

\* What is picked, if all or none of the updates of b are.
LEMMA PickedEnds ==
  ASSUME NEW s, IsSeq(s), NEW I, I \subseteq DOMAIN s, NEW b
  PROVE  /\ (\A i \in I : ~Updating(s[i], b)) => Silent(Picked(s, I), b)
         /\ (\A i \in DOMAIN s \ I : ~Updating(s[i], b)) =>
              \A html : Ends(s, b, html) => Ends(Picked(s, I), b, html)
<1> DEFINE t == Picked(s, I)
<1>1. IsSeq(t)
  BY PickedIs, Zenon
<1>2. PICK g : Picks(t, s, I, g) /\ Rising(g, t)
  BY PickedIs, Zenon
<1>3. Len(t) \in Nat /\ DOMAIN t = 1..Len(t) /\ Len(s) \in Nat /\ DOMAIN s = 1..Len(s)
  BY <1>1, IsSeqDomain
<1> HIDE DEF t
<1>4. (\A i \in I : ~Updating(s[i], b)) => Silent(t, b)
  BY <1>2 DEF Picks, Silent
<1>5. ASSUME \A i \in DOMAIN s \ I : ~Updating(s[i], b), NEW html, Ends(s, b, html)
      PROVE  Ends(t, b, html)
  <2>1. PICK i \in DOMAIN s : /\ Updating(s[i], b) /\ s[i].row.html = html
                              /\ \A j \in DOMAIN s : i < j => ~Updating(s[j], b)
    BY <1>5 DEF Ends
  <2>2. PICK k \in DOMAIN t : g[k] = i
    BY <1>2, <1>5, <2>1 DEF Picks
  <2>3. ASSUME NEW l \in DOMAIN t, k < l PROVE ~Updating(t[l], b)
    <3>1. g[l] \in DOMAIN s /\ i < g[l] /\ t[l] = s[g[l]]
      BY <1>2, <2>2, <2>3 DEF Picks, Rising
    <3> QED
      BY <2>1, <3>1
  <2> QED
    BY <1>2, <2>1, <2>2, <2>3 DEF Ends, Picks
<1> QED
  BY <1>4, <1>5 DEF t

\* One request less.
LEMMA RemovedEnds ==
  ASSUME NEW s, IsSeq(s), NEW i \in DOMAIN s, NEW b
  PROVE  /\ Silent(s, b) => Silent(RemoveAt(s, i), b)
         /\ ~Updating(s[i], b) => \A html : Ends(s, b, html) => Ends(RemoveAt(s, i), b, html)
         /\ (\A j \in 1..i - 1 : ~Updating(s[j], b)) =>
              \A html : Ends(s, b, html) =>
                \/ Ends(RemoveAt(s, i), b, html)
                \/ Silent(RemoveAt(s, i), b) /\ Updating(s[i], b) /\ s[i].row.html = html
<1> DEFINE t == RemoveAt(s, i)
           n == Len(s)
<1>1. n \in Nat /\ DOMAIN s = 1..n /\ i \in 1..n
  BY IsSeqDomain
<1>2. DOMAIN t = 1..n - 1 /\ \A j \in 1..n - 1 : t[j] = IF j < i THEN s[j] ELSE s[j + 1]
  BY <1>1, RemoveAtIs, IsSeqDomain
<1> HIDE DEF t, n
<1>3. Silent(s, b) => Silent(t, b)
  BY <1>1, <1>2 DEF Silent
<1>4. ASSUME NEW html, NEW k \in 1..n, k # i, Updating(s[k], b), s[k].row.html = html,
             \A j \in 1..n : k < j => ~Updating(s[j], b)
      PROVE  Ends(t, b, html)
  <2>1. PICK l : l = IF k < i THEN k ELSE k - 1
    OBVIOUS
  <2>2. l \in 1..n - 1 /\ t[l] = s[k]
    BY <1>1, <1>2, <1>4, <2>1
  <2>3. ASSUME NEW j \in 1..n - 1, l < j PROVE ~Updating(t[j], b)
    <3>1. PICK m : m = IF j < i THEN j ELSE j + 1
      OBVIOUS
    <3>2. m \in 1..n /\ k < m /\ t[j] = s[m]
      BY <1>1, <1>2, <1>4, <2>1, <2>3, <3>1
    <3> QED
      BY <1>4, <3>2
  <2> QED
    BY <1>2, <1>4, <2>2, <2>3 DEF Ends
<1>5. ASSUME NEW html, Ends(s, b, html), ~Updating(s[i], b)
      PROVE  Ends(t, b, html)
  BY <1>1, <1>4, <1>5 DEF Ends
<1>6. ASSUME \A j \in 1..i - 1 : ~Updating(s[j], b), NEW html, Ends(s, b, html)
      PROVE  Ends(t, b, html) \/ (Silent(t, b) /\ Updating(s[i], b) /\ s[i].row.html = html)
  <2>1. PICK k \in 1..n : /\ Updating(s[k], b) /\ s[k].row.html = html
                          /\ \A j \in 1..n : k < j => ~Updating(s[j], b)
    BY <1>1, <1>6 DEF Ends
  <2>2. CASE k = i
    <3>1. ASSUME NEW j \in 1..n - 1 PROVE ~Updating(t[j], b)
      <4>1. CASE j < i
        <5>1. j \in 1..i - 1 /\ t[j] = s[j]
          BY <1>1, <1>2, <4>1
        <5> QED
          BY <1>6, <5>1
      <4>2. CASE ~(j < i)
        <5>1. j + 1 \in 1..n /\ k < j + 1 /\ t[j] = s[j + 1]
          BY <1>1, <1>2, <2>2, <4>2
        <5> QED
          BY <2>1, <5>1
      <4> QED
        BY <4>1, <4>2
    <3>2. Silent(t, b)
      BY <1>2, <3>1 DEF Silent
    <3> QED
      BY <2>1, <2>2, <3>2
  <2>3. CASE k # i
    BY <1>4, <2>1, <2>3
  <2> QED
    BY <2>2, <2>3
<1> QED
  BY <1>3, <1>5, <1>6 DEF t

\* A request changed that is no update of b, before or after.
LEMMA ChangedEnds ==
  ASSUME NEW s, NEW t, DOMAIN t = DOMAIN s, NEW i \in DOMAIN s,
         \A j \in DOMAIN s : j # i => t[j] = s[j],
         NEW b, ~Updating(s[i], b), ~Updating(t[i], b)
  PROVE  /\ Silent(s, b) => Silent(t, b)
         /\ \A html : Ends(s, b, html) => Ends(t, b, html)
<1>1. \A j \in DOMAIN s : Updating(t[j], b) <=> Updating(s[j], b)
  OBVIOUS
<1>2. Silent(s, b) => Silent(t, b)
  BY <1>1 DEF Silent
<1>3. ASSUME NEW html, Ends(s, b, html) PROVE Ends(t, b, html)
  <2>1. PICK k \in DOMAIN s : /\ Updating(s[k], b) /\ s[k].row.html = html
                              /\ \A j \in DOMAIN s : k < j => ~Updating(s[j], b)
    BY <1>3 DEF Ends
  <2> QED
    BY <1>1, <2>1 DEF Ends
<1> QED
  BY <1>2, <1>3

\* A block is stored with this text, or will be once its creation is served.
Born(F, t, b, html) ==
  \/ b \in DOMAIN t /\ t[b].html = html
  \/ \E q \in F : Creating(q, b) /\ q.row.html = html

\* Once everything under way is served in order, f and then h, the server has
\* this text for the block.
Agreed(f, h, t, b, html) ==
  \/ Ends(h, b, html)
  \/ Silent(h, b) /\ Ends(f, b, html)
  \/ Silent(h, b) /\ Silent(f, b) /\ Born(ToSet(f), t, b, html)

\* What is held back waits for a creation that is unanswered.
Waits(F, H) == \A q \in H : \E r \in F : r.kind = "create" /\ r.row.id = q.row.id
AsksCreation(F, r) == Writes(r) /\ \E q \in F : q.kind = "create" /\ q.row.id = r.row.id

\* The requests R of a gesture, sent and held back.
Posts(f, h, R, f2, h2) ==
  LET W == {p \in DOMAIN R : AsksCreation(ToSet(f), R[p])}
  IN  f2 = f \o Picked(R, DOMAIN R \ W) /\ h2 = h \o Picked(R, W)

\* What the server will have of b.
PostsWell(f, h, R, f2, h2) ==
  /\ Waits(ToSet(f2), ToSet(h2))
  /\ \A t, b, html : Ends(R, b, html) => Agreed(f2, h2, t, b, html)
  /\ \A t, b, html : Silent(R, b) /\ Agreed(f, h, t, b, html) => Agreed(f2, h2, t, b, html)
  /\ \A t, b : \A p \in DOMAIN R :
       Creating(R[p], b) /\ Silent(R, b) /\ Silent(f, b) /\ Silent(h, b)
         => Agreed(f2, h2, t, b, R[p].row.html)

LEMMA PostedAgrees ==
  ASSUME NEW f, IsSeq(f), NEW h, IsSeq(h), Waits(ToSet(f), ToSet(h)), NEW R, IsSeq(R),
         NEW f2, NEW h2, Posts(f, h, R, f2, h2)
  PROVE  PostsWell(f, h, R, f2, h2)
<1> PICK W : W = {p \in DOMAIN R : AsksCreation(ToSet(f), R[p])}
  OBVIOUS
<1>0. f2 = f \o Picked(R, DOMAIN R \ W) /\ h2 = h \o Picked(R, W)
  BY DEF Posts
<1> DEFINE O == DOMAIN R \ W
           A == Picked(R, O)
           B == Picked(R, W)
<1>1. O \subseteq DOMAIN R /\ W \subseteq DOMAIN R
  OBVIOUS
<1>2. IsSeq(A) /\ IsSeq(B)
  BY <1>1, PickedIs, Zenon
<1>3. ToSet(A) = {R[p] : p \in O} /\ ToSet(B) = {R[p] : p \in W}
  BY <1>1, SetOfPicked, Zenon
<1>4. ToSet(f2) = ToSet(f) \union ToSet(A) /\ ToSet(h2) = ToSet(h) \union ToSet(B)
  BY <1>0, <1>2, SetOfCat, Zenon
<1>5. ASSUME NEW b, \A p \in O : ~Updating(R[p], b), NEW html, Ends(R, b, html)
      PROVE  Ends(B, b, html)
  <2>1. DOMAIN R \ W = O
    OBVIOUS
  <2> HIDE DEF O, B
  <2> QED
    BY <1>1, <1>5, <2>1, PickedEnds, Zenon DEF B
<1>6. ASSUME NEW b, \A p \in W : ~Updating(R[p], b)
      PROVE  Silent(B, b) /\ \A html : Ends(R, b, html) => Ends(A, b, html)
  <2>1. DOMAIN R \ O = W
    BY <1>1
  <2>2. Silent(B, b)
    BY <1>1, <1>6, PickedEnds
  <2> HIDE DEF O, B
  <2> QED
    BY <1>1, <1>6, <2>1, <2>2, PickedEnds DEF A
<1>7. ASSUME NEW b, Silent(R, b) PROVE Silent(A, b) /\ Silent(B, b)
  BY <1>1, <1>7, PickedEnds DEF Silent
<1> HIDE DEF A, B, O
<1>8. Waits(ToSet(f2), ToSet(h2))
  <2>1. ASSUME NEW q \in ToSet(B) PROVE \E r \in ToSet(f) : r.kind = "create" /\ r.row.id = q.row.id
    BY <1>3, <2>1 DEF AsksCreation
  <2> QED
    BY <1>4, <2>1 DEF Waits
<1>9. ASSUME NEW t, NEW b, NEW html, Ends(R, b, html) PROVE Agreed(f2, h2, t, b, html)
  <2>1. CASE \E q \in ToSet(f) : q.kind = "create" /\ q.row.id = b
    <3>1. \A p \in O : ~Updating(R[p], b)
      BY <2>1 DEF O, AsksCreation, Updating, Writes
    <3>2. Ends(B, b, html)
      BY <1>5, <1>9, <3>1
    <3>3. Ends(h2, b, html)
      BY <1>0, <1>2, <3>2, CatEnds DEF B
    <3> QED
      BY <3>3 DEF Agreed
  <2>2. CASE ~\E q \in ToSet(f) : q.kind = "create" /\ q.row.id = b
    <3>1. \A p \in W : ~Updating(R[p], b)
      BY <2>2 DEF AsksCreation, Updating
    <3>2. Silent(B, b) /\ Ends(A, b, html)
      BY <1>6, <1>9, <3>1
    <3>3. Silent(h, b)
      BY <2>2 DEF Waits, Silent, ToSet, Updating
    <3>4. Silent(h2, b) /\ Ends(f2, b, html)
      BY <1>0, <1>2, <3>2, <3>3, CatEnds DEF A, B, O
    <3> QED
      BY <3>4 DEF Agreed
  <2> QED
    BY <2>1, <2>2
<1>10. ASSUME NEW b, Silent(R, b)
       PROVE  /\ Silent(f, b) => Silent(f2, b)
              /\ Silent(h, b) => Silent(h2, b)
              /\ \A html : Ends(f, b, html) => Ends(f2, b, html)
              /\ \A html : Ends(h, b, html) => Ends(h2, b, html)
  <2>1. Silent(A, b) /\ Silent(B, b)
    BY <1>7, <1>10
  <2> QED
    BY <1>0, <1>2, <2>1, CatEnds DEF A, B, O
<1>11. ASSUME NEW t, NEW b, NEW html, Silent(R, b), Agreed(f, h, t, b, html)
       PROVE  Agreed(f2, h2, t, b, html)
  BY <1>4, <1>10, <1>11 DEF Agreed, Born
<1>12. ASSUME NEW t, NEW b, NEW p \in DOMAIN R, Creating(R[p], b), Silent(R, b), Silent(f, b), Silent(h, b)
       PROVE  Agreed(f2, h2, t, b, R[p].row.html)
  <2>1. p \in O
    BY <1>12 DEF O, AsksCreation, Creating, Writes
  <2>2. R[p] \in ToSet(f2)
    BY <1>3, <1>4, <2>1
  <2>3. Born(ToSet(f2), t, b, R[p].row.html)
    BY <1>12, <2>2 DEF Born
  <2> QED
    BY <1>10, <1>12, <2>3 DEF Agreed
<1> QED
  BY <1>8, <1>9, <1>11, <1>12 DEF PostsWell

LEMMA OneEnds ==
  ASSUME NEW r, NEW b
  PROVE  /\ Updating(r, b) => Ends(<<r>>, b, r.row.html)
         /\ ~Updating(r, b) => Silent(<<r>>, b)
<1> DEFINE R == <<r>>
<1>1. DOMAIN R = {1} /\ R[1] = r
  OBVIOUS
<1> HIDE DEF R
<1>2. Updating(r, b) => Ends(R, b, r.row.html)
  BY <1>1 DEF Ends
<1>3. ~Updating(r, b) => Silent(R, b)
  BY <1>1 DEF Silent
<1> QED
  BY <1>2, <1>3 DEF R

LEMMA TwoEnd ==
  ASSUME NEW q, NEW r, NEW b
  PROVE  /\ Updating(q, b) /\ ~Updating(r, b) => Ends(<<q, r>>, b, q.row.html)
         /\ Updating(r, b) => Ends(<<q, r>>, b, r.row.html)
         /\ ~Updating(q, b) /\ ~Updating(r, b) => Silent(<<q, r>>, b)
<1> DEFINE R == <<q, r>>
<1>1. DOMAIN R = {1, 2} /\ R[1] = q /\ R[2] = r
  OBVIOUS
<1> HIDE DEF R
<1>2. Updating(q, b) /\ ~Updating(r, b) => Ends(R, b, q.row.html)
  BY <1>1 DEF Ends
<1>3. Updating(r, b) => Ends(R, b, r.row.html)
  BY <1>1 DEF Ends
<1>4. ~Updating(q, b) /\ ~Updating(r, b) => Silent(R, b)
  BY <1>1 DEF Silent
<1> QED
  BY <1>2, <1>3, <1>4 DEF R
=============================================================================
