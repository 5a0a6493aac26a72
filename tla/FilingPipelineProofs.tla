------------------------- MODULE FilingPipelineProofs -------------------------
(***************************************************************************)
(* Proofs about FilingPipeline, for every corpus: tables of any number of  *)
(* rows, of any and of different lengths, and texts of any length.         *)
(***************************************************************************)
EXTENDS FilingPipeline, FiniteSetTheorems, SequenceTheorems, WellFoundedInduction, TLAPS

\* The record the two loaders read.
Normalized(f) == NormalizeRecord(ParseRecord(f))

\* Whatever command has run last, what it wrote is what the commands in their
\* order make of the filing.
IInv ==
  /\ filing \in Filings
  /\ stage \in {"raw", "parsed", "raised", "normalized", "embedded", "built"}
  /\ stage = "raw" => record = filing
  /\ stage \in {"parsed", "raised"} => record = ParseRecord(filing)
  /\ stage \in {"normalized", "embedded"} => record = Normalized(filing)
  /\ stage = "built" => record = GraphPayload(Normalized(filing))
  /\ vectors \in {{}, VectorRows(Normalized(filing))}
  /\ stage = "embedded" => vectors = VectorRows(Normalized(filing))

-----------------------------------------------------------------------------
(* Lemmas about sets of numbers and about Without.                         *)

\* A set of numbers that is not empty has a least element.
LEMMA LeastNumber ==
  ASSUME NEW T \in SUBSET Nat, T # {}
  PROVE  \E n \in T : \A m \in T : n <= m
<1>1. PICK n \in T : \A m \in T : ~ (<<m, n>> \in OpToRel(<, Nat))
  BY WFMin, NatLessThanWellFounded
<1>2. \A m \in T : ~ (m < n)
  <2>1. TAKE m \in T
  <2>2. <<m, n>> \in Nat \X Nat
    OBVIOUS
  <2>3. QED
    BY <1>1, <2>2 DEF OpToRel
<1>3. QED
  BY <1>2

\* What is left of a sequence without x is a sequence of its other elements.
LEMMA WithoutType ==
  ASSUME NEW S, NEW s \in Seq(S), NEW x
  PROVE  Without(s, x) \in Seq(S \ {x})
<1> DEFINE R == S \ {x}
           Step(g, n) == [i \in 0..n |-> IF i = 0 THEN <<>>
                                         ELSE IF s[i] = x THEN g[i - 1]
                                              ELSE Append(g[i - 1], s[i])]
           Typed(n) == \E g : g = Step(g, n) /\ g \in [0..n -> Seq(R)]
<1>0. Len(s) \in Nat /\ \A i \in 1..Len(s) : s[i] \in S
  OBVIOUS
<1>1. \A n \in 0..Len(s) : Typed(n)
  <2> DEFINE Bad == {n \in 0..Len(s) : ~Typed(n)}
  <2>1. SUFFICES ASSUME Bad # {}
                 PROVE  FALSE
    OBVIOUS
  <2>2. PICK n \in Bad : \A m \in Bad : n <= m
    <3>1. Bad \in SUBSET Nat
      BY <1>0
    <3>2. QED
      BY <2>1, <3>1, LeastNumber
  <2>3. CASE n = 0
    <3> DEFINE g == [i \in 0..0 |-> <<>>]
    <3>1. g \in [0..0 -> Seq(R)]
      OBVIOUS
    <3>2. g = Step(g, 0)
      OBVIOUS
    <3>3. QED
      BY <2>3, <3>1, <3>2
  <2>4. CASE n # 0
    <3>1. n \in Nat /\ n - 1 \in 0..Len(s) /\ n \in 1..Len(s)
      BY <2>4, <1>0
    <3>2. Typed(n - 1)
      <4>1. n - 1 \notin Bad
        <5>1. ~ (n <= n - 1)
          BY <3>1
        <5>2. QED
          BY <5>1, <2>2
      <4>2. QED
        BY <4>1, <3>1
    <3>3. PICK g : g = Step(g, n - 1) /\ g \in [0..(n - 1) -> Seq(R)]
      BY <3>2
    <3> DEFINE last == IF s[n] = x THEN g[n - 1] ELSE Append(g[n - 1], s[n])
               h == [i \in 0..n |-> IF i = n THEN last ELSE g[i]]
    <3>4. last \in Seq(R)
      <4>1. g[n - 1] \in Seq(R)
        BY <3>1, <3>3
      <4>2. s[n] # x => s[n] \in R
        BY <3>1, <1>0
      <4>3. QED
        BY <4>1, <4>2
    <3>5. h \in [0..n -> Seq(R)]
      BY <3>1, <3>3, <3>4
    <3>6. h = Step(h, n)
      <4>1. \A i \in 0..n : h[i] = Step(h, n)[i]
        <5>1. TAKE i \in 0..n
        <5>2. CASE i = n
          <6>1. h[n - 1] = g[n - 1]
            BY <3>1
          <6>2. QED
            BY <5>2, <6>1, <2>4, <3>1
        <5>3. CASE i # n /\ i = 0
          <6>1. g[0] = <<>>
            BY <3>1, <3>3
          <6>2. QED
            BY <5>3, <6>1
        <5>4. CASE i # n /\ i # 0
          <6>1. i \in 0..(n - 1) /\ i - 1 \in 0..n /\ i - 1 # n
            BY <5>4, <3>1
          <6>2. h[i] = g[i] /\ h[i - 1] = g[i - 1]
            BY <5>4, <6>1
          <6>3. g[i] = IF s[i] = x THEN g[i - 1] ELSE Append(g[i - 1], s[i])
            BY <3>3, <6>1, <5>4
          <6>4. QED
            BY <6>2, <6>3, <5>4
        <5>5. QED
          BY <5>2, <5>3, <5>4
      <4>2. QED
        BY <4>1
    <3>7. QED
      BY <3>5, <3>6, <2>2
  <2>5. QED
    BY <2>3, <2>4
<1> DEFINE k == CHOOSE g : g = Step(g, Len(s))
<1>2. k = Step(k, Len(s))
  <2>1. Len(s) \in 0..Len(s)
    BY <1>0
  <2>2. \E g : g = Step(g, Len(s))
    BY <1>1, <2>1
  <2>3. QED
    BY <2>2
<1>3. Without(s, x) = k[Len(s)]
  BY DEF Without
<1> HIDE DEF k
<1>4. \A i \in 0..Len(s) : k[i] \in Seq(R)
  <2> DEFINE Bad == {i \in 0..Len(s) : k[i] \notin Seq(R)}
  <2>1. SUFFICES ASSUME Bad # {}
                 PROVE  FALSE
    OBVIOUS
  <2>2. PICK n \in Bad : \A m \in Bad : n <= m
    <3>1. Bad \in SUBSET Nat
      BY <1>0
    <3>2. QED
      BY <2>1, <3>1, LeastNumber
  <2>3. n # 0
    <3>1. k[0] \in Seq(R)
      <4>1. k[0] = <<>>
        BY <1>2, <1>0
      <4>2. <<>> \in Seq(R)
        OBVIOUS
      <4>3. QED
        BY <4>1, <4>2
    <3>2. QED
      BY <3>1, <2>2
  <2>4. n - 1 \in 0..Len(s) /\ n \in 1..Len(s)
    BY <2>3, <1>0
  <2>5. k[n - 1] \in Seq(R)
    <3>1. ~ (n <= n - 1)
      BY <2>4
    <3>2. n - 1 \notin Bad
      BY <3>1, <2>2
    <3>3. QED
      BY <3>2, <2>4
  <2>6. k[n] = IF s[n] = x THEN k[n - 1] ELSE Append(k[n - 1], s[n])
    BY <1>2, <2>4, <2>3
  <2>7. s[n] # x => s[n] \in R
    BY <2>4, <1>0
  <2>8. k[n] \in Seq(R)
    BY <2>5, <2>6, <2>7
  <2>9. QED
    BY <2>2, <2>8
<1>5. QED
  BY <1>0, <1>3, <1>4

-----------------------------------------------------------------------------
(* The table.                                                              *)

LEMMA FilingTyped ==
  ASSUME NEW f \in Filings
  PROVE  /\ f.table \in Seq(Rows) /\ Len(f.table) \in Nat \ {0}
         /\ f.pre \in Seq(Sentences) /\ f.post \in Seq(Sentences)
         /\ \A i \in 1..Len(f.table) :
              /\ f.table[i].label \in Labels \cup {""}
              /\ f.table[i].cells \in Seq(Cells)
              /\ Len(f.table[i].cells) <= MaxColumns
<1>1. f.table \in Seq(Rows) /\ f.pre \in Seq(Sentences) /\ f.post \in Seq(Sentences)
  BY FilingsAssumption
<1>2. f.table # <<>> /\ \A i \in DOMAIN f.table : Len(f.table[i].cells) <= MaxColumns
  BY FilingsAssumption
<1>3. Len(f.table) \in Nat \ {0}
  BY <1>1, <1>2
<1>4. \A i \in 1..Len(f.table) :
        /\ f.table[i].label \in Labels \cup {""}
        /\ f.table[i].cells \in Seq(Cells)
        /\ Len(f.table[i].cells) <= MaxColumns
  <2>1. TAKE i \in 1..Len(f.table)
  <2>2. f.table[i] \in Rows /\ i \in DOMAIN f.table
    BY <1>1
  <2>3. f.table[i].label \in Labels \cup {""} /\ f.table[i].cells \in Seq(Cells)
    BY <2>2 DEF Rows
  <2>4. QED
    BY <1>2, <2>2, <2>3
<1>5. QED
  BY <1>1, <1>3, <1>4

\* One or two rows are header rows, and no more than there are.
LEMMA HeaderRowsBound ==
  ASSUME NEW f \in Filings
  PROVE  /\ HeaderRows(f.table) \in {1, 2}
         /\ HeaderRows(f.table) <= Len(f.table)
         /\ HeaderRows(f.table) = 2 => IsContinuationHeader(f.table[2])
<1>1. Len(f.table) \in Nat \ {0}
  BY FilingTyped
<1>2. QED
  BY <1>1 DEF HeaderRows

\* The data rows are the rows below the header.
LEMMA DataRowsAre ==
  ASSUME NEW f \in Filings
  PROVE  /\ DOMAIN DataRows(f.table) = 1..(Len(f.table) - HeaderRows(f.table))
         /\ \A r \in DOMAIN DataRows(f.table) :
              /\ r \in Nat
              /\ r + HeaderRows(f.table) \in 1..Len(f.table)
              /\ DataRows(f.table)[r] = f.table[r + HeaderRows(f.table)]
<1> DEFINE t == f.table
           h == HeaderRows(t)
<1>1. t \in Seq(Rows) /\ Len(t) \in Nat /\ h \in {1, 2} /\ h <= Len(t)
  BY FilingTyped, HeaderRowsBound
<1>2. DataRows(t) = SubSeq(t, h + 1, Len(t))
  BY DEF DataRows
<1> HIDE DEF t, h
<1>3. DOMAIN SubSeq(t, h + 1, Len(t)) = 1..(Len(t) - h)
  BY <1>1
<1>4. \A r \in 1..(Len(t) - h) : /\ r \in Nat /\ r + h \in 1..Len(t)
                               /\ SubSeq(t, h + 1, Len(t))[r] = t[r + h]
  BY <1>1
<1>5. QED
  BY <1>2, <1>3, <1>4 DEF t, h

LEMMA FiguresBound ==
  ASSUME NEW f \in Filings, NEW i \in 1..Len(f.table), NEW kinds
  PROVE  Figures(f.table[i], kinds) \subseteq 1..MaxColumns
<1>1. f.table[i].cells \in Seq(Cells) /\ Len(f.table[i].cells) <= MaxColumns
  BY FilingTyped
<1>2. DOMAIN f.table[i].cells = 1..Len(f.table[i].cells) /\ Len(f.table[i].cells) \in Nat
  BY <1>1
<1>3. MaxColumns \in Nat
  BY ExtractionAssumption
<1>4. QED
  BY <1>1, <1>2, <1>3 DEF Figures

\* A column's header is a sequence of texts.
LEMMA ColumnHeaderType ==
  ASSUME NEW f \in Filings, NEW c
  PROVE  ColumnHeader(f.table, c) \in Seq(Cells)
<1> DEFINE t == f.table
           CellOf(row) == IF c \in DOMAIN row.cells THEN row.cells[c] ELSE "blank"
           texts == [i \in 1..HeaderRows(t) |-> CellOf(t[i])]
<1>1. HeaderRows(t) \in Nat /\ HeaderRows(t) <= Len(t) /\ Len(t) \in Nat
  <2>1. HeaderRows(f.table) \in {1, 2} /\ HeaderRows(f.table) <= Len(f.table)
    BY HeaderRowsBound
  <2>2. Len(f.table) \in Nat
    BY FilingTyped
  <2>3. QED
    BY <2>1, <2>2
<1>2. \A i \in 1..HeaderRows(t) : CellOf(t[i]) \in Cells
  <2>1. TAKE i \in 1..HeaderRows(t)
  <2>2. t[i].cells \in Seq(Cells)
    <3>1. i \in 1..Len(f.table)
      BY <1>1
    <3>2. QED
      BY <3>1, FilingTyped
  <2>3. "blank" \in Cells
    BY DEF Cells
  <2>4. c \in DOMAIN t[i].cells => t[i].cells[c] \in Cells
    BY <2>2
  <2>5. QED
    BY <2>3, <2>4
<1>3. texts \in Seq(Cells)
  BY <1>1, <1>2
<1>4. Without(texts, "blank") \in Seq(Cells \ {"blank"})
  BY <1>3, WithoutType
<1>5. ColumnHeader(t, c) = Without(texts, "blank")
  BY DEF ColumnHeader
<1>6. Seq(Cells \ {"blank"}) \subseteq Seq(Cells)
  OBVIOUS
<1>7. QED
  BY <1>4, <1>5, <1>6

\* A header's year is a year, or 0 when it names none.
LEMMA ParseYearType ==
  ASSUME NEW header \in Seq(Cells)
  PROVE  ParseYear(header) \in 0..2
<1> DEFINE years == {i \in DOMAIN header : YearOf[header[i]] # 0}
           First(i) == i \in years /\ \A j \in years : i <= j
<1>1. \A i \in DOMAIN header : YearOf[header[i]] \in 0..2
  BY DEF YearOf
<1>2. CASE years = {}
  BY <1>2 DEF ParseYear
<1>3. CASE years # {}
  <2>1. years \in SUBSET Nat
    OBVIOUS
  <2>2. \E i \in years : \A j \in years : i <= j
    BY <1>3, <2>1, LeastNumber
  <2>3. (CHOOSE i \in years : \A j \in years : i <= j) \in years
    BY <2>2
  <2>4. ParseYear(header) = YearOf[header[CHOOSE i \in years : \A j \in years : i <= j]]
    BY <1>3 DEF ParseYear
  <2>5. QED
    BY <1>1, <2>3, <2>4
<1>4. QED
  BY <1>2, <1>3

-----------------------------------------------------------------------------
(* The windows.                                                            *)

WindowSet(section) == [section : {section}, first : Nat, last : Nat, lowQuality : BOOLEAN]

\* n sentences make half as many windows, and one sentence makes one.
LEMMA WindowCountIs ==
  ASSUME NEW n \in Nat
  PROVE  WindowCount(n) = IF n <= 1 THEN n ELSE n \div 2
<1> DEFINE m == IF n <= 1 THEN n ELSE n \div 2
<1>1. m \in Nat
  OBVIOUS
<1>2. {k \in 1..n : k = 1 \/ (k - 2) * Stride + WindowSize < n} = 1..m
  BY DEF Stride, WindowSize
<1>3. Cardinality(1..m) = m
  BY <1>1, FS_Interval
<1>4. QED
  BY <1>2, <1>3 DEF WindowCount

\* The windows over a text lie inside it.
LEMMA WindowsInside ==
  ASSUME NEW S, NEW text \in Seq(S), NEW section, NEW offset \in Nat
  PROVE  /\ Windows(text, section, offset) \in Seq(WindowSet(section))
         /\ \A k \in DOMAIN Windows(text, section, offset) :
              /\ Windows(text, section, offset)[k].first > offset
              /\ Windows(text, section, offset)[k].last <= Len(text) + offset
<1> DEFINE n == Len(text)
           Start(k) == (k - 1) * Stride + 1
           End(k) == IF Start(k) + WindowSize - 1 > n THEN n ELSE Start(k) + WindowSize - 1
           Alnum(i) == IF i \in 1..n THEN AlnumOf[text[i]] ELSE 0
           Poor(k) == Alnum(Start(k)) + Alnum(Start(k) + 1) + Alnum(Start(k) + 2) < MinAlnum
           W == Windows(text, section, offset)
           m == WindowCount(n)
<1>1. n \in Nat /\ m \in Nat
  <2>1. n \in Nat
    OBVIOUS
  <2>2. m = IF n <= 1 THEN n ELSE n \div 2
    BY <2>1, WindowCountIs
  <2>3. QED
    BY <2>1, <2>2
<1>2. W = [k \in 1..m |-> [section |-> section, first |-> Start(k) + offset,
                            last |-> End(k) + offset, lowQuality |-> Poor(k)]]
  BY DEF Windows
<1>3. \A k \in 1..m : /\ Start(k) \in Nat /\ Start(k) > 0
                      /\ End(k) \in Nat /\ End(k) <= n
                      /\ Poor(k) \in BOOLEAN
  BY <1>1 DEF Stride, WindowSize
<1> HIDE DEF n, m, W, Start, End, Alnum, Poor
<1>4. \A k \in 1..m : [section |-> section, first |-> Start(k) + offset,
                       last |-> End(k) + offset, lowQuality |-> Poor(k)] \in WindowSet(section)
  BY <1>3 DEF WindowSet
<1>5. W \in Seq(WindowSet(section))
  BY <1>1, <1>2, <1>4
<1>6. DOMAIN W = 1..m /\ \A k \in 1..m : /\ W[k].first = Start(k) + offset
                                         /\ W[k].last = End(k) + offset
  BY <1>2
<1>7. \A k \in 1..m : W[k].first > offset /\ W[k].last <= n + offset
  BY <1>1, <1>3, <1>6
<1>8. QED
  BY <1>5, <1>6, <1>7 DEF W, n

\* Every sentence with letters or digits enough lies in a window with enough.
LEMMA WindowCovers ==
  ASSUME NEW text \in Seq(Sentences), NEW section, NEW offset \in Nat,
         NEW i \in 1..Len(text), AlnumOf[text[i]] >= MinAlnum
  PROVE  \E k \in DOMAIN Windows(text, section, offset) :
           /\ ~Windows(text, section, offset)[k].lowQuality
           /\ Windows(text, section, offset)[k].first <= i + offset
           /\ i + offset <= Windows(text, section, offset)[k].last
<1> DEFINE n == Len(text)
           Start(k) == (k - 1) * Stride + 1
           End(k) == IF Start(k) + WindowSize - 1 > n THEN n ELSE Start(k) + WindowSize - 1
           Alnum(j) == IF j \in 1..n THEN AlnumOf[text[j]] ELSE 0
           Poor(l) == Alnum(Start(l)) + Alnum(Start(l) + 1) + Alnum(Start(l) + 2) < MinAlnum
           W == Windows(text, section, offset)
           k == IF i = 1 THEN 1 ELSE i \div 2
           m == WindowCount(n)
<1>1. n \in Nat /\ i \in Nat /\ 1 <= i /\ i <= n
  OBVIOUS
<1>2. m = IF n <= 1 THEN n ELSE n \div 2
  BY <1>1, WindowCountIs
<1> HIDE DEF m
<1>3. k \in 1..m
  BY <1>1, <1>2
<1>4. Start(k) \in Nat /\ End(k) \in Nat /\ Start(k) <= i /\ i <= End(k)
  BY <1>1 DEF Stride, WindowSize
<1>5. W = [l \in 1..m |-> [section |-> section, first |-> Start(l) + offset,
                            last |-> End(l) + offset, lowQuality |-> Poor(l)]]
  BY DEF Windows, m
<1>6. ~Poor(k)
  <2>1. \A j \in {Start(k), Start(k) + 1, Start(k) + 2} : Alnum(j) \in Nat
    <3>1. \A x \in Sentences : AlnumOf[x] \in Nat
      BY DEF AlnumOf
    <3>2. \A j \in 1..n : text[j] \in Sentences
      OBVIOUS
    <3>3. QED
      BY <3>1, <3>2
  <2>2. i \in {Start(k), Start(k) + 1, Start(k) + 2}
    BY <1>1, <1>3, <1>4 DEF Stride, WindowSize
  <2>3. Alnum(i) >= MinAlnum
    BY <1>1
  <2> HIDE DEF Alnum, Start
  <2>4. QED
    BY <2>1, <2>2, <2>3 DEF MinAlnum
<1> HIDE DEF n, W, Start, End, Alnum, Poor, k
<1>7. k \in DOMAIN W /\ W[k] = [section |-> section, first |-> Start(k) + offset,
                                last |-> End(k) + offset, lowQuality |-> Poor(k)]
  BY <1>3, <1>5
<1>8. ~W[k].lowQuality /\ W[k].first = Start(k) + offset /\ W[k].last = End(k) + offset
  BY <1>6, <1>7
<1>9. W[k].first <= i + offset /\ i + offset <= W[k].last
  BY <1>1, <1>4, <1>8
<1>10. QED
  BY <1>7, <1>8, <1>9 DEF W

-----------------------------------------------------------------------------
(* The chunks of a filing.                                                 *)

LEMMA ConcatElements ==
  ASSUME NEW S, NEW a \in Seq(S), NEW b \in Seq(S)
  PROVE  /\ a \o b \in Seq(S) /\ Len(a \o b) = Len(a) + Len(b)
         /\ \A i \in DOMAIN (a \o b) :
              \/ i \in DOMAIN a /\ (a \o b)[i] = a[i]
              \/ i > Len(a) /\ i - Len(a) \in DOMAIN b /\ (a \o b)[i] = b[i - Len(a)]
         /\ \A i \in DOMAIN a : i \in DOMAIN (a \o b) /\ (a \o b)[i] = a[i]
         /\ \A i \in DOMAIN b : /\ i + Len(a) \in DOMAIN (a \o b)
                               /\ (a \o b)[i + Len(a)] = b[i]
BY ConcatProperties

LEMMA NormalizedIs ==
  ASSUME NEW f
  PROVE  /\ Normalized(f).rows = DataRows(f.table)
         /\ Normalized(f).depth = HeaderDepth(f.table)
         /\ Normalized(f).chunks = Chunks(f)
         /\ Normalized(f).header = [c \in 1..MaxColumns |-> ColumnHeader(f.table, c)]
BY DEF Normalized, NormalizeRecord, ParseRecord

LEMMA SentencesOf ==
  ASSUME NEW f \in Filings
  PROVE  /\ NonBlank(f.pre) \in Seq(Sentences) /\ NonBlank(f.post) \in Seq(Sentences)
         /\ Len(NonBlank(f.pre)) \in Nat
<1>1. f.pre \in Seq(Sentences) /\ f.post \in Seq(Sentences)
  BY FilingTyped
<1>2. /\ Without(f.pre, "blank") \in Seq(Sentences \ {"blank"})
      /\ Without(f.post, "blank") \in Seq(Sentences \ {"blank"})
  BY <1>1, WithoutType
<1>3. Seq(Sentences \ {"blank"}) \subseteq Seq(Sentences)
  OBVIOUS
<1>4. NonBlank(f.pre) \in Seq(Sentences) /\ NonBlank(f.post) \in Seq(Sentences)
  BY <1>2, <1>3 DEF NonBlank
<1>5. QED
  BY <1>4

\* Where the embedded windows of a filing come from.
LEMMA ChunksOf ==
  ASSUME NEW f \in Filings, NEW w \in VectorRows(Normalized(f))
  PROVE  LET pre  == NonBlank(f.pre)
             post == NonBlank(f.post)
         IN  /\ w \in [section : {"pre_text", "post_text"}, index : Nat, first : Nat, last : Nat]
             /\ w.section = "pre_text" => w.last <= Len(pre)
             /\ w.section = "post_text" => w.first > Len(pre)
             /\ w.last <= Len(pre) + Len(post)
<1> DEFINE pre == NonBlank(f.pre)
           post == NonBlank(f.post)
           W1 == Windows(pre, "pre_text", 0)
           W2 == Windows(post, "post_text", Len(pre))
           Both == WindowSet("pre_text") \cup WindowSet("post_text")
<1>1. /\ pre \in Seq(Sentences) /\ post \in Seq(Sentences)
      /\ Len(pre) \in Nat /\ Len(post) \in Nat
  BY SentencesOf
<1>2. W1 \in Seq(WindowSet("pre_text")) /\ \A k \in DOMAIN W1 : W1[k].last <= Len(pre)
  <2>1. \A k \in DOMAIN W1 : W1[k].last <= Len(pre) + 0
    BY <1>1, WindowsInside
  <2>2. QED
    BY <1>1, <2>1, WindowsInside
<1>3. /\ W2 \in Seq(WindowSet("post_text"))
      /\ \A k \in DOMAIN W2 : W2[k].first > Len(pre) /\ W2[k].last <= Len(post) + Len(pre)
  <2>1. W2 \in Seq(WindowSet("post_text"))
    BY <1>1, WindowsInside
  <2>2. \A k \in DOMAIN W2 : W2[k].first > Len(pre) /\ W2[k].last <= Len(post) + Len(pre)
    BY <1>1, WindowsInside
  <2>3. QED
    BY <2>1, <2>2
<1>4. Chunks(f) = W1 \o W2
  BY DEF Chunks
<1>5. PICK i \in DOMAIN Chunks(f) :
        w = [section |-> Chunks(f)[i].section, index |-> i,
             first |-> Chunks(f)[i].first, last |-> Chunks(f)[i].last]
  <2>1. Normalized(f).chunks = Chunks(f)
    BY NormalizedIs
  <2>2. QED
    BY <2>1, Zenon DEF VectorRows
<1> HIDE DEF pre, post, W1, W2
<1>6. W1 \in Seq(Both) /\ W2 \in Seq(Both)
  BY <1>2, <1>3
<1> HIDE DEF Both
<1>7. \/ i \in DOMAIN W1 /\ Chunks(f)[i] = W1[i]
      \/ i - Len(W1) \in DOMAIN W2 /\ Chunks(f)[i] = W2[i - Len(W1)]
  BY <1>4, <1>6, ConcatElements
<1>8. i \in Nat
  <2>1. Chunks(f) \in Seq(Both)
    BY <1>4, <1>6, ConcatElements
  <2>2. QED
    BY <2>1
<1>9. CASE i \in DOMAIN W1 /\ Chunks(f)[i] = W1[i]
  <2>1. W1[i] \in WindowSet("pre_text") /\ W1[i].last <= Len(pre)
    BY <1>2, <1>9
  <2>2. /\ W1[i].section = "pre_text" /\ W1[i].first \in Nat /\ W1[i].last \in Nat
    BY <2>1 DEF WindowSet
  <2>3. QED
    BY <1>1, <1>5, <1>8, <1>9, <2>1, <2>2 DEF pre, post
<1>10. CASE i - Len(W1) \in DOMAIN W2 /\ Chunks(f)[i] = W2[i - Len(W1)]
  <2> DEFINE k == i - Len(W1)
  <2>1. /\ W2[k] \in WindowSet("post_text")
        /\ W2[k].first > Len(pre) /\ W2[k].last <= Len(post) + Len(pre)
    BY <1>3, <1>10
  <2>2. /\ W2[k].section = "post_text" /\ W2[k].first \in Nat /\ W2[k].last \in Nat
    BY <2>1 DEF WindowSet
  <2>3. QED
    BY <1>1, <1>5, <1>8, <1>10, <2>1, <2>2 DEF pre, post
<1>11. QED
  BY <1>7, <1>9, <1>10

\* Every sentence with letters or digits enough lies in an embedded window.
LEMMA ProseCovered ==
  ASSUME NEW f \in Filings,
         NEW i \in DOMAIN (NonBlank(f.pre) \o NonBlank(f.post)),
         AlnumOf[(NonBlank(f.pre) \o NonBlank(f.post))[i]] >= MinAlnum
  PROVE  \E w \in VectorRows(Normalized(f)) : w.first <= i /\ i <= w.last
<1> DEFINE pre == NonBlank(f.pre)
           post == NonBlank(f.post)
           W1 == Windows(pre, "pre_text", 0)
           W2 == Windows(post, "post_text", Len(pre))
           Both == WindowSet("pre_text") \cup WindowSet("post_text")
           C == Chunks(f)
           Row(k) == [section |-> C[k].section, index |-> k,
                      first |-> C[k].first, last |-> C[k].last]
<1>1. /\ pre \in Seq(Sentences) /\ post \in Seq(Sentences)
      /\ Len(pre) \in Nat /\ Len(post) \in Nat
  BY SentencesOf
<1>2. W1 \in Seq(Both) /\ W2 \in Seq(Both)
  <2>1. W1 \in Seq(WindowSet("pre_text")) /\ W2 \in Seq(WindowSet("post_text"))
    BY <1>1, WindowsInside
  <2>2. QED
    BY <2>1
<1>3. C = W1 \o W2
  BY DEF Chunks
<1>4. SUFFICES \E k \in DOMAIN C : ~C[k].lowQuality /\ C[k].first <= i /\ i <= C[k].last
  <2>1. ASSUME NEW k \in DOMAIN C, ~C[k].lowQuality, C[k].first <= i, i <= C[k].last
        PROVE  \E w \in VectorRows(Normalized(f)) : w.first <= i /\ i <= w.last
    <3>1. Row(k) \in VectorRows(Normalized(f))
      BY <2>1, NormalizedIs DEF VectorRows
    <3>2. Row(k).first <= i /\ i <= Row(k).last
      BY <2>1
    <3>3. QED
      BY <3>1, <3>2
  <2>2. QED
    BY <2>1
<1>5. \/ i \in DOMAIN pre /\ AlnumOf[pre[i]] >= MinAlnum
      \/ i > Len(pre) /\ i - Len(pre) \in DOMAIN post /\ AlnumOf[post[i - Len(pre)]] >= MinAlnum
  BY <1>1, ConcatElements
<1>6. CASE i \in DOMAIN pre /\ AlnumOf[pre[i]] >= MinAlnum
  <2>1. i \in 1..Len(pre) /\ i \in Nat
    BY <1>1, <1>6
  <2>2. \E k \in DOMAIN W1 : ~W1[k].lowQuality /\ W1[k].first <= i + 0 /\ i + 0 <= W1[k].last
    BY <1>1, <1>6, <2>1, WindowCovers
  <2> HIDE DEF pre, post, W1, W2, Both, C
  <2>3. PICK k \in DOMAIN W1 : ~W1[k].lowQuality /\ W1[k].first <= i /\ i <= W1[k].last
    BY <2>1, <2>2
  <2>4. k \in DOMAIN C /\ C[k] = W1[k]
    BY <1>2, <1>3, ConcatElements
  <2>5. QED
    BY <2>3, <2>4
<1>7. CASE i > Len(pre) /\ i - Len(pre) \in DOMAIN post /\ AlnumOf[post[i - Len(pre)]] >= MinAlnum
  <2> DEFINE j == i - Len(pre)
  <2>1. j \in 1..Len(post) /\ j \in Nat /\ i \in Nat /\ j + Len(pre) = i
    BY <1>1, <1>7
  <2>2. \E k \in DOMAIN W2 : /\ ~W2[k].lowQuality /\ W2[k].first <= j + Len(pre)
                             /\ j + Len(pre) <= W2[k].last
    BY <1>1, <1>7, <2>1, WindowCovers
  <2> HIDE DEF pre, post, W1, W2, Both, C, j
  <2>3. PICK k \in DOMAIN W2 : ~W2[k].lowQuality /\ W2[k].first <= i /\ i <= W2[k].last
    BY <2>1, <2>2
  <2>4. k + Len(W1) \in DOMAIN C /\ C[k + Len(W1)] = W2[k]
    BY <1>2, <1>3, ConcatElements
  <2>5. QED
    BY <2>3, <2>4
<1>8. QED
  BY <1>5, <1>6, <1>7

-----------------------------------------------------------------------------
(* The payload of a filing.                                                *)

Payload(f) == GraphPayload(Normalized(f))

FigureAt(f, r, c) ==
  [row |-> r, col |-> c, header |-> Normalized(f).header[c],
   year |-> ParseYear(Normalized(f).header[c])]

LEMMA PayloadRows ==
  ASSUME NEW f
  PROVE  /\ Payload(f).rows =
              {[row |-> r, label |-> DataRows(f.table)[r].label,
                source |-> r + HeaderDepth(f.table)] : r \in DOMAIN DataRows(f.table)}
         /\ {r.row : r \in Payload(f).rows} = DOMAIN DataRows(f.table)
<1>1. Payload(f).rows =
        {[row |-> r, label |-> DataRows(f.table)[r].label,
          source |-> r + HeaderDepth(f.table)] : r \in DOMAIN DataRows(f.table)}
  <2>1. Normalized(f).rows = DataRows(f.table) /\ Normalized(f).depth = HeaderDepth(f.table)
    BY NormalizedIs
  <2>2. Payload(f).rows = {[row |-> r, label |-> Normalized(f).rows[r].label,
                            source |-> r + Normalized(f).depth] : r \in DOMAIN Normalized(f).rows}
    BY DEF Payload, GraphPayload
  <2>3. QED
    BY <2>1, <2>2
<1>2. \A n : n \in {r.row : r \in Payload(f).rows} <=> n \in DOMAIN DataRows(f.table)
  <2> DEFINE Row(r) == [row |-> r, label |-> DataRows(f.table)[r].label,
                        source |-> r + HeaderDepth(f.table)]
  <2>1. \A r : Row(r).row = r
    OBVIOUS
  <2>2. Payload(f).rows = {Row(r) : r \in DOMAIN DataRows(f.table)}
    BY <1>1
  <2> HIDE DEF Row
  <2>3. QED
    BY <2>1, <2>2
<1>3. QED
  BY <1>1, <1>2

\* The values of the payload are the figures of the data rows.
LEMMA PayloadFigures ==
  ASSUME NEW f
  PROVE  \A v : v \in Payload(f).values <=>
           \E r \in DOMAIN DataRows(f.table) :
             \E c \in Figures(DataRows(f.table)[r], NormalizerNumeric) : v = FigureAt(f, r, c)
<1>1. Payload(f).values = PayloadValues(Normalized(f))
  BY DEF Payload, GraphPayload
<1>2. Normalized(f).rows = DataRows(f.table)
  BY NormalizedIs
<1>3. PayloadValues(Normalized(f)) =
        UNION {{FigureAt(f, r, c) : c \in Figures(DataRows(f.table)[r], NormalizerNumeric)} :
                 r \in DOMAIN DataRows(f.table)}
  BY <1>2 DEF PayloadValues, FigureAt
<1>4. QED
  BY <1>1, <1>3

LEMMA FigureTyped ==
  ASSUME NEW f \in Filings, NEW r \in DOMAIN DataRows(f.table),
         NEW c \in Figures(DataRows(f.table)[r], NormalizerNumeric)
  PROVE  FigureAt(f, r, c) \in [row : DOMAIN DataRows(f.table), col : 1..MaxColumns,
                                header : Seq(Cells), year : 0..2]
<1>1. c \in 1..MaxColumns
  BY DataRowsAre, FiguresBound
<1>2. Normalized(f).header[c] = ColumnHeader(f.table, c)
  BY <1>1, NormalizedIs
<1>3. ColumnHeader(f.table, c) \in Seq(Cells)
  BY ColumnHeaderType
<1>4. ParseYear(ColumnHeader(f.table, c)) \in 0..2
  BY <1>3, ParseYearType
<1>5. QED
  BY <1>1, <1>2, <1>3, <1>4 DEF FigureAt

-----------------------------------------------------------------------------
(* The theorems.                                                           *)

(* What the commands leave is what they make of the filing one after        *)
(* another, whatever has run: the invariant of every proof below.           *)
THEOREM IInvInductive == Spec => []IInv
<1>1. Init => IInv
  BY DEF Init, IInv
<1>2. IInv /\ [Next]_vars => IInv'
  <2> SUFFICES ASSUME IInv, [Next]_vars
               PROVE  IInv'
    OBVIOUS
  <2>1. CASE Parse
    BY <2>1 DEF Parse, IInv
  <2>2. CASE Normalize
    BY <2>2 DEF Normalize, IInv, Normalized
  <2>3. CASE LoadVectors
    BY <2>3 DEF LoadVectors, IInv
  <2>4. CASE BuildPayload
    BY <2>4 DEF BuildPayload, IInv
  <2>5. CASE UNCHANGED vars
    BY <2>5 DEF vars, IInv
  <2>6. QED
    BY <2>1, <2>2, <2>3, <2>4, <2>5 DEF Next
<1>3. QED
  BY <1>1, <1>2, PTL DEF Spec

LEMMA BuiltIs ==
  ASSUME IInv, Built
  PROVE  filing \in Filings /\ record = Payload(filing)
BY DEF IInv, Built, Payload

(* What the stores receive has the shape they are read in, for every        *)
(* corpus.                                                                  *)
LEMMA TypeHolds ==
  ASSUME IInv
  PROVE  TypeOK
<1>1. vectors \subseteq [section : {"pre_text", "post_text"}, index : Nat, first : Nat, last : Nat]
  <2>1. filing \in Filings /\ vectors \in {{}, VectorRows(Normalized(filing))}
    BY DEF IInv
  <2>2. \A w \in VectorRows(Normalized(filing)) :
          w \in [section : {"pre_text", "post_text"}, index : Nat, first : Nat, last : Nat]
    BY <2>1, ChunksOf
  <2>3. QED
    BY <2>1, <2>2
<1>2. ASSUME Built
      PROVE  /\ record.values \subseteq
                  [row : {r.row : r \in record.rows}, col : 1..MaxColumns,
                   header : Seq(Cells), year : 0..2]
             /\ record.links \subseteq record.metrics \X {r.row : r \in record.rows}
  <2>1. filing \in Filings /\ record = Payload(filing)
    BY <1>2, BuiltIs
  <2>2. {r.row : r \in record.rows} = DOMAIN DataRows(filing.table)
    BY <2>1, PayloadRows
  <2>3. \A v \in record.values :
          v \in [row : DOMAIN DataRows(filing.table), col : 1..MaxColumns,
                 header : Seq(Cells), year : 0..2]
    BY <2>1, PayloadFigures, FigureTyped
  <2>4. record.links \subseteq record.metrics \X DOMAIN DataRows(filing.table)
    BY <2>1, NormalizedIs DEF Payload, GraphPayload
  <2>5. QED
    BY <2>2, <2>3, <2>4
<1>3. QED
  BY <1>1, <1>2 DEF TypeOK, IInv

THEOREM TypeCorrect == Spec => []TypeOK
BY IInvInductive, TypeHolds, PTL

(* What becomes of the figures, whatever the table's shape: a cell below    *)
(* the first row that is a figure has its Value unless it is a negative or  *)
(* its row, the second, names a period, and every Value is such a cell's.   *)
LEMMA FiguresHold ==
  ASSUME IInv
  PROVE  FiguresSurvive
<1> SUFFICES ASSUME Built
             PROVE  /\ \A f \in RawFigures : \/ Filed(f) \/ InPeriodHeader(f)
                                            \/ filing.table[f[1]].cells[f[2]] \in Negatives
                    /\ \A v \in record.values : <<RawRow(v), v.col>> \in RawFigures
  BY DEF FiguresSurvive
<1> DEFINE t == filing.table
           h == HeaderRows(t)
<1>1. filing \in Filings /\ record = Payload(filing)
  BY BuiltIs
<1>2. h \in {1, 2} /\ Len(t) \in Nat /\ h <= Len(t)
  <2>1. h \in {1, 2} /\ h <= Len(t)
    BY <1>1, HeaderRowsBound
  <2>2. Len(t) \in Nat
    BY <1>1, FilingTyped
  <2>3. QED
    BY <2>1, <2>2
<1>3. ASSUME NEW i \in 2..Len(t), NEW c \in Figures(t[i], FigureKinds),
             t[i].cells[c] \notin Negatives
      PROVE  Filed(<<i, c>>) \/ InPeriodHeader(<<i, c>>)
  <2>1. c \in Figures(t[i], NormalizerNumeric)
    BY <1>3 DEF Figures, FigureKinds, Negatives, NormalizerNumeric
  <2>2. CASE i > h
    <3> DEFINE r == i - h
    <3>1. r \in 1..(Len(t) - h) /\ r + h = i
      BY <1>2, <2>2
    <3>2. r \in DOMAIN DataRows(t) /\ DataRows(t)[r] = t[i]
      BY <1>1, <3>1, DataRowsAre
    <3>3. FigureAt(filing, r, c) \in record.values
      BY <1>1, <2>1, <3>2, PayloadFigures
    <3>4. RawRow(FigureAt(filing, r, c)) = i /\ FigureAt(filing, r, c).col = c
      BY <3>1 DEF FigureAt, RawRow
    <3>5. QED
      BY <3>3, <3>4 DEF Filed
  <2>3. CASE ~ (i > h)
    <3>1. i = 2 /\ h = 2
      BY <1>2, <2>3
    <3>2. IsContinuationHeader(t[2])
      BY <1>1, <3>1, HeaderRowsBound
    <3>3. t[2].cells[c] \in Texts(t[2]) \cap NormalizerNumeric
      BY <2>1, <3>1 DEF Figures, Texts, NormalizerNumeric
    <3>4. NamesPeriod(t[2])
      BY <3>2, <3>3 DEF IsContinuationHeader, HasNumeric
    <3>5. QED
      BY <3>1, <3>4 DEF InPeriodHeader
  <2>4. QED
    BY <2>2, <2>3
<1>4. ASSUME NEW v \in record.values
      PROVE  <<RawRow(v), v.col>> \in RawFigures
  <2>1. PICK r \in DOMAIN DataRows(t) : \E c \in Figures(DataRows(t)[r], NormalizerNumeric) :
          v = FigureAt(filing, r, c)
    BY <1>1, PayloadFigures
  <2>2. PICK c \in Figures(DataRows(t)[r], NormalizerNumeric) : v = FigureAt(filing, r, c)
    BY <2>1
  <2>3. RawRow(v) = r + h /\ v.col = c
    BY <2>2 DEF FigureAt, RawRow
  <2>4. r + h \in 2..Len(t) /\ DataRows(t)[r] = t[r + h]
    <3>1. r \in 1..(Len(t) - h) /\ DataRows(t)[r] = t[r + h]
      BY <1>1, DataRowsAre
    <3>2. QED
      BY <1>2, <3>1
  <2>5. c \in Figures(t[r + h], FigureKinds)
    BY <2>2, <2>4 DEF Figures, FigureKinds, NormalizerNumeric
  <2>6. QED
    BY <2>3, <2>4, <2>5 DEF RawFigures
<1>5. ASSUME NEW f \in RawFigures
      PROVE  Filed(f) \/ InPeriodHeader(f) \/ t[f[1]].cells[f[2]] \in Negatives
  <2>1. PICK i \in 2..Len(t) : \E c \in Figures(t[i], FigureKinds) : f = <<i, c>>
    BY DEF RawFigures
  <2>2. PICK c \in Figures(t[i], FigureKinds) : f = <<i, c>>
    BY <2>1
  <2>3. QED
    BY <1>3, <2>2
<1>6. QED
  BY <1>4, <1>5

THEOREM NoFigureLost == Spec => []FiguresSurvive
BY IInvInductive, FiguresHold, PTL

(* What can be found of texts of any length: a sentence with ten letters or *)
(* digits lies in an embedded window, and no window crosses the table.      *)
LEMMA SentencesHold ==
  ASSUME IInv
  PROVE  SentencesCovered
<1> DEFINE pre == NonBlank(filing.pre)
           post == NonBlank(filing.post)
           all == pre \o post
<1>1. SUFFICES ASSUME stage = "embedded"
               PROVE  /\ \A i \in DOMAIN all : AlnumOf[all[i]] >= MinAlnum =>
                           \E w \in vectors : w.first <= i /\ i <= w.last
                      /\ \A w \in vectors : /\ w.section = "pre_text" => w.last <= Len(pre)
                                            /\ w.section = "post_text" => w.first > Len(pre)
                                            /\ w.last <= Len(all)
  BY DEF SentencesCovered
<1>2. filing \in Filings /\ vectors = VectorRows(Normalized(filing))
  BY <1>1 DEF IInv
<1>3. \A i \in DOMAIN all : AlnumOf[all[i]] >= MinAlnum =>
        \E w \in vectors : w.first <= i /\ i <= w.last
  BY <1>2, ProseCovered
<1>4. Len(all) = Len(pre) + Len(post)
  BY <1>2, SentencesOf, ConcatElements
<1>5. \A w \in vectors : /\ w.section = "pre_text" => w.last <= Len(pre)
                         /\ w.section = "post_text" => w.first > Len(pre)
                         /\ w.last <= Len(pre) + Len(post)
  BY <1>2, ChunksOf
<1>6. QED
  BY <1>3, <1>4, <1>5

THEOREM EverySentenceCovered == Spec => []SentencesCovered
BY IInvInductive, SentencesHold, PTL

\* A row rich in figures that both tests read is header to neither, unless it
\* names a period.
LEMMA RichRowsAreData ==
  ASSUME NEW f \in Filings, NEW i \in 1..Len(f.table), RichInFigures(f.table[i])
  PROVE  /\ ~LooksLikeHeader(f.table[i])
         /\ IsContinuationHeader(f.table[i]) => NamesPeriod(f.table[i])
<1> DEFINE row == f.table[i]
           both == Figures(row, ParserNumeric \cap NormalizerNumeric)
           theirs == Figures(row, ParserNumeric)
           n == Len(row.cells)
<1>1. row.cells \in Seq(Cells) /\ n \in Nat /\ DOMAIN row.cells = 1..n
  <2>1. row.cells \in Seq(Cells)
    BY FilingTyped
  <2>2. QED
    BY <2>1
<1>2. both \subseteq theirs
  BY DEF Figures
<1>3. IsFiniteSet(theirs) /\ IsFiniteSet(both) /\ Cardinality(both) <= Cardinality(theirs)
  <2>1. IsFiniteSet(1..n)
    <3>1. 1 \in Int /\ n \in Int
      BY <1>1
    <3>2. QED
      BY <3>1, FS_Interval
  <2>2. theirs \subseteq 1..n
    BY <1>1 DEF Figures
  <2>3. IsFiniteSet(theirs)
    BY <2>1, <2>2, FS_Subset
  <2>4. QED
    BY <1>2, <2>3, FS_Subset
<1>4. Cardinality(theirs) \in Nat /\ Cardinality(both) \in Nat
  BY <1>3, FS_CardinalityType
<1>5. Cardinality(both) >= 2 /\ Cardinality(both) > n \div 3
  BY DEF RichInFigures
<1>6. both # {}
  <2> HIDE DEF both
  <2>1. CASE both = {}
    <3>1. Cardinality(both) = 0
      BY <2>1, FS_EmptySet
    <3>2. QED
      BY <1>5, <3>1
  <2>2. QED
    BY <2>1
<1>7. PICK c \in both : TRUE
  BY <1>6
<1>8. n # 0
  BY <1>1, <1>7 DEF Figures
<1>9. ~LooksLikeHeader(row)
  <2> HIDE DEF both, theirs, n
  <2>1. n \div 3 \in Nat
    BY <1>1
  <2>2. ~ (Cardinality(theirs) <= Larger(1, n \div 3))
    BY <1>3, <1>4, <1>5, <2>1 DEF Larger
  <2>3. QED
    BY <1>8, <2>2 DEF LooksLikeHeader, n, theirs
<1>10. row.cells[c] \in Texts(row) \cap NormalizerNumeric
  BY <1>7 DEF Figures, Texts, NormalizerNumeric
<1>11. QED
  BY <1>9, <1>10 DEF IsContinuationHeader, HasNumeric

\* A row of words alone is header to both tests.
LEMMA PlainRowsAreHeader ==
  ASSUME NEW f \in Filings, NEW i \in 1..Len(f.table), PlainHeader(f.table[i])
  PROVE  LooksLikeHeader(f.table[i]) /\ IsContinuationHeader(f.table[i])
<1> DEFINE row == f.table[i]
           n == Len(row.cells)
<1>1. n \in Nat
  <2>1. row.cells \in Seq(Cells)
    BY FilingTyped
  <2>2. QED
    BY <2>1
<1>2. Figures(row, ParserNumeric) = {}
  <2>1. \A c \in DOMAIN row.cells : row.cells[c] \in {"words", "period", "blank"}
    BY DEF PlainHeader, Texts
  <2>2. QED
    BY <2>1 DEF Figures, ParserNumeric
<1>3. LooksLikeHeader(row)
  <2>1. Cardinality(Figures(row, ParserNumeric)) = 0
    BY <1>2, FS_EmptySet
  <2>2. 0 <= Larger(1, n \div 3)
    <3> HIDE DEF n
    <3>1. n \div 3 \in Nat
      BY <1>1
    <3>2. QED
      BY <3>1 DEF Larger
  <2>3. QED
    BY <2>1, <2>2 DEF LooksLikeHeader
<1>4. ~HasNumeric(row)
  BY DEF PlainHeader, HasNumeric, NormalizerNumeric
<1>5. QED
  BY <1>3, <1>4 DEF IsContinuationHeader, PlainHeader

(* Parser and normaliser agree where the header ends, and so on every row's *)
(* place in the raw table, when a row rich in figures follows the first, or *)
(* follows two rows of words.                                               *)
LEMMA PlacesHold ==
  ASSUME IInv
  PROVE  PlacesKept
<1> DEFINE t == filing.table
           leading == {d \in 0..3 : /\ d <= Len(t)
                                    /\ \A i \in 1..d : LooksLikeHeader(t[i])}
<1> SUFFICES ASSUME Built,
                    \/ Len(t) >= 2 /\ RichInFigures(t[2]) /\ ~NamesPeriod(t[2])
                    \/ /\ Len(t) >= 3 /\ RichInFigures(t[3])
                       /\ PlainHeader(t[1]) /\ PlainHeader(t[2])
             PROVE  \A r \in record.rows : r.source = RawRow(r)
  BY DEF PlacesKept
<1>1. filing \in Filings /\ record = Payload(filing)
  BY BuiltIs
<1>2. Len(t) \in Nat
  BY <1>1, FilingTyped
<1> DEFINE deepest == CHOOSE d \in leading : \A e \in leading : e <= d
<1>3. HeaderDepth(t) = Larger(1, deepest)
  BY DEF HeaderDepth
<1> HIDE DEF deepest
<1>4. HeaderDepth(t) = HeaderRows(t)
  <2>1. CASE Len(t) >= 2 /\ RichInFigures(t[2]) /\ ~NamesPeriod(t[2])
    <3>1. ~LooksLikeHeader(t[2]) /\ ~IsContinuationHeader(t[2])
      <4>1. 2 \in 1..Len(t)
        BY <1>2, <2>1
      <4>2. QED
        BY <1>1, <2>1, <4>1, RichRowsAreData
    <3>2. leading = {0} \/ leading = {0, 1}
      BY <1>2, <2>1, <3>1
    <3> HIDE DEF leading
    <3>3. deepest \in {0, 1}
      BY <3>2 DEF deepest
    <3>4. HeaderDepth(t) = 1
      BY <1>3, <3>3 DEF Larger
    <3>5. HeaderRows(t) = 1
      BY <3>1 DEF HeaderRows
    <3>6. QED
      BY <3>4, <3>5
  <2>2. CASE /\ Len(t) >= 3 /\ RichInFigures(t[3])
             /\ PlainHeader(t[1]) /\ PlainHeader(t[2])
    <3>1. 1 \in 1..Len(t) /\ 2 \in 1..Len(t) /\ 3 \in 1..Len(t)
      BY <1>2, <2>2
    <3>2. /\ LooksLikeHeader(t[1]) /\ LooksLikeHeader(t[2]) /\ ~LooksLikeHeader(t[3])
          /\ IsContinuationHeader(t[2])
      BY <1>1, <2>2, <3>1, RichRowsAreData, PlainRowsAreHeader
    <3>3. leading = {0, 1, 2}
      BY <1>2, <2>2, <3>2
    <3> HIDE DEF leading
    <3>4. deepest = 2
      BY <3>3 DEF deepest
    <3>5. HeaderDepth(t) = 2
      BY <1>3, <3>4 DEF Larger
    <3>6. HeaderRows(t) = 2
      BY <1>2, <2>2, <3>2 DEF HeaderRows
    <3>7. QED
      BY <3>5, <3>6
  <2>3. QED
    BY <2>1, <2>2
<1>5. \A r \in record.rows : r.source = r.row + HeaderDepth(t)
  <2>1. record.rows = {[row |-> r, label |-> DataRows(t)[r].label, source |-> r + HeaderDepth(t)] :
                         r \in DOMAIN DataRows(t)}
    BY <1>1, PayloadRows
  <2>2. QED
    BY <2>1
<1>6. QED
  BY <1>4, <1>5 DEF RawRow

THEOREM RowsInPlace == Spec => []PlacesKept
BY IInvInductive, PlacesHold, PTL
=============================================================================
