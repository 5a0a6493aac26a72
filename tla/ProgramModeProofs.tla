--------------------------- MODULE ProgramModeProofs ---------------------------
(***************************************************************************)
(* Proofs about ProgramMode, for every corpus, every set of questions and  *)
(* programs, and any number of samples.                                    *)
(***************************************************************************)
EXTENDS ProgramMode, FilingPipelineProofs

\* A question is asked of the table read back from a built payload, and nothing
\* is answered before the vote.
ModeInv ==
  /\ IInv
  /\ phase # "idle" => Built /\ table = ExtractTable(record)
  /\ phase # "answered" => answer = NoAnswer
  /\ VoteOverruledOnlyByVetted

-----------------------------------------------------------------------------
(* The pipeline below.                                                     *)

(* Answering questions leaves the filing alone: whatever is proved of the   *)
(* offline commands holds while questions are answered.                     *)
THEOREM ModeImplementsPipeline == ModeSpec => Spec
<1>1. ModeInit => Init
  BY DEF ModeInit
<1>2. [ModeNext]_<<vars, modeVars>> => [Next]_vars
  BY DEF ModeNext
<1>3. QED
  BY <1>1, <1>2, PTL DEF ModeSpec, Spec

-----------------------------------------------------------------------------
(* The vote.                                                               *)

LEMMA VotesCount ==
  ASSUME NEW S, NEW candidates \in Seq(S), NEW program
  PROVE  Votes(candidates, program) \in 0..Len(candidates)
<1> DEFINE n == Len(candidates)
           for == {i \in DOMAIN candidates : ValueOf(candidates[i]) = ValueOf(program)}
<1>1. n \in Nat /\ for \subseteq 1..n
  OBVIOUS
<1>2. IsFiniteSet(1..n) /\ Cardinality(1..n) = n
  <2>1. 1 \in Int /\ n \in Int
    BY <1>1
  <2>2. Cardinality(1..n) = IF 1 > n THEN 0 ELSE n - 1 + 1
    BY <2>1, FS_Interval
  <2>3. QED
    BY <1>1, <2>1, <2>2, FS_Interval
<1>3. IsFiniteSet(for) /\ Cardinality(for) <= n
  BY <1>1, <1>2, FS_Subset
<1>4. Cardinality(for) \in Nat
  BY <1>3, FS_CardinalityType
<1>5. QED
  BY <1>1, <1>3, <1>4 DEF Votes

\* The winner is a candidate, and none has more votes.
LEMMA WinnerHasMost ==
  ASSUME NEW S, NEW candidates \in Seq(S), candidates # <<>>
  PROVE  /\ Winner(candidates) \in ToSet(candidates)
         /\ \A p \in ToSet(candidates) :
              Votes(candidates, p) <= Votes(candidates, Winner(candidates))
<1> DEFINE D == DOMAIN candidates
           Count(i) == Votes(candidates, candidates[i])
           most == {i \in D : \A j \in D : Count(j) <= Count(i)}
           n == Len(candidates)
           Lacking == {n - Count(i) : i \in D}
<1>1. n \in Nat /\ D = 1..n /\ D # {}
  OBVIOUS
<1>2. \A i \in D : Count(i) \in Nat /\ Count(i) <= n
  <2>1. TAKE i \in D
  <2>2. Votes(candidates, candidates[i]) \in 0..Len(candidates)
    BY VotesCount
  <2>3. QED
    BY <2>2, <1>1
<1>3. Winner(candidates) = candidates[CHOOSE i \in most : \A j \in most : i <= j]
  BY DEF Winner
<1>4. most # {}
  <2> HIDE DEF Count, n, D
  <2>1. Lacking \in SUBSET Nat /\ Lacking # {}
    BY <1>1, <1>2
  <2>2. PICK l \in Lacking : \A m \in Lacking : l <= m
    <3> HIDE DEF Lacking
    <3>1. QED
      BY <2>1, LeastNumber
  <2>3. PICK i \in D : l = n - Count(i)
    BY <2>2
  <2>4. \A j \in D : Count(j) <= Count(i)
    <3>1. TAKE j \in D
    <3>2. n - Count(j) \in Lacking
      OBVIOUS
    <3>3. n - Count(i) <= n - Count(j)
      BY <2>2, <2>3, <3>2
    <3>4. QED
      BY <1>1, <1>2, <3>3
  <2>5. QED
    BY <2>4
<1>5. \E i \in most : \A j \in most : i <= j
  <2>1. most \in SUBSET Nat
    BY <1>1
  <2> HIDE DEF most
  <2>2. QED
    BY <1>4, <2>1, LeastNumber
<1>6. PICK w \in most : Winner(candidates) = candidates[w]
  <2> HIDE DEF most
  <2>1. QED
    BY <1>3, <1>5
<1>7. w \in D /\ \A j \in D : Count(j) <= Count(w)
  BY <1>6
<1>8. QED
  BY <1>6, <1>7 DEF ToSet

LEMMA ComputedType == Computed \in Seq({samples[i] : i \in 1..Samples})
<1> DEFINE S == {samples[i] : i \in 1..Samples}
           drawn == [i \in 1..Samples |-> samples[i]]
<1>1. Samples \in Nat
  BY ProgramAssumption
<1>2. drawn \in Seq(S)
  BY <1>1
<1>3. Without(drawn, NoProgram) \in Seq(S \ {NoProgram})
  <2> HIDE DEF drawn, S
  <2>1. QED
    BY <1>2, WithoutType
<1>4. Seq(S \ {NoProgram}) \subseteq Seq(S)
  OBVIOUS
<1>5. QED
  BY <1>3, <1>4 DEF Computed

\* What the vote answers with is a program that is vetted or that nothing beats.
LEMMA VoteIsRight ==
  ASSUME NEW selected, NEW corrected, Vote(selected, corrected), answer = NoAnswer
  PROVE  VoteOverruledOnlyByVetted'
<1> DEFINE verified == Verified(table, question, Computed, selected, corrected)
           won == Winner(Computed)
<1>1. UNCHANGED <<table, question, samples>> /\ Computed' = Computed
  BY DEF Vote, Computed
<1>2. \/ UNCHANGED answer
      \/ Computed # <<>> /\ AnswerWith(won)
      \/ verified # NoProgram /\ AnswerWith(verified)
  BY DEF Vote
<1>3. CASE UNCHANGED answer
  BY <1>3 DEF VoteOverruledOnlyByVetted, NoAnswer
<1>4. CASE Computed # <<>> /\ AnswerWith(won)
  <2>1. answer'.program = won
    BY <1>4 DEF AnswerWith
  <2>2. /\ won \in ToSet(Computed)
        /\ \A p \in ToSet(Computed) : Votes(Computed, p) <= Votes(Computed, won)
    BY <1>4, ComputedType, WinnerHasMost
  <2>3. QED
    BY <1>1, <2>1, <2>2 DEF VoteOverruledOnlyByVetted
<1>5. CASE verified # NoProgram /\ AnswerWith(verified)
  <2>1. answer'.program = verified /\ answer'.figures = ToSet(verified.figures)
    BY <1>5 DEF AnswerWith
  <2>2. Vetted(table, question, verified)
    BY <1>5 DEF Verified
  <2>3. /\ ToSet(verified.figures) \subseteq AllowedValues(table) \cup LiteralFigures(Standard)
        /\ Flags(question, verified) = {}
    BY <2>2 DEF Vetted
  <2>4. QED
    BY <1>1, <2>1, <2>3 DEF VoteOverruledOnlyByVetted
<1>6. QED
  BY <1>2, <1>3, <1>4, <1>5

-----------------------------------------------------------------------------
(* The theorems.                                                           *)

(* The table a question is asked of is what the pipeline built, and the     *)
(* answer is what the vote, or the fallback, made of it.                    *)
THEOREM ModeInvInductive == ModeSpec => []ModeInv
<1>1. ModeInit => ModeInv
  BY DEF ModeInit, ModeInv, Init, IInv, VoteOverruledOnlyByVetted, NoAnswer
<1>2. ModeInv /\ IInv' /\ [ModeNext]_<<vars, modeVars>> => ModeInv'
  <2> SUFFICES ASSUME ModeInv, IInv', [ModeNext]_<<vars, modeVars>>
               PROVE  ModeInv'
    OBVIOUS
  <2>1. ASSUME UNCHANGED modeVars, [Next]_vars
        PROVE  ModeInv'
    <3>1. phase # "idle" => UNCHANGED <<stage, record>>
      <4>1. phase # "idle" => stage = "built"
        BY DEF ModeInv, Built
      <4>2. QED
        BY <2>1, <4>1 DEF Next, vars, Parse, Normalize, LoadVectors, BuildPayload
    <3>2. UNCHANGED <<phase, table, question, samples, answer>>
      BY <2>1 DEF modeVars
    <3>3. VoteOverruledOnlyByVetted'
      BY <3>2 DEF ModeInv, VoteOverruledOnlyByVetted, Computed
    <3>4. QED
      BY <3>1, <3>2, <3>3 DEF ModeInv, Built
  <2>2. ASSUME Answering, UNCHANGED vars
        PROVE  ModeInv'
    <3>1. UNCHANGED <<stage, record>>
      BY <2>2 DEF vars
    <3>2. ASSUME NEW q \in Questions, Ask(q)
          PROVE  ModeInv'
      BY <3>1, <3>2 DEF Ask, ModeInv, Built, VoteOverruledOnlyByVetted, NoAnswer
    <3>3. ASSUME NEW i \in 1..Samples, NEW p \in Outcomes, Sample(i, p)
          PROVE  ModeInv'
      BY <3>1, <3>3 DEF Sample, ModeInv, Built, VoteOverruledOnlyByVetted, NoAnswer
    <3>4. ASSUME NEW selected \in 0..Samples, NEW corrected \in Resolutions,
                 Vote(selected, corrected)
          PROVE  ModeInv'
      <4>1. phase = "sampling" /\ answer = NoAnswer
        BY <3>4 DEF Vote, ModeInv
      <4>2. VoteOverruledOnlyByVetted'
        BY <3>4, <4>1, VoteIsRight
      <4>3. phase' # "answered" => answer' = NoAnswer
        BY <3>4, <4>1 DEF Vote, AnswerWith
      <4>4. UNCHANGED table
        BY <3>4 DEF Vote
      <4>5. QED
        BY <3>1, <4>1, <4>2, <4>3, <4>4 DEF ModeInv, Built
    <3>5. CASE NoTable
      BY <3>1, <3>5 DEF NoTable, ModeInv, Built, VoteOverruledOnlyByVetted, NoAnswer
    <3>6. ASSUME NEW numerals \in SUBSET Literals, Draft(numerals)
          PROVE  ModeInv'
      <4>1. answer'.kind # "program" /\ phase = "fallback" /\ phase' = "answered"
        BY <3>6 DEF Draft
      <4>2. UNCHANGED table
        BY <3>6 DEF Draft
      <4>3. QED
        BY <3>1, <4>1, <4>2 DEF ModeInv, Built, VoteOverruledOnlyByVetted
    <3>7. QED
      BY <2>2, <3>2, <3>3, <3>4, <3>5, <3>6 DEF Answering
  <2>3. QED
    BY <2>1, <2>2 DEF ModeNext
<1>3. ModeSpec => []IInv
  BY ModeImplementsPipeline, IInvInductive, PTL
<1>4. QED
  BY <1>1, <1>2, <1>3, PTL DEF ModeSpec

(* Whatever is sampled and whatever the verifier replies, the answer of     *)
(* most samples stands or gives way to a vetted program.                    *)
THEOREM VoteStands == ModeSpec => []VoteOverruledOnlyByVetted
<1>1. ModeInv => VoteOverruledOnlyByVetted
  BY DEF ModeInv
<1>2. QED
  BY <1>1, ModeInvInductive, PTL

(* From the raw filing to a program's operand, for every corpus.            *)
LEMMA CitedHolds ==
  ASSUME ModeInv
  PROVE  CitedIsFiled
<1> DEFINE t == filing.table
           h == HeaderRows(t)
           data == DataRows(t)
<1> SUFFICES ASSUME phase = "sampling", NEW i \in h + 1..Len(t),
                    NEW c \in Figures(t[i], NormalizerNumeric), OwnLabel(i), OwnHeader(c)
             PROVE  LET cited == OperandFigures(table, [label |-> t[i].label,
                                                        header |-> ColumnHeader(t, c)])
                    IN  /\ cited = {} <=> t[i].label \in Apostrophes
                        /\ cited \subseteq Rendered(table)
                        /\ \A v \in cited : RawRow(v) = i /\ v.col = c
  BY DEF CitedIsFiled
<1> DEFINE header == ColumnHeader(t, c)
           label == t[i].label
           r == i - h
           figure == FigureAt(filing, r, c)
           RowOf(k) == [place |-> k + HeaderDepth(t), label |-> data[k].label,
                        cells |-> {v \in record.values : v.row = k}]
<1>1. filing \in Filings /\ record = Payload(filing) /\ table = ExtractTable(record)
  <2>1. IInv /\ Built /\ table = ExtractTable(record)
    BY DEF ModeInv
  <2>2. QED
    BY <2>1, BuiltIs
<1>2. h \in {1, 2} /\ Len(t) \in Nat /\ h <= Len(t) /\ i \in 1..Len(t)
  <2>1. h \in {1, 2} /\ h <= Len(t)
    BY <1>1, HeaderRowsBound
  <2>2. Len(t) \in Nat
    BY <1>1, FilingTyped
  <2>3. QED
    BY <2>1, <2>2
<1>3. /\ DOMAIN data = 1..(Len(t) - h)
      /\ \A k \in DOMAIN data : k \in Nat /\ k + h \in 1..Len(t) /\ data[k] = t[k + h]
  BY <1>1, DataRowsAre
<1>4. r \in DOMAIN data /\ data[r] = t[i] /\ r + h = i
  <2>1. r \in 1..(Len(t) - h) /\ r + h = i
    BY <1>2
  <2>2. QED
    BY <1>3, <2>1
<1>5. table = {RowOf(k) : k \in DOMAIN data}
  <2> DEFINE PRow(k) == [row |-> k, label |-> data[k].label, source |-> k + HeaderDepth(t)]
  <2>1. record.rows = {PRow(k) : k \in DOMAIN data}
    BY <1>1, PayloadRows
  <2>2. table = {[place |-> p.source, label |-> p.label,
                  cells |-> {v \in record.values : v.row = p.row}] : p \in record.rows}
    BY <1>1 DEF ExtractTable
  <2>3. \A k : /\ PRow(k).row = k /\ PRow(k).label = data[k].label
               /\ PRow(k).source = k + HeaderDepth(t)
    OBVIOUS
  <2> HIDE DEF PRow, data, t
  <2>4. QED
    BY <2>1, <2>2, <2>3
<1>6. \A v \in record.values :
        /\ v.row \in DOMAIN data /\ v.col \in 1..MaxColumns
        /\ v.header = ColumnHeader(t, v.col)
        /\ v = FigureAt(filing, v.row, v.col)
  <2>1. TAKE v \in record.values
  <2>2. PICK k \in DOMAIN data : \E d \in Figures(data[k], NormalizerNumeric) :
          v = FigureAt(filing, k, d)
    BY <1>1, PayloadFigures
  <2>3. PICK d \in Figures(data[k], NormalizerNumeric) : v = FigureAt(filing, k, d)
    BY <2>2
  <2>4. d \in 1..MaxColumns
    BY <1>1, <1>3, FiguresBound
  <2>5. Normalized(filing).header[d] = ColumnHeader(t, d)
    BY <2>4, NormalizedIs
  <2>6. QED
    BY <2>3, <2>4, <2>5 DEF FigureAt
<1>7. figure \in record.values /\ figure.row = r /\ figure.col = c /\ figure.header = header
  <2>1. figure \in record.values
    BY <1>1, <1>4, PayloadFigures
  <2>2. figure.row = r /\ figure.col = c
    BY DEF FigureAt
  <2>3. QED
    BY <1>6, <2>1, <2>2
<1>8. header # <<>> /\ \A d \in 1..MaxColumns : ColumnHeader(t, d) = header => d = c
  BY DEF OwnHeader
<1>9. \A v \in record.values : v.row = r /\ v.header = header => v = figure
  <2>1. TAKE v \in record.values
  <2>2. HAVE v.row = r /\ v.header = header
  <2>3. v.col = c
    BY <1>6, <1>8, <2>2
  <2>4. QED
    BY <1>6, <2>2, <2>3
<1>10. RowOf(r) \in table /\ RowOf(r).label = label
  BY <1>4, <1>5
<1>11. \A s \in table : s.label = label => s = RowOf(r)
  <2>1. TAKE s \in table
  <2>2. HAVE s.label = label
  <2>3. PICK k \in DOMAIN data : s = RowOf(k)
    BY <1>5
  <2>4. k + h \in h + 1..Len(t) /\ t[k + h].label = label
    BY <1>2, <1>3, <2>2, <2>3
  <2>5. k + h = i
    BY <2>4 DEF OwnLabel
  <2>6. k = r
    BY <1>2, <1>3, <2>5
  <2>7. QED
    BY <2>3, <2>6
<1>12. TargetRows(table, label) = {RowOf(r)}
  <2>1. {s \in table : s.label = label} = {RowOf(r)}
    BY <1>10, <1>11
  <2>2. QED
    BY <2>1 DEF TargetRows
<1>13. ResolveCell(table, label, header) = {figure}
  <2> DEFINE cells == UNION {s.cells : s \in TargetRows(table, label)}
             under == {v \in cells : v.header = header}
  <2>1. cells = {v \in record.values : v.row = r}
    BY <1>12
  <2>2. under = {figure}
    BY <1>7, <1>9, <2>1
  <2>3. ResolveCell(table, label, header) = {FirstFigure(under)}
    BY <2>2 DEF ResolveCell
  <2>4. FirstFigure({figure}) = figure
    <3>1. figure.row = r /\ r \in Nat /\ figure.col = c /\ c \in Nat
      <4>1. c \in 1..MaxColumns
        BY <1>6, <1>7
      <4>2. MaxColumns \in Nat
        BY ExtractionAssumption
      <4>3. QED
        BY <1>3, <1>4, <1>7, <4>1, <4>2
    <3>2. figure.row = figure.row /\ figure.col <= figure.col
      BY <3>1
    <3> HIDE DEF figure
    <3>3. QED
      BY <3>2 DEF FirstFigure
  <2>5. QED
    BY <2>2, <2>3, <2>4
<1>14. figure \in Rendered(table)
  <2>1. figure \in RowOf(r).cells
    BY <1>7
  <2>2. c <= c
    <3>1. c \in 1..MaxColumns /\ MaxColumns \in Nat
      BY <1>6, <1>7, ExtractionAssumption
    <3>2. QED
      BY <3>1
  <2>3. \A w \in RowOf(r).cells : w.header = figure.header => w.col <= figure.col
    BY <1>7, <1>9, <2>2
  <2>4. figure.header # <<>>
    BY <1>7, <1>8
  <2> HIDE DEF figure, RowOf
  <2>5. QED
    BY <1>10, <2>1, <2>3, <2>4 DEF Rendered
<1>15. RawRow(figure) = i /\ figure.col = c
  BY <1>4, <1>7 DEF RawRow
<1>16. OperandFigures(table, [label |-> label, header |-> header]) =
          {v \in {figure} : label \notin Apostrophes}
  <2> DEFINE arg == [label |-> label, header |-> header]
  <2>1. "literal" \notin DOMAIN arg /\ arg.label = label /\ arg.header = header
    OBVIOUS
  <2> HIDE DEF arg, label, header, figure
  <2>2. QED
    BY <1>13, <2>1 DEF OperandFigures
<1>17. QED
  <2> HIDE DEF figure
  <2>1. QED
    BY <1>14, <1>15, <1>16

THEOREM CitationsAreFiled == ModeSpec => []CitedIsFiled
BY ModeInvInductive, CitedHolds, PTL

(* The properties of the pipeline, while questions are answered.            *)
THEOREM PipelineKept ==
  ModeSpec => /\ []TypeOK /\ []FiguresSurvive
              /\ []SentencesCovered /\ []PlacesKept
BY ModeImplementsPipeline, TypeCorrect, NoFigureLost, EverySentenceCovered, RowsInPlace, PTL
=============================================================================
