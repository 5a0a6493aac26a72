------------------------------ MODULE Extraction ------------------------------
(***************************************************************************)
(* What ingestion makes of one FinQA filing: the table layout              *)
(* (ingestion/table_parser.py), the normalised table (normalizer.py), the  *)
(* text windows (text_chunker.py), the metric names (entity_extractor.py,  *)
(* entity_resolution.py) and the graph payload and vector rows the two     *)
(* loaders derive from them (graph_loader.py, vector_store/loader.py).     *)
(*                                                                         *)
(* Texts are abstracted to what the regular expressions and the counters   *)
(* of the code tell apart.  Rows, columns and sentences are counted from 1 *)
(* here and from 0 in the code.                                            *)
(***************************************************************************)
EXTENDS Naturals, Sequences, FiniteSets

CONSTANTS Labels,      \* row labels, and the metric names they resolve to
          Resolved,    \* resolve_metric_name, a function on Labels
          WordsOf,     \* pairs <<m, l>>: m's words occur in l at word boundaries
          PeriodLabels,\* labels like "balance as of december 31"
          YearLabels,  \* labels that are a bare number ("2010")
          MaxColumns   \* bound: columns of a table

ASSUME ExtractionAssumption ==
  /\ Resolved \in [Labels -> Labels]
  /\ WordsOf \subseteq Labels \X Labels
  /\ PeriodLabels \subseteq Labels
  /\ YearLabels \subseteq Labels
  /\ MaxColumns \in Nat
  /\ \A l \in Labels : <<l, l>> \in WordsOf

\* A cell of the raw table, by the regular expressions that match it:
\*   blank, words     nothing, words or a dash
\*   period, dated    "year ended", "year ended december 31 2009"
\*   inside           digits among words, "3.5 years", "december 31"
\*   number, percent  "12.5", "$ ( 40 )", "7% ( 7 % )"
\*   repeated         "11.1% ( 11.1 % )"
\*   negative         "-3 ( 3 )"
\*   decimal          "-0.3 ( 0.3 )"
\*   y1, y2           one of two consecutive bare years
Cells == {"blank", "words", "period", "dated", "inside", "number", "percent",
          "repeated", "negative", "decimal", "y1", "y2"}

\* The cells a reader takes for a figure.
FigureKinds == {"number", "percent", "repeated", "negative", "decimal", "y1", "y2"}

\* A row: its first cell is a label (or "" when blank), the rest are cells.
\* A filing: the table and the sentences before and after it.
Rows == [label : Labels \cup {""}, cells : Seq(Cells)]

Sentences == {"prose", "short", "dots", "blank"}

\* Letters and digits of a sentence, ten at least in prose.
AlnumOf == [s \in Sentences |-> CASE s = "prose" -> 10 [] s = "short" -> 4 [] OTHER -> 0]

YearOf == [c \in Cells |-> CASE c \in {"y1", "dated"} -> 1 [] c = "y2" -> 2 [] OTHER -> 0]

Larger(a, b) == IF a > b THEN a ELSE b

\* s without the elements that are x: SelectSeq, as a function that can be
\* reasoned about.
Without(s, x) ==
  LET Kept[n \in 0..Len(s)] ==
        IF n = 0 THEN <<>>
        ELSE IF s[n] = x THEN Kept[n - 1] ELSE Append(Kept[n - 1], s[n])
  IN  Kept[Len(s)]

-----------------------------------------------------------------------------
(* table_parser.py: how many rows of the raw table are header.             *)

\* _is_numeric_cell drops every character that is not a digit, a dot or a dash:
\* of "-3 ( 3 )" it makes -33, of "11.1% ( 11.1 % )" 11.111.1, which is no number.
ParserNumeric == {"dated", "inside", "number", "percent", "negative", "y1", "y2"}

Figures(row, kinds) == {i \in DOMAIN row.cells : row.cells[i] \in kinds}

\* Mutant of LooksLikeHeader: two figures are still few.
LooksLikeHeaderWithTwo(row) ==
  \/ Len(row.cells) = 0
  \/ Cardinality(Figures(row, ParserNumeric)) <= Larger(2, Len(row.cells) \div 3)

\* Header rows have few or no figures.
LooksLikeHeader(row) ==
  \/ Len(row.cells) = 0
  \/ Cardinality(Figures(row, ParserNumeric)) <= Larger(1, Len(row.cells) \div 3)

\* header_depth: the leading rows, of the first three, that look like headers.
HeaderDepth(table) ==
  LET leading == {d \in 0..3 : /\ d <= Len(table)
                               /\ \A i \in 1..d : LooksLikeHeader(table[i])}
  IN  Larger(1, CHOOSE d \in leading : \A e \in leading : e <= d)

-----------------------------------------------------------------------------
(* normalizer.py: the rows and figures that are kept.                      *)

\* FIN_NUMERIC_RE and FIN_DUP_PCT_RE match the whole cell; a number restated in
\* brackets after it is matched for percentages only.
NormalizerNumeric == {"number", "percent", "repeated", "y1", "y2"}

Texts(row) == {row.cells[i] : i \in DOMAIN row.cells} \ {"blank"}

NamesPeriod(row) ==
  row.label \in PeriodLabels \/ Texts(row) \cap {"period", "dated"} # {}

HasNumeric(row) == row.label \in YearLabels \/ Texts(row) \cap NormalizerNumeric # {}

\* Mutant of IsContinuationHeader: one cell that is not a number is enough.
IsContinuationHeaderIfAny(row) ==
  \/ NamesPeriod(row)
  \/ row.label # "" \/ Texts(row) \ NormalizerNumeric # {}

\* _is_continuation_header: the label is one of the row's text cells.
IsContinuationHeader(row) ==
  /\ row.label # "" \/ Texts(row) # {}
  /\ NamesPeriod(row) \/ ~HasNumeric(row)

\* A second row that is not data is joined to the header.
HeaderRows(table) ==
  IF Len(table) > 1 /\ IsContinuationHeader(table[2]) THEN 2 ELSE 1

DataRows(table) == SubSeq(table, HeaderRows(table) + 1, Len(table))

\* The header tokens are joined column by column without a look at the rows'
\* lengths: rows of different lengths raise an IndexError.
NormalizeRaises(table) ==
  /\ HeaderRows(table) = 2
  /\ Len(table[1].cells) # Len(table[2].cells)

\* A column's header token joins the texts of the header rows' cells.
ColumnHeader(table, col) ==
  LET CellOf(row) == IF col \in DOMAIN row.cells THEN row.cells[col] ELSE "blank"
  IN  Without([i \in 1..HeaderRows(table) |-> CellOf(table[i])], "blank")

\* parse_year takes the first year in a header token.
ParseYear(header) ==
  LET years == {i \in DOMAIN header : YearOf[header[i]] # 0}
  IN  IF years = {} THEN 0
      ELSE YearOf[header[CHOOSE i \in years : \A j \in years : i <= j]]

-----------------------------------------------------------------------------
(* text_chunker.py: windows of three sentences, two apart.                 *)

WindowSize == 3
Stride == 2
MinAlnum == 10

NonBlank(text) == Without(text, "blank")

\* Mutant of WindowCount: the loop ends before the window that reaches the end.
WindowCountShort(n) ==
  Cardinality({k \in 1..n : k = 1 \/ (k - 1) * Stride + WindowSize <= n})

\* _window_chunks stops at the first window that reaches the end.
WindowCount(n) ==
  Cardinality({k \in 1..n : k = 1 \/ (k - 2) * Stride + WindowSize < n})

\* The windows over one text; offset makes the sentence indices global.
Windows(text, section, offset) ==
  LET n == Len(text)
      Start(k) == (k - 1) * Stride + 1
      End(k) == IF Start(k) + WindowSize - 1 > n THEN n ELSE Start(k) + WindowSize - 1
      Alnum(i) == IF i \in 1..n THEN AlnumOf[text[i]] ELSE 0
  IN  [k \in 1..WindowCount(n) |->
         [section |-> section, first |-> Start(k) + offset, last |-> End(k) + offset,
          lowQuality |->
            Alnum(Start(k)) + Alnum(Start(k) + 1) + Alnum(Start(k) + 2) < MinAlnum]]

\* chunk_context
Chunks(filing) ==
  Windows(NonBlank(filing.pre), "pre_text", 0)
    \o Windows(NonBlank(filing.post), "post_text", Len(NonBlank(filing.pre)))

-----------------------------------------------------------------------------
(* entity_extractor.py, entity_resolution.py and graph_loader.py.          *)

\* extract_entities takes the labels below the first row.
MetricNames(table) ==
  {table[i].label : i \in {j \in 2..Len(table) : table[j].label # ""}}

\* _match_metric
MatchMetric(metric, label) == label # "" /\ <<metric, label>> \in WordsOf

\* parse_record
ParseRecord(filing) ==
  [table |-> filing.table, depth |-> HeaderDepth(filing.table),
   names |-> MetricNames(filing.table), chunks |-> Chunks(filing)]

\* normalize_record
NormalizeRecord(parsed) ==
  [rows |-> DataRows(parsed.table), depth |-> parsed.depth, chunks |-> parsed.chunks,
   header |-> [c \in 1..MaxColumns |-> ColumnHeader(parsed.table, c)],
   metrics |-> {Resolved[m] : m \in parsed.names}]

\* Mutant of PayloadValues: figures name the row's place in the original table.
PayloadValuesAtSource(record) ==
  UNION {{[row |-> r + record.depth, col |-> c,
           header |-> record.header[c], year |-> ParseYear(record.header[c])] :
            c \in Figures(record.rows[r], NormalizerNumeric)} : r \in DOMAIN record.rows}

\* The figures of a payload; the cells that are not numbers are skipped.
PayloadValues(record) ==
  UNION {{[row |-> r, col |-> c,
           header |-> record.header[c], year |-> ParseYear(record.header[c])] :
            c \in Figures(record.rows[r], NormalizerNumeric)} : r \in DOMAIN record.rows}

\* build_graph_payload: rows with their place in the original table, figures
\* with their column and year, metrics and their links to rows, chunks.
GraphPayload(record) ==
  LET data == record.rows
  IN  [rows    |-> {[row |-> r, label |-> data[r].label, source |-> r + record.depth] :
                      r \in DOMAIN data},
       values  |-> PayloadValues(record),
       metrics |-> record.metrics,
       links   |-> {l \in record.metrics \X DOMAIN data :
                      MatchMetric(l[1], data[l[2]].label)},
       chunks  |-> DOMAIN record.chunks]

\* load_chunks_from_record: the windows that are embedded.
VectorRows(record) ==
  {[section |-> record.chunks[i].section, index |-> i,
    first |-> record.chunks[i].first, last |-> record.chunks[i].last] :
     i \in {j \in DOMAIN record.chunks : ~record.chunks[j].lowQuality}}
=============================================================================
