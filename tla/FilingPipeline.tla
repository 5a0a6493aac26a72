---------------------------- MODULE FilingPipeline ----------------------------
(***************************************************************************)
(* One filing on its way through the offline commands: parser.py writes a  *)
(* parsed record, normalizer.py a normalised one, graph_loader.py and      *)
(* vector_store/loader.py the rows of the two stores.  Parser and          *)
(* normaliser judge the header of the table independently of one another,  *)
(* and the graph loader combines both judgements.                          *)
(***************************************************************************)
EXTENDS Extraction

CONSTANT Filings   \* the filings of the corpus

ASSUME FilingsAssumption ==
  /\ Filings \subseteq [table : Seq(Rows), pre : Seq(Sentences), post : Seq(Sentences)]
  /\ \A f \in Filings : /\ f.table # <<>>
                        /\ \A i \in DOMAIN f.table : Len(f.table[i].cells) <= MaxColumns

VARIABLES
  filing,  \* the raw filing
  stage,   \* the last command that has handled it
  record,  \* what that command wrote
  vectors  \* the rows of document_chunks

vars == <<filing, stage, record, vectors>>

Init ==
  /\ filing \in Filings
  /\ stage = "raw" /\ record = filing /\ vectors = {}

Parse ==
  /\ stage = "raw"
  /\ stage' = "parsed" /\ record' = ParseRecord(record)
  /\ UNCHANGED <<filing, vectors>>

Normalize ==
  /\ stage = "parsed"
  /\ IF NormalizeRaises(record.table)
     THEN stage' = "raised" /\ UNCHANGED record
     ELSE stage' = "normalized" /\ record' = NormalizeRecord(record)
  /\ UNCHANGED <<filing, vectors>>

LoadVectors ==
  /\ stage = "normalized"
  /\ stage' = "embedded" /\ vectors' = VectorRows(record)
  /\ UNCHANGED <<filing, record>>

BuildPayload ==
  /\ stage \in {"normalized", "embedded"}
  /\ stage' = "built" /\ record' = GraphPayload(record)
  /\ UNCHANGED <<filing, vectors>>

Next == Parse \/ Normalize \/ LoadVectors \/ BuildPayload

Spec == Init /\ [][Next]_vars

-----------------------------------------------------------------------------
(* Properties.                                                             *)

Built == stage = "built"

\* The row of the raw table a row or a figure of the payload was read from.
RawRow(v) == v.row + HeaderRows(filing.table)

\* The figures of the raw table below its first row, in whatever form.
RawFigures ==
  UNION {{<<i, c>> : c \in Figures(filing.table[i], FigureKinds)} :
           i \in 2..Len(filing.table)}

Filed(f) == \E v \in record.values : RawRow(v) = f[1] /\ v.col = f[2]

\* The figure is in a row that names a period and was taken for a header.
InPeriodHeader(f) == f[1] = 2 /\ NamesPeriod(filing.table[2])

\* Negatives with their amount in brackets, as FinQA writes all of them.
Negatives == {"negative", "decimal"}

\* Figures that both header tests read.
RichInFigures(row) ==
  LET figures == Cardinality(Figures(row, ParserNumeric \cap NormalizerNumeric))
  IN  figures >= 2 /\ figures > Len(row.cells) \div 3

\* A row that is header to both tests: some words and no digits.
PlainHeader(row) ==
  /\ row.label # "" \/ Texts(row) # {}
  /\ row.label \notin YearLabels /\ Texts(row) \subseteq {"words", "period"}

(* Type invariant: what the stores receive has the shape they are read in.  *)
TypeOK ==
  /\ stage \in {"raw", "parsed", "raised", "normalized", "embedded", "built"}
  /\ vectors \subseteq [section : {"pre_text", "post_text"}, index : Nat, first : Nat, last : Nat]
  /\ Built => /\ record.values \subseteq
                   [row : {r.row : r \in record.rows}, col : 1..MaxColumns,
                    header : Seq(Cells), year : 0..2]
              /\ record.links \subseteq record.metrics \X {r.row : r \in record.rows}

(* What becomes of the figures: every figure below the first row of the    *)
(* raw table becomes a Value at its place, whatever the table's shape,      *)
(* except a negative, whose form FIN_NUMERIC_RE does not know, and except   *)
(* where the second row was taken for a header because it names a period;   *)
(* and nothing but a figure below the first row becomes a Value.            *)
FiguresSurvive ==
  Built =>
    /\ \A f \in RawFigures :
         Filed(f) \/ InPeriodHeader(f) \/ filing.table[f[1]].cells[f[2]] \in Negatives
    /\ \A v \in record.values : <<RawRow(v), v.col>> \in RawFigures

(* Negatives too (normalizer.py:1-5 promises "accounting negatives"; the    *)
(* form of FinQA's own tables, "-0.3 ( 0.3 )", is not matched).             *)
NegativesSurvive ==
  Built => \A f \in RawFigures : Filed(f) \/ InPeriodHeader(f)

(* What can be found of the text: every sentence with ten letters or digits *)
(* lies in a window that is embedded, whatever surrounds it, and a window   *)
(* never mixes the text before and after the table.                         *)
SentencesCovered ==
  LET pre == NonBlank(filing.pre)
      all == pre \o NonBlank(filing.post)
  IN  stage = "embedded" =>
        /\ \A i \in DOMAIN all : AlnumOf[all[i]] >= MinAlnum =>
             \E w \in vectors : w.first <= i /\ i <= w.last
        /\ \A w \in vectors : /\ w.section = "pre_text" => w.last <= Len(pre)
                              /\ w.section = "post_text" => w.first > Len(pre)
                              /\ w.last <= Len(all)

(* Parser and normaliser, who judge the header each by a test of its own,   *)
(* place every row of the table rightly between them when its second row is *)
(* data to both (figures both can read, two at least and in more than a     *)
(* third of its columns, and no period named), or when the first two rows   *)
(* are words and such a row of figures comes third.  Nothing is asked of    *)
(* the other rows.                                                          *)
PlacesKept ==
  LET t == filing.table
  IN  (/\ Built
       /\ \/ Len(t) >= 2 /\ RichInFigures(t[2]) /\ ~NamesPeriod(t[2])
          \/ /\ Len(t) >= 3 /\ RichInFigures(t[3])
             /\ PlainHeader(t[1]) /\ PlainHeader(t[2]))
      => \A r \in record.rows : r.source = RawRow(r)

(* source_row_index is the row's place in the original table.               *)
SourceIndexIsOriginal ==
  Built => \A r \in record.rows : r.source = RawRow(r)
=============================================================================
