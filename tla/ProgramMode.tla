----------------------------- MODULE ProgramMode -----------------------------
(***************************************************************************)
(* How a question about one anchored filing is answered from its table:    *)
(* table_tool.py reads the table back from the graph that FilingPipeline   *)
(* filled, and synthesize_node.py lets the language model write programs   *)
(* over it, executes them, takes a vote, has the vote verified             *)
(* (program_validation.py) and falls back to prose, or to a template.      *)
(*                                                                         *)
(* The model is enabled and retrieval found something: AgentGraph has the  *)
(* other cases of synthesize_node.  A program is its functions and its     *)
(* operands in order, and what it computes is a parameter: two programs    *)
(* may well come to the same value.                                        *)
(***************************************************************************)
EXTENDS FilingPipeline, SequencesExt

CONSTANTS Anchored,   \* the filings a question is anchored to
          Questions,  \* sets of the words the code looks for
          Programs,   \* programs over cell references and literals
          Disclosed,  \* literals in the question or the narrative
          Exemplary,  \* literals in the train-only examples of the prompt
          Standard,   \* 1, 2, 3, 100 and 1000
          Samples,    \* PROGRAM_SELF_CONSISTENCY_SAMPLES
          PartOf,     \* pairs <<m, l>> of labels: the text of m is part of that of l
          ShareTerm,  \* pairs of labels with a term of question_terms in common
          Apostrophes,\* labels with an apostrophe, which end a quoted label
          ValueOf(_)  \* what a resolved program computes, to 6 decimals

ASSUME ProgramAssumption ==
  /\ Anchored \subseteq Filings /\ Samples \in Nat \ {0}
  /\ PartOf \subseteq Labels \X Labels /\ ShareTerm \subseteq Labels \X Labels
  /\ Apostrophes \subseteq Labels

VARIABLES
  phase,     \* "idle", "sampling", "fallback" or "answered"
  table,     \* the table_extract envelope's rows
  question,
  samples,   \* what each sample drawn so far came to
  answer     \* [kind, program, figures]

modeVars == <<phase, table, question, samples, answer>>

NoProgram == [ops |-> {}, figures |-> <<>>]
NoAnswer == [kind |-> "none", program |-> NoProgram, figures |-> {}]

Literals == UNION {{p.args[i].literal : i \in {j \in DOMAIN p.args : "literal" \in DOMAIN p.args[j]}} :
                     p \in Programs}

-----------------------------------------------------------------------------
(* The table.                                                              *)

\* TableExtractionTool.extract: the rows by their place in the filing, each with
\* its figures.  (A blank label was stored as row_N: no reference in a program is
\* to it.)
ExtractTable(payload) ==
  {[place |-> r.source, label |-> r.label,
    cells |-> {v \in payload.values : v.row = r.row}] : r \in payload.rows}

\* _render_table_markdown: what the model sees.  A later figure under a header
\* its row has already used replaces the earlier one.
Rendered(rows) ==
  UNION {{v \in r.cells : /\ v.header # <<>>
                         /\ \A w \in r.cells : w.header = v.header => w.col <= v.col} :
           r \in rows}

\* One text is part of the other (a header has two parts at most).
Overlaps(a, b) == IsPrefix(a, b) \/ IsSuffix(a, b) \/ IsPrefix(b, a) \/ IsSuffix(b, a)
LabelsOverlap(a, b) == <<a, b>> \in PartOf \/ <<b, a>> \in PartOf

TargetRows(rows, label) ==
  LET exact == {r \in rows : r.label = label}
  IN  IF exact # {} THEN exact
      ELSE {r \in rows : r.label # "" /\ LabelsOverlap(label, r.label)}

\* The first of some figures in the order of the rows, and of the columns.
FirstFigure(figures) ==
  CHOOSE v \in figures : \A w \in figures :
    v.row < w.row \/ (v.row = w.row /\ v.col <= w.col)

\* The cell with most of the wanted terms, if there is only one.  The terms of
\* the first row's label count for the cells of every row.
ByTerms(rows, cells, label, header) ==
  LET first == CHOOSE r \in rows : \A s \in rows : r.place <= s.place
      Score(v) == Cardinality(ToSet(v.header) \cap ToSet(header))
                    + (IF <<label, first.label>> \in ShareTerm THEN 1 ELSE 0)
      best == {v \in cells : \A w \in cells : Score(w) <= Score(v)}
  IN  {v \in best : best = {v} /\ Score(v) > 0}

\* Mutant of ResolveCell: the label may be part of another row's.
ResolveCellLoosely(rows, label, header) ==
  LET target == {r \in rows : r.label # "" /\ LabelsOverlap(label, r.label)}
      cells == UNION {r.cells : r \in target}
      under == {v \in cells : v.header = header}
  IN  IF under # {} THEN {FirstFigure(under)} ELSE ByTerms(target, cells, label, header)

\* _resolve_cell: the figure a reference stands for, none or one.
ResolveCell(rows, label, header) ==
  LET cells == UNION {r.cells : r \in TargetRows(rows, label)}
      under == {v \in cells : v.header = header}
      near  == {v \in cells : v.header # <<>> /\ Overlaps(v.header, header)}
  IN  CASE under # {} -> {FirstFigure(under)}
        [] under = {} /\ near # {} -> {FirstFigure(near)}
        [] OTHER -> ByTerms(TargetRows(rows, label), cells, label, header)

-----------------------------------------------------------------------------
(* Programs.                                                               *)

\* An operand's figures: its literal, or the cell it refers to.  _CELL_REF_RE
\* reads a label up to the first quote of either kind.
OperandFigures(rows, arg) ==
  IF "literal" \in DOMAIN arg THEN {[literal |-> arg.literal]}
  ELSE {v \in ResolveCell(rows, arg.label, arg.header) : arg.label \notin Apostrophes}

\* safe_math fails on a division by zero; a division is by the last operand.
Computable(program) ==
  ~ ("divide" \in program.ops /\ Last(program.figures) = [literal |-> "0"])

\* _resolve_cells: one reference that cannot be resolved fails the program.
ResolveProgram(rows, p) ==
  IF \E i \in DOMAIN p.args : OperandFigures(rows, p.args[i]) = {} THEN NoProgram
  ELSE [ops |-> p.ops,
        figures |-> [i \in DOMAIN p.args |-> CHOOSE f \in OperandFigures(rows, p.args[i]) : TRUE]]

\* One sample: the program it resolves to, if that can be computed.
Outcome(rows, p) ==
  LET program == ResolveProgram(rows, p)
  IN  IF program = NoProgram \/ ~Computable(program) THEN NoProgram ELSE program

\* requires_derived_program; "avg" is not among its markers.
RequiresDerivedProgram(q) == q \ {"avg"} # {}

\* program_validation_flags
Flags(q, program) ==
  LET figures == program.figures
      two == Len(figures) >= 2
  IN  {f \in {"same_operand_reused", "zero_subtraction", "unit_ratio", "missing_division",
              "missing_average_division", "missing_difference"} :
         CASE f = "same_operand_reused" -> /\ two /\ Cardinality(ToSet(figures)) = 1
                                           /\ q \cap {"ratio", "change"} # {}
           [] f = "zero_subtraction" -> /\ two /\ figures[1] = figures[2]
                                        /\ "subtract" \in program.ops
           [] f = "unit_ratio" -> two /\ figures[1] = figures[2] /\ "divide" \in program.ops
           [] f = "missing_division" -> q \cap {"ratio", "percent"} # {} /\ "divide" \notin program.ops
           [] f = "missing_average_division" -> q \cap {"average", "avg"} # {} /\ "divide" \notin program.ops
           [] OTHER -> q \cap {"growth", "change"} # {} /\ "subtract" \notin program.ops}

LiteralFigures(literals) == {[literal |-> l] : l \in literals}

\* Every numeral of the prompt.
AllowedValues(rows) == Rendered(rows) \cup LiteralFigures(Disclosed \cup Exemplary)

\* Mutant of Vetted: any literal is taken.
VettedByFlags(rows, q, program) ==
  program # NoProgram /\ Computable(program) /\ Flags(q, program) = {}

\* execute_grounded_expression, and the refusal of what it flags.
Vetted(rows, q, program) ==
  /\ program # NoProgram /\ Computable(program)
  /\ ToSet(program.figures) \subseteq AllowedValues(rows) \cup LiteralFigures(Standard)
  /\ Flags(q, program) = {}

\* The vote is on values.
Votes(candidates, program) ==
  Cardinality({i \in DOMAIN candidates : ValueOf(candidates[i]) = ValueOf(program)})

\* Counter.most_common: most votes, and of those the first drawn.
Winner(candidates) ==
  LET Count(i) == Votes(candidates, candidates[i])
      most == {i \in DOMAIN candidates : \A j \in DOMAIN candidates : Count(j) <= Count(i)}
  IN  candidates[CHOOSE i \in most : \A j \in most : i <= j]

-----------------------------------------------------------------------------
(* The run of a question.                                                  *)

\* table_extract answers, and the synthesizer starts.
Ask(q) ==
  /\ phase = "idle" /\ stage = "built" /\ filing \in Anchored
  /\ phase' = "sampling" /\ table' = ExtractTable(record) /\ question' = q
  /\ UNCHANGED <<samples, answer>>

\* Samples are drawn by up to four threads; pool.map keeps their places.
Sample(i, p) ==
  /\ phase = "sampling" /\ table # {} /\ i \notin DOMAIN samples
  /\ samples' = samples @@ (i :> p)
  /\ UNCHANGED <<phase, table, question, answer>>

Computed == Without([i \in 1..Samples |-> samples[i]], NoProgram)

\* The verifier selects a candidate, or writes a program of its own; neither
\* when it cannot be reached or its answer cannot be read.
Verified(rows, q, candidates, selected, corrected) ==
  LET expression == IF selected \in DOMAIN candidates THEN candidates[selected] ELSE corrected
  IN  IF Vetted(rows, q, expression) THEN expression ELSE NoProgram

AnswerWith(program) ==
  /\ phase' = "answered"
  /\ answer' = [kind |-> "program", program |-> program, figures |-> ToSet(program.figures)]

\* _generate_and_execute_program after the last sample.  The verifier is asked
\* when nothing was computed, when the samples differ, and for some questions.
Vote(selected, corrected) ==
  LET verified == Verified(table, question, Computed, selected, corrected)
      agreed == Computed # <<>> /\ Votes(Computed, Winner(Computed)) = Samples
  IN  /\ phase = "sampling" /\ DOMAIN samples = 1..Samples
      /\ CASE Computed = <<>> /\ verified = NoProgram -> phase' = "fallback" /\ UNCHANGED answer
           [] /\ Computed # <<>>
              /\ verified = NoProgram \/ (agreed /\ ~RequiresDerivedProgram(question))
              -> AnswerWith(Winner(Computed))
           [] OTHER -> AnswerWith(verified)
      /\ UNCHANGED <<table, question, samples>>

\* _has_payload: a table without rows is no table.
NoTable ==
  /\ phase = "sampling" /\ table = {}
  /\ phase' = "fallback"
  /\ UNCHANGED <<table, question, samples, answer>>

\* _synthesize_with_llm, _is_grounded: a draft with a numeral that is in neither
\* the question nor the evidence is dropped for the template, which draws on the
\* evidence alone.
Draft(numerals) ==
  /\ phase = "fallback"
  /\ phase' = "answered"
  /\ answer' = [kind |-> IF numerals \subseteq Disclosed THEN "narrative" ELSE "template",
                program |-> NoProgram,
                figures |-> LiteralFigures(IF numerals \subseteq Disclosed THEN numerals ELSE {})]
  /\ UNCHANGED <<table, question, samples>>

ModeInit ==
  /\ Init
  /\ phase = "idle" /\ table = {} /\ question = {} /\ samples = <<>> /\ answer = NoAnswer

Resolutions == {ResolveProgram(table, p) : p \in Programs} \cup {NoProgram}
Outcomes == {Outcome(table, p) : p \in Programs} \cup {NoProgram}

Answering ==
  \/ \E q \in Questions : Ask(q)
  \/ \E i \in 1..Samples, p \in Outcomes : Sample(i, p)
  \/ \E selected \in 0..Samples, corrected \in Resolutions : Vote(selected, corrected)
  \/ NoTable
  \/ \E numerals \in SUBSET Literals : Draft(numerals)

ModeNext ==
  \/ Next /\ UNCHANGED modeVars
  \/ Answering /\ UNCHANGED vars

ModeSpec == ModeInit /\ [][ModeNext]_<<vars, modeVars>>

-----------------------------------------------------------------------------
(* Properties.                                                             *)

\* The raw table's rows below the header that carry a label, and columns that
\* carry a header, no other row or column has.
OwnLabel(i) ==
  /\ filing.table[i].label # ""
  /\ \A j \in HeaderRows(filing.table) + 1..Len(filing.table) :
       filing.table[j].label = filing.table[i].label => j = i

OwnHeader(c) ==
  LET header == ColumnHeader(filing.table, c)
  IN  header # <<>> /\ \A d \in 1..MaxColumns : ColumnHeader(filing.table, d) = header => d = c

(* From the raw filing to the operand of a program: a reference by a label  *)
(* and a header that name one row and one column stands for the figure at   *)
(* that place in the raw filing, and that figure is what the model saw; one *)
(* with an apostrophe in its label stands for nothing.                      *)
CitedIsFiled ==
  phase = "sampling" =>
    \A i \in HeaderRows(filing.table) + 1..Len(filing.table) :
      \A c \in Figures(filing.table[i], NormalizerNumeric) :
        OwnLabel(i) /\ OwnHeader(c) =>
          LET label == filing.table[i].label
              cited == OperandFigures(table, [label |-> label,
                                              header |-> ColumnHeader(filing.table, c)])
          IN  /\ cited = {} <=> label \in Apostrophes
              /\ cited \subseteq Rendered(table)
              /\ \A v \in cited : RawRow(v) = i /\ v.col = c

(* The vote decides, and only a program whose figures are all in the prompt *)
(* and that raises no flag overrules it: whatever the model samples, and    *)
(* whatever the verifier replies.                                           *)
VoteOverruledOnlyByVetted ==
  answer.kind = "program" =>
    \/ /\ answer.figures \subseteq AllowedValues(table) \cup LiteralFigures(Standard)
       /\ Flags(question, answer.program) = {}
    \/ /\ answer.program \in ToSet(Computed)
       /\ \A p \in ToSet(Computed) : Votes(Computed, p) <= Votes(Computed, answer.program)

(* Every figure in an answer comes from the filing or the question, or is   *)
(* one of the standard constants (README.md, "Validator-corrector").        *)
AnswerIsGrounded ==
  answer.figures \subseteq UNION {r.cells : r \in table}
                            \cup LiteralFigures(Disclosed \cup Standard)

(* A reference is resolved only when nothing else matches it as well        *)
(* (_resolve_cell's docstring: an ambiguous one fails the program).         *)
ReferenceIsUnambiguous ==
  phase = "sampling" =>
    \A p \in Programs : \A i \in DOMAIN p.args :
      "literal" \notin DOMAIN p.args[i] /\ OperandFigures(table, p.args[i]) # {} =>
        Cardinality(TargetRows(table, p.args[i].label)) = 1
=============================================================================
