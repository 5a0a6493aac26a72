---------------------------- MODULE MCProgramMode ----------------------------
(* The corpus of MCFilingPipeline with questions about some of its filings: *)
(* tables with labels inside one another, repeated labels, labels with an   *)
(* apostrophe, repeated headers and headers that are lost.                  *)
EXTENDS ProgramMode, MCFilingPipeline

Years == Row("", <<"y1", "y2">>)

MCAnchored ==
  {[table |-> t, pre |-> <<"prose">>, post |-> <<>>] : t \in {
     <<Row("", <<"y1">>)>>,
     <<Row("", <<"y1">>), Row("cost", <<"number">>), Row("net sales", <<"percent">>)>>,
     <<Row("", <<"y1">>), Row("cost", <<"words">>), Row("", <<"inside">>)>>,
     <<Years, Row("total cost", <<"number", "number">>), Row("cost", <<"number", "number">>)>>,
     <<Years, Row("total cost", <<"number", "blank">>), Row("total cost", <<"number", "number">>)>>,
     <<Years, Row("cost", <<"words", "number">>), Row("total cost", <<"number", "blank">>)>>,
     <<Row("", <<"words", "y1">>), Row("cost", <<"words", "period">>), Row("total cost", <<"number", "number">>)>>,
     <<Row("", <<"y1", "y2", "words">>), Row("cost", <<"number", "number", "words">>),
       Row("cost", <<"words", "number", "number">>), Row("cost", <<"number">>)>>,
     <<Row("", <<"y1">>), Row("pretax", <<"number">>), Row("owners' equity", <<"number">>)>>,
     <<Row("", <<"words", "words">>), Row("cost", <<"number", "number">>), Row("total cost", <<"number", "number">>)>>}}

\* The corpus, with a table two of whose columns have one header.
MCCorpus == MCFilings \cup MCAnchored

CellRef(label, header) == [label |-> label, header |-> header]
Literal(l) == [literal |-> l]

MCPrograms ==
  {[ops |-> {}, args |-> <<CellRef("cost", <<"y1">>)>>],
   [ops |-> {"divide"}, args |-> <<CellRef("total cost", <<"words">>), CellRef("cost", <<"y2">>)>>],
   [ops |-> {"divide", "subtract"},
    args |-> <<CellRef("cost", <<"y2">>), CellRef("cost", <<"y1">>), CellRef("cost", <<"y1">>)>>],
   [ops |-> {"multiply"}, args |-> <<CellRef("cost", <<"y1">>), Literal("invented")>>],
   [ops |-> {"multiply"}, args |-> <<Literal("invented"), CellRef("cost", <<"y1">>)>>],
   [ops |-> {}, args |-> <<CellRef("tax", <<"y2">>)>>],
   [ops |-> {}, args |-> <<CellRef("owners' equity", <<"y1">>)>>],
   [ops |-> {"divide"}, args |-> <<Literal("price"), Literal("0")>>],
   [ops |-> {"divide"}, args |-> <<Literal("price"), Literal("exemplar")>>]}

MCPartOf == MCWordsOf \cup {<<"tax", "pretax">>}
MCShareTerm == MCWordsOf \cup {<<l[2], l[1]>> : l \in MCWordsOf}

\* A product does not depend on the order of its factors.
MCValueOf(p) ==
  IF p.ops = {"multiply"}
  THEN [p EXCEPT !.figures = CHOOSE s \in {p.figures, Reverse(p.figures)} : TRUE]
  ELSE p

MCQuestions == {{}, {"change"}, {"avg"}}
=============================================================================
