-------------------------- MODULE MCFilingPipeline --------------------------
(* A corpus for FilingPipeline: every small table of one to three columns   *)
(* under a header, uneven ones too, and every short text around a table.    *)
EXTENDS FilingPipeline

MCLabels == {"cost", "total cost", "tax", "pretax", "net sales", "revenue", "owners' equity",
             "balance as of", "2010"}

\* "net sales" is a synonym of revenue.
MCResolved == [l \in MCLabels |-> IF l = "net sales" THEN "revenue" ELSE l]

MCWordsOf == {<<l, l>> : l \in MCLabels} \cup {<<"cost", "total cost">>}

MCPeriodLabels == {"balance as of"}
MCYearLabels == {"2010"}

Row(label, cells) == [label |-> label, cells |-> cells]

Table1 ==
  LET Body == {Row(l, <<c>>) : l \in {"cost", "net sales", "balance as of", "2010", ""},
                               c \in {"number", "percent", "negative", "words", "inside", "blank"}}
  IN  {<<Row("", <<h>>), a, b>> : h \in {"y1", "words"}, a \in Body, b \in Body}

Table2 ==
  LET Body == {Row(l, <<c, d>>) : l \in {"cost", "total cost", "balance as of"},
                                  c \in {"number", "repeated", "words"},
                                  d \in {"number", "repeated", "decimal", "period", "blank"}}
  IN  {<<Row("", h), a, b>> : h \in {<<"y1", "y2">>, <<"words", "y1">>, <<"dated", "dated">>},
                              a \in Body, b \in Body}

Table3 ==
  LET Body == {Row("cost", <<c, d, e>>) : c, d, e \in {"number", "words"}}
              \cup {Row("cost", <<"number">>)}
  IN  {<<Row("", h), a, b, c>> : h \in {<<"y1", "y2", "words">>, <<"words", "words", "period">>},
                                 a, b, c \in Body}

Texts4 == UNION {[1..n -> Sentences] : n \in 0..4}
Texts2 == UNION {[1..n -> Sentences] : n \in 0..2}

MCFilings ==
  {[table |-> t, pre |-> <<"prose">>, post |-> <<>>] : t \in Table1 \cup Table2 \cup Table3}
    \cup {[table |-> <<Row("", <<"y1">>)>>, pre |-> p, post |-> q] : p \in Texts4, q \in Texts2}
=============================================================================
