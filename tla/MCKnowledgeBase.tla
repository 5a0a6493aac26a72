-------------------------- MODULE MCKnowledgeBase --------------------------
(* Two records of one company, and two versions of the ingestion code that *)
(* disagree on the first record's filer, rows and years.                   *)
EXTENDS KnowledgeBase

Value(row, col, year) == [row |-> row, col |-> col, year |-> year]

MCDerived ==
  LET new == [company |-> "amzn", rows |-> {[row |-> 1, label |-> "cost"]},
              values |-> {Value(1, 1, 1), Value(1, 2, 2)}, metrics |-> {"cost", "net"},
              links |-> {<<"cost", 1>>, <<"net", 1>>}, chunks |-> {},
              embedded |-> {<<"pre_text", 1>>}]
      old == [company |-> "acme", rows |-> {[row |-> 1, label |-> "sales"],
                                            [row |-> 2, label |-> "cost"]},
              values |-> {Value(1, 1, 2), Value(2, 1, 1)}, metrics |-> {"cost"},
              links |-> {<<"cost", 2>>}, chunks |-> {1}, embedded |-> {<<"post_text", 1>>}]
      small == [company |-> "amzn", rows |-> {}, values |-> {}, metrics |-> {},
                links |-> {}, chunks |-> {}, embedded |-> {<<"pre_text", 1>>}]
  IN  [new |-> [a |-> new, b |-> small], old |-> [a |-> old, b |-> small]]

MCSelections == {<<"a", "b">>, <<"a">>}
=============================================================================
