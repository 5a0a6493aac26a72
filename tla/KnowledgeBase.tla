---------------------------- MODULE KnowledgeBase ----------------------------
(***************************************************************************)
(* The two stores the agent retrieves from, and the commands that fill     *)
(* them: ingestion/graph_loader.py merges payloads into Neo4j batch by     *)
(* batch, after wiping it if asked to, and knowledge/vector_store/loader.py*)
(* upserts chunks into pgvector.  A command may fail or be killed between  *)
(* any two transactions and be run again, by the same version of the       *)
(* ingestion code or by another one that derives different rows from the   *)
(* same records.  The queries of agent/tools/graph_tool.py read the graph  *)
(* at any time.                                                            *)
(***************************************************************************)
EXTENDS Naturals, Sequences, FiniteSets

CONSTANTS Records,
          Versions,   \* versions of parser and loader code
          Derived,    \* what a version derives from a record: build_graph_payload
          Selections, \* the sequences of records a command may be run on
          BatchSize,  \* payloads per transaction
          WipeSize,   \* nodes deleted per transaction
          MaxRuns,    \* bound: commands that are started
          MaxWipes    \* bound: those of them that wipe first

ASSUME KnowledgeBaseAssumption ==
  /\ Selections \subseteq Seq(Records)
  /\ DOMAIN Derived = Versions
  /\ \A v \in Versions : DOMAIN Derived[v] = Records
  \* build_graph_payload links figures and metrics to rows it has made
  \* (FilingPipeline!TypeOK).
  /\ \A v \in Versions, r \in Records :
       LET p == Derived[v][r]
       IN  /\ {w.row : w \in p.values} \subseteq {w.row : w \in p.rows}
           /\ p.links \subseteq p.metrics \X {w.row : w \in p.rows}
  /\ "none" \notin Versions
  /\ BatchSize \in Nat \ {0} /\ WipeSize \in Nat \ {0}
  /\ MaxRuns \in Nat /\ MaxWipes \in Nat

VARIABLES
  graph,    \* Neo4j: nodes, relationships and the attribute that queries use
  chunks,   \* document_chunks: the version that wrote each <<record, place>>, where
            \* a chunk's place is its section and index
  pc,       \* the running command's next transaction
  version,  \* the code version it runs
  todo,     \* records it has not loaded yet
  whole,    \* it was started on all records
  runs, wipes

\* History variables, read by the properties only.
VARIABLES
  written,  \* per store, versions that have written a record since the store was empty
  torn,     \* a wipe has been cut short, and none completed since
  finished  \* per store, the version of the last load, if that was complete

command == <<pc, version, todo, whole>>
vars == <<graph, chunks, command, runs, wipes, written, torn, finished>>

-----------------------------------------------------------------------------
(* What a payload is in the graph (_merge_batch_tx).                       *)

Children(kind, r, ids) == {<<kind, r, i>> : i \in ids}

ValueNode(r, v) == <<"value", r, v.row, v.col>>

Nodes(r, p) ==
  {<<"company", p.company>>, <<"report", r>>, <<"table", r>>}
    \cup Children("row", r, {w.row : w \in p.rows})
    \cup {ValueNode(r, v) : v \in p.values}
    \cup Children("chunk", r, p.chunks)
    \cup {<<"metric", m>> : m \in p.metrics}

Relations(r, p) ==
  {<<"FILED", <<"company", p.company>>, <<"report", r>>>>,
   <<"CONTAINS_TABLE", <<"report", r>>, <<"table", r>>>>}
    \cup {<<"HAS_CONTEXT", <<"report", r>>, c>> : c \in Children("chunk", r, p.chunks)}
    \cup {<<"HAS_ROW", <<"table", r>>, <<"row", r, w.row>>>> : w \in p.rows}
    \cup {<<"HAS_VALUE", <<"row", r, v.row>>, ValueNode(r, v)>> : v \in p.values}
    \cup {<<"IN_REPORT", ValueNode(r, v), <<"report", r>>>> : v \in p.values}
    \cup {<<"MEASURED_BY", <<"metric", l[1]>>, <<"row", r, l[2]>>>> : l \in p.links}

\* SET: a row's label, a value's year (0 for null).
Attribute(p, n) ==
  IF n[1] = "row" THEN (CHOOSE w \in p.rows : w.row = n[3]).label
  ELSE (CHOOSE v \in p.values : v.row = n[3] /\ v.col = n[4]).year

\* Mutant of Merge: relationships are made for nodes that are created only.
MergeOnCreate(g, batch, v) ==
  LET P(r) == Derived[v][r]
      new == UNION {Nodes(r, P(r)) : r \in batch}
  IN  [nodes |-> g.nodes \cup new,
       rels  |-> g.rels \cup {l \in UNION {Relations(r, P(r)) : r \in batch} :
                                l[3] \notin g.nodes},
       attr  |-> [n \in {m \in g.nodes \cup new : m[1] \in {"row", "value"}} |->
                    IF n \in new THEN Attribute(P(n[2]), n) ELSE g.attr[n]]]

\* One transaction: MERGE keeps what is there, SET overwrites attributes.
Merge(g, batch, v) ==
  LET P(r) == Derived[v][r]
      new == UNION {Nodes(r, P(r)) : r \in batch}
  IN  [nodes |-> g.nodes \cup new,
       rels  |-> g.rels \cup UNION {Relations(r, P(r)) : r \in batch},
       attr  |-> [n \in {m \in g.nodes \cup new : m[1] \in {"row", "value"}} |->
                    IF n \in new THEN Attribute(P(n[2]), n) ELSE g.attr[n]]]

\* Mutant of Delete: the relationships stay.
DeleteNodesOnly(g, some) ==
  [g EXCEPT !.nodes = @ \ some, !.attr = [n \in (DOMAIN @) \ some |-> @[n]]]

\* DETACH DELETE
Delete(g, some) ==
  [nodes |-> g.nodes \ some,
   rels  |-> {r \in g.rels : r[2] \notin some /\ r[3] \notin some},
   attr  |-> [n \in (DOMAIN g.attr) \ some |-> g.attr[n]]]

Empty == [nodes |-> {}, rels |-> {}, attr |-> <<>>]

\* _link_next_year_tx: figures of one row, one year apart.
LinkNextYear(g) ==
  LET figures(n) == {r[3] : r \in {s \in g.rels : s[1] = "HAS_VALUE" /\ s[2] = n}}
      links == UNION {{<<"NEXT_YEAR", e[1], e[2]>> : e \in
                 {f \in figures(n) \X figures(n) :
                    g.attr[f[1]] # 0 /\ g.attr[f[2]] = g.attr[f[1]] + 1}} :
                 n \in {m \in g.nodes : m[1] = "row"}}
  IN  [g EXCEPT !.rels = @ \cup links]

\* validate_integrity: values, rows and tables without their parent.
Orphans(g) ==
  {n \in g.nodes : /\ n[1] \in {"value", "row", "table"}
                   /\ ~\E r \in g.rels :
                        r[3] = n /\ r[1] \in {"HAS_VALUE", "HAS_ROW", "CONTAINS_TABLE"}}

-----------------------------------------------------------------------------
(* graph_loader.main                                                       *)

AllRecords(sel) == \A r \in Records : \E i \in DOMAIN sel : sel[i] = r

\* The payloads are collected before the database is touched.
StartGraphLoad(sel, v, wipe) ==
  /\ pc = "idle" /\ runs < MaxRuns
  /\ IF wipe
     THEN wipes < MaxWipes /\ wipes' = wipes + 1 /\ pc' = "wiping"
     ELSE pc' = "loading" /\ UNCHANGED wipes
  /\ version' = v /\ todo' = sel /\ whole' = AllRecords(sel) /\ runs' = runs + 1
  /\ finished' = [finished EXCEPT !.graph = "none"]
  /\ UNCHANGED <<graph, chunks, written, torn>>

\* Mutants of WipeDone: a full batch is the last one; the test is inverted.
WipeDoneEarly(deleted) == deleted <= WipeSize
WipeDoneInverted(deleted) == deleted > WipeSize

\* wipe_all's loop ends with the first batch that is not full.
WipeDone(deleted) == deleted < WipeSize

\* One batch of the wipe takes any WipeSize nodes, or all that are left.
Wipe ==
  /\ pc = "wiping"
  /\ \E some \in SUBSET graph.nodes :
       /\ \/ Cardinality(some) = WipeSize
          \/ Cardinality(graph.nodes) < WipeSize /\ some = graph.nodes
       /\ graph' = Delete(graph, some)
       /\ IF WipeDone(Cardinality(some))
          THEN /\ pc' = "loading" /\ torn' = FALSE
               /\ written' = [written EXCEPT !.graph = [r \in Records |-> {}]]
          ELSE UNCHANGED <<pc, written, torn>>
  /\ UNCHANGED <<chunks, version, todo, whole, runs, wipes, finished>>

Take(n) == IF n > Len(todo) THEN Len(todo) ELSE n

\* load_batch
LoadBatch ==
  /\ pc = "loading"
  /\ LET batch == {todo[i] : i \in 1..Take(BatchSize)}
     IN  /\ graph' = Merge(graph, batch, version)
         /\ written' = [written EXCEPT !.graph = [r \in Records |->
              IF r \in batch THEN @[r] \cup {version} ELSE @[r]]]
  /\ todo' = SubSeq(todo, Take(BatchSize) + 1, Len(todo))
  /\ pc' = IF todo' = <<>> THEN "linking" ELSE "loading"
  /\ UNCHANGED <<chunks, version, whole, runs, wipes, torn, finished>>

Link ==
  /\ pc = "linking"
  /\ graph' = LinkNextYear(graph)
  /\ pc' = "validating"
  /\ UNCHANGED <<chunks, version, todo, whole, runs, wipes, written, torn, finished>>

\* The counts are printed; orphans do not make the command fail.
Validate ==
  /\ pc = "validating"
  /\ pc' = "idle"
  /\ finished' = [finished EXCEPT !.graph = IF whole THEN version ELSE "none"]
  /\ UNCHANGED <<graph, chunks, version, todo, whole, runs, wipes, written, torn>>

-----------------------------------------------------------------------------
(* vector_store.loader.main: there is no wipe, and nothing is inserted when *)
(* there are no records.                                                   *)

StartVectorLoad(sel, v) ==
  /\ pc = "idle" /\ runs < MaxRuns /\ sel # <<>>
  /\ pc' = "embedding"
  /\ version' = v /\ todo' = sel /\ whole' = AllRecords(sel) /\ runs' = runs + 1
  /\ finished' = [finished EXCEPT !.vectors = "none"]
  /\ UNCHANGED <<graph, chunks, wipes, written, torn>>

\* Mutant of Upsert: ON CONFLICT DO NOTHING.
UpsertKeepsFirst(table, rows, v) ==
  [k \in DOMAIN table \cup rows |-> IF k \in DOMAIN table THEN table[k] ELSE v]

Upsert(table, rows, v) ==
  [k \in DOMAIN table \cup rows |-> IF k \in rows THEN v ELSE table[k]]

\* insert_batch: upsert on (record_id, section, chunk_index).
InsertBatch ==
  /\ pc = "embedding"
  /\ LET r == Head(todo)
         rows == {<<r, place>> : place \in Derived[version][r].embedded}
     IN  /\ chunks' = Upsert(chunks, rows, version)
         /\ written' = [written EXCEPT !.vectors[r] = @ \cup {version}]
  /\ todo' = Tail(todo)
  /\ IF todo' = <<>>
     THEN /\ pc' = "idle"
          /\ finished' = [finished EXCEPT !.vectors = IF whole THEN version ELSE "none"]
     ELSE UNCHANGED <<pc, finished>>
  /\ UNCHANGED <<graph, version, whole, runs, wipes, torn>>

\* A transaction fails, or the command is killed: what is committed stays.
Abort ==
  /\ pc # "idle"
  /\ pc' = "idle"
  /\ torn' = (torn \/ pc = "wiping")
  /\ UNCHANGED <<graph, chunks, version, todo, whole, runs, wipes, written, finished>>

Init ==
  /\ graph = Empty /\ chunks = <<>>
  /\ pc = "idle" /\ version \in Versions /\ todo = <<>> /\ whole = FALSE /\ runs = 0 /\ wipes = 0
  /\ written = [s \in {"graph", "vectors"} |-> [r \in Records |-> {}]]
  /\ torn = FALSE
  /\ finished = [s \in {"graph", "vectors"} |-> "none"]

Transaction == Wipe \/ LoadBatch \/ Link \/ Validate \/ InsertBatch

Next ==
  \/ \E sel \in Selections, v \in Versions :
       \/ \E wipe \in BOOLEAN : StartGraphLoad(sel, v, wipe)
       \/ StartVectorLoad(sel, v)
  \/ Transaction
  \/ Abort

\* A command that is not killed goes on to its next transaction.
Spec == Init /\ [][Next]_vars /\ WF_vars(Transaction)

-----------------------------------------------------------------------------
(* graph_tool.GraphRetrievalTool.query_metrics, anchored to a record: the  *)
(* figures of one report, by the strictest filter that finds any.          *)

Reached(g, r) ==
  LET t == <<"table", r>>
  IN  {l[3] : l \in {m \in g.rels : /\ m[1] = "HAS_VALUE"
                                   /\ <<"HAS_ROW", t, m[2]>> \in g.rels
                                   /\ <<"CONTAINS_TABLE", <<"report", r>>, t>> \in g.rels}}

Filers(g, r) ==
  {l[2][2] : l \in {m \in g.rels : m[1] = "FILED" /\ m[3] = <<"report", r>>}}

\* A value without a year matches every year.
YearMatches(g, n, year) == g.attr[n] \in {0, year}

MetricMatches(g, n, metric) == g.attr[<<"row", n[2], n[3]>>] = metric

\* Mutant of Rungs: the year is relaxed before the metric.
RungsYearFirst(g, some, metric, year) ==
  LET byYear == {n \in some : YearMatches(g, n, year)}
      byMetric == {n \in some : MetricMatches(g, n, metric)}
  IN  <<byYear \cap byMetric, byMetric, byYear, some>>

\* The ladder of filters: metric and year, year, metric, none.
Rungs(g, some, metric, year) ==
  LET byYear == {n \in some : YearMatches(g, n, year)}
      byMetric == {n \in some : MetricMatches(g, n, metric)}
  IN  <<byYear \cap byMetric, byYear, byMetric, some>>

LinkedMetrics(g, n) ==
  {m[2] : m \in {k \in g.nodes : /\ k[1] = "metric"
                                 /\ <<"MEASURED_BY", k, <<"row", n[2], n[3]>>>> \in g.rels}}

\* What the answer says of a figure's relevance: one score for the metric asked
\* for, and one, by the words of label and header, for any other or none.
Relevance(g, n, metric) ==
  LET linked == LinkedMetrics(g, n)
  IN  (IF metric \in linked THEN {"exact"} ELSE {})
        \cup (IF linked \subseteq {metric} /\ linked # {} THEN {} ELSE {"words"})

\* RETURN DISTINCT: a figure comes once for every company that filed the report
\* and every relevance it has by the metrics its row is linked to.  (Figures are
\* taken to differ in amount.)
RecordsOf(g, r, n, metric) ==
  {<<c, n, relevance>> : c \in Filers(g, r), relevance \in Relevance(g, n, metric)}

Query(g, r, metric, year) ==
  LET rungs == Rungs(g, Reached(g, r), metric, year)
      found == {i \in DOMAIN rungs : rungs[i] # {}}
  IN  IF found = {} THEN {}
      ELSE UNION {RecordsOf(g, r, n, metric) :
                    n \in rungs[CHOOSE i \in found : \A j \in found : i <= j]}

-----------------------------------------------------------------------------
(* Properties.                                                             *)

TypeOK ==
  /\ DOMAIN graph = {"nodes", "rels", "attr"}
  /\ \A r \in graph.rels : r[2] \in graph.nodes /\ r[3] \in graph.nodes
  /\ DOMAIN graph.attr = {n \in graph.nodes : n[1] \in {"row", "value"}}
  /\ \A k \in DOMAIN chunks : k[1] \in Records /\ chunks[k] \in Versions
  /\ pc \in {"idle", "wiping", "loading", "linking", "validating", "embedding"}
  /\ version \in Versions /\ runs \in 0..MaxRuns /\ wipes \in 0..MaxWipes
  /\ \A i \in DOMAIN todo : todo[i] \in Records

OnlyBy(store, v) == \A r \in Records : written[store][r] = {v}

Exact(v) == LinkNextYear(Merge(Empty, Records, v))

(* A load that has come to its end leaves exactly what its version derives  *)
(* from the records, no matter how many loads and wipes were cut short      *)
(* before it, as long as no other version's rows were left in the graph.    *)
CompleteLoadIsExact ==
  \A v \in Versions : finished.graph = v /\ OnlyBy("graph", v) => graph = Exact(v)

(* Rows, values and tables lose their parents only to a wipe that was cut   *)
(* short, never to a load that was.                                         *)
OrphansOnlyFromTornWipe ==
  Orphans(graph) # {} => torn \/ pc = "wiping"

(* While the stores are being filled, the agent sees a report whole or not  *)
(* at all: with all rows and figures of every version that has written it.  *)
ReportsAreWhole ==
  ~torn /\ pc # "wiping" =>
    \A r \in Records : <<"report", r>> \in graph.nodes =>
      \A v \in written.graph[r] : /\ Nodes(r, Derived[v][r]) \subseteq graph.nodes
                                  /\ Relations(r, Derived[v][r]) \subseteq graph.rels

(* An anchored query returns figures whenever its report has any, never     *)
(* figures of another year while the report has some of the year asked for; *)
(* and as long as one version wrote the report, it returns a figure twice   *)
(* only if its row is linked to the metric asked for and to another one.    *)
AnchoredAnswers ==
  \A r \in Records, year \in {1, 2} :
    \A metric \in {graph.attr[n] : n \in {m \in graph.nodes : m[1] = "row"}} :
      LET answer == Query(graph, r, metric, year)
          figures == {a[2] : a \in answer}
      IN  Filers(graph, r) # {} =>
            /\ Reached(graph, r) # {} => figures # {}
            /\ (\E n \in Reached(graph, r) : YearMatches(graph, n, year)) =>
                 \A n \in figures : YearMatches(graph, n, year)
            /\ Cardinality(written.graph[r]) <= 1 =>
                 \A a, b \in answer : a[2] = b[2] /\ a # b =>
                   /\ metric \in LinkedMetrics(graph, a[2])
                   /\ LinkedMetrics(graph, a[2]) # {metric}

(* The vector table has no wipe: after a complete load every chunk that the *)
(* version derives is there with that version's text, and what else is      *)
(* there was left by another version.                                       *)
VectorTableConverges ==
  \A v \in Versions : finished.vectors = v =>
    /\ \A r \in Records : \A i \in Derived[v][r].embedded :
         <<r, i>> \in DOMAIN chunks /\ chunks[<<r, i>>] = v
    /\ \A k \in DOMAIN chunks : chunks[k] = v => k[2] \in Derived[v][k[1]].embedded

(* A command comes to its end: the wipe's loop terminates.                  *)
CommandsEnd == pc # "idle" ~> pc = "idle"
=============================================================================
