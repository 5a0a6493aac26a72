------------------------- MODULE KnowledgeBaseProofs -------------------------
(***************************************************************************)
(* Proofs about KnowledgeBase, for every set of records, every set of code *)
(* versions and what they derive, every batch size and any number of       *)
(* commands, aborted or not.                                               *)
(***************************************************************************)
EXTENDS KnowledgeBase, FiniteSetTheorems, SequenceTheorems, TLAPS

Payload(v, r) == Derived[v][r]

\* The graph is a graph: relationships join nodes, rows and values have their
\* attribute.
GraphTyped(g) ==
  /\ g = [nodes |-> g.nodes, rels |-> g.rels, attr |-> g.attr]
  /\ \A l \in g.rels : l[2] \in g.nodes /\ l[3] \in g.nodes
  /\ g.attr = [n \in {m \in g.nodes : m[1] \in {"row", "value"}} |-> g.attr[n]]

HistoryTyped ==
  /\ written \in [{"graph", "vectors"} -> [Records -> SUBSET Versions]]
  /\ \A r \in Records : IsFiniteSet(written.graph[r])
  /\ finished \in [{"graph", "vectors"} -> Versions \cup {"none"}]
  /\ torn \in BOOLEAN /\ whole \in BOOLEAN

TypeInv ==
  /\ TypeOK
  /\ GraphTyped(graph)
  /\ chunks = [k \in DOMAIN chunks |-> chunks[k]]
  /\ todo \in Seq(Records)
  /\ pc = "embedding" => todo # <<>>
  /\ HistoryTyped

\* g holds a report as version v derives it.
Holds(g, v, r) ==
  /\ Nodes(r, Payload(v, r)) \subseteq g.nodes
  /\ Relations(r, Payload(v, r)) \subseteq g.rels

ToDo(r) == \E i \in DOMAIN todo : todo[i] = r

\* A report is in the graph whole as every version that wrote it derives it.
WrittenInv ==
  ~torn /\ pc # "wiping" =>
    \A r \in Records : \A v \in written.graph[r] : Holds(graph, v, r)

\* The companies that filed a report are those of the versions that wrote it.
FilersInv ==
  \A r \in Records : \A l \in graph.rels :
    l[1] = "FILED" /\ l[3] = <<"report", r>> =>
      \E v \in written.graph[r] : l[2] = <<"company", Payload(v, r).company>>

\* What one version leaves in the graph when no other version's rows are in it.
All(v) == Merge(Empty, Records, v)

OneVersionInv ==
  \A v \in Versions : (\A r \in Records : written.graph[r] \subseteq {v}) =>
    /\ graph.nodes \subseteq All(v).nodes
    /\ graph.rels \subseteq Exact(v).rels
    /\ \A n \in DOMAIN graph.attr : graph.attr[n] = All(v).attr[n]

\* A complete load has every record behind it or still to do.
ProgressInv ==
  whole =>
    /\ pc = "wiping" => \A r \in Records : ToDo(r)
    /\ pc \in {"loading", "linking", "validating"} =>
         \A r \in Records : ToDo(r) \/ Holds(graph, version, r)
    /\ pc = "embedding" =>
         \A r \in Records : ToDo(r) \/ \A i \in Payload(version, r).embedded :
           <<r, i>> \in DOMAIN chunks /\ chunks[<<r, i>>] = version

Linked == LinkNextYear(graph).rels = graph.rels

\* The last load, if it was complete, left every report as it derives it.
FinishedInv ==
  /\ pc \in {"wiping", "loading", "linking", "validating"} => finished.graph = "none"
  /\ pc \in {"linking", "validating"} => todo = <<>>
  /\ pc = "validating" => Linked
  /\ \A v \in Versions : finished.graph = v =>
       Linked /\ \A r \in Records : Holds(graph, v, r)

\* Every chunk is one that the version it was written by derives.
ChunksInv ==
  /\ \A k \in DOMAIN chunks : k[2] \in Payload(chunks[k], k[1]).embedded
  /\ pc = "embedding" => finished.vectors = "none"

VectorsInv == ChunksInv /\ VectorTableConverges

IInv ==
  /\ TypeInv /\ OrphansOnlyFromTornWipe /\ WrittenInv /\ FilersInv /\ OneVersionInv
  /\ ProgressInv /\ FinishedInv /\ VectorsInv

-----------------------------------------------------------------------------
(* What a payload is in the graph.                                         *)

\* Every kind of relationship a payload has, and what it joins.
LEMMA RelationCases ==
  ASSUME NEW r, NEW p, NEW l \in Relations(r, p)
  PROVE  \/ l = <<"FILED", <<"company", p.company>>, <<"report", r>>>>
         \/ l = <<"CONTAINS_TABLE", <<"report", r>>, <<"table", r>>>>
         \/ \E i \in p.chunks : l = <<"HAS_CONTEXT", <<"report", r>>, <<"chunk", r, i>>>>
         \/ \E w \in p.rows : l = <<"HAS_ROW", <<"table", r>>, <<"row", r, w.row>>>>
         \/ \E w \in p.values :
              l = <<"HAS_VALUE", <<"row", r, w.row>>, <<"value", r, w.row, w.col>>>>
         \/ \E w \in p.values :
              l = <<"IN_REPORT", <<"value", r, w.row, w.col>>, <<"report", r>>>>
         \/ \E k \in p.links : l = <<"MEASURED_BY", <<"metric", k[1]>>, <<"row", r, k[2]>>>>
  BY DEF Relations, Children, ValueNode

\* A payload's relationships join its own nodes.
LEMMA PayloadClosed ==
  ASSUME NEW v \in Versions, NEW r \in Records,
         NEW l \in Relations(r, Payload(v, r))
  PROVE  l[2] \in Nodes(r, Payload(v, r)) /\ l[3] \in Nodes(r, Payload(v, r))
<1> DEFINE p == Payload(v, r)
<1>1. /\ \A w \in p.values : \E x \in p.rows : x.row = w.row
      /\ \A k \in p.links : k[1] \in p.metrics /\ \E x \in p.rows : x.row = k[2]
  BY KnowledgeBaseAssumption DEF Payload
<1>2. /\ <<"company", p.company>> \in Nodes(r, p)
      /\ <<"report", r>> \in Nodes(r, p)
      /\ <<"table", r>> \in Nodes(r, p)
      /\ \A i \in p.chunks : <<"chunk", r, i>> \in Nodes(r, p)
      /\ \A w \in p.rows : <<"row", r, w.row>> \in Nodes(r, p)
      /\ \A w \in p.values : <<"value", r, w.row, w.col>> \in Nodes(r, p)
      /\ \A m \in p.metrics : <<"metric", m>> \in Nodes(r, p)
  BY DEF Nodes, Children, ValueNode
<1> HIDE DEF p
<1> QED BY <1>1, <1>2, RelationCases DEF p

\* Its rows, values and tables have a parent of their own.
LEMMA PayloadParents ==
  ASSUME NEW r, NEW p, NEW n \in Nodes(r, p), n[1] \in {"value", "row", "table"}
  PROVE  \E l \in Relations(r, p) :
           l[3] = n /\ l[1] \in {"HAS_VALUE", "HAS_ROW", "CONTAINS_TABLE"}
<1>1. \/ n = <<"table", r>>
      \/ \E w \in p.rows : n = <<"row", r, w.row>>
      \/ \E w \in p.values : n = ValueNode(r, w)
  BY DEF Nodes, Children
<1>2. CASE n = <<"table", r>>
  <2>1. <<"CONTAINS_TABLE", <<"report", r>>, n>> \in Relations(r, p)
    BY <1>2 DEF Relations
  <2> QED BY <2>1
<1>3. ASSUME NEW w \in p.rows, n = <<"row", r, w.row>>
      PROVE  \E l \in Relations(r, p) : l[3] = n /\ l[1] = "HAS_ROW"
  <2>1. <<"HAS_ROW", <<"table", r>>, n>> \in Relations(r, p)
    BY <1>3 DEF Relations
  <2> QED BY <2>1
<1>4. ASSUME NEW w \in p.values, n = ValueNode(r, w)
      PROVE  \E l \in Relations(r, p) : l[3] = n /\ l[1] = "HAS_VALUE"
  <2>1. <<"HAS_VALUE", <<"row", r, w.row>>, n>> \in Relations(r, p)
    BY <1>4 DEF Relations
  <2> QED BY <2>1
<1> QED BY <1>1, <1>2, <1>3, <1>4

\* Its rows and values carry the record they belong to.
LEMMA PayloadOwner ==
  ASSUME NEW r, NEW p, NEW n \in Nodes(r, p), n[1] \in {"row", "value"}
  PROVE  n[2] = r
  BY DEF Nodes, Children, ValueNode

-----------------------------------------------------------------------------
(* What the transactions do to the graph.                                  *)

LEMMA EmptyTyped == GraphTyped(Empty)
  BY DEF GraphTyped, Empty

\* n is a node of one of the batch's payloads.
New(n, batch, v) == \E r \in batch : n \in Nodes(r, Payload(v, r))

LEMMA MergeResult ==
  ASSUME NEW g, NEW batch \in SUBSET Records, NEW v \in Versions
  PROVE  LET h == Merge(g, batch, v)
         IN  /\ \A n : n \in h.nodes <=> n \in g.nodes \/ New(n, batch, v)
             /\ \A l : l \in h.rels <=>
                  l \in g.rels \/ \E r \in batch : l \in Relations(r, Payload(v, r))
             /\ h.attr = [n \in {m \in h.nodes : m[1] \in {"row", "value"}} |-> h.attr[n]]
             /\ \A n \in h.nodes : n[1] \in {"row", "value"} =>
                  h.attr[n] = IF New(n, batch, v) THEN Attribute(Payload(v, n[2]), n)
                              ELSE g.attr[n]
             /\ h = [nodes |-> h.nodes, rels |-> h.rels, attr |-> h.attr]
<1> DEFINE h == Merge(g, batch, v)
           new == UNION {Nodes(r, Payload(v, r)) : r \in batch}
<1>1. /\ h.nodes = g.nodes \cup new
      /\ h.rels = g.rels \cup UNION {Relations(r, Payload(v, r)) : r \in batch}
      /\ h.attr = [n \in {m \in h.nodes : m[1] \in {"row", "value"}} |->
                     IF n \in new THEN Attribute(Payload(v, n[2]), n) ELSE g.attr[n]]
      /\ h = [nodes |-> h.nodes, rels |-> h.rels, attr |-> h.attr]
  BY DEF Merge, Payload
<1>2. \A n : n \in new <=> New(n, batch, v)
  BY DEF New
<1> HIDE DEF h, new
<1>3. \A l : l \in h.rels <=>
        l \in g.rels \/ \E r \in batch : l \in Relations(r, Payload(v, r))
  BY <1>1
<1>4. h.attr = [n \in {m \in h.nodes : m[1] \in {"row", "value"}} |-> h.attr[n]]
  BY <1>1
<1> QED BY <1>1, <1>2, <1>3, <1>4 DEF h

LEMMA MergeTyped ==
  ASSUME NEW g, GraphTyped(g), NEW batch \in SUBSET Records, NEW v \in Versions
  PROVE  GraphTyped(Merge(g, batch, v))
<1> DEFINE h == Merge(g, batch, v)
<1>1. /\ \A n : n \in h.nodes <=> n \in g.nodes \/ New(n, batch, v)
      /\ \A l : l \in h.rels <=>
           l \in g.rels \/ \E r \in batch : l \in Relations(r, Payload(v, r))
      /\ h.attr = [n \in {m \in h.nodes : m[1] \in {"row", "value"}} |-> h.attr[n]]
      /\ \A n \in h.nodes : n[1] \in {"row", "value"} =>
           h.attr[n] = IF New(n, batch, v) THEN Attribute(Payload(v, n[2]), n)
                       ELSE g.attr[n]
      /\ h = [nodes |-> h.nodes, rels |-> h.rels, attr |-> h.attr]
  BY MergeResult, Zenon
<1> HIDE DEF h
<1>2. ASSUME NEW l \in h.rels PROVE l[2] \in h.nodes /\ l[3] \in h.nodes
  <2>1. CASE l \in g.rels
    BY <1>1, <2>1 DEF GraphTyped
  <2>2. ASSUME NEW r \in batch, l \in Relations(r, Payload(v, r))
        PROVE  l[2] \in h.nodes /\ l[3] \in h.nodes
    BY <1>1, <2>2, PayloadClosed DEF New
  <2> QED BY <1>1, <2>1, <2>2
<1> QED BY <1>1, <1>2 DEF GraphTyped, h

LEMMA DeleteTyped ==
  ASSUME NEW g, GraphTyped(g), NEW some
  PROVE  /\ GraphTyped(Delete(g, some))
         /\ Delete(g, some).nodes = g.nodes \ some
         /\ Delete(g, some).rels \subseteq g.rels
         /\ \A n \in DOMAIN Delete(g, some).attr :
              n \in DOMAIN g.attr /\ Delete(g, some).attr[n] = g.attr[n]
<1> DEFINE h == Delete(g, some)
<1>1. /\ h.nodes = g.nodes \ some
      /\ h.rels = {r \in g.rels : r[2] \notin some /\ r[3] \notin some}
      /\ h.attr = [n \in (DOMAIN g.attr) \ some |-> g.attr[n]]
      /\ h = [nodes |-> h.nodes, rels |-> h.rels, attr |-> h.attr]
  BY DEF Delete
<1> HIDE DEF h
<1>2. DOMAIN g.attr = {m \in g.nodes : m[1] \in {"row", "value"}}
  BY DEF GraphTyped
<1>3. \A l \in h.rels : l[2] \in h.nodes /\ l[3] \in h.nodes
  BY <1>1 DEF GraphTyped
<1>4. (DOMAIN g.attr) \ some = {m \in h.nodes : m[1] \in {"row", "value"}}
  BY <1>1, <1>2
<1>5. h.attr = [n \in {m \in h.nodes : m[1] \in {"row", "value"}} |-> h.attr[n]]
  BY <1>1, <1>4
<1> QED BY <1>1, <1>3, <1>5 DEF GraphTyped, h

\* The figures of a row, and the NEXT_YEAR links between them.
Figures(g, n) == {r[3] : r \in {s \in g.rels : s[1] = "HAS_VALUE" /\ s[2] = n}}

Linkable(g, a, b) ==
  \E n \in g.nodes :
    /\ n[1] = "row" /\ a \in Figures(g, n) /\ b \in Figures(g, n)
    /\ g.attr[a] # 0 /\ g.attr[b] = g.attr[a] + 1

LEMMA LinkResult ==
  ASSUME NEW g, GraphTyped(g)
  PROVE  LET h == LinkNextYear(g)
         IN  /\ h.nodes = g.nodes /\ h.attr = g.attr
             /\ h = [nodes |-> h.nodes, rels |-> h.rels, attr |-> h.attr]
             /\ g.rels \subseteq h.rels
             /\ \A l : l \in h.rels <=>
                  \/ l \in g.rels
                  \/ \E a, b : l = <<"NEXT_YEAR", a, b>> /\ Linkable(g, a, b)
<1> DEFINE h == LinkNextYear(g)
           pairs(n) == {f \in Figures(g, n) \X Figures(g, n) :
                          g.attr[f[1]] # 0 /\ g.attr[f[2]] = g.attr[f[1]] + 1}
           links == UNION {{<<"NEXT_YEAR", e[1], e[2]>> : e \in pairs(n)} :
                             n \in {m \in g.nodes : m[1] = "row"}}
<1>1. h = [g EXCEPT !.rels = @ \cup links]
  BY DEF LinkNextYear, Figures
<1>2. ASSUME NEW l
      PROVE  l \in links <=> \E a, b : l = <<"NEXT_YEAR", a, b>> /\ Linkable(g, a, b)
  <2>1. ASSUME l \in links
        PROVE  \E a, b : l = <<"NEXT_YEAR", a, b>> /\ Linkable(g, a, b)
    <3>1. PICK n \in g.nodes :
            n[1] = "row" /\ l \in {<<"NEXT_YEAR", e[1], e[2]>> : e \in pairs(n)}
      BY <2>1
    <3>2. PICK e \in pairs(n) : l = <<"NEXT_YEAR", e[1], e[2]>>
      BY <3>1
    <3> QED BY <3>1, <3>2 DEF Linkable
  <2>2. ASSUME NEW a, NEW b, l = <<"NEXT_YEAR", a, b>>, Linkable(g, a, b)
        PROVE  l \in links
    <3>1. PICK n \in g.nodes :
            /\ n[1] = "row" /\ a \in Figures(g, n) /\ b \in Figures(g, n)
            /\ g.attr[a] # 0 /\ g.attr[b] = g.attr[a] + 1
      BY <2>2 DEF Linkable
    <3>2. <<a, b>> \in pairs(n)
      BY <3>1
    <3>3. l \in {<<"NEXT_YEAR", e[1], e[2]>> : e \in pairs(n)}
      BY <2>2, <3>2
    <3> QED BY <3>1, <3>3
  <2> QED BY <2>1, <2>2
<1> HIDE DEF links
<1>3. /\ h.nodes = g.nodes /\ h.attr = g.attr /\ h.rels = g.rels \cup links
      /\ h = [nodes |-> h.nodes, rels |-> h.rels, attr |-> h.attr]
  BY <1>1 DEF GraphTyped
<1> HIDE DEF h
<1> QED BY <1>2, <1>3 DEF h

-----------------------------------------------------------------------------
(* What a batch takes from the records that are still to do.               *)

Batch == {todo[i] : i \in 1..Take(BatchSize)}

LEMMA BatchTaken ==
  ASSUME todo \in Seq(Records)
  PROVE  /\ Batch \in SUBSET Records
         /\ SubSeq(todo, Take(BatchSize) + 1, Len(todo)) \in Seq(Records)
         /\ \A r : ToDo(r) =>
              r \in Batch \/ \E i \in DOMAIN SubSeq(todo, Take(BatchSize) + 1, Len(todo)) :
                               SubSeq(todo, Take(BatchSize) + 1, Len(todo))[i] = r
<1> DEFINE k == Take(BatchSize)
           rest == SubSeq(todo, k + 1, Len(todo))
<1>1. k \in Nat /\ k <= Len(todo)
  BY KnowledgeBaseAssumption, LenProperties DEF Take
<1>2. Batch \in SUBSET Records
  BY <1>1, ElementOfSeq DEF Batch
<1> HIDE DEF k
<1>3. \A i \in k + 1..Len(todo) : todo[i] \in Records
  BY <1>1, ElementOfSeq
<1>4. /\ rest \in Seq(Records)
      /\ Len(rest) = IF k + 1 <= Len(todo) THEN Len(todo) - k ELSE 0
      /\ \A i \in 1..Len(todo) - k : rest[i] = todo[k + i]
  <2>1. Len(todo) \in Nat
    BY LenProperties
  <2> QED BY <1>1, <1>3, <2>1, SubSeqProperties
<1> HIDE DEF rest
<1>5. ASSUME NEW i \in DOMAIN todo, todo[i] \notin Batch
      PROVE  \E j \in DOMAIN rest : rest[j] = todo[i]
  <2>1. i \in 1..Len(todo) /\ Len(todo) \in Nat /\ DOMAIN rest = 1..Len(rest)
    BY <1>4, LenProperties
  <2>2. i > k
    BY <1>1, <1>5, <2>1 DEF Batch, k
  <2>3. i - k \in 1..Len(rest) /\ rest[i - k] = todo[i]
    BY <1>1, <1>4, <2>1, <2>2
  <2> QED BY <2>1, <2>3
<1> QED BY <1>2, <1>4, <1>5 DEF ToDo, rest, k

LEMMA HeadTaken ==
  ASSUME todo \in Seq(Records), todo # <<>>
  PROVE  /\ Head(todo) \in Records /\ Tail(todo) \in Seq(Records)
         /\ \A r : ToDo(r) => r = Head(todo) \/ \E i \in DOMAIN Tail(todo) : Tail(todo)[i] = r
<1>1. /\ Head(todo) \in Records /\ Tail(todo) \in Seq(Records)
      /\ Len(Tail(todo)) = Len(todo) - 1
      /\ \A i \in 1..Len(Tail(todo)) : Tail(todo)[i] = todo[i + 1]
  BY HeadTailProperties
<1>2. DOMAIN todo = 1..Len(todo) /\ DOMAIN Tail(todo) = 1..Len(Tail(todo))
  BY <1>1, LenProperties
<1>3. Head(todo) = todo[1] /\ Len(todo) \in Nat
  BY LenProperties
<1>4. ASSUME NEW i \in 1..Len(todo), i # 1
      PROVE  i - 1 \in 1..Len(Tail(todo)) /\ Tail(todo)[i - 1] = todo[i]
  BY <1>1, <1>3, <1>4
<1> QED BY <1>1, <1>2, <1>3, <1>4 DEF ToDo

-----------------------------------------------------------------------------
(* Type correctness.                                                       *)

LEMMA TypeInit == Init => TypeInv
<1> SUFFICES ASSUME Init PROVE TypeInv
  OBVIOUS
<1>1. TypeOK
  BY KnowledgeBaseAssumption DEF Init, TypeOK, Empty
<1>2. GraphTyped(graph)
  BY EmptyTyped DEF Init
<1>3. HistoryTyped
  BY FS_EmptySet DEF Init, HistoryTyped
<1> QED BY <1>1, <1>2, <1>3 DEF Init, TypeInv

LEMMA GraphTypedShape ==
  ASSUME NEW g, GraphTyped(g)
  PROVE  /\ DOMAIN g = {"nodes", "rels", "attr"}
         /\ \A l \in g.rels : l[2] \in g.nodes /\ l[3] \in g.nodes
         /\ DOMAIN g.attr = {n \in g.nodes : n[1] \in {"row", "value"}}
  BY DEF GraphTyped

LEMMA LinkTyped ==
  ASSUME NEW g, GraphTyped(g)
  PROVE  GraphTyped(LinkNextYear(g))
<1> DEFINE h == LinkNextYear(g)
<1>1. /\ h.nodes = g.nodes /\ h.attr = g.attr
      /\ h = [nodes |-> h.nodes, rels |-> h.rels, attr |-> h.attr]
      /\ \A l : l \in h.rels <=>
           l \in g.rels \/ \E a, b : l = <<"NEXT_YEAR", a, b>> /\ Linkable(g, a, b)
  BY LinkResult
<1> HIDE DEF h
<1>2. \A a, b : Linkable(g, a, b) => a \in g.nodes /\ b \in g.nodes
  BY DEF Linkable, Figures, GraphTyped
<1> QED BY <1>1, <1>2 DEF GraphTyped, h

\* Whatever a transaction does to the graph, it stays a graph.
LEMMA GraphStep == TypeInv /\ [Next]_vars => GraphTyped(graph')
<1> SUFFICES ASSUME TypeInv, [Next]_vars PROVE GraphTyped(graph')
  OBVIOUS
<1>1. CASE Wipe
  BY <1>1, DeleteTyped DEF Wipe, TypeInv
<1>2. CASE LoadBatch
  <2>1. graph' = Merge(graph, Batch, version)
    BY <1>2 DEF LoadBatch, Batch
  <2> QED BY <2>1, BatchTaken, MergeTyped DEF TypeInv, TypeOK
<1>3. CASE Link
  BY <1>3, LinkTyped DEF Link, TypeInv
<1>4. CASE UNCHANGED graph
  BY <1>4 DEF TypeInv
<1> QED BY <1>1, <1>2, <1>3, <1>4
        DEF Next, vars, Transaction, StartGraphLoad, StartVectorLoad, Validate,
            InsertBatch, Abort

LEMMA TypeStep == TypeInv /\ [Next]_vars => TypeInv'
<1> SUFFICES ASSUME TypeInv, [Next]_vars PROVE TypeInv'
  OBVIOUS
<1>g. GraphTyped(graph')
  BY GraphStep
<1>s. /\ DOMAIN graph' = {"nodes", "rels", "attr"}
      /\ \A l \in graph'.rels : l[2] \in graph'.nodes /\ l[3] \in graph'.nodes
      /\ DOMAIN graph'.attr = {n \in graph'.nodes : n[1] \in {"row", "value"}}
  BY <1>g, GraphTypedShape
<1>1. ASSUME NEW sel \in Selections, NEW v \in Versions, NEW wipe \in BOOLEAN,
             StartGraphLoad(sel, v, wipe)
      PROVE  TypeInv'
  <2>1. todo' \in Seq(Records) /\ \A i \in DOMAIN todo' : todo'[i] \in Records
    BY <1>1, KnowledgeBaseAssumption, LenProperties, ElementOfSeq DEF StartGraphLoad
  <2>2. runs' \in 0..MaxRuns /\ wipes' \in 0..MaxWipes
    BY <1>1, KnowledgeBaseAssumption DEF StartGraphLoad, TypeInv, TypeOK
  <2>3. pc' \in {"wiping", "loading"}
    BY <1>1 DEF StartGraphLoad
  <2>4. HistoryTyped'
    BY <1>1 DEF StartGraphLoad, TypeInv, HistoryTyped, AllRecords
  <2>5. UNCHANGED chunks /\ version' = v
    BY <1>1 DEF StartGraphLoad
  <2> QED BY <1>g, <1>s, <2>1, <2>2, <2>3, <2>4, <2>5 DEF TypeInv, TypeOK
<1>2. ASSUME NEW sel \in Selections, NEW v \in Versions, StartVectorLoad(sel, v)
      PROVE  TypeInv'
  <2>1. todo' \in Seq(Records) /\ \A i \in DOMAIN todo' : todo'[i] \in Records
    BY <1>2, KnowledgeBaseAssumption, LenProperties, ElementOfSeq DEF StartVectorLoad
  <2>2. runs' \in 0..MaxRuns /\ UNCHANGED wipes
    BY <1>2, KnowledgeBaseAssumption DEF StartVectorLoad, TypeInv, TypeOK
  <2>3. pc' = "embedding" /\ todo' # <<>>
    BY <1>2 DEF StartVectorLoad
  <2>4. HistoryTyped'
    BY <1>2 DEF StartVectorLoad, TypeInv, HistoryTyped, AllRecords
  <2>5. UNCHANGED chunks /\ version' = v
    BY <1>2 DEF StartVectorLoad
  <2> QED BY <1>g, <1>s, <2>1, <2>2, <2>3, <2>4, <2>5 DEF TypeInv, TypeOK
<1>3. CASE Wipe
  <2>1. HistoryTyped'
    <3>1. CASE UNCHANGED <<written, torn>>
      BY <1>3, <3>1 DEF Wipe, TypeInv, HistoryTyped
    <3>2. CASE torn' = FALSE /\ written' = [written EXCEPT !.graph = [r \in Records |-> {}]]
      <4>1. /\ written'.graph = [r \in Records |-> {}]
            /\ written' \in [{"graph", "vectors"} -> [Records -> SUBSET Versions]]
        BY <3>2 DEF TypeInv, HistoryTyped
      <4> QED BY <1>3, <3>2, <4>1, FS_EmptySet DEF Wipe, TypeInv, HistoryTyped
    <3> QED BY <1>3, <3>1, <3>2 DEF Wipe
  <2>2. pc' \in {"wiping", "loading"}
    BY <1>3 DEF Wipe
  <2> QED BY <1>3, <1>g, <1>s, <2>1, <2>2 DEF Wipe, TypeInv, TypeOK
<1>4. CASE LoadBatch
  <2>1. /\ written' = [written EXCEPT !.graph = [r \in Records |->
              IF r \in Batch THEN @[r] \cup {version} ELSE @[r]]]
        /\ todo' = SubSeq(todo, Take(BatchSize) + 1, Len(todo))
        /\ UNCHANGED <<torn, whole, finished, chunks, version, runs, wipes>>
        /\ pc' \in {"linking", "loading"}
    BY <1>4 DEF LoadBatch, Batch
  <2>2. todo' \in Seq(Records) /\ \A i \in DOMAIN todo' : todo'[i] \in Records
    BY <2>1, BatchTaken, LenProperties, ElementOfSeq DEF TypeInv
  <2>3. \A r \in Records : /\ written.graph[r] \in SUBSET Versions
                           /\ IsFiniteSet(written.graph[r] \cup {version})
                           /\ IsFiniteSet(written.graph[r])
    <3>1. \A r \in Records : /\ written.graph[r] \in SUBSET Versions
                             /\ IsFiniteSet(written.graph[r])
      BY DEF TypeInv, HistoryTyped
    <3> QED BY <3>1, FS_AddElement
  <2>4. HistoryTyped'
    <3>1. written'.graph = [r \in Records |-> IF r \in Batch THEN written.graph[r] \cup {version}
                                              ELSE written.graph[r]]
      BY <2>1 DEF TypeInv, HistoryTyped
    <3>2. written' \in [{"graph", "vectors"} -> [Records -> SUBSET Versions]]
      BY <2>1, <2>3 DEF TypeInv, HistoryTyped, TypeOK
    <3> QED BY <2>1, <2>3, <3>1, <3>2 DEF TypeInv, HistoryTyped
  <2> QED BY <1>g, <1>s, <2>1, <2>2, <2>4 DEF TypeInv, TypeOK
<1>5. CASE Link
  BY <1>5, <1>g, <1>s DEF Link, TypeInv, TypeOK, HistoryTyped
<1>6. CASE Validate
  <2>1. HistoryTyped'
    BY <1>6 DEF Validate, TypeInv, HistoryTyped, TypeOK
  <2> QED BY <1>6, <1>g, <1>s, <2>1 DEF Validate, TypeInv, TypeOK
<1>7. CASE InsertBatch
  <2> DEFINE r == Head(todo)
             rows == {<<r, i>> : i \in Derived[version][r].embedded}
  <2>1. r \in Records /\ Tail(todo) \in Seq(Records)
    BY <1>7, HeadTaken DEF InsertBatch, TypeInv
  <2>2. todo' \in Seq(Records) /\ \A i \in DOMAIN todo' : todo'[i] \in Records
    BY <1>7, <2>1, LenProperties, ElementOfSeq DEF InsertBatch
  <2>3. chunks' = [k \in DOMAIN chunks \cup rows |-> IF k \in rows THEN version ELSE chunks[k]]
    BY <1>7 DEF InsertBatch, Upsert
  <2>4. \A k \in rows : k[1] \in Records
    BY <2>1
  <2> HIDE DEF rows
  <2>5. /\ chunks' = [k \in DOMAIN chunks' |-> chunks'[k]]
        /\ \A k \in DOMAIN chunks' : k[1] \in Records /\ chunks'[k] \in Versions
    BY <2>3, <2>4 DEF TypeInv, TypeOK
  <2>6. HistoryTyped'
    <3>1. written' = [written EXCEPT !.vectors[r] = @ \cup {version}]
      BY <1>7 DEF InsertBatch
    <3>a. [written.vectors EXCEPT ![r] = @ \cup {version}] \in [Records -> SUBSET Versions]
      <4>1. written.vectors \in [Records -> SUBSET Versions] /\ version \in Versions
        BY DEF TypeInv, HistoryTyped, TypeOK
      <4> HIDE DEF r
      <4> QED BY <2>1, <4>1
    <3>2. /\ written' \in [{"graph", "vectors"} -> [Records -> SUBSET Versions]]
          /\ written'.graph = written.graph
      BY <3>1, <3>a DEF TypeInv, HistoryTyped
    <3>3. finished' \in [{"graph", "vectors"} -> Versions \cup {"none"}]
      BY <1>7 DEF InsertBatch, TypeInv, HistoryTyped, TypeOK
    <3> QED BY <1>7, <3>2, <3>3 DEF InsertBatch, TypeInv, HistoryTyped
  <2>7. pc' \in {"idle", "embedding"} /\ (pc' = "embedding" => todo' # <<>>)
    BY <1>7 DEF InsertBatch
  <2>8. UNCHANGED <<version, runs, wipes>>
    BY <1>7 DEF InsertBatch
  <2> QED BY <1>g, <1>s, <2>2, <2>5, <2>6, <2>7, <2>8 DEF TypeInv, TypeOK
<1>8. CASE Abort
  BY <1>8, <1>g, <1>s DEF Abort, TypeInv, TypeOK, HistoryTyped
<1>9. CASE UNCHANGED vars
  BY <1>9 DEF vars, command, TypeInv, TypeOK, HistoryTyped
<1> QED BY <1>1, <1>2, <1>3, <1>4, <1>5, <1>6, <1>7, <1>8, <1>9 DEF Next, Transaction

-----------------------------------------------------------------------------
(* Orphans.                                                                *)

\* The last batch of a wipe leaves nothing.
LEMMA WipeEnds ==
  ASSUME TypeInv, Wipe, pc' # "wiping"
  PROVE  /\ graph'.nodes = {} /\ graph'.rels = {} /\ DOMAIN graph'.attr = {}
         /\ pc' = "loading" /\ torn' = FALSE
         /\ \A r \in Records : written'.graph[r] = {}
<1>1. PICK some \in SUBSET graph.nodes :
        /\ \/ Cardinality(some) = WipeSize
           \/ some = graph.nodes
        /\ graph' = Delete(graph, some)
        /\ IF WipeDone(Cardinality(some))
           THEN /\ pc' = "loading" /\ torn' = FALSE
                /\ written' = [written EXCEPT !.graph = [r \in Records |-> {}]]
           ELSE UNCHANGED <<pc, written, torn>>
  BY DEF Wipe
<1>2. WipeDone(Cardinality(some)) /\ some = graph.nodes
  BY <1>1, KnowledgeBaseAssumption DEF Wipe, WipeDone
<1>3. graph'.nodes = {}
  BY <1>1, <1>2, DeleteTyped DEF TypeInv
<1>4. graph'.rels = {} /\ DOMAIN graph'.attr = {}
  BY <1>1, <1>3, DeleteTyped, GraphTypedShape DEF TypeInv
<1>5. \A r \in Records : written'.graph[r] = {}
  BY <1>1, <1>2 DEF TypeInv, HistoryTyped
<1> QED BY <1>1, <1>2, <1>3, <1>4, <1>5

\* A batch of the wipe that is not the last takes from the graph only.
LEMMA WipeTakes ==
  ASSUME TypeInv, Wipe
  PROVE  /\ graph'.nodes \subseteq graph.nodes /\ graph'.rels \subseteq graph.rels
         /\ \A n \in DOMAIN graph'.attr :
              n \in DOMAIN graph.attr /\ graph'.attr[n] = graph.attr[n]
         /\ pc' = "wiping" => UNCHANGED <<written, torn>>
  BY DeleteTyped DEF Wipe, TypeInv

LEMMA LoadBatchResult ==
  ASSUME TypeInv, LoadBatch
  PROVE  /\ Batch \in SUBSET Records /\ version \in Versions
         /\ \A n : n \in graph'.nodes <=> n \in graph.nodes \/ New(n, Batch, version)
         /\ \A l : l \in graph'.rels <=>
              l \in graph.rels \/ \E r \in Batch : l \in Relations(r, Payload(version, r))
         /\ \A n \in DOMAIN graph'.attr :
              graph'.attr[n] = IF New(n, Batch, version)
                               THEN Attribute(Payload(version, n[2]), n)
                               ELSE graph.attr[n]
         /\ \A r \in Records : \A v :
              v \in written'.graph[r] <=>
                v \in written.graph[r] \/ (r \in Batch /\ v = version)
         /\ \A r \in Batch : Holds(graph', version, r)
<1>1. Batch \in SUBSET Records /\ version \in Versions
  BY BatchTaken DEF TypeInv, TypeOK
<1>2. graph' = Merge(graph, Batch, version)
  BY DEF LoadBatch, Batch
<1>3. /\ \A n : n \in graph'.nodes <=> n \in graph.nodes \/ New(n, Batch, version)
      /\ \A l : l \in graph'.rels <=>
           l \in graph.rels \/ \E r \in Batch : l \in Relations(r, Payload(version, r))
      /\ \A n \in graph'.nodes : n[1] \in {"row", "value"} =>
           graph'.attr[n] = IF New(n, Batch, version)
                            THEN Attribute(Payload(version, n[2]), n)
                            ELSE graph.attr[n]
  <2> DEFINE h == Merge(graph, Batch, version)
  <2>1. /\ \A n : n \in h.nodes <=> n \in graph.nodes \/ New(n, Batch, version)
        /\ \A l : l \in h.rels <=>
             l \in graph.rels \/ \E r \in Batch : l \in Relations(r, Payload(version, r))
        /\ \A n \in h.nodes : n[1] \in {"row", "value"} =>
             h.attr[n] = IF New(n, Batch, version)
                         THEN Attribute(Payload(version, n[2]), n)
                         ELSE graph.attr[n]
    BY <1>1, MergeResult, Zenon
  <2>2. graph' = h
    BY <1>2
  <2> HIDE DEF h
  <2> QED BY <2>1, <2>2
<1>4. DOMAIN graph'.attr = {n \in graph'.nodes : n[1] \in {"row", "value"}}
  BY <1>1, <1>2, MergeTyped, GraphTypedShape DEF TypeInv
<1>5. \A r \in Records : \A v :
        v \in written'.graph[r] <=>
          v \in written.graph[r] \/ (r \in Batch /\ v = version)
  <2>1. written' = [written EXCEPT !.graph = [r \in Records |->
              IF r \in Batch THEN @[r] \cup {version} ELSE @[r]]]
    BY DEF LoadBatch, Batch
  <2> QED BY <2>1 DEF TypeInv, HistoryTyped
<1>6. \A r \in Batch : Holds(graph', version, r)
  BY <1>3 DEF Holds, New
<1> QED BY <1>1, <1>3, <1>4, <1>5, <1>6

LEMMA LinkStepResult ==
  ASSUME TypeInv, Link
  PROVE  /\ graph'.nodes = graph.nodes /\ graph'.attr = graph.attr
         /\ graph.rels \subseteq graph'.rels
         /\ \A l : l \in graph'.rels <=>
              l \in graph.rels \/ \E a, b : l = <<"NEXT_YEAR", a, b>> /\ Linkable(graph, a, b)
  BY LinkResult DEF Link, TypeInv

\* The other steps leave the graph and what was written to it alone.
LEMMA OtherSteps ==
  ASSUME TypeInv, [Next]_vars, ~Wipe, ~LoadBatch, ~Link
  PROVE  graph' = graph /\ written'.graph = written.graph
<1>1. CASE InsertBatch
  BY <1>1 DEF InsertBatch, TypeInv, HistoryTyped
<1> QED BY <1>1 DEF Next, vars, Transaction, StartGraphLoad, StartVectorLoad, Validate,
                    Abort

LEMMA OrphanStep ==
  TypeInv /\ OrphansOnlyFromTornWipe /\ [Next]_vars => OrphansOnlyFromTornWipe'
<1> SUFFICES ASSUME TypeInv, OrphansOnlyFromTornWipe, [Next]_vars,
                    NEW n, n \in Orphans(graph')
             PROVE  torn' \/ pc' = "wiping"
  BY DEF OrphansOnlyFromTornWipe
<1> DEFINE Parent(l) == l[3] = n /\ l[1] \in {"HAS_VALUE", "HAS_ROW", "CONTAINS_TABLE"}
<1>1. /\ n \in graph'.nodes /\ n[1] \in {"value", "row", "table"}
      /\ ~\E l \in graph'.rels : Parent(l)
  BY DEF Orphans
<1>2. CASE Wipe
  BY <1>1, <1>2, WipeEnds
<1>3. CASE LoadBatch
  <2>1. ~New(n, Batch, version)
    BY <1>1, <1>3, LoadBatchResult, PayloadParents DEF New
  <2>2. n \in Orphans(graph)
    BY <1>1, <1>3, <2>1, LoadBatchResult DEF Orphans
  <2> QED BY <1>3, <2>2 DEF LoadBatch, OrphansOnlyFromTornWipe
<1>4. CASE Link
  <2>1. n \in Orphans(graph)
    BY <1>1, <1>4, LinkStepResult DEF Orphans
  <2> QED BY <1>4, <2>1 DEF Link, OrphansOnlyFromTornWipe
<1>5. CASE ~Wipe /\ ~LoadBatch /\ ~Link
  <2>1. torn \/ pc = "wiping"
    BY <1>5, OtherSteps DEF OrphansOnlyFromTornWipe
  <2> QED BY <1>5, <2>1 DEF Next, vars, command, Transaction, StartGraphLoad,
                            StartVectorLoad, Validate, InsertBatch, Abort, TypeInv,
                            HistoryTyped
<1> QED BY <1>2, <1>3, <1>4, <1>5

-----------------------------------------------------------------------------
(* What the versions that wrote a report left of it.                       *)

LEMMA HoldsMore ==
  ASSUME NEW g, NEW h, g.nodes \subseteq h.nodes, g.rels \subseteq h.rels,
         NEW v, NEW r, Holds(g, v, r)
  PROVE  Holds(h, v, r)
  BY DEF Holds

LEMMA WrittenStep == TypeInv /\ WrittenInv /\ [Next]_vars => WrittenInv'
<1> SUFFICES ASSUME TypeInv, WrittenInv, [Next]_vars, ~torn', pc' # "wiping",
                    NEW r \in Records, NEW v \in written'.graph[r]
             PROVE  Holds(graph', v, r)
  BY DEF WrittenInv, Holds
<1>1. CASE Wipe
  BY <1>1, WipeEnds
<1>2. CASE LoadBatch
  <2>1. CASE r \in Batch /\ v = version
    BY <1>2, <2>1, LoadBatchResult
  <2>2. CASE v \in written.graph[r]
    BY <1>2, <2>2, LoadBatchResult, HoldsMore DEF LoadBatch, WrittenInv
  <2> QED BY <1>2, <2>1, <2>2, LoadBatchResult
<1>3. CASE Link
  BY <1>3, LinkStepResult, HoldsMore DEF Link, WrittenInv
<1>4. CASE ~Wipe /\ ~LoadBatch /\ ~Link
  <2>1. ~torn /\ pc # "wiping"
    BY <1>4 DEF Next, vars, command, Transaction, StartGraphLoad, StartVectorLoad,
                Validate, InsertBatch, Abort, TypeInv, HistoryTyped
  <2> QED BY <1>4, <2>1, OtherSteps DEF WrittenInv
<1> QED BY <1>1, <1>2, <1>3, <1>4

LEMMA FilersStep == TypeInv /\ FilersInv /\ [Next]_vars => FilersInv'
<1> SUFFICES ASSUME TypeInv, FilersInv, [Next]_vars,
                    NEW r \in Records, NEW l \in graph'.rels,
                    l[1] = "FILED", l[3] = <<"report", r>>
             PROVE  \E v \in written'.graph[r] :
                      l[2] = <<"company", Payload(v, r).company>>
  BY DEF FilersInv, Payload
<1>1. CASE Wipe
  BY <1>1, WipeEnds, WipeTakes DEF FilersInv
<1>2. CASE LoadBatch
  <2>1. CASE l \in graph.rels
    BY <1>2, <2>1, LoadBatchResult DEF FilersInv
  <2>2. ASSUME NEW b \in Batch, l \in Relations(b, Payload(version, b))
        PROVE  b = r /\ l[2] = <<"company", Payload(version, r).company>>
    BY <2>2, RelationCases
  <2> QED BY <1>2, <2>1, <2>2, LoadBatchResult
<1>3. CASE Link
  <2>1. l \in graph.rels
    BY <1>3, LinkStepResult
  <2> QED BY <1>3, <2>1 DEF Link, FilersInv
<1>4. CASE ~Wipe /\ ~LoadBatch /\ ~Link
  BY <1>4, OtherSteps DEF FilersInv
<1> QED BY <1>1, <1>2, <1>3, <1>4

-----------------------------------------------------------------------------
(* What a single version leaves in the graph.                              *)

LEMMA AllResult ==
  ASSUME NEW v \in Versions
  PROVE  /\ GraphTyped(All(v))
         /\ \A n : n \in All(v).nodes <=> New(n, Records, v)
         /\ \A l : l \in All(v).rels <=> \E r \in Records : l \in Relations(r, Payload(v, r))
         /\ \A n \in All(v).nodes : n[1] \in {"row", "value"} =>
              All(v).attr[n] = Attribute(Payload(v, n[2]), n)
<1>1. Records \in SUBSET Records
  OBVIOUS
<1>2. Empty.nodes = {} /\ Empty.rels = {}
  BY DEF Empty
<1>3. GraphTyped(All(v))
  BY <1>1, EmptyTyped, MergeTyped DEF All
<1>4. /\ \A n : n \in All(v).nodes <=> n \in Empty.nodes \/ New(n, Records, v)
      /\ \A l : l \in All(v).rels <=>
           l \in Empty.rels \/ \E r \in Records : l \in Relations(r, Payload(v, r))
      /\ \A n \in All(v).nodes : n[1] \in {"row", "value"} =>
           All(v).attr[n] = IF New(n, Records, v) THEN Attribute(Payload(v, n[2]), n)
                            ELSE Empty.attr[n]
  BY <1>1, MergeResult DEF All
<1> QED BY <1>2, <1>3, <1>4

LEMMA ExactResult ==
  ASSUME NEW v \in Versions
  PROVE  /\ Exact(v) = [nodes |-> All(v).nodes, rels |-> Exact(v).rels,
                        attr |-> All(v).attr]
         /\ \A l : l \in Exact(v).rels <=>
              \/ l \in All(v).rels
              \/ \E a, b : l = <<"NEXT_YEAR", a, b>> /\ Linkable(All(v), a, b)
<1>1. GraphTyped(All(v)) /\ Exact(v) = LinkNextYear(All(v))
  BY AllResult DEF Exact, All
<1> QED BY <1>1, LinkResult

\* The figures of a row of All(v) are values, which have a year.
LEMMA FiguresAreValues ==
  ASSUME NEW v \in Versions, NEW l \in All(v).rels, l[1] = "HAS_VALUE"
  PROVE  l[3][1] = "value"
  BY AllResult, RelationCases

\* A link of a graph that agrees with All(v) as far as it goes is one of All(v).
LEMMA LinkableInAll ==
  ASSUME NEW v \in Versions, NEW g, GraphTyped(g),
         g.nodes \subseteq All(v).nodes, g.rels \subseteq Exact(v).rels,
         \A n \in DOMAIN g.attr : g.attr[n] = All(v).attr[n],
         NEW a, NEW b, Linkable(g, a, b)
  PROVE  Linkable(All(v), a, b)
<1>1. PICK n \in g.nodes :
        /\ n[1] = "row" /\ a \in Figures(g, n) /\ b \in Figures(g, n)
        /\ g.attr[a] # 0 /\ g.attr[b] = g.attr[a] + 1
  BY DEF Linkable
<1>2. ASSUME NEW x, x \in Figures(g, n)
      PROVE  x \in Figures(All(v), n) /\ g.attr[x] = All(v).attr[x]
  <2>1. PICK l \in g.rels : l[1] = "HAS_VALUE" /\ l[2] = n /\ l[3] = x
    BY <1>2 DEF Figures
  <2>2. l \in All(v).rels
    BY <2>1, ExactResult
  <2>3. x[1] = "value" /\ x \in g.nodes
    BY <2>1, <2>2, FiguresAreValues, GraphTypedShape
  <2>4. x \in DOMAIN g.attr
    BY <2>3, GraphTypedShape
  <2> QED BY <2>1, <2>2, <2>4 DEF Figures
<1> QED BY <1>1, <1>2 DEF Linkable

LEMMA OneVersionStep == TypeInv /\ OneVersionInv /\ [Next]_vars => OneVersionInv'
<1> SUFFICES ASSUME TypeInv, OneVersionInv, [Next]_vars, NEW v \in Versions,
                    \A r \in Records : written'.graph[r] \subseteq {v}
             PROVE  /\ graph'.nodes \subseteq All(v).nodes
                    /\ graph'.rels \subseteq Exact(v).rels
                    /\ \A n \in DOMAIN graph'.attr : graph'.attr[n] = All(v).attr[n]
  BY DEF OneVersionInv, All, Exact
<1> DEFINE Before == /\ graph.nodes \subseteq All(v).nodes
                     /\ graph.rels \subseteq Exact(v).rels
                     /\ \A n \in DOMAIN graph.attr : graph.attr[n] = All(v).attr[n]
<1>0. (\A r \in Records : written.graph[r] \subseteq {v}) => Before
  BY DEF OneVersionInv
<1> HIDE DEF Before
<1>1. CASE Wipe
  <2>1. CASE pc' = "wiping"
    <3>1. UNCHANGED written
      BY <1>1, <2>1, WipeTakes
    <3> QED BY <1>0, <1>1, <3>1, WipeTakes DEF Before
  <2>2. CASE pc' # "wiping"
    BY <1>1, <2>2, WipeEnds
  <2> QED BY <2>1, <2>2
<1>2. CASE LoadBatch
  <2>1. Before /\ (Batch # {} => version = v)
    BY <1>0, <1>2, LoadBatchResult
  <2>2. ASSUME NEW n, New(n, Batch, version)
        PROVE  New(n, Records, v) /\ n \in All(v).nodes /\ version = v
    BY <1>2, <2>1, <2>2, LoadBatchResult, AllResult DEF New
  <2>3. graph'.nodes \subseteq All(v).nodes
    BY <1>2, <2>1, <2>2, LoadBatchResult DEF Before
  <2>4. graph'.rels \subseteq Exact(v).rels
    <3>1. ASSUME NEW l, NEW r \in Batch, l \in Relations(r, Payload(version, r))
          PROVE  l \in All(v).rels
      BY <1>2, <2>1, <3>1, LoadBatchResult, AllResult
    <3> QED BY <1>2, <2>1, <3>1, LoadBatchResult, ExactResult DEF Before
  <2>5. ASSUME NEW n \in DOMAIN graph'.attr PROVE graph'.attr[n] = All(v).attr[n]
    <3>1. n \in graph'.nodes /\ n[1] \in {"row", "value"}
      BY GraphStep, GraphTypedShape
    <3>2. CASE New(n, Batch, version)
      BY <1>2, <2>2, <3>1, <3>2, LoadBatchResult, AllResult
    <3>3. CASE ~New(n, Batch, version)
      <4>1. n \in graph.nodes /\ graph'.attr[n] = graph.attr[n]
        BY <1>2, <3>1, <3>3, LoadBatchResult
      <4>2. n \in DOMAIN graph.attr
        BY <3>1, <4>1, GraphTypedShape DEF TypeInv
      <4> QED BY <2>1, <4>1, <4>2 DEF Before
    <3> QED BY <3>2, <3>3
  <2> QED BY <2>3, <2>4, <2>5
<1>3. CASE Link
  <2>1. Before
    BY <1>0, <1>3 DEF Link
  <2>2. \A a, b : Linkable(graph, a, b) => Linkable(All(v), a, b)
    BY <2>1, LinkableInAll DEF Before, TypeInv
  <2>3. graph'.rels \subseteq Exact(v).rels
    BY <1>3, <2>1, <2>2, LinkStepResult, ExactResult DEF Before
  <2> QED BY <1>3, <2>1, <2>3, LinkStepResult DEF Before
<1>4. CASE ~Wipe /\ ~LoadBatch /\ ~Link
  BY <1>0, <1>4, OtherSteps DEF Before
<1> QED BY <1>1, <1>2, <1>3, <1>4

-----------------------------------------------------------------------------
(* Progress of a complete load.                                            *)

LEMMA LinkedAfterLink == TypeInv /\ Link => Linked'
<1> SUFFICES ASSUME TypeInv, Link PROVE LinkNextYear(graph').rels = graph'.rels
  BY DEF Linked
<1>1. GraphTyped(graph')
  BY LinkTyped DEF Link, TypeInv
<1>2. \A l : l \in LinkNextYear(graph').rels <=>
        l \in graph'.rels \/ \E a, b : l = <<"NEXT_YEAR", a, b>> /\ Linkable(graph', a, b)
  BY <1>1, LinkResult
<1>3. \A n : Figures(graph', n) = Figures(graph, n)
  BY LinkStepResult DEF Figures
<1>4. \A a, b : Linkable(graph', a, b) <=> Linkable(graph, a, b)
  BY <1>3, LinkStepResult DEF Linkable
<1>5. \A l : l \in LinkNextYear(graph').rels <=> l \in graph'.rels
  BY <1>2, <1>4, LinkStepResult
<1> QED BY <1>5

LEMMA ProgressStep == TypeInv /\ ProgressInv /\ [Next]_vars => ProgressInv'
<1> SUFFICES ASSUME TypeInv, ProgressInv, [Next]_vars, whole'
             PROVE  /\ pc' = "wiping" => \A r \in Records : ToDo(r)'
                    /\ pc' \in {"loading", "linking", "validating"} =>
                         \A r \in Records : ToDo(r)' \/ Holds(graph', version', r)
                    /\ pc' = "embedding" =>
                         \A r \in Records : ToDo(r)' \/
                           \A i \in Payload(version', r).embedded :
                             <<r, i>> \in DOMAIN chunks' /\ chunks'[<<r, i>>] = version'
  BY DEF ProgressInv, Holds, Payload
<1>1. ASSUME NEW sel \in Selections, NEW v \in Versions, NEW wipe \in BOOLEAN,
             StartGraphLoad(sel, v, wipe)
      PROVE  pc' \in {"wiping", "loading"} /\ \A r \in Records : ToDo(r)'
  BY <1>1 DEF StartGraphLoad, AllRecords, ToDo
<1>2. ASSUME NEW sel \in Selections, NEW v \in Versions, StartVectorLoad(sel, v)
      PROVE  pc' = "embedding" /\ \A r \in Records : ToDo(r)'
  BY <1>2 DEF StartVectorLoad, AllRecords, ToDo
<1>3. CASE Wipe
  <2>1. pc' \in {"wiping", "loading"} /\ UNCHANGED todo
    BY <1>3 DEF Wipe
  <2>2. \A r \in Records : ToDo(r)'
    BY <1>3, <2>1 DEF Wipe, ProgressInv, ToDo
  <2> QED BY <2>1, <2>2
<1>4. CASE LoadBatch
  <2>1. /\ UNCHANGED <<whole, version>> /\ pc = "loading" /\ pc' \in {"linking", "loading"}
        /\ todo' = SubSeq(todo, Take(BatchSize) + 1, Len(todo))
    BY <1>4 DEF LoadBatch
  <2>2. ASSUME NEW r \in Records, ~ToDo(r)' PROVE Holds(graph', version, r)
    <3>1. ToDo(r) => r \in Batch
      BY <2>1, <2>2, BatchTaken DEF TypeInv, ToDo
    <3>2. CASE r \in Batch
      BY <1>4, <3>2, LoadBatchResult
    <3>3. CASE Holds(graph, version, r)
      <4>1. graph.nodes \subseteq graph'.nodes /\ graph.rels \subseteq graph'.rels
        BY <1>4, LoadBatchResult
      <4> QED BY <3>3, <4>1, HoldsMore
    <3> QED BY <2>1, <3>1, <3>2, <3>3 DEF ProgressInv
  <2> QED BY <2>1, <2>2
<1>5. CASE Link
  <2>1. /\ UNCHANGED <<whole, version, todo>> /\ pc = "linking" /\ pc' = "validating"
        /\ graph.nodes \subseteq graph'.nodes /\ graph.rels \subseteq graph'.rels
    BY <1>5, LinkStepResult DEF Link
  <2> QED BY <2>1, HoldsMore DEF ProgressInv, ToDo
<1>6. CASE Validate \/ Abort
  BY <1>6 DEF Validate, Abort
<1>7. CASE InsertBatch
  <2> DEFINE rows == {<<Head(todo), i>> : i \in Payload(version, Head(todo)).embedded}
  <2>1. /\ UNCHANGED <<whole, version>> /\ pc = "embedding" /\ todo' = Tail(todo)
        /\ chunks' = [k \in DOMAIN chunks \cup rows |->
                        IF k \in rows THEN version ELSE chunks[k]]
        /\ pc' \in {"idle", "embedding"}
    BY <1>7 DEF InsertBatch, Upsert, Payload
  <2>2. ASSUME NEW r \in Records, ~ToDo(r)', NEW i \in Payload(version, r).embedded
        PROVE  <<r, i>> \in DOMAIN chunks' /\ chunks'[<<r, i>>] = version
    <3>1. ToDo(r) => r = Head(todo)
      BY <2>1, <2>2, HeadTaken DEF TypeInv, ToDo
    <3>2. r = Head(todo) => <<r, i>> \in rows
      OBVIOUS
    <3>3. r # Head(todo) => <<r, i>> \in DOMAIN chunks /\ chunks[<<r, i>>] = version
      BY <2>1, <3>1 DEF ProgressInv
    <3> HIDE DEF rows
    <3> QED BY <2>1, <3>2, <3>3
  <2> QED BY <2>1, <2>2
<1>8. CASE UNCHANGED vars
  BY <1>8 DEF vars, command, ProgressInv, ToDo
<1> QED BY <1>1, <1>2, <1>3, <1>4, <1>5, <1>6, <1>7, <1>8 DEF Next, Transaction

LEMMA FinishedStep ==
  TypeInv /\ ProgressInv /\ FinishedInv /\ [Next]_vars => FinishedInv'
<1> SUFFICES ASSUME TypeInv, ProgressInv, FinishedInv, [Next]_vars PROVE FinishedInv'
  OBVIOUS
<1>n. \A v \in Versions : v # "none"
  BY KnowledgeBaseAssumption
<1>1. ASSUME NEW sel \in Selections, NEW v \in Versions, NEW wipe \in BOOLEAN,
             StartGraphLoad(sel, v, wipe)
      PROVE  FinishedInv'
  <2>1. finished'.graph = "none" /\ pc' \in {"wiping", "loading"}
    BY <1>1 DEF StartGraphLoad, TypeInv, HistoryTyped
  <2> QED BY <1>n, <2>1 DEF FinishedInv
<1>2. ASSUME NEW sel \in Selections, NEW v \in Versions, StartVectorLoad(sel, v)
      PROVE  FinishedInv'
  <2>1. finished'.graph = finished.graph /\ pc' = "embedding" /\ graph' = graph
    BY <1>2 DEF StartVectorLoad, TypeInv, HistoryTyped
  <2> QED BY <2>1 DEF FinishedInv, Linked, Holds, Payload
<1>3. CASE Wipe
  BY <1>3, <1>n DEF Wipe, FinishedInv
<1>4. CASE LoadBatch
  BY <1>4, <1>n DEF LoadBatch, FinishedInv
<1>5. CASE Link
  BY <1>5, <1>n, LinkedAfterLink DEF Link, FinishedInv
<1>6. CASE Validate
  <2>1. /\ pc = "validating" /\ todo = <<>> /\ Linked /\ pc' = "idle"
        /\ finished'.graph = IF whole THEN version ELSE "none"
        /\ graph' = graph
    BY <1>6 DEF Validate, FinishedInv, TypeInv, HistoryTyped
  <2>2. \A r \in Records : ~ToDo(r)
    BY <2>1 DEF ToDo
  <2>3. whole => \A r \in Records : Holds(graph, version, r)
    BY <2>1, <2>2 DEF ProgressInv
  <2> QED BY <1>n, <2>1, <2>3 DEF FinishedInv, Linked, Holds, Payload
<1>7. CASE InsertBatch
  <2>1. finished'.graph = finished.graph /\ pc' \in {"idle", "embedding"} /\ graph' = graph
    BY <1>7 DEF InsertBatch, TypeInv, HistoryTyped
  <2> QED BY <2>1 DEF FinishedInv, Linked, Holds, Payload
<1>8. CASE Abort
  BY <1>8 DEF Abort, FinishedInv, Linked, Holds, Payload
<1>9. CASE UNCHANGED vars
  BY <1>9 DEF vars, command, FinishedInv, Linked, Holds, Payload
<1> QED BY <1>1, <1>2, <1>3, <1>4, <1>5, <1>6, <1>7, <1>8, <1>9 DEF Next, Transaction

-----------------------------------------------------------------------------
(* The vector table.                                                       *)

LEMMA VectorsStep ==
  TypeInv /\ ProgressInv /\ VectorsInv /\ [Next]_vars => VectorsInv'
<1> SUFFICES ASSUME TypeInv, ProgressInv, VectorsInv, [Next]_vars PROVE VectorsInv'
  OBVIOUS
<1>n. \A v \in Versions : v # "none"
  BY KnowledgeBaseAssumption
<1>1. CASE InsertBatch
  <2> DEFINE rows == {<<Head(todo), i>> : i \in Payload(version, Head(todo)).embedded}
  <2>1. /\ pc = "embedding" /\ todo' = Tail(todo) /\ finished.vectors = "none"
        /\ UNCHANGED <<whole, version>>
        /\ chunks' = [k \in DOMAIN chunks \cup rows |->
                        IF k \in rows THEN version ELSE chunks[k]]
    BY <1>1 DEF InsertBatch, Upsert, Payload, VectorsInv, ChunksInv
  <2>2. \A k \in rows : k[2] \in Payload(version, k[1]).embedded
    OBVIOUS
  <2>3. \A r \in Records : ToDo(r) => r = Head(todo) \/ ToDo(r)'
    BY <2>1, HeadTaken DEF TypeInv, ToDo
  <2>4. \A i \in Payload(version, Head(todo)).embedded : <<Head(todo), i>> \in rows
    OBVIOUS
  <2> HIDE DEF rows
  <2>5. \A k \in DOMAIN chunks' : k[2] \in Payload(chunks'[k], k[1]).embedded
    BY <2>1, <2>2 DEF VectorsInv, ChunksInv, Payload
  <2>6. ASSUME todo' = <<>>, whole, NEW r \in Records, NEW i \in Payload(version, r).embedded
        PROVE  <<r, i>> \in DOMAIN chunks' /\ chunks'[<<r, i>>] = version
    <3>1. ~ToDo(r)'
      BY <2>6 DEF ToDo
    <3>2. r # Head(todo) => <<r, i>> \in DOMAIN chunks /\ chunks[<<r, i>>] = version
      BY <2>1, <2>3, <2>6, <3>1 DEF ProgressInv
    <3>3. r = Head(todo) => <<r, i>> \in rows
      BY <2>4
    <3> QED BY <2>1, <3>2, <3>3
  <2>7. CASE todo' = <<>>
    <3>1. pc' = "idle" /\ finished'.vectors = IF whole THEN version ELSE "none"
      BY <1>1, <2>7 DEF InsertBatch, TypeInv, HistoryTyped
    <3> QED BY <1>n, <2>5, <2>6, <2>7, <3>1 DEF VectorsInv, ChunksInv, VectorTableConverges,
                                                 Payload
  <2>8. CASE todo' # <<>>
    <3>1. finished' = finished
      BY <1>1, <2>8 DEF InsertBatch
    <3> QED BY <1>n, <2>1, <2>5, <3>1 DEF VectorsInv, ChunksInv, VectorTableConverges, Payload
  <2> QED BY <2>7, <2>8
<1>2. ASSUME NEW sel \in Selections, NEW v \in Versions, StartVectorLoad(sel, v)
      PROVE  VectorsInv'
  <2>1. finished'.vectors = "none" /\ UNCHANGED chunks
    BY <1>2 DEF StartVectorLoad, TypeInv, HistoryTyped
  <2> QED BY <1>n, <2>1 DEF VectorsInv, ChunksInv, VectorTableConverges, Payload
<1>3. CASE Wipe \/ LoadBatch \/ Link \/ Validate \/ Abort \/ UNCHANGED vars
           \/ \E sel \in Selections, v \in Versions, wipe \in BOOLEAN :
                StartGraphLoad(sel, v, wipe)
  <2>1. UNCHANGED chunks /\ finished'.vectors = finished.vectors
    BY <1>3 DEF Wipe, LoadBatch, Link, Validate, Abort, StartGraphLoad, vars, command,
                TypeInv, HistoryTyped
  <2>2. pc' = "embedding" => pc = "embedding"
    BY <1>3 DEF Wipe, LoadBatch, Link, Validate, Abort, StartGraphLoad, vars, command
  <2> QED BY <2>1, <2>2 DEF VectorsInv, ChunksInv, VectorTableConverges, Payload
<1> QED BY <1>1, <1>2, <1>3 DEF Next, Transaction

-----------------------------------------------------------------------------
(* The theorems.                                                           *)

(* The graph, the vector table and the commands of every reachable state.  *)
THEOREM IInvInductive == Spec => []IInv
<1>1. Init => IInv
  <2> SUFFICES ASSUME Init PROVE IInv
    OBVIOUS
  <2>1. TypeInv
    BY TypeInit
  <2>2. graph.nodes = {} /\ graph.rels = {} /\ DOMAIN graph.attr = {} /\ DOMAIN chunks = {}
    BY DEF Init, Empty
  <2>3. OrphansOnlyFromTornWipe
    BY <2>2 DEF OrphansOnlyFromTornWipe, Orphans
  <2>4. \A r \in Records : written.graph[r] = {}
    BY DEF Init
  <2>5. WrittenInv /\ FilersInv /\ OneVersionInv
    BY <2>2, <2>4 DEF WrittenInv, FilersInv, OneVersionInv
  <2>6. ProgressInv
    BY DEF Init, ProgressInv
  <2>7. FinishedInv /\ VectorsInv
    BY <2>2, KnowledgeBaseAssumption
       DEF Init, FinishedInv, VectorsInv, ChunksInv, VectorTableConverges
  <2> QED BY <2>1, <2>3, <2>5, <2>6, <2>7 DEF IInv
<1>2. IInv /\ [Next]_vars => IInv'
  BY TypeStep, OrphanStep, WrittenStep, FilersStep, OneVersionStep, ProgressStep,
     FinishedStep, VectorsStep DEF IInv
<1> QED BY <1>1, <1>2, PTL DEF Spec

(* The graph stays a graph: no relationship dangles and every row and      *)
(* value has its attribute, whatever was aborted or wiped.                 *)
THEOREM TypeCorrect == Spec => []TypeOK
<1>1. IInv => TypeOK
  BY DEF IInv, TypeInv
<1> QED BY <1>1, IInvInductive, PTL

(* Only a wipe that was cut short leaves orphans.                          *)
THEOREM OrphansExplained == Spec => []OrphansOnlyFromTornWipe
<1>1. IInv => OrphansOnlyFromTornWipe
  BY DEF IInv
<1> QED BY <1>1, IInvInductive, PTL

(* The agent sees a report whole or not at all.                            *)
THEOREM ReportsWhole == Spec => []ReportsAreWhole
<1>1. IInv => ReportsAreWhole
  BY DEF IInv, WrittenInv, ReportsAreWhole, Holds, Payload
<1> QED BY <1>1, IInvInductive, PTL

(* After a complete vector load the table has what its version derives.    *)
THEOREM VectorsConverge == Spec => []VectorTableConverges
<1>1. IInv => VectorTableConverges
  BY DEF IInv, VectorsInv
<1> QED BY <1>1, IInvInductive, PTL

(* A complete load is exact, no matter what was cut short before it, when  *)
(* no other version's rows are left in the graph.                          *)
THEOREM LoadsAreExact == Spec => []CompleteLoadIsExact
<1>1. IInv => CompleteLoadIsExact
  <2> SUFFICES ASSUME IInv, NEW v \in Versions, finished.graph = v, OnlyBy("graph", v)
               PROVE  graph = Exact(v)
    BY DEF CompleteLoadIsExact
  <2>1. /\ graph.nodes \subseteq All(v).nodes
        /\ graph.rels \subseteq Exact(v).rels
        /\ \A n \in DOMAIN graph.attr : graph.attr[n] = All(v).attr[n]
    BY DEF IInv, OneVersionInv, OnlyBy
  <2>2. Linked /\ \A r \in Records : Holds(graph, v, r)
    BY DEF IInv, FinishedInv
  <2>3. GraphTyped(graph) /\ GraphTyped(All(v))
    BY AllResult DEF IInv, TypeInv
  <2>4. graph.nodes = All(v).nodes
    BY <2>1, <2>2, AllResult DEF Holds, New
  <2>5. graph.attr = All(v).attr
    <3> DEFINE D == {m \in graph.nodes : m[1] \in {"row", "value"}}
    <3>1. /\ graph.attr = [n \in D |-> graph.attr[n]]
          /\ All(v).attr = [n \in D |-> All(v).attr[n]]
      BY <2>3, <2>4 DEF GraphTyped
    <3>2. \A n \in D : graph.attr[n] = All(v).attr[n]
      BY <2>1, <3>1
    <3> HIDE DEF D
    <3> QED BY <3>1, <3>2
  <2>6. All(v).rels \subseteq graph.rels
    BY <2>2, AllResult DEF Holds
  <2>7. ASSUME NEW a, NEW b, Linkable(All(v), a, b)
        PROVE  <<"NEXT_YEAR", a, b>> \in graph.rels
    <3>1. Linkable(graph, a, b)
      BY <2>4, <2>5, <2>6, <2>7 DEF Linkable, Figures
    <3> QED BY <2>2, <2>3, <3>1, LinkResult DEF Linked
  <2>8. graph.rels = Exact(v).rels
    BY <2>1, <2>6, <2>7, ExactResult
  <2>9. graph = [nodes |-> graph.nodes, rels |-> graph.rels, attr |-> graph.attr]
    BY <2>3 DEF GraphTyped
  <2> QED BY <2>4, <2>5, <2>8, <2>9, ExactResult
<1> QED BY <1>1, IInvInductive, PTL

\* A figure has a relevance, and two of them only if its row is linked to the
\* metric asked for and to another one.
LEMMA RelevanceIs ==
  ASSUME NEW g, NEW n, NEW metric
  PROVE  /\ Relevance(g, n, metric) # {}
         /\ \A x, y \in Relevance(g, n, metric) : x # y =>
              metric \in LinkedMetrics(g, n) /\ LinkedMetrics(g, n) # {metric}
<1> DEFINE linked == LinkedMetrics(g, n)
<1>1. Relevance(g, n, metric) =
        (IF metric \in linked THEN {"exact"} ELSE {})
          \cup (IF linked \subseteq {metric} /\ linked # {} THEN {} ELSE {"words"})
  BY DEF Relevance
<1> HIDE DEF linked
<1>2. Relevance(g, n, metric) # {}
  <2>1. linked \subseteq {metric} /\ linked # {} => metric \in linked
    OBVIOUS
  <2> QED BY <1>1, <2>1
<1>3. ASSUME NEW x \in Relevance(g, n, metric), NEW y \in Relevance(g, n, metric), x # y
      PROVE  metric \in linked /\ linked # {metric}
  BY <1>1, <1>3
<1> QED BY <1>2, <1>3 DEF linked

\* The ladder stops at its first rung that has figures.
LEMMA LadderStops ==
  ASSUME NEW g, NEW r, NEW metric, NEW year, Filers(g, r) # {}
  PROVE  LET figures == {a[2] : a \in Query(g, r, metric, year)}
         IN  /\ Reached(g, r) # {} => figures # {}
             /\ (\E n \in Reached(g, r) : YearMatches(g, n, year)) =>
                  \A n \in figures : YearMatches(g, n, year)
             /\ \A a \in Query(g, r, metric, year) :
                  \E c \in Filers(g, r) :
                    \E n, x : x \in Relevance(g, n, metric) /\ a = <<c, n, x>>
<1> DEFINE some == Reached(g, r)
           byYear == {n \in some : YearMatches(g, n, year)}
           byMetric == {n \in some : MetricMatches(g, n, metric)}
           rungs == <<byYear \cap byMetric, byYear, byMetric, some>>
           found == {i \in 1..4 : rungs[i] # {}}
           least == CHOOSE i \in found : \A j \in found : i <= j
           figures == {a[2] : a \in Query(g, r, metric, year)}
<1>1. Rungs(g, some, metric, year) = rungs /\ DOMAIN rungs = 1..4
  BY DEF Rungs
<1>2. Query(g, r, metric, year) =
        IF found = {} THEN {}
        ELSE UNION {RecordsOf(g, r, n, metric) : n \in rungs[least]}
  BY <1>1 DEF Query
<1>3. found # {} => least \in found /\ \A j \in found : least <= j
  <2>0. found \subseteq 1..4
    OBVIOUS
  <2> HIDE DEF found
  <2>1. ASSUME found # {} PROVE \E i \in found : \A j \in found : i <= j
    <3>1. CASE 1 \in found
      BY <2>0, <3>1
    <3>2. CASE 1 \notin found /\ 2 \in found
      BY <2>0, <3>2
    <3>3. CASE 1 \notin found /\ 2 \notin found /\ 3 \in found
      BY <2>0, <3>3
    <3>4. CASE 1 \notin found /\ 2 \notin found /\ 3 \notin found
      <4>1. \A i \in found : i = 4
        BY <2>0, <3>4
      <4>2. 4 \in found
        BY <2>1, <4>1
      <4> QED BY <4>1, <4>2
    <3> QED BY <3>1, <3>2, <3>3, <3>4
  <2> QED BY <2>1
<1>4. some # {} => 4 \in found
  OBVIOUS
<1>5. byYear # {} => 2 \in found
  OBVIOUS
<1>6. found # {} => figures = rungs[least]
  <2> HIDE DEF rungs, least, found
  <2> SUFFICES ASSUME found # {} PROVE figures = rungs[least]
    OBVIOUS
  <2>1. Query(g, r, metric, year) = UNION {RecordsOf(g, r, n, metric) : n \in rungs[least]}
    BY <1>2
  <2>2. PICK c \in Filers(g, r) : TRUE
    OBVIOUS
  <2>3. ASSUME NEW n \in rungs[least] PROVE n \in figures
    <3>1. PICK x \in Relevance(g, n, metric) : TRUE
      BY RelevanceIs
    <3>2. <<c, n, x>> \in RecordsOf(g, r, n, metric) /\ <<c, n, x>>[2] = n
      BY <2>2, <3>1 DEF RecordsOf
    <3>3. <<c, n, x>> \in Query(g, r, metric, year)
      BY <2>1, <2>3, <3>2
    <3> QED BY <3>2, <3>3
  <2>4. \A n : \A a \in RecordsOf(g, r, n, metric) : a[2] = n
    BY DEF RecordsOf
  <2>5. figures \subseteq rungs[least]
    BY <2>1, <2>4
  <2> QED BY <2>3, <2>5
<1>7. \A i \in 1..2 : rungs[i] \subseteq byYear
  OBVIOUS
<1>8. found # {} => least \in 1..4 /\ rungs[least] # {}
  BY <1>3
<1> HIDE DEF least, rungs
<1>9. some # {} => figures # {}
  BY <1>4, <1>6, <1>8
<1>10. byYear # {} => figures \subseteq byYear
  <2>1. byYear # {} => least \in 1..2
    BY <1>3, <1>5, <1>8
  <2> QED BY <1>5, <1>6, <1>7, <2>1
<1>11. ASSUME NEW a \in Query(g, r, metric, year)
       PROVE  \E c \in Filers(g, r) : \E n, x : x \in Relevance(g, n, metric) /\ a = <<c, n, x>>
  <2>1. found # {}
    BY <1>2
  <2>2. PICK n \in rungs[least] : a \in RecordsOf(g, r, n, metric)
    BY <1>2, <2>1
  <2> QED BY <2>2 DEF RecordsOf
<1> QED BY <1>9, <1>10, <1>11

(* An anchored query answers from the year asked for, and with a figure    *)
(* twice only for two metrics of its row.                                  *)
THEOREM AnswersAnchored == Spec => []AnchoredAnswers
<1>1. IInv => AnchoredAnswers
  <2> SUFFICES ASSUME IInv, NEW r \in Records, NEW year \in {1, 2}, NEW metric,
                      Filers(graph, r) # {}, Cardinality(written.graph[r]) <= 1,
                      NEW a \in Query(graph, r, metric, year),
                      NEW b \in Query(graph, r, metric, year), a[2] = b[2], a # b
               PROVE  /\ metric \in LinkedMetrics(graph, a[2])
                      /\ LinkedMetrics(graph, a[2]) # {metric}
    BY LadderStops DEF AnchoredAnswers
  <2>1. IsFiniteSet(written.graph[r])
    BY DEF IInv, TypeInv, HistoryTyped
  <2>2. ASSUME NEW v \in written.graph[r], NEW w \in written.graph[r], v # w
        PROVE  FALSE
    <3>1. /\ IsFiniteSet({v, w}) /\ Cardinality({v, w}) = 2
      <4>1. IsFiniteSet({v}) /\ Cardinality({v}) = 1 /\ {v, w} = {v} \cup {w}
        BY FS_Singleton
      <4>2. IsFiniteSet({v} \cup {w}) /\ Cardinality({v} \cup {w}) = 1 + 1
        BY <2>2, <4>1, FS_AddElement, ZenonT(40)
      <4> QED BY <4>1, <4>2
    <3>2. Cardinality({v, w}) <= Cardinality(written.graph[r])
      BY <2>1, FS_Subset
    <3>3. Cardinality(written.graph[r]) \in Nat
      BY <2>1, FS_CardinalityType
    <3> QED BY <3>1, <3>2, <3>3
  <2>3. \A c \in Filers(graph, r) :
          \E v \in written.graph[r] : c = Payload(v, r).company
    <3> SUFFICES ASSUME NEW l \in graph.rels, l[1] = "FILED", l[3] = <<"report", r>>
                 PROVE  \E v \in written.graph[r] : l[2][2] = Payload(v, r).company
      BY DEF Filers
    <3>1. PICK v \in written.graph[r] : l[2] = <<"company", Payload(v, r).company>>
      BY DEF IInv, FilersInv
    <3> QED BY <3>1
  <2>4. PICK c \in Filers(graph, r) : TRUE
    OBVIOUS
  <2>5. Filers(graph, r) = {c}
    BY <2>2, <2>3
  <2>6. PICK n, x : x \in Relevance(graph, n, metric) /\ a = <<c, n, x>>
    BY <2>5, LadderStops
  <2>7. PICK m, y : y \in Relevance(graph, m, metric) /\ b = <<c, m, y>>
    BY <2>5, LadderStops
  <2>8. n = m /\ x # y /\ a[2] = n
    BY <2>6, <2>7
  <2> QED BY <2>6, <2>7, <2>8, RelevanceIs
<1> QED BY <1>1, IInvInductive, PTL
=============================================================================
