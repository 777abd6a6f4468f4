----------------------------- MODULE GraphIndex -----------------------------
(***************************************************************************)
(* The build of the knowledge graph: run_default loads the accepted labels *)
(* of the deduplication store, GraphIndexer maps each to nodes and edges,  *)
(* resolves them against the graph, fuses them and writes them through     *)
(* Neo4jGraphStore, and records finished documents in a checkpoint file.   *)
(*                                                                         *)
(* Each query of the store is a step, as is each half of the write of the  *)
(* checkpoint: the program may die between any two.  Of a node or an edge  *)
(* the fields are kept that decide how things are found and fused; of its  *)
(* properties, which documents contributed some.                           *)
(***************************************************************************)
EXTENDS Naturals, Sequences, SequencesExt, FiniteSets

CONSTANTS Documents,   \* rows of the deduplication store
          Payload,     \* of a document: the label, or None when it is no object
          Slug, Lower, \* slug(name) and name.lower()
          Similar,     \* pairs of names whose embeddings pass embed_threshold
          MaxCrashes,  \* bound: how often a build dies
          None

VARIABLES accepted,   \* documents whose label was accepted, still growing
          nodes,      \* the Entity nodes by id
          edges,      \* the relationships by source, relation and target
          checkpoint, \* the file: the documents it names, or None when
                      \* it is missing or was left half written
          builder,    \* the running build
          crashes

graphVars == <<accepted, nodes, edges, checkpoint, builder, crashes>>

NoFunction == [x \in {} |-> x]

Names == DOMAIN Slug
Labels == {"Dish", "Ingredient"}
Ids == Labels \X {Slug[n] : n \in Names}

\* The documents that are not passed over.
Readable == {d \in Documents : Payload[d] # None}

Relations == {"CONTAINS"} \cup
             UNION {{row.relation : row \in ToSet(Payload[d].relations)} : d \in Readable}

Items == [name : Names, aliases : Seq(Names)]
Rows == [from : Names, relation : Relations, to : Names]

\* Upper and lower case make no difference to a slug, and a slug has itself as
\* its slug: "the canonical English name lowercased with spaces and punctuation
\* replaced by hyphens".
ASSUME GraphAssumption ==
    /\ \A n \in Names : Slug[n] = n => Lower[n] = n
    /\ \A m, n \in Names : Lower[m] = Lower[n] \/ Lower[m] = Slug[n] => Slug[m] = Slug[n]
    /\ \A d \in Readable :
           /\ Payload[d].dish \in Items /\ Payload[d].ingredients \in Seq(Items)
           /\ Payload[d].relations \in Seq(Rows)
    /\ None \notin Ids
    /\ MaxCrashes \in Nat

---------------------------------------------------------------------------
(* GraphIndexer._map under the recipe schema: the dish and its ingredients *)
(* are nodes, CONTAINS joins them, and a dish relation names two dishes by *)
(* slug, for each of which a stub node is made.                            *)

NodeId(label, name) == <<label, Slug[name]>>

Candidate(label, item) ==
    [id |-> NodeId(label, item.name), label |-> label, name |-> item.name,
     aliases |-> item.aliases, stub |-> FALSE]

Stub(name) ==
    [id |-> NodeId("Dish", name), label |-> "Dish", name |-> name,
     aliases |-> <<>>, stub |-> TRUE]

\* Two of each row, in the order of the rows.
StubsOf(rows) ==
    [n \in 1..(2 * Len(rows)) |-> IF n % 2 = 1 THEN Stub(rows[(n + 1) \div 2].from)
                                              ELSE Stub(rows[n \div 2].to)]

MapNodes(payload) ==
    <<Candidate("Dish", payload.dish)>>
        \o [n \in DOMAIN payload.ingredients |-> Candidate("Ingredient", payload.ingredients[n])]
        \o StubsOf(payload.relations)

MapEdges(payload) ==
    {<<NodeId("Dish", payload.dish.name), "CONTAINS", NodeId("Ingredient", item.name)>> :
         item \in ToSet(payload.ingredients)}
    \cup {<<NodeId("Dish", row.from), row.relation, NodeId("Dish", row.to)>> :
              row \in ToSet(payload.relations)}

\* GraphIndexer._map of each document.
CandidatesOf == [d \in Readable |-> MapNodes(Payload[d])]
EdgesOf == [d \in Readable |-> MapEdges(Payload[d])]

---------------------------------------------------------------------------
(* Neo4jGraphStore.resolve_entities.                                       *)

NamesOf(node) == {Lower[node.name]} \cup {Lower[a] : a \in node.aliases}

WithName(label, name) ==
    {id \in DOMAIN nodes : nodes[id].label = label /\ Lower[name] \in NamesOf(nodes[id])}

\* Those of the first alias that some node answers to.
WithAlias(c) ==
    UNION {WithName(c.label, c.aliases[n]) : n \in
               {n \in DOMAIN c.aliases : \A m \in 1..(n - 1) : WithName(c.label, c.aliases[m]) = {}}}

Nearest(c) == {id \in DOMAIN nodes : nodes[id].label = c.label
                                       /\ <<c.name, nodes[id].name>> \in Similar}

\* The nodes a candidate may resolve to.  Names and aliases are looked up in
\* a dictionary filled in the order of the query's result, which is open.
Matches(c) ==
    IF c.id \in DOMAIN nodes THEN {c.id}
    ELSE IF WithName(c.label, c.name) # {} THEN WithName(c.label, c.name)
    ELSE IF WithAlias(c) # {} THEN WithAlias(c)
    ELSE IF Nearest(c) # {} THEN Nearest(c)
    ELSE {None}

---------------------------------------------------------------------------
(* GraphIndexer._resolve_and_upsert.                                       *)

IsStubName(name) == name = Slug[name]

\* A node made from a candidate alone; document is its source.
Fresh(c, document) ==
    [label |-> c.label, name |-> c.name, aliases |-> ToSet(c.aliases),
     source |-> IF c.stub THEN None ELSE document,
     provenance |-> IF c.stub THEN {} ELSE {document}]

\* Faulty variant: the candidate's aliases take the place of the node's.
MergeNodesAnew(canonical, c, document) ==
    LET fresh == Fresh(c, document)
    IN [label      |-> canonical.label,
        name       |-> IF IsStubName(canonical.name) THEN c.name ELSE canonical.name,
        aliases    |-> ToSet(c.aliases),
        source     |-> IF canonical.source # None THEN canonical.source ELSE fresh.source,
        provenance |-> canonical.provenance \cup fresh.provenance]

MergeNodes(canonical, c, document) ==
    LET fresh == Fresh(c, document)
        other == IF c.name # canonical.name THEN {c.name} ELSE {}
    IN [label      |-> canonical.label,
        name       |-> IF IsStubName(canonical.name) THEN c.name ELSE canonical.name,
        aliases    |-> canonical.aliases \cup other \cup ToSet(c.aliases),
        source     |-> IF canonical.source # None THEN canonical.source ELSE fresh.source,
        provenance |-> canonical.provenance \cup fresh.provenance]

CanonicalId(c, matched) == IF matched = None THEN c.id ELSE matched

Put(function, key, value) ==
    [k \in DOMAIN function \cup {key} |-> IF k = key THEN value ELSE function[k]]

\* What the candidate adds to the nodes of its document: it is folded into the
\* node of its canonical id, which starts from the node it was matched with.
Fuse(canonical, c, matched, document) ==
    LET id == CanonicalId(c, matched)
        node == CASE id \in DOMAIN canonical -> MergeNodes(canonical[id], c, document)
                  [] id \notin DOMAIN canonical /\ matched # None -> MergeNodes(nodes[id], c, document)
                  [] OTHER -> Fresh(c, document)
    IN Put(canonical, id, node)

\* Faulty variant: edges keep the identifiers the candidates had.
RemapNot(remap, e) == e

\* Where the endpoints of an edge went.
Remap(remap, e) == <<remap[e[1]], e[2], remap[e[3]]>>

\* An edge written over what was read of it: the first source stays.
MergeEdge(read, key, document) ==
    IF key \in DOMAIN read
    THEN [source |-> read[key].source, provenance |-> read[key].provenance \cup {document}]
    ELSE [source |-> document, provenance |-> {document}]

Overwrite(function, written) ==
    [k \in DOMAIN function \cup DOMAIN written |->
        IF k \in DOMAIN written THEN written[k] ELSE function[k]]

---------------------------------------------------------------------------
(* One build, from reading the checkpoint to the end of the last document. *)

Down == [at |-> "down", done |-> {}, todo |-> {}, document |-> None,
         next |-> 0, fused |-> NoFunction, remap |-> NoFunction,
         keys |-> {}, read |-> NoFunction, relation |-> None]

GraphInit ==
    /\ accepted = {}
    /\ nodes = NoFunction /\ edges = NoFunction
    /\ checkpoint = None
    /\ builder = Down
    /\ crashes = 0

\* The labeling pipeline accepts another label.
Accept(d) ==
    /\ d \notin accepted
    /\ accepted' = accepted \cup {d}
    /\ UNCHANGED <<nodes, edges, checkpoint, builder, crashes>>

Recorded == IF checkpoint = None THEN {} ELSE checkpoint

\* run_default: the rows are loaded, the checkpoint is read, unreadable or
\* not, and what it names is skipped.
Start ==
    /\ builder.at = "down"
    /\ accepted \ Recorded # {}
    /\ builder' = [Down EXCEPT !.at = "next", !.done = Recorded, !.todo = accepted \ Recorded]
    /\ UNCHANGED <<accepted, nodes, edges, checkpoint, crashes>>

\* The next row, in the order SQLite returns them; a document whose label is
\* no object is passed over and never recorded.
TakeDocument(d) ==
    /\ builder.at = "next"
    /\ d \in builder.todo
    /\ builder' = IF d \notin Readable
                  THEN [builder EXCEPT !.todo = @ \ {d}]
                  ELSE [builder EXCEPT !.at = "fuse", !.todo = @ \ {d}, !.document = d, !.next = 1,
                                       !.fused = NoFunction, !.remap = NoFunction]
    /\ UNCHANGED <<accepted, nodes, edges, checkpoint, crashes>>

\* The loop over the candidates, and the edges behind it.  Nobody else writes
\* nodes, so that what resolve_entities found for all candidates before the
\* loop is what it finds for each now.
FuseCandidate ==
    LET d == builder.document
        candidates == CandidatesOf[d]
        c == candidates[builder.next]
    IN /\ builder.at = "fuse"
       /\ \E matched \in Matches(c) :
            LET fused == Fuse(builder.fused, c, matched, d)
                remap == Put(builder.remap, c.id, CanonicalId(c, matched))
            IN builder' = IF builder.next < Len(candidates)
                          THEN [builder EXCEPT !.next = @ + 1, !.fused = fused, !.remap = remap]
                          ELSE [builder EXCEPT !.at = "nodes", !.next = 0, !.fused = fused,
                                    !.remap = NoFunction,
                                    !.keys = {Remap(remap, e) : e \in EdgesOf[d]}]
       /\ UNCHANGED <<accepted, nodes, edges, checkpoint, crashes>>

\* upsert_nodes: one query, which replaces each node as a whole.
UpsertNodes ==
    /\ builder.at = "nodes"
    /\ nodes' = Overwrite(nodes, builder.fused)
    /\ builder' = [builder EXCEPT !.at = "edges", !.fused = NoFunction]
    /\ UNCHANGED <<accepted, edges, checkpoint, crashes>>

\* upsert_edges: for each relation, the existing edges are read ...
ReadEdges(relation) ==
    LET batch == {k \in builder.keys : k[2] = relation}
    IN /\ builder.at = "edges"
       /\ batch # {}
       /\ builder' = [builder EXCEPT !.at = "merge", !.relation = relation,
              !.read = [k \in batch \cap DOMAIN edges |-> edges[k]]]
       /\ UNCHANGED <<accepted, nodes, edges, checkpoint, crashes>>

\* ... and written back merged, between nodes that exist.
WriteEdges ==
    LET batch == {k \in builder.keys : k[2] = builder.relation}
        joined == {k \in batch : k[1] \in DOMAIN nodes /\ k[3] \in DOMAIN nodes}
    IN /\ builder.at = "merge"
       /\ edges' = Overwrite(edges,
              [k \in joined |-> MergeEdge(builder.read, k, builder.document)])
       /\ builder' = [builder EXCEPT !.at = "edges", !.keys = @ \ batch,
                                     !.read = NoFunction, !.relation = None]
       /\ UNCHANGED <<accepted, nodes, checkpoint, crashes>>

\* write_text truncates the file before it fills it.
TruncateCheckpoint ==
    /\ builder.at = "edges"
    /\ builder.keys = {}
    /\ checkpoint' = None
    /\ builder' = [builder EXCEPT !.at = "record", !.done = @ \cup {builder.document}]
    /\ UNCHANGED <<accepted, nodes, edges, crashes>>

\* Faulty variant: the file names the last document only.
FillWithLast ==
    /\ builder.at = "record"
    /\ checkpoint' = {builder.document}
    /\ builder' = [builder EXCEPT !.at = "next", !.document = None]
    /\ UNCHANGED <<accepted, nodes, edges, crashes>>

FillCheckpoint ==
    /\ builder.at = "record"
    /\ checkpoint' = builder.done
    /\ builder' = [builder EXCEPT !.at = "next", !.document = None]
    /\ UNCHANGED <<accepted, nodes, edges, crashes>>

Finish ==
    /\ builder.at = "next"
    /\ builder.todo = {}
    /\ builder' = Down
    /\ UNCHANGED <<accepted, nodes, edges, checkpoint, crashes>>

\* The process dies, or a query or the embedding service fails and the
\* exception ends it.
Crash ==
    /\ builder.at # "down"
    /\ crashes < MaxCrashes
    /\ builder' = Down
    /\ crashes' = crashes + 1
    /\ UNCHANGED <<accepted, nodes, edges, checkpoint>>

Build ==
    \/ Start \/ (\E d \in Documents : TakeDocument(d)) \/ FuseCandidate \/ UpsertNodes
    \/ (\E r \in Relations : ReadEdges(r)) \/ WriteEdges
    \/ TruncateCheckpoint \/ FillCheckpoint \/ Finish

GraphNext == Build \/ Crash \/ (\E d \in Documents : Accept(d))

\* Labels keep being accepted or not as they please; the operator starts the
\* build again when it died.
GraphSpec == GraphInit /\ [][GraphNext]_graphVars /\ WF_graphVars(Build)

---------------------------------------------------------------------------
(* Properties.                                                             *)

\* The nodes of graph that a candidate is found as, by id or by a name.
FoundIn(graph, c) ==
    {id \in DOMAIN graph : \/ id = c.id
                           \/ graph[id].label = c.label /\ Lower[c.name] \in NamesOf(graph[id])}

\* The candidate of document is found as a node that cites it.
Cited(graph, c, document) ==
    \E id \in FoundIn(graph, c) : c.stub \/ document \in graph[id].provenance

\* The edge key stands for e, between nodes e's endpoints are found as.
Joins(graph, key, e, candidates) ==
    /\ key[2] = e[2]
    /\ \E m, n \in DOMAIN candidates :
          /\ candidates[m].id = e[1] /\ key[1] \in FoundIn(graph, candidates[m])
          /\ candidates[n].id = e[3] /\ key[3] \in FoundIn(graph, candidates[n])

Citing(document) == {key \in DOMAIN edges : document \in edges[key].provenance}

NodesInGraph(d) == \A n \in DOMAIN CandidatesOf[d] : Cited(nodes, CandidatesOf[d][n], d)

\* Every edge of d is among keys, between nodes of graph.
Joined(keys, graph, d) ==
    \A e \in EdgesOf[d] : \E key \in keys : Joins(graph, key, e, CandidatesOf[d])

EdgesInGraph(d) == Joined(Citing(d), nodes, d)

\* A graph's nodes, written or about to be, have the types the code gives them,
\* and a node that has only a slug for its name can be found by it.
NodesOK(graph) ==
    /\ DOMAIN graph \subseteq Ids /\ IsFiniteSet(DOMAIN graph)
    /\ \A id \in DOMAIN graph :
          /\ graph[id] \in [label : Labels, name : Names, aliases : SUBSET Names,
                            source : accepted \cup {None}, provenance : SUBSET accepted]
          /\ graph[id].label = id[1]
          /\ IsStubName(graph[id].name) => graph[id].name \in {id[2]} \cup graph[id].aliases

\* Edges between nodes of graph.
Between(graph) == (DOMAIN graph) \X Relations \X (DOMAIN graph)

Steps == {"down", "next", "fuse", "nodes", "edges", "merge", "record"}

\* Every variable has the type the code gives it.
GraphTypeOK ==
    /\ accepted \subseteq Documents
    /\ NodesOK(nodes)
    /\ DOMAIN edges \subseteq Between(nodes)
    /\ \A key \in DOMAIN edges :
          edges[key].source \in accepted /\ edges[key].provenance \subseteq accepted
    /\ Recorded \subseteq accepted
    /\ DOMAIN builder = DOMAIN Down /\ builder.at \in Steps
    /\ builder.todo \subseteq accepted /\ builder.done \subseteq accepted
    /\ crashes \in 0..MaxCrashes

\* The entities of d can be found in the graph, as nodes that cite it, and its
\* relations as edges that cite it, between nodes its endpoints are found as.
InGraph(d) == d \in Readable /\ NodesInGraph(d) /\ EdgesInGraph(d)

\* The checkpoint names a document only when all that it says is in the graph,
\* however often the build died in between and whatever was fused with it since.
RecordedIsInGraph == \A d \in Recorded : InGraph(d)

\* A node that was fused keeps its documents and its source, and answers to all
\* its names, but for the slug of a stub, which is its id.
Grown(id, old, new) ==
    /\ old.label = new.label
    /\ old.provenance \subseteq new.provenance
    /\ old.source \in {None, new.source}
    /\ NamesOf(old) \subseteq {id[2]} \cup NamesOf(new)

\* The first count candidates of d are found in the nodes fused for it, which
\* hold all that the graph has of them.
Fused(fused, d, count) ==
    /\ NodesOK(fused)
    /\ \A id \in DOMAIN nodes \cap DOMAIN fused : Grown(id, nodes[id], fused[id])
    /\ \A n \in 1..count : Cited(fused, CandidatesOf[d][n], d)

\* Each of their ids went to a node it is found as.
Moved(remap, fused, d, count) ==
    /\ DOMAIN remap = {CandidatesOf[d][n].id : n \in 1..count}
    /\ \A id \in DOMAIN remap : \E n \in DOMAIN CandidatesOf[d] :
          CandidatesOf[d][n].id = id /\ remap[id] \in FoundIn(fused, CandidatesOf[d][n])

\* How far the builder is with its document, from one query to the next.
BuilderInv ==
    LET d == builder.document
    IN /\ builder.at \in {"fuse", "nodes", "edges", "merge", "record"} => d \in accepted \cap Readable
       /\ builder.at = "fuse" =>
              /\ builder.next \in DOMAIN CandidatesOf[d]
              /\ Fused(builder.fused, d, builder.next - 1)
              /\ Moved(builder.remap, builder.fused, d, builder.next - 1)
       /\ builder.at = "nodes" =>
              /\ Fused(builder.fused, d, Len(CandidatesOf[d]))
              /\ builder.keys \subseteq Between(builder.fused)
              /\ Joined(builder.keys, builder.fused, d)
       /\ builder.at \in {"edges", "merge"} =>
              /\ NodesInGraph(d)
              /\ builder.keys \subseteq Between(nodes)
              /\ Joined(builder.keys \cup Citing(d), nodes, d)
       /\ builder.at = "merge" =>
              builder.read = [k \in {k \in builder.keys \cap DOMAIN edges : k[2] = builder.relation}
                                |-> edges[k]]
       /\ \A done \in builder.done : InGraph(done)

\* The graph has what the checkpoint says, and the builder's next write what the
\* graph has: the inductive invariant of the build.
GraphInv == GraphTypeOK /\ RecordedIsInGraph /\ BuilderInv

\* upsert_nodes replaces nodes as a whole and upsert_edges writes what it read
\* a query ago: still no node or edge loses a document that contributed to it
\* or the source it cites, and no node a name it answered to, but for the slug
\* of a stub, which is its id.
FusionOnlyAdds ==
    [][/\ \A id \in DOMAIN nodes : id \in DOMAIN nodes' /\ Grown(id, nodes[id], nodes'[id])
       /\ \A key \in DOMAIN edges :
            /\ key \in DOMAIN edges'
            /\ edges[key].provenance \subseteq edges'[key].provenance
            /\ edges[key].source = edges'[key].source]_<<nodes, edges>>

\* Once no more labels come, every one with a payload gets recorded, and stays
\* recorded.
AcceptedIsRecorded ==
    <>[](\A d \in accepted \cap Readable : d \in Recorded)

\* "Upserts are idempotent (MERGE keyed on id), so [...] a crash mid-document
\* redoes that whole document safely": a document whose relations are all in
\* the graph already was written before, and writing it again changes no node.
RedoIsSafe ==
    [][~ /\ builder.at = "nodes"
         /\ \A k \in builder.keys :
               k \in DOMAIN edges /\ builder.document \in edges[k].provenance]_nodes
============================================================================
