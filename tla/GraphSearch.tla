---------------------------- MODULE GraphSearch ----------------------------
(***************************************************************************)
(* Questions to the knowledge graph while it is built: GraphRetriever over *)
(* Neo4jGraphStore, with reciprocal rank fusion.  Every query of the store *)
(* is a step, and the build may write between two of them.                 *)
(***************************************************************************)
EXTENDS GraphIndex

CONSTANTS Texts,      \* what is asked
          Mentions,   \* pairs of a text and a name that share a term
          Near,       \* pairs whose embeddings pass embed_retrieval_threshold
          Symmetric,  \* symmetric_relations
          TopK, MaxHops,
          MaxSearches \* bound: questions asked

ASSUME GraphSearchAssumption ==
    /\ TopK \in 1..2   \* ranks stay below 6, where Unit is exact
    /\ MaxHops \in Nat /\ MaxSearches \in Nat

VARIABLES search,   \* the question in progress, or its answer
          searches

searchVars == <<graphVars, search, searches>>

---------------------------------------------------------------------------
(* rrf.                                                                    *)

\* 1 / (60 + rank), in units of 1 / lcm(60..65).
Unit(rank) == 495593280 \div (60 + rank)

Position(seq, x) == CHOOSE n \in DOMAIN seq : seq[n] = x

\* What one ranking adds to the score of id, and what all of them add.
Share(ranking, id) == IF id \in ToSet(ranking) THEN Unit(Position(ranking, id) - 1) ELSE 0
rrf(ranked, id) == Share(ranked[1], id) + Share(ranked[2], id) + Share(ranked[3], id)

\* sorted(..., reverse=True), which is stable: where the scores are, highest
\* first.
Descending(scores) ==
    LET Place(n) == Cardinality({m \in DOMAIN scores : \/ scores[m] > scores[n]
                                                       \/ scores[m] = scores[n] /\ m <= n})
    IN [p \in 1..Cardinality(DOMAIN scores) |-> CHOOSE n \in DOMAIN scores : Place(n) = p]

FirstOf(seq, n) == SubSeq(seq, 1, IF n < Len(seq) THEN n ELSE Len(seq))

---------------------------------------------------------------------------
(* Neo4jGraphStore.match_entities.                                         *)

Channels == <<"fulltext", "Ingredient", "Dish">>

\* What a channel ranks, best first; relevance is open.
Hits(text, channel) ==
    IF channel = "fulltext"
    THEN {id \in DOMAIN nodes :
              \E name \in {nodes[id].name} \cup nodes[id].aliases : <<text, name>> \in Mentions}
    ELSE {id \in DOMAIN nodes : nodes[id].label = channel /\ <<text, nodes[id].name>> \in Near}

Limit(channel) == IF channel = "fulltext" THEN TopK * 3 ELSE TopK

Rankings(text, channel) ==
    {FirstOf(order, Limit(channel)) : order \in SetToSeqs(Hits(text, channel))}

\* fused keeps the order in which its keys came up.
Matched(ranked) ==
    LET all == ranked[1] \o ranked[2] \o ranked[3]
        keys == {n \in DOMAIN all : \A m \in 1..(n - 1) : all[m] # all[n]}
        inOrder == Descending([n \in keys |-> rrf(ranked, all[n])])
    IN FirstOf([p \in DOMAIN inOrder |->
                  [kind |-> "node", ids |-> {all[inOrder[p]]}, score |-> rrf(ranked, all[inOrder[p]])]],
               TopK)

---------------------------------------------------------------------------
(* Neo4jGraphStore.query_paths: one neighbourhood per seed.                *)

\* Where one more of the edges leads, in their direction.
Hop(reached, keys) == reached \cup {k[3] : k \in {e \in keys : e[1] \in reached}}

\* What n hops reach.
Within(seed, keys) ==
    LET reached[n \in 0..MaxHops] == IF n = 0 THEN {seed} ELSE Hop(reached[n - 1], keys)
    IN reached

\* Edges of the relations on a path of at most MaxHops from the seed.
Forward(seed) == {e \in DOMAIN edges : e[1] \in Within(seed, DOMAIN edges)[MaxHops - 1]}

\* The symmetric ones, followed in either direction.
Undirected(seed) ==
    LET both == {e \in DOMAIN edges : e[2] \in Symmetric}
        inner == Within(seed, both \cup {<<e[3], e[2], e[1]>> : e \in both})[MaxHops - 1]
    IN {e \in both : {e[1], e[3]} \cap inner # {}}

Ends(keys) == UNION {{e[1], e[3]} : e \in keys}

---------------------------------------------------------------------------
(* GraphRetriever.retrieve, query by query.                                *)

Nothing == [at |-> "idle", text |-> None, ranked |-> <<>>, seeds |-> <<>>,
            path |-> {}, evidence |-> <<>>]

SearchInit == GraphInit /\ search = Nothing /\ searches = 0

Ask(text) ==
    /\ search.at \in {"idle", "answered"}
    /\ searches < MaxSearches
    /\ searches' = searches + 1
    /\ search' = [Nothing EXCEPT !.at = "match", !.text = text]
    /\ UNCHANGED graphVars

InOrder(evidence) ==
    LET inOrder == Descending([n \in DOMAIN evidence |-> evidence[n].score])
    IN [p \in DOMAIN inOrder |-> evidence[inOrder[p]]]

\* Faulty variant: paths are left behind all entities.
OnwardUnsorted(seeds, evidence) ==
    [Nothing EXCEPT !.at = IF seeds = <<>> THEN "answered" ELSE "forward", !.text = search.text,
                    !.seeds = seeds, !.evidence = evidence]

\* What follows a query: the next traversal, or the evidence in order.
Onward(seeds, evidence) ==
    IF seeds = <<>>
    THEN [Nothing EXCEPT !.at = "answered", !.text = search.text,
                         !.evidence = InOrder(evidence)]
    ELSE [Nothing EXCEPT !.at = "forward", !.text = search.text, !.seeds = seeds,
                         !.evidence = evidence]

\* One query per channel.  After the last the matches become evidence, and
\* seeds for the traversals.
Match(asked) ==
    /\ search.at = "match"
    /\ asked = Len(search.ranked)
    /\ \E ranking \in Rankings(search.text, Channels[asked + 1]) :
          LET ranked == Append(search.ranked, ranking)
              matched == Matched(ranked)
              seeds == IF MaxHops = 0 THEN <<>> ELSE [n \in DOMAIN matched |-> matched[n].ids]
          IN search' = IF asked + 1 < Len(Channels)
                       THEN [search EXCEPT !.ranked = ranked]
                       ELSE Onward(seeds, matched)
    /\ UNCHANGED <<graphVars, searches>>

TraverseForward ==
    /\ search.at = "forward"
    /\ \E seed \in Head(search.seeds) :
          search' = [search EXCEPT !.at = "undirected", !.path = Ends(Forward(seed))]
    /\ UNCHANGED <<graphVars, searches>>

\* The union of both traversals is the path of a seed, scored like the best
\* seed in it.  A path that reads like an earlier one is dropped; whether two
\* of the same nodes do is open, as is the order the store returns them in.
TraverseUndirected ==
    /\ search.at = "undirected"
    /\ \E seed \in Head(search.seeds) :
        LET path == search.path \cup Ends(Undirected(seed))
            ranked == search.evidence
            scores == {ranked[n].score : n \in
                           {n \in DOMAIN ranked : ranked[n].kind = "node" /\ ranked[n].ids \subseteq path}}
            best == CHOOSE s \in scores : \A t \in scores : t <= s
            again == \E n \in DOMAIN ranked : ranked[n].kind = "path" /\ ranked[n].ids = path
            added == Append(ranked, [kind |-> "path", ids |-> path, score |-> best])
        IN \E evidence \in (IF path = {} \/ again THEN {ranked} ELSE {})
                            \cup (IF path # {} THEN {added} ELSE {}) :
              search' = Onward(Tail(search.seeds), evidence)
    /\ UNCHANGED <<graphVars, searches>>

Retrieve ==
    \/ (\E asked \in 0..(Len(Channels) - 1) : Match(asked))
    \/ TraverseForward \/ TraverseUndirected

SearchNext ==
    \/ GraphNext /\ UNCHANGED <<search, searches>>
    \/ Retrieve
    \/ \E text \in Texts : Ask(text)

SearchSpec == SearchInit /\ [][SearchNext]_searchVars /\ WF_searchVars(Build /\ UNCHANGED <<search, searches>>)

---------------------------------------------------------------------------
(* Properties.                                                             *)

\* Evidence reaches the language model best first, and a neighbourhood only
\* after a matched entity of its own that scores the same: also when the build
\* wrote between the match and the traversal.
PathFollowsItsSeed ==
    search.at = "answered" =>
        \A n \in DOMAIN search.evidence :
            /\ \A m \in 1..n : search.evidence[m].score >= search.evidence[n].score
            /\ search.evidence[n].kind = "path" =>
                   \E m \in 1..(n - 1) : /\ search.evidence[m].kind = "node"
                                         /\ search.evidence[m].ids \subseteq search.evidence[n].ids
                                         /\ search.evidence[m].score = search.evidence[n].score
============================================================================
