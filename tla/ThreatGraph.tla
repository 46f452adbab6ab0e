---------------------------- MODULE ThreatGraph ----------------------------
(***************************************************************************)
(* The correlation graph: the table correlation_edges with its repository  *)
(* and the queries of app/correlation/graph.py.  An edge is keyed by its   *)
(* source, its target and its relationship; the table E maps keys to what  *)
(* else is stored, and K = DOMAIN E is what the queries work on.           *)
(***************************************************************************)
EXTENDS Naturals, SequencesExt

Edge(src, dst, rel) == [src |-> src, dst |-> dst, rel |-> rel]

\* upsert_edge, of several keys at once: the confidence (in tenths) is
\* overwritten, the source stays the first.
UpsertEdges(E, keys, confidence, source) ==
    [k \in DOMAIN E \cup keys |->
        IF k \notin keys THEN E[k]
        ELSE [confidence |-> confidence,
              source |-> IF k \in DOMAIN E THEN E[k].source ELSE source]]

Nodes(K) == {k.src : k \in K} \cup {k.dst : k \in K}

\* mutant of EdgesTouching: only what leaves ref is fetched.
EdgesFrom(K, ref) == {k \in K : k.src = ref}

EdgesTouching(K, ref) == {k \in K : ref \in {k.src, k.dst}}

\* Direct relations, in both directions.
Neighbors(K, ref) ==
    {[ref |-> k.dst, direction |-> "out", rel |-> k.rel] : k \in {e \in K : e.src = ref}}
    \cup {[ref |-> k.src, direction |-> "in", rel |-> k.rel] : k \in {e \in K : e.dst = ref}}

Adjacent(K, S) == {k.dst : k \in {e \in K : e.src \in S}}
                  \cup {k.src : k \in {e \in K : e.dst \in S}}

Reach(K, ref, depth) ==
    LET reach[d \in 0..depth] ==
            IF d = 0 THEN {ref}
            ELSE LET near == reach[d - 1] IN near \cup Adjacent(K, near) IN
    reach[depth]

\* related_within: what is within depth hops of ref, either way.
RelatedWithin(K, ref, depth) ==
    IF ref \in Nodes(K) THEN Reach(K, ref, depth) \ {ref} ELSE {}

\* export(ref, depth): the subgraph around ref, all edges between its nodes.
Pivot(K, ref, depth) ==
    LET near == RelatedWithin(K, ref, depth) \cup {ref} IN
    [nodes |-> Nodes(K) \cap near,
     edges |-> {k \in K : k.src \in near /\ k.dst \in near}]

\* Paths of n nodes from a node on, by edges in their direction.
Paths(K, from, n) ==
    LET path[m \in 1..n] ==
            IF m = 1 THEN {<<from>>}
            ELSE LET On(p) == {Append(p, k.dst) : k \in {e \in K : e.src = Last(p)}} IN
                 UNION {On(p) : p \in path[m - 1]} IN
    path[n]

\* attack_chain: the shortest paths, one of which is returned; none if there
\* is none or a node is not in the graph.
AttackChains(K, from, to) ==
    LET To(n) == {p \in Paths(K, from, n) : Last(p) = to}
        lengths == {n \in 1..Cardinality(Nodes(K)) : To(n) # {}} IN
    IF {from, to} \subseteq Nodes(K) /\ lengths # {} THEN To(Min(lengths)) ELSE {}
============================================================================
