----------------------------- MODULE Partition -----------------------------
(***************************************************************************)
(* GetCapability's choice of the node groups ONNX Runtime is asked to fuse *)
(* (capability.rs, partition.rs).                                          *)
(*                                                                         *)
(* Nodes are numbered by their position in the topological order that      *)
(* get_capability hands to the clustering code, so every edge goes from a  *)
(* smaller to a larger number.  A node's colour stands for the pair        *)
(* (float64, compile class) that a cluster may not mix; an unsupported     *)
(* node has the colour Unsupported.                                        *)
(***************************************************************************)
EXTENDS Naturals, FiniteSets

CONSTANTS
  N,            \* number of nodes of the optimized graph
  Colours,      \* (float64, CompilePartitionClass) pairs
  Unsupported,  \* the "colour" of a node claimable() rejected
  Graphs,       \* the edge sets the optimized graph may have
  Spans         \* layers per partition select_layer_partition_span may answer

Node == 1..N

\* Edges that respect the topological order.
Forward == {p \in Node \X Node : p[1] < p[2]}

ASSUME NAssumption == N \in Nat
ASSUME ColoursAssumption == Unsupported \notin Colours
ASSUME GraphsAssumption == Graphs \subseteq SUBSET Forward
ASSUME SpansAssumption == Spans \subseteq Nat \ {0}

VARIABLES
  edge,      \* input: the data-flow edges
  colour,    \* input: Node -> Colours or Unsupported
  mixed,     \* input: mixed_vision_quant_graph
  pc,        \* which loop of cluster_edges or get_capability runs
  cursor,    \* the reverse topological sweep computes reach for this node next
  reach,     \* reach[n]: the nodes the code has found reachable from n
  root,      \* uf_find(n)
  sweep,     \* edges the current pass has not tried yet
  changed,   \* did the current pass merge anything?
  clusters   \* the surviving groups

vars == <<edge, colour, mixed, pc, cursor, reach, root, sweep, changed, clusters>>
inputs == <<edge, colour, mixed>>

-----------------------------------------------------------------------------
(* Graph helpers. *)

Supported == {n \in Node : colour[n] # Unsupported}

Succ(n) == {m \in Node : <<n, m>> \in edge}

\* Mutant: the edge list pairs up nodes of the order, not producer and consumer.
FusibleEdgesOfOrder ==
  {p \in Forward : colour[p[1]] = colour[p[2]] /\ colour[p[1]] # Unsupported}

\* Mutant: the compile class of the two ends is not compared.
FusibleEdgesAnyClass ==
  {e \in edge : colour[e[1]] # Unsupported /\ colour[e[2]] # Unsupported}

\* The edges the union-find pass may merge along.
FusibleEdges ==
  {e \in edge : colour[e[1]] = colour[e[2]] /\ colour[e[1]] # Unsupported}

\* cluster_bits and reach_bits of the cluster with root r.
ClusterBits(r) == {n \in Supported : root[n] = r}
ReachBits(C) == UNION {reach[n] : n \in C}

\* is_convex: no outside node is both below and above a member.
Convex(C) ==
  \A n \in Node \ C : n \in ReachBits(C) => reach[n] \cap C = {}

\* The quotient graph of the groups: every node in no group is a vertex of its
\* own, and an edge joins two vertices when one of their members' edges does.
Quotient(P) == P \cup {{n} : n \in Node \ UNION P}
Feeds(q, r) == q # r /\ \E n \in q, m \in r : <<n, m>> \in edge

\* Mutant: cycles are looked for among the clusters only.
ResidualOfClusters(P) ==
  UNION {S \in SUBSET P : \A r \in S : \E q \in S : Feeds(q, r)}

\* What Kahn's peeling leaves: the vertices that keep a positive in-degree are
\* those of the largest set in which every vertex has a predecessor.
Residual(P) ==
  UNION {S \in SUBSET Quotient(P) : \A r \in S : \E q \in S : Feeds(q, r)}

-----------------------------------------------------------------------------
(* Reachability, in one reverse topological order (the code's own Kahn order *)
(* gives the same table).                                                    *)

Init ==
  /\ edge \in Graphs
  /\ colour \in [Node -> Colours \cup {Unsupported}]
  /\ mixed \in BOOLEAN
  /\ pc = IF mixed THEN "contiguous" ELSE "reach"
  /\ cursor = N
  /\ reach = [n \in Node |-> {}]
  /\ root = [n \in Node |-> n]
  /\ sweep = {}
  /\ changed = FALSE
  /\ clusters = {}

ComputeReach ==
  /\ pc = "reach"
  /\ cursor > 0
  /\ reach' = [reach EXCEPT ![cursor] = Succ(cursor) \cup ReachBits(Succ(cursor))]
  /\ cursor' = cursor - 1
  /\ UNCHANGED <<inputs, pc, root, sweep, changed, clusters>>

\* The first pass over the edges starts.
StartMerging ==
  /\ pc = "reach"
  /\ cursor = 0
  /\ pc' = "merge"
  /\ sweep' = FusibleEdges
  /\ UNCHANGED <<inputs, cursor, reach, root, changed, clusters>>

-----------------------------------------------------------------------------
(* Convex union-find merging, to a fixpoint.  A pass visits the edges by   *)
(* source node; the order among one node's successors is the graph's.      *)

Untried(e) == e \in sweep /\ \A f \in sweep : e[1] <= f[1]

Merged(e) == ClusterBits(root[e[1]]) \cup ClusterBits(root[e[2]])

SkipEdge(e) ==
  /\ pc = "merge"
  /\ Untried(e)
  /\ root[e[1]] = root[e[2]] \/ ~Convex(Merged(e))
  /\ sweep' = sweep \ {e}
  /\ UNCHANGED <<inputs, pc, cursor, reach, root, changed, clusters>>

MergeEdge(e) ==
  /\ pc = "merge"
  /\ Untried(e)
  /\ root[e[1]] # root[e[2]]
  /\ Convex(Merged(e))
  /\ root' = [n \in Node |-> IF root[n] = root[e[2]] THEN root[e[1]] ELSE root[n]]
  /\ changed' = TRUE
  /\ sweep' = sweep \ {e}
  /\ UNCHANGED <<inputs, pc, cursor, reach, clusters>>

\* Mutant: `changed` is not cleared at the top of the loop.
NextPassKeepsChanged ==
  /\ pc = "merge"
  /\ sweep = {}
  /\ changed
  /\ sweep' = FusibleEdges
  /\ UNCHANGED <<inputs, pc, cursor, reach, root, changed, clusters>>

\* `while changed` goes round again.
NextPass ==
  /\ pc = "merge"
  /\ sweep = {}
  /\ changed
  /\ sweep' = FusibleEdges
  /\ changed' = FALSE
  /\ UNCHANGED <<inputs, pc, cursor, reach, root, clusters>>

Grouped == {ClusterBits(root[n]) : n \in Supported}

\* Mutant: one pass over the edges is thought to be enough.
EndMergingAfterOnePass ==
  /\ pc = "merge"
  /\ sweep = {}
  /\ pc' = "break"
  /\ clusters' = Grouped
  /\ UNCHANGED <<inputs, cursor, reach, root, sweep, changed>>

\* Nothing merged in a whole pass: group the nodes by root.
EndMerging ==
  /\ pc = "merge"
  /\ sweep = {}
  /\ ~changed
  /\ pc' = "break"
  /\ clusters' = Grouped
  /\ UNCHANGED <<inputs, cursor, reach, root, sweep, changed>>

-----------------------------------------------------------------------------
(* Breaking the cycles of the quotient graph. *)

\* min_by_key(len) over the clusters left with a positive in-degree.  They are
\* numbered in the iteration order of a HashMap, so a tie may go either way.
Victims ==
  LET cyclic == Residual(clusters) \cap clusters
  IN  {c \in cyclic : \A d \in cyclic : Cardinality(c) <= Cardinality(d)}

DropVictim(c) ==
  /\ pc = "break"
  /\ c \in Victims
  /\ clusters' = clusters \ {c}
  /\ UNCHANGED <<inputs, pc, cursor, reach, root, sweep, changed>>

\* Everything was peeled, or (`None => break`) no cluster is left to blame.
EndBreaking ==
  /\ pc = "break"
  /\ Victims = {}
  /\ pc' = "claim"
  /\ UNCHANGED <<inputs, cursor, reach, root, sweep, changed, clusters>>

-----------------------------------------------------------------------------
(* build_contiguous_clusters: the maximal runs of the order with one colour. *)

Runs ==
  {C \in SUBSET Supported :
     \E a, b \in Supported :
       /\ a <= b
       /\ C = a..b
       /\ \A n \in C : colour[n] = colour[a]
       /\ a > 1 => colour[a - 1] # colour[a]
       /\ b < N => colour[b + 1] # colour[a]}

Contiguous ==
  /\ pc = "contiguous"
  /\ clusters' = Runs
  /\ pc' = "claim"
  /\ UNCHANGED <<inputs, cursor, reach, root, sweep, changed>>

-----------------------------------------------------------------------------
(* split_annotated_layer_clusters: each cluster is cut after every span-th  *)
(* of its nodes that produce a layer boundary.                              *)

LayersBefore(C, boundary, n) == Cardinality({b \in boundary \cap C : b < n})

SplitOne(C, boundary, span) ==
  {{m \in C : LayersBefore(C, boundary, m) \div span
              = LayersBefore(C, boundary, n) \div span} : n \in C}

Split(P, boundary, span) == UNION {SplitOne(C, boundary, span) : C \in P}

\* EpGraphSupportInfo_AddNodesToFuse is called once per group.
ClaimWhole ==
  /\ pc = "claim"
  /\ pc' = "fuse"
  /\ UNCHANGED <<inputs, cursor, reach, root, sweep, changed, clusters>>

ClaimSplit(boundary, span) ==
  /\ pc = "claim"
  /\ pc' = "fuse"
  /\ clusters' = Split(clusters, boundary, span)
  /\ UNCHANGED <<inputs, cursor, reach, root, sweep, changed>>

-----------------------------------------------------------------------------

Next ==
  \/ ComputeReach
  \/ StartMerging
  \/ \E e \in sweep : SkipEdge(e) \/ MergeEdge(e)
  \/ NextPass
  \/ EndMerging
  \/ \E c \in clusters : DropVictim(c)
  \/ EndBreaking
  \/ Contiguous
  \/ ClaimWhole
  \/ \E boundary \in SUBSET Node, span \in Spans : ClaimSplit(boundary, span)

\* The callback runs to its end on the thread ONNX Runtime calls it from.
Spec == Init /\ [][Next]_vars /\ WF_vars(Next)

-----------------------------------------------------------------------------
(* Properties. *)

TypeOK ==
  /\ edge \in Graphs
  /\ colour \in [Node -> Colours \cup {Unsupported}]
  /\ mixed \in BOOLEAN
  /\ pc \in {"contiguous", "reach", "merge", "break", "claim", "fuse"}
  /\ cursor \in 0..N
  /\ reach \in [Node -> SUBSET Node]
  /\ root \in [Node -> Node]
  /\ sweep \subseteq edge
  /\ changed \in BOOLEAN
  /\ clusters \subseteq SUBSET Node

\* Every node a data-flow path leads to from n: the smallest set that holds the
\* consumers of n and of its own members (the reach table plays no part).
PathsFrom(n) ==
  {m \in Node : \A D \in SUBSET Node :
     Succ(n) \subseteq D /\ (\A k \in D : Succ(k) \subseteq D) => m \in D}

\* No path leaves C and comes back.
Unbroken(C) == \A m, n \in C : \A x \in PathsFrom(m) \ C : n \notin PathsFrom(x)

\* Every group handed to ONNX Runtime, whole or cut at layer boundaries, holds
\* claimable nodes of one colour only, shares no node with another group, and
\* no data-flow path leaves it and comes back: otherwise a fused node would
\* have to run before and after a node outside it (partition.rs:39-40).
ClaimSound ==
  pc = "fuse" =>
    /\ \A C \in clusters :
         /\ C # {} /\ C \subseteq Supported
         /\ \A m, n \in C : colour[m] = colour[n]
         /\ Unbroken(C)
    /\ \A C, D \in clusters : C # D => C \cap D = {}

\* A finite graph is acyclic if any set of its vertices has one no other feeds.
Acyclic(V) == \A S \in SUBSET V : S # {} => \E r \in S : \A q \in S : ~Feeds(q, r)

\* The graph ONNX Runtime is left with once every group, whole or cut at layer
\* boundaries, is one node can be scheduled.  Convexity of each group does not
\* give this (two convex groups may feed each other), which is why cluster_edges
\* drops clusters; cutting at layer boundaries must not undo it.
FusedAcyclic == pc = "fuse" => Acyclic(Quotient(clusters))

\* The merge loop stops only at a fixpoint: no fusible edge is left whose two
\* clusters could still be joined, whatever order the passes tried them in.
MergedToFixpoint ==
  pc = "break" =>
    \A e \in FusibleEdges : root[e[1]] = root[e[2]] \/ ~Convex(Merged(e))

\* GetCapability answers: merging reaches its fixpoint and the cycle-breaking
\* loop runs out of cycles.
Terminates == <>(pc = "fuse")

=============================================================================
