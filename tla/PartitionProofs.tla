-------------------------- MODULE PartitionProofs --------------------------
(* Proofs about Partition, for graphs of any size and any colouring.       *)
EXTENDS Partition, FiniteSetTheorems, WellFoundedInduction, TLAPS

Later(n) == {m \in Node : m > n}

\* The reach table only looks forward, and is complete above the cursor.
ReachInv ==
  /\ pc \in {"merge", "break"} => cursor = 0
  /\ \A n \in Node : reach[n] \subseteq Later(n)
  /\ \A n \in Node : n > cursor =>
       Succ(n) \subseteq reach[n] /\ \A k \in reach[n] : Succ(k) \subseteq reach[n]

\* The clusters the union-find holds have one colour and are convex.
RootInv ==
  /\ sweep \subseteq FusibleEdges
  /\ pc = "reach" => \A n \in Node : root[n] = n
  /\ pc = "merge" => \A n \in Supported :
       /\ root[n] \in Supported
       /\ colour[root[n]] = colour[n]
       /\ Convex(ClusterBits(root[n]))

Good(C) ==
  /\ C # {} /\ C \subseteq Supported
  /\ \A m, n \in C : colour[m] = colour[n]
  /\ Unbroken(C)

Disjoint(P) == \A C, D \in P : C # D => C \cap D = {}

ClustersInv ==
  /\ pc \in {"break", "claim", "fuse"} => (\A C \in clusters : Good(C)) /\ Disjoint(clusters)
  /\ pc \in {"claim", "fuse"} => Acyclic(Quotient(clusters))

\* What ~changed means half-way through a pass.
FixpointInv ==
  /\ pc = "merge" /\ ~changed =>
       \A e \in FusibleEdges \ sweep : root[e[1]] = root[e[2]] \/ ~Convex(Merged(e))
  /\ MergedToFixpoint

-----------------------------------------------------------------------------
(* Numbers. *)

\* Every non-empty set of numbers has a least element.
LEMMA LeastNumber ==
  ASSUME NEW T \in SUBSET Nat, T # {}
  PROVE  \E x \in T : \A y \in T : x <= y
<1> DEFINE R == {p \in Nat \X Nat : p[1] < p[2]}
<1>1. IsWellFoundedOn(R, Nat)
  BY NatLessThanWellFounded DEF OpToRel
<1> HIDE DEF R
<1>2. PICK x \in T : \A y \in T : ~(<<y, x>> \in R)
  BY <1>1, WFMin
<1>3. \A y \in T : x <= y
  <2> TAKE y \in T
  <2>1. ~(<<y, x>> \in R)
    BY <1>2
  <2>2. x \in Nat /\ y \in Nat
    OBVIOUS
  <2>3. ~(y < x)
    BY <2>1, <2>2 DEF R
  <2> QED BY <2>2, <2>3
<1> QED BY <1>3

LEMMA NodesFinite ==
  /\ Node \subseteq Nat
  /\ \A C \in SUBSET Node : IsFiniteSet(C) /\ Cardinality(C) \in Nat
<1>1. Node \subseteq Nat /\ IsFiniteSet(Node)
  BY NAssumption, FS_Interval DEF Node
<1>2. ASSUME NEW C \in SUBSET Node PROVE IsFiniteSet(C) /\ Cardinality(C) \in Nat
  BY <1>1, FS_Subset, FS_CardinalityType
<1> QED BY <1>1, <1>2

-----------------------------------------------------------------------------
(* Type correctness. *)

LEMMA EdgesForward ==
  ASSUME TypeOK
  PROVE  /\ edge \subseteq Forward
         /\ \A n \in Node : Succ(n) \subseteq Later(n)
  BY GraphsAssumption DEF TypeOK, Forward, Succ, Later

LEMMA InitTypeOK == Init => TypeOK
<1> SUFFICES ASSUME Init PROVE TypeOK
  OBVIOUS
<1>1. N \in 0..N
  BY NAssumption
<1>2. pc \in {"contiguous", "reach"}
  BY DEF Init
<1> QED BY <1>1, <1>2 DEF Init, TypeOK

LEMMA SplitNodes ==
  ASSUME NEW P \in SUBSET (SUBSET Node), NEW boundary, NEW span
  PROVE  Split(P, boundary, span) \in SUBSET (SUBSET Node)
  BY DEF Split, SplitOne

LEMMA NextTypeOK ==
  ASSUME TypeOK, [Next]_vars
  PROVE  TypeOK'
<1> USE DEF TypeOK, inputs
<1>1. CASE ComputeReach
  <2>1. cursor \in Node
    BY <1>1, NAssumption DEF ComputeReach, Node
  <2>2. Succ(cursor) \cup ReachBits(Succ(cursor)) \in SUBSET Node
    <3>1. ASSUME NEW n \in Node PROVE reach[n] \subseteq Node
      OBVIOUS
    <3>2. Succ(cursor) \subseteq Node
      BY DEF Succ
    <3> QED BY <3>1, <3>2 DEF ReachBits
  <2>3. cursor - 1 \in 0..N
    BY <2>1, NAssumption DEF Node
  <2> QED BY <1>1, <2>1, <2>2, <2>3 DEF ComputeReach
<1>2. CASE StartMerging \/ NextPass
  BY <1>2 DEF StartMerging, NextPass, FusibleEdges
<1>3. ASSUME NEW e \in sweep, SkipEdge(e) PROVE TypeOK'
  BY <1>3 DEF SkipEdge
<1>4. ASSUME NEW e \in sweep, MergeEdge(e) PROVE TypeOK'
  <2>1. e[1] \in Node
    BY EdgesForward DEF Forward
  <2> QED BY <1>4, <2>1 DEF MergeEdge
<1>5. CASE EndMerging
  BY <1>5 DEF EndMerging, Grouped, ClusterBits, Supported
<1>6. ASSUME NEW c \in clusters, DropVictim(c) PROVE TypeOK'
  BY <1>6 DEF DropVictim
<1>7. CASE EndBreaking \/ ClaimWhole
  BY <1>7 DEF EndBreaking, ClaimWhole
<1>8. CASE Contiguous
  BY <1>8 DEF Contiguous, Runs, Supported
<1>9. ASSUME NEW boundary \in SUBSET Node, NEW span \in Spans, ClaimSplit(boundary, span)
      PROVE  TypeOK'
  BY <1>9, SplitNodes DEF ClaimSplit
<1>10. CASE UNCHANGED vars
  BY <1>10 DEF vars
<1> QED BY <1>1, <1>2, <1>3, <1>4, <1>5, <1>6, <1>7, <1>8, <1>9, <1>10 DEF Next

\* Every variable keeps its type, for every graph.
THEOREM TypeCorrect == Spec => []TypeOK
<1>1. TypeOK /\ [Next]_vars => TypeOK'
  BY NextTypeOK
<1> QED BY InitTypeOK, <1>1, PTL DEF Spec

-----------------------------------------------------------------------------
(* Reachability. *)

LEMMA LaterShrinks ==
  ASSUME NEW n \in Node, NEW m \in Node, m > n
  PROVE  Later(m) \subseteq Later(n)
<1> SUFFICES ASSUME NEW k \in Node, k > m PROVE k > n
  BY DEF Later
<1>1. k \in Nat /\ m \in Nat /\ n \in Nat
  BY NodesFinite
<1> QED BY <1>1

LEMMA InitReach == Init => ReachInv
<1> SUFFICES ASSUME Init PROVE ReachInv
  OBVIOUS
<1>1. cursor = N /\ \A n \in Node : reach[n] = {} /\ ~(n > N)
  BY NAssumption DEF Init, Node
<1> QED BY <1>1 DEF Init, ReachInv

LEMMA ComputeReachKeeps ==
  ASSUME TypeOK, ReachInv, ComputeReach
  PROVE  ReachInv'
<1> DEFINE new == Succ(cursor) \cup ReachBits(Succ(cursor))
<1>1. cursor \in Node /\ cursor' = cursor - 1 /\ pc' = "reach" /\ edge' = edge
  BY NAssumption DEF ComputeReach, TypeOK, Node, inputs
<1>2. /\ reach'[cursor] = new
      /\ \A n \in Node : n # cursor => reach'[n] = reach[n]
  BY <1>1 DEF ComputeReach, TypeOK
<1>3. \A m \in Succ(cursor) : m \in Node /\ m > cursor
  BY <1>1, EdgesForward DEF Later
<1>4. new \subseteq Later(cursor)
  <2>1. ASSUME NEW m \in Succ(cursor) PROVE reach[m] \subseteq Later(cursor)
    <3>1. m \in Node /\ m > cursor /\ reach[m] \subseteq Later(m)
      BY <1>3 DEF ReachInv
    <3> QED BY <1>1, <3>1, LaterShrinks
  <2> QED BY <1>3, <2>1 DEF ReachBits, Later
<1>5. \A k \in new : Succ(k) \subseteq new
  <2>1. ASSUME NEW k \in Succ(cursor) PROVE Succ(k) \subseteq new
    <3>1. Succ(k) \subseteq reach[k]
      BY <1>3 DEF ReachInv
    <3> QED BY <3>1 DEF ReachBits
  <2>2. ASSUME NEW m \in Succ(cursor), NEW k \in reach[m] PROVE Succ(k) \subseteq new
    <3>1. Succ(k) \subseteq reach[m]
      BY <1>3 DEF ReachInv
    <3> QED BY <3>1 DEF ReachBits
  <2> QED BY <2>1, <2>2 DEF ReachBits
<1>6. \A n \in Node : n > cursor - 1 => n = cursor \/ n > cursor
  BY <1>1, NodesFinite
<1>7. \A n \in Node : Succ(n)' = Succ(n)
  BY <1>1 DEF Succ
<1>8. \A n \in Node : reach'[n] \subseteq Later(n)
  BY <1>2, <1>4 DEF ReachInv
<1>9. ASSUME NEW n \in Node, n > cursor'
      PROVE  Succ(n)' \subseteq reach'[n] /\ \A k \in reach'[n] : Succ(k)' \subseteq reach'[n]
  <2>1. \A k \in reach'[n] : k \in Node
    BY <1>8 DEF Later
  <2>2. CASE n = cursor
    BY <1>2, <1>5, <1>7, <2>1, <2>2
  <2>3. CASE n # cursor
    <3>1. n > cursor /\ reach'[n] = reach[n]
      BY <1>1, <1>2, <1>6, <1>9, <2>3
    <3> QED BY <1>7, <2>1, <3>1 DEF ReachInv
  <2> QED BY <2>2, <2>3
<1> HIDE DEF new
<1> QED BY <1>1, <1>8, <1>9 DEF ReachInv, Later

LEMMA NextReach ==
  ASSUME TypeOK, ReachInv, [Next]_vars
  PROVE  ReachInv'
<1> USE DEF inputs
<1>1. ASSUME UNCHANGED <<edge, reach, cursor>>, pc' \in {"merge", "break"} => cursor = 0
      PROVE  ReachInv'
  BY <1>1 DEF ReachInv, Succ
<1>2. CASE StartMerging \/ NextPass \/ EndMerging
  BY <1>1, <1>2 DEF StartMerging, NextPass, EndMerging, ReachInv
<1>3. CASE EndBreaking \/ ClaimWhole \/ Contiguous
  BY <1>1, <1>3 DEF EndBreaking, ClaimWhole, Contiguous
<1>4. ASSUME NEW e \in sweep, SkipEdge(e) \/ MergeEdge(e) PROVE ReachInv'
  BY <1>1, <1>4 DEF SkipEdge, MergeEdge, ReachInv
<1>5. ASSUME NEW c \in clusters, DropVictim(c) PROVE ReachInv'
  BY <1>1, <1>5 DEF DropVictim, ReachInv
<1>6. ASSUME NEW boundary \in SUBSET Node, NEW span \in Spans, ClaimSplit(boundary, span)
      PROVE  ReachInv'
  BY <1>1, <1>6 DEF ClaimSplit
<1>7. CASE UNCHANGED vars
  BY <1>1, <1>7 DEF vars, ReachInv
<1> QED BY ComputeReachKeeps, <1>2, <1>3, <1>4, <1>5, <1>6, <1>7 DEF Next

\* A node the data flow leads to is in the table.
LEMMA PathsInReach ==
  ASSUME TypeOK, ReachInv, cursor = 0, NEW n \in Node
  PROVE  PathsFrom(n) \subseteq reach[n]
<1>1. n > cursor
  BY NAssumption DEF Node
<1>2. reach[n] \in SUBSET Node
  BY DEF TypeOK
<1> QED BY <1>1, <1>2 DEF ReachInv, PathsFrom

\* Paths lead forward, table or not.
LEMMA PathsForward ==
  ASSUME TypeOK, NEW n \in Node
  PROVE  PathsFrom(n) \subseteq Later(n)
<1>1. Later(n) \in SUBSET Node /\ Succ(n) \subseteq Later(n)
  BY EdgesForward DEF Later
<1>2. ASSUME NEW k \in Later(n) PROVE Succ(k) \subseteq Later(n)
  <2>1. k \in Node /\ k > n /\ Succ(k) \subseteq Later(k)
    BY EdgesForward DEF Later
  <2> QED BY <2>1, LaterShrinks
<1> QED BY <1>1, <1>2 DEF PathsFrom

LEMMA ConvexUnbroken ==
  ASSUME TypeOK, ReachInv, cursor = 0, NEW C \in SUBSET Node, Convex(C)
  PROVE  Unbroken(C)
<1> SUFFICES ASSUME NEW m \in C, NEW n \in C, NEW x \in PathsFrom(m) \ C, n \in PathsFrom(x)
             PROVE  FALSE
  BY DEF Unbroken
<1>1. x \in Node /\ x \in reach[m]
  BY PathsInReach DEF PathsFrom
<1>2. n \in reach[x]
  BY <1>1, PathsInReach
<1> QED BY <1>1, <1>2 DEF Convex, ReachBits

-----------------------------------------------------------------------------
(* Merging. *)

LEMMA SingletonConvex ==
  ASSUME TypeOK, ReachInv, NEW n \in Node
  PROVE  Convex({n})
<1> SUFFICES ASSUME NEW m \in Node \ {n}, m \in ReachBits({n}), n \in reach[m]
             PROVE  FALSE
  BY DEF Convex
<1>1. m > n /\ n > m
  BY DEF ReachBits, ReachInv, Later
<1> QED BY <1>1, NodesFinite

\* Only the graph, the colours, the table and the roots matter.
LEMMA SameClusters ==
  ASSUME UNCHANGED <<edge, colour, reach, root>>
  PROVE  /\ Supported' = Supported /\ FusibleEdges' = FusibleEdges
         /\ \A r : ClusterBits(r)' = ClusterBits(r)
         /\ \A C : Convex(C)' = Convex(C)
         /\ \A e : Merged(e)' = Merged(e)
  BY DEF Supported, FusibleEdges, ClusterBits, Convex, ReachBits, Merged

LEMMA StartMergingKeeps ==
  ASSUME TypeOK, ReachInv, RootInv, StartMerging
  PROVE  RootInv'
<1>1. pc = "reach" /\ pc' = "merge" /\ UNCHANGED <<edge, colour, reach, root>>
  BY DEF StartMerging, inputs
<1>2. ASSUME NEW n \in Supported
      PROVE  root[n] = n /\ Convex(ClusterBits(root[n]))
  <2>1. n \in Node /\ root[n] = n /\ ClusterBits(n) = {n}
    BY <1>1 DEF RootInv, Supported, ClusterBits
  <2> QED BY <2>1, SingletonConvex
<1>3. sweep' = FusibleEdges
  BY DEF StartMerging
<1> QED BY <1>1, <1>2, <1>3, SameClusters DEF RootInv

LEMMA MergeEdgeKeeps ==
  ASSUME TypeOK, RootInv, NEW e \in FusibleEdges, MergeEdge(e)
  PROVE  RootInv'
<1> DEFINE a == e[1]
           b == e[2]
<1>1. /\ a \in Supported /\ b \in Supported /\ colour[a] = colour[b]
      /\ Supported \subseteq Node
  BY EdgesForward DEF FusibleEdges, Supported, Forward
<1>2. /\ pc = "merge" /\ pc' = "merge" /\ UNCHANGED <<edge, colour, reach>>
      /\ root[a] # root[b] /\ Convex(Merged(e))
      /\ \A n \in Node : root'[n] = IF root[n] = root[b] THEN root[a] ELSE root[n]
  BY DEF MergeEdge, inputs
<1>3. Supported' = Supported /\ \A C : Convex(C)' = Convex(C)
  BY <1>2 DEF Supported, Convex, ReachBits
<1>4. \A n \in Supported : root[n] \in Supported /\ colour[root[n]] = colour[n]
  BY <1>2 DEF RootInv
<1>5. \A n \in Supported : root'[n] \in Supported /\ colour[root'[n]] = colour[n]
  BY <1>1, <1>2, <1>4
<1>6. ASSUME NEW n \in Supported PROVE Convex(ClusterBits(root[n])')
  <2>1. CASE root[n] = root[a] \/ root[n] = root[b]
    <3>1. ClusterBits(root[n])' = Merged(e)
      <4>1. root'[n] = root[a]
        BY <1>1, <1>2, <2>1
      <4> QED BY <1>1, <1>2, <1>3, <4>1 DEF ClusterBits, Merged
    <3> QED BY <1>2, <3>1
  <2>2. CASE root[n] # root[a] /\ root[n] # root[b]
    <3>1. ClusterBits(root[n])' = ClusterBits(root[n])
      BY <1>1, <1>2, <1>3, <2>2 DEF ClusterBits
    <3> QED BY <1>2, <3>1 DEF RootInv
  <2> QED BY <2>1, <2>2
<1>7. sweep' \subseteq FusibleEdges'
  BY <1>2 DEF MergeEdge, RootInv, FusibleEdges
<1> HIDE DEF a, b
<1> QED BY <1>2, <1>3, <1>5, <1>6, <1>7 DEF RootInv

\* A step that leaves the graph alone and tries no new edge.
LEMMA SweepKept ==
  ASSUME RootInv, UNCHANGED <<edge, colour>>, sweep' \subseteq sweep
  PROVE  sweep' \subseteq FusibleEdges'
  BY DEF RootInv, FusibleEdges

LEMMA NextRoot ==
  ASSUME TypeOK, ReachInv, RootInv, [Next]_vars
  PROVE  RootInv'
<1> USE DEF inputs
<1>1. CASE ComputeReach
  BY <1>1, SweepKept DEF ComputeReach, RootInv
<1>2. ASSUME pc = "merge", pc' = "merge", UNCHANGED <<edge, colour, reach, root>>,
             sweep' \subseteq FusibleEdges
      PROVE  RootInv'
  BY <1>2, SameClusters DEF RootInv
<1>3. CASE NextPass
  BY <1>2, <1>3 DEF NextPass
<1>4. ASSUME NEW e \in sweep, SkipEdge(e) PROVE RootInv'
  BY <1>2, <1>4 DEF SkipEdge, RootInv
<1>5. ASSUME NEW e \in sweep, MergeEdge(e) PROVE RootInv'
  BY <1>5, MergeEdgeKeeps DEF RootInv
<1>6. ASSUME pc' \notin {"reach", "merge"}, UNCHANGED <<edge, colour, sweep>>
      PROVE  RootInv'
  BY <1>6, SweepKept DEF RootInv
<1>7. CASE EndMerging \/ EndBreaking \/ ClaimWhole \/ Contiguous
  BY <1>6, <1>7 DEF EndMerging, EndBreaking, ClaimWhole, Contiguous
<1>8. ASSUME NEW c \in clusters, DropVictim(c) PROVE RootInv'
  BY <1>6, <1>8 DEF DropVictim
<1>9. ASSUME NEW boundary \in SUBSET Node, NEW span \in Spans, ClaimSplit(boundary, span)
      PROVE  RootInv'
  BY <1>6, <1>9 DEF ClaimSplit
<1>10. CASE UNCHANGED vars
  <2>1. UNCHANGED <<edge, colour, reach, root, pc, sweep>>
    BY <1>10 DEF vars
  <2> QED BY <2>1, SameClusters DEF RootInv
<1> QED BY StartMergingKeeps, <1>1, <1>3, <1>4, <1>5, <1>7, <1>8, <1>9, <1>10 DEF Next

LEMMA InitRoot == Init => RootInv
  BY DEF Init, RootInv

LEMMA RootHolds == Spec => [](TypeOK /\ ReachInv /\ RootInv)
<1>1. TypeOK /\ ReachInv /\ RootInv /\ [Next]_vars => TypeOK' /\ ReachInv' /\ RootInv'
  BY NextTypeOK, NextReach, NextRoot
<1> QED BY InitTypeOK, InitReach, InitRoot, <1>1, PTL DEF Spec

-----------------------------------------------------------------------------
(* The fixpoint. *)

Joined(e) == root[e[1]] = root[e[2]] \/ ~Convex(Merged(e))

LEMMA SameJoined ==
  ASSUME UNCHANGED <<edge, colour, reach, root>>
  PROVE  FusibleEdges' = FusibleEdges /\ \A e : Joined(e)' <=> Joined(e)
<1>1. \A e : Convex(Merged(e))' <=> Convex(Merged(e))
  BY DEF Convex, ReachBits, Merged, ClusterBits, Supported
<1> QED BY <1>1 DEF Joined, FusibleEdges

LEMMA NextFixpoint ==
  ASSUME FixpointInv, [Next]_vars
  PROVE  FixpointInv'
<1> USE DEF inputs
<1>1. FixpointInv <=> /\ pc = "merge" /\ ~changed => \A e \in FusibleEdges \ sweep : Joined(e)
                      /\ pc = "break" => \A e \in FusibleEdges : Joined(e)
  BY DEF FixpointInv, MergedToFixpoint, Joined
<1>2. FixpointInv' <=> /\ pc' = "merge" /\ ~changed' => \A e \in FusibleEdges' \ sweep' : Joined(e)'
                       /\ pc' = "break" => \A e \in FusibleEdges' : Joined(e)'
  BY DEF FixpointInv, MergedToFixpoint, Joined
<1> HIDE DEF FixpointInv
<1>3. ASSUME NEW e \in sweep, SkipEdge(e) PROVE FixpointInv'
  <2>1. /\ UNCHANGED <<edge, colour, reach, root, changed, pc>>
        /\ pc = "merge" /\ sweep' = sweep \ {e} /\ Joined(e)
    BY <1>3 DEF SkipEdge, Joined
  <2> QED BY <1>1, <1>2, <2>1, SameJoined
<1>4. ASSUME NEW e \in sweep, MergeEdge(e) PROVE FixpointInv'
  BY <1>2, <1>4 DEF MergeEdge
<1>5. CASE StartMerging \/ NextPass
  <2>1. /\ UNCHANGED <<edge, colour, reach, root>> /\ pc' = "merge" /\ sweep' = FusibleEdges
    BY <1>5 DEF StartMerging, NextPass
  <2> QED BY <1>2, <2>1, SameJoined
<1>6. CASE EndMerging
  <2>1. /\ UNCHANGED <<edge, colour, reach, root>> /\ pc' = "break"
        /\ pc = "merge" /\ sweep = {} /\ ~changed
    BY <1>6 DEF EndMerging
  <2> QED BY <1>1, <1>2, <2>1, SameJoined
<1>7. ASSUME NEW c \in clusters, DropVictim(c) PROVE FixpointInv'
  <2>1. UNCHANGED <<edge, colour, reach, root>> /\ pc = "break" /\ pc' = "break"
    BY <1>7 DEF DropVictim
  <2> QED BY <1>1, <1>2, <2>1, SameJoined
<1>8. CASE ComputeReach \/ EndBreaking \/ ClaimWhole \/ Contiguous
  BY <1>2, <1>8 DEF ComputeReach, EndBreaking, ClaimWhole, Contiguous
<1>9. ASSUME NEW boundary \in SUBSET Node, NEW span \in Spans, ClaimSplit(boundary, span)
      PROVE  FixpointInv'
  BY <1>2, <1>9 DEF ClaimSplit
<1>10. CASE UNCHANGED vars
  <2>1. UNCHANGED <<edge, colour, reach, root, changed, pc, sweep>>
    BY <1>10 DEF vars
  <2> QED BY <1>1, <1>2, <2>1, SameJoined
<1> QED BY <1>3, <1>4, <1>5, <1>6, <1>7, <1>8, <1>9, <1>10 DEF Next

\* Merging ends at a fixpoint for every graph and every order in which the
\* passes try the edges (the `while changed` loop, partition.rs:266-287).
THEOREM FixpointReached == Spec => []MergedToFixpoint
<1>1. Init => FixpointInv
  BY DEF Init, FixpointInv, MergedToFixpoint
<1>2. FixpointInv /\ [Next]_vars => FixpointInv'
  BY NextFixpoint
<1>3. FixpointInv => MergedToFixpoint
  BY DEF FixpointInv
<1> QED BY <1>1, <1>2, <1>3, PTL DEF Spec

-----------------------------------------------------------------------------
(* The groups before the layer split. *)

\* Only the graph and the colours matter.
LEMMA SameGraph ==
  ASSUME UNCHANGED <<edge, colour>>
  PROVE  /\ \A C : Good(C)' <=> Good(C)
         /\ \A P : Acyclic(Quotient(P))' <=> Acyclic(Quotient(P))
<1>1. ASSUME NEW C PROVE Good(C)' <=> Good(C)
  BY DEF Good, Unbroken, PathsFrom, Succ, Supported
<1>2. ASSUME NEW P PROVE Acyclic(Quotient(P))' <=> Acyclic(Quotient(P))
  BY DEF Acyclic, Quotient, Feeds
<1> QED BY <1>1, <1>2

LEMMA GroupedGood ==
  ASSUME TypeOK, ReachInv, RootInv, pc = "merge"
  PROVE  (\A C \in Grouped : Good(C)) /\ Disjoint(Grouped)
<1>1. ASSUME NEW n \in Supported PROVE Good(ClusterBits(root[n]))
  <2>1. /\ n \in ClusterBits(root[n]) /\ ClusterBits(root[n]) \subseteq Supported
        /\ Supported \subseteq Node
    BY DEF ClusterBits, Supported
  <2>2. \A k, m \in ClusterBits(root[n]) : colour[k] = colour[m]
    <3>1. \A k \in ClusterBits(root[n]) : root[k] = root[n] /\ colour[root[k]] = colour[k]
      BY DEF ClusterBits, RootInv
    <3> QED BY <3>1
  <2>3. Convex(ClusterBits(root[n])) /\ cursor = 0
    BY DEF RootInv, ReachInv
  <2>4. Unbroken(ClusterBits(root[n]))
    BY <2>1, <2>3, ConvexUnbroken
  <2> QED BY <2>1, <2>2, <2>4 DEF Good
<1>2. Disjoint(Grouped)
  BY DEF Disjoint, Grouped, ClusterBits
<1> QED BY <1>1, <1>2 DEF Grouped

\* A set of single nodes has a first one.
LEMMA NodesHaveFirst ==
  ASSUME TypeOK, NEW S \in SUBSET {{n} : n \in Node}, S # {}
  PROVE  \E r \in S : \A q \in S : ~Feeds(q, r)
<1> DEFINE T == {n \in Node : {n} \in S}
<1>1. T \in SUBSET Nat /\ T # {}
  BY NodesFinite
<1>2. PICK x \in T : \A y \in T : x <= y
  BY <1>1, LeastNumber
<1>3. ASSUME NEW q \in S, Feeds(q, {x}) PROVE FALSE
  <2>1. PICK n \in T : q = {n}
    OBVIOUS
  <2>2. <<n, x>> \in edge
    BY <1>3, <2>1 DEF Feeds
  <2>3. n < x
    BY <2>2, EdgesForward DEF Forward
  <2> QED BY <1>1, <1>2, <2>3
<1> QED BY <1>2, <1>3

\* When nobody is left to blame, the quotient graph has no cycle.
LEMMA NoVictimsAcyclic ==
  ASSUME TypeOK, Victims = {}
  PROVE  Acyclic(Quotient(clusters))
<1> DEFINE cyclic == Residual(clusters) \cap clusters
<1>1. cyclic = {}
  <2>1. SUFFICES ASSUME cyclic # {} PROVE FALSE
    OBVIOUS
  <2> DEFINE sizes == {Cardinality(c) : c \in cyclic}
  <2>2. sizes \in SUBSET Nat /\ sizes # {}
    BY <2>1, NodesFinite DEF TypeOK
  <2>3. PICK k \in sizes : \A j \in sizes : k <= j
    BY <2>2, LeastNumber
  <2>4. PICK c \in cyclic : k = Cardinality(c)
    BY <2>3
  <2>5. \A d \in cyclic : Cardinality(c) <= Cardinality(d)
    BY <2>3, <2>4
  <2>6. c \in Victims
    BY <2>4, <2>5 DEF Victims
  <2> QED BY <2>6
<1>2. SUFFICES ASSUME NEW S \in SUBSET Quotient(clusters), S # {},
                      \A r \in S : \E q \in S : Feeds(q, r)
               PROVE  FALSE
  BY DEF Acyclic
<1>3. S \subseteq Residual(clusters)
  BY <1>2 DEF Residual
<1>4. S \subseteq {{n} : n \in Node}
  BY <1>1, <1>3 DEF Quotient
<1> QED BY <1>2, <1>4, NodesHaveFirst

\* The runs of the contiguous mode are intervals of the order.
Interval(C) == \E a, b \in Node : a <= b /\ C = a..b

LEMMA IntervalsOrdered ==
  ASSUME NEW C, NEW D, Interval(C), Interval(D), C \cap D = {},
         NEW n \in C, NEW m \in D, n < m
  PROVE  \A x \in C, y \in D : x < y
<1>1. PICK a \in Node, b \in Node : a <= b /\ C = a..b
  BY DEF Interval
<1>2. PICK c \in Node, d \in Node : c <= d /\ D = c..d
  BY DEF Interval
<1>3. a \in Nat /\ b \in Nat /\ c \in Nat /\ d \in Nat
  BY NodesFinite
<1>4. b < c
  <2>1. a \in C /\ b \in C /\ c \in D /\ d \in D
    BY <1>1, <1>2, <1>3
  <2>2. ~(c <= b /\ a <= c) /\ ~(a <= d /\ d <= b) /\ ~(c <= a /\ a <= d)
    BY <1>1, <1>2, <1>3, <2>1
  <2>3. n \in Nat /\ m \in Nat /\ a <= n /\ n <= b /\ c <= m /\ m <= d
    BY <1>1, <1>2, <1>3
  <2> QED BY <1>1, <1>2, <1>3, <2>2, <2>3
<1> QED BY <1>1, <1>2, <1>3, <1>4

LEMMA IntervalsAcyclic ==
  ASSUME TypeOK, NEW P, Disjoint(P), \A C \in P : Interval(C)
  PROVE  Acyclic(Quotient(P))
<1>1. \A q \in Quotient(P) : Interval(q) /\ q # {} /\ q \subseteq Node
  <2>1. ASSUME NEW n \in Node PROVE Interval({n}) /\ {n} \subseteq Node
    <3>1. n \in Nat /\ {n} = n..n
      BY NodesFinite
    <3> QED BY <3>1 DEF Interval
  <2>2. ASSUME NEW C, Interval(C) PROVE C # {} /\ C \subseteq Node
    <3>1. PICK a \in Node, b \in Node : a <= b /\ C = a..b
      BY <2>2 DEF Interval
    <3>2. a \in 1..N /\ b \in 1..N /\ N \in Nat
      BY NAssumption DEF Node
    <3>3. a \in C
      BY <3>1, <3>2
    <3>4. \A k \in C : k \in 1..N
      BY <3>1, <3>2
    <3> QED BY <3>3, <3>4 DEF Node
  <2> QED BY <2>1, <2>2 DEF Quotient
<1>2. \A q, r \in Quotient(P) : q # r => q \cap r = {}
  BY DEF Quotient, Disjoint
<1>3. SUFFICES ASSUME NEW S \in SUBSET Quotient(P), S # {}
               PROVE  \E r \in S : \A q \in S : ~Feeds(q, r)
  BY DEF Acyclic
<1>4. UNION S \in SUBSET Nat /\ UNION S # {}
  <2>1. \A q \in S : q # {} /\ q \subseteq Nat
    BY <1>1, <1>3, NodesFinite
  <2> QED BY <1>3, <2>1
<1>5. PICK x \in UNION S : \A y \in UNION S : x <= y
  BY <1>4, LeastNumber
<1>6. PICK r \in S : x \in r
  BY <1>5
<1>7. ASSUME NEW q \in S, Feeds(q, r) PROVE FALSE
  <2>1. PICK n \in q, m \in r : q # r /\ <<n, m>> \in edge
    BY <1>7 DEF Feeds
  <2>2. n < m
    BY <2>1, EdgesForward DEF Forward
  <2>3. \A y \in q, z \in r : y < z
    BY <1>1, <1>2, <2>1, <2>2, IntervalsOrdered
  <2>4. n < x /\ x <= n
    BY <1>5, <1>6, <2>3
  <2> QED BY <1>4, <1>5, <2>4
<1> QED BY <1>7

LEMMA RunsDisjoint ==
  ASSUME TypeOK
  PROVE  Disjoint(Runs)
<1> SUFFICES ASSUME NEW C \in Runs, NEW D \in Runs, NEW x \in C \cap D
             PROVE  C = D
  BY DEF Disjoint
<1>1. PICK a \in Supported, b \in Supported :
        /\ a <= b /\ C = a..b
        /\ \A n \in C : colour[n] = colour[a]
        /\ a > 1 => colour[a - 1] # colour[a]
        /\ b < N => colour[b + 1] # colour[a]
  BY DEF Runs
<1>2. PICK c \in Supported, d \in Supported :
        /\ c <= d /\ D = c..d
        /\ \A n \in D : colour[n] = colour[c]
        /\ c > 1 => colour[c - 1] # colour[c]
        /\ d < N => colour[d + 1] # colour[c]
  BY DEF Runs
<1>3. /\ a \in 1..N /\ b \in 1..N /\ c \in 1..N /\ d \in 1..N /\ N \in Nat
      /\ x \in Nat /\ a <= x /\ x <= b /\ c <= x /\ x <= d
  BY <1>1, <1>2, NAssumption DEF Supported, Node
<1>4. colour[a] = colour[c]
  BY <1>1, <1>2
<1>5. ~(a < c)
  <2>1. SUFFICES ASSUME a < c PROVE FALSE
    OBVIOUS
  <2>2. c > 1 /\ c - 1 \in C
    BY <1>1, <1>3, <2>1
  <2> QED BY <1>1, <1>2, <1>4, <2>2
<1>6. ~(c < a)
  <2>1. SUFFICES ASSUME c < a PROVE FALSE
    OBVIOUS
  <2>2. a > 1 /\ a - 1 \in D
    BY <1>2, <1>3, <2>1
  <2> QED BY <1>1, <1>2, <1>4, <2>2
<1>7. ~(b < d)
  <2>1. SUFFICES ASSUME b < d PROVE FALSE
    OBVIOUS
  <2>2. b < N /\ b + 1 \in D
    BY <1>2, <1>3, <2>1
  <2> QED BY <1>1, <1>2, <1>4, <2>2
<1>8. ~(d < b)
  <2>1. SUFFICES ASSUME d < b PROVE FALSE
    OBVIOUS
  <2>2. d < N /\ d + 1 \in C
    BY <1>1, <1>3, <2>1
  <2> QED BY <1>1, <1>2, <1>4, <2>2
<1> QED BY <1>1, <1>2, <1>3, <1>5, <1>6, <1>7, <1>8

LEMMA RunsGood ==
  ASSUME TypeOK
  PROVE  \A C \in Runs : Good(C) /\ Interval(C)
<1> SUFFICES ASSUME NEW C \in Runs PROVE Good(C) /\ Interval(C)
  OBVIOUS
<1>1. PICK a \in Supported, b \in Supported :
        a <= b /\ C = a..b /\ \A n \in C : colour[n] = colour[a]
  BY DEF Runs
<1>2. a \in Node /\ b \in Node /\ a \in Nat /\ b \in Nat
  BY NodesFinite DEF Supported
<1>3. Unbroken(C)
  <2>1. SUFFICES ASSUME NEW m \in C, NEW n \in C, NEW x \in PathsFrom(m) \ C, n \in PathsFrom(x)
                 PROVE  FALSE
    BY DEF Unbroken
  <2>2. m \in Node /\ n \in Node /\ x \in Node
    BY DEF Runs, Supported, PathsFrom
  <2>3. m < x /\ x < n
    <3>1. x \in Later(m) /\ n \in Later(x)
      BY <2>1, <2>2, PathsForward
    <3> QED BY <3>1 DEF Later
  <2> QED BY <1>1, <1>2, <2>2, <2>3, NodesFinite
<1>4. C # {}
  BY <1>1, <1>2
<1> QED BY <1>1, <1>2, <1>3, <1>4 DEF Good, Interval, Runs

-----------------------------------------------------------------------------
(* The layer split. *)

Layer(C, boundary, span, n) == LayersBefore(C, boundary, n) \div span

LEMMA LayersGrow ==
  ASSUME NEW C \in SUBSET Node, NEW boundary, NEW span \in Nat \ {0},
         NEW n \in Node, NEW m \in Node, n <= m
  PROVE  /\ Layer(C, boundary, span, n) \in Nat
         /\ Layer(C, boundary, span, m) \in Nat
         /\ Layer(C, boundary, span, n) <= Layer(C, boundary, span, m)
<1> DEFINE B(k) == {b \in boundary \cap C : b < k}
<1>1. B(n) \subseteq B(m)
  <2>1. n \in Nat /\ m \in Nat
    BY NodesFinite
  <2>2. ASSUME NEW b \in C, b < n PROVE b < m
    <3>1. b \in Nat
      BY NodesFinite
    <3> QED BY <2>1, <2>2, <3>1
  <2> QED BY <2>2
<1>2. B(n) \in SUBSET Node /\ B(m) \in SUBSET Node
  OBVIOUS
<1>3. /\ IsFiniteSet(B(m)) /\ Cardinality(B(n)) \in Nat /\ Cardinality(B(m)) \in Nat
      /\ Cardinality(B(n)) <= Cardinality(B(m))
  BY <1>1, <1>2, NodesFinite, FS_Subset
<1>4. ASSUME NEW a \in Nat, NEW b \in Nat, a <= b
      PROVE  a \div span \in Nat /\ b \div span \in Nat /\ a \div span <= b \div span
  BY <1>4
<1> QED BY <1>3, <1>4 DEF Layer, LayersBefore

LEMMA PieceGood ==
  ASSUME TypeOK, NEW C \in SUBSET Node, Good(C), NEW boundary, NEW span \in Nat \ {0},
         NEW r \in SplitOne(C, boundary, span)
  PROVE  Good(r) /\ r \subseteq C
<1> DEFINE L(k) == Layer(C, boundary, span, k)
<1>1. PICK k \in C : r = {m \in C : L(m) = L(k)}
  BY DEF SplitOne, Layer
<1>2. k \in r /\ r \subseteq C
  BY <1>1
<1>3. ASSUME NEW m \in r, NEW n \in r, NEW x \in PathsFrom(m) \ r, n \in PathsFrom(x)
      PROVE  FALSE
  <2>1. m \in C /\ n \in C /\ x \in Node /\ L(m) = L(n)
    BY <1>1, <1>3 DEF PathsFrom
  <2>2. m < x /\ x < n /\ m \in Nat /\ n \in Nat /\ x \in Nat
    BY <1>3, <2>1, PathsForward, NodesFinite DEF Later
  <2>3. x \in C
    BY <1>3, <2>1 DEF Good, Unbroken
  <2>4. L(m) \in Nat /\ L(x) \in Nat /\ L(n) \in Nat /\ L(m) <= L(x) /\ L(x) <= L(n)
    BY <2>1, <2>2, LayersGrow
  <2>5. L(x) = L(m)
    BY <2>1, <2>4
  <2> QED BY <1>1, <1>3, <2>3, <2>5
<1>4. Unbroken(r)
  BY <1>3 DEF Unbroken
<1> QED BY <1>2, <1>4 DEF Good

LEMMA SplitGood ==
  ASSUME TypeOK, \A C \in clusters : Good(C), Disjoint(clusters),
         NEW boundary, NEW span \in Nat \ {0}
  PROVE  /\ \A r \in Split(clusters, boundary, span) : Good(r)
         /\ Disjoint(Split(clusters, boundary, span))
         /\ UNION Split(clusters, boundary, span) = UNION clusters
<1>1. ASSUME NEW C \in clusters, NEW r \in SplitOne(C, boundary, span)
      PROVE  Good(r) /\ r \subseteq C
  BY <1>1, PieceGood DEF TypeOK
<1>2. ASSUME NEW C \in clusters, NEW q \in SplitOne(C, boundary, span),
             NEW r \in SplitOne(C, boundary, span), NEW x \in q \cap r
      PROVE  q = r
  BY DEF SplitOne
<1>3. ASSUME NEW C \in clusters, NEW x \in C
      PROVE  x \in UNION SplitOne(C, boundary, span)
  BY <1>3 DEF SplitOne
<1>4. ASSUME NEW q \in Split(clusters, boundary, span), NEW r \in Split(clusters, boundary, span),
             NEW x \in q \cap r
      PROVE  q = r
  <2>1. PICK C \in clusters : q \in SplitOne(C, boundary, span)
    BY DEF Split
  <2>2. PICK D \in clusters : r \in SplitOne(D, boundary, span)
    BY DEF Split
  <2>3. C = D
    BY <1>1, <2>1, <2>2 DEF Disjoint
  <2> QED BY <1>2, <2>1, <2>2, <2>3
<1>5. Disjoint(Split(clusters, boundary, span))
  BY <1>4 DEF Disjoint
<1>6. UNION Split(clusters, boundary, span) = UNION clusters
  BY <1>1, <1>3 DEF Split
<1> QED BY <1>1, <1>5, <1>6 DEF Split

\* Cutting clusters at layer boundaries makes no cycle: in a set of pieces in
\* which each is fed by another, the clusters the pieces come from would form
\* such a set too, for the first piece of a cluster is fed from outside it.
LEMMA SplitAcyclic ==
  ASSUME TypeOK, \A C \in clusters : Good(C), Disjoint(clusters), Acyclic(Quotient(clusters)),
         NEW boundary, NEW span \in Nat \ {0}
  PROVE  Acyclic(Quotient(Split(clusters, boundary, span)))
<1> DEFINE P == clusters
           Q == Split(P, boundary, span)
           Pieces(C) == SplitOne(C, boundary, span)
           L(C, k) == Layer(C, boundary, span, k)
<1>1. SUFFICES ASSUME NEW S \in SUBSET Quotient(Q), S # {},
                      \A r \in S : \E q \in S : Feeds(q, r)
               PROVE  FALSE
  BY DEF Acyclic
<1>2. /\ \A C \in P : \A r \in Pieces(C) : r \in Q /\ r # {} /\ r \subseteq C
      /\ \A r \in Q : \E C \in P : r \in Pieces(C)
      /\ UNION Q = UNION P
  <2>1. ASSUME NEW C \in P, NEW r \in Pieces(C) PROVE r \in Q /\ r # {} /\ r \subseteq C
    <3>1. Good(r) /\ r \subseteq C
      BY PieceGood DEF TypeOK
    <3> QED BY <3>1 DEF Good, Split
  <2>2. UNION Q = UNION P
    BY SplitGood
  <2>3. \A r \in Q : \E C \in P : r \in Pieces(C)
    BY DEF Split
  <2> HIDE DEF P, Q, Pieces
  <2> QED BY <2>1, <2>2, <2>3
<1> DEFINE coarse == {C \in P : \E r \in S : r \in Pieces(C)}
           single == {r \in S : \E n \in Node \ UNION P : r = {n}}
           T == coarse \cup single
<1>3. \A r \in S : (\E C \in coarse : r \in Pieces(C)) \/ r \in single
  BY <1>1, <1>2 DEF Quotient
<1>4. T \in SUBSET Quotient(P) /\ T # {}
  BY <1>1, <1>3 DEF Quotient
<1>5. PICK c \in T : \A d \in T : ~Feeds(d, c)
  BY <1>4 DEF Acyclic
\* Whatever feeds a piece of c or c itself comes from c.
<1>6. ASSUME NEW q \in S, NEW r, Feeds(q, r), r \subseteq c
      PROVE  c \in coarse /\ q \in Pieces(c)
  <2>1. PICK n \in q, m \in r : q # r /\ <<n, m>> \in edge
    BY <1>6 DEF Feeds
  <2>2. CASE q \in single
    <3>1. q = c
      BY <1>5, <1>6, <2>1, <2>2 DEF Feeds
    <3>2. n = m
      BY <1>6, <2>1, <2>2, <3>1
    <3>3. n \in Nat /\ n < n
      BY <2>1, <3>2, EdgesForward, NodesFinite DEF Forward
    <3> QED BY <3>3
  <2>3. CASE \E C \in coarse : q \in Pieces(C)
    <3>1. PICK C \in coarse : q \in Pieces(C)
      BY <2>3
    <3>2. n \in C /\ m \in c
      BY <1>2, <1>6, <2>1, <3>1
    <3>3. C = c
      BY <1>5, <2>1, <3>1, <3>2 DEF Feeds
    <3> QED BY <3>1, <3>3
  <2> QED BY <1>3, <2>2, <2>3
<1>7. c \in coarse
  <2>1. SUFFICES ASSUME c \in single PROVE c \in coarse
    OBVIOUS
  <2>2. PICK q \in S : Feeds(q, c)
    BY <1>1, <2>1
  <2> QED BY <1>6, <2>2
\* The first piece of c in S has a feeder in an earlier layer of c.
<1> DEFINE layers == {L(c, k) : k \in UNION (S \cap Pieces(c))}
<1>8. c \in SUBSET Node /\ UNION (S \cap Pieces(c)) \subseteq c
  BY <1>2, <1>7 DEF TypeOK
<1>9. layers \in SUBSET Nat
  <2>1. ASSUME NEW k \in c PROVE L(c, k) \in Nat
    <3>1. k \in Node /\ k <= k
      BY <1>8, NodesFinite
    <3> QED BY <1>8, <3>1, LayersGrow
  <2> QED BY <1>8, <2>1
<1>10. layers # {}
  BY <1>2, <1>7
<1>11. PICK j \in layers : \A k \in layers : j <= k
  BY <1>9, <1>10, LeastNumber
<1>12. PICK r \in S \cap Pieces(c) : \E x \in r : j = L(c, x)
  BY <1>11
<1>13. PICK q \in S : Feeds(q, r)
  BY <1>1, <1>12
<1>14. q \in Pieces(c) /\ r \subseteq c
  BY <1>2, <1>6, <1>7, <1>12, <1>13
<1>15. PICK n \in q, m \in r : q # r /\ <<n, m>> \in edge
  BY <1>13 DEF Feeds
<1>16. n \in c /\ m \in c /\ n <= m
  <2>1. n \in c /\ m \in c
    BY <1>2, <1>7, <1>14, <1>15
  <2>2. n \in Nat /\ m \in Nat /\ n < m
    BY <1>15, EdgesForward, NodesFinite DEF Forward
  <2> QED BY <2>1, <2>2
<1>17. L(c, n) \in Nat /\ L(c, m) \in Nat /\ L(c, n) <= L(c, m)
  BY <1>8, <1>16, LayersGrow
<1>18. L(c, m) = j
  BY <1>12, <1>15 DEF SplitOne, Layer
<1>19. L(c, n) # L(c, m)
  BY <1>12, <1>14, <1>15, <1>16 DEF SplitOne, Layer
<1>20. L(c, n) \in layers
  BY <1>14, <1>15
<1> QED BY <1>9, <1>11, <1>17, <1>18, <1>19, <1>20

-----------------------------------------------------------------------------
(* The groups that are claimed. *)

LEMMA NextClusters ==
  ASSUME TypeOK, ReachInv, RootInv, ClustersInv, [Next]_vars
  PROVE  ClustersInv'
<1> USE DEF inputs
<1>1. ASSUME pc' \notin {"break", "claim", "fuse"} PROVE ClustersInv'
  BY <1>1 DEF ClustersInv
<1>2. CASE ComputeReach \/ StartMerging \/ NextPass
  BY <1>1, <1>2 DEF ComputeReach, StartMerging, NextPass
<1>3. ASSUME NEW e \in sweep, SkipEdge(e) \/ MergeEdge(e) PROVE ClustersInv'
  BY <1>1, <1>3 DEF SkipEdge, MergeEdge
<1>4. ASSUME UNCHANGED <<edge, colour>>, \A C \in clusters' : Good(C), Disjoint(clusters'),
             pc' = "break" \/ Acyclic(Quotient(clusters'))
      PROVE  ClustersInv'
  <2>1. \A C \in clusters' : Good(C)'
    BY <1>4, SameGraph
  <2>2. pc' = "break" \/ Acyclic(Quotient(clusters))'
    BY <1>4 DEF Acyclic, Quotient, Feeds
  <2>3. Disjoint(clusters)'
    BY <1>4 DEF Disjoint
  <2> QED BY <2>1, <2>2, <2>3 DEF ClustersInv
<1>5. CASE EndMerging
  <2>1. /\ pc = "merge" /\ pc' = "break" /\ clusters' = Grouped /\ UNCHANGED <<edge, colour>>
    BY <1>5 DEF EndMerging
  <2> QED BY <1>4, <2>1, GroupedGood
<1>6. ASSUME NEW c \in clusters, DropVictim(c) PROVE ClustersInv'
  <2>1. /\ pc = "break" /\ pc' = "break" /\ clusters' = clusters \ {c} /\ UNCHANGED <<edge, colour>>
    BY <1>6 DEF DropVictim
  <2>2. (\A C \in clusters' : Good(C)) /\ Disjoint(clusters')
    BY <2>1 DEF ClustersInv, Disjoint
  <2> QED BY <1>4, <2>1, <2>2
<1>7. CASE EndBreaking
  <2>1. /\ pc = "break" /\ clusters' = clusters /\ UNCHANGED <<edge, colour>> /\ Victims = {}
    BY <1>7 DEF EndBreaking
  <2>2. Acyclic(Quotient(clusters))
    BY <2>1, NoVictimsAcyclic
  <2> QED BY <1>4, <2>1, <2>2 DEF ClustersInv
<1>8. CASE Contiguous
  <2>1. clusters' = Runs /\ UNCHANGED <<edge, colour>>
    BY <1>8 DEF Contiguous
  <2> QED BY <1>4, <2>1, RunsGood, RunsDisjoint, IntervalsAcyclic
<1>9. CASE ClaimWhole
  <2>1. /\ pc = "claim" /\ clusters' = clusters /\ UNCHANGED <<edge, colour>>
    BY <1>9 DEF ClaimWhole
  <2> QED BY <1>4, <2>1 DEF ClustersInv
<1>10. ASSUME NEW boundary \in SUBSET Node, NEW span \in Spans, ClaimSplit(boundary, span)
       PROVE  ClustersInv'
  <2>1. /\ pc = "claim" /\ clusters' = Split(clusters, boundary, span)
        /\ UNCHANGED <<edge, colour>>
    BY <1>10 DEF ClaimSplit
  <2>2. span \in Nat \ {0}
    BY SpansAssumption
  <2>3. (\A C \in clusters : Good(C)) /\ Disjoint(clusters) /\ Acyclic(Quotient(clusters))
    BY <2>1 DEF ClustersInv
  <2> QED BY <1>4, <2>1, <2>2, <2>3, SplitGood, SplitAcyclic
<1>11. CASE UNCHANGED vars
  <2>1. UNCHANGED <<edge, colour, clusters, pc>>
    BY <1>11 DEF vars
  <2> QED BY <1>4, <1>1, <2>1 DEF ClustersInv
<1> QED BY <1>2, <1>3, <1>5, <1>6, <1>7, <1>8, <1>9, <1>10, <1>11 DEF Next

LEMMA ClustersHold == Spec => [](TypeOK /\ ClustersInv)
<1>1. Init => ClustersInv
  BY DEF Init, ClustersInv
<1>2. TypeOK /\ ReachInv /\ RootInv /\ ClustersInv /\ [Next]_vars => ClustersInv'
  BY NextClusters
<1> QED BY RootHolds, <1>1, <1>2, PTL DEF Spec

\* For every graph and colouring, every claimed group holds claimable nodes of
\* one colour, is convex, and shares no node with another, whole or cut at
\* layer boundaries (partition.rs:9-37, 124-154, 197-356).
THEOREM ClaimsAreSound == Spec => []ClaimSound
<1>1. ClustersInv => ClaimSound
  BY DEF ClustersInv, ClaimSound, Good, Disjoint
<1> QED BY ClustersHold, <1>1, PTL

\* For every graph, the graph with each claimed group fused has no cycle: the
\* cycle breaker removes them all, and no layer split brings one back.
THEOREM FusedGraphAcyclic == Spec => []FusedAcyclic
<1>1. ClustersInv => FusedAcyclic
  BY DEF ClustersInv, FusedAcyclic
<1> QED BY ClustersHold, <1>1, PTL

-----------------------------------------------------------------------------
(* Progress: every step leads nearer to the answer, and one is always open. *)

Stage ==
  CASE pc = "reach" -> 4
    [] pc = "merge" -> 3
    [] pc \in {"break", "contiguous"} -> 2
    [] pc = "claim" -> 1
    [] OTHER -> 0

Roots == {root[n] : n \in Node}

\* Rows still to compute; twice the clusters, and one for a pass that has to be
\* repeated; groups that may still be dropped.
Work ==
  CASE pc = "reach" -> cursor
    [] pc = "merge" -> 2 * Cardinality(Roots) + (IF changed THEN 1 ELSE 0)
    [] pc = "break" -> Cardinality(clusters)
    [] OTHER -> 0

Left == Cardinality(sweep)

\* <<Stage, Work, Left>> goes down in the lexicographic order.
Advances ==
  \/ Stage' < Stage
  \/ Stage' = Stage /\ Work' < Work
  \/ Stage' = Stage /\ Work' = Work /\ Left' < Left

Bounded == Stage \in Nat /\ Work \in Nat /\ Left \in Nat

\* The guards of the steps of each stage, of which the edge tried next is the one
\* that has to exist.
Open ==
  \/ pc \in {"contiguous", "claim", "fuse"}
  \/ pc = "reach" /\ cursor \in 0..N
  \/ pc = "merge" /\ (sweep = {} \/ \E e \in sweep : Untried(e))
  \/ pc = "break" /\ (Victims = {} \/ \E c \in clusters : c \in Victims)

LEMMA StateFinite ==
  ASSUME TypeOK
  PROVE  IsFiniteSet(sweep) /\ IsFiniteSet(clusters) /\ IsFiniteSet(Roots)
<1>1. IsFiniteSet(Node)
  BY NAssumption, FS_Interval DEF Node
<1>2. IsFiniteSet(Node \X Node)
  BY <1>1, FS_Product
<1>3. sweep \in SUBSET (Node \X Node)
  BY EdgesForward DEF TypeOK, Forward
<1>4. IsFiniteSet(SUBSET Node)
  BY <1>1, FS_SUBSET
<1>5. clusters \in SUBSET (SUBSET Node) /\ Roots \in SUBSET Node
  BY DEF TypeOK, Roots
<1> QED BY <1>1, <1>2, <1>3, <1>4, <1>5, FS_Subset

LEMMA MeasureBounded == TypeOK => Bounded
<1> SUFFICES ASSUME TypeOK PROVE Bounded
  OBVIOUS
<1>1. /\ Cardinality(sweep) \in Nat
      /\ Cardinality(clusters) \in Nat
      /\ Cardinality(Roots) \in Nat
  BY StateFinite, FS_CardinalityType
<1>2. cursor \in Nat
  BY NAssumption DEF TypeOK
<1> QED BY <1>1, <1>2 DEF Bounded, Stage, Work, Left

\* A merge leaves one root fewer.
LEMMA MergeLosesRoot ==
  ASSUME TypeOK, NEW e \in sweep, MergeEdge(e)
  PROVE  Cardinality(Roots') \in Nat /\ Cardinality(Roots') < Cardinality(Roots)
<1>1. e[1] \in Node /\ e[2] \in Node
  BY EdgesForward DEF TypeOK, Forward
<1>2. Roots' \in SUBSET (Roots \ {root[e[2]]})
  BY <1>1 DEF MergeEdge, Roots
<1>3. IsFiniteSet(Roots) /\ Cardinality(Roots) \in Nat
  BY StateFinite, FS_CardinalityType
<1>4. /\ IsFiniteSet(Roots \ {root[e[2]]})
      /\ Cardinality(Roots \ {root[e[2]]}) = Cardinality(Roots) - 1
  <2>1. root[e[2]] \in Roots
    BY <1>1 DEF Roots
  <2> QED BY <1>3, <2>1, FS_RemoveElement
<1>5. Cardinality(Roots') <= Cardinality(Roots) - 1 /\ Cardinality(Roots') \in Nat
  BY <1>2, <1>4, FS_Subset, FS_CardinalityType
<1> QED BY <1>3, <1>5

LEMMA NextAdvances ==
  ASSUME TypeOK, Next
  PROVE  Advances
<1>1. /\ Cardinality(sweep) \in Nat
      /\ Cardinality(clusters) \in Nat
      /\ Cardinality(Roots) \in Nat
      /\ cursor \in Nat
  BY StateFinite, FS_CardinalityType, NAssumption DEF TypeOK
<1>3. CASE ComputeReach
  BY <1>1, <1>3 DEF ComputeReach, Advances, Stage, Work
<1>4. CASE StartMerging \/ EndMerging \/ EndBreaking \/ Contiguous \/ ClaimWhole
  BY <1>4 DEF StartMerging, EndMerging, EndBreaking, Contiguous, ClaimWhole, Advances, Stage
<1>5. ASSUME NEW e \in sweep, SkipEdge(e) PROVE Advances
  <2>1. Cardinality(sweep') = Cardinality(sweep) - 1
    BY <1>5, StateFinite, FS_RemoveElement DEF SkipEdge
  <2>2. Roots' = Roots
    BY <1>5 DEF SkipEdge, Roots
  <2> QED BY <1>1, <1>5, <2>1, <2>2 DEF SkipEdge, Advances, Stage, Work, Left
<1>6. ASSUME NEW e \in sweep, MergeEdge(e) PROVE Advances
  <2>1. Cardinality(Roots') \in Nat /\ Cardinality(Roots') < Cardinality(Roots)
    BY <1>6, MergeLosesRoot
  <2> QED BY <1>1, <1>6, <2>1 DEF MergeEdge, Advances, Stage, Work, TypeOK
<1>7. CASE NextPass
  <2>1. Roots' = Roots
    BY <1>7 DEF NextPass, Roots
  <2> QED BY <1>1, <1>7, <2>1 DEF NextPass, Advances, Stage, Work
<1>8. ASSUME NEW c \in clusters, DropVictim(c) PROVE Advances
  <2>1. Cardinality(clusters') = Cardinality(clusters) - 1
    BY <1>8, StateFinite, FS_RemoveElement DEF DropVictim
  <2> QED BY <1>1, <1>8, <2>1 DEF DropVictim, Advances, Stage, Work
<1>9. ASSUME NEW boundary \in SUBSET Node, NEW span \in Spans, ClaimSplit(boundary, span)
      PROVE  Advances
  BY <1>9 DEF ClaimSplit, Advances, Stage
<1> QED BY <1>3, <1>4, <1>5, <1>6, <1>7, <1>8, <1>9 DEF Next

\* A pass that is not over has an edge to try.
LEMMA EdgeToTry ==
  ASSUME TypeOK, sweep # {}
  PROVE  \E e \in sweep : Untried(e)
<1> DEFINE T == {e[1] : e \in sweep}
<1>1. \A e \in sweep : e[1] \in Nat
  <2>1. edge \subseteq Forward /\ Node \subseteq Nat
    BY EdgesForward, NodesFinite
  <2>2. sweep \subseteq edge
    BY DEF TypeOK
  <2>3. ASSUME NEW e \in Node \X Node PROVE e[1] \in Node
    OBVIOUS
  <2>4. sweep \subseteq Node \X Node
    BY <2>1, <2>2 DEF Forward
  <2> QED BY <2>1, <2>3, <2>4
<1>2. T \in SUBSET Nat /\ T # {}
  BY <1>1
<1>3. PICK x \in T : \A y \in T : x <= y
  <2> HIDE DEF T
  <2> QED BY <1>2, LeastNumber
<1> QED BY <1>3 DEF Untried

\* GetCapability answers (partition.rs:62-118): every step strictly lowers a triple
\* of natural numbers, through every pass of the merge loop and every dropped
\* cluster, and until the groups are claimed some step is open.  With the fairness
\* of Spec, that is Terminates, for graphs of any size.
THEOREM StepsLeadOn == Spec => [](Bounded /\ Open) /\ [][Advances]_vars
<1>1. TypeOK => Open
  BY EdgeToTry DEF Open, Victims, TypeOK
<1>2. TypeOK /\ [Next]_vars => [Advances]_vars
  BY NextAdvances
<1> QED BY TypeCorrect, MeasureBounded, <1>1, <1>2, PTL DEF Spec

=============================================================================
