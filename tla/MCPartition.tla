---------------------------- MODULE MCPartition ----------------------------
(* Instances of Partition: constant values only. *)
EXTENDS Partition, TLC

CONSTANTS c1, c2

\* Every graph on the first four nodes.
FourNodes == SUBSET {e \in Forward : e[2] <= 4}

\* A graph on which only the second pass over the edges merges two clusters.
LatePass ==
  {<<1, 5>>, <<1, 6>>, <<2, 4>>, <<2, 7>>, <<3, 4>>, <<3, 6>>, <<4, 5>>, <<6, 7>>}

\* 1 -> 5 and 2 -> 6 may be two clusters that feed each other: by 1 -> 6, and
\* through the nodes between 2 and 5.
CrownThrough == {<<1, 5>>, <<2, 6>>, <<1, 6>>, <<2, 4>>, <<4, 5>>}
CrownThroughTwo == {<<1, 5>>, <<2, 6>>, <<1, 6>>, <<2, 3>>, <<3, 4>>, <<4, 5>>, <<6, 7>>}

SevenNodes == {LatePass, CrownThrough, CrownThroughTwo}

AllGraphs == FourNodes \cup SevenNodes

\* Nodes 5 to 7 of a four-node graph are not claimable; on a larger graph node 1
\* has the first colour.
MCInit ==
  /\ Init
  /\ edge \notin SevenNodes => \A n \in 5..7 : colour[n] = Unsupported
  /\ edge \in SevenNodes => ~mixed /\ colour[1] = c1

MCSpec == MCInit /\ [][Next]_vars /\ WF_vars(Next)

=============================================================================
