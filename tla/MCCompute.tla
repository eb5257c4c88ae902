----------------------------- MODULE MCCompute -----------------------------
(* Instances of Compute: constant values only. *)
EXTENDS Compute, TLC

CONSTANTS t1, t2, g1, g2

\* A decoder with GroupQueryAttention and fused RoPE, which the general slot may
\* not hold (is_general_compile_unsafe), next to graphs without attention, which
\* prefill_enabled leaves out.
DecoderAndGeneral ==
  [g \in Subgraph |-> IF g = g1 THEN {"Decode", "Prefill"} ELSE {"Decode", "General"}]

\* A graph without attention: the decode slot first, then the general one.  That
\* build_closure always declines the first here is left to its choice.
DecodeThenGeneral == [g \in Subgraph |-> {"Decode", "General"}]

\* The configuration of the decode and prefill slots (CompiledConfig).
RopeAsData == [g \in Subgraph |-> Enabled[g] \ {"General"}]

=============================================================================
