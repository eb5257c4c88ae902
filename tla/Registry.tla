------------------------------- MODULE Registry -------------------------------
(***************************************************************************)
(* The registry of operators: a node is offered, claimed or declined by    *)
(* the predicate of its entry, and a claimed node is translated by the     *)
(* entry's handler when its subgraph runs.  The entries of the operators   *)
(* that move data by an index are those of IndexOps, and IndexMeaning says *)
(* what ONNX defines for them; the entries of all others are parameters,   *)
(* which module Ops gives.                                                 *)
(***************************************************************************)
EXTENDS IndexOps, IndexMeaning

CONSTANTS
  OpTypes,              \* the operators of the nodes offered
  Nodes(_),             \* the nodes of an operator a host may offer
  ClaimElsewhere(_),    \* the predicate of a node's entry,
  HandlerElsewhere(_),  \* its handler,
  MeaningElsewhere(_)   \* and the outputs ONNX defines, for the operators outside IndexTypes

ASSUME NodesAssumption ==
  \A op \in OpTypes : \A n \in Nodes(op) : n.op \in IndexTypes => LegalOperands(n)

\* find_entry: the predicate, then the handler, registered for the operator.
Claim(n) == IF n.op \in IndexTypes THEN IndexClaim(n) ELSE ClaimElsewhere(n)

Handler(n) == IF n.op \in IndexTypes THEN IndexHandler(n) ELSE HandlerElsewhere(n)

\* The outputs ONNX defines for a node.
Meaning(n) == IF n.op \in IndexTypes THEN IndexFamily(n) ELSE MeaningElsewhere(n)

VARIABLES node, phase, out

vars == <<node, phase, out>>

-----------------------------------------------------------------------------
Init ==
  /\ \E op \in OpTypes : \E n \in Nodes(op) : node = n
  /\ phase = "offered"
  /\ out = <<>>

\* GetCapability asks the predicate.
ClaimDecision ==
  /\ phase = "offered"
  /\ phase' = IF Claim(node) THEN "claimed" ELSE "declined"
  /\ UNCHANGED <<node, out>>

\* A handler whose primitive fails stops the call.
Translate ==
  /\ phase = "claimed"
  /\ \E values \in {Handler(node)} :
       LET fails == \E i \in DOMAIN values : values[i] = Fail
       IN /\ phase' = IF fails THEN "failed" ELSE "translated"
          /\ out' = IF fails THEN <<>> ELSE values
  /\ UNCHANGED node

Next == ClaimDecision \/ Translate

Spec == Init /\ [][Next]_vars

-----------------------------------------------------------------------------
\* A translated node of these operators gave what ONNX defines.
Exact(ops) == phase = "translated" /\ node.op \in ops => out = Meaning(node)

\* The index operators (ops/shape.rs) fold tuples of indices, negative ones included, into
\* rows of a flattened array and back; every element comes from where ONNX says.
IndexedAsOnnx == Exact(IndexTypes)

\* Bounds clamped for either sign of a step, and pads built from slices and reversals,
\* select the elements ONNX selects, at every boundary.
CroppedAsOnnx == Exact({"Slice", "Pad", "CenterCropPad", "Compress"})

\* Operators that only move elements: inferred and copied extents, the two orders of a
\* depth, negative axes, listed splits with parts of different or no extent.
ReshapedAsOnnx ==
  Exact({"DepthToSpace", "SpaceToDepth", "Reshape", "Transpose", "Flatten", "Squeeze", "Unsqueeze",
         "Expand", "Concat", "Split", "Tile", "EyeLike", "Range", "Shape", "ConstantOfShape", "Where"})

\* Reductions over any axes, arg reductions by reversal, scans, Hardmax and TopK by an
\* inverted key (ops/reduction.rs) give ONNX's values, ties and extremes included.
ReducedAsOnnx ==
  Exact({"ReduceSum", "ReduceMean", "ReduceMax", "ReduceMin", "ReduceProd", "ReduceSumSquare", "ReduceL1",
         "ReduceL2", "ReduceLogSum", "ReduceLogSumExp", "ArgMin", "ArgMax", "CumSum", "CumProd", "Hardmax",
         "Hardmax-11", "TopK"})

\* The operators of ops/misc.rs, several of them computed on the host by an algorithm of
\* their own (elimination, grouping, n-grams, losses), give ONNX's values.
HostComputedAsOnnx ==
  Exact({"OneHot", "Trilu", "Scatter", "Det", "NonZero", "Unique", "TfIdfVectorizer", "Constant",
         "NegativeLogLikelihoodLoss"})

\* The unrolled recurrences (ops/recurrent.rs), in each direction, put at every time and
\* in the final states what the equations of ONNX give there.
UnrolledAsOnnx == Exact({"RNN", "GRU", "LSTM"})

\* Convolutions and pools in MLX's layout (ops/conv.rs), with pads of any kind, groups,
\* dilations and strided views of windows, give what ONNX defines with the channels first.
ConvolvedAsOnnx ==
  Exact({"Conv", "DeformConv", "ConvTranspose", "AveragePool", "MaxPool", "GlobalAveragePool", "GlobalMaxPool",
         "LpPool", "GlobalLpPool"})

\* Sampling at fractional positions, with every coordinate and rounding mode (resizing in
\* ops/shape.rs, ops/vision.rs), regions, and suppression on the host give ONNX's values at
\* borders, at halves, at ties and beyond the plane.
SampledAsOnnx ==
  Exact({"Resize", "Upsample", "GridSample", "AffineGrid", "Col2Im", "RoiAlign", "MaxRoiPool", "MaxUnpool",
         "NonMaxSuppression"})

\* Quantization and the products of quantized operands (ops/quant.rs), with parameters per
\* tensor, axis or block, packed weights and floats of a few bits, give what ONNX and ONNX
\* Runtime define, at halves, at either end of a type and in a last block that overhangs.
QuantizedAsOnnx ==
  Exact({"QuantizeLinear", "DequantizeLinear", "DynamicQuantizeLinear", "MatMulInteger", "QLinearMatMul",
         "ConvInteger", "QLinearConv", "GatherBlockQuantized", "MatMulNBits", "MatMulBlockQuantizedFp4Weight",
         "MatMulBlockQuantizedFp8Weight"})

\* A claimed node is never refused by its handler: ORT has no other provider for it then.
ClaimedTranslates == phase # "failed"

=============================================================================
