--------------------------------- MODULE Ops ---------------------------------
(* The entries of the registry for the operators outside IndexOps: the predicate *)
(* and the handler of each, and what ONNX says it computes. *)
EXTENDS ShapeOps, ReductionOps, MiscOps, RecurrentOps, ConvOps, VisionOps, QuantOps,
        ShapeMeaning, MiscMeaning, RecurrentMeaning, ConvMeaning, VisionMeaning, QuantMeaning

\* The predicates registered for them.
OthersClaim(n) ==
  CASE n.op = "CenterCropPad" -> CenterCropPadClaim(n)
    [] n.op = "Compress" -> CompressClaim(n)
    [] n.op = "Pad" -> PadClaim(n)
    [] n.op = "Slice" -> SliceClaim(n)
    [] n.op = "DepthToSpace" -> DepthToSpaceClaim(n)
    [] n.op = "SpaceToDepth" -> SpaceToDepthClaim(n)
    [] n.op = "Reshape" -> ReshapeClaim(n)
    [] n.op \in {"Transpose", "Flatten"} -> TransposeClaim(n)
    [] n.op \in {"Squeeze", "Unsqueeze"} -> UnsqueezeClaim(n)
    [] n.op = "Expand" -> ExpandClaim(n)
    [] n.op = "Concat" -> ConcatClaim(n)
    [] n.op = "Split" -> SplitClaim(n)
    [] n.op = "Tile" -> TileClaim(n)
    [] n.op = "EyeLike" -> EyeLikeClaim(n)
    [] n.op = "Range" -> RangeClaim(n)
    [] n.op = "Shape" -> ShapeClaim(n)
    [] n.op = "ConstantOfShape" -> ConstantOfShapeClaim(n)
    [] n.op = "Where" -> WhereClaim(n)
    [] n.op = "Resize" -> ResizeClaim(n)
    [] n.op = "Upsample" -> UpsampleClaim(n)
    [] n.op \in ReductionTypes -> ReductionClaim(n)
    [] n.op \in {"ArgMin", "ArgMax"} -> ArgMinMaxClaim(n)
    [] n.op \in {"CumSum", "CumProd"} -> CumulativeClaim(n)
    [] n.op \in {"Hardmax", "Hardmax-11"} -> HardmaxClaim(n)
    [] n.op = "TopK" -> TopKClaim(n)
    [] n.op = "OneHot" -> OneHotClaim(n)
    [] n.op = "Trilu" -> TriluClaim(n)
    [] n.op = "Scatter" -> ScatterClaim(n)
    [] n.op = "Det" -> DetClaim(n)
    [] n.op = "NonZero" -> NonZeroClaim(n)
    [] n.op = "Unique" -> UniqueClaim(n)
    [] n.op = "TfIdfVectorizer" -> TfIdfClaim(n)
    [] n.op = "Constant" -> ConstantClaim(n)
    [] n.op = "NegativeLogLikelihoodLoss" -> LossClaim(n)
    [] n.op \in RecurrentTypes -> RecurrentClaim(n)
    [] n.op = "Conv" -> ConvClaim(n)
    [] n.op = "DeformConv" -> DeformConvClaim(n)
    [] n.op = "ConvTranspose" -> ConvTransposeClaim(n)
    [] n.op \in {"AveragePool", "MaxPool"} -> PoolClaim(n)
    [] n.op \in {"GlobalAveragePool", "GlobalMaxPool"} -> GlobalPoolClaim(n)
    [] n.op = "LpPool" -> LpPoolClaim(n)
    [] n.op = "GlobalLpPool" -> GlobalLpPoolClaim(n)
    [] n.op = "GridSample" -> GridSampleClaim(n)
    [] n.op = "AffineGrid" -> AffineGridClaim(n)
    [] n.op = "Col2Im" -> Col2ImClaim(n)
    [] n.op = "RoiAlign" -> RoiAlignClaim(n)
    [] n.op = "MaxRoiPool" -> MaxRoiPoolClaim(n)
    [] n.op = "MaxUnpool" -> MaxUnpoolClaim(n)
    [] n.op = "NonMaxSuppression" -> NonMaxSuppressionClaim(n)
    [] n.op = "QuantizeLinear" -> QuantizeLinearClaim(n)
    [] n.op = "DequantizeLinear" -> DequantizeLinearClaim(n)
    [] n.op = "DynamicQuantizeLinear" -> DynamicQuantizeLinearClaim(n)
    [] n.op = "MatMulInteger" -> MatMulIntegerClaim(n)
    [] n.op = "QLinearMatMul" -> QLinearMatMulClaim(n)
    [] n.op = "ConvInteger" -> ConvIntegerClaim(n)
    [] n.op = "QLinearConv" -> QLinearConvClaim(n)
    [] n.op = "GatherBlockQuantized" -> GatherBlockQuantizedClaim(n)
    [] n.op = "MatMulNBits" -> MatMulNBitsClaim(n)
    [] n.op \in {"MatMulBlockQuantizedFp4Weight", "MatMulBlockQuantizedFp8Weight"} -> BlockQuantMatMulClaim(n)

\* The handlers registered for them.
OthersHandler(n) ==
  CASE n.op = "CenterCropPad" -> CenterCropPadOp(n)
    [] n.op = "Compress" -> CompressOp(n)
    [] n.op = "Pad" -> PadOp(n)
    [] n.op = "Slice" -> SliceOp(n)
    [] n.op = "DepthToSpace" -> DepthToSpaceOp(n)
    [] n.op = "SpaceToDepth" -> SpaceToDepthOp(n)
    [] n.op = "Reshape" -> ReshapeOp(n)
    [] n.op = "Transpose" -> TransposeOp(n)
    [] n.op = "Flatten" -> FlattenOp(n)
    [] n.op = "Squeeze" -> SqueezeOp(n)
    [] n.op = "Unsqueeze" -> UnsqueezeOp(n)
    [] n.op = "Expand" -> ExpandOp(n)
    [] n.op = "Concat" -> ConcatOp(n)
    [] n.op = "Split" -> SplitOp(n)
    [] n.op = "Tile" -> TileOp(n)
    [] n.op = "EyeLike" -> EyeLikeOp(n)
    [] n.op = "Range" -> RangeOp(n)
    [] n.op = "Shape" -> ShapeOp(n)
    [] n.op = "ConstantOfShape" -> ConstantOfShapeOp(n)
    [] n.op = "Where" -> WhereHandler(n)
    [] n.op \in {"Resize", "Upsample"} -> ResizeOp(n)
    [] n.op \in ReductionTypes -> ReduceOp(n)
    [] n.op \in {"ArgMin", "ArgMax"} -> ArgMinMaxOp(n)
    [] n.op \in {"CumSum", "CumProd"} -> CumulativeOp(n)
    [] n.op \in {"Hardmax", "Hardmax-11"} -> HardmaxOp(n)
    [] n.op = "TopK" -> TopKOp(n)
    [] n.op = "OneHot" -> OneHotOp(n)
    [] n.op = "Trilu" -> TriluOp(n)
    [] n.op = "Scatter" -> ScatterOp(n)
    [] n.op = "Det" -> DetOp(n)
    [] n.op = "NonZero" -> NonZeroOp(n)
    [] n.op = "Unique" -> UniqueOp(n)
    [] n.op = "TfIdfVectorizer" -> TfIdfOp(n)
    [] n.op = "Constant" -> ConstantOp(n)
    [] n.op = "NegativeLogLikelihoodLoss" -> NllLossOp(n)
    [] n.op \in RecurrentTypes -> RecurrentOp(n)
    [] n.op = "Conv" -> ConvOp(n)
    [] n.op = "DeformConv" -> DeformConvOp(n)
    [] n.op = "ConvTranspose" -> ConvTransposeOp(n)
    [] n.op \in {"AveragePool", "MaxPool"} -> PoolOp(n)
    [] n.op \in {"GlobalAveragePool", "GlobalMaxPool"} -> GlobalPoolOp(n)
    [] n.op = "LpPool" -> LpPoolOp(n)
    [] n.op = "GlobalLpPool" -> GlobalLpPoolOp(n)
    [] n.op = "GridSample" -> GridSampleOp(n)
    [] n.op = "AffineGrid" -> AffineGridOp(n)
    [] n.op = "Col2Im" -> Col2ImOp(n)
    [] n.op = "RoiAlign" -> RoiAlignOp(n)
    [] n.op = "MaxRoiPool" -> MaxRoiPoolOp(n)
    [] n.op = "MaxUnpool" -> MaxUnpoolOp(n)
    [] n.op = "NonMaxSuppression" -> NonMaxSuppressionOp(n)
    [] n.op = "QuantizeLinear" -> QuantizeLinearOp(n)
    [] n.op = "DequantizeLinear" -> DequantizeLinearOp(n)
    [] n.op = "DynamicQuantizeLinear" -> DynamicQuantizeLinearOp(n)
    [] n.op = "MatMulInteger" -> MatMulIntegerOp(n)
    [] n.op = "QLinearMatMul" -> QLinearMatMulOp(n)
    [] n.op = "ConvInteger" -> ConvIntegerOp(n)
    [] n.op = "QLinearConv" -> QLinearConvOp(n)
    [] n.op = "GatherBlockQuantized" -> GatherBlockQuantizedOp(n)
    [] n.op = "MatMulNBits" -> MatMulNBitsOp(n)
    [] n.op = "MatMulBlockQuantizedFp4Weight" -> MatMulFp4Op(n)
    [] n.op = "MatMulBlockQuantizedFp8Weight" -> MatMulFp8Op(n)

\* What ONNX defines for them.
OthersMeaning(n) ==
  CASE n.op = "CenterCropPad" -> CenterCropPadMeaning(n)
    [] n.op = "Compress" -> CompressMeaning(n)
    [] n.op = "Pad" -> PadMeaning(n)
    [] n.op = "Slice" -> SliceMeaning(n)
    [] n.op = "DepthToSpace" -> DepthToSpaceMeaning(n)
    [] n.op = "SpaceToDepth" -> SpaceToDepthMeaning(n)
    [] n.op = "Reshape" -> ReshapeMeaning(n)
    [] n.op = "Transpose" -> TransposeMeaning(n)
    [] n.op = "Flatten" -> FlattenMeaning(n)
    [] n.op = "Squeeze" -> SqueezeMeaning(n)
    [] n.op = "Unsqueeze" -> UnsqueezeMeaning(n)
    [] n.op = "Expand" -> ExpandMeaning(n)
    [] n.op = "Concat" -> ConcatMeaning(n)
    [] n.op = "Split" -> SplitMeaning(n)
    [] n.op = "Tile" -> TileMeaning(n)
    [] n.op = "EyeLike" -> EyeLikeMeaning(n)
    [] n.op = "Range" -> RangeMeaning(n)
    [] n.op = "Shape" -> ShapeMeaningOf(n)
    [] n.op = "ConstantOfShape" -> ConstantOfShapeMeaning(n)
    [] n.op = "Where" -> WhereMeaning(n)
    [] n.op \in {"Resize", "Upsample"} -> ResizeMeaning(n)
    [] n.op \in Reducers -> ReduceMeaning(n)
    [] n.op \in {"ArgMin", "ArgMax"} -> ArgMeaning(n)
    [] n.op \in {"CumSum", "CumProd"} -> CumulativeMeaning(n)
    [] n.op \in {"Hardmax", "Hardmax-11"} -> HardmaxMeaning(n)
    [] n.op = "TopK" -> TopKMeaning(n)
    [] n.op = "OneHot" -> OneHotMeaning(n)
    [] n.op = "Trilu" -> TriluMeaning(n)
    [] n.op = "Scatter" -> ScatterMeaning(n)
    [] n.op = "Det" -> DetMeaning(n)
    [] n.op = "NonZero" -> NonZeroMeaning(n)
    [] n.op = "Unique" -> UniqueMeaning(n)
    [] n.op = "TfIdfVectorizer" -> TfIdfMeaning(n)
    [] n.op = "Constant" -> ConstantMeaning(n)
    [] n.op = "NegativeLogLikelihoodLoss" -> NllLossMeaning(n)
    [] n.op \in {"RNN", "GRU", "LSTM"} -> RecurrentMeaning(n)
    [] n.op \in ConvTypes -> ConvFamily(n)
    [] n.op \in VisionTypes -> VisionFamily(n)
    [] n.op \in QuantTypes -> QuantFamily(n)

=============================================================================
