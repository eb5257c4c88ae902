CONSTANTS
  OpTypes <- MCOpTypes
  Nodes <- MCNodes
  ClaimElsewhere <- MCClaims
  HandlerElsewhere <- MCTranslation
  MeaningElsewhere <- MCPromised

SPECIFICATION Spec

INVARIANTS IndexedAsOnnx CroppedAsOnnx ReshapedAsOnnx ReducedAsOnnx HostComputedAsOnnx UnrolledAsOnnx ConvolvedAsOnnx SampledAsOnnx QuantizedAsOnnx ClaimedTranslates

CHECK_DEADLOCK FALSE
