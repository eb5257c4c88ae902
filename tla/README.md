# TLA+ specifications of the MLX execution provider

onnxruntime-mlx is an ONNX Runtime plugin execution provider written in Rust
(`src/rust/src`). ONNX Runtime hands it an optimized graph; the provider says
which groups of nodes it wants fused, builds a plan for each fused subgraph,
and later runs the plan on Apple's MLX library whenever `Run()` reaches it.
These modules specify the parts of that life in which the code's own logic, not
the arithmetic of MLX, decides whether the answer is right.

## Inventory

| Component | State | Operations | What makes it correct |
|---|---|---|---|
| Capability and partitioning (`capability.rs`, `partition.rs`) | none between calls; during one call the reachability table, the union-find forest, the clusters | `get_capability`: claim, colour, cluster (convex or contiguous), break cycles, cut at layer boundaries, `AddNodesToFuse` | groups are disjoint, uniform and convex; fusing them leaves an acyclic graph; it ends |
| Compute callback and run gate (`runtime.rs`, `lib.rs`) | owner thread, serial lock, plan lock, decode stream | `compile`, `compute`, `release_node_compute_infos`, `guard_ffi_status` | one thread in a plan at a time, and always the same one; OK means every output is written; every call returns |
| Compiled slots (`compiled.rs`) | per slot: enabled, attempted, valid, closure, traced graph, control-flow tokens, KV detection | `try_compiled`, `build_closure`, `trace_thunk`, detection helpers | a slot that failed stays off; a replay computes what a fresh trace would |
| Cross-attention K/V reuse (`compiled.rs`, `runtime.rs`) | copies per slot, generation key | reset, gather | a generation never attends over another's K/V |
| Translation engine (`engine.rs`) | `plan.nodes`, `plan.cache`, per call: env, arena, write-backs, KV deltas | `execute`, `run_trace`, `run_subgraph`, resolve, bind, copy-out | the node list is restored; scopes are restored; constants are cached once |
| Plan builder, graph snapshot (`plan_builder.rs`, `ort_graph.rs`) | none between calls | `build_plan`, snapshot | every input has exactly one source; boundary indices match ONNX Runtime's |
| Registry and claims (`registry.rs`) | op table | lookup by domain, name and version; claim; translate | what is claimed can be translated |
| Control flow (`ops/controlflow.rs`) | none | If, Loop, Scan unrolled during translation | a body sees its iteration's values and the outer scope's |
| Attention and KV caches (`ops/attention.rs`) | KV deltas, present names | GQA, MHA, paged attention | rows written where ONNX Runtime expects them |
| Indexing, shape, resize (`ops/shape.rs`) | none | a handler and a claim per operator | the elements ONNX selects, at negative, out-of-range and reversed bounds |
| Reductions, sorting, scans (`ops/reduction.rs`) | none | the same | ties, extremes, empty axes |
| Host-computed and miscellaneous (`ops/misc.rs`) | none | the same | algorithms over raw bytes agree with the definition |
| Recurrent (`ops/recurrent.rs`) | none | RNN, GRU, LSTM unrolled | order of time, gates and states in each direction |
| Convolution and pooling (`ops/conv.rs`) | none | the same | padding of every kind, groups, strided views |
| Vision (`ops/vision.rs`) | none | sampling, regions, suppression | borders, halves, ties |
| Quantization (`ops/quant.rs`) | packed weights and parameters in `plan.cache` | the same | blocks, nibbles, zero points, rounding |
| Other op handlers (`ops/*.rs`) | none | element-wise and real-valued operators | numerics (out of scope) |
| Factory, provider, streams (`factory.rs`, `ep.rs`, `sys.rs`) | two MLX streams | callback tables | plumbing |
| MLX bindings (`mlx.rs`) | handles | RAII | plumbing |
| Tracing, logging (`trace.rs`, `logging.rs`) | buffers, counters | events, GPU capture | changes nothing else |

How they interact: `get_capability` colours nodes with the registry's answers
and calls the partitioner; ONNX Runtime fuses the groups and calls `compile`,
which builds a `Plan` for each and wraps it in a `SubgraphComputeInfo`. `Run()`
calls `compute` on a host thread; the run gate admits it, `compute_impl` tries
the compiled slots and otherwise translates eagerly. MLX calls back into
`trace_thunk` from inside `Closure::apply`, through a raw pointer to the plan.

What is hard here: host threads that race to the gate; a callback that re-enters
the plan while the caller is suspended in `apply`; a node list that is moved out
of the plan during a translation which may fail or panic; slots that may be
retried after one kind of failure and never after any other; caches keyed by an
address or by shapes only; and graph algorithms whose answer depends on the order
edges are tried in. `PROJECT.json` lists each such place with its line.

## Modules

| Module | Models |
|---|---|
| `Partition` | `cluster_edges`, `build_convex_clusters`, `build_contiguous_clusters`, `split_annotated_layer_clusters`, as `get_capability` chains them |
| `MCPartition` | constant values for TLC |
| `PartitionProofs` | proofs about `Partition` |
| `Compute` | `compute_impl` of every fused subgraph of one session, with the gate, the node list and the slots |
| `ComputeContract` | what ONNX Runtime relies on: refused or run by the owner, no overlap, OK means written |
| `MCCompute` | constant values for TLC |
| `ComputeProofs` | proofs about `Compute`; that it implements `ComputeContract` |
| `CrossCache` | generation detection, cross K/V copies of both slots, a host that reuses buffers |
| `MCCrossCache` | constant values for TLC |
| `CrossCacheProofs` | proofs about `CrossCache` |
| `Specialize` | control-flow tokens of the general slot, MLX's cache of traces keyed by shape, which bodies a translation unrolls |
| `MCSpecialize` | constant values for TLC |
| `SpecializeProofs` | proofs about `Specialize` |
| `SharedKV` | the KV cache of GroupQueryAttention over calls: growing, fixed buffer, sliding; eager, decode and prefill slot; copy-out |
| `AttentionContract` | what the layer owes the host: every token attends to the true sequence |
| `MCSharedKV` | constant values for TLC |
| `SharedKVProofs` | proofs about `SharedKV`; that it implements `AttentionContract` |
| `Translate` | `build_graph`'s sources and fixed names, `resolve`, `run_subgraph`, If/Loop/Scan, packed weights, in-place updates, the boundary |
| `TranslateValues` | the values of a graph and bindings of names to them, shared by the modules below |
| `TranslateMeaning` | what a graph with bodies means, by lexical scope |
| `TranslateContract` | what a call owes the host: a graph evaluated with lexical scopes, one map of names for each graph in evaluation |
| `TranslateScopes` | how the translator's state is read as the contract's, and what that asks of the programs |
| `MCTranslate` | the programs; that calls answer what they mean (`AnswersMeaning`) |
| `TranslateProofs`, `TranslateImplements` | proofs about `Translate`; that it implements `TranslateContract` |
| `Tensors`, `Nodes` | arrays and the MLX primitives; what a claim and a handler see of a node |
| `IndexOps` | handlers and claims of the operators of `ops/shape.rs` that move elements by the values of an index: Gather, GatherElements, GatherND, ScatterElements, ScatterND, ReverseSequence |
| `ShapeOps`, `ReductionOps`, `MiscOps`, `RecurrentOps`, `ConvOps`, `VisionOps`, `QuantOps` | the other handlers and claims, one module per file of `ops/` |
| `IndexMeaning`, `ShapeMeaning`, `MiscMeaning`, ..., `QuantMeaning` | what ONNX defines, one module per family (`MiscMeaning` has the reductions too); `IndexMeaning` also says what operands ONNX allows an index operator |
| `Registry` | a node offered, claimed, translated, with the entries of the index operators |
| `Ops` | the entries of all other operators, and their meanings |
| `MCOps` | the nodes offered |
| `RegistryProofs` | proofs about `Registry` and the index operators |

**Partition.** Nodes are numbered by the topological order, so every edge goes
up. A colour stands for the pair (float64, compile class); `Unsupported` for a
node no claim accepts. `reach` is the code's bit matrix, `root[n]` is `uf_find`
of `n`, `sweep` holds the edges the running pass has not visited, `changed` is
the code's flag, `clusters` the surviving groups. One action per loop step:
`ComputeReach`, `SkipEdge`/`MergeEdge`, `NextPass`, `EndMerging`, `DropVictim`,
`EndBreaking`; `Contiguous` is the fallback for graphs that mix packed vision
attention with quantized matmuls; `ClaimWhole` and `ClaimSplit` are the two ends
of `get_capability`. Abstracted: bit sets are sets; the parent forest is the
map to its roots (path halving changes no root); Kahn's peeling is replaced by
the set it leaves, the largest set whose every vertex has a predecessor in it;
the cut's boundary nodes and its span are arbitrary. The code visits one node's
successors in the order the graph stores them, the model in any order. The code
computes reachability in its own depth-first Kahn order; any reverse topological
order gives the same table, and the model uses the numbering.

**Compute.** Each thread runs `compute_impl` as a small program (`pc`). `owner`
is `RunGate::owner_thread`; `serial` stands for the serial lock and the plan lock
taken right after it. `nodes` says whether the list is in `plan.nodes`: it is
out during a translation and stays out if a handler panics. A slot is `untried`
(not `attempted`), `compiled` (`valid`, never traced), `traced`, or `off`
(`attempted`, not `valid`). MLX, ONNX Runtime and handlers answer
nondeterministically, except where the code's own state decides: a RoPE slot is
built only if its constants are resident (`Rope` names the slots that wait for them; by
`build_plan` the general slot and the prefill slot are never enabled together), no slot compiles an empty node list,
`detect_seq_len` sees nothing in one. Poisoned locks are taken all the same, so
the model's locks have no poison. `apply` failing without a trace is the same
transition as a trace that declines. `MayPanic` names the paths, the trace and the eager
one, on which a handler may panic; with `MayPanic = {}` handlers return
errors only, as the repository's handlers are written to. That an OK answer of a translation has written every
output is taken from `Translate`: `finish_boundary` passes over an output that is not bound (`engine.rs:2046`),
but a handler binds each output of its node, and `AnswersMeaning` compares all outputs after an OK call;
`copy_out_raw_delta` takes a null source or destination for an empty tensor (`engine.rs:2172`).

**CrossCache.** A generation is a decoded sequence; contents are the generation
they belong to. The host keeps a live generation's cross-K buffer and may hand
it to a later one. `Compiled` is a call that gathers its inputs for a slot, and
`read` the inputs it gathered before a failure; `Eager` is a call that reads the
live buffers. `long` says whether the buffer holds more than one position, the
code's condition for caching it and for taking its address as the key.

**Specialize.** The plan's control-flow nodes are numbered in the order
`control_flow_specialization_key` walks them; `above` gives the bodies around a
node, `source` what `build_plan` makes of its condition. A call has the length `s`
of its dynamic inputs (all a shape can tell here) and the decisions `d` the host
feeds. `specs` is `control_flow_specializations`; the key is the set of its entries
with their ordinals, which fix their order; `traces` is MLX's own cache. What a
translation under given decisions emits is abstracted to which bodies run and how
often (`Unrolled`), for that is all a decision changes. Calls are atomic, as the
gate makes them.

**SharedKV.** The host's contract (`mode`), what the exported graph feeds the layer
(`graph`), the host's tokens (`seq`) and the rows of its past tensor (`past`) are
visible; of the provider there is what each slot settled on (`shared`, the code's
`shared_kv`), the key the RoPE constants are cached under (`warm`) and the prefill
traces MLX keeps with the offset baked into each (`narrowed`). A row carries its
token and the position it was rotated for, so a row in the wrong place, one
rotated for the wrong position and a stale one all differ from the right one.
`Eager`, `Compiled` and `Sliding` are the three kernels, `CopiedOut` the delta
copy-out, `Failed` a call of which an output was not written. `Rewound` is the
host: it keeps a prefix of its sequence or starts another (`Bound` caps the lengths). `AttentionContract` speaks
only of tokens; `SharedKV` refines it with `span` mapped to the window. Abstracted: batch
entries other than one (a longer one is the choice `forced`), heads, numbers.

**Translate.** `plan` is what `build_graph` and `mark_shape_constants` derive from names;
`stack` is the recursion of `run_subgraph`, `env` the flat map of names to arrays,
`writes` the recorded write-backs. A value is the term that computes it, with a number (what
a condition, count or extent would be) and a flag for dependence on the host's
data. Node kinds stand for what the engine tells apart: `Op` resolves its inputs; `Shape`
depends on extents; `Reshape` and `Reduce` read an operand on the host, the first also
from a fixed array, the second never; `Pack` is MatMulNBits' repacked weight; `Paged`
updates its input in place; `Random` is never fixed. A trace seeds `env` with
every boundary input, and a trace that fails leaves the call to the eager path.
`TranslateMeaning` evaluates the same graphs with environments that are values, never
restored because never changed; it is recursive, so `MCTranslate` holds the property
that needs it, away from the modules proofs are about. `TranslateContract` says the same without
recursion, step by step: a graph keeps the names it has bound, a name means what the innermost
graph that has it says, and `inputs` are the boundary inputs with the updates of the running
call. `TranslateScopes` finds these in the translator's state: what a frame has bound is in
`env`, or in what the first body above it that binds the name too has saved (`Place`), and `inputs`
is the host's memory with the noted updates (`Stored`).

Graphs are what ONNX allows (`WellFormed`, assumed of every program and evaluated by
TLC on each of the runs'): names are strings, operands, results and bodies are as many as
the operator says (`Arities`), a body belongs to one node of the graph right around it (`Nested`), no
name is bound twice in one graph, nodes follow what they read (`Ordered`). Two conditions are
more than ONNX's: what is updated in place, a K/V cache, is not itself derived from
initializers and shapes (`UpdatesUnknown`), and a name read as a boundary input is bound by no
graph around the reader (in `Ordered`). The refinement adds two of the same kind: initializers,
boundary inputs and what nodes yield are named apart and the outputs are the root's (`NamesApart`);
what is updated in place is bound by the root or the boundary only and decides no branch or
count (`UpdatesApart`). Bodies nest two deep: `Scopes` names
the four graphs a program may have.

**The registry and its operators.** A node has inputs
`[shape, data, dtype, source, info]`: `data` is what the handler computes with,
`info` what the graph declares (-1 for an unknown extent) and `source` whether the host can
read it. `XClaim` is the predicate, `XOp` the handler down to the MLX primitives it calls,
each of which is a definition of `Tensors` or external in `PROJECT.json`. A primitive whose
precondition fails gives `Fail`. `XMeaning` is written from the operator's
definition, element by element, with no intermediate layout. Elements are integers;
an irrational or divided result is a term of its operands (`Quotient`, roots,
logarithms), fractional positions are integers in a named unit, and rounding of floats is left out.
The activations of recurrences, `Sigmoid` and `Tanh` in `Tensors`, are two small integer functions: they are not
injective, but differ enough to tell gates, times and directions apart on the nodes offered.
`Registry` is the table: the entries of the index operators are those of `IndexOps`, which the
proofs need to see, and the entries of all others are operator constants. `MCOps` binds each of these to
an operator of `Ops` by a definition whose body is a `LET`, for TLC's cost model would otherwise expand the
call tree of every handler.

## Runs

| Run | Instance | Shows |
|---|---|---|
| `partition` | every graph on 4 nodes with every colouring of 2 colours and `Unsupported`; on 7 nodes a graph that needs a second pass and two in which clusters feed each other through nodes in neither; spans 1 and 2 | types; `ClaimSound`; `FusedAcyclic`; `MergedToFixpoint`; `Terminates` |
| `compute` | 2 threads, a graph that tries the decode slot, then the general one; handlers may panic in a trace and eagerly | types; `PlanOwnedAndExclusive`; `SerialUncontended`; `PlanIntact`; `OkMeansWritten`; `SlotNeverRevived` |
| `compute_contract` | 2 threads, a decoder with the decode and the prefill slot; no panics | `Compute` implements `ComputeContract` with its progress; `CallReturns` |
| `cross_cache` | 3 generations, 2 addresses, 2 cached inputs, 2 slots | types; `CrossFresh`; `CacheBelongsToKey`; no deadlock |
| `specialize` | 5 control-flow nodes, nested and in sequence, one of them unreadable, 2 tokens, lengths 0 and 1 | types; `ReplayIsCurrent`; `TracesReadable`; no deadlock |
| `shared_kv` | 2 tokens, a buffer of 3 rows, a window of 2, calls of up to 4 tokens, sequences of up to 5, initializers that own or borrow their bytes | types; `RowsKept`; `DetectionRight`; `SharedKV` implements `AttentionContract`; no deadlock |
| `translate` | about 1600 programs around one If, Loop or Scan (one nested If, in some on the Loop's condition), shadowed names, packed weights, updates in place; 2 calls, numbers 0 to 2 | types; `AnswersMeaning`; `EnvScoped`; `OperandsFound`; `FixedIsFixed`; `TraceReadsFixed`; `Translate` implements `TranslateContract` (`KeepsScopes`); no deadlock |
| `ops` | about 90 operators, over ten thousand nodes | a claimed node translates (`ClaimedTranslates`) and gives what ONNX defines (`IndexedAsOnnx`, `CroppedAsOnnx`, `ReshapedAsOnnx`, `ReducedAsOnnx`, `HostComputedAsOnnx`, `UnrolledAsOnnx`, `ConvolvedAsOnnx`, `SampledAsOnnx`, `QuantizedAsOnnx`) |
| `compute_panic` | `compute` with panics in a trace only (`MayPanic = {"trace"}`) | `OkMeansWrittenAfterPanic` fails: a call whose trace panics answers OK by its eager fallback and writes nothing |
| `translate_claim` | the programs of `translate` | `ConditionsReadable` fails at an If in a Loop's body that tests the Loop's condition |
| `translate_names`, `translate_baked` | the programs of `translate`, with `SharedNames` or `HostAxes` | `AnswersMeaning`, `TraceReadsFixed` fail without the restriction (see Findings) |

Why these bounds. Four nodes are the least on which two convex clusters feed each
other, and seven let every leg of such a cycle run through nodes in neither. A
second pass over the edges first changes anything on seven nodes; the graph in
`MCPartition` is one on which it does. Two threads are
enough for the gate: the second is refused whatever a third does, and subgraphs
share no state. Three generations over two addresses are the least for one
generation to take over a buffer while another interleaves. Two tokens stand for the
sixteen: the limit is met after two decisions, and calls repeat known decisions before and
after it; lengths 0 and 1 are an input the closure refuses and one it takes. The proofs below
remove these bounds for safety. In `shared_kv` a buffer of three rows is filled exactly, passed over by a
sliding layer and left partly filled, and a call may bring more tokens than the window
or the buffer holds. In `translate` two calls are what a stale cache or a replay
needs; the programs vary every name a body may shadow. In `ops` the tensors have up to
three axes of two to five elements (five axes for a plane under a window), and attributes take
every value on both sides of what a claim asks; each node is also offered with operands fed or
computed instead of constant, with unknown extents and with a type outside the claim.

Deadlock is checked in `cross_cache`, `specialize`, `shared_kv` and `translate`; GetCapability ends,
a `Compute` behaviour may rest while nobody calls, and a node in `ops` has been answered, so
those configurations switch the check off.

What the inputs of `ops` leave out, because the code departs from ONNX there or
ONNX leaves it open: GatherND of no tuples or of empty slices; GatherElements
and ScatterElements with an index shorter than the data off its axis (claimed, and then MLX refuses the shapes or
repeats an extent of one); Resize of an axis whose extent stays the
same although its scale is not 1; a Reduce with `noop_with_empty_axes` and no
axes input, with a repeated axis, or with axes another node computes (claimed, and the handler then fails);
Max and Min of no integers; equal indices in MaxUnpool; a spatial extent of 0 in Conv and the pools;
DynamicQuantizeLinear of zeros only, whose scale is 0; GatherBlockQuantized without `block_size` or with a row that
is no whole number of blocks; MatMulNBits with a weight another node computes; a zero point
of MatMulInteger whose length is not that of its axis; an `auto_pad` that is no mode of ONNX over unknown extents (claimed, and
the handler then fails); NaN among e4m3fn bytes. RoiAlign's maximum follows ONNX
Runtime's CPU kernel rather than the text of ONNX.

Fairness. `Partition`: weak fairness of `Next`, a sequential function that runs
to its end on the caller's thread. `Compute`: weak fairness of each thread's
`Step`, an operating system that schedules runnable threads and MLX calls that
return; nothing forces a host to call again. The other specifications have only safety:
their calls are atomic or sequential, and end by the bounds of the model.

## Findings

Four of them have a run that shows a shortest behaviour; the others are
disagreements met while translating the code, at the line given.

* `compute_panic`: a panic in a compiled trace loses the node list
  (`engine.rs:1944`), so the eager fallback of the same call, which the message promises to be
  correct, finds no node, writes no output and answers OK. `OkMeansWritten` and
  `PlanIntact` hold of subgraphs on which nothing panicked. (A panic on the eager path loses
  the list too; no sentence denies that. Its own call fails, later ones answer OK.)
* `translate_claim`: an input without a producer need not be readable: a formal
  input of a Loop's or Scan's body has none, and `build_plan` makes it an
  intermediate. An If on such an input is claimed and every `Run()` that reaches it fails
  (`registry.rs:1122`). The counterexample is an If in the body of a Loop whose condition is the
  formal condition of that Loop.
* `loop_claim` does not ask whether the trip count can be read, though its
  refusal speaks of a constant one (`ops/controlflow.rs:601`): a Loop whose trip count another
  node computes is claimed and every `Run()` fails (`ControlFails` in the programs with such a Loop).
* No claim asks whether a body's output is an initializer, which `run_subgraph` does not find in
  the environment (`engine.rs:1771`): an If that returns one is claimed and its call fails.
* `translate_names`: repacked weights are cached under their name alone
  (`ops/quant.rs:735`), so two bodies that name their weights alike share the first
  one's. `AnswersMeaning` and `KeepsScopes` hold of graphs whose packed names differ
  (`SharedNames = FALSE`).
* `translate_baked`: the axes input of a Reduce is missing from the list of parameters a
  trace may not read (`compiled.rs:121`), so the first call's axes are replayed.
  The other properties of `translate` assume constant axes (`HostAxes = FALSE`).
* The clusters are not always maximal: the victim of a cycle may be a cluster that merely lies
  downstream of it (`partition.rs:344`).
* The gate is per fused subgraph, so the threads of one session may evaluate concurrently
  on the streams they share (`runtime.rs:132`).
* The cached cross K/V survive a new sequence that starts with a non-empty past in the buffer
  served last (`runtime.rs:197`). `CrossFresh` holds of every host that never starts one
  (`WarmReuse = FALSE`).
* The slots of a decoder that rotates inside the layer are never built: they wait for RoPE
  constants under the plain name, and `resolve` keeps them under name and address
  (`compiled.rs:1003`). `SharedKV` checks them all the same, for initializers that borrow
  their bytes (`Ownership`).
* MaxUnpool adds where ONNX assigns (`ops/vision.rs:1188`); a claimed convolution of a
  zero extent fails instead of being declined (`ops/conv.rs:115`).
* GatherBlockQuantized takes 128 for an absent `block_size` in its claim and 32 in its
  handler (`ops/quant.rs:1225`); MatMulNBits is claimed with weights its handler
  cannot read (`ops/quant.rs:738`); two documents say the form with zero points is
  not claimed, and it is (`ops/quant.rs:2021`).

Two more limits of the code were met and are not in that list, since no sentence
denies them. With a mask as wide as the buffer (`PaddedMask = TRUE`) a narrowed prefill trace
takes its offset from the mask and the copy-out from `total_sequence_length`, and
`RowsKept` fails; exporters feed a mask as wide as the sequence. A sliding layer whose call fails after
its buffer was copied out cannot be called again, so `Failed` makes its host start afresh.

## Proofs

All are checked by TLAPS for every value of the constants.

* `PartitionProofs`. Assumed: `N` a natural number, `Unsupported` not a colour,
  edges go up, spans positive. The inductive invariant is the conjunction of four
  parts. `ReachInv`: nodes above the cursor have a table row that is closed under
  `edge` and holds just what a path leads to; `RootInv`: roots are idempotent, and
  every cluster is uniform and convex by the table; `ClustersInv`: what the
  groups inherit from the merge loop in each later phase, and that their quotient
  has no cycle once breaking ends; `FixpointInv`: if the running pass has changed
  nothing, every edge already visited is settled. `ClaimSound` needs them because the code
  judges convexity by its table, while the property speaks of paths.
  `FusedAcyclic` after a cut at layer boundaries takes a further argument: parts of
  one cluster are ordered by the position of their nodes, so a cycle among parts
  would be a cycle among clusters. Induction along paths and over sets is done by
  least counterexample (`LeastNumber`), since a theorem with an operator parameter
  cannot be instantiated. `StepsLeadOn` is the safety core of `Terminates`: every step lowers, in
  that order of weight, the phase, the work left in it (rows of the table, clusters to merge, groups to drop) and the
  edges left in the pass, all natural numbers, and before the claim some step's guard holds.
* `ComputeProofs`. Assumed: `NoThread` is no thread, some subgraph exists. `GateInv`:
  a thread past the gate owns its subgraph, one inside the plan holds its
  lock, and a lock is held by a thread inside. `NodesInv`: the list is out only during a
  translation or after a panic. `SlotInv` ties a program counter to the state of the slot it
  works on. From these follow the five safety properties and, as an action property,
  `SlotNeverRevived`. `ComputeKeepsContract`: with `MayPanic = {}`,
  `Spec => Contract!Safety`; `serial` maps
  to `active`, the subgraph of `call` to `target`, and a thread inside a call is `busy`;
  `Enter`, `Reject`, `AcquireSerial` and `Return` are the contract's
  steps, everything else stutters. `CallsAreBounded` is the safety core of `CallReturns`: a
  call's stage, the slots it has not tried and its position in the node list go down, in that
  order of weight, at each of its steps, and another thread's step leaves them or lowers
  them (it may switch off a slot). No step waits, by `SerialUncontended`, so with the fairness of `Spec`
  every call comes back; only that last inference is not machine-checked.
* `CrossCacheProofs`: `CrossFresh` and `CacheBelongsToKey` with `WarmReuse = FALSE`. What is
  inductive is their conjunction with `BuffersDistinct`: live generations never share
  a buffer, so a live generation at the recorded address with a past is the one
  the copies came from. `TypeCorrect` types the cache.
* `SpecializeProofs`. Assumed: a body is inside a node with a smaller number, together with
  all that surrounds it. `KeyUnrolls`: decisions with equal keys unroll equally. A key does not
  name nodes, only ordinals, so the argument takes the first node at which two decisions
  differ: up to it both walks met the same nodes, so it has the same ordinal in both
  and, ordinals being injective, the same entry. `ReplayIsCurrent` then needs
  `TokenInv` (tokens count up and are not shared) and `TraceInv` (a kept trace is
  what every decision that holds its token unrolls to; a fresh token has none).

* `SharedKVProofs`. Assumed: the window holds at least one row and the buffer no fewer, lengths
  are natural numbers. `TypeCorrect` and `DetectsRight` follow from
  `ShapeInv`, which adds the shapes of the past tensor and of the narrowed traces to the types:
  the kernels may write nowhere else. `RowsAreKept` and `KeepsContract`
  (`Spec => ContractSpec`) need more. That the buffer holds the valid rows of `seq` between
  calls (`RowsKept`) is not inductive: a replay of a prefill trace is right only if the
  offset it baked is the offset of this call, and a sliding buffer keeps only the rows the next call
  may look at. `KVInv` adds what a slot has settled on, what the traces
  were narrowed to and from where a sliding buffer is filled. The kernels
  (`Grow`, `Place`, `Slid`) are lemmas of their own: which row ends at which place. Both theorems assume
  `PaddedMask = FALSE`, masks as wide as the sequence, as the exporter makes them; what
  happens otherwise is told under Findings.
* `TranslateProofs`, about any set of well-formed programs, boundary inputs and number of
  calls. `Good` is what holds of the stack of graphs in translation and the one flat map of names
  that serves them all: each frame is a body of the node the frame below it is at
  (`StackInv`); a name in the map belongs to a graph on the stack or to the boundary
  (`ScopedInv`); what a frame has bound is in the map, or saved by the first body
  above that binds the name too (`BoundInv`); the same for names called fixed, whose array, there or
  saved, does not depend on the host's data (`FixedInv`); and what is fixed in a frame stays
  so in the bodies above that leave it alone (`InheritInv`). The last two have to be
  said of every frame, not only of the top one, because the end of a body makes the frame below it
  the top one again. Advancing, entering a body and leaving it keep `Good` (`AdvanceKeeps`,
  `PushKeeps`, `PopKeeps`); the actions are combinations of the three. From it follow
  `EnvScoped`, `OperandsFound`, `FixedIsFixed` and, with `GeneralEnabled`,
  `TraceReadsFixed`, which assumes `HostAxes = FALSE` (the run `translate_baked` shows what
  happens otherwise). `Fixed` is a recursive function; its equation is proved
  by least counterexample (`Recursion`). `UpdatesLast` proves `UpdatesComeLast`: within a call the host's
  inputs change only with its success. No run lists it, for `KeepsScopes` implies it.
* `TranslateImplements`: with `SharedNames = FALSE`, `Spec => KeepsScopes`; `translate_names` shows what
  happens otherwise. `Call`, `FinishBoundary` and `Refill` are the contract's `Start`, `Answer` and `Rebind`; `Branch`, `Iterate` and
  `EndBody` are `Choose`, `Repeat` and `Return`; `Translate` is `Update` where it writes in place and
  `Evaluate` elsewhere; every failure is `Fail`, and `Done` stutters. The invariant adds three parts to
  that of `TranslateProofs`. `Levels`: a name a frame has not bound yet is found by it as
  the frame below finds it, and under the root are the boundary inputs, read or not (without it a read in `env` could
  meet an array of an inner body, or an input from before an update). `RightCache`: a kept array is its initializer's, in whichever
  graph and call it was first resolved. `RestInv`: nothing is left between calls, a trace has noted
  no update, and what is noted is what some node updates in place, so that no condition or count read in the
  host's memory is stale. `MeantOfEnv`, `MeantOfHost` and `MeantOfInit` say that the three places
  an operand may come from hold what the name means; there is one lemma for each action
  (`EvaluateStep` to `RebindStep`), resting on how advancing, entering and leaving change the
  places (`AdvanceLevels`, `PushLevels`, `PopLevels`) and the graphs (`AdvanceGraphs`, `PushGraphs`, `PopGraphs`).

* `RegistryProofs`. Assumed: a node of an index operator has operands ONNX allows (`LegalOperands`:
  arrays with an element at every index, declared extents that are the real ones or unknown, axes, tuples and
  lengths in range), less what the inputs of `ops` leave out; nothing about other nodes, nor about the
  entries of other operators. `IndexedRight` is `IndexedAsOnnx` for arrays of any rank and
  extent, and `IndexedNeverFails` says that no primitive these handlers call meets operands it refuses.
  Handlers and primitives go through flat positions, ONNX through indices, so the first half is about
  arrays: the folds `Prod` and `Total` and the recursive function in `Place` are unfolded by
  one element (`ProdAppend`, `TotalAppend`, `PlaceAppend`), `Coord` and `Place` are inverse between the positions of an
  array and the set `Box` of its indices (`CoordIn`, `PlaceIn`, `CoordPlace`), and each splits where a shape is a
  concatenation (`ProdCat`, `PlaceCat`, `CoordCat`); inductions run over the set of lengths for
  which a fact holds (`NatSets`), since an induction theorem cannot be given a formula. With these each handler has
  an argument of its own. A scatter is the last write to a place (`LastHit`). A tuple times its strides is
  the place of the tuple in the leading axes (`TuplesAre`), and a row of `Rows` is the slice there (`FlatRows`). ReverseSequence: `AxesFirst` is a permutation (`Ordered`), an array
  transposed by it and back is read at the original index (`Transposed`). `Registered` is
  the invariant of the table: a node past its predicate was claimed, and its outputs are its
  handler's.

Only model-checked: liveness (`Terminates`, `CallReturns`, and the contract's
progress), `AnswersMeaning`, and of the registry `ClaimedTranslates` and every property of handlers but
`IndexedAsOnnx`. Liveness and `ENABLED` are beyond the prover; what is safety in the first two is
proved (`StepsLeadOn`, `CallsAreBounded`). The meaning of a graph in `TranslateMeaning` is recursive over nested
graphs and iterations and uses RECURSIVE operators, which the prover does not take; `KeepsScopes` is the
proved form of the same claim. The other operators number about eighty; each would need an argument like
those above, of its own, on the same lemmas about arrays.

## Not modelled, and what is left

MLX's arithmetic and its lazy graph, the ORT ABI plumbing, handle ownership
(`mlx.rs`), logging and the Python package are left out: they hold no control state or need
real arithmetic. So are the element-wise, normalisation, signal, random, state-space, image and ONNX-ML
handlers, whose claims check type and rank and whose results are MLX's own.

Within modelled files: `SplitToSequence`, the decode shortcuts of Tile and Range
(`ops/shape.rs`); SoftmaxCrossEntropyLoss and the Optional operators (`ops/misc.rs`); QMoE and
the fp16 route of MatMulNBits (`ops/quant.rs`); the attention operators other than GroupQueryAttention and the
masks built from a bias (`ops/attention.rs`); versions, domains and the table of compile-shape
safety (`registry.rs`), where `compile_shape_safety` normalises the domain `ai.onnx` to
the empty one and the claim's lookup does not; a Scan of length 0, whose body is
translated once to learn its shapes; a name that a middle body binds and an outer
initializer also bears, read two bodies further in, which `build_graph` takes for
the initializer. Conv is registered for closures without shapes although `auto_pad` is computed
from the extents of the trace, which no graph here
builds.

Left of the plan, in order:

1. `Lifecycle`: `compile` with partial failure, `release`, the dedicated stream.
2. Registry lookup by version and domain, and compile-shape safety against what
   handlers bake into a trace.
3. Layer boundaries: `infer_boundary_indices` and `select_layer_partition_span`.
