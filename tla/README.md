# Verification of neuralFPGA

TLA+ models, TLC runs and TLAPS proofs for the Neural FPGA project: a
convolution accelerator and the small RISC-V system on a chip around it
(SpinalHDL), and the firmware that runs on it, which is for the most part
TensorFlow Lite Micro (C++). Paths of hardware files are relative to
`hardware/main/scala/jderobot/lib/`, paths of firmware files to
`firmware/tfmicro/tensorflow/lite/`, unless they begin with `hardware/` or
`firmware/`.

1. [The system](#1-the-system)
2. [How it is modelled](#2-how-it-is-modelled)
3. [Modules](#3-modules)
4. [Runs](#4-runs)
5. [Fairness](#5-fairness)
6. [Proofs](#6-proofs)
7. [Where code and documents disagree](#7-where-code-and-documents-disagree)
8. [What is not modelled](#8-what-is-not-modelled)
9. [Plan](#9-plan)

## 1. The system

### Hardware

Software writes words of four pixels to the accelerator and reads one 32-bit
result per pixel and output channel:

    bus -> X FIFO -> Ser32to8 -> WindowBuffer3x3 -> state machine -> Mac8x9 -> Z FIFO -> bus
                                                        ^
                                   bus -> yMem0 .. yMem3 (kernels)

| component | state | operations | must guarantee |
|---|---|---|---|
| `accelerator/WindowBuffer3x3` | two row memories, read pointer, write offset, 3x3 cache, delay counter, `pendingRsp` | accept a pixel, hand out a window, restart (`init`) | windows are the neighbourhoods of the pixels, one per pixel behind the delay, held until taken |
| `accelerator/Ser32to8` | byte counter | pass on a byte, release the word with its last byte | bytes stay aligned to words, also when a word is flushed |
| `accelerator/Mac8x9`, `AdderTreex9` | five pipeline registers | accept a command, move up, return a result | no loss, no reordering, no deadlock; sums do not overflow |
| `accelerator/AcceleratorV1` (core) | kernel memories, kernel address, window register, state machine | run a window through the kernels of all channels, restart | each window meets each kernel once, in order |
| `accelerator/AcceleratorV1` (`driveFrom`) | X and Z FIFO, configuration registers | status, init, configuration, X, Y, Z | a driver that follows the status register loses nothing and gets the convolution |
| `math/Utils` | none | rounding division, saturating high product | round to the nearest, stay in range; the product is gemmlowp's |
| `com/ft245/Ft245Sync` | output registers, state machine, data counter | read burst, write burst | one driver of the shared bus; bursts end |
| `lattice/ice40/Bram`, `Spram` | memory, response registers | read, masked write | behave like a byte memory |
| `misc/MachineTimer` | counter, compare register, interrupt latch | write either half of the compare register | interrupt at the deadline, not before, not lost |
| `hardware/.../neuralfpga/core/Tote` | reset counter, bus fabric, processor | reset, bus transfers | the system is reset whole and comes out of reset |

Components interact by valid/ready streams (a transfer happens in a cycle in
which both are high), by flows without back-pressure (bus writes to X and Y) and
by `init`, a one-cycle pulse that restarts several components at once. There is
one clock; everything that is concurrent happens in the same cycle or in
pipelined neighbours. What is hard here: *restart against traffic* (`init` hits
the state machine, both FIFOs, the serialiser and the window buffer in different
cycles, and the MAC pipeline not at all); *back-pressure* (a full Z FIFO must
stall five components in a row); *staleness* (the status a driver acts on is
cycles old, and a FIFO counts a word a cycle before it can be popped);
*addresses that wrap* (row memories, kernel address, timer); *events in the same
cycle* (pixel in and window out, set and clear of the interrupt, both flags of
the FT245).

### Firmware

A program hands a model file, a list of operators and one array of bytes, the
arena, to an interpreter. There is no heap: everything the interpreter needs is
in the arena.

    program -> MicroMutableOpResolver (operators, parsers)
       |              |
       +-> MicroInterpreter -> MicroAllocator -> SimpleMemoryAllocator (arena)
                 |                   +-> GreedyMemoryPlanner
                 +-> kernels: Init, Prepare, Eval of each operator

| component | state | operations | must guarantee |
|---|---|---|---|
| `micro/simple_memory_allocator.cc` | head, tail, temp | persistent, temporary and head allocations | nothing persistent is given out again, temporary memory lasts until it is reset, accounts exact |
| `micro/memory_planner` | requirements, the list of placed buffers | add a buffer, calculate offsets | buffers in use at the same time do not overlap |
| `micro/micro_allocator.cc` | scratch buffer requests in the head, the largest plan so far | start and finish a model, request a scratch buffer, commit the plan | data of one model survives the allocation of another on the same arena |
| `micro/micro_interpreter.cc` | status, tensors, nodes | allocate, invoke, tensor, reset variables | each error is returned; an invocation finds its data where it was put |
| `micro/micro_mutable_op_resolver.h`, `core/api/flatbuffer_conversions.cc` | registrations, builtin codes and parsers, each with a counter | add, find, parse | an operator is found with its own parser |
| `micro/kernels/*.cc` | user data of a node | Init, Prepare, Eval | read only what was set before; take data for the type it has |
| `kernels/internal/**` | none | the loops over the elements | each element of the output written once, from the right elements of the inputs |

Everything is sequential. What is hard here: *a resource at its limit* (an arena
that is too small by one structure must be refused at each of some thirty
places, and some places forget to); *a long sequence of legal calls* (two
interpreters that share an arena, invoked in turn, allocated again); *one step of
several failing*; *state set in one callback and read in another* (Prepare goes
by the type of the output, Eval by that of the input); *indices* (paddings,
strides, dilations, broadcast dimensions of size 1, negative axes), which go wrong
only for some combinations of sizes.

`PROJECT.json` lists each hazard at its line with the properties about it.

## 2. How it is modelled

**Hardware.** A component's module has its registers and memories as
`VARIABLES`, its combinational signals as operators without primes, `Reset` for
the register values of power-up and `Clock(inputs)` for one rising edge.
Operators carry the names of the signals. Clock edges of parts are composed by
conjunction, as the circuits are: `AcceleratorV1Ctlr!Clock` is the conjunction of
the clocks of serialiser, window buffer and MAC and of its own registers. A
*step is a clock cycle*; the actions of a closed system are what can happen at
its ports in a cycle (a bus command, a pixel offered, a flag of the chip).
Pixels and kernels are symbolic: a pixel is a model value or the pair of its run
and position, a kernel word is a pair of its low byte and the rest, and a MAC
command is the pair of its operands, so that the identity of a result says which
operands it was made of. That the arithmetic in between is right is a model of
its own, `MacArithmetic`. Memories and registers without a reset value, and those
no pixel has entered yet, hold `Blank`.

**Firmware.** A step is one call, or the part of a call up to its next
allocation, since an allocation is what can fail. The arena's addresses are
counted in words, and the contents of memory are abstracted to who owns a range
and whether anybody else has written to it since (`clobbered`). A call in progress
is the record `call` (where it is, for whom, at which operator). A call that
reaches a check that halts the program, a null pointer or memory it must not
touch ends in `Stopped`. A function of a kernel is described by what matters to
other functions: the checks it makes, in their order, the fields it reads and
sets, and the types it takes the data of its tensors for (module `Kernel`).

A reference kernel is a pure function of shapes and parameters to what its loops
do: a function from the tuple of the counters of the outer loops to the element
written and the elements (and zero points, bias, multiplier, divisor) that go into
it. The values of the elements are left out, and with them the difference between
kernels that only differ in their type; kernels are kept apart because their loops,
offsets and scales differ from file to file. The run compares the function
with a definition that goes from the output instead: which elements the operator,
mathematically, is made of at given coordinates.

## 3. Modules

Hardware:

| module | models | notes |
|---|---|---|
| `WindowBuffer3x3` | `WindowBuffer3x3.scala` | `RowShifter`, `WindowCache`, `DelayCounter`, `PendingRsp` are the areas and registers of the source |
| `WindowStream` | its environment | `Accept`, `Wait`, `Restart` with the history the properties speak about; restarts coincide with no pixel, which `NoPixelWhileInit` shows for the accelerator |
| `Ser32to8` | `Ser32to8.scala` | |
| `Mac8x9` | control of `Mac8x9.scala`, `AdderTreex9.scala` | `Loads(i)` unfolds the ready chain of five `Stream.stage()` |
| `MacStream` | its environment | commands are numbered as they are accepted |
| `MacArithmetic` | data path of the same files, `Multiplier8x8x2.scala`, `SB_MAC16.v` | one command through the stages |
| `StreamFifo` | FIFO of the SpinalHDL library | external; contents and the delayed `pop.valid` |
| `AcceleratorV1Ctlr` | core of `AcceleratorV1.scala` | instantiates the three parts |
| `AcceleratorV1` | `driveFrom`, `PipelinedMemoryAcceleratorV1Ctlr` | one action per bus command |
| `Convolution` | abstract: what a driver is promised | five variables, three actions |
| `AcceleratorV1Host` | accelerator and a driver that goes by the status | `promise == INSTANCE Convolution` is the refinement |
| `AcceleratorV1Traffic` | accelerator under arbitrary commands | |
| `FixedPoint` | `math/Utils.scala` in the test circuits of `UtilsTest` | beside it, as a reference, the function of gemmlowp |
| `Arithmetic` | `FixedPoint`, `MacArithmetic` and the firmware's `ReferenceKernels`, one computation at a time | |
| `Ft245Sync` | `Ft245Sync.scala`, three controllers | `ctrl` chooses one |
| `Bram`, `Spram`, `OnChipRam` | both RAMs, and a byte memory beside them | `Spram` includes `SB_SPRAM256KA.v` |
| `ToteReset` | `resetCtrl` in `neuralfpga/core/Tote.scala` | pin, debugger and power-up values are free |
| `MachineTimer` | `MachineTimer.scala` | `Begin` and `Finish` are the writes of the two halves |
| `Devices` | the four groups above, `WindowStream` and `MacStream` | a behaviour is the life of one of them: they share only the clock |

Firmware:

| module | models | notes |
|---|---|---|
| `GreedyLayout` | the algorithm of `greedy_memory_planner.cc` | the loops are stated by what they find (`WalkEnds`), so that the module can be proved about |
| `MemoryPlanners` | the class of the greedy planner, `linear_memory_planner.cc`, a client of both | one step places one buffer |
| `SimpleMemoryAllocator` | `simple_memory_allocator.cc`, the accounts of `recording_simple_memory_allocator.cc` | `size_t` differences modulo `AddressSpace` |
| `MicroAllocator` | `micro_allocator.cc` on top of it | sizes of structures are constants |
| `MicroInterpreter` | `micro_interpreter.cc` and its client | one action per place that allocates |
| `Kernel` | the vocabulary of the descriptions | `\oplus` puts steps of a function together, the first refusal ends it |
| `KernelsNeural`, `KernelsElementwise`, `KernelsTensor` | `micro/kernels/*.cc`, 63 registrations | one description per `Init`, `Prepare` and `Eval` |
| `FlatbufferConversions` | `core/api/flatbuffer_conversions.cc` | a parser is the set of the fields it copies; those of the resolver and the big switch of `ParseOpDataTfLite` |
| `MicroMutableOpResolver` | `micro_mutable_op_resolver.h` | EXTENDS the parsers |
| `MicroKernels` | the life of one node, from the resolver to `Invoke` | any operator, any types |
| `ReferenceShapes` | `kernels/internal/types.h`, `common.h`, `kernels/padding.h`, `process_broadcast_shapes.h` | shapes, offsets, broadcast descriptors, paddings |
| `ReferenceLayers` | convolutions, fully connected layers, pooling in `kernels/internal/reference/` and `reference/integer_ops/` | products and windows |
| `ReferenceElementwise` | add, sub, mul, comparisons, maximum and minimum, prelu | operands and their parameters |
| `ReferenceTensors` | concatenation, pad, strided slice, batches and space, resize, arg min and max, reductions | places; the scale of a resize in single precision, bit by bit |
| `ReferenceKernels` | a call of any of them, with the shapes its operator prepares | states the three properties |

Proofs: `WindowStreamProofs` (the window buffer's invariant), `AcceleratorV1Proofs`
(accelerator with its driver and under arbitrary commands), `ArithmeticProofs` (fixed
point, the data path of the MAC and the firmware's layers), `DevicesProofs` (devices,
commands of the MAC pipeline, properties of the windows),
`MemoryPlannersProofs`, `MicroInterpreterProofs` (arena and interpreters),
`MicroKernelsProofs` (resolver, parsers and kernels), and `NumberLemmas`, what several of them need of numbers:
remainders, powers of two, the least element of a set of naturals, induction in the
form of a statement about sets, and that a recursively defined function exists.
The closed systems have their constants in the cfg, or, if they are not plain
values, in definitions at the end (`MC...`).

Each module names its deliberate faults ("Mutant: ..."), definitions that replace
the one they precede: with it each property of the runs is violated, which shows
that the property depends on the code.

## 4. Runs

| run | distinct states | shows |
|---|---|---|
| `host` | 17 691 | `WritesFit`, `ReadsSucceed`, `NothingLost`, `Implements` |
| `restart` | violation | `OnlyResultsDue` fails if the driver does not drain |
| `traffic` | 227 170 | `NoPixelWhileInit`, `WordAligned`, `ResultHeld` |
| `arithmetic` | 884 458 | `FixedPointIsNearest`, `ResultIsDotProduct`; `LayersAreRight`, `ElementsAreRight`, `TensorsAreRight` |
| `gemmlowp` | violation | `HighMulIsGemmlowp` fails for negative ties |
| `devices` | 177 467 | `SharedBus`, `BurstsEnd`; `RamsAnswer`; `NoEarlyInterrupt`, `NoMissedInterrupt`; `FullReset`, `SystemRuns`; `WindowIsNeighbourhood`, `OneWindowPerPixel`, `WindowHeld`; `InFlight`, `InOrder`, `Answered` |
| `planner` | 2 739 505 | `NoOverlap`, `NeverWorseThanLinear`, `LowestFreePlace` |
| `interpreter` | 202 480 | `PersistentKept`, `UsedBytesExact`, `LiveDataIntact`, `PlanInsideHead`, `OptionalInputsHarmless`, `HandlesNotNull` |
| `requests` | violation | `RequestsFit` fails if the head cannot be adjusted |
| `temps` | violation | `TempsGuaranteed` fails if a persistent allocation meets temporary ones |
| `kernels` | 131 161 | `FoundWithItsParser`, `EveryPlaceIsFound`, `ReadsWereSet`, `TypesRespected` |
| `written` | violation | `OkMeansWritten` fails for CAST and MUL |

Bounds, and why they are enough:

* **host**, **restart**: FIFOs of 2 words (smaller than a run, so both fill),
  kernel memory of 2, one and two channels, up to 4 words in each of up to 3 runs
  with changing geometry.
* **traffic**: one pixel value and row memories of one cell, because the
  properties are about control only; three pipeline stages, FIFOs of 2. No bound
  on the number of commands: the state space is finite.
* **arithmetic**, **gemmlowp**: fixed point with all pairs of 8-bit operands and all
  exponents, ties of either sign among them; the code is uniform in the width. MAC with 4-bit taps, every assignment of three
  extreme pairs to the nine taps, extreme accumulator inputs: a sum of nine extreme
  products is what overflows. The widths of the stages follow the same formula as
  with 8 bits. Reference kernels: one dimension of a window runs over all images of
  1 to 4, filters and strides of 1 to 3, dilations of 1 and 2 and both paddings while
  the other one is plain, then the other way round (the loops treat them
  separately, and a mistaken height for width shows); so strides longer than the
  window, windows longer than the image and odd paddings all occur. Averages are
  compared for sums of -9 to 9. Tensors of the other kernels have the sizes 2, 3, 2,
  3, 2, any set of which is 1: neighbouring sizes differ, so an index that takes the
  wrong one is found, and all broadcast patterns occur. Slices have every start,
  stop, stride and mask of one axis within and beyond its ends; axes of reductions
  are negative, repeated and out of range. Images of 1 to 4 are resized to 1 to 8, and
  of 2 to 41, 82 and 83 (`RoundedSizes`), where `resize_nearest_neighbor.h:32-41` gets
  another index than exact arithmetic would: its scale and its product are rounded to
  single precision, as they are in the model (`FloatQuotient`, `FloatProduct`), and from
  2 to 82 the place 41, where the second pixel begins, is given the first one.
  `IsNeighbour` allows either pixel exactly on a boundary and only there.
* **devices**: FT245 with a 3-bit counter and no other bound; RAMs with two words
  at an address that is not zero, aligned and unaligned, masks for a byte, a half
  and a word; timer with a counter of 4 bits in two words that turns over in the
  run and pauses of up to 5 cycles between the two writes (`HorizonAssumption`
  excludes deadlines half a turn away, 2^63 cycles in the code); reset with a 3-bit
  counter (6 in the code), nothing else bounded. Window buffer: row memories of 2 cells,
  row widths 1, 2 and 3 (below, at and above the memories), delays 0, 2 and 6 (none,
  short, and 2 rows + 2 pixels at width 2), runs of 7 pixels, which is one more than a
  window spans, so each memory cell is reused. Two pixel values are enough to tell
  positions apart since all assignments are tried. `MaxRun` bounds a run, not the
  number of restarts. MAC pipeline: the five stages of the code and nine commands, so
  the pipeline fills, empties and fills again. The theorems remove these bounds.
* **planner**: up to four buffers of two sizes over three operators, with or without
  an offline offset; plans may be asked for in between. Four buffers are what
  it takes for a gap between two placed buffers that a third fits and a fourth
  does not.
* **interpreter**, **requests**, **temps**: two interpreters on one arena, six models (two
  operators with scratch buffers and an input that only the second reads; an operator
  with the largest number of scratch buffers; variables and an omitted input;
  offline offsets; an unregistered operator; an unused tensor), structure sizes in
  words in the order they have in a 32-bit build. The arena takes every size from
  too small for anything to ample (26 to 50, 60, 76, 92 words), so each allocation is
  the one that fails in some behaviour. `MaxAllocatingCalls` (3) bounds the calls
  that allocate; invocations are not bounded.
* **kernels**, **written**: the node's operator is any of the 63, its tensors have any
  of seven types; three places in the resolver and four operators to add, so that a
  repeated operator, a full resolver and custom operators between builtin ones all
  occur.

`CHECK_DEADLOCK FALSE` in `arithmetic` and `gemmlowp` (a computation ends), `kernels` and `written`
(a refused node stays so). In the other runs the system never stops.

## 5. Fairness

* `MacStream` (in `Devices`): while there are commands in the pipeline, the consumer is ready again
  and again. In the accelerator it is the Z FIFO, which a driver empties. No
  fairness for the producer: accepted commands must leave without being pushed by
  others.
* `AcceleratorV1Host`: the driver polls again and again and fetches what the status
  announced. The hardware needs no assumption: each action of the driver,
  `Pause` included, is a clock cycle in which all parts move.
* `Ft245Sync`, `ToteReset` (in `Devices`): the clock runs: an edge that changes a
  register comes about (`WF_regs(Next)`; with all variables as subscript the
  condition would also force the inputs to change). `SystemRuns` is about pins that
  are quiet at last. `BurstsEnd` assumes, as a hypothesis of the property, that the
  chip pauses each direction again and again, as its 512 byte buffers and the
  computer behind it make it do.
* No other specification states fairness; their properties are safety properties.
  The firmware is sequential and each of its loops is over an array of the model
  file: that a call returns is not in question.

## 6. Proofs

`tlapm` checks all proofs from nothing. Assumptions are only those of the
constants, named in the modules that declare them and evaluated by the runs:

* accelerator: `MaxRowWidth` positive (the code asks for a power of two, which the
  proofs do not need), `Blank` not a pixel, `Stages` positive, `Bubble` not a number,
  FIFOs of at least two words, a positive kernel memory; what a driver programs: at
  least one channel and no more than there is kernel memory for, rows that fit in
  the row memories, a delay of at least two rows and two pixels (`RowsAssumption`).
* devices: a bus of at least one bit; a RAM mapped at a multiple of its size; a timer
  deadline less than half a turn of the counter away, with time for both writes
  (`HorizonAssumption`); a reset counter of at least two bits.
* arithmetic: operands of at least two bits; taps of at least one bit and an
  accumulator wider than the last stage of the sums. Layers: images, filters, strides
  and dilations are positive; among them are the sizes of a dimension that is
  not varied, an image of 3 under a filter of 2 with neither stride nor dilation
  (`SizesAssumption`).
* firmware: sizes and offline offsets natural; the arena's start aligned to every
  alignment asked for (`MicroAllocator::Create` aligns it to the largest), its end
  below the end of the address space, and no request so large that it reaches around
  the bottom of the address space; structures in the order of their sizes in the code
  (`StructsAssumption`: a handle is no larger than an allocation info, and that no
  larger than the twelve requests for which the head has room); the tensors that a
  model names exist, and it has an operator (`ModelsAssumption`); its operators are in
  the order of their execution, and what it places offline respects the lifetimes
  (`LifetimesAssumption`, which the converter that writes models sees to and the
  interpreter relies on without looking); buffers are aligned at least as
  structures are (`BufferAlignmentAssumption`: 16 bytes).
* resolver and kernels: a natural number of places (`tOpCountAssumption`); the program
  adds operators that the resolver has functions for (`CompanionsAssumption`).

**`WindowStreamProofs`** proves the invariant of the window buffer for every
memory size, row width and delay, and `DevicesProofs` derives the three properties of
the run from it. `WindowIsNeighbourhood` is not inductive: it
speaks about the cache while a window is offered, and the next window comes from
the row memories. The inductive invariant `IInv` (in `WindowStream`) says where
each pixel is: the read pointer is the length of the run modulo the memory size
(`PtrInv`), row 0 holds the last `MaxRowWidth` pixels at the place their write
pointer was (`Row0Inv`), row 1 the pixels one row above them (`Row1Inv`), the
cache the nine neighbours (`CacheInv`), the delay counter what is left of the
delay (`DelayInv`). The heart of the proof is that the cell under the read
pointer holds the pixel exactly `RowWidth` positions back, whether the row width
is smaller than the memory, equal to it, a multiple or larger; the arithmetic
modulo a variable it needs is stated in lemmas of its own. There is a step for
each action (`Accept`, `Wait`, `Restart`) and under it one for each conjunct.
`WindowHeld`, an action property, follows from the same invariant.

**`AcceleratorV1Proofs`** begins with what a clock edge does to the number of words in
a FIFO and to `pop.valid` (`FifoEdge`): a word that was in the FIFO and stayed can be
popped in the next cycle, the first one not before the cycle after it. For every
sequence of commands it then proves `NoPixelWhileInit`, `WordAligned` and `ResultHeld`:
the state machine reaches `sInit` only in the cycle after a flush (or after `boot`,
with an empty FIFO), when the FIFO cannot be popped, and the serialiser is at the
start of a word whenever no word is there.

It proves `WritesFit` and `ReadsSucceed` for every driver of
`AcceleratorV1Host`, and, if it drains its runs (`Drain = TRUE`, which the run `restart`
shows to be necessary), `NothingLost` and the types, for any FIFO depths, pipeline length,
kernel memory, geometries and numbers of words and runs. `NothingLost` speaks about a run
that is set up and says nothing of how it got there. The inductive invariant `IInv`
adds: before a run is set up nothing is on its way and the pixels that still wait
will make no window (`Quiet`); the driver has no credit until the window buffer is set
up (`Starting`); the registers hold the geometry by the time they are used
(`Configured`); the delay counter is what the pixels taken so far have left of the
delay, and the windows made, times the channels, are the results received and those
in the machine (`Accounted`). That `Accounted` is kept is a sum over the places of the
machine (`AccountedStep`): each cycle moves what it takes from one place to the
next. The number of commands in the MAC pipeline is the cardinality of `Occupied`, and
`PipelineCount` pairs the occupied registers before and after an edge by a bijection,
for any number of stages. A drained run ends `Quiet` (`DrainedIsQuiet`), because each
place in the sum holds a natural number.

The last part is the refinement (`StepsImplement`): each cycle of the accelerator with a
driver that drains its runs is a step of `Convolution` or a stutter, so *what* the driver
receives is the convolution of what it wrote. To the counts, the invariant `DataInv` adds the
contents: the words of X and the pixel at the serialiser are the pixels of the run in
their order (`XData`); the window buffer, the same registers seen through
`buffer == INSTANCE WindowStream`, is in its own inductive invariant with the pixels taken
so far as its history (`WindowData`), so that `WindowIsNeighbourhood` is used and not
proved again; the window in hand and the kernel applied to it are the ones due
(`LoopData`); each command in the pipeline is the result that follows those behind it
(`PipelineData`) and so is each word of Z (`ZData`). `Loaded` says which kernels have been
written into the kernel memory before the first pixel.

**`ArithmeticProofs`** proves `FixedPointIsNearest` for all pairs of operands of every width
(the division rounds to the nearest, ties away from zero; the high product to the nearest,
and it is gemmlowp's but for the negative ties, where it is one less), and
`ResultIsDotProduct` for every width of the taps: a stage of the adder tree is one
bit wider than the one before, the sums that go into it are at most half as large as
its range, so nothing is cut off before the accumulator. `EveryResultIsDotProduct` is the
same for all values of taps and accumulator, of which the run tries the extremes.

Its longest part is the layers of the firmware (`LayersAreRightCorrect`): `LayersAreRight`
for images and filters of any height or width under any stride, dilation and padding,
where the run tries images of up to four under filters of up to three. As in the run,
one dimension is varied at a time, and batches and channels are few. The inductive
invariant `LayerInv` says that what has been computed of a task is what its kernel
writes; the work is that this is right, kernel by kernel:

* *each output once.* A kernel writes at places it works out from its loops
  (`Offset`, or a running index of its own). `SizeOf...` and the lemmas on numbers of two
  and four digits show that two passes through the loops never meet in one place
  and that together they fill the tensor; that its size is the product of its dimensions
  is proved of the recursive function the code's `FlatSize` is translated to.
* *the expected products.* The code cuts a window at the edges of an image in several
  ways: by a test of each element (convolutions), by the first and the last one
  computed before the loop (pooling), or by scattering instead of gathering (transposed
  convolution). Each is compared with one definition, all pairs of an output, an
  element and a weight that stride, dilation and padding bring together.
  `ComputeOutSize` truncates towards zero what may be negative, and a negative padding is none.
* *the right treatment.* Offsets, scales and the clamp belong to the types of a kernel
  (`ResultsFor`), averages round by their sign (`Averaged`, `AveragedUp`).
* *every kernel is one of these.* The tasks of elementwise kernels and of those
  that only move data are none of a layer (`LayersHaveTheirTasks`).

**`DevicesProofs`** proves the safety properties of `devices` for every width of
counters, buses and masks and every size of the memories. For the timer the
invariant says, in whichever order the halves are written, which half is already
right and how far the counter is from the deadline modulo a turn; for the reset
domains how many samples of the pin a value of the counter stands for; for the RAMs it
keeps beside each memory the bytes written last and beside each pending answer the word
it must be. For the MAC pipeline of any number of stages it adds to `InFlight` that a
register holds a younger command than those behind it (`Ordered`). The proof describes a
clock edge by the register each command comes from: `LoadsDownward` (if a register loads,
so do those before it) makes that map increasing and injective, so contents and order are
kept. The window buffer's part is the invariant of `WindowStreamProofs`.

**`MemoryPlannersProofs`** proves for any number of buffers, sizes and lifetimes `NoOverlap`
(two buffers in use at the same time, at least one of which the planner has placed,
have no address in common), `LowestFreePlace` (each step places a buffer at the lowest
offset that is free for it) and `NeverWorseThanLinear`. The first is inductive together
with `SortedInv` (the list is in the order of the offsets and holds each buffer
once). The key lemma is about the walk down the list: where it stops,
`candidate_offset` is not below the end of any active entry passed, and the next
active entry begins no earlier than the end of the new buffer; those behind it begin
later still. That no lower place is free follows from the first gap the walk could
have stopped at. For the last one: no
buffer ends beyond the sum of the sizes of the buffers placed so far, whatever gaps the
walk has skipped.

**`MicroInterpreterProofs`** proves, for *any* client of the arena and every sequence of
calls, alignments and sizes, `PersistentKept` and `UsedBytesExact`. `PersistentKept` says
of what `AllocateFromTail` has returned that it stays allocated, that the head section
and every other persistent allocation lie apart from it in every state, and that no step
puts a temporary allocation over it that starts before the tail. The last condition is
not idle: `AllocateFromTail` does not look at `temp_`, so the tail can come down over the
chain of temporary allocations (`TempsGuaranteed`, run `temps`), and what `AllocateTemp`
gives out behind it after that is within persistent memory. As long as that has not
happened nothing is. The comparisons are of `size_t`, and so the lemmas are about when a
difference modulo the address space is the difference: `TempKeepsPersistent` shows that a
temporary allocation that begins before the tail and passes the test ends before it.

Then, for any number of interpreters on one allocator, any models the assumptions allow, and
allocations that fail wherever they can: the same two for the interpreters,
`OptionalInputsHarmless`, `HandlesNotNull` and `PlanInsideHead`. None is inductive. `IInv`
says for each of some thirty steps of a call what is allocated by then:

* `ControlOK`: the step belongs to its call, and the allocator knows that a model is
  allocating exactly between start and finish, or after an error in between;
* `RequestsOK`: each operator made at most its few requests, and only the last are not
  assigned yet; after `Prepare` all are;
* `HeadOK`: unless a model is allocating, the head is as large as the largest plan so far;
* `RoomOK`: before the plan is made the head has room for the requests and for twelve
  more, and temporary memory starts behind it, so the entry in front of the allocation
  info (`OptionalInputsHarmless`) is none of them;
* `HandlesOK`: handles that are missing did not fit; the allocation info is larger, and what
  does not fit at the tail does not fit as temporary memory either (`TailFitsToo`), so the
  plan is not reached without handles (`HandlesNotNull`), though the code never looks;
* `DataOK`: what an earlier plan placed ends within the largest plan so far, and while a
  model is being planned its tensors have no place yet.

`PlanInsideHead` also needs the plan itself, which the interpreter computes by recursive
functions over its lists of buffers. `Recursion` shows that such a function exists; by
induction over rounds `PlanLayout` shows that each puts exactly one more buffer into a
sorted list, `PlaceOfBuffer` that at the end every buffer has a place within
`PlanSize`, and `SetPlanHead` that the head is at least that large or the call fails.

Last, `LiveDataIntact`: that interpreters may share an arena as long as none of their
allocations fails. The plan comes first. By the same induction over rounds
`ClearLayouts` says that no round puts a buffer over another one that is in use at the
same time (`WalkEndsClear` is the walk down the list again, over the functions of the
interpreter; what was placed offline is `LifetimesAssumption`), and `PlanIsClear` that
this holds of what is committed, tensors and scratch buffers alike. Then the life of that
plan: `LiveInv`, inductive together with `IInv`, says what has become of every
interpreter's data at each step of whatever call is in progress:

* `PlacesOK`: two tensors of an interpreter whose lives meet are apart, and so are an
  operator's scratch buffers from each other and from what is in use when it runs;
  variables are persistent and apart from each other;
* `AssignedOK`: each scratch buffer request carries the operator that made it, or will
  when that operator has been prepared;
* `SettledOK`: between allocations the temporary section is empty and begins at the head,
  so temporary tensors lie between all plans and all that is persistent;
* `PlacedOK`: an interpreter that has got its tensors once has a place for each of them,
  except while it is being planned again;
* `ClientOK`: whose inputs are set and whose outputs may be read; `AllocateTensors` ends
  both, an invocation the outputs and the inputs of the others;
* `HitOK`: only planned tensors are ever overwritten, and none of those put out;
* `LiveOK`: a tensor that *is there* (put in or made by an operator before, and read by
  this one or a later one: `IsThere`) has not been overwritten.

`InvokeLive` is the step that matters most: what an operator writes over, its own outputs
aside, is not in use while it runs, because what is in use has a place apart from it; and
its outputs are there for those behind it. `NextLive` rests on one lemma for each step of a call and each call of the client.

**`MicroKernelsProofs`** proves the four properties of `kernels` for a resolver of any room
and any operators added to it, in any order and however often. None is inductive:
`KernelsInv` ties them to the code in three parts.

* `ResolverInv`: a registration is the name of its operator, so it is the key of its
  place (`Belongs`), and no two places have the same (`OnePlaceEach`); the arrays of
  codes and parsers are in step (`ParsersInStep`) and name the same builtin operators as
  the registrations do (`SameBuiltins`), although custom operators fill only one of
  the three. `AddKeepsResolver` is the step: a refused call changes nothing.
  `EveryPlaceIsFound`, an equation between a length and two cardinalities, then follows
  from the bijection between the places and the operators found.
* `FoundInv`: what has been found for the node and what its parser has copied.
  `AddedWithOwnParser` compares the parser of each `Add...` function with the branch of
  `ParseOpDataTfLite`, `ParsersCopyStructures` all branches with their structures.
* `RunInv`: each field set by a function that has run is in the user data, and `Prepare`
  has ended well before `Invoke` runs.

`ReadsWereSet` is a property of the functions of a registration taken together, so
each registration has a contract (`Contract`): `Init` reads nothing, `Prepare` and
`Invoke` read what their parser copies and those before them have set, and an evaluation
that ends well has taken each tensor for its type. `LayersKeepContract`,
`ElementwiseKeepContract`, `TensorsKeepContract` and `DetectionKeepsContract` show it for
each of the 63 operators and a node of *any* types, from a small calculus of what the
steps of a description add (`EffectOfSteps`) and of what two of them do in sequence
(`EffectOfSum`: the second one happens only if the first one ends well, so a check in
`Prepare` is a fact about `Invoke`). `ReadsWereSet` and `TypesRespected` follow.

Model-checked only:

* liveness (`Answered`, `BurstsEnd`, `SystemRuns`, the fairness half of `Implements`):
  out of reach of the prover;
* `ElementsAreRight`, `TensorsAreRight`: the shapes of these calls are written in the
  module (every pattern of dimensions of size 1, every kind of index) and depend on
  no constant but, for one operator, the sizes of images. So the run goes through
  nearly all that a theorem would be about.

## 7. Where code and documents disagree

* **`restart` / `OnlyResultsDue`.** `init` flushes both FIFOs and restarts the state
  machine and the delay counter, but not `pendingRsp` (`WindowBuffer3x3.scala:84`)
  and not the registers of the MAC pipeline. A run that is started while the old
  one still has results on the way gets those first. The comment in
  `hardware/test/scala/jderobot/lib/accelerator/AcceleratorV1CtlrTest.scala:34-35`
  counts only results of the new run after a pulse of `init`; that is true after
  power-up or when the driver has drained the old run (`Drain = TRUE` in run
  `host`), and not otherwise.
* **`requests` / `RequestsFit`.** `AllocateTensors` ignores the status of
  `FinishPrepareNodeAllocations` (`micro/micro_interpreter.cc:238`). When the arena is
  nearly full the head cannot be made larger, and the scratch buffer requests of the
  next operator are written behind it, where persistent structures may be.
* **`temps` / `TempsGuaranteed`.** `simple_memory_allocator.h:60` guarantees what
  `AllocateTemp` returns until `ResetTempAllocations`. `AllocateFromTail`
  (`simple_memory_allocator.cc:91`) compares its result with the head only, and kernels
  allocate persistent buffers in `Prepare` while they hold temporary tensors
  (`micro/kernels/conv.cc:130-151`): in an arena that is nearly full the new buffer lies
  over the tensors still in use. In `MicroInterpreter` the writer of the buffer
  overwrites them, and where the structures of an interpreter would be hit in that
  way the model stops (`TailHitsTemps`, `TempHitsTail`).
* **`gemmlowp` / `HighMulIsGemmlowp`.** `math/Utils.scala:30` says "From gemmlowp
  fixedpoint.h", and `UtilsTest.scala:82` compares the results with those of gemmlowp bit
  by bit. gemmlowp adds a nudge and divides towards zero, which rounds negative ties
  up; the hardware rounds them away from zero, by `RoundingDivideByPOT`. A product of
  -2^30 gives 0 there and -1 here. Random 32-bit operands, as in `UtilsTest`, practically
  never meet a tie. That there is no other difference, and that both round to the
  nearest, is part of `FixedPointIsNearest`.
* **`written` / `OkMeansWritten`.** CAST (`micro/kernels/cast.cc:59`, `80`) and MUL
  (`mul.cc:141`) return `kTfLiteOk` for types they do not know and leave the output
  as it was; `c/common.h:797` says that `kTfLiteOk` means success.
* Fields that kernels read and nobody sets are listed in `NeverSet` (`MicroKernels`):
  the zero points of REDUCE_MAX, the shift of TANH for int16, the upper float bound
  of MUL, which is overwritten by the lower one. `ReadsWereSet` shows that there are
  no others among kernels whose types agree (`PreparedForTheOutput` are those
  that prepare by the output and evaluate by the input without comparing them).
  `NotLookedAt` lists the tensors whose type a kernel never checks; among them are the
  filter and the output of DEPTHWISE_CONV_2D, although `depthwise_conv.cc:294` says "Already
  know in/out types are same". `ReadsWereSet` and `TypesRespected` do not speak of these
  fields and tensors.
* `micro/micro_interpreter.cc:314` says that tensors are allocated before an invocation;
  after an `AllocateTensors` that failed halfway, a second one may find the model
  as it left it, and an invocation meets tensors without data (`InvokeAllocated` in
  `MicroInterpreter`, which no run checks). `LiveDataIntact` and `PlanInsideHead` are
  therefore about interpreters none of whose allocations has failed.

## 8. What is not modelled

* `Tote.scala`: the bus fabric is library code that is not in the repository; what
  the source says of it is a list of masters and slaves. VexRiscv and GPIO are
  library code too.
* `math/Multiplier.scala`: the Booth multiplier is a black box whose Verilog is in a
  submodule that is not part of the tree.
* iCE40 cells and pin wiring; opcode constants in `Riscvv.scala`.
* Of the accelerator: byte addresses on the bus (commands are the registers they
  select) and the widths of the configuration registers; the driver writes values
  that fit.
* The FT245 chip itself: its flags may change in any cycle. `SharedBus` states
  the one case in which both sides drive the bus: both flags active in the same
  idle cycle. It excepts this case, which the code does not avoid, and shows that
  there is no other.
* `schema/schema_generated.h` (a third of the repository's lines) is generated
  from a schema and reads a constant buffer at computed offsets; `firmware/include/riscv.h`
  is a table of inline assembler. Neither has state or an algorithm.
* The firmware's start-up code and its two straight-line programs; formatting, logging,
  timing and test helpers; the recording micro allocator, which keeps statistics;
  gemmlowp, ruy and flatbuffers, which are vendored.
* The kernel of TRANSPOSE_CONV, which no function of the resolver adds (its
  reference loops are in `ReferenceLayers`).
* What the reference kernels make of the values: scaling by quantized multipliers,
  activations, clamps; softmax, l2 normalization, logistic, tanh, hard swish and the
  conversions between types, which are approximations of real functions, element by
  element. Undefined calls are not made. The sizes of the output of a layer are those
  of `ComputeOutSize`, which a converter computes; that the micro kernels' Prepare
  does not compare the output with them is not modelled.
* `Implements` is about a driver that drains each run, so a loop that `init` leaves in the
  middle is met only by the properties of `traffic`, which do not say what the next
  windows are multiplied with.
* The fivefold broadcast (`reference/add.h:350`) and some of the other loops are checked as
  part of the library; the micro kernels call only a part of it.
* In the tables of `kernels` the conversion of enumerations (activations, paddings).

## 9. Plan

Done: the accelerator, bottom up, with its abstract specification; arithmetic;
FT245; RAMs; timer; reset; the firmware's memory planners, arena, allocator,
interpreter, resolver, parsers, kernels and reference kernels; proofs of every safety
property of the accelerator, the devices, the planners, the circuits' arithmetic, the
interpreter, the resolver and the kernels, and of the step simulation of `Convolution`.

Next, in this order:

1. The parameter computations of the kernels (`quantization_util.cc`) with the widths of
   their integers, and the offsets of `ReferenceShapes` as lemmas: `Offset` and
   `SubscriptToIndex` stay below `FlatSize`.
2. The bus fabric of `Tote`, once the library's behaviour is written down somewhere.
