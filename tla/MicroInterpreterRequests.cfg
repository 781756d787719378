CONSTANTS
    BufferHead = 16
    BufferTails <- MCBufferTails
    AddressSpace = 256
    Alignments <- MCAlignments
    Sizes <- MCSizes
    ObjectSize = 3
    kBufferAlignment = 2
    kStructAlignment = 1
    kMaxScratchBuffersPerOp = 3
    RequestSize = 1
    HandleSize = 1
    AllocationInfoSize = 2
    EvalTensorSize = 1
    NodeSize = 1
    TensorSize = 2
    QuantizationSize = 1
    MicroAllocatorSize = 2
    PerBufferSize = 2
    Interpreters = {"a", "b"}
    Models <- MCModels
    MaxAllocatingCalls = 3
SPECIFICATION Spec
INVARIANT RequestsFit
