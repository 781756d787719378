------------------------ MODULE SimpleMemoryAllocator ------------------------
(***************************************************************************)
(* SimpleMemoryAllocator of TensorFlow Lite Micro                          *)
(* (micro/simple_memory_allocator.cc) with the accounts its recording      *)
(* variant keeps (micro/recording_simple_memory_allocator.cc).             *)
(*                                                                         *)
(* The arena is the addresses BufferHead .. buffer_tail - 1.  The head     *)
(* section grows up from BufferHead to head, temporary allocations are     *)
(* chained from head up to temp, persistent ones go down from buffer_tail  *)
(* to tail.  Sizes are compared as size_t: modulo AddressSpace.            *)
(***************************************************************************)
EXTENDS Integers

CONSTANTS
    BufferHead,    \* buffer_head_
    BufferTails,   \* the ends the arena may have
    AddressSpace,  \* SIZE_MAX + 1
    Alignments,    \* the alignments clients ask for
    Sizes,         \* the sizes clients ask for at the tail
    ObjectSize     \* of the allocator itself, which Create puts at the tail

\* MicroAllocator::Create aligns the start of the arena to the largest
\* alignment there is.
ASSUME AlignmentsAssumption ==
    Alignments \subseteq Nat \ {0} /\ \A a \in Alignments : BufferHead % a = 0
ASSUME ArenaAssumption ==
    /\ BufferHead \in Nat /\ ObjectSize \in Nat /\ AddressSpace \in Nat \ {0}
    /\ \A t \in BufferTails :
          /\ t \in Nat /\ t < AddressSpace
          /\ \A a \in Alignments : BufferHead + ObjectSize + a <= t
\* No request reaches around the bottom of the address space.
ASSUME SizesAssumption == \A s \in Sizes : s \in Nat /\ s <= BufferHead

VARIABLES
    buffer_tail,    \* buffer_tail_
    head,           \* head_
    tail,           \* tail_
    temp,           \* temp_
    used_bytes,     \* used_bytes_, with the two below: the recording variant
    requested_head_bytes,
    requested_tail_bytes,
    persistent,     \* what AllocateFromTail has returned: [from, to)
    temps           \* what AllocateTemp has returned since the last reset

arena == <<buffer_tail, head, tail, temp, used_bytes, requested_head_bytes,
           requested_tail_bytes, persistent, temps>>

AlignUp(p, alignment) == ((p + (alignment - 1)) \div alignment) * alignment
AlignDown(p, alignment) == (p \div alignment) * alignment

SizeT(n) == n % AddressSpace

\* Create: a first allocator takes the room for the object from its own tail
\* and is then copied there.
Create(alignment) ==
    /\ buffer_tail \in BufferTails
    /\ head = BufferHead /\ temp = BufferHead
    /\ tail = AlignDown(buffer_tail - ObjectSize, alignment)
    /\ used_bytes = buffer_tail - tail
    /\ requested_head_bytes = 0
    /\ requested_tail_bytes = ObjectSize
    /\ persistent = {[from |-> tail, to |-> tail + ObjectSize]}
    /\ temps = {}

-----------------------------------------------------------------------------
(* Each operation, and whether it succeeds. *)

HeadFits(size, alignment) ==
    /\ head = temp
    /\ SizeT(tail - AlignUp(BufferHead, alignment)) >= size

\* Mutant: the account takes the size of the new head, not the change.
SetHeadBufferSizeRecordsSize(size, alignment) ==
    /\ HeadFits(size, alignment)
    /\ head' = AlignUp(BufferHead, alignment) + size
    /\ temp' = head'
    /\ used_bytes' = used_bytes + size
    /\ requested_head_bytes' = size
    /\ temps' = {}
    /\ UNCHANGED <<buffer_tail, tail, requested_tail_bytes, persistent>>

\* An error leaves everything as it is.
SetHeadBufferSize(size, alignment) ==
    /\ HeadFits(size, alignment)
    /\ head' = AlignUp(BufferHead, alignment) + size
    /\ temp' = head'
    /\ used_bytes' = used_bytes + (head' - head)
    /\ requested_head_bytes' = size
    /\ temps' = {}
    /\ UNCHANGED <<buffer_tail, tail, requested_tail_bytes, persistent>>

TailResult(size, alignment) == AlignDown(SizeT(tail - size), alignment)

\* Mutant: only the size is compared with the room, not the aligned result.
TailFitsUnaligned(size, alignment) == SizeT(tail - size) >= head

\* Live temporary allocations do not count.
TailFits(size, alignment) == TailResult(size, alignment) >= head

AllocateFromTail(size, alignment) ==
    /\ TailFits(size, alignment)
    /\ tail' = TailResult(size, alignment)
    /\ used_bytes' = used_bytes + (tail - tail')
    /\ requested_tail_bytes' = requested_tail_bytes + size
    /\ persistent' = persistent \cup {[from |-> tail', to |-> tail' + size]}
    /\ UNCHANGED <<buffer_tail, head, temp, requested_head_bytes, temps>>

\* Mutant: the room is what is left of the whole arena.
TempFitsInArena(size, alignment) == SizeT(buffer_tail - AlignUp(temp, alignment)) >= size

\* The room is a size_t: behind the tail there seems to be a lot of it.
TempFits(size, alignment) == SizeT(tail - AlignUp(temp, alignment)) >= size

AllocateTemp(size, alignment) ==
    /\ TempFits(size, alignment)
    /\ temp' = SizeT(AlignUp(temp, alignment) + size)
    /\ temps' = temps \cup {[from |-> AlignUp(temp, alignment), to |-> temp']}
    /\ UNCHANGED <<buffer_tail, head, tail, used_bytes, requested_head_bytes,
                   requested_tail_bytes, persistent>>

ResetTempAllocations ==
    /\ temp' = head
    /\ temps' = {}
    /\ UNCHANGED <<buffer_tail, head, tail, used_bytes, requested_head_bytes,
                   requested_tail_bytes, persistent>>

GetAvailableMemory(alignment) ==
    SizeT(AlignDown(tail, alignment) - AlignUp(temp, alignment))

-----------------------------------------------------------------------------
(* Any client at all. *)

ArenaInit == \E a \in Alignments : Create(a)

ArenaNext ==
    \/ \E s \in Sizes, a \in Alignments : AllocateFromTail(s, a)
    \/ \E s \in 0 .. AddressSpace - 1, a \in Alignments :
          SetHeadBufferSize(s, a) \/ AllocateTemp(s, a)
    \/ ResetTempAllocations

ArenaSpec == ArenaInit /\ [][ArenaNext]_arena

Disjoint(r, s) == r.to <= s.from \/ s.to <= r.from

\* The head section and the allocations from the tail lie apart.
PersistentIntact ==
    /\ head <= tail
    /\ \A r \in persistent : tail <= r.from /\ r.to <= buffer_tail
    /\ \A r, s \in persistent : r # s => Disjoint(r, s)

\* A temporary allocation that starts before the tail ends before it: the
\* comparison modulo AddressSpace lets none through that does not fit.
FitsBeforePersistent(s) == \A r \in persistent : s.from <= s.to /\ s.to <= r.from

KeepsPersistent ==
    /\ persistent \subseteq persistent'
    /\ PersistentIntact'
    /\ \A s \in temps' \ temps : s.from <= tail => FitsBeforePersistent(s)

\* No step gives out what has been allocated from the tail: not to the head
\* section, however it is resized, not to a later persistent allocation,
\* whatever its alignment, and not to a temporary one, as long as the chain
\* of temporary allocations has not been overrun by the tail before.  (That it
\* can be is what TempsGuaranteed shows.)
PersistentKept == PersistentIntact /\ [][KeepsPersistent]_arena

\* "The returned buffer is guaranteed until either ResetTempAllocations() is
\* called or another call to AllocateFromHead()"
\* (simple_memory_allocator.h:60): until then nobody else gets it.
TempsGuaranteed == \A s \in temps, r \in persistent : Disjoint(r, s)

\* The recording allocator's account is exact: growing and shrinking the head
\* and padding for alignment included.
UsedBytesExact == used_bytes = (head - BufferHead) + (buffer_tail - tail)

ArenaTypeOK ==
    /\ buffer_tail \in BufferTails
    /\ head \in Nat /\ head >= BufferHead
    /\ tail \in Nat /\ tail <= buffer_tail
    /\ used_bytes \in Int
    /\ persistent \subseteq [from : Nat, to : Nat]
    /\ \A r \in persistent : r.from <= r.to

ArenaInv == ArenaTypeOK /\ PersistentIntact /\ UsedBytesExact
=============================================================================
