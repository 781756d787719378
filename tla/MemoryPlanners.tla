---------------------------- MODULE MemoryPlanners ----------------------------
(***************************************************************************)
(* The two memory planners of TensorFlow Lite Micro, GreedyMemoryPlanner   *)
(* (micro/memory_planner/greedy_memory_planner.cc) and LinearMemoryPlanner *)
(* (linear_memory_planner.cc): where in the arena the buffers of a model   *)
(* go, given how large they are and from which operator to which they are  *)
(* in use.  A client hands the same buffers to both; it may ask for the    *)
(* plan, add buffers and ask again.                                        *)
(*                                                                         *)
(* The linked list buffers_sorted_by_offset_ is the sequence `sorted' of   *)
(* its entries.  One step of the calculation is one round of the loop that *)
(* places the buffers; its inner loops, which walk down the list, are      *)
(* stated by what they find.                                               *)
(***************************************************************************)
EXTENDS GreedyLayout

CONSTANTS
    Sizes,           \* the sizes clients ask for
    Times,           \* the operators, in the order of their execution
    OfflineOffsets,  \* the offsets a model prescribes
    MaxBufferCount,  \* max_buffer_count_: what the scratch memory has room for
    kMaxBufferCount  \* of the linear planner

ASSUME SizesAssumption == Sizes \subseteq Nat
ASSUME TimesAssumption == Times \subseteq Int
ASSUME OfflineAssumption == OfflineOffsets \subseteq Nat
ASSUME MaxBufferCountAssumption == MaxBufferCount \in Nat
ASSUME LinearAssumption == kMaxBufferCount \in Nat /\ kMaxBufferCount >= MaxBufferCount

VARIABLES
    requirements,              \* requirements_[0 .. buffer_count_ - 1]
    sorted,                    \* buffers_sorted_by_offset_, in list order
    unplaced,                  \* the rest of buffer_ids_sorted_
    need_to_calculate_offsets

planner == <<requirements, sorted, unplaced, need_to_calculate_offsets>>

Requirement ==
    {r \in [size : Sizes, first_time_used : Times, last_time_used : Times,
            offline_offset : OfflineOffsets \cup {kOnlinePlannedBuffer}] :
        r.first_time_used <= r.last_time_used}
ListEntry == [offset : Nat, requirements_index : Nat]

-----------------------------------------------------------------------------
(* GreedyMemoryPlanner.                                                    *)

Init ==
    /\ requirements = <<>>
    /\ sorted = <<>>
    /\ unplaced = {}
    /\ need_to_calculate_offsets = TRUE

\* AddBuffer, both overloads: without an offline offset it is
\* kOnlinePlannedBuffer.  A full planner returns an error.
AddBuffer(r) ==
    /\ unplaced = {}
    /\ Len(requirements) < MaxBufferCount
    /\ requirements' = Append(requirements, r)
    /\ need_to_calculate_offsets' = TRUE
    /\ UNCHANGED <<sorted, unplaced>>

\* Mutant: the list keeps the entries of the last plan.
CalculateOffsetsKeepsList ==
    /\ need_to_calculate_offsets
    /\ requirements # <<>>
    /\ need_to_calculate_offsets' = FALSE
    /\ \E id \in DOMAIN requirements :
          /\ \A j \in DOMAIN requirements \ {id} : Before(requirements, id, j)
          /\ sorted' = <<[offset |-> IF IsOffline(requirements[id])
                                     THEN requirements[id].offline_offset ELSE 0,
                          requirements_index |-> id]>> \o sorted
          /\ unplaced' = DOMAIN requirements \ {id}
    /\ UNCHANGED requirements

\* CalculateOffsetsIfNeeded up to its main loop: the buffers are sorted, the
\* first one is placed, at its offline offset or at 0.
CalculateOffsets ==
    /\ need_to_calculate_offsets
    /\ requirements # <<>>
    /\ need_to_calculate_offsets' = FALSE
    /\ \E id \in DOMAIN requirements :
          /\ \A j \in DOMAIN requirements \ {id} : Before(requirements, id, j)
          /\ sorted' = <<[offset |-> IF IsOffline(requirements[id])
                                     THEN requirements[id].offline_offset ELSE 0,
                          requirements_index |-> id]>>
          /\ unplaced' = DOMAIN requirements \ {id}
    /\ UNCHANGED requirements

\* One round of the main loop.
PlaceNext ==
    \E id \in unplaced :
        /\ \A j \in unplaced \ {id} : Before(requirements, id, j)
        /\ \E c \in Candidates(requirements, sorted) \cup OfflineOffsets :
              /\ CandidateOffset(requirements, sorted, id, c)
              /\ \E p \in 1 .. Len(sorted) + 1 :
                    /\ InsertPosition(sorted, c, p)
                    /\ sorted' = InsertEntry(sorted, p,
                                    [offset |-> c, requirements_index |-> id])
        /\ unplaced' = unplaced \ {id}
        /\ UNCHANGED <<requirements, need_to_calculate_offsets>>

Next ==
    \/ \E r \in Requirement : AddBuffer(r)
    \/ CalculateOffsets
    \/ PlaceNext

Spec == Init /\ [][Next]_planner

\* GetMaximumMemorySize, of what is placed so far.
IsMaximumMemorySize(m) ==
    /\ m \in Candidates(requirements, sorted)
    /\ \A k \in DOMAIN sorted : EndOf(requirements, sorted[k]) <= m

Planned == ~need_to_calculate_offsets /\ unplaced = {}

-----------------------------------------------------------------------------
PlannerTypeOK ==
    /\ requirements \in Seq(Requirement)
    /\ sorted \in Seq(ListEntry)
    /\ unplaced \subseteq DOMAIN requirements
    /\ need_to_calculate_offsets \in BOOLEAN

\* Two buffers, at least one of which was placed by the planner, that are in
\* use during the same operator do not share memory, whatever gaps the offline
\* plan leaves and in whatever order they were added.
NoOverlap ==
    ~need_to_calculate_offsets =>
        \A k, l \in DOMAIN sorted :
            LET a == requirements[sorted[k].requirements_index]
                b == requirements[sorted[l].requirements_index]
            IN  \/ k = l
                \/ IsOffline(a) /\ IsOffline(b)
                \/ ~DoesEntryOverlapInTime(a, b)
                \/ EndOf(requirements, sorted[k]) <= sorted[l].offset
                \/ EndOf(requirements, sorted[l]) <= sorted[k].offset

\* DoAnyBuffersOverlap, the debug method: every pair, whoever placed it.
DoAnyBuffersOverlap ==
    \E k, l \in DOMAIN sorted :
        LET a == requirements[sorted[k].requirements_index]
            b == requirements[sorted[l].requirements_index]
        IN  /\ k # l
            /\ DoesEntryOverlapInTime(a, b)
            /\ EndOf(requirements, sorted[k]) > sorted[l].offset
            /\ EndOf(requirements, sorted[l]) > sorted[k].offset

-----------------------------------------------------------------------------
(* The inductive invariant. *)

\* The list is in the order of the offsets, a buffer in it is not to be placed
\* again, and the offline ones come first.
SortedInv ==
    /\ \A k, l \in DOMAIN sorted : k < l => sorted[k].offset <= sorted[l].offset
    /\ unplaced # {} => ~need_to_calculate_offsets
    /\ \A k \in DOMAIN sorted :
          /\ sorted[k].requirements_index \in DOMAIN requirements
          /\ ~need_to_calculate_offsets => sorted[k].requirements_index \notin unplaced
    /\ ~need_to_calculate_offsets =>
          \A k \in DOMAIN sorted, id \in unplaced :
             IsOffline(requirements[id]) => IsOffline(requirements[sorted[k].requirements_index])

IInv == PlannerTypeOK /\ SortedInv /\ NoOverlap

-----------------------------------------------------------------------------
(* LinearMemoryPlanner: one buffer after the other, whenever they are in   *)
(* use.                                                                    *)

VARIABLES
    linear_offsets,    \* buffer_offsets_[0 .. current_buffer_count_ - 1]
    next_free_offset   \* next_free_offset_

LinearInit ==
    /\ linear_offsets = <<>>
    /\ next_free_offset = 0

\* AddBuffer; a full planner returns an error and keeps its plan.
LinearAddBuffer(size) ==
    IF Len(linear_offsets) >= kMaxBufferCount
    THEN UNCHANGED <<linear_offsets, next_free_offset>>
    ELSE /\ linear_offsets' = Append(linear_offsets, next_free_offset)
         /\ next_free_offset' = next_free_offset + size

LinearMaximumMemorySize == next_free_offset

-----------------------------------------------------------------------------
(* The client.                                                             *)

PlannersInit == Init /\ LinearInit

AddToBoth(r) ==
    /\ AddBuffer(r)
    /\ LinearAddBuffer(r.size)

Calculate ==
    /\ CalculateOffsets \/ PlaceNext
    /\ UNCHANGED <<linear_offsets, next_free_offset>>

\* The client is done.
Done ==
    /\ Len(requirements) = MaxBufferCount /\ Planned
    /\ UNCHANGED <<planner, linear_offsets, next_free_offset>>

PlannersNext == (\E r \in Requirement : AddToBoth(r)) \/ Calculate \/ Done

PlannersSpec ==
    PlannersInit /\ [][PlannersNext]_<<planner, linear_offsets, next_free_offset>>

-----------------------------------------------------------------------------
\* Without offline offsets the greedy plan never takes more memory than
\* putting the buffers end to end, although a buffer may skip gaps that are
\* too small for it.
NeverWorseThanLinear ==
    Planned /\ (\A i \in DOMAIN requirements : ~IsOffline(requirements[i]))
        => \A m \in Candidates(requirements, sorted) :
              IsMaximumMemorySize(m) => m <= LinearMaximumMemorySize

\* Buffer id could begin at c: no entry in use at the same time is in the way.
Free(req, list, id, c) ==
    \A k \in DOMAIN list :
        Active(req, list[k], id)
            => \/ c + req[id].size <= list[k].offset
               \/ EndOf(req, list[k]) <= c

PlacesLowest ==
    \A p \in DOMAIN sorted' :
       LET new == sorted'[p]
           id == new.requirements_index
       IN  unplaced # {} /\ id \in unplaced /\ ~IsOffline(requirements[id])
             => /\ Free(requirements, sorted, id, new.offset)
                /\ \A c \in 0 .. new.offset - 1 : ~Free(requirements, sorted, id, c)

\* A buffer the planner places goes to the lowest place that is free for its
\* whole size while it is in use: no buffer in use at the same time lies across
\* it, and one lies across any lower place.
LowestFreePlace == [][PlacesLowest]_planner
=============================================================================
