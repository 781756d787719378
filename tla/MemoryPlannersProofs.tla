------------------------- MODULE MemoryPlannersProofs -------------------------
(***************************************************************************)
(* What the planners promise, for every set of sizes, times and offline    *)
(* offsets and any number of buffers: buffers in use together do not share *)
(* memory, each goes to the lowest place that is free, and the greedy plan *)
(* is never larger than the linear one.                                    *)
(***************************************************************************)
EXTENDS MemoryPlanners, NumberLemmas

\* The numbers of a requirement.
LEMMA RequirementFields ==
    ASSUME NEW r \in Requirement
    PROVE  /\ r.size \in Nat
           /\ r.first_time_used \in Int
           /\ r.last_time_used \in Int
           /\ IsOffline(r) => r.offline_offset \in Nat
  BY SizesAssumption, TimesAssumption, OfflineAssumption DEF Requirement, IsOffline

\* The end of an entry that names a buffer is a natural number.
LEMMA EndOfType ==
    ASSUME NEW req \in Seq(Requirement), NEW entry \in ListEntry,
           entry.requirements_index \in DOMAIN req
    PROVE  EndOf(req, entry) \in Nat
  <1>1. req[entry.requirements_index] \in Requirement
    OBVIOUS
  <1>2. req[entry.requirements_index].size \in Nat
    BY <1>1, RequirementFields
  <1> QED BY <1>2 DEF EndOf, ListEntry

\* In a list in the order of the offsets, the place where the walk ends is
\* clear of every buffer that is in use at the same time.
LEMMA WalkEndsClear ==
    ASSUME NEW req \in Seq(Requirement), NEW list \in Seq(ListEntry),
           NEW id \in DOMAIN req, NEW c \in Nat,
           \A k, l \in DOMAIN list : k < l => list[k].offset <= list[l].offset,
           \A k \in DOMAIN list : list[k].requirements_index \in DOMAIN req,
           NEW k \in 1 .. Len(list) + 1, WalkEnds(req, list, id, k, c),
           NEW j \in DOMAIN list, Active(req, list[j], id)
    PROVE  \/ EndOf(req, list[j]) <= c
           \/ c + req[id].size <= list[j].offset
  <1>1. req[id].size \in Nat
    <2>1. req[id] \in Requirement
      OBVIOUS
    <2> QED BY <2>1, RequirementFields
  <1>2. list[j].offset \in Nat /\ j \in 1 .. Len(list)
    <2>1. list[j] \in ListEntry /\ j \in 1 .. Len(list)
      OBVIOUS
    <2> QED BY <2>1 DEF ListEntry
  <1>3. CASE j < k
    <2>1. PassedEnd(req, list, id, k, c)
      BY DEF WalkEnds
    <2>2. j \in 1 .. k - 1
      BY <1>2, <1>3
    <2> QED BY <2>1, <2>2 DEF PassedEnd
  <1>4. CASE k <= j
    <2>1. k \in DOMAIN list /\ k <= Len(list)
      BY <1>2, <1>4
    <2>2. list[k].offset - c >= req[id].size
      BY <2>1 DEF WalkEnds, GapBefore
    <2>3. list[k].offset \in Nat
      <3>1. list[k] \in ListEntry
        BY <2>1
      <3> QED BY <3>1 DEF ListEntry
    <2>4. list[k].offset <= list[j].offset
      <3>1. CASE k = j
        BY <2>3, <3>1
      <3>2. CASE k < j
        BY <2>1, <3>2
      <3> QED BY <1>2, <1>4, <3>1, <3>2
    <2> QED BY <1>1, <1>2, <2>2, <2>3, <2>4
  <1> QED BY <1>2, <1>3, <1>4

\* What a list holds after an insertion.
LEMMA InsertEntryParts ==
    ASSUME NEW list \in Seq(ListEntry), NEW p \in 1 .. Len(list) + 1,
           NEW entry \in ListEntry
    PROVE  /\ InsertEntry(list, p, entry) \in Seq(ListEntry)
           /\ DOMAIN InsertEntry(list, p, entry) = 1 .. Len(list) + 1
           /\ \A k \in 1 .. Len(list) + 1 :
                 \/ k < p /\ k \in DOMAIN list /\ InsertEntry(list, p, entry)[k] = list[k]
                 \/ k = p /\ InsertEntry(list, p, entry)[k] = entry
                 \/ k > p /\ k - 1 \in DOMAIN list /\ InsertEntry(list, p, entry)[k] = list[k - 1]
  <1>1. \A k \in 1 .. Len(list) + 1 :
           /\ k < p => k \in DOMAIN list
           /\ k > p => k - 1 \in DOMAIN list
    OBVIOUS
  <1>2. \A k \in DOMAIN list : list[k] \in ListEntry
    OBVIOUS
  <1>3. InsertEntry(list, p, entry) \in [1 .. Len(list) + 1 -> ListEntry]
    BY <1>1, <1>2 DEF InsertEntry
  <1>4. Len(list) + 1 \in Nat
    OBVIOUS
  <1>5. InsertEntry(list, p, entry) \in Seq(ListEntry)
    BY <1>3, <1>4
  <1> QED BY <1>1, <1>5 DEF InsertEntry

-----------------------------------------------------------------------------
LEMMA InitIInv == Init => IInv
  BY DEF Init, IInv, PlannerTypeOK, SortedInv, NoOverlap

LEMMA AddBufferIInv ==
    ASSUME IInv, NEW r \in Requirement, AddBuffer(r)
    PROVE  IInv'
  <1> USE DEF IInv, PlannerTypeOK, AddBuffer
  <1>1. PlannerTypeOK'
    OBVIOUS
  <1>2. SortedInv'
    BY DEF SortedInv
  <1>3. NoOverlap'
    BY DEF NoOverlap
  <1> QED BY <1>1, <1>2, <1>3

LEMMA CalculateOffsetsIInv ==
    ASSUME IInv, CalculateOffsets
    PROVE  IInv'
  <1> USE DEF IInv, PlannerTypeOK
  <1>1. PICK id \in DOMAIN requirements :
           /\ \A j \in DOMAIN requirements \ {id} : Before(requirements, id, j)
           /\ sorted' = <<[offset |-> IF IsOffline(requirements[id])
                                      THEN requirements[id].offline_offset ELSE 0,
                           requirements_index |-> id]>>
           /\ unplaced' = DOMAIN requirements \ {id}
    BY DEF CalculateOffsets
  <1>2. requirements[id] \in Requirement /\ id \in Nat
    OBVIOUS
  <1> DEFINE e == [offset |-> IF IsOffline(requirements[id])
                              THEN requirements[id].offline_offset ELSE 0,
                   requirements_index |-> id]
  <1>3. e \in ListEntry
    BY <1>2, RequirementFields DEF ListEntry
  <1>4. sorted' = <<e>> /\ requirements' = requirements
    BY <1>1 DEF CalculateOffsets
  <1>5. PlannerTypeOK'
    <2>1. sorted' \in Seq(ListEntry)
      BY <1>3, <1>4
    <2> QED BY <1>1, <1>4, <2>1 DEF CalculateOffsets
  <1>6. \A k \in DOMAIN sorted' : k = 1 /\ sorted'[k] = e
    BY <1>4
  <1>7. SortedInv'
    <2>1. \A k, l \in DOMAIN sorted' : ~(k < l)
      BY <1>6
    <2>2. \A j \in unplaced' : IsOffline(requirements[j]) => IsOffline(requirements[id])
      BY <1>1 DEF Before
    <2>3. ~need_to_calculate_offsets'
      BY DEF CalculateOffsets
    <2> QED BY <1>1, <1>4, <1>6, <2>1, <2>2, <2>3 DEF SortedInv
  <1>8. NoOverlap'
    <2>1. \A k, l \in DOMAIN sorted' : k = l
      BY <1>6
    <2> QED BY <2>1 DEF NoOverlap
  <1> QED BY <1>5, <1>7, <1>8

\* Two entries are clear of each other: NoOverlap, of a pair.
Apart(req, e, f) ==
    LET a == req[e.requirements_index]
        b == req[f.requirements_index]
    IN  \/ IsOffline(a) /\ IsOffline(b)
        \/ ~DoesEntryOverlapInTime(a, b)
        \/ EndOf(req, e) <= f.offset
        \/ EndOf(req, f) <= e.offset

LEMMA PlaceNextIInv ==
    ASSUME IInv, PlaceNext
    PROVE  IInv'
  <1>0. PlannerTypeOK /\ SortedInv /\ NoOverlap
    BY DEF IInv
  <1>1. PICK id \in unplaced :
           /\ \A j \in unplaced \ {id} : Before(requirements, id, j)
           /\ \E c \in Candidates(requirements, sorted) \cup OfflineOffsets :
                 /\ CandidateOffset(requirements, sorted, id, c)
                 /\ \E p \in 1 .. Len(sorted) + 1 :
                       /\ InsertPosition(sorted, c, p)
                       /\ sorted' = InsertEntry(sorted, p,
                                       [offset |-> c, requirements_index |-> id])
           /\ unplaced' = unplaced \ {id}
           /\ UNCHANGED <<requirements, need_to_calculate_offsets>>
    BY DEF PlaceNext
  <1>2. PICK c \in Candidates(requirements, sorted) \cup OfflineOffsets,
             p \in 1 .. Len(sorted) + 1 :
           /\ CandidateOffset(requirements, sorted, id, c)
           /\ InsertPosition(sorted, c, p)
           /\ sorted' = InsertEntry(sorted, p, [offset |-> c, requirements_index |-> id])
    BY <1>1
  <1> DEFINE e == [offset |-> c, requirements_index |-> id]
  <1>3. /\ requirements \in Seq(Requirement) /\ sorted \in Seq(ListEntry)
        /\ id \in DOMAIN requirements /\ id \in Nat
        /\ requirements[id] \in Requirement
        /\ requirements' = requirements
        /\ need_to_calculate_offsets' = need_to_calculate_offsets
    BY <1>0, <1>1 DEF PlannerTypeOK
  <1>4. \A k \in DOMAIN sorted :
           /\ sorted[k] \in ListEntry
           /\ sorted[k].offset \in Nat
           /\ sorted[k].requirements_index \in DOMAIN requirements
           /\ EndOf(requirements, sorted[k]) \in Nat
    <2>1. \A k \in DOMAIN sorted :
             /\ sorted[k] \in ListEntry
             /\ sorted[k].requirements_index \in DOMAIN requirements
      BY <1>0, <1>3 DEF SortedInv
    <2> QED BY <1>3, <2>1, EndOfType DEF ListEntry
  <1>5. c \in Nat
    BY <1>4, OfflineAssumption DEF Candidates
  <1>6. e \in ListEntry
    BY <1>3, <1>5 DEF ListEntry
  <1>7. /\ sorted' \in Seq(ListEntry)
        /\ DOMAIN sorted' = 1 .. Len(sorted) + 1
        /\ \A k \in DOMAIN sorted' :
              \/ k < p /\ k \in DOMAIN sorted /\ sorted'[k] = sorted[k]
              \/ k = p /\ sorted'[k] = e
              \/ k > p /\ k - 1 \in DOMAIN sorted /\ sorted'[k] = sorted[k - 1]
    <2>1. sorted' = InsertEntry(sorted, p, e)
      BY <1>2
    <2> HIDE DEF e
    <2>2. /\ InsertEntry(sorted, p, e) \in Seq(ListEntry)
          /\ DOMAIN InsertEntry(sorted, p, e) = 1 .. Len(sorted) + 1
          /\ \A k \in 1 .. Len(sorted) + 1 :
                \/ k < p /\ k \in DOMAIN sorted /\ InsertEntry(sorted, p, e)[k] = sorted[k]
                \/ k = p /\ InsertEntry(sorted, p, e)[k] = e
                \/ k > p /\ k - 1 \in DOMAIN sorted /\ InsertEntry(sorted, p, e)[k] = sorted[k - 1]
      BY <1>3, <1>6, InsertEntryParts
    <2> QED BY <2>1, <2>2, Zenon
  <1>8. PlannerTypeOK'
    BY <1>0, <1>1, <1>7 DEF PlannerTypeOK
  <1>9. SortedInv'
    <2>1. ASSUME NEW k \in DOMAIN sorted', NEW l \in DOMAIN sorted', k < l
          PROVE  sorted'[k].offset <= sorted'[l].offset
      <3>1. /\ \A j \in DOMAIN sorted : j < p => sorted[j].offset <= c
            /\ \A j \in DOMAIN sorted : j >= p => sorted[j].offset > c
        BY <1>2, <1>3 DEF InsertPosition
      <3>2. \A i, j \in DOMAIN sorted : i < j => sorted[i].offset <= sorted[j].offset
        BY <1>0 DEF SortedInv
      <3>3. k \in Nat /\ l \in Nat /\ p \in Nat
        BY <1>7
      <3>4. CASE k = p
        <4>1. l > p /\ l - 1 \in DOMAIN sorted /\ sorted'[l] = sorted[l - 1]
          BY <1>7, <2>1, <3>3, <3>4
        <4>2. sorted[l - 1].offset > c
          BY <3>1, <3>3, <4>1
        <4> QED BY <1>4, <1>5, <1>7, <3>3, <3>4, <4>1, <4>2
      <3>5. CASE l = p
        <4>1. k < p /\ k \in DOMAIN sorted /\ sorted'[k] = sorted[k]
          BY <1>7, <2>1, <3>3, <3>5
        <4>2. sorted[k].offset <= c
          BY <3>1, <4>1
        <4> QED BY <1>7, <3>3, <3>5, <4>1, <4>2
      <3>6. CASE k # p /\ l # p
        <4>1. PICK i \in DOMAIN sorted : sorted'[k] = sorted[i] /\ ((k < p /\ i = k) \/ (k > p /\ i = k - 1))
          BY <1>7, <3>3, <3>6
        <4>2. PICK j \in DOMAIN sorted : sorted'[l] = sorted[j] /\ ((l < p /\ j = l) \/ (l > p /\ j = l - 1))
          BY <1>7, <3>3, <3>6
        <4>3. i < j
          BY <2>1, <3>3, <4>1, <4>2
        <4> QED BY <3>2, <4>1, <4>2, <4>3
      <3> QED BY <3>4, <3>5, <3>6
    <2>2. \A k \in DOMAIN sorted' :
             sorted'[k] = e \/ \E j \in DOMAIN sorted : sorted'[k] = sorted[j]
      BY <1>7
    <2>3. ASSUME NEW k \in DOMAIN sorted'
          PROVE  /\ sorted'[k].requirements_index \in DOMAIN requirements'
                 /\ ~need_to_calculate_offsets' => sorted'[k].requirements_index \notin unplaced'
      <3>1. CASE sorted'[k] = e
        BY <1>1, <1>3, <3>1
      <3>2. CASE \E j \in DOMAIN sorted : sorted'[k] = sorted[j]
        BY <1>0, <1>1, <1>3, <3>2 DEF SortedInv
      <3> QED BY <2>2, <3>1, <3>2
    <2>4. ASSUME ~need_to_calculate_offsets', NEW k \in DOMAIN sorted', NEW j \in unplaced',
                 IsOffline(requirements'[j])
          PROVE  IsOffline(requirements'[sorted'[k].requirements_index])
      <3>1. j \in unplaced \ {id} /\ IsOffline(requirements[j])
        BY <1>1, <1>3, <2>4
      <3>2. IsOffline(requirements[id])
        BY <1>1, <3>1 DEF Before
      <3> QED BY <1>0, <1>3, <2>2, <2>4, <3>1, <3>2 DEF SortedInv
    <2>5. ~need_to_calculate_offsets'
      BY <1>0, <1>1 DEF SortedInv
    <2> QED BY <2>1, <2>3, <2>4, <2>5 DEF SortedInv
  <1>10. ASSUME ~need_to_calculate_offsets, NEW j \in DOMAIN sorted
         PROVE  Apart(requirements, e, sorted[j]) /\ Apart(requirements, sorted[j], e)
    <2>1. requirements[id].size \in Nat
      BY <1>3, RequirementFields
    <2>2. CASE IsOffline(requirements[id])
      <3>1. IsOffline(requirements[sorted[j].requirements_index])
        BY <1>0, <1>10, <2>2 DEF SortedInv
      <3> QED BY <2>2, <3>1 DEF Apart
    <2>3. CASE ~IsOffline(requirements[id])
      <3>1. PICK k \in 1 .. Len(sorted) + 1 : WalkEnds(requirements, sorted, id, k, c)
        BY <1>2, <2>3 DEF CandidateOffset
      <3>2. CASE Active(requirements, sorted[j], id)
        <4>1. \/ EndOf(requirements, sorted[j]) <= c
              \/ c + requirements[id].size <= sorted[j].offset
          BY <1>0, <1>3, <1>5, <3>1, <3>2, WalkEndsClear DEF SortedInv
        <4> QED BY <4>1 DEF Apart, EndOf
      <3>3. CASE ~Active(requirements, sorted[j], id)
        BY <3>3 DEF Active, Apart, DoesEntryOverlapInTime
      <3> QED BY <3>2, <3>3
    <2> QED BY <2>2, <2>3
  <1>11. NoOverlap'
    <2> SUFFICES ASSUME ~need_to_calculate_offsets, NEW k \in DOMAIN sorted', NEW l \in DOMAIN sorted', k # l
                 PROVE  Apart(requirements, sorted'[k], sorted'[l])
      BY <1>3 DEF NoOverlap, Apart, EndOf
    <2>1. k \in Nat /\ l \in Nat /\ p \in Nat
      BY <1>7
    <2>2. CASE k = p
      <3>1. sorted'[k] = e /\ \E j \in DOMAIN sorted : sorted'[l] = sorted[j]
        BY <1>7, <2>1, <2>2
      <3> QED BY <1>10, <3>1
    <2>3. CASE l = p
      <3>1. sorted'[l] = e /\ \E j \in DOMAIN sorted : sorted'[k] = sorted[j]
        BY <1>7, <2>1, <2>3
      <3> QED BY <1>10, <3>1
    <2>4. CASE k # p /\ l # p
      <3>1. PICK i \in DOMAIN sorted : sorted'[k] = sorted[i] /\ ((k < p /\ i = k) \/ (k > p /\ i = k - 1))
        BY <1>7, <2>1, <2>4
      <3>2. PICK j \in DOMAIN sorted : sorted'[l] = sorted[j] /\ ((l < p /\ j = l) \/ (l > p /\ j = l - 1))
        BY <1>7, <2>1, <2>4
      <3>3. i # j
        BY <2>1, <3>1, <3>2
      <3> QED BY <1>0, <3>1, <3>2, <3>3 DEF NoOverlap, Apart
    <2> QED BY <2>2, <2>3, <2>4
  <1> QED BY <1>8, <1>9, <1>11 DEF IInv

LEMMA NextIInv == IInv /\ [Next]_planner => IInv'
  <1> SUFFICES ASSUME IInv, [Next]_planner PROVE IInv'
    OBVIOUS
  <1>1. CASE \E r \in Requirement : AddBuffer(r)
    BY <1>1, AddBufferIInv
  <1>2. CASE CalculateOffsets
    BY <1>2, CalculateOffsetsIInv
  <1>3. CASE PlaceNext
    BY <1>3, PlaceNextIInv
  <1>4. CASE UNCHANGED planner
    BY <1>4 DEF planner, IInv, PlannerTypeOK, SortedInv, NoOverlap
  <1> QED BY <1>1, <1>2, <1>3, <1>4 DEF Next

\* The client of both planners takes the steps of the greedy one.
LEMMA PlannersStep == PlannersNext => [Next]_planner
  BY DEF PlannersNext, AddToBoth, Calculate, Done, Next

LEMMA PlannersImplyGreedy == PlannersSpec => Spec
  <1>1. [PlannersNext]_<<planner, linear_offsets, next_free_offset>> => [Next]_planner
    BY PlannersStep DEF planner
  <1> QED BY <1>1, PTL DEF PlannersSpec, PlannersInit, Spec

\* The list stays in the order of the offsets, and nothing is placed twice.
THEOREM PlannerInvariant == PlannersSpec => []IInv
  BY InitIInv, NextIInv, PlannersImplyGreedy, PTL DEF Spec

\* Buffers in use together never share memory.
THEOREM PlanIsSafe == PlannersSpec => []NoOverlap
  <1>1. IInv => NoOverlap
    BY DEF IInv
  <1> QED BY <1>1, PlannerInvariant, PTL

-----------------------------------------------------------------------------
(* The lowest free place. *)

\* The walk stops in front of the first gap that is large enough.  If there were
\* a free place below it, take the first entry in use that ends behind that place:
\* the walk, when it reached that entry, saw a gap of that size.
LEMMA WalkEndsLowest ==
    ASSUME NEW req \in Seq(Requirement), NEW list \in Seq(ListEntry),
           NEW id \in DOMAIN req, NEW c \in Nat,
           \A k \in DOMAIN list : list[k].requirements_index \in DOMAIN req,
           NEW k \in 1 .. Len(list) + 1, WalkEnds(req, list, id, k, c),
           NEW low \in 0 .. c - 1
    PROVE  ~Free(req, list, id, low)
  <1> SUFFICES ASSUME Free(req, list, id, low) PROVE FALSE
    OBVIOUS
  <1>1. \A j \in DOMAIN list :
           /\ j \in 1 .. Len(list) /\ list[j] \in ListEntry
           /\ list[j].offset \in Nat /\ EndOf(req, list[j]) \in Nat
    <2>1. \A j \in DOMAIN list : j \in 1 .. Len(list) /\ list[j] \in ListEntry
      OBVIOUS
    <2> QED BY <2>1, EndOfType DEF ListEntry
  <1>2. req[id].size \in Nat /\ low \in Nat /\ low < c
    <2>1. req[id] \in Requirement
      OBVIOUS
    <2> QED BY <2>1, RequirementFields
  <1> DEFINE Behind == {j \in 1 .. k - 1 : Active(req, list[j], id) /\ EndOf(req, list[j]) > low}
  <1>3. PICK j \in Behind : \A i \in Behind : j <= i
    <2>1. Behind \in SUBSET Nat
      OBVIOUS
    <2>2. Behind # {}
      BY <1>2 DEF WalkEnds, PassedEnd
    <2> HIDE DEF Behind
    <2> QED BY <2>1, <2>2, Least
  <1>4. /\ j \in 1 .. k - 1 /\ j \in DOMAIN list
        /\ Active(req, list[j], id) /\ EndOf(req, list[j]) > low
        /\ \A i \in 1 .. j - 1 : Active(req, list[i], id) => EndOf(req, list[i]) <= low
    <2>1. j \in 1 .. k - 1 /\ Active(req, list[j], id) /\ EndOf(req, list[j]) > low
      BY <1>3
    <2>2. j \in DOMAIN list
      BY <2>1
    <2>3. ASSUME NEW i \in 1 .. j - 1, Active(req, list[i], id)
          PROVE  EndOf(req, list[i]) <= low
      <3>1. i \in 1 .. k - 1 /\ i \in DOMAIN list /\ ~(j <= i)
        BY <2>1
      <3>2. i \notin Behind
        BY <1>3, <3>1
      <3>3. ~(EndOf(req, list[i]) > low)
        BY <2>3, <3>1, <3>2
      <3> QED BY <1>1, <1>2, <3>1, <3>3
    <2> QED BY <2>1, <2>2, <2>3
  <1>5. low + req[id].size <= list[j].offset
    BY <1>1, <1>2, <1>4 DEF Free
  <1> HIDE DEF Behind
  <1> DEFINE Bounds == {d \in Nat :
                           \A i \in 1 .. j - 1 : Active(req, list[i], id) => EndOf(req, list[i]) <= d}
  <1>6. PICK d \in Bounds : \A b \in Bounds : d <= b
    <2>1. Bounds \in SUBSET Nat /\ low \in Bounds
      BY <1>2, <1>4
    <2> HIDE DEF Bounds
    <2> QED BY <2>1, Least
  <1>7. d \in Nat /\ d <= low
    BY <1>2, <1>4, <1>6
  <1>8. PassedEnd(req, list, id, j, d)
    <2>1. \A i \in 1 .. j - 1 : Active(req, list[i], id) => EndOf(req, list[i]) <= d
      BY <1>6
    <2>2. ASSUME d # 0, \A i \in 1 .. j - 1 : Active(req, list[i], id) => EndOf(req, list[i]) # d
          PROVE  FALSE
      <3>1. d - 1 \in Nat
        BY <1>7, <2>2
      <3>2. ASSUME NEW i \in 1 .. j - 1, Active(req, list[i], id)
            PROVE  EndOf(req, list[i]) <= d - 1
        <4>1. i \in DOMAIN list
          BY <1>4
        <4>2. EndOf(req, list[i]) \in Nat /\ EndOf(req, list[i]) <= d /\ EndOf(req, list[i]) # d
          BY <1>1, <2>1, <2>2, <3>2, <4>1
        <4> QED BY <1>7, <4>2
      <3>3. d - 1 \in Bounds
        BY <3>1, <3>2
      <3> QED BY <1>6, <1>7, <3>3
    <2> QED BY <1>7, <2>1, <2>2 DEF PassedEnd
  <1>9. GapBefore(req, list, id, j, d)
    BY <1>1, <1>2, <1>4, <1>5, <1>7 DEF GapBefore
  <1>10. d \in 0 .. c
    BY <1>2, <1>7
  <1> QED BY <1>4, <1>8, <1>9, <1>10 DEF WalkEnds

LEMMA PlaceNextLowest ==
    ASSUME IInv, PlaceNext, NEW q \in DOMAIN sorted',
           sorted'[q].requirements_index \in unplaced,
           ~IsOffline(requirements[sorted'[q].requirements_index])
    PROVE  LET new == sorted'[q]
               id == new.requirements_index
           IN  /\ Free(requirements, sorted, id, new.offset)
               /\ \A c \in 0 .. new.offset - 1 : ~Free(requirements, sorted, id, c)
  <1>0. PlannerTypeOK /\ SortedInv
    BY DEF IInv
  <1>1. PICK id \in unplaced, c \in Candidates(requirements, sorted) \cup OfflineOffsets,
             p \in 1 .. Len(sorted) + 1 :
           /\ CandidateOffset(requirements, sorted, id, c)
           /\ sorted' = InsertEntry(sorted, p, [offset |-> c, requirements_index |-> id])
    BY DEF PlaceNext
  <1> DEFINE e == [offset |-> c, requirements_index |-> id]
  <1>2. /\ requirements \in Seq(Requirement) /\ sorted \in Seq(ListEntry)
        /\ id \in DOMAIN requirements /\ id \in Nat
    BY <1>0 DEF PlannerTypeOK
  <1>3. \A k \in DOMAIN sorted :
           /\ sorted[k].requirements_index \in DOMAIN requirements
           /\ sorted[k].requirements_index \notin unplaced
           /\ EndOf(requirements, sorted[k]) \in Nat
    <2>1. \A k \in DOMAIN sorted :
             /\ sorted[k] \in ListEntry
             /\ sorted[k].requirements_index \in DOMAIN requirements
             /\ sorted[k].requirements_index \notin unplaced
      BY <1>0, <1>2 DEF SortedInv
    <2> QED BY <1>2, <2>1, EndOfType
  <1>4. c \in Nat
    BY <1>3, OfflineAssumption DEF Candidates
  <1>5. sorted'[q] = e
    <2>1. e \in ListEntry /\ sorted' = InsertEntry(sorted, p, e)
      BY <1>1, <1>2, <1>4 DEF ListEntry
    <2> HIDE DEF e
    <2> DEFINE longer == InsertEntry(sorted, p, e)
    <2>2. /\ DOMAIN longer = 1 .. Len(sorted) + 1
          /\ \A k \in 1 .. Len(sorted) + 1 :
                \/ k < p /\ k \in DOMAIN sorted /\ longer[k] = sorted[k]
                \/ k = p /\ longer[k] = e
                \/ k > p /\ k - 1 \in DOMAIN sorted /\ longer[k] = sorted[k - 1]
      BY <1>2, <2>1, InsertEntryParts
    <2>3. q \in DOMAIN longer /\ sorted'[q] = longer[q]
      BY <2>1
    <2> HIDE DEF longer
    <2>4. \/ \E k \in DOMAIN sorted : longer[q] = sorted[k]
          \/ longer[q] = e
      BY <2>2, <2>3
    <2> QED BY <1>3, <2>3, <2>4
  <1>6. ~IsOffline(requirements[id])
    BY <1>5
  <1>7. PICK k \in 1 .. Len(sorted) + 1 : WalkEnds(requirements, sorted, id, k, c)
    BY <1>1, <1>6 DEF CandidateOffset
  <1>8. Free(requirements, sorted, id, c)
    BY <1>0, <1>2, <1>3, <1>4, <1>7, WalkEndsClear DEF SortedInv, Free
  <1>9. \A low \in 0 .. c - 1 : ~Free(requirements, sorted, id, low)
    BY <1>2, <1>3, <1>4, <1>7, WalkEndsLowest
  <1> QED BY <1>5, <1>8, <1>9

\* Each buffer that the planner places goes to the lowest place that is free for
\* its size and its time.
THEOREM LowestFreePlaceCorrect == PlannersSpec => LowestFreePlace
  <1>1. IInv /\ [Next]_planner => [PlacesLowest]_planner
    <2>1. ASSUME IInv, Next, unplaced # {} PROVE PlacesLowest
      <3>1. PlaceNext
        BY <2>1 DEF Next, AddBuffer, CalculateOffsets, IInv, SortedInv
      <3> QED BY <2>1, <3>1, PlaceNextLowest DEF PlacesLowest
    <2>2. unplaced = {} => PlacesLowest
      BY DEF PlacesLowest
    <2> QED BY <2>1, <2>2
  <1> QED
    BY <1>1, PlannerInvariant, PlannersImplyGreedy, PTL DEF Spec, LowestFreePlace

-----------------------------------------------------------------------------
(* Never worse than the linear plan. *)

\* total is the sum of the sizes in a set of buffers: it is 0 for no buffer, and
\* one buffer more adds its size.
IsTotal(total, req) ==
    /\ total \in [SUBSET DOMAIN req -> Nat]
    /\ total[{}] = 0
    /\ \A S \in SUBSET DOMAIN req : \A i \in DOMAIN req \ S :
          total[S \cup {i}] = total[S] + req[i].size

\* The linear plan is as large as all buffers together.  The greedy one, while it
\* grows, is not larger than the buffers it has placed.
LinearInv ==
    /\ linear_offsets \in Seq(Nat)
    /\ next_free_offset \in Nat
    /\ Len(linear_offsets) = Len(requirements)
    /\ \E total :
          /\ IsTotal(total, requirements)
          /\ total[DOMAIN requirements] = next_free_offset
          /\ ~need_to_calculate_offsets /\ (\A i \in DOMAIN requirements : ~IsOffline(requirements[i]))
               => \A k \in DOMAIN sorted :
                     EndOf(requirements, sorted[k]) <= total[DOMAIN requirements \ unplaced]

LEMMA LinearInvInit == PlannersInit => LinearInv
  <1> SUFFICES ASSUME PlannersInit PROVE LinearInv
    OBVIOUS
  <1>1. /\ requirements = <<>> /\ DOMAIN requirements = {} /\ sorted = <<>>
        /\ linear_offsets = <<>> /\ next_free_offset = 0
    BY DEF PlannersInit, LinearInit, Init
  <1> DEFINE total == [S \in SUBSET DOMAIN requirements |-> 0]
  <1>2. IsTotal(total, requirements) /\ total[DOMAIN requirements] = 0
    BY <1>1 DEF IsTotal
  <1> QED BY <1>1, <1>2 DEF LinearInv

\* One requirement more.
LEMMA TotalOfOneMore ==
    ASSUME NEW req \in Seq(Requirement), NEW r \in Requirement,
           NEW total, IsTotal(total, req)
    PROVE  \E more : /\ IsTotal(more, Append(req, r))
                     /\ more[DOMAIN Append(req, r)] = total[DOMAIN req] + r.size
  <1> DEFINE n == Len(req) + 1
             longer == Append(req, r)
             Old(S) == S \ {n}
             more == [S \in SUBSET DOMAIN longer |->
                         IF n \in S THEN total[Old(S)] + r.size ELSE total[Old(S)]]
  <1>1. /\ DOMAIN req = 1 .. Len(req) /\ n \notin DOMAIN req
        /\ DOMAIN longer = DOMAIN req \cup {n}
        /\ longer[n] = r /\ \A i \in DOMAIN req : longer[i] = req[i]
    OBVIOUS
  <1>2. r.size \in Nat
    BY RequirementFields
  <1> HIDE DEF n, longer
  <1>3. \A S \in SUBSET DOMAIN longer : Old(S) \in SUBSET DOMAIN req
    BY <1>1
  <1>4. /\ {} \in SUBSET DOMAIN longer /\ Old({}) = {} /\ n \notin {}
        /\ DOMAIN longer \in SUBSET DOMAIN longer /\ Old(DOMAIN longer) = DOMAIN req
        /\ n \in DOMAIN longer
    BY <1>1
  <1>5. ASSUME NEW S \in SUBSET DOMAIN longer, NEW i \in DOMAIN longer \ S
        PROVE  /\ S \cup {i} \in SUBSET DOMAIN longer
               /\ i = n => Old(S \cup {i}) = Old(S) /\ n \notin S /\ n \in S \cup {i}
               /\ i # n => /\ i \in DOMAIN req \ Old(S) /\ Old(S \cup {i}) = Old(S) \cup {i}
                           /\ (n \in S \cup {i} <=> n \in S)
    BY <1>1
  <1> HIDE DEF Old
  <1>6. \A S \in SUBSET DOMAIN longer : total[Old(S)] \in Nat
    BY <1>3 DEF IsTotal
  <1>7. /\ more \in [SUBSET DOMAIN longer -> Nat]
        /\ \A S \in SUBSET DOMAIN longer :
              /\ n \in S => more[S] = total[Old(S)] + r.size
              /\ n \notin S => more[S] = total[Old(S)]
    BY <1>2, <1>6
  <1> HIDE DEF more
  <1>8. more[{}] = 0 /\ more[DOMAIN longer] = total[DOMAIN req] + r.size
    BY <1>4, <1>7 DEF IsTotal
  <1>9. ASSUME NEW S \in SUBSET DOMAIN longer, NEW i \in DOMAIN longer \ S
        PROVE  more[S \cup {i}] = more[S] + longer[i].size
    <2> DEFINE T == S \cup {i}
    <2>1. /\ T \in SUBSET DOMAIN longer
          /\ i = n => Old(T) = Old(S) /\ n \notin S /\ n \in T
          /\ i # n => /\ i \in DOMAIN req \ Old(S) /\ Old(T) = Old(S) \cup {i}
                      /\ (n \in T <=> n \in S)
      BY <1>5
    <2> HIDE DEF T
    <2>2. CASE i = n
      <3>1. more[T] = total[Old(S)] + r.size /\ more[S] = total[Old(S)]
        BY <1>7, <2>1, <2>2
      <3> QED BY <1>1, <2>2, <3>1 DEF T
    <2>3. CASE i # n
      <3>1. total[Old(T)] = total[Old(S)] + req[i].size
        BY <1>3, <2>1, <2>3 DEF IsTotal
      <3>2. longer[i] = req[i] /\ req[i].size \in Nat
        BY <1>1, <2>1, <2>3, RequirementFields
      <3>3. \A x, y, z \in Nat : (x + y) + z = (x + z) + y
        OBVIOUS
      <3>4. more[T] = more[S] + req[i].size
        <4>1. CASE n \in S
          <5>1. more[T] = total[Old(T)] + r.size /\ more[S] = total[Old(S)] + r.size
            BY <1>7, <2>1, <2>3, <4>1
          <5> QED BY <1>2, <1>6, <3>1, <3>2, <3>3, <5>1
        <4>2. CASE n \notin S
          BY <1>7, <2>1, <2>3, <3>1, <4>2
        <4> QED BY <4>1, <4>2
      <3> QED BY <3>2, <3>4 DEF T
    <2> QED BY <2>2, <2>3
  <1>10. IsTotal(more, longer)
    BY <1>7, <1>8, <1>9 DEF IsTotal
  <1> QED BY <1>8, <1>10 DEF longer

LEMMA LinearInvAdd ==
    ASSUME IInv, LinearInv, NEW r \in Requirement, AddToBoth(r)
    PROVE  LinearInv'
  <1>1. /\ requirements \in Seq(Requirement)
        /\ requirements' = Append(requirements, r)
        /\ need_to_calculate_offsets' = TRUE
        /\ Len(requirements) < MaxBufferCount
    BY DEF AddToBoth, AddBuffer, IInv, PlannerTypeOK
  <1>2. r.size \in Nat
    BY RequirementFields
  <1>3. /\ linear_offsets' = Append(linear_offsets, next_free_offset)
        /\ next_free_offset' = next_free_offset + r.size
    <2>1. ~(Len(linear_offsets) >= kMaxBufferCount)
      BY <1>1, LinearAssumption, MaxBufferCountAssumption DEF LinearInv
    <2> QED BY <2>1 DEF AddToBoth, LinearAddBuffer
  <1>4. /\ linear_offsets' \in Seq(Nat) /\ next_free_offset' \in Nat
        /\ Len(linear_offsets') = Len(requirements')
    BY <1>1, <1>2, <1>3 DEF LinearInv
  <1>5. PICK total : IsTotal(total, requirements) /\ total[DOMAIN requirements] = next_free_offset
    BY DEF LinearInv
  <1>6. PICK more : /\ IsTotal(more, requirements')
                    /\ more[DOMAIN requirements'] = next_free_offset'
    BY <1>1, <1>3, <1>5, TotalOfOneMore
  <1> QED BY <1>1, <1>4, <1>6 DEF LinearInv

LEMMA LinearInvCalculate ==
    ASSUME IInv, LinearInv, CalculateOffsets, UNCHANGED <<linear_offsets, next_free_offset>>
    PROVE  LinearInv'
  <1>1. PICK id \in DOMAIN requirements :
           /\ sorted' = <<[offset |-> IF IsOffline(requirements[id])
                                      THEN requirements[id].offline_offset ELSE 0,
                           requirements_index |-> id]>>
           /\ unplaced' = DOMAIN requirements \ {id}
           /\ requirements' = requirements
    BY DEF CalculateOffsets
  <1>2. PICK total : IsTotal(total, requirements) /\ total[DOMAIN requirements] = next_free_offset
    BY DEF LinearInv
  <1>3. requirements[id].size \in Nat
    <2>1. requirements[id] \in Requirement
      BY DEF IInv, PlannerTypeOK
    <2> QED BY <2>1, RequirementFields
  <1>4. total[DOMAIN requirements \ unplaced'] = requirements[id].size
    <2>1. {} \in SUBSET DOMAIN requirements /\ id \in DOMAIN requirements \ {}
      OBVIOUS
    <2>2. total[{} \cup {id}] = total[{}] + requirements[id].size
      BY <1>2, <2>1 DEF IsTotal
    <2>3. DOMAIN requirements \ unplaced' = {} \cup {id}
      BY <1>1
    <2> QED BY <1>2, <1>3, <2>2, <2>3 DEF IsTotal
  <1>5. ASSUME ~IsOffline(requirements[id]), NEW k \in DOMAIN sorted'
        PROVE  EndOf(requirements', sorted'[k]) <= total[DOMAIN requirements' \ unplaced']
    <2>1. sorted'[k].offset = 0 /\ sorted'[k].requirements_index = id
      BY <1>1, <1>5
    <2> QED BY <1>1, <1>3, <1>4, <2>1 DEF EndOf
  <1> QED BY <1>1, <1>2, <1>5 DEF LinearInv

LEMMA LinearInvPlace ==
    ASSUME IInv, LinearInv, PlaceNext, UNCHANGED <<linear_offsets, next_free_offset>>
    PROVE  LinearInv'
  <1>0. PlannerTypeOK /\ SortedInv
    BY DEF IInv
  <1>1. PICK id \in unplaced, c \in Candidates(requirements, sorted) \cup OfflineOffsets,
             p \in 1 .. Len(sorted) + 1 :
           /\ CandidateOffset(requirements, sorted, id, c)
           /\ sorted' = InsertEntry(sorted, p, [offset |-> c, requirements_index |-> id])
           /\ unplaced' = unplaced \ {id}
           /\ requirements' = requirements
           /\ need_to_calculate_offsets' = need_to_calculate_offsets
    BY DEF PlaceNext
  <1> DEFINE e == [offset |-> c, requirements_index |-> id]
             Placed == DOMAIN requirements \ unplaced
  <1>2. /\ requirements \in Seq(Requirement) /\ sorted \in Seq(ListEntry)
        /\ id \in DOMAIN requirements /\ id \in Nat /\ requirements[id] \in Requirement
    BY <1>0 DEF PlannerTypeOK
  <1>3. \A k \in DOMAIN sorted :
           /\ sorted[k].requirements_index \in DOMAIN requirements
           /\ EndOf(requirements, sorted[k]) \in Nat
    <2>1. \A k \in DOMAIN sorted :
             /\ sorted[k] \in ListEntry
             /\ sorted[k].requirements_index \in DOMAIN requirements
      BY <1>0, <1>2 DEF SortedInv
    <2> QED BY <1>2, <2>1, EndOfType
  <1>4. c \in Nat
    <2>1. CASE c \in OfflineOffsets
      BY <2>1, OfflineAssumption
    <2>2. CASE c = 0 \/ \E j \in DOMAIN sorted : c = EndOf(requirements, sorted[j])
      BY <1>3, <2>2
    <2> QED BY <2>1, <2>2 DEF Candidates
  <1>5. requirements[id].size \in Nat
    BY <1>2, RequirementFields
  <1>6. PICK total :
           /\ IsTotal(total, requirements)
           /\ total[DOMAIN requirements] = next_free_offset
           /\ ~need_to_calculate_offsets /\ (\A i \in DOMAIN requirements : ~IsOffline(requirements[i]))
                => \A k \in DOMAIN sorted : EndOf(requirements, sorted[k]) <= total[Placed]
    BY DEF LinearInv
  <1>7. /\ total[Placed] \in Nat
        /\ total[DOMAIN requirements \ unplaced'] = total[Placed] + requirements[id].size
    <2>1. /\ Placed \in SUBSET DOMAIN requirements /\ id \in DOMAIN requirements \ Placed
          /\ DOMAIN requirements \ unplaced' = Placed \cup {id}
      BY <1>1, <1>2
    <2> HIDE DEF Placed
    <2> QED BY <1>6, <2>1 DEF IsTotal
  <1>8. ASSUME ~need_to_calculate_offsets, \A i \in DOMAIN requirements : ~IsOffline(requirements[i]),
               NEW q \in DOMAIN sorted'
        PROVE  EndOf(requirements, sorted'[q]) <= total[DOMAIN requirements \ unplaced']
    <2>1. \A k \in DOMAIN sorted : EndOf(requirements, sorted[k]) <= total[Placed]
      BY <1>6, <1>8
    <2>2. c <= total[Placed]
      <3>1. PICK k \in 1 .. Len(sorted) + 1 : WalkEnds(requirements, sorted, id, k, c)
        BY <1>1, <1>2, <1>8 DEF CandidateOffset
      <3>2. c = 0 \/ \E j \in 1 .. k - 1 : c = EndOf(requirements, sorted[j])
        BY <3>1 DEF WalkEnds, PassedEnd
      <3>3. \A j \in 1 .. k - 1 : j \in DOMAIN sorted
        BY <1>2
      <3>4. CASE c = 0
        BY <1>7, <3>4
      <3>5. CASE \E j \in 1 .. k - 1 : c = EndOf(requirements, sorted[j])
        BY <2>1, <3>3, <3>5
      <3> QED BY <3>2, <3>4, <3>5
    <2> HIDE DEF Placed
    <2>3. sorted'[q] = e \/ \E k \in DOMAIN sorted : sorted'[q] = sorted[k]
      <3>1. e \in ListEntry /\ sorted' = InsertEntry(sorted, p, e)
        BY <1>1, <1>2, <1>4 DEF ListEntry
      <3> DEFINE longer == InsertEntry(sorted, p, e)
      <3> HIDE DEF e
      <3>2. /\ DOMAIN longer = 1 .. Len(sorted) + 1
            /\ \A k \in 1 .. Len(sorted) + 1 :
                  \/ k < p /\ k \in DOMAIN sorted /\ longer[k] = sorted[k]
                  \/ k = p /\ longer[k] = e
                  \/ k > p /\ k - 1 \in DOMAIN sorted /\ longer[k] = sorted[k - 1]
        BY <1>2, <3>1, InsertEntryParts
      <3>3. q \in DOMAIN longer /\ sorted'[q] = longer[q]
        BY <3>1
      <3> HIDE DEF longer
      <3> QED BY <3>2, <3>3
    <2>4. CASE sorted'[q] = e
      <3>1. EndOf(requirements, sorted'[q]) = c + requirements[id].size
        BY <2>4 DEF EndOf
      <3> QED BY <1>4, <1>5, <1>7, <2>2, <3>1
    <2>5. CASE \E k \in DOMAIN sorted : sorted'[q] = sorted[k]
      BY <1>3, <1>5, <1>7, <2>1, <2>5
    <2> QED BY <2>3, <2>4, <2>5
  <1> HIDE DEF Placed
  <1> QED BY <1>1, <1>6, <1>8 DEF LinearInv

\* However the buffers are ordered and whatever gaps they skip, the greedy plan is
\* not larger than the linear one.
THEOREM NeverWorseCorrect == PlannersSpec => []NeverWorseThanLinear
  <1>1. IInv /\ LinearInv /\ [PlannersNext]_<<planner, linear_offsets, next_free_offset>> => LinearInv'
    <2> SUFFICES ASSUME IInv, LinearInv,
                        [PlannersNext]_<<planner, linear_offsets, next_free_offset>>
                 PROVE  LinearInv'
      OBVIOUS
    <2>1. CASE \E r \in Requirement : AddToBoth(r)
      BY <2>1, LinearInvAdd
    <2>2. CASE Calculate
      BY <2>2, LinearInvCalculate, LinearInvPlace DEF Calculate
    <2>3. CASE UNCHANGED <<planner, linear_offsets, next_free_offset>>
      BY <2>3 DEF planner, LinearInv
    <2> QED BY <2>1, <2>2, <2>3 DEF PlannersNext, Done
  <1>2. LinearInv => NeverWorseThanLinear
    <2> SUFFICES ASSUME LinearInv, Planned,
                        \A i \in DOMAIN requirements : ~IsOffline(requirements[i]),
                        NEW m \in Candidates(requirements, sorted)
                 PROVE  m <= next_free_offset
      BY DEF NeverWorseThanLinear, LinearMaximumMemorySize
    <2>1. \A k \in DOMAIN sorted : EndOf(requirements, sorted[k]) <= next_free_offset
      <3>1. DOMAIN requirements \ unplaced = DOMAIN requirements
        BY DEF Planned
      <3> QED BY <3>1 DEF LinearInv, Planned
    <2> QED BY <2>1 DEF Candidates, LinearInv
  <1> QED BY <1>1, <1>2, LinearInvInit, PlannerInvariant, PTL DEF PlannersSpec
=============================================================================
