----------------------------- MODULE GreedyLayout -----------------------------
(***************************************************************************)
(* The layout algorithm of GreedyMemoryPlanner, for the requirements req   *)
(* of the buffers and the list of those that have a place: entries with an *)
(* offset and the index of the requirement, in the order of their offsets. *)
(***************************************************************************)
EXTENDS Integers, Sequences

kOnlinePlannedBuffer == -1

IsOffline(r) == r.offline_offset # kOnlinePlannedBuffer

DoesEntryOverlapInTime(r, s) ==
    /\ r.first_time_used <= s.last_time_used
    /\ s.first_time_used <= r.last_time_used

EndOf(req, entry) == entry.offset + req[entry.requirements_index].size

Active(req, entry, id) ==
    DoesEntryOverlapInTime(req[entry.requirements_index], req[id])

\* Buffers with an offline offset come first, in the order they were added;
\* then the others, the largest first and, of equal ones, the last added
\* (they are filed from the tail, and the sort does not swap equal ones).
Before(req, i, j) ==
    IF IsOffline(req[i]) \/ IsOffline(req[j])
    THEN IsOffline(req[i]) /\ (IsOffline(req[j]) => i < j)
    ELSE \/ req[i].size > req[j].size
         \/ req[i].size = req[j].size /\ i > j

\* candidate_offset when the walk down the list has reached entry k: the end
\* of the active entries it has passed.
PassedEnd(req, list, id, k, c) ==
    LET passed == {j \in 1 .. k - 1 : Active(req, list[j], id)}
    IN  /\ c = 0 \/ \E j \in passed : c = EndOf(req, list[j])
        /\ c >= 0 /\ \A j \in passed : EndOf(req, list[j]) <= c

\* Mutant: a gap of exactly the size is passed over.
GapBeforeLarger(req, list, id, k, c) ==
    /\ Active(req, list[k], id)
    /\ list[k].offset - c > req[id].size

GapBefore(req, list, id, k, c) ==
    /\ Active(req, list[k], id)
    /\ list[k].offset - c >= req[id].size

\* The walk ends in front of entry k with candidate_offset c: before the
\* first active entry with a gap before it, or at the end of the list.
WalkEnds(req, list, id, k, c) ==
    /\ PassedEnd(req, list, id, k, c)
    /\ k <= Len(list) => GapBefore(req, list, id, k, c)
    /\ \A j \in 1 .. k - 1 : \A d \in 0 .. c :
          PassedEnd(req, list, id, j, d) => ~GapBefore(req, list, id, j, d)

Candidates(req, list) == {0} \cup {EndOf(req, list[j]) : j \in DOMAIN list}

CandidateOffset(req, list, id, c) ==
    IF IsOffline(req[id])
    THEN c = req[id].offline_offset
    ELSE \E k \in 1 .. Len(list) + 1 : WalkEnds(req, list, id, k, c)

\* Mutant: always at the end of the list.
InsertPositionLast(list, c, p) == p = Len(list) + 1

\* Behind the entries that begin at or before c.
InsertPosition(list, c, p) ==
    /\ \A j \in 1 .. p - 1 : list[j].offset <= c
    /\ \A j \in p .. Len(list) : list[j].offset > c

InsertEntry(list, p, entry) ==
    [i \in 1 .. Len(list) + 1 |->
        IF i < p THEN list[i] ELSE IF i = p THEN entry ELSE list[i - 1]]

\* The offset of a placed buffer.
OffsetIn(list, id) ==
    (CHOOSE e \in {list[k] : k \in DOMAIN list} : e.requirements_index = id).offset
=============================================================================
