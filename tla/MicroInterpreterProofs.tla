----------------------- MODULE MicroInterpreterProofs -----------------------
(***************************************************************************)
(* What the arena promises any client, and what the interpreters make of   *)
(* it: for every arena, size and alignment, any number of interpreters and *)
(* any models that the assumptions allow.                                  *)
(***************************************************************************)
EXTENDS MicroInterpreter, NumberLemmas

-----------------------------------------------------------------------------
(* SimpleMemoryAllocator, of any client.                                   *)

\* AlignPointerDown never goes up, nor below zero, nor down by an alignment.
LEMMA AlignDownBelow ==
    ASSUME NEW p \in Nat, NEW a \in Nat \ {0}
    PROVE  /\ AlignDown(p, a) \in Nat /\ AlignDown(p, a) <= p
           /\ p - a <= AlignDown(p, a)
  <1> DEFINE q == p \div a
             r == p % a
  <1>1. q \in Int /\ r \in 0 .. a - 1 /\ p = a * q + r
    BY DivMod
  <1> HIDE DEF q, r
  <1>2. q >= 0
    <2>1. q < 0 => a * q <= -a
      BY <1>1
    <2> QED BY <1>1, <2>1
  <1>3. q * a = a * q /\ a * q >= 0
    BY <1>1, <1>2
  <1> QED BY <1>1, <1>3 DEF AlignDown, q

\* The start of the arena is aligned, so that aligning it up is no change.
LEMMA AlignUpBufferHead ==
    ASSUME NEW a \in Alignments
    PROVE  AlignUp(BufferHead, a) = BufferHead
  <1>1. a \in Nat \ {0} /\ BufferHead \in Nat /\ BufferHead % a = 0
    BY AlignmentsAssumption, ArenaAssumption
  <1> DEFINE x == BufferHead + (a - 1)
             q == BufferHead \div a
             d == x \div a
             m == x % a
  <1>2. q \in Int /\ BufferHead = a * q
    BY <1>1, DivMod
  <1>3. d \in Int /\ m \in 0 .. a - 1 /\ x = a * d + m
    <2>1. x \in Int
      BY <1>1
    <2> HIDE DEF x
    <2> QED BY <1>1, <2>1, DivMod
  <1> HIDE DEF q, d, m
  <1>4. a * (d - q) = (a - 1) - m
    BY <1>1, <1>2, <1>3
  <1>5. d - q > 0 => a * (d - q) >= a
    BY <1>1, <1>2, <1>3
  <1>6. d - q < 0 => a * (d - q) <= -a
    BY <1>1, <1>2, <1>3
  <1>7. d = q
    BY <1>1, <1>2, <1>3, <1>4, <1>5, <1>6
  <1>8. d * a = BufferHead
    BY <1>1, <1>2, <1>3, <1>7
  <1> QED BY <1>8 DEF AlignUp, d

\* AlignPointerUp never goes down and ends at a multiple.
LEMMA AlignUpAbove ==
    ASSUME NEW p \in Nat, NEW a \in Nat \ {0}
    PROVE  AlignUp(p, a) \in Nat /\ p <= AlignUp(p, a) /\ \E q \in Nat : AlignUp(p, a) = a * q
  <1> DEFINE x == p + (a - 1)
             q == x \div a
             r == x % a
  <1>1. q \in Int /\ r \in 0 .. a - 1 /\ x = a * q + r
    <2>1. x \in Int
      OBVIOUS
    <2> HIDE DEF x
    <2> QED BY <2>1, DivMod
  <1> HIDE DEF q, r
  <1>2. q >= 0
    <2>1. q < 0 => a * q <= -a
      BY <1>1
    <2> QED BY <1>1, <2>1
  <1>3. q * a = a * q /\ a * q \in Nat
    BY <1>1, <1>2
  <1>4. p <= a * q
    BY <1>1, <1>3
  <1>5. AlignUp(p, a) = a * q
    BY <1>3 DEF AlignUp, q
  <1> QED BY <1>1, <1>2, <1>3, <1>4, <1>5

\* A difference that is not negative is itself as a size_t.
LEMMA SizeTInRange ==
    ASSUME NEW n \in Nat, n < AddressSpace
    PROVE  SizeT(n) = n
  <1>1. AddressSpace \in Nat \ {0} /\ n \in 0 .. AddressSpace - 1
    BY ArenaAssumption
  <1>2. n = AddressSpace * 0 + n
    BY <1>1
  <1> QED BY <1>1, <1>2, ModUnique DEF SizeT

\* Every end of a buffer that the arena may have is a natural number.
LEMMA BufferTailType ==
    ASSUME ArenaTypeOK
    PROVE  /\ buffer_tail \in Nat /\ buffer_tail < AddressSpace
           /\ BufferHead \in Nat /\ AddressSpace \in Nat
  BY ArenaAssumption DEF ArenaTypeOK

-----------------------------------------------------------------------------
\* A new arena has its sections in order and nothing handed out.
LEMMA InitArenaInv == ArenaInit => ArenaInv
  <1> SUFFICES ASSUME NEW a \in Alignments, Create(a) PROVE ArenaInv
    BY DEF ArenaInit
  <1> USE DEF Create
  <1>1. /\ a \in Nat \ {0} /\ BufferHead \in Nat /\ ObjectSize \in Nat
        /\ buffer_tail \in Nat /\ BufferHead + ObjectSize + a <= buffer_tail
    BY AlignmentsAssumption, ArenaAssumption
  <1>2. buffer_tail - ObjectSize \in Nat /\ tail = AlignDown(buffer_tail - ObjectSize, a)
    BY <1>1
  <1>3. tail \in Nat /\ tail <= buffer_tail - ObjectSize
    BY <1>1, <1>2, AlignDownBelow
  <1>4. buffer_tail - ObjectSize - a <= tail
    BY <1>1, <1>2, AlignDownBelow
  <1>5. head <= tail
    BY <1>1, <1>3, <1>4
  <1> QED BY <1>1, <1>3, <1>5
          DEF ArenaInv, ArenaTypeOK, PersistentIntact, UsedBytesExact

\* SetHeadBufferSize keeps the sections in order.
LEMMA SetHeadArenaInv ==
    ASSUME ArenaInv, NEW s \in Nat, NEW a \in Alignments, SetHeadBufferSize(s, a)
    PROVE  ArenaInv'
  <1> USE DEF ArenaInv
  <1>1. /\ buffer_tail \in Nat /\ buffer_tail < AddressSpace
        /\ BufferHead \in Nat /\ AddressSpace \in Nat
    BY BufferTailType
  <1>2. head \in Nat /\ tail \in Nat /\ BufferHead <= head /\ head <= tail /\ tail <= buffer_tail
    BY DEF ArenaTypeOK, PersistentIntact
  <1>3. AlignUp(BufferHead, a) = BufferHead
    BY AlignUpBufferHead
  <1>4. SizeT(tail - BufferHead) = tail - BufferHead
    <2>1. tail - BufferHead \in Nat /\ tail - BufferHead < AddressSpace
      BY <1>1, <1>2
    <2> QED BY <2>1, SizeTInRange
  <1>5. head' = BufferHead + s /\ head' <= tail
    BY <1>1, <1>2, <1>3, <1>4 DEF SetHeadBufferSize, HeadFits
  <1>6. ArenaTypeOK'
    BY <1>1, <1>2, <1>5 DEF SetHeadBufferSize, ArenaTypeOK
  <1>7. PersistentIntact'
    BY <1>5 DEF SetHeadBufferSize, PersistentIntact, Disjoint
  <1>8. UsedBytesExact'
    BY <1>1, <1>2, <1>5 DEF SetHeadBufferSize, UsedBytesExact
  <1> QED BY <1>6, <1>7, <1>8

\* AllocateFromTail hands out what was free.
LEMMA AllocateFromTailArenaInv ==
    ASSUME ArenaInv, NEW s \in Sizes, NEW a \in Alignments, AllocateFromTail(s, a)
    PROVE  ArenaInv'
  <1> USE DEF ArenaInv
  <1>1. /\ s \in Nat /\ s <= BufferHead /\ a \in Nat \ {0}
        /\ buffer_tail \in Nat /\ buffer_tail < AddressSpace
        /\ BufferHead \in Nat /\ AddressSpace \in Nat
    BY SizesAssumption, AlignmentsAssumption, BufferTailType
  <1>2. head \in Nat /\ tail \in Nat /\ BufferHead <= head /\ head <= tail /\ tail <= buffer_tail
    BY DEF ArenaTypeOK, PersistentIntact
  <1>3. tail - s \in Nat /\ tail - s < AddressSpace
    BY <1>1, <1>2
  <1> DEFINE n == AlignDown(tail - s, a)
             new == [from |-> n, to |-> n + s]
  <1>4. n \in Nat /\ n <= tail - s
    BY <1>1, <1>3, AlignDownBelow
  <1> HIDE DEF n
  <1>5. TailResult(s, a) = n
    BY <1>3, SizeTInRange DEF TailResult, n
  <1>6. /\ tail' = n /\ head <= n
        /\ used_bytes' = used_bytes + (tail - n)
        /\ persistent' = persistent \cup {new}
        /\ UNCHANGED <<buffer_tail, head>>
    BY <1>1, <1>2, <1>4, <1>5 DEF AllocateFromTail, TailFits
  <1>7. n + s \in Nat /\ n <= n + s /\ n + s <= tail /\ n + s <= buffer_tail /\ n <= buffer_tail
    BY <1>1, <1>2, <1>4
  <1>8. ArenaTypeOK'
    <2>1. used_bytes \in Int /\ used_bytes + (tail - n) \in Int
      BY <1>2, <1>4 DEF ArenaTypeOK
    <2>2. new \in [from : Nat, to : Nat] /\ new.from <= new.to
      BY <1>4, <1>7
    <2>3. persistent' \subseteq [from : Nat, to : Nat] /\ \A r \in persistent' : r.from <= r.to
      <3> HIDE DEF new
      <3> QED BY <1>6, <2>2 DEF ArenaTypeOK
    <2> QED BY <1>4, <1>6, <1>7, <2>1, <2>3 DEF ArenaTypeOK
  <1>9. \A r \in persistent : r.from \in Nat /\ r.to \in Nat /\ tail <= r.from /\ r.to <= buffer_tail
    BY DEF ArenaTypeOK, PersistentIntact
  <1>10. PersistentIntact'
    <2>1. \A r \in persistent : n <= r.from /\ n + s <= r.from /\ r.to <= buffer_tail
      BY <1>1, <1>2, <1>4, <1>7, <1>9
    <2>2. \A r \in persistent \cup {new} : n <= r.from /\ r.to <= buffer_tail
      BY <1>4, <1>7, <2>1
    <2>3. \A r \in persistent : Disjoint(r, new) /\ Disjoint(new, r)
      BY <2>1 DEF Disjoint
    <2>4. \A r, t \in persistent \cup {new} : r # t => Disjoint(r, t)
      <3> HIDE DEF new
      <3> QED BY <2>3 DEF PersistentIntact
    <2> HIDE DEF new
    <2> QED BY <1>6, <2>2, <2>4 DEF PersistentIntact, Disjoint
  <1>11. UsedBytesExact'
    BY <1>1, <1>2, <1>4, <1>6 DEF UsedBytesExact, ArenaTypeOK
  <1> QED BY <1>8, <1>10, <1>11

\* The operations on temporary memory do not touch what the invariant is about.
LEMMA TempArenaInv ==
    ASSUME ArenaInv,
           UNCHANGED <<buffer_tail, head, tail, used_bytes, persistent>>
    PROVE  ArenaInv'
  BY DEF ArenaInv, ArenaTypeOK, PersistentIntact, UsedBytesExact, Disjoint

\* Wherever a temporary allocation ends up, the ends of the sections are numbers.
LEMMA TempOverruns ==
    ASSUME ArenaInv, temp \in Nat, NEW s \in Nat, NEW a \in Alignments, AllocateTemp(s, a)
    PROVE  ArenaInv' /\ head' = head /\ temp' \in Nat
  <1>1. UNCHANGED <<buffer_tail, head, tail, used_bytes, persistent>>
        /\ temp' = SizeT(AlignUp(temp, a) + s)
    BY DEF AllocateTemp
  <1>2. AlignUp(temp, a) \in Nat
    BY AlignUpAbove, AlignmentsAssumption
  <1>3. AlignUp(temp, a) + s \in Nat /\ AddressSpace \in Nat \ {0}
    BY <1>2, ArenaAssumption
  <1>4. temp' \in Nat
    <2> DEFINE n == AlignUp(temp, a) + s
    <2>1. temp' = n % AddressSpace /\ n \in Int
      BY <1>1, <1>3 DEF SizeT
    <2> HIDE DEF n
    <2> QED BY <1>3, <2>1, DivMod
  <1> QED BY <1>1, <1>4, TempArenaInv

\* Every call of a client of the arena keeps its invariant.
LEMMA NextArenaInv == ArenaInv /\ [ArenaNext]_arena => ArenaInv'
  <1> SUFFICES ASSUME ArenaInv, [ArenaNext]_arena PROVE ArenaInv'
    OBVIOUS
  <1>1. ASSUME NEW s \in 0 .. AddressSpace - 1, NEW a \in Alignments, SetHeadBufferSize(s, a)
        PROVE  ArenaInv'
    BY <1>1, SetHeadArenaInv
  <1>2. ASSUME NEW s \in Sizes, NEW a \in Alignments, AllocateFromTail(s, a)
        PROVE  ArenaInv'
    BY <1>2, AllocateFromTailArenaInv
  <1>3. ASSUME NEW s \in 0 .. AddressSpace - 1, NEW a \in Alignments, AllocateTemp(s, a)
        PROVE  ArenaInv'
    BY <1>3, TempArenaInv DEF AllocateTemp
  <1>4. CASE ResetTempAllocations
    BY <1>4, TempArenaInv DEF ResetTempAllocations
  <1>5. CASE UNCHANGED arena
    BY <1>5, TempArenaInv DEF arena
  <1> QED BY <1>1, <1>2, <1>3, <1>4, <1>5 DEF ArenaNext

\* Whatever clients do, the inductive invariant of the arena holds.
THEOREM ArenaInvariant == ArenaSpec => []ArenaInv
  BY InitArenaInv, NextArenaInv, PTL DEF ArenaSpec

\* A temporary allocation that starts before the tail ends before it: the
\* room is a difference that has not wrapped around.
LEMMA TempKeepsPersistent ==
    ASSUME ArenaInv, temp \in Nat, NEW s \in Nat, NEW a \in Alignments, AllocateTemp(s, a)
    PROVE  KeepsPersistent
  <1> DEFINE from == AlignUp(temp, a)
  <1>1. /\ persistent' = persistent /\ PersistentIntact'
        /\ temp' = SizeT(from + s) /\ SizeT(tail - from) >= s
        /\ temps' = temps \cup {[from |-> from, to |-> temp']}
    BY TempOverruns DEF AllocateTemp, TempFits, ArenaInv
  <1>2. from \in Nat
    BY AlignUpAbove, AlignmentsAssumption
  <1>3. /\ tail \in Nat /\ tail < AddressSpace /\ AddressSpace \in Nat
        /\ \A r \in persistent : r.from \in Nat /\ tail <= r.from
    BY BufferTailType DEF ArenaInv, ArenaTypeOK, PersistentIntact
  <1> HIDE DEF from
  <1>4. ASSUME from <= tail
        PROVE  \A r \in persistent : from <= temp' /\ temp' <= r.from
    <2>1. tail - from \in Nat /\ tail - from < AddressSpace
      BY <1>2, <1>3, <1>4
    <2>2. tail - from >= s
      BY <1>1, <2>1, SizeTInRange
    <2>3. from + s \in Nat /\ from + s <= tail /\ from + s < AddressSpace
      BY <1>2, <1>3, <2>2
    <2>4. temp' = from + s
      BY <1>1, <2>3, SizeTInRange
    <2> QED BY <1>2, <1>3, <2>3, <2>4
  <1>5. ASSUME NEW t \in temps' \ temps, t.from <= tail PROVE FitsBeforePersistent(t)
    <2>1. t.from = from /\ t.to = temp'
      BY <1>1, <1>5
    <2> QED BY <1>4, <1>5, <2>1 DEF FitsBeforePersistent
  <1> QED BY <1>1, <1>5 DEF KeepsPersistent

\* A step without a temporary allocation.
NoNewTemps == persistent \subseteq persistent' /\ temps' \subseteq temps

\* Such a step keeps what is persistent if it keeps the invariant of the arena.
LEMMA OthersKeepPersistent ==
    ASSUME ArenaInv', NoNewTemps
    PROVE  KeepsPersistent
  BY DEF NoNewTemps, KeepsPersistent, ArenaInv

\* The end of the temporary section is a number, and no step of any client
\* gives out what is persistent.
LEMMA NextKeepsPersistent ==
    ArenaInv /\ temp \in Nat /\ [ArenaNext]_arena =>
        (temp \in Nat)' /\ [KeepsPersistent]_arena
  <1> SUFFICES ASSUME ArenaInv, temp \in Nat, ArenaNext
               PROVE  temp' \in Nat /\ KeepsPersistent
    BY DEF arena
  <1>1. ArenaInv'
    BY NextArenaInv
  <1>2. ASSUME NEW s \in Sizes, NEW a \in Alignments, AllocateFromTail(s, a)
        PROVE  temp' \in Nat /\ KeepsPersistent
    BY <1>1, <1>2, OthersKeepPersistent DEF AllocateFromTail, NoNewTemps
  <1>3. ASSUME NEW s \in 0 .. AddressSpace - 1, NEW a \in Alignments, SetHeadBufferSize(s, a)
        PROVE  temp' \in Nat /\ KeepsPersistent
    BY <1>1, <1>3, OthersKeepPersistent DEF SetHeadBufferSize, NoNewTemps, ArenaInv, ArenaTypeOK
  <1>4. ASSUME NEW s \in 0 .. AddressSpace - 1, NEW a \in Alignments, AllocateTemp(s, a)
        PROVE  temp' \in Nat /\ KeepsPersistent
    BY <1>4, TempOverruns, TempKeepsPersistent
  <1>5. CASE ResetTempAllocations
    BY <1>1, <1>5, OthersKeepPersistent
       DEF ResetTempAllocations, NoNewTemps, ArenaInv, ArenaTypeOK
  <1> QED BY <1>2, <1>3, <1>4, <1>5 DEF ArenaNext

\* No persistent allocation is ever given out again, whatever clients do: not
\* to the head section, not to a later persistent allocation, and not to a
\* temporary one that starts before the tail.
THEOREM PersistentIsKept == ArenaSpec => PersistentKept
  <1>1. ArenaInit => ArenaInv /\ temp \in Nat
    BY InitArenaInv, ArenaAssumption DEF ArenaInit, Create
  <1>2. ArenaInv /\ temp \in Nat /\ [ArenaNext]_arena => (ArenaInv /\ temp \in Nat)'
    BY NextArenaInv, NextKeepsPersistent
  <1>3. ArenaInv => PersistentIntact
    BY DEF ArenaInv
  <1> QED BY <1>1, <1>2, <1>3, NextKeepsPersistent, PTL DEF ArenaSpec, PersistentKept

\* The recording allocator's account is always exact.
THEOREM AccountIsExact == ArenaSpec => []UsedBytesExact
  <1>1. ArenaInv => UsedBytesExact
    BY DEF ArenaInv
  <1> QED BY <1>1, ArenaInvariant, PTL

-----------------------------------------------------------------------------
(* The memory plan: the layout algorithm finds a place for every buffer.   *)

\* What AddBuffer has been told: sizes, and places for the offline buffers.
AreRequirements(req) ==
    /\ Len(req) \in Nat /\ DOMAIN req = 1 .. Len(req)
    /\ \A id \in DOMAIN req :
          /\ req[id].size \in Nat
          /\ IsOffline(req[id]) => req[id].offline_offset \in Nat

Entries(req) == [offset : Nat, requirements_index : DOMAIN req]

\* The lists of n buffers in the order of their offsets, none of them twice.
Layouts(req, n) ==
    {list \in Seq(Entries(req)) :
        /\ Len(list) = n
        /\ \A k, l \in DOMAIN list : k < l => list[k].offset <= list[l].offset
        /\ \A k, l \in DOMAIN list :
              list[k].requirements_index = list[l].requirements_index => k = l}

\* What is in a layout.
LEMMA LayoutEntries ==
    ASSUME NEW req, AreRequirements(req), NEW n \in Nat, NEW list \in Layouts(req, n)
    PROVE  /\ Len(list) = n /\ DOMAIN list = 1 .. n
           /\ \A k \in 1 .. n : /\ list[k] \in Entries(req)
                                /\ list[k].offset \in Nat
                                /\ list[k].requirements_index \in DOMAIN req
                                /\ EndOf(req, list[k]) \in Nat
  <1>1. list \in Seq(Entries(req)) /\ Len(list) = n /\ DOMAIN list = 1 .. n
    BY DEF Layouts
  <1>2. ASSUME NEW k \in 1 .. n
        PROVE  /\ list[k] \in Entries(req) /\ list[k].offset \in Nat
               /\ list[k].requirements_index \in DOMAIN req
    <2>1. list[k] \in Entries(req)
      BY <1>1
    <2> QED BY <2>1 DEF Entries
  <1>3. ASSUME NEW k \in 1 .. n PROVE EndOf(req, list[k]) \in Nat
    BY <1>2 DEF EndOf, AreRequirements
  <1> QED BY <1>1, <1>2, <1>3

\* However far the walk has gone, candidate_offset has a value.
LEMMA PassedEndExists ==
    ASSUME NEW req, AreRequirements(req), NEW n \in Nat, NEW list \in Layouts(req, n),
           NEW id, NEW k \in 1 .. n + 1
    PROVE  \E c \in Nat : c \in Candidates(req, list) /\ PassedEnd(req, list, id, k, c)
  <1> DEFINE passed == {j \in 1 .. k - 1 : Active(req, list[j], id)}
             T == {0} \cup {EndOf(req, list[j]) : j \in passed}
             f == [j \in 1 .. n |-> EndOf(req, list[j])]
  <1>1. \A j \in 1 .. n : EndOf(req, list[j]) \in Nat
    BY LayoutEntries
  <1>2. passed \subseteq 1 .. n /\ 1 .. n = DOMAIN list
    BY LayoutEntries
  <1>3. PICK b \in Nat : \A j \in 1 .. n : f[j] <= b
    <2>1. \A j \in 1 .. n : f[j] \in Nat
      BY <1>1
    <2> HIDE DEF f
    <2> QED BY <2>1, Bounded
  <1> HIDE DEF passed
  <1>4. T \in SUBSET Nat /\ T # {}
    <2>1. \A j \in passed : EndOf(req, list[j]) \in Nat
      BY <1>1, <1>2
    <2>2. 0 \in T
      OBVIOUS
    <2>3. \A x \in T : x \in Nat
      BY <2>1
    <2> HIDE DEF T
    <2> QED BY <2>2, <2>3
  <1>5. \A x \in T : x <= b
    BY <1>2, <1>3
  <1>6. PICK c \in T : \A x \in T : x <= c
    <2> HIDE DEF T
    <2> QED BY <1>4, <1>5, Greatest
  <1>7. c \in Nat
    BY <1>4
  <1>8. c \in Candidates(req, list)
    BY <1>2 DEF Candidates
  <1>9. \A j \in passed : EndOf(req, list[j]) <= c
    BY <1>6
  <1>10. c = 0 \/ \E j \in passed : c = EndOf(req, list[j])
    OBVIOUS
  <1>11. PassedEnd(req, list, id, k, c)
    BY <1>7, <1>9, <1>10 DEF PassedEnd, passed
  <1> QED BY <1>7, <1>8, <1>11

\* The walk ends somewhere.
LEMMA WalkEndsExists ==
    ASSUME NEW req, AreRequirements(req), NEW n \in Nat, NEW list \in Layouts(req, n), NEW id
    PROVE  \E c \in Nat : /\ c \in Candidates(req, list)
                          /\ \E k \in 1 .. Len(list) + 1 : WalkEnds(req, list, id, k, c)
  <1> DEFINE Found(k, c) == PassedEnd(req, list, id, k, c) /\ GapBefore(req, list, id, k, c)
             T == {k \in 1 .. n + 1 : k = n + 1 \/ \E c \in Nat : Found(k, c)}
  <1>1. Len(list) = n
    BY LayoutEntries
  <1>2. T \in SUBSET Nat /\ T # {}
    <2>1. n + 1 \in T
      OBVIOUS
    <2> QED BY <2>1
  <1>3. PICK k \in T : \A j \in T : k <= j
    <2> HIDE DEF T
    <2> QED BY <1>2, Least
  <1>4. PICK c \in Nat :
           /\ c \in Candidates(req, list) /\ PassedEnd(req, list, id, k, c)
           /\ k <= Len(list) => GapBefore(req, list, id, k, c)
    <2>1. CASE k = n + 1
      BY <1>1, <2>1, PassedEndExists
    <2>2. CASE k # n + 1
      <3>1. PICK c \in Nat : Found(k, c)
        BY <2>2
      <3>2. c \in Candidates(req, list)
        <4>1. 1 .. k - 1 \subseteq DOMAIN list
          BY LayoutEntries
        <4> QED BY <3>1, <4>1 DEF PassedEnd, Candidates
      <3> QED BY <3>1, <3>2
    <2> QED BY <2>1, <2>2
  <1>5. ASSUME NEW j \in 1 .. k - 1, NEW d \in 0 .. c, PassedEnd(req, list, id, j, d)
        PROVE  ~GapBefore(req, list, id, j, d)
    <2>1. j \in 1 .. n + 1 /\ ~(k <= j) /\ d \in Nat
      OBVIOUS
    <2> HIDE DEF Found
    <2>2. ~Found(j, d)
      BY <1>3, <2>1
    <2> QED BY <1>5, <2>2 DEF Found
  <1>6. WalkEnds(req, list, id, k, c)
    BY <1>4, <1>5 DEF WalkEnds
  <1> QED BY <1>1, <1>4, <1>6

\* There is a place in the list for any offset.
LEMMA InsertPositionExists ==
    ASSUME NEW req, AreRequirements(req), NEW n \in Nat, NEW list \in Layouts(req, n),
           NEW c \in Nat
    PROVE  \E p \in 1 .. Len(list) + 1 : InsertPosition(list, c, p)
  <1> DEFINE T == {p \in 1 .. n + 1 : p = n + 1 \/ list[p].offset > c}
  <1>1. Len(list) = n /\ DOMAIN list = 1 .. n /\ \A k \in 1 .. n : list[k].offset \in Nat
    BY LayoutEntries
  <1>2. T \in SUBSET Nat /\ T # {}
    <2>1. n + 1 \in T
      OBVIOUS
    <2>2. T \subseteq 1 .. n + 1 /\ 1 .. n + 1 \subseteq Nat
      OBVIOUS
    <2> HIDE DEF T
    <2> QED BY <2>1, <2>2
  <1>3. PICK p \in T : \A j \in T : p <= j
    <2> HIDE DEF T
    <2> QED BY <1>2, Least
  <1>4. ASSUME NEW j \in 1 .. p - 1 PROVE list[j].offset <= c
    <2>1. j \in 1 .. n /\ j \notin T
      BY <1>3
    <2> QED BY <1>1, <2>1
  <1>5. ASSUME NEW j \in p .. Len(list) PROVE list[j].offset > c
    <2>1. p \in 1 .. n /\ j \in 1 .. n /\ list[p].offset > c
      BY <1>1
    <2>2. p = j \/ list[p].offset <= list[j].offset
      BY <1>1, <2>1 DEF Layouts
    <2> QED BY <1>1, <2>1, <2>2
  <1> QED BY <1>1, <1>4, <1>5 DEF InsertPosition

\* An entry is inserted between those below and those above.
LEMMA InsertEntryParts ==
    ASSUME NEW S, NEW list \in Seq(S), NEW p \in 1 .. Len(list) + 1, NEW entry \in S
    PROVE  /\ InsertEntry(list, p, entry) \in Seq(S)
           /\ Len(InsertEntry(list, p, entry)) = Len(list) + 1
           /\ \A k \in 1 .. Len(list) + 1 :
                 \/ k < p /\ k \in DOMAIN list /\ InsertEntry(list, p, entry)[k] = list[k]
                 \/ k = p /\ InsertEntry(list, p, entry)[k] = entry
                 \/ /\ p < k /\ k - 1 \in DOMAIN list
                    /\ InsertEntry(list, p, entry)[k] = list[k - 1]
  <1> DEFINE new == InsertEntry(list, p, entry)
  <1>1. Len(list) \in Nat /\ DOMAIN list = 1 .. Len(list)
    OBVIOUS
  <1>2. ASSUME NEW k \in 1 .. Len(list) + 1
        PROVE  \/ k < p /\ k \in DOMAIN list /\ new[k] = list[k]
               \/ k = p /\ new[k] = entry
               \/ p < k /\ k - 1 \in DOMAIN list /\ new[k] = list[k - 1]
    BY <1>1 DEF InsertEntry
  <1>3. \A k \in 1 .. Len(list) + 1 : new[k] \in S
    <2> HIDE DEF new
    <2> QED BY <1>1, <1>2
  <1>4. new = [k \in 1 .. Len(list) + 1 |-> new[k]]
    BY DEF InsertEntry
  <1>5. new \in Seq(S) /\ Len(new) = Len(list) + 1
    <2> HIDE DEF new
    <2> QED BY <1>1, <1>3, <1>4
  <1> QED BY <1>2, <1>5

\* Of the buffers that are not in the list yet, one comes before all others.
LEMMA NextIsFirst ==
    ASSUME NEW req, AreRequirements(req), NEW list, Unplaced(req, list) # {}
    PROVE  /\ PlacedNext(req, list) \in Unplaced(req, list)
           /\ \A j \in Unplaced(req, list) \ {PlacedNext(req, list)} :
                 Before(req, PlacedNext(req, list), j)
  <1> DEFINE U == Unplaced(req, list)
             First(id) == \A j \in U \ {id} : Before(req, id, j)
  <1>1. U \subseteq DOMAIN req /\ U # {}
    BY DEF Unplaced
  <1>2. \A id \in U : id \in Nat /\ id \in 1 .. Len(req) /\ req[id].size \in Nat
    BY <1>1 DEF AreRequirements
  <1> HIDE DEF U
  <1>3. ASSUME \E id \in U : IsOffline(req[id]) PROVE \E id \in U : First(id)
    <2> DEFINE T == {id \in U : IsOffline(req[id])}
    <2>1. T \in SUBSET Nat /\ T # {}
      BY <1>2, <1>3
    <2>2. PICK id \in T : \A j \in T : id <= j
      <3> HIDE DEF T
      <3> QED BY <2>1, Least
    <2>3. ASSUME NEW j \in U \ {id} PROVE Before(req, id, j)
      <3>1. IsOffline(req[id])
        OBVIOUS
      <3>2. IsOffline(req[j]) => j \in T
        OBVIOUS
      <3>3. id \in Nat /\ j \in Nat /\ id # j
        BY <1>2
      <3>4. IsOffline(req[j]) => id < j
        BY <2>2, <3>2, <3>3
      <3> QED BY <3>1, <3>4 DEF Before
    <2> QED BY <2>3
  <1>4. ASSUME \A id \in U : ~IsOffline(req[id]) PROVE \E id \in U : First(id)
    <2> DEFINE sizes == {req[id].size : id \in U}
               f == [id \in 1 .. Len(req) |-> IF id \in U THEN req[id].size ELSE 0]
    <2>1. PICK b \in Nat : \A id \in 1 .. Len(req) : f[id] <= b
      <3>1. \A id \in 1 .. Len(req) : f[id] \in Nat
        BY <1>2
      <3> HIDE DEF f
      <3> QED BY <3>1, Bounded DEF AreRequirements
    <2>2. sizes \in SUBSET Nat /\ sizes # {} /\ \A x \in sizes : x <= b
      <3>1. \A id \in U : req[id].size \in Nat /\ req[id].size <= b
        BY <1>2, <2>1
      <3> QED BY <1>1, <3>1
    <2>3. PICK size \in sizes : \A x \in sizes : x <= size
      <3> HIDE DEF sizes
      <3> QED BY <2>2, Greatest
    <2> DEFINE T == {id \in U : req[id].size = size}
    <2>4. T \in SUBSET Nat /\ T # {} /\ Len(req) \in Nat /\ \A x \in T : x <= Len(req)
      BY <1>2 DEF AreRequirements
    <2>5. PICK id \in T : \A j \in T : j <= id
      <3> HIDE DEF T
      <3> QED BY <2>4, Greatest
    <2>6. ASSUME NEW j \in U \ {id} PROVE Before(req, id, j)
      <3>1. req[j].size \in Nat /\ req[id].size \in Nat /\ req[j].size <= req[id].size
        BY <1>2, <2>3
      <3>2. id \in Nat /\ j \in Nat /\ id # j
        BY <1>2
      <3>3. req[j].size = req[id].size => j < id
        BY <2>5, <3>2
      <3>4. ~IsOffline(req[id]) /\ ~IsOffline(req[j])
        BY <1>4
      <3> QED BY <3>1, <3>2, <3>3, <3>4 DEF Before
    <2> QED BY <2>6
  <1>5. \E id \in U : First(id)
    BY <1>3, <1>4
  <1> QED BY <1>5 DEF PlacedNext, U

\* A round of the planner puts one more buffer into the list: at an offset where
\* the walk has ended, behind the entries with smaller offsets.
PlacedAs(req, n, list, id, new, c, p) ==
    /\ CandidateOffset(req, list, id, c) /\ InsertPosition(list, c, p)
    /\ new \in Seq(Entries(req)) /\ Len(new) = n + 1
    /\ \A k \in 1 .. n + 1 :
          \/ k < p /\ k \in 1 .. n /\ new[k] = list[k]
          \/ k = p /\ new[k] = [offset |-> c, requirements_index |-> id]
          \/ p < k /\ k - 1 \in 1 .. n /\ new[k] = list[k - 1]

\* A placed buffer is one entry more.
LEMMA PlacedParts ==
    ASSUME NEW req, AreRequirements(req), NEW n \in Nat, NEW list \in Layouts(req, n),
           NEW id \in Unplaced(req, list)
    PROVE  \E c \in Nat : \E p \in 1 .. n + 1 :
              PlacedAs(req, n, list, id, Placed(req, list, id), c, p)
  <1> DEFINE offsets == Candidates(req, list) \cup {req[id].offline_offset}
             c == CHOOSE x \in offsets : CandidateOffset(req, list, id, x)
             p == CHOOSE q \in 1 .. Len(list) + 1 : InsertPosition(list, c, q)
             entry == [offset |-> c, requirements_index |-> id]
             new == InsertEntry(list, p, entry)
  <1>1. /\ Len(list) = n /\ DOMAIN list = 1 .. n /\ list \in Seq(Entries(req))
        /\ \A k \in 1 .. n : list[k].offset \in Nat /\ EndOf(req, list[k]) \in Nat
    BY LayoutEntries DEF Layouts
  <1>2. id \in DOMAIN req /\ \A k \in DOMAIN list : list[k].requirements_index # id
    BY DEF Unplaced
  <1>3. \E x \in offsets : CandidateOffset(req, list, id, x)
    <2>1. CASE IsOffline(req[id])
      BY <2>1 DEF CandidateOffset
    <2>2. CASE ~IsOffline(req[id])
      BY <2>2, WalkEndsExists DEF CandidateOffset
    <2> QED BY <2>1, <2>2
  <1>4. CandidateOffset(req, list, id, c)
    BY <1>3
  <1> HIDE DEF c
  <1>5. c \in Nat
    <2>1. CASE IsOffline(req[id])
      BY <1>2, <1>4, <2>1 DEF CandidateOffset, AreRequirements
    <2>2. CASE ~IsOffline(req[id])
      <3>1. PICK k \in 1 .. n + 1 : PassedEnd(req, list, id, k, c)
        BY <1>1, <1>4, <2>2 DEF CandidateOffset, WalkEnds
      <3>2. \A j \in 1 .. k - 1 : EndOf(req, list[j]) \in Nat
        BY <1>1
      <3> QED BY <3>1, <3>2 DEF PassedEnd
    <2> QED BY <2>1, <2>2
  <1>6. p \in 1 .. Len(list) + 1 /\ InsertPosition(list, c, p)
    <2>1. \E q \in 1 .. Len(list) + 1 : InsertPosition(list, c, q)
      BY <1>5, InsertPositionExists
    <2> QED BY <2>1
  <1> HIDE DEF p
  <1>7. entry \in Entries(req) /\ entry.offset = c /\ entry.requirements_index = id
    BY <1>2, <1>5 DEF Entries
  <1> HIDE DEF entry
  <1>8. /\ new \in Seq(Entries(req)) /\ Len(new) = n + 1
        /\ \A k \in 1 .. n + 1 :
              \/ k < p /\ k \in 1 .. n /\ new[k] = list[k]
              \/ k = p /\ new[k] = entry
              \/ p < k /\ k - 1 \in 1 .. n /\ new[k] = list[k - 1]
    <2>0. list \in Seq(Entries(req)) /\ p \in 1 .. Len(list) + 1 /\ entry \in Entries(req)
      BY <1>1, <1>6, <1>7
    <2>1. /\ new \in Seq(Entries(req)) /\ Len(new) = Len(list) + 1
          /\ \A k \in 1 .. Len(list) + 1 :
                \/ k < p /\ k \in DOMAIN list /\ new[k] = list[k]
                \/ k = p /\ new[k] = entry
                \/ p < k /\ k - 1 \in DOMAIN list /\ new[k] = list[k - 1]
      BY <2>0, InsertEntryParts
    <2> QED BY <1>1, <2>1
  <1>9. new = Placed(req, list, id)
    BY DEF Placed, new, entry, p, c
  <1>10. p \in 1 .. n + 1
    BY <1>1, <1>6
  <1>11. PlacedAs(req, n, list, id, new, c, p)
    <2> HIDE DEF new
    <2> QED BY <1>4, <1>6, <1>8 DEF PlacedAs, entry
  <1> HIDE DEF new
  <1> QED BY <1>5, <1>9, <1>10, <1>11

\* The list stays in its order.
LEMMA PlacedLayout ==
    ASSUME NEW req, AreRequirements(req), NEW n \in Nat, NEW list \in Layouts(req, n),
           NEW id \in Unplaced(req, list)
    PROVE  Placed(req, list, id) \in Layouts(req, n + 1)
  <1> DEFINE new == Placed(req, list, id)
  <1>1. /\ Len(list) = n /\ DOMAIN list = 1 .. n /\ list \in Seq(Entries(req))
        /\ \A k \in 1 .. n : list[k].offset \in Nat /\ EndOf(req, list[k]) \in Nat
    BY LayoutEntries DEF Layouts
  <1>2. id \in DOMAIN req /\ \A k \in DOMAIN list : list[k].requirements_index # id
    BY DEF Unplaced
  <1>5. PICK c \in Nat, p \in 1 .. n + 1 : PlacedAs(req, n, list, id, new, c, p)
    BY PlacedParts
  <1> HIDE DEF new
  <1>6. InsertPosition(list, c, p)
    BY <1>5 DEF PlacedAs
  <1> DEFINE entry == [offset |-> c, requirements_index |-> id]
  <1>7. entry.offset = c /\ entry.requirements_index = id
    OBVIOUS
  <1>8. /\ new \in Seq(Entries(req)) /\ Len(new) = n + 1
        /\ \A k \in 1 .. n + 1 :
              \/ k < p /\ k \in 1 .. n /\ new[k] = list[k]
              \/ k = p /\ new[k] = entry
              \/ p < k /\ k - 1 \in 1 .. n /\ new[k] = list[k - 1]
    BY <1>5 DEF PlacedAs
  <1> HIDE DEF entry
  <1>9. DOMAIN new = 1 .. n + 1
    BY <1>8
  <1>10. /\ \A k, l \in 1 .. n : k < l => list[k].offset <= list[l].offset
         /\ \A k, l \in 1 .. n :
               list[k].requirements_index = list[l].requirements_index => k = l
    BY <1>1 DEF Layouts
  <1>11. /\ p \in 1 .. n + 1
         /\ \A j \in 1 .. n : j < p => list[j].offset <= c
         /\ \A j \in 1 .. n : p <= j => list[j].offset > c
    BY <1>1, <1>6 DEF InsertPosition
  <1>12. ASSUME NEW k \in 1 .. n + 1, NEW l \in 1 .. n + 1, k < l
         PROVE  new[k].offset <= new[l].offset
    <2>1. CASE l < p
      <3>1. k \in 1 .. n /\ l \in 1 .. n /\ new[k] = list[k] /\ new[l] = list[l]
        BY <1>8, <1>12, <1>11, <2>1
      <3> QED BY <1>10, <1>12, <3>1
    <2>2. CASE l = p
      <3>1. k \in 1 .. n /\ k < p /\ new[k] = list[k] /\ new[l].offset = c
        BY <1>7, <1>8, <1>11, <1>12, <2>2
      <3>2. list[k].offset <= c
        BY <1>11, <3>1
      <3> QED BY <3>1, <3>2
    <2>3. CASE p < l /\ k < p
      <3>1. k \in 1 .. n /\ l - 1 \in 1 .. n /\ new[k] = list[k] /\ new[l] = list[l - 1]
        BY <1>8, <1>11, <1>12, <2>3
      <3>2. list[k].offset <= c /\ list[l - 1].offset > c
        <4>1. k < p /\ p <= l - 1
          BY <1>11, <2>3
        <4> QED BY <1>11, <3>1, <4>1
      <3>3. list[k].offset \in Nat /\ list[l - 1].offset \in Nat
        BY <1>1, <3>1
      <3> QED BY <1>5, <3>1, <3>2, <3>3
    <2>4. CASE p < l /\ k = p
      <3>1. l - 1 \in 1 .. n /\ new[k].offset = c /\ new[l] = list[l - 1]
        BY <1>7, <1>8, <1>11, <1>12, <2>4
      <3>2. list[l - 1].offset > c /\ list[l - 1].offset \in Nat
        BY <1>1, <1>11, <2>4, <3>1
      <3> QED BY <1>5, <3>1, <3>2
    <2>5. CASE p < l /\ p < k
      <3>1. /\ l - 1 \in 1 .. n /\ k - 1 \in 1 .. n /\ k - 1 < l - 1
            /\ new[k] = list[k - 1] /\ new[l] = list[l - 1]
        BY <1>8, <1>11, <1>12, <2>5
      <3> QED BY <1>10, <3>1
    <2> QED BY <1>11, <2>1, <2>2, <2>3, <2>4, <2>5
  <1>13. ASSUME NEW k \in 1 .. n + 1, NEW l \in 1 .. n + 1,
                new[k].requirements_index = new[l].requirements_index
         PROVE  k = l
    <2> DEFINE old(j) == IF j < p THEN j ELSE j - 1
    <2>1. \A j \in 1 .. n + 1 : j # p => old(j) \in 1 .. n /\ new[j] = list[old(j)]
      BY <1>8, <1>11
    <2>2. \A j \in 1 .. n + 1 : j # p => new[j].requirements_index # id
      BY <1>1, <1>2, <2>1
    <2>3. new[p].requirements_index = id
      BY <1>7, <1>8, <1>11
    <2>4. CASE k = p \/ l = p
      BY <1>13, <2>2, <2>3, <2>4
    <2>5. CASE k # p /\ l # p
      <3>1. old(k) = old(l)
        BY <1>10, <1>13, <2>1, <2>5
      <3> QED BY <1>11, <2>5, <3>1
    <2> QED BY <2>4, <2>5
  <1>14. new \in Layouts(req, n + 1)
    BY <1>8, <1>9, <1>12, <1>13 DEF Layouts
  <1> QED BY <1>14 DEF new

\* As long as fewer buffers than there are have a place, one has none.
LEMMA SomeUnplaced ==
    ASSUME NEW req, AreRequirements(req), NEW n \in 0 .. Len(req), NEW list \in Layouts(req, n)
    PROVE  /\ n < Len(req) => Unplaced(req, list) # {}
           /\ n = Len(req) => Unplaced(req, list) = {}
  <1> DEFINE f == [k \in 1 .. n |-> list[k].requirements_index]
             N == Len(req)
  <1>1. N \in Nat /\ n \in Nat /\ n <= N /\ DOMAIN req = 1 .. N
    BY DEF AreRequirements
  <1>2. /\ DOMAIN list = 1 .. n
        /\ \A k \in 1 .. n : list[k].requirements_index \in 1 .. N
        /\ \A k, l \in 1 .. n :
              list[k].requirements_index = list[l].requirements_index => k = l
    <2>1. DOMAIN list = 1 .. n /\ \A k \in 1 .. n : list[k].requirements_index \in DOMAIN req
      BY <1>1, LayoutEntries
    <2>2. \A k, l \in DOMAIN list :
             list[k].requirements_index = list[l].requirements_index => k = l
      BY DEF Layouts
    <2> QED BY <1>1, <2>1, <2>2
  <1>3. f \in Injection(1 .. n, 1 .. N)
    BY <1>2 DEF Injection, IsInjective
  <1>4. /\ IsFiniteSet(1 .. N) /\ Cardinality(1 .. N) = N
        /\ IsFiniteSet(1 .. n) /\ Cardinality(1 .. n) = n
    <2> HIDE DEF N
    <2> QED BY <1>1, PowerOfTwo
  <1>5. n = N => f \in Surjection(1 .. n, 1 .. N)
    BY <1>3, <1>4, FS_Injection
  <1>6. f \in Surjection(1 .. n, 1 .. N) => n = N
    BY <1>3, <1>4, FS_Injection
  <1>7. f \in Surjection(1 .. n, 1 .. N) <=> \A id \in 1 .. N : \E k \in 1 .. n : f[k] = id
    BY <1>2 DEF Surjection
  <1>8. Unplaced(req, list) = {} <=> \A id \in 1 .. N : \E k \in 1 .. n : f[k] = id
    BY <1>1, <1>2 DEF Unplaced
  <1>9. n = N <=> Unplaced(req, list) = {}
    <2> HIDE DEF f, N
    <2> QED BY <1>5, <1>6, <1>7, <1>8
  <1>10. (n < N => Unplaced(req, list) # {}) /\ (n = N => Unplaced(req, list) = {})
    <2> HIDE DEF f, N
    <2> QED BY <1>1, <1>9
  <1> QED BY <1>10 DEF N

\* What holds of the lists of every round holds of the plan.
LEMMA PlanRounds ==
    ASSUME NEW req, AreRequirements(req), NEW Lists,
           \A n \in 0 .. Len(req) : Lists[n] \subseteq Layouts(req, n),
           <<>> \in Lists[0],
           \A n \in 1 .. Len(req) : \A list \in Lists[n - 1] :
              \A id \in Unplaced(req, list) :
                 (\A j \in Unplaced(req, list) \ {id} : Before(req, id, j)) =>
                     Placed(req, list, id) \in Lists[n]
    PROVE  Plan(req) \in Lists[Len(req)]
  <1> DEFINE N == Len(req)
             Round(list) == Placed(req, list, PlacedNext(req, list))
             Rounds(f) == f = [n \in 0 .. N |-> IF n = 0 THEN <<>> ELSE Round(f[n - 1])]
             after == CHOOSE f : Rounds(f)
             step == [n \in 1 .. N |-> [list \in Lists[n - 1] |-> Round(list)]]
  <1>1. N \in Nat
    BY DEF AreRequirements
  <1>2. ASSUME NEW n \in 1 .. N, NEW list \in Lists[n - 1]
        PROVE  Round(list) \in Lists[n]
    <2>1. n - 1 \in Nat /\ n - 1 \in 0 .. N /\ n - 1 < N
      BY <1>1
    <2>2. list \in Layouts(req, n - 1)
      BY <2>1
    <2>3. Unplaced(req, list) # {}
      BY <2>1, <2>2, SomeUnplaced
    <2>4. PlacedNext(req, list) \in Unplaced(req, list)
          /\ \A j \in Unplaced(req, list) \ {PlacedNext(req, list)} :
                Before(req, PlacedNext(req, list), j)
      BY <2>3, NextIsFirst
    <2> QED BY <2>4
  <1>3. <<>> \in Lists[0]
    OBVIOUS
  <1> HIDE DEF Round
  <1>4. PICK g : g = [n \in 0 .. N |-> IF n = 0 THEN <<>> ELSE step[n][g[n - 1]]]
    <2> DEFINE empty == <<>>
    <2>1. 0 \in Int /\ N \in Int /\ 0 <= N
      BY <1>1
    <2> HIDE DEF step, N, empty
    <2>2. \E g : IsRecursive(g, 0, N, empty, step)
      BY ONLY <2>1, Recursion
    <2> QED BY <2>2 DEF empty, IsRecursive
  <1>5. \A n \in 0 .. N : g[n] \in Lists[n]
    <2> DEFINE P == {n \in 0 .. N : g[n] \in Lists[n]}
    <2>1. 0 \in P
      BY <1>1, <1>3, <1>4
    <2>2. ASSUME NEW n \in 0 + 1 .. N, n - 1 \in P PROVE n \in P
      <3>1. n \in 1 .. N /\ n \in 0 .. N /\ n # 0 /\ g[n - 1] \in Lists[n - 1]
        BY <1>1, <2>2
      <3>2. g[n] = Round(g[n - 1])
        BY <1>4, <3>1
      <3> QED BY <1>2, <3>1, <3>2
    <2>3. 0 .. N \subseteq P
      <3>1. \A n \in 0 + 1 .. N : n - 1 \in P => n \in P
        BY <2>2
      <3>2. 0 \in Int /\ N \in Int
        BY <1>1
      <3> HIDE DEF P, N
      <3> QED BY ONLY <2>1, <3>1, <3>2, InductionTo
    <2> QED BY <2>3
  <1>6. Rounds(g)
    <2>1. \A n \in 0 .. N : n # 0 => step[n][g[n - 1]] = Round(g[n - 1])
      <3> SUFFICES ASSUME NEW n \in 0 .. N, n # 0 PROVE step[n][g[n - 1]] = Round(g[n - 1])
        OBVIOUS
      <3>1. n \in 1 .. N /\ n - 1 \in 0 .. N
        BY <1>1
      <3>2. g[n - 1] \in Lists[n - 1]
        BY <1>5, <3>1
      <3> QED BY <3>1, <3>2
    <2> HIDE DEF step
    <2>2. [n \in 0 .. N |-> IF n = 0 THEN <<>> ELSE step[n][g[n - 1]]]
            = [n \in 0 .. N |-> IF n = 0 THEN <<>> ELSE Round(g[n - 1])]
      BY <2>1
    <2> QED BY <1>4, <2>2
  <1>7. after = [n \in 0 .. N |-> IF n = 0 THEN <<>> ELSE Round(after[n - 1])]
    BY <1>6
  <1> HIDE DEF after, step
  <1>8. \A n \in 0 .. N : after[n] \in Lists[n]
    <2> DEFINE P == {n \in 0 .. N : after[n] \in Lists[n]}
    <2>1. 0 \in P
      BY <1>1, <1>3, <1>7
    <2>2. ASSUME NEW n \in 0 + 1 .. N, n - 1 \in P PROVE n \in P
      <3>1. n \in 1 .. N /\ n \in 0 .. N /\ n # 0 /\ after[n - 1] \in Lists[n - 1]
        BY <1>1, <2>2
      <3>2. after[n] = Round(after[n - 1])
        BY <1>7, <3>1
      <3> QED BY <1>2, <3>1, <3>2
    <2>3. 0 .. N \subseteq P
      <3>1. \A n \in 0 + 1 .. N : n - 1 \in P => n \in P
        BY <2>2
      <3>2. 0 \in Int /\ N \in Int
        BY <1>1
      <3> HIDE DEF P, N
      <3> QED BY ONLY <2>1, <3>1, <3>2, InductionTo
    <2> QED BY <2>3
  <1>9. Plan(req) = after[N]
    BY DEF Plan, after, Round
  <1>10. N \in 0 .. N
    BY <1>1
  <1> QED BY <1>8, <1>9, <1>10

\* After the last round every buffer has a place.
LEMMA PlanLayout ==
    ASSUME NEW req, AreRequirements(req)
    PROVE  /\ Plan(req) \in Layouts(req, Len(req))
           /\ Unplaced(req, Plan(req)) = {}
  <1> DEFINE N == Len(req)
             Lists == [n \in 0 .. N |-> Layouts(req, n)]
  <1>1. N \in Nat
    BY DEF AreRequirements
  <1>2. \A n \in 0 .. N : Lists[n] \subseteq Layouts(req, n)
    OBVIOUS
  <1>3. <<>> \in Lists[0]
    BY <1>1 DEF Layouts
  <1>4. ASSUME NEW n \in 1 .. N, NEW list \in Lists[n - 1], NEW id \in Unplaced(req, list)
        PROVE  Placed(req, list, id) \in Lists[n]
    <2>1. n - 1 \in Nat /\ n - 1 \in 0 .. N /\ n \in 0 .. N /\ (n - 1) + 1 = n
      BY <1>1
    <2> QED BY <2>1, PlacedLayout
  <1>5. Plan(req) \in Lists[N]
    <2> HIDE DEF Lists
    <2> QED BY <1>2, <1>3, <1>4, PlanRounds
  <1>6. N \in 0 .. N
    BY <1>1
  <1>7. Plan(req) \in Layouts(req, N)
    BY <1>5, <1>6
  <1> HIDE DEF N
  <1>8. Unplaced(req, Plan(req)) = {}
    BY <1>6, <1>7, SomeUnplaced DEF N
  <1> QED BY <1>7, <1>8 DEF N

\* In a list in the order of the offsets, the place where the walk ends is
\* clear of every buffer that is in use at the same time.
LEMMA WalkEndsClear ==
    ASSUME NEW req, AreRequirements(req), NEW n \in Nat, NEW list \in Layouts(req, n),
           NEW id \in DOMAIN req, NEW c \in Nat,
           NEW k \in 1 .. n + 1, WalkEnds(req, list, id, k, c),
           NEW j \in 1 .. n, Active(req, list[j], id)
    PROVE  \/ EndOf(req, list[j]) <= c
           \/ c + req[id].size <= list[j].offset
  <1>1. req[id].size \in Nat
    BY DEF AreRequirements
  <1>2. Len(list) = n /\ DOMAIN list = 1 .. n /\ \A i \in 1 .. n : list[i].offset \in Nat
    BY LayoutEntries
  <1>3. CASE j < k
    <2>1. PassedEnd(req, list, id, k, c) /\ j \in 1 .. k - 1
      BY <1>3 DEF WalkEnds
    <2> QED BY <2>1 DEF PassedEnd
  <1>4. CASE k <= j
    <2>1. k \in 1 .. n /\ list[k].offset - c >= req[id].size
      BY <1>2, <1>4 DEF WalkEnds, GapBefore
    <2>2. list[k].offset <= list[j].offset
      <3>1. k = j \/ k < j
        BY <1>4
      <3>2. k < j => list[k].offset <= list[j].offset
        BY <1>2, <2>1 DEF Layouts
      <3> QED BY <1>2, <2>1, <3>1, <3>2
    <2> QED BY <1>1, <1>2, <2>1, <2>2
  <1> QED BY <1>3, <1>4

\* Two entries are clear of each other, unless both were placed offline.
Apart(req, e, f) ==
    LET a == req[e.requirements_index]
        b == req[f.requirements_index]
    IN  \/ IsOffline(a) /\ IsOffline(b)
        \/ ~DoesEntryOverlapInTime(a, b)
        \/ EndOf(req, e) <= f.offset
        \/ EndOf(req, f) <= e.offset

\* An offline buffer is where the model wants it.
IsWhereOffline(req, e) ==
    LET r == req[e.requirements_index]
    IN  IsOffline(r) => e.offset = r.offline_offset

\* The lists in which no two buffers are in each other's way, the offline ones
\* before the others.
ClearLayouts(req, n) ==
    {list \in Layouts(req, n) :
        /\ \A k, l \in DOMAIN list : k # l => Apart(req, list[k], list[l])
        /\ \A k \in DOMAIN list : \A id \in Unplaced(req, list) :
              IsOffline(req[id]) => IsOffline(req[list[k].requirements_index])
        /\ \A k \in DOMAIN list : IsWhereOffline(req, list[k])}

\* A round of the planner does not put a buffer in the way of another.
LEMMA PlacedClear ==
    ASSUME NEW req, AreRequirements(req), NEW n \in Nat, NEW list \in ClearLayouts(req, n),
           NEW id \in Unplaced(req, list),
           \A j \in Unplaced(req, list) \ {id} : Before(req, id, j)
    PROVE  Placed(req, list, id) \in ClearLayouts(req, n + 1)
  <1> DEFINE new == Placed(req, list, id)
  <1>1. list \in Layouts(req, n)
    BY DEF ClearLayouts
  <1>2. new \in Layouts(req, n + 1)
    BY <1>1, PlacedLayout
  <1>3. PICK c \in Nat, p \in 1 .. n + 1 : PlacedAs(req, n, list, id, new, c, p)
    BY <1>1, PlacedParts
  <1> HIDE DEF new
  <1>4. /\ Len(list) = n /\ DOMAIN list = 1 .. n /\ id \in DOMAIN req
        /\ DOMAIN new = 1 .. n + 1
        /\ \A k \in 1 .. n : list[k].offset \in Nat /\ EndOf(req, list[k]) \in Nat
    <2>1. n + 1 \in Nat
      OBVIOUS
    <2> QED BY <1>1, <1>2, <2>1, LayoutEntries DEF Unplaced
  <1> DEFINE e == [offset |-> c, requirements_index |-> id]
             old(k) == IF k < p THEN k ELSE k - 1
  <1>5. /\ new[p] = e
        /\ \A k \in 1 .. n + 1 : k # p => old(k) \in 1 .. n /\ new[k] = list[old(k)]
        /\ \A k, l \in 1 .. n + 1 : k # p /\ l # p /\ k # l => old(k) # old(l)
    BY <1>3 DEF PlacedAs
  <1>6. e.offset = c /\ e.requirements_index = id /\ EndOf(req, e) = c + req[id].size
    BY DEF EndOf
  <1> HIDE DEF e, old
  <1>7. ASSUME NEW j \in 1 .. n PROVE Apart(req, e, list[j]) /\ Apart(req, list[j], e)
    <2>1. CASE IsOffline(req[id])
      <3>1. IsOffline(req[list[j].requirements_index])
        BY <1>4, <2>1 DEF ClearLayouts
      <3> QED BY <1>6, <2>1, <3>1 DEF Apart
    <2>2. CASE ~IsOffline(req[id])
      <3>1. PICK k \in 1 .. n + 1 : WalkEnds(req, list, id, k, c)
        BY <1>3, <1>4, <2>2 DEF PlacedAs, CandidateOffset
      <3>2. CASE Active(req, list[j], id)
        <4>1. EndOf(req, list[j]) <= c \/ c + req[id].size <= list[j].offset
          BY <1>1, <1>4, <3>1, <3>2, WalkEndsClear
        <4> QED BY <1>6, <4>1 DEF Apart
      <3>3. CASE ~Active(req, list[j], id)
        BY <1>6, <3>3 DEF Active, Apart, DoesEntryOverlapInTime
      <3> QED BY <3>2, <3>3
    <2> QED BY <2>1, <2>2
  <1>8. ASSUME NEW k \in 1 .. n + 1, NEW l \in 1 .. n + 1, k # l
        PROVE  Apart(req, new[k], new[l])
    <2>1. CASE k = p
      BY <1>5, <1>7, <1>8, <2>1
    <2>2. CASE l = p
      BY <1>5, <1>7, <1>8, <2>2
    <2>3. CASE k # p /\ l # p
      <3>1. /\ old(k) \in 1 .. n /\ old(l) \in 1 .. n /\ old(k) # old(l)
            /\ new[k] = list[old(k)] /\ new[l] = list[old(l)]
        BY <1>5, <1>8, <2>3
      <3> QED BY <1>4, <3>1 DEF ClearLayouts
    <2> QED BY <2>1, <2>2, <2>3
  <1>9. ASSUME NEW k \in 1 .. n + 1, NEW j \in Unplaced(req, new), IsOffline(req[j])
        PROVE  IsOffline(req[new[k].requirements_index])
    <2>1. j \in Unplaced(req, list) \ {id}
      <3>1. j # id
        BY <1>4, <1>5, <1>6 DEF Unplaced
      <3>2. \A i \in 1 .. n : \E x \in 1 .. n + 1 : new[x] = list[i]
        <4> SUFFICES ASSUME NEW i \in 1 .. n PROVE \E x \in 1 .. n + 1 : new[x] = list[i]
          OBVIOUS
        <4>1. CASE i < p
          <5>1. i \in 1 .. n + 1 /\ i # p /\ old(i) = i
            BY <4>1 DEF old
          <5> QED BY <1>5, <5>1
        <4>2. CASE ~(i < p)
          <5>1. i + 1 \in 1 .. n + 1 /\ i + 1 # p /\ old(i + 1) = i
            BY <4>2 DEF old
          <5> QED BY <1>5, <5>1
        <4> QED BY <4>1, <4>2
      <3> QED BY <1>4, <3>1, <3>2 DEF Unplaced
    <2>2. IsOffline(req[id])
      BY <1>9, <2>1 DEF Before
    <2>3. CASE k = p
      BY <1>5, <1>6, <2>2, <2>3
    <2>4. CASE k # p
      BY <1>4, <1>5, <1>9, <2>1, <2>4 DEF ClearLayouts
    <2> QED BY <2>3, <2>4
  <1>10. ASSUME NEW k \in 1 .. n + 1 PROVE IsWhereOffline(req, new[k])
    <2>1. IsWhereOffline(req, e)
      BY <1>3, <1>6 DEF PlacedAs, CandidateOffset, IsWhereOffline
    <2>2. \A j \in 1 .. n : IsWhereOffline(req, list[j])
      BY <1>4 DEF ClearLayouts
    <2> QED BY <1>5, <2>1, <2>2
  <1>11. new \in ClearLayouts(req, n + 1)
    BY <1>2, <1>4, <1>8, <1>9, <1>10 DEF ClearLayouts
  <1> QED BY <1>11 DEF new

\* No two buffers of a plan are in each other's way, but for offline ones.
LEMMA PlanIsClear ==
    ASSUME NEW req, AreRequirements(req)
    PROVE  /\ \A k, l \in DOMAIN Plan(req) : k # l => Apart(req, Plan(req)[k], Plan(req)[l])
           /\ \A k \in DOMAIN Plan(req) : IsWhereOffline(req, Plan(req)[k])
  <1> DEFINE N == Len(req)
             Lists == [n \in 0 .. N |-> ClearLayouts(req, n)]
  <1>1. N \in Nat
    BY DEF AreRequirements
  <1>2. \A n \in 0 .. N : Lists[n] \subseteq Layouts(req, n)
    BY DEF ClearLayouts
  <1>3. <<>> \in Lists[0]
    BY <1>1 DEF ClearLayouts, Layouts
  <1>4. ASSUME NEW n \in 1 .. N, NEW list \in Lists[n - 1], NEW id \in Unplaced(req, list),
               \A j \in Unplaced(req, list) \ {id} : Before(req, id, j)
        PROVE  Placed(req, list, id) \in Lists[n]
    <2>1. n - 1 \in Nat /\ n - 1 \in 0 .. N /\ n \in 0 .. N /\ (n - 1) + 1 = n
      BY <1>1
    <2> QED BY <1>4, <2>1, PlacedClear
  <1>5. Plan(req) \in Lists[N]
    <2> HIDE DEF Lists
    <2> QED BY <1>2, <1>3, <1>4, PlanRounds
  <1>6. N \in 0 .. N
    BY <1>1
  <1> QED BY <1>5, <1>6 DEF ClearLayouts

\* The plan ends where its last buffer does.
LEMMA PlanSizeCovers ==
    ASSUME NEW req, AreRequirements(req), NEW list, list = Plan(req)
    PROVE  /\ PlanSize(req, list) \in Nat
           /\ \A k \in DOMAIN list : EndOf(req, list[k]) <= PlanSize(req, list)
  <1> DEFINE N == Len(req)
             S == Candidates(req, list)
             f == [k \in 1 .. N |-> EndOf(req, list[k])]
             Most(x) == x \in S /\ \A y \in S : y <= x
  <1>1. N \in Nat
    BY DEF AreRequirements
  <1>2. list \in Layouts(req, N)
    BY PlanLayout
  <1>3. DOMAIN list = 1 .. N /\ \A k \in 1 .. N : EndOf(req, list[k]) \in Nat
    BY <1>1, <1>2, LayoutEntries
  <1>4. PICK b \in Nat : \A k \in 1 .. N : f[k] <= b
    <2>1. \A k \in 1 .. N : f[k] \in Nat
      BY <1>3
    <2> HIDE DEF f, N
    <2> QED BY <1>1, <2>1, Bounded
  <1>5. S \in SUBSET Nat /\ S # {} /\ \A x \in S : x <= b
    BY <1>3, <1>4 DEF Candidates
  <1>6. \E x \in S : \A y \in S : y <= x
    <2> HIDE DEF S
    <2> QED BY <1>5, Greatest
  <1>7. PlanSize(req, list) = CHOOSE x \in S : \A y \in S : y <= x
    BY <1>5 DEF PlanSize, MaxOr
  <1>8. PlanSize(req, list) \in S /\ \A y \in S : y <= PlanSize(req, list)
    <2> HIDE DEF S
    <2> QED BY <1>6, <1>7
  <1>9. \A k \in DOMAIN list : EndOf(req, list[k]) \in S
    BY DEF Candidates
  <1> QED BY <1>5, <1>8, <1>9

-----------------------------------------------------------------------------
(* What the model asks for.                                                *)

\* Sequences of requests put one behind the other are a sequence of requests.
LEMMA FlattenType ==
    ASSUME NEW S, NEW seqs \in Seq(Seq(S))
    PROVE  FlattenSeq(seqs) \in Seq(S)
  <1> DEFINE N == Len(seqs)
             Rule(f) == f = [i \in 1 .. N |-> IF i = 1 THEN seqs[i] ELSE f[i - 1] \o seqs[i]]
             flatten == CHOOSE f : Rule(f)
             step == [i \in 1 .. N |-> [s \in Seq(S) |-> s \o seqs[i]]]
             first == seqs[1]
  <1>1. N \in Nat /\ \A i \in 1 .. N : seqs[i] \in Seq(S)
    OBVIOUS
  <1>2. CASE N = 0
    <2>1. FlattenSeq(seqs) = seqs /\ seqs = <<>>
      BY <1>2 DEF FlattenSeq
    <2> QED BY <2>1
  <1>3. CASE N # 0
    <2>1. PICK g : IsRecursive(g, 1, N, first, step)
      <3>1. 1 \in Int /\ N \in Int /\ 1 <= N
        BY <1>1, <1>3
      <3> HIDE DEF step, N, first
      <3> QED BY ONLY <3>1, Recursion
    <2>2. \A i \in 1 .. N : \A s \in Seq(S) : step[i][s] = s \o seqs[i] /\ s \o seqs[i] \in Seq(S)
      BY <1>1
    <2> HIDE DEF step
    <2>3. \A i \in 1 .. N : g[i] = IF i = 1 THEN seqs[1] ELSE step[i][g[i - 1]]
      <3> HIDE DEF N
      <3> QED BY <2>1 DEF IsRecursive, first
    <2>4. 1 .. N \subseteq {i \in 1 .. N : g[i] \in Seq(S)}
      <3> DEFINE P == {i \in 1 .. N : g[i] \in Seq(S)}
      <3>1. 1 \in P
        BY <1>1, <1>3, <2>3
      <3>2. \A i \in 1 + 1 .. N : i - 1 \in P => i \in P
        <4> SUFFICES ASSUME NEW i \in 1 + 1 .. N, i - 1 \in P PROVE i \in P
          OBVIOUS
        <4>1. i \in 1 .. N /\ i # 1 /\ g[i - 1] \in Seq(S)
          BY <1>1
        <4>2. g[i] = step[i][g[i - 1]]
          BY <2>3, <4>1
        <4>3. step[i][g[i - 1]] \in Seq(S)
          <5>1. step[i][g[i - 1]] = g[i - 1] \o seqs[i] /\ g[i - 1] \o seqs[i] \in Seq(S)
            BY ONLY <2>2, <4>1, Zenon
          <5> QED BY ONLY <5>1, Zenon
        <4> QED BY <4>1, <4>2, <4>3
      <3>3. 1 \in Int /\ N \in Int
        BY <1>1
      <3> HIDE DEF P, N
      <3>4. 1 .. N \subseteq P
        BY ONLY <3>1, <3>2, <3>3, InductionTo
      <3> QED BY <3>4 DEF P
    <2>5. Rule(g)
      <3>1. \A i \in 1 .. N : i # 1 => step[i][g[i - 1]] = g[i - 1] \o seqs[i]
        <4> SUFFICES ASSUME NEW i \in 1 .. N, i # 1
                     PROVE  step[i][g[i - 1]] = g[i - 1] \o seqs[i]
          OBVIOUS
        <4>1. i - 1 \in 1 .. N
          BY <1>1
        <4> QED BY <2>2, <2>4, <4>1
      <3>2. g = [i \in 1 .. N |-> IF i = 1 THEN seqs[1] ELSE step[i][g[i - 1]]]
        BY <2>1 DEF IsRecursive, first
      <3>3. [i \in 1 .. N |-> IF i = 1 THEN seqs[1] ELSE step[i][g[i - 1]]]
              = [i \in 1 .. N |-> IF i = 1 THEN seqs[i] ELSE g[i - 1] \o seqs[i]]
        BY <3>1
      <3> QED BY <3>2, <3>3
    <2>6. flatten = [i \in 1 .. N |-> IF i = 1 THEN seqs[i] ELSE flatten[i - 1] \o seqs[i]]
      BY <2>5
    <2>7. FlattenSeq(seqs) = flatten[N]
      BY <1>3 DEF FlattenSeq
    <2> HIDE DEF flatten
    <2> DEFINE P == {i \in 1 .. N : flatten[i] \in Seq(S)}
    <2>8. 1 \in P
      BY <1>1, <1>3, <2>6
    <2>9. \A i \in 1 + 1 .. N : i - 1 \in P => i \in P
      <3> SUFFICES ASSUME NEW i \in 1 + 1 .. N, i - 1 \in P PROVE i \in P
        OBVIOUS
      <3>1. i \in 1 .. N /\ i # 1 /\ flatten[i - 1] \in Seq(S)
        BY <1>1
      <3>2. flatten[i] = flatten[i - 1] \o seqs[i]
        BY <2>6, <3>1
      <3> QED BY <2>2, <3>1, <3>2
    <2>10. 1 .. N \subseteq P
      <3>1. 1 \in Int /\ N \in Int
        BY <1>1
      <3> HIDE DEF P, N
      <3> QED BY ONLY <2>8, <2>9, <3>1, InductionTo
    <2>11. N \in 1 .. N
      BY <1>1, <1>3
    <2> HIDE DEF N
    <2> QED BY <2>7, <2>10, <2>11
  <1> QED BY <1>2, <1>3

\* The tensors of the first n that need a place, each once.
PlannedUpTo(m, n) ==
    {s \in Seq(DOMAIN m.tensors) :
        /\ \A k \in DOMAIN s : s[k] \in 1 .. n /\ NeedsAllocating(m, s[k])
        /\ \A k, l \in DOMAIN s : s[k] = s[l] => k = l
        /\ \A t \in 1 .. n : NeedsAllocating(m, t) => \E k \in DOMAIN s : s[k] = t}

\* The tensors planned up to one tensor are those before it, and perhaps itself.
LEMMA OnePlannedMore ==
    ASSUME NEW m, Len(m.tensors) \in Nat, DOMAIN m.tensors = 1 .. Len(m.tensors),
           NEW n \in 1 .. Len(m.tensors), NEW s \in PlannedUpTo(m, n - 1)
    PROVE  (IF NeedsAllocating(m, n) THEN Append(s, n) ELSE s) \in PlannedUpTo(m, n)
  <1>1. /\ s \in Seq(DOMAIN m.tensors) /\ n \in DOMAIN m.tensors
        /\ \A k \in DOMAIN s : s[k] \in 1 .. n - 1 /\ NeedsAllocating(m, s[k])
        /\ \A k, l \in DOMAIN s : s[k] = s[l] => k = l
        /\ \A t \in 1 .. n - 1 : NeedsAllocating(m, t) => \E k \in DOMAIN s : s[k] = t
    BY DEF PlannedUpTo
  <1>2. \A t \in 1 .. n : t \in 1 .. n - 1 \/ t = n
    OBVIOUS
  <1>3. CASE ~NeedsAllocating(m, n)
    BY <1>1, <1>2, <1>3 DEF PlannedUpTo
  <1>4. CASE NeedsAllocating(m, n)
    <2> DEFINE r == Append(s, n)
    <2>1. /\ r \in Seq(DOMAIN m.tensors) /\ Len(s) \in Nat
          /\ DOMAIN s = 1 .. Len(s) /\ DOMAIN r = 1 .. Len(s) + 1
          /\ r[Len(s) + 1] = n /\ \A k \in DOMAIN s : r[k] = s[k]
      BY <1>1
    <2> HIDE DEF r
    <2>2. \A k \in DOMAIN r : k \in DOMAIN s \/ k = Len(s) + 1
      BY <2>1
    <2>3. ASSUME NEW k \in DOMAIN r PROVE r[k] \in 1 .. n /\ NeedsAllocating(m, r[k])
      <3>1. CASE k \in DOMAIN s
        <4>1. r[k] = s[k] /\ s[k] \in 1 .. n - 1 /\ NeedsAllocating(m, s[k])
          BY <1>1, <2>1, <3>1
        <4> QED BY <4>1
      <3>2. CASE k = Len(s) + 1
        BY <1>4, <2>1, <3>2
      <3> QED BY <2>2, <3>1, <3>2
    <2>4. \A k, l \in DOMAIN r : r[k] = r[l] => k = l
      <3>1. \A k \in DOMAIN s : r[k] # n
        BY <1>1, <2>1
      <3> QED BY <1>1, <2>1, <2>2, <3>1
    <2>5. ASSUME NEW t \in 1 .. n, NeedsAllocating(m, t) PROVE \E k \in DOMAIN r : r[k] = t
      <3>1. CASE t = n
        <4>1. Len(s) + 1 \in DOMAIN r
          BY <2>1
        <4> QED BY <2>1, <3>1, <4>1
      <3>2. CASE t # n
        <4>1. PICK k \in DOMAIN s : s[k] = t
          BY <1>1, <1>2, <2>5, <3>2
        <4> QED BY <2>1, <4>1
      <3> QED BY <3>1, <3>2
    <2>6. r \in PlannedUpTo(m, n)
      BY <2>1, <2>3, <2>4, <2>5 DEF PlannedUpTo
    <2> QED BY <1>4, <2>6 DEF r
  <1> QED BY <1>3, <1>4

\* The planner is asked to place every tensor that needs it, once.
LEMMA PlannedTensorsType ==
    ASSUME NEW m, Len(m.tensors) \in Nat, DOMAIN m.tensors = 1 .. Len(m.tensors)
    PROVE  PlannedTensors(m) \in PlannedUpTo(m, Len(m.tensors))
  <1> DEFINE N == Len(m.tensors)
             Following(s, n) == IF NeedsAllocating(m, n) THEN Append(s, n) ELSE s
             Rule(f) == f = [n \in 0 .. N |-> IF n = 0 THEN <<>> ELSE Following(f[n - 1], n)]
             among == CHOOSE f : Rule(f)
             step == [n \in 1 .. N |-> [s \in PlannedUpTo(m, n - 1) |-> Following(s, n)]]
             empty == <<>>
  <1>1. N \in Nat
    OBVIOUS
  <1>2. PICK g : IsRecursive(g, 0, N, empty, step)
    <2>1. 0 \in Int /\ N \in Int /\ 0 <= N
      BY <1>1
    <2> HIDE DEF step, N, empty
    <2> QED BY ONLY <2>1, Recursion
  <1>3. empty \in PlannedUpTo(m, 0)
    BY DEF PlannedUpTo
  <1>4. \A n \in 1 .. N : \A s \in PlannedUpTo(m, n - 1) :
           step[n][s] = Following(s, n) /\ Following(s, n) \in PlannedUpTo(m, n)
    <2> SUFFICES ASSUME NEW n \in 1 .. N, NEW s \in PlannedUpTo(m, n - 1)
                 PROVE  step[n][s] = Following(s, n) /\ Following(s, n) \in PlannedUpTo(m, n)
      OBVIOUS
    <2>1. step[n][s] = Following(s, n)
      <3> HIDE DEF Following, N
      <3> QED OBVIOUS
    <2> QED BY <2>1, OnePlannedMore
  <1> HIDE DEF step, Following
  <1>5. \A n \in 0 .. N : g[n] = IF n = 0 THEN empty ELSE step[n][g[n - 1]]
    <2> HIDE DEF N, empty
    <2> QED BY <1>2 DEF IsRecursive
  <1>6. 0 .. N \subseteq {n \in 0 .. N : g[n] \in PlannedUpTo(m, n)}
    <2> DEFINE P == {n \in 0 .. N : g[n] \in PlannedUpTo(m, n)}
    <2>1. 0 \in P
      <3>1. 0 \in 0 .. N
        BY <1>1
      <3> HIDE DEF empty
      <3> QED BY <1>3, <1>5, <3>1
    <2>2. \A n \in 0 + 1 .. N : n - 1 \in P => n \in P
      <3> SUFFICES ASSUME NEW n \in 0 + 1 .. N, n - 1 \in P PROVE n \in P
        OBVIOUS
      <3>1. n \in 1 .. N /\ n \in 0 .. N /\ n # 0 /\ g[n - 1] \in PlannedUpTo(m, n - 1)
        BY <1>1
      <3>2. g[n] = step[n][g[n - 1]]
        BY <1>5, <3>1
      <3> QED BY <1>4, <3>1, <3>2
    <2>3. 0 \in Int /\ N \in Int
      BY <1>1
    <2> HIDE DEF P, N
    <2>4. 0 .. N \subseteq P
      BY ONLY <2>1, <2>2, <2>3, InductionTo
    <2> QED BY <2>4 DEF P
  <1>7. Rule(g)
    <2>1. \A n \in 0 .. N : n # 0 => step[n][g[n - 1]] = Following(g[n - 1], n)
      <3> SUFFICES ASSUME NEW n \in 0 .. N, n # 0
                   PROVE  step[n][g[n - 1]] = Following(g[n - 1], n)
        OBVIOUS
      <3>1. n \in 1 .. N /\ n - 1 \in 0 .. N
        BY <1>1
      <3> QED BY <1>4, <1>6, <3>1
    <2>2. g = [n \in 0 .. N |-> IF n = 0 THEN empty ELSE step[n][g[n - 1]]]
      BY <1>2 DEF IsRecursive
    <2>3. [n \in 0 .. N |-> IF n = 0 THEN empty ELSE step[n][g[n - 1]]]
            = [n \in 0 .. N |-> IF n = 0 THEN <<>> ELSE Following(g[n - 1], n)]
      BY <2>1
    <2> QED BY <2>2, <2>3
  <1>8. among = [n \in 0 .. N |-> IF n = 0 THEN <<>> ELSE Following(among[n - 1], n)]
    BY <1>7
  <1>9. PlannedTensors(m) = among[N]
    BY DEF PlannedTensors, Following
  <1> HIDE DEF among
  <1> DEFINE P == {n \in 0 .. N : among[n] \in PlannedUpTo(m, n)}
  <1>10. 0 \in P
    <2>1. 0 \in 0 .. N
      BY <1>1
    <2>2. among[0] = empty
      BY <1>8, <2>1
    <2> HIDE DEF empty
    <2> QED BY <1>3, <2>1, <2>2
  <1>11. \A n \in 0 + 1 .. N : n - 1 \in P => n \in P
    <2> SUFFICES ASSUME NEW n \in 0 + 1 .. N, n - 1 \in P PROVE n \in P
      OBVIOUS
    <2>1. n \in 1 .. N /\ n \in 0 .. N /\ n # 0 /\ among[n - 1] \in PlannedUpTo(m, n - 1)
      BY <1>1
    <2>2. among[n] = Following(among[n - 1], n)
      BY <1>8, <2>1
    <2> QED BY <1>4, <2>1, <2>2
  <1>12. 0 .. N \subseteq P
    <2>1. 0 \in Int /\ N \in Int
      BY <1>1
    <2> HIDE DEF P, N
    <2> QED BY ONLY <1>10, <1>11, <2>1, InductionTo
  <1>13. N \in 0 .. N
    BY <1>1
  <1> QED BY <1>9, <1>12, <1>13

\* The plan has an entry for every buffer, and the buffer ends within the plan.
LEMMA PlaceOfBuffer ==
    ASSUME NEW req, AreRequirements(req), NEW id \in DOMAIN req,
           NEW e, e = CHOOSE x \in ToSet(Plan(req)) : x.requirements_index = id
    PROVE  /\ e \in ToSet(Plan(req)) /\ e.requirements_index = id
           /\ e.offset \in Nat
           /\ e.offset + req[id].size <= PlanSize(req, Plan(req))
  <1> DEFINE list == Plan(req)
  <1>1. Len(req) \in Nat /\ list \in Layouts(req, Len(req)) /\ Unplaced(req, list) = {}
    BY PlanLayout DEF AreRequirements
  <1> HIDE DEF list
  <1>2. /\ DOMAIN list = 1 .. Len(req)
        /\ \A k \in 1 .. Len(req) : list[k].offset \in Nat
    BY <1>1, LayoutEntries
  <1>3. \E x \in ToSet(list) : x.requirements_index = id
    BY <1>1 DEF Unplaced, ToSet
  <1>4. e \in ToSet(list) /\ e.requirements_index = id
    BY <1>3 DEF list
  <1>5. PICK k \in DOMAIN list : e = list[k]
    BY <1>4 DEF ToSet
  <1>6. EndOf(req, list[k]) <= PlanSize(req, list)
    BY PlanSizeCovers DEF list
  <1> QED BY <1>2, <1>4, <1>5, <1>6 DEF list, EndOf

\* What a request and a tensor are made of.
RequestRecord ==
    [bytes : Nat, node_idx : Nat \cup {kUnassignedScratchBufferRequestIndex}, op : Nat]

\* The parts of a model and their types.
LEMMA ModelFacts ==
    ASSUME NEW m \in Models
    PROVE  /\ m.tensors \in Seq(TensorRecord) /\ m.operators \in Seq(OperatorRecord)
           /\ Len(m.tensors) \in Nat /\ DOMAIN m.tensors = 1 .. Len(m.tensors)
           /\ Len(m.operators) \in Nat \ {0} /\ DOMAIN m.operators = 1 .. Len(m.operators)
           /\ m.inputs \in Seq(DOMAIN m.tensors) /\ m.outputs \in Seq(DOMAIN m.tensors)
           /\ \A t \in DOMAIN m.tensors : m.tensors[t] \in TensorRecord
           /\ \A op \in DOMAIN m.operators : m.operators[op] \in OperatorRecord
  <1>1. IsModel(m)
    BY ModelsAssumption
  <1>2. m.tensors \in Seq(TensorRecord) /\ m.operators \in Seq(OperatorRecord) /\ m.operators # <<>>
    BY <1>1 DEF IsModel
  <1>3. m.inputs \in Seq(DOMAIN m.tensors) /\ m.outputs \in Seq(DOMAIN m.tensors)
    BY <1>1 DEF IsModel
  <1>4. Len(m.tensors) \in Nat /\ DOMAIN m.tensors = 1 .. Len(m.tensors)
    BY <1>2
  <1>5. Len(m.operators) \in Nat \ {0} /\ DOMAIN m.operators = 1 .. Len(m.operators)
    BY <1>2
  <1>6. \A t \in DOMAIN m.tensors : m.tensors[t] \in TensorRecord
    BY <1>2
  <1>7. \A op \in DOMAIN m.operators : m.operators[op] \in OperatorRecord
    BY <1>2
  <1> QED BY <1>2, <1>3, <1>4, <1>5, <1>6, <1>7

\* The sizes and alignments of the allocator are numbers.
LEMMA AllocatorNumbers ==
    /\ kBufferAlignment \in Alignments /\ kBufferAlignment \in Nat \ {0}
    /\ kStructAlignment \in Alignments /\ kStructAlignment \in Nat \ {0}
    /\ kMaxScratchBuffersPerOp \in Nat /\ RequestSize \in Nat /\ HandleSize \in Nat
    /\ AllocationInfoSize \in Nat /\ BufferHead \in Nat /\ AddressSpace \in Nat \ {0}
    /\ \A s \in Sizes : s \in Nat
  BY AllocatorAssumption, AlignmentsAssumption, ArenaAssumption, SizesAssumption

\* The planner is given the planned tensors and then the scratch buffers, with
\* their aligned sizes and their lifetimes.
LEMMA RequirementsGiven ==
    ASSUME NEW m \in Models, requests \in Seq(RequestRecord)
    PROVE  LET planned == PlannedTensors(m)
               req == Requirements(m)
           IN  /\ planned \in PlannedUpTo(m, Len(m.tensors))
               /\ planned \in Seq(DOMAIN m.tensors)
               /\ Len(req) = Len(planned) + Len(requests)
               /\ AreRequirements(req)
               /\ \A n \in DOMAIN planned :
                     /\ n \in DOMAIN req
                     /\ req[n].size = AlignedBytes(m.tensors[planned[n]].bytes)
                     /\ req[n].first_time_used = FirstCreated(m, planned[n])
                     /\ req[n].last_time_used = LastUsed(m, planned[n])
                     /\ req[n].offline_offset = m.tensors[planned[n]].offline_offset
               /\ \A n \in DOMAIN requests :
                     /\ Len(planned) + n \in DOMAIN req
                     /\ req[Len(planned) + n].size = AlignedBytes(requests[n].bytes)
                     /\ req[Len(planned) + n].first_time_used = requests[n].node_idx
                     /\ req[Len(planned) + n].last_time_used = requests[n].node_idx
                     /\ req[Len(planned) + n].offline_offset = kOnlinePlannedBuffer
  <1> DEFINE planned == PlannedTensors(m)
             a == [n \in DOMAIN planned |->
                     LET t == planned[n] IN
                     [size |-> AlignedBytes(m.tensors[t].bytes),
                      first_time_used |-> FirstCreated(m, t),
                      last_time_used |-> LastUsed(m, t),
                      offline_offset |-> m.tensors[t].offline_offset]]
             b == [n \in DOMAIN requests |->
                     [size |-> AlignedBytes(requests[n].bytes),
                      first_time_used |-> requests[n].node_idx,
                      last_time_used |-> requests[n].node_idx,
                      offline_offset |-> kOnlinePlannedBuffer]]
             R == {a[n] : n \in DOMAIN a} \cup {b[n] : n \in DOMAIN b}
  <1>0. planned \in PlannedUpTo(m, Len(m.tensors))
    BY ModelFacts, PlannedTensorsType
  <1>1. planned \in Seq(DOMAIN m.tensors)
    BY <1>0 DEF PlannedUpTo
  <1>2. Requirements(m) = a \o b
    BY DEF Requirements
  <1> HIDE DEF planned
  <1>3. ASSUME NEW n \in DOMAIN planned
        PROVE  /\ a[n].size = AlignedBytes(m.tensors[planned[n]].bytes)
               /\ a[n].first_time_used = FirstCreated(m, planned[n])
               /\ a[n].last_time_used = LastUsed(m, planned[n])
               /\ a[n].offline_offset = m.tensors[planned[n]].offline_offset
               /\ a[n].size \in Nat
               /\ IsOffline(a[n]) => a[n].offline_offset \in Nat
    <2>1. planned[n] \in DOMAIN m.tensors
      BY <1>1
    <2>2. m.tensors[planned[n]] \in TensorRecord
      BY <2>1, ModelFacts
    <2>3. AlignedBytes(m.tensors[planned[n]].bytes) \in Nat
      BY <2>2, AllocatorNumbers, AlignUpAbove DEF TensorRecord, AlignedBytes
    <2> QED BY <2>2, <2>3 DEF TensorRecord, IsOffline
  <1>4. ASSUME NEW n \in DOMAIN requests
        PROVE  /\ b[n].size = AlignedBytes(requests[n].bytes)
               /\ b[n].first_time_used = requests[n].node_idx
               /\ b[n].last_time_used = requests[n].node_idx
               /\ b[n].offline_offset = kOnlinePlannedBuffer
               /\ b[n].size \in Nat
               /\ ~IsOffline(b[n])
    <2>1. requests[n] \in RequestRecord
      OBVIOUS
    <2>2. AlignedBytes(requests[n].bytes) \in Nat
      BY <2>1, AllocatorNumbers, AlignUpAbove DEF RequestRecord, AlignedBytes
    <2> QED BY <2>2 DEF IsOffline
  <1>5. DOMAIN a = 1 .. Len(planned) /\ DOMAIN b = 1 .. Len(requests)
    BY <1>1
  <1>6. Len(planned) \in Nat /\ Len(requests) \in Nat
    BY <1>1
  <1> HIDE DEF a, b
  <1>7. a \in Seq(R) /\ b \in Seq(R) /\ Len(a) = Len(planned) /\ Len(b) = Len(requests)
    <2>1. a = [n \in 1 .. Len(planned) |-> a[n]] /\ \A n \in 1 .. Len(planned) : a[n] \in R
      BY <1>5 DEF a
    <2>2. b = [n \in 1 .. Len(requests) |-> b[n]] /\ \A n \in 1 .. Len(requests) : b[n] \in R
      BY <1>5 DEF b
    <2> HIDE DEF R
    <2> QED BY <1>6, <2>1, <2>2
  <1> HIDE DEF R
  <1>8. /\ a \o b \in Seq(R) /\ Len(a \o b) = Len(planned) + Len(requests)
        /\ \A n \in 1 .. Len(planned) : (a \o b)[n] = a[n]
        /\ \A n \in 1 .. Len(requests) : (a \o b)[Len(planned) + n] = b[n]
    BY <1>6, <1>7
  <1>9. \A n \in 1 .. Len(planned) + Len(requests) :
           n \in 1 .. Len(planned) \/ n - Len(planned) \in 1 .. Len(requests)
    BY <1>6
  <1> DEFINE req == a \o b
  <1>10. Len(req) \in Nat /\ DOMAIN req = 1 .. Len(req)
    BY <1>8
  <1> HIDE DEF req
  <1>11. ASSUME NEW n \in DOMAIN req
         PROVE  req[n].size \in Nat /\ (IsOffline(req[n]) => req[n].offline_offset \in Nat)
    <2>1. CASE n \in 1 .. Len(planned)
      <3>1. req[n] = a[n] /\ n \in DOMAIN planned
        BY <1>1, <1>8, <2>1 DEF req
      <3> QED BY <1>3, <3>1
    <2>2. CASE n - Len(planned) \in 1 .. Len(requests)
      <3>1. n = Len(planned) + (n - Len(planned))
        BY <1>6, <1>10
      <3>2. req[n] = b[n - Len(planned)] /\ n - Len(planned) \in DOMAIN requests
        BY <1>8, <2>2, <3>1 DEF req
      <3> QED BY <1>4, <3>2
    <2> QED BY <1>8, <1>9, <1>10, <2>1, <2>2 DEF req
  <1>12. AreRequirements(req)
    BY <1>10, <1>11 DEF AreRequirements
  <1>13. ASSUME NEW n \in DOMAIN planned
         PROVE  /\ n \in DOMAIN req
                /\ req[n].size = AlignedBytes(m.tensors[planned[n]].bytes)
                /\ req[n].first_time_used = FirstCreated(m, planned[n])
                /\ req[n].last_time_used = LastUsed(m, planned[n])
                /\ req[n].offline_offset = m.tensors[planned[n]].offline_offset
    <2>1. n \in 1 .. Len(planned) /\ n \in 1 .. Len(planned) + Len(requests)
      BY <1>1, <1>6
    <2>2. Len(req) = Len(planned) + Len(requests) /\ req[n] = a[n]
      BY <1>8, <2>1 DEF req
    <2> QED BY <1>3, <1>10, <2>1, <2>2
  <1>14. ASSUME NEW n \in DOMAIN requests
         PROVE  /\ Len(planned) + n \in DOMAIN req
                /\ req[Len(planned) + n].size = AlignedBytes(requests[n].bytes)
                /\ req[Len(planned) + n].first_time_used = requests[n].node_idx
                /\ req[Len(planned) + n].last_time_used = requests[n].node_idx
                /\ req[Len(planned) + n].offline_offset = kOnlinePlannedBuffer
    <2>1. n \in 1 .. Len(requests) /\ Len(planned) + n \in 1 .. Len(planned) + Len(requests)
      BY <1>6
    <2>2. Len(req) = Len(planned) + Len(requests) /\ req[Len(planned) + n] = b[n]
      BY <1>8, <2>1 DEF req
    <2> QED BY <1>4, <1>10, <2>1, <2>2
  <1>15. Requirements(m) = req /\ Len(req) = Len(planned) + Len(requests)
    BY <1>2, <1>8 DEF req
  <1> QED BY <1>0, <1>1, <1>12, <1>13, <1>14, <1>15 DEF planned

-----------------------------------------------------------------------------
(* The inductive invariant of the interpreters.                            *)

Steps ==
    {"start", "eval_tensors", "nodes", "op_data", "init", "prepare", "adjust_head",
     "handles", "info", "plan", "commit", "plan_head", "variables", "input_array",
     "inputs", "output_array", "outputs", "tensor", "reset_variables", "invoke"}
OverOperators == {"op_data", "init", "prepare", "adjust_head", "invoke"}
Preparing == {"eval_tensors", "nodes", "op_data", "init"}
Planning == {"handles", "info", "plan", "commit"}
Allocating ==
    Preparing \cup {"prepare", "adjust_head"} \cup Planning \cup {"plan_head", "variables"}

Calls ==
    [at : Steps, who : Interpreters, op : Nat \ {0}, k : Nat \ {0}, invoking : BOOLEAN]

\* A call is at a step, over an operator or a tensor of its model.
CallOK ==
    \/ call \in {Idle, Stopped, [at |-> "create"]}
    \/ /\ call \in Calls
       /\ call.at \in OverOperators => call.op <= Len(M.operators)
       /\ At("tensor") => call.op <= Len(M.tensors)

\* Between StartModelAllocation and FinishModelAllocation the allocator knows
\* that a model is allocating; an error in between leaves it so.
ControlOK ==
    /\ model \in [Interpreters -> Models]
    /\ CallOK
    /\ model_is_allocating \in BOOLEAN
    /\ call.at \in Allocating => model_is_allocating
    /\ max_head_buffer_usage \in Nat

IsUnassigned(n) == requests[n].node_idx = kUnassignedScratchBufferRequestIndex

\* Each operator has made its few requests, and the last of them are not
\* assigned to it until its Prepare ends.
RequestsOK ==
    /\ requests \in Seq(RequestRecord)
    /\ call.at \in Preparing => requests = <<>>
    /\ At("prepare") =>
          \E n \in 0 .. Len(requests) :
             /\ n <= kMaxScratchBuffersPerOp * (call.op - 1)
             /\ Len(requests) - n <= kMaxScratchBuffersPerOp
             /\ \A j \in DOMAIN requests : IsUnassigned(j) <=> j > n
    /\ At("adjust_head") => Len(requests) <= kMaxScratchBuffersPerOp * call.op
    /\ call.at \in Planning => Len(requests) <= kMaxScratchBuffersPerOp * Len(M.operators)
    /\ call.at \in {"adjust_head"} \cup Planning => \A j \in DOMAIN requests : ~IsUnassigned(j)

\* The temporary section lies behind the head, unless its end has wrapped
\* around; unless a model is allocating, the head holds the largest plan so far.
HeadOK ==
    /\ temp \in Nat /\ (At("stopped") \/ head <= temp)
    /\ ~model_is_allocating \/ At("variables") => head = BufferHead + max_head_buffer_usage

\* Handles that are missing did not fit.
HandlesOK ==
    /\ handles \in [Interpreters -> BOOLEAN]
    /\ At("info") /\ requests # <<>> /\ ~handles[Who] =>
          ~TailFits(HandleSize * Len(requests), kStructAlignment)
    /\ HandlesNotNull

\* Before the plan is made there is room behind the requests.
RoomOK ==
    /\ call.at \in {"handles", "info"} /\ ~ignored =>
          /\ head = BufferHead + RequestRoom(Len(requests))
          /\ temp = head /\ temps = {}
    /\ OptionalInputsHarmless

\* What has been planned ends within the largest plan; while it is being
\* planned, a tensor has no place.
DataOK ==
    /\ DOMAIN data = Interpreters
    /\ call.at \in {"nodes", "op_data", "init", "prepare", "adjust_head"} \cup Planning =>
          data[Who] = [t \in DOMAIN M.tensors |-> IF M.tensors[t].has_data THEN MmapRo ELSE Null]
    /\ \A i \in Interpreters : \A t \in InMemory(i) \ VariableTensors(i) :
          TensorSpan(i, t).to \in 0 .. BufferHead + max_head_buffer_usage

IInv == ArenaInv /\ ControlOK /\ RequestsOK /\ HeadOK /\ HandlesOK /\ RoomOK /\ DataOK

-----------------------------------------------------------------------------
(* What the arena does for a call.                                         *)

\* The ends of the sections are numbers in their order.
LEMMA ArenaNumbers ==
    ASSUME ArenaInv
    PROVE  /\ buffer_tail \in Nat /\ buffer_tail < AddressSpace
           /\ head \in Nat /\ tail \in Nat
           /\ BufferHead <= head /\ head <= tail /\ tail <= buffer_tail /\ tail < AddressSpace
  <1>1. buffer_tail \in Nat /\ buffer_tail < AddressSpace /\ AddressSpace \in Nat
    BY BufferTailType DEF ArenaInv
  <1>2. head \in Nat /\ tail \in Nat /\ BufferHead <= head /\ head <= tail /\ tail <= buffer_tail
    BY DEF ArenaInv, ArenaTypeOK, PersistentIntact
  <1> QED BY <1>1, <1>2

\* An allocation from the tail moves the tail only.
LEMMA TailTaken ==
    ASSUME ArenaInv, NEW s \in Sizes, NEW a \in Alignments, AllocateFromTail(s, a)
    PROVE  ArenaInv' /\ UNCHANGED <<head, temp, temps>>
  <1>1. ArenaInv'
    BY AllocateFromTailArenaInv
  <1> QED BY <1>1 DEF AllocateFromTail

\* While the program runs, the temporary section lies behind the head.
LEMMA TempBehindHead ==
    ASSUME IInv, call.at # "stopped"
    PROVE  temp \in Nat /\ head <= temp
  BY DEF IInv, HeadOK, At

\* A temporary allocation moves the end of the temporary section only.
LEMMA TempTaken ==
    ASSUME ArenaInv, temp \in Nat, head <= temp, NEW s \in Nat, NEW a \in Alignments,
           AllocateTemp(s, a), ~TempHitsTail(s, a)
    PROVE  /\ ArenaInv' /\ UNCHANGED <<head, tail>>
           /\ AlignUp(temp, a) + s <= tail
           /\ temp' \in Nat /\ head' <= temp'
           /\ temps' = temps \cup {[from |-> AlignUp(temp, a), to |-> temp']}
  <1>1. /\ UNCHANGED <<buffer_tail, head, tail, used_bytes, persistent>>
        /\ temp' = SizeT(AlignUp(temp, a) + s) /\ TempFits(s, a)
        /\ temps' = temps \cup {[from |-> AlignUp(temp, a), to |-> temp']}
    BY DEF AllocateTemp
  <1>2. ArenaInv'
    BY <1>1, TempArenaInv
  <1>3. tail \in Nat /\ tail < AddressSpace /\ head \in Nat
    BY ArenaNumbers
  <1>4. AlignUp(temp, a) \in Nat /\ temp <= AlignUp(temp, a)
    BY AlignUpAbove, AlignmentsAssumption
  <1>5. AlignUp(temp, a) + s <= tail
    BY <1>1, <1>3, <1>4 DEF TempHitsTail
  <1>6. temp' = AlignUp(temp, a) + s
    <2>1. AlignUp(temp, a) + s \in Nat /\ AlignUp(temp, a) + s < AddressSpace
      BY <1>3, <1>4, <1>5, AllocatorNumbers
    <2> QED BY <1>1, <2>1, SizeTInRange
  <1>7. temp' \in Nat /\ head <= temp'
    BY <1>3, <1>4, <1>6
  <1> QED BY <1>1, <1>2, <1>5, <1>7

\* Setting the head moves it, with an empty temporary section behind it.
LEMMA HeadSet ==
    ASSUME ArenaInv, NEW s \in Nat, NEW a \in Alignments, SetHeadBufferSize(s, a)
    PROVE  /\ ArenaInv'
           /\ head' = BufferHead + s /\ temp' = head' /\ temps' = {}
           /\ temp' \in Nat /\ head' <= temp'
  <1>1. ArenaInv'
    BY SetHeadArenaInv
  <1>2. head' = BufferHead + s /\ temp' = head' /\ temps' = {}
    BY AlignUpBufferHead DEF SetHeadBufferSize
  <1> QED BY <1>1, <1>2, AllocatorNumbers

\* ResetTempAllocations empties the temporary section.
LEMMA TempsReset ==
    ASSUME ArenaInv, ResetTempAllocations
    PROVE  ArenaInv' /\ head' = head /\ temp' = head /\ temp' \in Nat /\ head' <= temp'
  <1>1. ArenaInv'
    BY TempArenaInv DEF ResetTempAllocations
  <1>2. head' = head /\ temp' = head
    BY DEF ResetTempAllocations
  <1> QED BY <1>1, <1>2, ArenaNumbers

\* A step that leaves the arena alone keeps its invariant.
LEMMA ArenaStays ==
    ASSUME ArenaInv, UNCHANGED arena
    PROVE  ArenaInv' /\ UNCHANGED <<head, tail, temp, temps>>
  BY TempArenaInv DEF arena

\* The call is over: what is left to hold is about the heap and the plans.
LEMMA CallEnds ==
    ASSUME IInv, ArenaInv', call' \in {Idle, Stopped},
           UNCHANGED <<model_is_allocating, max_head_buffer_usage, requests, model, data, handles>>,
           head' = head, temp' \in Nat, call' = Stopped \/ head' <= temp'
    PROVE  IInv'
  <1> USE DEF IInv
  <1>1. call'.at \in {"idle", "stopped"} /\ (call'.at = "stopped" \/ head' <= temp')
    BY DEF Idle, Stopped
  <1>2. ControlOK'
    BY <1>1 DEF ControlOK, CallOK, Allocating, Preparing, Planning
  <1>3. RequestsOK'
    BY <1>1 DEF RequestsOK, Preparing, Planning, At
  <1>4. HeadOK'
    BY <1>1 DEF HeadOK, At
  <1>5. HandlesOK'
    BY <1>1 DEF HandlesOK, HandlesNotNull, At
  <1>6. RoomOK'
    BY <1>1 DEF RoomOK, OptionalInputsHarmless, At
  <1>7. DataOK'
    BY <1>1 DEF DataOK, Planning, InMemory, VariableTensors, TensorSpan
  <1> QED BY <1>2, <1>3, <1>4, <1>5, <1>6, <1>7

\* A call that is neither over nor about to begin is somebody's call of a model.
LEMMA CallInProgress ==
    ASSUME ControlOK, call.at \in Steps
    PROVE  /\ call \in Calls /\ Who \in Interpreters /\ M \in Models
           /\ call.at \in OverOperators =>
                 call.op \in DOMAIN M.operators /\ Operator \in OperatorRecord
  <1>1. call.at \notin {"idle", "stopped", "create"}
    BY DEF Steps
  <1>2. call \in Calls /\ (call.at \in OverOperators => call.op <= Len(M.operators))
    BY <1>1 DEF ControlOK, CallOK, Idle, Stopped
  <1>3. Who \in Interpreters /\ call.op \in Nat \ {0}
    BY <1>2 DEF Calls, Who
  <1>4. M \in Models
    BY <1>3 DEF ControlOK, M, Who
  <1>5. /\ DOMAIN M.operators = 1 .. Len(M.operators) /\ Len(M.operators) \in Nat
        /\ \A op \in DOMAIN M.operators : M.operators[op] \in OperatorRecord
    BY <1>4, ModelFacts
  <1> QED BY <1>2, <1>3, <1>4, <1>5 DEF Operator

\* The call after Goto.
LEMMA GotoCall ==
    ASSUME call \in Calls, NEW at \in Steps, Goto(at)
    PROVE  /\ call' \in Calls /\ call'.at = at /\ call'.who = call.who
           /\ call'.op = 1 /\ call'.k = 1
  <1>1. call = [at |-> call.at, who |-> call.who, op |-> call.op, k |-> call.k,
                invoking |-> call.invoking]
    BY DEF Calls
  <1>2. call' = [at |-> at, who |-> call.who, op |-> 1, k |-> 1, invoking |-> call.invoking]
    BY <1>1 DEF Goto
  <1>3. call.who \in Interpreters /\ call.invoking \in BOOLEAN
    BY DEF Calls
  <1> QED BY <1>2, <1>3 DEF Calls

\* The call after NextOperator: the next operator, or the next step.
LEMMA NextOperatorCall ==
    ASSUME call \in Calls, M \in Models, NEW at \in Steps, NEW then \in Steps,
           NextOperator(at, then)
    PROVE  /\ call' \in Calls /\ call'.who = call.who
           /\ \/ call'.at = at /\ call'.op = call.op + 1 /\ call'.op <= Len(M.operators)
              \/ /\ call'.at = then /\ call'.op = 1 /\ call'.op <= Len(M.operators)
                 /\ call.op >= Len(M.operators)
  <1>1. Len(M.operators) \in Nat \ {0}
    BY ModelFacts
  <1> HIDE DEF M
  <1>2. call.op \in Nat \ {0}
    BY DEF Calls
  <1>3. CASE call.op < Len(M.operators)
    <2>1. call' = [call EXCEPT !.at = at, !.op = @ + 1, !.k = 1]
      BY <1>3 DEF NextOperator
    <2>2. call.op + 1 \in Nat \ {0} /\ call.op + 1 <= Len(M.operators)
      BY <1>1, <1>2, <1>3
    <2>3. call = [at |-> call.at, who |-> call.who, op |-> call.op, k |-> call.k,
                  invoking |-> call.invoking]
      BY DEF Calls
    <2>4. call' = [at |-> at, who |-> call.who, op |-> call.op + 1, k |-> 1,
                   invoking |-> call.invoking]
      BY <2>1, <2>3
    <2>5. call.who \in Interpreters /\ call.invoking \in BOOLEAN
      BY DEF Calls
    <2> QED BY <2>2, <2>4, <2>5 DEF Calls
  <1>4. CASE ~(call.op < Len(M.operators))
    <2>1. Goto(then)
      BY <1>4 DEF NextOperator
    <2> QED BY <1>1, <1>2, <1>4, <2>1, GotoCall
  <1> QED BY <1>3, <1>4

\* The call goes on, and only the arena behind the head changes.
LEMMA CallGoesOn ==
    ASSUME IInv, ArenaInv', call \in Calls, call' \in Calls, call'.who = call.who,
           UNCHANGED <<model_is_allocating, max_head_buffer_usage, model, data, handles>>,
           head' = head, temp' \in Nat, head' <= temp',
           RequestsOK',
           call'.at \in OverOperators => call'.op <= Len(M.operators),
           call'.at = "tensor" => call'.op <= Len(M.tensors),
           call'.at \notin {"handles", "info", "plan"},
           call'.at \in Allocating => call.at \in Allocating \ {"eval_tensors"},
           call'.at \in {"nodes", "op_data", "init", "prepare", "adjust_head", "commit"} =>
               call.at \notin {"plan_head", "variables"},
           call'.at = "variables" => call.at = "variables"
    PROVE  IInv'
  <1>1. call \in Calls /\ call' \in Calls /\ call'.who = call.who
    OBVIOUS
  <1>2. M' = M
    BY DEF M
  <1>3. ControlOK'
    <2>1. CallOK'
      BY <1>1, <1>2 DEF CallOK, At
    <2> QED BY <2>1 DEF IInv, ControlOK
  <1>4. HeadOK'
    BY DEF IInv, HeadOK, At
  <1>5. HandlesOK'
    BY DEF IInv, HandlesOK, HandlesNotNull, At
  <1>6. RoomOK'
    BY DEF IInv, RoomOK, OptionalInputsHarmless, At
  <1>7. DataOK'
    <2>1. DOMAIN data' = Interpreters
      BY DEF IInv, DataOK
    <2>2. \A i \in Interpreters : \A t \in InMemory(i)' \ VariableTensors(i)' :
             TensorSpan(i, t)'.to \in 0 .. BufferHead + max_head_buffer_usage'
      BY DEF IInv, DataOK, InMemory, VariableTensors, TensorSpan
    <2>3. ASSUME call'.at \in {"nodes", "op_data", "init", "prepare", "adjust_head"} \cup Planning
          PROVE  data'[call'.who] =
                    [t \in DOMAIN M'.tensors |-> IF M'.tensors[t].has_data THEN MmapRo ELSE Null]
      <3>1. call.at \in {"nodes", "op_data", "init", "prepare", "adjust_head"} \cup Planning
        BY <2>3 DEF Planning, Allocating, Preparing
      <3> QED BY <1>2, <3>1 DEF IInv, DataOK, Who
    <2> QED BY <2>1, <2>2, <2>3 DEF DataOK, Who
  <1> QED BY <1>3, <1>4, <1>5, <1>6, <1>7 DEF IInv

\* What is allocated from the tail for a model has a size the assumption knows.
LEMMA TailSizes ==
    ASSUME NEW m \in Models
    PROVE  /\ EvalTensorSize * Len(m.tensors) \in Sizes /\ NodeSize * Len(m.operators) \in Sizes
           /\ Len(m.inputs) \in Sizes /\ Len(m.outputs) \in Sizes
           /\ \A n \in 0 .. kMaxScratchBuffersPerOp * Len(m.operators) : HandleSize * n \in Sizes
           /\ \A op \in DOMAIN m.operators :
                 /\ m.operators[op].builtin_data \in Sizes /\ m.operators[op].user_data \in Sizes
                 /\ \A n \in DOMAIN m.operators[op].prepare :
                       m.operators[op].prepare[n].kind = "persistent" =>
                           m.operators[op].prepare[n].bytes \in Sizes
           /\ \A t \in DOMAIN m.tensors :
                 m.tensors[t].bytes \in Sizes /\ m.tensors[t].channels + 1 \in Sizes
  <1>1. TailRequests(m) \subseteq Sizes
    BY ModelsAssumption
  <1>2. \A op \in DOMAIN m.operators : m.operators[op] \in ToSet(m.operators)
    BY DEF ToSet
  <1>3. \A t \in DOMAIN m.tensors : m.tensors[t] \in ToSet(m.tensors)
    BY DEF ToSet
  <1>4. /\ EvalTensorSize * Len(m.tensors) \in TailRequests(m)
        /\ NodeSize * Len(m.operators) \in TailRequests(m)
        /\ Len(m.inputs) \in TailRequests(m) /\ Len(m.outputs) \in TailRequests(m)
    BY DEF TailRequests
  <1>5. \A n \in 0 .. kMaxScratchBuffersPerOp * Len(m.operators) : HandleSize * n \in TailRequests(m)
    BY Zenon DEF TailRequests
  <1>6. \A o \in ToSet(m.operators) : OperatorSizes(o) \subseteq TailRequests(m)
    BY Zenon DEF TailRequests
  <1>7. ASSUME NEW op \in DOMAIN m.operators
        PROVE  /\ m.operators[op].builtin_data \in TailRequests(m)
               /\ m.operators[op].user_data \in TailRequests(m)
               /\ \A n \in DOMAIN m.operators[op].prepare :
                     m.operators[op].prepare[n].kind = "persistent" =>
                         m.operators[op].prepare[n].bytes \in TailRequests(m)
    <2> DEFINE o == m.operators[op]
    <2>1. o \in ToSet(m.operators)
      BY <1>2
    <2> HIDE DEF o
    <2>2. o.builtin_data \in OperatorSizes(o) /\ o.user_data \in OperatorSizes(o)
      BY DEF OperatorSizes
    <2>3. ASSUME NEW n \in DOMAIN o.prepare, o.prepare[n].kind = "persistent"
          PROVE  o.prepare[n].bytes \in OperatorSizes(o)
      <3>1. o.prepare[n] \in ToSet(o.prepare)
        BY DEF ToSet
      <3> QED BY <2>3, <3>1 DEF OperatorSizes
    <2> QED BY <1>6, <2>1, <2>2, <2>3 DEF o
  <1>8. ASSUME NEW t \in DOMAIN m.tensors
        PROVE  m.tensors[t].bytes \in TailRequests(m) /\ m.tensors[t].channels + 1 \in TailRequests(m)
    <2> DEFINE x == m.tensors[t]
    <2>1. x \in ToSet(m.tensors)
      BY <1>3
    <2> HIDE DEF x
    <2>2. ASSUME NEW z \in TensorSizes(x)
          PROVE  z \in TailRequests(m)
      <3>1. z \in UNION {TensorSizes(y) : y \in ToSet(m.tensors)}
        BY <2>1
      <3>2. \A A, B, C, D : z \in D => z \in A \cup B \cup C \cup D
        OBVIOUS
      <3> QED BY <3>1, <3>2, Zenon DEF TailRequests
    <2>3. x.bytes \in TensorSizes(x) /\ x.channels + 1 \in TensorSizes(x)
      BY DEF TensorSizes
    <2> QED BY <2>1, <2>2, <2>3 DEF x
  <1> QED BY <1>1, <1>4, <1>5, <1>6, <1>7, <1>8

\* The structures of a tensor.
StructRecord ==
    {r \in [kind : {"tensor", "quantization", "zero_point"}, bytes : Nat] : r.bytes \in Sizes}

\* The structures of a tensor and their sizes.
LEMMA StructsOfTensor ==
    ASSUME NEW m \in Models, NEW t \in DOMAIN m.tensors
    PROVE  TensorStructs(m.tensors[t]) \in Seq(StructRecord)
  <1> DEFINE x == m.tensors[t]
             a == [kind |-> "tensor", bytes |-> TensorSize]
             b == [kind |-> "quantization", bytes |-> QuantizationSize]
             c == [kind |-> "zero_point", bytes |-> x.channels + 1]
  <1>1. x.channels + 1 \in Sizes
    BY TailSizes
  <1> HIDE DEF x
  <1>2. a \in StructRecord /\ b \in StructRecord /\ c \in StructRecord
    BY <1>1, AllocatorAssumption, SizesAssumption DEF StructRecord
  <1>3. TensorStructs(x) = <<a>> \o IF x.channels = 0 THEN <<>> ELSE <<b, c>>
    BY DEF TensorStructs
  <1> HIDE DEF a, b, c
  <1>4. <<a>> \in Seq(StructRecord) /\ <<>> \in Seq(StructRecord) /\ <<b, c>> \in Seq(StructRecord)
    BY <1>2
  <1>5. \A r, s \in Seq(StructRecord) : r \o s \in Seq(StructRecord)
    OBVIOUS
  <1> QED BY <1>3, <1>4, <1>5, Zenon DEF x

\* The structures of the tensors that AllocateTensorStructs goes through.
LEMMA StructsOfTensors ==
    ASSUME NEW m \in Models, NEW tensors \in Seq(DOMAIN m.tensors)
    PROVE  FlattenSeq([n \in DOMAIN tensors |-> TensorStructs(m.tensors[tensors[n]])])
             \in Seq(StructRecord)
  <1> DEFINE structs == [n \in DOMAIN tensors |-> TensorStructs(m.tensors[tensors[n]])]
  <1>1. \A n \in DOMAIN tensors : structs[n] \in Seq(StructRecord)
    BY StructsOfTensor
  <1>2. DOMAIN tensors = 1 .. Len(tensors) /\ Len(tensors) \in Nat
    OBVIOUS
  <1>3. structs = [n \in 1 .. Len(tensors) |-> structs[n]]
    BY <1>2
  <1> HIDE DEF structs
  <1>4. structs \in Seq(Seq(StructRecord))
    BY <1>1, <1>2, <1>3
  <1>5. FlattenSeq(structs) \in Seq(StructRecord)
    BY <1>4, FlattenType
  <1> QED BY <1>5 DEF structs

\* The requests of a kernel's Prepare.
RequestOfKernel ==
    {r \in [kind : {"tensor", "quantization", "zero_point", "persistent", "scratch"}, bytes : Nat] :
        r.kind # "scratch" => r.bytes \in Sizes}

\* What a kernel asks for in Prepare has sizes the arena takes.
LEMMA RequestsOfKernel ==
    ASSUME ControlOK, call.at \in OverOperators
    PROVE  PrepareRequests \in Seq(RequestOfKernel)
  <1>1. /\ M \in Models /\ call.op \in DOMAIN M.operators /\ Operator \in OperatorRecord
    BY CallInProgress DEF OverOperators, Steps
  <1>2. Operator = M.operators[call.op]
    BY DEF Operator
  <1> DEFINE P == Operator.prepare
             all == [n \in DOMAIN P |-> RequestsOf(P[n])]
  <1>3. /\ P \in Seq(PrepareRequest) /\ DOMAIN P = 1 .. Len(P) /\ Len(P) \in Nat
    <2>1. P \in Seq(PrepareRequest)
      BY <1>1 DEF OperatorRecord
    <2> HIDE DEF P
    <2> QED BY <2>1
  <1>4. \A n \in DOMAIN P : P[n].kind = "persistent" => P[n].bytes \in Sizes
    BY <1>1, <1>2, TailSizes
  <1>5. \A n \in DOMAIN P : P[n].kind = "get_tensor" => P[n].tensor \in DOMAIN M.tensors
    <2>1. IsModel(M) /\ Operator \in ToSet(M.operators)
      BY <1>1, <1>2, ModelsAssumption DEF ToSet
    <2>2. \A r \in ToSet(P) : r.kind = "get_tensor" => r.tensor \in DOMAIN M.tensors
      BY <2>1 DEF IsModel
    <2> QED BY <2>2 DEF ToSet
  <1> HIDE DEF P
  <1>6. ASSUME NEW n \in DOMAIN P
        PROVE  all[n] \in Seq(RequestOfKernel)
    <2>1. P[n] \in PrepareRequest
      BY <1>3
    <2>2. CASE P[n].kind = "get_tensor"
      <3>1. TensorStructs(M.tensors[P[n].tensor]) \in Seq(StructRecord)
        BY <1>1, <1>5, <2>2, StructsOfTensor
      <3>2. StructRecord \subseteq RequestOfKernel
        BY DEF StructRecord, RequestOfKernel
      <3>3. TensorStructs(M.tensors[P[n].tensor]) \in Seq(RequestOfKernel)
        BY <3>1, <3>2
      <3> QED BY <2>2, <3>3 DEF RequestsOf
    <2>3. CASE P[n].kind # "get_tensor"
      <3>1. P[n] \in [kind : {"persistent", "scratch"}, bytes : Nat]
        BY <2>1, <2>3 DEF PrepareRequest
      <3>2. P[n] \in RequestOfKernel
        BY <1>4, <3>1 DEF RequestOfKernel
      <3>3. <<P[n]>> \in Seq(RequestOfKernel)
        BY <3>2
      <3> QED BY <2>3, <3>3 DEF RequestsOf
    <2> QED BY <2>2, <2>3
  <1>7. all = [n \in 1 .. Len(P) |-> all[n]]
    BY <1>3
  <1>8. PrepareRequests = FlattenSeq(all)
    BY DEF PrepareRequests, P
  <1> HIDE DEF all
  <1>9. all \in Seq(Seq(RequestOfKernel))
    BY <1>3, <1>6, <1>7
  <1>10. FlattenSeq(all) \in Seq(RequestOfKernel)
    BY <1>9, FlattenType
  <1> QED BY <1>8, <1>10

-----------------------------------------------------------------------------
(* Every step of a call keeps the invariant.                               *)

\* The program starts in the invariant.
LEMMA InitIInv == Init => IInv
  <1> SUFFICES ASSUME Init PROVE IInv
    OBVIOUS
  <1>1. ArenaInv
    BY InitArenaInv, AllocatorNumbers DEF Init, ArenaInit
  <1>2. head = BufferHead /\ temp = BufferHead /\ call.at = "create"
    BY DEF Init, Create
  <1>3. ControlOK
    BY <1>2 DEF Init, ControlOK, CallOK, Allocating, Preparing, Planning
  <1>4. RequestsOK
    BY <1>2 DEF Init, RequestsOK, Preparing, Planning, At
  <1>5. HeadOK
    BY <1>2, AllocatorNumbers DEF Init, HeadOK
  <1>6. HandlesOK
    BY <1>2 DEF Init, HandlesOK, HandlesNotNull, At
  <1>7. RoomOK
    BY <1>2 DEF RoomOK, OptionalInputsHarmless, At
  <1>8. DataOK
    <2>1. data = [i \in Interpreters |-> <<>>]
      BY DEF Init
    <2>2. \A i \in Interpreters : InMemory(i) = {}
      BY <2>1 DEF InMemory
    <2> QED BY <1>2, <2>1, <2>2 DEF DataOK, Planning
  <1> QED BY <1>1, <1>3, <1>4, <1>5, <1>6, <1>7, <1>8 DEF IInv

\* The allocator is created.
LEMMA CreateIInv == IInv /\ CreateMicroAllocator => IInv'
  <1> SUFFICES ASSUME IInv, CreateMicroAllocator PROVE IInv'
    OBVIOUS
  <1>1. UNCHANGED <<model_is_allocating, max_head_buffer_usage, requests, model, data, handles>>
        /\ call.at = "create" /\ call' \in {Idle, Stopped}
        /\ (AllocateFromTail(MicroAllocatorSize, kStructAlignment) \/ UNCHANGED arena)
    BY DEF CreateMicroAllocator, FromTail, Keep, Stop, allocator, interpreters, At
  <1>2. ArenaInv' /\ UNCHANGED <<head, temp>>
    BY <1>1, TailTaken, ArenaStays, AllocatorAssumption DEF IInv
  <1>3. temp \in Nat /\ head <= temp
    BY <1>1, TempBehindHead
  <1> QED BY <1>1, <1>2, <1>3, CallEnds

\* The client begins a call.
LEMMA CallBegins ==
    ASSUME IInv, At("idle"), UNCHANGED <<arena, allocator, interpreters>>,
           call' \in Calls, call'.at \in {"start", "invoke", "tensor"},
           call'.at = "invoke" => call'.op <= Len(model[call'.who].operators),
           call'.at = "tensor" => call'.op <= Len(model[call'.who].tensors)
    PROVE  IInv'
  <1>1. ArenaInv' /\ UNCHANGED <<head, temp>>
    BY ArenaStays DEF IInv
  <1>2. UNCHANGED <<model_is_allocating, max_head_buffer_usage, requests, model, data, handles>>
    BY DEF allocator, interpreters
  <1>3. M' = model[call'.who]
    BY <1>2 DEF M
  <1>4. CallOK'
    BY <1>3 DEF CallOK, OverOperators, At
  <1>5. ControlOK'
    BY <1>2, <1>4 DEF IInv, ControlOK, Allocating, Preparing, Planning
  <1>6. RequestsOK'
    BY <1>2 DEF IInv, RequestsOK, Preparing, Planning, At
  <1>7. HeadOK'
    BY <1>1, <1>2 DEF IInv, HeadOK, At
  <1>8. HandlesOK'
    BY <1>2 DEF IInv, HandlesOK, HandlesNotNull, At
  <1>9. RoomOK'
    BY DEF IInv, RoomOK, OptionalInputsHarmless, At
  <1>10. DataOK'
    BY <1>2 DEF IInv, DataOK, Planning, InMemory, VariableTensors, TensorSpan
  <1> QED BY <1>1, <1>5, <1>6, <1>7, <1>8, <1>9, <1>10 DEF IInv

\* The calls of the client keep the invariant.
LEMMA ClientIInv ==
    ASSUME IInv, NEW i \in Interpreters,
           AllocateTensors(i) \/ Invoke(i) \/ SetInputs(i) \/ Tensor(i)
    PROVE  IInv'
  <1>1. /\ model[i] \in Models
        /\ Len(model[i].operators) \in Nat \ {0} /\ Len(model[i].tensors) \in Nat
        /\ DOMAIN model[i].tensors = 1 .. Len(model[i].tensors)
    BY ModelFacts DEF IInv, ControlOK
  <1>2. CASE AllocateTensors(i)
    <2>1. call' = [at |-> "start", who |-> i, op |-> 1, k |-> 1, invoking |-> FALSE]
          /\ UNCHANGED <<arena, allocator, interpreters>> /\ At("idle")
      BY <1>2 DEF AllocateTensors
    <2>2. call' \in Calls /\ call'.at = "start"
      BY <2>1 DEF Calls, Steps
    <2> QED BY <2>1, <2>2, CallBegins
  <1>3. CASE Invoke(i)
    <2>1. call' = [at |-> IF tensors_allocated[i] THEN "invoke" ELSE "start",
                   who |-> i, op |-> 1, k |-> 1, invoking |-> TRUE]
          /\ UNCHANGED <<arena, allocator, interpreters>> /\ At("idle")
      BY <1>3 DEF Invoke
    <2>2. call' \in Calls /\ call'.at \in {"start", "invoke"} /\ call'.op = 1 /\ call'.who = i
      BY <2>1 DEF Calls, Steps
    <2> QED BY <1>1, <2>1, <2>2, CallBegins
  <1>4. CASE SetInputs(i)
    <2>1. UNCHANGED <<arena, allocator, interpreters, call, ignored>> /\ At("idle")
      BY <1>4 DEF SetInputs
    <2>2. ArenaInv' /\ UNCHANGED <<head, temp>>
      BY <2>1, ArenaStays DEF IInv
    <2>3. call' \in {Idle, Stopped}
      BY <2>1 DEF At, IInv, ControlOK, CallOK, Calls, Steps, Idle
    <2>4. temp \in Nat /\ head <= temp
      BY <2>1, TempBehindHead DEF At
    <2> QED BY <2>1, <2>2, <2>3, <2>4, CallEnds DEF allocator, interpreters
  <1>5. CASE Tensor(i)
    <2>1. PICK t \in DOMAIN model[i].tensors :
             call' = [at |-> "tensor", who |-> i, op |-> t, k |-> 1, invoking |-> FALSE]
      BY <1>5 DEF Tensor
    <2>2. UNCHANGED <<arena, allocator, interpreters>> /\ At("idle")
      BY <1>5 DEF Tensor, Keep
    <2>3. t \in Nat \ {0} /\ t <= Len(model[i].tensors)
      BY <1>1
    <2>4. call' \in Calls /\ call'.at = "tensor" /\ call'.op = t /\ call'.who = i
      BY <2>1, <2>3 DEF Calls, Steps
    <2> QED BY <2>2, <2>3, <2>4, CallBegins
  <1> QED BY <1>2, <1>3, <1>4, <1>5

\* StartModelAllocation.
LEMMA ModelStarts ==
    ASSUME IInv, ArenaInv', CallOK', call'.at \in {"idle", "eval_tensors"},
           model_is_allocating' = TRUE, requests' = <<>>,
           UNCHANGED <<max_head_buffer_usage, model, data, handles>>,
           temp' \in Nat, head' <= temp'
    PROVE  IInv'
  <1>1. ControlOK'
    BY DEF IInv, ControlOK
  <1>2. RequestsOK'
    BY DEF RequestsOK, Planning, At
  <1>3. HeadOK'
    BY DEF HeadOK, At
  <1>4. HandlesOK'
    BY DEF IInv, HandlesOK, HandlesNotNull, At
  <1>5. RoomOK'
    BY DEF RoomOK, OptionalInputsHarmless, At
  <1>6. DataOK'
    BY DEF IInv, DataOK, Planning, InMemory, VariableTensors, TensorSpan
  <1> QED BY <1>1, <1>2, <1>3, <1>4, <1>5, <1>6 DEF IInv

\* StartModelAllocation keeps the invariant, whether it fails or not.
LEMMA StartIInv == IInv /\ Start => IInv'
  <1> SUFFICES ASSUME IInv, Start PROVE IInv'
    OBVIOUS
  <1>1. call \in Calls /\ temp \in Nat /\ head <= temp
    BY CallInProgress, TempBehindHead DEF IInv, Start, At, Steps
  <1>2. RequestRoom(0) \in Nat
    BY AllocatorNumbers DEF RequestRoom
  <1>3. \/ /\ call' = Idle /\ UNCHANGED arena
           /\ UNCHANGED <<model_is_allocating, max_head_buffer_usage, requests, model, data, handles>>
        \/ /\ model_is_allocating' = TRUE /\ requests' = <<>>
           /\ UNCHANGED <<max_head_buffer_usage, model, data, handles>>
           /\ \/ SetHeadBufferSize(RequestRoom(0), kStructAlignment) /\ Goto("eval_tensors")
              \/ UNCHANGED arena /\ call' = Idle
    BY DEF Start, SetHead, ReturnStartError, allocator, interpreters
  <1>4. CASE /\ call' = Idle /\ UNCHANGED arena
             /\ UNCHANGED <<model_is_allocating, max_head_buffer_usage, requests, model, data, handles>>
    <2>1. ArenaInv' /\ UNCHANGED <<head, temp>>
      BY <1>4, ArenaStays DEF IInv
    <2> QED BY <1>1, <1>4, <2>1, CallEnds
  <1>5. CASE /\ model_is_allocating' = TRUE /\ requests' = <<>>
             /\ UNCHANGED <<max_head_buffer_usage, model, data, handles>>
             /\ SetHeadBufferSize(RequestRoom(0), kStructAlignment) /\ Goto("eval_tensors")
    <2>1. ArenaInv' /\ temp' \in Nat /\ head' <= temp'
      BY <1>2, <1>5, HeadSet, AllocatorNumbers DEF IInv
    <2>2. call' \in Calls /\ call'.at = "eval_tensors"
      BY <1>1, <1>5, GotoCall DEF Steps
    <2>3. CallOK'
      BY <2>2 DEF CallOK, OverOperators, At
    <2> QED BY <1>5, <2>1, <2>2, <2>3, ModelStarts
  <1>6. CASE /\ model_is_allocating' = TRUE /\ requests' = <<>>
             /\ UNCHANGED <<max_head_buffer_usage, model, data, handles>>
             /\ UNCHANGED arena /\ call' = Idle
    <2>1. ArenaInv' /\ UNCHANGED <<head, temp>>
      BY <1>6, ArenaStays DEF IInv
    <2>2. CallOK' /\ call'.at = "idle"
      BY <1>6 DEF CallOK, Idle
    <2> QED BY <1>1, <1>6, <2>1, <2>2, ModelStarts
  <1> QED BY <1>3, <1>4, <1>5, <1>6

\* What a step with one allocation from the tail leaves alone.
LEMMA TailStep ==
    ASSUME IInv, call.at # "stopped", NEW s \in Sizes, NEW a \in Alignments,
           AllocateFromTail(s, a) \/ UNCHANGED arena
    PROVE  ArenaInv' /\ UNCHANGED <<head, temp, temps>> /\ temp' \in Nat /\ head' <= temp'
  <1>1. ArenaInv' /\ UNCHANGED <<head, temp, temps>>
    BY TailTaken, ArenaStays DEF IInv
  <1> QED BY <1>1, TempBehindHead

\* AllocateTfLiteEvalTensors: the tensors of the model have no place yet.
LEMMA EvalTensorsIInv == IInv /\ AllocateEvalTensors => IInv'
  <1> SUFFICES ASSUME IInv, AllocateEvalTensors PROVE IInv'
    OBVIOUS
  <1>1. call \in Calls /\ Who \in Interpreters /\ M \in Models /\ call.at = "eval_tensors"
    BY CallInProgress DEF IInv, AllocateEvalTensors, At, Steps
  <1>2. EvalTensorSize * Len(M.tensors) \in Sizes
    BY <1>1, TailSizes
  <1> DEFINE row == [t \in DOMAIN M.tensors |-> IF M.tensors[t].has_data THEN MmapRo ELSE Null]
             s == EvalTensorSize * Len(M.tensors)
  <1>3. /\ UNCHANGED <<model_is_allocating, max_head_buffer_usage, requests, model, handles>>
        /\ AllocateFromTail(s, kStructAlignment) \/ UNCHANGED arena
        /\ \/ call' \in {Idle, Stopped} /\ UNCHANGED data
           \/ Goto("nodes") /\ data' = [data EXCEPT ![Who] = row]
    BY DEF AllocateEvalTensors, FromTail, ReturnStartError, Stop, allocator, interpreters
  <1> HIDE DEF s, row
  <1>4. ArenaInv' /\ UNCHANGED <<head, temp>> /\ temp' \in Nat /\ head' <= temp'
    BY <1>1, <1>2, <1>3, TailStep, AllocatorNumbers DEF s
  <1>5. CASE call' \in {Idle, Stopped} /\ UNCHANGED data
    BY <1>3, <1>4, <1>5, CallEnds
  <1>6. CASE Goto("nodes") /\ data' = [data EXCEPT ![Who] = row]
    <2>1. call' \in Calls /\ call'.at = "nodes" /\ call'.who = call.who
      BY <1>1, <1>6, GotoCall DEF Steps
    <2>2. M' = M /\ Who' = Who
      BY <1>3, <2>1 DEF M, Who
    <2>3. ControlOK'
      BY <1>1, <1>3, <2>1, <2>2
         DEF IInv, ControlOK, CallOK, OverOperators, Allocating, Preparing, At
    <2>4. RequestsOK'
      BY <1>1, <1>3, <2>1 DEF IInv, RequestsOK, Preparing, Planning, At
    <2>5. HeadOK'
      BY <1>1, <1>3, <1>4, <2>1 DEF IInv, HeadOK, At
    <2>6. HandlesOK'
      BY <1>3, <2>1 DEF IInv, HandlesOK, HandlesNotNull, At
    <2>7. RoomOK'
      BY <2>1 DEF RoomOK, OptionalInputsHarmless, At
    <2>8. DataOK'
      <3>1. DOMAIN data = Interpreters /\ DOMAIN data' = Interpreters
        BY <1>6 DEF IInv, DataOK
      <3>2. data'[Who] = row /\ \A i \in Interpreters \ {Who} : data'[i] = data[i]
        BY <1>1, <1>6, <3>1
      <3>3. \A t \in DOMAIN row : ~(row[t] >= 0)
        BY DEF row, MmapRo, Null
      <3>4. \A t \in DOMAIN data'[Who] : ~(data'[Who][t] >= 0)
        BY <3>2, <3>3
      <3>5. ASSUME NEW i \in Interpreters, NEW t \in InMemory(i)' \ VariableTensors(i)'
            PROVE  TensorSpan(i, t)'.to \in 0 .. BufferHead + max_head_buffer_usage'
        <4>1. i # Who
          BY <3>4 DEF InMemory
        <4>2. data'[i] = data[i]
          BY <3>2, <4>1
        <4> QED BY <1>3, <4>2 DEF IInv, DataOK, InMemory, VariableTensors, TensorSpan
      <3>6. data'[Who'] = [t \in DOMAIN M'.tensors |-> IF M'.tensors[t].has_data THEN MmapRo ELSE Null]
        BY <2>2, <3>2 DEF row
      <3> QED BY <3>1, <3>5, <3>6 DEF DataOK
    <2> QED BY <1>4, <2>3, <2>4, <2>5, <2>6, <2>7, <2>8 DEF IInv
  <1> QED BY <1>3, <1>5, <1>6

\* Before the first Prepare there are no requests.
LEMMA NoRequestsYet ==
    ASSUME IInv, call.at \in Preparing, UNCHANGED requests,
           call'.at \in Preparing \cup {"prepare"}, call'.at = "prepare" => call'.op = 1
    PROVE  RequestsOK'
  <1>1. requests' = <<>> /\ Len(requests') = 0 /\ DOMAIN requests' = {}
    BY DEF IInv, RequestsOK
  <1>2. ASSUME call'.at = "prepare"
        PROVE  \E n \in 0 .. Len(requests') :
                  /\ n <= kMaxScratchBuffersPerOp * (call'.op - 1)
                  /\ Len(requests') - n <= kMaxScratchBuffersPerOp
                  /\ \A j \in DOMAIN requests' : IsUnassigned(j)' <=> j > n
    <2>1. /\ 0 <= kMaxScratchBuffersPerOp * (call'.op - 1)
          /\ Len(requests') - 0 <= kMaxScratchBuffersPerOp
      BY <1>1, <1>2, AllocatorNumbers
    <2> WITNESS 0 \in 0 .. Len(requests')
    <2> QED BY <1>1, <2>1
  <1>3. requests' \in Seq(RequestRecord)
    BY <1>1
  <1> QED BY <1>1, <1>2, <1>3 DEF RequestsOK, Preparing, Planning, At

\* AllocateNodeAndRegistrations keeps the invariant.
LEMMA NodesIInv == IInv /\ AllocateNodeAndRegistrations => IInv'
  <1> SUFFICES ASSUME IInv, AllocateNodeAndRegistrations PROVE IInv'
    OBVIOUS
  <1>1. call \in Calls /\ M \in Models /\ call.at = "nodes"
    BY CallInProgress DEF IInv, AllocateNodeAndRegistrations, At, Steps
  <1> DEFINE s == NodeSize * Len(M.operators)
  <1>2. s \in Sizes
    BY <1>1, TailSizes
  <1>3. /\ UNCHANGED <<model_is_allocating, max_head_buffer_usage, requests, model, data, handles>>
        /\ AllocateFromTail(s, kStructAlignment) \/ UNCHANGED arena
        /\ call' \in {Idle, Stopped} \/ Goto("op_data")
    BY DEF AllocateNodeAndRegistrations, FromTail, Keep, ReturnStartError, Stop,
           allocator, interpreters
  <1> HIDE DEF s
  <1>4. ArenaInv' /\ UNCHANGED <<head, temp>> /\ temp' \in Nat /\ head' <= temp'
    BY <1>1, <1>2, <1>3, TailStep, AllocatorNumbers
  <1>5. CASE call' \in {Idle, Stopped}
    BY <1>3, <1>4, <1>5, CallEnds
  <1>6. CASE Goto("op_data")
    <2>1. call' \in Calls /\ call'.at = "op_data" /\ call'.who = call.who /\ call'.op = 1
      BY <1>1, <1>6, GotoCall DEF Steps
    <2>2. 1 <= Len(M.operators)
      BY <1>1, ModelFacts
    <2>3. RequestsOK'
      BY <1>1, <1>3, <2>1, NoRequestsYet DEF Preparing
    <2> QED BY <1>1, <1>3, <1>4, <2>1, <2>2, <2>3, CallGoesOn DEF Allocating, Preparing
  <1> QED BY <1>3, <1>5, <1>6

\* The call has come to the next operator of the same step or to the next step.
LEMMA OperatorPrepared ==
    ASSUME IInv, NEW at \in {"op_data", "init"}, call.at = at,
           NEW then \in {"init", "prepare"}, NextOperator(at, then),
           UNCHANGED <<model_is_allocating, max_head_buffer_usage, requests, model, data, handles>>,
           ArenaInv', UNCHANGED <<head, temp>>
    PROVE  IInv'
  <1>1. call \in Calls /\ M \in Models
    BY CallInProgress DEF IInv, Steps
  <1>2. /\ call' \in Calls /\ call'.who = call.who /\ call'.op <= Len(M.operators)
        /\ call'.at = at \/ (call'.at = then /\ call'.op = 1)
    BY <1>1, NextOperatorCall DEF Steps
  <1>3. RequestsOK'
    BY <1>2, NoRequestsYet DEF Preparing
  <1>4. temp' \in Nat /\ head' <= temp'
    BY TempBehindHead
  <1> QED BY <1>1, <1>2, <1>3, <1>4, CallGoesOn DEF Allocating, Preparing

\* The parsers of the operators keep the invariant.
LEMMA NodeDataIInv == IInv /\ PrepareNodeData => IInv'
  <1> SUFFICES ASSUME IInv, PrepareNodeData PROVE IInv'
    OBVIOUS
  <1>1. call.at = "op_data" /\ M \in Models /\ call.op \in DOMAIN M.operators
    BY CallInProgress DEF IInv, PrepareNodeData, At, Steps, OverOperators
  <1>2. Operator.builtin_data \in Sizes
    BY <1>1, TailSizes DEF Operator
  <1>3. /\ UNCHANGED <<model_is_allocating, max_head_buffer_usage, requests, model, data, handles>>
        /\ AllocateFromTail(Operator.builtin_data, kStructAlignment) \/ UNCHANGED arena
        /\ call' \in {Idle, Stopped} \/ NextOperator("op_data", "init")
    BY DEF PrepareNodeData, FromTail, Keep, ReturnStartError, Stop, allocator, interpreters
  <1>4. ArenaInv' /\ UNCHANGED <<head, temp>> /\ temp' \in Nat /\ head' <= temp'
    BY <1>1, <1>2, <1>3, TailStep, AllocatorNumbers
  <1>5. CASE call' \in {Idle, Stopped}
    BY <1>3, <1>4, <1>5, CallEnds
  <1>6. CASE NextOperator("op_data", "init")
    BY <1>1, <1>3, <1>4, <1>6, OperatorPrepared
  <1> QED BY <1>3, <1>5, <1>6

\* The kernels' Init keeps the invariant.
LEMMA InitOperatorIInv == IInv /\ InitOperator => IInv'
  <1> SUFFICES ASSUME IInv, InitOperator PROVE IInv'
    OBVIOUS
  <1>1. call.at = "init" /\ M \in Models /\ call.op \in DOMAIN M.operators
    BY CallInProgress DEF IInv, InitOperator, At, Steps, OverOperators
  <1>2. Operator.user_data \in Sizes
    BY <1>1, TailSizes DEF Operator
  <1>3. /\ UNCHANGED <<model_is_allocating, max_head_buffer_usage, requests, model, data, handles>>
        /\ AllocateFromTail(Operator.user_data, kBufferAlignment) \/ UNCHANGED arena
        /\ NextOperator("init", "prepare")
    BY DEF InitOperator, FromTail, allocator
  <1>4. ArenaInv' /\ UNCHANGED <<head, temp>>
    BY <1>1, <1>2, <1>3, TailStep, AllocatorNumbers
  <1> QED BY <1>1, <1>3, <1>4, OperatorPrepared

\* The call after a request of a kernel.
LEMMA NextRequestCall ==
    ASSUME call \in Calls, NextRequest
    PROVE  /\ call' \in Calls /\ call'.at = call.at /\ call'.who = call.who /\ call'.op = call.op
           /\ call'.k = call.k + 1
  <1>1. call = [at |-> call.at, who |-> call.who, op |-> call.op, k |-> call.k,
                invoking |-> call.invoking]
    BY DEF Calls
  <1>2. call' = [at |-> call.at, who |-> call.who, op |-> call.op, k |-> call.k + 1,
                 invoking |-> call.invoking]
    BY <1>1 DEF NextRequest
  <1>3. /\ call.at \in Steps /\ call.who \in Interpreters /\ call.op \in Nat \ {0}
        /\ call.k + 1 \in Nat \ {0} /\ call.invoking \in BOOLEAN
    BY DEF Calls
  <1> QED BY <1>2, <1>3 DEF Calls

\* There is room for one more request of the operator, which is its last.
LEMMA RequestAdded ==
    ASSUME IInv, At("prepare"), ~TooManyRequests, NEW bytes \in Nat,
           RequestScratchBufferInArena(bytes, call.op), call'.at = "prepare", call'.op = call.op
    PROVE  RequestsOK'
  <1>1. call \in Calls /\ call.op \in Nat \ {0}
    BY CallInProgress DEF IInv, At, Steps, Calls
  <1>2. requests \in Seq(RequestRecord) /\ Len(requests) \in Nat
    BY DEF IInv, RequestsOK
  <1>3. PICK n \in 0 .. Len(requests) :
           /\ n <= kMaxScratchBuffersPerOp * (call.op - 1)
           /\ Len(requests) - n <= kMaxScratchBuffersPerOp
           /\ \A j \in DOMAIN requests : IsUnassigned(j) <=> j > n
    BY DEF IInv, RequestsOK
  <1> DEFINE r == [bytes |-> bytes, node_idx |-> kUnassignedScratchBufferRequestIndex,
                   op |-> call.op]
  <1>4. r \in RequestRecord /\ r.node_idx = kUnassignedScratchBufferRequestIndex
    BY <1>1 DEF RequestRecord
  <1>5. requests' = Append(requests, r)
    BY DEF RequestScratchBufferInArena
  <1> HIDE DEF r
  <1>6. /\ requests' \in Seq(RequestRecord) /\ Len(requests') = Len(requests) + 1
        /\ requests'[Len(requests) + 1] = r
        /\ \A j \in 1 .. Len(requests) : requests'[j] = requests[j]
        /\ DOMAIN requests' = 1 .. Len(requests) + 1 /\ DOMAIN requests = 1 .. Len(requests)
    BY <1>2, <1>4, <1>5
  <1>7. Len(requests) - n < kMaxScratchBuffersPerOp
    <2>1. {j \in DOMAIN requests : requests[j].node_idx = kUnassignedScratchBufferRequestIndex}
            = n + 1 .. Len(requests)
      BY <1>2, <1>3, <1>6 DEF IsUnassigned
    <2>2. Cardinality(n + 1 .. Len(requests)) = Len(requests) - n
      <3>1. n + 1 \in Int /\ Len(requests) \in Int
        BY <1>2
      <3>2. Cardinality(n + 1 .. Len(requests)) =
              IF n + 1 > Len(requests) THEN 0 ELSE Len(requests) - (n + 1) + 1
        BY ONLY <3>1, FS_Interval, Zenon
      <3> QED BY <1>2, <3>2
    <2>3. ~(Len(requests) - n >= kMaxScratchBuffersPerOp)
      BY <2>1, <2>2 DEF TooManyRequests
    <2> QED BY <1>2, <2>3, AllocatorNumbers
  <1>8. n \in 0 .. Len(requests') /\ Len(requests') - n <= kMaxScratchBuffersPerOp
    BY <1>2, <1>6, <1>7, AllocatorNumbers
  <1>9. ASSUME NEW j \in DOMAIN requests'
        PROVE  IsUnassigned(j)' <=> j > n
    <2>1. CASE j \in 1 .. Len(requests)
      BY <1>3, <1>6, <2>1 DEF IsUnassigned
    <2>2. CASE j = Len(requests) + 1
      BY <1>2, <1>4, <1>6, <2>2 DEF IsUnassigned
    <2> QED BY <1>2, <1>6, <2>1, <2>2
  <1> QED BY <1>3, <1>6, <1>8, <1>9 DEF RequestsOK, Preparing, Planning, At

\* A kernel that halts keeps the invariant.
LEMMA NoUserDataIInv == IInv /\ NoUserData => IInv'
  <1> SUFFICES ASSUME IInv, NoUserData PROVE IInv'
    OBVIOUS
  <1>1. ArenaInv' /\ UNCHANGED <<head, temp>>
    BY ArenaStays DEF IInv, NoUserData
  <1>2. temp \in Nat /\ head <= temp
    BY TempBehindHead DEF NoUserData, At
  <1> QED BY <1>1, <1>2, CallEnds DEF NoUserData, Stop, allocator, interpreters

\* A request of a kernel's Prepare keeps the invariant.
LEMMA PrepareIInv == IInv /\ PrepareOperator => IInv'
  <1> SUFFICES ASSUME IInv, PrepareOperator PROVE IInv'
    OBVIOUS
  <1> DEFINE request == PrepareRequests[call.k]
  <1>1. call.at = "prepare" /\ call \in Calls /\ M \in Models /\ call.op \in DOMAIN M.operators
    BY CallInProgress DEF IInv, PrepareOperator, At, Steps, OverOperators
  <1>2. request \in RequestOfKernel
    <2>1. PrepareRequests \in Seq(RequestOfKernel) /\ call.k \in 1 .. Len(PrepareRequests)
      BY <1>1, RequestsOfKernel DEF IInv, OverOperators, PrepareOperator, Calls
    <2> HIDE DEF RequestOfKernel
    <2> QED BY <2>1
  <1>3. request.bytes \in Nat /\ (request.kind # "scratch" => request.bytes \in Sizes)
    BY <1>2 DEF RequestOfKernel
  <1>4. call.op <= Len(M.operators)
    BY <1>1, ModelFacts
  <1>5. \/ /\ UNCHANGED <<model_is_allocating, max_head_buffer_usage, requests, model, data, handles>>
           /\ \/ UNCHANGED arena
              \/ /\ AllocateTemp(request.bytes, kStructAlignment)
                 /\ ~TempHitsTail(request.bytes, kStructAlignment) \/ call' = Stopped
              \/ /\ AllocateFromTail(request.bytes, kBufferAlignment)
                 /\ request.kind = "persistent"
           /\ call' \in {Idle, Stopped} \/ NextRequest
        \/ /\ UNCHANGED arena /\ request.kind = "scratch" /\ ~TooManyRequests
           /\ RequestScratchBufferInArena(request.bytes, call.op) /\ NextRequest
           /\ UNCHANGED <<model_is_allocating, max_head_buffer_usage, model, data, handles>>
    BY DEF PrepareOperator, FromTail, FromTemp, WriteRequest, Keep, ReturnError, Stop,
           allocator, interpreters
  <1>6. \/ UNCHANGED arena
        \/ /\ AllocateTemp(request.bytes, kStructAlignment)
           /\ ~TempHitsTail(request.bytes, kStructAlignment) \/ call' = Stopped
        \/ /\ AllocateFromTail(request.bytes, kBufferAlignment)
           /\ request.kind = "persistent"
    BY <1>5
  <1> HIDE DEF request
  <1>7. ArenaInv' /\ head' = head /\ temp' \in Nat /\ (call' = Stopped \/ head' <= temp')
    <2>1. temp \in Nat /\ head <= temp
      BY <1>1, TempBehindHead
    <2>2. CASE UNCHANGED arena
      BY <2>1, <2>2, ArenaStays DEF IInv
    <2>3. CASE /\ AllocateTemp(request.bytes, kStructAlignment)
               /\ ~TempHitsTail(request.bytes, kStructAlignment)
      BY <1>3, <2>1, <2>3, TempTaken, AllocatorNumbers DEF IInv
    <2>4. CASE AllocateTemp(request.bytes, kStructAlignment) /\ call' = Stopped
      BY <1>3, <2>1, <2>4, TempOverruns, AllocatorNumbers DEF IInv
    <2>5. CASE AllocateFromTail(request.bytes, kBufferAlignment) /\ request.kind = "persistent"
      BY <1>1, <1>3, <2>5, TailStep, AllocatorNumbers
    <2> QED BY <1>6, <2>2, <2>3, <2>4, <2>5
  <1>8. ASSUME UNCHANGED <<model_is_allocating, max_head_buffer_usage, requests, model, data, handles>>,
               call' \in {Idle, Stopped}
        PROVE  IInv'
    BY <1>7, <1>8, CallEnds
  <1>9. ASSUME UNCHANGED <<model_is_allocating, max_head_buffer_usage, model, data, handles>>,
               NextRequest, RequestsOK'
        PROVE  IInv'
    <2>1. call' \in Calls /\ call'.at = "prepare" /\ call'.who = call.who /\ call'.op = call.op
      BY <1>1, <1>9, NextRequestCall
    <2>2. head' <= temp'
      BY <1>7, <2>1 DEF Stopped
    <2> QED BY <1>1, <1>4, <1>7, <1>9, <2>1, <2>2, CallGoesOn DEF Allocating
  <1>10. ASSUME NextRequest, UNCHANGED requests
         PROVE  RequestsOK'
    <2>1. call'.at = "prepare" /\ call'.op = call.op
      BY <1>1, <1>10, NextRequestCall
    <2> QED BY <1>1, <1>10, <2>1 DEF IInv, RequestsOK, IsUnassigned, Preparing, Planning, At
  <1>11. ASSUME NextRequest, ~TooManyRequests, RequestScratchBufferInArena(request.bytes, call.op)
         PROVE  RequestsOK'
    <2>1. call'.at = "prepare" /\ call'.op = call.op
      BY <1>1, <1>11, NextRequestCall
    <2> QED BY <1>1, <1>3, <1>11, <2>1, RequestAdded DEF At
  <1> QED BY <1>5, <1>8, <1>9, <1>10, <1>11

\* The end of a kernel's Prepare: all requests are assigned.
LEMMA FinishPrepareIInv == IInv /\ FinishPrepare => IInv'
  <1> SUFFICES ASSUME IInv, FinishPrepare PROVE IInv'
    OBVIOUS
  <1>1. call.at = "prepare" /\ call \in Calls /\ M \in Models /\ call.op \in DOMAIN M.operators
    BY CallInProgress DEF IInv, FinishPrepare, At, Steps, OverOperators
  <1>2. call.op \in Nat \ {0} /\ call.op <= Len(M.operators)
    BY <1>1, ModelFacts DEF Calls
  <1>3. \/ /\ call' = Idle /\ UNCHANGED arena
           /\ UNCHANGED <<model_is_allocating, max_head_buffer_usage, requests, model, data, handles>>
        \/ /\ ResetTempAllocations /\ AssignRequests(call.op - 1)
           /\ call' = [call EXCEPT !.at = "adjust_head"]
           /\ UNCHANGED <<model_is_allocating, max_head_buffer_usage, model, data, handles>>
    BY DEF FinishPrepare, ReturnError, allocator, interpreters
  <1>4. CASE /\ call' = Idle /\ UNCHANGED arena
             /\ UNCHANGED <<model_is_allocating, max_head_buffer_usage, requests, model, data, handles>>
    <2>1. ArenaInv' /\ UNCHANGED <<head, temp>>
      BY <1>4, ArenaStays DEF IInv
    <2>2. temp \in Nat /\ head <= temp
      BY <1>1, TempBehindHead
    <2> QED BY <1>4, <2>1, <2>2, CallEnds
  <1>5. CASE /\ ResetTempAllocations /\ AssignRequests(call.op - 1)
             /\ call' = [call EXCEPT !.at = "adjust_head"]
             /\ UNCHANGED <<model_is_allocating, max_head_buffer_usage, model, data, handles>>
    <2>1. ArenaInv' /\ head' = head /\ temp' \in Nat /\ head' <= temp'
      BY <1>5, TempsReset DEF IInv
    <2>2. call' \in Calls /\ call'.at = "adjust_head" /\ call'.who = call.who /\ call'.op = call.op
      <3>1. call = [at |-> call.at, who |-> call.who, op |-> call.op, k |-> call.k,
                    invoking |-> call.invoking]
        BY <1>1 DEF Calls
      <3>2. call' = [at |-> "adjust_head", who |-> call.who, op |-> call.op, k |-> call.k,
                     invoking |-> call.invoking]
        BY <1>5, <3>1
      <3>3. /\ call.who \in Interpreters /\ call.op \in Nat \ {0}
            /\ call.k \in Nat \ {0} /\ call.invoking \in BOOLEAN
        BY <1>1 DEF Calls
      <3> QED BY <3>2, <3>3 DEF Calls, Steps
    <2>3. RequestsOK'
      <3>1. PICK n \in 0 .. Len(requests) :
               /\ n <= kMaxScratchBuffersPerOp * (call.op - 1)
               /\ Len(requests) - n <= kMaxScratchBuffersPerOp
        BY <1>1 DEF IInv, RequestsOK, At
      <3>2. requests \in Seq(RequestRecord) /\ Len(requests) \in Nat
        BY DEF IInv, RequestsOK
      <3>3. Len(requests) <= kMaxScratchBuffersPerOp * call.op
        <4>1. kMaxScratchBuffersPerOp * (call.op - 1)
                = kMaxScratchBuffersPerOp * call.op - kMaxScratchBuffersPerOp
          BY <1>2, AllocatorNumbers
        <4>2. kMaxScratchBuffersPerOp * call.op \in Int /\ kMaxScratchBuffersPerOp \in Int
          BY <1>2, AllocatorNumbers
        <4> HIDE DEF IInv
        <4> QED BY <3>1, <3>2, <4>1, <4>2
      <3>4. ASSUME NEW j \in DOMAIN requests
            PROVE  requests'[j] \in RequestRecord /\ ~(requests'[j].node_idx = -1)
        <4>1. requests[j] \in RequestRecord
          BY <3>2
        <4>2. requests'[j] = IF requests[j].node_idx = -1
                             THEN [requests[j] EXCEPT !.node_idx = call.op - 1] ELSE requests[j]
          BY <1>5 DEF AssignRequests, kUnassignedScratchBufferRequestIndex
        <4>3. call.op - 1 \in Nat
          BY <1>2
        <4> QED BY <4>1, <4>2, <4>3 DEF RequestRecord, kUnassignedScratchBufferRequestIndex
      <3>5. /\ DOMAIN requests' = DOMAIN requests /\ DOMAIN requests = 1 .. Len(requests)
            /\ requests' = [j \in DOMAIN requests |-> requests'[j]]
        BY <1>5, <3>2 DEF AssignRequests
      <3>6. requests' \in Seq(RequestRecord) /\ Len(requests') = Len(requests)
        BY <3>2, <3>4, <3>5
      <3> QED BY <1>2, <2>2, <3>3, <3>4, <3>5, <3>6
              DEF RequestsOK, IsUnassigned, kUnassignedScratchBufferRequestIndex,
                  Preparing, Planning, At
    <2> QED BY <1>1, <1>2, <1>5, <2>1, <2>2, <2>3, CallGoesOn DEF Allocating
  <1> QED BY <1>3, <1>4, <1>5

\* The head gets room for the requests of the next operator, or stays.
LEMMA AdjustHeadIInv == IInv /\ AdjustHead => IInv'
  <1> SUFFICES ASSUME IInv, AdjustHead PROVE IInv'
    OBVIOUS
  <1>1. call.at = "adjust_head" /\ call \in Calls /\ M \in Models /\ call.op \in DOMAIN M.operators
    BY CallInProgress DEF IInv, AdjustHead, At, Steps, OverOperators
  <1>2. call.op \in Nat \ {0} /\ call.op <= Len(M.operators) /\ Len(M.operators) \in Nat
    BY <1>1, ModelFacts DEF Calls
  <1>3. /\ requests \in Seq(RequestRecord) /\ Len(requests) \in Nat
        /\ Len(requests) <= kMaxScratchBuffersPerOp * call.op
        /\ \A j \in DOMAIN requests : j <= Len(requests) /\ ~IsUnassigned(j)
    BY <1>1 DEF IInv, RequestsOK, At
  <1>4. RequestRoom(Len(requests)) \in Nat
    BY <1>3, AllocatorNumbers DEF RequestRoom
  <1>5. /\ \/ SetHeadBufferSize(RequestRoom(Len(requests)), kStructAlignment)
           \/ UNCHANGED arena /\ ignored' = TRUE
        /\ UNCHANGED <<model_is_allocating, max_head_buffer_usage, requests, model, data, handles>>
        /\ NextOperator("prepare", "handles")
    BY DEF AdjustHead, SetHead, allocator, interpreters
  <1>6. /\ call' \in Calls /\ call'.who = call.who
        /\ \/ call'.at = "prepare" /\ call'.op = call.op + 1 /\ call'.op <= Len(M.operators)
           \/ /\ call'.at = "handles" /\ call'.op = 1 /\ call.op >= Len(M.operators)
              /\ call'.op <= Len(M.operators)
    BY <1>1, <1>5, NextOperatorCall DEF Steps
  <1>7. /\ ArenaInv' /\ temp' \in Nat /\ head' <= temp'
        /\ ~ignored' => /\ head' = BufferHead + RequestRoom(Len(requests))
                        /\ temp' = head' /\ temps' = {}
    <2>1. CASE SetHeadBufferSize(RequestRoom(Len(requests)), kStructAlignment)
      BY <1>4, <2>1, HeadSet, AllocatorNumbers DEF IInv
    <2>2. CASE UNCHANGED arena /\ ignored' = TRUE
      BY <1>1, <2>2, ArenaStays, TempBehindHead DEF IInv
    <2> QED BY <1>5, <2>1, <2>2
  <1>8. M' = M
    BY <1>5, <1>6 DEF M
  <1>9. model_is_allocating
    BY <1>1 DEF IInv, ControlOK, Allocating
  <1>10. ControlOK'
    BY <1>5, <1>6, <1>8, <1>9 DEF IInv, ControlOK, CallOK, At, OverOperators
  <1>11. RequestsOK'
    <2>1. CASE call'.at = "prepare"
      <3>1. call'.op = call.op + 1
        BY <1>6, <2>1
      <3>2. call'.op - 1 = call.op
        BY <1>2, <3>1
      <3>3. /\ Len(requests) \in 0 .. Len(requests)
            /\ Len(requests) <= kMaxScratchBuffersPerOp * (call'.op - 1)
            /\ Len(requests) - Len(requests) <= kMaxScratchBuffersPerOp
        BY <1>3, <3>2, AllocatorNumbers
      <3>4. \A j \in DOMAIN requests : IsUnassigned(j)' <=> j > Len(requests)
        BY <1>3, <1>5 DEF IsUnassigned
      <3> QED BY <1>3, <1>5, <2>1, <3>3, <3>4 DEF RequestsOK, Preparing, Planning, At
    <2>2. CASE call'.at = "handles"
      <3>1. call.op = Len(M.operators)
        BY <1>2, <1>6, <2>2
      <3> QED BY <1>3, <1>5, <1>8, <2>2, <3>1
              DEF RequestsOK, IsUnassigned, Preparing, Planning, At
    <2> QED BY <1>6, <2>1, <2>2
  <1>12. HeadOK'
    BY <1>5, <1>6, <1>7, <1>9 DEF HeadOK, At
  <1>13. HandlesOK'
    BY <1>5, <1>6 DEF IInv, HandlesOK, HandlesNotNull, At
  <1>14. RoomOK'
    <2>1. RequestRoom(Len(requests))' = RequestRoom(Len(requests))
      BY <1>5 DEF RequestRoom
    <2> QED BY <1>5, <1>6, <1>7, <2>1 DEF RoomOK, OptionalInputsHarmless, At
  <1>15. DataOK'
    <2>1. DOMAIN data' = Interpreters
      BY <1>5 DEF IInv, DataOK
    <2>2. \A i \in Interpreters : \A t \in InMemory(i)' \ VariableTensors(i)' :
             TensorSpan(i, t)'.to \in 0 .. BufferHead + max_head_buffer_usage'
      BY <1>5 DEF IInv, DataOK, InMemory, VariableTensors, TensorSpan
    <2>3. data'[call'.who] =
             [t \in DOMAIN M'.tensors |-> IF M'.tensors[t].has_data THEN MmapRo ELSE Null]
      BY <1>1, <1>5, <1>6, <1>8 DEF IInv, DataOK, Who
    <2> QED BY <2>1, <2>2, <2>3 DEF DataOK, Who
  <1> QED BY <1>7, <1>10, <1>11, <1>12, <1>13, <1>14, <1>15 DEF IInv

\* The steps of CommitStaticMemoryPlan.
LEMMA PlanningGoesOn ==
    ASSUME IInv, ArenaInv', call.at \in Planning, NEW at \in Planning, Goto(at),
           UNCHANGED <<model_is_allocating, max_head_buffer_usage, requests, model, data>>,
           temp' \in Nat, head' <= temp', HandlesOK', RoomOK'
    PROVE  IInv'
  <1>1. call \in Calls /\ M \in Models
    BY CallInProgress DEF IInv, Planning, Steps
  <1>2. call' \in Calls /\ call'.at = at /\ call'.who = call.who
    BY <1>1, GotoCall DEF Planning, Steps
  <1>3. M' = M /\ Who' = Who
    BY <1>2 DEF M, Who
  <1>4. model_is_allocating
    BY DEF IInv, ControlOK, Allocating
  <1>5. ControlOK'
    BY <1>2, <1>4 DEF IInv, ControlOK, CallOK, At, Planning, OverOperators
  <1>6. RequestsOK'
    BY <1>2, <1>3 DEF IInv, RequestsOK, IsUnassigned, Preparing, Planning, At
  <1>7. HeadOK'
    BY <1>2, <1>4 DEF HeadOK, Planning, At
  <1>8. DataOK'
    <2>1. DOMAIN data' = Interpreters
      BY DEF IInv, DataOK
    <2>2. \A i \in Interpreters : \A t \in InMemory(i)' \ VariableTensors(i)' :
             TensorSpan(i, t)'.to \in 0 .. BufferHead + max_head_buffer_usage'
      BY DEF IInv, DataOK, InMemory, VariableTensors, TensorSpan
    <2>3. data'[Who'] =
             [t \in DOMAIN M'.tensors |-> IF M'.tensors[t].has_data THEN MmapRo ELSE Null]
      BY <1>3 DEF IInv, DataOK
    <2> QED BY <2>1, <2>2, <2>3 DEF DataOK
  <1> QED BY <1>5, <1>6, <1>7, <1>8 DEF IInv

\* Handles that are missing did not fit.
LEMMA HandlesIInv == IInv /\ AllocateScratchBufferHandles => IInv'
  <1> SUFFICES ASSUME IInv, AllocateScratchBufferHandles PROVE IInv'
    OBVIOUS
  <1>1. /\ call.at = "handles" /\ call \in Calls /\ M \in Models /\ Who \in Interpreters
    BY CallInProgress DEF IInv, AllocateScratchBufferHandles, At, Steps
  <1> DEFINE s == HandleSize * Len(requests)
  <1>2. s \in Sizes
    <2>1. Len(requests) \in 0 .. kMaxScratchBuffersPerOp * Len(M.operators)
      <3>1. Len(requests) \in Nat /\ Len(requests) <= kMaxScratchBuffersPerOp * Len(M.operators)
        BY <1>1 DEF IInv, RequestsOK, Planning
      <3>2. Len(M.operators) \in Nat
        BY <1>1, ModelFacts
      <3>3. kMaxScratchBuffersPerOp * Len(M.operators) \in Int
        BY <3>2, AllocatorNumbers
      <3> QED BY <3>1, <3>3
    <2> QED BY <1>1, <2>1, TailSizes
  <1>3. /\ UNCHANGED <<model_is_allocating, max_head_buffer_usage, requests, model, data, ignored>>
        /\ Goto("info")
        /\ \/ requests = <<>> /\ UNCHANGED <<handles, arena>>
           \/ AllocateFromTail(s, kStructAlignment) /\ handles' = [handles EXCEPT ![Who] = TRUE]
           \/ call' = Stopped
           \/ /\ ~TailFits(s, kStructAlignment) /\ UNCHANGED arena
              /\ handles' = [handles EXCEPT ![Who] = FALSE]
    BY DEF AllocateScratchBufferHandles, FromTail, Stop, allocator
  <1> HIDE DEF s
  <1>4. call'.at = "info" /\ call'.who = call.who
    BY <1>1, <1>3, GotoCall DEF Steps
  <1>5. call' # Stopped
    BY <1>4 DEF Stopped
  <1>6. /\ ArenaInv' /\ UNCHANGED <<head, temp, temps>> /\ temp' \in Nat /\ head' <= temp'
    BY <1>1, <1>2, <1>3, <1>5, TailStep, AllocatorNumbers
  <1>7. handles \in [Interpreters -> BOOLEAN]
    BY DEF IInv, HandlesOK
  <1>8. Who' = Who
    BY <1>4 DEF Who
  <1>9. HandlesOK'
    <2>1. handles' \in [Interpreters -> BOOLEAN]
      BY <1>1, <1>3, <1>5, <1>7
    <2>2. ASSUME requests' # <<>>, ~handles'[Who']
          PROVE  ~TailFits(HandleSize * Len(requests), kStructAlignment)'
      <3>1. ~TailFits(s, kStructAlignment) /\ UNCHANGED arena
        BY <1>1, <1>3, <1>5, <1>7, <1>8, <2>2
      <3>2. HandleSize * Len(requests') = s /\ UNCHANGED <<head, tail>>
        BY <1>3, <3>1 DEF s, arena
      <3> QED BY <3>1, <3>2 DEF TailFits, TailResult
    <2> QED BY <1>4, <2>1, <2>2 DEF HandlesOK, HandlesNotNull, At
  <1>10. RoomOK'
    BY <1>1, <1>3, <1>4, <1>6 DEF IInv, RoomOK, OptionalInputsHarmless, RequestRoom, At
  <1> QED BY <1>1, <1>3, <1>6, <1>9, <1>10, PlanningGoesOn DEF Planning

\* Aligning down does not go below an aligned address.
LEMMA AlignDownAbove ==
    ASSUME NEW p \in Nat, NEW a \in Nat \ {0}, NEW q \in Nat, a * q <= p
    PROVE  a * q <= AlignDown(p, a)
  <1> DEFINE d == p \div a
             r == p % a
  <1>1. d \in Int /\ r \in 0 .. a - 1 /\ p = a * d + r
    BY DivMod
  <1>2. AlignDown(p, a) = d * a
    BY DEF AlignDown
  <1> HIDE DEF d, r
  <1>3. q <= d
    <2>1. SUFFICES ASSUME d + 1 <= q PROVE FALSE
      BY <1>1
    <2>2. a * (d + 1) <= a * q
      BY <1>1, <2>1
    <2>3. a * (d + 1) = a * d + a
      BY <1>1
    <2> QED BY <1>1, <2>2, <2>3
  <1>4. a * q <= a * d /\ a * d = d * a
    BY <1>1, <1>3
  <1> QED BY <1>2, <1>4

\* Where there is room for temporary memory there is room for as much at the tail.
LEMMA TailFitsToo ==
    ASSUME IInv, call.at # "stopped", NEW a \in Nat \ {0}, NEW s \in Nat,
           AlignUp(temp, a) + s <= tail
    PROVE  TailFits(s, a)
  <1>1. head \in Nat /\ tail \in Nat /\ tail < AddressSpace /\ temp \in Nat /\ head <= temp
    BY ArenaNumbers, TempBehindHead DEF IInv
  <1>2. PICK q \in Nat : AlignUp(temp, a) = a * q
    BY <1>1, AlignUpAbove
  <1>3. AlignUp(temp, a) \in Nat /\ temp <= AlignUp(temp, a)
    BY <1>1, AlignUpAbove
  <1>4. tail - s \in Nat /\ tail - s < AddressSpace /\ AlignUp(temp, a) <= tail - s
    BY <1>1, <1>3, AllocatorNumbers
  <1>5. AlignDown(tail - s, a) >= AlignUp(temp, a)
    <2> DEFINE p == tail - s
    <2>1. p \in Nat /\ a * q <= p
      BY <1>2, <1>4
    <2> HIDE DEF p
    <2>2. a * q <= AlignDown(p, a)
      BY <2>1, AlignDownAbove
    <2>3. AlignDown(p, a) \in Nat
      BY <2>1, AlignDownBelow
    <2> QED BY <1>2, <1>3, <2>2, <2>3 DEF p
  <1>6. AlignDown(tail - s, a) \in Nat
    BY <1>4, AlignDownBelow
  <1>7. SizeT(tail - s) = tail - s
    BY <1>4, SizeTInRange
  <1> QED BY <1>1, <1>3, <1>5, <1>6, <1>7 DEF TailFits, TailResult

\* The allocation info lies behind the requests.
LEMMA InfoIInv == IInv /\ AllocateInfo => IInv'
  <1> SUFFICES ASSUME IInv, AllocateInfo PROVE IInv'
    OBVIOUS
  <1>1. call.at = "info" /\ call \in Calls /\ M \in Models /\ Who \in Interpreters
    BY CallInProgress DEF IInv, AllocateInfo, At, Steps
  <1> DEFINE N == Len(requests)
             T == Len(M.tensors)
  <1>2. N \in Nat /\ T \in Nat
    BY <1>1, ModelFacts DEF IInv, RequestsOK
  <1>3. InfoBytes = AllocationInfoSize * (T + N)
    BY DEF InfoBytes
  <1>4. /\ UNCHANGED <<model_is_allocating, max_head_buffer_usage, requests, model, data, handles,
                       ignored>>
        /\ \/ UNCHANGED arena /\ call' \in {Idle, Stopped}
           \/ /\ AllocateTemp(InfoBytes, kStructAlignment)
              /\ \/ ~TempHitsTail(InfoBytes, kStructAlignment) /\ Goto("plan")
                 \/ call' = Stopped
    BY DEF AllocateInfo, FromTemp, Keep, ReturnError, Stop, allocator, interpreters
  <1>5. temp \in Nat /\ head <= temp
    BY <1>1, TempBehindHead
  <1>6. CASE UNCHANGED arena /\ call' \in {Idle, Stopped}
    <2>1. ArenaInv' /\ UNCHANGED <<head, temp>>
      BY <1>6, ArenaStays DEF IInv
    <2> QED BY <1>4, <1>5, <1>6, <2>1, CallEnds
  <1> HIDE DEF N, T
  <1>8. InfoBytes \in Nat /\ InfoBytes >= HandleSize * N
    <2>1. HandleSize * N <= AllocationInfoSize * N
      BY <1>2, AllocatorNumbers, StructsAssumption
    <2>2. AllocationInfoSize * (T + N) = AllocationInfoSize * T + AllocationInfoSize * N
      BY <1>2, AllocatorNumbers
    <2>3. /\ AllocationInfoSize * T \in Nat /\ AllocationInfoSize * N \in Nat
          /\ HandleSize * N \in Nat
      BY <1>2, AllocatorNumbers
    <2> QED BY <1>3, <2>1, <2>2, <2>3
  <1>7. CASE /\ AllocateTemp(InfoBytes, kStructAlignment)
             /\ ~TempHitsTail(InfoBytes, kStructAlignment)
             /\ Goto("plan")
    <2>2. /\ ArenaInv' /\ AlignUp(temp, kStructAlignment) + InfoBytes <= tail
          /\ temp' \in Nat /\ head' <= temp'
          /\ temps' = temps \cup {[from |-> AlignUp(temp, kStructAlignment), to |-> temp']}
      BY <1>5, <1>7, <1>8, TempTaken, AllocatorNumbers DEF IInv
    <2>3. AlignUp(temp, kStructAlignment) \in Nat /\ temp <= AlignUp(temp, kStructAlignment)
      BY <1>5, AlignUpAbove, AllocatorNumbers
    <2>4. call'.at = "plan" /\ call'.who = call.who
      BY <1>1, <1>7, GotoCall DEF Steps
    <2>5. HandlesOK'
      <3>1. HandleSize * N \in Nat /\ AlignUp(temp, kStructAlignment) + HandleSize * N <= tail
        <4>1. HandleSize * N \in Nat /\ tail \in Nat
          BY <1>2, AllocatorNumbers, ArenaNumbers DEF IInv
        <4> QED BY <1>8, <2>2, <2>3, <4>1
      <3>2. TailFits(HandleSize * N, kStructAlignment)
        BY <1>1, <3>1, TailFitsToo, AllocatorNumbers
      <3>3. requests # <<>> => handles[Who]
        BY <1>1, <3>2 DEF IInv, HandlesOK, At, N
      <3>4. Who' = Who
        BY <2>4 DEF Who
      <3> QED BY <1>4, <2>4, <3>3, <3>4 DEF IInv, HandlesOK, HandlesNotNull, At
    <2>6. RoomOK'
      <3>1. SUFFICES ASSUME ~ignored
                     PROVE  BufferHead + RequestSize * N
                              <= AlignUp(temp, kStructAlignment) - AllocationInfoSize
                            /\ temps = {}
        BY <1>4, <2>2, <2>4 DEF RoomOK, OptionalInputsHarmless, At, N
      <3>2. temp = BufferHead + RequestSize * (N + kMaxScratchBuffersPerOp) /\ temps = {}
        BY <1>1, <3>1 DEF IInv, RoomOK, RequestRoom, N
      <3>3. RequestSize * (N + kMaxScratchBuffersPerOp)
              = RequestSize * N + RequestSize * kMaxScratchBuffersPerOp
        BY <1>2, AllocatorNumbers
      <3>4. RequestSize * N \in Nat /\ RequestSize * kMaxScratchBuffersPerOp \in Nat
        BY <1>2, AllocatorNumbers
      <3> QED BY <2>3, <3>2, <3>3, <3>4, AllocatorNumbers, StructsAssumption
    <2> QED BY <1>1, <1>4, <1>7, <2>2, <2>5, <2>6, PlanningGoesOn DEF Planning
  <1>9. CASE AllocateTemp(InfoBytes, kStructAlignment) /\ call' = Stopped
    <2>1. ArenaInv' /\ head' = head /\ temp' \in Nat
      BY <1>5, <1>8, <1>9, TempOverruns, AllocatorNumbers DEF IInv
    <2> QED BY <1>4, <1>9, <2>1, CallEnds
  <1> QED BY <1>4, <1>6, <1>7, <1>9

\* The planner's memory lies behind the allocation info.
LEMMA CreatePlanIInv == IInv /\ CreatePlan => IInv'
  <1> SUFFICES ASSUME IInv, CreatePlan PROVE IInv'
    OBVIOUS
  <1> DEFINE s == GetAvailableMemory(kBufferAlignment)
  <1>1. call.at = "plan" /\ call \in Calls
    BY CallInProgress DEF IInv, CreatePlan, At, Steps
  <1>2. s \in Nat
    <2>1. temp \in Nat /\ tail \in Nat
      BY ArenaNumbers DEF IInv, HeadOK
    <2> DEFINE x == AlignDown(tail, kBufferAlignment) - AlignUp(temp, kBufferAlignment)
    <2>2. x \in Int
      BY <2>1, AlignDownBelow, AlignUpAbove, AllocatorNumbers
    <2>3. s = x % AddressSpace
      BY DEF GetAvailableMemory, SizeT
    <2> HIDE DEF x, s
    <2> QED BY <2>2, <2>3, DivMod, AllocatorNumbers
  <1>3. /\ UNCHANGED <<model_is_allocating, max_head_buffer_usage, requests, model, data, handles>>
        /\ \/ UNCHANGED arena
           \/ /\ AllocateTemp(s, kBufferAlignment)
              /\ ~TempHitsTail(s, kBufferAlignment) \/ call' = Stopped
        /\ call' \in {Idle, Stopped} \/ Goto("commit")
    BY DEF CreatePlan, FromTemp, Keep, ReturnError, Stop, allocator, interpreters
  <1> HIDE DEF s
  <1>4. ArenaInv' /\ head' = head /\ temp' \in Nat /\ (call' = Stopped \/ head' <= temp')
    <2>1. temp \in Nat /\ head <= temp
      BY <1>1, TempBehindHead
    <2>2. CASE UNCHANGED arena
      BY <2>1, <2>2, ArenaStays DEF IInv
    <2>3. CASE AllocateTemp(s, kBufferAlignment) /\ ~TempHitsTail(s, kBufferAlignment)
      BY <1>2, <2>1, <2>3, TempTaken, AllocatorNumbers DEF IInv
    <2>4. CASE AllocateTemp(s, kBufferAlignment) /\ call' = Stopped
      BY <1>2, <2>1, <2>4, TempOverruns, AllocatorNumbers DEF IInv
    <2> QED BY <1>3, <2>2, <2>3, <2>4
  <1>5. CASE call' \in {Idle, Stopped}
    BY <1>3, <1>4, <1>5, CallEnds
  <1>6. CASE Goto("commit")
    <2>1. call'.at = "commit"
      BY <1>1, <1>6, GotoCall DEF Steps
    <2>2. HandlesOK'
      BY <1>3, <2>1 DEF IInv, HandlesOK, HandlesNotNull, At
    <2>3. RoomOK'
      BY <2>1 DEF RoomOK, OptionalInputsHarmless, At
    <2>4. call' # Stopped
      BY <2>1 DEF Stopped
    <2> QED BY <1>1, <1>3, <1>4, <1>6, <2>2, <2>3, <2>4, PlanningGoesOn DEF Planning
  <1> QED BY <1>3, <1>5, <1>6

\* CommitPlan: what it puts into memory ends within the plan.
LEMMA CommitIInv == IInv /\ CommitPlan => IInv'
  <1> SUFFICES ASSUME IInv, CommitPlan PROVE IInv'
    OBVIOUS
  <1>1. call.at = "commit" /\ call \in Calls /\ M \in Models /\ Who \in Interpreters
    BY CallInProgress DEF IInv, CommitPlan, At, Steps
  <1> DEFINE planned == PlannedTensors(M)
             req == Requirements(M)
             list == Plan(req)
             size == PlanSize(req, list)
             Address(n) == BufferHead
                             + (CHOOSE e \in ToSet(list) : e.requirements_index = n).offset
             IsPlanned(t) == \E n \in DOMAIN planned : planned[n] = t
             row == [t \in DOMAIN M.tensors |->
                       IF IsPlanned(t) THEN Address(CHOOSE n \in DOMAIN planned : planned[n] = t)
                       ELSE data[Who][t]]
  <1>2. ResetTempAllocations
    BY DEF CommitPlan
  <1>3. ArenaInv' /\ head' = head /\ temp' \in Nat /\ head' <= temp'
    BY <1>2, TempsReset DEF IInv
  <1>4. \/ /\ call' = Idle
           /\ UNCHANGED <<model_is_allocating, max_head_buffer_usage, requests, model, data, handles>>
        \/ /\ Goto("plan_head")
           /\ data' = [data EXCEPT ![Who] = row]
           /\ max_head_buffer_usage' = IF size > max_head_buffer_usage THEN size
                                       ELSE max_head_buffer_usage
           /\ UNCHANGED <<model_is_allocating, requests, model, handles>>
    BY DEF CommitPlan, ReturnError, allocator, interpreters
  <1> HIDE DEF row, size
  <1>5. CASE /\ call' = Idle
             /\ UNCHANGED <<model_is_allocating, max_head_buffer_usage, requests, model, data, handles>>
    BY <1>3, <1>5, CallEnds
  <1>6. CASE /\ Goto("plan_head")
             /\ data' = [data EXCEPT ![Who] = row]
             /\ max_head_buffer_usage' = IF size > max_head_buffer_usage THEN size
                                         ELSE max_head_buffer_usage
             /\ UNCHANGED <<model_is_allocating, requests, model, handles>>
    <2>1. call' \in Calls /\ call'.at = "plan_head" /\ call'.who = call.who
      BY <1>1, <1>6, GotoCall DEF Steps
    <2>2. requests \in Seq(RequestRecord)
      BY DEF IInv, RequestsOK
    <2>3. /\ AreRequirements(req)
          /\ \A n \in DOMAIN planned :
                n \in DOMAIN req /\ req[n].size = AlignedBytes(M.tensors[planned[n]].bytes)
      BY <1>1, <2>2, RequirementsGiven
    <2>4. size \in Nat
      BY <2>3, PlanSizeCovers DEF size
    <2>5. /\ max_head_buffer_usage' \in Nat /\ size <= max_head_buffer_usage'
          /\ max_head_buffer_usage <= max_head_buffer_usage' /\ max_head_buffer_usage \in Nat
      BY <1>6, <2>4 DEF IInv, ControlOK
    <2>6. model_is_allocating
      BY <1>1 DEF IInv, ControlOK, Allocating, Planning
    <2>7. ControlOK'
      BY <1>6, <2>1, <2>5, <2>6 DEF IInv, ControlOK, CallOK, OverOperators, At
    <2>8. RequestsOK'
      BY <1>6, <2>1 DEF IInv, RequestsOK, Preparing, Planning, At
    <2>9. HeadOK'
      BY <1>3, <1>6, <2>1, <2>6 DEF HeadOK, At
    <2>10. HandlesOK'
      BY <1>6, <2>1 DEF IInv, HandlesOK, HandlesNotNull, At
    <2>11. RoomOK'
      BY <2>1 DEF RoomOK, OptionalInputsHarmless, At
    <2>12. DOMAIN data = Interpreters
      BY DEF IInv, DataOK
    <2>13. DOMAIN data' = Interpreters /\ data'[Who] = row
           /\ \A i \in Interpreters \ {Who} : data'[i] = data[i]
      BY <1>1, <1>6, <2>12
    <2>14. ASSUME NEW t \in DOMAIN M.tensors, row[t] >= 0
           PROVE  row[t] + M.tensors[t].bytes \in 0 .. BufferHead + size
      <3>1. IsPlanned(t)
        <4>1. SUFFICES ASSUME ~IsPlanned(t) PROVE FALSE
          OBVIOUS
        <4>2. row[t] = data[Who][t]
          BY <4>1 DEF row
        <4>3. data[Who][t] = IF M.tensors[t].has_data THEN MmapRo ELSE Null
          BY <1>1 DEF IInv, DataOK, Planning
        <4> QED BY <2>14, <4>2, <4>3 DEF MmapRo, Null
      <3> DEFINE n == CHOOSE x \in DOMAIN planned : planned[x] = t
                 e == CHOOSE x \in ToSet(list) : x.requirements_index = n
      <3>2. n \in DOMAIN planned /\ planned[n] = t
        BY <3>1
      <3>3. row[t] = BufferHead + e.offset
        BY <3>1 DEF row
      <3> HIDE DEF n
      <3>4. n \in DOMAIN req /\ req[n].size = AlignedBytes(M.tensors[t].bytes)
        BY <2>3, <3>2
      <3> HIDE DEF req
      <3>5. e.offset \in Nat /\ e.offset + req[n].size <= size
        BY <2>3, <3>4, PlaceOfBuffer DEF size
      <3>6. M.tensors[t] \in TensorRecord
        BY <1>1, ModelFacts
      <3>7. M.tensors[t].bytes \in Nat
        BY <3>6 DEF TensorRecord
      <3>8. M.tensors[t].bytes <= req[n].size /\ req[n].size \in Nat
        BY <3>4, <3>7, AlignUpAbove, AllocatorNumbers DEF AlignedBytes
      <3> HIDE DEF e
      <3> QED BY <2>4, <3>3, <3>5, <3>7, <3>8, AllocatorNumbers
    <2>15. DataOK'
      <3>1. ASSUME NEW i \in Interpreters, NEW t \in InMemory(i)' \ VariableTensors(i)'
            PROVE  TensorSpan(i, t)'.to \in 0 .. BufferHead + max_head_buffer_usage'
        <4>1. CASE i = Who
          <5>1. t \in DOMAIN row /\ row[t] >= 0
            BY <2>13, <4>1 DEF InMemory
          <5>2. t \in DOMAIN M.tensors
            BY <5>1 DEF row
          <5>3. row[t] + M.tensors[t].bytes \in 0 .. BufferHead + size
            BY <2>14, <5>1, <5>2
          <5>4. TensorSpan(i, t)'.to = row[t] + M.tensors[t].bytes
            BY <1>6, <2>13, <4>1 DEF TensorSpan, Span, M, Who
          <5> QED BY <2>4, <2>5, <5>3, <5>4, AllocatorNumbers
        <4>2. CASE i # Who
          <5>1. data'[i] = data[i] /\ model'[i] = model[i]
            BY <1>6, <2>13, <4>2
          <5>2. t \in InMemory(i) \ VariableTensors(i)
            BY <5>1 DEF InMemory, VariableTensors
          <5>3. TensorSpan(i, t)'.to = TensorSpan(i, t).to
            BY <5>1 DEF TensorSpan
          <5>4. TensorSpan(i, t).to \in 0 .. BufferHead + max_head_buffer_usage
            BY <5>2 DEF IInv, DataOK
          <5> QED BY <2>5, <5>3, <5>4, AllocatorNumbers
        <4> QED BY <4>1, <4>2
      <3> QED BY <2>1, <2>13, <3>1 DEF DataOK, Planning
    <2> QED BY <1>3, <2>7, <2>8, <2>9, <2>10, <2>11, <2>15 DEF IInv
  <1> QED BY <1>4, <1>5, <1>6

\* The head is made as large as the largest plan.
LEMMA SetPlanHeadIInv == IInv /\ SetPlanHead => IInv'
  <1> SUFFICES ASSUME IInv, SetPlanHead PROVE IInv'
    OBVIOUS
  <1>1. call.at = "plan_head" /\ call \in Calls
    BY CallInProgress DEF IInv, SetPlanHead, At, Steps
  <1>2. max_head_buffer_usage \in Nat /\ model_is_allocating
    BY <1>1 DEF IInv, ControlOK, Allocating
  <1>3. /\ UNCHANGED <<model_is_allocating, max_head_buffer_usage, requests, model, data, handles>>
        /\ \/ SetHeadBufferSize(max_head_buffer_usage, kBufferAlignment) /\ Goto("variables")
           \/ UNCHANGED arena /\ call' = Idle
    BY DEF SetPlanHead, SetHead, Keep, ReturnError, allocator, interpreters
  <1>4. CASE UNCHANGED arena /\ call' = Idle
    <2>1. ArenaInv' /\ UNCHANGED <<head, temp>>
      BY <1>4, ArenaStays DEF IInv
    <2>2. temp \in Nat /\ head <= temp
      BY <1>1, TempBehindHead
    <2> QED BY <1>3, <1>4, <2>1, <2>2, CallEnds
  <1>5. CASE SetHeadBufferSize(max_head_buffer_usage, kBufferAlignment) /\ Goto("variables")
    <2>1. ArenaInv' /\ head' = BufferHead + max_head_buffer_usage /\ temp' \in Nat /\ head' <= temp'
      BY <1>2, <1>5, HeadSet, AllocatorNumbers DEF IInv
    <2>2. call' \in Calls /\ call'.at = "variables"
      BY <1>1, <1>5, GotoCall DEF Steps
    <2>3. ControlOK'
      BY <1>2, <1>3, <2>2 DEF IInv, ControlOK, CallOK, OverOperators, At
    <2>4. RequestsOK'
      BY <1>3, <2>2 DEF IInv, RequestsOK, Preparing, Planning, At
    <2>5. HeadOK'
      BY <1>3, <2>1 DEF HeadOK
    <2>6. HandlesOK'
      BY <1>3, <2>2 DEF IInv, HandlesOK, HandlesNotNull, At
    <2>7. RoomOK'
      BY <2>2 DEF RoomOK, OptionalInputsHarmless, At
    <2>8. DataOK'
      BY <1>3, <2>2 DEF IInv, DataOK, Planning, InMemory, VariableTensors, TensorSpan
    <2> QED BY <2>1, <2>3, <2>4, <2>5, <2>6, <2>7, <2>8 DEF IInv
  <1> QED BY <1>3, <1>4, <1>5

\* The places of the variables are no part of a plan.
LEMMA VariablesIInv == IInv /\ AllocateVariables => IInv'
  <1> SUFFICES ASSUME IInv, AllocateVariables PROVE IInv'
    OBVIOUS
  <1>1. call.at = "variables" /\ call \in Calls /\ M \in Models /\ Who \in Interpreters
    BY CallInProgress DEF IInv, AllocateVariables, At, Steps
  <1>2. call.op \in Nat \ {0} /\ DOMAIN M.tensors = 1 .. Len(M.tensors) /\ Len(M.tensors) \in Nat
    BY <1>1, ModelFacts DEF Calls
  <1>3. model_is_allocating /\ head = BufferHead + max_head_buffer_usage
    BY <1>1 DEF IInv, ControlOK, HeadOK, Allocating, At
  <1>4. ASSUME call' = [call EXCEPT !.op = @ + 1]
        PROVE  call' \in Calls /\ call'.at = "variables" /\ call'.who = call.who
    <2>1. call = [at |-> call.at, who |-> call.who, op |-> call.op, k |-> call.k,
                  invoking |-> call.invoking]
      BY <1>1 DEF Calls
    <2>2. call' = [at |-> call.at, who |-> call.who, op |-> call.op + 1, k |-> call.k,
                   invoking |-> call.invoking]
      BY <1>4, <2>1
    <2>3. /\ call.at \in Steps /\ call.who \in Interpreters /\ call.op + 1 \in Nat \ {0}
          /\ call.k \in Nat \ {0} /\ call.invoking \in BOOLEAN
      BY <1>1 DEF Calls
    <2> QED BY <1>1, <2>2, <2>3 DEF Calls
  <1>5. \/ /\ model_is_allocating' = FALSE /\ Goto("input_array")
           /\ UNCHANGED <<arena, max_head_buffer_usage, requests, model, data, handles>>
        \/ /\ call.op <= Len(M.tensors) /\ M.tensors[call.op].is_variable
           /\ AllocateFromTail(M.tensors[call.op].bytes, kBufferAlignment)
           /\ data' = [data EXCEPT ![Who][call.op] = tail']
           /\ call' = [call EXCEPT !.op = @ + 1]
           /\ UNCHANGED <<model_is_allocating, max_head_buffer_usage, requests, model, handles>>
        \/ /\ UNCHANGED arena
           /\ UNCHANGED <<model_is_allocating, max_head_buffer_usage, requests, model, data, handles>>
           /\ call' \in {Idle, Stopped} \/ call' = [call EXCEPT !.op = @ + 1]
    <2>1. CASE call.op > Len(M.tensors)
      BY <2>1 DEF AllocateVariables, interpreters
    <2>2. CASE ~(call.op > Len(M.tensors)) /\ ~M.tensors[call.op].is_variable
      BY <2>2 DEF AllocateVariables, Keep, allocator, interpreters
    <2>3. CASE ~(call.op > Len(M.tensors)) /\ M.tensors[call.op].is_variable
      <3>1. call.op <= Len(M.tensors)
        BY <1>2, <2>3
      <3> QED BY <2>3, <3>1
              DEF AllocateVariables, FromTail, ReturnError, Stop, allocator, interpreters
    <2> QED BY <2>1, <2>2, <2>3
  <1>6. CASE /\ model_is_allocating' = FALSE /\ Goto("input_array")
             /\ UNCHANGED <<arena, max_head_buffer_usage, requests, model, data, handles>>
    <2>1. ArenaInv' /\ UNCHANGED <<head, temp>>
      BY <1>6, ArenaStays DEF IInv
    <2>2. call' \in Calls /\ call'.at = "input_array"
      BY <1>1, <1>6, GotoCall DEF Steps
    <2>3. ControlOK'
      BY <1>6, <2>2
         DEF IInv, ControlOK, CallOK, OverOperators, Allocating, Preparing, Planning, At
    <2>4. RequestsOK'
      BY <1>6, <2>2 DEF IInv, RequestsOK, Preparing, Planning, At
    <2>5. HeadOK'
      BY <1>1, <1>3, <1>6, <2>1 DEF IInv, HeadOK, At
    <2>6. HandlesOK'
      BY <1>6, <2>2 DEF IInv, HandlesOK, HandlesNotNull, At
    <2>7. RoomOK'
      BY <2>2 DEF RoomOK, OptionalInputsHarmless, At
    <2>8. DataOK'
      BY <1>6, <2>2 DEF IInv, DataOK, Planning, InMemory, VariableTensors, TensorSpan
    <2> QED BY <2>1, <2>3, <2>4, <2>5, <2>6, <2>7, <2>8 DEF IInv
  <1>7. CASE /\ call.op <= Len(M.tensors) /\ M.tensors[call.op].is_variable
             /\ AllocateFromTail(M.tensors[call.op].bytes, kBufferAlignment)
             /\ data' = [data EXCEPT ![Who][call.op] = tail']
             /\ call' = [call EXCEPT !.op = @ + 1]
             /\ UNCHANGED <<model_is_allocating, max_head_buffer_usage, requests, model, handles>>
    <2>1. call.op \in DOMAIN M.tensors
      BY <1>2, <1>7
    <2>2. M.tensors[call.op].bytes \in Sizes
      BY <1>1, <2>1, TailSizes
    <2>3. ArenaInv' /\ UNCHANGED <<head, temp>>
      BY <1>1, <1>7, <2>2, TailStep, AllocatorNumbers
    <2>4. call' \in Calls /\ call'.at = "variables"
      BY <1>4, <1>7
    <2>5. ControlOK'
      BY <1>3, <1>7, <2>4 DEF IInv, ControlOK, CallOK, OverOperators, At
    <2>6. RequestsOK'
      BY <1>7, <2>4 DEF IInv, RequestsOK, Preparing, Planning, At
    <2>7. HeadOK'
      BY <1>1, <1>3, <1>7, <2>3 DEF IInv, HeadOK, At
    <2>8. HandlesOK'
      BY <1>7, <2>4 DEF IInv, HandlesOK, HandlesNotNull, At
    <2>9. RoomOK'
      BY <2>4 DEF RoomOK, OptionalInputsHarmless, At
    <2>10. DataOK'
      <3>1. DOMAIN data = Interpreters
        BY DEF IInv, DataOK
      <3>2. /\ DOMAIN data' = Interpreters
            /\ data'[Who] = [data[Who] EXCEPT ![call.op] = tail']
            /\ \A i \in Interpreters \ {Who} : data'[i] = data[i]
        BY <1>1, <1>7, <3>1
      <3>3. /\ DOMAIN data'[Who] = DOMAIN data[Who]
            /\ \A t \in DOMAIN data[Who] \ {call.op} : data'[Who][t] = data[Who][t]
        BY <3>2
      <3>4. ASSUME NEW i \in Interpreters, NEW t \in InMemory(i)' \ VariableTensors(i)'
            PROVE  TensorSpan(i, t)'.to \in 0 .. BufferHead + max_head_buffer_usage'
        <4>1. t \in DOMAIN data'[i] /\ data'[i][t] >= 0 /\ t \notin VariableTensors(i)
          BY <1>7 DEF InMemory, VariableTensors
        <4>2. data'[i][t] = data[i][t] /\ t \in DOMAIN data[i]
          <5>1. CASE i = Who
            <6>1. call.op \in VariableTensors(i)
              BY <1>7, <2>1, <5>1 DEF VariableTensors, M, Who
            <6> QED BY <3>3, <4>1, <5>1, <6>1
          <5>2. CASE i # Who
            BY <3>2, <4>1, <5>2
          <5> QED BY <5>1, <5>2
        <4>3. t \in InMemory(i) \ VariableTensors(i)
          BY <4>1, <4>2 DEF InMemory
        <4>4. TensorSpan(i, t).to \in 0 .. BufferHead + max_head_buffer_usage
          BY <4>3 DEF IInv, DataOK
        <4> QED BY <1>7, <4>2, <4>4 DEF TensorSpan
      <3> QED BY <2>4, <3>2, <3>4 DEF DataOK, Planning
    <2> QED BY <2>3, <2>5, <2>6, <2>7, <2>8, <2>9, <2>10 DEF IInv
  <1>8. CASE /\ UNCHANGED arena
             /\ UNCHANGED <<model_is_allocating, max_head_buffer_usage, requests, model, data, handles>>
             /\ call' \in {Idle, Stopped} \/ call' = [call EXCEPT !.op = @ + 1]
    <2>1. ArenaInv' /\ UNCHANGED <<head, temp>> /\ temp' \in Nat /\ head' <= temp'
      BY <1>1, <1>8, ArenaStays, TempBehindHead DEF IInv
    <2>2. CASE call' \in {Idle, Stopped}
      BY <1>8, <2>1, <2>2, CallEnds
    <2>3. CASE call' = [call EXCEPT !.op = @ + 1]
      <3>1. call' \in Calls /\ call'.at = "variables" /\ call'.who = call.who
        BY <1>4, <2>3
      <3>2. RequestsOK'
        BY <1>8, <3>1 DEF IInv, RequestsOK, Preparing, Planning, At
      <3> QED BY <1>1, <1>8, <2>1, <3>1, <3>2, CallGoesOn DEF OverOperators, Allocating
    <2> QED BY <1>8, <2>2, <2>3
  <1> QED BY <1>5, <1>6, <1>7, <1>8

\* The steps behind FinishModelAllocation.
LEMMA LateStep ==
    ASSUME IInv, call \in Calls, call' \in Calls, call'.who = call.who,
           call'.at \in {"inputs", "output_array", "outputs", "tensor", "reset_variables", "invoke"},
           call'.at = "tensor" => call'.op <= Len(M.tensors),
           call'.at = "invoke" => call'.op <= Len(M.operators),
           UNCHANGED <<model_is_allocating, max_head_buffer_usage, requests, model, data, handles>>,
           ArenaInv', head' = head, temp' \in Nat, head' <= temp'
    PROVE  IInv'
  <1>1. RequestsOK'
    BY DEF IInv, RequestsOK, Preparing, Planning, At
  <1> QED BY <1>1, CallGoesOn DEF OverOperators, Allocating, Preparing, Planning

\* The array of the inputs or outputs keeps the invariant.
LEMMA TensorArrayIInv ==
    ASSUME IInv, NEW at \in Steps, NEW then \in {"inputs", "outputs"},
           NEW tensors, Len(tensors) \in Sizes, AllocateTensorArray(at, tensors, then)
    PROVE  IInv'
  <1>1. call \in Calls /\ call.at # "stopped"
    BY CallInProgress DEF IInv, AllocateTensorArray, At, Steps
  <1>2. /\ UNCHANGED <<model_is_allocating, max_head_buffer_usage, requests, model, data, handles>>
        /\ AllocateFromTail(Len(tensors), kBufferAlignment) \/ UNCHANGED arena
        /\ call' \in {Idle, Stopped} \/ Goto(then)
    BY DEF AllocateTensorArray, FromTail, Keep, ReturnError, Stop, allocator, interpreters
  <1>3. ArenaInv' /\ UNCHANGED <<head, temp>> /\ temp' \in Nat /\ head' <= temp'
    BY <1>1, <1>2, TailStep, AllocatorNumbers
  <1>4. CASE call' \in {Idle, Stopped}
    BY <1>2, <1>3, <1>4, CallEnds
  <1>5. CASE Goto(then)
    <2>1. call' \in Calls /\ call'.at = then /\ call'.who = call.who
      BY <1>1, <1>5, GotoCall DEF Steps
    <2> QED BY <1>1, <1>2, <1>3, <2>1, LateStep
  <1> QED BY <1>2, <1>4, <1>5

\* The steps that may follow the structures of the tensors of an interpreter.
AfterStructs == call' = Idle \/ Goto("output_array") \/ Goto("reset_variables")

\* The structures of inputs, outputs and other tensors keep the invariant.
LEMMA TensorStructsIInv ==
    ASSUME IInv, NEW at \in {"inputs", "outputs", "tensor"},
           NEW tensors \in Seq(DOMAIN M.tensors),
           AllocateTensorStructs(at, tensors, AfterStructs)
    PROVE  IInv'
  <1> DEFINE structs == FlattenSeq([n \in DOMAIN tensors |-> TensorStructs(M.tensors[tensors[n]])])
             s == structs[call.k].bytes
  <1>1. call \in Calls /\ call.at = at /\ M \in Models
    BY CallInProgress DEF IInv, AllocateTensorStructs, At, Steps
  <1>2. structs \in Seq(StructRecord)
    BY <1>1, StructsOfTensors
  <1>3. /\ UNCHANGED <<model_is_allocating, max_head_buffer_usage, requests, model, data, handles>>
        /\ \/ UNCHANGED arena
           \/ AllocateFromTail(s, kStructAlignment) /\ ~(call.k > Len(structs))
        /\ call' = Stopped \/ NextRequest \/ AfterStructs
    <2>1. CASE call.k > Len(structs)
      BY <2>1 DEF AllocateTensorStructs, Keep, allocator, interpreters
    <2>2. CASE ~(call.k > Len(structs))
      BY <2>2 DEF AllocateTensorStructs, FromTail, Keep, ReturnError, Stop, AfterStructs,
                  allocator, interpreters
    <2> QED BY <2>1, <2>2
  <1> HIDE DEF structs
  <1>4. ~(call.k > Len(structs)) => s \in Sizes
    <2>1. call.k \in Nat \ {0} /\ Len(structs) \in Nat
      BY <1>1, <1>2 DEF Calls
    <2>2. ~(call.k > Len(structs)) => structs[call.k] \in StructRecord
      BY <1>2, <2>1
    <2> QED BY <2>2 DEF StructRecord
  <1> HIDE DEF s
  <1>5. ArenaInv' /\ UNCHANGED <<head, temp>> /\ temp' \in Nat /\ head' <= temp'
    <2>1. CASE UNCHANGED arena
      BY <1>1, <2>1, ArenaStays, TempBehindHead DEF IInv
    <2>2. CASE AllocateFromTail(s, kStructAlignment) /\ ~(call.k > Len(structs))
      BY <1>1, <1>4, <2>2, TailStep, AllocatorNumbers
    <2> QED BY <1>3, <2>1, <2>2
  <1>6. CASE call' \in {Idle, Stopped}
    BY <1>3, <1>5, <1>6, CallEnds
  <1>7. CASE NextRequest
    <2>1. call' \in Calls /\ call'.at = at /\ call'.who = call.who /\ call'.op = call.op
      BY <1>1, <1>7, NextRequestCall
    <2>2. call.at = "tensor" => call.op <= Len(M.tensors)
      BY DEF IInv, ControlOK, CallOK, Idle, Stopped, At
    <2> QED BY <1>1, <1>3, <1>5, <2>1, <2>2, LateStep
  <1>8. CASE Goto("output_array") \/ Goto("reset_variables")
    <2>1. call' \in Calls /\ call'.at \in {"output_array", "reset_variables"} /\ call'.who = call.who
      BY <1>1, <1>8, GotoCall DEF Steps
    <2> QED BY <1>1, <1>3, <1>5, <2>1, LateStep
  <1> QED BY <1>3, <1>6, <1>7, <1>8 DEF AfterStructs

\* What follows the plan keeps the invariant.
LEMMA LateIInv ==
    IInv /\ (AllocateInputs \/ AllocateOutputs \/ AllocateTensor) => IInv'
  <1>1. ASSUME IInv, AllocateInputs PROVE IInv'
    <2>1. call.at \in Steps
      BY <1>1 DEF AllocateInputs, AllocateTensorArray, AllocateTensorStructs, At, Steps
    <2>2. Len(M.inputs) \in Sizes /\ M.inputs \in Seq(DOMAIN M.tensors)
      BY <1>1, <2>1, CallInProgress, ModelFacts, TailSizes DEF IInv
    <2>3. CASE AllocateTensorArray("input_array", M.inputs, "inputs")
      BY <1>1, <2>2, <2>3, TensorArrayIInv DEF Steps
    <2>4. CASE AllocateTensorStructs("inputs", M.inputs, Goto("output_array"))
      <3>1. AllocateTensorStructs("inputs", M.inputs, AfterStructs)
        BY <2>4, Zenon DEF AllocateTensorStructs, AfterStructs
      <3> QED BY <1>1, <2>2, <3>1, TensorStructsIInv
    <2> QED BY <1>1, <2>3, <2>4 DEF AllocateInputs
  <1>2. ASSUME IInv, AllocateOutputs PROVE IInv'
    <2>1. call.at \in Steps
      BY <1>2 DEF AllocateOutputs, AllocateTensorArray, AllocateTensorStructs, At, Steps
    <2>2. Len(M.outputs) \in Sizes /\ M.outputs \in Seq(DOMAIN M.tensors)
      BY <1>2, <2>1, CallInProgress, ModelFacts, TailSizes DEF IInv
    <2>3. CASE AllocateTensorArray("output_array", M.outputs, "outputs")
      BY <1>2, <2>2, <2>3, TensorArrayIInv DEF Steps
    <2>4. CASE AllocateTensorStructs("outputs", M.outputs, Goto("reset_variables"))
      <3>1. AllocateTensorStructs("outputs", M.outputs, AfterStructs)
        BY <2>4, Zenon DEF AllocateTensorStructs, AfterStructs
      <3> QED BY <1>2, <2>2, <3>1, TensorStructsIInv
    <2> QED BY <1>2, <2>3, <2>4 DEF AllocateOutputs
  <1>3. ASSUME IInv, AllocateTensor PROVE IInv'
    <2>1. call.at = "tensor" /\ call \in Calls /\ M \in Models
      BY <1>3, CallInProgress DEF IInv, AllocateTensor, AllocateTensorStructs, At, Steps
    <2>2. <<call.op>> \in Seq(DOMAIN M.tensors)
      <3>1. call.op \in Nat \ {0} /\ call.op <= Len(M.tensors)
        BY <1>3, <2>1 DEF IInv, ControlOK, CallOK, Idle, Stopped, At, Calls
      <3>2. call.op \in DOMAIN M.tensors
        BY <2>1, <3>1, ModelFacts
      <3>3. \A S : \A x \in S : <<x>> \in Seq(S)
        OBVIOUS
      <3> QED BY <3>2, <3>3, Zenon
    <2>3. AllocateTensorStructs("tensor", <<call.op>>, AfterStructs)
      BY <1>3, Zenon DEF AllocateTensor, AllocateTensorStructs, AfterStructs
    <2> QED BY <1>3, <2>2, <2>3, TensorStructsIInv
  <1> QED BY <1>1, <1>2, <1>3

\* ResetVariableTensors keeps the invariant.
LEMMA ResetIInv == IInv /\ ResetVariableTensors => IInv'
  <1> SUFFICES ASSUME IInv, ResetVariableTensors PROVE IInv'
    OBVIOUS
  <1>1. call \in Calls /\ M \in Models /\ call.at = "reset_variables"
    BY CallInProgress DEF IInv, ResetVariableTensors, At, Steps
  <1>2. /\ UNCHANGED arena
        /\ UNCHANGED <<model_is_allocating, max_head_buffer_usage, requests, model, data, handles>>
        /\ call' = Idle \/ Goto("invoke")
    BY DEF ResetVariableTensors, allocator
  <1>3. ArenaInv' /\ UNCHANGED <<head, temp>> /\ temp' \in Nat /\ head' <= temp'
    BY <1>1, <1>2, ArenaStays, TempBehindHead DEF IInv
  <1>4. CASE call' = Idle
    BY <1>2, <1>3, <1>4, CallEnds
  <1>5. CASE Goto("invoke")
    <2>1. call' \in Calls /\ call'.at = "invoke" /\ call'.who = call.who /\ call'.op = 1
      BY <1>1, <1>5, GotoCall DEF Steps
    <2>2. 1 <= Len(M.operators)
      BY <1>1, ModelFacts
    <2> QED BY <1>1, <1>2, <1>3, <2>1, <2>2, LateStep
  <1> QED BY <1>2, <1>4, <1>5

\* An operator that runs keeps the invariant.
LEMMA InvokeIInv == IInv /\ InvokeOperator => IInv'
  <1> SUFFICES ASSUME IInv, InvokeOperator PROVE IInv'
    OBVIOUS
  <1>1. call \in Calls /\ M \in Models /\ call.at = "invoke" /\ call.op \in Nat \ {0}
    BY CallInProgress DEF IInv, InvokeOperator, At, Steps, Calls
  <1>2. /\ UNCHANGED arena \/ ResetTempAllocations
        /\ UNCHANGED <<model_is_allocating, max_head_buffer_usage, requests, model, data, handles>>
        /\ \/ call' \in {Idle, Stopped}
           \/ call.op < Len(M.operators) /\ call' = [call EXCEPT !.op = @ + 1]
    BY DEF InvokeOperator, Keep, Stop, allocator, interpreters
  <1>3. ArenaInv' /\ head' = head /\ temp' \in Nat /\ head' <= temp'
    BY <1>1, <1>2, ArenaStays, TempsReset, TempBehindHead DEF IInv
  <1>4. CASE call' \in {Idle, Stopped}
    BY <1>2, <1>3, <1>4, CallEnds
  <1>5. CASE call.op < Len(M.operators) /\ call' = [call EXCEPT !.op = @ + 1]
    <2>1. call = [at |-> call.at, who |-> call.who, op |-> call.op, k |-> call.k,
                  invoking |-> call.invoking]
      BY <1>1 DEF Calls
    <2>2. call' = [at |-> "invoke", who |-> call.who, op |-> call.op + 1, k |-> call.k,
                   invoking |-> call.invoking]
      BY <1>1, <1>5, <2>1
    <2>3. /\ call.who \in Interpreters /\ call.op + 1 \in Nat \ {0}
          /\ call.k \in Nat \ {0} /\ call.invoking \in BOOLEAN
      BY <1>1 DEF Calls
    <2>4. call' \in Calls /\ call'.at = "invoke" /\ call'.who = call.who
      BY <2>2, <2>3 DEF Calls, Steps
    <2>5. call'.op <= Len(M.operators)
      BY <1>1, <1>5, <2>2, ModelFacts
    <2> QED BY <1>1, <1>2, <1>3, <2>4, <2>5, LateStep
  <1> QED BY <1>2, <1>4, <1>5

\* Every step keeps the invariant.
LEMMA NextIInv == IInv /\ [Next]_vars => IInv'
  <1> SUFFICES ASSUME IInv, [Next]_vars PROVE IInv'
    OBVIOUS
  <1>1. ASSUME Proceed PROVE IInv'
    BY <1>1, CreateIInv, StartIInv, EvalTensorsIInv, NodesIInv, NodeDataIInv, InitOperatorIInv,
       NoUserDataIInv, PrepareIInv, FinishPrepareIInv, AdjustHeadIInv, HandlesIInv, InfoIInv,
       CreatePlanIInv, CommitIInv, SetPlanHeadIInv, VariablesIInv, LateIInv, ResetIInv, InvokeIInv
       DEF Proceed
  <1>2. ASSUME UNCHANGED vars PROVE IInv'
    <2>1. /\ UNCHANGED <<arena, call, ignored>>
          /\ UNCHANGED <<model_is_allocating, max_head_buffer_usage, requests, model, data, handles>>
      BY <1>2 DEF vars, allocator, interpreters
    <2>2. ArenaInv' /\ UNCHANGED <<head, tail, temp, temps>>
      BY <2>1, ArenaStays DEF IInv
    <2>3. ControlOK'
      BY <2>1 DEF IInv, ControlOK, CallOK, At, M
    <2>4. RequestsOK'
      BY <2>1 DEF IInv, RequestsOK, IsUnassigned, At, M
    <2>5. HeadOK'
      BY <2>1, <2>2 DEF IInv, HeadOK, At
    <2>6. HandlesOK'
      BY <2>1, <2>2 DEF IInv, HandlesOK, HandlesNotNull, TailFits, TailResult, At, Who
    <2>7. RoomOK'
      BY <2>1, <2>2 DEF IInv, RoomOK, OptionalInputsHarmless, RequestRoom, At
    <2>8. DataOK'
      BY <2>1 DEF IInv, DataOK, InMemory, VariableTensors, TensorSpan, M, Who
    <2> QED BY <2>2, <2>3, <2>4, <2>5, <2>6, <2>7, <2>8 DEF IInv
  <1>3. ASSUME NEW i \in Interpreters, AllocateTensors(i) \/ Invoke(i) \/ SetInputs(i) \/ Tensor(i)
        PROVE  IInv'
    BY <1>3, ClientIInv
  <1> QED BY <1>1, <1>2, <1>3 DEF Next, Done

-----------------------------------------------------------------------------
\* Whatever models are allocated and run, in whatever order and number, the
\* inductive invariant holds.
THEOREM InterpreterInvariant == Spec => []IInv
  BY InitIInv, NextIInv, PTL DEF Spec

\* Every step of the program either leaves the temporary section alone or
\* shortens it, or is one temporary allocation.
LEMMA TempsOfPrepare ==
    IInv /\ PrepareOperator =>
        NoNewTemps \/ \E n \in Nat, a \in Alignments : AllocateTemp(n, a)
  <1> SUFFICES ASSUME IInv, PrepareOperator
               PROVE  NoNewTemps \/ \E n \in Nat, a \in Alignments : AllocateTemp(n, a)
    OBVIOUS
  <1> DEFINE request == PrepareRequests[call.k]
  <1>1. call.at = "prepare" /\ call \in Calls /\ M \in Models /\ call.op \in DOMAIN M.operators
    BY CallInProgress DEF IInv, PrepareOperator, At, Steps, OverOperators
  <1>2. request \in RequestOfKernel
    <2>1. PrepareRequests \in Seq(RequestOfKernel) /\ call.k \in 1 .. Len(PrepareRequests)
      BY <1>1, RequestsOfKernel DEF IInv, OverOperators, PrepareOperator, Calls
    <2> HIDE DEF RequestOfKernel
    <2> QED BY <2>1
  <1>3. request.bytes \in Nat
    BY <1>2 DEF RequestOfKernel
  <1>4. \/ UNCHANGED arena
        \/ AllocateTemp(request.bytes, kStructAlignment)
        \/ AllocateFromTail(request.bytes, kBufferAlignment)
    BY DEF PrepareOperator, FromTail, FromTemp
  <1> HIDE DEF request
  <1> QED BY <1>3, <1>4, AllocatorNumbers DEF NoNewTemps, AllocateFromTail, arena

LEMMA TempsOfInfo ==
    IInv /\ AllocateInfo =>
        NoNewTemps \/ \E n \in Nat, a \in Alignments : AllocateTemp(n, a)
  <1> SUFFICES ASSUME IInv, AllocateInfo
               PROVE  NoNewTemps \/ \E n \in Nat, a \in Alignments : AllocateTemp(n, a)
    OBVIOUS
  <1>1. M \in Models
    BY CallInProgress DEF IInv, AllocateInfo, At, Steps
  <1>2. Len(requests) \in Nat /\ Len(M.tensors) \in Nat
    BY <1>1, ModelFacts DEF IInv, RequestsOK
  <1>3. InfoBytes \in Nat
    BY <1>2, AllocatorNumbers DEF InfoBytes
  <1>4. UNCHANGED arena \/ AllocateTemp(InfoBytes, kStructAlignment)
    BY DEF AllocateInfo, FromTemp
  <1> QED BY <1>3, <1>4, AllocatorNumbers DEF NoNewTemps, arena

LEMMA TempsOfCreatePlan ==
    IInv /\ CreatePlan =>
        NoNewTemps \/ \E n \in Nat, a \in Alignments : AllocateTemp(n, a)
  <1> SUFFICES ASSUME IInv, CreatePlan
               PROVE  NoNewTemps \/ \E n \in Nat, a \in Alignments : AllocateTemp(n, a)
    OBVIOUS
  <1> DEFINE n == GetAvailableMemory(kBufferAlignment)
  <1>1. n \in Nat
    <2>1. temp \in Nat /\ tail \in Nat
      BY ArenaNumbers DEF IInv, HeadOK
    <2> DEFINE x == AlignDown(tail, kBufferAlignment) - AlignUp(temp, kBufferAlignment)
    <2>2. x \in Int
      BY <2>1, AlignDownBelow, AlignUpAbove, AllocatorNumbers
    <2>3. n = x % AddressSpace
      BY DEF GetAvailableMemory, SizeT
    <2> HIDE DEF x, n
    <2> QED BY <2>2, <2>3, DivMod, AllocatorNumbers
  <1>2. UNCHANGED arena \/ AllocateTemp(n, kBufferAlignment)
    BY DEF CreatePlan, FromTemp
  <1> HIDE DEF n
  <1> QED BY <1>1, <1>2, AllocatorNumbers DEF NoNewTemps, arena

\* The other steps make no temporary allocation.
LEMMA OtherTemps ==
    ASSUME Proceed, ~PrepareOperator, ~AllocateInfo, ~CreatePlan
    PROVE  NoNewTemps
  <1> USE DEF NoNewTemps, arena
  <1>1. ASSUME CreateMicroAllocator \/ AllocateEvalTensors \/ AllocateNodeAndRegistrations
        PROVE  NoNewTemps
    BY <1>1 DEF CreateMicroAllocator, AllocateEvalTensors, AllocateNodeAndRegistrations,
                FromTail, AllocateFromTail
  <1>2. ASSUME Start \/ AdjustHead \/ SetPlanHead
        PROVE  NoNewTemps
    BY <1>2 DEF Start, AdjustHead, SetPlanHead, SetHead, SetHeadBufferSize
  <1>3. ASSUME PrepareNodeData \/ InitOperator \/ AllocateScratchBufferHandles
        PROVE  NoNewTemps
    BY <1>3 DEF PrepareNodeData, InitOperator, AllocateScratchBufferHandles,
                FromTail, AllocateFromTail
  <1>4. ASSUME NoUserData \/ ResetVariableTensors
        PROVE  NoNewTemps
    BY <1>4 DEF NoUserData, ResetVariableTensors
  <1>5. ASSUME FinishPrepare PROVE NoNewTemps
    BY <1>5 DEF FinishPrepare, ResetTempAllocations
  <1>6. ASSUME CommitPlan PROVE NoNewTemps
    BY <1>6 DEF CommitPlan, ResetTempAllocations
  <1>7. ASSUME InvokeOperator PROVE NoNewTemps
    BY <1>7 DEF InvokeOperator, ResetTempAllocations
  <1>8. ASSUME AllocateVariables PROVE NoNewTemps
    BY <1>8 DEF AllocateVariables, FromTail, AllocateFromTail
  <1>9. ASSUME AllocateInputs \/ AllocateOutputs \/ AllocateTensor
        PROVE  NoNewTemps
    BY <1>9 DEF AllocateInputs, AllocateOutputs, AllocateTensor, AllocateTensorArray,
                AllocateTensorStructs, FromTail, AllocateFromTail
  <1> QED BY <1>1, <1>2, <1>3, <1>4, <1>5, <1>6, <1>7, <1>8, <1>9 DEF Proceed

\* No step gives out what is persistent.
LEMMA StepKeepsPersistent == IInv /\ [Next]_vars => [KeepsPersistent]_arena
  <1> SUFFICES ASSUME IInv, [Next]_vars, ~UNCHANGED arena PROVE KeepsPersistent
    OBVIOUS
  <1>1. ArenaInv' /\ ArenaInv /\ temp \in Nat
    BY NextIInv DEF IInv, HeadOK
  <1>2. Proceed
    BY DEF Next, AllocateTensors, Invoke, SetInputs, Tensor, Done, vars
  <1>3. NoNewTemps \/ \E n \in Nat, a \in Alignments : AllocateTemp(n, a)
    BY <1>2, TempsOfPrepare, TempsOfInfo, TempsOfCreatePlan, OtherTemps
  <1> QED BY <1>1, <1>3, OthersKeepPersistent, TempKeepsPersistent

\* Nothing persistent of an interpreter is ever given out again: not to the
\* head section with its plans, not to a later persistent allocation, and not
\* to a temporary one that starts before the tail.
THEOREM InterpretersKeepPersistent == Spec => PersistentKept
  <1>1. IInv => PersistentIntact
    BY DEF IInv, ArenaInv
  <1> QED BY <1>1, InterpreterInvariant, StepKeepsPersistent, PTL DEF Spec, PersistentKept

\* The recording allocator's account is exact under the interpreters.
THEOREM InterpretersAccount == Spec => []UsedBytesExact
  <1>1. IInv => UsedBytesExact
    BY DEF IInv, ArenaInv
  <1> QED BY <1>1, InterpreterInvariant, PTL

\* The plan is never made through handles that could not be allocated,
\* although nobody looks whether they could.
THEOREM HandlesAreThere == Spec => []HandlesNotNull
  <1>1. IInv => HandlesNotNull
    BY DEF IInv, HandlesOK
  <1> QED BY <1>1, InterpreterInvariant, PTL

\* The entry in front of the allocation info is no request of a scratch buffer.
THEOREM OptionalInputsAreHarmless == Spec => []OptionalInputsHarmless
  <1>1. IInv => OptionalInputsHarmless
    BY DEF IInv, RoomOK
  <1> QED BY <1>1, InterpreterInvariant, PTL

\* Every plan of every interpreter stays inside the head section.
THEOREM PlansInsideHead == Spec => []PlanInsideHead
  <1>1. ASSUME IInv PROVE PlanInsideHead
    <2>1. SUFFICES ASSUME ~model_is_allocating, NEW i \in Interpreters,
                          NEW t \in InMemory(i) \ VariableTensors(i)
                   PROVE  TensorSpan(i, t).to <= head
      BY DEF PlanInsideHead
    <2>2. head = BufferHead + max_head_buffer_usage
      BY <1>1, <2>1 DEF IInv, HeadOK
    <2>3. TensorSpan(i, t).to \in 0 .. BufferHead + max_head_buffer_usage
      BY <1>1, <2>1 DEF IInv, DataOK
    <2>4. BufferHead + max_head_buffer_usage \in Nat
      BY <1>1, AllocatorNumbers DEF IInv, ControlOK
    <2> QED BY <2>2, <2>3, <2>4
  <1> QED BY <1>1, InterpreterInvariant, PTL

-----------------------------------------------------------------------------
(* The data of the interpreters that share the arena. *)

\* While everything has gone well.
Running == ~failed /\ ~At("stopped")

Needed(i) == {t \in DOMAIN model[i].tensors : NeedsAllocating(model[i], t)}
PlannedTensorsOf(i) == InMemory(i) \cap Needed(i)
VariablesOf(i) == InMemory(i) \cap VariableTensors(i)

InUse(m, t, time) == FirstCreated(m, t) <= time /\ time <= LastUsed(m, t)

\* Tensors of a plan that are in use at the same time, and the scratch buffers
\* of an operator, are not in each other's way; a variable has a place of its own
\* behind the tail.
PlacesOK ==
    /\ DOMAIN scratch = Interpreters
    /\ \A i \in Interpreters :
          /\ DOMAIN data[i] \subseteq DOMAIN model[i].tensors
          /\ \A t \in DOMAIN data[i] : data[i][t] \in Int
          /\ InMemory(i) \subseteq Needed(i) \cup VariableTensors(i)
    /\ \A i \in Interpreters : \A t, u \in PlannedTensorsOf(i) :
          t # u /\ LivesMeet(model[i], t, u) => Disjoint(TensorSpan(i, t), TensorSpan(i, u))
    /\ \A i \in Interpreters : \A s \in scratch[i] :
          /\ s.op \in Nat /\ s.span.from \in Nat /\ s.span.to \in Nat
          /\ s.span.to <= BufferHead + max_head_buffer_usage
          /\ \A t \in PlannedTensorsOf(i) :
                InUse(model[i], t, s.op - 1) => Disjoint(s.span, TensorSpan(i, t))
          /\ \A r \in scratch[i] : s.op = r.op /\ s.span # r.span => Disjoint(s.span, r.span)
    /\ \A i \in Interpreters : \A t \in VariablesOf(i) : TensorSpan(i, t) \in persistent
    /\ \A i, j \in Interpreters : \A t \in VariablesOf(i) : \A u \in VariablesOf(j) :
          i # j \/ t # u => Disjoint(TensorSpan(i, t), TensorSpan(j, u))

Unplanned == {"nodes", "op_data", "init", "prepare", "adjust_head"} \cup Planning
Finishing == {"input_array", "inputs", "output_array", "outputs", "reset_variables"}

\* A request is for the operator it is assigned to.
AssignedOK ==
    /\ At("prepare") => \A j \in DOMAIN requests :
          requests[j].op = IF IsUnassigned(j) THEN call.op ELSE requests[j].node_idx + 1
    /\ call.at \in {"adjust_head"} \cup Planning => \A j \in DOMAIN requests :
          requests[j].op = requests[j].node_idx + 1

\* Between allocations nothing is left behind the head.
SettledOK ==
    /\ tail % kStructAlignment = 0
    /\ call.at \notin Allocating => ~model_is_allocating
    /\ call.at \notin Allocating \/ At("variables") => temp = head

\* The tensors that need it have a place, and the first n variables.
TensorsPlaced(i, n) ==
    /\ DOMAIN data[i] = DOMAIN model[i].tensors
    /\ \A t \in Needed(i) : t \in InMemory(i) /\ LastUsed(model[i], t) # -1
    /\ \A t \in VariableTensors(i) : t < n => t \in InMemory(i)

HasPlaces(i) == TensorsPlaced(i, Len(model[i].tensors) + 1)

BeingPlaced(i) == call.at \in Unplanned \cup {"plan_head", "variables"} /\ Who = i

PlacedOK ==
    /\ DOMAIN tensors_allocated = Interpreters
    /\ At("commit") => \A t \in Needed(Who) : LastUsed(M, t) # -1
    /\ At("plan_head") => TensorsPlaced(Who, 0)
    /\ At("variables") => TensorsPlaced(Who, call.op)
    /\ call.at \in Finishing => HasPlaces(Who)
    /\ \A i \in Interpreters : tensors_allocated[i] /\ ~BeingPlaced(i) => HasPlaces(i)

\* Who waits for what: an allocation ends what clients may rely on.
ClientOK ==
    /\ fresh \in Interpreters \cup {None} /\ served \in Interpreters \cup {None}
    /\ call.at \notin {"idle", "tensor", "invoke"} => fresh = None /\ served = None
    /\ At("invoke") => served = None /\ fresh \in {None, Who} /\ tensors_allocated[Who]
    /\ fresh # None => tensors_allocated[fresh]

\* At a time a tensor is there that has been put in or made before and is read
\* then or later.
IsThere(i, t, time) ==
    /\ t \in Needed(i) /\ time <= LastUsed(model[i], t)
    /\ t \in ToSet(model[i].inputs) \/ \E n \in MadeBy(model[i], t) : n < time

\* Only planned tensors are overwritten, and not what a model has put out.
HitOK ==
    /\ \A w \in clobbered : \E i \in Interpreters : \E t \in Needed(i) : w = <<i, t>>
    /\ served # None => \A t \in ToSet(model[served].outputs) : <<served, t>> \notin clobbered

\* None that is there is overwritten.
LiveOK ==
    /\ call.at \in {"idle", "tensor"} /\ fresh # None =>
          \A t \in ToSet(model[fresh].inputs) : <<fresh, t>> \notin clobbered
    /\ At("invoke") /\ fresh = Who =>
          \A t \in Needed(Who) : IsThere(Who, t, call.op - 1) => <<Who, t>> \notin clobbered

LiveInv ==
    /\ ~failed => HitOK
    /\ Running => PlacesOK /\ SettledOK /\ AssignedOK /\ PlacedOK /\ ClientOK /\ LiveOK

-----------------------------------------------------------------------------
\* MinOr is a lower bound.
LEMMA MinOrLeast ==
    ASSUME NEW S \in SUBSET Nat, NEW default \in Int
    PROVE  /\ MinOr(S, default) \in Int
           /\ \A x \in S : MinOr(S, default) <= x
  <1>1. CASE S = {}
    BY <1>1 DEF MinOr
  <1>2. CASE S # {}
    <2>1. \E x \in S : \A y \in S : x <= y
      BY <1>2, Least
    <2> DEFINE c == CHOOSE x \in S : \A y \in S : x <= y
    <2>2. MinOr(S, default) = c
      BY <1>2 DEF MinOr
    <2>3. c \in S /\ \A y \in S : c <= y
      BY <2>1
    <2> HIDE DEF c
    <2>4. c \in Int
      BY <2>3
    <2> QED BY <2>2, <2>3, <2>4
  <1> QED BY <1>1, <1>2

\* MaxOr is an upper bound of a bounded set.
LEMMA MaxOrGreatest ==
    ASSUME NEW S \in SUBSET Nat, NEW b \in Nat, \A x \in S : x <= b, NEW default \in Int
    PROVE  /\ MaxOr(S, default) \in Int
           /\ \A x \in S : x <= MaxOr(S, default)
  <1>1. CASE S = {}
    BY <1>1 DEF MaxOr
  <1>2. CASE S # {}
    <2>1. \E x \in S : \A y \in S : y <= x
      BY <1>2, Greatest
    <2> DEFINE c == CHOOSE x \in S : \A y \in S : y <= x
    <2>2. MaxOr(S, default) = c
      BY <1>2 DEF MaxOr
    <2>3. c \in S /\ \A y \in S : y <= c
      BY <2>1
    <2> HIDE DEF c
    <2>4. c \in Int
      BY <2>3
    <2> QED BY <2>2, <2>3, <2>4
  <1> QED BY <1>1, <1>2

\* The lifetime of a tensor begins at the latest where it is put in or made and
\* ends at the earliest where it is read or put out.
LEMMA LifetimeCovers ==
    ASSUME NEW m \in Models, NEW t
    PROVE  /\ FirstCreated(m, t) \in Int /\ LastUsed(m, t) \in Int
           /\ \A n \in MadeBy(m, t) : n \in Nat /\ FirstCreated(m, t) <= n
           /\ t \in ToSet(m.inputs) => FirstCreated(m, t) <= 0
           /\ \A n \in UsedBy(m, t) : n \in Nat /\ n <= LastUsed(m, t)
           /\ t \in ToSet(m.outputs) => LastTime(m) <= LastUsed(m, t)
  <1> DEFINE F == MadeBy(m, t) \cup IF t \in ToSet(m.inputs) THEN {0} ELSE {}
             L == UsedBy(m, t) \cup IF t \in ToSet(m.outputs) THEN {LastTime(m)} ELSE {}
  <1>1. LastTime(m) \in Nat
    BY ModelFacts DEF LastTime
  <1>2. MadeBy(m, t) \subseteq 0 .. LastTime(m) /\ UsedBy(m, t) \subseteq 0 .. LastTime(m)
    BY DEF MadeBy, UsedBy
  <1>3. F \in SUBSET Nat /\ L \in SUBSET Nat /\ \A x \in L : x <= LastTime(m)
    BY <1>1, <1>2
  <1>4. FirstCreated(m, t) = MinOr(F, -1) /\ LastUsed(m, t) = MaxOr(L, -1)
    BY DEF FirstCreated, LastUsed
  <1>5. /\ MadeBy(m, t) \subseteq F /\ (t \in ToSet(m.inputs) => 0 \in F)
        /\ UsedBy(m, t) \subseteq L /\ (t \in ToSet(m.outputs) => LastTime(m) \in L)
    OBVIOUS
  <1> HIDE DEF F, L
  <1>6. -1 \in Int
    OBVIOUS
  <1>7. FirstCreated(m, t) \in Int /\ \A x \in F : FirstCreated(m, t) <= x
    BY <1>3, <1>4, <1>6, MinOrLeast
  <1>8. LastUsed(m, t) \in Int /\ \A x \in L : x <= LastUsed(m, t)
    BY <1>1, <1>3, <1>4, <1>6, MaxOrGreatest
  <1> QED BY <1>3, <1>5, <1>7, <1>8

\* What an operator reads and writes.
LEMMA OperatorTensors ==
    ASSUME NEW i \in Interpreters, model[i] \in Models, NEW op \in DOMAIN model[i].operators
    PROVE  /\ op - 1 \in Nat
           /\ \A t \in Inputs(i, op) :
                 /\ t \in DOMAIN model[i].tensors
                 /\ t \in Needed(i) => IsThere(i, t, op - 1)
           /\ \A t \in Outputs(i, op) :
                 /\ t \in Needed(i) \cup VariableTensors(i)
                 /\ op - 1 \in MadeBy(model[i], t)
                 /\ t \in Needed(i) /\ LastUsed(model[i], t) # -1 =>
                       InUse(model[i], t, op - 1)
  <1> DEFINE m == model[i]
             o == m.operators[op]
  <1>1. /\ DOMAIN m.operators = 1 .. Len(m.operators) /\ Len(m.operators) \in Nat \ {0}
        /\ IsModel(m) /\ InExecutionOrder(m)
    BY ModelFacts, ModelsAssumption, LifetimesAssumption
  <1>2. op - 1 \in 0 .. LastTime(m) /\ (op - 1) + 1 = op /\ op \in Nat
    BY <1>1 DEF LastTime
  <1>3. o \in ToSet(m.operators)
    BY DEF ToSet
  <1>4. /\ ToSet(o.inputs) \subseteq DOMAIN m.tensors \cup {kOptionalTensor}
        /\ ToSet(o.outputs) \subseteq DOMAIN m.tensors
    BY <1>1, <1>3 DEF IsModel
  <1>5. ASSUME NEW t \in Inputs(i, op)
        PROVE  t \in DOMAIN m.tensors /\ (t \in Needed(i) => IsThere(i, t, op - 1))
    <2>1. t \in ToSet(o.inputs) \ {kOptionalTensor} /\ t \in DOMAIN m.tensors
      BY <1>4 DEF Inputs
    <2>2. op - 1 \in UsedBy(m, t)
      BY <1>2, <2>1 DEF UsedBy
    <2>3. op - 1 <= LastUsed(m, t)
      BY <2>2, LifetimeCovers
    <2>4. NeedsAllocating(m, t) => t \in ToSet(m.inputs) \/ \E k \in MadeBy(m, t) : k < op - 1
      BY <1>1, <2>1 DEF InExecutionOrder
    <2> QED BY <2>1, <2>3, <2>4 DEF IsThere, Needed
  <1>6. ASSUME NEW t \in Outputs(i, op)
        PROVE  /\ t \in Needed(i) \cup VariableTensors(i)
               /\ op - 1 \in MadeBy(m, t)
               /\ t \in Needed(i) /\ LastUsed(m, t) # -1 => InUse(m, t, op - 1)
    <2>1. t \in ToSet(o.outputs) /\ t \in DOMAIN m.tensors
      BY <1>4 DEF Outputs
    <2>2. op - 1 \in MadeBy(m, t)
      BY <1>2, <2>1 DEF MadeBy
    <2>3. FirstCreated(m, t) <= op - 1
      BY <2>2, LifetimeCovers
    <2>4. /\ ~m.tensors[t].has_data
          /\ LastUsed(m, t) = -1 \/ op - 1 <= LastUsed(m, t) \/ ~NeedsAllocating(m, t)
      BY <1>1, <2>1 DEF InExecutionOrder
    <2>5. t \in Needed(i) \cup VariableTensors(i)
      BY <2>1, <2>4 DEF Needed, VariableTensors, NeedsAllocating
    <2> QED BY <2>2, <2>3, <2>4, <2>5 DEF InUse, Needed
  <1> QED BY <1>2, <1>5, <1>6

\* A tensor that is there is in use; so it is when it is put out.
LEMMA ThereInUse ==
    ASSUME NEW i \in Interpreters, model[i] \in Models, NEW time \in Nat, NEW t,
           IsThere(i, t, time)
    PROVE  InUse(model[i], t, time)
  <1>1. /\ FirstCreated(model[i], t) \in Int
        /\ \A n \in MadeBy(model[i], t) : n \in Nat /\ FirstCreated(model[i], t) <= n
        /\ t \in ToSet(model[i].inputs) => FirstCreated(model[i], t) <= 0
    BY LifetimeCovers
  <1>2. time <= LastUsed(model[i], t)
    BY DEF IsThere
  <1>3. FirstCreated(model[i], t) <= time
    BY <1>1 DEF IsThere
  <1> QED BY <1>2, <1>3 DEF InUse

\* Lives that have a time in common meet.
LEMMA BothInUse ==
    ASSUME NEW m \in Models, NEW t, NEW u, NEW time \in Int,
           InUse(m, t, time), InUse(m, u, time)
    PROVE  LivesMeet(m, t, u)
  BY LifetimeCovers DEF InUse, LivesMeet

-----------------------------------------------------------------------------
(* Who is hit by a write.                                                  *)

\* Planned tensors lie below the end of the largest plan, variables behind the
\* tail.
LEMMA SpansOfTensors ==
    ASSUME IInv, PlacesOK, NEW i \in Interpreters, NEW t \in InMemory(i)
    PROVE  /\ t \in DOMAIN model[i].tensors
           /\ TensorSpan(i, t).from \in Nat /\ TensorSpan(i, t).to \in Nat
           /\ TensorSpan(i, t).from <= TensorSpan(i, t).to
           /\ t \in PlannedTensorsOf(i) \/ t \in VariablesOf(i)
           /\ t \in PlannedTensorsOf(i) =>
                 /\ t \in Needed(i) /\ t \notin VariablesOf(i)
                 /\ TensorSpan(i, t).to <= BufferHead + max_head_buffer_usage
           /\ t \in VariablesOf(i) => TensorSpan(i, t) \in persistent /\ tail <= TensorSpan(i, t).from
  <1>1. model[i] \in Models
    BY DEF IInv, ControlOK
  <1>2. /\ t \in DOMAIN model[i].tensors /\ data[i][t] \in Int /\ data[i][t] >= 0
        /\ t \in Needed(i) \cup VariableTensors(i)
    BY DEF PlacesOK, InMemory
  <1>3. model[i].tensors[t] \in TensorRecord
    BY <1>1, <1>2, ModelFacts
  <1>4. model[i].tensors[t].bytes \in Nat
    BY <1>3 DEF TensorRecord
  <1>5. /\ TensorSpan(i, t).from = data[i][t]
        /\ TensorSpan(i, t).to = data[i][t] + model[i].tensors[t].bytes
    BY DEF TensorSpan, Span
  <1>6. t \in PlannedTensorsOf(i) \/ t \in VariablesOf(i)
    BY <1>2 DEF PlannedTensorsOf, VariablesOf
  <1>7. ASSUME t \in PlannedTensorsOf(i)
        PROVE  /\ t \in Needed(i) /\ t \notin VariablesOf(i)
               /\ TensorSpan(i, t).to <= BufferHead + max_head_buffer_usage
    <2>1. t \in Needed(i) /\ t \notin VariableTensors(i)
      BY <1>7 DEF PlannedTensorsOf, Needed, VariableTensors, NeedsAllocating
    <2>2. TensorSpan(i, t).to \in 0 .. BufferHead + max_head_buffer_usage
      BY <2>1 DEF IInv, DataOK
    <2> QED BY <2>1, <2>2 DEF VariablesOf
  <1>8. ASSUME t \in VariablesOf(i)
        PROVE  TensorSpan(i, t) \in persistent /\ tail <= TensorSpan(i, t).from
    <2>1. TensorSpan(i, t) \in persistent
      BY <1>8 DEF PlacesOK
    <2> QED BY <2>1 DEF IInv, ArenaInv, PersistentIntact
  <1> QED BY <1>2, <1>4, <1>5, <1>6, <1>7, <1>8

\* What is hit by writing to some spans.
LEMMA HitMembers ==
    ASSUME NEW S, NEW w
    PROVE  w \in Hit(S) <=>
              \E i \in Interpreters : \E t \in InMemory(i) :
                 /\ w = <<i, t>>
                 /\ \E s \in S : s.from < s.to /\ ~Disjoint(s, TensorSpan(i, t))
  BY DEF Hit, HitIn

\* What is written outside of the persistent memory hits planned tensors only.
LEMMA OnlyPlannedHit ==
    ASSUME IInv, PlacesOK, NEW S, \A s \in S : \A p \in persistent : Disjoint(s, p)
    PROVE  \A w \in Hit(S) : \E i \in Interpreters : \E t \in Needed(i) : w = <<i, t>>
  <1> SUFFICES ASSUME NEW w \in Hit(S)
               PROVE  \E i \in Interpreters : \E t \in Needed(i) : w = <<i, t>>
    OBVIOUS
  <1>0. PICK i \in Interpreters :
           \E t \in InMemory(i) : w = <<i, t>> /\ \E s \in S : ~Disjoint(s, TensorSpan(i, t))
    BY HitMembers
  <1>1. PICK t \in InMemory(i) : w = <<i, t>> /\ \E s \in S : ~Disjoint(s, TensorSpan(i, t))
    BY <1>0
  <1>2. TensorSpan(i, t) \notin persistent
    BY <1>1
  <1>3. t \in Needed(i)
    BY <1>2, SpansOfTensors
  <1> QED BY <1>1, <1>3

\* What is written behind the plans and outside of the persistent memory hits
\* nobody.
LEMMA NobodyHit ==
    ASSUME IInv, PlacesOK, NEW S,
           \A s \in S : /\ s.from \in Int /\ BufferHead + max_head_buffer_usage <= s.from
                        /\ \A p \in persistent : Disjoint(s, p)
    PROVE  Hit(S) = {}
  <1> SUFFICES ASSUME NEW w \in Hit(S) PROVE FALSE
    OBVIOUS
  <1>0. PICK i \in Interpreters :
           \E t \in InMemory(i) : \E s \in S : ~Disjoint(s, TensorSpan(i, t))
    BY HitMembers
  <1>1. PICK t \in InMemory(i), s \in S : ~Disjoint(s, TensorSpan(i, t))
    BY <1>0
  <1>2. TensorSpan(i, t) \notin persistent
    BY <1>1
  <1>3. /\ TensorSpan(i, t).to \in Nat
        /\ TensorSpan(i, t).to <= BufferHead + max_head_buffer_usage
    BY <1>2, SpansOfTensors
  <1>4. BufferHead \in Nat /\ max_head_buffer_usage \in Nat
    BY AllocatorNumbers DEF IInv, ControlOK
  <1> QED BY <1>1, <1>3, <1>4 DEF Disjoint

\* What is new in the arena is new: it lies behind the head and in no other
\* allocation.
LEMMA TailIsNew ==
    ASSUME ArenaInv, NEW size \in Sizes, NEW a \in Alignments, AllocateFromTail(size, a)
    PROVE  /\ persistent \subseteq persistent'
           /\ \A s \in NewSpans : /\ s.from \in Int /\ head <= s.from
                                  /\ \A p \in persistent : Disjoint(s, p)
  <1>1. ArenaInv' /\ head' = head /\ temps' = temps
    BY TailTaken
  <1>2. persistent \subseteq persistent'
    BY DEF AllocateFromTail
  <1>3. ASSUME NEW s \in NewSpans
        PROVE  /\ s.from \in Int /\ head <= s.from
               /\ \A p \in persistent : Disjoint(s, p)
    <2>1. s \in persistent' /\ s \notin persistent
      BY <1>1 DEF NewSpans
    <2>2. /\ s.from \in Nat /\ tail' <= s.from /\ head' <= tail'
          /\ \A p \in persistent' : s # p => Disjoint(s, p)
      BY <1>1, <2>1 DEF ArenaInv, ArenaTypeOK, PersistentIntact
    <2>3. head \in Nat /\ tail' \in Nat
      BY <1>1 DEF ArenaInv, ArenaTypeOK
    <2> QED BY <1>1, <1>2, <2>1, <2>2, <2>3
  <1> QED BY <1>2, <1>3

\* A temporary allocation is behind the head and apart from what is persistent.
LEMMA TempIsNew ==
    ASSUME ArenaInv, temp \in Nat, head <= temp, NEW size \in Nat, NEW a \in Alignments,
           AllocateTemp(size, a), ~TempHitsTail(size, a)
    PROVE  /\ persistent' = persistent
           /\ \A s \in NewSpans : /\ s.from \in Int /\ head <= s.from
                                  /\ \A p \in persistent : Disjoint(s, p)
  <1>1. /\ AlignUp(temp, a) + size <= tail
        /\ temps' = temps \cup {[from |-> AlignUp(temp, a), to |-> temp']}
    BY TempTaken
  <1>2. AlignUp(temp, a) \in Nat /\ temp <= AlignUp(temp, a)
    BY AlignUpAbove, AlignmentsAssumption
  <1>3. persistent' = persistent /\ temp' = SizeT(AlignUp(temp, a) + size)
    BY DEF AllocateTemp
  <1>4. tail \in Nat /\ tail < AddressSpace /\ head \in Nat
    BY ArenaNumbers
  <1>5. temp' = AlignUp(temp, a) + size
    <2>1. AlignUp(temp, a) + size \in Nat /\ AlignUp(temp, a) + size < AddressSpace
      BY <1>1, <1>2, <1>4, AllocatorNumbers
    <2> QED BY <1>3, <2>1, SizeTInRange
  <1>6. ASSUME NEW s \in NewSpans
        PROVE  /\ s.from \in Int /\ head <= s.from
               /\ \A p \in persistent : Disjoint(s, p)
    <2>1. s = [from |-> AlignUp(temp, a), to |-> temp']
      BY <1>1, <1>3, <1>6 DEF NewSpans
    <2>2. s.from = AlignUp(temp, a) /\ s.to <= tail /\ s.to \in Nat
      BY <1>1, <1>2, <1>5, <2>1
    <2>3. \A p \in persistent : p.from \in Nat /\ tail <= p.from
      BY DEF ArenaInv, ArenaTypeOK, PersistentIntact
    <2>4. \A p \in persistent : Disjoint(s, p)
      BY <1>4, <2>2, <2>3 DEF Disjoint
    <2> QED BY <1>2, <1>4, <2>2, <2>4
  <1> QED BY <1>3, <1>6

\* Both alignments are multiples of that of the structures.
LEMMA TailStaysAligned ==
    ASSUME ArenaInv, NEW size \in Sizes, NEW a \in {kStructAlignment, kBufferAlignment},
           AllocateFromTail(size, a)
    PROVE  tail' % kStructAlignment = 0
  <1> DEFINE s == kStructAlignment
             d == SizeT(tail - size) \div a
             r == a \div s
  <1>1. s \in Nat \ {0} /\ a \in Nat \ {0} /\ AddressSpace \in Nat \ {0} /\ size \in Nat
    BY AllocatorNumbers
  <1>2. tail \in Nat
    BY ArenaNumbers
  <1>3. SizeT(tail - size) \in Int
    BY <1>1, <1>2, DivMod DEF SizeT
  <1>4. d \in Int
    BY <1>1, <1>3, DivMod
  <1>5. tail' = d * a
    BY DEF AllocateFromTail, TailResult, AlignDown
  <1>6. a % s = 0
    <2>1. CASE a = s
      <3>1. a = s * 1 + 0 /\ 0 \in 0 .. s - 1
        BY <1>1, <2>1
      <3> QED BY <1>1, <3>1, ModUnique
    <2>2. CASE a = kBufferAlignment
      BY <2>2, BufferAlignmentAssumption
    <2> QED BY <2>1, <2>2
  <1>7. r \in Int /\ a = s * r + (a % s)
    BY <1>1, DivMod
  <1> HIDE DEF d, r, s
  <1>8. a = s * r
    BY <1>1, <1>6, <1>7
  <1>9. d * a = s * (d * r) + 0 /\ d * r \in Int /\ d * a \in Int
    BY <1>1, <1>4, <1>7, <1>8
  <1>10. 0 \in 0 .. s - 1
    BY <1>1
  <1>11. (d * a) % s = 0
    BY <1>1, <1>9, <1>10, ModUnique
  <1> QED BY <1>5, <1>11 DEF s

-----------------------------------------------------------------------------
(* What an operator has in its hands.                                      *)

\* Being apart is symmetric.
LEMMA DisjointBothWays ==
    ASSUME NEW r, NEW s, Disjoint(r, s)
    PROVE  Disjoint(s, r)
  BY DEF Disjoint

\* Tensors in use at the same time are not in each other's way.
LEMMA TensorsClear ==
    ASSUME IInv, PlacesOK, ~model_is_allocating, NEW i \in Interpreters, NEW time \in Int,
           NEW t \in InMemory(i), NEW u \in InMemory(i), t # u,
           t \in Needed(i) => InUse(model[i], t, time),
           u \in Needed(i) => InUse(model[i], u, time)
    PROVE  Disjoint(TensorSpan(i, t), TensorSpan(i, u))
  <1>1. model[i] \in Models
    BY DEF IInv, ControlOK
  <1>2. head = BufferHead + max_head_buffer_usage /\ head \in Nat /\ tail \in Nat /\ head <= tail
    BY ArenaNumbers DEF IInv, HeadOK
  <1>3. ASSUME NEW x \in InMemory(i), NEW y \in InMemory(i),
               x \in PlannedTensorsOf(i), y \in VariablesOf(i)
        PROVE  TensorSpan(i, x).to <= TensorSpan(i, y).from
    <2>1. TensorSpan(i, x).to <= head /\ TensorSpan(i, x).to \in Nat
      BY <1>2, <1>3, SpansOfTensors
    <2>2. tail <= TensorSpan(i, y).from /\ TensorSpan(i, y).from \in Nat
      BY <1>3, SpansOfTensors
    <2> QED BY <1>2, <2>1, <2>2
  <1>4. CASE t \in PlannedTensorsOf(i) /\ u \in PlannedTensorsOf(i)
    <2>1. LivesMeet(model[i], t, u)
      BY <1>1, <1>4, BothInUse DEF PlannedTensorsOf
    <2> QED BY <1>4, <2>1 DEF PlacesOK
  <1>5. CASE t \in PlannedTensorsOf(i) /\ u \in VariablesOf(i)
    BY <1>3, <1>5 DEF Disjoint
  <1>6. CASE t \in VariablesOf(i) /\ u \in PlannedTensorsOf(i)
    BY <1>3, <1>6 DEF Disjoint
  <1>7. CASE t \in VariablesOf(i) /\ u \in VariablesOf(i)
    BY <1>7 DEF PlacesOK
  <1> QED BY <1>4, <1>5, <1>6, <1>7, SpansOfTensors

\* Nor is a scratch buffer in the way of a tensor its operator uses.
LEMMA ScratchClear ==
    ASSUME IInv, PlacesOK, ~model_is_allocating, NEW i \in Interpreters,
           NEW s \in scratch[i], NEW t \in InMemory(i),
           t \in Needed(i) => InUse(model[i], t, s.op - 1)
    PROVE  Disjoint(s.span, TensorSpan(i, t))
  <1>1. head = BufferHead + max_head_buffer_usage /\ head \in Nat /\ tail \in Nat /\ head <= tail
    BY ArenaNumbers DEF IInv, HeadOK
  <1>2. CASE t \in PlannedTensorsOf(i)
    BY <1>2 DEF PlacesOK, PlannedTensorsOf
  <1>3. CASE t \in VariablesOf(i)
    <2>1. s.span.to \in Nat /\ s.span.to <= head
      BY <1>1 DEF PlacesOK
    <2>2. tail <= TensorSpan(i, t).from /\ TensorSpan(i, t).from \in Nat
      BY <1>3, SpansOfTensors
    <2> QED BY <1>1, <2>1, <2>2 DEF Disjoint
  <1> QED BY <1>2, <1>3, SpansOfTensors

\* AlignPointerUp does not pass a multiple.
LEMMA AlignUpWithin ==
    ASSUME NEW a \in Nat \ {0}, NEW p \in Nat, NEW n \in Nat, n % a = 0, p <= n
    PROVE  AlignUp(p, a) <= n
  <1> DEFINE x == p + (a - 1)
             q == x \div a
             r == x % a
             k == n \div a
  <1>1. q \in Int /\ r \in 0 .. a - 1 /\ x = a * q + r
    <2>1. x \in Int
      OBVIOUS
    <2> HIDE DEF x
    <2> QED BY <2>1, DivMod
  <1>2. k \in Int /\ n = a * k + (n % a)
    BY DivMod
  <1>3. AlignUp(p, a) = q * a
    BY DEF AlignUp
  <1> HIDE DEF q, r, k
  <1>4. n = a * k
    BY <1>2
  <1>5. a * (q - k) <= a - 1
    BY <1>1, <1>2, <1>4
  <1>6. q - k > 0 => a * (q - k) >= a
    BY <1>1, <1>2
  <1>7. k - q >= 0 /\ a * (k - q) >= 0
    BY <1>1, <1>2, <1>5, <1>6
  <1>8. q * a = n - a * (k - q)
    BY <1>1, <1>2, <1>4
  <1>9. a * (k - q) \in Int
    BY <1>1, <1>2
  <1> QED BY <1>3, <1>7, <1>8, <1>9

\* The temporary tensors of an operator that runs lie between head and tail.
LEMMA EvalTempsBetween ==
    ASSUME IInv, SettledOK, At("invoke"), ~NoEvalTensors
    PROVE  /\ ~model_is_allocating
           /\ EvalTempsSpan.from \in Int /\ head <= EvalTempsSpan.from
           /\ EvalTempsSpan.to \in Int /\ EvalTempsSpan.to <= tail
  <1>1. ~model_is_allocating /\ temp = head /\ tail % kStructAlignment = 0
    BY DEF SettledOK, At, Allocating, Preparing, Planning
  <1>2. head \in Nat /\ tail \in Nat /\ head <= tail /\ tail < AddressSpace
    BY ArenaNumbers DEF IInv
  <1>3. kStructAlignment \in Nat \ {0} /\ TensorSize \in Nat
    BY AllocatorNumbers, AllocatorAssumption
  <1> DEFINE A == AlignUp(temp, kStructAlignment)
             size == TensorSize * Operator.eval_tensors
  <1>4. A \in Nat /\ head <= A /\ A <= tail
    BY <1>1, <1>2, <1>3, AlignUpAbove, AlignUpWithin
  <1>5. Operator.eval_tensors \in Nat
    <2>1. Operator \in OperatorRecord
      BY CallInProgress DEF IInv, At, Steps, OverOperators
    <2> QED BY <2>1 DEF OperatorRecord
  <1>6. EvalTempsSpan.from = A /\ EvalTempsSpan.to = A + size
    BY DEF EvalTempsSpan, Span
  <1>7. size \in Nat
    BY <1>3, <1>5
  <1>8. A + size <= tail
    <2>1. CASE Operator.eval_tensors = 0
      <3>1. size = 0
        BY <1>3, <2>1
      <3> HIDE DEF A, size
      <3> QED BY <1>4, <3>1
    <2>2. CASE Operator.eval_tensors > 0
      <3>1. SizeT(tail - A) >= size
        BY <2>2 DEF NoEvalTensors, TempFits
      <3> HIDE DEF A, size
      <3>2. tail - A \in Nat /\ tail - A < AddressSpace
        BY <1>2, <1>4, AllocatorNumbers
      <3>3. SizeT(tail - A) = tail - A
        BY <3>2, SizeTInRange
      <3> QED BY <1>2, <1>4, <1>7, <3>1, <3>3
    <2> QED BY <1>5, <2>1, <2>2
  <1> HIDE DEF A, size
  <1> QED BY <1>1, <1>2, <1>4, <1>6, <1>7, <1>8

\* What is known when an operator runs: all is in place, and what it uses is in use.
LEMMA InvokeFacts ==
    ASSUME IInv, Running, PlacedOK, SettledOK, ClientOK, At("invoke")
    PROVE  /\ Who \in Interpreters /\ model[Who] \in Models /\ M = model[Who]
           /\ call.op \in DOMAIN M.operators /\ HasPlaces(Who)
           /\ ~model_is_allocating
           /\ call.op - 1 \in Nat
           /\ \A t \in Inputs(Who, call.op) \cup Outputs(Who, call.op) :
                 t \in Needed(Who) => InUse(model[Who], t, call.op - 1)
  <1>1. Who \in Interpreters /\ M \in Models /\ M = model[Who] /\ call.op \in DOMAIN M.operators
    BY CallInProgress DEF IInv, At, Steps, OverOperators, M, Who
  <1>2. ~BeingPlaced(Who) /\ tensors_allocated[Who]
    BY DEF At, BeingPlaced, Unplanned, Planning, ClientOK
  <1>3. HasPlaces(Who)
    BY <1>1, <1>2 DEF PlacedOK
  <1>4. ~model_is_allocating
    BY DEF SettledOK, At, Allocating, Preparing, Planning
  <1>5. call.op - 1 \in Nat
    BY <1>1, OperatorTensors
  <1>6. ASSUME NEW t \in Inputs(Who, call.op), t \in Needed(Who)
        PROVE  InUse(model[Who], t, call.op - 1)
    <2>1. IsThere(Who, t, call.op - 1)
      BY <1>1, <1>6, OperatorTensors
    <2> QED BY <1>1, <1>5, <2>1, ThereInUse
  <1>7. ASSUME NEW t \in Outputs(Who, call.op), t \in Needed(Who)
        PROVE  InUse(model[Who], t, call.op - 1)
    <2>1. LastUsed(model[Who], t) # -1
      BY <1>3, <1>7 DEF HasPlaces, TensorsPlaced
    <2> QED BY <1>1, <1>7, <2>1, OperatorTensors
  <1> QED BY <1>1, <1>3, <1>4, <1>5, <1>6, <1>7

\* What an operator has in its hands is a tensor in memory that it uses or a
\* scratch buffer of its own.
LEMMA SpansOfOperator ==
    ASSUME NEW i, NEW op,
           NEW w \in DOMAIN OperatorSpans(i, op)
    PROVE  \/ \E t \in (Inputs(i, op) \cup Outputs(i, op)) \cap InMemory(i) :
                 w = <<"tensor", t>> /\ OperatorSpans(i, op)[w] = TensorSpan(i, t)
           \/ \E s \in scratch[i] :
                 s.op = op /\ w = <<"scratch", s.span>> /\ OperatorSpans(i, op)[w] = s.span
  <1> DEFINE tensors == (Inputs(i, op) \cup Outputs(i, op)) \cap InMemory(i)
  <1>1. OperatorSpans(i, op)[w] = IF w[1] = "tensor" THEN TensorSpan(i, w[2]) ELSE w[2]
    BY DEF OperatorSpans
  <1>2. w \in {<<"tensor", t>> : t \in tensors} \cup {<<"scratch", s>> : s \in ScratchOf(i, op)}
    BY DEF OperatorSpans
  <1>3. CASE w \in {<<"tensor", t>> : t \in tensors}
    <2>1. PICK t \in tensors : w = <<"tensor", t>>
      BY <1>3
    <2>2. w[1] = "tensor" /\ w[2] = t
      BY <2>1
    <2> QED BY <1>1, <2>1, <2>2
  <1>4. CASE w \in {<<"scratch", s>> : s \in ScratchOf(i, op)}
    <2>1. PICK span \in ScratchOf(i, op) : w = <<"scratch", span>>
      BY <1>4
    <2>2. PICK s \in scratch[i] : s.op = op /\ span = s.span
      BY <2>1 DEF ScratchOf
    <2>3. w[1] # "tensor" /\ w[2] = span
      BY <2>1
    <2> QED BY <1>1, <2>1, <2>2, <2>3
  <1> QED BY <1>2, <1>3, <1>4

\* No two areas of an operator overlap.
LEMMA OperatorAreasApart ==
    ASSUME IInv, Running, PlacesOK, PlacedOK, SettledOK, ClientOK, At("invoke")
    PROVE  LET spans == OperatorSpans(Who, call.op)
           IN  /\ Pairwise(spans, DOMAIN spans)
               /\ ~NoEvalTensors => \A w \in DOMAIN spans : Disjoint(spans[w], EvalTempsSpan)
  <1> DEFINE spans == OperatorSpans(Who, call.op)
             tensors == (Inputs(Who, call.op) \cup Outputs(Who, call.op)) \cap InMemory(Who)
             Tensor1(w, t) == w = <<"tensor", t>> /\ spans[w] = TensorSpan(Who, t)
             Scratch1(w, s) == /\ s.op = call.op /\ w = <<"scratch", s.span>>
                               /\ spans[w] = s.span
  <1>1. /\ Who \in Interpreters /\ ~model_is_allocating /\ call.op - 1 \in Nat
        /\ \A t \in tensors : t \in Needed(Who) => InUse(model[Who], t, call.op - 1)
    BY InvokeFacts
  <1>2. \A w \in DOMAIN spans :
           (\E t \in tensors : Tensor1(w, t)) \/ (\E s \in scratch[Who] : Scratch1(w, s))
    BY SpansOfOperator
  <1>3. ASSUME NEW t \in tensors, NEW u \in tensors, t # u
        PROVE  Disjoint(TensorSpan(Who, t), TensorSpan(Who, u))
    BY <1>1, <1>3, TensorsClear
  <1>4. ASSUME NEW s \in scratch[Who], s.op = call.op, NEW t \in tensors
        PROVE  Disjoint(s.span, TensorSpan(Who, t)) /\ Disjoint(TensorSpan(Who, t), s.span)
    BY <1>1, <1>4, ScratchClear, DisjointBothWays
  <1>5. ASSUME NEW s \in scratch[Who], NEW r \in scratch[Who], s.op = call.op, r.op = call.op,
               s.span # r.span
        PROVE  Disjoint(s.span, r.span)
    BY <1>1, <1>5 DEF PlacesOK
  <1> HIDE DEF spans, tensors
  <1>6. Pairwise(spans, DOMAIN spans)
    <2> SUFFICES ASSUME NEW x \in DOMAIN spans, NEW y \in DOMAIN spans, x # y
                 PROVE  Disjoint(spans[x], spans[y])
      BY DEF Pairwise
    <2>1. CASE (\E t \in tensors : Tensor1(x, t)) /\ (\E t \in tensors : Tensor1(y, t))
      BY <1>3, <2>1
    <2>2. CASE (\E t \in tensors : Tensor1(x, t)) /\ (\E s \in scratch[Who] : Scratch1(y, s))
      BY <1>4, <2>2
    <2>3. CASE (\E s \in scratch[Who] : Scratch1(x, s)) /\ (\E t \in tensors : Tensor1(y, t))
      BY <1>4, <2>3
    <2>4. CASE (\E s \in scratch[Who] : Scratch1(x, s)) /\ (\E s \in scratch[Who] : Scratch1(y, s))
      BY <1>5, <2>4
    <2> QED BY <1>2, <2>1, <2>2, <2>3, <2>4
  <1>7. ASSUME ~NoEvalTensors, NEW w \in DOMAIN spans
        PROVE  Disjoint(spans[w], EvalTempsSpan)
    <2>1. /\ EvalTempsSpan.from \in Int /\ head <= EvalTempsSpan.from
          /\ EvalTempsSpan.to \in Int /\ EvalTempsSpan.to <= tail
      BY <1>7, EvalTempsBetween
    <2>2. head = BufferHead + max_head_buffer_usage /\ head \in Nat /\ tail \in Nat
      BY <1>1, ArenaNumbers DEF IInv, HeadOK
    <2>3. ASSUME NEW t \in tensors PROVE Disjoint(TensorSpan(Who, t), EvalTempsSpan)
      <3>1. t \in InMemory(Who)
        BY DEF tensors
      <3>2. \/ TensorSpan(Who, t).to <= head
            \/ tail <= TensorSpan(Who, t).from
        BY <1>1, <2>2, <3>1, SpansOfTensors
      <3>3. TensorSpan(Who, t).to \in Nat /\ TensorSpan(Who, t).from \in Nat
        BY <1>1, <3>1, SpansOfTensors
      <3> QED BY <2>1, <2>2, <3>2, <3>3 DEF Disjoint
    <2>4. ASSUME NEW s \in scratch[Who] PROVE Disjoint(s.span, EvalTempsSpan)
      <3>1. s.span.to \in Nat /\ s.span.to <= head
        BY <1>1, <2>2 DEF PlacesOK
      <3> QED BY <2>1, <2>2, <3>1 DEF Disjoint
    <2> QED BY <1>2, <2>3, <2>4
  <1> QED BY <1>6, <1>7 DEF spans

\* The invariant makes the property.
LEMMA LiveInvIntact ==
    ASSUME IInv, LiveInv
    PROVE  LiveDataIntact
  <1> SUFFICES ASSUME ~failed PROVE LiveDataIntact
    BY DEF LiveDataIntact
  <1>0. HitOK
    BY DEF LiveInv
  <1>1. ASSUME NEW i \in Interpreters, NEW t, t \notin Needed(i)
        PROVE  <<i, t>> \notin clobbered
    BY <1>0, <1>1 DEF HitOK
  <1>2. ASSUME At("invoke")
        PROVE  Running /\ PlacesOK /\ SettledOK /\ PlacedOK /\ ClientOK /\ LiveOK
    BY <1>2 DEF LiveInv, Running, At
  <1>3. ASSUME At("invoke"), fresh = Who, NEW t \in Inputs(Who, call.op)
        PROVE  <<Who, t>> \notin clobbered
    <2>1. Who \in Interpreters /\ model[Who] \in Models /\ call.op \in DOMAIN model[Who].operators
      BY <1>2, <1>3, InvokeFacts
    <2>2. t \in Needed(Who) => IsThere(Who, t, call.op - 1)
      BY <1>3, <2>1, OperatorTensors
    <2> QED BY <1>1, <1>2, <1>3, <2>1, <2>2 DEF LiveOK
  <1>4. ASSUME NEW i \in Interpreters, NEW t \in VariableTensors(i)
        PROVE  <<i, t>> \notin clobbered
    BY <1>1 DEF VariableTensors, Needed, NeedsAllocating
  <1>5. served # None =>
          \A t \in ToSet(model[served].outputs) : <<served, t>> \notin clobbered
    BY <1>0 DEF HitOK
  <1>6. At("invoke") =>
          LET spans == OperatorSpans(Who, call.op)
          IN  /\ Pairwise(spans, DOMAIN spans)
              /\ ~NoEvalTensors =>
                    \A w \in DOMAIN spans : Disjoint(spans[w], EvalTempsSpan)
    BY <1>2, OperatorAreasApart
  <1> QED BY <1>3, <1>4, <1>5, <1>6 DEF LiveDataIntact

-----------------------------------------------------------------------------
(* Every step of a call keeps it.                                          *)

\* After a failure nothing is promised.
LEMMA FailureEnds == failed' => LiveInv'
  BY DEF LiveInv, Running

\* Overwriting planned tensors keeps HitOK unless outputs are waiting to be read.
LEMMA HitStays ==
    ASSUME HitOK, UNCHANGED model, served' \in {served, None},
           \A w \in clobbered' :
              w \in clobbered \/ \E i \in Interpreters : \E t \in Needed(i) : w = <<i, t>>,
           served' # None => clobbered' \subseteq clobbered
    PROVE  HitOK'
  <1>1. \A i : Needed(i)' = Needed(i)
    BY DEF Needed
  <1>2. ASSUME NEW w \in clobbered'
        PROVE  \E i \in Interpreters : \E t \in Needed(i)' : w = <<i, t>>
    <2>1. \E i \in Interpreters : \E t \in Needed(i) : w = <<i, t>>
      BY <1>2 DEF HitOK
    <2> QED BY <1>1, <2>1
  <1>3. served' # None =>
           \A t \in ToSet(model'[served'].outputs) : <<served', t>> \notin clobbered'
    BY DEF HitOK
  <1> QED BY <1>2, <1>3 DEF HitOK

\* When the program halts nothing is overwritten any more.
LEMMA StopEnds == LiveInv /\ Stop => LiveInv'
  <1> SUFFICES ASSUME LiveInv, Stop PROVE LiveInv'
    OBVIOUS
  <1>1. UNCHANGED <<model, failed, clobbered, served>> /\ call' = Stopped
    BY DEF Stop, interpreters, memory
  <1>2. ~Running'
    BY <1>1 DEF Running, At, Stopped
  <1>3. HitOK => HitOK'
    BY <1>1, HitStays
  <1> QED BY <1>1, <1>2, <1>3 DEF LiveInv

\* Places stay apart while nobody moves.
LEMMA PlacesStay ==
    ASSUME PlacesOK, UNCHANGED <<model, data, scratch, max_head_buffer_usage>>,
           persistent \subseteq persistent'
    PROVE  PlacesOK'
  <1>1. \A i : /\ Needed(i)' = Needed(i) /\ InMemory(i)' = InMemory(i)
               /\ VariableTensors(i)' = VariableTensors(i)
    BY DEF Needed, InMemory, VariableTensors
  <1>2. \A i : PlannedTensorsOf(i)' = PlannedTensorsOf(i) /\ VariablesOf(i)' = VariablesOf(i)
    BY <1>1 DEF PlannedTensorsOf, VariablesOf
  <1>3. \A i, t : TensorSpan(i, t)' = TensorSpan(i, t)
    BY DEF TensorSpan
  <1>4. \A i \in Interpreters :
          /\ DOMAIN data'[i] \subseteq DOMAIN model'[i].tensors
          /\ \A t \in DOMAIN data'[i] : data'[i][t] \in Int
          /\ InMemory(i)' \subseteq Needed(i)' \cup VariableTensors(i)'
    BY <1>1 DEF PlacesOK
  <1>5. \A i \in Interpreters : \A t, u \in PlannedTensorsOf(i)' :
          t # u /\ LivesMeet(model'[i], t, u) => Disjoint(TensorSpan(i, t)', TensorSpan(i, u)')
    BY <1>2, <1>3 DEF PlacesOK
  <1>6. \A i \in Interpreters : \A s \in scratch'[i] :
          /\ s.op \in Nat /\ s.span.from \in Nat /\ s.span.to \in Nat
          /\ s.span.to <= BufferHead + max_head_buffer_usage'
          /\ \A t \in PlannedTensorsOf(i)' :
                InUse(model'[i], t, s.op - 1) => Disjoint(s.span, TensorSpan(i, t)')
          /\ \A r \in scratch'[i] : s.op = r.op /\ s.span # r.span => Disjoint(s.span, r.span)
    BY <1>2, <1>3 DEF PlacesOK
  <1>7. \A i \in Interpreters : \A t \in VariablesOf(i)' : TensorSpan(i, t)' \in persistent'
    BY <1>2, <1>3 DEF PlacesOK
  <1>8. \A i, j \in Interpreters : \A t \in VariablesOf(i)' : \A u \in VariablesOf(j)' :
          i # j \/ t # u => Disjoint(TensorSpan(i, t)', TensorSpan(j, u)')
    BY <1>2, <1>3 DEF PlacesOK
  <1> QED BY <1>4, <1>5, <1>6, <1>7, <1>8 DEF PlacesOK

\* Whoever has places keeps them while nobody moves.
LEMMA HasPlacesStays ==
    ASSUME UNCHANGED <<model, data>>
    PROVE  /\ \A i, n : TensorsPlaced(i, n)' <=> TensorsPlaced(i, n)
           /\ \A i : HasPlaces(i)' <=> HasPlaces(i)
  <1>1. \A i : /\ Needed(i)' = Needed(i) /\ InMemory(i)' = InMemory(i)
               /\ VariableTensors(i)' = VariableTensors(i)
    BY DEF Needed, InMemory, VariableTensors
  <1>2. \A i, n : TensorsPlaced(i, n)' <=> TensorsPlaced(i, n)
    BY <1>1 DEF TensorsPlaced
  <1> QED BY <1>2 DEF HasPlaces

\* The call goes on to another step before the plan is made.
LEMMA PlacingGoesOn ==
    ASSUME PlacedOK, UNCHANGED <<model, data, tensors_allocated>>, call'.who = call.who,
           call.at \in Unplanned, call'.at \in Unplanned \ {"commit"}
    PROVE  PlacedOK'
  <1>1. \A i : HasPlaces(i)' <=> HasPlaces(i)
    BY HasPlacesStays
  <1>2. \A i : BeingPlaced(i)' <=> BeingPlaced(i)
    BY DEF BeingPlaced, Who
  <1>3. call'.at \notin Finishing \cup {"commit", "plan_head", "variables"}
    BY DEF Unplanned, Planning, Finishing
  <1> QED BY <1>1, <1>2, <1>3 DEF PlacedOK, At

\* All tensors have places when the call goes on.
LEMMA PlacingIsOver ==
    ASSUME PlacedOK, UNCHANGED <<model, data, tensors_allocated>>, call'.who = call.who,
           HasPlaces(Who),
           call'.at \notin Unplanned \cup {"plan_head", "variables"}
    PROVE  PlacedOK'
  <1>1. \A i : HasPlaces(i)' <=> HasPlaces(i)
    BY HasPlacesStays
  <1>2. \A i : BeingPlaced(i) => i = Who
    BY DEF BeingPlaced
  <1>3. Who' = Who
    BY DEF Who
  <1>4. call'.at \notin {"commit", "plan_head", "variables"}
    BY DEF Unplanned, Planning
  <1>5. \A i \in Interpreters : tensors_allocated'[i] => HasPlaces(i)'
    BY <1>1, <1>2 DEF PlacedOK
  <1> QED BY <1>1, <1>3, <1>4, <1>5 DEF PlacedOK, At

\* A step of an allocation that leaves the plans alone.
LEMMA AllocationStep ==
    ASSUME LiveInv, Running, call.at \notin {"idle", "tensor", "invoke"},
           call'.at \notin {"idle", "tensor", "invoke"},
           UNCHANGED <<model, data, scratch, max_head_buffer_usage, failed, fresh, served>>,
           persistent \subseteq persistent',
           \A w \in clobbered' :
              w \in clobbered \/ \E i \in Interpreters : \E t \in Needed(i) : w = <<i, t>>,
           SettledOK', AssignedOK', PlacedOK'
    PROVE  LiveInv'
  <1>1. HitOK /\ PlacesOK /\ ClientOK
    BY DEF LiveInv, Running
  <1>2. fresh = None /\ served = None
    BY <1>1 DEF ClientOK
  <1>3. HitOK'
    BY <1>1, <1>2, HitStays
  <1>4. PlacesOK'
    BY <1>1, PlacesStay
  <1>5. ClientOK'
    BY <1>2 DEF ClientOK, At
  <1>6. LiveOK'
    BY <1>2 DEF LiveOK, At
  <1> QED BY <1>3, <1>4, <1>5, <1>6 DEF LiveInv

\* Who is hit by what is allocated.
NewHits ==
    /\ persistent \subseteq persistent'
    /\ \A w \in clobbered' :
          w \in clobbered \/ \E i \in Interpreters : \E t \in Needed(i) : w = <<i, t>>
    /\ UNCHANGED <<fresh, served>>

\* Writing to what was taken from the tail overwrites planned tensors at most.
LEMMA TailHits ==
    ASSUME IInv, PlacesOK, tail % kStructAlignment = 0, NEW size \in Sizes,
           NEW a \in {kStructAlignment, kBufferAlignment},
           \/ AllocateFromTail(size, a) /\ Writes(NewSpans)
           \/ UNCHANGED <<arena, memory>>
    PROVE  NewHits /\ tail' % kStructAlignment = 0
  <1>1. CASE AllocateFromTail(size, a) /\ Writes(NewSpans)
    <2>1. a \in Alignments
      BY AllocatorNumbers
    <2>2. /\ persistent \subseteq persistent'
          /\ \A s \in NewSpans : \A p \in persistent : Disjoint(s, p)
      BY <1>1, <2>1, TailIsNew DEF IInv
    <2>3. \A w \in Hit(NewSpans) : \E i \in Interpreters : \E t \in Needed(i) : w = <<i, t>>
      BY <2>2, OnlyPlannedHit
    <2>4. tail' % kStructAlignment = 0
      BY <1>1, TailStaysAligned DEF IInv
    <2> QED BY <1>1, <2>2, <2>3, <2>4 DEF NewHits, Writes
  <1>2. CASE UNCHANGED <<arena, memory>>
    BY <1>2 DEF NewHits, arena, memory
  <1> QED BY <1>1, <1>2

\* Writing to temporary memory overwrites planned tensors at most.
LEMMA TempHits ==
    ASSUME IInv, call.at # "stopped", PlacesOK, NEW size \in Nat, NEW a \in Alignments,
           AllocateTemp(size, a), ~TempHitsTail(size, a), Writes(NewSpans)
    PROVE  NewHits /\ tail' = tail
  <1>1. /\ persistent' = persistent
        /\ \A s \in NewSpans : \A p \in persistent : Disjoint(s, p)
    BY TempIsNew, TempBehindHead DEF IInv
  <1>2. \A w \in Hit(NewSpans) : \E i \in Interpreters : \E t \in Needed(i) : w = <<i, t>>
    BY <1>1, OnlyPlannedHit
  <1> QED BY <1>1, <1>2 DEF NewHits, Writes, AllocateTemp

\* A step on the way to the plan.
LEMMA PreparingStep ==
    ASSUME LiveInv, Running, call.at \notin {"idle", "tensor", "invoke"},
           call'.at \in Allocating \ {"variables"},
           UNCHANGED <<model, data, scratch, max_head_buffer_usage, failed>>,
           NewHits, tail' % kStructAlignment = 0, AssignedOK', PlacedOK'
    PROVE  LiveInv'
  <1>1. SettledOK'
    BY DEF SettledOK, At
  <1>2. call'.at \notin {"idle", "tensor", "invoke"}
    BY DEF Allocating, Preparing, Planning
  <1> QED BY <1>1, <1>2, AllocationStep DEF NewHits

\* A step that allocates from the tail before there is a plan.
LEMMA TailPreparingStep ==
    ASSUME IInv, LiveInv, Running, call.at \notin {"idle", "tensor", "invoke"},
           call'.at \in Allocating \ {"variables"},
           UNCHANGED <<model, data, scratch, max_head_buffer_usage, failed>>,
           NEW size \in Sizes, NEW a \in {kStructAlignment, kBufferAlignment},
           \/ AllocateFromTail(size, a) /\ Writes(NewSpans)
           \/ UNCHANGED <<arena, memory>>,
           AssignedOK', PlacedOK'
    PROVE  LiveInv'
  <1>1. PlacesOK /\ SettledOK
    BY DEF LiveInv
  <1>2. NewHits /\ tail' % kStructAlignment = 0
    BY <1>1, TailHits DEF SettledOK
  <1> QED BY <1>2, PreparingStep

\* Outside of Prepare and the plan there is nothing to assign.
LEMMA NothingAssigned ==
    ASSUME call'.at \notin {"prepare", "adjust_head"} \cup Planning
    PROVE  AssignedOK'
  BY DEF AssignedOK, At

\* StartModelAllocation moves no data.
LEMMA StartLive == IInv /\ LiveInv /\ Running /\ Start => LiveInv'
  <1> SUFFICES ASSUME IInv, LiveInv, Running, Start PROVE LiveInv'
    OBVIOUS
  <1>1. call.at = "start" /\ call \in Calls
    BY CallInProgress DEF IInv, Start, At, Steps
  <1>2. \/ failed'
        \/ /\ SetHeadBufferSize(RequestRoom(0), kStructAlignment) /\ UNCHANGED memory
           /\ Goto("eval_tensors") /\ UNCHANGED <<interpreters, failed, max_head_buffer_usage>>
    BY DEF Start, SetHead, ReturnStartError
  <1>3. CASE /\ SetHeadBufferSize(RequestRoom(0), kStructAlignment) /\ UNCHANGED memory
             /\ Goto("eval_tensors") /\ UNCHANGED <<interpreters, failed, max_head_buffer_usage>>
    <2>1. call'.at = "eval_tensors"
      BY <1>1, <1>3, GotoCall DEF Steps
    <2>2. NewHits /\ tail' = tail
      BY <1>3 DEF NewHits, SetHeadBufferSize, memory
    <2>3. AssignedOK'
      BY <2>1, NothingAssigned DEF Planning
    <2>4. PlacedOK'
      <3>1. PlacedOK
        BY DEF LiveInv
      <3>2. \A i : HasPlaces(i)' <=> HasPlaces(i)
        BY <1>3, HasPlacesStays DEF interpreters
      <3>3. call'.at \notin Finishing \cup {"commit", "plan_head", "variables"}
        BY <2>1 DEF Finishing
      <3>4. \A i : ~BeingPlaced(i)
        BY <1>1 DEF BeingPlaced, Unplanned, Planning
      <3>5. tensors_allocated' = tensors_allocated
        BY <1>3 DEF interpreters
      <3> QED BY <3>1, <3>2, <3>3, <3>4, <3>5 DEF PlacedOK, At
    <2>5. tail % kStructAlignment = 0
      BY DEF LiveInv, SettledOK
    <2>6. call'.at \in Allocating \ {"variables"}
      BY <2>1 DEF Allocating, Preparing
    <2> QED BY <1>1, <1>3, <2>2, <2>3, <2>4, <2>5, <2>6, PreparingStep DEF interpreters
  <1> QED BY <1>2, <1>3, FailureEnds

\* AllocateNodeAndRegistrations takes memory behind every plan.
LEMMA NodesLive == IInv /\ LiveInv /\ Running /\ AllocateNodeAndRegistrations => LiveInv'
  <1> SUFFICES ASSUME IInv, LiveInv, Running, AllocateNodeAndRegistrations PROVE LiveInv'
    OBVIOUS
  <1>1. call \in Calls /\ M \in Models /\ call.at = "nodes"
    BY CallInProgress DEF IInv, AllocateNodeAndRegistrations, At, Steps
  <1> DEFINE s == NodeSize * Len(M.operators)
  <1>2. s \in Sizes
    BY <1>1, TailSizes
  <1>3. \/ failed'
        \/ Stop
        \/ /\ AllocateFromTail(s, kStructAlignment) /\ Writes(NewSpans)
           /\ Goto("op_data") /\ Keep
    BY DEF AllocateNodeAndRegistrations, FromTail, ReturnStartError
  <1> HIDE DEF s
  <1>4. CASE /\ AllocateFromTail(s, kStructAlignment) /\ Writes(NewSpans)
             /\ Goto("op_data") /\ Keep
    <2>1. call'.at = "op_data" /\ call'.who = call.who
      BY <1>1, <1>4, GotoCall DEF Steps
    <2>2. UNCHANGED <<model, data, scratch, max_head_buffer_usage, failed, tensors_allocated>>
      BY <1>4 DEF Keep, allocator, interpreters
    <2>3. AssignedOK'
      BY <2>1, NothingAssigned DEF Planning
    <2>4. PlacedOK'
      BY <1>1, <2>1, <2>2, PlacingGoesOn DEF LiveInv, Unplanned
    <2>5. call'.at \in Allocating \ {"variables"}
      BY <2>1 DEF Allocating, Preparing
    <2> QED BY <1>1, <1>2, <1>4, <2>2, <2>3, <2>4, <2>5, TailPreparingStep
  <1> QED BY <1>3, <1>4, FailureEnds, StopEnds

\* Nothing new is in memory, and what remains is where it was.
LEMMA PlacesRemain ==
    ASSUME PlacesOK, UNCHANGED <<model, scratch, max_head_buffer_usage>>,
           persistent \subseteq persistent',
           \A i \in Interpreters :
              /\ DOMAIN data'[i] \subseteq DOMAIN model'[i].tensors
              /\ \A t \in DOMAIN data'[i] : data'[i][t] \in Int,
           \A i \in Interpreters :
              /\ InMemory(i)' \subseteq InMemory(i)
              /\ \A t \in InMemory(i)' : TensorSpan(i, t)' = TensorSpan(i, t)
    PROVE  PlacesOK'
  <1>1. \A i : Needed(i)' = Needed(i) /\ VariableTensors(i)' = VariableTensors(i)
    BY DEF Needed, VariableTensors
  <1>2. \A i \in Interpreters :
           /\ PlannedTensorsOf(i)' \subseteq PlannedTensorsOf(i)
           /\ \A t \in PlannedTensorsOf(i)' : TensorSpan(i, t)' = TensorSpan(i, t)
           /\ VariablesOf(i)' \subseteq VariablesOf(i)
           /\ \A t \in VariablesOf(i)' : TensorSpan(i, t)' = TensorSpan(i, t)
    BY <1>1 DEF PlannedTensorsOf, VariablesOf
  <1>3. \A i \in Interpreters : InMemory(i)' \subseteq Needed(i)' \cup VariableTensors(i)'
    BY <1>1 DEF PlacesOK
  <1>4. \A i \in Interpreters : \A t, u \in PlannedTensorsOf(i)' :
          t # u /\ LivesMeet(model'[i], t, u) => Disjoint(TensorSpan(i, t)', TensorSpan(i, u)')
    BY <1>2 DEF PlacesOK
  <1>5. ASSUME NEW i \in Interpreters, NEW s \in scratch'[i]
        PROVE  /\ s.op \in Nat /\ s.span.from \in Nat /\ s.span.to \in Nat
               /\ s.span.to <= BufferHead + max_head_buffer_usage'
               /\ \A r \in scratch'[i] : s.op = r.op /\ s.span # r.span => Disjoint(s.span, r.span)
               /\ \A t \in PlannedTensorsOf(i)' :
                     InUse(model'[i], t, s.op - 1) => Disjoint(s.span, TensorSpan(i, t)')
    <2>1. s \in scratch[i]
      OBVIOUS
    <2>2. /\ s.op \in Nat /\ s.span.from \in Nat /\ s.span.to \in Nat
          /\ s.span.to <= BufferHead + max_head_buffer_usage'
          /\ \A r \in scratch'[i] : s.op = r.op /\ s.span # r.span => Disjoint(s.span, r.span)
      BY <2>1 DEF PlacesOK
    <2>3. \A t \in PlannedTensorsOf(i) :
             InUse(model[i], t, s.op - 1) => Disjoint(s.span, TensorSpan(i, t))
      BY <2>1 DEF PlacesOK
    <2> QED BY <1>2, <2>2, <2>3
  <1>6. \A i \in Interpreters : \A t \in VariablesOf(i)' : TensorSpan(i, t)' \in persistent'
    BY <1>2 DEF PlacesOK
  <1>7. ASSUME NEW i \in Interpreters, NEW j \in Interpreters,
               NEW t \in VariablesOf(i)', NEW u \in VariablesOf(j)', i # j \/ t # u
        PROVE  Disjoint(TensorSpan(i, t)', TensorSpan(j, u)')
    <2>1. t \in VariablesOf(i) /\ u \in VariablesOf(j)
      BY <1>2
    <2>2. Disjoint(TensorSpan(i, t), TensorSpan(j, u))
      BY <1>7, <2>1 DEF PlacesOK
    <2> QED BY <1>2, <2>2
  <1> QED BY <1>3, <1>4, <1>5, <1>6, <1>7 DEF PlacesOK

\* While an interpreter gets new tensors, nothing of it is in memory.
LEMMA EvalTensorsLive == IInv /\ LiveInv /\ Running /\ AllocateEvalTensors => LiveInv'
  <1> SUFFICES ASSUME IInv, LiveInv, Running, AllocateEvalTensors PROVE LiveInv'
    OBVIOUS
  <1>1. call \in Calls /\ Who \in Interpreters /\ M \in Models /\ call.at = "eval_tensors"
    BY CallInProgress DEF IInv, AllocateEvalTensors, At, Steps
  <1> DEFINE row == [t \in DOMAIN M.tensors |-> IF M.tensors[t].has_data THEN MmapRo ELSE Null]
             s == EvalTensorSize * Len(M.tensors)
  <1>2. s \in Sizes
    BY <1>1, TailSizes
  <1>3. \/ failed'
        \/ Stop
        \/ /\ AllocateFromTail(s, kStructAlignment) /\ Writes(NewSpans)
           /\ data' = [data EXCEPT ![Who] = row]
           /\ Goto("nodes")
           /\ UNCHANGED <<allocator, model, tensors_allocated, scratch, failed>>
    BY DEF AllocateEvalTensors, FromTail, ReturnStartError
  <1>4. /\ DOMAIN row = DOMAIN M.tensors
        /\ \A t \in DOMAIN row : row[t] \in Int /\ ~(row[t] >= 0)
    BY DEF MmapRo, Null
  <1> HIDE DEF s, row
  <1>5. CASE /\ AllocateFromTail(s, kStructAlignment) /\ Writes(NewSpans)
             /\ data' = [data EXCEPT ![Who] = row]
             /\ Goto("nodes")
             /\ UNCHANGED <<allocator, model, tensors_allocated, scratch, failed>>
    <2>1. call'.at = "nodes" /\ call'.who = call.who
      BY <1>1, <1>5, GotoCall DEF Steps
    <2>2. PlacesOK /\ SettledOK /\ PlacedOK /\ ClientOK /\ HitOK
      BY DEF LiveInv, Running
    <2>3. NewHits /\ tail' % kStructAlignment = 0
      BY <1>2, <1>5, <2>2, TailHits DEF SettledOK
    <2>4. DOMAIN data = Interpreters
      BY DEF IInv, DataOK
    <2>5. data'[Who] = row /\ \A i \in Interpreters \ {Who} : data'[i] = data[i]
      BY <1>1, <1>5, <2>4
    <2>6. \A i \in Interpreters : Needed(i)' = Needed(i) /\ VariableTensors(i)' = VariableTensors(i)
      BY <1>5 DEF Needed, VariableTensors
    <2>7. \A i \in Interpreters : i = Who => InMemory(i)' = {}
      BY <1>4, <2>5 DEF InMemory
    <2>8. \A i \in Interpreters \ {Who} :
             InMemory(i)' = InMemory(i) /\ \A t : TensorSpan(i, t)' = TensorSpan(i, t)
      BY <1>5, <2>5 DEF InMemory, TensorSpan
    <2>9. \A i \in Interpreters :
             /\ InMemory(i)' \subseteq InMemory(i)
             /\ \A t \in InMemory(i)' : TensorSpan(i, t)' = TensorSpan(i, t)
      BY <2>7, <2>8
    <2>10. PlacesOK'
      <3>1. ASSUME NEW i \in Interpreters
            PROVE  /\ DOMAIN data'[i] \subseteq DOMAIN model'[i].tensors
                   /\ \A t \in DOMAIN data'[i] : data'[i][t] \in Int
        <4>1. CASE i = Who
          <5>1. model'[i] = M
            BY <1>5, <4>1 DEF M, Who
          <5> QED BY <1>4, <2>5, <4>1, <5>1
        <4>2. CASE i # Who
          BY <1>5, <2>2, <2>5, <4>2 DEF PlacesOK
        <4> QED BY <4>1, <4>2
      <3>2. UNCHANGED <<model, scratch, max_head_buffer_usage>>
        BY <1>5 DEF allocator
      <3> QED BY <2>2, <2>3, <2>9, <3>1, <3>2, PlacesRemain DEF NewHits
    <2>11. SettledOK'
      BY <2>1, <2>3 DEF SettledOK, At, Allocating, Preparing
    <2>12. AssignedOK'
      BY <2>1, NothingAssigned DEF Planning
    <2>13. PlacedOK'
      <3>1. \A i \in Interpreters \ {Who} : HasPlaces(i)' <=> HasPlaces(i)
        BY <1>5, <2>5, <2>6, <2>8 DEF HasPlaces, TensorsPlaced
      <3>2. \A i : ~BeingPlaced(i) /\ (BeingPlaced(i)' <=> i = Who)
        BY <1>1, <2>1 DEF BeingPlaced, Unplanned, Planning, Who
      <3>3. \A i \in Interpreters : tensors_allocated'[i] /\ ~BeingPlaced(i)' => HasPlaces(i)'
        BY <1>5, <2>2, <3>1, <3>2 DEF PlacedOK
      <3>4. call'.at \notin Finishing \cup {"commit", "plan_head", "variables"}
        BY <2>1 DEF Finishing
      <3>5. DOMAIN tensors_allocated' = Interpreters
        BY <1>5, <2>2 DEF PlacedOK
      <3> QED BY <3>3, <3>4, <3>5 DEF PlacedOK, At
    <2>14. fresh = None /\ served = None /\ fresh' = None /\ served' = None
      BY <1>1, <2>2, <2>3 DEF ClientOK, NewHits
    <2>15. ClientOK' /\ LiveOK'
      BY <2>1, <2>14 DEF ClientOK, LiveOK, At
    <2>16. HitOK'
      BY <1>5, <2>2, <2>3, <2>14, HitStays DEF NewHits
    <2> QED BY <2>10, <2>11, <2>12, <2>13, <2>15, <2>16 DEF LiveInv
  <1> QED BY <1>3, <1>5, FailureEnds, StopEnds

\* The parsers of the operators take memory behind every plan.
LEMMA NodeDataLive == IInv /\ LiveInv /\ Running /\ PrepareNodeData => LiveInv'
  <1> SUFFICES ASSUME IInv, LiveInv, Running, PrepareNodeData PROVE LiveInv'
    OBVIOUS
  <1>1. call.at = "op_data" /\ call \in Calls /\ M \in Models /\ call.op \in DOMAIN M.operators
    BY CallInProgress DEF IInv, PrepareNodeData, At, Steps, OverOperators
  <1> DEFINE s == Operator.builtin_data
  <1>2. s \in Sizes
    BY <1>1, TailSizes DEF Operator
  <1>3. \/ failed'
        \/ Stop
        \/ /\ \/ AllocateFromTail(s, kStructAlignment) /\ Writes(NewSpans)
              \/ UNCHANGED <<arena, memory>>
           /\ NextOperator("op_data", "init") /\ Keep
    BY DEF PrepareNodeData, FromTail, ReturnStartError
  <1> HIDE DEF s
  <1>4. CASE /\ \/ AllocateFromTail(s, kStructAlignment) /\ Writes(NewSpans)
                \/ UNCHANGED <<arena, memory>>
             /\ NextOperator("op_data", "init") /\ Keep
    <2>1. call'.at \in {"op_data", "init"} /\ call'.who = call.who
      BY <1>1, <1>4, NextOperatorCall DEF Steps
    <2>2. UNCHANGED <<model, data, scratch, max_head_buffer_usage, failed, tensors_allocated>>
      BY <1>4 DEF Keep, allocator, interpreters
    <2>3. AssignedOK'
      BY <2>1, NothingAssigned DEF Planning
    <2>4. PlacedOK'
      BY <1>1, <2>1, <2>2, PlacingGoesOn DEF LiveInv, Unplanned
    <2>5. call'.at \in Allocating \ {"variables"}
      BY <2>1 DEF Allocating, Preparing
    <2> QED BY <1>1, <1>2, <1>4, <2>2, <2>3, <2>4, <2>5, TailPreparingStep
  <1> QED BY <1>3, <1>4, FailureEnds, StopEnds

\* So does the Init of the kernels: memory behind every plan.
LEMMA InitOperatorLive == IInv /\ LiveInv /\ Running /\ InitOperator => LiveInv'
  <1> SUFFICES ASSUME IInv, LiveInv, Running, InitOperator PROVE LiveInv'
    OBVIOUS
  <1>1. call.at = "init" /\ call \in Calls /\ M \in Models /\ call.op \in DOMAIN M.operators
    BY CallInProgress DEF IInv, InitOperator, At, Steps, OverOperators
  <1> DEFINE s == Operator.user_data
  <1>2. s \in Sizes
    BY <1>1, TailSizes DEF Operator
  <1>3. /\ \/ Stop
           \/ AllocateFromTail(s, kBufferAlignment) /\ Writes(NewSpans)
           \/ UNCHANGED <<arena, memory>>
        /\ NextOperator("init", "prepare")
        /\ UNCHANGED <<allocator, model, tensors_allocated, data, scratch, failed>>
    BY DEF InitOperator, FromTail, memory
  <1> HIDE DEF s
  <1>4. CASE \/ AllocateFromTail(s, kBufferAlignment) /\ Writes(NewSpans)
             \/ UNCHANGED <<arena, memory>>
    <2>1. call'.at \in {"init", "prepare"} /\ call'.who = call.who
      BY <1>1, <1>3, NextOperatorCall DEF Steps
    <2>2. UNCHANGED <<model, data, scratch, max_head_buffer_usage, failed, tensors_allocated>>
      BY <1>3 DEF allocator
    <2>3. AssignedOK'
      <3>1. requests' = <<>>
        BY <1>1, <1>3 DEF allocator, IInv, RequestsOK, Preparing
      <3>2. DOMAIN requests' = {}
        BY <3>1
      <3> QED BY <3>2 DEF AssignedOK
    <2>4. PlacedOK'
      BY <1>1, <2>1, <2>2, PlacingGoesOn DEF LiveInv, Unplanned
    <2>5. call'.at \in Allocating \ {"variables"}
      BY <2>1 DEF Allocating, Preparing
    <2> QED BY <1>1, <1>2, <1>4, <2>2, <2>3, <2>4, <2>5, TailPreparingStep
  <1> QED BY <1>3, <1>4, StopEnds

\* A kernel halts.
LEMMA NoUserDataLive == LiveInv /\ NoUserData => LiveInv'
  BY StopEnds DEF NoUserData

\* An error of AllocateTensors is a failure.
LEMMA ErrorFails == ReturnError /\ call.at # "tensor" => failed'
  BY DEF ReturnError

\* A request of another kind leaves the scratch buffer requests assigned.
LEMMA StillAssigned ==
    ASSUME AssignedOK, UNCHANGED requests, call'.op = call.op, call'.at = "prepare", At("prepare")
    PROVE  AssignedOK'
  BY DEF AssignedOK, At, IsUnassigned, Planning

\* A request of a kernel's Prepare is written over planned tensors at most.
LEMMA PrepareLive == IInv /\ LiveInv /\ Running /\ PrepareOperator => LiveInv'
  <1> SUFFICES ASSUME IInv, LiveInv, Running, PrepareOperator PROVE LiveInv'
    OBVIOUS
  <1> DEFINE request == PrepareRequests[call.k]
             s == request.bytes
             span == RequestSpan(Len(requests) + 1)
  <1>1. call.at = "prepare" /\ call \in Calls /\ M \in Models /\ call.op \in DOMAIN M.operators
    BY CallInProgress DEF IInv, PrepareOperator, At, Steps, OverOperators
  <1>2. request \in RequestOfKernel
    <2>1. PrepareRequests \in Seq(RequestOfKernel) /\ call.k \in 1 .. Len(PrepareRequests)
      BY <1>1, RequestsOfKernel DEF IInv, OverOperators, PrepareOperator, Calls
    <2> HIDE DEF RequestOfKernel
    <2> QED BY <2>1
  <1>3. s \in Nat /\ (request.kind = "persistent" => s \in Sizes)
    BY <1>2 DEF RequestOfKernel
  <1>4. \/ failed'
        \/ Stop
        \/ /\ AllocateTemp(s, kStructAlignment) /\ ~TempHitsTail(s, kStructAlignment)
           /\ Writes(NewSpans) /\ NextRequest /\ Keep
        \/ /\ request.kind = "persistent"
           /\ AllocateFromTail(s, kBufferAlignment) /\ Writes(NewSpans) /\ NextRequest /\ Keep
        \/ /\ UNCHANGED arena /\ NextRequest
           /\ RequestScratchBufferInArena(s, call.op)
           /\ \A p \in persistent \cup temps : Disjoint(p, span)
           /\ Writes({span})
           /\ UNCHANGED <<interpreters, max_head_buffer_usage, failed>>
    BY <1>1, ErrorFails DEF PrepareOperator, FromTail, FromTemp, WriteRequest
  <1> HIDE DEF request, s, span
  <1>5. PlacesOK /\ SettledOK /\ AssignedOK /\ PlacedOK
    BY DEF LiveInv
  <1>6. ASSUME NextRequest
        PROVE  call'.at = "prepare" /\ call'.who = call.who /\ call'.op = call.op
    BY <1>1, <1>6, NextRequestCall
  <1>7. ASSUME NextRequest, UNCHANGED <<model, data, scratch, max_head_buffer_usage, failed,
                                        tensors_allocated>>,
               NewHits, tail' % kStructAlignment = 0, AssignedOK'
        PROVE  LiveInv'
    <2>1. call'.at = "prepare" /\ call'.who = call.who
      BY <1>6, <1>7
    <2>2. PlacedOK'
      BY <1>1, <1>5, <1>7, <2>1, PlacingGoesOn DEF Unplanned
    <2>3. call'.at \in Allocating \ {"variables"}
      BY <2>1 DEF Allocating
    <2> QED BY <1>1, <1>7, <2>2, <2>3, PreparingStep
  <1>8. CASE /\ AllocateTemp(s, kStructAlignment) /\ ~TempHitsTail(s, kStructAlignment)
             /\ Writes(NewSpans) /\ NextRequest /\ Keep
    <2>1. NewHits /\ tail' = tail
      BY <1>1, <1>3, <1>5, <1>8, TempHits, AllocatorNumbers
    <2>2. AssignedOK'
      BY <1>1, <1>5, <1>6, <1>8, StillAssigned DEF Keep, allocator, At
    <2> QED BY <1>5, <1>7, <1>8, <2>1, <2>2 DEF SettledOK, Keep, allocator, interpreters
  <1>9. CASE /\ request.kind = "persistent"
             /\ AllocateFromTail(s, kBufferAlignment) /\ Writes(NewSpans) /\ NextRequest /\ Keep
    <2>1. NewHits /\ tail' % kStructAlignment = 0
      BY <1>3, <1>5, <1>9, TailHits DEF SettledOK
    <2>2. AssignedOK'
      BY <1>1, <1>5, <1>6, <1>9, StillAssigned DEF Keep, allocator, At
    <2> QED BY <1>7, <1>9, <2>1, <2>2 DEF Keep, allocator, interpreters
  <1>10. CASE /\ UNCHANGED arena /\ NextRequest
              /\ RequestScratchBufferInArena(s, call.op)
              /\ \A p \in persistent \cup temps : Disjoint(p, span)
              /\ Writes({span})
              /\ UNCHANGED <<interpreters, max_head_buffer_usage, failed>>
    <2>1. \A r \in {span} : \A p \in persistent : Disjoint(r, p)
      BY <1>10, DisjointBothWays
    <2>2. \A w \in Hit({span}) : \E i \in Interpreters : \E t \in Needed(i) : w = <<i, t>>
      BY <1>5, <2>1, OnlyPlannedHit
    <2>3. NewHits /\ tail' = tail
      BY <1>10, <2>2 DEF NewHits, Writes, arena
    <2>4. AssignedOK'
      <3> DEFINE r == [bytes |-> s, node_idx |-> kUnassignedScratchBufferRequestIndex,
                       op |-> call.op]
      <3>1. requests' = Append(requests, r)
        BY <1>10 DEF RequestScratchBufferInArena
      <3>2. requests \in Seq(RequestRecord)
        BY DEF IInv, RequestsOK
      <3>3. r.node_idx = kUnassignedScratchBufferRequestIndex /\ r.op = call.op
        OBVIOUS
      <3> HIDE DEF r
      <3>4. ASSUME NEW j \in DOMAIN requests'
            PROVE  requests'[j].op = IF IsUnassigned(j)' THEN call.op
                                     ELSE requests'[j].node_idx + 1
        <4>1. (j \in DOMAIN requests /\ requests'[j] = requests[j]) \/ requests'[j] = r
          BY <3>1, <3>2
        <4>2. CASE j \in DOMAIN requests /\ requests'[j] = requests[j]
          BY <1>1, <1>5, <4>2 DEF AssignedOK, At, IsUnassigned
        <4>3. CASE requests'[j] = r
          BY <3>3, <4>3 DEF IsUnassigned
        <4> QED BY <4>1, <4>2, <4>3
      <3>5. call'.at = "prepare" /\ call'.op = call.op
        BY <1>6, <1>10
      <3> QED BY <3>4, <3>5 DEF AssignedOK, At, Planning
    <2> QED BY <1>5, <1>7, <1>10, <2>3, <2>4 DEF SettledOK, interpreters
  <1> QED BY <1>4, <1>8, <1>9, <1>10, FailureEnds, StopEnds

\* The requests of an operator are assigned to it.
LEMMA FinishPrepareLive == IInv /\ LiveInv /\ Running /\ FinishPrepare => LiveInv'
  <1> SUFFICES ASSUME IInv, LiveInv, Running, FinishPrepare PROVE LiveInv'
    OBVIOUS
  <1>1. call.at = "prepare" /\ call \in Calls /\ call.op \in Nat
    BY CallInProgress DEF IInv, FinishPrepare, At, Steps, Calls
  <1>2. \/ failed'
        \/ /\ ResetTempAllocations /\ AssignRequests(call.op - 1)
           /\ call' = [call EXCEPT !.at = "adjust_head"]
           /\ UNCHANGED <<interpreters, max_head_buffer_usage, memory, failed>>
    BY <1>1, ErrorFails DEF FinishPrepare
  <1>3. PlacesOK /\ SettledOK /\ AssignedOK /\ PlacedOK
    BY DEF LiveInv
  <1>4. CASE /\ ResetTempAllocations /\ AssignRequests(call.op - 1)
             /\ call' = [call EXCEPT !.at = "adjust_head"]
             /\ UNCHANGED <<interpreters, max_head_buffer_usage, memory, failed>>
    <2>1. call'.at = "adjust_head" /\ call'.who = call.who
      BY <1>1, <1>4 DEF Calls
    <2>2. NewHits /\ tail' = tail
      BY <1>4 DEF NewHits, memory, ResetTempAllocations
    <2>3. AssignedOK'
      <3>1. ASSUME NEW j \in DOMAIN requests'
            PROVE  requests'[j].op = requests'[j].node_idx + 1
        <4>1. j \in DOMAIN requests /\ requests \in Seq(RequestRecord)
          BY <1>4 DEF AssignRequests, IInv, RequestsOK
        <4>2. requests[j] \in RequestRecord
          BY <4>1
        <4>3. requests[j].op = IF IsUnassigned(j) THEN call.op ELSE requests[j].node_idx + 1
          BY <1>1, <1>3, <4>1 DEF AssignedOK, At
        <4>4. CASE IsUnassigned(j)
          <5>1. requests'[j] = [requests[j] EXCEPT !.node_idx = call.op - 1]
            BY <1>4, <4>1, <4>4 DEF AssignRequests, IsUnassigned
          <5>2. requests'[j].op = requests[j].op /\ requests'[j].node_idx = call.op - 1
            BY <4>2, <5>1 DEF RequestRecord
          <5> QED BY <1>1, <4>3, <4>4, <5>2
        <4>5. CASE ~IsUnassigned(j)
          <5>1. requests'[j] = requests[j]
            BY <1>4, <4>1, <4>5 DEF AssignRequests, IsUnassigned
          <5> QED BY <4>3, <4>5, <5>1
        <4> QED BY <4>4, <4>5
      <3> QED BY <2>1, <3>1 DEF AssignedOK, At
    <2>4. UNCHANGED <<model, data, scratch, tensors_allocated>>
      BY <1>4 DEF interpreters
    <2>5. PlacedOK'
      BY <1>1, <1>3, <2>1, <2>4, PlacingGoesOn DEF Unplanned
    <2>6. call'.at \in Allocating \ {"variables"}
      BY <2>1 DEF Allocating
    <2>7. tail' % kStructAlignment = 0
      BY <1>3, <2>2 DEF SettledOK
    <2> QED BY <1>1, <1>4, <2>2, <2>3, <2>4, <2>5, <2>6, <2>7, PreparingStep
  <1> QED BY <1>2, <1>4, FailureEnds

\* Making room for the next operator moves no data.
LEMMA AdjustHeadLive == IInv /\ LiveInv /\ Running /\ AdjustHead => LiveInv'
  <1> SUFFICES ASSUME IInv, LiveInv, Running, AdjustHead PROVE LiveInv'
    OBVIOUS
  <1>1. call.at = "adjust_head" /\ call \in Calls /\ M \in Models
    BY CallInProgress DEF IInv, AdjustHead, At, Steps
  <1>2. /\ SetHeadBufferSize(RequestRoom(Len(requests)), kStructAlignment) \/ UNCHANGED arena
        /\ UNCHANGED <<allocator, interpreters, memory, failed>>
        /\ NextOperator("prepare", "handles")
    BY DEF AdjustHead, SetHead
  <1>3. call'.at \in {"prepare", "handles"} /\ call'.who = call.who
    BY <1>1, <1>2, NextOperatorCall DEF Steps
  <1>4. PlacesOK /\ SettledOK /\ AssignedOK /\ PlacedOK
    BY DEF LiveInv
  <1>5. NewHits /\ tail' = tail
    BY <1>2 DEF NewHits, memory, SetHeadBufferSize, arena
  <1>6. AssignedOK'
    <2>1. \A j \in DOMAIN requests : ~IsUnassigned(j) /\ requests[j].op = requests[j].node_idx + 1
      BY <1>1, <1>4 DEF AssignedOK, IInv, RequestsOK
    <2>2. requests' = requests
      BY <1>2 DEF allocator
    <2> QED BY <2>1, <2>2 DEF AssignedOK, IsUnassigned
  <1>7. UNCHANGED <<model, data, scratch, max_head_buffer_usage, failed, tensors_allocated>>
    BY <1>2 DEF allocator, interpreters
  <1>8. PlacedOK'
    BY <1>1, <1>3, <1>4, <1>7, PlacingGoesOn DEF Unplanned, Planning
  <1>9. call'.at \in Allocating \ {"variables"}
    BY <1>3 DEF Allocating, Planning
  <1>10. tail' % kStructAlignment = 0
    BY <1>4, <1>5 DEF SettledOK
  <1> QED BY <1>1, <1>5, <1>6, <1>7, <1>8, <1>9, <1>10, PreparingStep

\* The handles are behind every plan.
LEMMA HandlesLive == IInv /\ LiveInv /\ Running /\ AllocateScratchBufferHandles => LiveInv'
  <1> SUFFICES ASSUME IInv, LiveInv, Running, AllocateScratchBufferHandles PROVE LiveInv'
    OBVIOUS
  <1>1. call.at = "handles" /\ call \in Calls /\ M \in Models
    BY CallInProgress DEF IInv, AllocateScratchBufferHandles, At, Steps
  <1> DEFINE s == HandleSize * Len(requests)
  <1>2. s \in Sizes
    <2>1. Len(requests) \in 0 .. kMaxScratchBuffersPerOp * Len(M.operators)
      <3>1. Len(requests) \in Nat /\ Len(requests) <= kMaxScratchBuffersPerOp * Len(M.operators)
        BY <1>1 DEF IInv, RequestsOK, Planning
      <3>2. Len(M.operators) \in Nat
        BY <1>1, ModelFacts
      <3>3. kMaxScratchBuffersPerOp * Len(M.operators) \in Int
        BY <3>2, AllocatorNumbers
      <3> QED BY <3>1, <3>3
    <2> QED BY <1>1, <2>1, TailSizes
  <1>3. \/ Stop
        \/ /\ Goto("info")
           /\ \/ AllocateFromTail(s, kStructAlignment) /\ Writes(NewSpans)
              \/ UNCHANGED <<arena, memory>>
           /\ UNCHANGED <<allocator, model, tensors_allocated, data, scratch, failed>>
    BY DEF AllocateScratchBufferHandles, FromTail, memory
  <1> HIDE DEF s
  <1>4. CASE /\ Goto("info")
             /\ \/ AllocateFromTail(s, kStructAlignment) /\ Writes(NewSpans)
                \/ UNCHANGED <<arena, memory>>
             /\ UNCHANGED <<allocator, model, tensors_allocated, data, scratch, failed>>
    <2>1. call'.at = "info" /\ call'.who = call.who
      BY <1>1, <1>4, GotoCall DEF Steps
    <2>2. AssignedOK /\ PlacedOK
      BY DEF LiveInv
    <2>3. UNCHANGED <<model, data, scratch, max_head_buffer_usage, failed, tensors_allocated>>
      BY <1>4 DEF allocator
    <2>4. AssignedOK'
      BY <1>1, <1>4, <2>1, <2>2 DEF AssignedOK, At, Planning, allocator
    <2>5. PlacedOK'
      BY <1>1, <2>1, <2>2, <2>3, PlacingGoesOn DEF Unplanned, Planning
    <2>6. call'.at \in Allocating \ {"variables"}
      BY <2>1 DEF Allocating, Planning
    <2> QED BY <1>1, <1>2, <1>4, <2>3, <2>4, <2>5, <2>6, TailPreparingStep
  <1> QED BY <1>3, <1>4, StopEnds

\* A step of the planning that puts something behind the head.
LEMMA PlanningStep ==
    ASSUME IInv, LiveInv, Running, call.at \in {"info", "plan"}, NEW at \in {"plan", "commit"},
           NEW size \in Nat, NEW a \in Alignments,
           AllocateTemp(size, a), ~TempHitsTail(size, a), Writes(NewSpans), Goto(at), Keep,
           at = "commit" => \A t \in Needed(Who) : LastUsed(M, t) # -1
    PROVE  LiveInv'
  <1>1. call \in Calls /\ M \in Models
    BY CallInProgress DEF IInv, Steps
  <1>2. call'.at = at /\ call'.who = call.who
    BY <1>1, GotoCall DEF Steps
  <1>3. PlacesOK /\ SettledOK /\ AssignedOK /\ PlacedOK
    BY DEF LiveInv
  <1>4. NewHits /\ tail' = tail
    BY <1>3, TempHits
  <1>5. UNCHANGED <<model, data, scratch, max_head_buffer_usage, failed, tensors_allocated,
                    requests>>
    BY DEF Keep, allocator, interpreters
  <1>6. AssignedOK'
    BY <1>2, <1>3, <1>5 DEF AssignedOK, At, Planning
  <1>7. PlacedOK'
    <2>1. \A i : HasPlaces(i)' <=> HasPlaces(i)
      BY <1>5, HasPlacesStays
    <2>2. \A i : BeingPlaced(i)' <=> BeingPlaced(i)
      BY <1>2 DEF BeingPlaced, Who, Unplanned, Planning
    <2>3. call'.at \notin Finishing \cup {"plan_head", "variables"}
      BY <1>2 DEF Finishing
    <2>4. Needed(Who)' = Needed(Who) /\ M' = M
      BY <1>2, <1>5 DEF Needed, Who, M
    <2> QED BY <1>2, <1>3, <1>5, <2>1, <2>2, <2>3, <2>4 DEF PlacedOK, At
  <1>8. call'.at \in Allocating \ {"variables"}
    BY <1>2 DEF Allocating, Planning
  <1>9. tail' % kStructAlignment = 0
    BY <1>3, <1>4 DEF SettledOK
  <1> QED BY <1>4, <1>5, <1>6, <1>7, <1>8, <1>9, PreparingStep

\* The allocation info is written over planned tensors at most.
LEMMA InfoLive == IInv /\ LiveInv /\ Running /\ AllocateInfo => LiveInv'
  <1> SUFFICES ASSUME IInv, LiveInv, Running, AllocateInfo PROVE LiveInv'
    OBVIOUS
  <1>1. call.at = "info" /\ M \in Models
    BY CallInProgress DEF IInv, AllocateInfo, At, Steps
  <1>2. InfoBytes \in Nat
    <2>1. requests \in Seq(RequestRecord)
      BY DEF IInv, RequestsOK
    <2>2. Len(requests) \in Nat /\ Len(M.tensors) \in Nat
      BY <1>1, <2>1, ModelFacts
    <2> QED BY <2>2, AllocatorNumbers DEF InfoBytes
  <1>3. \/ failed'
        \/ Stop
        \/ /\ AllocateTemp(InfoBytes, kStructAlignment)
           /\ ~TempHitsTail(InfoBytes, kStructAlignment)
           /\ Writes(NewSpans) /\ Goto("plan") /\ Keep
    BY <1>1, ErrorFails DEF AllocateInfo, FromTemp
  <1>4. kStructAlignment \in Alignments
    BY AllocatorNumbers
  <1>5. ASSUME /\ AllocateTemp(InfoBytes, kStructAlignment)
               /\ ~TempHitsTail(InfoBytes, kStructAlignment)
               /\ Writes(NewSpans) /\ Goto("plan") /\ Keep
        PROVE  LiveInv'
    BY <1>1, <1>2, <1>4, <1>5, PlanningStep
  <1> QED BY <1>3, <1>5, FailureEnds, StopEnds

\* The arrays of the planner are; every tensor that gets a place is used.
LEMMA CreatePlanLive == IInv /\ LiveInv /\ Running /\ CreatePlan => LiveInv'
  <1> SUFFICES ASSUME IInv, LiveInv, Running, CreatePlan PROVE LiveInv'
    OBVIOUS
  <1> DEFINE s == GetAvailableMemory(kBufferAlignment)
  <1>1. call.at = "plan"
    BY DEF CreatePlan, At
  <1>2. s \in Nat
    <2>1. temp \in Nat /\ tail \in Nat
      BY ArenaNumbers DEF IInv, HeadOK
    <2> DEFINE x == AlignDown(tail, kBufferAlignment) - AlignUp(temp, kBufferAlignment)
    <2>2. x \in Int
      BY <2>1, AlignDownBelow, AlignUpAbove, AllocatorNumbers
    <2>3. s = x % AddressSpace
      BY DEF GetAvailableMemory, SizeT
    <2> HIDE DEF x, s
    <2> QED BY <2>2, <2>3, DivMod, AllocatorNumbers
  <1>3. \/ failed'
        \/ Stop
        \/ /\ AllocateTemp(s, kBufferAlignment) /\ ~TempHitsTail(s, kBufferAlignment)
           /\ Writes(NewSpans) /\ Goto("commit") /\ Keep
           /\ \A t \in DOMAIN M.tensors : NeedsAllocating(M, t) => ~HasPartialLifetime(M, t)
    BY <1>1, ErrorFails DEF CreatePlan, FromTemp
  <1> HIDE DEF s
  <1>4. kBufferAlignment \in Alignments
    BY AllocatorNumbers
  <1>5. ASSUME /\ AllocateTemp(s, kBufferAlignment) /\ ~TempHitsTail(s, kBufferAlignment)
               /\ Writes(NewSpans) /\ Goto("commit") /\ Keep
               /\ \A t \in DOMAIN M.tensors : NeedsAllocating(M, t) => ~HasPartialLifetime(M, t)
        PROVE  LiveInv'
    <2>1. \A t \in Needed(Who) : LastUsed(M, t) # -1
      BY <1>5 DEF Needed, HasPartialLifetime, M, Who
    <2> QED BY <1>1, <1>2, <1>4, <1>5, <2>1, PlanningStep
  <1> QED BY <1>3, <1>5, FailureEnds, StopEnds

-----------------------------------------------------------------------------
(* The plan that is committed.                                             *)

\* Where the plan puts a buffer.
EntryOf(req, n) == CHOOSE e \in ToSet(Plan(req)) : e.requirements_index = n

\* Two buffers of the plan are apart, and each is where it was placed offline.
LEMMA EntriesApart ==
    ASSUME NEW req, AreRequirements(req), NEW x \in DOMAIN req, NEW y \in DOMAIN req, x # y
    PROVE  /\ Apart(req, EntryOf(req, x), EntryOf(req, y))
           /\ IsWhereOffline(req, EntryOf(req, x))
  <1> DEFINE list == Plan(req)
  <1>1. /\ EntryOf(req, x) \in ToSet(list) /\ EntryOf(req, x).requirements_index = x
        /\ EntryOf(req, y) \in ToSet(list) /\ EntryOf(req, y).requirements_index = y
    BY PlaceOfBuffer DEF EntryOf
  <1>2. PICK k \in DOMAIN list : EntryOf(req, x) = list[k]
    BY <1>1 DEF ToSet
  <1>3. PICK l \in DOMAIN list : EntryOf(req, y) = list[l]
    BY <1>1 DEF ToSet
  <1>4. k # l
    BY <1>1, <1>2, <1>3
  <1> HIDE DEF list
  <1>5. /\ \A i, j \in DOMAIN list : i # j => Apart(req, list[i], list[j])
        /\ \A i \in DOMAIN list : IsWhereOffline(req, list[i])
    BY PlanIsClear DEF list
  <1> QED BY <1>2, <1>3, <1>4, <1>5

\* Two buffers of the plan that are in use at the same time.
LEMMA BuffersApart ==
    ASSUME NEW req, AreRequirements(req), NEW x \in DOMAIN req, NEW y \in DOMAIN req, x # y,
           DoesEntryOverlapInTime(req[x], req[y]),
           NEW b \in Nat, b <= req[x].size, NEW c \in Nat, c <= req[y].size,
           IsOffline(req[x]) /\ IsOffline(req[y]) =>
               Disjoint(Span(req[x].offline_offset, b), Span(req[y].offline_offset, c))
    PROVE  Disjoint(Span(BufferHead + EntryOf(req, x).offset, b),
                    Span(BufferHead + EntryOf(req, y).offset, c))
  <1> DEFINE e == EntryOf(req, x)
             f == EntryOf(req, y)
  <1>1. /\ e.requirements_index = x /\ e.offset \in Nat
        /\ f.requirements_index = y /\ f.offset \in Nat
    BY PlaceOfBuffer DEF EntryOf
  <1>2. Apart(req, e, f) /\ IsWhereOffline(req, e) /\ IsWhereOffline(req, f)
    BY EntriesApart
  <1> HIDE DEF e, f
  <1>3. req[x].size \in Nat /\ req[y].size \in Nat /\ BufferHead \in Nat
    BY AllocatorNumbers DEF AreRequirements
  <1>4. CASE IsOffline(req[x]) /\ IsOffline(req[y])
    <2>1. e.offset = req[x].offline_offset /\ f.offset = req[y].offline_offset
      BY <1>1, <1>2, <1>4 DEF IsWhereOffline
    <2>2. Disjoint(Span(e.offset, b), Span(f.offset, c))
      BY <1>4, <2>1
    <2> QED BY <1>1, <1>3, <2>2 DEF Disjoint, Span, e, f
  <1>5. CASE ~(IsOffline(req[x]) /\ IsOffline(req[y]))
    <2>1. e.offset + req[x].size <= f.offset \/ f.offset + req[y].size <= e.offset
      BY <1>1, <1>2, <1>5 DEF Apart, EndOf
    <2>2. e.offset + b <= f.offset \/ f.offset + c <= e.offset
      BY <1>1, <1>3, <2>1
    <2>3. \/ (BufferHead + e.offset) + b <= BufferHead + f.offset
          \/ (BufferHead + f.offset) + c <= BufferHead + e.offset
      BY <1>1, <1>3, <2>2
    <2> QED BY <2>3 DEF Disjoint, Span, e, f
  <1> QED BY <1>4, <1>5

\* A buffer of the plan is large enough for its tensor or scratch buffer.
LEMMA SizesOfBuffers ==
    ASSUME NEW m \in Models, requests \in Seq(RequestRecord)
    PROVE  LET planned == PlannedTensors(m)
               req == Requirements(m)
           IN  /\ \A x \in DOMAIN planned :
                     /\ planned[x] \in DOMAIN m.tensors
                     /\ m.tensors[planned[x]].bytes \in Nat
                     /\ m.tensors[planned[x]].bytes <= req[x].size
               /\ \A n \in DOMAIN requests :
                     /\ requests[n].bytes \in Nat
                     /\ requests[n].bytes <= req[Len(planned) + n].size
  <1> DEFINE planned == PlannedTensors(m)
             req == Requirements(m)
  <1>1. /\ planned \in Seq(DOMAIN m.tensors)
        /\ \A n \in DOMAIN planned : req[n].size = AlignedBytes(m.tensors[planned[n]].bytes)
        /\ \A n \in DOMAIN requests : req[Len(planned) + n].size = AlignedBytes(requests[n].bytes)
    BY RequirementsGiven
  <1> HIDE DEF planned, req
  <1>2. \A b \in Nat : b <= AlignedBytes(b)
    BY AlignUpAbove, AllocatorNumbers DEF AlignedBytes
  <1>3. \A t \in DOMAIN m.tensors : m.tensors[t].bytes \in Nat
    BY ModelFacts DEF TensorRecord
  <1>4. \A n \in DOMAIN requests : requests[n].bytes \in Nat
    <2>1. \A n \in DOMAIN requests : requests[n] \in RequestRecord
      OBVIOUS
    <2> QED BY <2>1 DEF RequestRecord
  <1> QED BY <1>1, <1>2, <1>3, <1>4 DEF planned, req

\* Tensors that live at the same time.
LEMMA PlannedTensorsApart ==
    ASSUME NEW m \in Models, requests \in Seq(RequestRecord),
           NEW x \in DOMAIN PlannedTensors(m), NEW y \in DOMAIN PlannedTensors(m),
           PlannedTensors(m)[x] # PlannedTensors(m)[y],
           LivesMeet(m, PlannedTensors(m)[x], PlannedTensors(m)[y])
    PROVE  LET req == Requirements(m)
               t == PlannedTensors(m)[x]
               u == PlannedTensors(m)[y]
           IN  Disjoint(Span(BufferHead + EntryOf(req, x).offset, m.tensors[t].bytes),
                        Span(BufferHead + EntryOf(req, y).offset, m.tensors[u].bytes))
  <1> DEFINE req == Requirements(m)
             t == PlannedTensors(m)[x]
             u == PlannedTensors(m)[y]
  <1>1. /\ AreRequirements(req) /\ x \in DOMAIN req /\ y \in DOMAIN req
        /\ req[x].first_time_used = FirstCreated(m, t) /\ req[x].last_time_used = LastUsed(m, t)
        /\ req[y].first_time_used = FirstCreated(m, u) /\ req[y].last_time_used = LastUsed(m, u)
        /\ req[x].offline_offset = m.tensors[t].offline_offset
        /\ req[y].offline_offset = m.tensors[u].offline_offset
    BY RequirementsGiven
  <1>2. /\ t \in DOMAIN m.tensors /\ m.tensors[t].bytes \in Nat /\ m.tensors[t].bytes <= req[x].size
        /\ u \in DOMAIN m.tensors /\ m.tensors[u].bytes \in Nat /\ m.tensors[u].bytes <= req[y].size
    BY SizesOfBuffers
  <1>3. NeedsAllocating(m, t) /\ NeedsAllocating(m, u)
    BY RequirementsGiven DEF PlannedUpTo
  <1>4. t # u /\ LivesMeet(m, t, u)
    OBVIOUS
  <1>5. x # y
    BY <1>4
  <1> HIDE DEF req, t, u
  <1>6. DoesEntryOverlapInTime(req[x], req[y])
    <2>1. /\ FirstCreated(m, t) \in Int /\ LastUsed(m, t) \in Int
          /\ FirstCreated(m, u) \in Int /\ LastUsed(m, u) \in Int
      BY LifetimeCovers
    <2> QED BY <1>1, <1>4, <2>1 DEF DoesEntryOverlapInTime, LivesMeet
  <1>7. IsOffline(req[x]) /\ IsOffline(req[y]) =>
          Disjoint(Span(req[x].offline_offset, m.tensors[t].bytes),
                   Span(req[y].offline_offset, m.tensors[u].bytes))
    <2>1. OfflinePlanIsSafe(m)
      BY LifetimesAssumption
    <2> QED BY <1>1, <1>2, <1>3, <1>4, <2>1 DEF OfflinePlanIsSafe, IsOffline
  <1>8. Disjoint(Span(BufferHead + EntryOf(req, x).offset, m.tensors[t].bytes),
                 Span(BufferHead + EntryOf(req, y).offset, m.tensors[u].bytes))
    BY <1>1, <1>2, <1>5, <1>6, <1>7, BuffersApart
  <1> QED BY <1>8 DEF req, t, u

\* A scratch buffer and a tensor that is in use while its operator runs.
LEMMA PlannedScratchApart ==
    ASSUME NEW m \in Models, requests \in Seq(RequestRecord),
           NEW x \in DOMAIN PlannedTensors(m), NEW n \in DOMAIN requests,
           requests[n].node_idx \in Nat,
           InUse(m, PlannedTensors(m)[x], requests[n].node_idx)
    PROVE  LET req == Requirements(m)
               N == Len(PlannedTensors(m))
               t == PlannedTensors(m)[x]
           IN  Disjoint(Span(BufferHead + EntryOf(req, N + n).offset, requests[n].bytes),
                        Span(BufferHead + EntryOf(req, x).offset, m.tensors[t].bytes))
  <1> DEFINE planned == PlannedTensors(m)
             req == Requirements(m)
             N == Len(planned)
             y == N + n
             t == planned[x]
             time == requests[n].node_idx
  <1>1. /\ planned \in Seq(DOMAIN m.tensors)
        /\ AreRequirements(req) /\ x \in DOMAIN req /\ y \in DOMAIN req
        /\ req[x].first_time_used = FirstCreated(m, t) /\ req[x].last_time_used = LastUsed(m, t)
        /\ req[y].first_time_used = time /\ req[y].last_time_used = time
        /\ req[y].offline_offset = kOnlinePlannedBuffer
    BY RequirementsGiven
  <1>2. /\ m.tensors[t].bytes \in Nat /\ m.tensors[t].bytes <= req[x].size
        /\ requests[n].bytes \in Nat /\ requests[n].bytes <= req[y].size
    BY SizesOfBuffers
  <1>3. InUse(m, t, time)
    OBVIOUS
  <1>4. x # y
    <2>1. x \in 1 .. N /\ N \in Nat /\ n \in Nat \ {0}
      BY <1>1
    <2> QED BY <2>1
  <1> HIDE DEF req, t, y, time, planned
  <1>5. DoesEntryOverlapInTime(req[y], req[x])
    BY <1>1, <1>3, LifetimeCovers DEF DoesEntryOverlapInTime, InUse
  <1>6. ~IsOffline(req[y])
    BY <1>1 DEF IsOffline
  <1>7. Disjoint(Span(BufferHead + EntryOf(req, y).offset, requests[n].bytes),
                 Span(BufferHead + EntryOf(req, x).offset, m.tensors[t].bytes))
    BY <1>1, <1>2, <1>4, <1>5, <1>6, BuffersApart
  <1> QED BY <1>7 DEF req, t, y, planned

\* Two scratch buffers of an operator.
LEMMA TwoScratchApart ==
    ASSUME NEW m \in Models, requests \in Seq(RequestRecord),
           NEW n \in DOMAIN requests, NEW k \in DOMAIN requests, n # k,
           requests[n].node_idx \in Nat, requests[k].node_idx = requests[n].node_idx
    PROVE  LET req == Requirements(m)
               N == Len(PlannedTensors(m))
           IN  Disjoint(Span(BufferHead + EntryOf(req, N + n).offset, requests[n].bytes),
                        Span(BufferHead + EntryOf(req, N + k).offset, requests[k].bytes))
  <1> DEFINE planned == PlannedTensors(m)
             req == Requirements(m)
             N == Len(planned)
             x == N + n
             y == N + k
             time == requests[n].node_idx
  <1>1. /\ planned \in Seq(DOMAIN m.tensors)
        /\ AreRequirements(req) /\ x \in DOMAIN req /\ y \in DOMAIN req
        /\ req[x].first_time_used = time /\ req[x].last_time_used = time
        /\ req[y].first_time_used = time /\ req[y].last_time_used = time
        /\ req[y].offline_offset = kOnlinePlannedBuffer
    BY RequirementsGiven
  <1>2. /\ requests[n].bytes \in Nat /\ requests[n].bytes <= req[x].size
        /\ requests[k].bytes \in Nat /\ requests[k].bytes <= req[y].size
    BY SizesOfBuffers
  <1>3. time \in Nat
    OBVIOUS
  <1>4. x # y
    <2>1. N \in Nat /\ n \in Nat /\ k \in Nat
      BY <1>1
    <2> QED BY <2>1
  <1> HIDE DEF req, x, y, time, planned
  <1>5. DoesEntryOverlapInTime(req[x], req[y])
    BY <1>1, <1>3 DEF DoesEntryOverlapInTime
  <1>6. ~IsOffline(req[y])
    BY <1>1 DEF IsOffline
  <1>7. Disjoint(Span(BufferHead + EntryOf(req, x).offset, requests[n].bytes),
                 Span(BufferHead + EntryOf(req, y).offset, requests[k].bytes))
    BY <1>1, <1>2, <1>4, <1>5, <1>6, BuffersApart
  <1> QED BY <1>7 DEF req, x, y, planned

\* What CommitPlan gives the tensors and the scratch buffers of a model.
TensorAddress(m, t) ==
    LET planned == PlannedTensors(m)
    IN  BufferHead + EntryOf(Requirements(m), CHOOSE n \in DOMAIN planned : planned[n] = t).offset

ScratchPlaces(m) ==
    {[op |-> requests[n].op,
      span |-> Span(BufferHead + EntryOf(Requirements(m), Len(PlannedTensors(m)) + n).offset,
                    requests[n].bytes)] : n \in DOMAIN requests}

\* What CommitPlan changes: the places of this interpreter.
LEMMA Committed ==
    ASSUME IInv, PlacesOK, CommitPlan, ~failed'
    PROVE  /\ call' = [call EXCEPT !.at = "plan_head", !.op = 1, !.k = 1]
           /\ UNCHANGED <<model, tensors_allocated, memory, failed, tail, persistent>>
           /\ max_head_buffer_usage' \in Nat /\ max_head_buffer_usage \in Nat
           /\ max_head_buffer_usage <= max_head_buffer_usage'
           /\ PlanSize(Requirements(M), Plan(Requirements(M))) <= max_head_buffer_usage'
           /\ DOMAIN data'[Who] = DOMAIN M.tensors
           /\ \A t \in Needed(Who) : data'[Who][t] = TensorAddress(M, t)
           /\ \A t \in DOMAIN M.tensors \ Needed(Who) : data'[Who][t] \in {MmapRo, Null}
           /\ \A i \in Interpreters \ {Who} : data'[i] = data[i] /\ scratch'[i] = scratch[i]
           /\ scratch'[Who] \subseteq ScratchPlaces(M) /\ DOMAIN scratch' = Interpreters
  <1> DEFINE planned == PlannedTensors(M)
             req == Requirements(M)
             list == Plan(req)
             size == PlanSize(req, list)
             Address(n) == BufferHead
                             + (CHOOSE e \in ToSet(list) : e.requirements_index = n).offset
             row == [t \in DOMAIN M.tensors |->
                       IF \E n \in DOMAIN planned : planned[n] = t
                       THEN Address(CHOOSE n \in DOMAIN planned : planned[n] = t)
                       ELSE data[Who][t]]
             places == {[op |-> requests[n].op,
                         span |-> Span(Address(Len(planned) + n), requests[n].bytes)] :
                           n \in DOMAIN requests}
  <1>1. call.at = "commit" /\ call \in Calls /\ M \in Models /\ Who \in Interpreters
    BY CallInProgress DEF IInv, CommitPlan, At, Steps
  <1>2. /\ ResetTempAllocations
        /\ data' = [data EXCEPT ![Who] = row]
        /\ scratch' = [scratch EXCEPT ![Who] = places]
        /\ max_head_buffer_usage' = IF size > max_head_buffer_usage THEN size
                                    ELSE max_head_buffer_usage
        /\ Goto("plan_head")
        /\ UNCHANGED <<requests, model, tensors_allocated, memory, failed>>
    BY <1>1, ErrorFails DEF CommitPlan
  <1>3. data[Who] = [t \in DOMAIN M.tensors |-> IF M.tensors[t].has_data THEN MmapRo ELSE Null]
    BY <1>1 DEF IInv, DataOK, Planning
  <1>4. \A n : Address(n) = BufferHead + EntryOf(req, n).offset
    BY DEF EntryOf
  <1>5. places = ScratchPlaces(M)
    BY <1>4 DEF ScratchPlaces
  <1>6. requests \in Seq(RequestRecord)
    BY DEF IInv, RequestsOK
  <1>7. planned \in PlannedUpTo(M, Len(M.tensors)) /\ AreRequirements(req)
    BY <1>1, <1>6, RequirementsGiven
  <1>8. DOMAIN M.tensors = 1 .. Len(M.tensors)
    BY <1>1, ModelFacts
  <1>9. \A t \in DOMAIN M.tensors :
           NeedsAllocating(M, t) <=> \E n \in DOMAIN planned : planned[n] = t
    <2> HIDE DEF planned
    <2> QED BY <1>7, <1>8 DEF PlannedUpTo
  <1>10. Needed(Who) = {t \in DOMAIN M.tensors : NeedsAllocating(M, t)}
    BY DEF Needed, M, Who
  <1>11. \A t \in Needed(Who) : row[t] = TensorAddress(M, t)
    BY <1>4, <1>9, <1>10 DEF TensorAddress
  <1>12. \A t \in DOMAIN M.tensors \ Needed(Who) : row[t] \in {MmapRo, Null}
    BY <1>3, <1>9, <1>10
  <1>13. DOMAIN row = DOMAIN M.tensors
    OBVIOUS
  <1> HIDE DEF row, places, size, Address
  <1>14. DOMAIN data = Interpreters
    BY DEF IInv, DataOK
  <1>15. data'[Who] = row /\ \A i \in Interpreters \ {Who} : data'[i] = data[i]
    BY <1>1, <1>2, <1>14
  <1>16. \A i \in Interpreters \ {Who} : scratch'[i] = scratch[i]
    BY <1>2
  <1>17. size \in Nat
    BY <1>7, PlanSizeCovers DEF size
  <1>18. /\ max_head_buffer_usage' \in Nat /\ size <= max_head_buffer_usage'
         /\ max_head_buffer_usage <= max_head_buffer_usage' /\ max_head_buffer_usage \in Nat
    BY <1>2, <1>17 DEF IInv, ControlOK
  <1>19. scratch'[Who] \subseteq places /\ DOMAIN scratch' = Interpreters
    BY <1>1, <1>2 DEF PlacesOK
  <1>20. UNCHANGED <<tail, persistent>> /\ call' = [call EXCEPT !.at = "plan_head", !.op = 1, !.k = 1]
    BY <1>2 DEF ResetTempAllocations, Goto
  <1> QED BY <1>2, <1>5, <1>11, <1>12, <1>13, <1>15, <1>16, <1>18, <1>19, <1>20 DEF size

\* Where the buffers of a committed plan are.
LEMMA CommittedPlaces ==
    ASSUME NEW m \in Models, requests \in Seq(RequestRecord),
           \A n \in DOMAIN requests :
              requests[n].node_idx \in Nat /\ requests[n].op = requests[n].node_idx + 1
    PROVE  LET size == PlanSize(Requirements(m), Plan(Requirements(m)))
               needed == {t \in DOMAIN m.tensors : NeedsAllocating(m, t)}
               Place(t) == Span(TensorAddress(m, t), m.tensors[t].bytes)
           IN  /\ \A t \in needed : TensorAddress(m, t) \in Nat
               /\ \A t, u \in needed :
                     t # u /\ LivesMeet(m, t, u) => Disjoint(Place(t), Place(u))
               /\ \A s \in ScratchPlaces(m) :
                     /\ s.op \in Nat /\ s.span.from \in Nat /\ s.span.to \in Nat
                     /\ s.span.to <= BufferHead + size
                     /\ \A t \in needed : InUse(m, t, s.op - 1) => Disjoint(s.span, Place(t))
                     /\ \A r \in ScratchPlaces(m) :
                           s.op = r.op /\ s.span # r.span => Disjoint(s.span, r.span)
  <1> DEFINE planned == PlannedTensors(m)
             req == Requirements(m)
             size == PlanSize(req, Plan(req))
             needed == {t \in DOMAIN m.tensors : NeedsAllocating(m, t)}
             Place(t) == Span(TensorAddress(m, t), m.tensors[t].bytes)
             At1(n) == BufferHead + EntryOf(req, n).offset
             ScratchPlace(n) == [op |-> requests[n].op,
                                 span |-> Span(At1(Len(planned) + n), requests[n].bytes)]
             Index(t) == CHOOSE n \in DOMAIN planned : planned[n] = t
  <1>1. /\ planned \in PlannedUpTo(m, Len(m.tensors)) /\ AreRequirements(req)
        /\ \A n \in DOMAIN planned : n \in DOMAIN req
        /\ \A n \in DOMAIN requests : Len(planned) + n \in DOMAIN req
    BY RequirementsGiven
  <1>2. \A x \in DOMAIN req : /\ EntryOf(req, x).offset \in Nat
                             /\ EntryOf(req, x).offset + req[x].size <= size
    BY <1>1, PlaceOfBuffer DEF EntryOf
  <1>3. DOMAIN m.tensors = 1 .. Len(m.tensors)
    BY ModelFacts
  <1>4. ASSUME NEW t \in needed
        PROVE  /\ Index(t) \in DOMAIN planned /\ planned[Index(t)] = t
               /\ TensorAddress(m, t) = At1(Index(t))
    <2>1. \E n \in DOMAIN planned : planned[n] = t
      BY <1>1, <1>3 DEF PlannedUpTo
    <2> QED BY <2>1 DEF TensorAddress
  <1> HIDE DEF Index
  <1>5. ASSUME NEW t \in needed PROVE TensorAddress(m, t) \in Nat
    BY <1>1, <1>2, <1>4, AllocatorNumbers
  <1>6. ASSUME NEW t \in needed, NEW u \in needed, t # u, LivesMeet(m, t, u)
        PROVE  Disjoint(Place(t), Place(u))
    <2>1. /\ Index(t) \in DOMAIN planned /\ Index(u) \in DOMAIN planned
          /\ planned[Index(t)] = t /\ planned[Index(u)] = u
      BY <1>4
    <2>2. Disjoint(Span(At1(Index(t)), m.tensors[t].bytes), Span(At1(Index(u)), m.tensors[u].bytes))
      BY <1>6, <2>1, PlannedTensorsApart
    <2> QED BY <1>4, <2>2
  <1>7. \A s \in ScratchPlaces(m) : \E n \in DOMAIN requests : s = ScratchPlace(n)
    BY DEF ScratchPlaces
  <1>8. ASSUME NEW n \in DOMAIN requests
        PROVE  /\ ScratchPlace(n).op = requests[n].node_idx + 1 /\ ScratchPlace(n).op \in Nat
               /\ ScratchPlace(n).op - 1 = requests[n].node_idx
               /\ ScratchPlace(n).span = Span(At1(Len(planned) + n), requests[n].bytes)
               /\ ScratchPlace(n).span.from \in Nat /\ ScratchPlace(n).span.to \in Nat
               /\ ScratchPlace(n).span.to <= BufferHead + size
    <2>1. requests[n].node_idx \in Nat /\ requests[n].op = requests[n].node_idx + 1
      OBVIOUS
    <2>2. requests[n].bytes \in Nat /\ requests[n].bytes <= req[Len(planned) + n].size
      BY SizesOfBuffers
    <2> DEFINE x == Len(planned) + n
               span == ScratchPlace(n).span
    <2>3. x \in DOMAIN req
      BY <1>1
    <2>4. span = Span(At1(x), requests[n].bytes)
      OBVIOUS
    <2>5. span.from = At1(x) /\ span.to = At1(x) + requests[n].bytes
      BY DEF Span
    <2>6. ScratchPlace(n).op = requests[n].op
      OBVIOUS
    <2>7. At1(x) = BufferHead + EntryOf(req, x).offset
      OBVIOUS
    <2> HIDE DEF size, req, At1
    <2>8. /\ EntryOf(req, x).offset \in Nat /\ req[x].size \in Nat
          /\ EntryOf(req, x).offset + req[x].size <= size
          /\ requests[n].bytes <= req[x].size
      BY <1>1, <1>2, <2>2, <2>3 DEF AreRequirements
    <2>9. size \in Nat
      BY <1>1, PlanSizeCovers DEF size
    <2> HIDE DEF x, span
    <2>10. span.from \in Nat /\ span.to \in Nat /\ span.to <= BufferHead + size
      <3> DEFINE o == EntryOf(req, x).offset
                 b == requests[n].bytes
                 z == req[x].size
      <3>1. /\ o \in Nat /\ b \in Nat /\ z \in Nat /\ size \in Nat /\ o + z <= size /\ b <= z
            /\ BufferHead \in Nat
        BY <2>2, <2>8, <2>9, AllocatorNumbers
      <3>2. span.from = BufferHead + o /\ span.to = BufferHead + o + b
        BY <2>7, <2>5
      <3> HIDE DEF o, b, z
      <3> QED BY <3>1, <3>2
    <2>11. requests[n].op \in Nat /\ requests[n].op - 1 = requests[n].node_idx
      BY <2>1
    <2> HIDE DEF ScratchPlace
    <2>12. /\ ScratchPlace(n).op = requests[n].node_idx + 1 /\ ScratchPlace(n).op \in Nat
           /\ ScratchPlace(n).op - 1 = requests[n].node_idx
      BY <2>1, <2>6, <2>11
    <2> QED BY <2>4, <2>10, <2>12 DEF x, span
  <1>9. ASSUME NEW n \in DOMAIN requests, NEW t \in needed, InUse(m, t, ScratchPlace(n).op - 1)
        PROVE  Disjoint(ScratchPlace(n).span, Place(t))
    <2>1. Index(t) \in DOMAIN planned /\ planned[Index(t)] = t
      BY <1>4
    <2>2. requests[n].node_idx \in Nat /\ InUse(m, t, requests[n].node_idx)
      BY <1>8, <1>9
    <2>3. Disjoint(Span(At1(Len(planned) + n), requests[n].bytes),
                   Span(At1(Index(t)), m.tensors[t].bytes))
      BY <2>1, <2>2, PlannedScratchApart
    <2> QED BY <1>4, <1>8, <2>3
  <1>10. ASSUME NEW n \in DOMAIN requests, NEW k \in DOMAIN requests,
                ScratchPlace(n).op = ScratchPlace(k).op, ScratchPlace(n).span # ScratchPlace(k).span
         PROVE  Disjoint(ScratchPlace(n).span, ScratchPlace(k).span)
    <2>1. n # k
      BY <1>10
    <2>2. requests[n].node_idx \in Nat /\ requests[k].node_idx = requests[n].node_idx
      BY <1>8, <1>10
    <2>3. Disjoint(Span(At1(Len(planned) + n), requests[n].bytes),
                   Span(At1(Len(planned) + k), requests[k].bytes))
      BY <2>1, <2>2, TwoScratchApart
    <2> QED BY <1>8, <2>3
  <1> HIDE DEF ScratchPlace, size, Place, needed
  <1>11. ASSUME NEW s \in ScratchPlaces(m)
         PROVE  /\ s.op \in Nat /\ s.span.from \in Nat /\ s.span.to \in Nat
                /\ s.span.to <= BufferHead + size
                /\ \A t \in needed : InUse(m, t, s.op - 1) => Disjoint(s.span, Place(t))
                /\ \A r \in ScratchPlaces(m) :
                      s.op = r.op /\ s.span # r.span => Disjoint(s.span, r.span)
    <2>1. PICK n \in DOMAIN requests : s = ScratchPlace(n)
      BY <1>7
    <2>2. \A r \in ScratchPlaces(m) : s.op = r.op /\ s.span # r.span => Disjoint(s.span, r.span)
      BY <1>7, <1>10, <2>1
    <2> QED BY <1>8, <1>9, <2>1, <2>2
  <1> QED BY <1>5, <1>6, <1>11 DEF size, Place, needed

\* A plan puts the tensors that need it to memory, and nothing else of the model.
LEMMA CommitPlaces ==
    ASSUME IInv, PlacesOK, AssignedOK, CommitPlan, ~failed'
    PROVE  PlacesOK' /\ \A i : i = Who => Needed(i) \subseteq InMemory(i)'
  <1> DEFINE size == PlanSize(Requirements(M), Plan(Requirements(M)))
             Place(t) == Span(TensorAddress(M, t), M.tensors[t].bytes)
             needed == {t \in DOMAIN M.tensors : NeedsAllocating(M, t)}
  <1>1. call.at = "commit" /\ call \in Calls /\ M \in Models /\ Who \in Interpreters
    BY CallInProgress DEF IInv, CommitPlan, At, Steps
  <1>2. /\ UNCHANGED <<model, persistent>>
        /\ max_head_buffer_usage' \in Nat /\ max_head_buffer_usage \in Nat
        /\ max_head_buffer_usage <= max_head_buffer_usage' /\ size <= max_head_buffer_usage'
        /\ DOMAIN data'[Who] = DOMAIN M.tensors
        /\ \A t \in Needed(Who) : data'[Who][t] = TensorAddress(M, t)
        /\ \A t \in DOMAIN M.tensors \ Needed(Who) : data'[Who][t] \in {MmapRo, Null}
        /\ \A i \in Interpreters \ {Who} : data'[i] = data[i] /\ scratch'[i] = scratch[i]
        /\ scratch'[Who] \subseteq ScratchPlaces(M) /\ DOMAIN scratch' = Interpreters
    BY Committed
  <1>3. requests \in Seq(RequestRecord)
    BY DEF IInv, RequestsOK
  <1>4. ASSUME NEW n \in DOMAIN requests
        PROVE  requests[n].node_idx \in Nat /\ requests[n].op = requests[n].node_idx + 1
    <2>1. requests[n] \in RequestRecord /\ ~IsUnassigned(n)
      BY <1>1, <1>3 DEF IInv, RequestsOK, Planning
    <2>2. requests[n].op = requests[n].node_idx + 1
      BY <1>1 DEF AssignedOK, Planning
    <2> QED BY <2>1, <2>2 DEF RequestRecord, IsUnassigned
  <1>5. /\ \A t \in needed : TensorAddress(M, t) \in Nat
        /\ \A t, u \in needed :
              t # u /\ LivesMeet(M, t, u) => Disjoint(Place(t), Place(u))
        /\ \A s \in ScratchPlaces(M) :
              /\ s.op \in Nat /\ s.span.from \in Nat /\ s.span.to \in Nat
              /\ s.span.to <= BufferHead + size
              /\ \A t \in needed : InUse(M, t, s.op - 1) => Disjoint(s.span, Place(t))
              /\ \A r \in ScratchPlaces(M) :
                    s.op = r.op /\ s.span # r.span => Disjoint(s.span, r.span)
    BY <1>1, <1>3, <1>4, CommittedPlaces
  <1>6. needed = Needed(Who) /\ M = model[Who]
    BY DEF Needed, M, Who
  <1> HIDE DEF size, Place, needed
  <1>7. \A i : Needed(i)' = Needed(i) /\ VariableTensors(i)' = VariableTensors(i)
    BY <1>2 DEF Needed, VariableTensors
  <1>8. ASSUME NEW i, i = Who
        PROVE  /\ InMemory(i)' = needed /\ DOMAIN data'[i] \subseteq DOMAIN model'[i].tensors
               /\ \A t \in DOMAIN data'[i] : data'[i][t] \in Int
               /\ \A t \in needed : TensorSpan(i, t)' = Place(t)
               /\ PlannedTensorsOf(i)' = needed /\ VariablesOf(i)' = {}
    <2>1. needed \subseteq DOMAIN M.tensors
      BY DEF needed
    <2>2. \A t \in needed : data'[i][t] = TensorAddress(M, t) /\ data'[i][t] \in Nat
      BY <1>2, <1>5, <1>6, <1>8
    <2>3. \A t \in DOMAIN M.tensors \ needed : data'[i][t] \in Int /\ ~(data'[i][t] >= 0)
      BY <1>2, <1>6, <1>8 DEF MmapRo, Null
    <2>4. InMemory(i)' = needed
      BY <1>2, <1>8, <2>1, <2>2, <2>3 DEF InMemory
    <2>5. \A t \in needed : TensorSpan(i, t)' = Place(t)
      BY <1>2, <1>6, <1>8, <2>2 DEF TensorSpan, Place
    <2>6. PlannedTensorsOf(i)' = needed
      BY <1>6, <1>7, <1>8, <2>4 DEF PlannedTensorsOf
    <2>7. VariablesOf(i)' = {}
      <3>1. \A t \in Needed(i) : t \notin VariableTensors(i)
        BY DEF Needed, VariableTensors, NeedsAllocating
      <3> QED BY <1>6, <1>7, <1>8, <2>4, <3>1 DEF VariablesOf
    <2> QED BY <1>2, <1>6, <1>8, <2>2, <2>3, <2>4, <2>5, <2>6, <2>7
  <1>9. ASSUME NEW i \in Interpreters \ {Who}
        PROVE  /\ InMemory(i)' = InMemory(i) /\ DOMAIN data'[i] = DOMAIN data[i]
               /\ data'[i] = data[i] /\ scratch'[i] = scratch[i] /\ model'[i] = model[i]
               /\ \A t : TensorSpan(i, t)' = TensorSpan(i, t)
               /\ PlannedTensorsOf(i)' = PlannedTensorsOf(i)
               /\ VariablesOf(i)' = VariablesOf(i)
    <2>1. InMemory(i)' = InMemory(i) /\ \A t : TensorSpan(i, t)' = TensorSpan(i, t)
      BY <1>2 DEF InMemory, TensorSpan
    <2> QED BY <1>2, <1>7, <2>1 DEF PlannedTensorsOf, VariablesOf
  <1>10. ASSUME NEW i \in Interpreters
         PROVE  /\ DOMAIN data'[i] \subseteq DOMAIN model'[i].tensors
                /\ \A t \in DOMAIN data'[i] : data'[i][t] \in Int
                /\ InMemory(i)' \subseteq Needed(i)' \cup VariableTensors(i)'
                /\ \A t, u \in PlannedTensorsOf(i)' :
                      t # u /\ LivesMeet(model'[i], t, u) =>
                         Disjoint(TensorSpan(i, t)', TensorSpan(i, u)')
    <2>1. CASE i = Who
      BY <1>2, <1>5, <1>6, <1>7, <1>8, <2>1
    <2>2. CASE i # Who
      BY <1>7, <1>9, <2>2 DEF PlacesOK
    <2> QED BY <2>1, <2>2
  <1>11. ASSUME NEW i \in Interpreters, NEW s \in scratch'[i]
         PROVE  /\ s.op \in Nat /\ s.span.from \in Nat /\ s.span.to \in Nat
                /\ s.span.to <= BufferHead + max_head_buffer_usage'
                /\ \A t \in PlannedTensorsOf(i)' :
                      InUse(model'[i], t, s.op - 1) => Disjoint(s.span, TensorSpan(i, t)')
                /\ \A r \in scratch'[i] : s.op = r.op /\ s.span # r.span => Disjoint(s.span, r.span)
    <2>0. BufferHead \in Nat /\ size \in Nat
      <3>1. AreRequirements(Requirements(M))
        BY <1>1, <1>3, RequirementsGiven
      <3> QED BY <3>1, PlanSizeCovers, AllocatorNumbers DEF size
    <2>1. CASE i = Who
      <3>1. s \in ScratchPlaces(M) /\ scratch'[i] \subseteq ScratchPlaces(M)
        BY <1>2, <1>11, <2>1
      <3>2. s.span.to \in Nat /\ s.span.to <= BufferHead + size
        BY <1>5, <3>1
      <3>3. s.span.to <= BufferHead + max_head_buffer_usage'
        BY <1>2, <2>0, <3>2
      <3> QED BY <1>2, <1>5, <1>6, <1>8, <2>1, <3>1, <3>3
    <2>2. CASE i # Who
      <3>1. s \in scratch[i]
        BY <1>9, <2>2
      <3>2. s.span.to \in Nat /\ s.span.to <= BufferHead + max_head_buffer_usage
        BY <3>1 DEF PlacesOK
      <3>3. s.span.to <= BufferHead + max_head_buffer_usage'
        BY <1>2, <2>0, <3>2
      <3> QED BY <1>9, <2>2, <3>1, <3>3 DEF PlacesOK
    <2> QED BY <2>1, <2>2
  <1>12. ASSUME NEW i \in Interpreters, NEW t \in VariablesOf(i)'
         PROVE  /\ i # Who /\ t \in VariablesOf(i)
                /\ TensorSpan(i, t)' = TensorSpan(i, t) /\ TensorSpan(i, t)' \in persistent'
    <2>1. i # Who
      BY <1>8, <1>12
    <2>2. t \in VariablesOf(i) /\ TensorSpan(i, t)' = TensorSpan(i, t)
      BY <1>9, <1>12, <2>1
    <2> QED BY <1>2, <2>1, <2>2 DEF PlacesOK
  <1>13. ASSUME NEW i \in Interpreters, NEW j \in Interpreters,
                NEW t \in VariablesOf(i)', NEW u \in VariablesOf(j)', i # j \/ t # u
         PROVE  Disjoint(TensorSpan(i, t)', TensorSpan(j, u)')
    BY <1>12, <1>13 DEF PlacesOK
  <1>14. PlacesOK'
    BY <1>2, <1>10, <1>11, <1>12, <1>13 DEF PlacesOK
  <1> QED BY <1>6, <1>8, <1>14

\* CommitPlan places what is in use at the same time apart.
LEMMA CommitLive == IInv /\ LiveInv /\ Running /\ CommitPlan => LiveInv'
  <1> SUFFICES ASSUME IInv, LiveInv, Running, CommitPlan, ~failed' PROVE LiveInv'
    BY FailureEnds
  <1>1. call.at = "commit" /\ call \in Calls /\ M \in Models /\ Who \in Interpreters
    BY CallInProgress DEF IInv, CommitPlan, At, Steps
  <1>2. HitOK /\ PlacesOK /\ SettledOK /\ AssignedOK /\ PlacedOK /\ ClientOK
    BY DEF LiveInv, Running
  <1>3. /\ call' = [call EXCEPT !.at = "plan_head", !.op = 1, !.k = 1]
        /\ UNCHANGED <<model, tensors_allocated, memory, failed, tail, persistent>>
        /\ DOMAIN data'[Who] = DOMAIN M.tensors
        /\ \A i \in Interpreters \ {Who} : data'[i] = data[i]
    BY <1>2, Committed
  <1>4. PlacesOK' /\ \A i : i = Who => Needed(i) \subseteq InMemory(i)'
    BY <1>2, CommitPlaces
  <1>5. call'.at = "plan_head" /\ call'.who = call.who /\ Who' = Who
    BY <1>1, <1>3 DEF Calls, Who
  <1>6. SettledOK'
    BY <1>2, <1>3, <1>5 DEF SettledOK, At, Allocating
  <1>7. AssignedOK'
    BY <1>5, NothingAssigned DEF Planning
  <1>8. \A i : Needed(i)' = Needed(i) /\ VariableTensors(i)' = VariableTensors(i)
    BY <1>3 DEF Needed, VariableTensors
  <1>9. ASSUME NEW i, i = Who PROVE TensorsPlaced(i, 0)'
    <2>1. \A t \in Needed(i) : LastUsed(model'[i], t) # -1
      BY <1>1, <1>2, <1>3, <1>9 DEF PlacedOK, At, M, Who
    <2>2. \A t \in VariableTensors(i) : ~(t < 0)
      <3>1. VariableTensors(i) \subseteq 1 .. Len(M.tensors) /\ Len(M.tensors) \in Nat
        BY <1>1, <1>9, ModelFacts DEF VariableTensors, M, Who
      <3> QED BY <3>1
    <2>3. DOMAIN data'[i] = DOMAIN model'[i].tensors
      BY <1>3, <1>9 DEF M, Who
    <2> QED BY <1>4, <1>8, <1>9, <2>1, <2>2, <2>3 DEF TensorsPlaced
  <1>10. \A i \in Interpreters \ {Who} : HasPlaces(i)' <=> HasPlaces(i)
    <2>1. \A i \in Interpreters \ {Who} : InMemory(i)' = InMemory(i)
      BY <1>3 DEF InMemory
    <2> QED BY <1>3, <1>8, <2>1 DEF HasPlaces, TensorsPlaced
  <1>11. PlacedOK'
    <2>1. \A i : (BeingPlaced(i) <=> i = Who) /\ (BeingPlaced(i)' <=> i = Who)
      BY <1>1, <1>5 DEF BeingPlaced, Unplanned, Planning
    <2>2. \A i \in Interpreters : tensors_allocated'[i] /\ ~BeingPlaced(i)' => HasPlaces(i)'
      BY <1>2, <1>3, <1>10, <2>1 DEF PlacedOK
    <2>3. call'.at \notin Finishing \cup {"commit", "variables"}
      BY <1>5 DEF Finishing
    <2>4. TensorsPlaced(Who, 0)'
      BY <1>5, <1>9
    <2>5. DOMAIN tensors_allocated' = Interpreters
      BY <1>2, <1>3 DEF PlacedOK
    <2> QED BY <2>2, <2>3, <2>4, <2>5 DEF PlacedOK, At
  <1>12. fresh = None /\ served = None /\ UNCHANGED <<fresh, served, clobbered>>
    BY <1>1, <1>2, <1>3 DEF ClientOK, memory
  <1>13. ClientOK' /\ LiveOK'
    BY <1>5, <1>12 DEF ClientOK, LiveOK, At
  <1>14. HitOK'
    BY <1>2, <1>3, <1>12, HitStays
  <1> QED BY <1>4, <1>6, <1>7, <1>11, <1>13, <1>14 DEF LiveInv

\* The head is set behind the largest plan.
LEMMA PlanHeadLive == IInv /\ LiveInv /\ Running /\ SetPlanHead => LiveInv'
  <1> SUFFICES ASSUME IInv, LiveInv, Running, SetPlanHead PROVE LiveInv'
    OBVIOUS
  <1>1. call.at = "plan_head" /\ call \in Calls
    BY CallInProgress DEF IInv, SetPlanHead, At, Steps
  <1>2. \/ failed'
        \/ /\ SetHeadBufferSize(max_head_buffer_usage, kBufferAlignment)
           /\ UNCHANGED memory /\ Goto("variables") /\ Keep
    BY <1>1, ErrorFails DEF SetPlanHead, SetHead
  <1>3. CASE /\ SetHeadBufferSize(max_head_buffer_usage, kBufferAlignment)
             /\ UNCHANGED memory /\ Goto("variables") /\ Keep
    <2>1. PlacedOK /\ SettledOK
      BY DEF LiveInv
    <2>2. call'.at = "variables" /\ call'.op = 1 /\ call'.who = call.who /\ Who' = Who
      BY <1>1, <1>3, GotoCall DEF Steps, Who
    <2>3. UNCHANGED <<model, data, scratch, max_head_buffer_usage, failed, tensors_allocated>>
      BY <1>3 DEF Keep, allocator, interpreters
    <2>4. temp' = head' /\ tail' = tail /\ persistent' = persistent
      BY <1>3 DEF SetHeadBufferSize
    <2>5. SettledOK'
      BY <2>1, <2>2, <2>4 DEF SettledOK, Allocating, At
    <2>6. AssignedOK'
      BY <2>2, NothingAssigned DEF Planning
    <2>7. \A i : (HasPlaces(i)' <=> HasPlaces(i)) /\ (TensorsPlaced(i, 1)' <=> TensorsPlaced(i, 1))
      BY <2>3, HasPlacesStays
    <2>8. TensorsPlaced(Who, 1)
      <3>1. TensorsPlaced(Who, 0)
        BY <1>1, <2>1 DEF PlacedOK, At
      <3>2. Who \in Interpreters /\ M \in Models
        BY <1>1, CallInProgress DEF IInv, Steps
      <3>3. VariableTensors(Who) \subseteq 1 .. Len(M.tensors) /\ Len(M.tensors) \in Nat
        BY <3>2, ModelFacts DEF VariableTensors, M, Who
      <3> QED BY <3>1, <3>3 DEF TensorsPlaced
    <2>9. PlacedOK'
      <3>1. \A i : BeingPlaced(i)' <=> BeingPlaced(i)
        BY <1>1, <2>2 DEF BeingPlaced
      <3>2. call'.at \notin Finishing \cup {"commit", "plan_head"}
        BY <2>2 DEF Finishing
      <3>3. \A i, n : i = Who' /\ n = call'.op => TensorsPlaced(i, n)'
        BY <2>2, <2>7, <2>8
      <3>4. TensorsPlaced(Who, call.op)'
        BY <3>3
      <3> QED BY <2>1, <2>3, <2>7, <3>1, <3>2, <3>4 DEF PlacedOK, At
    <2>10. UNCHANGED <<clobbered, fresh, served>>
      BY <1>3 DEF memory
    <2> QED BY <1>1, <2>2, <2>3, <2>4, <2>5, <2>6, <2>9, <2>10, AllocationStep
  <1> QED BY <1>2, <1>3, FailureEnds

\* The call moves on to the next tensor.
LEMMA NextOpCall ==
    ASSUME call \in Calls, call' = [call EXCEPT !.op = @ + 1]
    PROVE  /\ call'.at = call.at /\ call'.who = call.who /\ call'.op = call.op + 1
           /\ call'.op \in Nat
  BY DEF Calls

\* A variable gets memory of its own.
LEMMA VariableIsNew ==
    ASSUME ArenaInv, NEW size \in Sizes, NEW a \in Alignments, AllocateFromTail(size, a)
    PROVE  /\ tail' \in Nat /\ Span(tail', size) \in persistent'
           /\ persistent \subseteq persistent'
           /\ \A p \in persistent :
                 Disjoint(Span(tail', size), p) /\ Disjoint(p, Span(tail', size))
  <1> DEFINE n == AlignDown(tail - size, a)
             new == [from |-> tail', to |-> tail' + size]
  <1>1. /\ size \in Nat /\ size <= BufferHead /\ a \in Nat \ {0}
        /\ tail \in Nat /\ BufferHead \in Nat /\ BufferHead <= tail /\ tail < AddressSpace
        /\ AddressSpace \in Nat
    BY ArenaNumbers, AllocatorNumbers, SizesAssumption, AlignmentsAssumption
  <1>2. tail - size \in Nat /\ tail - size < AddressSpace
    BY <1>1
  <1>3. n \in Nat /\ n <= tail - size
    BY <1>1, <1>2, AlignDownBelow
  <1>4. TailResult(size, a) = n
    BY <1>2, SizeTInRange DEF TailResult
  <1> HIDE DEF n
  <1>5. tail' = n /\ persistent' = persistent \cup {new}
    BY <1>4 DEF AllocateFromTail
  <1>6. /\ tail' \in Nat /\ tail \in Nat /\ tail' + size \in Nat
        /\ tail' + size <= tail
    BY <1>1, <1>3, <1>5
  <1>7. \A p \in persistent : p.from \in Nat /\ tail <= p.from
    BY DEF ArenaInv, ArenaTypeOK, PersistentIntact
  <1>8. new = Span(tail', size) /\ new.to = tail' + size
    BY DEF Span
  <1> HIDE DEF new
  <1>9. ASSUME NEW p \in persistent PROVE new.to <= p.from
    <2>1. tail <= p.from /\ p.from \in Nat /\ new.to = tail' + size
      BY <1>7, <1>8
    <2> QED BY <1>6, <2>1
  <1> QED BY <1>5, <1>6, <1>8, <1>9 DEF Disjoint

\* A variable gets a place apart from those of all others.
LEMMA VariablePlaced ==
    ASSUME IInv, PlacesOK, Who \in Interpreters,
           NEW v \in VariableTensors(Who), DOMAIN data[Who] = DOMAIN model[Who].tensors,
           model[Who].tensors[v].bytes \in Sizes,
           AllocateFromTail(model[Who].tensors[v].bytes, kBufferAlignment),
           data' = [data EXCEPT ![Who][v] = tail'],
           UNCHANGED <<model, scratch, max_head_buffer_usage>>
    PROVE  /\ PlacesOK'
           /\ DOMAIN data'[Who] = DOMAIN data[Who]
           /\ \A i \in Interpreters \ {Who} : data'[i] = data[i]
           /\ \A i \in Interpreters : InMemory(i) \subseteq InMemory(i)'
           /\ \A i \in Interpreters : i = Who => v \in InMemory(i)'
  <1> DEFINE size == model[Who].tensors[v].bytes
             new == Span(tail', size)
  <1>1. /\ tail' \in Nat /\ new \in persistent' /\ persistent \subseteq persistent'
        /\ \A p \in persistent : Disjoint(new, p) /\ Disjoint(p, new)
    BY VariableIsNew, AllocatorNumbers DEF IInv
  <1> HIDE DEF new
  <1>2. v \in DOMAIN data[Who] /\ v \notin Needed(Who)
    BY DEF VariableTensors, Needed, NeedsAllocating
  <1>3. DOMAIN data = Interpreters
    BY DEF IInv, DataOK
  <1>4. /\ data'[Who] = [data[Who] EXCEPT ![v] = tail']
        /\ \A i \in Interpreters \ {Who} : data'[i] = data[i]
    BY <1>3
  <1>5. /\ DOMAIN data'[Who] = DOMAIN data[Who] /\ data'[Who][v] = tail'
        /\ \A t \in DOMAIN data[Who] \ {v} : data'[Who][t] = data[Who][t]
    BY <1>2, <1>4
  <1>6. \A i : Needed(i)' = Needed(i) /\ VariableTensors(i)' = VariableTensors(i)
    BY DEF Needed, VariableTensors
  <1>7. ASSUME NEW i \in Interpreters, NEW t, ~(i = Who /\ t = v)
        PROVE  /\ t \in InMemory(i)' <=> t \in InMemory(i)
               /\ t \in InMemory(i) => TensorSpan(i, t)' = TensorSpan(i, t)
    <2>1. CASE i = Who
      BY <1>5, <1>7, <2>1 DEF InMemory, TensorSpan
    <2>2. CASE i # Who
      BY <1>4, <2>2 DEF InMemory, TensorSpan
    <2> QED BY <2>1, <2>2
  <1>8. \A i \in Interpreters : i = Who => v \in InMemory(i)' /\ TensorSpan(i, v)' = new
    BY <1>1, <1>2, <1>5 DEF InMemory, TensorSpan, new
  <1>9. \A i \in Interpreters : InMemory(i) \subseteq InMemory(i)'
    BY <1>7, <1>8
  <1>10. ASSUME NEW i \in Interpreters
         PROVE  /\ PlannedTensorsOf(i)' = PlannedTensorsOf(i)
                /\ \A t \in PlannedTensorsOf(i) : TensorSpan(i, t)' = TensorSpan(i, t)
    BY <1>2, <1>6, <1>7 DEF PlannedTensorsOf
  <1>11. ASSUME NEW i \in Interpreters, NEW t \in VariablesOf(i)'
         PROVE  \/ i = Who /\ t = v /\ TensorSpan(i, t)' = new
                \/ /\ ~(i = Who /\ t = v) /\ t \in VariablesOf(i)
                   /\ TensorSpan(i, t)' = TensorSpan(i, t) /\ TensorSpan(i, t) \in persistent
    <2>1. CASE i = Who /\ t = v
      BY <1>8, <2>1
    <2>2. CASE ~(i = Who /\ t = v)
      <3>1. t \in VariablesOf(i) /\ TensorSpan(i, t)' = TensorSpan(i, t)
        BY <1>6, <1>7, <1>11, <2>2 DEF VariablesOf
      <3> QED BY <2>2, <3>1 DEF PlacesOK
    <2> QED BY <2>1, <2>2
  <1>12. ASSUME NEW i \in Interpreters
         PROVE  /\ DOMAIN data'[i] \subseteq DOMAIN model'[i].tensors
                /\ \A t \in DOMAIN data'[i] : data'[i][t] \in Int
                /\ InMemory(i)' \subseteq Needed(i)' \cup VariableTensors(i)'
    <2>1. DOMAIN data'[i] = DOMAIN data[i] /\ \A t \in DOMAIN data[i] : data'[i][t] \in {tail', data[i][t]}
      BY <1>4, <1>5
    <2>2. InMemory(i)' \subseteq Needed(i)' \cup VariableTensors(i)'
      <3> SUFFICES ASSUME NEW t \in InMemory(i)' PROVE t \in Needed(i) \cup VariableTensors(i)
        BY <1>6
      <3> QED BY <1>7 DEF PlacesOK
    <2>3. /\ DOMAIN data[i] \subseteq DOMAIN model[i].tensors
          /\ \A t \in DOMAIN data[i] : data[i][t] \in Int
      BY DEF PlacesOK
    <2> QED BY <1>1, <2>1, <2>2, <2>3
  <1>13. \A i \in Interpreters : \A t, u \in PlannedTensorsOf(i)' :
           t # u /\ LivesMeet(model'[i], t, u) => Disjoint(TensorSpan(i, t)', TensorSpan(i, u)')
    BY <1>10 DEF PlacesOK
  <1>14. ASSUME NEW i \in Interpreters, NEW s \in scratch'[i]
         PROVE  /\ s.op \in Nat /\ s.span.from \in Nat /\ s.span.to \in Nat
                /\ s.span.to <= BufferHead + max_head_buffer_usage'
                /\ \A t \in PlannedTensorsOf(i)' :
                      InUse(model'[i], t, s.op - 1) => Disjoint(s.span, TensorSpan(i, t)')
                /\ \A r \in scratch'[i] : s.op = r.op /\ s.span # r.span => Disjoint(s.span, r.span)
    BY <1>10 DEF PlacesOK
  <1>15. \A i \in Interpreters : \A t \in VariablesOf(i)' : TensorSpan(i, t)' \in persistent'
    BY <1>1, <1>11
  <1>16. ASSUME NEW i \in Interpreters, NEW j \in Interpreters,
                NEW t \in VariablesOf(i)', NEW u \in VariablesOf(j)', i # j \/ t # u
         PROVE  Disjoint(TensorSpan(i, t)', TensorSpan(j, u)')
    <2>1. CASE i = Who /\ t = v
      BY <1>1, <1>11, <1>16, <2>1
    <2>2. CASE j = Who /\ u = v
      BY <1>1, <1>11, <1>16, <2>2
    <2>3. CASE ~(i = Who /\ t = v) /\ ~(j = Who /\ u = v)
      BY <1>11, <1>16, <2>3 DEF PlacesOK
    <2> QED BY <2>1, <2>2, <2>3
  <1>17. PlacesOK'
    BY <1>12, <1>13, <1>14, <1>15, <1>16 DEF PlacesOK
  <1> QED BY <1>4, <1>5, <1>8, <1>9, <1>17

\* One variable after the other gets its place.
LEMMA VariablesGoOn ==
    ASSUME PlacedOK, call.at = "variables", call'.at = "variables", call'.who = call.who,
           call'.op = call.op + 1, call.op \in Nat, UNCHANGED <<model, tensors_allocated>>,
           VariableTensors(Who) \subseteq Nat,
           \A i \in Interpreters : InMemory(i) \subseteq InMemory(i)',
           \A i \in Interpreters : DOMAIN data'[i] = DOMAIN data[i],
           Who \in Interpreters,
           \A i \in Interpreters : i = Who /\ call.op \in VariableTensors(i) =>
              call.op \in InMemory(i)'
    PROVE  PlacedOK'
  <1>1. \A i : Needed(i)' = Needed(i) /\ VariableTensors(i)' = VariableTensors(i)
    BY DEF Needed, VariableTensors
  <1>2. \A i \in Interpreters : HasPlaces(i) => HasPlaces(i)'
    BY <1>1 DEF HasPlaces, TensorsPlaced
  <1>3. ASSUME NEW i \in Interpreters, i = Who, NEW n, n = call.op + 1
        PROVE  TensorsPlaced(i, n)'
    <2>1. TensorsPlaced(i, call.op)
      BY <1>3 DEF PlacedOK, At
    <2>2. ASSUME NEW t \in VariableTensors(i), t < n PROVE t \in InMemory(i)'
      <3>1. t < call.op \/ t = call.op
        BY <1>3, <2>2
      <3> QED BY <1>3, <2>1, <2>2, <3>1 DEF TensorsPlaced
    <2> QED BY <1>1, <2>1, <2>2 DEF TensorsPlaced
  <1>4. \A i, n : i = Who' /\ n = call'.op => TensorsPlaced(i, n)'
    BY <1>3 DEF Who
  <1>5. TensorsPlaced(Who, call.op)'
    BY <1>4
  <1>6. \A i : BeingPlaced(i)' <=> BeingPlaced(i)
    BY DEF BeingPlaced, Who
  <1>7. call'.at \notin Finishing \cup {"commit", "plan_head"}
    BY DEF Finishing
  <1> QED BY <1>2, <1>5, <1>6, <1>7 DEF PlacedOK, At

\* AllocateVariables: one variable after the other gets its place.
LEMMA VariablesLive == IInv /\ LiveInv /\ Running /\ AllocateVariables => LiveInv'
  <1> SUFFICES ASSUME IInv, LiveInv, Running, AllocateVariables PROVE LiveInv'
    OBVIOUS
  <1>1. call.at = "variables" /\ call \in Calls /\ M \in Models /\ Who \in Interpreters
    BY CallInProgress DEF IInv, AllocateVariables, At, Steps
  <1>2. HitOK /\ PlacesOK /\ SettledOK /\ PlacedOK /\ ClientOK
    BY DEF LiveInv, Running
  <1>3. /\ call.op \in Nat \ {0} /\ DOMAIN M.tensors = 1 .. Len(M.tensors)
        /\ Len(M.tensors) \in Nat /\ M = model[Who]
    BY <1>1, ModelFacts DEF Calls, M, Who
  <1>4. VariableTensors(Who) \subseteq 1 .. Len(M.tensors)
    BY <1>3 DEF VariableTensors
  <1>5. TensorsPlaced(Who, call.op)
    BY <1>1, <1>2 DEF PlacedOK, At
  <1>6. temp = head /\ tail % kStructAlignment = 0
    BY <1>1, <1>2 DEF SettledOK, At
  <1>7. CASE call.op > Len(M.tensors)
    <2>1. /\ model_is_allocating' = FALSE /\ Goto("input_array")
          /\ UNCHANGED <<arena, max_head_buffer_usage, interpreters, memory, failed>>
      BY <1>7 DEF AllocateVariables
    <2>2. call'.at = "input_array" /\ call'.who = call.who
      BY <1>1, <2>1, GotoCall DEF Steps
    <2>3. HasPlaces(Who)
      <3>1. \A t \in VariableTensors(Who) : t < call.op
        BY <1>3, <1>4, <1>7
      <3> QED BY <1>5, <3>1 DEF HasPlaces, TensorsPlaced
    <2>4. PlacedOK'
      BY <1>2, <2>1, <2>2, <2>3, PlacingIsOver DEF interpreters, Unplanned, Planning
    <2>5. SettledOK'
      BY <1>6, <2>1, <2>2 DEF SettledOK, arena, Allocating, Preparing, Planning, At
    <2>6. AssignedOK'
      BY <2>2, NothingAssigned DEF Planning
    <2> QED BY <1>1, <2>1, <2>2, <2>4, <2>5, <2>6, AllocationStep DEF interpreters, memory, arena
  <1>8. CASE ~(call.op > Len(M.tensors)) /\ ~M.tensors[call.op].is_variable
    <2>1. call' = [call EXCEPT !.op = @ + 1] /\ UNCHANGED <<arena, memory>> /\ Keep
      BY <1>8 DEF AllocateVariables
    <2>2. /\ call'.at = "variables" /\ call'.who = call.who /\ call'.op = call.op + 1
      BY <1>1, <2>1, NextOpCall
    <2>3. UNCHANGED <<model, data, scratch, max_head_buffer_usage, failed, tensors_allocated>>
      BY <2>1 DEF Keep, allocator, interpreters
    <2>4. call.op \notin VariableTensors(Who)
      BY <1>3, <1>8 DEF VariableTensors
    <2>5. \A i : InMemory(i)' = InMemory(i)
      BY <2>3 DEF InMemory
    <2>6. PlacedOK'
      BY <1>1, <1>2, <1>3, <1>4, <2>2, <2>3, <2>4, <2>5, VariablesGoOn
    <2>7. SettledOK'
      BY <1>6, <2>1, <2>2 DEF SettledOK, arena, Allocating, At
    <2>8. AssignedOK'
      BY <2>2, NothingAssigned DEF Planning
    <2> QED BY <1>1, <2>1, <2>2, <2>3, <2>6, <2>7, <2>8, AllocationStep DEF memory, arena
  <1>9. CASE ~(call.op > Len(M.tensors)) /\ M.tensors[call.op].is_variable
    <2> DEFINE size == M.tensors[call.op].bytes
    <2>1. \/ failed'
          \/ Stop
          \/ /\ AllocateFromTail(size, kBufferAlignment) /\ Writes(NewSpans)
             /\ data' = [data EXCEPT ![Who][call.op] = tail']
             /\ call' = [call EXCEPT !.op = @ + 1]
             /\ UNCHANGED <<allocator, model, tensors_allocated, scratch, failed>>
      BY <1>1, <1>9, ErrorFails DEF AllocateVariables, FromTail
    <2>2. call.op \in DOMAIN M.tensors
      BY <1>3, <1>9
    <2>3. size \in Sizes
      BY <1>1, <2>2, TailSizes
    <2>4. call.op \in VariableTensors(Who) /\ size = model[Who].tensors[call.op].bytes
      BY <1>3, <1>9, <2>2 DEF VariableTensors
    <2> HIDE DEF size
    <2>5. CASE /\ AllocateFromTail(size, kBufferAlignment) /\ Writes(NewSpans)
               /\ data' = [data EXCEPT ![Who][call.op] = tail']
               /\ call' = [call EXCEPT !.op = @ + 1]
               /\ UNCHANGED <<allocator, model, tensors_allocated, scratch, failed>>
      <3>1. /\ call'.at = "variables" /\ call'.who = call.who /\ call'.op = call.op + 1
        BY <1>1, <2>5, NextOpCall
      <3>2. NewHits /\ tail' % kStructAlignment = 0
        BY <1>2, <1>6, <2>3, <2>5, TailHits
      <3>3. /\ PlacesOK'
            /\ DOMAIN data'[Who] = DOMAIN data[Who]
            /\ \A i \in Interpreters \ {Who} : data'[i] = data[i]
            /\ \A i \in Interpreters : InMemory(i) \subseteq InMemory(i)'
            /\ \A i \in Interpreters : i = Who => call.op \in InMemory(i)'
        BY <1>1, <1>2, <1>5, <2>3, <2>4, <2>5, VariablePlaced DEF TensorsPlaced, allocator
      <3>4. PlacedOK'
        <4>1. \A i \in Interpreters : DOMAIN data'[i] = DOMAIN data[i]
          BY <3>3
        <4> QED BY <1>1, <1>2, <1>3, <1>4, <2>5, <3>1, <3>3, <4>1, VariablesGoOn
      <3>5. temp' = head'
        BY <1>6, <2>5 DEF AllocateFromTail
      <3>6. SettledOK'
        BY <3>1, <3>2, <3>5 DEF SettledOK, Allocating, At
      <3>7. AssignedOK'
        BY <3>1, NothingAssigned DEF Planning
      <3>8. fresh = None /\ served = None /\ fresh' = None /\ served' = None
        BY <1>1, <1>2, <3>2 DEF ClientOK, NewHits
      <3>9. ClientOK' /\ LiveOK'
        BY <3>1, <3>8 DEF ClientOK, LiveOK, At
      <3>10. HitOK'
        BY <1>2, <2>5, <3>2, <3>8, HitStays DEF NewHits
      <3> QED BY <3>3, <3>4, <3>6, <3>7, <3>9, <3>10 DEF LiveInv
    <2> QED BY <2>1, <2>5, FailureEnds, StopEnds
  <1> QED BY <1>7, <1>8, <1>9

\* A step behind the plan.
LEMMA FinishingStep ==
    ASSUME IInv, LiveInv, Running, call.at \in Finishing, call'.at \in Finishing,
           call'.who = call.who, NEW size \in Sizes,
           NEW a \in {kStructAlignment, kBufferAlignment},
           \/ AllocateFromTail(size, a) /\ Writes(NewSpans)
           \/ UNCHANGED <<arena, memory>>,
           Keep
    PROVE  LiveInv'
  <1>1. PlacesOK /\ SettledOK /\ PlacedOK
    BY DEF LiveInv
  <1>2. NewHits /\ tail' % kStructAlignment = 0
    BY <1>1, TailHits DEF SettledOK
  <1>3. call.at \notin Allocating /\ call'.at \notin Allocating
    BY DEF Finishing, Allocating, Preparing, Planning
  <1>4. UNCHANGED <<model, data, scratch, max_head_buffer_usage, failed, tensors_allocated,
                    model_is_allocating>>
    BY DEF Keep, allocator, interpreters
  <1>5. head' = head /\ temp' = temp
    BY DEF AllocateFromTail, arena
  <1>6. SettledOK'
    BY <1>1, <1>2, <1>3, <1>4, <1>5 DEF SettledOK, At, Allocating
  <1>7. AssignedOK'
    BY NothingAssigned DEF Finishing, Planning
  <1>8. PlacedOK'
    <2>1. HasPlaces(Who)
      BY <1>1 DEF PlacedOK
    <2>2. call'.at \notin Unplanned \cup {"plan_head", "variables"}
      BY DEF Finishing, Unplanned, Planning
    <2> QED BY <1>1, <1>4, <2>1, <2>2, PlacingIsOver
  <1>9. call.at \notin {"idle", "tensor", "invoke"} /\ call'.at \notin {"idle", "tensor", "invoke"}
    BY DEF Finishing
  <1> QED BY <1>2, <1>4, <1>6, <1>7, <1>8, <1>9, AllocationStep DEF NewHits

\* The sizes of the structures of tensors are those of the allocator.
LEMMA StructSizes ==
    ASSUME call \in Calls, M \in Models, NEW tensors \in Seq(DOMAIN M.tensors),
           NEW structs,
           structs = FlattenSeq([n \in DOMAIN tensors |-> TensorStructs(M.tensors[tensors[n]])]),
           ~(call.k > Len(structs))
    PROVE  structs[call.k].bytes \in Sizes
  <1>1. structs \in Seq(StructRecord)
    BY StructsOfTensors
  <1>2. call.k \in Nat \ {0} /\ Len(structs) \in Nat
    BY <1>1 DEF Calls
  <1>3. structs[call.k] \in StructRecord
    BY <1>1, <1>2
  <1> QED BY <1>3 DEF StructRecord

\* The array of the inputs or outputs is behind every plan.
LEMMA ArrayLive ==
    ASSUME IInv, LiveInv, Running, NEW at \in Finishing, NEW then \in Finishing, NEW tensors,
           Len(tensors) \in Sizes, AllocateTensorArray(at, tensors, then)
    PROVE  LiveInv'
  <1>1. call.at = at /\ call \in Calls
    BY CallInProgress DEF IInv, AllocateTensorArray, At, Steps, Finishing
  <1>2. \/ failed'
        \/ Stop
        \/ /\ AllocateFromTail(Len(tensors), kBufferAlignment) /\ Writes(NewSpans)
           /\ Goto(then) /\ Keep
    BY <1>1, ErrorFails DEF AllocateTensorArray, FromTail, Finishing
  <1>3. CASE /\ AllocateFromTail(Len(tensors), kBufferAlignment) /\ Writes(NewSpans)
             /\ Goto(then) /\ Keep
    <2>1. call'.at = then /\ call'.who = call.who
      BY <1>1, <1>3, GotoCall DEF Steps, Finishing
    <2> QED BY <1>1, <1>3, <2>1, FinishingStep
  <1> QED BY <1>2, <1>3, FailureEnds, StopEnds

\* The structures of inputs and outputs are behind every plan.
LEMMA StructsLive ==
    ASSUME IInv, LiveInv, Running, NEW at \in Finishing, NEW then \in Finishing,
           NEW tensors \in Seq(DOMAIN M.tensors),
           AllocateTensorStructs(at, tensors, Goto(then))
    PROVE  LiveInv'
  <1> DEFINE structs == FlattenSeq([n \in DOMAIN tensors |-> TensorStructs(M.tensors[tensors[n]])])
             s == structs[call.k].bytes
  <1>1. call.at = at /\ call \in Calls /\ M \in Models
    BY CallInProgress DEF IInv, AllocateTensorStructs, At, Steps, Finishing
  <1>2. \/ failed'
        \/ Stop
        \/ Goto(then) /\ UNCHANGED <<arena, memory>> /\ Keep
        \/ /\ ~(call.k > Len(structs))
           /\ AllocateFromTail(s, kStructAlignment) /\ Writes(NewSpans)
           /\ NextRequest /\ Keep
    BY <1>1, ErrorFails DEF AllocateTensorStructs, FromTail, Finishing
  <1>3. ~(call.k > Len(structs)) => s \in Sizes
    BY <1>1, StructSizes
  <1> HIDE DEF structs, s
  <1>4. CASE Goto(then) /\ UNCHANGED <<arena, memory>> /\ Keep
    <2>1. call'.at = then /\ call'.who = call.who
      BY <1>1, <1>4, GotoCall DEF Steps, Finishing
    <2>2. MicroAllocatorSize \in Sizes
      BY AllocatorAssumption
    <2> QED BY <1>1, <1>4, <2>1, <2>2, FinishingStep
  <1>5. CASE /\ ~(call.k > Len(structs))
             /\ AllocateFromTail(s, kStructAlignment) /\ Writes(NewSpans)
             /\ NextRequest /\ Keep
    <2>1. call'.at = at /\ call'.who = call.who
      BY <1>1, <1>5, NextRequestCall
    <2> QED BY <1>1, <1>3, <1>5, <2>1, FinishingStep
  <1> QED BY <1>2, <1>4, <1>5, FailureEnds, StopEnds

\* What is allocated behind the plan moves no data.
LEMMA LateLive == IInv /\ LiveInv /\ Running /\ (AllocateInputs \/ AllocateOutputs) => LiveInv'
  <1>1. ASSUME IInv, LiveInv, Running, AllocateInputs PROVE LiveInv'
    <2>1. call.at \in Steps
      BY <1>1 DEF AllocateInputs, AllocateTensorArray, AllocateTensorStructs, At, Steps
    <2>2. Len(M.inputs) \in Sizes /\ M.inputs \in Seq(DOMAIN M.tensors)
      BY <1>1, <2>1, CallInProgress, ModelFacts, TailSizes DEF IInv
    <2>3. CASE AllocateTensorArray("input_array", M.inputs, "inputs")
      BY <1>1, <2>2, <2>3, ArrayLive DEF Finishing
    <2>4. CASE AllocateTensorStructs("inputs", M.inputs, Goto("output_array"))
      BY <1>1, <2>2, <2>4, StructsLive DEF Finishing
    <2> QED BY <1>1, <2>3, <2>4 DEF AllocateInputs
  <1>2. ASSUME IInv, LiveInv, Running, AllocateOutputs PROVE LiveInv'
    <2>1. call.at \in Steps
      BY <1>2 DEF AllocateOutputs, AllocateTensorArray, AllocateTensorStructs, At, Steps
    <2>2. Len(M.outputs) \in Sizes /\ M.outputs \in Seq(DOMAIN M.tensors)
      BY <1>2, <2>1, CallInProgress, ModelFacts, TailSizes DEF IInv
    <2>3. CASE AllocateTensorArray("output_array", M.outputs, "outputs")
      BY <1>2, <2>2, <2>3, ArrayLive DEF Finishing
    <2>4. CASE AllocateTensorStructs("outputs", M.outputs, Goto("reset_variables"))
      BY <1>2, <2>2, <2>4, StructsLive DEF Finishing
    <2> QED BY <1>2, <2>3, <2>4 DEF AllocateOutputs
  <1> QED BY <1>1, <1>2

\* Between the calls that allocate.
LEMMA ClientStep ==
    ASSUME LiveInv, Running, call.at \in {"idle", "tensor"}, call'.at \in {"idle", "tensor"},
           UNCHANGED <<model, data, scratch, max_head_buffer_usage, memory,
                       tensors_allocated, model_is_allocating, head, temp>>,
           persistent \subseteq persistent', tail' % kStructAlignment = 0
    PROVE  LiveInv'
  <1>1. HitOK /\ PlacesOK /\ SettledOK /\ PlacedOK /\ ClientOK /\ LiveOK
    BY DEF LiveInv, Running
  <1>2. HitOK'
    BY <1>1, HitStays DEF memory
  <1>3. PlacesOK'
    BY <1>1, PlacesStay
  <1>4. SettledOK'
    BY <1>1 DEF SettledOK, At, Allocating, Preparing, Planning
  <1>5. AssignedOK'
    BY NothingAssigned DEF Planning
  <1>6. PlacedOK'
    <2>1. \A i : HasPlaces(i)' <=> HasPlaces(i)
      BY HasPlacesStays
    <2>2. \A i : ~BeingPlaced(i) /\ ~BeingPlaced(i)'
      BY DEF BeingPlaced, Unplanned, Planning
    <2> QED BY <1>1, <2>1, <2>2 DEF PlacedOK, At, Finishing
  <1>7. ClientOK'
    BY <1>1 DEF ClientOK, At, memory
  <1>8. LiveOK'
    BY <1>1 DEF LiveOK, At, memory
  <1> QED BY <1>2, <1>3, <1>4, <1>5, <1>6, <1>7, <1>8 DEF LiveInv

\* tensor() takes its structures from behind every plan.
LEMMA TensorLive == IInv /\ LiveInv /\ Running /\ AllocateTensor => LiveInv'
  <1> SUFFICES ASSUME IInv, LiveInv, Running, AllocateTensor PROVE LiveInv'
    OBVIOUS
  <1> DEFINE tensors == <<call.op>>
             structs == FlattenSeq([n \in DOMAIN tensors |-> TensorStructs(M.tensors[tensors[n]])])
             s == structs[call.k].bytes
  <1>1. call.at = "tensor" /\ call \in Calls /\ M \in Models
    BY CallInProgress DEF IInv, AllocateTensor, AllocateTensorStructs, At, Steps
  <1>2. tensors \in Seq(DOMAIN M.tensors)
    <2>1. call.op \in Nat \ {0} /\ call.op <= Len(M.tensors)
      BY <1>1 DEF IInv, ControlOK, CallOK, Idle, Stopped, At, Calls
    <2>2. call.op \in DOMAIN M.tensors
      BY <1>1, <2>1, ModelFacts
    <2>3. \A S : \A x \in S : <<x>> \in Seq(S)
      OBVIOUS
    <2> QED BY <2>2, <2>3, Zenon
  <1>3. ~(call.k > Len(structs)) => s \in Sizes
    BY <1>1, <1>2, StructSizes
  <1>4. \/ Stop
        \/ /\ call' = Idle \/ NextRequest
           /\ UNCHANGED <<allocator, interpreters>>
           /\ \/ UNCHANGED <<arena, memory>>
              \/ /\ ~(call.k > Len(structs))
                 /\ AllocateFromTail(s, kStructAlignment) /\ Writes(NewSpans)
    <2>1. AllocateTensorStructs("tensor", tensors, call' = Idle)
      BY DEF AllocateTensor
    <2>2. CASE call.k > Len(structs)
      BY <2>1, <2>2 DEF AllocateTensorStructs, Keep
    <2>3. CASE ~(call.k > Len(structs))
      <3>1. FromTail(s, kStructAlignment, NextRequest /\ Keep,
                     IF structs[call.k].kind = "tensor" THEN Stop ELSE ReturnError)
        BY <2>1, <2>3 DEF AllocateTensorStructs
      <3> HIDE DEF structs, s
      <3>2. ReturnError => call' = Idle /\ UNCHANGED <<allocator, interpreters, memory>>
        BY DEF ReturnError
      <3> QED BY <2>3, <3>1, <3>2 DEF FromTail, Keep
    <2> QED BY <2>2, <2>3
  <1> HIDE DEF structs, s
  <1>5. CASE /\ call' = Idle \/ NextRequest
             /\ UNCHANGED <<allocator, interpreters>>
             /\ \/ UNCHANGED <<arena, memory>>
                \/ /\ ~(call.k > Len(structs))
                   /\ AllocateFromTail(s, kStructAlignment) /\ Writes(NewSpans)
    <2>1. call'.at \in {"idle", "tensor"}
      BY <1>1, <1>5, NextRequestCall DEF Idle
    <2>2. PlacesOK /\ SettledOK
      BY DEF LiveInv
    <2>3. ~model_is_allocating /\ tail % kStructAlignment = 0
      BY <1>1, <2>2 DEF SettledOK, Allocating, Preparing, Planning
    <2>4. CASE UNCHANGED <<arena, memory>>
      BY <1>1, <1>5, <2>1, <2>3, <2>4, ClientStep DEF arena, allocator, interpreters
    <2>5. CASE /\ ~(call.k > Len(structs))
               /\ AllocateFromTail(s, kStructAlignment) /\ Writes(NewSpans)
      <3>1. s \in Sizes /\ kStructAlignment \in Alignments
        BY <1>3, <2>5, AllocatorNumbers
      <3>2. /\ persistent \subseteq persistent'
            /\ \A n \in NewSpans : /\ n.from \in Int /\ head <= n.from
                                   /\ \A p \in persistent : Disjoint(n, p)
        BY <2>5, <3>1, TailIsNew DEF IInv
      <3>3. head = BufferHead + max_head_buffer_usage
        BY <2>3 DEF IInv, HeadOK
      <3>4. Hit(NewSpans) = {}
        BY <2>2, <3>2, <3>3, NobodyHit
      <3>5. UNCHANGED memory
        BY <2>5, <3>4 DEF Writes, memory
      <3>6. tail' % kStructAlignment = 0 /\ head' = head /\ temp' = temp
        BY <2>5, <3>1, TailStaysAligned DEF IInv, AllocateFromTail
      <3> QED BY <1>1, <1>5, <2>1, <3>2, <3>5, <3>6, ClientStep DEF allocator, interpreters
    <2> QED BY <1>5, <2>4, <2>5
  <1> QED BY <1>4, <1>5, StopEnds

\* No interpreter is getting tensors.
LEMMA NothingPlaced ==
    ASSUME UNCHANGED <<model, data>>,
           \A i \in Interpreters : tensors_allocated'[i] => HasPlaces(i),
           DOMAIN tensors_allocated' = Interpreters,
           call'.at \notin Unplanned \cup Finishing \cup {"plan_head", "variables"}
    PROVE  PlacedOK'
  <1>1. \A i : HasPlaces(i)' <=> HasPlaces(i)
    BY HasPlacesStays
  <1>2. call'.at # "commit"
    BY DEF Unplanned, Planning
  <1> QED BY <1>1, <1>2 DEF PlacedOK, At

\* Resetting the variables of an interpreter does not touch those of another.
LEMMA ResetLive == IInv /\ LiveInv /\ Running /\ ResetVariableTensors => LiveInv'
  <1> SUFFICES ASSUME IInv, LiveInv, Running, ResetVariableTensors PROVE LiveInv'
    OBVIOUS
  <1> DEFINE variables == {<<Who, t>> : t \in VariableTensors(Who)}
             spans == {TensorSpan(w[1], w[2]) : w \in variables}
  <1>1. call.at = "reset_variables" /\ call \in Calls /\ M \in Models /\ Who \in Interpreters
    BY CallInProgress DEF IInv, ResetVariableTensors, At, Steps
  <1>2. HitOK /\ PlacesOK /\ SettledOK /\ PlacedOK /\ ClientOK
    BY DEF LiveInv, Running
  <1>3. /\ clobbered' = (clobbered \cup Hit(spans)) \ variables
        /\ tensors_allocated' = [tensors_allocated EXCEPT ![Who] = TRUE]
        /\ IF call.invoking THEN Goto("invoke") ELSE call' = Idle
        /\ UNCHANGED <<arena, allocator, model, data, scratch, fresh, served, failed>>
    BY DEF ResetVariableTensors
  <1>4. HasPlaces(Who)
    BY <1>1, <1>2 DEF PlacedOK, Finishing
  <1>5. VariableTensors(Who) \subseteq VariablesOf(Who)
    <2>1. \A t \in VariableTensors(Who) : t < Len(model[Who].tensors) + 1
      <3>1. VariableTensors(Who) \subseteq 1 .. Len(M.tensors) /\ M = model[Who]
        BY <1>1, ModelFacts DEF VariableTensors, M, Who
      <3>2. Len(M.tensors) \in Nat
        BY <1>1, ModelFacts
      <3> QED BY <3>1, <3>2
    <2> QED BY <1>4, <2>1 DEF HasPlaces, TensorsPlaced, VariablesOf
  <1>6. \A s \in spans : \E t \in VariableTensors(Who) : s = TensorSpan(Who, t)
    OBVIOUS
  <1> HIDE DEF spans
  <1>7. ASSUME NEW w \in Hit(spans), w \notin variables
        PROVE  \E i \in Interpreters : \E t \in Needed(i) : w = <<i, t>>
    <2>1. PICK i \in Interpreters :
             \E u \in InMemory(i) : w = <<i, u>> /\ \E s \in spans : ~Disjoint(s, TensorSpan(i, u))
      BY HitMembers
    <2>2. PICK u \in InMemory(i) : w = <<i, u>> /\ \E s \in spans : ~Disjoint(s, TensorSpan(i, u))
      BY <2>1
    <2>3. PICK t \in VariableTensors(Who) : ~Disjoint(TensorSpan(Who, t), TensorSpan(i, u))
      BY <1>6, <2>2
    <2>4. u \notin VariablesOf(i)
      <3> SUFFICES ASSUME u \in VariablesOf(i) PROVE FALSE
        OBVIOUS
      <3>1. ~(i # Who \/ t # u)
        BY <1>1, <1>2, <1>5, <2>3 DEF PlacesOK
      <3> QED BY <1>7, <2>2, <2>3, <3>1
    <2> QED BY <1>2, <2>2, <2>4, SpansOfTensors
  <1>8. call'.at \in {"invoke", "idle"} /\ (call'.at = "invoke" => Who' = Who)
    BY <1>1, <1>3, GotoCall DEF Steps, Idle, Who
  <1>9. fresh = None /\ served = None /\ fresh' = None /\ served' = None
    BY <1>1, <1>2, <1>3 DEF ClientOK
  <1>10. HitOK'
    BY <1>2, <1>3, <1>7, <1>9, HitStays
  <1>11. PlacesOK'
    BY <1>2, <1>3, PlacesStay DEF allocator, arena
  <1>12. SettledOK'
    <2>1. ~model_is_allocating /\ temp = head
      BY <1>1, <1>2 DEF SettledOK, Allocating, Preparing, Planning
    <2> QED BY <1>2, <1>3, <1>8, <2>1
            DEF SettledOK, arena, allocator, At, Allocating, Preparing, Planning
  <1>13. AssignedOK'
    BY <1>8, NothingAssigned DEF Planning
  <1>14. PlacedOK'
    <2>1. \A i : ~BeingPlaced(i)
      BY <1>1 DEF BeingPlaced, Unplanned, Planning
    <2>2. \A i \in Interpreters : tensors_allocated'[i] => HasPlaces(i)
      BY <1>2, <1>3, <1>4, <2>1 DEF PlacedOK
    <2>3. DOMAIN tensors_allocated' = Interpreters
      BY <1>2, <1>3 DEF PlacedOK
    <2> QED BY <1>3, <1>8, <2>2, <2>3, NothingPlaced DEF Unplanned, Planning, Finishing
  <1>15. ClientOK'
    <2>1. DOMAIN tensors_allocated = Interpreters
      BY <1>2 DEF PlacedOK
    <2>2. tensors_allocated'[Who]
      BY <1>1, <1>3, <2>1
    <2> QED BY <1>8, <1>9, <2>2 DEF ClientOK, At
  <1>16. LiveOK'
    <2>1. fresh' # Who
      BY <1>1, <1>9, NoneAssumption
    <2> QED BY <1>8, <1>9, <2>1 DEF LiveOK, At
  <1> QED BY <1>10, <1>11, <1>12, <1>13, <1>14, <1>15, <1>16 DEF LiveInv

\* What an operator writes to.
OperatorWrites ==
    {EvalTempsSpan} \cup ScratchOf(Who, call.op)
      \cup {TensorSpan(Who, t) : t \in Outputs(Who, call.op)}

\* An operator that runs overwrites tensors of a plan only, and of its own model
\* none that is in use and not what it makes.
LEMMA OperatorHits ==
    ASSUME IInv, Running, PlacesOK, PlacedOK, SettledOK, ClientOK, At("invoke"), ~NoEvalTensors,
           NEW i \in Interpreters, NEW u, <<i, u>> \in Hit(OperatorWrites),
           ~(i = Who /\ u \in Outputs(Who, call.op))
    PROVE  u \in Needed(i) /\ ~(i = Who /\ InUse(model[Who], u, call.op - 1))
  <1>1. /\ Who \in Interpreters /\ model[Who] \in Models /\ M = model[Who]
        /\ call.op \in DOMAIN M.operators /\ HasPlaces(Who)
        /\ ~model_is_allocating /\ call.op - 1 \in Nat
        /\ \A t \in Inputs(Who, call.op) \cup Outputs(Who, call.op) :
              t \in Needed(Who) => InUse(model[Who], t, call.op - 1)
    BY InvokeFacts
  <1>2. /\ head = BufferHead + max_head_buffer_usage /\ head \in Nat /\ tail \in Nat
        /\ head <= tail
    BY <1>1, ArenaNumbers DEF IInv, HeadOK
  <1>3. /\ EvalTempsSpan.from \in Int /\ head <= EvalTempsSpan.from
        /\ EvalTempsSpan.to \in Int /\ EvalTempsSpan.to <= tail
    BY EvalTempsBetween
  <1>4. u \in InMemory(i) /\ \E s \in OperatorWrites : ~Disjoint(s, TensorSpan(i, u))
    <2>1. PICK j \in Interpreters : \E t \in InMemory(j) :
             <<i, u>> = <<j, t>> /\ \E s \in OperatorWrites : ~Disjoint(s, TensorSpan(j, t))
      BY HitMembers
    <2> QED BY <2>1
  <1>5. PICK s \in OperatorWrites : ~Disjoint(s, TensorSpan(i, u))
    BY <1>4
  <1>6. /\ TensorSpan(i, u).from \in Nat /\ TensorSpan(i, u).to \in Nat
        /\ u \in PlannedTensorsOf(i) \/ u \in VariablesOf(i)
        /\ u \in PlannedTensorsOf(i) =>
              /\ u \in Needed(i) /\ u \notin VariablesOf(i)
              /\ TensorSpan(i, u).to <= head
        /\ u \in VariablesOf(i) => tail <= TensorSpan(i, u).from
    BY <1>2, <1>4, SpansOfTensors
  <1>7. Outputs(Who, call.op) \subseteq InMemory(Who)
    <2>1. Outputs(Who, call.op) \subseteq Needed(Who) \cup VariableTensors(Who)
      BY <1>1, OperatorTensors
    <2>2. \A t \in VariableTensors(Who) : t < Len(model[Who].tensors) + 1
      <3>1. VariableTensors(Who) \subseteq 1 .. Len(M.tensors) /\ Len(M.tensors) \in Nat
        BY <1>1, ModelFacts DEF VariableTensors
      <3> QED BY <1>1, <3>1
    <2> QED BY <1>1, <2>1, <2>2 DEF HasPlaces, TensorsPlaced
  <1>8. CASE s = EvalTempsSpan
    <2>1. u \notin VariablesOf(i)
      BY <1>2, <1>3, <1>5, <1>6, <1>8 DEF Disjoint
    <2>2. u \notin PlannedTensorsOf(i)
      BY <1>2, <1>3, <1>5, <1>6, <1>8 DEF Disjoint
    <2> QED BY <1>6, <2>1, <2>2
  <1>9. CASE s \in ScratchOf(Who, call.op)
    <2>1. PICK x \in scratch[Who] : x.op = call.op /\ s = x.span
      BY <1>9 DEF ScratchOf
    <2>2. s.to \in Nat /\ s.to <= head
      BY <1>1, <1>2, <2>1 DEF PlacesOK
    <2>3. u \notin VariablesOf(i)
      BY <1>2, <1>5, <1>6, <2>2 DEF Disjoint
    <2>4. ~(i = Who /\ InUse(model[Who], u, call.op - 1))
      BY <1>1, <1>4, <1>5, <2>1, ScratchClear
    <2> QED BY <1>6, <2>3, <2>4
  <1>10. CASE \E t \in Outputs(Who, call.op) : s = TensorSpan(Who, t)
    <2>1. PICK t \in Outputs(Who, call.op) : s = TensorSpan(Who, t)
      BY <1>10
    <2>2. t \in InMemory(Who) /\ (i = Who => t # u)
      BY <1>7, <2>1
    <2>3. /\ TensorSpan(Who, t).to \in Nat
          /\ t \in PlannedTensorsOf(Who) \/ t \in VariablesOf(Who)
          /\ t \in PlannedTensorsOf(Who) => TensorSpan(Who, t).to <= head
      BY <1>1, <1>2, <2>2, SpansOfTensors
    <2>4. u \notin VariablesOf(i)
      <3>1. CASE t \in PlannedTensorsOf(Who)
        BY <1>2, <1>5, <1>6, <2>1, <2>3, <3>1 DEF Disjoint
      <3>2. CASE t \in VariablesOf(Who)
        BY <1>1, <1>5, <2>1, <2>2, <3>2 DEF PlacesOK
      <3> QED BY <2>3, <3>1, <3>2
    <2>5. ~(i = Who /\ InUse(model[Who], u, call.op - 1))
      <3> SUFFICES ASSUME i = Who, InUse(model[Who], u, call.op - 1) PROVE FALSE
        OBVIOUS
      <3>1. Disjoint(TensorSpan(Who, t), TensorSpan(Who, u))
        BY <1>1, <1>4, <2>1, <2>2, TensorsClear
      <3> QED BY <1>5, <2>1, <3>1
    <2> QED BY <1>6, <2>4, <2>5
  <1> QED BY <1>5, <1>8, <1>9, <1>10 DEF OperatorWrites

\* What is there behind an operator was there before or is what it made.
LEMMA StillThere ==
    ASSUME NEW i \in Interpreters, NEW op \in Nat, NEW t, t \notin Outputs(i, op),
           op <= Len(model[i].operators), op - 1 \in Nat,
           LastUsed(model[i], t) \in Int, op - 1 <= LastUsed(model[i], t), t \in Needed(i),
           t \in ToSet(model[i].inputs) \/ \E n \in MadeBy(model[i], t) : n \in Int /\ n < op
    PROVE  IsThere(i, t, op - 1)
  <1>1. ASSUME NEW n \in MadeBy(model[i], t), n \in Int, n < op PROVE n < op - 1
    <2>1. n # op - 1
      <3> SUFFICES ASSUME n = op - 1 PROVE FALSE
        OBVIOUS
      <3>1. n + 1 = op
        OBVIOUS
      <3>2. t \in ToSet(model[i].operators[op].outputs)
        BY <3>1 DEF MadeBy
      <3> QED BY <3>2 DEF Outputs
    <2> QED BY <1>1, <2>1
  <1> QED BY <1>1 DEF IsThere

\* An operator leaves alone what is still there behind it.
LEMMA ThereStaysClear ==
    ASSUME IInv, LiveInv, Running, At("invoke"), ~NoEvalTensors, fresh = Who,
           clobbered' = (clobbered \cup Hit(OperatorWrites))
                           \ {<<Who, t>> : t \in Outputs(Who, call.op)},
           NEW t \in Needed(Who),
           IsThere(Who, t, call.op - 1) \/ t \in Outputs(Who, call.op)
    PROVE  <<Who, t>> \notin clobbered'
  <1>1. PlacesOK /\ SettledOK /\ PlacedOK /\ ClientOK /\ LiveOK
    BY DEF LiveInv
  <1>2. Who \in Interpreters /\ model[Who] \in Models /\ call.op - 1 \in Nat
    BY <1>1, InvokeFacts
  <1>3. CASE t \in Outputs(Who, call.op)
    BY <1>3
  <1>4. CASE t \notin Outputs(Who, call.op) /\ IsThere(Who, t, call.op - 1)
    <2>1. <<Who, t>> \notin clobbered
      BY <1>1, <1>4 DEF LiveOK
    <2>2. InUse(model[Who], t, call.op - 1)
      BY <1>2, <1>4, ThereInUse
    <2>3. <<Who, t>> \notin Hit(OperatorWrites)
      BY <1>1, <1>2, <1>4, <2>2, OperatorHits
    <2> QED BY <2>1, <2>3
  <1> QED BY <1>3, <1>4

\* An operator finds what it reads and leaves what is read later alone.
LEMMA InvokeLive == IInv /\ LiveInv /\ Running /\ InvokeOperator => LiveInv'
  <1> SUFFICES ASSUME IInv, LiveInv, Running, InvokeOperator, ~Stop PROVE LiveInv'
    BY StopEnds
  <1> DEFINE outputs == {<<Who, t>> : t \in Outputs(Who, call.op)}
             spans == {EvalTempsSpan} \cup ScratchOf(Who, call.op)
                        \cup {TensorSpan(w[1], w[2]) : w \in outputs}
  <1>1. call.at = "invoke" /\ call \in Calls
    BY CallInProgress DEF IInv, InvokeOperator, At, Steps
  <1>2. HitOK /\ PlacesOK /\ SettledOK /\ PlacedOK /\ ClientOK /\ LiveOK
    BY DEF LiveInv, Running
  <1>3. /\ Who \in Interpreters /\ model[Who] \in Models /\ M = model[Who]
        /\ call.op \in DOMAIN M.operators /\ ~model_is_allocating /\ call.op - 1 \in Nat
    BY <1>1, <1>2, InvokeFacts DEF At
  <1>4. /\ ~NoEvalTensors /\ ResetTempAllocations
        /\ clobbered' = (clobbered \cup Hit(spans)) \ outputs
        /\ IF call.op < Len(M.operators)
           THEN call' = [call EXCEPT !.op = @ + 1] /\ UNCHANGED <<fresh, served>>
           ELSE /\ call' = Idle
                /\ fresh' = None
                /\ served' = IF fresh = Who THEN Who ELSE None
        /\ Keep
    BY DEF InvokeOperator
  <1>5. spans = OperatorWrites
    <2> DEFINE these == {TensorSpan(w[1], w[2]) : w \in outputs}
               those == {TensorSpan(Who, t) : t \in Outputs(Who, call.op)}
    <2>1. ASSUME NEW x \in these PROVE x \in those
      <3>1. PICK w \in outputs : x = TensorSpan(w[1], w[2])
        OBVIOUS
      <3>2. PICK t \in Outputs(Who, call.op) : w = <<Who, t>>
        OBVIOUS
      <3>3. x = TensorSpan(Who, t)
        BY <3>1, <3>2
      <3> QED BY <3>3
    <2>2. ASSUME NEW x \in those PROVE x \in these
      <3>1. PICK t \in Outputs(Who, call.op) : x = TensorSpan(Who, t)
        OBVIOUS
      <3> DEFINE w == <<Who, t>>
      <3>2. w \in outputs /\ w[1] = Who /\ w[2] = t
        OBVIOUS
      <3> HIDE DEF w, outputs
      <3>3. x = TensorSpan(w[1], w[2])
        BY <3>1, <3>2
      <3> QED BY <3>2, <3>3
    <2>3. these = those
      BY <2>1, <2>2
    <2> QED BY <2>3 DEF OperatorWrites
  <1>6. clobbered' = (clobbered \cup Hit(OperatorWrites)) \ outputs
    BY <1>4, <1>5
  <1> HIDE DEF spans
  <1>7. ASSUME NEW w \in Hit(OperatorWrites), w \notin outputs
        PROVE  \E i \in Interpreters : \E t \in Needed(i) : w = <<i, t>>
    <2>1. PICK i \in Interpreters : \E u \in InMemory(i) : w = <<i, u>>
      BY HitMembers
    <2>2. PICK u \in InMemory(i) : w = <<i, u>>
      BY <2>1
    <2>3. ~(i = Who /\ u \in Outputs(Who, call.op))
      BY <1>7, <2>2
    <2>4. u \in Needed(i)
      BY <1>1, <1>2, <1>4, <2>2, <2>3, <1>7, OperatorHits DEF At
    <2> QED BY <2>2, <2>4
  <1>8. UNCHANGED <<model, data, scratch, max_head_buffer_usage, failed, tensors_allocated,
                    model_is_allocating>>
    BY <1>4 DEF Keep, allocator, interpreters
  <1>9. temp' = head' /\ UNCHANGED <<tail, head, persistent>>
    BY <1>4 DEF ResetTempAllocations
  <1>10. PlacesOK'
    BY <1>2, <1>8, <1>9, PlacesStay
  <1>11. call'.at \in {"invoke", "idle"}
    BY <1>1, <1>4, NextOpCall DEF Idle
  <1>12. SettledOK'
    BY <1>2, <1>3, <1>8, <1>9, <1>11 DEF SettledOK, At, Allocating, Preparing, Planning
  <1>13. AssignedOK'
    BY <1>11, NothingAssigned DEF Planning
  <1>14. PlacedOK'
    <2>1. \A i : ~BeingPlaced(i)
      BY <1>1 DEF BeingPlaced, Unplanned, Planning
    <2>2. \A i \in Interpreters : tensors_allocated'[i] => HasPlaces(i)
      BY <1>2, <1>8, <2>1 DEF PlacedOK
    <2>3. DOMAIN tensors_allocated' = Interpreters
      BY <1>2, <1>8 DEF PlacedOK
    <2> QED BY <1>8, <1>11, <2>2, <2>3, NothingPlaced DEF Unplanned, Planning, Finishing
  <1>15. ASSUME fresh = Who, NEW t \in Needed(Who),
                IsThere(Who, t, call.op - 1) \/ t \in Outputs(Who, call.op)
         PROVE  <<Who, t>> \notin clobbered'
    BY <1>1, <1>4, <1>6, <1>15, ThereStaysClear DEF At
  <1>16. \A i : Needed(i)' = Needed(i)
    BY <1>8 DEF Needed
  <1>17. \A w \in clobbered' :
            w \in clobbered \/ \E i \in Interpreters : \E t \in Needed(i) : w = <<i, t>>
    BY <1>6, <1>7
  <1>18. call.op \in Nat /\ call.op <= Len(M.operators) /\ Len(M.operators) \in Nat
    BY <1>3, ModelFacts
  <1>19. CASE call.op < Len(M.operators)
    <2>1. call'.at = "invoke" /\ call'.who = call.who /\ call'.op = call.op + 1 /\ Who' = Who
      BY <1>1, <1>4, <1>19, NextOpCall DEF Who
    <2>2. UNCHANGED <<fresh, served>> /\ served = None
      BY <1>1, <1>2, <1>4, <1>19 DEF ClientOK, At
    <2>3. HitOK'
      BY <1>2, <1>8, <1>17, <2>2, HitStays
    <2>4. ClientOK'
      BY <1>1, <1>2, <1>8, <2>1, <2>2 DEF ClientOK, At
    <2>5. ASSUME fresh = Who, NEW t \in Needed(Who), IsThere(Who, t, call.op)
          PROVE  <<Who, t>> \notin clobbered'
      <3>1. /\ LastUsed(model[Who], t) \in Int
            /\ \A n \in MadeBy(model[Who], t) : n \in Nat
        BY <1>3, LifetimeCovers
      <3>2. /\ call.op <= LastUsed(model[Who], t)
            /\ t \in ToSet(model[Who].inputs) \/ \E n \in MadeBy(model[Who], t) : n < call.op
        BY <2>5 DEF IsThere
      <3>3. call.op - 1 <= LastUsed(model[Who], t)
        BY <1>18, <3>1, <3>2
      <3>4. t \notin Outputs(Who, call.op) => IsThere(Who, t, call.op - 1)
        BY <1>3, <1>18, <3>1, <3>2, <3>3, StillThere
      <3> QED BY <1>15, <2>5, <3>4
    <2>6. \A i, t, n : IsThere(i, t, n)' <=> IsThere(i, t, n)
      BY <1>8, <1>16 DEF IsThere
    <2>7. LiveOK'
      <3>1. call'.op - 1 = call.op
        BY <1>18, <2>1
      <3>2. \A i, n : i = Who /\ n = call.op /\ fresh = i =>
              \A t \in Needed(i)' : IsThere(i, t, n)' => <<i, t>> \notin clobbered'
        BY <1>16, <2>5, <2>6
      <3>3. \A n : n = call'.op - 1 /\ fresh' = Who' =>
              \A t \in Needed(Who)' : IsThere(Who, t, n)' => <<Who, t>>' \notin clobbered'
        BY <2>1, <2>2, <3>1, <3>2
      <3> QED BY <2>1, <3>3 DEF LiveOK, At
    <2> QED BY <1>10, <1>12, <1>13, <1>14, <2>3, <2>4, <2>7 DEF LiveInv
  <1>20. CASE ~(call.op < Len(M.operators))
    <2>1. call' = Idle /\ fresh' = None /\ served' = IF fresh = Who THEN Who ELSE None
      BY <1>4, <1>20
    <2>2. call'.at = "idle"
      BY <2>1 DEF Idle
    <2>3. call.op = Len(M.operators) /\ LastTime(M) = call.op - 1
      BY <1>18, <1>20 DEF LastTime
    <2>4. ASSUME served' # None, NEW t \in ToSet(model[Who].outputs)
          PROVE  served' = Who /\ fresh = Who /\ <<Who, t>> \notin clobbered'
      <3>1. served' = Who /\ fresh = Who
        BY <2>1, <2>4
      <3>2. CASE t \notin Needed(Who)
        <4>1. <<Who, t>> \notin clobbered
          BY <1>2, <3>2 DEF HitOK
        <4>2. \A w \in clobbered' : \E i \in Interpreters : \E u \in Needed(i) : w = <<i, u>>
          BY <1>2, <1>17 DEF HitOK
        <4> QED BY <3>1, <3>2, <4>2
      <3>3. CASE t \in Needed(Who)
        <4>1. /\ LastUsed(model[Who], t) \in Int /\ call.op - 1 <= LastUsed(model[Who], t)
              /\ \A n \in MadeBy(model[Who], t) : n \in Nat
          BY <1>3, <2>3, <2>4, LifetimeCovers
        <4>2. t \in ToSet(model[Who].inputs) \/ MadeBy(model[Who], t) # {}
          BY <1>3, <2>4, <3>3, LifetimesAssumption DEF InExecutionOrder, Needed
        <4>3. \A n \in MadeBy(model[Who], t) : n < call.op
          <5>1. \A n \in MadeBy(model[Who], t) : n <= LastTime(M) /\ n \in Nat
            BY <1>3, <1>18, <4>1 DEF MadeBy, LastTime
          <5> QED BY <1>18, <2>3, <5>1
        <4>4. t \notin Outputs(Who, call.op) => IsThere(Who, t, call.op - 1)
          BY <1>3, <1>18, <3>3, <4>1, <4>2, <4>3, StillThere
        <4> QED BY <1>15, <3>1, <3>3, <4>4
      <3> QED BY <3>1, <3>2, <3>3
    <2>5. HitOK'
      <3>1. \A w \in clobbered' : \E i \in Interpreters : \E t \in Needed(i)' : w = <<i, t>>
        BY <1>2, <1>16, <1>17 DEF HitOK
      <3>2. served' # None =>
              \A t \in ToSet(model'[served'].outputs) : <<served', t>> \notin clobbered'
        BY <1>8, <2>1, <2>4
      <3> QED BY <3>1, <3>2 DEF HitOK
    <2>6. ClientOK'
      BY <1>3, <2>1, <2>2 DEF ClientOK, At
    <2>7. LiveOK'
      BY <2>1, <2>2 DEF LiveOK, At
    <2> QED BY <1>10, <1>12, <1>13, <1>14, <2>5, <2>6, <2>7 DEF LiveInv
  <1> QED BY <1>19, <1>20

\* MicroAllocator::Create comes before everything.
LEMMA CreateLive == IInv /\ LiveInv /\ Running /\ CreateMicroAllocator => LiveInv'
  <1> SUFFICES ASSUME IInv, LiveInv, Running, CreateMicroAllocator, ~Stop PROVE LiveInv'
    BY StopEnds
  <1>1. call.at = "create"
    BY DEF CreateMicroAllocator, At
  <1>2. HitOK /\ PlacesOK /\ SettledOK /\ PlacedOK /\ ClientOK
    BY DEF LiveInv, Running
  <1>3. /\ AllocateFromTail(MicroAllocatorSize, kStructAlignment) /\ Writes(NewSpans)
        /\ call' = Idle /\ Keep
    BY DEF CreateMicroAllocator, FromTail
  <1>4. MicroAllocatorSize \in Sizes
    BY AllocatorAssumption
  <1>5. NewHits /\ tail' % kStructAlignment = 0
    BY <1>2, <1>3, <1>4, TailHits DEF SettledOK
  <1>6. UNCHANGED <<model, data, scratch, max_head_buffer_usage, failed, tensors_allocated,
                    model_is_allocating>>
    BY <1>3 DEF Keep, allocator, interpreters
  <1>7. call'.at = "idle"
    BY <1>3 DEF Idle
  <1>8. fresh = None /\ served = None /\ fresh' = None /\ served' = None
    BY <1>1, <1>2, <1>5 DEF ClientOK, NewHits
  <1>9. HitOK'
    BY <1>2, <1>5, <1>6, <1>8, HitStays DEF NewHits
  <1>10. PlacesOK'
    BY <1>2, <1>5, <1>6, PlacesStay DEF NewHits
  <1>11. SettledOK'
    <2>1. ~model_is_allocating /\ temp = head
      BY <1>1, <1>2 DEF SettledOK, Allocating, Preparing, Planning
    <2>2. temp' = head'
      BY <1>3, <2>1 DEF AllocateFromTail
    <2> QED BY <1>5, <1>6, <2>1, <2>2 DEF SettledOK
  <1>12. AssignedOK'
    BY <1>7, NothingAssigned DEF Planning
  <1>13. PlacedOK'
    <2>1. \A i : ~BeingPlaced(i)
      BY <1>1 DEF BeingPlaced, Unplanned, Planning
    <2>2. \A i \in Interpreters : tensors_allocated'[i] => HasPlaces(i)
      BY <1>2, <1>6, <2>1 DEF PlacedOK
    <2>3. DOMAIN tensors_allocated' = Interpreters
      BY <1>2, <1>6 DEF PlacedOK
    <2> QED BY <1>6, <1>7, <2>2, <2>3, NothingPlaced DEF Unplanned, Planning, Finishing
  <1>14. ClientOK' /\ LiveOK'
    BY <1>7, <1>8 DEF ClientOK, LiveOK, At
  <1> QED BY <1>9, <1>10, <1>11, <1>12, <1>13, <1>14 DEF LiveInv

\* The program starts with nothing placed and nothing overwritten.
LEMMA InitLiveInv == Init => LiveInv
  <1> SUFFICES ASSUME Init PROVE LiveInv
    OBVIOUS
  <1>1. /\ Create(kStructAlignment)
        /\ model_is_allocating = FALSE /\ call.at = "create"
        /\ tensors_allocated = [i \in Interpreters |-> FALSE]
        /\ data = [i \in Interpreters |-> <<>>]
        /\ scratch = [i \in Interpreters |-> {}]
        /\ clobbered = {} /\ fresh = None /\ served = None
    BY DEF Init
  <1>2. HitOK
    BY <1>1 DEF HitOK
  <1>3. \A i \in Interpreters : DOMAIN data[i] = {} /\ InMemory(i) = {}
    <2>1. \A i \in Interpreters : data[i] = <<>>
      BY <1>1
    <2>2. DOMAIN <<>> = {}
      OBVIOUS
    <2> QED BY <2>1, <2>2 DEF InMemory
  <1>4. PlacesOK
    <2>1. \A i \in Interpreters : PlannedTensorsOf(i) = {} /\ VariablesOf(i) = {}
      BY <1>3 DEF PlannedTensorsOf, VariablesOf
    <2>2. DOMAIN scratch = Interpreters /\ \A i \in Interpreters : scratch[i] = {}
      BY <1>1
    <2> QED BY <1>3, <2>1, <2>2 DEF PlacesOK
  <1>5. SettledOK
    <2>1. temp = head /\ tail = AlignDown(buffer_tail - ObjectSize, kStructAlignment)
      BY <1>1 DEF Create
    <2>2. tail % kStructAlignment = 0
      <3> DEFINE s == kStructAlignment
                 x == buffer_tail - ObjectSize
                 d == x \div s
      <3>1. s \in Nat \ {0}
        BY AllocatorNumbers
      <3>2. x \in Int
        BY <1>1, ArenaAssumption DEF Create
      <3> HIDE DEF x
      <3>3. d \in Int
        BY <3>1, <3>2, DivMod
      <3>4. tail = d * s
        BY <2>1 DEF AlignDown, x
      <3> HIDE DEF d, s
      <3>5. d * s = s * d + 0 /\ d * s \in Int /\ 0 \in 0 .. s - 1
        BY <3>1, <3>3
      <3>6. (d * s) % s = 0
        BY <3>1, <3>3, <3>5, ModUnique
      <3> QED BY <3>4, <3>6 DEF s
    <2> QED BY <1>1, <2>1, <2>2 DEF SettledOK
  <1>6. AssignedOK /\ PlacedOK /\ ClientOK /\ LiveOK
    BY <1>1 DEF AssignedOK, PlacedOK, ClientOK, LiveOK, At, Planning, Finishing
  <1> QED BY <1>2, <1>4, <1>5, <1>6 DEF LiveInv

\* What is known between the calls of the client.
LEMMA AtIdle ==
    ASSUME LiveInv, Running, At("idle")
    PROVE  /\ HitOK /\ PlacesOK /\ SettledOK /\ PlacedOK /\ ClientOK /\ LiveOK
           /\ ~model_is_allocating
           /\ \A i \in Interpreters : tensors_allocated[i] => HasPlaces(i)
           /\ DOMAIN tensors_allocated = Interpreters
  <1>1. HitOK /\ PlacesOK /\ SettledOK /\ PlacedOK /\ ClientOK /\ LiveOK
    BY DEF LiveInv, Running
  <1>2. ~model_is_allocating
    BY <1>1 DEF SettledOK, At, Allocating, Preparing, Planning
  <1>3. \A i : ~BeingPlaced(i)
    BY DEF BeingPlaced, At, Unplanned, Planning
  <1> QED BY <1>1, <1>2, <1>3 DEF PlacedOK

\* A call of the client, which leaves the memory of the interpreters alone.
LEMMA ClientBegins ==
    ASSUME LiveInv, Running, At("idle"), call'.at \in {"idle", "start", "invoke"},
           UNCHANGED <<arena, allocator, interpreters>>, HitOK', ClientOK', LiveOK'
    PROVE  LiveInv'
  <1>1. /\ PlacesOK /\ SettledOK /\ ~model_is_allocating
        /\ \A i \in Interpreters : tensors_allocated[i] => HasPlaces(i)
        /\ DOMAIN tensors_allocated = Interpreters
    BY AtIdle
  <1>2. PlacesOK'
    BY <1>1, PlacesStay DEF arena, allocator, interpreters
  <1>3. SettledOK'
    <2>1. temp = head
      BY <1>1 DEF SettledOK, At, Allocating, Preparing, Planning
    <2> QED BY <1>1, <2>1 DEF SettledOK, arena, allocator
  <1>4. AssignedOK'
    BY NothingAssigned DEF Planning
  <1>5. PlacedOK'
    <2>1. call'.at \notin Unplanned \cup Finishing \cup {"plan_head", "variables"}
      BY DEF Unplanned, Planning, Finishing
    <2> QED BY <1>1, <2>1, NothingPlaced DEF interpreters
  <1> QED BY <1>2, <1>3, <1>4, <1>5 DEF LiveInv

\* A client that allocates gives up inputs and outputs.
LEMMA AllocateTensorsLive ==
    ASSUME LiveInv, Running, NEW i \in Interpreters, AllocateTensors(i)
    PROVE  LiveInv'
  <1>1. HitOK /\ At("idle")
    BY AtIdle DEF AllocateTensors
  <1>2. /\ call'.at = "start" /\ fresh' = None /\ served' = None
        /\ UNCHANGED <<arena, allocator, interpreters, clobbered>>
    BY DEF AllocateTensors
  <1>3. HitOK'
    BY <1>1, <1>2, HitStays DEF interpreters
  <1>4. ClientOK' /\ LiveOK'
    BY <1>2 DEF ClientOK, LiveOK, At
  <1> QED BY <1>1, <1>2, <1>3, <1>4, ClientBegins

\* What was put in is there when the first operator runs.
LEMMA InvokeCallLive ==
    ASSUME IInv, LiveInv, Running, NEW i \in Interpreters, Invoke(i)
    PROVE  LiveInv'
  <1>1. HitOK /\ ClientOK /\ LiveOK /\ At("idle")
    BY AtIdle DEF Invoke
  <1>2. /\ call' = [at |-> IF tensors_allocated[i] THEN "invoke" ELSE "start",
                    who |-> i, op |-> 1, k |-> 1, invoking |-> TRUE]
        /\ fresh' = IF fresh = i THEN i ELSE None
        /\ served' = None
        /\ UNCHANGED <<arena, allocator, interpreters, clobbered>>
    BY DEF Invoke
  <1>3. /\ call'.at = IF tensors_allocated[i] THEN "invoke" ELSE "start"
        /\ call'.who = i /\ call'.op = 1 /\ call'.at \in {"start", "invoke"}
        /\ call'.at = "invoke" <=> tensors_allocated[i]
    BY <1>2
  <1>4. i # None
    BY NoneAssumption
  <1>5. UNCHANGED <<model, tensors_allocated>>
    BY <1>2 DEF interpreters
  <1>6. HitOK'
    BY <1>1, <1>2, <1>5, HitStays
  <1>7. fresh' # None => fresh' = i /\ fresh = i /\ tensors_allocated[i]
    BY <1>1, <1>2, <1>4 DEF ClientOK
  <1>8. ClientOK'
    BY <1>2, <1>3, <1>4, <1>5, <1>7 DEF ClientOK, At, Who
  <1>9. ASSUME fresh = i, NEW t \in Needed(i), IsThere(i, t, 0)
        PROVE  <<i, t>> \notin clobbered
    <2>1. \A n \in MadeBy(model[i], t) : n \in Nat
      BY LifetimeCovers DEF IInv, ControlOK
    <2>2. t \in ToSet(model[i].inputs)
      BY <1>9, <2>1 DEF IsThere
    <2> QED BY <1>1, <1>4, <1>9, <2>2 DEF LiveOK, At
  <1>10. LiveOK'
    <2>1. \A j, t, n : IsThere(j, t, n)' <=> IsThere(j, t, n)
      BY <1>5 DEF IsThere, Needed
    <2>2. \A j : Needed(j)' = Needed(j)
      BY <1>5 DEF Needed
    <2>3. call'.op - 1 = 0
      BY <1>3
    <2>4. \A n : n = call'.op - 1 /\ fresh' = Who' =>
            \A t \in Needed(i)' : IsThere(i, t, n)' => <<i, t>> \notin clobbered'
      BY <1>2, <1>3, <1>4, <1>7, <1>9, <2>1, <2>2, <2>3 DEF Who
    <2>5. Who' = i
      BY <1>3 DEF Who
    <2>6. \A j, n : j = Who' /\ n = call'.op - 1 /\ fresh' = j =>
            \A t \in Needed(j)' : IsThere(j, t, n)' => <<j, t>> \notin clobbered'
      BY <2>4, <2>5
    <2>7. \A n : n = call'.op - 1 /\ fresh' = Who' =>
              \A t \in Needed(Who)' : IsThere(Who, t, n)' => <<Who, t>>' \notin clobbered'
      BY <2>6
    <2> QED BY <1>3, <2>7 DEF LiveOK, At
  <1> QED BY <1>1, <1>2, <1>3, <1>6, <1>8, <1>10, ClientBegins

\* The client writes to the inputs only: other tensors that it hits are those of
\* a plan.
LEMMA SetInputsLive ==
    ASSUME IInv, LiveInv, Running, NEW i \in Interpreters, SetInputs(i)
    PROVE  LiveInv'
  <1> DEFINE inputs == {<<i, t>> : t \in ToSet(model[i].inputs) \cap InMemory(i)}
             spans == {TensorSpan(w[1], w[2]) : w \in inputs}
  <1>1. /\ HitOK /\ PlacesOK /\ ClientOK /\ LiveOK /\ At("idle") /\ ~model_is_allocating
        /\ HasPlaces(i)
    BY AtIdle DEF SetInputs
  <1>2. /\ tensors_allocated[i]
        /\ clobbered' = (clobbered \cup Hit(spans)) \ inputs
        /\ fresh' = i /\ served' = None
        /\ UNCHANGED <<arena, allocator, interpreters, call>>
    BY DEF SetInputs
  <1>3. UNCHANGED <<model, tensors_allocated>>
    BY <1>2 DEF interpreters
  <1>4. \A s \in spans : \E t \in InMemory(i) : <<i, t>> \in inputs /\ s = TensorSpan(i, t)
    OBVIOUS
  <1>5. /\ head = BufferHead + max_head_buffer_usage /\ head \in Nat /\ tail \in Nat
        /\ head <= tail
    BY <1>1, ArenaNumbers DEF IInv, HeadOK
  <1> HIDE DEF spans
  <1>6. ASSUME NEW w \in Hit(spans), w \notin inputs
        PROVE  \E j \in Interpreters : \E u \in Needed(j) : w = <<j, u>>
    <2>1. PICK j \in Interpreters :
             \E u \in InMemory(j) : w = <<j, u>> /\ \E s \in spans : ~Disjoint(s, TensorSpan(j, u))
      BY HitMembers
    <2>2. PICK u \in InMemory(j) : w = <<j, u>> /\ \E s \in spans : ~Disjoint(s, TensorSpan(j, u))
      BY <2>1
    <2>3. PICK t \in InMemory(i) : <<i, t>> \in inputs /\ ~Disjoint(TensorSpan(i, t), TensorSpan(j, u))
      BY <1>4, <2>2
    <2>4. u \notin VariablesOf(j)
      <3> SUFFICES ASSUME u \in VariablesOf(j) PROVE FALSE
        OBVIOUS
      <3>1. tail <= TensorSpan(j, u).from /\ TensorSpan(j, u).from \in Nat
        BY <1>1, SpansOfTensors
      <3>2. CASE t \in PlannedTensorsOf(i)
        <4>1. TensorSpan(i, t).to <= head /\ TensorSpan(i, t).to \in Nat
          BY <1>1, <1>5, <3>2, SpansOfTensors
        <4> QED BY <1>5, <2>3, <3>1, <4>1 DEF Disjoint
      <3>3. CASE t \in VariablesOf(i)
        <4>1. i = j /\ t = u
          BY <1>1, <2>3, <3>3 DEF PlacesOK
        <4> QED BY <1>6, <2>2, <2>3, <4>1
      <3> QED BY <1>1, <3>2, <3>3, SpansOfTensors
    <2>5. u \in Needed(j)
      BY <1>1, <2>2, <2>4, SpansOfTensors
    <2> QED BY <2>2, <2>5
  <1>7. HitOK'
    <2>1. \A w \in clobbered' :
             w \in clobbered \/ \E j \in Interpreters : \E u \in Needed(j) : w = <<j, u>>
      BY <1>2, <1>6
    <2> QED BY <1>1, <1>2, <1>3, <2>1, HitStays
  <1>8. ClientOK'
    BY <1>1, <1>2, <1>3 DEF ClientOK, At
  <1>9. ASSUME NEW t \in ToSet(model[i].inputs) PROVE <<i, t>> \notin clobbered'
    <2>1. CASE t \in InMemory(i)
      BY <1>2, <2>1
    <2>2. CASE t \notin InMemory(i)
      <3>1. t \notin Needed(i)
        BY <1>1, <2>2 DEF HasPlaces, TensorsPlaced
      <3>2. <<i, t>> \notin clobbered
        BY <1>1, <3>1 DEF HitOK
      <3>3. <<i, t>> \notin Hit(spans)
        BY <2>2, HitMembers
      <3> QED BY <1>2, <3>2, <3>3
    <2> QED BY <2>1, <2>2
  <1>10. LiveOK'
    BY <1>1, <1>2, <1>3, <1>9 DEF LiveOK, At
  <1>11. call'.at = "idle"
    BY <1>1, <1>2 DEF At
  <1> QED BY <1>1, <1>2, <1>7, <1>8, <1>10, <1>11, ClientBegins

\* tensor() writes to no tensor.
LEMMA TensorCallLive ==
    ASSUME LiveInv, Running, NEW i \in Interpreters, Tensor(i)
    PROVE  LiveInv'
  <1>1. SettledOK /\ call.at = "idle"
    BY AtIdle DEF Tensor, At
  <1>2. call'.at = "tensor" /\ UNCHANGED <<arena, memory>> /\ Keep
    BY DEF Tensor
  <1>3. tail' % kStructAlignment = 0
    BY <1>1, <1>2 DEF SettledOK, arena
  <1> QED BY <1>1, <1>2, <1>3, ClientStep DEF Keep, arena, allocator, interpreters

\* Once a call has failed nothing is promised any more.
LEMMA FailedStays == failed /\ [Next]_vars => failed'
  <1> SUFFICES ASSUME failed, [Next]_vars PROVE failed'
    OBVIOUS
  <1>1. ReturnError => failed'
    BY DEF ReturnError
  <1>2. Keep \/ Stop \/ ReturnStartError => failed'
    BY DEF Keep, Stop, ReturnStartError
  <1>3. CASE Proceed
    <2>1. CreateMicroAllocator \/ Start \/ AllocateEvalTensors \/ AllocateNodeAndRegistrations
            => failed'
      BY <1>2 DEF CreateMicroAllocator, Start, AllocateEvalTensors,
                  AllocateNodeAndRegistrations, FromTail, SetHead
    <2>2. PrepareNodeData \/ InitOperator \/ NoUserData => failed'
      BY <1>2 DEF PrepareNodeData, InitOperator, NoUserData, FromTail
    <2>3. PrepareOperator => failed'
      BY <1>1, <1>2 DEF PrepareOperator, WriteRequest, FromTail, FromTemp
    <2>4. FinishPrepare \/ AdjustHead \/ AllocateScratchBufferHandles => failed'
      BY <1>1 DEF FinishPrepare, AdjustHead, AllocateScratchBufferHandles
    <2>5. AllocateInfo \/ CreatePlan => failed'
      BY <1>1, <1>2 DEF AllocateInfo, CreatePlan, FromTemp
    <2>6. CommitPlan => failed'
      BY <1>1 DEF CommitPlan
    <2>7. SetPlanHead \/ AllocateVariables => failed'
      BY <1>1, <1>2 DEF SetPlanHead, AllocateVariables, SetHead, FromTail
    <2>8. AllocateInputs \/ AllocateOutputs \/ AllocateTensor => failed'
      BY <1>1, <1>2 DEF AllocateInputs, AllocateOutputs, AllocateTensor, AllocateTensorArray,
                        AllocateTensorStructs, FromTail
    <2>9. ResetVariableTensors \/ InvokeOperator => failed'
      BY <1>2 DEF ResetVariableTensors, InvokeOperator
    <2> QED BY <1>3, <2>1, <2>2, <2>3, <2>4, <2>5, <2>6, <2>7, <2>8, <2>9 DEF Proceed
  <1>4. ASSUME NEW i \in Interpreters, AllocateTensors(i) \/ Invoke(i) \/ SetInputs(i) \/ Tensor(i)
        PROVE  failed'
    BY <1>2, <1>4 DEF AllocateTensors, Invoke, SetInputs, Tensor
  <1>5. CASE Done \/ UNCHANGED vars
    BY <1>5 DEF Done, vars
  <1> QED BY <1>3, <1>4, <1>5 DEF Next

\* A program that has halted does not go on.
LEMMA ProceedRuns == Proceed => ~At("stopped")
  <1>1. CreateMicroAllocator \/ Start \/ AllocateEvalTensors \/ AllocateNodeAndRegistrations
           \/ PrepareNodeData \/ InitOperator \/ NoUserData \/ PrepareOperator \/ FinishPrepare
        => ~At("stopped")
    BY DEF CreateMicroAllocator, Start, AllocateEvalTensors, AllocateNodeAndRegistrations,
           PrepareNodeData, InitOperator, NoUserData, PrepareOperator, FinishPrepare, At
  <1>2. AdjustHead \/ AllocateScratchBufferHandles \/ AllocateInfo \/ CreatePlan \/ CommitPlan
           \/ SetPlanHead \/ AllocateVariables => ~At("stopped")
    BY DEF AdjustHead, AllocateScratchBufferHandles, AllocateInfo, CreatePlan, CommitPlan,
           SetPlanHead, AllocateVariables, At
  <1>3. AllocateInputs \/ AllocateOutputs \/ AllocateTensor \/ ResetVariableTensors
           \/ InvokeOperator => ~At("stopped")
    BY DEF AllocateInputs, AllocateOutputs, AllocateTensor, AllocateTensorArray,
           AllocateTensorStructs, ResetVariableTensors, InvokeOperator, At
  <1> QED BY <1>1, <1>2, <1>3 DEF Proceed

\* Nothing changes in a step that changes nothing.
LEMMA StutterLive == LiveInv /\ ~failed /\ UNCHANGED vars => LiveInv'
  <1> SUFFICES ASSUME LiveInv, ~failed, UNCHANGED vars PROVE LiveInv'
    OBVIOUS
  <1>1. /\ UNCHANGED <<call, clobbered, fresh, served, failed>>
        /\ UNCHANGED <<model, tensors_allocated, data, scratch>>
        /\ UNCHANGED <<model_is_allocating, requests, max_head_buffer_usage>>
        /\ UNCHANGED <<head, tail, temp, persistent>>
    BY DEF vars, interpreters, allocator, arena, memory
  <1>2. HitOK'
    <2>1. HitOK
      BY DEF LiveInv
    <2> QED BY <1>1, <2>1, HitStays
  <1>3. CASE ~Running
    BY <1>1, <1>2, <1>3 DEF LiveInv, Running, At
  <1>4. CASE Running
    <2>1. PlacesOK /\ SettledOK /\ AssignedOK /\ PlacedOK /\ ClientOK /\ LiveOK
      BY <1>4 DEF LiveInv
    <2>2. PlacesOK'
      BY <1>1, <2>1, PlacesStay
    <2>3. SettledOK'
      BY <1>1, <2>1 DEF SettledOK, At
    <2>4. AssignedOK'
      <3>1. \A j : IsUnassigned(j)' <=> IsUnassigned(j)
        BY <1>1 DEF IsUnassigned
      <3> QED BY <1>1, <2>1, <3>1 DEF AssignedOK, At
    <2>5. PlacedOK'
      <3>1. /\ \A i, n : TensorsPlaced(i, n)' <=> TensorsPlaced(i, n)
            /\ \A i : HasPlaces(i)' <=> HasPlaces(i)
        BY <1>1, HasPlacesStays
      <3>2. \A i : BeingPlaced(i)' <=> BeingPlaced(i)
        BY <1>1 DEF BeingPlaced, Who
      <3>3. \A i : Needed(i)' = Needed(i)
        BY <1>1 DEF Needed
      <3>4. \A i, n : i = Who' /\ n = call'.op => (TensorsPlaced(i, n)' <=> TensorsPlaced(i, n))
        BY <3>1
      <3>5. Who' = Who /\ M' = M /\ call'.op = call.op /\ call'.at = call.at
        BY <1>1 DEF Who, M
      <3>6. At("commit")' => \A t \in Needed(Who)' : LastUsed(M, t)' # -1
        BY <2>1, <3>3, <3>5 DEF PlacedOK, At
      <3>7. At("plan_head")' => TensorsPlaced(Who, 0)'
        BY <2>1, <3>1, <3>5 DEF PlacedOK, At
      <3>8. At("variables")' => TensorsPlaced(Who, call.op)'
        BY <2>1, <3>1, <3>5 DEF PlacedOK, At
      <3>9. call'.at \in Finishing => HasPlaces(Who)'
        BY <2>1, <3>1, <3>5 DEF PlacedOK
      <3> QED BY <1>1, <2>1, <3>1, <3>2, <3>6, <3>7, <3>8, <3>9 DEF PlacedOK
    <2>6. ClientOK'
      BY <1>1, <2>1 DEF ClientOK, At, Who
    <2>7. LiveOK'
      BY <1>1, <2>1 DEF LiveOK, At, Who, IsThere, Needed
    <2> QED BY <1>2, <2>2, <2>3, <2>4, <2>5, <2>6, <2>7 DEF LiveInv
  <1> QED BY <1>3, <1>4

\* Every step of every interpreter keeps the data of all.
LEMMA NextLive == IInv /\ LiveInv /\ [Next]_vars => LiveInv'
  <1> SUFFICES ASSUME IInv, LiveInv, [Next]_vars, ~failed PROVE LiveInv'
    BY FailedStays, FailureEnds
  <1>1. CASE Done \/ UNCHANGED vars
    BY <1>1, StutterLive DEF Done
  <1>2. CASE Proceed
    <2>1. Running
      BY <1>2, ProceedRuns DEF Running
    <2> QED
      BY <1>2, <2>1, CreateLive, StartLive, EvalTensorsLive, NodesLive, NodeDataLive,
         InitOperatorLive, NoUserDataLive, PrepareLive, FinishPrepareLive, AdjustHeadLive,
         HandlesLive, InfoLive, CreatePlanLive, CommitLive, PlanHeadLive, VariablesLive,
         LateLive, TensorLive, ResetLive, InvokeLive DEF Proceed
  <1>3. ASSUME NEW i \in Interpreters, AllocateTensors(i) \/ Invoke(i) \/ SetInputs(i) \/ Tensor(i)
        PROVE  LiveInv'
    <2>1. At("idle")
      BY <1>3 DEF AllocateTensors, Invoke, SetInputs, Tensor
    <2>2. Running
      BY <2>1 DEF Running, At
    <2> QED BY <1>3, <2>2, AllocateTensorsLive, InvokeCallLive, SetInputsLive, TensorCallLive
  <1> QED BY <1>1, <1>2, <1>3 DEF Next

\* Interpreters may share an arena: as long as every AllocateTensors has
\* succeeded an operator finds its inputs as they were written, no two of its
\* areas overlap, and outputs and variables are there for the client.
THEOREM LiveDataIsIntact == Spec => []LiveDataIntact
  <1>1. Init => IInv /\ LiveInv
    BY InitIInv, InitLiveInv
  <1>2. IInv /\ LiveInv /\ [Next]_vars => (IInv /\ LiveInv)'
    BY NextIInv, NextLive
  <1>3. IInv /\ LiveInv => LiveDataIntact
    BY LiveInvIntact
  <1> QED BY <1>1, <1>2, <1>3, PTL DEF Spec
=============================================================================
