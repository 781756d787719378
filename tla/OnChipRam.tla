------------------------------- MODULE OnChipRam -------------------------------
(***************************************************************************)
(* The two on-chip RAMs side by side, given the same commands, and the     *)
(* memory both are to be for a processor: bytes that keep what was written *)
(* to them last.  Commands arrive from the interconnect with the full      *)
(* address, which lies in the range mapped to the RAM: Base up to          *)
(* Base + 4 * Words - 1, Base being a multiple of the size.                *)
(***************************************************************************)
EXTENDS Naturals

CONSTANTS
    Words, Base,
    Undefined,
    Addresses, Masks, Data      \* of the commands: data is a byte per lane, a
                                \* byte a pair of nibbles

MappingAssumption ==
    /\ Words \in Nat \ {0} /\ Base \in Nat /\ Base % (4 * Words) = 0
    /\ Addresses \subseteq Base .. Base + 4 * Words - 1

VARIABLES
    mem, rspValid, rspData,                     \* Bram
    mems, dataOut, rspPending, rspTarget,       \* Spram
    written,    \* written[i]: what was last written to byte Base + i
    expected    \* the word the read of the last cycle asked for, or NoRead

vars == <<mem, rspValid, rspData, mems, dataOut, rspPending, rspTarget, written, expected>>

Lanes == 0 .. 3
NoByte == <<Undefined, Undefined>>
NoRead == [l \in {} |-> NoByte]

bram == INSTANCE Bram WITH Undefined <- NoByte
spram == INSTANCE Spram

Init ==
    /\ bram!Reset
    /\ spram!Reset
    /\ written = [i \in 0 .. 4 * Words - 1 |-> NoByte]
    /\ expected = NoRead

Offset(address, l) == 4 * ((address - Base) \div 4) + l

Cycle(cmd) == bram!Clock(cmd) /\ spram!Clock(cmd)

Idle ==
    /\ \E write \in BOOLEAN :
          Cycle([valid |-> FALSE, write |-> write, address |-> Base,
                 data |-> [l \in Lanes |-> NoByte], mask |-> [l \in Lanes |-> write]])
    /\ expected' = NoRead
    /\ UNCHANGED written

ReadWord(address) ==
    /\ Cycle([valid |-> TRUE, write |-> FALSE, address |-> address,
              data |-> [l \in Lanes |-> NoByte], mask |-> [l \in Lanes |-> TRUE]])
    /\ expected' = [l \in Lanes |-> written[Offset(address, l)]]
    /\ UNCHANGED written

\* A store of a processor: all bytes of the mask get their lane of data.
WriteBytes(address, data, mask) ==
    /\ Cycle([valid |-> TRUE, write |-> TRUE, address |-> address,
              data |-> data, mask |-> mask])
    /\ written' = [i \in DOMAIN written |->
                     IF i \in {Offset(address, l) : l \in {k \in Lanes : mask[k]}}
                     THEN data[i % 4] ELSE written[i]]
    /\ expected' = NoRead

Next ==
    \/ Idle
    \/ \E address \in Addresses : ReadWord(address)
    \/ \E address \in Addresses, data \in Data, mask \in Masks :
          WriteBytes(address, data, mask)

Spec == Init /\ [][Next]_vars

-----------------------------------------------------------------------------
(* Correctness. *)

\* Each RAM answers exactly the reads, one cycle later, with the bytes written
\* last, whatever masks and half words they were written with.
BramAnswers ==
    /\ rspValid = (expected # NoRead)
    /\ rspValid => rspData = expected
SpramAnswers ==
    /\ spram!RspValid = (expected # NoRead)
    /\ spram!RspValid => spram!RspData = expected
=============================================================================
