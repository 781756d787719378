--------------------------------- MODULE Bram ---------------------------------
(***************************************************************************)
(* The block RAM behind a PipelinedMemoryBus                               *)
(* (jderobot/lib/lattice/ice40/Bram.scala): one memory of 32-bit words     *)
(* with a write mask per byte.  A word is a function from the byte lanes   *)
(* 0 .. 3.  Clock is one rising edge, with the command of the cycle.       *)
(***************************************************************************)
EXTENDS Naturals

CONSTANTS
    Words,      \* onChipRamSize / 4
    Undefined   \* the content of a cell before its first write

VARIABLES
    mem,
    rspValid,   \* io.bus.rsp.valid
    rspData     \* io.bus.rsp.data, while rspValid

Lanes == 0 .. 3

Reset ==
    /\ mem = [a \in 0 .. Words - 1 |-> [l \in Lanes |-> Undefined]]
    /\ rspValid = FALSE
    /\ rspData = [l \in Lanes |-> Undefined]

\* The byte address, shifted and truncated to the width of a word address.
WordAddress(address) == (address \div 4) % Words

\* Mutant: the mask is not connected.
WriteUnmasked(cmd) ==
    mem' = IF cmd.valid /\ cmd.write
           THEN [mem EXCEPT ![WordAddress(cmd.address)] = cmd.data]
           ELSE mem

Write(cmd) ==
    mem' = IF cmd.valid /\ cmd.write
           THEN [mem EXCEPT ![WordAddress(cmd.address)] =
                    [l \in Lanes |-> IF cmd.mask[l] THEN cmd.data[l] ELSE @[l]]]
           ELSE mem

\* What the port shows in a cycle that answers no read is left open by the
\* library and stands for no value here.
Read(cmd) ==
    rspData' = IF cmd.valid /\ ~cmd.write THEN mem[WordAddress(cmd.address)]
               ELSE [l \in Lanes |-> Undefined]

\* cmd.ready is constantly high.
Clock(cmd) ==
    /\ Write(cmd)
    /\ Read(cmd)
    /\ rspValid' = (cmd.valid /\ ~cmd.write)
=============================================================================
