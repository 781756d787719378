--------------------------------- MODULE Spram ---------------------------------
(***************************************************************************)
(* The single-port RAM of the UP5K behind a PipelinedMemoryBus             *)
(* (jderobot/lib/lattice/ice40/Spram.scala): two SB_SPRAM256KA blocks, one *)
(* for the lower and one for the upper half of a word, with a write mask   *)
(* per nibble (SB_SPRAM256KA.v).  A byte is a pair of its lower and its    *)
(* upper nibble.                                                           *)
(***************************************************************************)
EXTENDS Naturals

CONSTANTS
    Words,      \* 16384: the blocks decode the 14 bits of a word address
    Undefined   \* a nibble before its first write, or 'bx on DATAOUT

VARIABLES
    mems,       \* mems[b][a]: the four nibbles of word a of block b, lowest first
    dataOut,    \* DATAOUT of each block
    rspPending, rspTarget

Blocks == {0, 1}
Nibbles == 0 .. 3

UndefinedWord == [n \in Nibbles |-> Undefined]

Reset ==
    /\ mems = [b \in Blocks |-> [a \in 0 .. Words - 1 |-> UndefinedWord]]
    /\ dataOut = [b \in Blocks |-> UndefinedWord]
    /\ rspPending = FALSE
    /\ rspTarget = FALSE

\* Nibble n of block b is in byte 2 * b + (n \div 2) of the word.
DataIn(b, data) == [n \in Nibbles |-> data[2 * b + (n \div 2)][1 + (n % 2)]]

\* Mutant: the nibbles of a block take the masks of its bytes in turn.
MaskWrEnInterleaved(b, mask) == [n \in Nibbles |-> mask[2 * b + (n % 2)]]

MaskWrEn(b, mask) == [n \in Nibbles |-> mask[2 * b + (n \div 2)]]

\* SB_SPRAM256KA, selected by cmd.valid; only a read leaves DATAOUT defined.
Block(b, cmd) ==
    LET a == (cmd.address \div 4) % Words
        enabled == MaskWrEn(b, cmd.mask)
        input == DataIn(b, cmd.data)
    IN  IF cmd.valid /\ cmd.write
        THEN [word |-> [mems[b] EXCEPT ![a] =
                          [n \in Nibbles |-> IF enabled[n] THEN input[n] ELSE @[n]]],
              out |-> UndefinedWord]
        ELSE [word |-> mems[b],
              out |-> IF cmd.valid THEN mems[b][a] ELSE UndefinedWord]

RspPending(cmd) == rspPending' = (cmd.valid /\ ~cmd.write)

Clock(cmd) ==
    /\ mems' = [b \in Blocks |-> Block(b, cmd).word]
    /\ dataOut' = [b \in Blocks |-> Block(b, cmd).out]
    /\ RspPending(cmd)
    /\ rspTarget' = cmd.valid

RspValid == rspPending /\ rspTarget

\* readData: the upper half from block 1.
RspData == [l \in 0 .. 3 |-> LET n == 2 * (l % 2)
                             IN  <<dataOut[l \div 2][n], dataOut[l \div 2][n + 1]>>]
=============================================================================
