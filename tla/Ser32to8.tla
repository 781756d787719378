------------------------------- MODULE Ser32to8 -------------------------------
(***************************************************************************)
(* The serialiser between the 32-bit X FIFO and the 8-bit window buffer    *)
(* (jderobot/lib/accelerator/Ser32to8.scala), little endian as the         *)
(* accelerator instantiates it.  A word is a function from the byte        *)
(* positions 0 .. 3 to pixels.  As in WindowBuffer3x3, operators are       *)
(* signals and Clock is one rising edge.                                   *)
(***************************************************************************)
EXTENDS Naturals

VARIABLE counter    \* the byte of the word on the input that comes next

Reset == counter = 0

TypeOK == counter \in 0 .. 3

OutputPayload(word) == word[counter]

\* The word is released together with its last byte.
InputReady(outputReady) == outputReady /\ counter = 3

\* Mutant: the position in the word survives an empty input.
ClockNoClear(inputValid, outputReady) ==
    counter' = IF inputValid /\ outputReady THEN (counter + 1) % 4 ELSE counter

\* output.valid is input.valid, so output.fire is inputValid /\ outputReady.
Clock(inputValid, outputReady) ==
    counter' = IF ~inputValid THEN 0
               ELSE IF outputReady THEN (counter + 1) % 4
               ELSE counter
=============================================================================
