-------------------------------- MODULE Mac8x9 --------------------------------
(***************************************************************************)
(* The control of the multiply-accumulate pipeline                         *)
(* (jderobot/lib/accelerator/Mac8x9.scala and AdderTreex9.scala): Stages   *)
(* registers, each the Stream.stage() of the SpinalHDL library, that move  *)
(* one command per cycle.  A register loads whenever the stream behind it  *)
(* is ready or it holds a bubble, so bubbles are squeezed out.  There is   *)
(* no flush input: only reset empties the pipeline.                        *)
(*                                                                         *)
(* A command travels as its operands; the sum it turns into is a function  *)
(* of them (module MacArithmetic deals with that).                      *)
(***************************************************************************)
EXTENDS Naturals

CONSTANTS
    Stages,     \* multStage and addState1 .. addState4: 5 in the code
    Bubble      \* the content of a register whose valid bit is low

StagesAssumption == Stages \in Nat \ {0}

VARIABLE stage  \* stage[1] is the register next to cmd, stage[Stages] is rsp

Reset == stage = [i \in 1 .. Stages |-> Bubble]

RspValid == stage[Stages] # Bubble
RspPayload == stage[Stages]

\* Mutant: a register loads without looking behind it.
LoadsAlways(i, rspReady) == TRUE

\* Mutant: every register waits for the one behind it, bubbles or not.
LoadsTogether(i, rspReady) == rspReady

\* Register i loads: a register from i on is free, or the consumer takes the
\* last one.
Loads(i, rspReady) == rspReady \/ \E k \in i .. Stages : stage[k] = Bubble

CmdReady(rspReady) == Loads(1, rspReady)

\* Mutant: commands move only when another one pushes them.
ClockPushed(cmd, rspReady) ==
    stage' = [i \in 1 .. Stages |->
                IF cmd = Bubble
                THEN IF i = Stages /\ rspReady THEN Bubble ELSE stage[i]
                ELSE IF Loads(i, rspReady) THEN IF i = 1 THEN cmd ELSE stage[i - 1]
                ELSE stage[i]]

\* cmd is Bubble in a cycle in which cmd.valid is low.
Clock(cmd, rspReady) ==
    stage' = [i \in 1 .. Stages |->
                IF Loads(i, rspReady) THEN IF i = 1 THEN cmd ELSE stage[i - 1]
                                      ELSE stage[i]]
=============================================================================
