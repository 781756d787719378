------------------------------- MODULE MacStream -------------------------------
(***************************************************************************)
(* The MAC pipeline between a producer that offers commands and a consumer *)
(* that is ready whenever it likes (in the accelerator: the state machine  *)
(* and the Z FIFO).  Commands are numbered in the order in which they are  *)
(* accepted, so a register's content tells which command it belongs to.    *)
(***************************************************************************)
EXTENDS Mac8x9

CONSTANT MaxCommands    \* bound: commands offered

CommandAssumption ==
    StagesAssumption /\ MaxCommands \in Nat /\ Bubble \notin Nat

VARIABLES
    accepted,   \* commands that entered the pipeline
    returned    \* results that were taken

streamVars == <<stage, accepted, returned>>

StreamInit == Reset /\ accepted = 0 /\ returned = 0

Taken(rspReady) == IF RspValid /\ rspReady THEN 1 ELSE 0

\* cmd.valid is high.
Offer(rspReady) ==
    /\ accepted < MaxCommands
    /\ Clock(accepted + 1, rspReady)
    /\ accepted' = IF CmdReady(rspReady) THEN accepted + 1 ELSE accepted
    /\ returned' = returned + Taken(rspReady)

\* cmd.valid is low.
NoOffer(rspReady) ==
    /\ Clock(Bubble, rspReady)
    /\ returned' = returned + Taken(rspReady)
    /\ UNCHANGED accepted

StreamNext == \E rspReady \in BOOLEAN : Offer(rspReady) \/ NoOffer(rspReady)

\* While there is something in the pipeline, the consumer is ready again and
\* again.  The producer need not offer anything.
Drained == accepted > returned /\ (Offer(TRUE) \/ NoOffer(TRUE))
Fairness == WF_streamVars(Drained)

StreamSpec == StreamInit /\ [][StreamNext]_streamVars /\ Fairness

-----------------------------------------------------------------------------
(* Correctness. *)

TypeOK ==
    /\ stage \in [1 .. Stages -> Nat \cup {Bubble}]
    /\ accepted \in Nat
    /\ returned \in Nat

\* The commands between the one returned last and the one accepted last are
\* in the pipeline, and nothing else is: none is lost when bubbles are
\* squeezed out, and none overwritten by the one behind it.
InFlight ==
    {stage[i] : i \in 1 .. Stages} \ {Bubble} = returned + 1 .. accepted

\* Commands do not overtake each other, and none is there twice.
Ordered ==
    \A i, j \in 1 .. Stages :
        i < j /\ stage[i] # Bubble /\ stage[j] # Bubble => stage[i] > stage[j]

\* Results come out in the order of the commands, each exactly once.
InOrder == RspValid => RspPayload = returned + 1

\* The pipeline fills up: behind a stalled consumer a command is refused only
\* when every register holds one.
Capacity ==
    /\ accepted - returned <= Stages
    /\ ~CmdReady(FALSE) => accepted - returned = Stages

\* Every command that was accepted is answered: what is behind a bubble moves
\* up, and nothing waits for a further command to push it.
Answered == \A n \in 1 .. MaxCommands : accepted >= n ~> returned >= n

IInv == TypeOK /\ returned <= accepted /\ Ordered /\ InFlight
=============================================================================
