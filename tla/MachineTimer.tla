----------------------------- MODULE MachineTimer -----------------------------
(***************************************************************************)
(* The machine timer (jderobot/lib/misc/MachineTimer.scala): a free        *)
(* running counter and a compare register of two bus words each, and an    *)
(* interrupt that is set when the counter has reached the compare value    *)
(* and cleared by a write to either half of it.                            *)
(*                                                                         *)
(* A step is one clock cycle with at most one bus command.  The driver is  *)
(* whoever programs the timer: it computes a deadline and writes its two   *)
(* halves, in either order, with pauses.  Tote.scala has the timer, but    *)
(* commented out; the repository holds no such driver.                     *)
(***************************************************************************)
EXTENDS Integers

CONSTANTS
    WordWidth,      \* 32 in the code
    Distances,      \* cycles from a programming to its deadline
    MaxPause        \* bound: cycles between the two writes of a programming

\* A deadline must not be so far off, nor the driver so slow, that the
\* difference of the two registers changes its sign.
HorizonAssumption ==
    /\ WordWidth \in Nat \ {0} /\ MaxPause \in Nat
    /\ \A d \in Distances : d \in 1 .. 2 ^ (2 * WordWidth - 1) - 1
    /\ MaxPause + 2 < 2 ^ (2 * WordWidth - 1)

VARIABLES
    counter, cmp, interrupt,
    target,         \* the compare value being programmed
    missing,        \* the halves of it that are not written yet
    programmed,     \* whether the compare register was ever written completely
    remaining,      \* cycles until the deadline
    pause           \* cycles since the first write of a programming

driver == <<target, missing, programmed>>
vars == <<counter, cmp, interrupt, driver, remaining, pause>>

Modulus == 2 ^ (2 * WordWidth)
Word == 2 ^ WordWidth

\* cmp has no reset value.
Init ==
    /\ counter = 0
    /\ cmp \in 0 .. Modulus - 1
    /\ interrupt = FALSE
    /\ target = 0
    /\ missing = {}
    /\ programmed = FALSE
    /\ remaining = 0
    /\ pause = 0

\* !(counter - cmp).msb
Reached == (counter - cmp) % Modulus < Modulus \div 2

\* Mutant: the condition wins over a write in the same cycle.
InterruptSetWins(writing) == interrupt' = (Reached \/ (interrupt /\ ~writing))

\* Mutant: the interrupt follows the condition.
InterruptNotLatched(writing) == interrupt' = (Reached /\ ~writing)

\* setWhen, then clearWhen, which wins.
Interrupt(writing) == interrupt' = ((Reached \/ interrupt) /\ ~writing)

\* cmp with one half replaced by that of value.
Replaced(half, value) ==
    IF half = "low" THEN (cmp \div Word) * Word + (value % Word)
                    ELSE (value \div Word) * Word + (cmp % Word)

Cycle(writing) ==
    /\ counter' = (counter + 1) % Modulus
    /\ Interrupt(writing)

Tick == remaining' = IF remaining > 0 THEN remaining - 1 ELSE 0

Idle ==
    /\ missing # {} => pause < MaxPause
    /\ Cycle(FALSE)
    /\ Tick
    /\ pause' = IF missing = {} THEN 0 ELSE pause + 1
    /\ UNCHANGED <<cmp, driver>>

\* The first write of a programming, to 0x8 or 0xC.
Begin(half, distance) ==
    /\ missing = {}
    /\ target' = (counter + distance) % Modulus
    /\ cmp' = Replaced(half, target')
    /\ missing' = {"low", "high"} \ {half}
    /\ remaining' = distance - 1
    /\ pause' = 0
    /\ Cycle(TRUE)
    /\ UNCHANGED programmed

Finish ==
    /\ \E half \in missing : cmp' = Replaced(half, target)
    /\ missing' = {}
    /\ programmed' = TRUE
    /\ pause' = 0
    /\ Cycle(TRUE)
    /\ Tick
    /\ UNCHANGED target

Next ==
    \/ Idle
    \/ \E half \in {"low", "high"}, distance \in Distances : Begin(half, distance)
    \/ Finish

Spec == Init /\ [][Next]_vars

-----------------------------------------------------------------------------
(* Correctness. *)

Armed == programmed /\ missing = {}

\* No early interrupt: once both halves are written, the interrupt means that
\* the deadline has come.  Between the two writes, or with the compare value of
\* power-up, it may be set; the second write clears it in the very cycle in
\* which the comparison could still set it.
NoEarlyInterrupt == Armed /\ interrupt => remaining = 0

\* No missed interrupt: from the cycle after the deadline on the interrupt is
\* there until the driver writes again, however long that takes: the comparison
\* changes its sign half a turn of the counter later, the latch does not.
InterruptStays == Armed /\ remaining = 0 /\ missing' = {} => interrupt'

NoMissedInterrupt == [][InterruptStays]_vars
=============================================================================
