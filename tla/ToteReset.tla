------------------------------- MODULE ToteReset -------------------------------
(***************************************************************************)
(* The reset controller of the SoC (resetCtrl in neuralfpga/core/          *)
(* Tote.scala): a power-on counter, restarted by the synchronised reset    *)
(* pin, holds the debug and the system clock domain in reset; the debugger *)
(* can ask for a reset of the system domain alone.                         *)
(*                                                                         *)
(* A step is one clock edge.  The registers of the synchronisers (BufferCC)*)
(* and the reset registers themselves have no reset value, so they start   *)
(* with any.  The reset pin and the request of the debug plugin change     *)
(* freely.                                                                 *)
(***************************************************************************)
EXTENDS Naturals

CONSTANT CounterWidth       \* of resetCounter: 6 in the code

\* Two bits at least: the registers of the synchroniser, which come up with any
\* value, have to be flushed before the first full count.
CounterWidthAssumption == CounterWidth \in Nat \ {0, 1}

VARIABLES
    reset,              \* io.reset, sampled by the next edge
    resetOut,           \* of the debug plugin
    resetBuffer,        \* BufferCC(io.reset): its two registers, the last one out
    systemResetSet,     \* RegNext(plugin.io.resetOut)
    systemBuffer,       \* BufferCC(systemResetSet)
    resetCounter,
    debugReset,
    systemReset,
    samples             \* history: the pin at the last edges, latest first

inputs == <<reset, resetOut>>
regs == <<resetBuffer, systemResetSet, systemBuffer, resetCounter, debugReset, systemReset>>
vars == <<inputs, regs, samples>>

Full == 2 ^ CounterWidth - 1

\* The second edge after one that sampled the pin high clears the counter, Full
\* more fill it and one more releases the domains.
Horizon == Full + 3

Init ==
    /\ reset \in BOOLEAN /\ resetOut \in BOOLEAN
    /\ resetBuffer \in [{1, 2} -> BOOLEAN]
    /\ systemResetSet \in BOOLEAN
    /\ systemBuffer \in [{1, 2} -> BOOLEAN]
    /\ resetCounter = 0
    /\ debugReset \in BOOLEAN /\ systemReset \in BOOLEAN
    /\ samples = [i \in 1 .. Horizon |-> i = 3]    \* as if just cleared

resetUnbuffered == resetCounter # Full

\* Mutant: the pin stops the counter instead of restarting it.
CounterHeld ==
    resetCounter' = IF resetBuffer[2] \/ ~resetUnbuffered THEN resetCounter
                    ELSE resetCounter + 1

\* The later assignment, that of the pin, wins.
Counter ==
    resetCounter' = IF resetBuffer[2] THEN 0
                    ELSE IF resetUnbuffered THEN resetCounter + 1
                    ELSE resetCounter

\* BufferCC: two registers in a row.
Synchronise(buffer, input) == [i \in {1, 2} |-> IF i = 1 THEN input ELSE buffer[1]]

\* Mutants: the request of the debugger resets the debug domain too; the system
\* is not released again.
DomainsTogether ==
    /\ debugReset' = (resetUnbuffered \/ systemBuffer[2])
    /\ systemReset' = (resetUnbuffered \/ systemBuffer[2])
DomainsLatched ==
    /\ debugReset' = resetUnbuffered
    /\ systemReset' = (systemReset \/ resetUnbuffered \/ systemBuffer[2])

Domains ==
    /\ debugReset' = resetUnbuffered
    /\ systemReset' = (resetUnbuffered \/ systemBuffer[2])

Edge ==
    /\ resetBuffer' = Synchronise(resetBuffer, reset)
    /\ systemResetSet' = resetOut
    /\ systemBuffer' = Synchronise(systemBuffer, systemResetSet)
    /\ Counter
    /\ Domains

Next ==
    /\ Edge
    /\ reset' \in BOOLEAN /\ resetOut' \in BOOLEAN
    /\ samples' = [i \in 1 .. Horizon |-> IF i = 1 THEN reset ELSE samples[i - 1]]

\* The clock runs: an edge that changes a register comes about.  The inputs may
\* stay as they are for ever.
Spec == Init /\ [][Next]_vars /\ WF_regs(Next)

-----------------------------------------------------------------------------
(* Correctness. *)

\* A reset is a full one: whatever glitches the pin has and in whatever state
\* the synchronisers come up, a domain leaves reset only after the pin was low
\* for a whole run of the counter; the last three samples are still on their way.
Releases == (debugReset /\ ~debugReset') \/ (systemReset /\ ~systemReset')
ReleasedInTime == Releases => \A i \in 4 .. Horizon : ~samples'[i]

\* The debugger survives the resets it asks for: the debug domain goes into
\* reset only because of the pin, three edges later.
DebugResetByPin == ~debugReset /\ debugReset' => samples'[4]

FullReset == [][ReleasedInTime /\ DebugResetByPin]_vars

\* When the pin and the debugger are quiet at last, the system runs.
SystemRuns == <>[](~reset /\ ~resetOut) => <>[]~systemReset
=============================================================================
