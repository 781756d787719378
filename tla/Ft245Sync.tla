------------------------------- MODULE Ft245Sync -------------------------------
(***************************************************************************)
(* The three controllers for the synchronous FIFO interface of an FT245    *)
(* USB chip (jderobot/lib/com/ft245/Ft245Sync.scala).  All signals are     *)
(* active low on the pins; here TRUE means active.  A step is one edge of  *)
(* the clock the chip supplies.  rxf and txe, the chip's inputs to the     *)
(* controller, may change in every cycle: what the chip and the computer   *)
(* behind it do is not the controller's to know.                           *)
(***************************************************************************)
EXTENDS Naturals

CONSTANT DataWidth      \* of the dummy data: 8 in the code

DataWidthAssumption == DataWidth \in Nat \ {0}

VARIABLES
    ctrl,       \* which of the controllers is built
    rxf, txe,   \* the chip has a byte to read, the chip has room for a byte
    oe_reg,     \* the chip is told to drive the data bus
    rd_reg,     \* a byte is taken from the chip
    wr_reg,     \* a byte is given to the chip
    data,       \* the byte offered: a counter
    state,      \* of the state machine of the controller that has one
    clash       \* history: this drive of the bus began with both requests

outputs == <<oe_reg, rd_reg, wr_reg, data>>
regs == <<outputs, state>>
vars == <<ctrl, rxf, txe, regs, clash>>

Controllers == {"NullReader", "DummyWriter", "NullReaderDummyWriter"}

Init ==
    /\ ctrl \in Controllers
    /\ rxf \in BOOLEAN /\ txe \in BOOLEAN
    /\ oe_reg = FALSE /\ rd_reg = FALSE /\ wr_reg = FALSE
    /\ data = 0
    /\ state = "boot"
    /\ clash = FALSE

\* io.ft245.data.writeEnable
WriteEnable == ctrl = "DummyWriter" \/ (ctrl = "NullReaderDummyWriter" /\ wr_reg)

\* The counter moves on after each cycle of a write, accepted or not.
CountData == data' = IF wr_reg THEN (data + 1) % 2 ^ DataWidth ELSE data

NullReader ==
    /\ ctrl = "NullReader"
    /\ oe_reg' = rxf
    /\ rd_reg' = (rxf = oe_reg)
    /\ UNCHANGED <<wr_reg, data, state, clash>>

DummyWriter ==
    /\ ctrl = "DummyWriter"
    /\ wr_reg' = txe
    /\ CountData
    /\ UNCHANGED <<oe_reg, rd_reg, state, clash>>

-----------------------------------------------------------------------------
(* Ft245SyncNullReaderDummyWriterCtrl: one action per state of its machine.  *)

In(s) == ctrl = "NullReaderDummyWriter" /\ state = s /\ CountData

Boot ==
    /\ In("boot")
    /\ state' = "sIdle"
    /\ UNCHANGED <<oe_reg, rd_reg, wr_reg, clash>>

\* Both requests set their register; the later goto, that of the write, wins.
SIdle ==
    /\ In("sIdle")
    /\ oe_reg' = (oe_reg \/ rxf)
    /\ wr_reg' = (wr_reg \/ txe)
    /\ state' = IF txe THEN "sWrite" ELSE IF rxf THEN "sReadOE" ELSE state
    /\ clash' = (clash \/ (rxf /\ txe))
    /\ UNCHANGED rd_reg

SReadOE ==
    /\ In("sReadOE")
    /\ rd_reg' = TRUE
    /\ state' = "sRead"
    /\ UNCHANGED <<oe_reg, wr_reg, clash>>

\* Mutant: the bus is not given back after a read.
SReadKeepsBus ==
    /\ In("sRead")
    /\ IF rxf THEN UNCHANGED <<rd_reg, state>>
              ELSE rd_reg' = FALSE /\ state' = "sIdle"
    /\ UNCHANGED <<oe_reg, wr_reg>>
    /\ clash' = (clash /\ rxf)

SRead ==
    /\ In("sRead")
    /\ IF rxf THEN UNCHANGED <<oe_reg, rd_reg, state>>
              ELSE oe_reg' = FALSE /\ rd_reg' = FALSE /\ state' = "sIdle"
    /\ UNCHANGED wr_reg
    /\ clash' = (clash /\ rxf)

\* Mutant: a write goes on as long as there is any request.
SWriteBusy ==
    /\ In("sWrite")
    /\ IF rxf \/ txe THEN UNCHANGED <<wr_reg, state>>
                     ELSE wr_reg' = FALSE /\ state' = "sIdle"
    /\ UNCHANGED <<oe_reg, rd_reg, clash>>

SWrite ==
    /\ In("sWrite")
    /\ IF txe THEN UNCHANGED <<wr_reg, state>>
              ELSE wr_reg' = FALSE /\ state' = "sIdle"
    /\ UNCHANGED <<oe_reg, rd_reg, clash>>

-----------------------------------------------------------------------------

Edge == NullReader \/ DummyWriter \/ Boot \/ SIdle \/ SReadOE \/ SRead \/ SWrite

Next ==
    /\ Edge
    /\ rxf' \in BOOLEAN /\ txe' \in BOOLEAN
    /\ UNCHANGED ctrl

\* The clock runs: an edge that changes a register comes about.  The flags may
\* stay as they are for ever.
Spec == Init /\ [][Next]_vars /\ WF_regs(Next)

-----------------------------------------------------------------------------
(* Correctness. *)

\* Chip and controller drive the data bus together only if a read and a write
\* were requested in the same idle cycle: SIdle then starts both.  No other
\* order of requests gets there, however reads and writes follow each other.
SharedBus == oe_reg /\ WriteEnable => clash

\* The machine is never caught in a read or a write: if the chip pauses each
\* direction again and again, it comes back to idle again and again.
BurstsEnd ==
    ctrl = "NullReaderDummyWriter" /\ []<>~rxf /\ []<>~txe => []<>(state = "sIdle")
=============================================================================
