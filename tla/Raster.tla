-------------------------------- MODULE Raster --------------------------------
(***************************************************************************)
(* What ppu_step of src/ppu.c promises: a beam that sweeps SCLN_CNT lines   *)
(* of SCLN_CYCLES cycles.  pos is its position in cycles, 0 being the start *)
(* of line 1 and the range below 0 being line 0, which only a restart       *)
(* reaches.  Crossing the end of line SCLN_VISIBLE_CNT requests vblank.     *)
(* due are the cycles it is yet to advance by; none is dropped or taken      *)
(* twice.                                                                     *)
(***************************************************************************)
EXTENDS Integers

CONSTANTS SCLN_CNT, SCLN_VISIBLE_CNT, SCLN_CYCLES, CycleCounts, IrrBits

VARIABLES pos, on, irr, due

vars == <<pos, on, irr, due>>

FrameCycles == SCLN_CNT * SCLN_CYCLES
VBlankPos   == SCLN_VISIBLE_CNT * SCLN_CYCLES

Init == pos = -SCLN_CYCLES /\ on = TRUE /\ irr = {} /\ due = 0

Advance ==
  pos' = IF pos + due < FrameCycles THEN pos + due ELSE pos + due - FrameCycles

(* Besides vblank, only the STAT interrupt may be requested. *)
Request ==
  LET crossed == IF pos < VBlankPos /\ pos + due >= VBlankPos THEN {"VBLANK"} ELSE {}
  IN \E s \in SUBSET {"STAT"} : irr' = irr \cup crossed \cup s

Sweep == on /\ Advance /\ Request /\ UNCHANGED on

(* While the LCD is off the beam waits at the start of line 1. *)
Park == ~on /\ pos' = 0 /\ UNCHANGED <<on, irr>>

Move == due # 0 /\ due' = 0 /\ (Sweep \/ Park)

(* A store to LY: back to line 0, same place in the line. *)
Restart ==
  /\ \E n \in 0 .. SCLN_CNT : pos' = pos - n * SCLN_CYCLES
  /\ pos' \in -SCLN_CYCLES .. 0
  /\ UNCHANGED <<on, irr>>

Switch == on' \in BOOLEAN /\ UNCHANGED <<pos, irr>>

OthersWriteIrr == irr' \in SUBSET IrrBits /\ UNCHANGED <<pos, on>>

Run ==
  /\ due = 0
  /\ due' \in CycleCounts
  /\ Restart \/ Switch \/ OthersWriteIrr

Next == Move \/ Run \/ (OthersWriteIrr /\ UNCHANGED due)

Spec == Init /\ [][Next]_vars
===============================================================================
