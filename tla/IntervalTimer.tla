---------------------------- MODULE IntervalTimer ----------------------------
(***************************************************************************)
(* What src/timer.c promises a program about TIMA: an interval timer.  Its  *)
(* whole state is one number of cycles, credit.  Running time adds to it;   *)
(* when it reaches ByteMod periods it falls back to TMA periods, keeping    *)
(* the remainder, and the timer interrupt is requested.  due are the cycles  *)
(* it is yet to count; none is dropped or counted twice, but for an overflow  *)
(* of an int at a rate at which it runs late.                                 *)
(***************************************************************************)
EXTENDS Integers

CONSTANTS ByteMod, IntMax, Period, CycleCounts, IrrBits

VARIABLES credit, tma, tmc, irr, due

vars == <<credit, tma, tmc, irr, due>>

Byte == 0 .. ByteMod - 1
P    == Period[tmc.select]
Full == ByteMod * P

(* Late delivery is conceded only at a rate whose period is shorter than    *)
(* some instruction.                                                        *)
MayBeLate == \E c \in CycleCounts : c > P

Init ==
  /\ credit = 0
  /\ tma = 0
  /\ tmc = [enabled |-> FALSE, select |-> 0]
  /\ irr = {}
  /\ due = 0

Idle ==
  /\ ~tmc.enabled
  /\ UNCHANGED <<credit, tma, tmc, irr>>

Elapse ==
  /\ tmc.enabled
  /\ credit + due < Full \/ MayBeLate
  /\ credit' = credit + due
  /\ UNCHANGED <<tma, tmc, irr>>

(* The cycles waiting no longer fit an int.                                  *)
Wrap ==
  /\ tmc.enabled
  /\ MayBeLate
  /\ credit + due > IntMax
  /\ credit' = credit + due - 2 * (IntMax + 1)
  /\ UNCHANGED <<tma, tmc, irr>>

Expire ==
  /\ tmc.enabled
  /\ credit + due >= Full
  /\ credit' = credit + due - Full + tma * P
  /\ irr' = irr \cup {"TIMER"}
  /\ UNCHANGED <<tma, tmc>>

Count == due # 0 /\ due' = 0 /\ (Idle \/ Elapse \/ Wrap \/ Expire)

(* A new TIMA moves the credit by whole periods, a new rate drops the       *)
(* remainder.                                                               *)
SetCount ==
  /\ \E d \in -ByteMod .. ByteMod : credit' = credit + d * P
  /\ UNCHANGED <<tma, tmc, irr>>

SetRate ==
  /\ tmc' \in [enabled : BOOLEAN, select : 0 .. 3]
  /\ \E v \in Byte : credit' = v * Period[tmc'.select]
  /\ UNCHANGED <<tma, irr>>

SetReload == tma' \in Byte /\ UNCHANGED <<credit, tmc, irr>>

OthersWriteIrr == irr' \in SUBSET IrrBits /\ UNCHANGED <<credit, tma, tmc>>

Run ==
  /\ due = 0
  /\ due' \in CycleCounts
  /\ SetCount \/ SetRate \/ SetReload \/ OthersWriteIrr

Next == Count \/ Run \/ (OthersWriteIrr /\ UNCHANGED due)

Spec == Init /\ [][Next]_vars
==============================================================================
