------------------------------- MODULE MCMemory -------------------------------
(***************************************************************************)
(* Small instances of Memory: one or two addresses per region, and two      *)
(* cartridges: a small ROM, and one without a mapper but with RAM.           *)
(***************************************************************************)
EXTENDS Memory

MCLow   == 0 .. 4
MCCarts == {[mbc1 |-> TRUE,  ram |-> FALSE, bits |-> 2],
            [mbc1 |-> FALSE, ram |-> TRUE,  bits |-> 1]}

(* Odd banks differ from even ones in their first byte. *)
MCRom == [bank \in SUBSET (0 .. 7) |->
            [i \in 0 .. 1 |-> IF i = 0 /\ 0 \in bank THEN {0, 7} ELSE {}]]

(* A plain register starts with some bits set, as mem_init leaves them. *)
MCIoStart == [i \in 1 .. 4 |-> IF i = 1 THEN {0, 7} ELSE {}]

MCBankWrites == {{}, {0}, {1}, {0, 5}, {2, 7}}
MCDataWrites == {{}, {0, 7}}
===============================================================================
