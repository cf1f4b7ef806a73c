------------------------------ MODULE FlatMemory ------------------------------
(***************************************************************************)
(* What the memory map promises: one array of bytes indexed by address.  A  *)
(* store changes its own address, a store to echo RAM also the work RAM      *)
(* below it, and nothing else; some registers keep something else than what  *)
(* was stored; a window shows one bank of the cartridge's ROM; DMA copies    *)
(* into OAM.                                                                  *)
(***************************************************************************)
EXTENDS Integers

CONSTANTS
  Last,        (* the highest address                                       *)
  Byte, Zero,
  Data,        (* bytes the program stores                                  *)
  Ram,         (* addresses that keep what is stored there                  *)
  Echo,        (* addresses of echo RAM ...                                 *)
  EchoOffset,  (* ... and their distance from the work RAM they copy        *)
  Oam,         (* addresses a DMA writes                                    *)
  Volatile,    (* registers the hardware may change by itself               *)
  Restored,    (* pairs <<register, byte>>: the byte stored reads as Zero   *)
  Window,      (* addresses that show a bank of the ROM                     *)
  PageSize     (* a DMA starts at a multiple of PageSize                    *)

VARIABLES
  view,
  banks        (* what each bank of the ROM loaded shows in Window          *)

vars == <<view, banks>>

Addr == 0 .. Last

(* What a store of d to a puts in a. *)
Kept(a, d) == IF <<a, d>> \in Restored THEN Zero ELSE d

(* The addresses a store to a changes. *)
Touched(a) == {a} \cup IF a \in Echo THEN {a - EchoOffset} ELSE {}

Store(a, d) ==
  /\ \A x \in Touched(a) : view'[x] = Kept(a, d)
  /\ \A x \in Addr \ Touched(a) : view'[x] = view[x]

Switch ==
  /\ \A x \in Addr \ Window : view'[x] = view[x]
  /\ \E bank \in banks : \A x \in Window : view'[x] = bank[x]

Copy(page) ==
  /\ \A x \in Addr \ Oam : view'[x] = view[x]
  /\ \A x \in Oam : view'[x] = view[page * PageSize + (x % PageSize)]

Change == \A x \in Addr \ Volatile : view'[x] = view[x]

Step ==
  \/ \E a \in Ram, d \in Data : Store(a, d)
  \/ Switch
  \/ \E page \in 0 .. Last \div PageSize : Copy(page)
  \/ Change

Init ==
  /\ view \in [Addr -> Byte]
  /\ banks \subseteq [Window -> Byte]

Next == view' \in [Addr -> Byte] /\ Step /\ UNCHANGED banks

Spec == Init /\ [][Next]_vars
===============================================================================
