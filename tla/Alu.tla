---------------------------------- MODULE Alu ----------------------------------
(***************************************************************************)
(* The arithmetic of src/cpu.c: what each instruction leaves in its         *)
(* destination and in the flags.  Every operator takes the operands and the *)
(* flags before, and gives [r |-> result, f |-> flags after]; bytes are     *)
(* 0 .. 255, words 0 .. 65535.                                               *)
(***************************************************************************)
EXTENDS Integers

Byte  == 0 .. 255
Word  == 0 .. 256 * 256 - 1
Flags == [z : BOOLEAN, n : BOOLEAN, h : BOOLEAN, c : BOOLEAN]

Bit(b) == IF b THEN 1 ELSE 0

(* "& 0x0F" *)
Nibble(x) == x % 16

(* A byte as an int8_t. *)
Signed(x) == IF x < 128 THEN x ELSE x - 256

------------------------------------------------------------------------------
(* Addition and subtraction of bytes. *)

cpu_add(x, y, f) ==
  [r |-> (x + y) % 256,
   f |-> [z |-> (x + y) % 256 = 0, n |-> FALSE,
          h |-> Nibble(x) + Nibble(y) > 15, c |-> x + y > 255]]

cpu_adc(x, y, f) ==
  [r |-> (x + y + Bit(f.c)) % 256,
   f |-> [z |-> (x + y + Bit(f.c)) % 256 = 0, n |-> FALSE,
          h |-> Nibble(x) + Nibble(y) + Bit(f.c) > 15, c |-> x + y + Bit(f.c) > 255]]

cpu_sub(x, y, f) ==
  [r |-> (x - y) % 256,
   f |-> [z |-> x = y, n |-> TRUE, h |-> Nibble(y) > Nibble(x), c |-> y > x]]

(* Mutant: the operand and the carry are added in eight bits. *)
cpu_sbc_eight_bits(x, y, f) ==
  [r |-> (x - (y + Bit(f.c))) % 256,
   f |-> [z |-> (x - (y + Bit(f.c))) % 256 = 0, n |-> TRUE,
          h |-> Nibble(y) + Bit(f.c) > Nibble(x), c |-> (y + Bit(f.c)) % 256 > x]]

cpu_sbc(x, y, f) ==
  [r |-> (x - (y + Bit(f.c))) % 256,
   f |-> [z |-> (x - (y + Bit(f.c))) % 256 = 0, n |-> TRUE,
          h |-> Nibble(y) + Bit(f.c) > Nibble(x), c |-> y + Bit(f.c) > x]]

(* cpu_cp writes no register: its result is the operand it was given. *)
cpu_cp(x, y, f) == [r |-> x, f |-> cpu_sub(x, y, f).f]

cpu_inc(x, f) ==
  [r |-> (x + 1) % 256,
   f |-> [z |-> (x + 1) % 256 = 0, n |-> FALSE, h |-> Nibble(x) = 15, c |-> f.c]]

cpu_dec(x, f) ==
  [r |-> (x - 1) % 256,
   f |-> [z |-> (x - 1) % 256 = 0, n |-> TRUE, h |-> Nibble(x) = 0, c |-> f.c]]

------------------------------------------------------------------------------
(* Decimal adjustment of the last addition or subtraction. *)

DaaLow(x, f)  == IF (~f.n /\ Nibble(x) > 9) \/ f.h THEN 6 ELSE 0
DaaHigh(x, f) == (~f.n /\ x > 153) \/ f.c

(* Mutant: the upper digit is looked at after the lower one was adjusted. *)
cpu_daa_in_turn(x, f) ==
  LET low  == IF f.n THEN x - DaaLow(x, f) ELSE x + DaaLow(x, f)
      high == DaaHigh(low % 256, f)
      res  == (IF f.n THEN low - 96 * Bit(high) ELSE low + 96 * Bit(high)) % 256
  IN  [r |-> res, f |-> [z |-> res = 0, n |-> f.n, h |-> FALSE, c |-> high]]

cpu_daa(x, f) ==
  LET offset == DaaLow(x, f) + 96 * Bit(DaaHigh(x, f))
      res    == (IF f.n THEN x - offset ELSE x + offset) % 256
  IN  [r |-> res, f |-> [z |-> res = 0, n |-> f.n, h |-> FALSE, c |-> DaaHigh(x, f)]]

------------------------------------------------------------------------------
(* Words. *)

cpu_add16(x, y, f) ==
  [r |-> (x + y) % 65536,
   f |-> [z |-> f.z, n |-> FALSE,
          h |-> (x % 4096) + (y % 4096) > 4095, c |-> x + y > 65535]]

(* Mutant: the byte is added without its sign. *)
cpu_add_spd8_unsigned(sp, d8) ==
  [r |-> (sp + d8) % 65536,
   f |-> [z |-> FALSE, n |-> FALSE,
          h |-> Nibble(sp) + Nibble(d8) > 15, c |-> (sp % 256) + d8 > 255]]

(* The byte is signed, the flags are those of the low bytes. *)
cpu_add_spd8(sp, d8) ==
  [r |-> (sp + Signed(d8)) % 65536,
   f |-> [z |-> FALSE, n |-> FALSE,
          h |-> Nibble(sp) + Nibble(d8) > 15, c |-> (sp % 256) + d8 > 255]]

(* The same sum, for HL. *)
cpu_ld_sp_plus_d8(sp, d8) == cpu_add_spd8(sp, d8)

------------------------------------------------------------------------------
(* Rotations and shifts. *)

Shifted(res, carry) ==
  [r |-> res, f |-> [z |-> res = 0, n |-> FALSE, h |-> FALSE, c |-> carry]]

cpu_rlc(x, f) == Shifted(((2 * x) % 256) + (x \div 128), x >= 128)
cpu_rrc(x, f) == Shifted((x \div 2) + 128 * (x % 2), x % 2 = 1)

(* Mutant: the carry in is the one just shifted out. *)
cpu_rl_new_carry(x, f) == cpu_rlc(x, f)

cpu_rl(x, f)  == Shifted(((2 * x) % 256) + Bit(f.c), x >= 128)
cpu_rr(x, f)  == Shifted((x \div 2) + 128 * Bit(f.c), x % 2 = 1)
cpu_sla(x, f) == Shifted((2 * x) % 256, x >= 128)
cpu_sra(x, f) == Shifted((x \div 2) + 128 * (x \div 128), x % 2 = 1)
cpu_srl(x, f) == Shifted(x \div 2, x % 2 = 1)
cpu_swap(x, f) == Shifted((x \div 16) + 16 * Nibble(x), FALSE)

(* RLCA, RRCA, RLA and RRA. *)
ZeroCleared(out) == [out EXCEPT !.f.z = FALSE]

------------------------------------------------------------------------------
(* Bits and flags. *)

SetBits(x) == {i \in 0 .. 7 : (x \div 2^i) % 2 = 1}
Value(bits) ==
  LET At(i, weight) == IF i \in bits THEN weight ELSE 0
  IN  At(0, 1) + At(1, 2) + At(2, 4) + At(3, 8) + At(4, 16) + At(5, 32) + At(6, 64) + At(7, 128)

Logical(res, half) ==
  [r |-> res, f |-> [z |-> res = 0, n |-> FALSE, h |-> half, c |-> FALSE]]

cpu_and(x, y, f) == Logical(Value(SetBits(x) \cap SetBits(y)), TRUE)
cpu_or(x, y, f)  == Logical(Value(SetBits(x) \cup SetBits(y)), FALSE)
cpu_xor(x, y, f) ==
  Logical(Value((SetBits(x) \cup SetBits(y)) \ (SetBits(x) \cap SetBits(y))), FALSE)

cpu_cpl(x, f) == [r |-> 255 - x, f |-> [f EXCEPT !.n = TRUE, !.h = TRUE]]
cpu_scf(x, f) == [r |-> x, f |-> [f EXCEPT !.n = FALSE, !.h = FALSE, !.c = TRUE]]
cpu_ccf(x, f) == [r |-> x, f |-> [f EXCEPT !.n = FALSE, !.h = FALSE, !.c = ~@]]

cpu_bit(i, x, f) ==
  [r |-> x, f |-> [f EXCEPT !.z = i \notin SetBits(x), !.n = FALSE, !.h = TRUE]]
cpu_res(i, x, f) == [r |-> Value(SetBits(x) \ {i}), f |-> f]
cpu_set(i, x, f) == [r |-> Value(SetBits(x) \cup {i}), f |-> f]
===============================================================================
