------------------------------- MODULE AluProofs -------------------------------
(***************************************************************************)
(* The arithmetic of Alu for every pair of bytes and every flags: what the   *)
(* runs of AluProgram show for the operands they load holds for all.          *)
(***************************************************************************)
EXTENDS AluProgram, TLAPS

(* Every result fits the register it goes to.                                *)
TypeOK == a \in Byte /\ b \in Byte /\ flags \in Flags

Outcomes == [r : Byte, f : Flags]

LEMMA ValueIsByte == \A bits : Value(bits) \in Byte
  BY DEF Value, Byte

LEMMA ArithmeticIsByte ==
  ASSUME NEW x \in Byte, NEW y \in Byte, NEW f \in Flags
  PROVE  /\ cpu_add(x, y, f) \in Outcomes
         /\ cpu_adc(x, y, f) \in Outcomes
         /\ cpu_sub(x, y, f) \in Outcomes
         /\ cpu_sbc(x, y, f) \in Outcomes
         /\ cpu_cp(x, y, f) \in Outcomes
         /\ cpu_inc(x, f) \in Outcomes
         /\ cpu_dec(x, f) \in Outcomes
<1> USE DEF Outcomes, Byte, Flags, Bit
<1>1. cpu_add(x, y, f) \in Outcomes
  <2>1. (x + y) % 256 \in 0 .. 255
    OBVIOUS
  <2> QED BY <2>1 DEF cpu_add
<1>2. cpu_adc(x, y, f) \in Outcomes
  BY DEF cpu_adc
<1>3. cpu_sub(x, y, f) \in Outcomes
  <2>1. (x - y) % 256 \in 0 .. 255
    OBVIOUS
  <2> QED BY <2>1 DEF cpu_sub
<1>4. cpu_sbc(x, y, f) \in Outcomes
  BY DEF cpu_sbc
<1>5. cpu_cp(x, y, f) \in Outcomes
  BY DEF cpu_cp, cpu_sub
<1>6. cpu_inc(x, f) \in Outcomes
  BY DEF cpu_inc
<1>7. cpu_dec(x, f) \in Outcomes
  BY DEF cpu_dec
<1> QED BY <1>1, <1>2, <1>3, <1>4, <1>5, <1>6, <1>7

LEMMA DaaIsByte ==
  ASSUME NEW x \in Byte, NEW f \in Flags
  PROVE  cpu_daa(x, f) \in Outcomes
<1>1. DaaLow(x, f) \in {0, 6} /\ DaaHigh(x, f) \in BOOLEAN
  BY DEF DaaLow, DaaHigh, Flags
<1>2. Bit(DaaHigh(x, f)) \in {0, 1}
  BY DEF Bit
<1> DEFINE offset == DaaLow(x, f) + 96 * Bit(DaaHigh(x, f))
           res    == (IF f.n THEN x - offset ELSE x + offset) % 256
<1>3. res \in Byte
  BY <1>1, <1>2 DEF Byte
<1> QED BY <1>1, <1>3 DEF cpu_daa, Outcomes, Flags

LEMMA ShiftsAreBytes ==
  ASSUME NEW x \in Byte, NEW f \in Flags
  PROVE  /\ cpu_rlc(x, f) \in Outcomes
         /\ cpu_rrc(x, f) \in Outcomes
         /\ cpu_rl(x, f) \in Outcomes
         /\ cpu_rr(x, f) \in Outcomes
         /\ cpu_sla(x, f) \in Outcomes
         /\ cpu_sra(x, f) \in Outcomes
         /\ cpu_srl(x, f) \in Outcomes
         /\ cpu_swap(x, f) \in Outcomes
<1> USE DEF Outcomes, Byte, Flags, Bit, Shifted
<1>1. cpu_rlc(x, f) \in Outcomes
  BY DEF cpu_rlc
<1>2. cpu_rrc(x, f) \in Outcomes
  BY DEF cpu_rrc
<1>3. cpu_rl(x, f) \in Outcomes
  BY DEF cpu_rl
<1>4. cpu_rr(x, f) \in Outcomes
  BY DEF cpu_rr
<1>5. cpu_sla(x, f) \in Outcomes
  BY DEF cpu_sla
<1>6. cpu_sra(x, f) \in Outcomes
  BY DEF cpu_sra
<1>7. cpu_srl(x, f) \in Outcomes
  BY DEF cpu_srl
<1>8. cpu_swap(x, f) \in Outcomes
  BY DEF cpu_swap, Nibble
<1> QED BY <1>1, <1>2, <1>3, <1>4, <1>5, <1>6, <1>7, <1>8

(* SUB and ADD, SBC and ADC, INC and DEC undo each other.                    *)
LEMMA UndoneForAllBytes == TypeOK => SubtractionUndone
<1> SUFFICES ASSUME TypeOK PROVE SubtractionUndone
  OBVIOUS
<1> USE DEF TypeOK, Byte
<1>1. LET d == cpu_sub(a, b, flags)
          s == cpu_add(d.r, b, flags)
      IN  s.r = a /\ s.f.c = d.f.c /\ s.f.h = d.f.h
  BY DEF cpu_sub, cpu_add, Nibble
<1>2. LET d == cpu_sbc(a, b, flags)
          s == cpu_adc(d.r, b, flags)
      IN  s.r = a /\ s.f.c = d.f.c /\ s.f.h = d.f.h
  BY DEF cpu_sbc, cpu_adc, Nibble, Bit
<1>3. LET up == cpu_inc(a, flags)
          down == cpu_dec(up.r, flags)
      IN  down.r = a /\ up.f.h = down.f.h /\ up.f.z = cpu_add(a, 1, flags).f.z
  BY DEF cpu_inc, cpu_dec, cpu_add, Nibble
<1> QED BY <1>1, <1>2, <1>3 DEF SubtractionUndone

LEMMA LogicalIsByte ==
  \A bits, half : half \in BOOLEAN => Logical(Value(bits), half) \in Outcomes
<1> SUFFICES ASSUME NEW bits, NEW half \in BOOLEAN
             PROVE  Logical(Value(bits), half) \in Outcomes
  OBVIOUS
<1>1. Value(bits) \in Byte
  BY ValueIsByte
<1> QED BY <1>1 DEF Logical, Outcomes, Flags

LEMMA LogicIsByte ==
  ASSUME NEW x \in Byte, NEW y \in Byte, NEW f \in Flags, NEW i
  PROVE  /\ cpu_and(x, y, f) \in Outcomes
         /\ cpu_or(x, y, f) \in Outcomes
         /\ cpu_xor(x, y, f) \in Outcomes
         /\ cpu_cpl(x, f) \in Outcomes
         /\ cpu_scf(x, f) \in Outcomes
         /\ cpu_ccf(x, f) \in Outcomes
         /\ cpu_bit(i, x, f) \in Outcomes
         /\ cpu_res(i, x, f) \in Outcomes
         /\ cpu_set(i, x, f) \in Outcomes
<1>1. cpu_and(x, y, f) \in Outcomes /\ cpu_or(x, y, f) \in Outcomes
      /\ cpu_xor(x, y, f) \in Outcomes
  BY LogicalIsByte DEF cpu_and, cpu_or, cpu_xor
<1>2. cpu_cpl(x, f) \in Outcomes
  <2>1. 255 - x \in Byte
    BY DEF Byte
  <2>2. [f EXCEPT !.n = TRUE, !.h = TRUE] \in Flags
    BY DEF Flags
  <2> QED BY <2>1, <2>2 DEF cpu_cpl, Outcomes
<1>3. cpu_scf(x, f) \in Outcomes /\ cpu_ccf(x, f) \in Outcomes
  BY DEF cpu_scf, cpu_ccf, Outcomes, Flags
<1>4. cpu_bit(i, x, f) \in Outcomes
  BY DEF cpu_bit, Outcomes, Flags
<1>5. cpu_res(i, x, f) \in Outcomes /\ cpu_set(i, x, f) \in Outcomes
  BY ValueIsByte DEF cpu_res, cpu_set, Outcomes
<1> QED BY <1>1, <1>2, <1>3, <1>4, <1>5

LEMMA BecomesByte ==
  ASSUME TypeOK, NEW out \in Outcomes, Becomes(out)
  PROVE  TypeOK'
  BY DEF TypeOK, Outcomes, Becomes

LEMMA TypeKept == TypeOK /\ [Next]_vars => TypeOK'
<1> SUFFICES ASSUME TypeOK, [Next]_vars PROVE TypeOK'
  OBVIOUS
<1> USE DEF TypeOK
<1>1. CASE Load
  BY <1>1, OperandsAssumption DEF Load
<1>2. CASE PopFlags
  BY <1>2 DEF PopFlags
<1>3. CASE Arithmetic
  <2>1. PICK out \in Outcomes : Becomes(out)
    BY <1>3, ArithmeticIsByte, DaaIsByte DEF Arithmetic
  <2> QED BY <2>1, BecomesByte
<1>4. CASE Logic
  <2>1. PICK out \in Outcomes : Becomes(out)
    BY <1>4, LogicIsByte DEF Logic
  <2> QED BY <2>1, BecomesByte
<1>5. CASE Shift
  <2>1. \A out \in Outcomes : ZeroCleared(out) \in Outcomes
    BY DEF Outcomes, Flags, ZeroCleared
  <2>2. PICK out \in Outcomes : Becomes(out)
    BY <1>5, <2>1, ShiftsAreBytes DEF Shift
  <2> QED BY <2>2, BecomesByte
<1>6. CASE UNCHANGED vars
  BY <1>6 DEF vars
<1> QED BY <1>1, <1>2, <1>3, <1>4, <1>5, <1>6 DEF Next

LEMMA AlwaysBytes == Spec => []TypeOK
<1>1. Init => TypeOK
  BY DEF Init, TypeOK, Byte, Flags
<1> QED BY <1>1, TypeKept, PTL DEF Spec

(* Whatever a program loads and does, what SUB or SBC took ADD or ADC gives  *)
(* back, with carries where the borrows were, and INC and DEC undo each      *)
(* other (cpu_add to cpu_sbc, cpu_inc, cpu_dec).                              *)
THEOREM SubtractionAlwaysUndone == Spec => []SubtractionUndone
  BY AlwaysBytes, UndoneForAllBytes, PTL

------------------------------------------------------------------------------
(* The parts of a byte that the shifts move.                                  *)
Half(x) == x \div 2
Low(x) == x % 2
Top(x) == x \div 128
Double(x) == (2 * x) % 256

LEMMA LowBit ==
  ASSUME NEW x \in Byte
  PROVE  x = 2 * Half(x) + Low(x) /\ Half(x) \in 0 .. 127 /\ Low(x) \in 0 .. 1
<1>1. x \in 0 .. 255 /\ Half(x) \in Int /\ Low(x) \in 0 .. 1
  BY DEF Byte, Half, Low
<1>2. x = 2 * Half(x) + Low(x)
  BY <1>1 DEF Half, Low
<1>3. Half(x) \in 0 .. 127
  BY <1>1, <1>2
<1> QED BY <1>1, <1>2, <1>3

LEMMA TopBit ==
  ASSUME NEW x \in Byte
  PROVE  \/ x \in 0 .. 127 /\ Top(x) = 0 /\ Double(x) = 2 * x
         \/ x \in 128 .. 255 /\ Top(x) = 1 /\ Double(x) = 2 * x - 256
<1>1. CASE x \in 0 .. 127
  BY <1>1 DEF Top, Double
<1>2. CASE x \in 128 .. 255
  BY <1>2 DEF Top, Double
<1> QED BY <1>1, <1>2 DEF Byte

LEMMA Joined ==
  ASSUME NEW high \in Int, NEW low \in 0 .. 1
  PROVE  (2 * high + low) \div 2 = high /\ (2 * high + low) % 2 = low
  OBVIOUS

(* The carry of each shift, as a number.                                      *)
LEMMA Carried ==
  ASSUME NEW x \in Byte
  PROVE  Bit(x >= 128) = Top(x) /\ Bit(x % 2 = 1) = Low(x)
<1>1. Bit(x >= 128) = Top(x)
  BY TopBit DEF Bit
<1>2. Bit(x % 2 = 1) = Low(x)
  BY LowBit DEF Bit, Low
<1> QED BY <1>1, <1>2

LEMMA ShiftedBack ==
  ASSUME NEW x \in Byte, NEW c \in 0 .. 1
  PROVE  /\ (Double(x) + c) \div 2 + 128 * Top(x) = x
         /\ (Double(x) + c) % 2 = c
<1>1. CASE x \in 0 .. 127 /\ Top(x) = 0 /\ Double(x) = 2 * x
  <2>1. (2 * x + c) \div 2 = x /\ (2 * x + c) % 2 = c
    BY <1>1, Joined
  <2> QED BY <1>1, <2>1
<1>2. CASE x \in 128 .. 255 /\ Top(x) = 1 /\ Double(x) = 2 * x - 256
  <2>1. (2 * (x - 128) + c) \div 2 = x - 128 /\ (2 * (x - 128) + c) % 2 = c
    BY <1>2, Joined
  <2>2. Double(x) + c = 2 * (x - 128) + c
    BY <1>2
  <2> QED BY <1>2, <2>1, <2>2
<1> QED BY <1>1, <1>2, TopBit

LEMMA ShiftsUndoneForAllBytes == TypeOK => ShiftsUndone
<1> SUFFICES ASSUME TypeOK PROVE ShiftsUndone
  OBVIOUS
<1>a. a \in Byte
  BY DEF TypeOK
<1>c. Bit(flags.c) \in 0 .. 1 /\ (Bit(flags.c) = 1) = flags.c
  BY DEF TypeOK, Flags, Bit
<1>1. LET o == cpu_rlc(a, flags) IN cpu_rrc(o.r, o.f).r = a
  BY <1>a DEF cpu_rlc, cpu_rrc, Shifted, Byte
<1>2. LET o == cpu_rl(a, flags) IN cpu_rr(o.r, o.f).r = a
  <2>1. (Double(a) + Bit(flags.c)) \div 2 + 128 * Bit(a >= 128) = a
    BY <1>a, <1>c, Carried, ShiftedBack
  <2> QED BY <2>1, Zenon DEF cpu_rl, cpu_rr, Shifted, Double
<1>3. LET o == cpu_rl(a, flags) IN cpu_rr(o.r, o.f).f.c = flags.c
  <2>1. (Double(a) + Bit(flags.c)) % 2 = Bit(flags.c)
    BY <1>a, <1>c, ShiftedBack
  <2> QED BY <2>1, <1>c DEF cpu_rl, cpu_rr, Shifted, Double
<1>4. LET o == cpu_sla(a, flags) IN cpu_rr(o.r, o.f).r = a
  <2>1. Double(a) + 0 = Double(a)
    BY <1>a DEF Byte, Double
  <2>2. Double(a) \div 2 + 128 * Bit(a >= 128) = a
    BY <2>1, <1>a, Carried, ShiftedBack
  <2> QED BY <2>2, Zenon DEF cpu_sla, cpu_rr, Shifted, Double
<1>5. LET o == cpu_srl(a, flags) IN cpu_rl(o.r, o.f).r = a
  <2>1. \A h \in 0 .. 127 : Double(h) = 2 * h
    BY DEF Double
  <2>2. Double(Half(a)) + Bit(a % 2 = 1) = a
    BY <2>1, <1>a, LowBit, Carried
  <2> QED BY <2>2, Zenon DEF cpu_srl, cpu_rl, Shifted, Half, Double
<1>6. LET o == cpu_swap(a, flags) IN cpu_swap(o.r, o.f).r = a
  BY <1>a DEF cpu_swap, Nibble, Shifted, Byte
<1>7. LET o == cpu_sra(a, flags) IN 2 * Signed(o.r) + Bit(o.f.c) = Signed(a)
  <2>1. a = 2 * Half(a) + Low(a) /\ Half(a) \in 0 .. 127 /\ Low(a) \in 0 .. 1
    BY <1>a, LowBit
  <2>2. 2 * Signed(Half(a) + 128 * Top(a)) + Bit(a % 2 = 1) = Signed(a)
    <3>1. CASE a \in 0 .. 127 /\ Top(a) = 0
      BY <3>1, <2>1, <1>a, Carried DEF Signed
    <3>2. CASE a \in 128 .. 255 /\ Top(a) = 1
      BY <3>2, <2>1, <1>a, Carried DEF Signed
    <3> QED BY <3>1, <3>2, <1>a, TopBit
  <2> QED BY <2>2, Zenon DEF cpu_sra, Shifted, Half, Top
<1> QED BY <1>1, <1>2, <1>3, <1>4, <1>5, <1>6, <1>7 DEF ShiftsUndone

(* Whatever a program loads and does, the rotations and shifts undo each     *)
(* other in pairs, and SRA halves a signed byte exactly, its remainder in    *)
(* the carry (cpu_rlc to cpu_srl).                                            *)
THEOREM ShiftsAlwaysUndone == Spec => []ShiftsUndone
  BY AlwaysBytes, ShiftsUndoneForAllBytes, PTL

------------------------------------------------------------------------------
(* What the 8 and the 16 bits of a sum keep, and what they carry out.         *)
InByte(n) == n % 256
InWord(n) == n % 65536
Over(n) == Bit(n > 255)

Wraps(n) ==
  /\ InByte(n) = n - 256 * Over(n) /\ InByte(n) \in 0 .. 255
  /\ Over(n) \in 0 .. 1 /\ (Over(n) = 1 <=> n > 255)

LEMMA ByteWraps ==
  ASSUME NEW n \in 0 .. 511
  PROVE  Wraps(n)
<1>1. CASE n \in 0 .. 255
  BY <1>1 DEF Bit, InByte, Over, Wraps
<1>2. CASE n \in 256 .. 511
  BY <1>2 DEF Bit, InByte, Over, Wraps
<1> QED BY <1>1, <1>2

LEMMA WordWraps ==
  ASSUME NEW n \in Int, 0 <= n + 65536, n < 131072
  PROVE  /\ 0 <= n /\ n < 65536 => InWord(n) = n
         /\ 65536 <= n => InWord(n) = n - 65536
         /\ n < 0 => InWord(n) = n + 65536
  BY DEF InWord

LEMMA NibbleOfSum ==
  ASSUME NEW q \in Int, NEW r \in 0 .. 15
  PROVE  Nibble(16 * q + r) = r
  BY DEF Nibble

Upper(x) == x \div 16

LEMMA Digits ==
  ASSUME NEW x \in Byte
  PROVE  /\ Nibble(x) \in 0 .. 15 /\ Upper(x) \in 0 .. 15
         /\ x = 16 * Upper(x) + Nibble(x)
<1>1. x \in 0 .. 255 /\ Upper(x) \in Int /\ Nibble(x) \in 0 .. 15
  BY DEF Nibble, Byte, Upper
<1>2. x = 16 * Upper(x) + Nibble(x)
  BY <1>1 DEF Nibble, Upper
<1>3. Upper(x) \in 0 .. 15
  BY DEF Byte, Upper
<1> QED BY <1>1, <1>2, <1>3

(* The lower digit of a word is that of its lower byte; its lower twelve bits *)
(* are that byte and the lower digit of the upper one.                        *)
Twelve(n) == n % 4096

LEMMA WordParts ==
  ASSUME NEW hi \in Byte, NEW lo \in Byte
  PROVE  /\ Nibble(256 * hi + lo) = Nibble(lo)
         /\ InByte(256 * hi + lo) = lo
         /\ Twelve(256 * hi + lo) = 256 * Nibble(hi) + lo
<1> DEFINE p == 16 * hi + Upper(lo)
           n == 256 * Nibble(hi) + lo
<1>1. InByte(256 * hi + lo) = lo
  BY DEF Byte, InByte
<1>a. /\ hi \in 0 .. 255 /\ hi = 16 * Upper(hi) + Nibble(hi)
      /\ Nibble(hi) \in 0 .. 15 /\ Upper(hi) \in 0 .. 15
  BY Digits DEF Byte
<1>b. /\ lo \in 0 .. 255 /\ lo = 16 * Upper(lo) + Nibble(lo)
      /\ Nibble(lo) \in 0 .. 15 /\ Upper(lo) \in 0 .. 15
  BY Digits DEF Byte
<1>2. p \in Int /\ 256 * hi + lo = 16 * p + Nibble(lo)
  <2>1. p \in Int
    BY <1>a, <1>b
  <2>2. 16 * p = 256 * hi + 16 * Upper(lo)
    BY <1>a, <1>b
  <2> HIDE DEF p
  <2> QED BY <2>1, <2>2, <1>a, <1>b
<1>3. n \in Int /\ 0 <= n /\ n < 4096 /\ 256 * hi + lo = 4096 * Upper(hi) + n
  <2>1. n \in Int /\ 0 <= n /\ n < 4096
    BY <1>a, <1>b
  <2>2. 256 * hi + lo = 4096 * Upper(hi) + n
    BY <1>a, <1>b
  <2> QED BY <2>1, <2>2
<1> HIDE DEF p, n
<1>4. Nibble(16 * p + Nibble(lo)) = Nibble(lo)
  BY <1>2, <1>b, NibbleOfSum
<1>5. Twelve(4096 * Upper(hi) + n) = n
  BY <1>3, <1>a DEF Twelve
<1>6. Nibble(256 * hi + lo) = Nibble(lo)
  BY <1>2, <1>4, Zenon
<1>7. Twelve(256 * hi + lo) = n
  BY <1>3, <1>5
<1> QED BY <1>1, <1>6, <1>7, Zenon DEF n

LEMMA ChainIsSum ==
  ASSUME NEW hi1 \in Byte, NEW lo1 \in Byte, NEW hi2 \in Byte, NEW lo2 \in Byte
  PROVE  LET k == Over(lo1 + lo2)
             chain == Chain(hi1, lo1, hi2, lo2)
         IN  /\ chain.r = 256 * InByte(hi1 + hi2 + k) + InByte(lo1 + lo2)
             /\ chain.high.c = (hi1 + hi2 + k > 255)
             /\ chain.high.h = (Nibble(hi1) + Nibble(hi2) + k > 15)
             /\ chain.low.c = (lo1 + lo2 > 255)
             /\ chain.low.h = (Nibble(lo1) + Nibble(lo2) > 15)
  BY Zenon DEF Chain, cpu_add, cpu_adc, InByte, Over

(* Two words, byte by byte.                                                    *)
LEMMA WordSum ==
  ASSUME NEW hi1 \in Byte, NEW lo1 \in Byte, NEW hi2 \in Byte, NEW lo2 \in Byte
  PROVE  LET k == Over(lo1 + lo2)
             x == 256 * hi1 + lo1
             y == 256 * hi2 + lo2
         IN  /\ InWord(x + y) = 256 * InByte(hi1 + hi2 + k) + InByte(lo1 + lo2)
             /\ (x + y > 65535) = (hi1 + hi2 + k > 255)
             /\ (Twelve(x) + Twelve(y) > 4095) = (Nibble(hi1) + Nibble(hi2) + k > 15)
<1> DEFINE l == lo1 + lo2
           k == Over(l)
           h == hi1 + hi2 + k
           x == 256 * hi1 + lo1
           y == 256 * hi2 + lo2
           n == x + y
<1>1. Twelve(x) = 256 * Nibble(hi1) + lo1 /\ Twelve(y) = 256 * Nibble(hi2) + lo2
  BY WordParts
<1>2. l \in 0 .. 511 /\ l = lo1 + lo2
  BY DEF Byte
<1>3. n \in Int /\ 0 <= n /\ n < 131072 /\ n = 256 * (hi1 + hi2) + l
  BY DEF Byte
<1>4. h = hi1 + hi2 + k
  OBVIOUS
<1> HIDE DEF l, h, n, x, y
<1>5. InByte(l) = l - 256 * k /\ InByte(l) \in 0 .. 255 /\ k \in 0 .. 1 /\ (k = 1 <=> l > 255)
  <2>1. Wraps(l)
    BY <1>2, ByteWraps
  <2> QED BY <2>1, Zenon DEF Wraps
<1> HIDE DEF k
<1>6. h \in 0 .. 511
  BY <1>4, <1>5 DEF Byte
<1>7. InByte(h) = h - 256 * Over(h) /\ Over(h) \in 0 .. 1 /\ (Over(h) = 1 <=> h > 255)
  <2>1. Wraps(h)
    BY <1>6, ByteWraps
  <2> QED BY <2>1 DEF Wraps
<1>8. n = 256 * h + InByte(l)
  BY <1>3, <1>4, <1>5, <1>2 DEF Byte
<1>9. (n > 65535) = (h > 255)
  BY <1>8, <1>5, <1>6
<1>10. InWord(n) = 256 * InByte(h) + InByte(l)
  <2>1. CASE h > 255
    <3>1. InWord(n) = n - 65536
      BY <1>3, <1>9, <2>1, WordWraps
    <3> QED BY <3>1, <2>1, <1>5, <1>6, <1>7, <1>8
  <2>2. CASE h <= 255
    <3>1. InWord(n) = n
      BY <1>3, <1>8, <1>5, <1>6, <2>2, WordWraps
    <3> QED BY <3>1, <2>2, <1>5, <1>6, <1>7, <1>8
  <2> QED BY <2>1, <2>2, <1>6
<1>11. (Twelve(x) + Twelve(y) > 4095) = (Nibble(hi1) + Nibble(hi2) + k > 15)
  <2>1. Nibble(hi1) \in 0 .. 15 /\ Nibble(hi2) \in 0 .. 15
    BY Digits
  <2> QED BY <1>1, <1>2, <1>5, <2>1 DEF Byte
<1> QED BY <1>9, <1>10, <1>11 DEF k, l, h, n, x, y

(* A word and a signed byte, which is a word whose upper byte is its sign.    *)
LEMMA WordAndByte ==
  ASSUME NEW hi \in Byte, NEW lo \in Byte, NEW d \in Byte
  PROVE  LET sign == IF d < 128 THEN 0 ELSE 255
             x == 256 * hi + lo
         IN  InWord(x + Signed(d)) = InWord(x + (256 * sign + d))
<1> DEFINE x == 256 * hi + lo
<1>1. x \in Int /\ 0 <= x /\ x < 65536
  BY DEF Byte
<1> HIDE DEF x
<1>2. CASE d < 128
  BY <1>2 DEF Byte, Signed
<1>3. CASE d >= 128
  <2>1. Signed(d) = d - 256 /\ 256 * 255 + d = 65280 + d
    BY <1>3 DEF Byte, Signed
  <2>2. \A n \in Int : 0 <= n + 65536 /\ n < 65536 => InWord(n) = InWord(n + 65536)
    BY WordWraps
  <2>3. x + (d - 256) \in Int /\ 0 <= x + (d - 256) + 65536 /\ x + (d - 256) < 65536
        /\ x + (d - 256) + 65536 = x + (65280 + d)
    BY <1>1, <1>3 DEF Byte
  <2> QED BY <1>3, <2>1, <2>2, <2>3 DEF Byte
<1> QED BY <1>2, <1>3 DEF Byte, x

LEMMA ByteSumsMakeWords == TypeOK => BytesMakeWords
<1> SUFFICES ASSUME TypeOK, NEW lo1 \in {0, 15, 241, 255}, NEW lo2 \in {0, 15, 241, 255}
             PROVE  /\ LET chain == Chain(a, lo1, b, lo2)
                            word  == cpu_add16(256 * a + lo1, 256 * b + lo2, flags)
                        IN  /\ word.r = chain.r
                            /\ word.f.c = chain.high.c
                            /\ word.f.h = chain.high.h
                    /\ LET chain == Chain(a, lo1, IF b < 128 THEN 0 ELSE 255, b)
                            word  == cpu_ld_sp_plus_d8(256 * a + lo1, b)
                        IN  /\ word.r = chain.r
                            /\ word.f.c = chain.low.c
                            /\ word.f.h = chain.low.h
  BY DEF BytesMakeWords
<1>1. a \in Byte /\ b \in Byte /\ lo1 \in Byte /\ lo2 \in Byte
  BY DEF TypeOK, Byte
<1>2. LET chain == Chain(a, lo1, b, lo2)
          word  == cpu_add16(256 * a + lo1, 256 * b + lo2, flags)
      IN  word.r = chain.r /\ word.f.c = chain.high.c /\ word.f.h = chain.high.h
  <2>1. \A x, y : LET word == cpu_add16(x, y, flags)
                 IN  /\ word.r = InWord(x + y) /\ word.f.c = (x + y > 65535)
                     /\ word.f.h = (Twelve(x) + Twelve(y) > 4095)
    BY DEF cpu_add16, InWord, Twelve
  <2>2. LET chain == Chain(a, lo1, b, lo2)
            x == 256 * a + lo1
            y == 256 * b + lo2
        IN  /\ InWord(x + y) = chain.r /\ (x + y > 65535) = chain.high.c
            /\ (Twelve(x) + Twelve(y) > 4095) = chain.high.h
    <3> DEFINE k == Over(lo1 + lo2)
               x == 256 * a + lo1
               y == 256 * b + lo2
    <3>1. /\ InWord(x + y) = 256 * InByte(a + b + k) + InByte(lo1 + lo2)
          /\ (x + y > 65535) = (a + b + k > 255)
          /\ (Twelve(x) + Twelve(y) > 4095) = (Nibble(a) + Nibble(b) + k > 15)
      BY <1>1, WordSum
    <3>2. LET chain == Chain(a, lo1, b, lo2)
          IN  /\ chain.r = 256 * InByte(a + b + k) + InByte(lo1 + lo2)
              /\ chain.high.c = (a + b + k > 255)
              /\ chain.high.h = (Nibble(a) + Nibble(b) + k > 15)
      BY <1>1, ChainIsSum
    <3> HIDE DEF k, x, y
    <3>3. LET chain == Chain(a, lo1, b, lo2)
          IN  /\ InWord(x + y) = chain.r /\ (x + y > 65535) = chain.high.c
              /\ (Twelve(x) + Twelve(y) > 4095) = chain.high.h
      BY <3>1, <3>2
    <3> QED BY <3>3 DEF x, y
  <2> QED BY <2>1, <2>2
<1> DEFINE sign == IF b < 128 THEN 0 ELSE 255
<1>3. sign \in Byte
  BY DEF Byte
<1>4. LET chain == Chain(a, lo1, sign, b)
          word  == cpu_ld_sp_plus_d8(256 * a + lo1, b)
      IN  word.r = chain.r /\ word.f.c = chain.low.c /\ word.f.h = chain.low.h
  <2>1. InWord(256 * a + lo1 + Signed(b)) = InWord(256 * a + lo1 + (256 * sign + b))
    BY <1>1, WordAndByte
  <2> HIDE DEF sign
  <2>2. InWord(256 * a + lo1 + Signed(b)) = Chain(a, lo1, sign, b).r
    BY <2>1, <1>1, <1>3, WordSum, ChainIsSum
  <2>3. /\ Nibble(256 * a + lo1) = Nibble(lo1) /\ InByte(256 * a + lo1) = lo1
    BY <1>1, WordParts
  <2>4. LET chain == Chain(a, lo1, sign, b)
        IN  chain.low.c = (lo1 + b > 255) /\ chain.low.h = (Nibble(lo1) + Nibble(b) > 15)
    BY <1>1, <1>3, ChainIsSum
  <2> QED BY <2>2, <2>3, <2>4 DEF cpu_ld_sp_plus_d8, cpu_add_spd8, InWord, InByte
<1> QED BY <1>2, <1>4

(* ADD and ADC of the bytes of two words is ADD HL of the words, and of a    *)
(* word and a signed byte ADD SP and LD HL, SP+, flags included, for any      *)
(* upper bytes (cpu_add16, cpu_add_spd8).                                     *)
THEOREM BytesAlwaysMakeWords == Spec => []BytesMakeWords
  BY AlwaysBytes, ByteSumsMakeWords, PTL

------------------------------------------------------------------------------
(* A sum or difference of packed decimals, digit by digit: dl and dh are what *)
(* its digits carry, hi and lo the digits that remain.                        *)
Corrects(out, m, dl, dh, hi, lo) ==
  /\ DaaLow(out.r, out.f) = 6 * dl /\ DaaHigh(out.r, out.f) = (dh = 1)
  /\ InByte(IF out.f.n THEN out.r - (6 * dl + 96 * dh) ELSE out.r + (6 * dl + 96 * dh))
       = 16 * hi + lo
  /\ m = 10 * hi + lo + 100 * dh \/ m = 10 * hi + lo - 100 * dh

LEMMA Adjusts ==
  ASSUME NEW out, NEW m \in Int, NEW dl \in 0 .. 1, NEW dh \in 0 .. 1,
         NEW hi \in 0 .. 9, NEW lo \in 0 .. 9, Corrects(out, m, dl, dh, hi, lo)
  PROVE  Adjusted(out, m)
<1> USE DEF Corrects
<1> DEFINE adjusted == cpu_daa(out.r, out.f)
<1>1. adjusted.r = 16 * hi + lo /\ adjusted.f.c = (dh = 1)
  <2>1. Bit(DaaHigh(out.r, out.f)) = dh
    <3>1. CASE dh = 0
      BY <3>1 DEF Bit
    <3>2. CASE dh = 1
      BY <3>2 DEF Bit
    <3> QED BY <3>1, <3>2
  <2> QED BY <2>1 DEF cpu_daa, InByte
<1>2. Nibble(16 * hi + lo) = lo /\ Upper(16 * hi + lo) = hi
  BY DEF Nibble, Upper
<1>3. IsDecimal(16 * hi + lo) /\ Decimal(16 * hi + lo) = 10 * hi + lo
  BY <1>2 DEF IsDecimal, Decimal, Upper
<1>4. 10 * hi + lo \in 0 .. 99
  OBVIOUS
<1>5. m % 100 = 10 * hi + lo /\ (m \notin 0 .. 99) = (dh = 1)
  <2>1. CASE dh = 0
    BY <2>1, <1>4
  <2>2. CASE dh = 1
    BY <2>2, <1>4
  <2> QED BY <2>1, <2>2
<1> HIDE DEF adjusted
<1>6. IsDecimal(adjusted.r) /\ Decimal(adjusted.r) = m % 100 /\ adjusted.f.c = (m \notin 0 .. 99)
  BY <1>1, <1>3, <1>5
<1> QED BY <1>6, Zenon DEF Adjusted, adjusted

LEMMA Packed ==
  ASSUME NEW x \in Byte, IsDecimal(x)
  PROVE  /\ Upper(x) \in 0 .. 9 /\ Nibble(x) \in 0 .. 9
         /\ x = 16 * Upper(x) + Nibble(x) /\ Decimal(x) = 10 * Upper(x) + Nibble(x)
<1>1. Upper(x) <= 9 /\ Nibble(x) <= 9 /\ Decimal(x) = 10 * Upper(x) + Nibble(x)
  BY DEF IsDecimal, Decimal, Upper
<1> QED BY <1>1, Digits

LEMMA SumAdjusts ==
  ASSUME NEW x \in Byte, NEW y \in Byte, NEW c \in 0 .. 1, NEW out, IsDecimal(x), IsDecimal(y),
         out.r = InByte(x + y + c), out.f.n = FALSE,
         out.f.h = (Nibble(x) + Nibble(y) + c > 15), out.f.c = (x + y + c > 255)
  PROVE  Adjusted(out, Decimal(x) + Decimal(y) + c)
<1> DEFINE ux == Upper(x)
           nx == Nibble(x)
           uy == Upper(y)
           ny == Nibble(y)
<1>x. ux \in 0 .. 9 /\ nx \in 0 .. 9 /\ x = 16 * ux + nx /\ Decimal(x) = 10 * ux + nx
  BY Packed
<1>y. uy \in 0 .. 9 /\ ny \in 0 .. 9 /\ y = 16 * uy + ny /\ Decimal(y) = 10 * uy + ny
  BY Packed
<1>h. out.f.h = (nx + ny + c > 15)
  OBVIOUS
<1> HIDE DEF ux, nx, uy, ny
<1> DEFINE s  == x + y + c
           ls == nx + ny + c
           hs == ux + uy
           m  == Decimal(x) + Decimal(y) + c
<1>1. hs \in 0 .. 18 /\ ls \in 0 .. 19 /\ s = 16 * hs + ls /\ m = 10 * hs + ls
  <2>1. hs \in 0 .. 18 /\ ls \in 0 .. 19
    BY <1>x, <1>y
  <2>2. s = 16 * hs + ls
    BY <1>x, <1>y
  <2>3. m = 10 * hs + ls
    BY <1>x, <1>y
  <2> QED BY <2>1, <2>2, <2>3
<1>2. out.r = InByte(s) /\ out.f.n = FALSE /\ out.f.h = (ls > 15) /\ out.f.c = (s > 255)
  BY <1>h
<1> HIDE DEF s, ls, hs, m
<1> DEFINE dl == IF ls > 9 THEN 1 ELSE 0
           lo == ls - 10 * dl
           w  == IF ls > 15 THEN 1 ELSE 0
           l  == ls - 16 * w
           dh == IF hs + dl > 9 THEN 1 ELSE 0
           hi == hs + dl - 10 * dh
           k  == Over(s)
           q  == hs + w - 16 * k
<1>3. /\ dl \in 0 .. 1 /\ (dl = 1 <=> ls > 9)
      /\ w \in 0 .. 1 /\ (w = 1 <=> ls > 15)
      /\ l = ls - 16 * w /\ lo = ls - 10 * dl
  OBVIOUS
<1> HIDE DEF dl, w, l, lo
<1>4. dh \in 0 .. 1 /\ (dh = 1 <=> hs + dl > 9) /\ hi = hs + dl - 10 * dh
  BY <1>1, <1>3
<1> HIDE DEF dh, hi
<1>5. s \in 0 .. 511
  BY <1>1
<1>6. InByte(s) = s - 256 * k /\ k \in 0 .. 1 /\ (k = 1 <=> s > 255)
  <2>1. Wraps(s)
    BY <1>5, ByteWraps
  <2> QED BY <2>1 DEF Wraps
<1>7. q = hs + w - 16 * k
  OBVIOUS
<1> HIDE DEF k, q
<1>8. q \in Int /\ l \in 0 .. 15 /\ InByte(s) = 16 * q + l
  BY <1>1, <1>3, <1>6, <1>7
<1>9. Nibble(InByte(s)) = l
  BY <1>8, NibbleOfSum
<1>10. DaaLow(out.r, out.f) = 6 * dl
  <2>1. (l > 9 \/ ls > 15) = (dl = 1)
    BY <1>1, <1>3
  <2>2. ((~out.f.n /\ Nibble(out.r) > 9) \/ out.f.h) = (dl = 1)
    BY <2>1, <1>2, <1>9
  <2> QED BY <2>2, <1>3 DEF DaaLow
<1>11. (InByte(s) > 153 \/ s > 255) = (dh = 1)
  BY <1>1, <1>3, <1>4, <1>6
<1>12. DaaHigh(out.r, out.f) = (dh = 1)
  BY <1>2, <1>11 DEF DaaHigh
<1>13. hi \in 0 .. 9 /\ lo \in 0 .. 9
  BY <1>1, <1>3, <1>4
<1>14. out.r + (6 * dl + 96 * dh) = 256 * (dh - k) + (16 * hi + lo)
  BY <1>1, <1>2, <1>3, <1>4, <1>6
<1>15. InByte(out.r + (6 * dl + 96 * dh)) = 16 * hi + lo
  <2>1. \A p \in Int, n \in 0 .. 255 : InByte(256 * p + n) = n
    BY DEF InByte
  <2>2. dh - k \in Int /\ 16 * hi + lo \in 0 .. 255
    BY <1>4, <1>6, <1>13
  <2> QED BY <2>1, <2>2, <1>14
<1>16. m \in Int /\ m = 10 * hi + lo + 100 * dh
  BY <1>1, <1>3, <1>4
<1>17. Corrects(out, m, dl, dh, hi, lo)
  <2>1. InByte(IF out.f.n THEN out.r - (6 * dl + 96 * dh) ELSE out.r + (6 * dl + 96 * dh))
          = 16 * hi + lo
    BY <1>2, <1>15
  <2> QED BY <2>1, <1>10, <1>12, <1>16 DEF Corrects
<1>18. Adjusted(out, m)
  <2>1. /\ m \in Int /\ dl \in 0 .. 1 /\ dh \in 0 .. 1
        /\ hi \in 0 .. 9 /\ lo \in 0 .. 9
    BY <1>3, <1>4, <1>13, <1>16
  <2> QED BY <2>1, <1>17, Adjusts
<1> QED BY <1>18 DEF m

LEMMA DifferenceAdjusts ==
  ASSUME NEW x \in Byte, NEW y \in Byte, NEW c \in 0 .. 1, NEW out, IsDecimal(x), IsDecimal(y),
         out.r = InByte(x - (y + c)), out.f.n = TRUE,
         out.f.h = (Nibble(y) + c > Nibble(x)), out.f.c = (y + c > x)
  PROVE  Adjusted(out, Decimal(x) - Decimal(y) - c)
<1> DEFINE ux == Upper(x)
           nx == Nibble(x)
           uy == Upper(y)
           ny == Nibble(y)
<1>x. ux \in 0 .. 9 /\ nx \in 0 .. 9 /\ x = 16 * ux + nx /\ Decimal(x) = 10 * ux + nx
  BY Packed
<1>y. uy \in 0 .. 9 /\ ny \in 0 .. 9 /\ y = 16 * uy + ny /\ Decimal(y) = 10 * uy + ny
  BY Packed
<1>h. out.f.h = (ny + c > nx)
  OBVIOUS
<1> HIDE DEF ux, nx, uy, ny
<1> DEFINE d  == x - (y + c)
           ld == nx - (ny + c)
           hd == ux - uy
           m  == Decimal(x) - Decimal(y) - c
<1>1. hd \in -9 .. 9 /\ ld \in -10 .. 9 /\ d = 16 * hd + ld /\ m = 10 * hd + ld
  <2>1. hd \in -9 .. 9 /\ ld \in -10 .. 9
    BY <1>x, <1>y
  <2>2. d = 16 * hd + ld
    BY <1>x, <1>y
  <2>3. m = 10 * hd + ld
    BY <1>x, <1>y
  <2> QED BY <2>1, <2>2, <2>3
<1>2. out.r = InByte(d) /\ out.f.n = TRUE /\ out.f.h = (ld < 0) /\ out.f.c = (d < 0)
  <2>1. (ny + c > nx) = (ld < 0)
    BY <1>x, <1>y
  <2>2. (y + c > x) = (d < 0)
    BY DEF Byte
  <2> QED BY <2>1, <2>2, <1>h
<1> HIDE DEF d, ld, hd, m
<1> DEFINE dl == IF ld < 0 THEN 1 ELSE 0
           lo == ld + 10 * dl
           k  == IF d < 0 THEN 1 ELSE 0
           dh == IF hd - dl < 0 THEN 1 ELSE 0
           hi == hd - dl + 10 * dh
<1>3. /\ dl \in 0 .. 1 /\ (dl = 1 <=> ld < 0) /\ lo = ld + 10 * dl
      /\ k \in 0 .. 1 /\ (k = 1 <=> d < 0)
  OBVIOUS
<1> HIDE DEF dl, lo, k
<1>4. dh \in 0 .. 1 /\ (dh = 1 <=> hd - dl < 0) /\ hi = hd - dl + 10 * dh
  BY <1>1, <1>3
<1> HIDE DEF dh, hi
<1>5. InByte(d) = d + 256 * k
  <2>1. \A n \in -256 .. -1 : InByte(n) = n + 256
    BY DEF InByte
  <2>2. \A n \in 0 .. 255 : InByte(n) = n
    BY DEF InByte
  <2> QED BY <2>1, <2>2, <1>1, <1>3
<1>6. DaaLow(out.r, out.f) = 6 * dl
  <2>1. ((~out.f.n /\ Nibble(out.r) > 9) \/ out.f.h) = (dl = 1)
    BY <1>2, <1>3
  <2> QED BY <2>1, <1>3 DEF DaaLow
<1>7. (d < 0) = (dh = 1)
  BY <1>1, <1>3, <1>4
<1>8. DaaHigh(out.r, out.f) = (dh = 1)
  BY <1>2, <1>7 DEF DaaHigh
<1>9. hi \in 0 .. 9 /\ lo \in 0 .. 9
  BY <1>1, <1>3, <1>4
<1>10. out.r - (6 * dl + 96 * dh) = 256 * (k - dh) + (16 * hi + lo)
  BY <1>1, <1>2, <1>3, <1>4, <1>5
<1>11. InByte(out.r - (6 * dl + 96 * dh)) = 16 * hi + lo
  <2>1. \A p \in Int, n \in 0 .. 255 : InByte(256 * p + n) = n
    BY DEF InByte
  <2>2. k - dh \in Int /\ 16 * hi + lo \in 0 .. 255
    BY <1>3, <1>4, <1>9
  <2> QED BY <2>1, <2>2, <1>10
<1>12. m \in Int /\ m = 10 * hi + lo - 100 * dh
  <2>1. 10 * hd + ld = 10 * hi + lo - 100 * dh
    BY <1>1, <1>3, <1>4
  <2> QED BY <2>1, <1>1
<1>13. Corrects(out, m, dl, dh, hi, lo)
  <2>1. InByte(IF out.f.n THEN out.r - (6 * dl + 96 * dh) ELSE out.r + (6 * dl + 96 * dh))
          = 16 * hi + lo
    BY <1>2, <1>11
  <2> QED BY <2>1, <1>6, <1>8, <1>12 DEF Corrects
<1>14. Adjusted(out, m)
  <2>1. /\ m \in Int /\ dl \in 0 .. 1 /\ dh \in 0 .. 1
        /\ hi \in 0 .. 9 /\ lo \in 0 .. 9
    BY <1>3, <1>4, <1>9, <1>12
  <2> QED BY <2>1, <1>13, Adjusts
<1> QED BY <1>14 DEF m

LEMMA DecimalsAdjust == TypeOK => DecimalAdjust
<1> SUFFICES ASSUME TypeOK, IsDecimal(a), IsDecimal(b)
             PROVE  /\ Adjusted(cpu_add(a, b, flags), Decimal(a) + Decimal(b))
                    /\ Adjusted(cpu_adc(a, b, flags), Decimal(a) + Decimal(b) + Bit(flags.c))
                    /\ Adjusted(cpu_sub(a, b, flags), Decimal(a) - Decimal(b))
                    /\ Adjusted(cpu_sbc(a, b, flags), Decimal(a) - Decimal(b) - Bit(flags.c))
  BY DEF DecimalAdjust
<1> DEFINE c == Bit(flags.c)
<1>1. a \in Byte /\ b \in Byte /\ c \in 0 .. 1
  BY DEF TypeOK, Bit
<1>2. /\ a \in Int /\ b \in Int /\ Nibble(a) \in Int /\ Nibble(b) \in Int
      /\ Decimal(a) \in Int /\ Decimal(b) \in Int
  <2>1. a \in Int /\ b \in Int
    BY <1>1 DEF Byte
  <2>2. Nibble(a) \in 0 .. 9 /\ Decimal(a) = 10 * Upper(a) + Nibble(a) /\ Upper(a) \in 0 .. 9
    BY <1>1, Packed
  <2>3. Nibble(b) \in 0 .. 9 /\ Decimal(b) = 10 * Upper(b) + Nibble(b) /\ Upper(b) \in 0 .. 9
    BY <1>1, Packed
  <2>4. Nibble(a) \in Int /\ Decimal(a) \in Int
    BY <2>2
  <2>5. Nibble(b) \in Int /\ Decimal(b) \in Int
    BY <2>3
  <2> QED BY <2>1, <2>4, <2>5
<1> DEFINE none == 0
<1>0. none = 0 /\ none \in 0 .. 1
  OBVIOUS
<1> HIDE DEF none
<1>3. Adjusted(cpu_add(a, b, flags), Decimal(a) + Decimal(b))
  <2> DEFINE out == cpu_add(a, b, flags)
  <2>1. /\ out.r = InByte(a + b + none) /\ out.f.n = FALSE
        /\ out.f.h = (Nibble(a) + Nibble(b) + none > 15) /\ out.f.c = (a + b + none > 255)
    BY <1>0, <1>2 DEF cpu_add, InByte
  <2> HIDE DEF out
  <2>2. Adjusted(out, Decimal(a) + Decimal(b) + none)
    BY <2>1, <1>0, <1>1, SumAdjusts
  <2>3. Decimal(a) + Decimal(b) + none = Decimal(a) + Decimal(b)
    BY <1>0, <1>2
  <2> QED BY <2>2, <2>3 DEF out
<1>4. Adjusted(cpu_adc(a, b, flags), Decimal(a) + Decimal(b) + c)
  <2> DEFINE out == cpu_adc(a, b, flags)
  <2>1. /\ out.r = InByte(a + b + c) /\ out.f.n = FALSE
        /\ out.f.h = (Nibble(a) + Nibble(b) + c > 15) /\ out.f.c = (a + b + c > 255)
    BY DEF cpu_adc, InByte
  <2> HIDE DEF out, c
  <2> QED BY <2>1, <1>1, SumAdjusts DEF out
<1>5. Adjusted(cpu_sub(a, b, flags), Decimal(a) - Decimal(b))
  <2> DEFINE out == cpu_sub(a, b, flags)
  <2>1. /\ out.r = InByte(a - (b + none)) /\ out.f.n = TRUE
        /\ out.f.h = (Nibble(b) + none > Nibble(a)) /\ out.f.c = (b + none > a)
    BY <1>0, <1>2 DEF cpu_sub, InByte
  <2> HIDE DEF out
  <2>2. Adjusted(out, Decimal(a) - Decimal(b) - none)
    BY <2>1, <1>0, <1>1, DifferenceAdjusts
  <2>3. Decimal(a) - Decimal(b) - none = Decimal(a) - Decimal(b)
    BY <1>0, <1>2
  <2> QED BY <2>2, <2>3 DEF out
<1>6. Adjusted(cpu_sbc(a, b, flags), Decimal(a) - Decimal(b) - c)
  <2> DEFINE out == cpu_sbc(a, b, flags)
  <2>1. /\ out.r = InByte(a - (b + c)) /\ out.f.n = TRUE
        /\ out.f.h = (Nibble(b) + c > Nibble(a)) /\ out.f.c = (b + c > a)
    BY DEF cpu_sbc, InByte
  <2> HIDE DEF out, c
  <2> QED BY <2>1, <1>1, DifferenceAdjusts DEF out
<1> QED BY <1>3, <1>4, <1>5, <1>6

(* After ADD, ADC, SUB or SBC of any two packed decimals DAA gives the two   *)
(* digits of the decimal result and its carry or borrow (cpu_daa).            *)
THEOREM DecimalAlwaysAdjusted == Spec => []DecimalAdjust
  BY AlwaysBytes, DecimalsAdjust, PTL
===============================================================================
