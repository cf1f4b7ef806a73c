-------------------------------- MODULE Joypad --------------------------------
(***************************************************************************)
(* The joypad of src/input.c: key_callback, run by GLFW inside input_poll,  *)
(* and input_read, what the program gets when it reads JOYPAD_ADDR.         *)
(*                                                                          *)
(* Bytes are sets of bits.  A key is a pair of its group, DPAD or SELECT,   *)
(* and its bit in that group.                                                *)
(***************************************************************************)
EXTENDS Integers

CONSTANTS
  Keys,            (* the eight keys, or some of them                       *)
  JoypadWrites,    (* bytes the program stores in JOYPAD_ADDR               *)
  IrrBits          (* bits of the interrupt request register                *)

Byte == SUBSET (0 .. 7)

A_RIGHT    == 0
B_LEFT     == 1
SELECT_UP  == 2
START_DOWN == 3
DPAD       == 4
SELECT     == 5

KeyBits == {A_RIGHT, B_LEFT, SELECT_UP, START_DOWN}

ASSUME JoypadAssumption ==
  /\ Keys \subseteq {DPAD, SELECT} \X KeyBits
  /\ JoypadWrites \subseteq Byte
  /\ "JOYPAD" \in IrrBits

VARIABLES
  joyp,            (* io[JOYPAD_ADDR], as stored                            *)
  jp_dpad_bits, jp_select_bits,
  irr,
  held             (* the keys the player holds down                        *)

joypadVars == <<joyp, jp_dpad_bits, jp_select_bits, irr, held>>

JoypadInit ==
  /\ joyp = {}
  /\ jp_dpad_bits = KeyBits
  /\ jp_select_bits = KeyBits
  /\ irr = {}
  /\ held = {}

------------------------------------------------------------------------------
(* input_read *)

(* The bits of joyp the mask 0xF0a lets through an eight-bit value.          *)
MaskBits == {B_LEFT, START_DOWN}

input_read ==
  IF SELECT \notin joyp THEN (joyp \cap MaskBits) \cup jp_select_bits
  ELSE IF DPAD \notin joyp THEN (joyp \cap MaskBits) \cup jp_dpad_bits
  ELSE joyp

------------------------------------------------------------------------------
(* key_callback *)

(* A pressed key is a 0.                                                     *)
Set(bits, bit, released) == (bits \ {bit}) \cup (IF released THEN {bit} ELSE {})

(* Mutant: a key is or'ed in, so it stays released.                          *)
SetInput_sticky(key, released) ==
  IF key[1] = DPAD
  THEN /\ jp_dpad_bits' = jp_dpad_bits \cup Set({}, key[2], released)
       /\ UNCHANGED jp_select_bits
  ELSE /\ jp_select_bits' = jp_select_bits \cup Set({}, key[2], released)
       /\ UNCHANGED jp_dpad_bits

SetInput(key, released) ==
  IF key[1] = DPAD
  THEN /\ jp_dpad_bits' = Set(jp_dpad_bits, key[2], released)
       /\ UNCHANGED jp_select_bits
  ELSE /\ jp_select_bits' = Set(jp_select_bits, key[2], released)
       /\ UNCHANGED jp_dpad_bits

(* Mutant: the test of the group's bit is inverted.                          *)
Request_other_group(key) == irr' = irr \cup (IF key[1] \in joyp THEN {"JOYPAD"} ELSE {})

(* Requested for a press and for a release, of a key in a selected group.    *)
Request(key) == irr' = irr \cup (IF key[1] \notin joyp THEN {"JOYPAD"} ELSE {})

Press(key) ==
  /\ key \notin held
  /\ held' = held \cup {key}
  /\ SetInput(key, FALSE)
  /\ Request(key)
  /\ UNCHANGED joyp

(* GLFW repeats a key held down; key_callback returns at once.               *)
Release(key) ==
  /\ key \in held
  /\ held' = held \ {key}
  /\ SetInput(key, TRUE)
  /\ Request(key)
  /\ UNCHANGED joyp

key_callback == \E key \in Keys : Press(key) \/ Release(key)

(* A store of the program: mem_write_byte keeps all eight bits.              *)
WriteJoypad(data) ==
  /\ joyp' = data
  /\ UNCHANGED <<jp_dpad_bits, jp_select_bits, irr, held>>

(* The other devices, interrupt dispatch and stores to IF.                   *)
OthersWriteIrr ==
  /\ irr' \in SUBSET IrrBits
  /\ UNCHANGED <<joyp, jp_dpad_bits, jp_select_bits, held>>

JoypadNext ==
  \/ key_callback
  \/ \E data \in JoypadWrites : WriteJoypad(data)
  \/ OthersWriteIrr

JoypadSpec == JoypadInit /\ [][JoypadNext]_joypadVars

------------------------------------------------------------------------------
(* Properties. *)

TypeOK ==
  /\ joyp \in Byte
  /\ jp_dpad_bits \in SUBSET KeyBits
  /\ jp_select_bits \in SUBSET KeyBits
  /\ irr \in SUBSET IrrBits
  /\ held \in SUBSET ({DPAD, SELECT} \X KeyBits)

(* "These control what the above bits report" (input.c:13): with one group   *)
(* selected the program reads exactly the keys of that group held down as 0, *)
(* after any sequence of presses, releases and changes of group; provided it *)
(* stored 0 in the bits below.                                                *)
Selected(group) == \A g \in {DPAD, SELECT} : g \in joyp <=> g # group
Reported(group) == input_read \cap KeyBits = {b \in KeyBits : <<group, b>> \notin held}

KeysReported ==
  \A group \in {DPAD, SELECT} :
    Selected(group) /\ joyp \cap KeyBits = {} => Reported(group)

(* What the program reads changes only by its own store or together with a   *)
(* joypad interrupt request: waiting for the interrupt misses no key.        *)
ChangesAnnounced ==
  [][input_read' # input_read /\ joyp' = joyp => "JOYPAD" \in irr']_joypadVars

------------------------------------------------------------------------------
(* What a comment of src/input.c says and the code does not do. *)

(* The same comment, whatever the program stored below: the mask 0xF0a lets  *)
(* stored bits 1 and 3 hide keys held down.                                  *)
KeysReportedAnyStore ==
  \A group \in {DPAD, SELECT} : Selected(group) => Reported(group)
===============================================================================
