-------------------------------- MODULE Pacing --------------------------------
(***************************************************************************)
(* How src/main.c paces frames: the time a frame took is taken from a       *)
(* sixtieth of a second, and the loop sleeps for what is left.  Times are    *)
(* timespecs, seconds and nanoseconds.                                       *)
(***************************************************************************)
EXTENDS Integers

CONSTANT NSEC   (* nanoseconds of a second, 1E9; the module instantiating   *)
                (* this one says that it is positive                         *)

Timespec    == [tv_sec : Int, tv_nsec : 0 .. NSEC - 1]
Nanos(t)    == t.tv_sec * NSEC + t.tv_nsec
ToSpec(n)   == [tv_sec |-> n \div NSEC, tv_nsec |-> n % NSEC]

(* Mutant: the seconds do not give what the nanoseconds borrow.              *)
diff_timespec_no_borrow(a, b) ==
  [tv_sec  |-> a.tv_sec - b.tv_sec,
   tv_nsec |-> a.tv_nsec - b.tv_nsec + (IF a.tv_nsec < b.tv_nsec THEN NSEC ELSE 0)]

diff_timespec(a, b) ==
  [tv_sec  |-> a.tv_sec - b.tv_sec - (IF a.tv_nsec < b.tv_nsec THEN 1 ELSE 0),
   tv_nsec |-> a.tv_nsec - b.tv_nsec + (IF a.tv_nsec < b.tv_nsec THEN NSEC ELSE 0)]

(* interveral_spec *)
interval == NSEC \div 60

wait(frame_start, frame_end) ==
  diff_timespec([tv_sec |-> 0, tv_nsec |-> interval], diff_timespec(frame_end, frame_start))

(* It refuses a negative time (EINVAL) and returns at once.                   *)
clock_nanosleep(t) == IF t.tv_sec < 0 THEN 0 ELSE Nanos(t)

(* "tv_sec >= 0 || tv_nsec > 0"; otherwise the frame is reported as late.    *)
Slept(frame_start, frame_end) ==
  LET t == wait(frame_start, frame_end)
  IN  IF t.tv_sec >= 0 \/ t.tv_nsec > 0 THEN clock_nanosleep(t) ELSE 0
===============================================================================
