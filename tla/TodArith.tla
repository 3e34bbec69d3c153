------------------------------ MODULE TodArith ------------------------------
(***************************************************************************)
(* The time-of-day arithmetic of drivers/ptp/adi_ptp/ptp_adi.c, checked    *)
(* against plain integer arithmetic on the time each value stands for.     *)
(* A hardware timestamp (struct tod_tstamp) is seconds, nanoseconds and a  *)
(* 16-bit fraction of a nanosecond.  The second is scaled down to NsPerSec *)
(* nanoseconds (TOD_1_SEC_IN_NANO) so that TLC enumerates every carry and  *)
(* borrow case; the fraction keeps its width through FracNum               *)
(* (TOD_FRAC_NANO_NUM = 2^16, the range of a u16).  The operators are     *)
(* total over their inputs; the variables only hold one input each so      *)
(* that TLC checks the properties over all of them.                        *)
(***************************************************************************)
EXTENDS Integers, TodRegs

CONSTANTS
    NsPerSec,      \* TOD_1_SEC_IN_NANO
    FracNum,       \* TOD_FRAC_NANO_NUM
    MaxSec,        \* seconds of the timestamps enumerated
    MaxDelta,      \* |delta| of the adjustments enumerated
    DelayNs,       \* trigger delays (tod->trig_delay.ns) enumerated
    DelayFrac      \* trigger delay fractions (tod->trig_delay.frac_ns)

ASSUME NsPerSec >= 2 /\ FracNum >= 2 /\ FracNum % 2 = 0

Tstamps == [seconds : 0 .. MaxSec, nanoseconds : 0 .. NsPerSec - 1, frac : 0 .. FracNum - 1]
Delays == [ns : DelayNs, frac : DelayFrac]

\* The instant a timestamp stands for, in fractions of a nanosecond.
FracTotal(t) == ((t.seconds * NsPerSec) + t.nanoseconds) * FracNum + t.frac
\* The instant in whole nanoseconds, for values without a fraction.
NsTotal(t) == t.seconds * NsPerSec + t.nanoseconds

\* div_s64_rem(): C division, the quotient truncated toward zero and the
\* remainder taking the sign of the dividend.
DivS64Rem(a, b) ==
    LET q == IF a >= 0 THEN a \div b ELSE -((-a) \div b)
    IN  [q |-> q, r |-> a - q * b]

\* Fault model: the nanosecond carried out of the fraction left out.
TodAddDelayNoCarry(t, d) ==
    LET carry == 0
        ns == t.nanoseconds + d.ns + carry
    IN  [seconds |-> t.seconds + ns \div NsPerSec,
         nanoseconds |-> IF ns >= NsPerSec THEN ns % NsPerSec ELSE ns,
         frac |-> (t.frac + d.frac) % FracNum]

\* _tod_hw_tstamp_add_delay(): add the trigger delay.  The u16 fraction
\* wraps at FracNum, carrying one nanosecond; div_u64_rem() carries whole
\* seconds out of the nanoseconds.
TodAddDelay(t, d) ==
    LET carry == IF t.frac + d.frac < FracNum THEN 0 ELSE 1
        ns == t.nanoseconds + d.ns + carry
    IN  [seconds |-> t.seconds + ns \div NsPerSec,
         nanoseconds |-> IF ns >= NsPerSec THEN ns % NsPerSec ELSE ns,
         frac |-> (t.frac + d.frac) % FracNum]

\* Fault model: the borrowed second not taken off the seconds.
TodAdjustNoBorrow(t, delta) ==
    LET sr == DivS64Rem(delta, NsPerSec)
        t1 == IF sr.r < 0 /\ -sr.r > t.nanoseconds
              THEN [t EXCEPT !.nanoseconds = NsPerSec + sr.r + @]
              ELSE [t EXCEPT !.nanoseconds = @ + sr.r]
    IN  IF t1.nanoseconds < NsPerSec
        THEN [t1 EXCEPT !.seconds = @ + sr.q]
        ELSE [t1 EXCEPT !.nanoseconds = @ - NsPerSec, !.seconds = @ + 1]

\* _tod_adjtime() after the trigger compensation: split delta into seconds
\* and a signed remainder, borrow a second if the remainder takes the
\* nanoseconds below zero, then either add delta's seconds or, when the
\* nanoseconds overflow, subtract a second's worth and carry one.
TodAdjust(t, delta) ==
    LET sr == DivS64Rem(delta, NsPerSec)
        t1 == IF sr.r < 0 /\ -sr.r > t.nanoseconds
              THEN [t EXCEPT !.nanoseconds = NsPerSec + sr.r + @, !.seconds = @ - 1]
              ELSE [t EXCEPT !.nanoseconds = @ + sr.r]
    IN  IF t1.nanoseconds < NsPerSec
        THEN [t1 EXCEPT !.seconds = @ + sr.q]
        ELSE [t1 EXCEPT !.nanoseconds = @ - NsPerSec, !.seconds = @ + 1]

\* _tod_adjtime(): the time read back is advanced by the trigger delay in
\* golden-counter trigger mode, else by the one second to the next PPS
\* edge, and then adjusted by delta.
TodBase(t, gc, d) == IF gc THEN TodAddDelay(t, d) ELSE [t EXCEPT !.seconds = @ + 1]
TodAdjtime(t, delta, gc, d) == TodAdjust(TodBase(t, gc, d), delta)

\* tstamp_to_timespec(): round the fraction to the nearest nanosecond.
TstampToTimespec(t) ==
    [tv_sec |-> t.seconds,
     tv_nsec |-> IF t.frac < FracNum \div 2 THEN t.nanoseconds ELSE t.nanoseconds + 1]

-----------------------------------------------------------------------------
VARIABLES ts, delta, gc, delay
vars == <<ts, delta, gc, delay, regIn>>

\* Either an input of the arithmetic, or one of TodRegs' register inputs
\* next to the zero timestamp, delay and adjustment.
Init ==
    \/ /\ ts \in Tstamps
       /\ delta \in -MaxDelta .. MaxDelta
       /\ gc \in BOOLEAN
       /\ delay \in Delays
       /\ regIn = NoRegIn
    \/ /\ ts = [seconds |-> 0, nanoseconds |-> 0, frac |-> 0]
       /\ delta = 0
       /\ gc = FALSE
       /\ delay = [ns |-> 0, frac |-> 0]
       /\ regIn \in RegInputs

Spec == Init /\ [][UNCHANGED vars]_vars

-----------------------------------------------------------------------------
\* Adding the trigger delay moves the timestamp by exactly the delay, and
\* leaves nanoseconds below a second and the fraction inside its u16.
AddDelayExact ==
    LET r == TodAddDelay(ts, delay)
    IN  /\ FracTotal(r) = FracTotal(ts) + delay.ns * FracNum + delay.frac
        /\ r.nanoseconds \in 0 .. NsPerSec - 1
        /\ r.frac \in 0 .. FracNum - 1

\* An adjustment of less than a second moves the time read back by exactly
\* delta and leaves the nanoseconds normalised (for results not before 0).
SubSecondAdjtimeExact ==
    LET b == TodBase(ts, gc, delay)
        r == TodAdjtime(ts, delta, gc, delay)
    IN  (-NsPerSec < delta /\ delta < NsPerSec /\ NsTotal(b) + delta >= 0) =>
            /\ NsTotal(r) = NsTotal(b) + delta
            /\ r.nanoseconds \in 0 .. NsPerSec - 1

\* adi_tod_adjtime() moves the clock by exactly delta nanoseconds, whatever
\* delta is (the PHC adjtime contract used by ADJ_SETOFFSET steps).
AdjtimeExact ==
    LET b == TodBase(ts, gc, delay)
        r == TodAdjtime(ts, delta, gc, delay)
    IN  (NsTotal(b) + delta >= 0) =>
            /\ NsTotal(r) = NsTotal(b) + delta
            /\ r.nanoseconds \in 0 .. NsPerSec - 1


=============================================================================
