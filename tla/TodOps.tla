------------------------------- MODULE TodOps -------------------------------
(***************************************************************************)
(* The ToD operations of drivers/ptp/adi_ptp/ptp_adi.c: adi_tod_gettimex(), *)
(* adi_tod_settime() and adi_tod_adjtime(), each run by a caller holding   *)
(* tod->reg_lock, and the trigger protocol they share: in golden-counter   *)
(* (GC) mode the GC value register is loaded with gc + trig_delay_tick,   *)
(* the read or write operation is triggered, the driver waits             *)
(* poll_delay_ns and then polls the operation's status bit until it is     *)
(* DONE or poll_timeout_us has passed, and finally clears the operation.  *)
(* In PPS mode the hardware performs the operation at the next PPS edge,   *)
(* that is when the ToD counter reaches a whole second.                    *)
(*                                                                         *)
(* Time is counted in ticks of the PHC clock: gc is the golden counter and *)
(* tod the ToD counter, both advanced by Tick.  now is the CPU clock read  *)
(* by ktime_get(); Drift lets it gain on the PHC (a PHC slowed by          *)
(* adjfine or running off a slower oscillator).  Timestamps are whole      *)
(* ticks here: the arithmetic on seconds, nanoseconds and fractions is     *)
(* TodArith's.                                                             *)
(***************************************************************************)
EXTENDS Integers

CONSTANTS
    Clients,        \* threads calling into the PHC driver
    None,           \* no lock holder
    Modes,          \* tod->trigger_mode values the device may be set up with
    Sec,            \* TOD_1_SEC_IN_NANO, in ticks
    TrigDelayTick,  \* tod->trig_delay_tick
    Deltas,         \* adjtime deltas, for each trigger mode
    SetTimes,       \* settime values
    MaxOps,         \* operations the callers issue in total
    MaxLatency,     \* ticks a lock holder may spend outside its waits
    MaxDrift,       \* ticks the CPU clock may gain on the PHC
    MaxTime         \* ticks the model runs for

ASSUME /\ Modes \subseteq {"GC", "PPS"} /\ Sec >= 2 /\ TrigDelayTick >= 1
       /\ MaxLatency < Sec

HwOps == {"rd", "wr"}                        \* HW_TOD_TRIG_OP_RD, _WR
OpKinds == {"gettimex", "settime", "adjtime"}
Pcs == {"idle", "lock", "arm", "trig", "delay", "poll", "fetch", "clear",
        "adjust", "post", "unlock"}

\* TOD_TIMEOUT_RATIO is (1 / 20), an integer division in C.
TimeoutRatio == 1 \div 20

VARIABLES
    mode,                       \* tod->trigger_mode, set by adi_tod_dt_parse()
    now, gc, tod, drift,        \* CPU clock, golden counter, ToD counter
    trig, done,                 \* CFG_TOD_OP trigger flags, STAT_TOD_OP bits
    gcVal, cfgTv, statTv,       \* CFG_OP_GC_VAL, CFG_TV_*, STAT_TV_*
    lock, lat,                  \* tod->reg_lock and its holder's latency
    pc, op, arg, hop, tst, err, delayEnd, deadline, opsLeft,
    gcAt, offAt, phcPre         \* history: gc, tod - gc and tod at the call

clock == <<mode, now, gc, tod, drift>>
regs == <<trig, done, gcVal, cfgTv, statTv>>
caller == <<pc, op, arg, hop, tst, err, delayEnd, deadline, opsLeft>>
hist == <<gcAt, offAt, phcPre>>
vars == <<clock, regs, lock, lat, caller, hist>>

\* adi_tod_probe(): the trigger delay in time units, the poll delay and the
\* poll timeout of each trigger mode.
TrigDelayNs == TrigDelayTick
PollDelay == IF mode = "GC" THEN TrigDelayNs ELSE 0
PollTimeout == IF mode = "GC" THEN PollDelay * TimeoutRatio
               ELSE Sec + Sec * TimeoutRatio

\* The first step of _tod_hw_gettstamp() and _tod_hw_settstamp().
FirstStep == IF mode = "GC" THEN "arm" ELSE "trig"

TypeOK ==
    /\ mode \in Modes /\ now \in Nat /\ gc \in Nat /\ tod \in Nat /\ drift \in 0 .. MaxDrift
    /\ trig \in [HwOps -> BOOLEAN] /\ done \in [HwOps -> BOOLEAN]
    /\ gcVal \in Nat /\ cfgTv \in Nat /\ statTv \in Nat
    /\ lock \in Clients \cup {None} /\ lat \in 0 .. MaxLatency
    /\ pc \in [Clients -> Pcs] /\ op \in [Clients -> OpKinds]
    /\ hop \in [Clients -> HwOps] /\ tst \in [Clients -> Nat]
    /\ err \in [Clients -> {"ok", "etimedout"}]
    /\ opsLeft \in 0 .. MaxOps

Init ==
    /\ mode \in Modes /\ now = 0 /\ gc = 0 /\ tod \in 0 .. Sec - 1 /\ drift = 0
    /\ trig = [o \in HwOps |-> FALSE] /\ done = [o \in HwOps |-> FALSE]
    /\ gcVal = 0 /\ cfgTv = 0 /\ statTv = 0
    /\ lock = None /\ lat = 0
    /\ pc = [c \in Clients |-> "idle"] /\ op = [c \in Clients |-> "gettimex"]
    /\ arg = [c \in Clients |-> 0] /\ hop = [c \in Clients |-> "rd"]
    /\ tst = [c \in Clients |-> 0] /\ err = [c \in Clients |-> "ok"]
    /\ delayEnd = [c \in Clients |-> 0] /\ deadline = [c \in Clients |-> 0]
    /\ opsLeft = MaxOps
    /\ gcAt = [c \in Clients |-> 0] /\ offAt = [c \in Clients |-> 0]
    /\ phcPre = [c \in Clients |-> 0]

-----------------------------------------------------------------------------
(* The hardware and the clocks.                                            *)

\* The lock holder is in one of the driver's waits: mdelay()/udelay() of
\* the poll delay, or the udelay(10) of the poll loop before DONE or the
\* timeout.  Outside them it only spends its bounded latency.
TimedOut(c) == PollTimeout # 0 /\ now > deadline[c]
Waiting(c) ==
    \/ pc[c] = "delay" /\ now < delayEnd[c]
    \/ pc[c] = "poll" /\ ~done[hop[c]] /\ ~TimedOut(c)

\* One PHC tick.  A triggered operation completes when the golden counter
\* reaches the GC value (GC mode) or at the PPS edge, when the ToD counter
\* reaches a whole second (PPS mode): a read latches the ToD counter, a
\* write loads it from CFG_TV_*.
Tick ==
    /\ lock # None /\ now < MaxTime
    /\ Waiting(lock) \/ lat < MaxLatency
    /\ lat' = IF Waiting(lock) THEN lat ELSE lat + 1
    /\ now' = now + 1 /\ gc' = gc + 1
    /\ LET t1 == tod + 1
           Fires(o) == /\ trig[o] /\ ~done[o]
                       /\ IF mode = "GC" THEN gc + 1 = gcVal ELSE t1 % Sec = 0
       IN  /\ tod' = IF Fires("wr") THEN cfgTv ELSE t1
           /\ statTv' = IF Fires("rd") THEN t1 ELSE statTv
           /\ done' = [o \in HwOps |-> done[o] \/ Fires(o)]
    /\ UNCHANGED <<mode, drift, trig, gcVal, cfgTv, lock, caller, hist>>

\* The CPU clock gains one tick on the PHC.  now is only compared with
\* delayEnd and deadline, which are set from now itself, so a gain matters
\* only while the lock holder is in the poll delay or the poll loop.
Drift ==
    /\ lock # None /\ pc[lock] \in {"delay", "poll"}
    /\ drift < MaxDrift /\ now < MaxTime
    /\ now' = now + 1 /\ drift' = drift + 1
    /\ UNCHANGED <<mode, gc, tod, regs, lock, lat, caller, hist>>

-----------------------------------------------------------------------------
(* The driver.                                                             *)

\* adi_phc_gettimex(), adi_phc_settime(), adi_phc_adjtime(): a caller
\* enters one of the operations with its argument.
Call(c) ==
    /\ pc[c] = "idle" /\ opsLeft > 0
    /\ opsLeft' = opsLeft - 1 /\ pc' = [pc EXCEPT ![c] = "lock"]
    /\ \/ op' = [op EXCEPT ![c] = "gettimex"] /\ UNCHANGED arg
       \/ \E ts \in SetTimes : /\ op' = [op EXCEPT ![c] = "settime"]
                               /\ arg' = [arg EXCEPT ![c] = ts]
       \/ \E d \in Deltas[mode] : /\ op' = [op EXCEPT ![c] = "adjtime"]
                            /\ arg' = [arg EXCEPT ![c] = d]
    /\ UNCHANGED <<clock, regs, lock, lat, hop, tst, err, delayEnd, deadline, hist>>

\* spin_lock_irqsave(&tod->reg_lock) and the start of hardware operation h
\* on tstamp t.
Acquire(c, h, t) ==
    /\ pc[c] = "lock" /\ lock = None
    /\ lock' = c /\ lat' = 0
    /\ hop' = [hop EXCEPT ![c] = h] /\ tst' = [tst EXCEPT ![c] = t]
    /\ err' = [err EXCEPT ![c] = "ok"] /\ pc' = [pc EXCEPT ![c] = FirstStep]
    /\ gcAt' = [gcAt EXCEPT ![c] = gc] /\ offAt' = [offAt EXCEPT ![c] = tod - gc]
    /\ phcPre' = [phcPre EXCEPT ![c] = tod]
    /\ UNCHANGED <<clock, regs, op, arg, delayEnd, deadline, opsLeft>>

\* adi_tod_gettimex(): lock, ptp_read_system_prets(), _tod_hw_gettstamp().
GettimexLock(c) == op[c] = "gettimex" /\ Acquire(c, "rd", tst[c])
\* adi_tod_settime(): timespec_to_tstamp(), lock, _tod_hw_settstamp().
SettimeLock(c) == op[c] = "settime" /\ Acquire(c, "wr", arg[c])
\* adi_tod_adjtime(): lock, _tod_adjtime() reads the ToD first.
AdjtimeLock(c) == op[c] = "adjtime" /\ Acquire(c, "rd", tst[c])

\* _gc_get_cnt(), + trig_delay_tick, _gc_set_cnt() (GC mode only).
Arm(c) ==
    /\ pc[c] = "arm"
    /\ gcVal' = gc + TrigDelayTick
    /\ pc' = [pc EXCEPT ![c] = "trig"]
    /\ UNCHANGED <<clock, trig, done, cfgTv, statTv, lock, lat, op, arg, hop,
                   tst, err, delayEnd, deadline, opsLeft, hist>>

\* Fault model: the operation cleared straight after it was triggered, as
\* if the CLEAR of _tod_hw_settstamp() came before the poll.
TrigCleared(c) ==
    /\ pc[c] = "trig"
    /\ cfgTv' = IF hop[c] = "wr" THEN tst[c] ELSE cfgTv
    /\ delayEnd' = [delayEnd EXCEPT ![c] = now + PollDelay]
    /\ pc' = [pc EXCEPT ![c] = "delay"]
    /\ UNCHANGED <<clock, trig, done, gcVal, statTv, lock, lat, op, arg, hop,
                   tst, err, deadline, opsLeft, hist>>

\* _tod_hw_settstamp_to_reg() for a write, then _tod_hw_op_trig(TRIG); the
\* poll of _tod_hw_op_poll() starts with the poll delay.
Trig(c) ==
    /\ pc[c] = "trig"
    /\ cfgTv' = IF hop[c] = "wr" THEN tst[c] ELSE cfgTv
    /\ trig' = [trig EXCEPT ![hop[c]] = TRUE]
    /\ delayEnd' = [delayEnd EXCEPT ![c] = now + PollDelay]
    /\ pc' = [pc EXCEPT ![c] = "delay"]
    /\ UNCHANGED <<clock, done, gcVal, statTv, lock, lat, op, arg, hop,
                   tst, err, deadline, opsLeft, hist>>

\* _tod_hw_op_poll(): after mdelay()/udelay() of the poll delay, the
\* deadline is ktime_get() + poll_timeout_us.
PollStart(c) ==
    /\ pc[c] = "delay" /\ now >= delayEnd[c]
    /\ deadline' = [deadline EXCEPT ![c] = now + PollTimeout]
    /\ pc' = [pc EXCEPT ![c] = "poll"]
    /\ UNCHANGED <<clock, regs, lock, lat, op, arg, hop, tst, err, delayEnd,
                   opsLeft, hist>>

\* The step after a successful poll: read the ToD registers or clear.
AfterPoll(c) == IF hop[c] = "rd" THEN "fetch" ELSE "clear"

\* Fault model: the deadline tested before the status bit.
PollTimeoutFirst(c) ==
    /\ pc[c] = "poll"
    /\ \/ /\ TimedOut(c)
          /\ err' = [err EXCEPT ![c] = "etimedout"] /\ pc' = [pc EXCEPT ![c] = "clear"]
       \/ /\ ~TimedOut(c) /\ done[hop[c]]
          /\ pc' = [pc EXCEPT ![c] = AfterPoll(c)] /\ UNCHANGED err
    /\ UNCHANGED <<clock, regs, lock, lat, op, arg, hop, tst, delayEnd,
                   deadline, opsLeft, hist>>

\* The poll loop of _tod_hw_op_poll(): the status bit is read first; DONE
\* ends the loop with 0, otherwise a non-zero timeout that has passed ends
\* it with -ETIMEDOUT, otherwise the loop waits (Tick) and reads again.
Poll(c) ==
    /\ pc[c] = "poll"
    /\ \/ /\ done[hop[c]]
          /\ pc' = [pc EXCEPT ![c] = AfterPoll(c)] /\ UNCHANGED err
       \/ /\ ~done[hop[c]] /\ TimedOut(c)
          /\ err' = [err EXCEPT ![c] = "etimedout"] /\ pc' = [pc EXCEPT ![c] = "clear"]
    /\ UNCHANGED <<clock, regs, lock, lat, op, arg, hop, tst, delayEnd,
                   deadline, opsLeft, hist>>

\* _tod_hw_gettstamp_from_reg(), only when the poll succeeded.
Fetch(c) ==
    /\ pc[c] = "fetch"
    /\ tst' = [tst EXCEPT ![c] = statTv]
    /\ pc' = [pc EXCEPT ![c] = "clear"]
    /\ UNCHANGED <<clock, regs, lock, lat, op, arg, hop, err, delayEnd,
                   deadline, opsLeft, hist>>

\* Fault model: the CLEAR write left out; the operation stays triggered
\* and its status DONE.
ClearSkipped(c) ==
    /\ pc[c] = "clear"
    /\ pc' = [pc EXCEPT ![c] = CASE op[c] = "gettimex" -> "post"
                                 [] op[c] = "adjtime" /\ hop[c] = "rd" -> "adjust"
                                 [] OTHER -> "unlock"]
    /\ UNCHANGED <<clock, regs, lock, lat, op, arg, hop, tst,
                   err, opsLeft, hist>>
    /\ delayEnd' = [delayEnd EXCEPT ![c] = 0] /\ deadline' = [deadline EXCEPT ![c] = 0]

\* _tod_hw_op_trig(CLEAR), whatever the poll returned; then back to the
\* caller of _tod_hw_gettstamp() or _tod_hw_settstamp().
Clear(c) ==
    /\ pc[c] = "clear"
    /\ trig' = [trig EXCEPT ![hop[c]] = FALSE]
    /\ done' = [done EXCEPT ![hop[c]] = FALSE]
    /\ pc' = [pc EXCEPT ![c] = CASE op[c] = "gettimex" -> "post"
                                 [] op[c] = "adjtime" /\ hop[c] = "rd" -> "adjust"
                                 [] OTHER -> "unlock"]
    /\ UNCHANGED <<clock, gcVal, cfgTv, statTv, lock, lat, op, arg, hop, tst,
                   err, opsLeft, hist>>
    /\ delayEnd' = [delayEnd EXCEPT ![c] = 0] /\ deadline' = [deadline EXCEPT ![c] = 0]

\* Fault model: the PPS-mode read not advanced to the next edge.
AdjtimeBaseNoSecond(t) == IF mode = "GC" THEN t + TrigDelayNs ELSE t

\* _tod_adjtime(): the time read is advanced to the instant the write will
\* take effect, by the trigger delay (GC) or one second (PPS).
AdjtimeBase(t) == IF mode = "GC" THEN t + TrigDelayNs ELSE t + Sec

\* div_s64_rem(): the quotient truncated toward zero, the remainder with
\* the sign of the dividend.
DivS64Rem(a, b) ==
    LET q == IF a >= 0 THEN a \div b ELSE -((-a) \div b)
    IN  <<q, a - q * b>>

\* _tod_adjtime() applying delta to the base b, split into seconds and
\* nanoseconds (ticks): a negative remainder larger than the nanoseconds
\* borrows a second; then either the seconds of delta are added or, when
\* the nanoseconds reached a second, one second is carried instead.
TodAdjust(b, delta) ==
    LET s0 == b \div Sec
        n0 == b % Sec
        q == DivS64Rem(delta, Sec)
        borrow == q[2] < 0 /\ -q[2] > n0
        s1 == IF borrow THEN s0 - 1 ELSE s0
        n1 == IF borrow THEN Sec + q[2] + n0 ELSE n0 + q[2]
    IN  IF n1 < Sec THEN (s1 + q[1]) * Sec + n1
        ELSE (s1 + 1) * Sec + (n1 - Sec)

\* _tod_adjtime() after the read: a failed read returns its error;
\* otherwise the adjusted base is written back.
Adjust(c) ==
    /\ pc[c] = "adjust"
    /\ \/ /\ err[c] = "ok"
          /\ tst' = [tst EXCEPT ![c] = TodAdjust(AdjtimeBase(tst[c]), arg[c])]
          /\ hop' = [hop EXCEPT ![c] = "wr"]
          /\ pc' = [pc EXCEPT ![c] = FirstStep]
       \/ /\ err[c] # "ok"
          /\ pc' = [pc EXCEPT ![c] = "unlock"] /\ UNCHANGED <<tst, hop>>
    /\ UNCHANGED <<clock, regs, lock, lat, op, arg, err, delayEnd, deadline,
                   opsLeft, hist>>

\* The locals of an operation end with it: the tstamp, the error and the
\* argument, and the history kept for the properties.
Return(c) ==
    /\ pc' = [pc EXCEPT ![c] = "idle"]
    /\ tst' = [tst EXCEPT ![c] = 0] /\ err' = [err EXCEPT ![c] = "ok"]
    /\ arg' = [arg EXCEPT ![c] = 0] /\ hop' = [hop EXCEPT ![c] = "rd"]
    /\ gcAt' = [gcAt EXCEPT ![c] = 0] /\ offAt' = [offAt EXCEPT ![c] = 0]
    /\ phcPre' = [phcPre EXCEPT ![c] = 0]

\* adi_tod_gettimex(): ptp_read_system_postts(), tstamp_to_timespec() and
\* the unlock.
Post(c) ==
    /\ pc[c] = "post"
    /\ lock' = None /\ Return(c)
    /\ UNCHANGED <<clock, regs, lat, op, delayEnd, deadline, opsLeft>>

\* Fault model: the lock left held when the operation failed.
UnlockOnlyOnSuccess(c) ==
    /\ pc[c] = "unlock"
    /\ lock' = IF err[c] = "ok" THEN None ELSE lock
    /\ Return(c)
    /\ UNCHANGED <<clock, regs, lat, op, delayEnd, deadline, opsLeft>>

\* spin_unlock_irqrestore() at the end of adi_tod_settime() and
\* adi_tod_adjtime().
Unlock(c) ==
    /\ pc[c] = "unlock"
    /\ lock' = None /\ Return(c)
    /\ UNCHANGED <<clock, regs, lat, op, delayEnd, deadline, opsLeft>>

\* Entering an operation: at most one of these is enabled for a caller.
Lock(c) == GettimexLock(c) \/ SettimeLock(c) \/ AdjtimeLock(c)

Step(c) ==
    \/ Arm(c) \/ Trig(c) \/ PollStart(c) \/ Poll(c) \/ Fetch(c) \/ Clear(c)
    \/ Adjust(c) \/ Post(c) \/ Unlock(c)

Next ==
    \/ Tick \/ Drift
    \/ \E c \in Clients :
          \/ Call(c) \/ Lock(c) \/ Step(c)

\* Time passes; a caller that has the lock runs; reg_lock is a ticket
\* spinlock, so a caller spinning on it gets it when it is released often
\* enough.  Callers need not call.
Fairness ==
    /\ WF_vars(Tick)
    /\ \A c \in Clients :
          /\ WF_vars(Step(c))
          /\ SF_vars(Lock(c))

Spec == Init /\ [][Next]_vars /\ Fairness

-----------------------------------------------------------------------------
\* gettimex64 contract: the time adi_tod_gettimex() returns was the PHC time
\* at an instant between its system pre- and post-timestamps: not older
\* than the call, not later than its return.
GettimexBracketed ==
    \A c \in Clients :
        (pc[c] = "post" /\ err[c] = "ok") => phcPre[c] <= tst[c] /\ tst[c] <= tod

\* adi_tod_adjtime() that returns 0 has moved the ToD counter by exactly
\* delta against the free-running golden counter.
AdjtimeExact ==
    \A c \in Clients :
        (pc[c] = "unlock" /\ op[c] = "adjtime" /\ err[c] = "ok") =>
            tod - gc = offAt[c] + arg[c]

\* In PPS mode an operation is done at the next edge, within one PHC second
\* of its trigger, and poll_timeout_us is meant to exceed that by
\* TOD_TIMEOUT_RATIO; in GC mode the poll has no timeout.  So
\* _tod_hw_op_poll() never returns -ETIMEDOUT.
NoTimeout == \A c \in Clients : err[c] = "ok"

\* The same while the CPU clock and the PHC run at the same rate.
InStepNoTimeout == drift = 0 => NoTimeout

\* In PPS mode the read latches the ToD at an edge, so the base of
\* _tod_adjtime() has no nanoseconds and its carry branch, which drops the
\* seconds of delta, is never taken; the write takes effect exactly at the
\* edge the read was advanced to.  So adjtime is exact there, for deltas
\* of whole seconds and more.
PpsAdjtimeExact == mode = "PPS" => AdjtimeExact

\* Every PHC operation a caller enters returns, through reg_lock
\* contention and the trigger poll.
OpsComplete == \A c \in Clients : pc[c] # "idle" ~> pc[c] = "idle"

=============================================================================
