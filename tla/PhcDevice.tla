------------------------------ MODULE PhcDevice ------------------------------
(***************************************************************************)
(* The life of the PTP hardware clock device of drivers/ptp/adi_ptp:       *)
(* adi_ptp_probe() with adi_tod_probe() and adi_phc_clk_probe() and each   *)
(* of their failures, the frequency adjustment ad9545_adjfine() reached    *)
(* through adi_phc_adjfine() while the clock is registered, and            *)
(* adi_ptp_remove().  freed stands for the release of the devm-managed     *)
(* driver data (struct adi_phc, which holds the registered ptp_clock_info) *)
(* when probe fails or the device is removed.                              *)
(*                                                                         *)
(* Frequencies are those of the ad9545 AUX NCO: integers in units of       *)
(* 2^-40 Hz.  The 16-bit binary fraction of scaled_ppm is scaled to Shift  *)
(* bits and the million of "parts per million" to Million.                 *)
(***************************************************************************)
EXTENDS Integers

CONSTANTS
    Freqs,      \* NCO centre frequencies read at probe (hw_clk->freq)
    Shift,      \* the 16 of mul_u64_u64_shr(freq, scaled_ppm, 16)
    Million,    \* the 1000000 of DIV_U64_ROUND_CLOSEST(adj, 1000000)
    MaxPpm,     \* largest |scaled_ppm| the PTP core lets through
    MaxAdjust   \* adjfine calls in a behaviour

ASSUME Shift >= 1 /\ Million >= 2 /\ Million % 2 = 0

Pcs == {"probe", "tod", "clk", "register", "return", "up", "failed", "removed"}
ENODEV == -19
EFAIL == -1            \* any other negative errno
Ppms == -MaxPpm .. MaxPpm

\* ad9545_adjfine(): adj = freq * |scaled_ppm| / (10^6 * 2^16), the
\* product shifted right first and the quotient rounded to nearest, then
\* subtracted for a negative scaled_ppm and added otherwise.
MulShr(a, b) == (a * b) \div (2 ^ Shift)                 \* mul_u64_u64_shr
DivRoundClosest(x, d) == (x + d \div 2) \div d           \* DIV_U64_ROUND_CLOSEST

\* Fault model: the quotient truncated instead of rounded.
AdjFreqFloor(f, ppm) ==
    LET p == IF ppm < 0 THEN -ppm ELSE ppm
        adj == MulShr(f, p) \div Million
    IN  IF ppm < 0 THEN f - adj ELSE f + adj

AdjFreq(f, ppm) ==
    LET p == IF ppm < 0 THEN -ppm ELSE ppm
        adj == DivRoundClosest(MulShr(f, p), Million)
    IN  IF ppm < 0 THEN f - adj ELSE f + adj

VARIABLES
    pc,          \* where probe is, or the device's state after it
    ret,         \* ret of adi_ptp_probe()
    todEnabled,  \* ToD counter enabled by adi_tod_module_init()
    clkOps,      \* hw_clk->clk_ops.adjfine set by adi_phc_clk_probe()
    center,      \* hw_clk->freq
    nco,         \* the AUX NCO tuning frequency of the ad9545
    lastPpm,     \* scaled_ppm of the last adjustment the ad9545 accepted
    adjRet,      \* what the last adjfine call returned
    registered,  \* ptp_clock_register() done and not undone
    freed,       \* devm resources of the device released
    adjusts      \* adjfine calls made

vars == <<pc, ret, todEnabled, clkOps, center, nco, lastPpm, adjRet, registered, freed, adjusts>>

Init ==
    /\ pc = "probe" /\ ret = 0
    /\ todEnabled = FALSE /\ clkOps = FALSE
    /\ center = 0 /\ nco \in Freqs /\ lastPpm = 0
    /\ adjRet = 0
    /\ registered = FALSE /\ freed = FALSE /\ adjusts = 0

probeVars == <<todEnabled, clkOps, center, nco, lastPpm, adjRet, registered>>

(***************************************************************************)
(* adi_ptp_probe() up to adi_tod_probe(): a missing sys_clk, devm_kzalloc  *)
(* or either ioremap failing returns at once, and devm releases what it    *)
(* had.  The adi,max-adj property only changes adi_ptp_caps.max_adj,       *)
(* which is MaxPpm here.                                                   *)
(***************************************************************************)
ProbeResources ==
    /\ pc = "probe"
    /\ \/ pc' = "tod" /\ UNCHANGED freed
       \/ pc' = "failed" /\ freed' = TRUE
    /\ UNCHANGED <<ret, adjusts>> /\ UNCHANGED probeVars

\* _tod_cfg_lc_clk(): 0 when lc_freq_khz is one of lc_clk_cfg[] and the
\* increment registers were written, -1 otherwise.
TodCfgLcClk(found) == IF found THEN 0 ELSE EFAIL

\* adi_tod_probe(): adi_tod_dt_parse() always succeeds; adi_tod_module_init()
\* enables the ToD counter only when _tod_cfg_lc_clk() finds the sys_clk rate
\* in lc_clk_cfg[], and returns -1 otherwise.
TodProbe ==
    /\ pc = "tod"
    /\ \E found \in BOOLEAN :
          /\ todEnabled' = found
          /\ ret' = TodCfgLcClk(found)
    /\ pc' = "clk"
    /\ UNCHANGED <<clkOps, center, nco, lastPpm, adjRet, registered, freed, adjusts>>

\* adi_phc_clk_probe(): phc_clk_i2c_probe() gets tuning_clk, reparents the
\* PLL and reads the NCO frequency into hw_clk->freq; any failure there
\* makes it return -ENODEV without setting clk_ops.  Its result is stored in
\* ret over the result of adi_tod_probe().
ClkProbe ==
    /\ pc = "clk"
    /\ \/ /\ clkOps' = TRUE /\ ret' = 0
          /\ center' = nco
       \/ /\ clkOps' = FALSE /\ ret' = ENODEV
          /\ UNCHANGED center
    /\ pc' = "register"
    /\ UNCHANGED <<todEnabled, nco, lastPpm, adjRet, registered, freed, adjusts>>

\* ptp_clock_register(): on failure probe returns its error at once; on
\* success the clock is live and probe returns ret, whatever ret is.
Register ==
    /\ pc = "register"
    /\ \/ /\ registered' = TRUE /\ pc' = "return"
          /\ UNCHANGED <<ret, freed>>
       \/ /\ ret' = EFAIL /\ pc' = "failed" /\ freed' = TRUE
          /\ UNCHANGED registered
    /\ UNCHANGED <<todEnabled, clkOps, center, nco, lastPpm, adjRet, adjusts>>

\* The end of adi_ptp_probe(): a non-zero ret fails the probe and the driver
\* core releases the devm-managed adi_phc.
ProbeReturn ==
    /\ pc = "return"
    /\ IF ret = 0 THEN pc' = "up" /\ UNCHANGED freed
                  ELSE pc' = "failed" /\ freed' = TRUE
    /\ UNCHANGED <<ret, adjusts>> /\ UNCHANGED probeVars

(***************************************************************************)
(* adi_phc_adjfine(), called by the PTP core on a registered clock.  With  *)
(* clk_ops.adjfine set it is ad9545_adjfine(), which programs the AUX NCO  *)
(* with AdjFreq(hw_clk->freq, scaled_ppm); ad9545_set_aux_nco_tuning_freq  *)
(* may fail and leave the NCO as it was.  Without it, err is returned      *)
(* uninitialised: any value the stack slot holds, 0 included.              *)
(***************************************************************************)
Adjfine ==
    /\ registered /\ adjusts < MaxAdjust
    /\ \E ppm \in Ppms :
          /\ IF clkOps
               THEN \/ /\ nco' = AdjFreq(center, ppm) /\ lastPpm' = ppm
                       /\ adjRet' = 0
                    \/ /\ adjRet' = EFAIL /\ UNCHANGED <<nco, lastPpm>>
               ELSE /\ adjRet' \in {0, EFAIL}
                    /\ UNCHANGED <<nco, lastPpm>>
    /\ adjusts' = adjusts + 1
    /\ UNCHANGED <<pc, ret, todEnabled, clkOps, center, registered, freed>>

\* adi_ptp_remove(): ptp_clock_unregister(), then adi_phc_clk_remove(),
\* which has no close operation for the ad9545; devm then releases adi_phc.
Remove ==
    /\ pc = "up"
    /\ registered' = FALSE /\ freed' = TRUE /\ pc' = "removed"
    /\ UNCHANGED <<ret, todEnabled, clkOps, center, nco, lastPpm, adjRet, adjusts>>

Next == ProbeResources \/ TodProbe \/ ClkProbe \/ Register \/ ProbeReturn
        \/ Adjfine \/ Remove

Spec == Init /\ [][Next]_vars

-----------------------------------------------------------------------------
(***************************************************************************)
(* ad9545_adjfine() rounds twice: mul_u64_u64_shr() truncates freq *       *)
(* scaled_ppm / 2^16 and DIV_U64_ROUND_CLOSEST() rounds the division by    *)
(* 10^6 to nearest.  Whatever sequence of adjfine calls came before, the   *)
(* NCO then runs at hw_clk->freq * (1 + scaled_ppm / (10^6 * 2^16)) of the *)
(* last accepted call to within half an NCO step plus the truncation: the  *)
(* adjustment is relative to the frequency read at probe, not to the one   *)
(* the previous call set.  Scaled by 2^Shift * Million to stay in Int.     *)
(***************************************************************************)
AdjfineRounded ==
    clkOps =>
      LET scale == 2 ^ Shift * Million
          err   == nco * scale - (center * scale + center * lastPpm)
      IN  2 * err <= scale + 2 ^ (Shift + 1) /\ -2 * err <= scale + 2 ^ (Shift + 1)

\* The registered ptp_clock_info lives in the devm-allocated adi_phc, so a
\* clock that is still registered must never have had it released: the PTP
\* core would call adi_phc_adjfine() and the ToD operations on freed memory.
NoUseAfterFree == registered => ~freed

\* A probe that succeeds leaves a running ToD counter: adi_tod_probe() can
\* fail to find the local clock configuration, and the time operations then
\* act on a stopped counter.
ProbeOkTodRuns == pc = "up" => todEnabled

=============================================================================
