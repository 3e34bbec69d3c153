------------------------------ MODULE TodRegs -------------------------------
(***************************************************************************)
(* The register layer of the ToD counter in drivers/ptp/adi_ptp/ptp_adi.c: *)
(* the masked read-modify-write of _tod_reg_wr() and the masked read of   *)
(* _tod_reg_rd(), the local-clock table lc_clk_cfg[] and its programming   *)
(* into CFG_INCR by _tod_cfg_lc_clk() and adi_tod_module_init(), and the   *)
(* packing of a struct tod_tstamp into the three 32-bit TV registers.      *)
(* A register is a natural number; C's & and | are Bitwise's & and |.     *)
(* CFG_INCR keeps its real masks (29 bits fit a TLC integer).  The        *)
(* timestamp registers are scaled: RegHalf stands for the 16 of the       *)
(* shifts and of the 0xFFFF masks, so a u32 register has 2*RegHalf bits,  *)
(* the fraction RegHalf, the nanoseconds 2*RegHalf, the seconds 3*RegHalf.*)
(* The variable regIn holds one input (a timestamp, or a prior CFG_INCR   *)
(* value and a clock frequency) so that TLC checks the properties over    *)
(* every input; a module extending this one sets it in its Init.          *)
(***************************************************************************)
EXTENDS Integers, Bitwise, Sequences

CONSTANTS
    RegHalf        \* 16: half a TV register, the width of the fraction

-----------------------------------------------------------------------------
(* _tod_reg_wr(): with mask ADI_TOD_REG_MASK_ALL the value is written as it *)
(* is; otherwise the register is read, the field cleared with &= ~mask and  *)
(* (val << shift) & mask or-ed in.  rd & ~mask is rd - (rd & mask).        *)
RegMaskAll == -1    \* 0xFFFFFFFF, beyond a TLC integer

TodRegWrNoClear(rd, val, mask, shift) ==
    IF mask = RegMaskAll THEN val ELSE rd | ((val * 2^shift) & mask)

TodRegWr(rd, val, mask, shift) ==
    IF mask = RegMaskAll THEN val
    ELSE (rd - (rd & mask)) | ((val * 2^shift) & mask)

(* _tod_reg_rd(): (rd & mask) >> shift.                                   *)
TodRegRd(rd, mask, shift) == (rd & mask) \div 2^shift

(* The CFG_INCR fields of ptp_adi.h as <<mask, shift>>.                    *)
IncrFrac == <<65535, 0>>             \* 0xFFFF       FRAC_NS_PER_CLK
IncrNs == <<983040, 16>>             \* 0xF0000      NS_PER_CLK
IncrCntCtrl == <<66060288, 20>>      \* 0x3F00000    CNT_CTRL
IncrEn == <<268435456, 28>>          \* 0x10000000   CFG_TOD_CNT_EN
ADI_HW_TOD_ENABLE == 1

WrField(rd, val, f) == TodRegWr(rd, val, f[1], f[2])
RdField(rd, f) == TodRegRd(rd, f[1], f[2])

(* lc_clk_cfg[]: {freq_khz, ns_per_clk, frac_ns_per_clk, cnt_ctrl}.        *)
Cfg(f, n, fr, c) ==
    [freq_khz |-> f, ns_per_clk |-> n, frac_ns_per_clk |-> fr, cnt_ctrl |-> c]

LcClkCfgTypo ==
    << Cfg(100000, 10, 0, 0), Cfg(122880, 8, 9525, 4), Cfg(125000, 8, 0, 0),
       Cfg(156250, 6, 26214, 1), Cfg(245760, 4, 4522, 2),
       Cfg(250000, 4, 0, 0), Cfg(312500, 3, 13107, 8),
       Cfg(322265, 3, 6752, 32), Cfg(390625, 2, 36700, 16),
       Cfg(491520, 2, 2261, 4), Cfg(500000, 2, 0, 0),
       Cfg(983040, 1, 1130, 2) >>

LcClkCfg ==
    << Cfg(100000, 10, 0, 0), Cfg(122880, 8, 9045, 4), Cfg(125000, 8, 0, 0),
       Cfg(156250, 6, 26214, 1), Cfg(245760, 4, 4522, 2),
       Cfg(250000, 4, 0, 0), Cfg(312500, 3, 13107, 8),
       Cfg(322265, 3, 6752, 32), Cfg(390625, 2, 36700, 16),
       Cfg(491520, 2, 2261, 4), Cfg(500000, 2, 0, 0),
       Cfg(983040, 1, 1130, 2) >>

(* adi_tod_module_init(): _tod_cfg_lc_clk() looks lc_freq_khz up in the    *)
(* table and, on the first match, writes FRAC, NS and CNT_CTRL in that     *)
(* order; only if it matched (err == 0) is CFG_TOD_CNT_EN set.  The       *)
(* result is the CFG_INCR value left behind, from the value rd before.     *)
TodModuleInitIncr(rd, freq) ==
    LET hits == {i \in DOMAIN LcClkCfg : LcClkCfg[i].freq_khz = freq}
        e == LcClkCfg[CHOOSE i \in hits : \A j \in hits : i <= j]
        r1 == WrField(rd, e.frac_ns_per_clk, IncrFrac)
        r2 == WrField(r1, e.ns_per_clk, IncrNs)
        r3 == WrField(r2, e.cnt_ctrl, IncrCntCtrl)
    IN  IF hits = {} THEN rd ELSE WrField(r3, ADI_HW_TOD_ENABLE, IncrEn)

-----------------------------------------------------------------------------
(* _tod_hw_settstamp_to_reg() and _tod_hw_gettstamp_from_reg(), with 16   *)
(* read as RegHalf.  Lo is 0xFFFF, Hi 0xFFFF0000, Sec1 0xFFFFFFFF0000.     *)
Lo == 2^RegHalf - 1
Hi == Lo * 2^RegHalf
Sec1 == (2^(2 * RegHalf) - 1) * 2^RegHalf

SettstampToReg(t) ==
    << (t.frac_nanoseconds & Lo) | ((t.nanoseconds & Lo) * 2^RegHalf),
       ((t.nanoseconds & Hi) \div 2^RegHalf) | ((t.seconds & Lo) * 2^RegHalf),
       (t.seconds & Sec1) \div 2^RegHalf >>

(* Without the (u64) cast reg_tstamp[2] << 16 is a u32 shift.              *)
GettstampFromRegU32(r) ==
    [frac_nanoseconds |-> r[1] & Lo,
     nanoseconds |-> ((r[1] \div 2^RegHalf) & Lo) | ((r[2] & Lo) * 2^RegHalf),
     seconds |-> ((r[2] \div 2^RegHalf) & Lo)
                 | ((r[3] * 2^RegHalf) % 2^(2 * RegHalf))]

GettstampFromReg(r) ==
    [frac_nanoseconds |-> r[1] & Lo,
     nanoseconds |-> ((r[1] \div 2^RegHalf) & Lo) | ((r[2] & Lo) * 2^RegHalf),
     seconds |-> ((r[2] \div 2^RegHalf) & Lo) | (r[3] * 2^RegHalf)]

-----------------------------------------------------------------------------
(* Inputs: every struct tod_tstamp the hardware counter holds (48-bit     *)
(* seconds, 32-bit nanoseconds, 16-bit fraction, all scaled), every       *)
(* frequency of the table and one the table lacks, and prior CFG_INCR     *)
(* values with none, all of bits 0-28, a mix of them, and the reserved     *)
(* bits 29 and 30 set (bit 31 is beyond a TLC integer).                   *)
RegTstamps ==
    [seconds : 0 .. 2^(3 * RegHalf) - 1,
     nanoseconds : 0 .. 2^(2 * RegHalf) - 1,
     frac_nanoseconds : 0 .. 2^RegHalf - 1]

LcFreqs == {LcClkCfg[i].freq_khz : i \in DOMAIN LcClkCfg} \cup {200000}
PriorIncr == {0, 536870911, 357913941, 178956970, 2147483647, 1610612736}

VARIABLE regIn

NoRegIn == [kind |-> "none"]
RegInputs ==
    {[kind |-> "tstamp", t |-> t] : t \in RegTstamps}
    \cup {[kind |-> "incr", rd |-> rd, freq |-> f] : rd \in PriorIncr, f \in LcFreqs}

(* frac * 2^k / f rounded down, by long division: 2^16 * 10^6 overflows    *)
(* TLC's integers, so the fraction bits are produced one at a time.       *)
RECURSIVE FracBits(_, _, _)
FracBits(r, f, k) ==
    IF k = 0 THEN 0
    ELSE LET b == IF 2 * r >= f THEN 1 ELSE 0
         IN  b * 2^(k - 1) + FracBits(2 * r - b * f, f, k - 1)

-----------------------------------------------------------------------------
(* A timestamp written by _tod_hw_settstamp_to_reg() reads back unchanged *)
(* through _tod_hw_gettstamp_from_reg(), each TV register holds 32 bits,  *)
(* and the three registers laid end to end are seconds, nanoseconds and   *)
(* fraction: the shifts and masks of the two functions agree bit for bit. *)
TstampRegRoundTrip ==
    regIn.kind = "tstamp" =>
        LET t == regIn.t
            r == SettstampToReg(t)
        IN  /\ \A i \in 1 .. 3 : r[i] < 2^(2 * RegHalf)
            /\ GettstampFromReg(r) = t
            /\ (r[3] * 2^(2 * RegHalf) + r[2]) * 2^(2 * RegHalf) + r[1]
                 = (t.seconds * 2^(2 * RegHalf) + t.nanoseconds) * 2^RegHalf
                   + t.frac_nanoseconds

(* The lc_clk_cfg[] entries for a frequency are the period of that clock, *)
(* 10^6/freq_khz ns, with the fraction truncated to the 16 bits of        *)
(* FRAC_NS_PER_CLK: the ToD counter advances by exactly this much per     *)
(* local-clock cycle.                                                     *)
LcClkPeriodTruncated ==
    regIn.kind = "incr" =>
        \A i \in {j \in DOMAIN LcClkCfg : LcClkCfg[j].freq_khz = regIn.freq} :
            LET e == LcClkCfg[i]
            IN  /\ e.ns_per_clk = 10^6 \div e.freq_khz
                /\ e.frac_ns_per_clk = FracBits(10^6 % e.freq_khz, e.freq_khz, 16)

(* Whatever CFG_INCR held before, adi_tod_module_init() leaves each field  *)
(* reading back its table value (so none is truncated by its mask) with   *)
(* the counter enabled and the reserved bits 29-31 untouched; for a       *)
(* frequency the table lacks it leaves the register as it was, and the    *)
(* counter as the boot loader left it.                                    *)
CfgIncrProgrammed ==
    regIn.kind = "incr" =>
        LET w == TodModuleInitIncr(regIn.rd, regIn.freq)
            hit == {i \in DOMAIN LcClkCfg : LcClkCfg[i].freq_khz = regIn.freq}
        IN  IF hit = {} THEN w = regIn.rd
            ELSE LET e == LcClkCfg[CHOOSE i \in hit : TRUE]
                 IN  /\ RdField(w, IncrFrac) = e.frac_ns_per_clk
                     /\ RdField(w, IncrNs) = e.ns_per_clk
                     /\ RdField(w, IncrCntCtrl) = e.cnt_ctrl
                     /\ RdField(w, IncrEn) = ADI_HW_TOD_ENABLE
                     /\ w \div 2^29 = regIn.rd \div 2^29

=============================================================================
