----------------------------- MODULE MspPtpLink -----------------------------
(***************************************************************************)
(* The MS plane Ethernet device (adi-msp.c) as a consumer of the PTP       *)
(* hardware clock device (PhcDevice).  adi_msp_probe() looks the PTP       *)
(* device up through the "adi,ptp-clk" phandle, reads its driver data and  *)
(* keeps phc->ptp_clk in lp->ptp_clk; adi_msp_get_ts_info() later hands    *)
(* ptp_clock_index(lp->ptp_clk) to ethtool.  The two devices probe and     *)
(* unbind independently: nothing links the MSP device to the PTP one.      *)
(***************************************************************************)
EXTENDS Integers

CONSTANTS Freqs, Shift, Million, MaxPpm, MaxAdjust,
          Module   \* adi-msp.c built as a module (MODULE defined)

ASSUME Module \in BOOLEAN

VARIABLES pc, ret, todEnabled, clkOps, center, nco, lastPpm, adjRet,
          registered, freed, adjusts

Phc == INSTANCE PhcDevice

VARIABLES
    ptpNode,   \* the device tree has an "adi,ptp-clk" phandle
    mspPc,     \* "probe", "up", "failed" or "removed"
    hasPtp     \* lp->has_ptp, and lp->ptp_clk = phc->ptp_clk (else NULL)

phcVars == <<pc, ret, todEnabled, clkOps, center, nco, lastPpm, adjRet,
            registered, freed, adjusts>>
mspVars == <<ptpNode, mspPc, hasPtp>>
vars == <<phcVars, mspVars>>

\* platform_get_drvdata() of the PTP device: adi_ptp_probe() sets it after
\* ptp_clock_register() succeeded, and the driver core clears it when that
\* probe fails or the device is unbound.
PhcDrvdata == pc \in {"return", "up"}

Init ==
    /\ Phc!Init
    /\ ptpNode \in BOOLEAN
    /\ mspPc = "probe" /\ hasPtp = FALSE

(***************************************************************************)
(* adi_msp_probe().  Without driver data on the PTP device a built-in      *)
(* driver returns -EPROBE_DEFER (the core retries later, which is no step  *)
(* here) and a module goes on without PTP.  phc->ptp_clk is never NULL     *)
(* once the driver data is set, so the -EINVAL branch is not reachable.    *)
(* Any of the later platform_get_irq_byname(), "eth" property, ioremap,    *)
(* dmam_alloc_coherent() or register_netdev() calls may fail, and devm     *)
(* then releases the device.                                               *)
(***************************************************************************)
MspProbe ==
    /\ mspPc = "probe"
    /\ \/ /\ ptpNode /\ PhcDrvdata
          /\ hasPtp' = TRUE
       \/ /\ ~ptpNode \/ (Module /\ ~PhcDrvdata)
          /\ hasPtp' = FALSE
    /\ mspPc' \in {"up", "failed"}
    /\ UNCHANGED <<ptpNode, phcVars>>

\* adi_msp_remove(): unregister_netdev(); devm then frees the device.
MspRemove ==
    /\ mspPc = "up"
    /\ mspPc' = "removed"
    /\ UNCHANGED <<ptpNode, hasPtp, phcVars>>

Next ==
    \/ Phc!Next /\ UNCHANGED mspVars
    \/ MspProbe \/ MspRemove

Spec == Init /\ [][Next]_vars

-----------------------------------------------------------------------------
\* While the MSP net device is registered with PTP support, the clock kept
\* in lp->ptp_clk is still registered: adi_msp_get_ts_info() may call
\* ptp_clock_index(lp->ptp_clk) at any time, and adi_ptp_remove()'s
\* ptp_clock_unregister() releases that clock.
MspPtpClockLive == mspPc = "up" /\ hasPtp => registered

=============================================================================
