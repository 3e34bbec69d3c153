------------------------------ MODULE RxPath ------------------------------
(***************************************************************************)
(* The receive path of drivers/net/ethernet/adi-msp.c and the hardware it  *)
(* drives:                                                                 *)
(*   - the MAC cutting each received frame into data work units (an SOF    *)
(*     unit and continuation units) followed by one status work unit, and  *)
(*     the Rx DMA writing them into the buffers of the Rx descriptor ring; *)
(*   - adi_msp_rx_dma_done_interrupt() and adi_msp_rx_poll() / adi_msp_rx():*)
(*     the drain loop under a NAPI budget that refills each slot with a    *)
(*     fresh buffer, reassembles frames in lp->prev_rx_skb[], hands        *)
(*     complete ones up, rearms the descriptor and relinks the previous    *)
(*     one, and the Rx DMA halt recovery after the loop.                   *)
(* A work unit is the record of the frame it belongs to and its kind.      *)
(***************************************************************************)
EXTENDS Integers, Sequences, SequencesExt

CONSTANTS
    NumRds,          \* ADI_MSP_NUM_RDS
    PrevRxSkbNum,    \* PREV_RX_SKB_NUM: size of lp->prev_rx_skb[]
    DataWuPerFrame,  \* DATA_WU_PER_FRAME
    Budget,          \* NAPI budget handed to adi_msp_rx_poll()
    MaxFrames,       \* bound on the frames the MAC receives
    MaxDataWus,      \* bound on the data work units of one frame
    MaxAllocFail     \* bound on failed napi_alloc_skb()/dma_map_single()

ASSUME NumRds >= 2 /\ Budget >= 1 /\ MaxFrames >= 1 /\ MaxAllocFail >= 0
ASSUME 1 <= DataWuPerFrame /\ DataWuPerFrame < PrevRxSkbNum /\ MaxDataWus >= 1

Rds == 0 .. NumRds - 1
SuccNoWrap(i) == i + 1               \* fault model: the ring mask left out
Succ(i) == (i + 1) % NumRds           \* (idx + 1) & ADI_MSP_RDS_MASK
Pred(i) == (i + NumRds - 1) % NumRds  \* (idx - 1) & ADI_MSP_RDS_MASK

\* The device's life: "down" until adi_msp_open() has set the ring up,
\* the stages of open ("irqs", "start", "napi_en") and of close.
DevPcs == {"down", "irqs", "start", "napi_en",
           "up", "irq", "dma", "napi", "free", "closed"}
Kinds == {"sof", "cont", "ok", "err"}
WorkUnits == [fid : 1 .. MaxFrames, kind : Kinds]
NoWu == [fid |-> 0, kind |-> "none"]  \* fresh buffer: skb->data[0] == 0

VARIABLES
    \* driver state
    rxWu,          \* work unit in the buffer of each slot (lp->rx_skb[i])
    rd,            \* flow of each Rx descriptor (lp->rd_ring[i].cfg)
    rxNextDone,    \* lp->rx_next_done
    prevRx,        \* lp->prev_rx_skb[0 .. lp->prev_rx_skb_count - 1]
    lastUp,        \* frame last passed to netif_receive_skb() (0: none)
    \* hardware
    rxDma,         \* Rx DMA: running at slot cur with the flow it fetched
                   \* ("unfetched" before), or halted
    macWus,        \* work units of the frame the MAC is delivering
    nextFid,       \* number of the next frame the MAC receives
    intact,        \* frames received intact (one data unit, good status)
    rxPending,     \* DMA_STAT_IRQDONE of the Rx DMA
    rxNapi,        \* Rx NAPI scheduled (its DMADONE interrupt masked)
    allocFails,    \* buffer allocations that failed so far
    \* adi_msp_rx() in progress
    rxPc, count,
    \* adi_msp_open() or adi_msp_close() in progress: the step it takes
    \* next ("up": open, close not begun)
    devPc

drv == <<rxWu, rd, rxNextDone, prevRx, lastUp, devPc>>
hw == <<rxDma, macWus, nextFid, intact, rxPending, rxNapi, allocFails>>
poll == <<rxPc, count>>
vars == <<drv, hw, poll>>

TypeOK ==
    /\ rxWu \in [Rds -> WorkUnits \cup {NoWu}]
    /\ rd \in [Rds -> {"stop", "dscl", "none"}]
    /\ rxNextDone \in Rds
    /\ prevRx \in Seq(WorkUnits)
    /\ lastUp \in 0 .. MaxFrames
    /\ rxDma \in [run : BOOLEAN, cur : Rds, flow : {"unfetched", "stop", "dscl", "none"}]
    /\ macWus \in Seq(WorkUnits)
    /\ nextFid \in 1 .. MaxFrames + 1
    /\ intact \in Seq(1 .. MaxFrames)
    /\ rxPending \in BOOLEAN /\ rxNapi \in BOOLEAN
    /\ allocFails \in 0 .. MaxAllocFail
    /\ rxPc \in {"idle", "loop", "link", "halt"}
    /\ count \in 0 .. Budget
    /\ devPc \in DevPcs

\* adi_msp_probe(): the Rx descriptor ring comes zeroed from
\* dmam_alloc_coherent(), lp->rx_skb[] from the zeroed private data, and
\* netif_napi_add() leaves the Rx NAPI disabled.  The device is down.
Init ==
    /\ rxWu = [i \in Rds |-> NoWu]
    /\ rd = [i \in Rds |-> "none"]
    /\ rxNextDone = 0
    /\ prevRx = <<>>
    /\ lastUp = 0
    /\ rxDma = [run |-> FALSE, cur |-> 0, flow |-> "none"]
    /\ macWus = <<>> /\ nextFid = 1 /\ intact = <<>>
    /\ rxPending = FALSE /\ rxNapi = FALSE /\ allocFails = 0
    /\ rxPc = "idle" /\ count = 0
    /\ devPc = "down"

-----------------------------------------------------------------------------
(***************************************************************************)
(* Hardware.  The MAC receives a frame as k data work units (an SOF unit,  *)
(* then continuations) and a status unit that is good or flags an error    *)
(* (the ERR and DROPPED flags take the same path in adi_msp_rx()).  The Rx *)
(* DMA fetches the descriptor of its current slot, writes the next unit    *)
(* into that slot's buffer, raises DMA done, and halts after a STOP        *)
(* descriptor.                                                             *)
(***************************************************************************)
MacReceive ==
    /\ devPc \in {"napi_en", "up"}
    /\ macWus = <<>> /\ nextFid <= MaxFrames
    /\ \E k \in 1 .. MaxDataWus, good \in BOOLEAN :
         /\ macWus' = [i \in 1 .. k + 1 |->
                         [fid |-> nextFid,
                          kind |-> CASE i = 1 -> "sof"
                                     [] i <= k -> "cont"
                                     [] good -> "ok"
                                     [] OTHER -> "err"]]
         /\ intact' = IF good /\ k <= DataWuPerFrame
                      THEN Append(intact, nextFid) ELSE intact
    /\ nextFid' = nextFid + 1
    /\ UNCHANGED <<drv, rxDma, rxPending, rxNapi, allocFails, poll>>

RxDmaFetch ==
    /\ rxDma.run /\ rxDma.flow = "unfetched"
    /\ rxDma' = IF rd[rxDma.cur] = "none"
               THEN [rxDma EXCEPT !.run = FALSE, !.flow = "none"]
               ELSE [rxDma EXCEPT !.flow = rd[rxDma.cur]]
    /\ UNCHANGED <<drv, macWus, nextFid, intact, rxPending, rxNapi, allocFails, poll>>

RxDmaWrite ==
    /\ rxDma.run /\ rxDma.flow # "unfetched"
    /\ macWus # <<>>
    /\ rxWu' = [rxWu EXCEPT ![rxDma.cur] = Head(macWus)]
    /\ macWus' = Tail(macWus)
    /\ rxPending' = TRUE
    /\ rxDma' = IF rxDma.flow = "dscl"
                THEN [run |-> TRUE, cur |-> Succ(rxDma.cur), flow |-> "unfetched"]
                ELSE [rxDma EXCEPT !.run = FALSE]
    /\ UNCHANGED <<rd, rxNextDone, prevRx, lastUp, devPc, nextFid, intact,
                   rxNapi, allocFails, poll>>

\* adi_msp_rx_dma_done_interrupt(): mask DMADONE and schedule the poll.
RxIrq ==
    /\ devPc \in {"up", "irq"}
    /\ rxPending /\ ~rxNapi
    /\ rxNapi' = TRUE
    /\ UNCHANGED <<drv, rxDma, macWus, nextFid, intact, rxPending, allocFails, poll>>

-----------------------------------------------------------------------------
(***************************************************************************)
(* Reassembly of one work unit wu with the units held in prev: the new     *)
(* contents of lp->prev_rx_skb[], the frame handed up (0: none) and        *)
(* whether the unit counts against the budget.  A unit that is stored and  *)
(* then dropped with the others leaves prev empty.                         *)
(***************************************************************************)
\* Fault model: the "too many work units" test one unit late.
ReassembleTooManyAtNum(wu, prev) ==
    LET n == Len(prev)
        Keep(p, up, c) == [prev |-> p, up |-> up, counted |-> c]
    IN  CASE wu.kind = "sof"  -> Keep(<<wu>>, 0, FALSE)
          [] wu.kind = "cont" ->
               IF n = 0 \/ n = PrevRxSkbNum
               THEN Keep(<<>>, 0, FALSE)
               ELSE Keep(Append(prev, wu), 0, FALSE)
          [] wu.kind = "err"  -> Keep(<<>>, 0, TRUE)
          [] n = 0            -> Keep(<<>>, 0, FALSE)
          [] n > DataWuPerFrame -> Keep(<<>>, 0, TRUE)
          [] OTHER            -> Keep(<<>>, Head(prev).fid, TRUE)


\* Fault model: a frame one data unit too long still handed up.
ReassembleOneMore(wu, prev) ==
    LET n == Len(prev)
        Keep(p, up, c) == [prev |-> p, up |-> up, counted |-> c]
    IN  CASE wu.kind = "sof"  -> Keep(<<wu>>, 0, FALSE)
          [] wu.kind = "cont" ->
               IF n = 0 \/ n = PrevRxSkbNum - 1
               THEN Keep(<<>>, 0, FALSE)
               ELSE Keep(Append(prev, wu), 0, FALSE)
          [] wu.kind = "err"  -> Keep(<<>>, 0, TRUE)
          [] n = 0            -> Keep(<<>>, 0, FALSE)
          [] n > DataWuPerFrame + 1 -> Keep(<<>>, 0, TRUE)
          [] OTHER            -> Keep(<<>>, Head(prev).fid, TRUE)


Reassemble(wu, prev) ==
    LET n == Len(prev)
        Keep(p, up, c) == [prev |-> p, up |-> up, counted |-> c]
    IN  CASE wu.kind = "sof"  -> Keep(<<wu>>, 0, FALSE)
          [] wu.kind = "cont" ->
               IF n = 0 \/ n = PrevRxSkbNum - 1
               THEN Keep(<<>>, 0, FALSE)
               ELSE Keep(Append(prev, wu), 0, FALSE)
          [] wu.kind = "err"  -> Keep(<<>>, 0, TRUE)
          [] n = 0            -> Keep(<<>>, 0, FALSE)
          [] n > DataWuPerFrame -> Keep(<<>>, 0, TRUE)
          [] OTHER            -> Keep(<<>>, Head(prev).fid, TRUE)

-----------------------------------------------------------------------------
(***************************************************************************)
(* adi_msp_rx_poll() / adi_msp_rx().  RxProcess takes a new buffer for the *)
(* ready slot, reassembles the unit it held and rearms the slot's          *)
(* descriptor with STOP; RxLink relinks the previous descriptor with DSCL, *)
(* advances rx_next_done and acknowledges DMA done.  A failed allocation   *)
(* or mapping of the new buffer leaves the loop with the slot untouched.   *)
(***************************************************************************)
RxPollBegin ==
    /\ rxNapi /\ rxPc = "idle"
    /\ rxPc' = "loop" /\ count' = 0
    /\ UNCHANGED <<drv, hw>>

RxLoopExit ==
    /\ rxPc = "loop"
    /\ count >= Budget \/ rxWu[rxNextDone] = NoWu
    /\ rxPc' = "halt"
    /\ UNCHANGED <<drv, hw, count>>

RxAllocFail ==
    /\ rxPc = "loop" /\ count < Budget /\ rxWu[rxNextDone] # NoWu
    /\ allocFails < MaxAllocFail
    /\ allocFails' = allocFails + 1
    /\ rxPc' = "halt"
    /\ UNCHANGED <<drv, rxDma, macWus, nextFid, intact, rxPending, rxNapi, count>>

RxProcess ==
    /\ rxPc = "loop" /\ count < Budget /\ rxWu[rxNextDone] # NoWu
    /\ LET idx == rxNextDone
           r == Reassemble(rxWu[idx], prevRx)
       IN  /\ rxWu' = [rxWu EXCEPT ![idx] = NoWu]
           /\ prevRx' = r.prev
           /\ lastUp' = IF r.up # 0 THEN r.up ELSE lastUp
           /\ count' = IF r.counted THEN count + 1 ELSE count
           /\ rd' = [rd EXCEPT ![idx] = "stop"]
    /\ rxPc' = "link"
    /\ UNCHANGED <<rxNextDone, devPc, hw>>

RxLink ==
    /\ rxPc = "link"
    /\ rd' = [rd EXCEPT ![Pred(rxNextDone)] = "dscl"]
    /\ rxNextDone' = Succ(rxNextDone)
    /\ rxPending' = FALSE
    /\ rxPc' = "loop"
    /\ UNCHANGED <<rxWu, prevRx, lastUp, devPc, rxDma, macWus, nextFid, intact,
                   rxNapi, allocFails, count>>

\* The poll returns c: NAPI completes and DMADONE is unmasked only if the
\* budget was not used up; otherwise NAPI polls again, unless napi_disable()
\* is waiting, in which case the NAPI core completes it.
RxPollReturn(c) ==
    /\ rxPc' = "idle"
    /\ count' = c
    /\ rxNapi' = (c >= Budget /\ devPc # "napi")

\* Fault model: the Rx DMA restarted at its halt slot, not rx_next_done.
RxHaltCheckAtCur ==
    /\ rxPc = "halt"
    /\ IF ~rxDma.run /\ rxWu[rxNextDone] = NoWu
       THEN /\ rxDma' = [run |-> TRUE, cur |-> rxDma.cur, flow |-> "unfetched"]
            /\ rxPending' = FALSE
            /\ RxPollReturn(IF count < Budget - 1 THEN count ELSE Budget - 1)
       ELSE /\ UNCHANGED <<rxDma, rxPending>>
            /\ IF ~rxDma.run /\ count < Budget
               THEN rxPc' = "loop" /\ UNCHANGED <<count, rxNapi>>
               ELSE RxPollReturn(count)
    /\ UNCHANGED <<drv, macWus, nextFid, intact, allocFails>>


\* Fault model: the goto back to the loop without the count < budget test.
RxHaltCheckNoBudget ==
    /\ rxPc = "halt"
    /\ IF ~rxDma.run /\ rxWu[rxNextDone] = NoWu
       THEN /\ rxDma' = [run |-> TRUE, cur |-> rxNextDone, flow |-> "unfetched"]
            /\ rxPending' = FALSE
            /\ RxPollReturn(IF count < Budget - 1 THEN count ELSE Budget - 1)
       ELSE /\ UNCHANGED <<rxDma, rxPending>>
            /\ IF ~rxDma.run
               THEN rxPc' = "loop" /\ UNCHANGED <<count, rxNapi>>
               ELSE RxPollReturn(count)
    /\ UNCHANGED <<drv, macWus, nextFid, intact, allocFails>>

\* After the loop: a halted Rx DMA is restarted at rx_next_done if that
\* slot is still empty; if it holds a unit the loop runs again while budget
\* remains.
RxHaltCheck ==
    /\ rxPc = "halt"
    /\ IF ~rxDma.run /\ rxWu[rxNextDone] = NoWu
       THEN /\ rxDma' = [run |-> TRUE, cur |-> rxNextDone, flow |-> "unfetched"]
            /\ rxPending' = FALSE
            /\ RxPollReturn(IF count < Budget - 1 THEN count ELSE Budget - 1)
       ELSE /\ UNCHANGED <<rxDma, rxPending>>
            /\ IF ~rxDma.run /\ count < Budget
               THEN rxPc' = "loop" /\ UNCHANGED <<count, rxNapi>>
               ELSE RxPollReturn(count)
    /\ UNCHANGED <<drv, macWus, nextFid, intact, allocFails>>

-----------------------------------------------------------------------------
(***************************************************************************)
(* adi_msp_open(), one step per stage that the Rx path can tell apart.     *)
(* The MSP interfaces and DMAs are first written off, which a down device  *)
(* already is.  A failed napi_alloc_skb() or dma_map_single() in           *)
(* adi_msp_alloc_ring() is followed by adi_msp_free_ring() and -ENOMEM,    *)
(* which leaves the device as it was: a stuttering step.                   *)
(***************************************************************************)
\* Fault model: every Rx descriptor linked, none stopping.
AllocRingNoStop ==
    /\ rxWu' = [i \in Rds |-> NoWu]
    /\ rd' = [i \in Rds |-> "dscl"]
    /\ rxNextDone' = 0

\* adi_msp_alloc_ring(), Rx part: every slot gets a fresh buffer
\* (skb->data[0] = 0) and a descriptor linked to the next, the last one
\* stopping; rx_next_done = 0.
AllocRing ==
    /\ rxWu' = [i \in Rds |-> NoWu]
    /\ rd' = [i \in Rds |-> IF i = NumRds - 1 THEN "stop" ELSE "dscl"]
    /\ rxNextDone' = 0

\* adi_msp_open() up to the interrupts: the ring is allocated and
\* lp->prev_rx_skb[] emptied (the frame tag pools are TxPath's).
OpenAllocRing ==
    /\ devPc = "down"
    /\ devPc' = "irqs"
    /\ AllocRing
    /\ prevRx' = <<>>
    /\ UNCHANGED <<lastUp, hw, poll>>

\* The error labels of adi_msp_open(): the interrupts already requested are
\* freed in reverse order and adi_msp_free_ring() clears the descriptors and
\* frees the buffers; open returns the error with the device down.
OpenUnwind ==
    /\ devPc' = "down"
    /\ rd' = [i \in Rds |-> "none"]

\* The five request_irq() calls, any of which may fail.
OpenRequestIrqs ==
    /\ devPc = "irqs"
    /\ \/ devPc' = "start" /\ UNCHANGED rd
       \/ OpenUnwind
    /\ UNCHANGED <<rxWu, rxNextDone, prevRx, lastUp, hw, poll>>

\* The status DMA and the MSP Tx interface are started, then the Rx DMA at
\* descriptor 0 with FLOW_DSCL and the MSP Rx interface: from here on frames
\* arrive and the DMA done interrupt may fire, while the Rx NAPI is still
\* disabled and napi_schedule_prep() in the handler fails.
OpenStart ==
    /\ devPc = "start"
    /\ devPc' = "napi_en"
    /\ rxDma' = [run |-> TRUE, cur |-> 0, flow |-> "unfetched"]
    /\ UNCHANGED <<rxWu, rd, rxNextDone, prevRx, lastUp, macWus, nextFid,
                   intact, rxPending, rxNapi, allocFails, poll>>

\* napi_enable(&lp->rx_napi); the status NAPI and netif_start_queue()
\* belong to the Tx path.
OpenNapiEnable ==
    /\ devPc = "napi_en"
    /\ devPc' = "up"
    /\ UNCHANGED <<rxWu, rd, rxNextDone, prevRx, lastUp, hw, poll>>

-----------------------------------------------------------------------------
(***************************************************************************)
(* adi_msp_close(), one step per stage, while the Rx DMA, the interrupt    *)
(* and the Rx poll go on.  Disabling the MSP Rx interface stops new frames *)
(* from the wire; whether the units the MSP already holds still reach the  *)
(* DMA is left open.  Only the Rx ring's part of each stage is modelled.   *)
(***************************************************************************)
\* writel(0, &lp->rx_regs->stat_ctrl)
CloseMsp ==
    /\ devPc = "up"
    /\ devPc' = "irq"
    /\ macWus' \in {macWus, <<>>}
    /\ UNCHANGED <<rxWu, rd, rxNextDone, prevRx, lastUp, rxDma, nextFid, intact,
                   rxPending, rxNapi, allocFails, poll>>

\* disable_irq(lp->rx_dmadone_irq): no handler runs once it returns.
CloseIrq ==
    /\ devPc = "irq"
    /\ devPc' = "dma"
    /\ UNCHANGED <<rxWu, rd, rxNextDone, prevRx, lastUp, hw, poll>>

\* writel(0, &lp->rx_dma_regs->cfg): the Rx DMA stops, and its status
\* then reads DMA_STAT_HALT ("IDLE or STOP").
CloseDma ==
    /\ devPc = "dma"
    /\ devPc' = "napi"
    /\ rxDma' = [rxDma EXCEPT !.run = FALSE]
    /\ UNCHANGED <<rxWu, rd, rxNextDone, prevRx, lastUp, macWus, nextFid, intact,
                   rxPending, rxNapi, allocFails, poll>>

\* napi_disable(&lp->rx_napi) returns once no poll is scheduled or running;
\* a poll already scheduled still runs first.
NapiDisable ==
    /\ devPc = "napi" /\ ~rxNapi /\ rxPc = "idle"
    /\ devPc' = "free"
    /\ UNCHANGED <<rxWu, rd, rxNextDone, prevRx, lastUp, hw, poll>>

\* adi_msp_free_ring() clears every Rx descriptor and unmaps and frees every
\* buffer (lp->rx_skb[i] = NULL); then the units held in lp->prev_rx_skb[]
\* are freed and prev_rx_skb_count reset.
FreeRing ==
    /\ devPc = "free"
    /\ devPc' = "closed"
    /\ rxWu' = [i \in Rds |-> NoWu]
    /\ rd' = [i \in Rds |-> "none"]
    /\ prevRx' = <<>>
    /\ UNCHANGED <<rxNextDone, lastUp, hw, poll>>

-----------------------------------------------------------------------------
Next ==
    \/ MacReceive \/ RxDmaFetch \/ RxDmaWrite \/ RxIrq
    \/ RxPollBegin \/ RxLoopExit \/ RxAllocFail \/ RxProcess \/ RxLink
    \/ RxHaltCheck
    \/ OpenAllocRing \/ OpenRequestIrqs \/ OpenStart \/ OpenNapiEnable
    \/ CloseMsp \/ CloseIrq \/ CloseDma \/ NapiDisable \/ FreeRing

\* The DMA, the interrupt and NAPI make progress, and so does an open or a
\* close once begun; the MAC is not obliged to receive frames, an
\* allocation is not obliged to fail and the device is not obliged to be
\* opened or closed.
Fairness ==
    /\ WF_vars(RxDmaFetch) /\ WF_vars(RxDmaWrite) /\ WF_vars(RxIrq)
    /\ WF_vars(RxPollBegin) /\ WF_vars(RxLoopExit) /\ WF_vars(RxProcess)
    /\ WF_vars(RxLink) /\ WF_vars(RxHaltCheck)
    /\ WF_vars(OpenRequestIrqs) /\ WF_vars(OpenStart) /\ WF_vars(OpenNapiEnable)
    /\ WF_vars(CloseIrq) /\ WF_vars(CloseDma) /\ WF_vars(NapiDisable)
    /\ WF_vars(FreeRing)

Spec == Init /\ [][Next]_vars /\ Fairness

-----------------------------------------------------------------------------
(***************************************************************************)
(* Properties.                                                             *)
(***************************************************************************)

\* adi_msp_rx() stores a unit at lp->prev_rx_skb[lp->prev_rx_skb_count]
\* before it decides to drop, so the count must stay below PREV_RX_SKB_NUM
\* between units whatever the MAC sends; the "too many work units" test at
\* PREV_RX_SKB_NUM - 1 is what keeps it there.
PrevRxInBounds == Len(prevRx) < PrevRxSkbNum

\* The Rx DMA never writes into a buffer whose unit adi_msp_rx() has not
\* consumed: the STOP descriptor on the last refilled slot, the DSCL relink
\* and the restart at rx_next_done keep it behind the driver.
NoRxOverwrite ==
    [][\A i \in Rds : rxWu[i] # NoWu => rxWu'[i] \in {rxWu[i], NoWu}]_vars

\* The receive path implements RxStream: the frames handed up are exactly
\* the intact frames, once each and in arrival order.
UpPending == SelectSeq(intact, LAMBDA f : f > lastUp)
Stream == INSTANCE RxStream WITH FrameIds <- 1 .. MaxFrames, q <- UpPending, out <- lastUp
RxStreamRefined == Stream!Spec

\* Every work unit the Rx DMA writes is eventually consumed by adi_msp_rx():
\* the DMA done interrupt and the halt recovery keep the poll coming back
\* while a unit waits (spec section 7: allocation failure is retried on
\* the next invocation), for as long as the device is not closed.  Units
\* the DMA writes while adi_msp_open() has yet to enable the Rx NAPI are
\* consumed too: DMA done stays pending until the poll acknowledges it.
Closing == devPc \in {"irq", "dma", "napi", "free", "closed"}
RxUnitsConsumed == \A i \in Rds : rxWu[i] # NoWu ~> rxWu[i] = NoWu
RxUnitsConsumedWhileOpen == [](~Closing) => RxUnitsConsumed

\* The same, for the behaviours in which napi_alloc_skb() and
\* dma_map_single() never fail in the poll and the device is not closed:
\* then the interrupt and halt-recovery paths of adi_msp_rx_poll() alone
\* must bring the poll back to every unit.
RxUnitsConsumedWithoutAllocFail ==
    [](allocFails = 0 /\ ~Closing) => RxUnitsConsumed

\* Every Rx poll returns to NAPI.  With the Rx DMA halted on a unit the
\* loop did not take, adi_msp_rx() jumps back to msp_rx_loop; a unit that
\* is not counted, or an allocation failure that breaks out without
\* counting, brings it back to the same test, so only the budget test and
\* the halted DMA's finite ring end the jumps.
RxPollReturns == rxPc # "idle" ~> rxPc = "idle"

\* When adi_msp_close() frees the Rx buffers the Rx DMA is stopped, as its
\* "Disable DMAs" step intends: a running DMA writes incoming work units
\* into buffers that are unmapped and freed.
RxDmaStoppedAtFree == devPc = "closed" => ~rxDma.run

=============================================================================
