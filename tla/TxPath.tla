------------------------------ MODULE TxPath ------------------------------
(***************************************************************************)
(* The transmit path of drivers/net/ethernet/adi-msp.c and the hardware it *)
(* drives:                                                                 *)
(*   - adi_msp_send_packet(): tag, Tx ring slot, descriptor chain and Tx   *)
(*     DMA start under lp->lock, queue stop;                               *)
(*   - the Tx DMA engine walking the descriptor list it was started on,    *)
(*     the MAC sending each frame and writing one status work unit per     *)
(*     frame through the Tx status DMA into the status ring;               *)
(*   - adi_msp_status_dma_done_interrupt() and adi_msp_status_poll() /     *)
(*     adi_msp_status(): status drain under a NAPI budget, tag and buffer  *)
(*     release, queue wake, Tx DMA restart of a pending chain, status DMA  *)
(*     halt recovery.                                                      *)
(* Rings have NumTds slots (ADI_MSP_NUM_TDS = ADI_MSP_NUM_SDS).  A frame   *)
(* is the record of its submission number, its PTP request and its tag.    *)
(***************************************************************************)
EXTENDS FrameTag, Sequences, SequencesExt

CONSTANTS
    NumTds,        \* ADI_MSP_NUM_TDS
    StopQueueTh,   \* ADI_MSP_STOP_QUEUE_TH
    Budget,        \* NAPI budget handed to adi_msp_status_poll()
    MaxFrames      \* bound on the frames the stack submits

ASSUME NumTds >= 2 /\ StopQueueTh \in 1 .. NumTds - 1
ASSUME Budget >= 1 /\ MaxFrames >= 1

Ring == 0 .. NumTds - 1
SuccNoWrap(i) == i + 1               \* fault model: the ring mask left out
Succ(i) == (i + 1) % NumTds           \* (idx + 1) & ADI_MSP_TDS_MASK
Pred(i) == (i + NumTds - 1) % NumTds  \* (idx - 1) & ADI_MSP_TDS_MASK

Frames == [id : 1 .. MaxFrames, ptp : BOOLEAN, tag : 1 .. MaxPtpTag]
NoSkb == [id |-> 0, ptp |-> FALSE, tag |-> 0]        \* lp->tx_skb[i] == NULL
NoStatus == [tag |-> 0, ptp |-> FALSE]   \* status work unit with byte0 == 0
Flows == {"none", "stop", "dscl"}   \* descriptor cfg: 0, DMA_CFG_FLOW_STOP, _DSCL

VARIABLES
    \* driver state (struct adi_msp_private)
    tags,          \* frame tag pools, see FrameTag
    txCount,       \* lp->tx_count
    txSkb,         \* lp->tx_skb[]: the frame bound to each Tx slot
    td,            \* flow of each Tx descriptor (lp->td_ring[i].cfg)
    chainHead,     \* lp->tx_chain_head
    chainTail,     \* lp->tx_chain_tail
    chainStatus,   \* lp->tx_chain_status
    txNextDone,    \* lp->tx_next_done
    sd,            \* flow of each status descriptor (lp->sd_ring[i].cfg)
    queueStopped,  \* netif_queue_stopped(dev)
    txReset,       \* adi_msp_status() took the "reset_tx" exit
    \* hardware
    txDma,         \* Tx DMA: halted, or running with next descriptor cur
    macFifo,       \* frames read by the Tx DMA whose status is not written
    statusDma,     \* status DMA: halted, or running at slot cur with the
                   \* flow it fetched from sd[cur] ("unfetched" before)
    statusWu,      \* status work unit in each status slot
    statusPending, \* DMA_STAT_IRQDONE of the status DMA
    statusNapi,    \* status NAPI scheduled (its DMADONE interrupt masked)
    lastWire,      \* number of the last frame the Tx DMA read
    \* adi_msp_send_packet() in progress
    sendPc, sendPtp, sendStop, nextId,
    \* adi_msp_status() in progress
    statusPc, count

drv == <<tags, txCount, txSkb, td, chainHead, chainTail, chainStatus,
         txNextDone, sd, queueStopped, txReset>>
hw == <<txDma, macFifo, statusDma, statusWu, statusPending, statusNapi, lastWire>>
send == <<sendPc, sendPtp, sendStop, nextId>>
poll == <<statusPc, count>>
vars == <<drv, hw, send, poll>>

-----------------------------------------------------------------------------
TypeOK ==
    /\ tags \in [Pools -> [next : 1 .. MaxPtpTag, last : 1 .. MaxPtpTag, avail : 0 .. MaxPtpTag]]
    /\ txCount \in 0 .. NumTds
    /\ txSkb \in [Ring -> Frames \cup {NoSkb}]
    /\ td \in [Ring -> Flows] /\ sd \in [Ring -> Flows \ {"none"}]
    /\ chainHead \in Ring /\ chainTail \in Ring /\ txNextDone \in Ring
    /\ chainStatus \in {"EMPTY", "FILLED"}
    /\ queueStopped \in BOOLEAN /\ txReset \in BOOLEAN
    /\ txDma \in [run : BOOLEAN, cur : Ring]
    /\ macFifo \in Seq(Frames \cup {NoSkb})
    /\ statusDma \in [run : BOOLEAN, cur : Ring, flow : Flows \cup {"unfetched"}]
    /\ statusWu \in [Ring -> [tag : 0 .. MaxPtpTag, ptp : BOOLEAN]]
    /\ statusPending \in BOOLEAN /\ statusNapi \in BOOLEAN
    /\ lastWire \in 0 .. MaxFrames
    /\ sendPc \in {"idle", "checked", "stopped"} /\ sendPtp \in BOOLEAN /\ sendStop \in BOOLEAN
    /\ nextId \in 1 .. MaxFrames + 1
    /\ statusPc \in {"idle", "loop", "link", "restart", "halt"}
    /\ count \in 0 .. Budget

\* adi_msp_open() with adi_msp_alloc_ring(): empty Tx ring and chain, status
\* ring linked with its last descriptor stopping, status DMA started at slot
\* 0, Tx DMA disabled, queue started.
Init ==
    /\ tags = InitTags
    /\ txCount = 0
    /\ txSkb = [i \in Ring |-> NoSkb]
    /\ td = [i \in Ring |-> "none"]
    /\ chainHead = 0 /\ chainTail = 0 /\ chainStatus = "EMPTY"
    /\ txNextDone = 0
    /\ sd = [i \in Ring |-> IF i = NumTds - 1 THEN "stop" ELSE "dscl"]
    /\ queueStopped = FALSE /\ txReset = FALSE
    /\ txDma = [run |-> FALSE, cur |-> 0]
    /\ macFifo = <<>>
    /\ statusDma = [run |-> TRUE, cur |-> 0, flow |-> "unfetched"]
    /\ statusWu = [i \in Ring |-> NoStatus]
    /\ statusPending = FALSE /\ statusNapi = FALSE
    /\ lastWire = 0
    /\ sendPc = "idle" /\ sendPtp = FALSE /\ sendStop = FALSE /\ nextId = 1
    /\ statusPc = "idle" /\ count = 0

-----------------------------------------------------------------------------
(***************************************************************************)
(* adi_msp_send_packet(), under lp->lock, in three steps.  SendCheck runs  *)
(* the drop checks (length, ring full, no tag) and reads tx_count and the  *)
(* tag count for the queue-stop decision; SendStop calls                   *)
(* netif_stop_queue() if so decided; SendCommit either drops the frame     *)
(* (pskb_expand_head() or dma_map_single() failed) or takes the tag,       *)
(* fills the slot at the chain tail and updates the chain by the 2x2 table *)
(* on (Tx DMA halted?, chain status).  The status drain loop does not take *)
(* lp->lock, so it runs between these steps; the Tx DMA restart in the     *)
(* status poll does take it.                                               *)
(***************************************************************************)
DropFrame ==
    /\ nextId' = nextId + 1
    /\ sendPc' = "idle"

SendCheck ==
    /\ sendPc = "idle" /\ ~queueStopped /\ nextId <= MaxFrames
    /\ \E ptp \in BOOLEAN, huge \in BOOLEAN :
         IF huge \/ txCount > NumTds \/ txCount = NumTds \/ tags[ptp].avail = 0
         THEN /\ DropFrame
              /\ UNCHANGED <<sendPtp, sendStop>>
         ELSE /\ sendPc' = "checked"
              /\ sendPtp' = ptp
              /\ sendStop' = (~queueStopped
                              /\ (txCount >= NumTds - StopQueueTh
                                  \/ tags[ptp].avail <= StopQueueTh))
              /\ UNCHANGED nextId
    /\ UNCHANGED <<drv, hw, poll>>

SendStop ==
    /\ sendPc = "checked"
    /\ queueStopped' = (queueStopped \/ sendStop)
    /\ sendPc' = "stopped"
    /\ UNCHANGED <<tags, txCount, txSkb, td, chainHead, chainTail, chainStatus,
                   txNextDone, sd, txReset, hw, sendPtp, sendStop, nextId, poll>>

\* The descriptor chain update of adi_msp_send_packet() for a frame put in
\* slot idx, given whether the Tx DMA status register read "halted".
\* Fault model: the chain head not moved to the tail after a DMA start.
ChainUpdateKeepHead(idx, halted) ==
    /\ chainTail' = Succ(idx)
    /\ td' = [td EXCEPT ![idx] = "stop",
                        ![Pred(idx)] = IF chainStatus = "FILLED" THEN "dscl" ELSE @]
    /\ IF halted
       THEN /\ txDma' = [run |-> TRUE, cur |-> chainHead]
            /\ chainHead' = chainHead
            /\ chainStatus' = "EMPTY"
       ELSE /\ UNCHANGED <<txDma, chainHead>>
            /\ chainStatus' = "FILLED"

\* Fault model: the chain tail not advanced past the new slot.
ChainUpdateNoTailMove(idx, halted) ==
    /\ chainTail' = idx
    /\ td' = [td EXCEPT ![idx] = "stop",
                        ![Pred(idx)] = IF chainStatus = "FILLED" THEN "dscl" ELSE @]
    /\ IF halted
       THEN /\ txDma' = [run |-> TRUE, cur |-> chainHead]
            /\ chainHead' = Succ(idx)
            /\ chainStatus' = "EMPTY"
       ELSE /\ UNCHANGED <<txDma, chainHead>>
            /\ chainStatus' = "FILLED"

ChainUpdate(idx, halted) ==
    /\ chainTail' = Succ(idx)
    /\ td' = [td EXCEPT ![idx] = "stop",
                        ![Pred(idx)] = IF chainStatus = "FILLED" THEN "dscl" ELSE @]
    /\ IF halted
       THEN /\ txDma' = [run |-> TRUE, cur |-> chainHead]
            /\ chainHead' = Succ(idx)
            /\ chainStatus' = "EMPTY"
       ELSE /\ UNCHANGED <<txDma, chainHead>>
            /\ chainStatus' = "FILLED"

SendCommit ==
    /\ sendPc = "stopped"
    /\ \/ /\ DropFrame
          /\ UNCHANGED <<tags, txCount, txSkb, td, chainHead, chainTail,
                         chainStatus, txDma>>
       \/ LET idx == chainTail
              frame == [id |-> nextId, ptp |-> sendPtp,
                        tag |-> NextFrameTag(tags, sendPtp)]
          IN  /\ tags' = GetFrameTag(tags, sendPtp)
              /\ txCount' = txCount + 1
              /\ txSkb' = [txSkb EXCEPT ![idx] = frame]
              /\ ChainUpdate(idx, ~txDma.run)
              /\ nextId' = nextId + 1
              /\ sendPc' = "idle"
    /\ UNCHANGED <<txNextDone, sd, queueStopped, txReset, macFifo, statusDma,
                   statusWu, statusPending, statusNapi, lastWire, sendPtp,
                   sendStop, poll>>

-----------------------------------------------------------------------------
(***************************************************************************)
(* Hardware.  The Tx DMA reads the frame of its current descriptor into    *)
(* the MAC and follows the link if the descriptor's flow is DSCL, else     *)
(* halts.  The status DMA fetches the descriptor of its current slot       *)
(* (possibly long before the status arrives), then writes the status of    *)
(* the oldest frame the MAC sent into that slot, raises DMA done, and      *)
(* halts if the fetched flow was STOP.  A transmit error or a missing      *)
(* timestamp changes only statistics: the poll frees the slot either way.  *)
(***************************************************************************)
TxDmaXfer ==
    /\ txDma.run
    /\ macFifo' = Append(macFifo, txSkb[txDma.cur])
    /\ lastWire' = txSkb[txDma.cur].id
    /\ txDma' = IF td[txDma.cur] = "dscl"
                THEN [txDma EXCEPT !.cur = Succ(@)]
                ELSE [txDma EXCEPT !.run = FALSE]
    /\ UNCHANGED <<drv, statusDma, statusWu, statusPending, statusNapi, send, poll>>

StatusDmaFetch ==
    /\ statusDma.run /\ statusDma.flow = "unfetched"
    /\ statusDma' = [statusDma EXCEPT !.flow = sd[statusDma.cur]]
    /\ UNCHANGED <<drv, txDma, macFifo, statusWu, statusPending, statusNapi,
                   lastWire, send, poll>>

MacStatus ==
    /\ statusDma.run /\ statusDma.flow # "unfetched"
    /\ macFifo # <<>>
    /\ statusWu' = [statusWu EXCEPT ![statusDma.cur] =
                      [tag |-> Head(macFifo).tag, ptp |-> Head(macFifo).ptp]]
    /\ macFifo' = Tail(macFifo)
    /\ statusPending' = TRUE
    /\ statusDma' = IF statusDma.flow = "dscl"
                    THEN [run |-> TRUE, cur |-> Succ(statusDma.cur), flow |-> "unfetched"]
                    ELSE [statusDma EXCEPT !.run = FALSE]
    /\ UNCHANGED <<drv, txDma, statusNapi, lastWire, send, poll>>

\* adi_msp_status_dma_done_interrupt(): mask DMADONE and schedule the poll.
StatusIrq ==
    /\ statusPending /\ ~statusNapi
    /\ statusNapi' = TRUE
    /\ UNCHANGED <<drv, txDma, macFifo, statusDma, statusWu, statusPending,
                   lastWire, send, poll>>

-----------------------------------------------------------------------------
(***************************************************************************)
(* adi_msp_status_poll() / adi_msp_status().  PollBegin is NAPI calling    *)
(* the poll; StatusProcess handles one ready slot up to its descriptor     *)
(* rearm; StatusLink relinks the previous descriptor and advances; then    *)
(* the Tx DMA restart under lp->lock and the status DMA halt check, which  *)
(* either loops again or returns (completing NAPI and unmasking the        *)
(* interrupt when the budget was not used up).                             *)
(***************************************************************************)
PollBegin ==
    /\ statusNapi /\ statusPc = "idle"
    /\ statusPc' = "loop" /\ count' = 0
    /\ UNCHANGED <<drv, hw, send>>

StatusLoopExit ==
    /\ statusPc = "loop"
    /\ count >= Budget \/ statusWu[txNextDone] = NoStatus
    /\ statusPc' = "restart"
    /\ UNCHANGED <<drv, hw, send, count>>

\* adi_msp_status() exits at "reset_tx" and returns: NAPI completes.
ResetTx ==
    /\ txReset' = TRUE
    /\ statusPc' = "idle"
    /\ statusNapi' = FALSE

StatusProcess ==
    /\ statusPc = "loop" /\ count < Budget
    /\ statusWu[txNextDone] # NoStatus
    /\ LET idx == txNextDone
           wu == statusWu[idx]
           skb == txSkb[idx]
           put == PutFrameTag(tags, wu.tag, wu.ptp)
           tags1 == put.tags
       IN  IF skb = NoSkb
           THEN /\ ResetTx
                /\ UNCHANGED <<tags, txCount, txSkb, td, chainHead, chainTail, chainStatus,
                               txNextDone, sd, queueStopped, statusWu, count>>
           ELSE /\ txSkb' = [txSkb EXCEPT ![idx] = NoSkb]
                /\ txCount' = txCount - 1
                /\ tags' = tags1
                /\ IF put.ret < 0
                   THEN /\ ResetTx
                        /\ UNCHANGED <<queueStopped, statusWu, sd, count>>
                   ELSE /\ queueStopped' =
                             (queueStopped /\ ~(txCount - 1 <= NumTds - StopQueueTh
                                                /\ tags1[TRUE].avail >= StopQueueTh
                                                /\ tags1[FALSE].avail >= StopQueueTh))
                        /\ IF wu.tag # skb.tag
                           THEN /\ ResetTx
                                /\ UNCHANGED <<statusWu, sd, count>>
                           ELSE \* error, PTP mismatch or success: the frame is
                                \* reported and the slot handed back
                                /\ count' = count + 1
                                /\ statusWu' = [statusWu EXCEPT ![idx] = NoStatus]
                                /\ sd' = [sd EXCEPT ![idx] = "stop"]
                                /\ statusPc' = "link"
                                /\ UNCHANGED <<txReset, statusNapi>>
                /\ UNCHANGED <<td, chainHead, chainTail, chainStatus, txNextDone>>
    /\ UNCHANGED <<txDma, macFifo, statusDma, statusPending, lastWire, send>>

StatusLink ==
    /\ statusPc = "link"
    /\ sd' = [sd EXCEPT ![Pred(txNextDone)] = "dscl"]
    /\ txNextDone' = Succ(txNextDone)
    /\ statusPending' = FALSE
    /\ statusPc' = "loop"
    /\ UNCHANGED <<tags, txCount, txSkb, td, chainHead, chainTail, chainStatus,
                   queueStopped, txReset, txDma, macFifo, statusDma, statusWu,
                   statusNapi, lastWire, send, count>>

\* Fault model: the restart tests for the wrong chain status.
StatusTxRestartIfEmpty ==
    /\ statusPc = "restart" /\ sendPc = "idle"
    /\ IF ~txDma.run /\ chainStatus = "EMPTY"
       THEN /\ txDma' = [run |-> TRUE, cur |-> chainHead]
            /\ chainHead' = chainTail
            /\ chainStatus' = "EMPTY"
       ELSE UNCHANGED <<txDma, chainHead, chainStatus>>
    /\ statusPc' = "halt"
    /\ UNCHANGED <<tags, txCount, txSkb, td, chainTail, txNextDone, sd,
                   queueStopped, txReset, macFifo, statusDma, statusWu,
                   statusPending, statusNapi, lastWire, send, count>>

\* "Restart Tx DMA if we have something to send and it's halted", under
\* lp->lock (so not while adi_msp_send_packet() holds it).
StatusTxRestart ==
    /\ statusPc = "restart" /\ sendPc = "idle"
    /\ IF ~txDma.run /\ chainStatus = "FILLED"
       THEN /\ txDma' = [run |-> TRUE, cur |-> chainHead]
            /\ chainHead' = chainTail
            /\ chainStatus' = "EMPTY"
       ELSE UNCHANGED <<txDma, chainHead, chainStatus>>
    /\ statusPc' = "halt"
    /\ UNCHANGED <<tags, txCount, txSkb, td, chainTail, txNextDone, sd,
                   queueStopped, txReset, macFifo, statusDma, statusWu,
                   statusPending, statusNapi, lastWire, send, count>>

\* The poll returns count: NAPI completes and DMADONE is unmasked only if
\* the budget was not used up; otherwise NAPI polls again.
PollReturn(c) ==
    /\ statusPc' = "idle"
    /\ count' = c
    /\ statusNapi' = (c >= Budget)

\* Fault model: the status DMA restarted at its halt slot, not tx_next_done.
StatusHaltCheckAtCur ==
    /\ statusPc = "halt"
    /\ IF ~statusDma.run /\ statusWu[txNextDone] = NoStatus
       THEN \* halted at an unfinished slot: restart from it
            /\ statusDma' = [run |-> TRUE, cur |-> statusDma.cur, flow |-> "unfetched"]
            /\ statusPending' = FALSE
            /\ PollReturn(IF count < Budget - 1 THEN count ELSE Budget - 1)
       ELSE /\ UNCHANGED <<statusDma, statusPending>>
            /\ IF ~statusDma.run /\ count < Budget
               THEN statusPc' = "loop" /\ UNCHANGED <<count, statusNapi>>
               ELSE PollReturn(count)
    /\ UNCHANGED <<drv, txDma, macFifo, statusWu, lastWire, send>>

StatusHaltCheck ==
    /\ statusPc = "halt"
    /\ IF ~statusDma.run /\ statusWu[txNextDone] = NoStatus
       THEN \* halted at an unfinished slot: restart from it
            /\ statusDma' = [run |-> TRUE, cur |-> txNextDone, flow |-> "unfetched"]
            /\ statusPending' = FALSE
            /\ PollReturn(IF count < Budget - 1 THEN count ELSE Budget - 1)
       ELSE /\ UNCHANGED <<statusDma, statusPending>>
            /\ IF ~statusDma.run /\ count < Budget
               THEN statusPc' = "loop" /\ UNCHANGED <<count, statusNapi>>
               ELSE PollReturn(count)
    /\ UNCHANGED <<drv, txDma, macFifo, statusWu, lastWire, send>>

-----------------------------------------------------------------------------
Next ==
    \/ SendCheck \/ SendStop \/ SendCommit
    \/ TxDmaXfer \/ StatusDmaFetch \/ MacStatus \/ StatusIrq
    \/ PollBegin \/ StatusLoopExit \/ StatusProcess \/ StatusLink
    \/ StatusTxRestart \/ StatusHaltCheck

\* The hardware, the interrupt, NAPI and a sender holding lp->lock always
\* make progress; the stack is not obliged to submit frames.
Fairness ==
    /\ WF_vars(TxDmaXfer) /\ WF_vars(StatusDmaFetch) /\ WF_vars(MacStatus)
    /\ WF_vars(StatusIrq)
    /\ WF_vars(SendStop) /\ WF_vars(SendCommit)
    /\ WF_vars(PollBegin) /\ WF_vars(StatusLoopExit) /\ WF_vars(StatusProcess)
    /\ WF_vars(StatusLink) /\ WF_vars(StatusTxRestart) /\ WF_vars(StatusHaltCheck)

Spec == Init /\ [][Next]_vars /\ Fairness

-----------------------------------------------------------------------------
(***************************************************************************)
(* Properties.                                                             *)
(***************************************************************************)

\* adi_msp_status() pairs status slot idx with Tx slot idx (lp->tx_skb[idx])
\* and trusts that pairing: every status work unit the status DMA has
\* written and the poll has not yet consumed lies in the slot of the frame
\* it reports, and that frame is still in the Tx ring.  This depends on the
\* chain table of adi_msp_send_packet(), the STOP/DSCL relinking in
\* reset_desc_and_wu and the status DMA restart at lp->tx_next_done.
StatusMatchesSlot ==
    \A i \in Ring :
        statusWu[i] # NoStatus =>
            /\ txSkb[i] # NoSkb
            /\ statusWu[i] = [tag |-> txSkb[i].tag, ptp |-> txSkb[i].ptp]

\* adi_msp_status() never reaches its "reset_tx" exit (tx_skb[idx] NULL,
\* put_frame_tag() refusing the reported tag, or a tag mismatch), which
\* is unimplemented and leaves Tx completion stuck for good.
NoSequencingFault == ~txReset

\* The Tx DMA puts frames on the wire in the order adi_msp_send_packet()
\* accepted them, each once: every descriptor it reads holds the oldest
\* frame of the ring that it has not read yet.  A chain started at a wrong
\* head, a missing DSCL link or a head not moved to the tail breaks this.
WireOrder ==
    [][Len(macFifo') > Len(macFifo) =>
         LET sent == Last(macFifo').id
         IN  /\ sent > lastWire
             /\ \A i \in Ring : txSkb[i].id > lastWire => sent <= txSkb[i].id]_vars

\* The transmit path implements TxQueue: the frames in the Tx ring, read
\* from lp->tx_next_done for tx_count slots, are the queue of accepted
\* frames, completed in order.  While adi_msp_status() is between its
\* slot handling and the tx_next_done advance the window starts one later.
DoneStart == IF statusPc = "link" THEN Succ(txNextDone) ELSE txNextDone
RingQueue == [k \in 1 .. txCount |-> txSkb[(DoneStart + k - 1) % NumTds].id]
Queue == INSTANCE TxQueue WITH Capacity <- NumTds, q <- RingQueue, nextFrame <- nextId
TxQueueRefined == Queue!Spec

\* The frame tag pools agree with the Tx ring: for each pool, the tags the
\* allocator counts as in flight (the PoolSize - avail tags after last) are
\* the tags of that pool's frames in the ring, oldest first.  Taking a tag
\* in adi_msp_send_packet() and releasing it in adi_msp_status() under the
\* ring order is what keeps them together; a release that moves last wrong
\* or a count that is not restored makes the allocator hand out a tag that
\* is still in flight or stall the queue on a tag that is free.
RingFrames == [k \in 1 .. txCount |-> txSkb[(DoneStart + k - 1) % NumTds]]
RingTags(ptp) ==
    LET s == SelectSeq(RingFrames, LAMBDA f : f.ptp = ptp)
    IN  [k \in DOMAIN s |-> s[k].tag]
TagsMatchRing == \A ptp \in Pools : Issued(tags, ptp) = RingTags(ptp)

\* Every frame adi_msp_send_packet() put in the Tx ring is eventually
\* completed by adi_msp_status() and its slot freed: the Tx DMA is
\* restarted on a pending chain and the status DMA after a halt.
TxFramesComplete ==
    \A i \in Ring, k \in 1 .. MaxFrames :
        txSkb[i].id = k ~> txSkb[i].id # k

\* Once adi_msp_send_packet() has stopped the queue, adi_msp_status()
\* eventually wakes it (adi_msp_tx_timeout() does nothing).
QueueEventuallyWakes == queueStopped ~> ~queueStopped

=============================================================================
