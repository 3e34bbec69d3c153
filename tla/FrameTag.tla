----------------------------- MODULE FrameTag -----------------------------
(***************************************************************************)
(* The frame tag allocator of drivers/net/ethernet/adi-msp.c:              *)
(* next_frame_tag(), get_frame_tag() and put_frame_tag(), with the two     *)
(* pools (PTP and non-PTP) set up by adi_msp_open().                       *)
(*                                                                         *)
(* A pool is named by the driver's "ptp" flag (TRUE: PTP pool).  Its state *)
(* is the record [next, last, avail] of lp->next_*_frame_tag,              *)
(* lp->last_*_frame_tag and lp->available_*_frame_tag_count.  The          *)
(* operators below take and return that state so that the transmit path   *)
(* (TxPath) calls them inside its own actions; FrameTagCaller is the       *)
(* allocator on its own, driven by a caller.                               *)
(***************************************************************************)
EXTENDS Integers

CONSTANTS
    MinNonPtpTag, MaxNonPtpTag,   \* ADI_MSP_{MIN,MAX}_NONPTP_FRAME_TAG
    MinPtpTag, MaxPtpTag          \* ADI_MSP_{MIN,MAX}_PTP_FRAME_TAG

ASSUME /\ 0 < MinNonPtpTag /\ MinNonPtpTag <= MaxNonPtpTag
       /\ MaxNonPtpTag < MinPtpTag /\ MinPtpTag <= MaxPtpTag /\ MaxPtpTag < 256

Pools == BOOLEAN
MinTag(ptp) == IF ptp THEN MinPtpTag ELSE MinNonPtpTag
MaxTag(ptp) == IF ptp THEN MaxPtpTag ELSE MaxNonPtpTag
PoolTags(ptp) == MinTag(ptp) .. MaxTag(ptp)
PoolSize(ptp) == MaxTag(ptp) - MinTag(ptp) + 1

\* The tag after x in pool ptp, wrapping from the maximum to the minimum.
CyclicSucc(ptp, x) == IF x = MaxTag(ptp) THEN MinTag(ptp) ELSE x + 1

\* adi_msp_open(): next = min, last = max, available = last - next + 1.
InitTags == [ptp \in Pools |->
                [next |-> MinTag(ptp), last |-> MaxTag(ptp), avail |-> PoolSize(ptp)]]

\* next_frame_tag(): a peek at the tag get_frame_tag() would return.
NextFrameTag(t, ptp) == t[ptp].next

\* Fault model: next advanced without wrapping to the minimum.
GetFrameTagNoWrap(t, ptp) ==
    IF t[ptp].avail = 0 THEN t
    ELSE [t EXCEPT ![ptp].avail = @ - 1, ![ptp].next = @ + 1]

\* get_frame_tag(): nothing when no tag is available, otherwise decrement
\* the available count and advance next circularly.
GetFrameTag(t, ptp) ==
    IF t[ptp].avail = 0 THEN t
    ELSE [t EXCEPT ![ptp].avail = @ - 1, ![ptp].next = CyclicSucc(ptp, @)]

\* Fault model: a successful release that does not return the tag's count.
PutFrameTagNoInc(t, tag, ptp) ==
    IF tag < MinTag(ptp) \/ tag > MaxTag(ptp)
    THEN [tags |-> t, ret |-> -1]
    ELSE IF tag # CyclicSucc(ptp, t[ptp].last)
         THEN [tags |-> [t EXCEPT ![ptp].avail = @ + 1], ret |-> -1]
         ELSE [tags |-> [t EXCEPT ![ptp].last = tag], ret |-> 0]

\* put_frame_tag(): a tag outside the pool is refused with no change; any
\* other tag increments the available count BEFORE it is compared with the
\* expected one (last + 1, circularly), and only a match moves last.
PutFrameTag(t, tag, ptp) ==
    IF tag < MinTag(ptp) \/ tag > MaxTag(ptp)
    THEN [tags |-> t, ret |-> -1]
    ELSE LET inc == [t EXCEPT ![ptp].avail = @ + 1]
         IN  IF tag # CyclicSucc(ptp, t[ptp].last)
             THEN [tags |-> inc, ret |-> -1]
             ELSE [tags |-> [inc EXCEPT ![ptp].last = tag], ret |-> 0]

\* The tags in flight as the allocator's state describes them: the
\* PoolSize - avail tags that follow last, circularly.
Issued(t, ptp) ==
    LET n == PoolSize(ptp) - t[ptp].avail
        Nth[i \in 0 .. n] == IF i = 0 THEN t[ptp].last ELSE CyclicSucc(ptp, Nth[i - 1])
    IN  [i \in 1 .. n |-> Nth[i]]

=============================================================================
