# TLA+ models of the ADI O-RAN MSP Ethernet driver and the PTP ToD clock

This directory holds TLA+ models of two drivers in this repository, and the TLC
configurations that check them:

- `drivers/net/ethernet/adi-msp.c`, the MSP Ethernet driver;
- `drivers/ptp/adi_ptp/ptp_adi.c` and `ptp_adi_clk.c`, the PTP hardware clock (PHC): its time-of-day (ToD) counter, the trigger protocol that reads and writes it, device probe and removal, and the ad9545 frequency adjustment.

Both live under `src/intel-fpga/recipes-kernel/linux-socfpga/files/`. Every definition is translated from the C source. `PROJECT.json` gives, for each definition, the lines it models (`map`), and lists every run, mutant, finding and hazard.

## The system and how its parts interact

The MSP driver moves frames through three descriptor-based DMA engines:

- **Transmit (Tx).** `adi_msp_send_packet()` runs in the stack's xmit context under `lp->lock`. It:
  1. checks the queue-stop thresholds, whether the ring is full, and the frame tag pool;
  2. takes a frame tag (`get_frame_tag()`);
  3. fills descriptor `td[idx]` with flow STOP;
  4. either appends the descriptor to the running chain (the predecessor becomes DSCL) or restarts the halted Tx DMA. The chain is `tx_chain_head/tail/status`.
- **Tx status.** The MAC reports each sent frame, together with its frame tag, through the status DMA, which writes work units into `status_skb[]` in order. The status interrupt masks itself and schedules NAPI. `adi_msp_status()` then does the following:
  1. consumes work units while the budget lasts;
  2. checks each tag against the Tx slot and releases it (`put_frame_tag()`);
  3. wakes the queue;
  4. relinks the status descriptor (own descriptor STOP, predecessor DSCL);
  5. clears IRQDONE by writing 1 to it (write-1-to-clear, W1C);
  6. restarts a halted Tx DMA whose chain is FILLED;
  7. finally, deals with a halted status DMA (restart it, or loop again).
- **Receive (Rx).** The MAC writes frames as work units: a start-of-frame unit, continuation units, and a status unit that is OK or in error. The Rx DMA writes them into `rx_skb[]`. `adi_msp_rx()` then, for each unit:
  1. replaces the buffer (allocation can fail);
  2. reassembles the frame in `prev_rx_skb[]`;
  3. hands up intact frames;
  4. relinks the descriptor and clears IRQDONE with W1C.

  Its halt handling is the same as on the status side.

The hazards come from the actors running concurrently:

| Actor | Runs as |
|---|---|
| Sender | xmit context |
| The two NAPI polls | softirq |
| The interrupt handlers | hardirq |
| The DMA engines and the MAC | hardware |

The sender and the status poll share the tag pools and the queue-stopped flag. Only the sender takes `lp->lock` for the check and stop. The poll and the DMA share the descriptors and the run state.

The PTP driver keeps time as `struct tod_tstamp`: seconds, nanoseconds and a 16-bit fraction of a nanosecond. It adds a trigger delay, applies `adjtime` deltas, and converts timestamps to `timespec64`.

The PTP core calls `gettimex64`, `settime64`, `adjtime` and `adjfine` from any thread. The ToD operations serialise on `tod->reg_lock`, a spinlock taken with interrupts off. Each one is a register protocol with the hardware:

1. In golden-counter (GC) mode the driver reads the free-running golden counter and loads `gc + trig_delay_tick` as the instant of the operation. In PPS mode the operation happens at the next PPS edge.
2. It sets the read or write trigger, waits `poll_delay_ns`, and polls the operation's status bit until it is DONE or `poll_timeout_us` has passed.
3. It reads the latched time (read) and clears the trigger.

`adjtime` is a read followed by a write of the read time plus the trigger delay (GC) or one second (PPS) plus delta. `adi_ptp_probe()` sets up the ToD counter (`adi_tod_probe()`), reparents the PHC clock onto the ad9545 AUX NCO (`adi_phc_clk_probe()`) and registers the clock. `adjfine` reprograms the NCO.

## Modules

| Module | Models | State and actions |
|---|---|---|
| `FrameTag` | `next_frame_tag`, `get_frame_tag`, `put_frame_tag`, the pool set-up in `adi_msp_open` | Operators over the record `[next, last, avail]` of each pool (PTP and non-PTP). `Issued` gives the tags in flight as that state describes them. `TxPath` drives them. |
| `TxQueue` | abstract (spec section 4.2) | A FIFO of at most `NumTds` frames that are accepted, dropped or completed in order. |
| `TxPath` | `adi_msp_send_packet`, `adi_msp_status_dma_done_interrupt`, `adi_msp_status_poll`, `adi_msp_status`, ring set-up | See below. |
| `RxStream` | abstract (spec sections 4.4 and 5) | Intact frames are handed up once each, in arrival order. |
| `RxPath` | `adi_msp_rx_dma_done_interrupt`, `adi_msp_rx_poll`, `adi_msp_rx`, Rx ring set-up, the Rx side of `adi_msp_close` and `adi_msp_free_ring` | See below. |
| `TodArith` | `_tod_hw_tstamp_add_delay`, `_tod_adjtime`, `tstamp_to_timespec`, `div_s64_rem` | Pure operators. The variables only select one input each, and TLC checks the properties over all inputs. |
| `TodRegs` | `_tod_reg_wr`, `_tod_reg_rd`, `lc_clk_cfg[]`, `_tod_cfg_lc_clk`, the enable write of `adi_tod_module_init`, `_tod_hw_settstamp_to_reg`, `_tod_hw_gettstamp_from_reg` | The register layer as operators, with C's `&` and `|` taken from the Bitwise module. `TodArith` extends it, and its variable `regIn` selects one register input per initial state. |
| `TodOps` | `adi_tod_gettimex`, `adi_tod_settime`, `adi_tod_adjtime`, `_tod_hw_gettstamp`, `_tod_hw_settstamp`, `_gc_get_cnt`/`_gc_set_cnt`, `_tod_hw_op_trig`, `_tod_hw_op_poll`, the timeouts of `adi_tod_probe` | See below. `MCTodOps` gives the negative adjtime deltas. |
| `PhcDevice` | `adi_ptp_probe`, `adi_tod_module_init`, `_tod_cfg_lc_clk`, `adi_phc_clk_probe`/`phc_clk_i2c_probe`, `adi_phc_adjfine`/`ad9545_adjfine`, `adi_ptp_remove` | See below. |
| `MspPtpLink` | `adi_msp_probe` (its lookup of the PTP device), `adi_msp_remove`, composed with `PhcDevice` | `PhcDevice` by `INSTANCE`, plus the device-tree phandle, the MSP device's state and `lp->has_ptp`/`lp->ptp_clk`. |

### TxPath

The variables are grouped as follows:

- **Driver:** tags, `tx_count`, `tx_skb[]`, `td[]` flows, the chain, `tx_next_done`, `sd[]` flows, the queue-stopped flag.
- **Hardware:** the Tx DMA, the MAC's FIFO of statuses, and the status DMA's run state, current descriptor and flow. Also `status_skb[]`, IRQDONE pending, and the NAPI-scheduled flag.
- **Sender:** a program counter, so that its decision and its effects are separate steps.
- **Status poll:** a program counter and the budget count.

The sender has three actions:

- `SendCheck` covers every check up to the stop decision.
- `SendStop` is `netif_stop_queue`.
- `SendCommit` covers the rest of the locked section, including `ChainUpdate`. That is the 2x2 table of Tx DMA state against chain status.

  The failure exits after the checks (`skb_cow_head`, `pskb_expand_head`, DMA mapping) are the drop disjunct. Each poll step is one action:

| Action | Code it models |
|---|---|
| `PollBegin` | start of the poll |
| `StatusLoopExit` | loop exits: empty slot or budget spent |
| `StatusProcess` | tag check, release and wake |
| `StatusLink` | relink and W1C |
| `StatusTxRestart` | Tx DMA restart |
| `StatusHaltCheck` | status DMA halt check |
| `PollReturn` | NAPI completion (used by the actions above) |

`ResetTx` is the fault exit `reset_tx`. It is an empty TODO in the code, so the model records it as a flag that must never be set.

### RxPath

The driver state is `rx_skb[]` (as work units), `rd[]` flows, `rx_next_done`, `prev_rx_skb[]` and the last frame handed up.

The hardware is:

- the MAC's pending work units and the frame ids it has sent (`intact` lists the frames it received undamaged and short enough);
- the Rx DMA's run state and current descriptor;
- IRQDONE pending;
- NAPI scheduled.

The poll actions are:

| Action | Code it models |
|---|---|
| `RxPollBegin` | start of the poll |
| `RxLoopExit` | loop exit |
| `RxAllocFail` | `napi_alloc_skb` failure and the unaligned break |
| `RxProcess` | buffer swap, `Reassemble`, count |
| `RxLink` | relink and W1C |
| `RxHaltCheck` | halt check |
| `RxPollReturn` | NAPI completion |

`Reassemble` is the classification switch of `adi_msp_rx()`, one case per branch.

`devPc` starts at `"down"`, the state `adi_msp_probe()` leaves the device in. It then walks `adi_msp_open()` on the Rx side in the code's order:

| Action | Code it models |
|---|---|
| `OpenAllocRing` (`AllocRing`) | `adi_msp_alloc_ring()`: DSCL descriptors with a STOP at the ring end, `rx_next_done = 0`, `prev_rx_skb[]` empty. A failed allocation returns with nothing changed, which is a stutter step. |
| `OpenRequestIrqs` (`OpenUnwind`) | `request_irq` of the interrupts; on failure, the unwind frees the ring and the device is down again |
| `OpenStart` | `adi_msp_start()`: the Rx DMA is started at descriptor 0 and the MSP receives |
| `OpenNapiEnable` | `napi_enable`: from here on, the interrupt can schedule the poll |

The MAC receives from `OpenStart` on. `RxIrq` fires only once the interrupt is requested and the device is up. Units written before `napi_enable` wait with DMA-done pending.

Once the device is up, `devPc` walks the Rx side of `adi_msp_close()` in the code's order:

| Action | Code it models |
|---|---|
| `CloseMsp` | the MSP disabled: the MAC stops receiving, and units it held may be lost |
| `CloseIrq` | `disable_irq` of the Rx DMA-done interrupt (`free_irq` comes after the free and changes nothing the model holds) |
| `CloseDma` | the Rx DMA config cleared (`run` false) |
| `NapiDisable` | `napi_disable`: waits until no poll is scheduled or running |
| `FreeRing` | `adi_msp_free_ring()`: every buffer freed and every descriptor gone |

A poll that is already scheduled still runs after `CloseIrq`, and its halt check may restart the DMA. A poll that spends its whole budget while the disable is pending is completed by the NAPI core rather than rescheduled.

### TodOps

Time is counted in PHC ticks:

- `gc` is the golden counter and `tod` the ToD counter; `Tick` advances both, only while some caller holds `reg_lock` (time between operations changes no state the properties read, apart from where a second falls, which `Init` already varies), and fires a triggered operation when `gc` reaches the GC value (GC mode) or `tod` a whole second (PPS mode). A read latches `tod` into `STAT_TV`; a write loads `tod` from `CFG_TV`.
- `now` is the CPU clock of `ktime_get()`, `mdelay()` and `udelay()`. `Drift` lets it gain on the PHC, as it does when `adjfine` slows the PHC or the two run off different oscillators.
- Timestamps are whole ticks; the seconds/nanoseconds/fraction arithmetic is `TodArith`'s.
- `mode` is `tod->trigger_mode`, fixed at probe.

Each caller has a program counter through the steps of the code, in the code's order: `Call`, `Lock` (the lock and, for gettimex, the system pre-timestamp), `Arm` (GC only), `Trig`, `PollStart` (after the poll delay), `Poll` (DONE or timeout), `Fetch` (reads only, only on success), `Clear` (always), `Adjust` (adjtime between its read and its write), and `Post`/`Unlock`. Its locals (`tstamp`, `err`, the poll's `timeout`) end with the operation. `lat` is the time a lock holder spends outside its waits, in register accesses, bounded by `MaxLatency`. `gcAt`, `offAt` and `phcPre` are history for the properties.

### MspPtpLink

`adi_msp_probe()` looks up the PTP device through the `adi,ptp-clk` phandle and reads its driver data. With driver data it keeps `phc->ptp_clk` in `lp->ptp_clk`. Without it, a built-in driver defers the probe, and a module goes on without PTP. Every later step of the probe may fail. `PhcDrvdata` holds while `PhcDevice` is between a successful register and removal. Any `PhcDevice` step can interleave with the MSP probe and remove, because the two devices bind and unbind independently.

### PhcDevice

`pc` walks `adi_ptp_probe()`: resources (`ProbeResources`, with the early failure returns), `TodProbe` (the ToD counter is enabled only if `_tod_cfg_lc_clk()` finds the sys_clk rate), `ClkProbe` (success sets `clk_ops.adjfine` and reads `hw_clk->freq` from the NCO; any failure returns -ENODEV), `Register` and `ProbeReturn`. `freed` is the release of the devm-managed `adi_phc` when probe fails or the device is removed. `Adjfine` is callable whenever the clock is registered, and `Remove` is `adi_ptp_remove()`. Frequencies are AUX NCO values in 2^-40 Hz; `Shift` and `Million` scale down the 16 and the 10^6 of `ad9545_adjfine()`.

## Runs

| Run | Config | Expect | What it shows |
|---|---|---|---|
| `tx_path` | `TxPath.cfg` | pass | See the list below. |
| `tx_queue_wake` | `TxQueueWake.cfg` | violation | The queue can stay stopped for ever. |
| `rx_path` | `RxPath.cfg` | pass | See the list below. |
| `rx_alloc_stall` | `RxAllocStall.cfg` | violation | While the device stays open, one allocation failure can strand a work unit for ever (`RxUnitsConsumedWhileOpen`). |
| `rx_close_race` | `RxCloseRace.cfg` | violation | `adi_msp_close()` can free the Rx ring under a running DMA (`RxDmaStoppedAtFree`). |
| `tod_arith` | `TodArith.cfg` | pass | Adding the trigger delay is exact. Adjustments of less than one second are exact. The ToD register layer is exact too; see the list below. |
| `tod_adjtime` | `TodAdjtime.cfg` | violation | `_tod_adjtime()` loses whole seconds. |
| `tod_ops` | `TodOps.cfg` | pass | See the list below. |
| `tod_pps_timeout` | `TodPpsTimeout.cfg` | violation | A PPS-mode operation can time out although the PPS keeps running. |
| `phc_adjfine` | `PhcDevice.cfg` | pass | Over every probe outcome and adjfine sequence, the NCO runs within rounding of the probe-time frequency scaled by the last accepted `scaled_ppm` (`AdjfineRounded`). |
| `phc_use_after_free` | `PhcUseAfterFree.cfg` | violation | A failed clock probe leaves the PTP clock registered in freed memory. |
| `msp_ptp_unbind` | `MspPtpLink.cfg` | violation | The MSP device keeps using a PTP clock that was unregistered when the PTP device was unbound (`MspPtpClockLive`). |

The `tx_path` run shows the following:

- Every status matches its Tx slot and pool (`StatusMatchesSlot`).
- In each pool, the tags the allocator state says are in flight are exactly the tags of that pool's frames on the ring, in ring order (`TagsMatchRing`). So the in-order release that `put_frame_tag()` demands always holds.
- `reset_tx` is never reached (`NoSequencingFault`).
- The wire order equals the submission order (`WireOrder`).
- The ring implements `TxQueue` (`TxQueueRefined`, via a refinement mapping from ring slots to the queue).
- Every submitted frame completes (`TxFramesComplete`).

The `rx_path` run shows the following:

- `prev_rx_skb[]` stays in bounds (`PrevRxInBounds`).
- The DMA never overwrites an unconsumed unit (`NoRxOverwrite`).
- The frames handed up refine `RxStream` (`RxStreamRefined`). These are exactly the intact frames, once each and in order. Frames with too many units, damaged frames and frames cut short by a reassembly drop are never handed up.
- In the behaviours where the device is never closed and no allocation fails, including units written between `adi_msp_start()` and `napi_enable()`, every written work unit is eventually consumed (`RxUnitsConsumedWithoutAllocFail`).
- Every poll returns to NAPI (`RxPollReturns`). After the loop, a halted DMA with a unit still waiting sends `adi_msp_rx()` back to `msp_rx_loop` (`adi-msp.c:1509`). Uncounted units and allocation failures bring it back to the same test, and only the `count < budget` test and the halted DMA's finite ring end the jumps. The run bounds allocation failures. A spin while `napi_alloc_skb()` fails for ever is not explored.

The `tod_arith` run also checks the register layer in `TodRegs`:

- A timestamp written by `_tod_hw_settstamp_to_reg()` reads back unchanged through `_tod_hw_gettstamp_from_reg()`. The three TV registers, laid end to end, hold seconds, nanoseconds and fraction (`TstampRegRoundTrip`). The `(u64)` cast on `reg_tstamp[2]` is what keeps the top seconds.
- Every `lc_clk_cfg[]` entry is its clock's period, `10^6/freq_khz` ns, with the fraction truncated to 16 bits (`LcClkPeriodTruncated`). The fraction is computed by long division, because `2^16 * 10^6` overflows TLC's integers. All 12 entries are right.
- From any prior `CFG_INCR` value, `adi_tod_module_init()` programs the FRAC, NS and CNT_CTRL fields and the enable bit, none truncated by its mask, and leaves the reserved bits alone. The prior values include bits 29 and 30 set; bit 31 is beyond TLC's integers. For a frequency the table lacks, it leaves the register, and with it the counter, untouched (`CfgIncrProgrammed`).

The `tod_ops` run covers both trigger modes, two callers and a CPU clock that gains up to 2 ticks on the PHC. It shows the following:

- A successful gettimex returns a ToD between the value at its pre-timestamp and at its return, whatever settime or adjtime ran before it (`GettimexBracketed`).
- In PPS mode, adjtime moves the ToD by exactly delta against the golden counter (`PpsAdjtimeExact`). `Adjust` applies `_tod_adjtime()`'s own borrow and carry arithmetic (lines 387-401). The deltas are −2 s and +1 s + 1 tick. The property holds even for the step across a second because the PPS read latches the ToD at an edge: the base has no nanoseconds, so the carry branch that drops delta's seconds (finding 3, `tod_adjtime`) cannot be taken in PPS mode. In GC mode the base can have nanoseconds, and the same deltas do lose seconds.
- No poll times out while the two clocks run at the same rate (`InStepNoTimeout`).
- Every operation returns, through lock contention, the poll delay and the poll loop, and on the timeout path too (`OpsComplete`).

Each property of a passing run has a mutant in `PROJECT.json`. A mutant is a fault-model operator defined just before the definition it replaces: a missing ring mask, a dropped chain head update, an off-by-one in the `prev_rx_skb` bound, and so on. TLC finds the property violated for each mutant.

## Findings

1. **The Tx queue can stay stopped for ever.** The stop decision in `adi_msp_send_packet()` (`:914`) races with the status poll's wake check, which runs without `lp->lock`. The trace:
   1. The sender decides to stop the queue.
   2. The poll completes the last in-flight frame.
   3. The sender stops the queue.
   4. The sender drops the frame.

   Nothing wakes the queue afterwards, and `tx_timeout` is compiled out.
2. **An allocation failure can stall Rx.** At `:1258` the poll breaks out after IRQDONE was already cleared by W1C (`:1466`). NAPI completes with the DMA running and no interrupt pending, so the work unit written last is never consumed.
3. **`_tod_adjtime()` loses seconds.** It drops delta's whole seconds when the nanoseconds overflow (`ptp_adi.c:397-402`).
4. **The PPS poll timeout has no margin.** `TOD_TIMEOUT_RATIO` is `(1 / 20)`, which is 0 in C. So `poll_timeout_us` is exactly one PPS period in PPS mode (`ptp_adi.c:590-591`), and 0 in GC mode (`:587`), which the poll treats as "no timeout". In the `tod_pps_timeout` trace, a CPU clock 2 ticks ahead of a 3-tick PHC second times out an operation triggered just after an edge. The operation then fails with -ETIMEDOUT.
5. **A failed clock probe is a use after free.** `adi_ptp_probe()` overwrites `ret = adi_tod_probe()` with `ret = adi_phc_clk_probe()` (`ptp_adi.c:716-718`). It calls `ptp_clock_register()` regardless, and returns the -ENODEV afterwards. The driver core then releases the devm-allocated `adi_phc`, which holds the `ptp_clock_info` the still-registered clock points to.

6. **Close frees the Rx ring under a running DMA.** `adi_msp_close()` clears the Rx DMA config (`adi-msp.c:2467`) before `napi_disable()`. A poll that is still scheduled then reads the DMA as halted and restarts it. `napi_disable()` waits for that poll, and `adi_msp_free_ring()` then unmaps and frees the buffers while the DMA can still write into them.
7. **The MSP device keeps a dangling PTP clock.** `adi_msp_probe()` copies `phc->ptp_clk` into `lp->ptp_clk` (`adi-msp.c:2652`) without a reference or device link. Unbinding the PTP device runs `ptp_clock_unregister()`, which releases the clock, and `adi_msp_get_ts_info()` then passes the freed clock to `ptp_clock_index()`.

The models show five more defects that no run is spent on:

- **`put_frame_tag()` changes state on a refused release.** At `adi-msp.c:765` it increments `available_*_frame_tag_count` before the order check (`:759-777`), against the spec's "without mutating allocator state". In `TxPath` releases are always in order (`TagsMatchRing`), so the refused path is reached only through the `reset_tx` fault that `NoSequencingFault` already rules out.

- **ToD errors are swallowed.** The same overwrite of `ret` hides an `adi_tod_probe()` failure (a sys_clk rate missing from `lc_clk_cfg[]`). The device then probes with a stopped ToD counter. `PhcDevice`'s `ProbeOkTodRuns` fails on this path.
- **GC-mode adjtime loses the lock holder's latency.** `_tod_adjtime()` adds `trig_delay` to the time read (`ptp_adi.c:352`). The write's trigger, however, comes from a fresh `_gc_get_cnt()` taken after the read's poll delay, register reads and clear. `AdjtimeExact` fails in `TodOps` in GC mode by that latency, which is why the run checks `PpsAdjtimeExact`.
- **settime is behind by the trigger delay.** `adi_tod_settime()` writes `ts` unchanged (`:516`), although it takes effect `trig_delay_tick` later or at the next PPS edge.
- **`tstamp_to_timespec()` can produce an unnormalised `timespec64`.** It rounds up without a carry, so `tv_nsec` can be 1000000000 at 999999999 ns with a fraction of at least one half (`ptp_adi.c:197`).

A fifth concern depends on the hardware. The default `trig_delay_tick` is `gc_clk_freq_khz / 1000` (`:471`), which is 1 µs of ticks, although the comment says 1 ms. About a dozen MMIO accesses separate the GC sample from the trigger. If the hardware matches the GC value on equality, the target can pass before the trigger is set, and the GC poll, which has no timeout, then spins for ever with interrupts off. `TodOps` shows this with `TrigDelayTick = MaxLatency = 1` (`OpsComplete` fails). The passing run uses a delay of 2 ticks against a latency of 1, so its `OpsComplete` does not reach this spin, and no run asserts it.

## Bounds

**TxPath** uses:

- a ring of 3 descriptors and a stop threshold of 1;
- 3 non-PTP tags and 2 PTP tags;
- a budget of 2;
- 4 frames in total.

These bounds are enough for the cases that matter:

- the ring fills, the threshold stops the queue, and the PTP pool runs out before the ring does;
- tags and ring indices wrap;
- a poll runs out of its budget with work left;
- both DMAs halt on a stale STOP descriptor.

TLC explores the state space in about 2 minutes 10 seconds.

**RxPath** uses:

- 3 descriptors and a budget of 2;
- `PREV_RX_SKB_NUM` = 3 (6 in the code), so that the "too many units" drop is reached;
- `DATA_WU_PER_FRAME` = 1, as in the code;
- up to 3 frames and 3 data units;
- one allocation failure;
- the open stages from a down device, with a failing `request_irq`;
- the close stages, which may begin in any state once the device is up.

TLC explores about 523,000 states in about 2 minutes 40 seconds.

**TodOps** uses:

- 2 callers and 2 operations in total (any mix of gettimex, settime and adjtime);
- a PHC second of 3 ticks and a trigger delay of 2;
- a lock-holder latency of 1 tick;
- CPU-clock drift of up to 2 ticks;
- 16 ticks of time.

Two operations are enough for a read racing a write and for both modes' adjtime read–write pair. The drift bound is the least that makes a PPS poll time out: the timeout is compared with a strict `>`, at tick granularity. Each mode has two adjtime deltas: GC −2 and +4, PPS −6 and +4 (with `Sec` = 3, +4 is a second and a tick). The run takes about a minute for 334,000 states.

**PhcDevice** uses two NCO frequencies (37 and 101), `Shift` = 2, `Million` = 4, `|scaled_ppm|` up to 8 and 3 adjfine calls. This reaches every rounding case of the two divisions: a quotient just below and just above a half step, negative and positive. It also reaches repeated adjustments, each of which must be relative to the probe-time frequency.

**MspPtpLink** uses one NCO frequency and one adjfine call, because only the devices' life cycles matter to `MspPtpClockLive`. Both builds of the driver are possible; the run uses the built-in one, where the violation needs the PTP device to unbind after the MSP probe.

**TodArith** scales a second down to 10 ns and the fraction to 2 bits. Both keep their roles: `NsPerSec` is the carry point, and `FracNum` is even and is the wrap point. Deltas run up to ±2.5 s, so every carry, borrow and second-crossing case is enumerated.

**TodRegs** keeps `CFG_INCR`'s real masks and values: 29 bits fit a TLC integer. It takes six prior register values: none, all of bits 0-28, two alternating patterns of them, all of bits 0-30, and bits 29-30 alone, the 12 table frequencies and one the table lacks. The TV registers are scaled with `RegHalf` = 2 in place of 16: a 4-bit register, 2-bit fraction, 4-bit nanoseconds and 6-bit seconds. Every layout case (each field crossing a register boundary, and seconds beyond one register) is then enumerated over all 4,096 timestamps.

## Fairness

The following actions are weakly fair:

- the hardware steps (DMA fetch and write, the MAC);
- the interrupt handlers;
- every poll step;
- the sender's steps once it has begun, because it holds `lp->lock` and does not block;
- the close stages after the MSP has been disabled, because `adi_msp_close()` runs to completion once called;
- the open stages after the ring is allocated, because `adi_msp_open()` likewise runs to completion.
- `TodOps`: `Tick` (the PHC runs), and every step of a caller that holds `reg_lock` (it runs with interrupts off and does not sleep).
- `TodOps`: taking `reg_lock` is strongly fair. A kernel spinlock is a ticket or queued lock, so a waiter is served once the lock is released often enough.

The following are not fair, because the code does not oblige them to happen:

- the stack submitting frames (`SendCheck`), and PTP clients calling the PHC (`Call`, `Adjfine`);
- CPU-clock drift and the probe steps, which are one-shot set-up;
- the MAC receiving frames;
- opening (`OpenAllocRing`) and closing (`CloseMsp`) the device, and probing or removing the MSP device;
- allocation failures.

The passing configs set `CHECK_DEADLOCK FALSE`, because the system really does stop once the bounded traffic is done and the rings are idle. `TodArith`'s specification stutters, so it never deadlocks.

## Not modelled

The following parts are out of scope:

- register-level DMA programming;
- the `addr_cur`/`dscptr_prv` heuristic for a work unit that is partly written (the model writes each unit atomically);
- timestamp extraction and skb contents;
- the DMA error interrupts (TODO stubs);
- `tx_timeout` (compiled out);
- reopening the device after close;
- the Tx side of `adi_msp_close()` (the status poll and Tx DMA);
- inside `adi_msp_alloc_ring()`, which slots were mapped when an allocation fails. The model treats the failure as a whole, so the stale `rx_skb_dma[i]` unmapped by `adi_msp_free_ring()` (`adi-msp.c:2188`) is recorded as a hazard, not checked;
- the Tx and status half of `adi_msp_open()`;
- ethtool, ioctl and statistics;
- the meaning of `CNT_CTRL` (a hardware correction word; `TodRegs` checks only that it is written intact);
- the PPSX output set-up (`_tod_cfg_ppsx`) and the PPS routing register, which are writes nothing reads back;
- `adi_phc_enable`/`adi_tod_enable` (they only return -EOPNOTSUPP) and `adi_phc_aux_work` (it does nothing);
- the OP-TEE clock path of `ptp_adi_clk.c`, which is compiled out (`#if 0`);
- the ad9545 driver, which is outside this repository; its set and get calls are nondeterministic successes or failures.

## Plan for later work

- Compose `TxPath` and `RxPath` with a shared NAPI and interrupt model.
- Model the Tx side of `adi_msp_close()` and of `adi_msp_open()`, and reopening after close.
- Compose `PhcDevice` with `TodOps`, so that ToD operations run on a registered clock across probe failure and removal.
- Relate `TodOps`' integer timestamps to `TodArith`'s seconds/nanoseconds/fraction by a refinement mapping.
