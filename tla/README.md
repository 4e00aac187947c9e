# Formal models of the WiFi8852CU driver and installer

TLA+ specifications, TLC configurations and TLAPS proofs for the program in this
repository: a shell installer with a trial licence around the bundled Realtek
8852CU USB Wi-Fi driver (`rtl8852cu-20240510/`).  Almost all state and all
concurrency is in the driver, and in the driver the logic that can be modelled is
in `phl/` (the "physical layer" middle layer) and part of `core/`; `hal_g6/` is
register sequences and tables.  Unless a path is given, files below are in
`rtl8852cu-20240510/phl/`.

Build configuration that is modelled: `CONFIG_CMD_DISP` on,
`CONFIG_CMD_DISP_SOLO_MODE` off (one *share thread* serves every dispatcher),
`CONFIG_CMD_DISP_SUPPORT_CUSTOM_SEQ` off, one or two bands (`phy_num` is 2 under
`CONFIG_DBCC_SUPPORT`), USB bus.

## 1. Inventory

| Part | Source | State it keeps | Operations and who calls them | What is hard | What makes it correct |
|---|---|---|---|---|---|
| Command tokens | `phl_cmd_dispatcher.c`, `phl_cmd_dispatch_engine.c` | request pool with idle and wait queue, token operation queue, current request, token count, clearance / exclusive / abort flags per band | add and cancel from any client thread; free, grant and the band handshake on the share thread | operations of clients and of the share thread interleave; a request is in several hands in turn; two bands hand the exclusive right to each other; an aborted command sends one more message | no two commands on one band, no command beside an exclusive one, no slot lost or linked twice, no lost wake-up, every request is answered |
| Message dispatch | same | message pool, idle / wait / pending queues, per-message status and module bitmaps | send and cancel from any thread, two-phase dispatch on the share thread | cancel against dispatch, CANNOT_IO pending, last message of an aborted sender, full pool | pool conserved, completion exactly once, pre phase before post phase, pending messages come back |
| Dispatcher life cycle | same, `phl_init.c` | INIT / STARTED / SHALL_STOP, module states | start, stop, shall-stop notice | stop against clients, flags kept over a restart | nothing runs after stop, a restart begins clean |
| Power save command module | `phl_cmd_ps.c`, `phl_ps.c` | power mode, cannot-PS bitmaps | messages on the share thread, requests of roles | a request to wake up against a timer that sleeps | no I/O while the chip sleeps |
| Scan command | `phl_cmd_scan.c`, `phl_scan_instance.c` | scan state, channel list | foreground command | abort at each step | one SCAN_END per scan, channel restored |
| Firmware recovery (SER) | `phl_cmd_ser.c` (`phl_ser_fsm.c` is not built) | state bits, polling timer and counter, level 2 flag | timer, messages, firmware events; pauses the data path, holds back the messages of others | event order, time-outs, second error during recovery, a link of the polling chain that is not made | recovery ends or resets, the data path is quiet in it and resumed after it, errors are noticed |
| Generic FSM engine | `phl_fsm.c` | event queue, timers, state | FSM objects post events | cancelled timers, events to a gone object | events handled once and in order |
| Watchdog | `phl_watchdog.c` | timer, state | timer, share thread | stop against the timer | re-armed once |
| RX reorder | `phl_rx.c` | per TID window, buffer | RX thread, reorder timer | 12-bit wrap-around, timer against receive | in-order delivery without duplicates |
| TX scheduling | `phl_tx.c` | TID rings, ready list, pause bits of the data path controller | core TX, share thread | pause requested by several modules, the handler reads and stores the status in two steps, a pause that times out | resumed when the last one resumes, no pause without an owner |
| USB TRX | `hci/phl_trx_usb.c`, `os_dep/linux/usb_ops_linux.c` | buffer rings, URB counts | bulk completion | resource limits, unplug | buffers conserved |
| Station and MAC id | `phl_sta.c` | bitmap, station lists | connect, disconnect | several roles | an id belongs to one station |
| Message hub | `phl_msg_hub.c` | receivers, message ring | any thread | full ring | delivered once |
| Multi-role, MCC, channel | `phl_mr.c`, `phl_mcc.c`, `phl_chan.c` | channel contexts per band | commands | several roles on one channel | contexts partition the roles |
| ECSA / CSA, TWT, P2P PS | `phl_ecsa.c`, `phl_twt.c`, `phl_p2pps.c` | small FSMs | timers, commands | timer against abort | a pending switch ends |
| MAC core | `core/` | MLME, stations, security, queues | cfg80211, timers, RX | size | - |
| OS glue | `os_dep/` | net devices, cfg80211 | kernel | - | - |
| Chip support | `hal_g6/` | registers, tables, firmware | PHL | - | - |
| Trial and licence scripts | `scripts/trial.sh`, `activator.sh`, `install.sh`, `uninstall.sh`, `Makefile` | trial file, tombstone, licence files | administrator, every run of the installer | interruption between file writes, clock | an expired trial stays expired |
| Installer and diagnosis scripts | `install_usb_wifi.sh`, `diag_usb_wifi.sh`, `apply_wifi_prefs.sh` | system files | administrator | - | - |

How they interact.  Everything that touches the hardware at run time goes through
the command dispatch engine: clients in `core/` and `os_dep/` send *messages*
(short work items) or ask for the *token* of a band (long foreground commands:
scan, connect, AP start, ECSA).  Client threads only link nodes into queues and
post a semaphore; the share thread of the engine visits the dispatcher of every
band in turn, runs all its token operations and at most one of its messages, and
calls back into background modules (PS, SER, RSSI, ...) and into the current
foreground command.  The watchdog timer is the only periodic sender.

The hazards the code is exposed to are in `PROJECT.json` under `hazards`, each at
the line where it bites and with the property that covers it.

## 2. Modules

| Module | Models | Checked by |
|---|---|---|
| `CmdToken` | the token of one or two dispatchers: requests, operations, grant loop, clearance of the other band | `CmdTokenMC` |
| `TokenSpec` | what the tokens promise to a command: who holds a band, who has the exclusive right, whose last message is due | as a property of `CmdToken` |
| `CmdTokenProofs` | theorems of `CmdToken` | TLAPS |
| `CmdTokenRefines` | `CmdToken` implements `TokenSpec` | TLAPS |
| `CmdMsg` | the messages of one dispatcher: pool, queues, two phases, pending, cancel, abort | `CmdMsgMC` |
| `CmdMsgProofs` | theorems of `CmdMsg` | TLAPS |
| `RxReorder` | the receive reorder window of one TID: RX handler, timer, block acknowledgement request, sessions | itself |
| `RxReorderProofs` | theorems of `RxReorder` about its timer | TLAPS |
| `RxWindowProofs` | theorems of `RxReorder` about the window and its numbers | TLAPS |
| `NumberLemmas` | least and greatest number of a set, remainders: lemmas for `CmdMsgProofs` and `RxWindowProofs` | TLAPS |
| `DataPath` | pause and resume of TX and RX by several modules, with the handlers | in `CmdSer` |
| `CmdSer` | `DataPath` composed with firmware recovery, its timer and messages, power save and the firmware | itself |
| `CmdSerProofs` | theorems of `CmdSer` and of `DataPath` in it | TLAPS |

`CmdTokenMC` and `CmdMsgMC` only hold the sets the configurations name.

### 2.1 `CmdToken`

State.  `status`, `excl`, `idle_q`, `wait_q`, `op_q`, `used`, `token_cnt`,
`cur_cmd_req` and the four flags are the fields of `struct cmd_dispatcher` and of
its request pool, one copy per band; a request is its slot in
`token_req_ex_pool`.  `msgs` keeps only the messages that matter to the token (a
power notice, the watchdog's, the last message of a command, the abort message).
`sema` is `msg_q_sema` of the engine.  `tpc`, `tband`, `top`, `tex` are the
program counter and the locals of the share thread, `cl` those of the clients.

Actions and code:

| Action | Code |
|---|---|
| `ThreadWake`, `NextBand` | `share_thread_hdl`: one `sema_down`, then every dispatcher once |
| `ThreadLoop`, `ThreadNoOp`, `ThreadPopOp` | `token_op_hanler`, `pop_front_token_op_info` |
| `HandleAdd`, `HandleFree`, `HandleCancelWaiting`, `HandleCancelRunning` | the cases of `_handle_token_op_info` |
| `ProcBusy`, `ProcBlocked`, `ProcAcquireClearance`, `ProcPass`, `ProcIdle`, `ProcPopReq` | the branches of `dispr_process_token_req`; the look at the queue and the pop are two steps |
| `Register`, `RegisterRefused` | `register_cur_cmd_req` with the two answers of the acquired callback |
| `MsgPlain`, `MsgEnd`, `MsgAbort`, `ThreadNoMsg` | one message of the round, with `dispr_free_token` or `on_abort_msg_complete` |
| `AddPopIdle`, `AddPushWait`, `AddSetEnq`, `AddLoadStatus`, `AddStoreStatus`, `AddEnqueue` | `dispr_add_token_req`, cut where other threads can come in between |
| `CancelCheck`, `CancelEnqueue` | `dispr_cancel_token_req` |
| `SendEnd`, `Watchdog` | a foreground command that finishes; the watchdog timer |

Grain.  Every `pq_*` function holds its queue's lock: one step.  Everything a
client does between two such calls is a step of its own.  On the share thread,
code that touches only fields the share thread owns is joined to the call before
it.  `status |= REQ_STATUS_ENQ` of a client is a load and a store (`TornStatus`),
because the share thread clears flags of the same word.  A list node that is
linked twice, unlinked twice or cleared while linked sets `corrupt`, and the
model stops there: what follows is undefined in C.

The abstract specification.  `TokenSpec` knows neither queues nor slots, threads
or flags: it has the request that runs on each band (`holder`), the band that has
the exclusive right (`right`) and the bands whose aborted command still owes its
last message (`ending`).  `CmdToken` maps its state to it (`Token == INSTANCE
TokenSpec WITH ...`): `holder` is `cur_cmd_req`, `right` the bands with `DISPR_EXCLUSIVE_USE`, `ending` those with
`DISPR_WAIT_ABORT_MSG_DONE`.  Every step of a client, every queue operation and
every wake-up is a stutter.

### 2.2 `CmdMsg`

State.  The pool (`status`, `id`, `premap`, `postmap` by slot), the three queues,
`pending_evt`, the flags `DISPR_CLR_PEND_MSG`, `_WAIT_ABORT_MSG_DONE`,
`_SHALL_STOP`, `_CANNOT_IO`, the share thread (`tpc`, `tmsg`) and the clients
(`cl`).  The token is kept to what messages see of it: `cur` (none, RUN, RUN and
CANCEL, neither, LAST_PERMIT), the number of waiting requests and the operation
queue.  `map` and `seen` are history: the bitmap a message was sent with and the
modules that had its pre phase.

| Action | Code |
|---|---|
| `ClearTest`, `ClearMove` | `clear_pending_msg`, one message per step |
| `TokenOp`, `Grant`, `Drop`, `AbortStart`, `AbortSend`, `Dropped` | `token_op_hanler` and `deregister_cur_cmd_req`, whose abort callback may send one message |
| `PopWait`, `CheckCancelled` | `pop_front_wait_msg`, `is_msg_canceled` |
| `Controller`, `Redirect2`, `PrePhase`, `Redirect3`, `PostPhase`, `Redirect4`, `Request`, `PushPending`, `RecycleMsg` | `msg_dispatch`: one step for every test of the message's status and every module that is fed |
| `SendCheck`, `SendFill`, `SendPush` | `dispr_send_msg`: the tests, the pop of a slot with its assignments, the push (or the refusal of LAST_PERMIT) |
| `CancelCheck`, `CancelPremap`, `CancelPostmap`, `CancelFlag` | `dispr_cancel_msg`, `cancel_msg` |
| `AddReq`, `CancelReq`, `MdlBusy`, `MdlReady`, `CannotIo`, `ResumeIo`, `ShallStop`, `ClrPending` | the callers: commands, a module that is busy (power save during a recovery) and ready again, `dispr_notify_dev_io_status`, `dispr_notify_shall_stop`, `dispr_clr_pending_msg` |

What a module answers is nondeterministic: it handles the message, fails
(`Fails`), or answers `MDL_RET_PENDING` while `busy`.  What the foreground command
does with a message is: nothing, or give its token back.

Left out of `CmdMsg`: registration and start of modules (all of `Module` are
started), the contents of completion callbacks, the refusal of a token by the
acquired callback and the second band (both in `CmdToken`), torn updates of
status words, and the interleaving inside the assignments of `dispr_send_msg`
(nobody else has a pointer to the slot but a stale handle).

### 2.3 `RxReorder`

State.  `r` is `struct phl_tid_ampdu_rx`; a frame is its absolute number `n`,
`meta->seq` is `n % M`, `habs` the absolute number of the head (history), `old`
the entries whose `reorder_time` is 500 ms ago.  `stored_mpdu_num` is the number
of filled entries.  Time passes in ticks of half the time-out: `timer` is off or the
ticks until `reorder_timer` is due, and `half` are the frames that have waited for
one tick.  `alive`, `callback` and `ctl` say whether the entry
exists, how far the callback of the timer and `phl_free_rx_reorder` are.  `list` holds what each context has taken out under the
lock and not yet handed over.

| Action | Code |
|---|---|
| `PassDirect`, `DropOld`, `DropStored`, `PassInOrder`, `Store` | the exits of `phl_manage_sta_reorder_buf`, each with the overflow and the `phl_reorder_release` before or after it: one lock section |
| `Tick`, `Expire`, `TimerRelease`, `TimerDone` | time; `phl_sta_rx_reorder_timer_expired` with its lock section |
| `OtherTid` | a release on another TID of the station that leaves frames behind: it sets the same timer anew |
| `HandleBar` | `rtw_phl_rx_bar` |
| `HandOver` | one frame of `phl_handle_rx_frame_list`, outside the lock |
| `Start`, `Stop`, `FreeMark`, `FreeCancel`, `FreeEntry` | `rtw_phl_start_rx_ba_session`, `rtw_phl_stop_rx_ba_session`, `phl_free_rx_reorder` |
| `SenderMoves`, `SendBar` | the peer: frames of its window in any order and number, and its request, which may be late |

The loops of `phl_reorder_release` and `phl_release_reorder_frames` are written as
what they do: `Shift` takes out a number of entries from the head on, `Ready` is
how far the walk over ready, missing and timed-out frames gets.  `Rearm` is
`set_release_timer`: `reorder_timer` is a field of the station, and whoever leaves
frames behind sets it to the full time-out from now on, whatever it was.  Left out:
the flag `sleep` (WoWLAN is not built), the RX shortcut (`PHL_RXSC_AMPDU`, not built),
the windows of other TIDs, frames that are never reordered (multicast, fragments),
`rtw_phl_flush_reorder_buf` (it has no caller).

### 2.4 `DataPath`

State.  Per direction: `sts` is `phl_sw_tx_sts` / `phl_sw_rx_sts`, `pause_id` the
bitmap `pause_tx_id` / `pause_rx_id`, `sched` says that a pause or a resume has
scheduled the handler, `handler` how far the handler (a tasklet) is, `call` is the
pause call the share thread is in (the callers of `phl_data_ctrler` run there, one at
a time).  `late` is history: the directions in which a pause timed out.

| Action | Code |
|---|---|
| `PauseCall`, `PauseJoin`, `PauseRequest`, `PauseSeen`, `PauseTimeout` | `_phl_sw_tx_pause`, `_phl_sw_rx_pause`: the two tests of the status, the request, the polling loop and its two ends |
| `Resume` | `_phl_sw_tx_resume`, `_phl_sw_rx_resume` |
| `HandlerRun`, `HandlerCheck`, `HandlerStop` | `_phl_tx_callback_usb`, `_phl_rx_callback_usb`: the first look at the status, the second one after the packets, `phl_tx_stop_usb` / `phl_rx_stop_usb` which store `SW_PAUSE` whatever the status is by then |
| `Traffic` | packets that start the handler |

The handler and the share thread share the status word without a lock, hence the
two steps.  Left out: the packets, the status `IDLE` of a path that is not started,
the callers outside the two command modules (MRC, the dispatcher controller, the
ioctls behind `rtw_phl_reset`), and the branch of a pause whose handler cannot be
scheduled (it would fail with the status left at `STOP_INPROGRESS` and nothing
claimed): on USB both handlers are tasklets (`hci/phl_trx_usb.c:1207`, `:1215`), and
`_os_tasklet_schedule` of Linux always returns success (`pltfm_ops_linux.h:714`).

### 2.5 `CmdSer`

State.  `ser`, `bserl2`, `poll_cnt` are fields of `struct cmd_ser`, `timer` says
whether `poll_timer` is armed; `wait_q` and `pend` are the wait and the pending
queue of the dispatcher, of which the events of SER are kept by name and all
messages of other modules are `EXT`.  `hdl` is the handler the share thread is in
when it has to wait for a pause.  `stop_datapath` belongs to power save.  `fw`,
`post`, `isr`, `wdt` and `h2c` are the firmware: what it does, the error it has
posted, its two interrupt bits, what the driver has told it.  `mute` is history: an
event was read that starts nothing, or a message could not be sent.

| Action | Code |
|---|---|
| `TimerFire` | `_ser_poll_timer_cb` |
| `PollingChk` (`Recognize`) | `_ser_msg_hdl_polling_chk` with `rtw_phl_interrupt_handler` |
| `EventChk` | `_ser_msg_hdl_evt_chk`, `_ser_event_notify` |
| `FwExpire` | `_ser_msg_hdl_fw_expire` |
| `M1Start`, `M1Hw`, `M1Done`, `M1Fail` | `_ser_msg_hdl_m1`, `_ser_m1_pause_trx`, cut at its pauses; the end with `_ser_m2_notify` or `_ser_l2_notify` |
| `M3`, `M3Fail`; `M5` | `_ser_msg_hdl_m3`, `_ser_m3_reset_hw_trx`; `_ser_msg_hdl_m5` |
| `M9Start`, `M9Rx`, `M9Done` | `_ser_msg_hdl_m9`, `_ser_m9_pause_trx` |
| `MsgFail`, `Lost` | `_ser_fail_ev_hdlr`; `dispr_send_msg` on an empty pool |
| `ExtPend`, `ExtIgnore` | `_ser_hdl_external_evt` |
| `PsEnter`, `PsEntered`, `PsLeave` | `_enter_ps` with `_stop_datapath`; `_leave_success_hdlr` |
| `ExtSend`, `HostL2` | other modules; `rtw_phl_ser_l2_notify`, a failed wake-up of power save |
| `FwL1`, `FwM3`, `FwM5`, `FwOther`, `FwHang`, `FwWatchdog` | the firmware: it posts an error and waits for the answer, asks for level 2, logs, hangs, is caught by its watchdog |

The firmware is modelled from the handshake the driver expects of it: it posts an
error only when the last one has been read, and M3 (M5) only after it was told M2
(M4).  Left out: the sources of events on PCIe and SDIO, start and stop of the
module, the log of states, and `L2_RESET_DONE`, the only event that clears
`bserl2`, since `rtw_phl_ser_l2_done_notify` has no caller.  When a message cannot be
sent, `Recognize` loses `EVENT_CHK`, M9 or both.  `phl_ser_fsm.c` is the
variant under `CONFIG_FSM`, which is not built.

## 3. What the runs check

A configuration switches on one kind of trouble at a time, because the state
space multiplies; all runs of a module use the same `Next`.

| Run | States | Shows |
|---|---|---|
| `CmdTokenSafety` | 1,970,828 | two clients whose requests are exclusive or not, a band with one request slot and a band with two, cancels, refusals, torn status; two exclusive requests race for the bands, and slots are recycled while handles and operation nodes of the earlier request are about: `TypeOK`, `ExclusiveIsolated`, `TokenCountExact`, `SlotConservation`, `NoLostWakeup`, `AbortMessageAwaited`, `NoMutualClearance`, `ClearanceHeld`, and `ImplementsToken`: all of it is a behaviour of `TokenSpec` |
| `CmdTokenLive` | 275,356 | `RequestsServed` under fairness |
| `CmdMsgSafety` | 4,247,923 | three senders, busy and failing modules and controller, two commands that are granted and aborted: `MsgConservation`, `AbortBarrier`, `DeliveredToAll`, `NoLostWakeup`, `NoStrandedPending`, `CtrlFirst`, and the silenced sender (`SenderSilenced`) |
| `CmdMsgLive` | 1,371,306 | cancels by (stale) handle on a pool of one slot, around a busy module, a period without I/O, an aborted command and the stop notice: `MsgConservation`, `AbortBarrier`, and `Answered` under fairness |
| `RxReorderWindow` | 718,143 | two sessions, a late request, the timer and the other TIDs that postpone it, over the wrap of the numbers: `TypeOK`, `WindowExact`, `InOrder`, `DropJustified`, `TimerCovers`, `TimerQuiet`, `HeadJustified`, and `StoredLeaves` under fairness |
| `CmdSerRecovery` | 1,177,924 | two faults of any kind and two messages of other modules, pauses that time out: `PausedOwned`, `RecoveryQuiet`, `RestReleased`, `PollAlive`, `PsClaimKnown`, `PendingInRecovery`, and `RecoveryEnds`, `ErrorNoticed` under fairness |

The other six runs are the disagreements of section 4.

Some properties are the ones a reader should know first.  `ExclusiveIsolated`:
while one band has the exclusive right, the other runs no command and none is
granted on it.  `AbortBarrier` / `AbortMessageAwaited`: the wait for the last
message of an aborted command starts and ends with exactly one message, whatever
happens to it (dispatched, failed, pending, cancelled by a stale handle, dropped by
the stop notice), so the band never waits for a message that is gone.
`NoStrandedPending`: a module may become ready *between* its answer
`MDL_RET_PENDING` and `push_back_pending_msg`; the clear then finds an empty
queue, and only because the flag is tested by the share thread itself, at the
start of a later round, is the message not left there.  `HeadJustified`: the window
gives a missing frame up only behind a frame that timed out, at the request of the
sender, or for a frame that would not fit; with `InOrder` and `DropJustified` this
is all the window promises.  `RecoveryQuiet`: the firmware takes its DMA down and up
only while both directions are held and their handlers rest, although the pauses, the
stop of the hardware, its restart and the resume belong to handlers of four
different messages.  `PollAlive`: on USB nothing but the driver's own timer ever
looks for an error, so every path through every handler must leave the timer armed
or the next message queued.

`StoredLeaves` promises that frames leave the window without any further frame of
their TID, *unless* the other TIDs of the station set the common timer for ever, which
they can (section 4).

Three exceptions are written into the properties of `CmdSer`, and all are real:
without them TLC shows behaviours of the code.  `late`: after a pause that timed out
the handler may store `SW_PAUSE` over the `RUNNING` of a resume, and nobody restarts
the direction; a second pause joins the first and the handler is still at work when
M2 is sent; power save forgets its claim on TX.  The hazards of such a pause
(`phl_trx_usb.c:1143`, `phl_tx.c:2323`, `phl_cmd_ps.c:1102`) are therefore listed
without a property: the model has them, no property forbids them.  `mute`: an error that is only logged
(with `_ser_event_notify` returning early) or a message that finds the pool empty
ends the polling for good.  `Expired`: `FW_TIMER_EXPIRE` was handled, level 2 is
declared, but the state, the held-back messages and, mostly, M2 or M4 stay; for
`RecoveryEnds` this counts as an end (nothing clears `bserl2` afterwards),
`PendingInRecovery` allows pending messages only there, and `ErrorNoticed` excepts it
while the driver waits for the firmware.  With a third fault TLC also shows a
`FW_TIMER_EXPIRE` that is sent while the answer of the firmware already waits in the
queue: it is handled after the recovery has ended well and declares level 2 for good.

Bounds and why they are enough.  Two clients, one slot on one band and two on
the other give every order of two requests, of a request and a cancel, and of two
exclusive requests; a third would only wait behind them, since the wait queue is FIFO.
The band of one slot is there for recycling: its handles are stale in the end; the
band of two has a queue.  `MaxMsg` = 2 or 3
lets a pool run dry, lets an abort message meet a stranger and lets a controller
message overtake; with one slot (`CmdMsgLive`) every handle is stale in the end.
Two modules of different priority show both phase orders; modules of one priority
are visited in queue order by the same loop.  One period of each kind (`MaxPeriod`), busy and without I/O, is
enough for a message to be pending once in each phase in some behaviour.
`CmdMsgSafety` sends one message of each event, on purpose: `pending_evt_id` holds an event
number, and a second message with the number of the pending one, refused or
recycled meanwhile, resets it, so that with two sends `SenderSilenced` is false by
design of the code.  `RxReorderWindow` has 12 numbers and a window of 3 in place of
4096 and 64: five frames from 9 on cross the wrap, leave holes and
overflow the window.  A walk that lets a timed-out frame go and then stops at a
*second* hole needs a window of 4; the theorems about the window hold for every size,
and the same configuration with `M` = 16, `B` = 4 and the frames 13 to 17 passes as
well, `StoredLeaves` included (1,386,382 states), but takes five minutes.  In `CmdSerRecovery` two faults give every fault in every state
of a recovery from another one, and every pair of them; two messages are what power
save needs to sleep and to wake up; one poll in place of ten is the shortest wait
that is not over at once.  `Gap` bounds how far the sender's window and a late request
are from the head; beyond half of the number space the comparison of sequence
numbers has no meaning in any implementation.  Every configuration says `CHECK_DEADLOCK FALSE`: with bounded
clients the dispatcher comes to rest, waiting on its semaphore.

Fairness and why the code justifies it.  The share thread never blocks except on
its semaphore (weak fairness of its step); a client thread inside a call runs on
(none of the calls waits).  In `CmdToken` a granted command sends its last message,
which is what foreground commands do on completion, failure and time-out, and the
watchdog timer re-arms itself for as long as the engine runs.  In `CmdMsg` a busy
module gets ready (a recovery ends with M5 or in `_ser_l2_notify`; not after `FW_TIMER_EXPIRE`,
section 4), I/O resumes, and whoever
ends such a period goes on to call `dispr_clr_pending_msg`.  In `RxReorder` time passes, a timer that stays due expires (one that is set
anew for ever need not), its callback runs on, lists are handed
over and a free that has begun ends.  In `CmdSer` the share thread, the timer and the
two tasklets go on.  No fairness is
assumed of clients that are idle, of the sender, of the other TIDs, of the firmware, of its watchdog, or
that sessions end.

## 4. Disagreements between the code and its comments

Each is a run that TLC refutes, listed under `findings`.

* `CmdTokenBlocked` (`:936`): an exclusive request that is cancelled while it waits
  is recycled without `cmd_token_complete`; the other band keeps
  `DISPR_CLEARANCE` and refuses its own requests for a command that no longer
  exists.
* `CmdMsgLast` (`:2000`, comment at `:752`): a client that is past the test of
  `dispr_send_msg` when the messages of the aborted command are cancelled links
  its own afterwards, uncancelled and behind the message that is meant to be the
  last one.
* `RxReorderHandOver` (`phl_rx.c:701`, comment at `:892`): the timer callback takes
  frames out of the window under the lock and hands them to the core after it;
  in between the RX handler takes the next frame for in order and hands it over
  first.
* `RxReorderTimer` (`phl_rx.c:674`, comments at `:605` and `:623`): the timer is to be
  set "based on the reorder_time" of the frame that waits.  The code always sets it to
  500 ms from now, and there is one timer for all TIDs of a station: every later store
  that leaves frames behind puts the expiry off, so a frame past its time-out waits on,
  and steady out-of-order traffic on another TID can keep it there for ever.
* `CmdSerExpire` (`phl_cmd_ser.c:558`, comment at `:456`): a failed recovery is to clear
  the pending messages and fail new ones.  `_ser_l2_notify` does both; the time-out of
  M3 or M5 declares level 2 without the clear, so new messages fail while those
  that wait already wait on.
* `CmdSerWatchdog` (`phl_cmd_ser.c:556`, trace at `:668`): after the time-out of M3 or
  M5 the driver is to "wait FW WDT", but the handler leaves the state and the counter
  that made the timer send the time-out, so the timer sends it again for ever and
  the watchdog's interrupt, which only `POLLING_CHK` reads, is never noticed.

`ExclusiveIsolated` speaks of the exclusive right (`DISPR_EXCLUSIVE_USE`).  The test
whether the front request is exclusive and the pop of the front request
(`phl_cmd_dispatcher.c:2386`) are two critical sections, so an exclusive request that
arrives on the empty queue in between is granted *without* that right; the hazard is
listed, with that restriction.

## 5. What is proved

`CmdTokenProofs` proves, for any number of slots, clients, requests and messages
and for one or two bands, the theorems below. They rest on the assumptions named
in `CmdToken` (`BandAssumption`, `ClientAssumption`, `BoundAssumption`,
`SwitchAssumption`) and on nothing else.

| Theorem | Inductive invariant | Why it must be stronger |
|---|---|---|
| `TypeCorrect` | `TypeInv`: `TypeOK`, `ClientHasSlot`, `PoppedHasSlot` | `TypeOK` allows "no slot" in the locals of a client or of the share thread; past the pop it must be a real one |
| `AbortMessageCorrect` | `AbortInv`: `AbortMessageAwaited`, `GrantNotWaiting` | between the test of the flag and the grant the thread must not have set it |
| `TokenCountCorrect`, `NoMutualClearanceCorrect`, `ExclusiveIsolatedCorrect`, `ClearanceHeldCorrect` | `TokenInv`: `TokenCountExact`, `NoMutualClearance`, `ExclusiveIsolated`, `GrantClear` | the four need each other: a grant is safe because the tests before the pop still hold at the registration, which no other thread can change |
| `NoLostWakeupCorrect` | `WakeInv` (`MsgDue`, `OpDue`) | the count of the semaphore must pay for every queued message that the running round will not take, and for every band with operations that the running round has already passed |
| `SlotConservationCorrect` | `PlaceInv`: `OnePlace`, `QueuedOnce`, `PushedOnce` | it says of the five places of a slot (idle queue, wait queue, a client before its push, the popped request, the current request) that exactly one holds it, in place of a set of holders, and that no queue has it twice |

Each proof shows `Init => Inv`, one step per action of `Next`, and joins them with
PTL. `ClearanceHeldCorrect` is an action property, from `TokenInv`.  A request changes
hands in one step (a pop, a push, a registration), so `PlaceInv` needs neither the
operation queue nor the stale handles in it: an operation acts on the slot it names
only where it is (`HandleCancelWaiting` unlinks what is linked, `deregister_cur_cmd_req`
compares with the current request), and `TokenInv` says that a grant finds no current
request that it would overwrite.

`CmdTokenRefines` proves `TokenRefinement`, that `CmdToken` implements `TokenSpec`: the
initial states map to initial states, and under `TypeInv`, `AbortInv` and `TokenInv`
every step maps to the abstract step it should be or to a stutter.  The invariants
are what makes the abstract guards true: a grant finds `holder` empty because
`token_cnt` is exact, and the other band without the right because of `GrantClear`.

`CmdMsgProofs` proves every safety invariant of `CmdMsg`, for any pool, any number of
clients, modules in any order of priority and any work, from `BoundAssumption`,
`ModuleAssumption`, `WorkAssumption` and `SwitchAssumption`.

| Theorem | Inductive invariant | Why it must be stronger |
|---|---|---|
| `TypeCorrect` | `TypeInv` | past the pop of a message or of a slot there is one |
| `NothingLost` | `PlaceInv` | each slot is in exactly one of five places and in no queue twice; `QueueConcat` carries this over to the three queues in a row, which is how `MsgConservation` counts places |
| `NextCommandWaits` | `AbortInv` with `CurStep` | the flag has its message because there is at most one such message, it is neither idle nor being filled, and no second command is dropped or granted meanwhile, which `CurStep` knows of each step of the share thread |
| `ThreadWakesUp` | `WakeInv` | the count of the semaphore pays for every queued message but the one of the running round, and for operations and the flag `DISPR_CLR_PEND_MSG` once the round has passed them |
| `PendingIsResumed` | itself | |
| `ControllerFirst` | itself, with `TypeInv` and `PlaceInv` | a message that is linked is on no queue yet, so its identity is settled |
| `CompleteBeforeCommand` | `PhaseInv` with `NoCancel` | a bitmap and the modules already served make up the bitmap the message was sent with, in each phase and at each step, pending or not |
| `PendingSilencesSender` | `OwnInv`, `SilentInv` | the remembered event is the one of the message that silences its sender also while the command is dropped and while another message is under way |

Two of them have a hypothesis, because the code does not promise more.
`CompleteBeforeCommand` assumes `~Cancels`, the switch of the model that keeps clients
from cancelling by handle: `cancel_msg` clears both bitmaps before it sets
`MSG_STATUS_CANCEL`, and a message cancelled in the middle of its dispatch is taken for
finished with the phase (hazard at `:567`).  Messages that the share thread itself cancels
with their command are covered.  `PendingSilencesSender` is `Spec /\ []SingleEvent =>
[]SenderSilenced`: `SingleEvent` says that no other message in the pool carries the
event of the pending one, which is what `pending_evt_id` needs to be more than a number.
Without it TLC refutes `SenderSilenced` as soon as an event may be sent twice in a pool
of three (`MaxSend` = 2, `MaxMsg` = 3; hazard at `:355`).

`RxReorderProofs` proves `TimerCoversCorrect` and `TimerQuietCorrect` for any window
size, number space and number of sessions, from no assumption on them.  The
inductive invariant `TimerInv` adds that `removed` is set from the mark to the free
(`FreeMarked`), which is why a store in between cannot arm the timer, that only a
running callback has frames to hand over (`IdleEmpty`), and as much of the types as
this needs (`Shape`).

`RxWindowProofs` proves the rest of the safety of `RxReorder`, the action property
`HeadJustified` included, from `WindowAssumption` alone: the size of the window divides
the number space, and the sender's window and a late request stay within less than
half of it (`2 * (Gap + B) < M`).  The 4096 numbers of the driver and its windows of 8
to 64 entries satisfy it for a `Gap` of up to 1983, as do the 12 and 3 of the run.
The inductive invariant `WindowInv` joins four facts:

* `Exact`: the head is the absolute number `habs` cut to the width, and a stored frame
  is in the entry of its number and less than a window ahead of the head;
* `Near`, `BarNear`: the head, the sender's window and the request on its way are close
  enough to each other that a comparison of cut numbers is one of numbers (`SeqLess`,
  `Distance`);
* all that was released is ascending and below the head;
* nothing is lost: `lost`, the history of frames dropped but neither passed nor stored, is empty.

The steps of the argument: `SlotOf` (as `B` divides `M`, cutting a number first does not
change its entry), `AtIs` and `HeldAt` (the entry of a number in the window has it or is
empty), `ShiftExact` (moving the head over entries that are emptied keeps `Exact`),
`WalkExists`, `WalkCollects` and `PassedIs` (the frames that a walk of any length
takes out are the stored ones it passes, ascending), `ReadyIs` and `ReleaseJustified`
(how far the walk over ready, missing and timed-out frames gets, and why), and one
lemma per exit of `phl_manage_sta_reorder_buf`, for the timer and for the request.

Induction in these proofs is a least counterexample: `NumberLemmas` takes from the
library that a non-empty set of naturals has a least element (`LeastNumber`) and
derives what is needed of remainders (`ModSplit`, `ModUnique`, `ModAdd`,
`ModDistance`), since the solver does not multiply or divide by a variable.

`CmdSerProofs` proves all safety invariants of `CmdSer` for any bounds and any number
of faults, from `BoundAssumption` alone.

| Theorem | Inductive invariant | Why it must be stronger |
|---|---|---|
| `TypeCorrect` | `TypeInv`: `TypeOK`, `CallShape`, `M1Handled` | the event of the timer is a message only because the timer is off while M1 is set |
| `PathOwned` | `PathInv`: `PausedOwned`, `Ordered` | that a paused direction has an owner needs that a handler about to store `SW_PAUSE` still finds the request it saw, which holds until a pause times out |
| `ClaimKnown` | itself, with `TypeInv` | |
| `PendingReleased` | `PendInv` | that FW_TIMER_EXPIRE finds the recovery waiting needs that a recovery without level 2, whose handler is not at work, always waits for M3 or M5 |
| `PollingGoesOn` | `Alive` | it is `PollAlive`, said of the messages in the queue instead of its places |
| `QuietBehindM2`, `NothingLeft` | `IInv`: `TypeInv`, `PathInv`, `Baton`, `Held`, `AtRest` | M5 resumes the path whenever it is taken. That none is left over from an earlier recovery needs `Baton`: the next step of the handshake exists once, as a posted error, a message, the handler at work or the answer the firmware waits for, and an M5 that is still queued is ahead of the next M1 |

The lemmas on sequences (`QueueTail`, `QueueAppend`, `QueueReleased`, `QueueMaybe`) say
what taking, sending and releasing messages does to membership and order; the rest
uses them and never an index.

Only model-checked: the liveness properties `RequestsServed`, `Answered`,
`StoredLeaves`, `RecoveryEnds` and `ErrorNoticed`, since liveness under fairness and
`ENABLED` are not in the prover's reach.  `CmdMsgSafety` checks `DeliveredToAll` and `SenderSilenced` under the same restrictions as the theorems (no
cancel by handle, one message of each event).  Every other invariant and action
property of the runs is a theorem without a hypothesis besides the specification and
the named assumptions on its constants.

## 6. Not modelled, and the plan

`PROJECT.json` lists every part of the repository with its status.  Not to be
modelled at all: chip support (register sequences and tables), the OS glue (the
state is the kernel's), the bulk of `core/` (it appears as the dispatcher's
clients), the installer and diagnosis scripts (straight-line file copies).

Planned, most important first:

1. That the `cur`/`ops` part of `CmdMsg` is an abstraction of `CmdToken` on one band,
   as a second refinement (see below).
2. `DispLife`: start, stop, stop notice and restart of the engine against clients
   (`dispr_start`, `dispr_stop`, `clear_waiting_msg`, `clear_wating_req`).
3. `TrialLicense` (`scripts/trial.sh`, `activator.sh`): trial file, tombstone and
   licence over interrupted runs and clock changes.
4. The other callers of `DataPath` (MRC, the dispatcher controller) and the power modes
   of `phl_cmd_ps.c`.
5. `UsbTrx` (buffers over URB completions), `Macid` (MAC id bitmap), `MsgHub`.

Composition: `CmdMsg` and `CmdToken` describe the same share thread from two
sides.  `CmdMsg` contains a coarse token; that its `cur`/`ops` part is an
abstraction of `CmdToken` on one band is the second refinement worth stating.  `CmdSer`
composes SER, power save and the data path, and keeps of the dispatcher the wait and
the pending queue; `CmdMsg` has the other side of it, a module that answers
`MDL_RET_PENDING` for a while and then clears.
