------------------------------- MODULE CmdSer -------------------------------
(***************************************************************************)
(* Recovery from firmware errors, SER                                      *)
(* (rtl8852cu-20240510/phl/phl_cmd_ser.c), on USB: evtsrc is               *)
(* CMD_SER_SRC_POLL, no interrupt tells the driver of an error.            *)
(*                                                                         *)
(* A timer sends POLLING_CHK to the dispatcher, whose share thread then    *)
(* reads the interrupt registers, and the state of the error becomes the   *)
(* next message: the firmware reports an error (M1), the driver pauses the *)
(* data path and answers M2, the firmware reports M3, the driver resets    *)
(* the hardware and answers M4, the firmware reports M5, the driver        *)
(* resumes.  M9 is the end (level 2).  Messages of other modules wait      *)
(* while a recovery runs.  The only other client of the data path here is  *)
(* power save (phl_cmd_ps.c), which pauses TX before it sleeps.            *)
(*                                                                         *)
(* One chain keeps all this alive: the timer, or a message, or the handler *)
(* at work; every step has to start the next.                              *)
(***************************************************************************)
EXTENDS DataPath, Sequences

CONSTANTS
    MaxPoll,        \* bound: CMD_SER_POLLING_INTERVAL, polls of a waiting state
    MaxFault,       \* bound: errors of the firmware, level 2 requests, failed and
                    \* lost messages
    MaxExt,         \* bound: messages of other modules
    LogOnly,        \* TRUE: the firmware also raises errors that are only logged
    Fails           \* TRUE: the dispatcher fails a message before SER sees it, or
                    \* has no idle message left for one

ASSUME BoundAssumption == MaxPoll \in Nat \ {0} /\ {MaxFault, MaxExt} \subseteq Nat
ASSUME SwitchAssumption == {LogOnly, Fails, Timeouts} \subseteq BOOLEAN

State == {"M1", "M2", "M3", "M4", "M5", "M9"}   \* enum _CMD_SER_TIMER_STATE
\* Messages on msg_wait_q; EXT is a message of another module.
SerMsg == {"POLLING_CHK", "EVENT_CHK", "M1", "M3", "M5", "M9", "FW_TIMER_EXPIRE"}
Msg == SerMsg \cup {"EXT"}
\* The handler of the share thread: no message, the pauses of M1 (TX, RX), of M9
\* (TX, RX), of power save.
Hdl == {"none", "M1tx", "M1rx", "M9tx", "M9rx", "PS"}

VARIABLES
    ser, bserl2, poll_cnt,  \* cser->state, bserl2, poll_cnt
    timer,                  \* poll_timer is armed
    wait_q,                 \* messages of SER and for SER, in order
    pend,                   \* messages of other modules on msg_pend_q
    hdl,                    \* what the share thread is at
    stop_datapath,          \* cmd_ps: power save holds TX
    mute,                   \* history: an event was read that starts nothing, or a
                            \* message was lost
    fw,                     \* the firmware: fine, waits for M2 or M4, hangs,
                            \* was caught by its watchdog
    post, isr, wdt,         \* error it posted, halt C2H and watchdog interrupts
    h2c,                    \* what the driver told it
    faults, exts            \* left of the bounds

serVars == <<ser, bserl2, poll_cnt, timer, mute>>
fwVars == <<fw, post, isr, wdt, h2c>>
vars == <<sts, pause_id, is_hw_trx_pause, sched, handler, call, late,
          ser, bserl2, poll_cnt, timer, wait_q, pend, hdl, stop_datapath, mute,
          fw, post, isr, wdt, h2c, faults, exts>>

TypeOK ==
    /\ PathTypeOK
    /\ ser \subseteq State /\ bserl2 \in BOOLEAN /\ poll_cnt \in 0 .. MaxPoll
    /\ timer \in BOOLEAN /\ mute \in BOOLEAN
    /\ wait_q \in Seq(Msg) /\ pend \in Nat
    /\ hdl \in Hdl /\ stop_datapath \in BOOLEAN
    /\ fw \in {"fine", "M2", "M4", "hung", "bitten"}
    /\ post \in {"none", "M1", "M3", "M5", "M9", "LOG"}
    /\ isr \in BOOLEAN /\ wdt \in BOOLEAN /\ h2c \in {"none", "M2", "M4"}
    /\ faults \in 0 .. MaxFault /\ exts \in 0 .. MaxExt

\* _phl_ser_mdl_start, once rtw_phl_start has started the data path.
Init ==
    /\ PathInit
    /\ ser = {} /\ bserl2 = FALSE /\ poll_cnt = 0 /\ timer = TRUE
    /\ wait_q = <<>> /\ pend = 0 /\ hdl = "none" /\ stop_datapath = FALSE
    /\ mute = FALSE
    /\ fw = "fine" /\ post = "none" /\ isr = FALSE /\ wdt = FALSE /\ h2c = "none"
    /\ faults = 0 /\ exts = 0

-----------------------------------------------------------------------------
(* The timer                                                               *)

\* dispr_send_msg succeeds, or fails on an empty pool; no sender tries again.
Sent == UNCHANGED <<mute, faults>>
Lost == Fails /\ faults < MaxFault /\ faults' = faults + 1 /\ mute' = TRUE

Waiting == ser \cap {"M2", "M4"} # {}

\* The event _ser_poll_timer_cb sends.  IO_TIMER_EXPIRE is no member of Msg: the
\* timer is off while M1 is set.
TimerMsg ==
    IF "M1" \in ser THEN "IO_TIMER_EXPIRE"
    ELSE IF Waiting /\ poll_cnt = 0 THEN "FW_TIMER_EXPIRE" ELSE "POLLING_CHK"

TimerFire ==
    /\ timer
    /\ timer' = FALSE
    /\ \/ wait_q' = Append(wait_q, TimerMsg) /\ Sent
       \/ wait_q' = wait_q /\ Lost
    /\ UNCHANGED pathVars
    /\ UNCHANGED fwVars
    /\ UNCHANGED <<ser, bserl2, poll_cnt, pend, hdl, stop_datapath, exts>>

-----------------------------------------------------------------------------
(* Pieces of the handlers                                                  *)

Rest == Tail(wait_q)

\* DISPR_CLR_PEND_MSG: the pending messages go back to the wait queue q.
Released(q) == q \o [i \in 1 .. pend |-> "EXT"]

\* _ser_reset_status.
ResetStatus == ser' = {} /\ poll_cnt' = 0 /\ timer' = TRUE

\* _ser_l2_notify, then _ser_reset_status; the messages left are q.
GiveUp(q) ==
    /\ wdt' = FALSE
    /\ bserl2' = TRUE
    /\ wait_q' = Released(q) /\ pend' = 0
    /\ ResetStatus
    /\ hdl' = "none"
    /\ UNCHANGED <<mute, fw, post, isr, h2c, stop_datapath, faults, exts>>

\* _ser_m3_m5_waiting.
AwaitFirmware == poll_cnt' = MaxPoll /\ timer' = TRUE

\* The share thread is free and takes the message e.
Takes(e) == hdl = "none" /\ wait_q # <<>> /\ Head(wait_q) = e

\* What a handler leaves alone that neither calls phl_data_ctrler nor tells the
\* firmware anything.
Simple == UNCHANGED <<sts, pause_id, is_hw_trx_pause, sched, handler, call, late,
                      pend, hdl, stop_datapath, fw, h2c, exts>>

-----------------------------------------------------------------------------
(* Finding out                                                             *)

\* rtw_hal_recognize_interrupt (hal_recognize_int_8852cu) reads and clears the
\* interrupts; rtw_phl_interrupt_handler sends a message for each.
Recognize ==
    LET halt == IF isr THEN <<"EVENT_CHK">> ELSE <<>>
        dog == IF wdt THEN <<"M9">> ELSE <<>>
    IN  /\ isr' = FALSE /\ wdt' = FALSE
        /\ \/ wait_q' = (Rest \o halt) \o dog /\ Sent
           \/ wait_q' = Rest /\ Lost
           \/ isr /\ wdt /\ wait_q' \in {Rest \o halt, Rest \o dog} /\ Lost

\* Mutant: an active poll does not count.
PollingChkNoCount ==
    /\ Takes("POLLING_CHK") /\ Simple
    /\ IF isr \/ wdt
       THEN Recognize /\ UNCHANGED timer
       ELSE /\ wait_q' = Rest /\ Sent
            /\ timer' = TRUE
            /\ UNCHANGED <<isr, wdt>>
    /\ UNCHANGED <<ser, bserl2, poll_cnt, post>>

\* Mutant: the idle poll does not start the next one.
PollingChkOnce ==
    /\ Takes("POLLING_CHK") /\ Simple
    /\ IF isr \/ wdt
       THEN Recognize /\ UNCHANGED <<poll_cnt, timer>>
       ELSE /\ wait_q' = Rest /\ Sent
            /\ poll_cnt' = IF poll_cnt > 0 THEN poll_cnt - 1 ELSE 0
            /\ timer' = (timer \/ poll_cnt > 0)
            /\ UNCHANGED <<isr, wdt>>
    /\ UNCHANGED <<ser, bserl2, post>>

\* _ser_msg_hdl_polling_chk.
PollingChk ==
    /\ Takes("POLLING_CHK") /\ Simple
    /\ IF isr \/ wdt
       THEN Recognize /\ UNCHANGED <<poll_cnt, timer>>
       ELSE /\ wait_q' = Rest /\ Sent
            /\ poll_cnt' = IF poll_cnt > 0 THEN poll_cnt - 1 ELSE 0
            /\ timer' = TRUE
            /\ UNCHANGED <<isr, wdt>>
    /\ UNCHANGED <<ser, bserl2, post>>

\* _ser_event_notify: the error is read and becomes a message.  One that is only
\* logged, or none, starts nothing, the timer included.
EventChk ==
    /\ Takes("EVENT_CHK") /\ Simple
    /\ post' = "none"
    /\ IF post \in SerMsg
       THEN \/ wait_q' = Append(Rest, post) /\ Sent
            \/ wait_q' = Rest /\ Lost
       ELSE wait_q' = Rest /\ mute' = TRUE /\ UNCHANGED faults
    /\ UNCHANGED <<ser, bserl2, poll_cnt, timer, isr, wdt>>

\* _ser_msg_hdl_fw_expire: "do nothing and wait FW WDT".
FwExpire ==
    /\ Takes("FW_TIMER_EXPIRE") /\ Simple
    /\ wait_q' = Rest
    /\ ser' = ser \cup {"M9"}
    /\ timer' = TRUE
    /\ bserl2' = TRUE
    /\ UNCHANGED <<poll_cnt, mute, post, isr, wdt, faults>>

\* The dispatcher fails a message of SER (CANNOT_IO): _ser_fail_ev_hdlr.
MsgFail ==
    /\ Fails /\ faults < MaxFault /\ faults' = faults + 1
    /\ \E e \in SerMsg : Takes(e)
    /\ wait_q' = Rest
    /\ timer' = TRUE
    /\ UNCHANGED pathVars /\ UNCHANGED fwVars
    /\ UNCHANGED <<ser, bserl2, poll_cnt, mute, pend, hdl, stop_datapath, exts>>

-----------------------------------------------------------------------------
(* The steps of a recovery                                                 *)

Busy == UNCHANGED <<bserl2, poll_cnt, pend, stop_datapath, mute, fw, post, isr, wdt,
                    h2c, faults, exts>>

\* Mutant: the timer is not cancelled.
M1StartTimerOn ==
    /\ Takes("M1") /\ Busy
    /\ wait_q' = Rest
    /\ ser' = ser \cup {"M1"}
    /\ hdl' = "M1tx"
    /\ PauseCall("tx", "SER")
    /\ UNCHANGED <<timer, is_hw_trx_pause>>

\* _ser_msg_hdl_m1, to the pause of TX.
M1Start ==
    /\ Takes("M1") /\ Busy
    /\ wait_q' = Rest
    /\ timer' = FALSE
    /\ ser' = ser \cup {"M1"}
    /\ hdl' = "M1tx"
    /\ PauseCall("tx", "SER")
    /\ UNCHANGED is_hw_trx_pause

\* TX is paused: the hardware is stopped and the pause of RX begins.
M1Hw ==
    /\ hdl = "M1tx" /\ call.pc = "done" /\ call.ret = "SUCCESS"
    /\ is_hw_trx_pause' = TRUE
    /\ hdl' = "M1rx"
    /\ PauseCall("rx", "SER")
    /\ UNCHANGED <<ser, timer, wait_q>> /\ Busy

\* The pause of TX timed out, or the hardware does not stop (rtw_hal_lv1_rcvy).
M1Fail ==
    /\ hdl = "M1tx" /\ call.pc = "done"
    /\ call' = NoCall
    /\ GiveUp(wait_q)
    /\ UNCHANGED <<sts, pause_id, is_hw_trx_pause, sched, handler, late>>

\* RTW_WKARD_SER_L1_EXPIRE: a pause of RX that timed out counts as one that did
\* not.  _ser_m2_notify, _ser_m3_m5_waiting.
M1Done ==
    /\ hdl = "M1rx" /\ call.pc = "done"
    /\ call' = NoCall /\ hdl' = "none"
    /\ ser' = (ser \ {"M1"}) \cup {"M2"}
    /\ h2c' = "M2"
    /\ AwaitFirmware
    /\ UNCHANGED <<sts, pause_id, is_hw_trx_pause, sched, handler, late, bserl2,
                   wait_q, pend, stop_datapath, mute, fw, post, isr, wdt, faults, exts>>

\* _ser_msg_hdl_m3, the hardware is reset: _ser_m4_notify, _ser_m3_m5_waiting.
M3 ==
    /\ Takes("M3")
    /\ wait_q' = Rest
    /\ ser' = (ser \ {"M2", "M3"}) \cup {"M4"}
    /\ is_hw_trx_pause' = FALSE
    /\ h2c' = "M4"
    /\ AwaitFirmware
    /\ UNCHANGED <<sts, pause_id, sched, handler, call, late, bserl2, pend, hdl,
                   stop_datapath, mute, fw, post, isr, wdt, faults, exts>>

\* The hardware does not come back.
M3Fail ==
    /\ Takes("M3")
    /\ GiveUp(Rest)
    /\ UNCHANGED pathVars

\* Mutant: RX is not resumed.
M5TxOnly ==
    /\ Takes("M5")
    /\ Resume({"tx"}, "SER")
    /\ ResetStatus
    /\ wait_q' = Released(Rest) /\ pend' = 0
    /\ UNCHANGED <<is_hw_trx_pause, handler, call, late, bserl2, hdl, stop_datapath,
                   mute, fw, post, isr, wdt, h2c, faults, exts>>

\* Mutant: the pending messages are not released.
M5KeepsPending ==
    /\ Takes("M5")
    /\ Resume(Dir, "SER")
    /\ ResetStatus
    /\ wait_q' = Rest
    /\ UNCHANGED <<is_hw_trx_pause, handler, call, late, bserl2, pend, hdl, stop_datapath,
                   mute, fw, post, isr, wdt, h2c, faults, exts>>

\* Mutant: the timer is cancelled last.
M5CancelsLast ==
    /\ Takes("M5")
    /\ Resume(Dir, "SER")
    /\ ser' = {} /\ poll_cnt' = 0 /\ timer' = FALSE
    /\ wait_q' = Released(Rest) /\ pend' = 0
    /\ UNCHANGED <<is_hw_trx_pause, handler, call, late, bserl2, hdl, stop_datapath,
                   mute, fw, post, isr, wdt, h2c, faults, exts>>

\* _ser_msg_hdl_m5.
M5 ==
    /\ Takes("M5")
    /\ Resume(Dir, "SER")
    /\ ResetStatus
    /\ wait_q' = Released(Rest) /\ pend' = 0
    /\ UNCHANGED <<is_hw_trx_pause, handler, call, late, bserl2, hdl, stop_datapath,
                   mute, fw, post, isr, wdt, h2c, faults, exts>>

\* _ser_msg_hdl_m9: both directions are paused, whatever comes of it.
M9Start ==
    /\ Takes("M9") /\ Busy
    /\ wait_q' = Rest
    /\ timer' = FALSE
    /\ ser' = ser \cup {"M9"}
    /\ hdl' = "M9tx"
    /\ PauseCall("tx", "SER")
    /\ UNCHANGED is_hw_trx_pause

M9Rx ==
    /\ hdl = "M9tx" /\ call.pc = "done"
    /\ hdl' = "M9rx"
    /\ PauseCall("rx", "SER")
    /\ UNCHANGED <<ser, timer, wait_q, is_hw_trx_pause>> /\ Busy

M9Done ==
    /\ hdl = "M9rx" /\ call.pc = "done"
    /\ call' = NoCall
    /\ GiveUp(wait_q)
    /\ UNCHANGED <<sts, pause_id, is_hw_trx_pause, sched, handler, late>>

-----------------------------------------------------------------------------
(* Messages of other modules                                               *)

ExtFrame == UNCHANGED <<ser, bserl2, poll_cnt, timer, mute, faults, exts, is_hw_trx_pause>>

\* _ser_hdl_external_evt: MDL_RET_PENDING while a recovery runs.
ExtPend ==
    /\ Takes("EXT") /\ ~bserl2 /\ ser # {}
    /\ wait_q' = Rest /\ pend' = pend + 1
    /\ UNCHANGED <<sts, pause_id, sched, handler, call, late, hdl, stop_datapath>>
    /\ ExtFrame /\ UNCHANGED fwVars

\* MDL_RET_FAIL for good after level 2; MDL_RET_IGNORE otherwise, and nobody
\* else cares about the message.
ExtIgnore ==
    /\ Takes("EXT") /\ (bserl2 \/ ser = {})
    /\ wait_q' = Rest
    /\ UNCHANGED <<sts, pause_id, sched, handler, call, late, hdl, stop_datapath, pend>>
    /\ ExtFrame /\ UNCHANGED fwVars

\* The watchdog message makes power save enter LPS (_chk_lps_enter): TX is
\* paused unless it is paused already (_is_datapath_active).
PsEnter ==
    /\ Takes("EXT") /\ ~bserl2 /\ ser = {} /\ ~stop_datapath
    /\ sts["tx"] # "SW_PAUSE"
    /\ wait_q' = Rest /\ hdl' = "PS"
    /\ PauseCall("tx", "PS")
    /\ UNCHANGED <<stop_datapath, pend>>
    /\ ExtFrame /\ UNCHANGED fwVars

\* _stop_datapath remembers a pause only if it succeeded.
PsEntered ==
    /\ hdl = "PS" /\ call.pc = "done"
    /\ stop_datapath' = (call.ret = "SUCCESS")
    /\ hdl' = "none" /\ call' = NoCall
    /\ UNCHANGED <<sts, pause_id, sched, handler, late, wait_q, pend>>
    /\ ExtFrame /\ UNCHANGED fwVars

\* Mutant: the flag is reset without a resume.
PsLeaveNoResume ==
    /\ Takes("EXT") /\ ~bserl2 /\ ser = {} /\ stop_datapath
    /\ wait_q' = Rest
    /\ stop_datapath' = FALSE
    /\ UNCHANGED <<sts, pause_id, sched, handler, call, late, hdl, pend>>
    /\ ExtFrame /\ UNCHANGED fwVars

\* _leave_success_hdlr.
PsLeave ==
    /\ Takes("EXT") /\ ~bserl2 /\ ser = {} /\ stop_datapath
    /\ wait_q' = Rest
    /\ Resume({"tx"}, "PS")
    /\ stop_datapath' = FALSE
    /\ UNCHANGED <<handler, call, late, hdl, pend>>
    /\ ExtFrame /\ UNCHANGED fwVars

-----------------------------------------------------------------------------
(* The environment                                                         *)

Drv == UNCHANGED pathVars /\ UNCHANGED serVars /\ UNCHANGED <<pend, hdl, stop_datapath>>

\* Another module or a client sends a message.
ExtSend ==
    /\ exts < MaxExt /\ exts' = exts + 1
    /\ wait_q' = Append(wait_q, "EXT")
    /\ Drv /\ UNCHANGED fwVars /\ UNCHANGED faults

\* rtw_phl_ser_l2_notify (MAC callback), _leave_fail_hdlr (power save).
HostL2 ==
    /\ faults < MaxFault /\ faults' = faults + 1
    /\ wait_q' = Append(wait_q, "M9")
    /\ Drv /\ UNCHANGED fwVars /\ UNCHANGED exts

Posts(e) == post = "none" /\ post' = e /\ isr' = TRUE

FwL1 ==
    /\ faults < MaxFault /\ faults' = faults + 1
    /\ fw = "fine" /\ fw' = "M2" /\ Posts("M1")
    /\ Drv /\ UNCHANGED <<wait_q, wdt, h2c, exts>>

FwM3 ==
    /\ fw = "M2" /\ h2c = "M2"
    /\ fw' = "M4" /\ h2c' = "none" /\ Posts("M3")
    /\ Drv /\ UNCHANGED <<wait_q, wdt, faults, exts>>

FwM5 ==
    /\ fw = "M4" /\ h2c = "M4"
    /\ fw' = "fine" /\ h2c' = "none" /\ Posts("M5")
    /\ Drv /\ UNCHANGED <<wait_q, wdt, faults, exts>>

\* The firmware asks for level 2, or raises an error that is only logged.
FwOther ==
    /\ faults < MaxFault /\ faults' = faults + 1
    /\ \/ fw \in {"fine", "M2", "M4"} /\ fw' = "hung" /\ Posts("M9")
       \/ LogOnly /\ fw \in {"fine", "M2", "M4"} /\ fw' = fw /\ Posts("LOG")
    /\ Drv /\ UNCHANGED <<wait_q, wdt, h2c, exts>>

FwHang ==
    /\ faults < MaxFault /\ faults' = faults + 1
    /\ fw \in {"fine", "M2", "M4"} /\ fw' = "hung"
    /\ Drv /\ UNCHANGED <<wait_q, post, isr, wdt, h2c, exts>>

\* Its hardware watchdog catches firmware that hangs.
FwWatchdog ==
    /\ fw = "hung" /\ fw' = "bitten"
    /\ wdt' = TRUE
    /\ Drv /\ UNCHANGED <<wait_q, post, isr, h2c, faults, exts>>

-----------------------------------------------------------------------------
CallStep ==
    /\ PauseStep
    /\ UNCHANGED serVars /\ UNCHANGED fwVars
    /\ UNCHANGED <<wait_q, pend, hdl, stop_datapath, faults, exts>>

ShareStep ==
    \/ PollingChk \/ EventChk \/ FwExpire \/ MsgFail
    \/ M1Start \/ M1Hw \/ M1Fail \/ M1Done \/ M3 \/ M3Fail \/ M5
    \/ M9Start \/ M9Rx \/ M9Done
    \/ ExtPend \/ ExtIgnore \/ PsEnter \/ PsEntered \/ PsLeave
    \/ CallStep

Others == UNCHANGED serVars /\ UNCHANGED fwVars
          /\ UNCHANGED <<wait_q, pend, hdl, stop_datapath, faults, exts>>

Tasklet(d) == HandlerStep(d) /\ Others

Environment ==
    \/ ExtSend \/ HostL2
    \/ FwL1 \/ FwM3 \/ FwM5 \/ FwOther \/ FwHang \/ FwWatchdog
    \/ \E d \in Dir : TrafficStep(d) /\ Others

Next == ShareStep \/ TimerFire \/ (\E d \in Dir : Tasklet(d)) \/ Environment

Spec == Init /\ [][Next]_vars

\* The threads of the driver go on; the firmware and the clients owe nothing.
FairSpec ==
    /\ Spec
    /\ WF_vars(ShareStep) /\ WF_vars(TimerFire)
    /\ \A d \in Dir : WF_vars(Tasklet(d))

-----------------------------------------------------------------------------
(* Properties                                                              *)

\* The firmware is told to take the DMA down (M2) and up again (M4) only behind
\* a data path that is quiet: SER holds both directions, the hardware is stopped
\* from M1 to M3, and no handler is at work except where a pause timed out.
RecoveryQuiet ==
    /\ "M2" \in ser => is_hw_trx_pause
    /\ ser \cap {"M2", "M4"} # {} =>
        \A d \in Dir :
            /\ "SER" \in pause_id[d] /\ sts[d] # "RUNNING"
            /\ d \notin late => sts[d] = "SW_PAUSE" /\ handler[d] # "work"

\* Once a recovery is over nothing of it is left behind: SER holds no direction
\* and the hardware runs.
RestReleased ==
    (hdl = "none" /\ ser = {} /\ ~bserl2) =>
        /\ \A d \in Dir : "SER" \notin pause_id[d]
        /\ ~is_hw_trx_pause

\* The chain never breaks: the next poll is due, or a message of SER waits, or
\* the share thread is at one.  An error that is only logged breaks it, and so
\* does a message that could not be sent: nobody arms the timer again.
PollAlive ==
    \/ timer \/ mute
    \/ hdl \notin {"none", "PS"}
    \/ \E i \in DOMAIN wait_q : wait_q[i] \in SerMsg

\* Power save knows of its claim on TX, so that it gives it back; a pause that
\* timed out is the exception, and then TX stays paused for good.
PsClaimKnown ==
    ("PS" \in pause_id["tx"] /\ hdl # "PS") => (stop_datapath \/ "tx" \in late)

\* FW_TIMER_EXPIRE was handled: level 2 is declared, but the state stays.
Expired == bserl2 /\ "M9" \in ser /\ hdl \notin {"M9tx", "M9rx"}

\* A message is held back only while a recovery runs.  Level 2 ends it and lets
\* the messages go, but not where FW_TIMER_EXPIRE declares it: there the recovery
\* still waits for the firmware, and the messages with it (PendingCleared).
PendingInRecovery == pend > 0 => ser # {} /\ (bserl2 => "M9" \in ser /\ Waiting)

\* "SER recovery fail: clr pending event from MDL_SER & msg return failed from
\* others module" (phl_cmd_ser.c:456): in level 2 no message is left pending.
PendingCleared == bserl2 => pend = 0

\* A recovery ends, in success or in level 2, or with FW_TIMER_EXPIRE because the
\* firmware does not answer in time, whatever the firmware does.
RecoveryEnds == (ser # {}) ~> (ser = {} \/ Expired \/ mute)

\* An error the firmware reports is noticed, unless FW_TIMER_EXPIRE came while
\* the recovery waits: the timer then sends nothing else (WatchdogNoticed).
ErrorNoticed == isr ~> (~isr \/ (Expired /\ Waiting) \/ mute)

\* What FW_TIMER_EXPIRE waits for (phl_cmd_ser.c:668, "do nothing and wait FW
\* WDT"): a watchdog interrupt is noticed.
WatchdogNoticed == wdt ~> ~wdt
=============================================================================
