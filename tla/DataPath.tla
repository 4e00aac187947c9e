------------------------------ MODULE DataPath ------------------------------
(***************************************************************************)
(* Stopping and restarting the software data path of a USB adapter         *)
(* (rtl8852cu-20240510/phl/phl_tx.c, phl/hci/phl_trx_usb.c).               *)
(*                                                                         *)
(* Each direction has a status word, the set of the modules that hold it   *)
(* paused, and a handler (a tasklet) that moves the packets.  A module     *)
(* pauses a direction by asking the handler to stop and polling until the  *)
(* handler has done so; the last module that lets go restarts it.  The     *)
(* callers of phl_data_ctrler run on the share thread, one at a time.      *)
(*                                                                         *)
(* The module has the state, the steps of a running call and the steps of  *)
(* the handlers; CmdSer composes them with the callers.  Packets, and the  *)
(* status IDLE of a path that rtw_phl_start has not started, are left out. *)
(***************************************************************************)
EXTENDS Naturals, FiniteSets

CONSTANT Timeouts   \* TRUE: the handler may need more than POLL_SW_TX_PAUSE_MAX_MS

Dir == {"tx", "rx"}
Owner == {"SER", "PS"}      \* enum data_ctrl_mdl, the callers modelled
Status == {"RUNNING", "STOP_INPROGRESS", "SW_PAUSE"}
\* A call of _phl_sw_tx_pause or _phl_sw_rx_pause: before the second test of
\* the status, in the polling loop, returned.
CallPc == {"none", "test", "poll", "done"}

VARIABLES
    sts,                \* phl_sw_tx_sts, phl_sw_rx_sts
    pause_id,           \* pause_tx_id, pause_rx_id
    is_hw_trx_pause,
    sched,              \* phl_tx_handler, phl_rx_handler: a pause or resume scheduled it
    handler,            \* the tasklet: idle, at work, about to store SW_PAUSE
    call,               \* the pause call of the share thread
    late                \* history: directions with a pause that timed out

pathVars == <<sts, pause_id, is_hw_trx_pause, sched, handler, call, late>>

NoCall == [pc |-> "none", dir |-> "tx", id |-> "SER", ret |-> "SUCCESS"]

PathTypeOK ==
    /\ sts \in [Dir -> Status]
    /\ pause_id \in [Dir -> SUBSET Owner]
    /\ is_hw_trx_pause \in BOOLEAN
    /\ sched \in [Dir -> BOOLEAN]
    /\ handler \in [Dir -> {"idle", "work", "stop"}]
    /\ call \in [pc : CallPc, dir : Dir, id : Owner, ret : {"SUCCESS", "TIMEOUT"}]
    /\ late \subseteq Dir

PathInit ==
    /\ sts = [d \in Dir |-> "RUNNING"]
    /\ pause_id = [d \in Dir |-> {}]
    /\ is_hw_trx_pause = FALSE
    /\ sched = [d \in Dir |-> FALSE]
    /\ handler = [d \in Dir |-> "idle"]
    /\ call = NoCall
    /\ late = {}

-----------------------------------------------------------------------------
(* A pause call                                                            *)

\* SET_STATUS_FLAG(pause_id), and the call returns.
PauseReturn(d, m, r) ==
    /\ pause_id' = [pause_id EXCEPT ![d] = @ \cup {m}]
    /\ call' = [pc |-> "done", dir |-> d, id |-> m, ret |-> r]

\* The first test of the status; part of the caller's step.
PauseCall(d, m) ==
    /\ IF sts[d] = "SW_PAUSE"
       THEN PauseReturn(d, m, "SUCCESS")
       ELSE /\ call' = [pc |-> "test", dir |-> d, id |-> m, ret |-> "SUCCESS"]
            /\ UNCHANGED pause_id
    /\ UNCHANGED <<sts, sched, handler, late>>

\* Somebody has already asked the handler to stop: this is taken for a pause.
PauseJoin ==
    /\ call.pc = "test" /\ sts[call.dir] = "STOP_INPROGRESS"
    /\ PauseReturn(call.dir, call.id, "SUCCESS")
    /\ UNCHANGED <<sts, sched, late>>

\* req_tx_stop, rtw_phl_tx_req_notify.  The branch for a handler that cannot be
\* scheduled is left out: _os_tasklet_schedule always succeeds, and both handlers
\* are tasklets on USB.
PauseRequest ==
    /\ call.pc = "test" /\ sts[call.dir] # "STOP_INPROGRESS"
    /\ sts' = [sts EXCEPT ![call.dir] = "STOP_INPROGRESS"]
    /\ sched' = [sched EXCEPT ![call.dir] = TRUE]
    /\ call' = [call EXCEPT !.pc = "poll"]
    /\ UNCHANGED <<pause_id, late>>

\* Mutant: the caller does not wait for the handler.
PauseSeenEarly ==
    /\ call.pc = "poll"
    /\ PauseReturn(call.dir, call.id, "SUCCESS")
    /\ UNCHANGED <<sts, sched, late>>

PauseSeen ==
    /\ call.pc = "poll" /\ sts[call.dir] = "SW_PAUSE"
    /\ PauseReturn(call.dir, call.id, "SUCCESS")
    /\ UNCHANGED <<sts, sched, late>>

\* The request to stop stays, and so does the claim of the caller.
PauseTimeout ==
    /\ call.pc = "poll" /\ Timeouts
    /\ PauseReturn(call.dir, call.id, "TIMEOUT")
    /\ late' = late \cup {call.dir}
    /\ UNCHANGED <<sts, sched>>

PauseStep ==
    /\ PauseJoin \/ PauseRequest \/ PauseSeen \/ PauseTimeout
    /\ UNCHANGED <<is_hw_trx_pause, handler>>

-----------------------------------------------------------------------------
(* Resume                                                                  *)

\* Mutant: the last owner lets go and the direction is not restarted.
ResumeForgets(D, m) ==
    /\ pause_id' = [d \in Dir |-> IF d \in D THEN pause_id[d] \ {m} ELSE pause_id[d]]
    /\ UNCHANGED <<sts, sched>>

\* _phl_sw_tx_resume, _phl_sw_rx_resume of the directions D: nothing happens
\* for a module that is no owner, and only the last owner restarts the path.
Resume(D, m) ==
    LET last == {d \in D : pause_id[d] = {m}}
    IN  /\ pause_id' = [d \in Dir |-> IF d \in D THEN pause_id[d] \ {m} ELSE pause_id[d]]
        /\ sts' = [d \in Dir |-> IF d \in last THEN "RUNNING" ELSE sts[d]]
        /\ sched' = [d \in Dir |-> d \in last \/ sched[d]]

-----------------------------------------------------------------------------
(* The handlers                                                            *)

\* The callback starts; phl_datapath_chk_trx_pause ends it on a paused path.
HandlerRun(d) ==
    /\ handler[d] = "idle" /\ sched[d]
    /\ sched' = [sched EXCEPT ![d] = FALSE]
    /\ handler' = [handler EXCEPT ![d] = IF sts[d] = "SW_PAUSE" THEN "idle" ELSE "work"]
    /\ UNCHANGED sts

\* The packets are handled; the callback reads the status a second time.
HandlerCheck(d) ==
    /\ handler[d] = "work"
    /\ handler' = [handler EXCEPT ![d] = IF sts[d] = "STOP_INPROGRESS" THEN "stop" ELSE "idle"]
    /\ UNCHANGED <<sts, sched>>

\* phl_tx_stop_usb, phl_rx_stop_usb: whatever the status is by now.
HandlerStop(d) ==
    /\ handler[d] = "stop"
    /\ handler' = [handler EXCEPT ![d] = "idle"]
    /\ sts' = [sts EXCEPT ![d] = "SW_PAUSE"]
    /\ UNCHANGED sched

\* Packets from the stack or from the USB core start the handler too (one that
\* starts on a paused path does nothing).
Traffic(d) ==
    /\ handler[d] = "idle" /\ ~sched[d] /\ sts[d] # "SW_PAUSE"
    /\ handler' = [handler EXCEPT ![d] = "work"]
    /\ UNCHANGED <<sts, sched>>

HandlerStep(d) ==
    /\ HandlerRun(d) \/ HandlerCheck(d) \/ HandlerStop(d)
    /\ UNCHANGED <<pause_id, is_hw_trx_pause, call, late>>

TrafficStep(d) ==
    /\ Traffic(d)
    /\ UNCHANGED <<pause_id, is_hw_trx_pause, call, late>>

-----------------------------------------------------------------------------
(* Properties                                                              *)

\* A direction that does not run has an owner who will restart it, or a call is
\* at work on it.  The exception is a pause that timed out: the handler may
\* store SW_PAUSE after the owner of that pause has resumed the path, and then
\* nobody is left to restart it (the handlers read the status and store the new
\* one in two steps).
PausedOwned ==
    \A d \in Dir : sts[d] # "RUNNING" =>
        \/ pause_id[d] # {}
        \/ call.pc = "poll" /\ call.dir = d
        \/ d \in late
=============================================================================
