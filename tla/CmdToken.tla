------------------------------ MODULE CmdToken ------------------------------
(***************************************************************************)
(* Foreground command tokens of the PHL command dispatch engine            *)
(* (rtl8852cu-20240510/phl/phl_cmd_dispatcher.c, SHARE_THREAD_MODE).       *)
(*                                                                         *)
(* There is one dispatcher per band.  A foreground command (scan, connect, *)
(* AP start, ...) asks a dispatcher for its only token.  Client threads    *)
(* add and cancel requests; the single share thread of the engine runs the *)
(* token operations of every dispatcher, grants the token and, for a       *)
(* request marked FG_CMD_OPT_EXCLUSIVE, first clears the other band.       *)
(*                                                                         *)
(* Every pq_* call holds its queue's spin lock, so it is one atomic step;  *)
(* code between two such calls interleaves with the other threads.         *)
(***************************************************************************)
EXTENDS Integers, Sequences

CONSTANTS
    Band,           \* phy_num dispatchers: {0}, or {0, 1} under CONFIG_DBCC_SUPPORT
    MaxReq,         \* bound: MAX_CMD_REQ_NUM, the size of token_req_ex_pool of
                    \* every band
    Client,         \* threads that call dispr_add_token_req / _cancel_token_req
    ExclClient,     \* clients whose requests may carry FG_CMD_OPT_EXCLUSIVE
    MaxAdd,         \* bound: requests one client adds
    MaxMsg,         \* bound: MAX_PHL_MSG_NUM
    WatchdogOn,     \* TRUE: the watchdog timer runs
    Cancels,        \* TRUE: clients may cancel
    AcquireFails,   \* TRUE: the acquired callback may return MDL_RET_FAIL
    TornStatus      \* TRUE: "status |= REQ_STATUS_ENQ" of a client may lose
                    \* an update the share thread makes in between

ASSUME BandAssumption == Band = {0} \/ Band = {0, 1}
ASSUME ClientAssumption == ExclClient \subseteq Client
ASSUME BoundAssumption == MaxReq \in [Band -> Nat] /\ {MaxAdd, MaxMsg} \subseteq Nat
ASSUME SwitchAssumption == {WatchdogOn, Cancels, AcquireFails, TornStatus} \subseteq BOOLEAN

Pool(b) == 0 .. MaxReq[b] - 1
Slot == UNION {Pool(b) : b \in Band}
Null == -1
SlotOrNull == Slot \cup {Null}
Other(b) == 1 - b
Dual == Band = {0, 1}
Flag == {"ENQ", "RUN", "CANCEL", "PREPARE"}

\* struct phl_token_op_info: which embedded node it is (add_req_info and
\* free_req_info of a request, renew_req_info of the dispatcher), its type.
Info == {"add", "free"} \X Slot \cup {<<"renew", Null>>}
Renew == <<"renew", Null>>
NoOp == [info |-> Renew, type |-> "RENEW"]
Op == {NoOp} \cup [info : {"add"} \X Slot, type : {"ADD"}]
             \cup [info : {"free"} \X Slot, type : {"FREE", "CANCEL"}]
MsgKind == {"phy", "wd", "end", "abort", "done"}
ThreadPc == {"wait", "loop", "ops", "hdl", "proc", "popw", "reg", "used", "msg"}
ClientPc == {"idle", "push", "rdst", "wrst", "addop", "cancel"}

VARIABLES
    status,     \* req_ex->status of every slot of every band
    excl,       \* req_ex->req.opt == FG_CMD_OPT_EXCLUSIVE
    idle_q, wait_q,         \* token_req_idle_q, token_req_wait_q
    op_q, used,             \* token_op_q, and the nodes with used == true
    token_cnt, cur_cmd_req,
    CLEARANCE, EXCLUSIVE_USE, WAIT_ABORT, NOTIFY_IDLE,   \* obj->status
    msgs,       \* msg_wait_q: the messages that matter to the token
    sema,       \* disp_eng->msg_q_sema
    tpc, tband, top, tex,   \* share thread: step, dispatcher, op, popped req
    cl,         \* client threads
    corrupt     \* a list node was linked twice, unlinked twice or cleared
                \* while linked: undefined from here on, the model stops

reqVars == <<status, excl, idle_q, wait_q>>
opVars == <<op_q, used>>
tokenVars == <<token_cnt, cur_cmd_req>>
bandFlags == <<CLEARANCE, EXCLUSIVE_USE, WAIT_ABORT, NOTIFY_IDLE>>
threadVars == <<tpc, tband, top, tex>>
vars == <<status, excl, idle_q, wait_q, op_q, used, token_cnt, cur_cmd_req,
          CLEARANCE, EXCLUSIVE_USE, WAIT_ABORT, NOTIFY_IDLE, msgs, sema,
          tpc, tband, top, tex, cl, corrupt>>

ClientState == [pc : ClientPc, b : Band, s : SlotOrNull, st : SUBSET Flag,
                left : Nat]

TypeOK ==
    /\ status \in [Band -> [Slot -> SUBSET Flag]]
    /\ excl \in [Band -> [Slot -> BOOLEAN]]
    /\ idle_q \in [Band -> Seq(Slot)]
    /\ wait_q \in [Band -> Seq(Slot)]
    /\ op_q \in [Band -> Seq(Op)]
    /\ used \in [Band -> SUBSET Info]
    /\ token_cnt \in [Band -> Int]
    /\ cur_cmd_req \in [Band -> SlotOrNull]
    /\ CLEARANCE \in [Band -> BOOLEAN]
    /\ EXCLUSIVE_USE \in [Band -> BOOLEAN]
    /\ WAIT_ABORT \in [Band -> BOOLEAN]
    /\ NOTIFY_IDLE \in [Band -> BOOLEAN]
    /\ msgs \in [Band -> Seq(MsgKind)]
    /\ sema \in Nat
    /\ tpc \in ThreadPc
    /\ tband \in Band
    /\ top \in Op
    /\ tex \in SlotOrNull
    /\ cl \in [Client -> ClientState]
    /\ corrupt \in BOOLEAN

-----------------------------------------------------------------------------
(* Helpers                                                                 *)

Elems(q) == {q[i] : i \in DOMAIN q}
\* pq_del_node: q without its element s.
Without(q, s) ==
    LET at == CHOOSE i \in DOMAIN q : q[i] = s
    IN  [i \in 1 .. Len(q) - 1 |-> IF i < at THEN q[i] ELSE q[i + 1]]
Queued(b, info) == \E i \in DOMAIN op_q[b] : op_q[b][i].info = info

\* Mutant: the notification of the share thread is forgotten.
EnqueueSilent(b, op) ==
    IF op.info \in used[b]
    THEN UNCHANGED <<op_q, used, sema, corrupt>>
    ELSE /\ op_q' = [op_q EXCEPT ![b] = Append(@, op)]
         /\ used' = [used EXCEPT ![b] = @ \cup {op.info}]
         /\ UNCHANGED sema
         /\ corrupt' = Queued(b, op.info)

\* push_back_token_op_info: refused while the node is in use, else linked and
\* the share thread is notified.  Linking a node that is still linked (its
\* used flag was cleared behind its back) corrupts the list.
Enqueue(b, op) ==
    IF op.info \in used[b]
    THEN UNCHANGED <<op_q, used, sema, corrupt>>
    ELSE /\ op_q' = [op_q EXCEPT ![b] = Append(@, op)]
         /\ used' = [used EXCEPT ![b] = @ \cup {op.info}]
         /\ sema' = sema + 1
         /\ corrupt' = Queued(b, op.info)

\* The RENEW operations that a step queues on the bands of B.
EnqueueRenew(B) ==
    LET fresh == {b \in B : Renew \notin used[b]}
    IN  /\ op_q' = [b \in Band |-> IF b \in fresh THEN Append(op_q[b], NoOp)
                                                  ELSE op_q[b]]
        /\ used' = [b \in Band |-> IF b \in fresh THEN used[b] \cup {Renew}
                                                  ELSE used[b]]
        /\ sema' = sema + (IF 0 \in fresh THEN 1 ELSE 0)
                        + (IF 1 \in fresh THEN 1 ELSE 0)
        /\ corrupt' = \E b \in fresh : Queued(b, Renew)

\* cmd_token_complete, with the RENEW operations it queues.  B: bands on which
\* the caller itself queues a RENEW afterwards.
CmdTokenComplete(b, B) ==
    IF ~Dual
    THEN EnqueueRenew(B) /\ UNCHANGED <<CLEARANCE, EXCLUSIVE_USE>>
    ELSE LET o == Other(b)
             release == EXCLUSIVE_USE[b]
             ready == CLEARANCE[b] /\ ~EXCLUSIVE_USE[o]
         IN  /\ EXCLUSIVE_USE' = [EXCLUSIVE_USE EXCEPT ![b] = FALSE,
                                                       ![o] = @ \/ ready]
             /\ CLEARANCE' = [CLEARANCE EXCEPT ![o] = @ /\ ~release]
             /\ EnqueueRenew(B \cup (IF release \/ ready THEN {o} ELSE {}))

\* Mutant: the band that becomes exclusive does not look at its queue again.
ExclusiveReadySilent(o) ==
    /\ EXCLUSIVE_USE' = IF o \in Band THEN [EXCLUSIVE_USE EXCEPT ![o] = TRUE]
                                      ELSE EXCLUSIVE_USE
    /\ UNCHANGED <<op_q, used, sema, corrupt>>

\* phl_disp_eng_exclusive_ready on the other band: no such dispatcher when
\* there is one band only.
ExclusiveReady(o) ==
    IF o \in Band /\ ~EXCLUSIVE_USE[o]
    THEN /\ EXCLUSIVE_USE' = [EXCLUSIVE_USE EXCEPT ![o] = TRUE]
         /\ EnqueueRenew({o})
    ELSE UNCHANGED <<EXCLUSIVE_USE, op_q, used, sema, corrupt>>

\* The PHY_ON / PHY_IDLE message of a band: dropped when the pool is empty.
SendPhy(b) ==
    IF Len(msgs[b]) < MaxMsg
    THEN /\ msgs' = [msgs EXCEPT ![b] = Append(@, "phy")]
         /\ sema' = sema + 1
    ELSE UNCHANGED <<msgs, sema>>

\* deregister_cur_cmd_req.  The queued messages of the current request are
\* cancelled; with notify its abort callback runs and may send one last message
\* (MSG_OPT_SEND_IN_ABORT) that the next registration waits for.  st is the
\* status of the band's slots as the caller leaves it.
Deregister(b, notify, st) ==
    LET s == cur_cmd_req[b]
        cancelled == [i \in DOMAIN msgs[b] |->
                        IF msgs[b][i] = "end" THEN "done" ELSE msgs[b][i]]
        complete == IF WAIT_ABORT[b]
                    THEN UNCHANGED <<CLEARANCE, EXCLUSIVE_USE, op_q, used,
                                     sema, corrupt>>
                    ELSE CmdTokenComplete(b, {})
    IN  /\ UNCHANGED <<excl, wait_q, NOTIFY_IDLE>>
        /\ cur_cmd_req' = [cur_cmd_req EXCEPT ![b] = Null]
        /\ IF s = Null
           THEN /\ status' = [status EXCEPT ![b] = st]
                /\ UNCHANGED <<idle_q, token_cnt, msgs, WAIT_ABORT>>
                /\ complete
           ELSE /\ status' = [status EXCEPT ![b] = [st EXCEPT ![s] = {}]]
                /\ idle_q' = [idle_q EXCEPT ![b] = Append(@, s)]
                /\ token_cnt' = [token_cnt EXCEPT ![b] = @ - 1]
                /\ \/ /\ msgs' = [msgs EXCEPT ![b] = cancelled]
                      /\ UNCHANGED WAIT_ABORT
                      /\ complete
                   \/ /\ notify /\ Len(msgs[b]) < MaxMsg
                      /\ msgs' = [msgs EXCEPT ![b] = Append(cancelled, "abort")]
                      /\ WAIT_ABORT' = [WAIT_ABORT EXCEPT ![b] = TRUE]
                      /\ sema' = sema + 1
                      /\ UNCHANGED <<CLEARANCE, EXCLUSIVE_USE, op_q, used,
                                     corrupt>>

-----------------------------------------------------------------------------
(* The share thread                                                        *)

FirstBand == 0
LastBand == IF Dual THEN 1 ELSE 0
Goto(l) == tpc' = l

\* Mutant: the thread does not wait on the semaphore.
ThreadWakeNoWait ==
    /\ tpc = "wait"
    /\ sema' = sema - 1
    /\ tband' = FirstBand
    /\ Goto("loop")
    /\ UNCHANGED <<reqVars, opVars, tokenVars, bandFlags, msgs, top, tex, cl,
                   corrupt>>

\* share_thread_hdl: sema_down, then every dispatcher in turn.
ThreadWake ==
    /\ tpc = "wait" /\ sema > 0
    /\ sema' = sema - 1
    /\ tband' = FirstBand
    /\ Goto("loop")
    /\ UNCHANGED <<reqVars, opVars, tokenVars, bandFlags, msgs, top, tex, cl,
                   corrupt>>

\* Mutant: the running command of the band is overlooked.
ThreadLoopNoCnt ==
    /\ tpc = "loop"
    /\ IF CLEARANCE[tband] /\ op_q[tband] = <<>>
       THEN ExclusiveReady(Other(tband)) /\ Goto("msg")
       ELSE /\ Goto("ops")
            /\ UNCHANGED <<EXCLUSIVE_USE, op_q, used, sema, corrupt>>
    /\ UNCHANGED <<reqVars, tokenVars, CLEARANCE, WAIT_ABORT, NOTIFY_IDLE,
                   msgs, tband, top, tex, cl>>

\* token_op_hanler, the test before the loop: a band that is to be cleared and
\* has neither operation nor token reports so and skips the operations.
ThreadLoop ==
    /\ tpc = "loop"
    /\ IF CLEARANCE[tband] /\ op_q[tband] = <<>> /\ token_cnt[tband] = 0
       THEN ExclusiveReady(Other(tband)) /\ Goto("msg")
       ELSE /\ Goto("ops")
            /\ UNCHANGED <<EXCLUSIVE_USE, op_q, used, sema, corrupt>>
    /\ UNCHANGED <<reqVars, tokenVars, CLEARANCE, WAIT_ABORT, NOTIFY_IDLE,
                   msgs, tband, top, tex, cl>>

\* pop_front_token_op_info, on an empty and on a non-empty token_op_q.
ThreadNoOp ==
    /\ tpc = "ops" /\ op_q[tband] = <<>>
    /\ Goto("msg")
    /\ UNCHANGED <<reqVars, opVars, tokenVars, bandFlags, msgs, sema, tband,
                   top, tex, cl, corrupt>>

ThreadPopOp ==
    /\ tpc = "ops" /\ op_q[tband] # <<>>
    /\ top' = Head(op_q[tband])
    /\ op_q' = [op_q EXCEPT ![tband] = Tail(@)]
    /\ Goto("hdl")
    /\ UNCHANGED <<reqVars, used, tokenVars, bandFlags, msgs, sema, tband, tex,
                   cl, corrupt>>

\* _handle_token_op_info, one action per outcome of its switch.
HandleAdd ==
    /\ tpc = "hdl" /\ top.type \in {"ADD", "RENEW"}
    /\ Goto("proc")
    /\ UNCHANGED <<reqVars, opVars, tokenVars, bandFlags, msgs, sema, tband,
                   top, tex, cl, corrupt>>

HandleFree ==
    LET s == top.info[2]
    IN  /\ tpc = "hdl" /\ top.type = "FREE"
        /\ IF "RUN" \in status[tband][s]
           THEN Deregister(tband, FALSE, status[tband]) /\ Goto("proc")
           ELSE /\ Goto("used")
                /\ UNCHANGED <<reqVars, opVars, tokenVars, bandFlags, msgs,
                               sema, corrupt>>
        /\ UNCHANGED <<tband, top, tex, cl>>

\* Mutant: the cancelled request stays on the wait queue.
HandleCancelWaitingLinked ==
    LET s == top.info[2]
    IN  /\ tpc = "hdl" /\ top.type = "CANCEL"
        /\ "ENQ" \in status[tband][s]
        /\ idle_q' = [idle_q EXCEPT ![tband] = Append(@, s)]
        /\ status' = [status EXCEPT ![tband][s] = {}]
        /\ Goto("used")
        /\ UNCHANGED <<excl, wait_q, opVars, tokenVars, bandFlags, msgs, sema,
                       tband, top, tex, cl, corrupt>>

\* A cancelled request that still waits is unlinked and aborted.  Unlinking a
\* node that is not on token_req_wait_q (the request was popped before its
\* client set REQ_STATUS_ENQ) corrupts a list.
HandleCancelWaiting ==
    LET s == top.info[2]
    IN  /\ tpc = "hdl" /\ top.type = "CANCEL"
        /\ "ENQ" \in status[tband][s]
        /\ IF s \in Elems(wait_q[tband])
           THEN /\ wait_q' = [wait_q EXCEPT ![tband] = Without(@, s)]
                /\ idle_q' = [idle_q EXCEPT ![tband] = Append(@, s)]
                /\ status' = [status EXCEPT ![tband][s] = {}]
                /\ UNCHANGED corrupt
           ELSE /\ corrupt' = TRUE
                /\ UNCHANGED <<wait_q, idle_q, status>>
        /\ Goto("used")
        /\ UNCHANGED <<excl, opVars, tokenVars, bandFlags, msgs, sema, tband,
                       top, tex, cl>>

HandleCancelRunning ==
    LET s == top.info[2]
        st == [status[tband] EXCEPT ![s] = @ \cup {"CANCEL"}]
    IN  /\ tpc = "hdl" /\ top.type = "CANCEL"
        /\ "ENQ" \notin status[tband][s]
        /\ IF "RUN" \in status[tband][s]
           THEN Deregister(tband, TRUE, st) /\ Goto("proc")
           ELSE /\ status' = [status EXCEPT ![tband] = st]
                /\ Goto("used")
                /\ UNCHANGED <<excl, idle_q, wait_q, opVars, tokenVars,
                               bandFlags, msgs, sema, corrupt>>
        /\ UNCHANGED <<tband, top, tex, cl>>

\* dispr_process_token_req up to pop_front_wait_req: the early returns.
FrontExclusive(b) == wait_q[b] # <<>> /\ excl[b][Head(wait_q[b])]

ProcBusy ==
    /\ tpc = "proc"
    /\ token_cnt[tband] > 0 \/ WAIT_ABORT[tband]
    /\ Goto("used")
    /\ UNCHANGED <<reqVars, opVars, tokenVars, bandFlags, msgs, sema, tband,
                   top, tex, cl, corrupt>>

ProcBlocked ==
    /\ tpc = "proc"
    /\ token_cnt[tband] <= 0 /\ ~WAIT_ABORT[tband] /\ CLEARANCE[tband]
    /\ ExclusiveReady(Other(tband))
    /\ Goto("used")
    /\ UNCHANGED <<reqVars, tokenVars, CLEARANCE, WAIT_ABORT, NOTIFY_IDLE,
                   msgs, tband, top, tex, cl>>

\* Mutant: a band that is itself asked to clear asks the other one.
ProcAcquireClearanceAlways ==
    /\ tpc = "proc"
    /\ token_cnt[tband] <= 0 /\ ~WAIT_ABORT[tband]
    /\ FrontExclusive(tband) /\ ~EXCLUSIVE_USE[tband]
    /\ CLEARANCE' = [b \in Band |-> b = Other(tband) \/ CLEARANCE[b]]
    /\ Goto("used")
    /\ UNCHANGED <<reqVars, opVars, tokenVars, EXCLUSIVE_USE, WAIT_ABORT,
                   NOTIFY_IDLE, msgs, sema, tband, top, tex, cl, corrupt>>

\* The other band is only marked: nothing notifies the share thread here.
ProcAcquireClearance ==
    /\ tpc = "proc"
    /\ token_cnt[tband] <= 0 /\ ~WAIT_ABORT[tband] /\ ~CLEARANCE[tband]
    /\ FrontExclusive(tband) /\ ~EXCLUSIVE_USE[tband]
    /\ CLEARANCE' = [b \in Band |-> b = Other(tband) \/ CLEARANCE[b]]
    /\ Goto("used")
    /\ UNCHANGED <<reqVars, opVars, tokenVars, EXCLUSIVE_USE, WAIT_ABORT,
                   NOTIFY_IDLE, msgs, sema, tband, top, tex, cl, corrupt>>

ProcPass ==
    /\ tpc = "proc"
    /\ token_cnt[tband] <= 0 /\ ~WAIT_ABORT[tband] /\ ~CLEARANCE[tband]
    /\ FrontExclusive(tband) => EXCLUSIVE_USE[tband]
    /\ Goto("popw")
    /\ UNCHANGED <<reqVars, opVars, tokenVars, bandFlags, msgs, sema, tband,
                   top, tex, cl, corrupt>>

\* pop_front_wait_req fails: the band is idle.
ProcIdle ==
    /\ tpc = "popw" /\ wait_q[tband] = <<>>
    /\ IF NOTIFY_IDLE[tband]
       THEN UNCHANGED <<msgs, sema>>
       ELSE SendPhy(tband)
    /\ NOTIFY_IDLE' = [NOTIFY_IDLE EXCEPT ![tband] = TRUE]
    /\ Goto("used")
    /\ UNCHANGED <<reqVars, opVars, tokenVars, CLEARANCE, EXCLUSIVE_USE,
                   WAIT_ABORT, tband, top, tex, cl, corrupt>>

ProcPopReq ==
    /\ tpc = "popw" /\ wait_q[tband] # <<>>
    /\ LET s == Head(wait_q[tband])
       IN  /\ tex' = s
           /\ wait_q' = [wait_q EXCEPT ![tband] = Tail(@)]
           /\ status' = [status EXCEPT ![tband][s] =
                            (@ \cup {"PREPARE"}) \ {"ENQ"}]
    /\ IF NOTIFY_IDLE[tband]
       THEN SendPhy(tband)
       ELSE UNCHANGED <<msgs, sema>>
    /\ NOTIFY_IDLE' = [NOTIFY_IDLE EXCEPT ![tband] = FALSE]
    /\ Goto("reg")
    /\ UNCHANGED <<excl, idle_q, opVars, tokenVars, CLEARANCE, EXCLUSIVE_USE,
                   WAIT_ABORT, tband, top, cl, corrupt>>

\* register_cur_cmd_req: the acquired callback accepts or refuses the token; a
\* refusal deregisters the request at once and processing goes on.
RunReq(b, s) == [status[b] EXCEPT ![s] = (@ \cup {"RUN"}) \ {"PREPARE"}]

\* Mutant: the other band is released as soon as the token is granted.
RegisterReleases ==
    /\ tpc = "reg"
    /\ status' = [status EXCEPT ![tband] = RunReq(tband, tex)]
    /\ cur_cmd_req' = [cur_cmd_req EXCEPT ![tband] = tex]
    /\ token_cnt' = [token_cnt EXCEPT ![tband] = @ + 1]
    /\ tex' = Null
    /\ CLEARANCE' = [b \in Band |-> b = tband /\ CLEARANCE[b]]
    /\ Goto("used")
    /\ UNCHANGED <<excl, idle_q, wait_q, opVars, EXCLUSIVE_USE, WAIT_ABORT,
                   NOTIFY_IDLE, msgs, sema, tband, top, cl, corrupt>>

Register ==
    /\ tpc = "reg"
    /\ status' = [status EXCEPT ![tband] = RunReq(tband, tex)]
    /\ cur_cmd_req' = [cur_cmd_req EXCEPT ![tband] = tex]
    /\ token_cnt' = [token_cnt EXCEPT ![tband] = @ + 1]
    /\ tex' = Null
    /\ Goto("used")
    /\ UNCHANGED <<excl, idle_q, wait_q, opVars, bandFlags, msgs, sema, tband,
                   top, cl, corrupt>>

\* Mutant: a refused token stays counted.
RegisterRefusedCounted ==
    /\ AcquireFails
    /\ tpc = "reg"
    /\ status' = [status EXCEPT ![tband] = [@ EXCEPT ![tex] = {}]]
    /\ idle_q' = [idle_q EXCEPT ![tband] = Append(@, tex)]
    /\ token_cnt' = [token_cnt EXCEPT ![tband] = @ + 1]
    /\ CmdTokenComplete(tband, {})
    /\ tex' = Null
    /\ Goto("proc")
    /\ UNCHANGED <<excl, wait_q, cur_cmd_req, WAIT_ABORT, NOTIFY_IDLE, msgs,
                   tband, top, cl>>

RegisterRefused ==
    /\ AcquireFails
    /\ tpc = "reg"
    /\ status' = [status EXCEPT ![tband] = [@ EXCEPT ![tex] = {}]]
    /\ idle_q' = [idle_q EXCEPT ![tband] = Append(@, tex)]
    /\ CmdTokenComplete(tband, {})
    /\ tex' = Null
    /\ Goto("proc")
    /\ UNCHANGED <<excl, wait_q, tokenVars, WAIT_ABORT, NOTIFY_IDLE, msgs,
                   tband, top, cl>>

\* info->used = false, after the operation is handled.
ThreadUsed ==
    /\ tpc = "used"
    /\ used' = [used EXCEPT ![tband] = @ \ {top.info}]
    /\ top' = NoOp
    /\ Goto("ops")
    /\ UNCHANGED <<reqVars, op_q, tokenVars, bandFlags, msgs, sema, tband, tex,
                   cl, corrupt>>

NextBand == IF tband = LastBand THEN Goto("wait") /\ UNCHANGED tband
                                ELSE Goto("loop") /\ tband' = Other(tband)

PopMsg(k) == /\ tpc = "msg" /\ msgs[tband] # <<>>
             /\ k = Head(msgs[tband])
             /\ msgs' = [msgs EXCEPT ![tband] = Tail(@)]

\* At most one message of each dispatcher per round of the share thread.
ThreadNoMsg ==
    /\ tpc = "msg" /\ msgs[tband] = <<>>
    /\ NextBand
    /\ UNCHANGED <<reqVars, opVars, tokenVars, bandFlags, msgs, sema, top, tex,
                   cl, corrupt>>

\* Messages whose handling does not touch the token (PHY_ON, PHY_IDLE, the
\* watchdog's, cancelled ones).
MsgPlain ==
    /\ PopMsg("phy") \/ PopMsg("wd") \/ PopMsg("done")
    /\ NextBand
    /\ UNCHANGED <<reqVars, opVars, tokenVars, bandFlags, sema, top, tex, cl,
                   corrupt>>

\* cur_req_hdl hands the last message of the command to its msg_hdlr, which
\* returns the token (dispr_free_token, called on the share thread).
MsgEnd ==
    /\ PopMsg("end")
    /\ LET s == cur_cmd_req[tband]
       IN  IF s # Null /\ "RUN" \in status[tband][s]
                       /\ "CANCEL" \notin status[tband][s]
           THEN /\ status' = [status EXCEPT ![tband][s] = @ \cup {"CANCEL"}]
                /\ Enqueue(tband, [info |-> <<"free", s>>, type |-> "FREE"])
           ELSE UNCHANGED <<status, op_q, used, sema, corrupt>>
    /\ NextBand
    /\ UNCHANGED <<excl, idle_q, wait_q, tokenVars, bandFlags, top, tex, cl>>

\* Mutant: the wait for the abort message is not ended.
MsgAbortForgets ==
    /\ PopMsg("abort")
    /\ CmdTokenComplete(tband, {tband})
    /\ NextBand
    /\ UNCHANGED <<reqVars, tokenVars, WAIT_ABORT, NOTIFY_IDLE, top, tex, cl>>

\* push_back_idle_msg of a FOR_ABORT message: on_abort_msg_complete.
MsgAbort ==
    /\ PopMsg("abort")
    /\ WAIT_ABORT' = [WAIT_ABORT EXCEPT ![tband] = FALSE]
    /\ CmdTokenComplete(tband, {tband})
    /\ NextBand
    /\ UNCHANGED <<reqVars, tokenVars, NOTIFY_IDLE, top, tex, cl>>

ThreadStep ==
    \/ ThreadWake \/ ThreadLoop \/ ThreadNoOp \/ ThreadPopOp
    \/ HandleAdd \/ HandleFree \/ HandleCancelWaiting \/ HandleCancelRunning
    \/ ProcBusy \/ ProcBlocked \/ ProcAcquireClearance \/ ProcPass
    \/ ProcIdle \/ ProcPopReq \/ Register \/ RegisterRefused
    \/ ThreadUsed \/ ThreadNoMsg \/ MsgPlain \/ MsgEnd \/ MsgAbort

-----------------------------------------------------------------------------
(* The client threads                                                      *)

At(c, l) == cl[c].pc = l
Step(c, l) == cl' = [cl EXCEPT ![c].pc = l]

\* dispr_add_token_req: pop_front_idle_req clears the request and its two
\* operation nodes, then the request is copied in.
AddPopIdle(c, b) ==
    /\ At(c, "idle") /\ cl[c].left > 0 /\ idle_q[b] # <<>>
    /\ LET s == Head(idle_q[b])
           nodes == {<<"add", s>>, <<"free", s>>}
       IN  /\ idle_q' = [idle_q EXCEPT ![b] = Tail(@)]
           /\ status' = [status EXCEPT ![b][s] = {}]
           /\ \E opt \in BOOLEAN : /\ opt => c \in ExclClient
                                  /\ excl' = [excl EXCEPT ![b][s] = opt]
           /\ used' = [used EXCEPT ![b] = @ \ nodes]
           /\ corrupt' = \E info \in nodes : Queued(b, info)
           /\ cl' = [cl EXCEPT ![c] = [pc |-> "push", b |-> b, s |-> s,
                                       st |-> {}, left |-> @.left - 1]]
    /\ UNCHANGED <<wait_q, op_q, tokenVars, bandFlags, msgs, sema, threadVars>>

\* push_back_wait_req links the request before it sets REQ_STATUS_ENQ.
AddPushWait(c) ==
    /\ At(c, "push")
    /\ wait_q' = [wait_q EXCEPT ![cl[c].b] = Append(@, cl[c].s)]
    /\ Step(c, "rdst")
    /\ UNCHANGED <<status, excl, idle_q, opVars, tokenVars, bandFlags, msgs,
                   sema, threadVars, corrupt>>

AddSetEnq(c) ==
    /\ At(c, "rdst")
    /\ status' = [status EXCEPT ![cl[c].b][cl[c].s] = @ \cup {"ENQ"}]
    /\ Step(c, "addop")
    /\ UNCHANGED <<excl, idle_q, wait_q, opVars, tokenVars, bandFlags, msgs,
                   sema, threadVars, corrupt>>

\* The same statement as a load and a store that other writes fall between.
AddLoadStatus(c) ==
    /\ TornStatus
    /\ At(c, "rdst")
    /\ cl' = [cl EXCEPT ![c].pc = "wrst", ![c].st = status[cl[c].b][cl[c].s]]
    /\ UNCHANGED <<reqVars, opVars, tokenVars, bandFlags, msgs, sema,
                   threadVars, corrupt>>

AddStoreStatus(c) ==
    /\ At(c, "wrst")
    /\ status' = [status EXCEPT ![cl[c].b][cl[c].s] = cl[c].st \cup {"ENQ"}]
    /\ cl' = [cl EXCEPT ![c].pc = "addop", ![c].st = {}]
    /\ UNCHANGED <<excl, idle_q, wait_q, opVars, tokenVars, bandFlags, msgs,
                   sema, threadVars, corrupt>>

AddEnqueue(c) ==
    /\ At(c, "addop")
    /\ Enqueue(cl[c].b, [info |-> <<"add", cl[c].s>>, type |-> "ADD"])
    /\ Step(c, "idle")
    /\ UNCHANGED <<reqVars, tokenVars, bandFlags, msgs, threadVars>>

\* dispr_cancel_token_req: the status test, then the operation.  The handle
\* names a slot only; it may have been recycled in the meantime.
CancelCheck(c) ==
    /\ Cancels
    /\ At(c, "idle") /\ cl[c].s # Null
    /\ IF status[cl[c].b][cl[c].s] \cap {"ENQ", "RUN", "PREPARE"} # {}
       THEN Step(c, "cancel")
       ELSE cl' = [cl EXCEPT ![c].s = Null]
    /\ UNCHANGED <<reqVars, opVars, tokenVars, bandFlags, msgs, sema,
                   threadVars, corrupt>>

CancelEnqueue(c) ==
    /\ At(c, "cancel")
    /\ Enqueue(cl[c].b, [info |-> <<"free", cl[c].s>>, type |-> "CANCEL"])
    /\ cl' = [cl EXCEPT ![c].pc = "idle", ![c].s = Null]
    /\ UNCHANGED <<reqVars, tokenVars, bandFlags, msgs, threadVars>>

ClientStep(c) ==
    \/ \E b \in Band : AddPopIdle(c, b)
    \/ AddPushWait(c) \/ AddSetEnq(c) \/ AddLoadStatus(c) \/ AddStoreStatus(c)
    \/ AddEnqueue(c) \/ CancelCheck(c) \/ CancelEnqueue(c)

-----------------------------------------------------------------------------
(* The running command and the watchdog                                    *)

\* The running command sends its last message (MSG_EVT_SCAN_END and the like).
SendEnd(b) ==
    /\ cur_cmd_req[b] # Null
    /\ "RUN" \in status[b][cur_cmd_req[b]]
    /\ "CANCEL" \notin status[b][cur_cmd_req[b]]
    /\ "end" \notin Elems(msgs[b])
    /\ Len(msgs[b]) < MaxMsg
    /\ msgs' = [msgs EXCEPT ![b] = Append(@, "end")]
    /\ sema' = sema + 1
    /\ UNCHANGED <<reqVars, opVars, tokenVars, bandFlags, threadVars, cl,
                   corrupt>>

\* The watchdog timer sends one command on band 0 and is armed again when that
\* command is done.
Watchdog ==
    /\ WatchdogOn
    /\ "wd" \notin Elems(msgs[0])
    /\ Len(msgs[0]) < MaxMsg
    /\ msgs' = [msgs EXCEPT ![0] = Append(@, "wd")]
    /\ sema' = sema + 1
    /\ UNCHANGED <<reqVars, opVars, tokenVars, bandFlags, threadVars, cl,
                   corrupt>>

\* The states after dispr_start of every dispatcher and phl_disp_eng_start
\* (a single dispatcher is made exclusive once and for all).
Init ==
    /\ status = [b \in Band |-> [s \in Slot |-> {}]]
    /\ excl = [b \in Band |-> [s \in Slot |-> FALSE]]
    /\ idle_q = [b \in Band |-> [i \in 1 .. MaxReq[b] |-> i - 1]]
    /\ wait_q = [b \in Band |-> <<>>]
    /\ op_q = [b \in Band |-> <<>>]
    /\ used = [b \in Band |-> {}]
    /\ token_cnt = [b \in Band |-> 0]
    /\ cur_cmd_req = [b \in Band |-> Null]
    /\ CLEARANCE = [b \in Band |-> FALSE]
    /\ EXCLUSIVE_USE = [b \in Band |-> ~Dual]
    /\ WAIT_ABORT = [b \in Band |-> FALSE]
    /\ NOTIFY_IDLE = [b \in Band |-> TRUE]
    /\ msgs = [b \in Band |-> <<>>]
    /\ sema = 0
    /\ tpc = "wait" /\ tband = FirstBand /\ top = NoOp /\ tex = Null
    /\ cl = [c \in Client |-> [pc |-> "idle", b |-> 0, s |-> Null, st |-> {},
                               left |-> MaxAdd]]
    /\ corrupt = FALSE

Next ==
    /\ ~corrupt
    /\ \/ ThreadStep
       \/ \E c \in Client : ClientStep(c)
       \/ \E b \in Band : SendEnd(b)
       \/ Watchdog

Spec == Init /\ [][Next]_vars

-----------------------------------------------------------------------------
(* Properties                                                              *)

\* While a band holds DISPR_EXCLUSIVE_USE (the state dispr_process_token_req
\* demands before it grants an exclusive request), the other band is marked
\* DISPR_CLEARANCE and neither runs nor is about to run a command: the
\* clearance handshake never grants both bands at once.
ExclusiveIsolated ==
    Dual => \A b \in Band :
        EXCLUSIVE_USE[b] =>
            /\ CLEARANCE[Other(b)]
            /\ cur_cmd_req[Other(b)] = Null
            /\ ~(tband = Other(b) /\ tpc \in {"popw", "reg"})

\* The two bands never block each other: at most one of them is asked to clear
\* (dispr_clearance_acquire is called by an uncleared band only).
NoMutualClearance == Dual => ~(CLEARANCE[0] /\ CLEARANCE[1])

\* token_cnt counts the current request: it never drifts through the aborts,
\* refusals and frees, so "token count is 0" keeps meaning "no command runs".
TokenCountExact ==
    \A b \in Band : token_cnt[b] = IF cur_cmd_req[b] = Null THEN 0 ELSE 1

\* A slot of the pool has exactly one owner: a queue, the client that is adding
\* it, the share thread that popped it, or the dispatcher that runs it.  No
\* interleaving of add, cancel, refusal and free leaks or duplicates a slot,
\* short of the corruption that stops the model.
Holders(b, s) ==
    {<<"idle", i>> : i \in {j \in DOMAIN idle_q[b] : idle_q[b][j] = s}}
    \cup {<<"wait", i>> : i \in {j \in DOMAIN wait_q[b] : wait_q[b][j] = s}}
    \cup {<<"client", c>> : c \in {d \in Client : /\ cl[d].pc = "push"
                                                  /\ cl[d].b = b /\ cl[d].s = s}}
    \cup {x \in {<<"reg", s>>} : tpc = "reg" /\ tband = b /\ tex = s}
    \cup {x \in {<<"cur", s>>} : cur_cmd_req[b] = s}
SlotConservation ==
    ~corrupt => \A b \in Band : \A s \in Pool(b) :
        \E h \in Holders(b, s) : Holders(b, s) = {h}

\* No wake-up of the share thread is lost: when it sleeps on msg_q_sema with a
\* count of 0, no operation and no message is queued on any band.
NoLostWakeup ==
    tpc = "wait" /\ sema = 0 =>
        \A b \in Band : op_q[b] = <<>> /\ msgs[b] = <<>>

\* While a dispatcher waits for the message its aborted command sent, that
\* message is queued, exactly once, and no other command runs on the band.
AbortMsgs(q) == {i \in DOMAIN q : q[i] = "abort"}
AbortMessageAwaited ==
    \A b \in Band :
        IF WAIT_ABORT[b]
        THEN /\ cur_cmd_req[b] = Null
             /\ \E i \in DOMAIN msgs[b] : AbortMsgs(msgs[b]) = {i}
        ELSE AbortMsgs(msgs[b]) = {}

\* A step never lifts the clearance of a band while the command that was
\* granted exclusive use of it still runs (cmd_token_complete is reached with
\* the command gone).
ClearanceHeld ==
    [][\A b \in Band :
        EXCLUSIVE_USE[b] /\ Dual /\ cur_cmd_req[b] # Null
                         /\ cur_cmd_req'[b] = cur_cmd_req[b]
            => EXCLUSIVE_USE'[b] /\ CLEARANCE'[Other(b)]]_vars

-----------------------------------------------------------------------------
(* What the dispatchers implement                                          *)

Token == INSTANCE TokenSpec WITH
    Request <- Slot,
    NoRequest <- Null,
    holder <- cur_cmd_req,
    right <- {b \in Band : EXCLUSIVE_USE[b]},
    ending <- {b \in Band : WAIT_ABORT[b]}

\* The dispatchers with their queues, semaphores and the unlocked steps of their
\* clients implement TokenSpec: a token is granted on a free band only, never
\* beside the other band's exclusive use or before an awaited abort message, and
\* DISPR_EXCLUSIVE_USE changes hands only when a command is gone.
ImplementsToken == Token!Spec

-----------------------------------------------------------------------------
(* Liveness.  The share thread, each client inside a call and the watchdog   *)
(* timer are scheduled; a granted command sends its last message.            *)

Fairness ==
    /\ WF_vars(~corrupt /\ ThreadStep)
    /\ \A c \in Client : WF_vars(~corrupt /\ ~At(c, "idle") /\ ClientStep(c))
    /\ \A b \in Band : WF_vars(~corrupt /\ SendEnd(b))
    /\ WF_vars(~corrupt /\ Watchdog)

FairSpec == Spec /\ Fairness

\* Every request that a client has added leaves the wait queue of its band and
\* every granted command gives the token back: with the periodic watchdog
\* message, no handshake between the bands is left hanging.
RequestsServed ==
    \A b \in Band, s \in Slot :
        /\ s \in Elems(wait_q[b]) ~> s \notin Elems(wait_q[b])
        /\ cur_cmd_req[b] = s ~> cur_cmd_req[b] # s

-----------------------------------------------------------------------------
(* What the comments and traces of the code say and the code does not keep.  *)

\* "BLOCK!! Exclusive cmd in the other dispr" (dispr_process_token_req): a band
\* is held back only while the other one has an exclusive command (or still
\* waits for the last message of an aborted one).
BlockedByExclusiveCmd ==
    Dual /\ tpc = "proc" /\ token_cnt[tband] = 0 /\ ~WAIT_ABORT[tband]
         /\ CLEARANCE[tband] /\ ~corrupt =>
        LET o == Other(tband)
        IN  \/ WAIT_ABORT[o]
            \/ \E s \in Slot : /\ excl[o][s]
                               /\ s \in Elems(wait_q[o]) \/ cur_cmd_req[o] = s
=============================================================================
