------------------------------- MODULE CmdMsg -------------------------------
(***************************************************************************)
(* Messages of one command dispatcher                                      *)
(* (rtl8852cu-20240510/phl/phl_cmd_dispatcher.c, SHARE_THREAD_MODE).       *)
(*                                                                         *)
(* Any thread sends messages and cancels them by handle.  The share thread *)
(* takes one message per round and shows it to the dispatcher controller,  *)
(* then to the modules of its bitmap, the mandatory ones first (pre        *)
(* phase), then to the same modules the other way round (post phase), last *)
(* to the foreground command that owns the token.  A module may answer     *)
(* MDL_RET_PENDING: the message then waits on msg_pend_q until somebody    *)
(* calls dispr_clr_pending_msg.                                            *)
(*                                                                         *)
(* The token (CmdToken) is kept to what messages see of it: the state of   *)
(* the current request and the queue of token operations.                  *)
(***************************************************************************)
EXTENDS Integers, Sequences, FiniteSets

CONSTANTS
    MaxMsg,         \* bound: MAX_PHL_MSG_NUM, the size of msg_ex_pool
    Module,         \* background modules, as a sequence in module_q order
    Pri,            \* priority of a module: 0 role, 1 optional, 2 mandatory
    Client,         \* threads that call dispr_send_msg / dispr_cancel_msg
    Work,           \* Work[c]: the kinds of message client c sends
    AbortKind,      \* the message an abort callback sends (MSG_OPT_SEND_IN_ABORT)
    PendMdl,        \* modules that may answer MDL_RET_PENDING while busy
    IoEvt, ExclMdl, \* events and sender that pass while DISPR_CANNOT_IO
    MaxSend, MaxReq, MaxPeriod,     \* bounds: sends of a client, commands, busy
                                    \* and CANNOT_IO periods together
    Cancels,        \* TRUE: clients cancel messages
    Fails,          \* TRUE: modules may answer MDL_RET_FAIL
    Stops           \* TRUE: dispr_notify_shall_stop is called

Mdl == {Module[i] : i \in DOMAIN Module}
Src == Mdl \cup {"ctrl", "req"}     \* PHL_MDL_PHY_MGNT, the current command
Option == {"CLR_SNDR", "PEND_IO"}
None == "none"                      \* msg_id 0, MSG_EVT_MAX
Evt == {k.evt : k \in UNION {Work[c] : c \in Client} \cup {AbortKind}}
Kind == [src : Src, evt : Evt, map : SUBSET Mdl, opt : SUBSET Option]

ASSUME BoundAssumption == {MaxMsg, MaxSend, MaxReq, MaxPeriod} \subseteq Nat
ASSUME ModuleAssumption ==
    /\ Module \in Seq(STRING) /\ {"ctrl", "req", None} \cap Mdl = {}
    /\ Pri \in [Mdl -> 0 .. 2]
    /\ PendMdl \subseteq Mdl \cup {"ctrl"}
\* The sender is always in the bitmap of its own message (set_msg_bitmap).
ASSUME WorkAssumption ==
    /\ Work \in [Client -> SUBSET Kind] /\ AbortKind \in Kind
    /\ AbortKind.src = "req" /\ None \notin Evt
    /\ \A c \in Client : \A k \in Work[c] : k.src \in Mdl => k.src \in k.map
ASSUME SwitchAssumption == {Cancels, Fails, Stops} \subseteq BOOLEAN

Slot == 0 .. MaxMsg - 1
Null == -1
SlotOrNull == Slot \cup {Null}
\* enum phl_msg_status; BK and REQ: OWNER_BK_MDL and OWNER_REQ.
Flag == {"ENQ", "RUN", "CANCEL", "PRE", "FAIL", "BK", "REQ", "PENDING",
         "ABORT"} \cup Option
OpType == {"add", "free", "cancel", "renew"}
Caller == {"mdl", "io", "stop"}
\* none, RUN, RUN and CANCEL (token given back), neither, LAST_PERMIT
CurState == {"none", "run", "freed", "stop", "last"}
ThreadPc == {"wait", "clr", "mov", "ops", "drop", "dropmov", "abort", "dropped",
             "grant", "pop", "chk", "ctrl", "chk2", "pre", "chk3", "post",
             "chk4", "req", "pend", "recycle"}
ClientPc == {"idle", "pop", "push", "premap", "postmap", "flag"}

VARIABLES
    status, id, premap, postmap,    \* msg_ex_pool: status, msg_id, bitmaps
    idle_q, wait_q, pend_q,         \* msg_idle_q, msg_wait_q, msg_pend_q
    pending_evt,                    \* mdl_info[].pending_evt_id
    CLR_PEND, WAIT_ABORT, SHALL_STOP, CANNOT_IO,    \* obj->status
    cur, reqs, ops,     \* cur_cmd_req, waiting requests, token_op_q
    sema,               \* disp_eng->msg_q_sema
    tpc, tmsg, notify,  \* share thread: step, message, abort callback due
    cl,                 \* client threads
    busy,               \* the modules of PendMdl answer MDL_RET_PENDING
    callers,            \* callers that are about to clear the pending queue
    left,               \* what is left of the bounds on the environment
    map, seen           \* history: the bitmap as sent, pre phase deliveries

poolVars == <<status, id, premap, postmap, map, seen>>
queueVars == <<idle_q, wait_q, pend_q>>
dispVars == <<CLR_PEND, WAIT_ABORT, SHALL_STOP, CANNOT_IO>>
reqVars == <<cur, reqs, ops>>
envVars == <<busy, callers, left>>
vars == <<status, id, premap, postmap, idle_q, wait_q, pend_q, pending_evt,
          CLR_PEND, WAIT_ABORT, SHALL_STOP, CANNOT_IO, cur, reqs, ops, sema,
          tpc, tmsg, notify, cl, busy, callers, left, map, seen>>

MsgId == [src : Src, evt : Evt]
NoId == [src |-> None, evt |-> None]
SlotMap == [Slot -> SUBSET Mdl]
ClientState == [pc : ClientPc, kind : Kind, s : SlotOrNull, hdl : SlotOrNull,
                last : BOOLEAN, left : Nat]

TypeOK ==
    /\ status \in [Slot -> SUBSET Flag]
    /\ id \in [Slot -> MsgId \cup {NoId}]
    /\ {premap, postmap, map, seen} \subseteq SlotMap
    /\ {idle_q, wait_q, pend_q} \subseteq Seq(Slot)
    /\ pending_evt \in [Src -> Evt \cup {None}]
    /\ {CLR_PEND, WAIT_ABORT, SHALL_STOP, CANNOT_IO} \subseteq BOOLEAN
    /\ cur \in CurState /\ reqs \in Nat /\ ops \in Seq(OpType)
    /\ sema \in Nat
    /\ tpc \in ThreadPc /\ tmsg \in SlotOrNull /\ notify \in BOOLEAN
    /\ cl \in [Client -> ClientState]
    /\ busy \in BOOLEAN /\ callers \subseteq Caller
    /\ left \in [{"req", "period"} -> Nat]

-----------------------------------------------------------------------------
(* Helpers                                                                 *)

Elems(q) == {q[i] : i \in DOMAIN q}
Goto(l) == tpc' = l
Has(s, f) == f \in status[s]
IsCtrl(s) == id[s].src = "ctrl"

\* pq_insert with is_higher_priority: a controller message goes in front of the
\* first message that is not one; the others go to the tail.
Place(q, s) ==
    IF IsCtrl(s)
    THEN LET n == Cardinality({i \in DOMAIN q : \A j \in 1 .. i : IsCtrl(q[j])})
         IN  SubSeq(q, 1, n) \o <<s>> \o SubSeq(q, n + 1, Len(q))
    ELSE Append(q, s)

\* Mutant: every message goes to the tail.
LinkTail(s) ==
    /\ wait_q' = Append(wait_q, s)
    /\ status' = [status EXCEPT ![s] = (@ \cup {"ENQ"}) \ {"RUN"}]
    /\ sema' = sema + 1

\* Mutant: the share thread is not notified.
LinkSilent(s) ==
    /\ wait_q' = Place(wait_q, s)
    /\ status' = [status EXCEPT ![s] = (@ \cup {"ENQ"}) \ {"RUN"}]
    /\ UNCHANGED sema

\* insert_msg_by_priority / push_back_wait_msg, with notify_dispr_thread.
Link(s) ==
    /\ wait_q' = Place(wait_q, s)
    /\ status' = [status EXCEPT ![s] = (@ \cup {"ENQ"}) \ {"RUN"}]
    /\ sema' = sema + 1

\* pop_front_idle_msg and the assignments of dispr_send_msg up to the push.
Fill(s, k, flags) ==
    /\ status' = [status EXCEPT ![s] = flags \cup k.opt]
    /\ id' = [id EXCEPT ![s] = [src |-> k.src, evt |-> k.evt]]
    /\ premap' = [premap EXCEPT ![s] = k.map]
    /\ postmap' = [postmap EXCEPT ![s] = k.map]
    /\ map' = [map EXCEPT ![s] = k.map]

\* push_back_token_op_info; the node of a renewal, and the one that FREE and
\* CANCEL share, are linked once.
Enqueue(op) ==
    LET same == IF op \in {"free", "cancel"} THEN {"free", "cancel"}
                ELSE {op} \cap {"renew"}
    IN  IF same \cap Elems(ops) # {}
        THEN UNCHANGED <<ops, sema>>
        ELSE ops' = Append(ops, op) /\ sema' = sema + 1

\* Mutant: the wait for the abort message is not ended.
RecycleForgetsAbort(s) ==
    /\ idle_q' = Append(idle_q, s)
    /\ status' = [status EXCEPT ![s] = {}]
    /\ id' = [id EXCEPT ![s] = NoId]
    /\ premap' = [premap EXCEPT ![s] = {}]
    /\ postmap' = [postmap EXCEPT ![s] = {}]
    /\ map' = [map EXCEPT ![s] = {}]
    /\ seen' = [seen EXCEPT ![s] = {}]
    /\ UNCHANGED <<pending_evt, WAIT_ABORT, ops, sema>>

\* push_back_idle_msg, on_abort_msg_complete.  (The bitmaps are cleared when
\* the slot is taken again; nobody reads them in between.)
Recycle(s) ==
    /\ idle_q' = Append(idle_q, s)
    /\ status' = [status EXCEPT ![s] = {}]
    /\ id' = [id EXCEPT ![s] = NoId]
    /\ premap' = [premap EXCEPT ![s] = {}]
    /\ postmap' = [postmap EXCEPT ![s] = {}]
    /\ map' = [map EXCEPT ![s] = {}]
    /\ seen' = [seen EXCEPT ![s] = {}]
    /\ pending_evt' = [x \in Src |-> IF x = id[s].src /\ pending_evt[x] = id[s].evt
                                     THEN None ELSE pending_evt[x]]
    /\ IF Has(s, "ABORT") THEN WAIT_ABORT' = FALSE /\ Enqueue("renew")
                          ELSE UNCHANGED <<WAIT_ABORT, ops, sema>>

\* cur_req_hdl: the running command looks at the message and may give its token
\* back (dispr_free_token).
CurReqHdl(s) ==
    \/ UNCHANGED <<cur, ops, sema>>
    \/ /\ cur = "run" /\ ~Has(s, "ABORT")
       /\ cur' = "freed"
       /\ Enqueue("free")

\* The order in which a phase visits the modules: by priority, within one the
\* sender first, then along the module queue; backwards in the post phase.
Place0(m) == CHOOSE i \in DOMAIN Module : Module[i] = m
Before(m, n, own, pre) ==
    IF Pri[m] # Pri[n] THEN IF pre THEN Pri[m] > Pri[n] ELSE Pri[m] < Pri[n]
    ELSE \/ m = own /\ n # own
         \/ n # own /\ m # own /\ IF pre THEN Place0(m) < Place0(n)
                                         ELSE Place0(m) > Place0(n)
First(ms, own, pre) ==
    CHOOSE m \in ms : \A n \in ms \ {m} : Before(m, n, own, pre)

-----------------------------------------------------------------------------
(* The share thread: pending messages and token operations                 *)

\* Mutant: the thread does not wait on the semaphore.
ThreadWakeNoWait ==
    /\ tpc = "wait"
    /\ sema' = sema - 1
    /\ Goto("clr")
    /\ UNCHANGED <<poolVars, queueVars, pending_evt, dispVars, reqVars, tmsg,
                   notify, cl, envVars>>

\* share_thread_hdl: sema_down.
ThreadWake ==
    /\ tpc = "wait" /\ sema > 0
    /\ sema' = sema - 1
    /\ Goto("clr")
    /\ UNCHANGED <<poolVars, queueVars, pending_evt, dispVars, reqVars, tmsg,
                   notify, cl, envVars>>

\* clear_pending_msg: test and clear the flag, then move every message back.
ClearTest ==
    /\ tpc = "clr"
    /\ CLR_PEND' = FALSE
    /\ Goto(IF CLR_PEND THEN "mov" ELSE "ops")
    /\ UNCHANGED <<poolVars, queueVars, pending_evt, WAIT_ABORT, SHALL_STOP,
                   CANNOT_IO, reqVars, sema, tmsg, notify, cl, envVars>>

ClearMove ==
    /\ tpc \in {"mov", "dropmov"}
    /\ IF pend_q # <<>>
       THEN /\ pend_q' = Tail(pend_q)
            /\ Link(Head(pend_q))
            /\ UNCHANGED tpc
       ELSE /\ Goto(IF tpc = "mov" THEN "ops" ELSE "abort")
            /\ UNCHANGED <<pend_q, wait_q, status, sema>>
    /\ UNCHANGED <<id, premap, postmap, map, seen, idle_q, pending_evt,
                   dispVars, reqVars, tmsg, notify, cl, envVars>>

\* token_op_hanler, _handle_token_op_info.
TokenOp ==
    /\ tpc = "ops"
    /\ IF ops = <<>>
       THEN Goto("pop") /\ UNCHANGED <<ops, notify>>
       ELSE /\ ops' = Tail(ops)
            /\ IF Head(ops) \in {"add", "renew"}
               THEN Goto("grant") /\ UNCHANGED notify
               ELSE IF cur = "none" THEN UNCHANGED <<tpc, notify>>
               ELSE Goto("drop") /\ notify' = (Head(ops) = "cancel")
    /\ UNCHANGED <<poolVars, queueVars, pending_evt, dispVars, cur, reqs, sema,
                   tmsg, cl, envVars>>

\* dispr_process_token_req, register_cur_cmd_req.
Grant ==
    /\ tpc = "grant"
    /\ IF reqs > 0 /\ cur = "none" /\ ~WAIT_ABORT /\ ~SHALL_STOP
       THEN cur' = "run" /\ reqs' = reqs - 1
       ELSE UNCHANGED <<cur, reqs>>
    /\ Goto("ops")
    /\ UNCHANGED <<poolVars, queueVars, pending_evt, dispVars, ops, sema, tmsg,
                   notify, cl, envVars>>

\* deregister_cur_cmd_req: cancel_msg for every message of the command; the
\* pending queue is emptied when one of them was pending.
OfCommand == {s \in Slot : id[s].src = "req"}

Drop ==
    LET pended == {s \in OfCommand : Has(s, "PENDING")}
    IN  /\ tpc = "drop"
        /\ cur' = "stop"
        /\ status' = [s \in Slot |->
               IF s \in OfCommand THEN (status[s] \ {"REQ"}) \cup {"CANCEL"}
                                  ELSE status[s]]
        /\ premap' = [s \in Slot |-> IF s \in OfCommand THEN {} ELSE premap[s]]
        /\ postmap' = [s \in Slot |-> IF s \in OfCommand THEN {} ELSE postmap[s]]
        /\ sema' = sema + Cardinality(pended)
        /\ IF pended # {} THEN CLR_PEND' = FALSE /\ Goto("dropmov")
                          ELSE UNCHANGED CLR_PEND /\ Goto("abort")
    /\ UNCHANGED <<id, map, seen, queueVars, pending_evt, WAIT_ABORT,
                   SHALL_STOP, CANNOT_IO, reqs, ops, tmsg, notify, cl, envVars>>

\* With LAST_PERMIT set the abort callback runs and may send one last message.
AbortStart ==
    /\ tpc = "abort"
    /\ \/ notify /\ cur = "stop" /\ cur' = "last" /\ UNCHANGED tpc
       \/ (notify => cur = "last") /\ cur' = "stop" /\ Goto("dropped")
    /\ UNCHANGED <<poolVars, queueVars, pending_evt, dispVars, reqs, ops, sema,
                   tmsg, notify, cl, envVars>>

AbortSend ==
    LET s == Head(idle_q)
        flags == {"REQ", "PRE", "ABORT", "ENQ"}
    IN  /\ tpc = "abort" /\ cur = "last" /\ idle_q # <<>> /\ ~SHALL_STOP
        /\ Fill(s, AbortKind, flags)
        /\ idle_q' = Tail(idle_q)
        /\ wait_q' = Append(wait_q, s)
        /\ sema' = sema + 1
        /\ WAIT_ABORT' = TRUE
        /\ cur' = "stop"
        /\ Goto("dropped")
        /\ UNCHANGED <<seen, pend_q, pending_evt, CLR_PEND, SHALL_STOP,
                       CANNOT_IO, reqs, ops, tmsg, notify, cl, envVars>>

\* push_back_idle_req of the command.
Dropped ==
    /\ tpc = "dropped"
    /\ cur' = "none"
    /\ pending_evt' = [pending_evt EXCEPT !["req"] = None]
    /\ notify' = FALSE
    /\ Goto("grant")
    /\ UNCHANGED <<poolVars, queueVars, dispVars, reqs, ops, sema, tmsg, cl,
                   envVars>>

-----------------------------------------------------------------------------
(* The share thread: one message per round                                 *)

\* Mutant: a message that was pending resumes with the post phase.
PopWaitResumesPost ==
    /\ tpc = "pop"
    /\ IF wait_q = <<>>
       THEN Goto("wait") /\ UNCHANGED <<wait_q, tmsg, status>>
       ELSE LET s == Head(wait_q)
                done == IF Has(s, "PENDING") THEN {"PRE"} ELSE {}
            IN  /\ wait_q' = Tail(wait_q)
                /\ tmsg' = s
                /\ status' = [status EXCEPT ![s] =
                                 (@ \cup {"RUN"}) \ ({"ENQ", "PENDING"} \cup done)]
                /\ Goto("chk")
    /\ UNCHANGED <<id, premap, postmap, map, seen, idle_q, pend_q, pending_evt,
                   dispVars, reqVars, sema, notify, cl, envVars>>

\* pop_front_wait_msg
PopWait ==
    /\ tpc = "pop"
    /\ IF wait_q = <<>>
       THEN Goto("wait") /\ UNCHANGED <<wait_q, tmsg, status>>
       ELSE LET s == Head(wait_q)
            IN  /\ wait_q' = Tail(wait_q)
                /\ tmsg' = s
                /\ status' = [status EXCEPT ![s] =
                                 (@ \cup {"RUN"}) \ {"ENQ", "PENDING"}]
                /\ Goto("chk")
    /\ UNCHANGED <<id, premap, postmap, map, seen, idle_q, pend_q, pending_evt,
                   dispVars, reqVars, sema, notify, cl, envVars>>

\* Mutant: the sender is heard again as soon as nothing is parked.
SupersededWhileParked(s) ==
    pend_q # <<>> /\ pending_evt[id[s].src] \notin {None, id[s].evt}

\* is_msg_canceled, is_special_msg and the first MSG_REDIRECT_CHK.
Superseded(s) == pending_evt[id[s].src] \notin {None, id[s].evt}
Special(s) == id[s].src = ExclMdl \/ id[s].evt \in IoEvt

CheckCancelled ==
    LET s == tmsg
        barred == CANNOT_IO /\ ~Special(s)
        cancel == \/ Has(s, "CANCEL") \/ Superseded(s) \/ SHALL_STOP
                  \/ barred /\ ~Has(s, "PEND_IO")
    IN  /\ tpc = "chk"
        /\ status' = [status EXCEPT ![s] =
               @ \cup (IF cancel THEN {"CANCEL"}
                       ELSE IF barred THEN {"PENDING"} ELSE {})]
        /\ Goto(IF cancel THEN "recycle" ELSE IF barred THEN "pend" ELSE "ctrl")
        /\ UNCHANGED <<id, premap, postmap, map, seen, queueVars, pending_evt,
                       dispVars, reqVars, sema, tmsg, notify, cl, envVars>>

\* feed_mdl_msg, the outcomes MDL_RET_FAIL and MDL_RET_PENDING; on a failure
\* notify_msg_fail tells the sender.
FeedFails(s) ==
    /\ Fails
    /\ status' = [status EXCEPT ![s] = @ \cup {"FAIL"}]
    /\ IF Has(s, "REQ") THEN CurReqHdl(s) ELSE UNCHANGED <<cur, ops, sema>>
    /\ Goto("recycle")

FeedPends(s, m) ==
    /\ busy /\ m \in PendMdl
    /\ status' = [status EXCEPT ![s] = @ \cup {"PENDING"}]
    /\ Goto("pend")
    /\ UNCHANGED <<cur, ops, sema>>

\* _notify_dispr_controller
Controller ==
    /\ tpc = "ctrl"
    /\ \/ FeedFails(tmsg)
       \/ FeedPends(tmsg, "ctrl")
       \/ Goto("chk2") /\ UNCHANGED <<status, cur, ops, sema>>
    /\ UNCHANGED <<id, premap, postmap, map, seen, queueVars, pending_evt,
                   dispVars, reqs, tmsg, notify, cl, envVars>>

\* msg_dispatch: MSG_REDIRECT_CHK, then the phase the message is in.  With an
\* empty premap the local bitmap stays the (empty) premap: no post phase.
Redirect2 ==
    /\ tpc = "chk2"
    /\ Goto(IF Has(tmsg, "CANCEL") THEN "recycle"
            ELSE IF ~Has(tmsg, "PRE") THEN "post"
            ELSE IF premap[tmsg] = {} THEN "chk4" ELSE "pre")
    /\ UNCHANGED <<poolVars, queueVars, pending_evt, dispVars, reqVars, sema,
                   tmsg, notify, cl, envVars>>

\* msg_pre_phase_hdl, one module at a time.
PrePhase ==
    LET m == First(premap[tmsg], id[tmsg].src, TRUE)
    IN  /\ tpc = "pre"
        /\ IF premap[tmsg] = {}
           THEN Goto("chk3") /\ UNCHANGED <<status, premap, seen, cur, ops, sema>>
           ELSE \/ (FeedFails(tmsg) \/ FeedPends(tmsg, m)) /\ UNCHANGED <<premap, seen>>
                \/ /\ premap' = [premap EXCEPT ![tmsg] = @ \ {m}]
                   /\ seen' = [seen EXCEPT ![tmsg] = @ \cup {m}]
                   /\ UNCHANGED <<tpc, status, cur, ops, sema>>
        /\ UNCHANGED <<id, postmap, map, queueVars, pending_evt, dispVars, reqs,
                       tmsg, notify, cl, envVars>>

\* "pre protocol phase done, switch to post protocol phase"
Redirect3 ==
    /\ tpc = "chk3"
    /\ IF Has(tmsg, "CANCEL")
       THEN Goto("recycle") /\ UNCHANGED status
       ELSE Goto("post") /\ status' = [status EXCEPT ![tmsg] = @ \ {"PRE"}]
    /\ UNCHANGED <<id, premap, postmap, map, seen, queueVars, pending_evt,
                   dispVars, reqVars, sema, tmsg, notify, cl, envVars>>

\* msg_post_phase_hdl
PostPhase ==
    LET m == First(postmap[tmsg], id[tmsg].src, FALSE)
    IN  /\ tpc = "post"
        /\ IF postmap[tmsg] = {}
           THEN Goto("chk4") /\ UNCHANGED <<status, postmap, cur, ops, sema>>
           ELSE \/ (FeedFails(tmsg) \/ FeedPends(tmsg, m)) /\ UNCHANGED postmap
                \/ /\ postmap' = [postmap EXCEPT ![tmsg] = @ \ {m}]
                   /\ UNCHANGED <<tpc, status, cur, ops, sema>>
        /\ UNCHANGED <<id, premap, map, seen, queueVars, pending_evt, dispVars,
                       reqs, tmsg, notify, cl, envVars>>

Redirect4 ==
    /\ tpc = "chk4"
    /\ Goto(IF Has(tmsg, "CANCEL") THEN "recycle" ELSE "req")
    /\ UNCHANGED <<poolVars, queueVars, pending_evt, dispVars, reqVars, sema,
                   tmsg, notify, cl, envVars>>

Request ==
    /\ tpc = "req"
    /\ CurReqHdl(tmsg)
    /\ Goto("recycle")
    /\ UNCHANGED <<poolVars, queueVars, pending_evt, dispVars, reqs, tmsg,
                   notify, cl, envVars>>

\* MSG_REDIRECT_CHK once more, then push_back_pending_msg.
PushPending ==
    /\ tpc = "pend"
    /\ IF Has(tmsg, "CANCEL")
       THEN Goto("recycle") /\ UNCHANGED <<status, pending_evt, pend_q, tmsg>>
       ELSE /\ status' = [status EXCEPT ![tmsg] = (@ \cup {"ENQ"}) \ {"RUN"}]
            /\ pending_evt' = IF Has(tmsg, "CLR_SNDR")
                              THEN [pending_evt EXCEPT ![id[tmsg].src] = id[tmsg].evt]
                              ELSE pending_evt
            /\ pend_q' = Append(pend_q, tmsg)
            /\ tmsg' = Null
            /\ Goto("wait")
    /\ UNCHANGED <<id, premap, postmap, map, seen, idle_q, wait_q, dispVars,
                   reqVars, sema, notify, cl, envVars>>

RecycleMsg ==
    /\ tpc = "recycle"
    /\ Recycle(tmsg)
    /\ tmsg' = Null
    /\ Goto("wait")
    /\ UNCHANGED <<wait_q, pend_q, CLR_PEND, SHALL_STOP, CANNOT_IO, cur, reqs,
                   notify, cl, envVars>>

ThreadStep ==
    \/ ThreadWake \/ ClearTest \/ ClearMove \/ TokenOp \/ Grant \/ Drop
    \/ AbortStart \/ AbortSend \/ Dropped \/ PopWait \/ CheckCancelled
    \/ Controller \/ Redirect2 \/ PrePhase \/ Redirect3 \/ PostPhase
    \/ Redirect4 \/ Request \/ PushPending \/ RecycleMsg

-----------------------------------------------------------------------------
(* The client threads                                                      *)

At(c, l) == cl[c].pc = l
Step(c, l) == cl' = [cl EXCEPT ![c].pc = l]

\* dispr_send_msg: the tests.  The state of the current request is read once;
\* LAST_PERMIT lets a foreign thread pass, too.
SendCheck(c, k) ==
    /\ At(c, "idle") /\ cl[c].left > 0 /\ ~SHALL_STOP
    /\ k.src = "req" => cur \in {"run", "last"}
    /\ cl' = [cl EXCEPT ![c].pc = "pop", ![c].kind = k, ![c].left = @ - 1,
                        ![c].last = k.src = "req" /\ cur = "last"]
    /\ UNCHANGED <<poolVars, queueVars, pending_evt, dispVars, reqVars, sema,
                   tpc, tmsg, notify, envVars>>

\* pop_front_idle_msg and the assignments; an empty pool ends the call.
SendFill(c) ==
    LET s == Head(idle_q)
        k == cl[c].kind
        flags == {"PRE", IF k.src = "req" THEN "REQ" ELSE "BK"}
    IN  /\ At(c, "pop")
        /\ IF idle_q = <<>>
           THEN /\ Step(c, "idle")
                /\ UNCHANGED <<status, id, premap, postmap, map, idle_q>>
           ELSE /\ Fill(s, k, flags)
                /\ idle_q' = Tail(idle_q)
                /\ cl' = [cl EXCEPT ![c].pc = "push", ![c].s = s]
        /\ UNCHANGED <<seen, wait_q, pend_q, pending_evt, dispVars, reqVars,
                       sema, tpc, tmsg, notify, envVars>>

\* Mutant: the refused message is not given back.
SendPushLeak(c) ==
    /\ At(c, "push")
    /\ IF cl[c].last
       THEN /\ cl' = [cl EXCEPT ![c].pc = "idle", ![c].s = Null, ![c].last = FALSE]
            /\ UNCHANGED <<wait_q, status, sema>>
       ELSE /\ Link(cl[c].s)
            /\ cl' = [cl EXCEPT ![c].pc = "idle", ![c].s = Null,
                                ![c].hdl = cl[c].s]
    /\ UNCHANGED <<id, premap, postmap, map, seen, idle_q, pending_evt,
                   WAIT_ABORT, ops, pend_q, CLR_PEND, SHALL_STOP, CANNOT_IO,
                   cur, reqs, tpc, tmsg, notify, envVars>>

\* "msg not allow since cur req is going to unload", or the push.
SendPush(c) ==
    /\ At(c, "push")
    /\ IF cl[c].last
       THEN /\ Recycle(cl[c].s)
            /\ cl' = [cl EXCEPT ![c].pc = "idle", ![c].s = Null, ![c].last = FALSE]
            /\ UNCHANGED wait_q
       ELSE /\ Link(cl[c].s)
            /\ cl' = [cl EXCEPT ![c].pc = "idle", ![c].s = Null,
                                ![c].hdl = cl[c].s]
            /\ UNCHANGED <<id, premap, postmap, map, seen, idle_q, pending_evt,
                           WAIT_ABORT, ops>>
    /\ UNCHANGED <<pend_q, CLR_PEND, SHALL_STOP, CANNOT_IO, cur, reqs, tpc,
                   tmsg, notify, envVars>>

\* dispr_cancel_msg.  The handle names a slot, which may hold another message
\* by now.
CancelCheck(c) ==
    /\ Cancels
    /\ At(c, "idle") /\ cl[c].hdl # Null
    /\ IF status[cl[c].hdl] \cap {"ENQ", "RUN"} # {}
       THEN Step(c, "premap")
       ELSE cl' = [cl EXCEPT ![c].hdl = Null]
    /\ UNCHANGED <<poolVars, queueVars, pending_evt, dispVars, reqVars, sema,
                   tpc, tmsg, notify, envVars>>

\* cancel_msg: both bitmaps, then the flag.
CancelPremap(c) ==
    /\ At(c, "premap")
    /\ premap' = [premap EXCEPT ![cl[c].hdl] = {}]
    /\ Step(c, "postmap")
    /\ UNCHANGED <<status, id, postmap, map, seen, queueVars, pending_evt,
                   dispVars, reqVars, sema, tpc, tmsg, notify, envVars>>

CancelPostmap(c) ==
    /\ At(c, "postmap")
    /\ postmap' = [postmap EXCEPT ![cl[c].hdl] = {}]
    /\ Step(c, "flag")
    /\ UNCHANGED <<status, id, premap, map, seen, queueVars, pending_evt,
                   dispVars, reqVars, sema, tpc, tmsg, notify, envVars>>

CancelFlag(c) ==
    /\ At(c, "flag")
    /\ status' = [status EXCEPT ![cl[c].hdl] = @ \cup {"CANCEL"}]
    /\ cl' = [cl EXCEPT ![c].pc = "idle", ![c].hdl = Null]
    /\ UNCHANGED <<id, premap, postmap, map, seen, queueVars, pending_evt,
                   dispVars, reqVars, sema, tpc, tmsg, notify, envVars>>

ClientStep(c) ==
    \/ \E k \in Work[c] : SendCheck(c, k)
    \/ SendFill(c) \/ SendPush(c)
    \/ CancelCheck(c) \/ CancelPremap(c) \/ CancelPostmap(c) \/ CancelFlag(c)

-----------------------------------------------------------------------------
(* Token requests, busy modules, I/O status, the coming stop               *)

msgVars == <<poolVars, queueVars, pending_evt, tpc, tmsg, notify, cl>>

\* dispr_add_token_req; CmdToken has its steps.
AddReq ==
    /\ left["req"] > 0 /\ ~SHALL_STOP
    /\ reqs' = reqs + 1
    /\ left' = [left EXCEPT !["req"] = @ - 1]
    /\ Enqueue("add")
    /\ UNCHANGED <<msgVars, dispVars, cur, busy, callers>>

\* dispr_cancel_token_req of the running command.
CancelReq ==
    /\ cur \in {"run", "freed"}
    /\ {"free", "cancel"} \cap Elems(ops) = {}
    /\ Enqueue("cancel")
    /\ UNCHANGED <<msgVars, dispVars, cur, reqs, envVars>>

\* A module starts to answer MDL_RET_PENDING (recovery, a power transition) and
\* stops to; then it calls dispr_clr_pending_msg.
MdlBusy ==
    /\ ~busy /\ left["period"] > 0
    /\ busy' = TRUE
    /\ left' = [left EXCEPT !["period"] = @ - 1]
    /\ UNCHANGED <<msgVars, dispVars, reqVars, sema, callers>>

MdlReady ==
    /\ busy
    /\ busy' = FALSE
    /\ callers' = callers \cup {"mdl"}
    /\ UNCHANGED <<msgVars, dispVars, reqVars, sema, left>>

\* dispr_notify_dev_io_status.  The message it sends is one of Work's.
CannotIo ==
    /\ ~CANNOT_IO /\ left["period"] > 0
    /\ CANNOT_IO' = TRUE
    /\ left' = [left EXCEPT !["period"] = @ - 1]
    /\ UNCHANGED <<msgVars, CLR_PEND, WAIT_ABORT, SHALL_STOP, reqVars, sema,
                   busy, callers>>

ResumeIo ==
    /\ CANNOT_IO
    /\ CANNOT_IO' = FALSE
    /\ callers' = callers \cup {"io"}
    /\ UNCHANGED <<msgVars, CLR_PEND, WAIT_ABORT, SHALL_STOP, reqVars, sema,
                   busy, left>>

\* dispr_notify_shall_stop
ShallStop ==
    /\ Stops /\ ~SHALL_STOP
    /\ SHALL_STOP' = TRUE
    /\ callers' = callers \cup {"stop"}
    /\ UNCHANGED <<msgVars, CLR_PEND, WAIT_ABORT, CANNOT_IO, reqVars, sema,
                   busy, left>>

\* Mutant: nothing is done when nothing is pending yet.
ClrPendingIfAny ==
    \E w \in callers :
        /\ callers' = callers \ {w}
        /\ IF pend_q = <<>> THEN UNCHANGED <<CLR_PEND, sema>>
                            ELSE CLR_PEND' = TRUE /\ sema' = sema + 1
        /\ UNCHANGED <<msgVars, WAIT_ABORT, SHALL_STOP, CANNOT_IO, reqVars,
                       busy, left>>

\* dispr_clr_pending_msg
ClrPending ==
    \E w \in callers :
        /\ callers' = callers \ {w}
        /\ CLR_PEND' = TRUE
        /\ sema' = sema + 1
        /\ UNCHANGED <<msgVars, WAIT_ABORT, SHALL_STOP, CANNOT_IO, reqVars,
                       busy, left>>

EnvStep ==
    \/ AddReq \/ CancelReq \/ MdlBusy \/ MdlReady \/ CannotIo \/ ResumeIo
    \/ ShallStop \/ ClrPending

\* The state after dispr_start.
Init ==
    /\ status = [s \in Slot |-> {}] /\ id = [s \in Slot |-> NoId]
    /\ premap = [s \in Slot |-> {}] /\ postmap = [s \in Slot |-> {}]
    /\ map = [s \in Slot |-> {}] /\ seen = [s \in Slot |-> {}]
    /\ idle_q = [i \in 1 .. MaxMsg |-> i - 1] /\ wait_q = <<>> /\ pend_q = <<>>
    /\ pending_evt = [x \in Src |-> None]
    /\ CLR_PEND = FALSE /\ WAIT_ABORT = FALSE
    /\ SHALL_STOP = FALSE /\ CANNOT_IO = FALSE
    /\ cur = "none" /\ reqs = 0 /\ ops = <<>>
    /\ sema = 0
    /\ tpc = "wait" /\ tmsg = Null /\ notify = FALSE
    /\ cl = [c \in Client |-> [pc |-> "idle", kind |-> AbortKind, s |-> Null,
                               hdl |-> Null, last |-> FALSE, left |-> MaxSend]]
    /\ busy = FALSE /\ callers = {}
    /\ left = [x \in {"req", "period"} |->
                  IF x = "req" THEN MaxReq ELSE MaxPeriod]

Next ==
    \/ ThreadStep
    \/ \E c \in Client : ClientStep(c)
    \/ EnvStep

Spec == Init /\ [][Next]_vars

-----------------------------------------------------------------------------
(* Properties                                                              *)

\* Every slot of msg_ex_pool is in exactly one place: a queue, the client that
\* fills it, or the share thread that dispatches it.  No interleaving of
\* sends, pendings, cancels and command aborts loses or doubles a message.
Places(s) ==
    LET q == idle_q \o wait_q \o pend_q
    IN  {<<"queue", i>> : i \in {j \in DOMAIN q : q[j] = s}}
        \cup {<<"client", c>> : c \in {d \in Client : cl[d].s = s}}
        \cup {x \in {<<"thread", 0>>} : tmsg = s}
MsgConservation == \A s \in Slot : Cardinality(Places(s)) = 1

\* DISPR_WAIT_ABORT_MSG_DONE is set exactly while the one message of an abort
\* callback is under way, and no command runs meanwhile: neither a cancel nor
\* the stop notice can make the next command wait for a message that is gone.
AbortBarrier ==
    LET last == {s \in Slot : Has(s, "ABORT")}
    IN  IF WAIT_ABORT THEN Cardinality(last) = 1 /\ cur \in {"stop", "none"}
                      ELSE last = {}

\* A message reaches the foreground command only when every module of the
\* bitmap it was sent with has seen it in both phases, and a module sees the
\* post phase only after the pre phase, however often the message was pending
\* in between.
DeliveredToAll ==
    /\ tpc = "post" => postmap[tmsg] \subseteq seen[tmsg]
    /\ tpc = "req" => seen[tmsg] = map[tmsg] /\ postmap[tmsg] = {}

\* No wake-up is lost: when the share thread sleeps with a count of 0, nothing
\* is queued and no request to clear the pending queue is open.
NoLostWakeup ==
    tpc = "wait" /\ sema = 0 => wait_q = <<>> /\ ops = <<>> /\ ~CLR_PEND

\* No message is stranded on msg_pend_q: as long as one is there (or on its way
\* there), what it waits for still lasts or somebody has called or is about to
\* call dispr_clr_pending_msg.  The end of the condition may fall between the
\* answer MDL_RET_PENDING and push_back_pending_msg.
NoStrandedPending ==
    pend_q # <<>> \/ tpc = "pend" =>
        busy \/ CANNOT_IO \/ callers # {} \/ CLR_PEND \/ tpc \in {"mov", "dropmov"}

\* Controller messages overtake the others on the wait queue, also when they
\* come back from the pending queue.
CtrlFirst ==
    \A i, j \in DOMAIN wait_q : i < j /\ IsCtrl(wait_q[j]) => IsCtrl(wait_q[i])

\* MSG_OPT_CLR_SNDR_MSG_IF_PENDING: while such a message is pending, or back on
\* the wait queue because of it, no later event of its sender is dispatched.
Dispatching == {"ctrl", "chk2", "pre", "chk3", "post", "chk4", "req"}
SenderSilenced ==
    \A s \in Slot \ {tmsg} :
        /\ tpc \in Dispatching
        /\ {"PENDING", "CLR_SNDR"} \subseteq status[s] /\ ~Has(s, "CANCEL")
        => id[s].src # id[tmsg].src \/ id[s].evt = id[tmsg].evt

-----------------------------------------------------------------------------
(* Liveness.  The share thread and a client inside a call are scheduled; a  *)
(* busy module gets ready, I/O resumes, and their callers clear the queue.  *)

Fairness ==
    /\ WF_vars(ThreadStep)
    /\ \A c \in Client : WF_vars(~At(c, "idle") /\ ClientStep(c))
    /\ WF_vars(MdlReady) /\ WF_vars(ResumeIo) /\ WF_vars(ClrPending)

FairSpec == Spec /\ Fairness

\* Every message that was accepted is answered: it leaves the queues and its
\* slot becomes free, through pending periods, aborts and the coming stop.
Answered == \A s \in Slot : Has(s, "ENQ") ~> s \in Elems(idle_q)

-----------------------------------------------------------------------------
(* What the comments of the code say and the code does not keep.            *)

\* "would guarantee msg sent in abort notify is exactly last msg from this
\* sender" (deregister_cur_cmd_req): behind that message there is none of the
\* command, cancelled ones apart.
AbortMessageLast ==
    \A i, j \in DOMAIN wait_q :
        i < j /\ Has(wait_q[i], "ABORT")
            => id[wait_q[j]].src # "req" \/ Has(wait_q[j], "CANCEL")
=============================================================================
