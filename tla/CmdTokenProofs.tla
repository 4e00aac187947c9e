--------------------------- MODULE CmdTokenProofs ---------------------------
(* Proofs about CmdToken, for every number of slots, clients and messages. *)
EXTENDS CmdToken, SequenceTheorems, TLAPS

-----------------------------------------------------------------------------
(* Type correctness                                                        *)

\* A client inside a call holds the slot it works on.
ClientHasSlot == \A c \in Client : cl[c].pc # "idle" => cl[c].s \in Slot

\* The share thread registers a request it has popped.
PoppedHasSlot == tpc = "reg" => tex \in Slot

TypeInv == TypeOK /\ ClientHasSlot /\ PoppedHasSlot

\* Slots are numbers; Null is none of them.
LEMMA SlotNumbers == Slot \subseteq Nat /\ Null \notin Slot
<1>1. ASSUME NEW b \in Band, NEW s \in Pool(b) PROVE s \in Nat
  BY BoundAssumption DEF Pool
<1>2. Slot \subseteq Nat
  BY <1>1 DEF Slot
<1> QED
  BY <1>2 DEF Null

LEMMA TypeInit == Init => TypeInv
<1> SUFFICES ASSUME Init PROVE TypeInv
  OBVIOUS
<1> USE DEF Init
<1>1. Slot \in SUBSET Int /\ 0 \in Band /\ Null \in SlotOrNull
  BY BandAssumption, SlotNumbers DEF SlotOrNull
<1>2. /\ status \in [Band -> [Slot -> SUBSET Flag]]
      /\ excl \in [Band -> [Slot -> BOOLEAN]]
  OBVIOUS
<1>3. ASSUME NEW b \in Band PROVE [i \in 1 .. MaxReq[b] |-> i - 1] \in Seq(Slot)
  <2>1. PICK n \in Nat : n = MaxReq[b]
    BY BoundAssumption
  <2>2. ASSUME NEW i \in 1 .. n PROVE i - 1 \in Slot
    <3>1. i - 1 \in Pool(b)
      BY <2>1 DEF Pool
    <3> QED
      BY <3>1 DEF Slot
  <2>3. [i \in 1 .. n |-> i - 1] \in [1 .. n -> Slot]
    BY <2>2
  <2> QED
    BY <2>1, <2>3, SeqDef
<1>4. /\ idle_q \in [Band -> Seq(Slot)] /\ wait_q \in [Band -> Seq(Slot)]
      /\ op_q \in [Band -> Seq(Op)] /\ msgs \in [Band -> Seq(MsgKind)]
  BY <1>3, EmptySeq
<1>5. /\ used \in [Band -> SUBSET Info] /\ token_cnt \in [Band -> Int]
      /\ cur_cmd_req \in [Band -> SlotOrNull]
      /\ CLEARANCE \in [Band -> BOOLEAN] /\ EXCLUSIVE_USE \in [Band -> BOOLEAN]
      /\ WAIT_ABORT \in [Band -> BOOLEAN] /\ NOTIFY_IDLE \in [Band -> BOOLEAN]
  BY <1>1 DEF Dual
<1>6. /\ sema \in Nat /\ tpc \in ThreadPc /\ tband \in Band /\ top \in Op
      /\ tex \in SlotOrNull /\ corrupt \in BOOLEAN
  BY <1>1 DEF ThreadPc, FirstBand, Op
<1>7. cl \in [Client -> ClientState]
  BY <1>1, BoundAssumption DEF ClientState, ClientPc
<1>8. ClientHasSlot /\ PoppedHasSlot
  BY DEF ClientHasSlot, PoppedHasSlot
<1> QED
  BY <1>2, <1>4, <1>5, <1>6, <1>7, <1>8 DEF TypeInv, TypeOK

\* The parts of TypeOK that the queueing helpers change.
OpTypes == /\ op_q \in [Band -> Seq(Op)]
           /\ used \in [Band -> SUBSET Info]
           /\ sema \in Nat
           /\ corrupt \in BOOLEAN
ClearTypes == /\ CLEARANCE \in [Band -> BOOLEAN]
              /\ EXCLUSIVE_USE \in [Band -> BOOLEAN]

LEMMA OpFacts ==
    /\ NoOp \in Op /\ Renew \in Info
    /\ \A op \in Op : op.info \in Info
    /\ \A s \in Slot : /\ [info |-> <<"add", s>>, type |-> "ADD"] \in Op
                       /\ [info |-> <<"free", s>>, type |-> "FREE"] \in Op
                       /\ [info |-> <<"free", s>>, type |-> "CANCEL"] \in Op
    /\ \A op \in Op : op.type \in {"FREE", "CANCEL"} => op.info[2] \in Slot
BY DEF Op, NoOp, Info, Renew

LEMMA EnqueueType ==
    ASSUME TypeOK, NEW b \in Band, NEW op \in Op, Enqueue(b, op)
    PROVE  OpTypes'
<1>1. op.info \in Info
  BY OpFacts
<1>2. CASE op.info \in used[b]
  BY <1>2 DEF Enqueue, OpTypes, TypeOK
<1>3. CASE op.info \notin used[b]
  <2>1. op_q' = [op_q EXCEPT ![b] = Append(op_q[b], op)] /\ Append(op_q[b], op) \in Seq(Op)
    BY <1>3, AppendProperties DEF Enqueue, TypeOK
  <2>2. used' = [used EXCEPT ![b] = used[b] \cup {op.info}] /\ sema' = sema + 1
    BY <1>3 DEF Enqueue
  <2>3. corrupt' \in BOOLEAN
    BY <1>3 DEF Enqueue, Queued
  <2> QED
    BY <1>1, <2>1, <2>2, <2>3 DEF OpTypes, TypeOK
<1> QED
  BY <1>2, <1>3

LEMMA EnqueueRenewType ==
    ASSUME TypeOK, NEW B, EnqueueRenew(B)
    PROVE  OpTypes'
BY OpFacts, AppendProperties DEF EnqueueRenew, OpTypes, TypeOK, Queued

LEMMA CmdTokenCompleteType ==
    ASSUME TypeOK, NEW b \in Band, NEW B, CmdTokenComplete(b, B)
    PROVE  OpTypes' /\ ClearTypes'
<1>1. OpTypes'
  BY EnqueueRenewType DEF CmdTokenComplete
<1>2. ClearTypes'
  BY DEF CmdTokenComplete, ClearTypes, TypeOK
<1> QED
  BY <1>1, <1>2

LEMMA ExclusiveReadyType ==
    ASSUME TypeOK, NEW o \in Int, ExclusiveReady(o)
    PROVE  OpTypes' /\ EXCLUSIVE_USE' \in [Band -> BOOLEAN]
<1>1. OpTypes'
  <2>1. CASE o \in Band /\ ~EXCLUSIVE_USE[o]
    BY <2>1, EnqueueRenewType DEF ExclusiveReady
  <2>2. CASE ~(o \in Band /\ ~EXCLUSIVE_USE[o])
    BY <2>2 DEF ExclusiveReady, OpTypes, TypeOK
  <2> QED
    BY <2>1, <2>2
<1>2. EXCLUSIVE_USE' \in [Band -> BOOLEAN]
  BY DEF ExclusiveReady, TypeOK
<1> QED
  BY <1>1, <1>2

LEMMA DeregisterType ==
    ASSUME TypeOK, NEW b \in Band, NEW notify \in BOOLEAN,
           NEW st \in [Slot -> SUBSET Flag], Deregister(b, notify, st)
    PROVE  /\ OpTypes' /\ ClearTypes'
           /\ status' \in [Band -> [Slot -> SUBSET Flag]]
           /\ idle_q' \in [Band -> Seq(Slot)]
           /\ token_cnt' \in [Band -> Int]
           /\ cur_cmd_req' \in [Band -> SlotOrNull]
           /\ WAIT_ABORT' \in [Band -> BOOLEAN]
           /\ msgs' \in [Band -> Seq(MsgKind)]
<1> DEFINE s == cur_cmd_req[b]
           cancelled == [i \in DOMAIN msgs[b] |->
                           IF msgs[b][i] = "end" THEN "done" ELSE msgs[b][i]]
<1>1. cancelled \in Seq(MsgKind) /\ Len(cancelled) = Len(msgs[b])
  <2>1. msgs[b] \in Seq(MsgKind)
    BY DEF TypeOK
  <2>2. cancelled \in [1 .. Len(msgs[b]) -> MsgKind]
    BY <2>1 DEF MsgKind
  <2> QED
    BY <2>1, <2>2, SeqDef
<1>2. cur_cmd_req' \in [Band -> SlotOrNull]
  BY DEF Deregister, TypeOK, SlotOrNull
<1>3. CASE s = Null
  <2>1. OpTypes' /\ ClearTypes'
    <3>1. CASE WAIT_ABORT[b]
      BY <1>3, <3>1 DEF Deregister, OpTypes, ClearTypes, TypeOK
    <3>2. CASE ~WAIT_ABORT[b]
      BY <1>3, <3>2, CmdTokenCompleteType DEF Deregister
    <3> QED
      BY <3>1, <3>2
  <2> QED
    BY <1>2, <1>3, <2>1 DEF Deregister, TypeOK
<1>4. CASE s # Null
  <2>1. s \in Slot
    BY <1>4 DEF TypeOK, SlotOrNull
  <2>2. /\ status' \in [Band -> [Slot -> SUBSET Flag]]
        /\ token_cnt' \in [Band -> Int]
    <3>1. /\ status' = [status EXCEPT ![b] = [st EXCEPT ![s] = {}]]
          /\ token_cnt' = [token_cnt EXCEPT ![b] = token_cnt[b] - 1]
      BY <1>4 DEF Deregister
    <3>2. [st EXCEPT ![s] = {}] \in [Slot -> SUBSET Flag]
      BY <2>1
    <3> QED
      BY <3>1, <3>2 DEF TypeOK
  <2>3. idle_q' \in [Band -> Seq(Slot)]
    <3>1. idle_q' = [idle_q EXCEPT ![b] = Append(idle_q[b], s)]
      BY <1>4 DEF Deregister
    <3>2. Append(idle_q[b], s) \in Seq(Slot)
      BY <2>1, AppendProperties DEF TypeOK
    <3> QED
      BY <3>1, <3>2 DEF TypeOK
  <2>4. CASE /\ msgs' = [msgs EXCEPT ![b] = cancelled]
             /\ UNCHANGED WAIT_ABORT
             /\ IF WAIT_ABORT[b]
                THEN UNCHANGED <<CLEARANCE, EXCLUSIVE_USE, op_q, used, sema,
                                 corrupt>>
                ELSE CmdTokenComplete(b, {})
    <3>1. OpTypes' /\ ClearTypes'
      <4>1. CASE WAIT_ABORT[b]
        BY <2>4, <4>1 DEF OpTypes, ClearTypes, TypeOK
      <4>2. CASE ~WAIT_ABORT[b]
        BY <2>4, <4>2, CmdTokenCompleteType
      <4> QED
        BY <4>1, <4>2
    <3> QED
      BY <1>1, <1>2, <2>2, <2>3, <2>4, <3>1 DEF TypeOK
  <2>5. CASE /\ msgs' = [msgs EXCEPT ![b] = Append(cancelled, "abort")]
             /\ WAIT_ABORT' = [WAIT_ABORT EXCEPT ![b] = TRUE]
             /\ sema' = sema + 1
             /\ UNCHANGED <<CLEARANCE, EXCLUSIVE_USE, op_q, used, corrupt>>
    <3>1. Append(cancelled, "abort") \in Seq(MsgKind)
      BY <1>1, AppendProperties DEF MsgKind
    <3> QED
      BY <1>2, <2>2, <2>3, <2>5, <3>1 DEF OpTypes, ClearTypes, TypeOK
  <2> QED
    BY <1>4, <2>4, <2>5 DEF Deregister
<1> QED
  BY <1>3, <1>4

LEMMA WithoutType ==
    ASSUME NEW S, NEW q \in Seq(S), NEW s \in Elems(q)
    PROVE  Without(q, s) \in Seq(S)
<1> DEFINE at == CHOOSE i \in DOMAIN q : q[i] = s
<1>1. at \in DOMAIN q
  BY DEF Elems
<1>2. Len(q) \in Nat /\ Len(q) # 0 /\ DOMAIN q = 1 .. Len(q)
  BY <1>1, LenProperties
<1>3. Without(q, s) \in [1 .. Len(q) - 1 -> S]
  <2> SUFFICES ASSUME NEW i \in 1 .. Len(q) - 1
               PROVE  (IF i < at THEN q[i] ELSE q[i + 1]) \in S
    BY DEF Without
  <2>1. i \in 1 .. Len(q) /\ i + 1 \in 1 .. Len(q)
    BY <1>2
  <2> QED
    BY <2>1, ElementOfSeq
<1>4. Len(q) - 1 \in Nat
  BY <1>2
<1> QED
  BY <1>3, <1>4, SeqDef

LEMMA NextBandType ==
    ASSUME TypeOK, NextBand
    PROVE  tband' \in Band /\ tpc' \in {"wait", "loop"}
BY BandAssumption DEF NextBand, Goto, LastBand, Dual, Other, TypeOK

LEMMA PopMsgType ==
    ASSUME TypeOK, NEW k, PopMsg(k)
    PROVE  msgs' \in [Band -> Seq(MsgKind)]
<1>1. msgs' = [msgs EXCEPT ![tband] = Tail(msgs[tband])]
  BY DEF PopMsg
<1>2. Tail(msgs[tband]) \in Seq(MsgKind)
  BY HeadTailProperties DEF PopMsg, TypeOK
<1> QED
  BY <1>1, <1>2 DEF TypeOK

LEMMA SendPhyType ==
    ASSUME TypeOK, NEW b \in Band, SendPhy(b)
    PROVE  msgs' \in [Band -> Seq(MsgKind)] /\ sema' \in Nat
<1>1. CASE Len(msgs[b]) < MaxMsg
  <2>1. /\ msgs' = [msgs EXCEPT ![b] = Append(msgs[b], "phy")]
        /\ sema' = sema + 1
    BY <1>1 DEF SendPhy
  <2>2. Append(msgs[b], "phy") \in Seq(MsgKind)
    BY AppendProperties DEF TypeOK, MsgKind
  <2> QED
    BY <2>1, <2>2 DEF TypeOK
<1>2. CASE ~(Len(msgs[b]) < MaxMsg)
  BY <1>2 DEF SendPhy, TypeOK
<1> QED
  BY <1>1, <1>2

LEMMA ThreadTypeStep == TypeInv /\ ThreadStep => TypeInv'
<1> SUFFICES ASSUME TypeInv, ThreadStep PROVE TypeInv'
  OBVIOUS
<1>0. /\ FirstBand \in Band /\ tband \in Band
      /\ tband # LastBand => Other(tband) \in Band
      /\ Other(tband) \in Int
  BY BandAssumption DEF FirstBand, LastBand, Dual, Other, TypeInv, TypeOK
<1>1. CASE ThreadWake
  BY <1>0, <1>1
  DEF ThreadWake, Goto, reqVars, opVars, tokenVars, bandFlags, threadVars,
      TypeInv, TypeOK, ClientHasSlot, PoppedHasSlot, ThreadPc
<1>2. CASE ThreadLoop
  <2>1. OpTypes' /\ EXCLUSIVE_USE' \in [Band -> BOOLEAN]
    <3>1. CASE ExclusiveReady(Other(tband))
      BY <1>0, <3>1, ExclusiveReadyType DEF TypeInv
    <3>2. CASE UNCHANGED <<EXCLUSIVE_USE, op_q, used, sema, corrupt>>
      BY <3>2 DEF OpTypes, TypeInv, TypeOK
    <3> QED
      BY <1>2, <3>1, <3>2 DEF ThreadLoop
  <2>2. tpc' \in ThreadPc \ {"reg"}
    BY <1>2 DEF ThreadLoop, Goto, ThreadPc
  <2> QED
    BY <1>2, <2>1, <2>2
    DEF ThreadLoop, OpTypes, reqVars, opVars, tokenVars, bandFlags, threadVars,
        TypeInv, TypeOK, ClientHasSlot, PoppedHasSlot, ThreadPc
<1>3. CASE ThreadNoOp
  BY <1>0, <1>3
  DEF ThreadNoOp, Goto, reqVars, opVars, tokenVars, bandFlags, threadVars,
      TypeInv, TypeOK, ClientHasSlot, PoppedHasSlot, ThreadPc
<1>4. CASE ThreadPopOp
  BY <1>0, <1>4
  DEF ThreadPopOp, Goto, reqVars, opVars, tokenVars, bandFlags, threadVars,
      TypeInv, TypeOK, ClientHasSlot, PoppedHasSlot, ThreadPc
<1>5. CASE HandleAdd
  BY <1>0, <1>5
  DEF HandleAdd, Goto, reqVars, opVars, tokenVars, bandFlags, threadVars,
      TypeInv, TypeOK, ClientHasSlot, PoppedHasSlot, ThreadPc
<1>6. CASE HandleFree
  <2>1. CASE "RUN" \in status[tband][top.info[2]]
    <3>1. status[tband] \in [Slot -> SUBSET Flag]
      BY DEF TypeInv, TypeOK
    <3>2. Deregister(tband, FALSE, status[tband])
      BY <1>6, <2>1 DEF HandleFree
    <3>3. TypeOK
      BY DEF TypeInv
    <3> QED
      BY <1>0, <1>6, <2>1, <3>1, <3>2, <3>3, DeregisterType
      DEF HandleFree, Goto, OpTypes, ClearTypes, Deregister, reqVars, opVars,
          tokenVars, bandFlags, threadVars, TypeInv, TypeOK, ClientHasSlot,
          PoppedHasSlot, ThreadPc
  <2>2. CASE "RUN" \notin status[tband][top.info[2]]
    BY <1>6, <2>2
    DEF HandleFree, Goto, reqVars, opVars, tokenVars, bandFlags, threadVars,
        TypeInv, TypeOK, ClientHasSlot, PoppedHasSlot, ThreadPc
  <2> QED
    BY <2>1, <2>2
<1>7. CASE HandleCancelWaiting
  <2> DEFINE s == top.info[2]
  <2>1. s \in Slot
    BY <1>7, OpFacts DEF HandleCancelWaiting, TypeInv, TypeOK
  <2>2. CASE s \in Elems(wait_q[tband])
    <3>1. /\ wait_q' = [wait_q EXCEPT ![tband] = Without(wait_q[tband], s)]
          /\ idle_q' = [idle_q EXCEPT ![tband] = Append(idle_q[tband], s)]
          /\ status' = [status EXCEPT ![tband][s] = {}]
          /\ UNCHANGED corrupt
      BY <1>7, <2>2 DEF HandleCancelWaiting
    <3>2. Without(wait_q[tband], s) \in Seq(Slot)
      BY <1>0, <2>2, WithoutType DEF TypeInv, TypeOK
    <3>3. Append(idle_q[tband], s) \in Seq(Slot)
      BY <1>0, <2>1, AppendProperties DEF TypeInv, TypeOK
    <3> QED
      BY <1>7, <2>1, <3>1, <3>2, <3>3 DEF HandleCancelWaiting, Goto,
         reqVars, opVars, tokenVars, bandFlags, threadVars, TypeInv, TypeOK,
       ClientHasSlot, PoppedHasSlot, ThreadPc
  <2>3. CASE s \notin Elems(wait_q[tband])
    BY <1>7, <2>3
    DEF HandleCancelWaiting, Goto, reqVars, opVars, tokenVars, bandFlags,
        threadVars, TypeInv, TypeOK, ClientHasSlot, PoppedHasSlot, ThreadPc
  <2> QED
    BY <2>2, <2>3
<1>8. CASE HandleCancelRunning
  <2> DEFINE s == top.info[2]
             st == [status[tband] EXCEPT ![s] = @ \cup {"CANCEL"}]
  <2>1. st \in [Slot -> SUBSET Flag]
    <3>1. s \in Slot
      BY <1>8, OpFacts DEF HandleCancelRunning, TypeInv, TypeOK
    <3> QED
      BY <3>1 DEF TypeInv, TypeOK, Flag
  <2>2. CASE "RUN" \in status[tband][s]
    <3>1. Deregister(tband, TRUE, st)
      BY <1>8, <2>2 DEF HandleCancelRunning
    <3>2. TypeOK
      BY DEF TypeInv
    <3> QED
      BY <1>0, <1>8, <2>1, <2>2, <3>1, <3>2, DeregisterType
      DEF HandleCancelRunning, Goto, OpTypes, ClearTypes, Deregister, reqVars,
          opVars, tokenVars, bandFlags, threadVars, TypeInv, TypeOK,
          ClientHasSlot, PoppedHasSlot, ThreadPc
  <2>3. CASE "RUN" \notin status[tband][s]
    <3>1. status' = [status EXCEPT ![tband] = st]
      BY <1>8, <2>3 DEF HandleCancelRunning
    <3> QED
      BY <1>8, <2>1, <2>3, <3>1
      DEF HandleCancelRunning, Goto, reqVars, opVars, tokenVars, bandFlags,
          threadVars, TypeInv, TypeOK, ClientHasSlot, PoppedHasSlot, ThreadPc
  <2> QED
    BY <2>2, <2>3
<1>9. CASE ProcBusy
  BY <1>0, <1>9
  DEF ProcBusy, Goto, reqVars, opVars, tokenVars, bandFlags, threadVars,
      TypeInv, TypeOK, ClientHasSlot, PoppedHasSlot, ThreadPc
<1>10. CASE ProcBlocked
  <2>1. OpTypes' /\ EXCLUSIVE_USE' \in [Band -> BOOLEAN]
    BY <1>0, <1>10, ExclusiveReadyType DEF ProcBlocked, TypeInv
  <2> QED
    BY <1>10, <2>1
    DEF ProcBlocked, Goto, OpTypes, reqVars, opVars, tokenVars, bandFlags,
        threadVars, TypeInv, TypeOK, ClientHasSlot, PoppedHasSlot, ThreadPc
<1>11. CASE ProcAcquireClearance
  BY <1>0, <1>11
  DEF ProcAcquireClearance, Goto, reqVars, opVars, tokenVars, bandFlags,
      threadVars, TypeInv, TypeOK, ClientHasSlot, PoppedHasSlot, ThreadPc
<1>12. CASE ProcPass
  BY <1>0, <1>12
  DEF ProcPass, Goto, reqVars, opVars, tokenVars, bandFlags, threadVars,
      TypeInv, TypeOK, ClientHasSlot, PoppedHasSlot, ThreadPc
<1>13. CASE ProcIdle
  <2>1. msgs' \in [Band -> Seq(MsgKind)] /\ sema' \in Nat
    <3>1. CASE NOTIFY_IDLE[tband]
      BY <1>13, <3>1 DEF ProcIdle, TypeInv, TypeOK
    <3>2. CASE ~NOTIFY_IDLE[tband]
      BY <1>0, <1>13, <3>2, SendPhyType DEF ProcIdle, TypeInv
    <3> QED
      BY <3>1, <3>2
  <2> QED
    BY <1>13, <2>1
    DEF ProcIdle, Goto, reqVars, opVars, tokenVars, bandFlags, threadVars,
        TypeInv, TypeOK, ClientHasSlot, PoppedHasSlot, ThreadPc
<1>14. CASE ProcPopReq
  <2> DEFINE s == Head(wait_q[tband])
  <2>1. s \in Slot /\ Tail(wait_q[tband]) \in Seq(Slot)
    BY <1>0, <1>14, HeadTailProperties DEF ProcPopReq, TypeInv, TypeOK
  <2>2. msgs' \in [Band -> Seq(MsgKind)] /\ sema' \in Nat
    <3>1. CASE ~NOTIFY_IDLE[tband]
      BY <1>14, <3>1 DEF ProcPopReq, TypeInv, TypeOK
    <3>2. CASE NOTIFY_IDLE[tband]
      BY <1>0, <1>14, <3>2, SendPhyType DEF ProcPopReq, TypeInv
    <3> QED
      BY <3>1, <3>2
  <2>3. wait_q' \in [Band -> Seq(Slot)]
    BY <1>14, <2>1 DEF ProcPopReq, TypeInv, TypeOK
  <2>4. status' \in [Band -> [Slot -> SUBSET Flag]]
    <3>1. (status[tband][s] \cup {"PREPARE"}) \ {"ENQ"} \in SUBSET Flag
      BY <1>0, <2>1 DEF TypeInv, TypeOK, Flag
    <3>2. status' = [status EXCEPT ![tband][s] =
                       (status[tband][s] \cup {"PREPARE"}) \ {"ENQ"}]
      BY <1>0, <1>14, <2>1 DEF ProcPopReq, TypeInv, TypeOK
    <3> QED
      BY <1>0, <2>1, <3>1, <3>2 DEF TypeInv, TypeOK
  <2>5. tex' \in Slot
    BY <1>14, <2>1 DEF ProcPopReq
  <2> QED
    BY <1>14, <2>2, <2>3, <2>4, <2>5 DEF ProcPopReq, Goto, SlotOrNull,
       reqVars, opVars, tokenVars, bandFlags, threadVars, TypeInv, TypeOK,
       ClientHasSlot, PoppedHasSlot, ThreadPc
<1>15. CASE Register
  <2>1. tex \in Slot
    BY <1>15 DEF Register, TypeInv, PoppedHasSlot
  <2>2. RunReq(tband, tex) \in [Slot -> SUBSET Flag]
    BY <1>0, <2>1 DEF RunReq, TypeInv, TypeOK, Flag
  <2> QED
    BY <1>15, <2>1, <2>2
    DEF Register, Goto, SlotOrNull, reqVars, opVars, tokenVars, bandFlags,
        threadVars, TypeInv, TypeOK, ClientHasSlot, PoppedHasSlot, ThreadPc
<1>16. CASE RegisterRefused
  <2>1. tex \in Slot
    BY <1>16 DEF RegisterRefused, TypeInv, PoppedHasSlot
  <2>2. OpTypes' /\ ClearTypes'
    BY <1>0, <1>16, CmdTokenCompleteType DEF RegisterRefused, TypeInv
  <2>3. [status[tband] EXCEPT ![tex] = {}] \in [Slot -> SUBSET Flag]
    BY <1>0, <2>1 DEF TypeInv, TypeOK
  <2>4. Append(idle_q[tband], tex) \in Seq(Slot)
    BY <1>0, <2>1, AppendProperties DEF TypeInv, TypeOK
  <2>5. /\ status' = [status EXCEPT ![tband] = [status[tband] EXCEPT ![tex] = {}]]
        /\ idle_q' = [idle_q EXCEPT ![tband] = Append(idle_q[tband], tex)]
    BY <1>16 DEF RegisterRefused
  <2>6. /\ status' \in [Band -> [Slot -> SUBSET Flag]]
        /\ idle_q' \in [Band -> Seq(Slot)]
    BY <2>3, <2>4, <2>5 DEF TypeInv, TypeOK
  <2>7. tex' \in SlotOrNull /\ tpc' = "proc"
    BY <1>16 DEF RegisterRefused, Goto, SlotOrNull
  <2> QED
    BY <1>16, <2>2, <2>6, <2>7 DEF RegisterRefused, OpTypes, ClearTypes,
       reqVars, opVars, tokenVars, bandFlags, threadVars, TypeInv, TypeOK,
       ClientHasSlot, PoppedHasSlot, ThreadPc
<1>17. CASE ThreadUsed
  <2>1. used' \in [Band -> SUBSET Info]
    BY <1>17 DEF ThreadUsed, TypeInv, TypeOK
  <2> QED
    BY <1>17, <2>1, OpFacts
    DEF ThreadUsed, Goto, reqVars, opVars, tokenVars, bandFlags, threadVars,
        TypeInv, TypeOK, ClientHasSlot, PoppedHasSlot, ThreadPc
<1>18. CASE ThreadNoMsg
  <2>1. tband' \in Band /\ tpc' \in {"wait", "loop"}
    BY <1>18, NextBandType DEF ThreadNoMsg, TypeInv
  <2> QED
    BY <1>18, <2>1
    DEF ThreadNoMsg, reqVars, opVars, tokenVars, bandFlags, threadVars,
        TypeInv, TypeOK, ClientHasSlot, PoppedHasSlot, ThreadPc
<1>19. CASE MsgPlain
  <2>1. tband' \in Band /\ tpc' \in {"wait", "loop"}
    BY <1>19, NextBandType DEF MsgPlain, TypeInv
  <2>2. msgs' \in [Band -> Seq(MsgKind)]
    BY <1>19, PopMsgType DEF MsgPlain, TypeInv
  <2> QED
    BY <1>19, <2>1, <2>2
    DEF MsgPlain, reqVars, opVars, tokenVars, bandFlags, threadVars, TypeInv,
        TypeOK, ClientHasSlot, PoppedHasSlot, ThreadPc
<1>20. CASE MsgEnd
  <2> DEFINE s == cur_cmd_req[tband]
             holds == /\ s # Null /\ "RUN" \in status[tband][s]
                      /\ "CANCEL" \notin status[tband][s]
  <2>1. tband' \in Band /\ tpc' \in {"wait", "loop"}
    BY <1>20, NextBandType DEF MsgEnd, TypeInv
  <2>2. msgs' \in [Band -> Seq(MsgKind)]
    BY <1>20, PopMsgType DEF MsgEnd, TypeInv
  <2>3. OpTypes' /\ status' \in [Band -> [Slot -> SUBSET Flag]]
    <3>1. CASE holds
      <4>1. s \in Slot
        BY <1>0, <3>1 DEF TypeInv, TypeOK, SlotOrNull
      <4>2. status' \in [Band -> [Slot -> SUBSET Flag]]
        <5>1. status' = [status EXCEPT ![tband][s] =
                           status[tband][s] \cup {"CANCEL"}]
          BY <1>20, <3>1 DEF MsgEnd
        <5>2. status[tband][s] \cup {"CANCEL"} \in SUBSET Flag
          BY <1>0, <4>1 DEF TypeInv, TypeOK, Flag
        <5> QED
          BY <1>0, <4>1, <5>1, <5>2 DEF TypeInv, TypeOK
      <4>3. OpTypes'
        BY <1>0, <1>20, <3>1, <4>1, OpFacts, EnqueueType DEF MsgEnd, TypeInv
      <4> QED
        BY <4>2, <4>3
    <3>2. CASE ~holds
      BY <1>20, <3>2 DEF MsgEnd, OpTypes, TypeInv, TypeOK
    <3> QED
      BY <3>1, <3>2
  <2> QED
    BY <1>20, <2>1, <2>2, <2>3
    DEF MsgEnd, OpTypes, reqVars, opVars, tokenVars, bandFlags, threadVars,
        TypeInv, TypeOK, ClientHasSlot, PoppedHasSlot, ThreadPc
<1>21. CASE MsgAbort
  <2>1. tband' \in Band /\ tpc' \in {"wait", "loop"}
    BY <1>21, NextBandType DEF MsgAbort, TypeInv
  <2>2. msgs' \in [Band -> Seq(MsgKind)]
    BY <1>21, PopMsgType DEF MsgAbort, TypeInv
  <2>3. OpTypes' /\ ClearTypes'
    BY <1>0, <1>21, CmdTokenCompleteType DEF MsgAbort, TypeInv
  <2> QED
    BY <1>21, <2>1, <2>2, <2>3 DEF MsgAbort, OpTypes, ClearTypes,
       reqVars, opVars, tokenVars, bandFlags, threadVars, TypeInv, TypeOK,
       ClientHasSlot, PoppedHasSlot, ThreadPc
<1> QED
  BY <1>1, <1>2, <1>3, <1>4, <1>5, <1>6, <1>7, <1>8, <1>9, <1>10, <1>11, <1>12,
     <1>13, <1>14, <1>15, <1>16, <1>17, <1>18, <1>19, <1>20, <1>21
  DEF ThreadStep

\* A client that stays in the same call, or ends it, keeps its types.
LEMMA ClientStepType ==
    ASSUME TypeInv, NEW c \in Client, NEW l \in ClientPc, Step(c, l),
           cl[c].s \in Slot \/ l = "idle"
    PROVE  cl' \in [Client -> ClientState] /\ ClientHasSlot'
<1>1. cl' = [cl EXCEPT ![c] = [cl[c] EXCEPT !.pc = l]]
  BY DEF Step
<1>2. [cl[c] EXCEPT !.pc = l] \in ClientState
  BY DEF TypeInv, TypeOK, ClientState
<1>3. cl' \in [Client -> ClientState]
  BY <1>1, <1>2 DEF TypeInv, TypeOK
<1>4. ASSUME NEW d \in Client, cl'[d].pc # "idle" PROVE cl'[d].s \in Slot
  <2>1. CASE d = c
    BY <1>1, <1>4, <2>1 DEF TypeInv, TypeOK, ClientState
  <2>2. CASE d # c
    BY <1>1, <1>4, <2>2 DEF TypeInv, TypeOK, ClientHasSlot
  <2> QED
    BY <2>1, <2>2
<1> QED
  BY <1>3, <1>4 DEF ClientHasSlot

LEMMA ClientTypeStep ==
    ASSUME TypeInv, NEW c \in Client, ClientStep(c)
    PROVE  TypeInv'
<1>0. /\ cl[c] \in ClientState
      /\ cl[c].pc # "idle" => cl[c].s \in Slot
      /\ TypeOK
  BY DEF TypeInv, TypeOK, ClientHasSlot
<1>1. ASSUME NEW b \in Band, AddPopIdle(c, b) PROVE TypeInv'
  <2> DEFINE s == Head(idle_q[b])
             r == [pc |-> "push", b |-> b, s |-> s, st |-> {},
                   left |-> cl[c].left - 1]
  <2>1. s \in Slot /\ Tail(idle_q[b]) \in Seq(Slot)
    BY <1>1, HeadTailProperties DEF AddPopIdle, TypeInv, TypeOK
  <2>2. r \in ClientState
    BY <1>0, <1>1, <2>1 DEF AddPopIdle, ClientState, ClientPc, SlotOrNull
  <2>3. /\ idle_q' = [idle_q EXCEPT ![b] = Tail(idle_q[b])]
        /\ status' = [status EXCEPT ![b][s] = {}]
        /\ \E opt \in BOOLEAN : excl' = [excl EXCEPT ![b][s] = opt]
        /\ used' = [used EXCEPT ![b] = used[b] \ {<<"add", s>>, <<"free", s>>}]
        /\ corrupt' \in BOOLEAN
        /\ cl' = [cl EXCEPT ![c] = r]
    BY <1>1 DEF AddPopIdle
  <2>4. /\ idle_q' \in [Band -> Seq(Slot)] /\ used' \in [Band -> SUBSET Info]
        /\ cl' \in [Client -> ClientState]
    BY <2>1, <2>2, <2>3 DEF TypeInv, TypeOK
  <2>5. /\ status' \in [Band -> [Slot -> SUBSET Flag]]
        /\ excl' \in [Band -> [Slot -> BOOLEAN]]
    BY <2>1, <2>3 DEF TypeInv, TypeOK
  <2>6. ClientHasSlot'
    BY <2>1, <2>3 DEF TypeInv, TypeOK, ClientHasSlot
  <2> QED
    BY <1>1, <2>3, <2>4, <2>5, <2>6
    DEF AddPopIdle, reqVars, opVars, tokenVars, bandFlags, threadVars, TypeInv,
        TypeOK, PoppedHasSlot
<1>2. CASE AddPushWait(c)
  <2>1. cl[c].b \in Band /\ cl[c].s \in Slot
    BY <1>0, <1>2 DEF AddPushWait, At, ClientState, ClientPc
  <2>2. cl' \in [Client -> ClientState] /\ ClientHasSlot'
    BY <1>2, <2>1, ClientStepType DEF AddPushWait, ClientPc
  <2>3. wait_q' \in [Band -> Seq(Slot)]
    <3>1. wait_q' = [wait_q EXCEPT ![cl[c].b] = Append(wait_q[cl[c].b], cl[c].s)]
      BY <1>2 DEF AddPushWait
    <3>2. Append(wait_q[cl[c].b], cl[c].s) \in Seq(Slot)
      BY <2>1, AppendProperties DEF TypeInv, TypeOK
    <3> QED
      BY <3>1, <3>2 DEF TypeInv, TypeOK
  <2> QED
    BY <1>2, <2>2, <2>3
    DEF AddPushWait, reqVars, opVars, tokenVars, bandFlags, threadVars,
        TypeInv, TypeOK, PoppedHasSlot
<1>3. CASE AddSetEnq(c)
  <2>1. cl[c].b \in Band /\ cl[c].s \in Slot
    BY <1>0, <1>3 DEF AddSetEnq, At, ClientState, ClientPc
  <2>2. cl' \in [Client -> ClientState] /\ ClientHasSlot'
    BY <1>3, <2>1, ClientStepType DEF AddSetEnq, ClientPc
  <2>3. status' \in [Band -> [Slot -> SUBSET Flag]]
    <3>1. status' = [status EXCEPT ![cl[c].b][cl[c].s] =
                       status[cl[c].b][cl[c].s] \cup {"ENQ"}]
      BY <1>3 DEF AddSetEnq
    <3>2. status[cl[c].b][cl[c].s] \cup {"ENQ"} \in SUBSET Flag
      BY <2>1 DEF TypeInv, TypeOK, Flag
    <3> QED
      BY <2>1, <3>1, <3>2 DEF TypeInv, TypeOK
  <2> QED
    BY <1>3, <2>2, <2>3
    DEF AddSetEnq, reqVars, opVars, tokenVars, bandFlags, threadVars, TypeInv,
        TypeOK, PoppedHasSlot
<1>4. CASE AddLoadStatus(c)
  <2> DEFINE r == [cl[c] EXCEPT !.pc = "wrst", !.st = status[cl[c].b][cl[c].s]]
  <2>1. cl[c].b \in Band /\ cl[c].s \in Slot
    BY <1>0, <1>4 DEF AddLoadStatus, At, ClientState, ClientPc
  <2>2. cl' = [cl EXCEPT ![c] = r]
    BY <1>4 DEF AddLoadStatus
  <2>3. r \in ClientState /\ r.s \in Slot
    <3>1. status[cl[c].b][cl[c].s] \in SUBSET Flag
      BY <2>1 DEF TypeInv, TypeOK
    <3> QED
      BY <1>0, <2>1, <3>1 DEF ClientState, ClientPc
  <2>4. cl' \in [Client -> ClientState] /\ ClientHasSlot'
    BY <2>2, <2>3 DEF TypeInv, TypeOK, ClientHasSlot
  <2> QED
    BY <1>4, <2>4
    DEF AddLoadStatus, reqVars, opVars, tokenVars, bandFlags, threadVars,
        TypeInv, TypeOK, PoppedHasSlot
<1>5. CASE AddStoreStatus(c)
  <2> DEFINE r == [cl[c] EXCEPT !.pc = "addop", !.st = {}]
  <2>1. cl[c].b \in Band /\ cl[c].s \in Slot /\ cl[c].st \in SUBSET Flag
    BY <1>0, <1>5 DEF AddStoreStatus, At, ClientState, ClientPc
  <2>2. cl' = [cl EXCEPT ![c] = r]
    BY <1>5 DEF AddStoreStatus
  <2>3. r \in ClientState /\ r.s \in Slot
    BY <1>0, <2>1 DEF ClientState, ClientPc
  <2>4. cl' \in [Client -> ClientState] /\ ClientHasSlot'
    BY <2>2, <2>3 DEF TypeInv, TypeOK, ClientHasSlot
  <2>5. status' \in [Band -> [Slot -> SUBSET Flag]]
    <3>1. status' = [status EXCEPT ![cl[c].b][cl[c].s] = cl[c].st \cup {"ENQ"}]
      BY <1>5 DEF AddStoreStatus
    <3>2. cl[c].st \cup {"ENQ"} \in SUBSET Flag
      BY <2>1 DEF Flag
    <3> QED
      BY <2>1, <3>1, <3>2 DEF TypeInv, TypeOK
  <2> QED
    BY <1>5, <2>4, <2>5
    DEF AddStoreStatus, reqVars, opVars, tokenVars, bandFlags, threadVars,
        TypeInv, TypeOK, PoppedHasSlot
<1>6. CASE AddEnqueue(c)
  <2>1. cl[c].b \in Band /\ cl[c].s \in Slot
    BY <1>0, <1>6 DEF AddEnqueue, At, ClientState, ClientPc
  <2>2. cl' \in [Client -> ClientState] /\ ClientHasSlot'
    BY <1>6, <2>1, ClientStepType DEF AddEnqueue, ClientPc
  <2>3. OpTypes'
    BY <1>0, <1>6, <2>1, OpFacts, EnqueueType DEF AddEnqueue
  <2> QED
    BY <1>6, <2>2, <2>3
    DEF AddEnqueue, OpTypes, reqVars, opVars, tokenVars, bandFlags, threadVars,
        TypeInv, TypeOK, PoppedHasSlot
<1>7. CASE CancelCheck(c)
  <2>1. cl' \in [Client -> ClientState] /\ ClientHasSlot'
    <3>1. CASE Step(c, "cancel")
      <4>1. cl[c].s \in Slot
        BY <1>0, <1>7 DEF CancelCheck, ClientState, SlotOrNull
      <4> QED
        BY <3>1, <4>1, ClientStepType DEF ClientPc
    <3>2. CASE cl' = [cl EXCEPT ![c].s = Null]
      <4> DEFINE r == [cl[c] EXCEPT !.s = Null]
      <4>1. r \in ClientState /\ r.pc = "idle"
        BY <1>0, <1>7 DEF CancelCheck, At, ClientState, ClientPc, SlotOrNull
      <4>2. cl' = [cl EXCEPT ![c] = r]
        BY <3>2
      <4> QED
        BY <4>1, <4>2 DEF TypeInv, TypeOK, ClientHasSlot
    <3> QED
      BY <1>7, <3>1, <3>2 DEF CancelCheck
  <2> QED
    BY <1>7, <2>1
    DEF CancelCheck, reqVars, opVars, tokenVars, bandFlags, threadVars,
        TypeInv, TypeOK, PoppedHasSlot
<1>8. CASE CancelEnqueue(c)
  <2> DEFINE r == [cl[c] EXCEPT !.pc = "idle", !.s = Null]
  <2>1. cl[c].b \in Band /\ cl[c].s \in Slot
    BY <1>0, <1>8 DEF CancelEnqueue, At, ClientState, ClientPc
  <2>2. r \in ClientState /\ r.pc = "idle"
    BY <1>0 DEF ClientState, ClientPc, SlotOrNull
  <2>3. cl' = [cl EXCEPT ![c] = r]
    BY <1>8 DEF CancelEnqueue
  <2>4. cl' \in [Client -> ClientState] /\ ClientHasSlot'
    BY <2>2, <2>3 DEF TypeInv, TypeOK, ClientHasSlot
  <2>5. OpTypes'
    BY <1>0, <1>8, <2>1, OpFacts, EnqueueType DEF CancelEnqueue
  <2> QED
    BY <1>8, <2>4, <2>5
    DEF CancelEnqueue, OpTypes, reqVars, opVars, tokenVars, bandFlags,
        threadVars, TypeInv, TypeOK, PoppedHasSlot
<1> QED
  BY <1>1, <1>2, <1>3, <1>4, <1>5, <1>6, <1>7, <1>8 DEF ClientStep

\* Appending a message of either sender keeps the types.
LEMMA SenderTypeStep ==
    ASSUME TypeInv, Watchdog \/ \E b \in Band : SendEnd(b)
    PROVE  TypeInv'
<1>1. ASSUME NEW b \in Band, SendEnd(b) PROVE TypeInv'
  <2>1. Append(msgs[b], "end") \in Seq(MsgKind)
    BY AppendProperties DEF TypeInv, TypeOK, MsgKind
  <2>2. msgs' \in [Band -> Seq(MsgKind)]
    BY <1>1, <2>1 DEF SendEnd, TypeInv, TypeOK
  <2> QED
    BY <1>1, <2>2
    DEF SendEnd, reqVars, opVars, tokenVars, bandFlags, threadVars, TypeInv,
        TypeOK, ClientHasSlot, PoppedHasSlot
<1>2. CASE Watchdog
  <2>1. 0 \in Band
    BY BandAssumption
  <2>2. Append(msgs[0], "wd") \in Seq(MsgKind)
    BY <2>1, AppendProperties DEF TypeInv, TypeOK, MsgKind
  <2>3. msgs' \in [Band -> Seq(MsgKind)]
    BY <1>2, <2>1, <2>2 DEF Watchdog, TypeInv, TypeOK
  <2> QED
    BY <1>2, <2>3
    DEF Watchdog, reqVars, opVars, tokenVars, bandFlags, threadVars, TypeInv,
        TypeOK, ClientHasSlot, PoppedHasSlot
<1> QED
  BY <1>1, <1>2

LEMMA TypeStep == TypeInv /\ [Next]_vars => TypeInv'
<1>1. TypeInv /\ Next => TypeInv'
  BY ThreadTypeStep, ClientTypeStep, SenderTypeStep DEF Next
<1>2. TypeInv /\ UNCHANGED vars => TypeInv'
  BY DEF vars, TypeInv, TypeOK, ClientHasSlot, PoppedHasSlot
<1> QED
  BY <1>1, <1>2

LEMMA TypeInvariant == Spec => []TypeInv
BY TypeInit, TypeStep, PTL DEF Spec

\* Every variable keeps its type: in particular the slot numbers that the
\* token operations carry, the popped request and the current request are
\* always slots of the pool (phl_token_op_info.data is never out of range).
THEOREM TypeCorrect == Spec => []TypeOK
<1>1. TypeInv => TypeOK
  BY DEF TypeInv
<1> QED
  BY <1>1, TypeInvariant, PTL

-----------------------------------------------------------------------------
(* The message of an aborted command                                       *)

One(q) == \E i \in DOMAIN q : AbortMsgs(q) = {i}

\* A message of another kind at the end of msg_wait_q, or taken from its front,
\* does not change how many abort messages there are.
LEMMA AppendOther ==
    ASSUME NEW q \in Seq(MsgKind), NEW k \in MsgKind, k # "abort"
    PROVE  /\ AbortMsgs(q) = {} => AbortMsgs(Append(q, k)) = {}
           /\ One(q) => One(Append(q, k))
<1>1. /\ DOMAIN q = 1 .. Len(q) /\ Len(q) \in Nat
      /\ DOMAIN Append(q, k) = 1 .. Len(q) + 1
      /\ \A i \in 1 .. Len(q) : Append(q, k)[i] = q[i]
      /\ Append(q, k)[Len(q) + 1] = k
  BY AppendProperties, LenProperties
<1>2. AbortMsgs(Append(q, k)) = AbortMsgs(q)
  BY <1>1 DEF AbortMsgs
<1> QED
  BY <1>1, <1>2 DEF One

LEMMA AppendAbort ==
    ASSUME NEW q \in Seq(MsgKind), AbortMsgs(q) = {}
    PROVE  One(Append(q, "abort"))
<1>1. /\ DOMAIN q = 1 .. Len(q) /\ Len(q) \in Nat
      /\ DOMAIN Append(q, "abort") = 1 .. Len(q) + 1
      /\ \A i \in 1 .. Len(q) : Append(q, "abort")[i] = q[i]
      /\ Append(q, "abort")[Len(q) + 1] = "abort"
  BY AppendProperties, LenProperties DEF MsgKind
<1>2. AbortMsgs(Append(q, "abort")) = {Len(q) + 1}
  BY <1>1 DEF AbortMsgs
<1> QED
  BY <1>1, <1>2 DEF One

LEMMA TailAbort ==
    ASSUME NEW q \in Seq(MsgKind), q # <<>>
    PROVE  /\ AbortMsgs(q) = {} => Head(q) # "abort" /\ AbortMsgs(Tail(q)) = {}
           /\ One(q) /\ Head(q) = "abort" => AbortMsgs(Tail(q)) = {}
           /\ One(q) /\ Head(q) # "abort" => One(Tail(q))
<1>1. /\ DOMAIN q = 1 .. Len(q) /\ Len(q) \in Nat \ {0}
      /\ DOMAIN Tail(q) = 1 .. Len(q) - 1
      /\ \A i \in 1 .. Len(q) - 1 : Tail(q)[i] = q[i + 1]
      /\ Head(q) = q[1]
  BY HeadTailProperties, LenProperties, EmptySeq
<1>2. AbortMsgs(q) = {} => Head(q) # "abort" /\ AbortMsgs(Tail(q)) = {}
  BY <1>1 DEF AbortMsgs
<1>3. ASSUME One(q), Head(q) = "abort" PROVE AbortMsgs(Tail(q)) = {}
  <2>1. AbortMsgs(q) = {1}
    BY <1>1, <1>3 DEF AbortMsgs, One
  <2> QED
    BY <1>1, <2>1 DEF AbortMsgs
<1>4. ASSUME One(q), Head(q) # "abort" PROVE One(Tail(q))
  <2>1. PICK i \in DOMAIN q : AbortMsgs(q) = {i}
    BY <1>4 DEF One
  <2>2. i # 1 /\ i - 1 \in DOMAIN Tail(q)
    BY <1>1, <1>4, <2>1 DEF AbortMsgs
  <2>3. AbortMsgs(Tail(q)) = {i - 1}
    BY <1>1, <2>1, <2>2 DEF AbortMsgs
  <2> QED
    BY <2>2, <2>3 DEF One
<1> QED
  BY <1>2, <1>3, <1>4

\* The band about to grant its token does not wait for an abort message.
GrantNotWaiting == tpc \in {"popw", "reg"} => ~WAIT_ABORT[tband]

AbortInv == AbortMessageAwaited /\ GrantNotWaiting

LEMMA AbortInit == Init => AbortInv
BY EmptySeq DEF Init, AbortInv, AbortMessageAwaited, GrantNotWaiting, AbortMsgs

\* What deregister_cur_cmd_req leaves on one band.
LEMMA DeregisterAbort ==
    ASSUME TypeOK, AbortMessageAwaited, NEW b \in Band, NEW notify \in BOOLEAN,
           NEW st \in [Slot -> SUBSET Flag], Deregister(b, notify, st)
    PROVE  AbortMessageAwaited'
<1> DEFINE q == msgs[b]
           cancelled == [i \in DOMAIN q |->
                           IF q[i] = "end" THEN "done" ELSE q[i]]
<1>1. q \in Seq(MsgKind) /\ DOMAIN q = 1 .. Len(q) /\ Len(q) \in Nat
  BY LenProperties DEF TypeOK
<1>2. AbortMsgs(cancelled) = AbortMsgs(q) /\ DOMAIN cancelled = DOMAIN q
  BY DEF AbortMsgs
<1>3. cancelled \in Seq(MsgKind)
  <2>1. cancelled \in [1 .. Len(q) -> MsgKind]
    BY <1>1 DEF MsgKind
  <2> QED
    BY <1>1, <2>1, SeqDef
<1>4. cur_cmd_req' = [cur_cmd_req EXCEPT ![b] = Null]
  BY DEF Deregister
<1>5. cur_cmd_req \in [Band -> SlotOrNull] /\ msgs \in [Band -> Seq(MsgKind)]
      /\ WAIT_ABORT \in [Band -> BOOLEAN]
  BY DEF TypeOK
<1>6. CASE UNCHANGED <<msgs, WAIT_ABORT>>
  BY <1>4, <1>5, <1>6 DEF AbortMessageAwaited
<1>7. CASE msgs' = [msgs EXCEPT ![b] = cancelled] /\ UNCHANGED WAIT_ABORT
  <2> SUFFICES ASSUME NEW a \in Band
               PROVE  IF WAIT_ABORT'[a]
                      THEN /\ cur_cmd_req'[a] = Null
                           /\ \E i \in DOMAIN msgs'[a] :
                                 AbortMsgs(msgs'[a]) = {i}
                      ELSE AbortMsgs(msgs'[a]) = {}
    BY DEF AbortMessageAwaited
  <2>1. DOMAIN msgs'[a] = DOMAIN msgs[a] /\ AbortMsgs(msgs'[a]) = AbortMsgs(msgs[a])
    <3>1. CASE a = b
      <4>1. msgs'[a] = cancelled
        BY <1>5, <1>7, <3>1
      <4> QED
        BY <1>2, <3>1, <4>1
    <3>2. CASE a # b
      <4>1. msgs'[a] = msgs[a]
        BY <1>5, <1>7, <3>2
      <4> QED
        BY <4>1
    <3> QED
      BY <3>1, <3>2
  <2>2. WAIT_ABORT'[a] = WAIT_ABORT[a] /\ (cur_cmd_req[a] = Null => cur_cmd_req'[a] = Null)
    BY <1>4, <1>5, <1>7
  <2> QED
    BY <2>1, <2>2 DEF AbortMessageAwaited
<1>8. CASE /\ cur_cmd_req[b] # Null
           /\ msgs' = [msgs EXCEPT ![b] = Append(cancelled, "abort")]
           /\ WAIT_ABORT' = [WAIT_ABORT EXCEPT ![b] = TRUE]
  <2>1. ~WAIT_ABORT[b] /\ AbortMsgs(q) = {}
    BY <1>8 DEF AbortMessageAwaited
  <2>2. One(Append(cancelled, "abort"))
    BY <1>2, <1>3, <2>1, AppendAbort
  <2> SUFFICES ASSUME NEW a \in Band
               PROVE  IF WAIT_ABORT'[a]
                      THEN /\ cur_cmd_req'[a] = Null
                           /\ \E i \in DOMAIN msgs'[a] :
                                 AbortMsgs(msgs'[a]) = {i}
                      ELSE AbortMsgs(msgs'[a]) = {}
    BY DEF AbortMessageAwaited
  <2>3. CASE a = b
    <3>1. /\ msgs'[a] = Append(cancelled, "abort") /\ WAIT_ABORT'[a]
          /\ cur_cmd_req'[a] = Null
      BY <1>4, <1>5, <1>8, <2>3
    <3> QED
      BY <2>2, <3>1 DEF One
  <2>4. CASE a # b
    <3>1. /\ msgs'[a] = msgs[a] /\ WAIT_ABORT'[a] = WAIT_ABORT[a]
          /\ cur_cmd_req'[a] = cur_cmd_req[a]
      BY <1>4, <1>5, <1>8, <2>4
    <3> QED
      BY <3>1 DEF AbortMessageAwaited
  <2> QED
    BY <2>3, <2>4
<1> QED
  BY <1>6, <1>7, <1>8 DEF Deregister

\* A message of another kind is queued on, or taken from, band b.
LEMMA OtherMsgAbort ==
    ASSUME TypeOK, AbortMessageAwaited, NEW b \in Band,
           UNCHANGED <<cur_cmd_req, WAIT_ABORT>>,
           \/ \E k \in MsgKind \ {"abort"} :
                 msgs' = [msgs EXCEPT ![b] = Append(@, k)]
           \/ /\ msgs[b] # <<>> /\ Head(msgs[b]) # "abort"
              /\ msgs' = [msgs EXCEPT ![b] = Tail(@)]
    PROVE  AbortMessageAwaited'
<1>1. msgs \in [Band -> Seq(MsgKind)]
  BY DEF TypeOK
<1>2. /\ AbortMsgs(msgs[b]) = {} => AbortMsgs(msgs'[b]) = {}
      /\ One(msgs[b]) => One(msgs'[b])
  <2>1. ASSUME NEW k \in MsgKind \ {"abort"},
               msgs' = [msgs EXCEPT ![b] = Append(@, k)]
        PROVE  /\ AbortMsgs(msgs[b]) = {} => AbortMsgs(msgs'[b]) = {}
               /\ One(msgs[b]) => One(msgs'[b])
    <3>1. msgs'[b] = Append(msgs[b], k) /\ msgs[b] \in Seq(MsgKind)
      BY <1>1, <2>1
    <3> QED
      BY <3>1, AppendOther
  <2>2. CASE /\ msgs[b] # <<>> /\ Head(msgs[b]) # "abort"
             /\ msgs' = [msgs EXCEPT ![b] = Tail(@)]
    <3>1. msgs'[b] = Tail(msgs[b]) /\ msgs[b] \in Seq(MsgKind)
      BY <1>1, <2>2
    <3> QED
      BY <2>2, <3>1, TailAbort
  <2> QED
    BY <2>1, <2>2
<1>3. \A a \in Band : a # b => msgs'[a] = msgs[a]
  BY <1>1
<1> QED
  BY <1>2, <1>3 DEF AbortMessageAwaited, One

LEMMA ThreadAbortStep == TypeInv /\ AbortInv /\ ThreadStep => AbortInv'
<1> SUFFICES ASSUME TypeInv, AbortInv, ThreadStep PROVE AbortInv'
  OBVIOUS
<1> USE DEF Goto, reqVars, opVars, tokenVars, bandFlags, threadVars
<1>a. /\ TypeOK /\ tband \in Band /\ cur_cmd_req \in [Band -> SlotOrNull]
      /\ msgs \in [Band -> Seq(MsgKind)] /\ WAIT_ABORT \in [Band -> BOOLEAN]
  BY DEF TypeInv, TypeOK
<1>b. AbortMessageAwaited /\ GrantNotWaiting
  BY DEF AbortInv
\* The steps that change neither the messages nor the current request.
<1>1. ASSUME UNCHANGED <<msgs, WAIT_ABORT, cur_cmd_req>>,
             \/ tpc' \notin {"popw", "reg"}
             \/ ~WAIT_ABORT[tband] /\ tband' = tband
      PROVE  AbortInv'
  BY <1>1, <1>b DEF AbortInv, AbortMessageAwaited, GrantNotWaiting
<1>2. CASE ThreadWake
  BY <1>1, <1>2 DEF ThreadWake
<1>3. CASE ThreadLoop
  BY <1>1, <1>3 DEF ThreadLoop
<1>4. CASE ThreadNoOp
  BY <1>1, <1>4 DEF ThreadNoOp
<1>5. CASE ThreadPopOp
  BY <1>1, <1>5 DEF ThreadPopOp
<1>6. CASE HandleAdd
  BY <1>1, <1>6 DEF HandleAdd
<1>7. CASE HandleCancelWaiting
  BY <1>1, <1>7 DEF HandleCancelWaiting
<1>8. CASE ProcBusy
  BY <1>1, <1>8 DEF ProcBusy
<1>9. CASE ProcBlocked
  BY <1>1, <1>9 DEF ProcBlocked
<1>10. CASE ProcAcquireClearance
  BY <1>1, <1>10 DEF ProcAcquireClearance
<1>11. CASE ProcPass
  BY <1>1, <1>11 DEF ProcPass
<1>12. CASE RegisterRefused
  BY <1>1, <1>12 DEF RegisterRefused
<1>13. CASE ThreadUsed
  BY <1>1, <1>13 DEF ThreadUsed
<1>14. CASE ThreadNoMsg
  BY <1>1, <1>14 DEF ThreadNoMsg, NextBand
<1>20. CASE HandleFree
  <2>1. CASE "RUN" \in status[tband][top.info[2]]
    <3>1. status[tband] \in [Slot -> SUBSET Flag]
      BY <1>a DEF TypeOK
    <3>2. Deregister(tband, FALSE, status[tband]) /\ tpc' = "proc"
      BY <1>20, <2>1 DEF HandleFree
    <3> QED
      BY <1>a, <1>b, <3>1, <3>2, DeregisterAbort DEF AbortInv, GrantNotWaiting
  <2>2. CASE "RUN" \notin status[tband][top.info[2]]
    BY <1>1, <1>20, <2>2 DEF HandleFree
  <2> QED
    BY <2>1, <2>2
<1>21. CASE HandleCancelRunning
  <2> DEFINE s == top.info[2]
             st == [status[tband] EXCEPT ![s] = @ \cup {"CANCEL"}]
  <2>1. CASE "RUN" \in status[tband][s]
    <3>1. s \in Slot
      BY <1>a, <1>21, OpFacts DEF HandleCancelRunning, TypeOK
    <3>2. st \in [Slot -> SUBSET Flag]
      BY <1>a, <3>1 DEF TypeOK, Flag
    <3>3. Deregister(tband, TRUE, st) /\ tpc' = "proc"
      BY <1>21, <2>1 DEF HandleCancelRunning
    <3> QED
      BY <1>a, <1>b, <3>2, <3>3, DeregisterAbort DEF AbortInv, GrantNotWaiting
  <2>2. CASE "RUN" \notin status[tband][s]
    BY <1>1, <1>21, <2>2 DEF HandleCancelRunning
  <2> QED
    BY <2>1, <2>2
<1>22. ASSUME SendPhy(tband), UNCHANGED <<cur_cmd_req, WAIT_ABORT>>
       PROVE  AbortMessageAwaited'
  <2>1. CASE Len(msgs[tband]) < MaxMsg
    <3>1. msgs' = [msgs EXCEPT ![tband] = Append(@, "phy")]
      BY <1>22, <2>1 DEF SendPhy
    <3> QED
      BY <1>a, <1>b, <1>22, <3>1, OtherMsgAbort DEF MsgKind
  <2>2. CASE ~(Len(msgs[tband]) < MaxMsg)
    BY <1>b, <1>22, <2>2 DEF SendPhy, AbortMessageAwaited
  <2> QED
    BY <2>1, <2>2
<1>23. CASE ProcIdle
  <2>1. CASE NOTIFY_IDLE[tband]
    BY <1>1, <1>23, <2>1 DEF ProcIdle
  <2>2. CASE ~NOTIFY_IDLE[tband]
    BY <1>22, <1>23, <2>2 DEF ProcIdle, AbortInv, GrantNotWaiting
  <2> QED
    BY <2>1, <2>2
<1>24. CASE ProcPopReq
  <2>1. ~WAIT_ABORT[tband] /\ tband' = tband
    BY <1>b, <1>24 DEF ProcPopReq, GrantNotWaiting
  <2>2. CASE ~NOTIFY_IDLE[tband]
    BY <1>1, <1>24, <2>1, <2>2 DEF ProcPopReq
  <2>3. CASE NOTIFY_IDLE[tband]
    BY <1>22, <1>24, <2>1, <2>3 DEF ProcPopReq, AbortInv, GrantNotWaiting
  <2> QED
    BY <2>2, <2>3
<1>25. CASE Register
  <2>1. ~WAIT_ABORT[tband]
    BY <1>b, <1>25 DEF Register, GrantNotWaiting
  <2>2. AbortMessageAwaited'
    <3>1. /\ cur_cmd_req' = [cur_cmd_req EXCEPT ![tband] = tex]
          /\ UNCHANGED <<msgs, WAIT_ABORT>>
      BY <1>25 DEF Register
    <3> QED
      BY <1>a, <1>b, <2>1, <3>1 DEF AbortMessageAwaited
  <2> QED
    BY <1>25, <2>2 DEF Register, AbortInv, GrantNotWaiting
<1>26. ASSUME NextBand PROVE tpc' \notin {"popw", "reg"}
  BY <1>26 DEF NextBand
<1>27. CASE MsgPlain
  <2>1. /\ msgs[tband] # <<>> /\ Head(msgs[tband]) # "abort"
        /\ msgs' = [msgs EXCEPT ![tband] = Tail(@)]
    BY <1>27 DEF MsgPlain, PopMsg
  <2> QED
    BY <1>a, <1>b, <1>26, <1>27, <2>1, OtherMsgAbort
    DEF MsgPlain, AbortInv, GrantNotWaiting
<1>28. CASE MsgEnd
  <2>1. /\ msgs[tband] # <<>> /\ Head(msgs[tband]) # "abort"
        /\ msgs' = [msgs EXCEPT ![tband] = Tail(@)]
    BY <1>28 DEF MsgEnd, PopMsg
  <2> QED
    BY <1>a, <1>b, <1>26, <1>28, <2>1, OtherMsgAbort
    DEF MsgEnd, AbortInv, GrantNotWaiting
<1>29. CASE MsgAbort
  <2>1. /\ msgs[tband] # <<>> /\ Head(msgs[tband]) = "abort"
        /\ msgs' = [msgs EXCEPT ![tband] = Tail(msgs[tband])]
        /\ WAIT_ABORT' = [WAIT_ABORT EXCEPT ![tband] = FALSE]
        /\ UNCHANGED cur_cmd_req
    BY <1>29 DEF MsgAbort, PopMsg
  <2>2. AbortMsgs(Tail(msgs[tband])) = {}
    <3>1. msgs[tband] \in Seq(MsgKind)
      BY <1>a
    <3>2. One(msgs[tband]) \/ AbortMsgs(msgs[tband]) = {}
      BY <1>a, <1>b DEF AbortMessageAwaited, One
    <3> QED
      BY <2>1, <3>1, <3>2, TailAbort
  <2>3. AbortMessageAwaited'
    <3> SUFFICES ASSUME NEW a \in Band
                 PROVE  IF WAIT_ABORT'[a]
                        THEN /\ cur_cmd_req'[a] = Null
                             /\ \E i \in DOMAIN msgs'[a] :
                                   AbortMsgs(msgs'[a]) = {i}
                        ELSE AbortMsgs(msgs'[a]) = {}
      BY DEF AbortMessageAwaited
    <3>1. CASE a = tband
      <4>1. ~WAIT_ABORT'[a] /\ msgs'[a] = Tail(msgs[tband])
        BY <1>a, <2>1, <3>1
      <4> QED
        BY <2>2, <4>1
    <3>2. CASE a # tband
      <4>1. WAIT_ABORT'[a] = WAIT_ABORT[a] /\ msgs'[a] = msgs[a]
        BY <1>a, <2>1, <3>2
      <4> QED
        BY <1>b, <2>1, <4>1 DEF AbortMessageAwaited
    <3> QED
      BY <3>1, <3>2
  <2> QED
    BY <1>26, <1>29, <2>3 DEF MsgAbort, AbortInv, GrantNotWaiting
<1> QED
  BY <1>2, <1>3, <1>4, <1>5, <1>6, <1>7, <1>8, <1>9, <1>10, <1>11, <1>12,
     <1>13, <1>14, <1>20, <1>21, <1>23, <1>24, <1>25, <1>27, <1>28, <1>29
  DEF ThreadStep

LEMMA AbortStep == TypeInv /\ AbortInv /\ [Next]_vars => AbortInv'
<1> SUFFICES ASSUME TypeInv, AbortInv, [Next]_vars PROVE AbortInv'
  OBVIOUS
<1> USE DEF reqVars, opVars, tokenVars, bandFlags, threadVars
<1>a. /\ TypeOK /\ AbortMessageAwaited /\ GrantNotWaiting
      /\ msgs \in [Band -> Seq(MsgKind)]
  BY DEF TypeInv, TypeOK, AbortInv
<1>1. CASE UNCHANGED <<msgs, WAIT_ABORT, cur_cmd_req, tpc, tband>>
  BY <1>1, <1>a DEF AbortInv, AbortMessageAwaited, GrantNotWaiting
<1>2. ASSUME NEW c \in Client, ClientStep(c) PROVE AbortInv'
  BY <1>1, <1>2 DEF ClientStep, AddPopIdle, AddPushWait, AddSetEnq,
     AddLoadStatus, AddStoreStatus, AddEnqueue, CancelCheck, CancelEnqueue
<1>3. ASSUME NEW b \in Band, SendEnd(b) PROVE AbortInv'
  <2>1. msgs' = [msgs EXCEPT ![b] = Append(@, "end")]
    BY <1>3 DEF SendEnd
  <2> QED
    BY <1>3, <1>a, <2>1, OtherMsgAbort
    DEF SendEnd, AbortInv, GrantNotWaiting, MsgKind
<1>4. CASE Watchdog
  <2>1. msgs' = [msgs EXCEPT ![0] = Append(@, "wd")] /\ 0 \in Band
    BY <1>4, BandAssumption DEF Watchdog
  <2> QED
    BY <1>4, <1>a, <2>1, OtherMsgAbort
    DEF Watchdog, AbortInv, GrantNotWaiting, MsgKind
<1>5. CASE UNCHANGED vars
  BY <1>1, <1>5 DEF vars
<1> QED
  BY <1>2, <1>3, <1>4, <1>5, ThreadAbortStep DEF Next

LEMMA AbortInvariant == Spec => []AbortInv
<1>1. TypeInv /\ AbortInv /\ [Next]_vars => AbortInv'
  BY AbortStep
<1> QED
  BY <1>1, AbortInit, TypeInvariant, PTL DEF Spec

\* The wait for the last message of an aborted command always has that one
\* message to end it, whatever the pool sizes and however many clients cancel:
\* push_back_idle_msg meets exactly one FOR_ABORT message per
\* DISPR_WAIT_ABORT_MSG_DONE, and no other command runs in between.
THEOREM AbortMessageCorrect == Spec => []AbortMessageAwaited
<1>1. AbortInv => AbortMessageAwaited
  BY DEF AbortInv
<1> QED
  BY <1>1, AbortInvariant, PTL

-----------------------------------------------------------------------------
(* The token and the clearance handshake                                   *)

\* The band about to grant its token runs no command and is not being cleared.
GrantClear ==
    tpc \in {"popw", "reg"} => cur_cmd_req[tband] = Null /\ ~CLEARANCE[tband]

TokenInv == /\ TokenCountExact
            /\ NoMutualClearance
            /\ ExclusiveIsolated
            /\ GrantClear

\* The step relation of ClearanceHeld.
HeldStep ==
    \A b \in Band :
        EXCLUSIVE_USE[b] /\ Dual /\ cur_cmd_req[b] # Null
                         /\ cur_cmd_req'[b] = cur_cmd_req[b]
            => EXCLUSIVE_USE'[b] /\ CLEARANCE'[Other(b)]

LEMMA TokenInit == Init => TokenInv
BY BandAssumption
DEF Init, TokenInv, TokenCountExact, NoMutualClearance, ExclusiveIsolated,
    GrantClear, Dual

LEMMA TwoBandsFacts ==
    ASSUME Dual
    PROVE  /\ 0 \in Band /\ 1 \in Band
           /\ \A b \in Band : /\ b \in {0, 1} /\ Other(b) \in Band
                              /\ Other(b) # b /\ Other(Other(b)) = b
                              /\ \A a \in Band : a = b \/ a = Other(b)
BY DEF Dual, Other

\* A step that moves neither a token nor a flag.
LEMMA QuietStep ==
    ASSUME TypeOK, TokenInv,
           UNCHANGED <<token_cnt, cur_cmd_req, CLEARANCE, EXCLUSIVE_USE>>,
           \/ tpc' \notin {"popw", "reg"}
           \/ tpc \in {"popw", "reg"} /\ tband' = tband
    PROVE  TokenInv' /\ HeldStep
<1>1. TokenInv'
  BY DEF TokenInv, TokenCountExact, NoMutualClearance, ExclusiveIsolated,
     GrantClear
<1>2. HeldStep
  BY TwoBandsFacts DEF HeldStep, TokenInv, ExclusiveIsolated
<1> QED
  BY <1>1, <1>2

\* A band that is being cleared and runs no command reports so.
LEMMA ReportStep ==
    ASSUME TypeOK, TokenInv, NEW b \in Band, CLEARANCE[b],
           cur_cmd_req[b] = Null, ExclusiveReady(Other(b)),
           UNCHANGED <<token_cnt, cur_cmd_req, CLEARANCE>>,
           tpc' \notin {"popw", "reg"}
    PROVE  TokenInv' /\ HeldStep
<1>1. TokenCountExact' /\ NoMutualClearance' /\ GrantClear'
  BY DEF TokenInv, TokenCountExact, NoMutualClearance, GrantClear
<1>2. ASSUME Dual
      PROVE  /\ \A a \in Band : EXCLUSIVE_USE'[a] => a = Other(b) \/ EXCLUSIVE_USE[a]
             /\ \A a \in Band : EXCLUSIVE_USE[a] => EXCLUSIVE_USE'[a]
  BY <1>2, TwoBandsFacts DEF ExclusiveReady, TypeOK
<1>3. ExclusiveIsolated'
  BY <1>2, TwoBandsFacts DEF ExclusiveIsolated, TokenInv
<1>4. HeldStep
  BY <1>2, TwoBandsFacts DEF HeldStep, ExclusiveIsolated, TokenInv
<1> QED
  BY <1>1, <1>3, <1>4 DEF TokenInv

\* The token of a band comes back, with or without cmd_token_complete.
LEMMA CompleteStep ==
    ASSUME TypeOK, TokenInv, NEW b \in Band, NEW B,
           CmdTokenComplete(b, B) \/ UNCHANGED <<CLEARANCE, EXCLUSIVE_USE>>,
           cur_cmd_req' = [cur_cmd_req EXCEPT ![b] = Null],
           token_cnt' = [token_cnt EXCEPT ![b] = 0],
           tpc' \notin {"popw", "reg"}
    PROVE  TokenInv' /\ HeldStep
<1>1. GrantClear'
  BY DEF GrantClear
<1>2. TokenCountExact'
  BY DEF TokenCountExact, TokenInv, TypeOK
<1>3. CASE ~Dual
  BY <1>1, <1>2, <1>3
  DEF TokenInv, NoMutualClearance, ExclusiveIsolated, HeldStep
<1>4. CASE Dual
  <2> DEFINE o == Other(b)
  <2>1. /\ o \in Band /\ o # b /\ Other(o) = b
        /\ \A a \in Band : a = b \/ a = o
    BY <1>4, TwoBandsFacts
  <2>2. /\ \A a \in Band : EXCLUSIVE_USE[a] =>
              CLEARANCE[Other(a)] /\ cur_cmd_req[Other(a)] = Null
        /\ ~(CLEARANCE[b] /\ CLEARANCE[o])
    BY <1>4, <2>1, TwoBandsFacts
    DEF TokenInv, ExclusiveIsolated, NoMutualClearance, Dual, Other
  <2>3. /\ cur_cmd_req'[b] = Null /\ cur_cmd_req'[o] = cur_cmd_req[o]
    BY <2>1 DEF TypeOK
  <2>4. /\ CLEARANCE'[b] = CLEARANCE[b] /\ (CLEARANCE'[o] => CLEARANCE[o])
        /\ EXCLUSIVE_USE'[b] => EXCLUSIVE_USE[b] /\ CLEARANCE'[o]
        /\ EXCLUSIVE_USE'[o] => EXCLUSIVE_USE[o] \/ CLEARANCE[b]
        /\ EXCLUSIVE_USE[o] => EXCLUSIVE_USE'[o]
    <3>1. CASE UNCHANGED <<CLEARANCE, EXCLUSIVE_USE>>
      BY <2>1, <2>2, <3>1
    <3>2. CASE CmdTokenComplete(b, B)
      BY <1>4, <2>1, <3>2 DEF CmdTokenComplete, TypeOK
    <3> QED
      BY <3>1, <3>2
  <2>5. NoMutualClearance'
    BY <1>4, <2>1, <2>2, <2>4, TwoBandsFacts DEF NoMutualClearance, Other
  <2>6. ExclusiveIsolated'
    <3> SUFFICES ASSUME NEW a \in Band, EXCLUSIVE_USE'[a]
                 PROVE  CLEARANCE'[Other(a)] /\ cur_cmd_req'[Other(a)] = Null
      BY <1>4 DEF ExclusiveIsolated
    <3>1. CASE a = b
      BY <2>1, <2>2, <2>3, <2>4, <3>1
    <3>2. CASE a = o
      BY <2>1, <2>2, <2>3, <2>4, <3>2
    <3> QED
      BY <2>1, <3>1, <3>2
  <2>7. HeldStep
    <3> SUFFICES ASSUME NEW a \in Band, EXCLUSIVE_USE[a], cur_cmd_req[a] # Null,
                        cur_cmd_req'[a] = cur_cmd_req[a]
                 PROVE  EXCLUSIVE_USE'[a] /\ CLEARANCE'[Other(a)]
      BY DEF HeldStep
    <3>1. a = o
      BY <2>1, <2>3
    <3> QED
      BY <2>1, <2>2, <2>4, <3>1
  <2> QED
    BY <1>1, <1>2, <2>5, <2>6, <2>7 DEF TokenInv
<1> QED
  BY <1>3, <1>4

\* deregister_cur_cmd_req is a step of that kind.
LEMMA DeregisterStep ==
    ASSUME TypeOK, TokenInv, NEW b \in Band, NEW notify \in BOOLEAN, NEW st,
           Deregister(b, notify, st), tpc' \notin {"popw", "reg"}
    PROVE  TokenInv' /\ HeldStep
<1>1. CmdTokenComplete(b, {}) \/ UNCHANGED <<CLEARANCE, EXCLUSIVE_USE>>
  BY DEF Deregister
<1>2. cur_cmd_req' = [cur_cmd_req EXCEPT ![b] = Null]
  BY DEF Deregister
<1>3. token_cnt' = [token_cnt EXCEPT ![b] = 0]
  <2>1. token_cnt[b] = IF cur_cmd_req[b] = Null THEN 0 ELSE 1
    BY DEF TokenInv, TokenCountExact
  <2>2. CASE cur_cmd_req[b] = Null
    BY <2>1, <2>2 DEF Deregister, TypeOK
  <2>3. CASE cur_cmd_req[b] # Null
    BY <2>1, <2>3 DEF Deregister, TypeOK
  <2> QED
    BY <2>2, <2>3
<1> QED
  BY <1>1, <1>2, <1>3, CompleteStep

LEMMA ThreadTokenStep ==
    ASSUME TypeInv, AbortInv, TokenInv, ThreadStep
    PROVE  TokenInv' /\ HeldStep
<1> USE DEF Goto, reqVars, opVars, tokenVars, bandFlags, threadVars
<1>a. /\ TypeOK /\ tband \in Band /\ cur_cmd_req \in [Band -> SlotOrNull]
      /\ token_cnt \in [Band -> Int]
  BY DEF TypeInv, TypeOK
<1>b. token_cnt[tband] = IF cur_cmd_req[tband] = Null THEN 0 ELSE 1
  BY <1>a DEF TokenInv, TokenCountExact
<1>c. ASSUME NextBand PROVE tpc' \notin {"popw", "reg"}
  BY <1>c DEF NextBand
<1>1. CASE ThreadNoOp
  BY <1>a, <1>1, QuietStep DEF ThreadNoOp
<1>2. CASE ThreadPopOp
  BY <1>a, <1>2, QuietStep DEF ThreadPopOp
<1>3. CASE HandleAdd
  BY <1>a, <1>3, QuietStep DEF HandleAdd
<1>4. CASE HandleCancelWaiting
  BY <1>a, <1>4, QuietStep DEF HandleCancelWaiting
<1>5. CASE ProcBusy
  BY <1>a, <1>5, QuietStep DEF ProcBusy
<1>6. CASE ProcIdle
  BY <1>a, <1>6, QuietStep DEF ProcIdle
<1>7. CASE ProcPopReq
  BY <1>a, <1>7, QuietStep DEF ProcPopReq
<1>8. CASE ThreadUsed
  BY <1>a, <1>8, QuietStep DEF ThreadUsed
<1>9. CASE ThreadNoMsg
  BY <1>a, <1>c, <1>9, QuietStep DEF ThreadNoMsg
<1>10. CASE MsgPlain
  BY <1>a, <1>c, <1>10, QuietStep DEF MsgPlain
<1>11. CASE MsgEnd
  BY <1>a, <1>c, <1>11, QuietStep DEF MsgEnd
<1>19. CASE ThreadWake
  BY <1>a, <1>19, QuietStep DEF ThreadWake
<1>20. CASE ThreadLoop
  <2>1. CASE CLEARANCE[tband] /\ op_q[tband] = <<>> /\ token_cnt[tband] = 0
    <3>1. cur_cmd_req[tband] = Null
      BY <1>b, <2>1
    <3> QED
      BY <1>a, <1>20, <2>1, <3>1, ReportStep DEF ThreadLoop
  <2>2. CASE ~(CLEARANCE[tband] /\ op_q[tband] = <<>> /\ token_cnt[tband] = 0)
    BY <1>a, <1>20, <2>2, QuietStep DEF ThreadLoop
  <2> QED
    BY <2>1, <2>2
<1>21. CASE ProcBlocked
  <2>1. cur_cmd_req[tband] = Null
    BY <1>b, <1>21 DEF ProcBlocked
  <2> QED
    BY <1>a, <1>21, <2>1, ReportStep DEF ProcBlocked
<1>22. CASE ProcAcquireClearance
  <2>1. tpc' = "used" /\ UNCHANGED <<token_cnt, cur_cmd_req, EXCLUSIVE_USE>>
    BY <1>22 DEF ProcAcquireClearance
  <2>2. TokenCountExact' /\ GrantClear'
    BY <2>1 DEF TokenInv, TokenCountExact, GrantClear
  <2>3. /\ ~CLEARANCE[tband]
        /\ CLEARANCE' = [b \in Band |-> b = Other(tband) \/ CLEARANCE[b]]
    BY <1>22 DEF ProcAcquireClearance
  <2>4. NoMutualClearance'
    BY <1>a, <2>3, TwoBandsFacts DEF NoMutualClearance, Other
  <2>5. \A b \in Band : CLEARANCE[b] => CLEARANCE'[b]
    BY <2>3
  <2>6. ExclusiveIsolated' /\ HeldStep
    BY <2>1, <2>5, TwoBandsFacts DEF TokenInv, ExclusiveIsolated, HeldStep
  <2> QED
    BY <2>2, <2>4, <2>6 DEF TokenInv
<1>23. CASE ProcPass
  <2>1. /\ tpc' = "popw" /\ cur_cmd_req[tband] = Null /\ ~CLEARANCE[tband]
        /\ UNCHANGED <<token_cnt, cur_cmd_req, CLEARANCE, EXCLUSIVE_USE, tband>>
    BY <1>b, <1>23 DEF ProcPass
  <2>2. TokenCountExact' /\ NoMutualClearance' /\ GrantClear'
    BY <2>1 DEF TokenInv, TokenCountExact, NoMutualClearance, GrantClear
  <2>3. ExclusiveIsolated'
    BY <1>a, <2>1, TwoBandsFacts DEF TokenInv, ExclusiveIsolated
  <2>4. HeldStep
    BY <2>1, TwoBandsFacts DEF TokenInv, ExclusiveIsolated, HeldStep
  <2> QED
    BY <2>2, <2>3, <2>4 DEF TokenInv
<1>24. CASE Register
  <2>1. /\ cur_cmd_req[tband] = Null /\ ~CLEARANCE[tband] /\ token_cnt[tband] = 0
    BY <1>b, <1>24 DEF Register, TokenInv, GrantClear
  <2>2. tex # Null
    BY <1>24, SlotNumbers DEF Register, TypeInv, PoppedHasSlot
  <2>3. /\ cur_cmd_req' = [cur_cmd_req EXCEPT ![tband] = tex]
        /\ token_cnt' = [token_cnt EXCEPT ![tband] = token_cnt[tband] + 1]
        /\ tpc' = "used" /\ UNCHANGED <<CLEARANCE, EXCLUSIVE_USE>>
    BY <1>24 DEF Register
  <2>4. TokenCountExact'
    BY <1>a, <2>1, <2>2, <2>3 DEF TokenInv, TokenCountExact
  <2>5. NoMutualClearance' /\ GrantClear'
    BY <2>3 DEF TokenInv, NoMutualClearance, GrantClear
  <2>6. ExclusiveIsolated'
    BY <1>a, <2>1, <2>3, TwoBandsFacts DEF TokenInv, ExclusiveIsolated
  <2>7. HeldStep
    BY <2>3, TwoBandsFacts DEF TokenInv, ExclusiveIsolated, HeldStep
  <2> QED
    BY <2>4, <2>5, <2>6, <2>7 DEF TokenInv
<1>25. CASE RegisterRefused
  <2>1. cur_cmd_req[tband] = Null /\ token_cnt[tband] = 0
    BY <1>b, <1>25 DEF RegisterRefused, TokenInv, GrantClear
  <2>2. /\ cur_cmd_req' = [cur_cmd_req EXCEPT ![tband] = Null]
        /\ token_cnt' = [token_cnt EXCEPT ![tband] = 0]
        /\ tpc' = "proc" /\ CmdTokenComplete(tband, {})
    BY <1>a, <1>25, <2>1 DEF RegisterRefused
  <2> QED
    BY <1>a, <2>2, CompleteStep
<1>26. CASE HandleFree
  <2>1. CASE "RUN" \in status[tband][top.info[2]]
    <3>1. Deregister(tband, FALSE, status[tband]) /\ tpc' = "proc"
      BY <1>26, <2>1 DEF HandleFree
    <3> QED
      BY <1>a, <3>1, DeregisterStep
  <2>2. CASE "RUN" \notin status[tband][top.info[2]]
    BY <1>a, <1>26, <2>2, QuietStep DEF HandleFree
  <2> QED
    BY <2>1, <2>2
<1>27. CASE HandleCancelRunning
  <2> DEFINE s == top.info[2]
             st == [status[tband] EXCEPT ![s] = @ \cup {"CANCEL"}]
  <2>1. CASE "RUN" \in status[tband][s]
    <3>1. Deregister(tband, TRUE, st) /\ tpc' = "proc"
      BY <1>27, <2>1 DEF HandleCancelRunning
    <3> QED
      BY <1>a, <3>1, DeregisterStep
  <2>2. CASE "RUN" \notin status[tband][s]
    BY <1>a, <1>27, <2>2, QuietStep DEF HandleCancelRunning
  <2> QED
    BY <2>1, <2>2
\* The awaited abort message was queued when the command had gone.
<1>28. CASE MsgAbort
  <2>1. msgs[tband] # <<>> /\ Head(msgs[tband]) = "abort" /\ NextBand
    BY <1>28 DEF MsgAbort, PopMsg
  <2>2. WAIT_ABORT[tband]
    <3>1. msgs[tband] \in Seq(MsgKind)
      BY DEF TypeInv, TypeOK
    <3>2. AbortMsgs(msgs[tband]) # {}
      BY <2>1, <3>1, TailAbort
    <3> QED
      BY <1>a, <3>2 DEF AbortInv, AbortMessageAwaited
  <2>3. cur_cmd_req[tband] = Null /\ token_cnt[tband] = 0
    BY <1>a, <1>b, <2>2 DEF AbortInv, AbortMessageAwaited
  <2>4. /\ cur_cmd_req' = [cur_cmd_req EXCEPT ![tband] = Null]
        /\ token_cnt' = [token_cnt EXCEPT ![tband] = 0]
        /\ CmdTokenComplete(tband, {tband})
    BY <1>a, <1>28, <2>3 DEF MsgAbort
  <2> QED
    BY <1>a, <1>c, <2>1, <2>4, CompleteStep
<1> QED
  BY <1>1, <1>2, <1>3, <1>4, <1>5, <1>6, <1>7, <1>8, <1>9, <1>10, <1>11, <1>19,
     <1>20, <1>21, <1>22, <1>23, <1>24, <1>25, <1>26, <1>27, <1>28
  DEF ThreadStep

LEMMA TokenStep ==
    ASSUME TypeInv, AbortInv, TokenInv, [Next]_vars
    PROVE  TokenInv' /\ HeldStep
<1> USE DEF reqVars, opVars, tokenVars, bandFlags, threadVars
<1>a. TypeOK
  BY DEF TypeInv
<1>1. CASE UNCHANGED <<token_cnt, cur_cmd_req, CLEARANCE, EXCLUSIVE_USE, tpc, tband>>
  BY <1>a, <1>1, QuietStep
<1>2. ASSUME NEW c \in Client, ClientStep(c) PROVE TokenInv' /\ HeldStep
  BY <1>1, <1>2 DEF ClientStep, AddPopIdle, AddPushWait, AddSetEnq,
     AddLoadStatus, AddStoreStatus, AddEnqueue, CancelCheck, CancelEnqueue
<1>3. ASSUME NEW b \in Band, SendEnd(b) PROVE TokenInv' /\ HeldStep
  BY <1>1, <1>3 DEF SendEnd
<1>4. CASE Watchdog
  BY <1>1, <1>4 DEF Watchdog
<1>5. CASE UNCHANGED vars
  BY <1>1, <1>5 DEF vars
<1> QED
  BY <1>2, <1>3, <1>4, <1>5, ThreadTokenStep DEF Next

LEMMA TokenInvariant == Spec => []TokenInv
<1>1. TypeInv /\ AbortInv /\ TokenInv /\ [Next]_vars => TokenInv'
  BY TokenStep
<1> QED
  BY <1>1, TokenInit, TypeInvariant, AbortInvariant, PTL DEF Spec

\* token_cnt is 1 while a band runs a command and 0 otherwise, through every
\* refusal, cancel, abort and free of every number of clients.
THEOREM TokenCountCorrect == Spec => []TokenCountExact
<1>1. TokenInv => TokenCountExact
  BY DEF TokenInv
<1> QED
  BY <1>1, TokenInvariant, PTL

\* The two dispatchers never ask each other for clearance at the same time, so
\* neither DISPR_CLEARANCE blocks the band that set the other one.
THEOREM NoMutualClearanceCorrect == Spec => []NoMutualClearance
<1>1. TokenInv => NoMutualClearance
  BY DEF TokenInv
<1> QED
  BY <1>1, TokenInvariant, PTL

\* DISPR_EXCLUSIVE_USE of a band means what dispr_process_token_req takes it
\* for: the other band is marked to be cleared, runs no command and is not about
\* to grant its token.
THEOREM ExclusiveIsolatedCorrect == Spec => []ExclusiveIsolated
<1>1. TokenInv => ExclusiveIsolated
  BY DEF TokenInv
<1> QED
  BY <1>1, TokenInvariant, PTL

\* No step takes the exclusive use from a running command, nor the clearance
\* from under it.
THEOREM ClearanceHeldCorrect == Spec => ClearanceHeld
<1>1. TypeInv /\ AbortInv /\ TokenInv /\ [Next]_vars => [HeldStep]_vars
  BY TokenStep
<1>2. Spec => [][HeldStep]_vars
  BY <1>1, TypeInvariant, AbortInvariant, TokenInvariant, PTL DEF Spec
<1> QED
  BY <1>2 DEF ClearanceHeld, HeldStep

-----------------------------------------------------------------------------
(* The wake-ups of the share thread                                        *)

\* The current round of the share thread still visits the messages, or the
\* operations, of band b.
MsgDue(b) == tpc # "wait" /\ b >= tband
OpDue(b) == tpc # "wait" /\ (b > tband \/ (b = tband /\ tpc # "msg"))

\* Every message is paid for by a count of msg_q_sema or by the running round;
\* so is a non-empty token_op_q.
WakeInv ==
    \A b \in Band :
        /\ Len(msgs[b]) <= sema + (IF MsgDue(b) THEN 1 ELSE 0)
        /\ op_q[b] # <<>> => sema > 0 \/ OpDue(b)

\* A step that notifies the share thread of all it queues.
Notifies ==
    /\ sema' >= sema
    /\ \A b \in Band :
         /\ op_q'[b] # <<>> => op_q[b] # <<>> \/ sema' > 0
         /\ Len(msgs'[b]) + sema <= Len(msgs[b]) + sema'

LEMMA WakeInit == Init => WakeInv
<1> SUFFICES ASSUME Init, NEW b \in Band
             PROVE  /\ Len(msgs[b]) <= sema + (IF MsgDue(b) THEN 1 ELSE 0)
                    /\ op_q[b] # <<>> => sema > 0 \/ OpDue(b)
  BY DEF WakeInv
<1>1. msgs[b] = <<>> /\ op_q[b] = <<>> /\ sema = 0 /\ ~MsgDue(b)
  BY DEF Init, MsgDue
<1>2. Len(msgs[b]) = 0
  BY <1>1
<1> QED
  BY <1>1, <1>2

LEMMA LenFacts ==
    TypeOK => /\ sema \in Nat /\ tband \in Band /\ Band \subseteq {0, 1}
              /\ \A b \in Band : Len(msgs[b]) \in Nat /\ op_q[b] \in Seq(Op)
BY BandAssumption, LenProperties DEF TypeOK

LEMMA LenFactsNext ==
    TypeOK' => /\ sema' \in Nat /\ tband' \in Band
               /\ \A b \in Band : Len(msgs'[b]) \in Nat
BY LenProperties DEF TypeOK

LEMMA EnqueueNotifies ==
    ASSUME TypeOK, NEW b \in Band, NEW op, Enqueue(b, op)
    PROVE  /\ sema' \in Nat /\ sema' >= sema
           /\ \A a \in Band : op_q'[a] # <<>> => op_q[a] # <<>> \/ sema' > 0
BY LenFacts DEF Enqueue, TypeOK

LEMMA RenewNotifies ==
    ASSUME TypeOK, NEW B, EnqueueRenew(B)
    PROVE  /\ sema' \in Nat /\ sema' >= sema
           /\ \A a \in Band : op_q'[a] # <<>> => op_q[a] # <<>> \/ sema' > 0
<1> DEFINE fresh == {b \in B : Renew \notin used[b]}
<1>1. sema' = sema + (IF 0 \in fresh THEN 1 ELSE 0) + (IF 1 \in fresh THEN 1 ELSE 0)
  BY DEF EnqueueRenew
<1>2. sema' \in Nat /\ sema' >= sema /\ (0 \in fresh \/ 1 \in fresh => sema' > 0)
  BY <1>1, LenFacts
<1>3. \A a \in Band : a \notin fresh => op_q'[a] = op_q[a]
  BY DEF EnqueueRenew
<1> QED
  BY <1>2, <1>3, LenFacts

LEMMA CompleteNotifies ==
    ASSUME TypeOK, NEW b \in Band, NEW B,
           CmdTokenComplete(b, B)
    PROVE  /\ sema' \in Nat /\ sema' >= sema
           /\ \A a \in Band : op_q'[a] # <<>> => op_q[a] # <<>> \/ sema' > 0
BY RenewNotifies DEF CmdTokenComplete

LEMMA ReadyNotifies ==
    ASSUME TypeOK, NEW o, ExclusiveReady(o)
    PROVE  /\ sema' \in Nat /\ sema' >= sema
           /\ \A a \in Band : op_q'[a] # <<>> => op_q[a] # <<>> \/ sema' > 0
<1>1. CASE o \in Band /\ ~EXCLUSIVE_USE[o]
  BY <1>1, RenewNotifies DEF ExclusiveReady
<1>2. CASE ~(o \in Band /\ ~EXCLUSIVE_USE[o])
  BY <1>2, LenFacts DEF ExclusiveReady
<1> QED
  BY <1>1, <1>2

LEMMA SendPhyNotifies ==
    ASSUME TypeOK, NEW b \in Band, SendPhy(b), UNCHANGED op_q
    PROVE  Notifies
<1>1. msgs[b] \in Seq(MsgKind) /\ msgs \in [Band -> Seq(MsgKind)]
  BY DEF TypeOK
<1>2. Len(Append(msgs[b], "phy")) = Len(msgs[b]) + 1
  BY <1>1, AppendProperties DEF MsgKind
<1>3. CASE Len(msgs[b]) < MaxMsg
  <2>1. /\ msgs' = [msgs EXCEPT ![b] = Append(msgs[b], "phy")]
        /\ sema' = sema + 1
    BY <1>3 DEF SendPhy
  <2>2. \A a \in Band : \/ Len(msgs'[a]) = Len(msgs[a])
                        \/ Len(msgs'[a]) = Len(msgs[a]) + 1
    BY <1>1, <1>2, <2>1
  <2> QED
    BY <2>1, <2>2, LenFacts DEF Notifies
<1>4. CASE ~(Len(msgs[b]) < MaxMsg)
  BY <1>4, LenFacts DEF SendPhy, Notifies
<1> QED
  BY <1>3, <1>4

LEMMA DeregisterNotifies ==
    ASSUME TypeOK, NEW b \in Band, NEW notify \in BOOLEAN, NEW st,
           Deregister(b, notify, st)
    PROVE  Notifies
<1> DEFINE q == msgs[b]
           cancelled == [i \in DOMAIN q |->
                           IF q[i] = "end" THEN "done" ELSE q[i]]
<1>1. q \in Seq(MsgKind) /\ Len(q) \in Nat /\ msgs \in [Band -> Seq(MsgKind)]
  BY LenProperties DEF TypeOK
<1>2. cancelled \in Seq(MsgKind) /\ Len(cancelled) = Len(q)
  <2>1. cancelled \in [1 .. Len(q) -> MsgKind]
    BY <1>1 DEF MsgKind
  <2> QED
    BY <1>1, <2>1, SeqDef
<1>3. Len(Append(cancelled, "abort")) = Len(q) + 1
  BY <1>2, AppendProperties DEF MsgKind
<1>4. CASE UNCHANGED <<op_q, sema>> \/ CmdTokenComplete(b, {})
  <2>1. \/ UNCHANGED msgs
        \/ msgs' = [msgs EXCEPT ![b] = cancelled]
        \/ msgs' = [msgs EXCEPT ![b] = Append(cancelled, "abort")] /\ sema' = sema + 1
    BY DEF Deregister
  <2>2. \A a \in Band : \/ Len(msgs'[a]) = Len(msgs[a])
                        \/ Len(msgs'[a]) = Len(msgs[a]) + 1 /\ sema' = sema + 1
    <3>1. CASE UNCHANGED msgs \/ msgs' = [msgs EXCEPT ![b] = cancelled]
      BY <1>1, <1>2, <3>1
    <3>2. CASE /\ msgs' = [msgs EXCEPT ![b] = Append(cancelled, "abort")]
               /\ sema' = sema + 1
      <4>1. \A a \in Band : \/ msgs'[a] = msgs[a]
                            \/ a = b /\ msgs'[a] = Append(cancelled, "abort")
        BY <1>1, <3>2
      <4> QED
        BY <1>3, <3>2, <4>1
    <3> QED
      BY <2>1, <3>1, <3>2
  <2>3. /\ sema' \in Nat /\ sema' >= sema
        /\ \A a \in Band : op_q'[a] # <<>> => op_q[a] # <<>> \/ sema' > 0
    BY <1>4, CompleteNotifies, LenFacts
  <2>4. \A a \in Band : Len(msgs'[a]) + sema <= Len(msgs[a]) + sema'
    <3> SUFFICES ASSUME NEW a \in Band
                 PROVE  Len(msgs'[a]) + sema <= Len(msgs[a]) + sema'
      OBVIOUS
    <3>1. sema \in Nat /\ sema' \in Nat /\ Len(msgs[a]) \in Nat
      BY <2>3, LenFacts
    <3>2. \/ Len(msgs'[a]) = Len(msgs[a])
          \/ Len(msgs'[a]) = Len(msgs[a]) + 1 /\ sema' = sema + 1
      BY <2>2
    <3> HIDE DEF cancelled
    <3> QED
      BY <2>3, <3>1, <3>2
  <2> QED
    BY <2>3, <2>4 DEF Notifies
<1>5. CASE /\ msgs' = [msgs EXCEPT ![b] = Append(cancelled, "abort")]
           /\ sema' = sema + 1 /\ UNCHANGED op_q
  BY <1>1, <1>3, <1>5, LenFacts DEF Notifies
<1> QED
  BY <1>4, <1>5 DEF Deregister

\* A step within the round, or outside of it.
LEMMA NotifyStep ==
    ASSUME TypeOK, TypeOK', WakeInv, Notifies, tband' = tband,
           tpc' = "wait" <=> tpc = "wait", tpc' = "msg" => tpc = "msg"
    PROVE  WakeInv'
<1> SUFFICES ASSUME NEW b \in Band
             PROVE  /\ Len(msgs'[b]) <= sema' + (IF MsgDue(b)' THEN 1 ELSE 0)
                    /\ op_q'[b] # <<>> => sema' > 0 \/ OpDue(b)'
  BY DEF WakeInv
<1>1. /\ Len(msgs'[b]) \in Nat /\ Len(msgs[b]) \in Nat
      /\ sema \in Nat /\ sema' \in Nat /\ sema' >= sema
  BY LenFacts, LenFactsNext DEF Notifies
<1>2. (MsgDue(b)' <=> MsgDue(b)) /\ (OpDue(b) => OpDue(b)')
  BY DEF MsgDue, OpDue
<1>3. Len(msgs[b]) <= sema + (IF MsgDue(b) THEN 1 ELSE 0)
  BY DEF WakeInv
<1>4. Len(msgs'[b]) + sema <= Len(msgs[b]) + sema'
  BY DEF Notifies
<1>5. Len(msgs'[b]) <= sema' + (IF MsgDue(b)' THEN 1 ELSE 0)
  <2>1. CASE MsgDue(b)
    <3>1. Len(msgs[b]) <= sema + 1 /\ MsgDue(b)'
      BY <1>2, <1>3, <2>1
    <3> QED
      BY <1>1, <1>4, <3>1
  <2>2. CASE ~MsgDue(b)
    <3>1. Len(msgs[b]) <= sema /\ ~MsgDue(b)'
      BY <1>1, <1>2, <1>3, <2>2
    <3> QED
      BY <1>1, <1>4, <3>1
  <2> QED
    BY <2>1, <2>2
<1>6. ASSUME op_q'[b] # <<>> PROVE sema' > 0 \/ OpDue(b)'
  <2>1. op_q[b] # <<>> \/ sema' > 0
    BY <1>6 DEF Notifies
  <2>2. op_q[b] # <<>> => sema > 0 \/ OpDue(b)
    BY DEF WakeInv
  <2> QED
    BY <1>1, <1>2, <2>1, <2>2
<1> QED
  BY <1>5, <1>6

\* The share thread leaves a band after at most one of its messages.
LEMMA LeaveBandStep ==
    ASSUME TypeOK, TypeOK', WakeInv, tpc = "msg", NextBand,
           sema' >= sema,
           \A b \in Band : op_q'[b] # <<>> => op_q[b] # <<>> \/ sema' > 0,
           \A b \in Band \ {tband} : Len(msgs'[b]) = Len(msgs[b]),
           Len(msgs'[tband]) = 0 \/ Len(msgs'[tband]) = Len(msgs[tband]) - 1
    PROVE  WakeInv'
<1> SUFFICES ASSUME NEW b \in Band
             PROVE  /\ Len(msgs'[b]) <= sema' + (IF MsgDue(b)' THEN 1 ELSE 0)
                    /\ op_q'[b] # <<>> => sema' > 0 \/ OpDue(b)'
  BY DEF WakeInv
<1>1. /\ Len(msgs'[b]) \in Nat /\ Len(msgs[b]) \in Nat
      /\ sema \in Nat /\ sema' \in Nat /\ tband \in Band /\ tband' \in Band
  BY LenFacts, LenFactsNext
<1>2. /\ tband \in {0, 1} /\ b \in {0, 1} /\ (tband = LastBand => b <= tband)
      /\ \/ tpc' = "wait" /\ tband' = tband /\ tband = LastBand
         \/ tpc' = "loop" /\ tband = 0 /\ tband' = 1
  BY BandAssumption, <1>1 DEF NextBand, Goto, LastBand, Dual, Other
<1>3. Len(msgs'[b]) <= sema' + (IF MsgDue(b)' THEN 1 ELSE 0)
  <2>1. CASE b = tband
    BY <1>1, <1>2, <2>1 DEF WakeInv, MsgDue
  <2>2. CASE b # tband
    <3>1. Len(msgs'[b]) = Len(msgs[b])
      BY <2>2
    <3>2. MsgDue(b) => MsgDue(b)'
      BY <1>2, <2>2 DEF MsgDue
    <3> QED
      BY <1>1, <3>1, <3>2 DEF WakeInv
  <2> QED
    BY <2>1, <2>2
<1>4. op_q'[b] # <<>> => sema' > 0 \/ OpDue(b)'
  <2>1. OpDue(b) => OpDue(b)'
    BY <1>2 DEF OpDue
  <2> QED
    BY <1>1, <2>1 DEF WakeInv
<1> QED
  BY <1>3, <1>4

LEMMA PopMsgLen ==
    ASSUME TypeOK, NEW k, PopMsg(k)
    PROVE  /\ tpc = "msg"
           /\ \A b \in Band \ {tband} : Len(msgs'[b]) = Len(msgs[b])
           /\ Len(msgs'[tband]) = Len(msgs[tband]) - 1
<1>1. /\ msgs[tband] # <<>> /\ msgs[tband] \in Seq(MsgKind)
      /\ msgs' = [msgs EXCEPT ![tband] = Tail(msgs[tband])]
      /\ msgs \in [Band -> Seq(MsgKind)] /\ tband \in Band
  BY DEF PopMsg, TypeOK
<1>2. Len(Tail(msgs[tband])) = Len(msgs[tband]) - 1
  BY <1>1, HeadTailProperties
<1> QED
  BY <1>1, <1>2 DEF PopMsg

LEMMA ThreadWakeStep ==
    ASSUME TypeInv, TypeInv', WakeInv, ThreadStep
    PROVE  WakeInv'
<1> USE DEF Goto, reqVars, opVars, tokenVars, bandFlags, threadVars
<1>t. TypeOK /\ TypeOK' /\ tband \in Band
  BY DEF TypeInv, TypeOK
<1>q. UNCHANGED <<op_q, msgs, sema>> => Notifies
  BY <1>t, LenFacts DEF Notifies
<1>1. CASE ThreadWake
  <2>1. /\ tpc = "wait" /\ tpc' = "loop" /\ tband' = 0 /\ sema' = sema - 1
        /\ UNCHANGED <<op_q, msgs>>
    BY <1>1 DEF ThreadWake, FirstBand
  <2> SUFFICES ASSUME NEW b \in Band
               PROVE  /\ Len(msgs'[b]) <= sema' + (IF MsgDue(b)' THEN 1 ELSE 0)
                      /\ op_q'[b] # <<>> => sema' > 0 \/ OpDue(b)'
    BY DEF WakeInv
  <2>2. MsgDue(b)' /\ OpDue(b)' /\ ~MsgDue(b)
    BY <1>t, <2>1, LenFacts DEF MsgDue, OpDue
  <2> QED
    BY <1>t, <2>1, <2>2, LenFacts DEF WakeInv
<1>2. CASE ThreadLoop
  <2>1. CASE CLEARANCE[tband] /\ op_q[tband] = <<>> /\ token_cnt[tband] = 0
    <3>1. /\ tpc = "loop" /\ tpc' = "msg" /\ UNCHANGED <<msgs, tband>>
          /\ ExclusiveReady(Other(tband))
      BY <1>2, <2>1 DEF ThreadLoop
    <3>2. /\ sema' \in Nat /\ sema' >= sema
          /\ \A a \in Band : op_q'[a] # <<>> => op_q[a] # <<>> \/ sema' > 0
      BY <1>t, <3>1, ReadyNotifies
    <3> SUFFICES ASSUME NEW b \in Band
                 PROVE  /\ Len(msgs'[b]) <= sema' + (IF MsgDue(b)' THEN 1 ELSE 0)
                        /\ op_q'[b] # <<>> => sema' > 0 \/ OpDue(b)'
      BY DEF WakeInv
    <3>3. /\ MsgDue(b) => MsgDue(b)'
          /\ OpDue(b) => OpDue(b)' \/ b = tband
      BY <3>1 DEF MsgDue, OpDue
    <3> QED
      BY <1>t, <2>1, <3>1, <3>2, <3>3, LenFacts DEF WakeInv
  <2>2. CASE ~(CLEARANCE[tband] /\ op_q[tband] = <<>> /\ token_cnt[tband] = 0)
    BY <1>2, <1>q, <1>t, <2>2, NotifyStep DEF ThreadLoop
  <2> QED
    BY <2>1, <2>2
<1>3. CASE ThreadNoOp
  <2>1. /\ tpc = "ops" /\ tpc' = "msg" /\ op_q[tband] = <<>>
        /\ UNCHANGED <<op_q, msgs, sema, tband>>
    BY <1>3 DEF ThreadNoOp
  <2>2. \A b \in Band : /\ MsgDue(b) => MsgDue(b)'
                        /\ OpDue(b) => OpDue(b)' \/ b = tband
    BY <2>1 DEF MsgDue, OpDue
  <2> QED
    BY <1>t, <2>1, <2>2, LenFacts DEF WakeInv
<1>4. CASE ThreadPopOp
  <2>1. /\ UNCHANGED <<msgs, sema, tband>> /\ tpc = "ops" /\ tpc' = "hdl"
        /\ \A b \in Band : op_q'[b] # <<>> => op_q[b] # <<>>
    BY <1>4, <1>t DEF ThreadPopOp, TypeOK
  <2>2. Notifies
    BY <1>t, <2>1, LenFacts DEF Notifies
  <2> QED
    BY <1>t, <2>1, <2>2, NotifyStep
<1>5. CASE HandleAdd
  BY <1>5, <1>q, <1>t, NotifyStep DEF HandleAdd
<1>6. CASE HandleCancelWaiting
  BY <1>6, <1>q, <1>t, NotifyStep DEF HandleCancelWaiting
<1>7. CASE ProcBusy
  BY <1>7, <1>q, <1>t, NotifyStep DEF ProcBusy
<1>8. CASE ProcAcquireClearance
  BY <1>8, <1>q, <1>t, NotifyStep DEF ProcAcquireClearance
<1>9. CASE ProcPass
  BY <1>9, <1>q, <1>t, NotifyStep DEF ProcPass
<1>10. CASE Register
  BY <1>10, <1>q, <1>t, NotifyStep DEF Register
<1>11. CASE ThreadUsed
  BY <1>11, <1>q, <1>t, NotifyStep DEF ThreadUsed
<1>20. CASE HandleFree
  <2>1. CASE "RUN" \in status[tband][top.info[2]]
    BY <1>20, <1>t, <2>1, DeregisterNotifies, NotifyStep DEF HandleFree
  <2>2. CASE "RUN" \notin status[tband][top.info[2]]
    BY <1>20, <1>q, <1>t, <2>2, NotifyStep DEF HandleFree
  <2> QED
    BY <2>1, <2>2
<1>21. CASE HandleCancelRunning
  <2>1. CASE "RUN" \in status[tband][top.info[2]]
    BY <1>21, <1>t, <2>1, DeregisterNotifies, NotifyStep DEF HandleCancelRunning
  <2>2. CASE "RUN" \notin status[tband][top.info[2]]
    BY <1>21, <1>q, <1>t, <2>2, NotifyStep DEF HandleCancelRunning
  <2> QED
    BY <2>1, <2>2
<1>22. CASE ProcBlocked
  <2>1. Notifies
    BY <1>22, <1>t, ReadyNotifies, LenFacts DEF ProcBlocked, Notifies
  <2> QED
    BY <1>22, <1>t, <2>1, NotifyStep DEF ProcBlocked
<1>23. CASE RegisterRefused
  <2>1. Notifies
    BY <1>23, <1>t, CompleteNotifies, LenFacts DEF RegisterRefused, Notifies
  <2> QED
    BY <1>23, <1>t, <2>1, NotifyStep DEF RegisterRefused
<1>24. CASE ProcIdle
  <2>1. Notifies
    <3>1. CASE NOTIFY_IDLE[tband]
      BY <1>24, <1>q, <3>1 DEF ProcIdle
    <3>2. CASE ~NOTIFY_IDLE[tband]
      BY <1>24, <1>t, <3>2, SendPhyNotifies DEF ProcIdle
    <3> QED
      BY <3>1, <3>2
  <2> QED
    BY <1>24, <1>t, <2>1, NotifyStep DEF ProcIdle
<1>25. CASE ProcPopReq
  <2>1. Notifies
    <3>1. CASE ~NOTIFY_IDLE[tband]
      BY <1>25, <1>q, <3>1 DEF ProcPopReq
    <3>2. CASE NOTIFY_IDLE[tband]
      BY <1>25, <1>t, <3>2, SendPhyNotifies DEF ProcPopReq
    <3> QED
      BY <3>1, <3>2
  <2> QED
    BY <1>25, <1>t, <2>1, NotifyStep DEF ProcPopReq
<1>26. CASE ThreadNoMsg
  <2>1. /\ tpc = "msg" /\ NextBand /\ Len(msgs'[tband]) = 0
        /\ UNCHANGED <<op_q, msgs, sema>>
    BY <1>26, EmptySeq DEF ThreadNoMsg
  <2> QED
    BY <1>t, <2>1, LenFacts, LeaveBandStep
<1>27. CASE MsgPlain
  <2>1. NextBand /\ UNCHANGED <<op_q, sema>>
    BY <1>27 DEF MsgPlain
  <2> QED
    BY <1>27, <1>t, <2>1, PopMsgLen, LenFacts, LeaveBandStep DEF MsgPlain
<1>28. CASE MsgEnd
  <2>1. NextBand /\ PopMsg("end")
    BY <1>28 DEF MsgEnd
  <2>2. /\ sema' >= sema
        /\ \A a \in Band : op_q'[a] # <<>> => op_q[a] # <<>> \/ sema' > 0
    <3>1. CASE UNCHANGED <<op_q, sema>>
      BY <1>t, <3>1, LenFacts
    <3>2. ASSUME NEW op, Enqueue(tband, op) PROVE  /\ sema' >= sema
               /\ \A a \in Band : op_q'[a] # <<>> => op_q[a] # <<>> \/ sema' > 0
      BY <1>t, <3>2, EnqueueNotifies
    <3> QED
      BY <1>28, <3>1, <3>2 DEF MsgEnd
  <2> QED
    BY <1>t, <2>1, <2>2, PopMsgLen, LeaveBandStep
<1>29. CASE MsgAbort
  <2>1. NextBand /\ PopMsg("abort") /\ CmdTokenComplete(tband, {tband})
    BY <1>29 DEF MsgAbort
  <2> QED
    BY <1>t, <2>1, CompleteNotifies, PopMsgLen, LeaveBandStep
<1> QED
  BY <1>1, <1>2, <1>3, <1>4, <1>5, <1>6, <1>7, <1>8, <1>9, <1>10, <1>11, <1>20,
     <1>21, <1>22, <1>23, <1>24, <1>25, <1>26, <1>27, <1>28, <1>29
  DEF ThreadStep

LEMMA WakeStep ==
    ASSUME TypeInv, TypeInv', WakeInv, [Next]_vars
    PROVE  WakeInv'
<1> USE DEF reqVars, opVars, tokenVars, bandFlags, threadVars
<1>t. TypeOK /\ TypeOK' /\ msgs \in [Band -> Seq(MsgKind)]
  BY DEF TypeInv, TypeOK
<1>1. ASSUME Notifies, UNCHANGED <<tpc, tband>> PROVE WakeInv'
  BY <1>1, <1>t, NotifyStep
<1>2. UNCHANGED <<op_q, msgs, sema>> => Notifies
  BY <1>t, LenFacts DEF Notifies
<1>3. ASSUME NEW c \in Client, ClientStep(c) PROVE WakeInv'
  <2>1. CASE (\E b \in Band : AddPopIdle(c, b)) \/ AddPushWait(c) \/ AddSetEnq(c)
             \/ AddLoadStatus(c) \/ AddStoreStatus(c) \/ CancelCheck(c)
    BY <1>1, <1>2, <2>1 DEF AddPopIdle, AddPushWait, AddSetEnq, AddLoadStatus,
       AddStoreStatus, CancelCheck
  <2>2. ASSUME NEW op, Enqueue(cl[c].b, op), UNCHANGED <<msgs, tpc, tband>>,
               cl[c].pc # "idle"
        PROVE  WakeInv'
    <3>1. cl[c].b \in Band
      BY DEF TypeInv, TypeOK, ClientState
    <3>2. Notifies
      BY <1>t, <2>2, <3>1, EnqueueNotifies, LenFacts DEF Notifies
    <3> QED
      BY <1>1, <2>2, <3>2
  <2>3. CASE AddEnqueue(c)
    BY <2>2, <2>3 DEF AddEnqueue, At
  <2>4. CASE CancelEnqueue(c)
    BY <2>2, <2>4 DEF CancelEnqueue, At
  <2> QED
    BY <1>3, <2>1, <2>3, <2>4 DEF ClientStep
<1>4. ASSUME NEW b \in Band, NEW k \in MsgKind, sema' = sema + 1,
             msgs' = [msgs EXCEPT ![b] = Append(msgs[b], k)],
             UNCHANGED <<op_q, tpc, tband>>
      PROVE  WakeInv'
  <2>1. Len(Append(msgs[b], k)) = Len(msgs[b]) + 1
    BY <1>t, AppendProperties
  <2> QED
    BY <1>1, <1>4, <1>t, <2>1, LenFacts DEF Notifies
<1>5. ASSUME NEW b \in Band, SendEnd(b) PROVE WakeInv'
  BY <1>4, <1>5 DEF SendEnd, MsgKind
<1>6. CASE Watchdog
  BY <1>4, <1>6, BandAssumption DEF Watchdog, MsgKind
<1>7. CASE UNCHANGED vars
  BY <1>1, <1>2, <1>7 DEF vars
<1> QED
  BY <1>3, <1>5, <1>6, <1>7, ThreadWakeStep DEF Next

\* When the share thread sleeps on a count of 0, nothing is left to be done:
\* every push_back_token_op_info and push_back_wait_msg has its own sema_up,
\* although one wake-up handles messages of both bands.
THEOREM NoLostWakeupCorrect == Spec => []NoLostWakeup
<1>1. TypeInv /\ TypeInv' /\ WakeInv /\ [Next]_vars => WakeInv'
  BY WakeStep
<1>2. Spec => []WakeInv
  BY <1>1, WakeInit, TypeInvariant, PTL DEF Spec
<1>3. TypeInv /\ WakeInv => NoLostWakeup
  <2> SUFFICES ASSUME TypeInv, WakeInv, tpc = "wait", sema = 0, NEW b \in Band
               PROVE  op_q[b] = <<>> /\ msgs[b] = <<>>
    BY DEF NoLostWakeup
  <2>1. Len(msgs[b]) <= 0 /\ op_q[b] = <<>>
    BY DEF WakeInv, MsgDue, OpDue
  <2>2. msgs[b] \in Seq(MsgKind)
    BY DEF TypeInv, TypeOK
  <2> QED
    BY <2>1, <2>2, LenProperties, EmptySeq
<1> QED
  BY <1>2, <1>3, TypeInvariant, PTL

-----------------------------------------------------------------------------
(* The slots of the pools                                                  *)

\* Who holds a slot of a band, without the positions that Holders counts.
Injective(q) == \A i, j \in DOMAIN q : q[i] = q[j] => i = j
Idle(b, s) == s \in Elems(idle_q[b])
Waits(b, s) == s \in Elems(wait_q[b])
Pushes(b, s) == \E c \in Client : At(c, "push") /\ cl[c].b = b /\ cl[c].s = s
Popped(b, s) == tpc = "reg" /\ tband = b /\ tex = s
Runs(b, s) == cur_cmd_req[b] = s
OnePlace(b, s) ==
    /\ s \in Pool(b) =>
         Idle(b, s) \/ Waits(b, s) \/ Pushes(b, s) \/ Popped(b, s) \/ Runs(b, s)
    /\ Idle(b, s) => ~Waits(b, s) /\ ~Pushes(b, s) /\ ~Popped(b, s) /\ ~Runs(b, s)
    /\ Waits(b, s) => ~Pushes(b, s) /\ ~Popped(b, s) /\ ~Runs(b, s)
    /\ Pushes(b, s) => ~Popped(b, s) /\ ~Runs(b, s)
    /\ Popped(b, s) => ~Runs(b, s)
QueuedOnce == \A b \in Band : Injective(idle_q[b]) /\ Injective(wait_q[b])
PushedOnce ==
    \A c, d \in Client :
        At(c, "push") /\ At(d, "push") /\ cl[c].b = cl[d].b /\ cl[c].s = cl[d].s => c = d
PlaceInv == QueuedOnce /\ PushedOnce /\ \A b \in Band, s \in Slot : OnePlace(b, s)

\* The head of a queue leaves it.
LEMMA QueueTail ==
    ASSUME NEW S, NEW q \in Seq(S), q # <<>>
    PROVE  /\ Tail(q) \in Seq(S) /\ Head(q) \in S
           /\ Elems(q) = Elems(Tail(q)) \cup {Head(q)}
           /\ Injective(q) => Injective(Tail(q)) /\ Head(q) \notin Elems(Tail(q))
<1>1. /\ Len(q) \in Nat \ {0} /\ DOMAIN q = 1 .. Len(q)
      /\ Tail(q) \in Seq(S) /\ DOMAIN Tail(q) = 1 .. Len(q) - 1
      /\ Head(q) = q[1] /\ Head(q) \in S
      /\ \A i \in 1 .. Len(q) - 1 : Tail(q)[i] = q[i + 1]
  BY HeadTailProperties, EmptySeq, LenProperties
<1>2. /\ \A i \in DOMAIN Tail(q) : i \in Int /\ i + 1 \in DOMAIN q /\ Tail(q)[i] = q[i + 1]
      /\ 1 \in DOMAIN q /\ \A i \in DOMAIN Tail(q) : i + 1 # 1
      /\ \A i \in DOMAIN q \ {1} : i - 1 \in DOMAIN Tail(q) /\ (i - 1) + 1 = i
  BY <1>1
<1>3. Elems(q) = Elems(Tail(q)) \cup {Head(q)}
  BY <1>1, <1>2 DEF Elems
<1>4. ASSUME Injective(q)
      PROVE  Injective(Tail(q)) /\ Head(q) \notin Elems(Tail(q))
  <2>1. ASSUME NEW i \in DOMAIN Tail(q), NEW j \in DOMAIN Tail(q), Tail(q)[i] = Tail(q)[j]
        PROVE  i = j
    <3>1. i + 1 = j + 1
      BY <1>2, <1>4, <2>1 DEF Injective
    <3> QED
      BY <1>2, <3>1
  <2>2. \A i \in DOMAIN Tail(q) : Tail(q)[i] # q[1]
    BY <1>2, <1>4 DEF Injective
  <2> QED
    BY <1>1, <2>1, <2>2 DEF Injective, Elems
<1> QED
  BY <1>1, <1>3, <1>4

\* A new element at the tail of a queue.
LEMMA QueueAppend ==
    ASSUME NEW S, NEW q \in Seq(S), NEW e \in S
    PROVE  /\ Elems(Append(q, e)) = Elems(q) \cup {e}
           /\ Injective(q) /\ e \notin Elems(q) => Injective(Append(q, e))
<1> DEFINE p == Append(q, e)
<1>1. /\ Len(q) \in Nat
      /\ DOMAIN q = 1 .. Len(q) /\ DOMAIN p = 1 .. Len(q) + 1
      /\ \A i \in 1 .. Len(q) : p[i] = q[i]
      /\ p[Len(q) + 1] = e
  BY AppendProperties, LenProperties
<1>2. /\ \A i \in DOMAIN q : i \in DOMAIN p /\ p[i] = q[i] /\ i # Len(q) + 1
      /\ Len(q) + 1 \in DOMAIN p
      /\ \A i \in DOMAIN p : i \in DOMAIN q \/ i = Len(q) + 1
  BY <1>1
<1> HIDE DEF p
<1>3. Elems(p) = Elems(q) \cup {e}
  BY <1>1, <1>2 DEF Elems
<1>4. ASSUME Injective(q), e \notin Elems(q) PROVE Injective(p)
  <2>1. \A i \in DOMAIN q : q[i] # e
    BY <1>4 DEF Elems
  <2> QED
    BY <1>1, <1>2, <1>4, <2>1 DEF Injective
<1> QED
  BY <1>3, <1>4 DEF p

\* An element leaves a queue from wherever it is (pq_del_node).
LEMMA QueueWithout ==
    ASSUME NEW S, NEW q \in Seq(S), Injective(q), NEW s \in Elems(q)
    PROVE  /\ Elems(Without(q, s)) = Elems(q) \ {s}
           /\ Injective(Without(q, s))
<1> DEFINE at == CHOOSE i \in DOMAIN q : q[i] = s
           p == Without(q, s)
<1>1. at \in DOMAIN q /\ q[at] = s
  BY DEF Elems
<1>2. /\ Len(q) \in Nat /\ DOMAIN q = 1 .. Len(q)
      /\ p = [i \in 1 .. Len(q) - 1 |-> IF i < at THEN q[i] ELSE q[i + 1]]
  BY LenProperties DEF Without
<1> HIDE DEF at, p
<1>3. DOMAIN p = 1 .. Len(q) - 1
  BY <1>2
<1>4. \A i \in DOMAIN p :
        \/ i \in Int /\ i < at /\ i \in DOMAIN q /\ p[i] = q[i]
        \/ i \in Int /\ i >= at /\ i + 1 \in DOMAIN q /\ p[i] = q[i + 1]
  BY <1>1, <1>2, <1>3
<1>5. \A i \in DOMAIN q \ {at} :
        \/ i < at /\ i \in DOMAIN p /\ p[i] = q[i]
        \/ i > at /\ i - 1 \in DOMAIN p /\ p[i - 1] = q[i]
  <2> TAKE i \in DOMAIN q \ {at}
  <2>1. i \in Int /\ at \in Int /\ i # at /\ i \in 1 .. Len(q) /\ at \in 1 .. Len(q)
    BY <1>1, <1>2
  <2>2. CASE i < at
    <3>1. i \in DOMAIN p
      BY <1>2, <1>3, <2>1, <2>2
    <3> QED
      BY <1>2, <1>3, <2>2, <3>1
  <2>3. CASE i > at
    <3>1. i - 1 \in 1 .. Len(q) - 1 /\ ~(i - 1 < at) /\ (i - 1) + 1 = i
      BY <1>2, <2>1, <2>3
    <3> QED
      BY <1>2, <1>3, <2>3, <3>1
  <2> QED
    BY <2>1, <2>2, <2>3
<1>6. ASSUME NEW i \in DOMAIN p PROVE p[i] # s /\ p[i] \in Elems(q)
  <2>1. at \in Int
    BY <1>1, <1>2
  <2>2. CASE i \in Int /\ i < at /\ i \in DOMAIN q /\ p[i] = q[i]
    BY <1>1, <2>1, <2>2 DEF Injective, Elems
  <2>3. CASE i \in Int /\ i >= at /\ i + 1 \in DOMAIN q /\ p[i] = q[i + 1]
    <3>1. i + 1 # at
      BY <2>1, <2>3
    <3> QED
      BY <1>1, <2>3, <3>1 DEF Injective, Elems
  <2> QED
    BY <1>4, <2>2, <2>3
<1>7. ASSUME NEW x \in Elems(q) \ {s} PROVE x \in Elems(p)
  <2>1. PICK i \in DOMAIN q : q[i] = x
    BY DEF Elems
  <2>2. i # at
    BY <1>1, <2>1
  <2> QED
    BY <1>5, <2>1, <2>2 DEF Elems
<1>8. ASSUME NEW i \in DOMAIN p, NEW j \in DOMAIN p, p[i] = p[j] PROVE i = j
  <2>1. at \in Int
    BY <1>1, <1>2
  <2>2. CASE i < at /\ j < at
    BY <1>4, <1>8, <2>1, <2>2 DEF Injective
  <2>3. CASE ~(i < at) /\ ~(j < at)
    <3>1. i \in Int /\ j \in Int /\ i + 1 \in DOMAIN q /\ j + 1 \in DOMAIN q /\ q[i + 1] = q[j + 1]
      BY <1>4, <1>8, <2>1, <2>3
    <3>2. i + 1 = j + 1
      BY <3>1 DEF Injective
    <3> QED
      BY <3>1, <3>2
  <2>4. ASSUME NEW k \in DOMAIN p, NEW m \in DOMAIN p, k < at, ~(m < at), p[k] = p[m]
        PROVE  FALSE
    <3>1. k \in Int /\ m \in Int /\ k \in DOMAIN q /\ m + 1 \in DOMAIN q /\ q[k] = q[m + 1]
      BY <1>4, <2>1, <2>4
    <3>2. k = m + 1
      BY <3>1 DEF Injective
    <3> QED
      BY <2>1, <2>4, <3>1, <3>2
  <2> QED
    BY <1>8, <2>2, <2>3, <2>4
<1>9. Elems(p) = Elems(q) \ {s}
  BY <1>6, <1>7 DEF Elems
<1> QED
  BY <1>8, <1>9 DEF Injective, p

LEMMA PlaceInit == Init => PlaceInv
<1> SUFFICES ASSUME Init PROVE PlaceInv
  OBVIOUS
<1> DEFINE q(b) == [i \in 1 .. MaxReq[b] |-> i - 1]
<1>1. ASSUME NEW b \in Band PROVE MaxReq[b] \in Nat
  BY BoundAssumption
<1>2. ASSUME NEW b \in Band, NEW s \in Pool(b) PROVE s \in Elems(q(b))
  <2>1. s + 1 \in DOMAIN q(b) /\ q(b)[s + 1] = s
    BY <1>1 DEF Pool
  <2> QED
    BY <2>1 DEF Elems
<1>3. ASSUME NEW b \in Band PROVE Injective(q(b))
  <2> SUFFICES ASSUME NEW i \in 1 .. MaxReq[b], NEW j \in 1 .. MaxReq[b], i - 1 = j - 1
               PROVE  i = j
    BY DEF Injective
  <2> QED
    BY <1>1
<1>4. Elems(<<>>) = {} /\ Injective(<<>>)
  BY DEF Elems, Injective
<1>5. \A b \in Band : idle_q[b] = q(b) /\ wait_q[b] = <<>> /\ cur_cmd_req[b] = Null
  BY DEF Init
<1>6. tpc = "wait" /\ \A c \in Client : ~At(c, "push")
  BY DEF Init, At
<1>7. Null \notin Slot
  BY SlotNumbers
<1> HIDE DEF q
<1>8. ASSUME NEW b \in Band, NEW s \in Slot PROVE OnePlace(b, s)
  <2>1. /\ ~Waits(b, s) /\ ~Pushes(b, s) /\ ~Popped(b, s) /\ ~Runs(b, s)
    BY <1>4, <1>5, <1>6, <1>7 DEF Waits, Pushes, Popped, Runs
  <2>2. s \in Pool(b) => Idle(b, s)
    BY <1>2, <1>5 DEF Idle
  <2> QED
    BY <2>1, <2>2 DEF OnePlace
<1>9. QueuedOnce /\ PushedOnce
  BY <1>3, <1>4, <1>5, <1>6 DEF QueuedOnce, PushedOnce
<1> QED
  BY <1>8, <1>9 DEF PlaceInv

\* Nobody who holds a slot does anything to it.
PushStays == \A c \in Client :
    /\ (cl'[c].pc = "push") <=> (cl[c].pc = "push")
    /\ At(c, "push") => cl'[c].b = cl[c].b /\ cl'[c].s = cl[c].s

LEMMA PlaceStays ==
    ASSUME PlaceInv, UNCHANGED <<idle_q, wait_q, cur_cmd_req>>, PushStays,
           (tpc # "reg" /\ tpc' # "reg") \/ UNCHANGED <<tpc, tband, tex>>
    PROVE  PlaceInv'
<1>1. \A b \in Band, s \in Slot :
        /\ Idle(b, s)' <=> Idle(b, s)
        /\ Waits(b, s)' <=> Waits(b, s)
        /\ Pushes(b, s)' <=> Pushes(b, s)
        /\ Popped(b, s)' <=> Popped(b, s)
        /\ Runs(b, s)' <=> Runs(b, s)
  BY DEF Idle, Waits, Pushes, Popped, Runs, PushStays, At
<1>2. QueuedOnce'
  BY DEF PlaceInv, QueuedOnce, Injective
<1>3. PushedOnce'
  BY DEF PlaceInv, PushedOnce, PushStays, At
<1>4. \A b \in Band, s \in Slot : OnePlace(b, s)'
  BY <1>1 DEF PlaceInv, OnePlace
<1> QED
  BY <1>2, <1>3, <1>4 DEF PlaceInv

\* A slot that goes from one place to another, on one band: the other slots and
\* the other band keep their places.
Stays(b, s) ==
    /\ Idle(b, s)' <=> Idle(b, s)
    /\ Waits(b, s)' <=> Waits(b, s)
    /\ Pushes(b, s)' <=> Pushes(b, s)
    /\ Popped(b, s)' <=> Popped(b, s)
    /\ Runs(b, s)' <=> Runs(b, s)
LEMMA PlaceMoves ==
    ASSUME PlaceInv, NEW a \in Band, NEW t \in Slot,
           \A b \in Band, s \in Slot : b # a \/ s # t => Stays(b, s),
           OnePlace(a, t)', QueuedOnce', PushedOnce'
    PROVE  PlaceInv'
<1>1. ASSUME NEW b \in Band, NEW s \in Slot PROVE OnePlace(b, s)'
  <2>1. CASE b = a /\ s = t
    BY <2>1
  <2>2. CASE ~(b = a /\ s = t)
    <3>1. Stays(b, s) /\ OnePlace(b, s)
      BY <2>2 DEF PlaceInv
    <3> QED
      BY <3>1 DEF Stays, OnePlace
  <2> QED
    BY <2>1, <2>2
<1> QED
  BY <1>1 DEF PlaceInv

LEMMA SlotFacts ==
    /\ Null \notin Slot
    /\ TypeInv => /\ idle_q \in [Band -> Seq(Slot)] /\ wait_q \in [Band -> Seq(Slot)]
                  /\ cur_cmd_req \in [Band -> SlotOrNull] /\ tband \in Band
                  /\ cl \in [Client -> ClientState]
                  /\ tpc = "reg" => tex \in Slot
                  /\ \A c \in Client : /\ cl[c].b \in Band
                                       /\ cl[c].pc # "idle" => cl[c].s \in Slot
BY SlotNumbers DEF TypeInv, TypeOK, PoppedHasSlot, ClientHasSlot, ClientState

\* The token of a command comes back: its slot is idle again.
LEMMA DeregisterPlace ==
    ASSUME TypeInv, PlaceInv, NEW b \in Band, NEW notify \in BOOLEAN, NEW st,
           Deregister(b, notify, st), cl' = cl, tpc # "reg", tpc' # "reg"
    PROVE  PlaceInv'
<1>1. /\ wait_q' = wait_q /\ cur_cmd_req' = [cur_cmd_req EXCEPT ![b] = Null]
      /\ IF cur_cmd_req[b] = Null
         THEN idle_q' = idle_q
         ELSE idle_q' = [idle_q EXCEPT ![b] = Append(@, cur_cmd_req[b])]
  BY DEF Deregister
<1>2. PushStays
  BY DEF PushStays
<1>3. CASE cur_cmd_req[b] = Null
  <2>1. cur_cmd_req' = cur_cmd_req
    BY <1>1, <1>3, SlotFacts
  <2> QED
    BY <1>1, <1>2, <1>3, <2>1, PlaceStays
<1>4. CASE cur_cmd_req[b] # Null
  <2>1. PICK t \in Slot : t = cur_cmd_req[b]
    BY <1>4, SlotFacts DEF SlotOrNull
  <2>2. Runs(b, t)
    BY <2>1 DEF Runs
  <2>3. /\ ~Idle(b, t) /\ ~Waits(b, t) /\ ~Pushes(b, t)
    BY <2>1, <2>2 DEF PlaceInv, OnePlace
  <2>4. idle_q[b] \in Seq(Slot) /\ idle_q' = [idle_q EXCEPT ![b] = Append(idle_q[b], t)]
    BY <1>1, <1>4, <2>1, SlotFacts
  <2>5. /\ Elems(Append(idle_q[b], t)) = Elems(idle_q[b]) \cup {t}
        /\ Injective(Append(idle_q[b], t))
    BY <2>1, <2>3, <2>4, QueueAppend DEF PlaceInv, QueuedOnce, Idle
  <2>6. /\ idle_q'[b] = Append(idle_q[b], t)
        /\ \A a \in Band \ {b} : idle_q'[a] = idle_q[a] /\ cur_cmd_req'[a] = cur_cmd_req[a]
        /\ cur_cmd_req'[b] = Null
    BY <1>1, <2>4, SlotFacts
  <2>7. \A a \in Band, s \in Slot : a # b \/ s # t => Stays(a, s)
    <3> SUFFICES ASSUME NEW a \in Band, NEW s \in Slot, a # b \/ s # t PROVE Stays(a, s)
      OBVIOUS
    <3>1. Idle(a, s)' <=> Idle(a, s)
      BY <2>5, <2>6 DEF Idle
    <3>2. Runs(a, s)' <=> Runs(a, s)
      <4>1. CASE a = b
        BY <2>2, <2>6, <4>1, SlotFacts DEF Runs
      <4>2. CASE a # b
        BY <2>6, <4>2 DEF Runs
      <4> QED
        BY <4>1, <4>2
    <3>3. /\ Waits(a, s)' <=> Waits(a, s)
          /\ Pushes(a, s)' <=> Pushes(a, s)
          /\ Popped(a, s)' <=> Popped(a, s)
      BY <1>1 DEF Waits, Pushes, Popped, At
    <3> QED
      BY <3>1, <3>2, <3>3 DEF Stays
  <2>8. OnePlace(b, t)'
    <3>1. Idle(b, t)'
      BY <2>5, <2>6 DEF Idle
    <3>2. ~Runs(b, t)'
      BY <2>1, <2>6, SlotFacts DEF Runs
    <3>3. ~Waits(b, t)' /\ ~Pushes(b, t)' /\ ~Popped(b, t)'
      BY <1>1, <2>3 DEF Waits, Pushes, Popped, At
    <3> QED
      BY <3>1, <3>2, <3>3 DEF OnePlace
  <2>9. QueuedOnce'
    <3> SUFFICES ASSUME NEW a \in Band
                 PROVE  Injective(idle_q'[a]) /\ Injective(wait_q'[a])
      BY DEF QueuedOnce, Injective
    <3> QED
      BY <1>1, <2>5, <2>6 DEF PlaceInv, QueuedOnce
  <2>10. PushedOnce'
    BY DEF PlaceInv, PushedOnce, At
  <2> QED
    BY <2>1, <2>7, <2>8, <2>9, <2>10, PlaceMoves
<1> QED
  BY <1>3, <1>4

LEMMA ThreadPlaceStep ==
    ASSUME TypeInv, TokenInv, PlaceInv, ThreadStep
    PROVE  PlaceInv'
<1> USE DEF Goto, reqVars, opVars, tokenVars, bandFlags, threadVars
<1>a. ASSUME cl' = cl PROVE PushStays /\ PushedOnce'
  BY <1>a DEF PlaceInv, PushStays, PushedOnce, At
<1>b. ASSUME NextBand PROVE tpc' # "reg"
  BY <1>b DEF NextBand
<1>c. tband \in Band
  BY SlotFacts
<1>1. CASE ThreadWake \/ ThreadLoop \/ ThreadNoOp \/ ThreadPopOp \/ HandleAdd
  BY <1>a, <1>1, PlaceStays DEF ThreadWake, ThreadLoop, ThreadNoOp, ThreadPopOp, HandleAdd
<1>2. CASE ProcBusy \/ ProcBlocked \/ ProcAcquireClearance \/ ProcPass \/ ProcIdle
  BY <1>a, <1>2, PlaceStays
  DEF ProcBusy, ProcBlocked, ProcAcquireClearance, ProcPass, ProcIdle
<1>3. CASE ThreadUsed \/ ThreadNoMsg \/ MsgPlain
  BY <1>a, <1>b, <1>3, PlaceStays DEF ThreadUsed, ThreadNoMsg, MsgPlain, PopMsg
<1>4. CASE MsgEnd \/ MsgAbort
  BY <1>a, <1>b, <1>4, PlaceStays DEF MsgEnd, MsgAbort, PopMsg
<1>5. CASE HandleFree
  <2>1. CASE "RUN" \in status[tband][top.info[2]]
    BY <1>5, <1>c, <2>1, DeregisterPlace DEF HandleFree
  <2>2. CASE "RUN" \notin status[tband][top.info[2]]
    BY <1>a, <1>5, <2>2, PlaceStays DEF HandleFree
  <2> QED
    BY <2>1, <2>2
<1>6. CASE HandleCancelRunning
  <2>1. CASE "RUN" \in status[tband][top.info[2]]
    BY <1>6, <1>c, <2>1, DeregisterPlace DEF HandleCancelRunning
  <2>2. CASE "RUN" \notin status[tband][top.info[2]]
    BY <1>a, <1>6, <2>2, PlaceStays DEF HandleCancelRunning
  <2> QED
    BY <2>1, <2>2
<1>7. CASE HandleCancelWaiting
  <2>1. CASE top.info[2] \notin Elems(wait_q[tband])
    BY <1>a, <1>7, <2>1, PlaceStays DEF HandleCancelWaiting
  <2>2. CASE top.info[2] \in Elems(wait_q[tband])
    <3>1. PICK b \in Band : b = tband
      BY <1>c
    <3>2. PICK t : t = top.info[2]
      OBVIOUS
    <3>3. /\ wait_q' = [wait_q EXCEPT ![b] = Without(wait_q[b], t)]
          /\ idle_q' = [idle_q EXCEPT ![b] = Append(idle_q[b], t)]
          /\ cur_cmd_req' = cur_cmd_req /\ cl' = cl /\ tpc # "reg" /\ tpc' # "reg"
      BY <1>7, <2>2, <3>1, <3>2 DEF HandleCancelWaiting
    <3>4. idle_q[b] \in Seq(Slot) /\ wait_q[b] \in Seq(Slot) /\ t \in Slot
      BY <2>2, <3>1, <3>2, SlotFacts, ElementOfSeq DEF Elems
    <3>5. Waits(b, t) /\ ~Idle(b, t) /\ ~Pushes(b, t) /\ ~Popped(b, t) /\ ~Runs(b, t)
      BY <2>2, <3>1, <3>2, <3>4 DEF PlaceInv, OnePlace, Waits
    <3>6. Injective(idle_q[b]) /\ Injective(wait_q[b])
      BY DEF PlaceInv, QueuedOnce
    <3>7. /\ Elems(Append(idle_q[b], t)) = Elems(idle_q[b]) \cup {t}
          /\ Injective(Append(idle_q[b], t))
      BY <3>4, <3>5, <3>6, QueueAppend DEF Idle
    <3>8. /\ Elems(Without(wait_q[b], t)) = Elems(wait_q[b]) \ {t}
          /\ Injective(Without(wait_q[b], t))
      BY <3>4, <3>5, <3>6, QueueWithout DEF Waits
    <3>9. /\ idle_q'[b] = Append(idle_q[b], t) /\ wait_q'[b] = Without(wait_q[b], t)
          /\ \A a \in Band \ {b} : idle_q'[a] = idle_q[a] /\ wait_q'[a] = wait_q[a]
      BY <3>3, SlotFacts
    <3>10. \A a \in Band, s \in Slot : a # b \/ s # t => Stays(a, s)
      <4> SUFFICES ASSUME NEW a \in Band, NEW s \in Slot, a # b \/ s # t PROVE Stays(a, s)
        OBVIOUS
      <4>1. (Idle(a, s)' <=> Idle(a, s)) /\ (Waits(a, s)' <=> Waits(a, s))
        BY <3>7, <3>8, <3>9 DEF Idle, Waits
      <4>2. /\ Pushes(a, s)' <=> Pushes(a, s)
            /\ Popped(a, s)' <=> Popped(a, s)
            /\ Runs(a, s)' <=> Runs(a, s)
        BY <3>3 DEF Pushes, Popped, Runs, At
      <4> QED
        BY <4>1, <4>2 DEF Stays
    <3>11. OnePlace(b, t)'
      <4>1. Idle(b, t)' /\ ~Waits(b, t)'
        BY <3>7, <3>8, <3>9 DEF Idle, Waits
      <4>2. ~Pushes(b, t)' /\ ~Popped(b, t)' /\ ~Runs(b, t)'
        BY <3>3, <3>5 DEF Pushes, Popped, Runs, At
      <4> QED
        BY <4>1, <4>2 DEF OnePlace
    <3>12. QueuedOnce'
      <4> SUFFICES ASSUME NEW a \in Band
                   PROVE  Injective(idle_q'[a]) /\ Injective(wait_q'[a])
        BY DEF QueuedOnce, Injective
      <4> QED
        BY <3>7, <3>8, <3>9 DEF PlaceInv, QueuedOnce
    <3> QED
      BY <1>a, <3>3, <3>4, <3>10, <3>11, <3>12, PlaceMoves
  <2> QED
    BY <2>1, <2>2
<1>8. CASE ProcPopReq
  <2>1. PICK b \in Band : b = tband
    BY <1>c
  <2>2. wait_q[b] \in Seq(Slot) /\ wait_q[b] # <<>>
    BY <1>8, <2>1, SlotFacts DEF ProcPopReq
  <2>3. PICK t \in Slot : t = Head(wait_q[b])
    BY <2>2, QueueTail
  <2>4. /\ wait_q' = [wait_q EXCEPT ![b] = Tail(wait_q[b])]
        /\ tex' = t /\ tpc' = "reg" /\ tpc # "reg" /\ tband' = b
        /\ UNCHANGED <<idle_q, cur_cmd_req, cl>>
    BY <1>8, <2>1, <2>3 DEF ProcPopReq
  <2>5. /\ Elems(wait_q[b]) = Elems(Tail(wait_q[b])) \cup {t}
        /\ Injective(Tail(wait_q[b])) /\ t \notin Elems(Tail(wait_q[b]))
    BY <2>2, <2>3, QueueTail DEF PlaceInv, QueuedOnce
  <2>6. Waits(b, t) /\ ~Idle(b, t) /\ ~Pushes(b, t) /\ ~Runs(b, t)
    BY <2>5 DEF PlaceInv, OnePlace, Waits
  <2>7. /\ wait_q'[b] = Tail(wait_q[b])
        /\ \A a \in Band \ {b} : wait_q'[a] = wait_q[a]
    BY <2>4, SlotFacts
  <2>8. \A a \in Band, s \in Slot : a # b \/ s # t => Stays(a, s)
    <3> SUFFICES ASSUME NEW a \in Band, NEW s \in Slot, a # b \/ s # t PROVE Stays(a, s)
      OBVIOUS
    <3>1. Waits(a, s)' <=> Waits(a, s)
      BY <2>5, <2>7 DEF Waits
    <3>2. Popped(a, s)' <=> Popped(a, s)
      BY <2>4 DEF Popped
    <3>3. /\ Pushes(a, s)' <=> Pushes(a, s)
          /\ Idle(a, s)' <=> Idle(a, s)
          /\ Runs(a, s)' <=> Runs(a, s)
      BY <2>4 DEF Pushes, Idle, Runs, At
    <3> QED
      BY <3>1, <3>2, <3>3 DEF Stays
  <2>9. OnePlace(b, t)'
    <3>1. ~Waits(b, t)' /\ Popped(b, t)'
      BY <2>4, <2>5, <2>7 DEF Waits, Popped
    <3>2. ~Pushes(b, t)' /\ ~Idle(b, t)' /\ ~Runs(b, t)'
      BY <2>4, <2>6 DEF Pushes, Idle, Runs, At
    <3> QED
      BY <3>1, <3>2 DEF OnePlace
  <2>10. QueuedOnce'
    <3> SUFFICES ASSUME NEW a \in Band
                 PROVE  Injective(idle_q'[a]) /\ Injective(wait_q'[a])
      BY DEF QueuedOnce, Injective
    <3> QED
      BY <2>4, <2>5, <2>7 DEF PlaceInv, QueuedOnce
  <2> QED
    BY <1>a, <2>4, <2>8, <2>9, <2>10, PlaceMoves
<1>9. CASE Register
  <2>1. PICK b \in Band : b = tband
    BY <1>c
  <2>2. PICK t \in Slot : t = tex
    BY <1>9, SlotFacts DEF Register
  <2>3. /\ cur_cmd_req' = [cur_cmd_req EXCEPT ![b] = t] /\ cur_cmd_req[b] = Null
        /\ tpc = "reg" /\ tpc' # "reg"
        /\ UNCHANGED <<idle_q, wait_q, cl>>
    BY <1>9, <2>1, <2>2 DEF Register, TokenInv, GrantClear
  <2>4. Popped(b, t) /\ ~Idle(b, t) /\ ~Waits(b, t) /\ ~Pushes(b, t)
    BY <2>1, <2>2, <2>3 DEF PlaceInv, OnePlace, Popped
  <2>5. /\ cur_cmd_req'[b] = t
        /\ \A a \in Band \ {b} : cur_cmd_req'[a] = cur_cmd_req[a]
    BY <2>3, SlotFacts
  <2>6. \A a \in Band, s \in Slot : a # b \/ s # t => Stays(a, s)
    <3> SUFFICES ASSUME NEW a \in Band, NEW s \in Slot, a # b \/ s # t PROVE Stays(a, s)
      OBVIOUS
    <3>1. Runs(a, s)' <=> Runs(a, s)
      <4>1. CASE a = b
        BY <2>3, <2>5, <4>1, SlotFacts DEF Runs
      <4>2. CASE a # b
        BY <2>5, <4>2 DEF Runs
      <4> QED
        BY <4>1, <4>2
    <3>2. Popped(a, s)' <=> Popped(a, s)
      BY <2>1, <2>2, <2>3 DEF Popped
    <3>3. /\ Pushes(a, s)' <=> Pushes(a, s)
          /\ Idle(a, s)' <=> Idle(a, s)
          /\ Waits(a, s)' <=> Waits(a, s)
      BY <2>3 DEF Pushes, Idle, Waits, At
    <3> QED
      BY <3>1, <3>2, <3>3 DEF Stays
  <2>7. OnePlace(b, t)'
    <3>1. Runs(b, t)' /\ ~Popped(b, t)'
      BY <2>3, <2>5 DEF Runs, Popped
    <3>2. ~Pushes(b, t)' /\ ~Idle(b, t)' /\ ~Waits(b, t)'
      BY <2>3, <2>4 DEF Pushes, Idle, Waits, At
    <3> QED
      BY <3>1, <3>2 DEF OnePlace
  <2>8. QueuedOnce'
    BY <2>3 DEF PlaceInv, QueuedOnce, Injective
  <2> QED
    BY <1>a, <2>3, <2>6, <2>7, <2>8, PlaceMoves
<1>10. CASE RegisterRefused
  <2>1. PICK b \in Band : b = tband
    BY <1>c
  <2>2. PICK t \in Slot : t = tex
    BY <1>10, SlotFacts DEF RegisterRefused
  <2>3. /\ idle_q' = [idle_q EXCEPT ![b] = Append(idle_q[b], t)]
        /\ tpc = "reg" /\ tpc' # "reg"
        /\ UNCHANGED <<cur_cmd_req, wait_q, cl>>
    BY <1>10, <2>1, <2>2 DEF RegisterRefused
  <2>4. Popped(b, t) /\ ~Idle(b, t) /\ ~Waits(b, t) /\ ~Pushes(b, t) /\ ~Runs(b, t)
    BY <2>1, <2>2, <2>3 DEF PlaceInv, OnePlace, Popped
  <2>5. /\ Elems(Append(idle_q[b], t)) = Elems(idle_q[b]) \cup {t}
        /\ Injective(Append(idle_q[b], t))
    <3>1. idle_q[b] \in Seq(Slot) /\ Injective(idle_q[b])
      BY SlotFacts DEF PlaceInv, QueuedOnce
    <3> QED
      BY <2>4, <3>1, QueueAppend DEF Idle
  <2>6. /\ idle_q'[b] = Append(idle_q[b], t)
        /\ \A a \in Band \ {b} : idle_q'[a] = idle_q[a]
    BY <2>3, SlotFacts
  <2>7. \A a \in Band, s \in Slot : a # b \/ s # t => Stays(a, s)
    <3> SUFFICES ASSUME NEW a \in Band, NEW s \in Slot, a # b \/ s # t PROVE Stays(a, s)
      OBVIOUS
    <3>1. Idle(a, s)' <=> Idle(a, s)
      BY <2>5, <2>6 DEF Idle
    <3>2. Popped(a, s)' <=> Popped(a, s)
      BY <2>1, <2>2, <2>3 DEF Popped
    <3>3. /\ Pushes(a, s)' <=> Pushes(a, s)
          /\ Runs(a, s)' <=> Runs(a, s)
          /\ Waits(a, s)' <=> Waits(a, s)
      BY <2>3 DEF Pushes, Runs, Waits, At
    <3> QED
      BY <3>1, <3>2, <3>3 DEF Stays
  <2>8. OnePlace(b, t)'
    <3>1. Idle(b, t)' /\ ~Popped(b, t)'
      BY <2>3, <2>5, <2>6 DEF Idle, Popped
    <3>2. ~Pushes(b, t)' /\ ~Runs(b, t)' /\ ~Waits(b, t)'
      BY <2>3, <2>4 DEF Pushes, Runs, Waits, At
    <3> QED
      BY <3>1, <3>2 DEF OnePlace
  <2>9. QueuedOnce'
    <3> SUFFICES ASSUME NEW a \in Band
                 PROVE  Injective(idle_q'[a]) /\ Injective(wait_q'[a])
      BY DEF QueuedOnce, Injective
    <3> QED
      BY <2>3, <2>5, <2>6 DEF PlaceInv, QueuedOnce
  <2> QED
    BY <1>a, <2>3, <2>7, <2>8, <2>9, PlaceMoves
<1> QED
  BY <1>1, <1>2, <1>3, <1>4, <1>5, <1>6, <1>7, <1>8, <1>9, <1>10 DEF ThreadStep

LEMMA ClientPlaceStep ==
    ASSUME TypeInv, PlaceInv, NEW c \in Client, ClientStep(c)
    PROVE  PlaceInv'
<1> USE DEF reqVars, opVars, tokenVars, bandFlags, threadVars
<1>0. cl \in [Client -> ClientState]
  BY SlotFacts
<1>1. CASE \E b \in Band : AddPopIdle(c, b)
  <2>1. PICK b \in Band : AddPopIdle(c, b)
    BY <1>1
  <2>2. idle_q[b] \in Seq(Slot) /\ idle_q[b] # <<>>
    BY <2>1, SlotFacts DEF AddPopIdle
  <2>3. PICK t \in Slot : t = Head(idle_q[b])
    BY <2>2, QueueTail
  <2>4. /\ idle_q' = [idle_q EXCEPT ![b] = Tail(idle_q[b])]
        /\ cl' = [cl EXCEPT ![c] = [pc |-> "push", b |-> b, s |-> t,
                                    st |-> {}, left |-> cl[c].left - 1]]
        /\ UNCHANGED <<wait_q, cur_cmd_req, tpc, tband, tex>> /\ ~At(c, "push")
    BY <2>1, <2>3 DEF AddPopIdle, At
  <2>5. /\ Elems(idle_q[b]) = Elems(Tail(idle_q[b])) \cup {t}
        /\ Injective(Tail(idle_q[b])) /\ t \notin Elems(Tail(idle_q[b]))
    BY <2>2, <2>3, QueueTail DEF PlaceInv, QueuedOnce
  <2>6. Idle(b, t) /\ ~Waits(b, t) /\ ~Pushes(b, t) /\ ~Popped(b, t) /\ ~Runs(b, t)
    BY <2>5 DEF PlaceInv, OnePlace, Idle
  <2>7. /\ idle_q'[b] = Tail(idle_q[b])
        /\ \A a \in Band \ {b} : idle_q'[a] = idle_q[a]
    BY <2>4, SlotFacts
  <2>8. /\ cl'[c].pc = "push" /\ cl'[c].b = b /\ cl'[c].s = t
        /\ \A d \in Client \ {c} : cl'[d] = cl[d]
    BY <1>0, <2>4
  <2>9. \A a \in Band, s \in Slot : a # b \/ s # t => Stays(a, s)
    <3> SUFFICES ASSUME NEW a \in Band, NEW s \in Slot, a # b \/ s # t PROVE Stays(a, s)
      OBVIOUS
    <3>1. Idle(a, s)' <=> Idle(a, s)
      BY <2>5, <2>7 DEF Idle
    <3>2. Pushes(a, s)' <=> Pushes(a, s)
      BY <2>4, <2>8 DEF Pushes, At
    <3>3. /\ Popped(a, s)' <=> Popped(a, s)
          /\ Runs(a, s)' <=> Runs(a, s)
          /\ Waits(a, s)' <=> Waits(a, s)
      BY <2>4 DEF Popped, Runs, Waits
    <3> QED
      BY <3>1, <3>2, <3>3 DEF Stays
  <2>10. OnePlace(b, t)'
    <3>1. ~Idle(b, t)' /\ Pushes(b, t)'
      BY <2>5, <2>7, <2>8 DEF Idle, Pushes, At
    <3>2. ~Popped(b, t)' /\ ~Runs(b, t)' /\ ~Waits(b, t)'
      BY <2>4, <2>6 DEF Popped, Runs, Waits
    <3> QED
      BY <3>1, <3>2 DEF OnePlace
  <2>11. QueuedOnce'
    <3> SUFFICES ASSUME NEW a \in Band
                 PROVE  Injective(idle_q'[a]) /\ Injective(wait_q'[a])
      BY DEF QueuedOnce, Injective
    <3> QED
      BY <2>4, <2>5, <2>7 DEF PlaceInv, QueuedOnce
  <2>12. PushedOnce'
    <3> SUFFICES ASSUME NEW d \in Client, NEW e \in Client,
                        cl'[d].pc = "push", cl'[e].pc = "push",
                        cl'[d].b = cl'[e].b, cl'[d].s = cl'[e].s
                 PROVE  d = e
      BY DEF PushedOnce, At
    <3>1. \A f \in Client \ {c} : ~(cl'[f].pc = "push" /\ cl'[f].b = b /\ cl'[f].s = t)
      BY <2>6, <2>8 DEF Pushes, At
    <3>2. CASE d = c \/ e = c
      BY <2>8, <3>1, <3>2
    <3>3. CASE d # c /\ e # c
      BY <2>8, <3>3 DEF PlaceInv, PushedOnce, At
    <3> QED
      BY <3>2, <3>3
  <2> QED
    BY <2>9, <2>10, <2>11, <2>12, PlaceMoves
<1>2. CASE AddPushWait(c)
  <2>1. PICK b \in Band : b = cl[c].b
    BY SlotFacts
  <2>2. PICK t \in Slot : t = cl[c].s
    BY <1>2, SlotFacts DEF AddPushWait, At
  <2>3. /\ wait_q' = [wait_q EXCEPT ![b] = Append(wait_q[b], t)]
        /\ cl' = [cl EXCEPT ![c].pc = "rdst"] /\ At(c, "push")
        /\ UNCHANGED <<idle_q, cur_cmd_req, tpc, tband, tex>>
    BY <1>2, <2>1, <2>2 DEF AddPushWait, Step
  <2>4. Pushes(b, t) /\ ~Idle(b, t) /\ ~Waits(b, t) /\ ~Popped(b, t) /\ ~Runs(b, t)
    BY <2>1, <2>2, <2>3 DEF PlaceInv, OnePlace, Pushes
  <2>5. /\ Elems(Append(wait_q[b], t)) = Elems(wait_q[b]) \cup {t}
        /\ Injective(Append(wait_q[b], t))
    <3>1. wait_q[b] \in Seq(Slot) /\ Injective(wait_q[b])
      BY SlotFacts DEF PlaceInv, QueuedOnce
    <3> QED
      BY <2>4, <3>1, QueueAppend DEF Waits
  <2>6. /\ wait_q'[b] = Append(wait_q[b], t)
        /\ \A a \in Band \ {b} : wait_q'[a] = wait_q[a]
    BY <2>3, SlotFacts
  <2>7. /\ cl'[c].pc = "rdst"
        /\ \A d \in Client \ {c} : cl'[d] = cl[d]
    BY <1>0, <2>3 DEF ClientState
  <2>8. \A d \in Client \ {c} : ~(At(d, "push") /\ cl[d].b = b /\ cl[d].s = t)
    BY <2>1, <2>2, <2>3 DEF PlaceInv, PushedOnce
  <2>9. \A a \in Band, s \in Slot : a # b \/ s # t => Stays(a, s)
    <3> SUFFICES ASSUME NEW a \in Band, NEW s \in Slot, a # b \/ s # t PROVE Stays(a, s)
      OBVIOUS
    <3>1. Waits(a, s)' <=> Waits(a, s)
      BY <2>5, <2>6 DEF Waits
    <3>2. Pushes(a, s)' <=> Pushes(a, s)
      BY <2>1, <2>2, <2>7 DEF Pushes, At
    <3>3. /\ Popped(a, s)' <=> Popped(a, s)
          /\ Runs(a, s)' <=> Runs(a, s)
          /\ Idle(a, s)' <=> Idle(a, s)
      BY <2>3 DEF Popped, Runs, Idle
    <3> QED
      BY <3>1, <3>2, <3>3 DEF Stays
  <2>10. OnePlace(b, t)'
    <3>1. Waits(b, t)' /\ ~Pushes(b, t)'
      BY <2>5, <2>6, <2>7, <2>8 DEF Waits, Pushes, At
    <3>2. ~Popped(b, t)' /\ ~Runs(b, t)' /\ ~Idle(b, t)'
      BY <2>3, <2>4 DEF Popped, Runs, Idle
    <3> QED
      BY <3>1, <3>2 DEF OnePlace
  <2>11. QueuedOnce'
    <3> SUFFICES ASSUME NEW a \in Band
                 PROVE  Injective(idle_q'[a]) /\ Injective(wait_q'[a])
      BY DEF QueuedOnce, Injective
    <3> QED
      BY <2>3, <2>5, <2>6 DEF PlaceInv, QueuedOnce
  <2>12. PushedOnce'
    <3> SUFFICES ASSUME NEW d \in Client, NEW e \in Client,
                        cl'[d].pc = "push", cl'[e].pc = "push",
                        cl'[d].b = cl'[e].b, cl'[d].s = cl'[e].s
                 PROVE  d = e
      BY DEF PushedOnce, At
    <3>1. d # c /\ e # c
      BY <2>7
    <3> QED
      BY <2>7, <3>1 DEF PlaceInv, PushedOnce, At
  <2> QED
    BY <2>9, <2>10, <2>11, <2>12, PlaceMoves
<1>3. CASE AddSetEnq(c) \/ AddLoadStatus(c) \/ AddStoreStatus(c) \/ AddEnqueue(c)
             \/ CancelCheck(c) \/ CancelEnqueue(c)
  <2>1. /\ UNCHANGED <<idle_q, wait_q, cur_cmd_req, tpc, tband, tex>>
        /\ cl[c].pc # "push" /\ cl'[c].pc # "push"
        /\ \A d \in Client \ {c} : cl'[d] = cl[d]
    BY <1>0, <1>3
    DEF AddSetEnq, AddLoadStatus, AddStoreStatus, AddEnqueue, CancelCheck,
        CancelEnqueue, Step, At, ClientState
  <2>2. PushStays
    BY <2>1 DEF PushStays, At
  <2> QED
    BY <2>1, <2>2, PlaceStays
<1> QED
  BY <1>1, <1>2, <1>3 DEF ClientStep

LEMMA PlaceStep == TypeInv /\ TokenInv /\ PlaceInv /\ [Next]_vars => PlaceInv'
<1> SUFFICES ASSUME TypeInv, TokenInv, PlaceInv, [Next]_vars PROVE PlaceInv'
  OBVIOUS
<1>1. CASE ThreadStep
  BY <1>1, ThreadPlaceStep
<1>2. CASE \E c \in Client : ClientStep(c)
  BY <1>2, ClientPlaceStep
<1>3. CASE (\E b \in Band : SendEnd(b)) \/ Watchdog \/ UNCHANGED vars
  <2>1. UNCHANGED <<idle_q, wait_q, cur_cmd_req, tpc, tband, tex, cl>>
    BY <1>3 DEF SendEnd, Watchdog, vars, reqVars, tokenVars, threadVars
  <2> QED
    BY <2>1, PlaceStays DEF PushStays
<1> QED
  BY <1>1, <1>2, <1>3 DEF Next

LEMMA PlaceInvariant == Spec => []PlaceInv
<1>1. Init => PlaceInv
  BY PlaceInit
<1> QED
  BY <1>1, PlaceStep, TypeInvariant, TokenInvariant, PTL DEF Spec

\* Whatever clients add and cancel, commands end, refuse and abort: every slot of
\* the request pool of a band has one holder, and no request is lost or doubled.
THEOREM SlotConservationCorrect == Spec => []SlotConservation
<1>1. ASSUME PlaceInv, NEW b \in Band, NEW s \in Pool(b)
      PROVE  \E h \in Holders(b, s) : Holders(b, s) = {h}
  <2> DEFINE I == {<<"idle", i>> : i \in {j \in DOMAIN idle_q[b] : idle_q[b][j] = s}}
             W == {<<"wait", i>> : i \in {j \in DOMAIN wait_q[b] : wait_q[b][j] = s}}
             P == {<<"client", c>> : c \in {d \in Client : /\ cl[d].pc = "push"
                                                           /\ cl[d].b = b /\ cl[d].s = s}}
             R == {x \in {<<"reg", s>>} : tpc = "reg" /\ tband = b /\ tex = s}
             C == {x \in {<<"cur", s>>} : cur_cmd_req[b] = s}
  <2>0. OnePlace(b, s)
    BY <1>1 DEF PlaceInv, Slot
  <2>1. Holders(b, s) = I \cup W \cup P \cup R \cup C
    BY DEF Holders
  <2>2. Idle(b, s) => \E h : I = {h}
    <3> SUFFICES ASSUME Idle(b, s) PROVE \E h : I = {h}
      OBVIOUS
    <3>1. PICK j \in DOMAIN idle_q[b] : idle_q[b][j] = s
      BY DEF Idle, Elems
    <3>2. \A k \in DOMAIN idle_q[b] : idle_q[b][k] = s => k = j
      BY <1>1, <3>1 DEF PlaceInv, QueuedOnce, Injective
    <3>3. I = {<<"idle", j>>}
      BY <3>1, <3>2
    <3> QED
      BY <3>3
  <2>3. Waits(b, s) => \E h : W = {h}
    <3> SUFFICES ASSUME Waits(b, s) PROVE \E h : W = {h}
      OBVIOUS
    <3>1. PICK j \in DOMAIN wait_q[b] : wait_q[b][j] = s
      BY DEF Waits, Elems
    <3>2. \A k \in DOMAIN wait_q[b] : wait_q[b][k] = s => k = j
      BY <1>1, <3>1 DEF PlaceInv, QueuedOnce, Injective
    <3>3. W = {<<"wait", j>>}
      BY <3>1, <3>2
    <3> QED
      BY <3>3
  <2>4. Pushes(b, s) => \E h : P = {h}
    <3> SUFFICES ASSUME Pushes(b, s) PROVE \E h : P = {h}
      OBVIOUS
    <3>1. PICK c \in Client : cl[c].pc = "push" /\ cl[c].b = b /\ cl[c].s = s
      BY DEF Pushes, At
    <3>2. \A d \in Client : cl[d].pc = "push" /\ cl[d].b = b /\ cl[d].s = s => d = c
      BY <1>1, <3>1 DEF PlaceInv, PushedOnce, At
    <3>3. P = {<<"client", c>>}
      BY <3>1, <3>2
    <3> QED
      BY <3>3
  <2>5. (Popped(b, s) => \E h : R = {h}) /\ (Runs(b, s) => \E h : C = {h})
    <3>1. Popped(b, s) => R = {<<"reg", s>>}
      BY DEF Popped
    <3>2. Runs(b, s) => C = {<<"cur", s>>}
      BY DEF Runs
    <3> QED
      BY <3>1, <3>2
  <2>6. /\ ~Idle(b, s) => I = {}
        /\ ~Waits(b, s) => W = {}
        /\ ~Pushes(b, s) => P = {}
        /\ ~Popped(b, s) => R = {}
        /\ ~Runs(b, s) => C = {}
    BY DEF Idle, Waits, Elems, Pushes, Popped, Runs, At
  <2> HIDE DEF I, W, P, R, C
  <2>7. \E h : Holders(b, s) = {h}
    <3>1. CASE Idle(b, s)
      <4>1. Holders(b, s) = I
        BY <2>0, <2>1, <2>6, <3>1 DEF OnePlace
      <4> QED
        BY <2>2, <3>1, <4>1
    <3>2. CASE Waits(b, s)
      <4>1. Holders(b, s) = W
        BY <2>0, <2>1, <2>6, <3>2 DEF OnePlace
      <4> QED
        BY <2>3, <3>2, <4>1
    <3>3. CASE Pushes(b, s)
      <4>1. Holders(b, s) = P
        BY <2>0, <2>1, <2>6, <3>3 DEF OnePlace
      <4> QED
        BY <2>4, <3>3, <4>1
    <3>4. CASE Popped(b, s)
      <4>1. Holders(b, s) = R
        BY <2>0, <2>1, <2>6, <3>4 DEF OnePlace
      <4> QED
        BY <2>5, <3>4, <4>1
    <3>5. CASE Runs(b, s)
      <4>1. Holders(b, s) = C
        BY <2>0, <2>1, <2>6, <3>5 DEF OnePlace
      <4> QED
        BY <2>5, <3>5, <4>1
    <3> QED
      BY <2>0, <3>1, <3>2, <3>3, <3>4, <3>5 DEF OnePlace
  <2> QED
    BY <2>7
<1>2. PlaceInv => SlotConservation
  BY <1>1 DEF SlotConservation
<1> QED
  BY <1>2, PlaceInvariant, PTL

=============================================================================
