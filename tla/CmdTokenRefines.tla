--------------------------- MODULE CmdTokenRefines ---------------------------
(* CmdToken implements TokenSpec, for every number of slots and clients.   *)
EXTENDS CmdTokenProofs

Right == {b \in Band : EXCLUSIVE_USE[b]}
Ending == {b \in Band : WAIT_ABORT[b]}

\* One step of the dispatchers is one step of TokenSpec or changes nothing there.
TokenStepOrStutter == [Token!Next]_(Token!vars)

LEMMA OthersFacts ==
    /\ ~Dual => Band = {0} /\ \A b \in Band : Band \ {b} = {}
    /\ Dual => \A b \in Band : Band \ {b} = {Other(b)} /\ Band \ {b} # {}
BY BandAssumption, TwoBandsFacts DEF Dual

LEMMA RefineInit == Init => Token!Init
BY OthersFacts DEF Init, Token!Init, Token!Others

LEMMA RefineStutter ==
    UNCHANGED <<cur_cmd_req, EXCLUSIVE_USE, WAIT_ABORT>> => UNCHANGED Token!vars
BY DEF Token!vars

\* cmd_token_complete hands the exclusive right over as TokenSpec allows: no two
\* bands are asked to clear, so the band that gives it back does not pass it on.
LEMMA RefineHandOver ==
    ASSUME TypeOK, TokenInv, NEW b \in Band, NEW B, CmdTokenComplete(b, B)
    PROVE  Token!HandOver(b)
<1>1. CASE ~Dual
  <2>1. EXCLUSIVE_USE' = EXCLUSIVE_USE
    BY <1>1 DEF CmdTokenComplete
  <2> QED
    BY <1>1, <2>1, OthersFacts DEF Token!HandOver, Token!Others
<1>2. CASE Dual
  <2> DEFINE o == Other(b)
  <2>1. /\ o \in Band /\ o # b /\ Band \ {b} = {o}
        /\ \A a \in Band : a = b \/ a = o
    BY <1>2, TwoBandsFacts, OthersFacts
  <2>2. /\ EXCLUSIVE_USE'[b] = FALSE
        /\ EXCLUSIVE_USE'[o] = (EXCLUSIVE_USE[o] \/ CLEARANCE[b])
    BY <1>2, <2>1 DEF CmdTokenComplete, TypeOK
  <2>3. EXCLUSIVE_USE[b] => CLEARANCE[o]
    BY <1>2 DEF TokenInv, ExclusiveIsolated
  <2>4. ~(CLEARANCE[b] /\ CLEARANCE[o])
    BY <1>2, <2>1, TwoBandsFacts DEF TokenInv, NoMutualClearance, Dual, Other
  <2>5. CASE CLEARANCE[b] /\ ~EXCLUSIVE_USE[o]
    <3>1. Right = {} /\ Right' = {o}
      BY <2>1, <2>2, <2>3, <2>4, <2>5 DEF Right
    <3> QED
      BY <2>1, <3>1 DEF Token!HandOver, Token!Others, Right
  <2>6. CASE ~(CLEARANCE[b] /\ ~EXCLUSIVE_USE[o])
    <3>1. EXCLUSIVE_USE'[o] = EXCLUSIVE_USE[o]
      BY <2>2, <2>6, <2>1 DEF TypeOK
    <3>2. Right' = Right \ {b}
      BY <2>1, <2>2, <3>1 DEF Right
    <3> QED
      BY <2>1, <3>2 DEF Token!HandOver, Token!Others, Right
  <2> QED
    BY <2>5, <2>6
<1> QED
  BY <1>1, <1>2

\* A refused command, or one that had gone already, and the last message of an
\* aborted command end in cmd_token_complete.
LEMMA RefineRefuse ==
    ASSUME TypeOK, TokenInv, NEW b \in Band, NEW B, CmdTokenComplete(b, B),
           cur_cmd_req[b] = Null, ~WAIT_ABORT[b],
           UNCHANGED <<cur_cmd_req, WAIT_ABORT>>
    PROVE  TokenStepOrStutter
<1>1. Token!Refuse(b)
  BY RefineHandOver DEF Token!Refuse
<1> QED
  BY <1>1 DEF Token!Next, TokenStepOrStutter

LEMMA RefineAbortDone ==
    ASSUME TypeOK, TokenInv, NEW b \in Band, NEW B, CmdTokenComplete(b, B),
           WAIT_ABORT[b], WAIT_ABORT' = [WAIT_ABORT EXCEPT ![b] = FALSE],
           UNCHANGED cur_cmd_req
    PROVE  TokenStepOrStutter
<1>1. b \in Ending /\ Ending' = Ending \ {b}
  BY DEF Ending, TypeOK
<1>2. Token!AbortDone(b)
  BY <1>1, RefineHandOver DEF Token!AbortDone, Ending
<1> QED
  BY <1>2 DEF Token!Next, TokenStepOrStutter

\* phl_disp_eng_exclusive_ready: a cleared band without a command lets the other
\* one have the right.
LEMMA RefineReady ==
    ASSUME TypeOK, TokenInv, NEW b \in Band, CLEARANCE[b],
           cur_cmd_req[b] = Null, ExclusiveReady(Other(b)),
           UNCHANGED <<cur_cmd_req, WAIT_ABORT>>
    PROVE  TokenStepOrStutter
<1> DEFINE o == Other(b)
<1>1. CASE ~(o \in Band /\ ~EXCLUSIVE_USE[o])
  BY <1>1, RefineStutter DEF ExclusiveReady, TokenStepOrStutter
<1>2. CASE o \in Band /\ ~EXCLUSIVE_USE[o]
  <2>1. Dual
    BY <1>2, BandAssumption DEF Dual, Other
  <2>2. /\ o # b /\ Other(o) = b /\ Band \ {o} = {b}
        /\ \A a \in Band : a = b \/ a = o
    BY <1>2, <2>1, TwoBandsFacts, OthersFacts
  <2>3. ~EXCLUSIVE_USE[b]
    BY <2>1, <2>2, TwoBandsFacts
    DEF TokenInv, ExclusiveIsolated, NoMutualClearance, Dual, Other
  <2>4. EXCLUSIVE_USE' = [EXCLUSIVE_USE EXCEPT ![o] = TRUE]
    BY <1>2 DEF ExclusiveReady
  <2>5. Right = {} /\ Right' = {o}
    BY <1>2, <2>2, <2>3, <2>4 DEF Right, TypeOK
  <2>6. Token!TakeRight(o)
    BY <2>2, <2>5 DEF Token!TakeRight, Token!Others, Right
  <2> QED
    BY <1>2, <2>6 DEF Token!Next, TokenStepOrStutter
<1> QED
  BY <1>1, <1>2

\* deregister_cur_cmd_req ends the command, or finds that it had gone already.
LEMMA RefineDeregister ==
    ASSUME TypeOK, AbortInv, TokenInv, NEW b \in Band, NEW notify \in BOOLEAN,
           NEW st, Deregister(b, notify, st)
    PROVE  TokenStepOrStutter
<1>1. cur_cmd_req' = [cur_cmd_req EXCEPT ![b] = Null]
  BY DEF Deregister
<1>2. CASE cur_cmd_req[b] = Null
  <2>1. UNCHANGED <<cur_cmd_req, WAIT_ABORT>>
    BY <1>1, <1>2 DEF Deregister, TypeOK
  <2>2. CASE WAIT_ABORT[b]
    BY <1>2, <2>1, <2>2, RefineStutter DEF Deregister, TokenStepOrStutter
  <2>3. CASE ~WAIT_ABORT[b]
    <3>1. CmdTokenComplete(b, {})
      BY <1>2, <2>3 DEF Deregister
    <3> QED
      BY <1>2, <2>1, <2>3, <3>1, RefineRefuse
  <2> QED
    BY <2>2, <2>3
<1>3. CASE cur_cmd_req[b] # Null
  <2>1. ~WAIT_ABORT[b]
    BY <1>3 DEF AbortInv, AbortMessageAwaited
  <2>2. \/ UNCHANGED WAIT_ABORT /\ CmdTokenComplete(b, {})
        \/ /\ WAIT_ABORT' = [WAIT_ABORT EXCEPT ![b] = TRUE]
           /\ UNCHANGED EXCLUSIVE_USE
    BY <1>3, <2>1 DEF Deregister
  <2>3. Token!Return(b)
    <3>1. CASE UNCHANGED WAIT_ABORT /\ CmdTokenComplete(b, {})
      BY <1>1, <1>3, <3>1, RefineHandOver DEF Token!Return
    <3>2. CASE /\ WAIT_ABORT' = [WAIT_ABORT EXCEPT ![b] = TRUE]
               /\ UNCHANGED EXCLUSIVE_USE
      <4>1. Ending' = Ending \cup {b} /\ UNCHANGED Right
        BY <3>2 DEF Ending, Right, TypeOK
      <4> QED
        BY <1>1, <1>3, <4>1 DEF Token!Return, Ending, Right
    <3> QED
      BY <2>2, <3>1, <3>2
  <2> QED
    BY <2>3 DEF Token!Next, TokenStepOrStutter
<1> QED
  BY <1>2, <1>3

LEMMA RefineThread ==
    ASSUME TypeInv, AbortInv, TokenInv, ThreadStep
    PROVE  TokenStepOrStutter
<1> USE DEF Goto, reqVars, opVars, tokenVars, bandFlags, threadVars
<1>a. /\ TypeOK /\ tband \in Band
      /\ token_cnt[tband] = IF cur_cmd_req[tband] = Null THEN 0 ELSE 1
  BY DEF TypeInv, TypeOK, TokenInv, TokenCountExact
<1>1. CASE \/ ThreadWake \/ ThreadNoOp \/ ThreadPopOp \/ HandleAdd
           \/ HandleCancelWaiting \/ ProcBusy \/ ProcAcquireClearance
           \/ ProcPass \/ ProcIdle \/ ProcPopReq \/ ThreadUsed \/ ThreadNoMsg
           \/ MsgPlain \/ MsgEnd
  <2>1. UNCHANGED <<cur_cmd_req, EXCLUSIVE_USE, WAIT_ABORT>>
    BY <1>1 DEF ThreadWake, ThreadNoOp, ThreadPopOp, HandleAdd,
       HandleCancelWaiting, ProcBusy, ProcAcquireClearance, ProcPass, ProcIdle,
       ProcPopReq, ThreadUsed, ThreadNoMsg, MsgPlain, MsgEnd
  <2> QED
    BY <2>1, RefineStutter DEF TokenStepOrStutter
<1>2. CASE ThreadLoop
  <2>1. CASE CLEARANCE[tband] /\ op_q[tband] = <<>> /\ token_cnt[tband] = 0
    <3>1. cur_cmd_req[tband] = Null /\ ExclusiveReady(Other(tband))
      BY <1>a, <1>2, <2>1 DEF ThreadLoop
    <3>2. UNCHANGED <<cur_cmd_req, WAIT_ABORT>>
      BY <1>2 DEF ThreadLoop
    <3> QED
      BY <1>a, <2>1, <3>1, <3>2, RefineReady
  <2>2. CASE ~(CLEARANCE[tband] /\ op_q[tband] = <<>> /\ token_cnt[tband] = 0)
    <3>1. UNCHANGED <<cur_cmd_req, EXCLUSIVE_USE, WAIT_ABORT>>
      BY <1>2, <2>2 DEF ThreadLoop
    <3> QED
      BY <3>1, RefineStutter DEF TokenStepOrStutter
  <2> QED
    BY <2>1, <2>2
<1>3. CASE ProcBlocked
  <2>1. /\ cur_cmd_req[tband] = Null /\ CLEARANCE[tband]
        /\ ExclusiveReady(Other(tband))
        /\ UNCHANGED <<cur_cmd_req, WAIT_ABORT>>
    BY <1>a, <1>3 DEF ProcBlocked
  <2> QED
    BY <1>a, <2>1, RefineReady
\* The band is not cleared, so the other one has no exclusive use.
<1>4. CASE Register
  <2>1. /\ tpc = "reg" /\ cur_cmd_req' = [cur_cmd_req EXCEPT ![tband] = tex]
        /\ UNCHANGED <<EXCLUSIVE_USE, WAIT_ABORT>>
    BY <1>4 DEF Register
  <2>2. cur_cmd_req[tband] = Null /\ ~CLEARANCE[tband] /\ ~WAIT_ABORT[tband]
    BY <2>1 DEF TokenInv, GrantClear, AbortInv, GrantNotWaiting
  <2>3. tex \in Slot
    BY <2>1 DEF TypeInv, PoppedHasSlot
  <2>4. Right \cap (Band \ {tband}) = {}
    <3>1. CASE ~Dual
      BY <1>a, <3>1, OthersFacts
    <3>2. CASE Dual
      <4>1. Other(tband) \in Band /\ Other(Other(tband)) = tband
        BY <1>a, <3>2, TwoBandsFacts
      <4>2. ~EXCLUSIVE_USE[Other(tband)]
        BY <2>2, <3>2, <4>1 DEF TokenInv, ExclusiveIsolated
      <4> QED
        BY <1>a, <3>2, <4>2, OthersFacts DEF Right
    <3> QED
      BY <3>1, <3>2
  <2>5. Token!Grant(tband)
    BY <1>a, <2>1, <2>2, <2>3, <2>4 DEF Token!Grant, Token!Others, Right
  <2> QED
    BY <1>a, <2>5 DEF Token!Next, TokenStepOrStutter
<1>5. CASE RegisterRefused
  <2>1. /\ tpc = "reg" /\ CmdTokenComplete(tband, {})
        /\ UNCHANGED <<cur_cmd_req, WAIT_ABORT>>
    BY <1>5 DEF RegisterRefused
  <2>2. cur_cmd_req[tband] = Null /\ ~WAIT_ABORT[tband]
    BY <2>1 DEF TokenInv, GrantClear, AbortInv, GrantNotWaiting
  <2> QED
    BY <1>a, <2>1, <2>2, RefineRefuse
<1>6. CASE HandleFree
  <2>1. CASE "RUN" \in status[tband][top.info[2]]
    <3>1. Deregister(tband, FALSE, status[tband])
      BY <1>6, <2>1 DEF HandleFree
    <3> QED
      BY <1>a, <3>1, RefineDeregister
  <2>2. CASE "RUN" \notin status[tband][top.info[2]]
    BY <1>6, <2>2, RefineStutter DEF HandleFree, TokenStepOrStutter
  <2> QED
    BY <2>1, <2>2
<1>7. CASE HandleCancelRunning
  <2> DEFINE s == top.info[2]
             st == [status[tband] EXCEPT ![s] = @ \cup {"CANCEL"}]
  <2>1. CASE "RUN" \in status[tband][s]
    <3>1. Deregister(tband, TRUE, st)
      BY <1>7, <2>1 DEF HandleCancelRunning
    <3> QED
      BY <1>a, <3>1, RefineDeregister
  <2>2. CASE "RUN" \notin status[tband][s]
    BY <1>7, <2>2, RefineStutter DEF HandleCancelRunning, TokenStepOrStutter
  <2> QED
    BY <2>1, <2>2
\* An abort message is queued only while the band waits for it.
<1>8. CASE MsgAbort
  <2>1. /\ msgs[tband] # <<>> /\ Head(msgs[tband]) = "abort"
        /\ WAIT_ABORT' = [WAIT_ABORT EXCEPT ![tband] = FALSE]
        /\ CmdTokenComplete(tband, {tband}) /\ UNCHANGED cur_cmd_req
    BY <1>8 DEF MsgAbort, PopMsg
  <2>2. AbortMsgs(msgs[tband]) # {}
    BY <1>a, <2>1, TailAbort DEF TypeOK
  <2>3. WAIT_ABORT[tband]
    BY <1>a, <2>2 DEF AbortInv, AbortMessageAwaited
  <2> QED
    BY <1>a, <2>1, <2>3, RefineAbortDone
<1> QED
  BY <1>1, <1>2, <1>3, <1>4, <1>5, <1>6, <1>7, <1>8 DEF ThreadStep

LEMMA RefineStep ==
    ASSUME TypeInv, AbortInv, TokenInv, [Next]_vars
    PROVE  TokenStepOrStutter
<1> USE DEF reqVars, opVars, tokenVars, bandFlags, threadVars
<1>1. CASE UNCHANGED <<cur_cmd_req, EXCLUSIVE_USE, WAIT_ABORT>>
  BY <1>1, RefineStutter DEF TokenStepOrStutter
<1>2. ASSUME NEW c \in Client, ClientStep(c) PROVE TokenStepOrStutter
  BY <1>1, <1>2 DEF ClientStep, AddPopIdle, AddPushWait, AddSetEnq,
     AddLoadStatus, AddStoreStatus, AddEnqueue, CancelCheck, CancelEnqueue
<1>3. ASSUME NEW b \in Band, SendEnd(b) PROVE TokenStepOrStutter
  BY <1>1, <1>3 DEF SendEnd
<1>4. CASE Watchdog
  BY <1>1, <1>4 DEF Watchdog
<1>5. CASE UNCHANGED vars
  BY <1>1, <1>5 DEF vars
<1> QED
  BY <1>2, <1>3, <1>4, <1>5, RefineThread DEF Next

\* The dispatchers, with their queues, semaphores and the unlocked steps of any
\* number of clients, implement TokenSpec.
THEOREM TokenRefinement == Spec => ImplementsToken
<1>1. TypeInv /\ AbortInv /\ TokenInv /\ [Next]_vars => [Token!Next]_(Token!vars)
  BY RefineStep DEF TokenStepOrStutter
<1> QED
  BY <1>1, RefineInit, TypeInvariant, AbortInvariant, TokenInvariant, PTL
  DEF Spec, ImplementsToken, Token!Spec
=============================================================================
