---------------------------- MODULE CmdSerProofs ----------------------------
(***************************************************************************)
(* Theorems of CmdSer, for any bounds and with every kind of fault: who    *)
(* holds the data path in each state of a recovery, and that the driver    *)
(* always has its next poll under way.                                     *)
(***************************************************************************)
EXTENDS CmdSer, SequenceTheorems, TLAPS

-----------------------------------------------------------------------------
(* The invariants                                                          *)

M1Hdl == {"M1tx", "M1rx"}

\* The pause call in progress is that of the handler at work, and one that has
\* returned left its claim.
CallShape ==
    /\ call.pc = "none" <=> hdl = "none"
    /\ hdl # "none" => /\ call.dir = IF hdl \in {"M1rx", "M9rx"} THEN "rx" ELSE "tx"
                       /\ call.id = IF hdl = "PS" THEN "PS" ELSE "SER"
    /\ call.pc = "done" => call.id \in pause_id[call.dir]
    /\ call.pc = "done" /\ call.ret = "TIMEOUT" => call.dir \in late

\* IO_TIMER_EXPIRE is never sent: M1 lasts as long as its handler, timer off.
M1Handled == "M1" \in ser => hdl \in M1Hdl /\ ~timer

TypeInv == TypeOK /\ CallShape /\ M1Handled

\* A direction with an owner does not run; unless a pause of it timed out, its
\* status is the work of the call in progress or the pause of its owners, and
\* its handler is in step with the status.
PollingAt(d) == call.pc = "poll" /\ call.dir = d
Ordered(d) ==
    /\ pause_id[d] # {} => sts[d] # "RUNNING"
    /\ PollingAt(d) => sts[d] # "RUNNING"
    /\ d \notin late =>
        /\ sts[d] = "STOP_INPROGRESS" => PollingAt(d)
        /\ handler[d] = "stop" => sts[d] = "STOP_INPROGRESS"
        /\ sts[d] = "SW_PAUSE" => handler[d] = "idle"
        /\ pause_id[d] # {} => sts[d] = "SW_PAUSE"
        /\ call.pc = "test" /\ call.dir = d => sts[d] = "RUNNING"
PathInv == PausedOwned /\ \A d \in Dir : Ordered(d)

\* The handshake with the firmware is one baton: its next step is posted, is in
\* the queue, is in the handler or is with the firmware, and only once.
Step == {"M1", "M3", "M5"}
Has(q, e) == \E i \in DOMAIN q : q[i] = e
Once(q) ==
    \A i, j \in DOMAIN q :
        /\ q[i] = q[j] /\ q[i] \in {"M1", "M3"} => i = j
        /\ q[i] = "M5" /\ q[j] = "M1" => i < j
Posted == post \in {"M1", "M3"}
Queued(e) == Has(wait_q, e)
Handled == hdl \in M1Hdl
Told == h2c # "none"
Baton ==
    /\ Once(wait_q)
    /\ Posted => ~Queued("M1") /\ ~Queued("M3") /\ ~Handled /\ ~Told
    /\ Queued("M1") => ~Queued("M3") /\ ~Handled /\ ~Told
    /\ Queued("M3") => ~Handled /\ ~Told
    /\ Handled => ~Told
    /\ fw = "fine" \/ post = "M5" =>
            ~Posted /\ ~Queued("M1") /\ ~Queued("M3") /\ ~Handled /\ ~Told
    /\ fw = "M2" => post # "M3" /\ ~Queued("M3") /\ h2c # "M4"
    /\ fw = "M4" => post # "M1" /\ ~Queued("M1") /\ ~Handled /\ h2c # "M2"
    /\ Queued("M5") => post # "M3" /\ ~Queued("M3") /\ ~Handled /\ ~Told

\* From M2 on until M5 SER holds both directions; the hardware is stopped
\* between M1 and M3.
Held ==
    /\ hdl = "M1rx" => is_hw_trx_pause /\ "SER" \in pause_id["tx"]
    /\ "M2" \in ser => is_hw_trx_pause
    /\ (h2c = "M4" \/ post = "M5" \/ Queued("M5")) => ~is_hw_trx_pause
    /\ (Waiting \/ (h2c = "M2" /\ fw = "M2") \/ post = "M3" \/ Queued("M3"))
            => \A d \in Dir : "SER" \in pause_id[d]

\* Nothing is held outside a recovery.
AtRest ==
    ser = {} => /\ hdl \in {"none", "PS"}
                /\ ~bserl2 => /\ \A d \in Dir : "SER" \notin pause_id[d]
                              /\ ~is_hw_trx_pause

IInv == TypeInv /\ PathInv /\ Baton /\ Held /\ AtRest

-----------------------------------------------------------------------------
(* The queue                                                               *)

\* What the handler that takes a message leaves in the queue.
LEMMA QueueTail ==
    ASSUME NEW q \in Seq(Msg), q # <<>>
    PROVE  /\ Tail(q) \in Seq(Msg)
           /\ Has(q, Head(q))
           /\ \A e : Has(Tail(q), e) => Has(q, e)
           /\ \A e : Has(q, e) /\ Head(q) # e => Has(Tail(q), e)
           /\ Once(q) => Once(Tail(q))
           /\ Once(q) /\ Head(q) \in {"M1", "M3"} => ~Has(Tail(q), Head(q))
           /\ Once(q) /\ Head(q) = "M1" => ~Has(q, "M5")
<1>1. /\ Len(q) \in Nat \ {0} /\ DOMAIN q = 1 .. Len(q)
      /\ Tail(q) \in Seq(Msg) /\ Len(Tail(q)) = Len(q) - 1
      /\ DOMAIN Tail(q) = 1 .. Len(q) - 1
      /\ Head(q) = q[1]
      /\ \A i \in 1 .. Len(q) - 1 : Tail(q)[i] = q[i + 1]
  BY HeadTailProperties, EmptySeq, LenProperties
<1>2. \A i \in DOMAIN Tail(q) : i + 1 \in DOMAIN q /\ Tail(q)[i] = q[i + 1]
  BY <1>1
<1>3. 1 \in DOMAIN q /\ \A i \in DOMAIN Tail(q) : i + 1 # 1
  BY <1>1
<1>4. Has(q, Head(q))
  BY <1>1, <1>3 DEF Has
<1>5. \A e : Has(Tail(q), e) => Has(q, e)
  BY <1>2 DEF Has
<1>6. ASSUME NEW e, Has(q, e), Head(q) # e PROVE Has(Tail(q), e)
  <2>1. PICK i \in DOMAIN q : q[i] = e
    BY <1>6 DEF Has
  <2>2. i - 1 \in DOMAIN Tail(q) /\ Tail(q)[i - 1] = q[i]
    BY <1>1, <1>6, <2>1
  <2> QED
    BY <2>1, <2>2 DEF Has
<1>7. ASSUME Once(q) PROVE Once(Tail(q))
  <2> SUFFICES ASSUME NEW i \in DOMAIN Tail(q), NEW j \in DOMAIN Tail(q)
               PROVE  /\ Tail(q)[i] = Tail(q)[j] /\ Tail(q)[i] \in {"M1", "M3"} => i = j
                      /\ Tail(q)[i] = "M5" /\ Tail(q)[j] = "M1" => i < j
    BY DEF Once
  <2>1. /\ q[i + 1] = q[j + 1] /\ q[i + 1] \in {"M1", "M3"} => i + 1 = j + 1
        /\ q[i + 1] = "M5" /\ q[j + 1] = "M1" => i + 1 < j + 1
    BY <1>2, <1>7 DEF Once
  <2>2. i \in Int /\ j \in Int
    BY <1>1
  <2>3. (i + 1 = j + 1 => i = j) /\ (i + 1 < j + 1 => i < j)
    BY <2>2
  <2> QED
    BY <1>2, <2>1, <2>3
<1>8. ASSUME Once(q), Head(q) \in {"M1", "M3"} PROVE ~Has(Tail(q), Head(q))
  BY <1>1, <1>2, <1>3, <1>8 DEF Has, Once
<1>9. ASSUME Once(q), Head(q) = "M1" PROVE ~Has(q, "M5")
  <2>1. \A i \in DOMAIN q : ~(i < 1)
    BY <1>1
  <2> QED
    BY <1>1, <1>3, <1>9, <2>1 DEF Has, Once
<1> QED
  BY <1>1, <1>4, <1>5, <1>6, <1>7, <1>8, <1>9

\* What a sender does to the queue.
LEMMA QueueAppend ==
    ASSUME NEW q \in Seq(Msg), NEW e \in Msg
    PROVE  /\ Append(q, e) \in Seq(Msg)
           /\ Has(Append(q, e), e)
           /\ \A f : Has(q, f) => Has(Append(q, e), f)
           /\ \A f : Has(Append(q, e), f) => f = e \/ Has(q, f)
           /\ Once(q) /\ (e \in {"M1", "M3"} => ~Has(q, e)) /\ (e = "M5" => ~Has(q, "M1"))
                => Once(Append(q, e))
<1> DEFINE p == Append(q, e)
<1>1. /\ p \in Seq(Msg) /\ Len(q) \in Nat
      /\ DOMAIN q = 1 .. Len(q) /\ DOMAIN p = 1 .. Len(q) + 1
      /\ \A i \in 1 .. Len(q) : p[i] = q[i]
      /\ p[Len(q) + 1] = e
  BY AppendProperties, LenProperties
<1>2. /\ \A i \in DOMAIN q : i \in DOMAIN p /\ p[i] = q[i]
      /\ Len(q) + 1 \in DOMAIN p
      /\ \A i \in DOMAIN p : i \in DOMAIN q \/ i = Len(q) + 1
      /\ \A i \in DOMAIN q : i < Len(q) + 1
  BY <1>1
<1> HIDE DEF p
<1>3. Has(p, e) /\ \A f : Has(q, f) => Has(p, f)
  BY <1>1, <1>2 DEF Has
<1>4. \A f : Has(p, f) => f = e \/ Has(q, f)
  BY <1>1, <1>2 DEF Has
<1>5. ASSUME Once(q), e \in {"M1", "M3"} => ~Has(q, e), e = "M5" => ~Has(q, "M1")
      PROVE  Once(p)
  BY <1>1, <1>2, <1>5 DEF Has, Once
<1> QED
  BY <1>1, <1>3, <1>4, <1>5 DEF p

\* Messages that come back from the pending queue are of other modules.
LEMMA QueueReleased ==
    ASSUME NEW q \in Seq(Msg), pend \in Nat
    PROVE  /\ Released(q) \in Seq(Msg)
           /\ \A e \in SerMsg : Has(Released(q), e) <=> Has(q, e)
           /\ Once(q) => Once(Released(q))
<1> DEFINE r == [i \in 1 .. pend |-> "EXT"]
           p == q \o r
<1>1. r \in Seq(Msg) /\ Len(r) = pend /\ \A i \in 1 .. pend : r[i] = "EXT"
  <2>1. \A i \in 1 .. pend : "EXT" \in Msg
    BY DEF Msg
  <2>2. r \in Seq(Msg) /\ Len(r) = pend
    BY <2>1, IsASeq, LenProperties
  <2> QED
    BY <2>2
<1> HIDE DEF r
<1>2. /\ p \in Seq(Msg) /\ Len(q) \in Nat
      /\ DOMAIN q = 1 .. Len(q) /\ DOMAIN p = 1 .. Len(q) + pend
      /\ \A i \in 1 .. Len(q) : p[i] = q[i]
      /\ \A i \in Len(q) + 1 .. Len(q) + pend : p[i] = r[i - Len(q)]
  <2>1. /\ p \in Seq(Msg) /\ Len(p) = Len(q) + pend
        /\ \A i \in 1 .. Len(q) + pend :
              p[i] = IF i <= Len(q) THEN q[i] ELSE r[i - Len(q)]
    BY <1>1, ConcatProperties
  <2>2. Len(q) \in Nat /\ DOMAIN q = 1 .. Len(q) /\ DOMAIN p = 1 .. Len(p)
    BY <2>1, LenProperties
  <2> HIDE DEF p
  <2> QED
    BY <2>1, <2>2
<1>3. /\ \A i \in DOMAIN q : i \in DOMAIN p /\ p[i] = q[i]
      /\ \A i \in DOMAIN p : i \in DOMAIN q \/ p[i] = "EXT"
  BY <1>1, <1>2
<1>4. "EXT" \notin SerMsg
  BY DEF SerMsg
<1> HIDE DEF p
<1>5. \A e \in SerMsg : Has(p, e) <=> Has(q, e)
  BY <1>3, <1>4 DEF Has
<1>6. Once(q) => Once(p)
  BY <1>3, <1>4 DEF Once
<1> QED
  BY <1>2, <1>5, <1>6 DEF p, r, Released

\* The messages of PollingChk, one after the other.
LEMMA QueueOne ==
    ASSUME NEW q \in Seq(Msg), NEW e \in Msg
    PROVE  q \o <<e>> = Append(q, e) /\ q \o <<>> = q
BY AppendProperties, ConcatEmptySeq

-----------------------------------------------------------------------------
(* Types                                                                   *)

Counters ==
    /\ poll_cnt \in 0 .. MaxPoll /\ pend \in Nat
    /\ faults \in 0 .. MaxFault /\ exts \in 0 .. MaxExt
Control ==
    /\ ser \subseteq State /\ bserl2 \in BOOLEAN
    /\ timer \in BOOLEAN /\ mute \in BOOLEAN
    /\ hdl \in Hdl /\ stop_datapath \in BOOLEAN
    /\ fw \in {"fine", "M2", "M4", "hung", "bitten"}
    /\ post \in {"none", "M1", "M3", "M5", "M9", "LOG"}
    /\ isr \in BOOLEAN /\ wdt \in BOOLEAN /\ h2c \in {"none", "M2", "M4"}

LEMMA TypeParts ==
    TypeOK <=> PathTypeOK /\ Counters /\ Control /\ wait_q \in Seq(Msg)
BY DEF TypeOK, Counters, Control

HandlersStep == \E d \in Dir : Tasklet(d) \/ (TrafficStep(d) /\ Others)
EnvStep == ExtSend \/ HostL2 \/ FwL1 \/ FwM3 \/ FwM5 \/ FwOther \/ FwHang \/ FwWatchdog

\* The firmware and the senders leave the state of the driver alone.
LEMMA EnvFrame == EnvStep => Drv
BY DEF EnvStep, ExtSend, HostL2, FwL1, FwM3, FwM5, FwOther, FwHang, FwWatchdog

\* PollingChk but for the queue.
LEMMA PollingFacts ==
    ASSUME PollingChk
    PROVE  /\ Simple /\ hdl = "none" /\ UNCHANGED <<ser, bserl2, post>>
           /\ Sent \/ Lost
           /\ \/ isr' = FALSE /\ wdt' = FALSE /\ UNCHANGED <<poll_cnt, timer>>
              \/ /\ poll_cnt' = IF poll_cnt > 0 THEN poll_cnt - 1 ELSE 0
                 /\ timer' = TRUE /\ UNCHANGED <<isr, wdt>>
<1>1. CASE isr \/ wdt
  BY <1>1, ZenonT(30) DEF PollingChk, Recognize, Takes
<1>2. CASE ~(isr \/ wdt)
  BY <1>2, ZenonT(30) DEF PollingChk, Takes
<1> QED
  BY <1>1, <1>2

\* What becomes of the counters when a message is sent.
LEMMA SendOutcome ==
    Sent \/ Lost => faults' = faults \/ (faults' = faults + 1 /\ faults < MaxFault)
<1>1. Sent => faults' = faults
  BY DEF Sent
<1>2. Lost => faults' = faults + 1 /\ faults < MaxFault
  BY Zenon DEF Lost
<1> QED
  BY <1>1, <1>2

LEMMA ControlFrame ==
    ASSUME Control, UNCHANGED <<serVars, fwVars, hdl, stop_datapath>>
    PROVE  Control'
BY DEF Control, serVars, fwVars

\* The bounded counters.
LEMMA CountersStep ==
    ASSUME Counters, Next
    PROVE  Counters'
<1> USE BoundAssumption DEF Counters
<1>1. CASE PollingChk
  <2>1. poll_cnt' = poll_cnt \/ poll_cnt' = IF poll_cnt > 0 THEN poll_cnt - 1 ELSE 0
    BY <1>1, PollingFacts
  <2>2. pend' = pend /\ exts' = exts
    BY <1>1, PollingFacts DEF Simple
  <2>3. faults' = faults \/ (faults' = faults + 1 /\ faults < MaxFault)
    BY <1>1, PollingFacts, SendOutcome
  <2> QED
    BY <2>1, <2>2, <2>3
<1>2. CASE EventChk
  BY <1>2 DEF EventChk, Simple, Sent, Lost, Takes
<1>3. CASE FwExpire
  BY <1>3 DEF FwExpire, Simple, Takes
<1>4. CASE MsgFail
  BY <1>4 DEF MsgFail, pathVars, fwVars, Takes
<1>5. CASE M1Start
  BY <1>5 DEF M1Start, Busy, PauseCall, PauseReturn, Takes
<1>6. CASE M1Hw
  BY <1>6 DEF M1Hw, Busy, PauseCall, PauseReturn
<1>7. CASE M1Fail
  BY <1>7 DEF M1Fail, GiveUp, ResetStatus, NoCall
<1>8. CASE M1Done
  BY <1>8 DEF M1Done, AwaitFirmware, NoCall
<1>9. CASE M3
  BY <1>9 DEF M3, AwaitFirmware, Takes
<1>10. CASE M3Fail
  BY <1>10 DEF M3Fail, GiveUp, ResetStatus, pathVars, Takes
<1>11. CASE M5
  BY <1>11 DEF M5, ResetStatus, Resume, Takes
<1>12. CASE M9Start
  BY <1>12 DEF M9Start, Busy, PauseCall, PauseReturn, Takes
<1>13. CASE M9Rx
  BY <1>13 DEF M9Rx, Busy, PauseCall, PauseReturn
<1>14. CASE M9Done
  BY <1>14 DEF M9Done, GiveUp, ResetStatus, NoCall
<1>15. CASE ExtPend
  BY <1>15 DEF ExtPend, ExtFrame, fwVars, Takes
<1>16. CASE ExtIgnore
  BY <1>16 DEF ExtIgnore, ExtFrame, fwVars, Takes
<1>17. CASE PsEnter
  BY <1>17 DEF PsEnter, ExtFrame, fwVars, PauseCall, PauseReturn, Takes
<1>18. CASE PsEntered
  BY <1>18 DEF PsEntered, ExtFrame, fwVars, NoCall
<1>19. CASE PsLeave
  BY <1>19 DEF PsLeave, ExtFrame, fwVars, Resume, Takes
<1>20. CASE CallStep
  BY <1>20 DEF CallStep, serVars, fwVars, PauseStep
<1>21. CASE TimerFire
  BY <1>21 DEF TimerFire, Sent, Lost, pathVars, fwVars
<1>22. CASE HandlersStep
  BY <1>22 DEF HandlersStep, Tasklet, TrafficStep, Traffic, Others,
       HandlerStep, HandlerRun, HandlerCheck, HandlerStop, serVars, fwVars
<1>23. CASE ExtSend \/ HostL2
  BY <1>23 DEF ExtSend, Drv, pathVars, serVars, fwVars, HostL2
<1>24. CASE FwL1 \/ FwM3 \/ FwM5 \/ FwOther
  BY <1>24 DEF FwL1, Drv, Posts, pathVars, serVars, FwM3, FwM5, FwOther
<1>25. CASE FwHang \/ FwWatchdog
  BY <1>25 DEF FwHang, Drv, pathVars, serVars, FwWatchdog
<1> QED
  BY <1>1, <1>2, <1>3, <1>4, <1>5, <1>6, <1>7, <1>8, <1>9, <1>10, <1>11,
     <1>12, <1>13, <1>14, <1>15, <1>16, <1>17, <1>18, <1>19, <1>20, <1>21,
     <1>22, <1>23, <1>24, <1>25 DEF Next, ShareStep, Environment,
     HandlersStep, EnvStep

\* The data path.
LEMMA PathTypeStep ==
    ASSUME PathTypeOK, Next
    PROVE  PathTypeOK'
<1> USE DEF PathTypeOK, Dir, CallPc, Owner, Status
<1>1. CASE PollingChk
  BY <1>1, PollingFacts DEF Simple
<1>2. CASE EventChk
  BY <1>2 DEF EventChk, Simple, Sent, Lost, Takes
<1>3. CASE FwExpire
  BY <1>3 DEF FwExpire, Simple, Takes
<1>4. CASE MsgFail
  BY <1>4 DEF MsgFail, pathVars, fwVars, Takes
<1>5. CASE M1Start
  BY <1>5 DEF M1Start, Busy, PauseCall, PauseReturn, Takes
<1>6. CASE M1Hw
  BY <1>6 DEF M1Hw, Busy, PauseCall, PauseReturn
<1>7. CASE M1Fail
  BY <1>7 DEF M1Fail, GiveUp, ResetStatus, NoCall
<1>8. CASE M1Done
  BY <1>8 DEF M1Done, AwaitFirmware, NoCall
<1>9. CASE M3
  BY <1>9 DEF M3, AwaitFirmware, Takes
<1>10. CASE M3Fail
  BY <1>10 DEF M3Fail, GiveUp, ResetStatus, pathVars, Takes
<1>11. CASE M5
  BY <1>11 DEF M5, ResetStatus, Resume, Takes
<1>12. CASE M9Start
  BY <1>12 DEF M9Start, Busy, PauseCall, PauseReturn, Takes
<1>13. CASE M9Rx
  BY <1>13 DEF M9Rx, Busy, PauseCall, PauseReturn
<1>14. CASE M9Done
  BY <1>14 DEF M9Done, GiveUp, ResetStatus, NoCall
<1>15. CASE ExtPend
  BY <1>15 DEF ExtPend, ExtFrame, fwVars, Takes
<1>16. CASE ExtIgnore
  BY <1>16 DEF ExtIgnore, ExtFrame, fwVars, Takes
<1>17. CASE PsEnter
  BY <1>17 DEF PsEnter, ExtFrame, fwVars, PauseCall, PauseReturn, Takes
<1>18. CASE PsEntered
  BY <1>18 DEF PsEntered, ExtFrame, fwVars, NoCall
<1>19. CASE PsLeave
  BY <1>19 DEF PsLeave, ExtFrame, fwVars, Resume, Takes
<1>20. CASE CallStep
  <2>1. CASE PauseJoin
    BY <1>20, <2>1 DEF CallStep, PauseJoin, PauseStep, PauseReturn
  <2>2. CASE PauseRequest
    BY <1>20, <2>2 DEF CallStep, PauseRequest, PauseStep
  <2>3. CASE PauseSeen
    BY <1>20, <2>3 DEF CallStep, PauseSeen, PauseStep, PauseReturn
  <2>4. CASE PauseTimeout
    BY <1>20, <2>4 DEF CallStep, PauseTimeout, PauseStep, PauseReturn
  <2> QED
    BY <1>20, <2>1, <2>2, <2>3, <2>4 DEF CallStep, PauseStep
<1>21. CASE TimerFire
  BY <1>21 DEF TimerFire, Sent, Lost, pathVars, fwVars
<1>22. CASE HandlersStep
  <2>1. PICK d \in Dir : Tasklet(d) \/ (TrafficStep(d) /\ Others)
    BY <1>22 DEF HandlersStep
  <2>2. CASE HandlerRun(d)
    BY <2>1, <2>2 DEF HandlerRun, Tasklet, TrafficStep, HandlerStep, Others
  <2>3. CASE HandlerCheck(d)
    BY <2>1, <2>3 DEF HandlerCheck, Tasklet, TrafficStep, HandlerStep, Others
  <2>4. CASE HandlerStop(d)
    BY <2>1, <2>4 DEF HandlerStop, Tasklet, TrafficStep, HandlerStep, Others
  <2>5. CASE Traffic(d)
    BY <2>1, <2>5 DEF Traffic, Tasklet, TrafficStep, HandlerStep, Others
  <2> QED
    BY <2>1, <2>2, <2>3, <2>4, <2>5 DEF Tasklet, TrafficStep, HandlerStep
<1>23. CASE EnvStep
  BY <1>23, EnvFrame DEF Drv, pathVars, serVars
<1> QED
  BY <1>1, <1>2, <1>3, <1>4, <1>5, <1>6, <1>7, <1>8, <1>9, <1>10, <1>11,
     <1>12, <1>13, <1>14, <1>15, <1>16, <1>17, <1>18, <1>19, <1>20, <1>21,
     <1>22, <1>23 DEF Next, ShareStep, Environment, HandlersStep, EnvStep

\* The recovery module and the firmware.
LEMMA ControlStep ==
    ASSUME Control, Next
    PROVE  Control'
<1> USE DEF Control, State, Hdl
<1>1. CASE PollingChk
  <2>1. UNCHANGED <<ser, bserl2, post, hdl, stop_datapath, fw, h2c>>
    BY <1>1, PollingFacts DEF Simple
  <2>2. isr' \in BOOLEAN /\ wdt' \in BOOLEAN /\ timer' \in BOOLEAN
    BY <1>1, PollingFacts
  <2>3. mute' \in BOOLEAN
    BY <1>1, PollingFacts DEF Sent, Lost
  <2> QED
    BY <2>1, <2>2, <2>3
<1>2. CASE EventChk
  BY <1>2 DEF EventChk, Simple, Sent, Lost, Takes
<1>3. CASE FwExpire
  BY <1>3 DEF FwExpire, Simple, Takes
<1>4. CASE MsgFail
  BY <1>4 DEF MsgFail, pathVars, fwVars, Takes
<1>5. CASE M1Start
  BY <1>5 DEF M1Start, Busy, PauseCall, PauseReturn, Takes
<1>6. CASE M1Hw
  BY <1>6 DEF M1Hw, Busy, PauseCall, PauseReturn
<1>7. CASE M1Fail
  BY <1>7 DEF M1Fail, GiveUp, ResetStatus, NoCall
<1>8. CASE M1Done
  BY <1>8 DEF M1Done, AwaitFirmware, NoCall
<1>9. CASE M3
  BY <1>9 DEF M3, AwaitFirmware, Takes
<1>10. CASE M3Fail
  BY <1>10 DEF M3Fail, GiveUp, ResetStatus, pathVars, Takes
<1>11. CASE M5
  BY <1>11 DEF M5, ResetStatus, Resume, Takes
<1>12. CASE M9Start
  BY <1>12 DEF M9Start, Busy, PauseCall, PauseReturn, Takes
<1>13. CASE M9Rx
  BY <1>13 DEF M9Rx, Busy, PauseCall, PauseReturn
<1>14. CASE M9Done
  BY <1>14 DEF M9Done, GiveUp, ResetStatus, NoCall
<1>15. CASE ExtPend
  BY <1>15 DEF ExtPend, ExtFrame, fwVars, Takes
<1>16. CASE ExtIgnore
  BY <1>16 DEF ExtIgnore, ExtFrame, fwVars, Takes
<1>17. CASE PsEnter
  BY <1>17 DEF PsEnter, ExtFrame, fwVars, PauseCall, PauseReturn, Takes
<1>18. CASE PsEntered
  BY <1>18 DEF PsEntered, ExtFrame, fwVars, NoCall
<1>19. CASE PsLeave
  BY <1>19 DEF PsLeave, ExtFrame, fwVars, Resume, Takes
<1>20. CASE TimerFire
  <2>1. UNCHANGED <<ser, bserl2, hdl, stop_datapath, fw, post, isr, wdt, h2c>>
    BY <1>20 DEF TimerFire, fwVars
  <2>2. timer' \in BOOLEAN /\ mute' \in BOOLEAN
    BY <1>20 DEF TimerFire, Sent, Lost
  <2> QED
    BY <2>1, <2>2
<1>21. CASE CallStep \/ HandlersStep
  <2>1. UNCHANGED <<serVars, fwVars, hdl, stop_datapath>>
    BY <1>21 DEF CallStep, HandlersStep, Tasklet, Others
  <2> QED
    BY <2>1, ControlFrame
<1>22. CASE ExtSend \/ HostL2
  <2>1. UNCHANGED <<serVars, fwVars, hdl, stop_datapath>>
    BY <1>22 DEF ExtSend, HostL2, Drv
  <2> QED
    BY <2>1, ControlFrame
<1>23. CASE FwL1
  BY <1>23 DEF FwL1, Drv, Posts, pathVars, serVars
<1>24. CASE FwM3
  BY <1>24 DEF FwM3, Drv, Posts, pathVars, serVars
<1>25. CASE FwM5
  BY <1>25 DEF FwM5, Drv, Posts, pathVars, serVars
<1>26. CASE FwOther
  BY <1>26 DEF FwOther, Drv, Posts, pathVars, serVars
<1>27. CASE FwHang
  BY <1>27 DEF FwHang, Drv, pathVars, serVars
<1>28. CASE FwWatchdog
  BY <1>28 DEF FwWatchdog, Drv, pathVars, serVars
<1> QED
  BY <1>1, <1>2, <1>3, <1>4, <1>5, <1>6, <1>7, <1>8, <1>9, <1>10, <1>11,
     <1>12, <1>13, <1>14, <1>15, <1>16, <1>17, <1>18, <1>19, <1>20, <1>21,
     <1>22, <1>23, <1>24, <1>25, <1>26, <1>27, <1>28 DEF Next, ShareStep,
     Environment, HandlersStep, EnvStep

\* The call in progress belongs to the handler at work.
LEMMA ShapeStep ==
    ASSUME PathTypeOK, Control, CallShape, Next
    PROVE  CallShape'
<1> USE DEF PathTypeOK, Control, CallShape, Dir, CallPc, Owner, Hdl
<1>1. CASE PollingChk
  BY <1>1, PollingFacts DEF Simple
<1>2. CASE EventChk
  BY <1>2 DEF EventChk, Simple, Sent, Lost, Takes
<1>3. CASE FwExpire
  BY <1>3 DEF FwExpire, Simple, Takes
<1>4. CASE MsgFail
  BY <1>4 DEF MsgFail, pathVars, fwVars, Takes
<1>5. CASE M1Start
  BY <1>5 DEF M1Start, Busy, PauseCall, PauseReturn, Takes
<1>6. CASE M1Hw
  BY <1>6 DEF M1Hw, Busy, PauseCall, PauseReturn
<1>7. CASE M1Fail
  BY <1>7 DEF M1Fail, GiveUp, ResetStatus, NoCall
<1>8. CASE M1Done
  BY <1>8 DEF M1Done, AwaitFirmware, NoCall
<1>9. CASE M3
  BY <1>9 DEF M3, AwaitFirmware, Takes
<1>10. CASE M3Fail
  BY <1>10 DEF M3Fail, GiveUp, ResetStatus, pathVars, Takes
<1>11. CASE M5
  BY <1>11 DEF M5, ResetStatus, Resume, Takes
<1>12. CASE M9Start
  BY <1>12 DEF M9Start, Busy, PauseCall, PauseReturn, Takes
<1>13. CASE M9Rx
  BY <1>13 DEF M9Rx, Busy, PauseCall, PauseReturn
<1>14. CASE M9Done
  BY <1>14 DEF M9Done, GiveUp, ResetStatus, NoCall
<1>15. CASE ExtPend
  BY <1>15 DEF ExtPend, ExtFrame, fwVars, Takes
<1>16. CASE ExtIgnore
  BY <1>16 DEF ExtIgnore, ExtFrame, fwVars, Takes
<1>17. CASE PsEnter
  BY <1>17 DEF PsEnter, ExtFrame, fwVars, PauseCall, PauseReturn, Takes
<1>18. CASE PsEntered
  BY <1>18 DEF PsEntered, ExtFrame, fwVars, NoCall
<1>19. CASE PsLeave
  BY <1>19 DEF PsLeave, ExtFrame, fwVars, Resume, Takes
<1>20. CASE CallStep
  <2>1. CASE PauseJoin
    BY <1>20, <2>1 DEF CallStep, PauseJoin, PauseStep, PauseReturn
  <2>2. CASE PauseRequest
    BY <1>20, <2>2 DEF CallStep, PauseRequest, PauseStep
  <2>3. CASE PauseSeen
    BY <1>20, <2>3 DEF CallStep, PauseSeen, PauseStep, PauseReturn
  <2>4. CASE PauseTimeout
    BY <1>20, <2>4 DEF CallStep, PauseTimeout, PauseStep, PauseReturn
  <2> QED
    BY <1>20, <2>1, <2>2, <2>3, <2>4 DEF CallStep, PauseStep
<1>21. CASE TimerFire
  BY <1>21 DEF TimerFire, Sent, Lost, pathVars, fwVars
<1>22. CASE HandlersStep
  <2>1. PICK d \in Dir : Tasklet(d) \/ (TrafficStep(d) /\ Others)
    BY <1>22 DEF HandlersStep
  <2>2. CASE HandlerRun(d)
    BY <2>1, <2>2 DEF HandlerRun, Tasklet, TrafficStep, HandlerStep, Others
  <2>3. CASE HandlerCheck(d)
    BY <2>1, <2>3 DEF HandlerCheck, Tasklet, TrafficStep, HandlerStep, Others
  <2>4. CASE HandlerStop(d)
    BY <2>1, <2>4 DEF HandlerStop, Tasklet, TrafficStep, HandlerStep, Others
  <2>5. CASE Traffic(d)
    BY <2>1, <2>5 DEF Traffic, Tasklet, TrafficStep, HandlerStep, Others
  <2> QED
    BY <2>1, <2>2, <2>3, <2>4, <2>5 DEF Tasklet, TrafficStep, HandlerStep
<1>23. CASE EnvStep
  BY <1>23, EnvFrame DEF Drv, pathVars, serVars
<1> QED
  BY <1>1, <1>2, <1>3, <1>4, <1>5, <1>6, <1>7, <1>8, <1>9, <1>10, <1>11,
     <1>12, <1>13, <1>14, <1>15, <1>16, <1>17, <1>18, <1>19, <1>20, <1>21,
     <1>22, <1>23 DEF Next, ShareStep, Environment, HandlersStep, EnvStep

\* M1 is set while its handler runs, with the timer off.
LEMMA M1Step ==
    ASSUME Control, CallShape, M1Handled, Next
    PROVE  M1Handled'
<1> USE DEF Control, M1Handled, M1Hdl, CallShape
<1>1. CASE PollingChk
  BY <1>1, PollingFacts DEF Simple
<1>2. CASE EventChk
  BY <1>2 DEF EventChk, Simple, Sent, Lost, Takes
<1>3. CASE FwExpire
  BY <1>3 DEF FwExpire, Simple, Takes
<1>4. CASE MsgFail
  BY <1>4 DEF MsgFail, pathVars, fwVars, Takes
<1>5. CASE M1Start
  BY <1>5 DEF M1Start, Busy, PauseCall, PauseReturn, Takes
<1>6. CASE M1Hw
  BY <1>6 DEF M1Hw, Busy, PauseCall, PauseReturn
<1>7. CASE M1Fail
  BY <1>7 DEF M1Fail, GiveUp, ResetStatus, NoCall
<1>8. CASE M1Done
  BY <1>8 DEF M1Done, AwaitFirmware, NoCall
<1>9. CASE M3
  BY <1>9 DEF M3, AwaitFirmware, Takes
<1>10. CASE M3Fail
  BY <1>10 DEF M3Fail, GiveUp, ResetStatus, pathVars, Takes
<1>11. CASE M5
  BY <1>11 DEF M5, ResetStatus, Resume, Takes
<1>12. CASE M9Start
  BY <1>12 DEF M9Start, Busy, PauseCall, PauseReturn, Takes
<1>13. CASE M9Rx
  BY <1>13 DEF M9Rx, Busy, PauseCall, PauseReturn
<1>14. CASE M9Done
  BY <1>14 DEF M9Done, GiveUp, ResetStatus, NoCall
<1>15. CASE ExtPend
  BY <1>15 DEF ExtPend, ExtFrame, fwVars, Takes
<1>16. CASE ExtIgnore
  BY <1>16 DEF ExtIgnore, ExtFrame, fwVars, Takes
<1>17. CASE PsEnter
  BY <1>17 DEF PsEnter, ExtFrame, fwVars, PauseCall, PauseReturn, Takes
<1>18. CASE PsEntered
  BY <1>18 DEF PsEntered, ExtFrame, fwVars, NoCall
<1>19. CASE PsLeave
  BY <1>19 DEF PsLeave, ExtFrame, fwVars, Resume, Takes
<1>20. CASE CallStep
  BY <1>20 DEF CallStep, serVars, fwVars
<1>21. CASE TimerFire
  BY <1>21 DEF TimerFire, Sent, Lost, pathVars, fwVars
<1>22. CASE HandlersStep
  BY <1>22 DEF HandlersStep, Tasklet, Others, serVars, fwVars
<1>23. CASE EnvStep
  BY <1>23, EnvFrame DEF Drv, pathVars, serVars
<1> QED
  BY <1>1, <1>2, <1>3, <1>4, <1>5, <1>6, <1>7, <1>8, <1>9, <1>10, <1>11,
     <1>12, <1>13, <1>14, <1>15, <1>16, <1>17, <1>18, <1>19, <1>20, <1>21,
     <1>22, <1>23 DEF Next, ShareStep, Environment, HandlersStep, EnvStep

LEMMA MsgFacts ==
    /\ {"POLLING_CHK", "EVENT_CHK", "M9", "FW_TIMER_EXPIRE"} \subseteq SerMsg \ Step
    /\ Step \subseteq SerMsg
    /\ SerMsg \subseteq Msg /\ "EXT" \in Msg \ SerMsg
BY DEF SerMsg, Msg, Step

\* The queue stays one of messages.
LEMMA QueueType ==
    ASSUME TypeInv, Next
    PROVE  wait_q' \in Seq(Msg)
<1> USE MsgFacts
<1>1. wait_q \in Seq(Msg) /\ pend \in Nat
  BY DEF TypeInv, TypeOK
<1>2. ASSUME wait_q # <<>>
      PROVE  /\ Rest \in Seq(Msg) /\ Released(Rest) \in Seq(Msg)
             /\ \A e \in Msg : Append(Rest, e) \in Seq(Msg)
  <2>1. Rest \in Seq(Msg)
    BY <1>1, <1>2, QueueTail DEF Rest
  <2> QED
    BY <1>1, <2>1, QueueReleased, QueueAppend
<1>3. Released(wait_q) \in Seq(Msg) /\ \A e \in Msg : Append(wait_q, e) \in Seq(Msg)
  BY <1>1, QueueReleased, QueueAppend
<1>4. CASE PollingChk
  <2> DEFINE a == IF isr THEN <<"EVENT_CHK">> ELSE <<>>
             b == IF wdt THEN <<"M9">> ELSE <<>>
  <2>1. Rest \in Seq(Msg)
    BY <1>2, <1>4 DEF PollingChk, Takes
  <2>2. Rest \o a \in Seq(Msg)
    BY <2>1, QueueOne, QueueAppend
  <2>3. (Rest \o a) \o b \in Seq(Msg)
    <3> HIDE DEF a
    <3> QED
      BY <2>2, QueueOne, QueueAppend
  <2>4. Rest \o b \in Seq(Msg)
    BY <2>1, QueueOne, QueueAppend
  <2>5. wait_q' \in {Rest, Rest \o a, Rest \o b, (Rest \o a) \o b}
    BY <1>4 DEF PollingChk, Recognize
  <2> QED
    BY <2>1, <2>2, <2>3, <2>4, <2>5
<1>5. CASE EventChk
  BY <1>2, <1>5 DEF EventChk, Takes
<1>6. CASE FwExpire \/ MsgFail \/ M1Start \/ M3 \/ M9Start \/ ExtPend \/ ExtIgnore
           \/ PsEnter \/ PsLeave
  BY <1>2, <1>6 DEF FwExpire, MsgFail, M1Start, M3, M9Start, ExtPend, ExtIgnore,
                    PsEnter, PsLeave, Takes
<1>7. CASE M3Fail \/ M5 \/ M1Fail \/ M9Done
  BY <1>2, <1>3, <1>7 DEF M3Fail, M5, M1Fail, M9Done, GiveUp, Takes
<1>8. CASE TimerFire
  <2>1. TimerMsg \in Msg
    BY <1>8, MsgFacts DEF TimerFire, TimerMsg, TypeInv, M1Handled
  <2> QED
    BY <1>1, <1>3, <1>8, <2>1 DEF TimerFire
<1>9. CASE ExtSend \/ HostL2
  BY <1>3, <1>9 DEF ExtSend, HostL2
<1>10. CASE M1Hw \/ M1Done \/ M9Rx \/ PsEntered \/ CallStep \/ FwL1 \/ FwM3 \/ FwM5
            \/ FwOther \/ FwHang \/ FwWatchdog \/ HandlersStep
  <2>1. wait_q' = wait_q
    BY <1>10 DEF M1Hw, M1Done, M9Rx, PsEntered, CallStep, FwL1, FwM3, FwM5, FwOther,
                 FwHang, FwWatchdog, HandlersStep, Tasklet, Others
  <2> QED
    BY <1>1, <2>1
<1> QED
  BY <1>4, <1>5, <1>6, <1>7, <1>8, <1>9, <1>10 DEF Next, ShareStep, Environment, HandlersStep

LEMMA TypeStep == TypeInv /\ [Next]_vars => TypeInv'
<1>1. ASSUME TypeInv, Next PROVE TypeInv'
  <2>1. wait_q' \in Seq(Msg)
    BY <1>1, QueueType
  <2> QED
    BY <1>1, <2>1, TypeParts, CountersStep, PathTypeStep, ControlStep, ShapeStep, M1Step
       DEF TypeInv, TypeOK, Counters, Control
<1>2. ASSUME TypeInv, UNCHANGED vars PROVE TypeInv'
  BY <1>2 DEF vars, TypeInv, TypeOK, PathTypeOK, CallShape, M1Handled
<1> QED
  BY <1>1, <1>2

LEMMA TypeInit == Init => TypeInv
<1> SUFFICES ASSUME Init PROVE TypeInv
  OBVIOUS
<1>1. Counters
  BY BoundAssumption DEF Counters, Init
<1>2. PathTypeOK
  BY DEF PathTypeOK, Init, PathInit, NoCall, Dir, Owner, Status, CallPc
<1>3. Control
  BY DEF Control, Init, Hdl
<1>4. wait_q \in Seq(Msg)
  BY DEF Init
<1>5. CallShape
  BY DEF CallShape, Init, PathInit, NoCall
<1>6. M1Handled
  BY DEF M1Handled, Init
<1> QED
  BY <1>1, <1>2, <1>3, <1>4, <1>5, <1>6, TypeParts DEF TypeInv

\* Type correctness, and with it that IO_TIMER_EXPIRE, which the handler ignores
\* without starting the next poll, is never sent.
THEOREM TypeCorrect == Spec => []TypeOK
<1>1. TypeInv => TypeOK
  BY DEF TypeInv
<1> QED
  BY <1>1, TypeInit, TypeStep, PTL DEF Spec

-----------------------------------------------------------------------------
(* The data path                                                           *)

\* The status of a direction stays in step with its owners, the call and the
\* handler.
LEMMA PathStep ==
    ASSUME PathTypeOK, CallShape, PathInv, Next
    PROVE  PathInv'
<1> USE DEF PathTypeOK, CallShape, PathInv, PausedOwned, Ordered, PollingAt, Dir
<1>1. CASE PollingChk
  BY <1>1, PollingFacts DEF Simple
<1>2. CASE EventChk
  BY <1>2 DEF EventChk, Simple, Sent, Lost, Takes
<1>3. CASE FwExpire
  BY <1>3 DEF FwExpire, Simple, Takes
<1>4. CASE MsgFail
  BY <1>4 DEF MsgFail, pathVars, fwVars, Takes
<1>5. CASE M1Start
  BY <1>5 DEF M1Start, Busy, PauseCall, PauseReturn, Takes
<1>6. CASE M1Hw
  BY <1>6 DEF M1Hw, Busy, PauseCall, PauseReturn
<1>7. CASE M1Fail
  BY <1>7 DEF M1Fail, GiveUp, ResetStatus, NoCall
<1>8. CASE M1Done
  BY <1>8 DEF M1Done, AwaitFirmware, NoCall
<1>9. CASE M3
  BY <1>9 DEF M3, AwaitFirmware, Takes
<1>10. CASE M3Fail
  BY <1>10 DEF M3Fail, GiveUp, ResetStatus, pathVars, Takes
<1>11. CASE M5
  BY <1>11 DEF M5, ResetStatus, Resume, Takes
<1>12. CASE M9Start
  BY <1>12 DEF M9Start, Busy, PauseCall, PauseReturn, Takes
<1>13. CASE M9Rx
  BY <1>13 DEF M9Rx, Busy, PauseCall, PauseReturn
<1>14. CASE M9Done
  BY <1>14 DEF M9Done, GiveUp, ResetStatus, NoCall
<1>15. CASE ExtPend
  BY <1>15 DEF ExtPend, ExtFrame, fwVars, Takes
<1>16. CASE ExtIgnore
  BY <1>16 DEF ExtIgnore, ExtFrame, fwVars, Takes
<1>17. CASE PsEnter
  BY <1>17 DEF PsEnter, ExtFrame, fwVars, PauseCall, PauseReturn, Takes
<1>18. CASE PsEntered
  BY <1>18 DEF PsEntered, ExtFrame, fwVars, NoCall
<1>19. CASE PsLeave
  BY <1>19 DEF PsLeave, ExtFrame, fwVars, Resume, Takes
<1>20. CASE CallStep
  <2>1. CASE PauseJoin
    BY <1>20, <2>1 DEF CallStep, PauseJoin, PauseStep, PauseReturn
  <2>2. CASE PauseRequest
    BY <1>20, <2>2 DEF CallStep, PauseRequest, PauseStep
  <2>3. CASE PauseSeen
    BY <1>20, <2>3 DEF CallStep, PauseSeen, PauseStep, PauseReturn
  <2>4. CASE PauseTimeout
    BY <1>20, <2>4 DEF CallStep, PauseTimeout, PauseStep, PauseReturn
  <2> QED
    BY <1>20, <2>1, <2>2, <2>3, <2>4 DEF CallStep, PauseStep
<1>21. CASE TimerFire
  BY <1>21 DEF TimerFire, Sent, Lost, pathVars, fwVars
<1>22. CASE HandlersStep
  <2>1. PICK d \in Dir : Tasklet(d) \/ (TrafficStep(d) /\ Others)
    BY <1>22 DEF HandlersStep
  <2>2. CASE HandlerRun(d)
    BY <2>1, <2>2 DEF HandlerRun, Tasklet, TrafficStep, HandlerStep, Others
  <2>3. CASE HandlerCheck(d)
    BY <2>1, <2>3 DEF HandlerCheck, Tasklet, TrafficStep, HandlerStep, Others
  <2>4. CASE HandlerStop(d)
    BY <2>1, <2>4 DEF HandlerStop, Tasklet, TrafficStep, HandlerStep, Others
  <2>5. CASE Traffic(d)
    BY <2>1, <2>5 DEF Traffic, Tasklet, TrafficStep, HandlerStep, Others
  <2> QED
    BY <2>1, <2>2, <2>3, <2>4, <2>5 DEF Tasklet, TrafficStep, HandlerStep
<1>23. CASE EnvStep
  BY <1>23, EnvFrame DEF Drv, pathVars, serVars
<1> QED
  BY <1>1, <1>2, <1>3, <1>4, <1>5, <1>6, <1>7, <1>8, <1>9, <1>10, <1>11,
     <1>12, <1>13, <1>14, <1>15, <1>16, <1>17, <1>18, <1>19, <1>20, <1>21,
     <1>22, <1>23 DEF Next, ShareStep, Environment, HandlersStep, EnvStep

\* Power save knows of its claim.
LEMMA PsClaimStep ==
    ASSUME PathTypeOK, Control, CallShape, PsClaimKnown, Next
    PROVE  PsClaimKnown'
<1> USE DEF PathTypeOK, Control, CallShape, PsClaimKnown, Dir
<1>1. CASE PollingChk
  BY <1>1, PollingFacts DEF Simple
<1>2. CASE EventChk
  BY <1>2 DEF EventChk, Simple, Sent, Lost, Takes
<1>3. CASE FwExpire
  BY <1>3 DEF FwExpire, Simple, Takes
<1>4. CASE MsgFail
  BY <1>4 DEF MsgFail, pathVars, fwVars, Takes
<1>5. CASE M1Start
  BY <1>5 DEF M1Start, Busy, PauseCall, PauseReturn, Takes
<1>6. CASE M1Hw
  BY <1>6 DEF M1Hw, Busy, PauseCall, PauseReturn
<1>7. CASE M1Fail
  BY <1>7 DEF M1Fail, GiveUp, ResetStatus, NoCall
<1>8. CASE M1Done
  BY <1>8 DEF M1Done, AwaitFirmware, NoCall
<1>9. CASE M3
  BY <1>9 DEF M3, AwaitFirmware, Takes
<1>10. CASE M3Fail
  BY <1>10 DEF M3Fail, GiveUp, ResetStatus, pathVars, Takes
<1>11. CASE M5
  BY <1>11 DEF M5, ResetStatus, Resume, Takes
<1>12. CASE M9Start
  BY <1>12 DEF M9Start, Busy, PauseCall, PauseReturn, Takes
<1>13. CASE M9Rx
  BY <1>13 DEF M9Rx, Busy, PauseCall, PauseReturn
<1>14. CASE M9Done
  BY <1>14 DEF M9Done, GiveUp, ResetStatus, NoCall
<1>15. CASE ExtPend
  BY <1>15 DEF ExtPend, ExtFrame, fwVars, Takes
<1>16. CASE ExtIgnore
  BY <1>16 DEF ExtIgnore, ExtFrame, fwVars, Takes
<1>17. CASE PsEnter
  BY <1>17 DEF PsEnter, ExtFrame, fwVars, PauseCall, PauseReturn, Takes
<1>18. CASE PsEntered
  BY <1>18 DEF PsEntered, ExtFrame, fwVars, NoCall
<1>19. CASE PsLeave
  BY <1>19 DEF PsLeave, ExtFrame, fwVars, Resume, Takes
<1>20. CASE CallStep
  <2>1. CASE PauseJoin
    BY <1>20, <2>1 DEF CallStep, PauseJoin, PauseStep, PauseReturn
  <2>2. CASE PauseRequest
    BY <1>20, <2>2 DEF CallStep, PauseRequest, PauseStep
  <2>3. CASE PauseSeen
    BY <1>20, <2>3 DEF CallStep, PauseSeen, PauseStep, PauseReturn
  <2>4. CASE PauseTimeout
    BY <1>20, <2>4 DEF CallStep, PauseTimeout, PauseStep, PauseReturn
  <2> QED
    BY <1>20, <2>1, <2>2, <2>3, <2>4 DEF CallStep, PauseStep
<1>21. CASE TimerFire
  BY <1>21 DEF TimerFire, Sent, Lost, pathVars, fwVars
<1>22. CASE HandlersStep
  <2>1. PICK d \in Dir : Tasklet(d) \/ (TrafficStep(d) /\ Others)
    BY <1>22 DEF HandlersStep
  <2>2. CASE HandlerRun(d)
    BY <2>1, <2>2 DEF HandlerRun, Tasklet, TrafficStep, HandlerStep, Others
  <2>3. CASE HandlerCheck(d)
    BY <2>1, <2>3 DEF HandlerCheck, Tasklet, TrafficStep, HandlerStep, Others
  <2>4. CASE HandlerStop(d)
    BY <2>1, <2>4 DEF HandlerStop, Tasklet, TrafficStep, HandlerStep, Others
  <2>5. CASE Traffic(d)
    BY <2>1, <2>5 DEF Traffic, Tasklet, TrafficStep, HandlerStep, Others
  <2> QED
    BY <2>1, <2>2, <2>3, <2>4, <2>5 DEF Tasklet, TrafficStep, HandlerStep
<1>23. CASE EnvStep
  BY <1>23, EnvFrame DEF Drv, pathVars, serVars
<1> QED
  BY <1>1, <1>2, <1>3, <1>4, <1>5, <1>6, <1>7, <1>8, <1>9, <1>10, <1>11,
     <1>12, <1>13, <1>14, <1>15, <1>16, <1>17, <1>18, <1>19, <1>20, <1>21,
     <1>22, <1>23 DEF Next, ShareStep, Environment, HandlersStep, EnvStep

\* Messages are held back in a recovery only, and a recovery whose handler is not
\* at work waits for the firmware.
PendInv ==
    /\ PendingInRecovery
    /\ hdl \in {"none", "PS"} /\ ser # {} /\ ~bserl2 => Waiting

LEMMA PendingStep ==
    ASSUME Counters, PendInv, Next
    PROVE  PendInv'
<1> USE DEF Counters, PendInv, PendingInRecovery, Waiting, ResetStatus
<1>1. CASE PollingChk
  BY <1>1, PollingFacts DEF Simple
<1>2. CASE EventChk
  BY <1>2 DEF EventChk, Simple, Sent, Lost, Takes
<1>3. CASE FwExpire
  BY <1>3 DEF FwExpire, Simple, Takes
<1>4. CASE MsgFail
  BY <1>4 DEF MsgFail, pathVars, fwVars, Takes
<1>5. CASE M1Start
  BY <1>5 DEF M1Start, Busy, PauseCall, PauseReturn, Takes
<1>6. CASE M1Hw
  BY <1>6 DEF M1Hw, Busy, PauseCall, PauseReturn
<1>7. CASE M1Fail
  BY <1>7 DEF M1Fail, GiveUp, ResetStatus, NoCall
<1>8. CASE M1Done
  BY <1>8 DEF M1Done, AwaitFirmware, NoCall
<1>9. CASE M3
  BY <1>9 DEF M3, AwaitFirmware, Takes
<1>10. CASE M3Fail
  BY <1>10 DEF M3Fail, GiveUp, ResetStatus, pathVars, Takes
<1>11. CASE M5
  BY <1>11 DEF M5, ResetStatus, Resume, Takes
<1>12. CASE M9Start
  BY <1>12 DEF M9Start, Busy, PauseCall, PauseReturn, Takes
<1>13. CASE M9Rx
  BY <1>13 DEF M9Rx, Busy, PauseCall, PauseReturn
<1>14. CASE M9Done
  BY <1>14 DEF M9Done, GiveUp, ResetStatus, NoCall
<1>15. CASE ExtPend
  BY <1>15 DEF ExtPend, ExtFrame, fwVars, Takes
<1>16. CASE ExtIgnore
  BY <1>16 DEF ExtIgnore, ExtFrame, fwVars, Takes
<1>17. CASE PsEnter
  BY <1>17 DEF PsEnter, ExtFrame, fwVars, PauseCall, PauseReturn, Takes
<1>18. CASE PsEntered
  BY <1>18 DEF PsEntered, ExtFrame, fwVars, NoCall
<1>19. CASE PsLeave
  BY <1>19 DEF PsLeave, ExtFrame, fwVars, Resume, Takes
<1>20. CASE CallStep
  BY <1>20 DEF CallStep, serVars, fwVars
<1>21. CASE TimerFire
  BY <1>21 DEF TimerFire, Sent, Lost, pathVars, fwVars
<1>22. CASE HandlersStep
  BY <1>22 DEF HandlersStep, Tasklet, Others, serVars, fwVars
<1>23. CASE EnvStep
  BY <1>23, EnvFrame DEF Drv, pathVars, serVars
<1> QED
  BY <1>1, <1>2, <1>3, <1>4, <1>5, <1>6, <1>7, <1>8, <1>9, <1>10, <1>11,
     <1>12, <1>13, <1>14, <1>15, <1>16, <1>17, <1>18, <1>19, <1>20, <1>21,
     <1>22, <1>23 DEF Next, ShareStep, Environment, HandlersStep, EnvStep

\* A direction of the data path that does not run has somebody to restart it, also
\* when power save and a recovery pause it in turn.
THEOREM PathOwned == Spec => []PausedOwned
<1>1. Init => PathInv
  BY DEF Init, PathInit, PathInv, PausedOwned, Ordered, PollingAt, NoCall
<1>2. ASSUME TypeInv, PathInv, [Next]_vars PROVE PathInv'
  <2>1. CASE Next
    BY <1>2, <2>1, PathStep, TypeParts DEF TypeInv
  <2>2. CASE UNCHANGED vars
    BY <1>2, <2>2 DEF vars, PathInv, PausedOwned, Ordered, PollingAt, NoCall
  <2> QED
    BY <1>2, <2>1, <2>2
<1>3. PathInv => PausedOwned
  BY DEF PathInv
<1> QED
  BY <1>1, <1>2, <1>3, TypeInit, TypeStep, PTL DEF Spec

\* Power save knows of its claim on TX.
THEOREM ClaimKnown == Spec => []PsClaimKnown
<1>1. Init => PsClaimKnown
  BY DEF Init, PathInit, PsClaimKnown, Dir
<1>2. ASSUME TypeInv, PsClaimKnown, [Next]_vars PROVE PsClaimKnown'
  <2>1. CASE Next
    BY <1>2, <2>1, PsClaimStep, TypeParts DEF TypeInv
  <2>2. CASE UNCHANGED vars
    BY <1>2, <2>2 DEF vars, PsClaimKnown, Dir
  <2> QED
    BY <1>2, <2>1, <2>2
<1> QED
  BY <1>1, <1>2, TypeInit, TypeStep, PTL DEF Spec

\* No message stays on the pending queue when the recovery it waited for is over.
THEOREM PendingReleased == Spec => []PendingInRecovery
<1>1. Init => PendInv
  BY DEF Init, PathInit, PendInv, PendingInRecovery
<1>2. ASSUME TypeInv, PendInv, [Next]_vars PROVE PendInv'
  <2>1. CASE Next
    BY <1>2, <2>1, PendingStep, TypeParts DEF TypeInv
  <2>2. CASE UNCHANGED vars
    BY <1>2, <2>2 DEF vars, PendInv, PendingInRecovery, Waiting
  <2> QED
    BY <1>2, <2>1, <2>2
<1>3. PendInv => PendingInRecovery
  BY DEF PendInv
<1> QED
  BY <1>1, <1>2, <1>3, TypeInit, TypeStep, PTL DEF Spec

-----------------------------------------------------------------------------
(* The next poll                                                           *)

\* What a handler finds in the queue and leaves there.
LEMMA TakesFacts ==
    ASSUME TypeInv, NEW e, Takes(e)
    PROVE  /\ wait_q \in Seq(Msg) /\ Rest \in Seq(Msg) /\ hdl = "none"
           /\ Has(wait_q, e)
           /\ \A f : Has(Rest, f) => Has(wait_q, f)
           /\ \A f : Has(wait_q, f) /\ f # e => Has(Rest, f)
           /\ Once(wait_q) => Once(Rest)
           /\ Once(wait_q) /\ e \in {"M1", "M3"} => ~Has(Rest, e)
           /\ Once(wait_q) /\ e = "M1" => ~Has(wait_q, "M5")
<1>1. wait_q \in Seq(Msg) /\ wait_q # <<>> /\ Head(wait_q) = e /\ hdl = "none"
  BY DEF Takes, TypeInv, TypeOK
<1> QED
  BY <1>1, QueueTail DEF Rest

\* PollingChk sends a message, or none, that is not of the handshake.
LEMMA QueueMaybe ==
    ASSUME NEW q \in Seq(Msg), NEW e \in Msg \ Step, NEW c \in BOOLEAN, NEW p,
           p = q \o (IF c THEN <<e>> ELSE <<>>)
    PROVE  /\ p \in Seq(Msg)
           /\ c => Has(p, e)
           /\ \A f : Has(q, f) => Has(p, f)
           /\ \A f \in Step : Has(p, f) => Has(q, f)
           /\ Once(q) => Once(p)
<1>1. CASE c
  <2>1. p = Append(q, e)
    BY <1>1, QueueOne
  <2>2. e \notin {"M1", "M3"} /\ e # "M5"
    BY DEF Step
  <2>3. /\ Append(q, e) \in Seq(Msg)
        /\ Has(Append(q, e), e)
        /\ \A f : Has(q, f) => Has(Append(q, e), f)
        /\ \A f : Has(Append(q, e), f) => f = e \/ Has(q, f)
        /\ Once(q) => Once(Append(q, e))
    BY <2>2, QueueAppend, Zenon
  <2> QED
    BY <2>1, <2>3, Zenon
<1>2. CASE ~c
  <2>1. p = q
    BY <1>2, QueueOne
  <2> QED
    BY <1>2, <2>1
<1> QED
  BY <1>1, <1>2

LEMMA PollingQueue ==
    ASSUME TypeInv, PollingChk
    PROVE  /\ timer' \/ mute' \/ Has(wait_q', "EVENT_CHK") \/ Has(wait_q', "M9")
           /\ \A f \in Step : Has(wait_q', f) => Has(wait_q, f)
           /\ Once(wait_q) => Once(wait_q')
<1>1. /\ Rest \in Seq(Msg)
      /\ \A f : Has(Rest, f) => Has(wait_q, f)
      /\ Once(wait_q) => Once(Rest)
  <2>1. Takes("POLLING_CHK")
    BY DEF PollingChk
  <2> QED
    BY <2>1, TakesFacts
<1>2. CASE isr \/ wdt
  <2> DEFINE q == Rest \o (IF isr THEN <<"EVENT_CHK">> ELSE <<>>)
             p == q \o (IF wdt THEN <<"M9">> ELSE <<>>)
             o == Rest \o (IF wdt THEN <<"M9">> ELSE <<>>)
  <2>1. wait_q' = p \/ (wait_q' \in {q, o, Rest} /\ mute')
    <3>1. Recognize
      BY <1>2 DEF PollingChk
    <3>2. wait_q' = p \/ (wait_q' \in {q, o, Rest} /\ Lost)
      BY <3>1 DEF Recognize
    <3> QED
      BY <3>2 DEF Lost
  <2>2. isr \in BOOLEAN /\ wdt \in BOOLEAN
    BY DEF TypeInv, TypeOK
  <2>3. /\ q \in Seq(Msg)
        /\ isr => Has(q, "EVENT_CHK")
        /\ \A f \in Step : Has(q, f) => Has(Rest, f)
        /\ Once(Rest) => Once(q)
    BY <1>1, <2>2, MsgFacts, QueueMaybe
  <2>5. /\ \A f \in Step : Has(o, f) => Has(Rest, f)
        /\ Once(Rest) => Once(o)
    BY <1>1, <2>2, MsgFacts, QueueMaybe
  <2> HIDE DEF q, o
  <2>4. /\ \A f : Has(q, f) => Has(p, f)
        /\ wdt => Has(p, "M9")
        /\ \A f \in Step : Has(p, f) => Has(q, f)
        /\ Once(q) => Once(p)
    BY <2>2, <2>3, MsgFacts, QueueMaybe
  <2> HIDE DEF p
  <2> QED
    BY <1>1, <1>2, <2>1, <2>3, <2>4, <2>5
<1>3. CASE ~(isr \/ wdt)
  <2>1. wait_q' = Rest /\ timer'
    BY <1>3 DEF PollingChk
  <2> QED
    BY <1>1, <2>1
<1> QED
  BY <1>2, <1>3

\* One that is sent is in the queue, with all that was there.
LEMMA SendFacts ==
    ASSUME TypeInv, NEW e \in Msg, wait_q' = Append(wait_q, e)
    PROVE  /\ Has(wait_q', e)
           /\ \A f : Has(wait_q, f) => Has(wait_q', f)
           /\ \A f : Has(wait_q', f) => f = e \/ Has(wait_q, f)
           /\ Once(wait_q) /\ e \notin Step => Once(wait_q')
<1>1. wait_q \in Seq(Msg)
  BY DEF TypeInv, TypeOK
<1> QED
  BY <1>1, QueueAppend DEF Step

LEMMA EventQueue ==
    ASSUME TypeInv, EventChk, post \in SerMsg
    PROVE  /\ mute' \/ Has(wait_q', post)
           /\ \A f : Has(wait_q', f) => f = post \/ Has(wait_q, f)
           /\ Once(wait_q) /\ (post \in {"M1", "M3"} => ~Has(wait_q, post))
                /\ (post = "M5" => ~Has(wait_q, "M1")) => Once(wait_q')
<1>1. /\ Rest \in Seq(Msg)
      /\ \A f : Has(Rest, f) => Has(wait_q, f)
      /\ Once(wait_q) => Once(Rest)
  BY TakesFacts DEF EventChk
<1>2. CASE wait_q' = Append(Rest, post)
  <2>1. post \in Msg
    BY MsgFacts
  <2> QED
    BY <1>1, <1>2, <2>1, QueueAppend
<1>3. CASE wait_q' = Rest /\ mute'
  BY <1>1, <1>3
<1> QED
  BY <1>2, <1>3 DEF EventChk, Lost

Alive == timer \/ mute \/ hdl \notin {"none", "PS"} \/ \E e \in SerMsg : Has(wait_q, e)

LEMMA AliveIsPollAlive == Alive <=> PollAlive
BY DEF Alive, PollAlive, Has

\* The chain of timer, message and handler does not break.
LEMMA AliveStep ==
    ASSUME TypeInv, Alive, Next
    PROVE  Alive'
<1> USE DEF Alive
<1>1. CASE PollingChk
  BY <1>1, PollingQueue, MsgFacts
<1>2. CASE EventChk
  BY <1>2, EventQueue DEF EventChk, Simple, Sent, Lost, Takes
<1>3. CASE FwExpire
  BY <1>3 DEF FwExpire, Simple, Takes
<1>4. CASE MsgFail
  BY <1>4 DEF MsgFail, pathVars, fwVars, Takes
<1>5. CASE M1Start
  BY <1>5 DEF M1Start, Busy, PauseCall, PauseReturn, Takes
<1>6. CASE M1Hw
  BY <1>6 DEF M1Hw, Busy, PauseCall, PauseReturn
<1>7. CASE M1Fail
  BY <1>7 DEF M1Fail, GiveUp, ResetStatus, NoCall
<1>8. CASE M1Done
  BY <1>8 DEF M1Done, AwaitFirmware, NoCall
<1>9. CASE M3
  BY <1>9 DEF M3, AwaitFirmware, Takes
<1>10. CASE M3Fail
  BY <1>10 DEF M3Fail, GiveUp, ResetStatus, pathVars, Takes
<1>11. CASE M5
  BY <1>11 DEF M5, ResetStatus, Resume, Takes
<1>12. CASE M9Start
  BY <1>12 DEF M9Start, Busy, PauseCall, PauseReturn, Takes
<1>13. CASE M9Rx
  BY <1>13 DEF M9Rx, Busy, PauseCall, PauseReturn
<1>14. CASE M9Done
  BY <1>14 DEF M9Done, GiveUp, ResetStatus, NoCall
<1>15. CASE ExtPend
  BY <1>15, TakesFacts, MsgFacts DEF ExtPend, ExtFrame, fwVars, Takes
<1>16. CASE ExtIgnore
  BY <1>16, TakesFacts, MsgFacts DEF ExtIgnore, ExtFrame, fwVars, Takes
<1>17. CASE PsEnter
  BY <1>17, TakesFacts, MsgFacts DEF PsEnter, ExtFrame, fwVars, PauseCall,
       PauseReturn, Takes
<1>18. CASE PsEntered
  BY <1>18 DEF PsEntered, ExtFrame, fwVars, NoCall
<1>19. CASE PsLeave
  BY <1>19, TakesFacts, MsgFacts DEF PsLeave, ExtFrame, fwVars, Resume,
       Takes
<1>20. CASE CallStep
  BY <1>20 DEF CallStep, serVars, fwVars
<1>21. CASE TimerFire
  <2>1. TimerMsg \in SerMsg /\ TimerMsg \in Msg
    BY <1>21, MsgFacts DEF TimerFire, TimerMsg, M1Handled, TypeInv
  <2>2. wait_q' = Append(wait_q, TimerMsg) \/ mute'
    BY <1>21 DEF TimerFire, Lost
  <2> QED
    BY <2>1, <2>2, SendFacts
<1>22. CASE HandlersStep
  BY <1>22 DEF HandlersStep, Tasklet, Others, serVars, fwVars
<1>23. CASE EnvStep
  <2>1. UNCHANGED <<timer, mute, hdl>>
    BY <1>23, EnvFrame DEF Drv, serVars
  <2>2. \A f : Has(wait_q, f) => Has(wait_q', f)
    <3>1. CASE ExtSend \/ HostL2
      BY <3>1, SendFacts, MsgFacts DEF ExtSend, HostL2
    <3>2. CASE ~(ExtSend \/ HostL2)
      BY <1>23, <3>2 DEF EnvStep, FwL1, FwM3, FwM5, FwOther, FwHang, FwWatchdog
    <3> QED
      BY <3>1, <3>2
  <2> QED
    BY <2>1, <2>2
<1> QED
  BY <1>1, <1>2, <1>3, <1>4, <1>5, <1>6, <1>7, <1>8, <1>9, <1>10, <1>11,
     <1>12, <1>13, <1>14, <1>15, <1>16, <1>17, <1>18, <1>19, <1>20, <1>21,
     <1>22, <1>23 DEF Next, ShareStep, Environment, HandlersStep, EnvStep

\* The driver always has its next poll under way, as long as no error was only
\* logged: every handler, whichever way it ends, starts the next link.
THEOREM PollingGoesOn == Spec => []PollAlive
<1>1. Init => Alive
  BY DEF Init, PathInit, Alive, Has
<1>2. ASSUME TypeInv, Alive, [Next]_vars PROVE Alive'
  <2>1. CASE Next
    BY <1>2, <2>1, AliveStep, TypeParts DEF TypeInv
  <2>2. CASE UNCHANGED vars
    BY <1>2, <2>2 DEF vars, Alive, Has
  <2> QED
    BY <1>2, <2>1, <2>2
<1>3. Alive => PollAlive
  BY AliveIsPollAlive
<1> QED
  BY <1>1, <1>2, <1>3, TypeInit, TypeStep, PTL DEF Spec

-----------------------------------------------------------------------------
(* The handshake with the firmware                                         *)

\* A step that moves no part of the handshake, or drops one.
LEMMA BatonFrame ==
    ASSUME Baton, Once(wait_q'), \A f \in Step : Has(wait_q', f) => Has(wait_q, f),
           post' = post \/ post' \notin Step,
           fw' = fw \/ fw' \in {"hung", "bitten"},
           h2c' = h2c, Handled' => Handled
    PROVE  Baton'
BY DEF Baton, Posted, Queued, Handled, Told, Step, M1Hdl

\* Its messages in the queue come from EventChk.
LEMMA QueueStep ==
    ASSUME TypeInv, Next, Once(wait_q)
    PROVE  \/ EventChk
           \/ Once(wait_q') /\ \A f \in Step : Has(wait_q', f) => Has(wait_q, f)
<1> USE MsgFacts
<1>1. wait_q \in Seq(Msg) /\ pend \in Nat
  BY DEF TypeInv, TypeOK
<1>2. CASE PollingChk
  BY <1>2, PollingQueue
<1>3. CASE FwExpire \/ MsgFail \/ M1Start \/ M3 \/ M9Start \/ ExtPend \/ ExtIgnore
           \/ PsEnter \/ PsLeave
  <2>1. wait_q' = Rest /\ \E e : Takes(e)
    BY <1>3 DEF FwExpire, MsgFail, M1Start, M3, M9Start, ExtPend, ExtIgnore, PsEnter,
                PsLeave
  <2> QED
    BY <2>1, TakesFacts
<1>4. CASE M3Fail \/ M5
  <2>1. wait_q' = Released(Rest) /\ \E e : Takes(e)
    BY <1>4 DEF M3Fail, M5, GiveUp
  <2>2. /\ Rest \in Seq(Msg) /\ Once(Rest)
        /\ \A f \in Step : Has(Rest, f) => Has(wait_q, f)
    BY <2>1, TakesFacts
  <2>3. Once(Released(Rest)) /\ \A f \in SerMsg : Has(Released(Rest), f) <=> Has(Rest, f)
    BY <1>1, <2>2, QueueReleased
  <2> QED
    BY <2>1, <2>2, <2>3
<1>5. CASE M1Fail \/ M9Done
  <2>1. wait_q' = Released(wait_q)
    BY <1>5 DEF M1Fail, M9Done, GiveUp
  <2>2. /\ Once(Released(wait_q))
        /\ \A f \in SerMsg : Has(Released(wait_q), f) <=> Has(wait_q, f)
    BY <1>1, QueueReleased
  <2> QED
    BY <2>1, <2>2
<1>6. CASE TimerFire
  <2>1. TimerMsg \in Msg \ Step
    BY <1>6 DEF TimerFire, TimerMsg, TypeInv, M1Handled
  <2>2. wait_q' = Append(wait_q, TimerMsg) \/ wait_q' = wait_q
    BY <1>6 DEF TimerFire
  <2> QED
    BY <2>1, <2>2, SendFacts
<1>7. CASE ExtSend \/ HostL2
  <2>1. \E e \in Msg \ Step : wait_q' = Append(wait_q, e)
    BY <1>7 DEF ExtSend, HostL2, Step
  <2> QED
    BY <2>1, SendFacts
<1>8. CASE M1Hw \/ M1Done \/ M9Rx \/ PsEntered \/ CallStep \/ FwL1 \/ FwM3 \/ FwM5
            \/ FwOther \/ FwHang \/ FwWatchdog \/ HandlersStep
  <2>1. wait_q' = wait_q
    BY <1>8 DEF M1Hw, M1Done, M9Rx, PsEntered, CallStep, FwL1, FwM3, FwM5, FwOther,
                FwHang, FwWatchdog, HandlersStep, Tasklet, Others
  <2> QED
    BY <2>1
<1> QED
  BY <1>2, <1>3, <1>4, <1>5, <1>6, <1>7, <1>8 DEF Next, ShareStep, Environment, HandlersStep

\* The baton is passed on, or dropped, and never doubled.
LEMMA BatonStep ==
    ASSUME TypeInv, Baton, Next
    PROVE  Baton'
<1>1. \/ EventChk
      \/ Once(wait_q') /\ \A f \in Step : Has(wait_q', f) => Has(wait_q, f)
  BY QueueStep DEF Baton
<1>2. CASE EventChk
  <2>1. post' = "none" /\ UNCHANGED <<hdl, fw, h2c>>
    BY <1>2 DEF EventChk, Simple
  <2>2. CASE post \in Step
    <3>1. Once(wait_q') /\ \A f : Has(wait_q', f) => f = post \/ Has(wait_q, f)
      BY <1>2, <2>2, EventQueue, MsgFacts DEF Baton, Posted, Queued, Step
    <3> QED
      BY <2>1, <2>2, <3>1 DEF Baton, Posted, Queued, Handled, Told, Step, M1Hdl
  <2>3. CASE post \notin Step
    <3>1. Once(wait_q') /\ \A f \in Step : Has(wait_q', f) => Has(wait_q, f)
      <4>1. CASE post \in SerMsg
        BY <1>2, <2>3, <4>1, EventQueue DEF Step, Baton
      <4>2. CASE post \notin SerMsg
        <5>1. wait_q' = Rest /\ Takes("EVENT_CHK")
          BY <1>2, <4>2 DEF EventChk
        <5> QED
          BY <5>1, TakesFacts DEF Baton
      <4> QED
        BY <4>1, <4>2
    <3> QED
      BY <2>1, <3>1, BatonFrame DEF Step, Handled
  <2> QED
    BY <2>2, <2>3
<1>3. CASE M1Start
  <2>1. UNCHANGED <<post, fw, h2c>> /\ Takes("M1") /\ wait_q' = Rest
    BY <1>3 DEF M1Start, Busy
  <2>2. /\ Queued("M1") /\ ~Queued("M5") /\ ~Has(wait_q', "M1") /\ Once(wait_q')
        /\ \A f : Has(wait_q', f) => Has(wait_q, f)
    BY <2>1, TakesFacts DEF Queued, Baton
  <2> QED
    BY <2>1, <2>2 DEF Baton, Posted, Queued, Handled, Told
<1>4. CASE M1Done
  <2>1. /\ UNCHANGED <<post, fw, wait_q>>
        /\ Handled /\ ~Handled' /\ h2c' = "M2"
    BY <1>4 DEF M1Done, Handled, M1Hdl
  <2> QED
    BY <2>1 DEF Baton, Posted, Queued, Told
<1>5. CASE M3
  <2>1. UNCHANGED <<post, fw, hdl>> /\ Takes("M3") /\ wait_q' = Rest /\ h2c' = "M4"
    BY <1>5 DEF M3
  <2>2. /\ Queued("M3") /\ ~Has(wait_q', "M3") /\ Once(wait_q') /\ ~Handled
        /\ \A f : Has(wait_q', f) => Has(wait_q, f)
    BY <2>1, TakesFacts DEF Queued, Handled, M1Hdl, Baton
  <2> QED
    BY <2>1, <2>2 DEF Baton, Posted, Queued, Handled, Told, M1Hdl
<1>6. CASE FwL1
  <2>1. UNCHANGED <<hdl, wait_q, h2c>>
    BY <1>6 DEF FwL1, Drv
  <2> QED
    BY <1>6, <2>1 DEF FwL1, Posts, Baton, Posted, Queued, Handled, Told, M1Hdl
<1>7. CASE FwM3
  <2>1. UNCHANGED <<hdl, wait_q>>
    BY <1>7 DEF FwM3, Drv
  <2> QED
    BY <1>7, <2>1 DEF FwM3, Posts, Baton, Posted, Queued, Handled, Told, M1Hdl
<1>8. CASE FwM5
  <2>1. UNCHANGED <<hdl, wait_q>>
    BY <1>8 DEF FwM5, Drv
  <2> QED
    BY <1>8, <2>1 DEF FwM5, Posts, Baton, Posted, Queued, Handled, Told, M1Hdl
<1>9. CASE ~EventChk /\ (FwOther \/ FwHang \/ FwWatchdog)
  <2>1. /\ post' = post \/ post' \notin Step
        /\ fw' = fw \/ fw' \in {"hung", "bitten"}
        /\ UNCHANGED <<h2c, hdl>>
    BY <1>9 DEF FwOther, FwHang, FwWatchdog, Posts, Drv, Step
  <2> QED
    BY <1>1, <1>9, <2>1, BatonFrame DEF Handled
<1>10. CASE ~EventChk /\ (ExtSend \/ HostL2 \/ TimerFire \/ CallStep \/ HandlersStep)
  <2>1. UNCHANGED <<post, fw, h2c, hdl>>
    BY <1>10 DEF ExtSend, HostL2, TimerFire, CallStep, HandlersStep, Tasklet, Others, Drv,
                 fwVars
  <2> QED
    BY <1>1, <1>10, <2>1, BatonFrame DEF Handled
<1>11. CASE /\ ~EventChk
            /\ \/ PollingChk \/ FwExpire \/ MsgFail \/ M1Hw \/ M1Fail \/ M3Fail \/ M5
               \/ M9Start \/ M9Rx \/ M9Done \/ ExtPend \/ ExtIgnore \/ PsEnter \/ PsEntered
               \/ PsLeave
  <2>1. UNCHANGED <<post, fw, h2c>>
    BY <1>11, PollingFacts DEF Simple, FwExpire, MsgFail, M1Hw, M1Fail, M3Fail, M5, M9Start,
       M9Rx, M9Done, ExtPend, ExtIgnore, PsEnter, PsEntered, PsLeave, Busy, GiveUp,
       ExtFrame, fwVars
  <2>2. Handled' => Handled
    BY <1>11, PollingFacts DEF Simple, FwExpire, MsgFail, M1Hw, M1Fail, M3Fail, M5, M9Start,
       M9Rx, M9Done, ExtPend, ExtIgnore, PsEnter, PsEntered, PsLeave, GiveUp,
       Handled, M1Hdl
  <2> QED
    BY <1>1, <1>11, <2>1, <2>2, BatonFrame
<1> QED
  BY <1>2, <1>3, <1>4, <1>5, <1>6, <1>7, <1>8, <1>9, <1>10, <1>11
     DEF Next, ShareStep, Environment, HandlersStep

-----------------------------------------------------------------------------
(* What SER holds                                                          *)

\* A call in progress adds the claim of the handler at work, and no other.
LEMMA ClaimAdded ==
    ASSUME PathTypeOK, CallShape, CallStep
    PROVE  /\ UNCHANGED <<is_hw_trx_pause, serVars, fwVars, wait_q, hdl>>
           /\ \A d \in Dir : "SER" \in pause_id[d] => "SER" \in pause_id'[d]
           /\ hdl = "PS" => \A d \in Dir : "SER" \in pause_id'[d] => "SER" \in pause_id[d]
<1> USE DEF PathTypeOK, CallShape, CallPc, Owner
<1>1. UNCHANGED <<is_hw_trx_pause, serVars, fwVars, wait_q, hdl>>
  BY DEF CallStep, PauseStep
<1>2. CASE PauseJoin
  BY <1>1, <1>2 DEF PauseJoin, PauseReturn
<1>3. CASE PauseRequest
  BY <1>1, <1>3 DEF PauseRequest
<1>4. CASE PauseSeen
  BY <1>1, <1>4 DEF PauseSeen, PauseReturn
<1>5. CASE PauseTimeout
  BY <1>1, <1>5 DEF PauseTimeout, PauseReturn
<1> QED
  BY <1>2, <1>3, <1>4, <1>5 DEF CallStep, PauseStep

\* A step that takes nothing from SER and starts nothing.
LEMMA HeldFrame ==
    ASSUME Held, is_hw_trx_pause' = is_hw_trx_pause,
           \A d \in Dir : "SER" \in pause_id[d] => "SER" \in pause_id'[d],
           \A f \in Step : Has(wait_q', f) => Has(wait_q, f),
           "M2" \in ser' => "M2" \in ser, Waiting' => Waiting,
           post' = post \/ post' \notin Step, fw' = fw \/ fw' \in {"hung", "bitten"},
           h2c' = h2c, hdl' = "M1rx" => hdl = "M1rx"
    PROVE  Held'
BY DEF Held, Step, Queued, Dir

\* From the moment the firmware may be told to take the DMA down until M5 is
\* taken both directions stay with SER: no message of an earlier recovery is
\* left that could release them.
LEMMA HeldStep ==
    ASSUME TypeInv, Baton, Held, Next
    PROVE  Held'
<1>1. \/ EventChk
      \/ \A f \in Step : Has(wait_q', f) => Has(wait_q, f)
  BY QueueStep DEF Baton
<1>2. PathTypeOK /\ CallShape
  BY TypeParts DEF TypeInv
<1>3. CASE EventChk
  <2>1. UNCHANGED <<ser, hdl, fw, h2c, is_hw_trx_pause, pause_id>> /\ post' = "none"
    BY <1>3 DEF EventChk, Simple
  <2>2. \A f : Has(wait_q', f) => f = post \/ Has(wait_q, f)
    <3>1. CASE post \in SerMsg
      BY <1>3, <3>1, EventQueue
    <3>2. CASE post \notin SerMsg
      BY <1>3, <3>2, TakesFacts DEF EventChk
    <3> QED
      BY <3>1, <3>2
  <2> QED
    BY <2>1, <2>2 DEF Held, Queued, Waiting
<1>4. CASE M1Hw
  <2>1. /\ UNCHANGED <<ser, fw, post, h2c, wait_q>> /\ is_hw_trx_pause' = TRUE
        /\ hdl = "M1tx" /\ hdl' = "M1rx"
    BY <1>4 DEF M1Hw, Busy
  <2>2. \A d \in Dir : "SER" \in pause_id[d] => "SER" \in pause_id'[d]
    BY <1>2, <1>4 DEF M1Hw, PauseCall, PauseReturn, PathTypeOK
  <2>3. "SER" \in pause_id["tx"]
    BY <1>2, <1>4 DEF M1Hw, CallShape
  <2> QED
    BY <2>1, <2>2, <2>3 DEF Held, Baton, Queued, Waiting, Handled, M1Hdl, Told, Dir
<1>5. CASE M1Done
  <2>1. /\ UNCHANGED <<fw, post, wait_q, is_hw_trx_pause, pause_id>>
        /\ hdl = "M1rx" /\ hdl' = "none" /\ h2c' = "M2"
    BY <1>5 DEF M1Done
  <2>2. "SER" \in pause_id["rx"]
    BY <1>2, <1>5 DEF M1Done, CallShape
  <2> QED
    BY <2>1, <2>2 DEF Held, Baton, Queued, Handled, M1Hdl, Told, Dir
<1>6. CASE M3
  <2>1. /\ UNCHANGED <<fw, post, hdl, pause_id>> /\ Takes("M3") /\ hdl = "none"
        /\ is_hw_trx_pause' = FALSE /\ "M2" \notin ser' /\ h2c' = "M4"
    BY <1>6 DEF M3, Takes
  <2>2. Queued("M3")
    BY <2>1, TakesFacts DEF Queued
  <2> QED
    BY <2>1, <2>2 DEF Held
<1>7. CASE M5
  <2>1. /\ UNCHANGED <<fw, post, hdl, h2c, is_hw_trx_pause>> /\ Takes("M5")
        /\ ser' = {} /\ hdl = "none"
    BY <1>7 DEF M5, ResetStatus, Takes
  <2>2. Queued("M5")
    BY <2>1, TakesFacts DEF Queued
  <2>3. \A f \in Step : Has(wait_q', f) => Has(wait_q, f)
    BY <1>1, <2>1 DEF EventChk, Takes
  <2> QED
    BY <2>1, <2>2, <2>3 DEF Held, Baton, Queued, Waiting, Told, Step
<1>8. CASE FwL1
  <2>1. UNCHANGED <<ser, hdl, wait_q, is_hw_trx_pause, pause_id, h2c>>
    BY <1>8 DEF FwL1, Drv, serVars, pathVars
  <2> QED
    BY <1>8, <2>1 DEF FwL1, Posts, Held, Baton, Queued, Waiting, Told
<1>9. CASE FwM3 \/ FwM5
  <2>1. UNCHANGED <<ser, hdl, wait_q, is_hw_trx_pause, pause_id>>
    BY <1>9 DEF FwM3, FwM5, Drv, serVars, pathVars
  <2> QED
    BY <1>9, <2>1 DEF FwM3, FwM5, Posts, Held, Queued, Waiting
<1>10. CASE ~EventChk /\ (FwOther \/ FwHang \/ FwWatchdog)
  <2>1. UNCHANGED <<ser, hdl, is_hw_trx_pause, pause_id, h2c>>
    BY <1>10 DEF FwOther, FwHang, FwWatchdog, Drv, serVars, pathVars
  <2>2. /\ post' = post \/ post' \notin Step
        /\ fw' = fw \/ fw' \in {"hung", "bitten"}
    BY <1>10 DEF FwOther, FwHang, FwWatchdog, Posts, Step
  <2> QED
    BY <1>1, <1>10, <2>1, <2>2, HeldFrame DEF Waiting
<1>11. CASE ~EventChk /\ (CallStep \/ ExtSend \/ HostL2 \/ TimerFire \/ HandlersStep)
  <2>1. UNCHANGED <<ser, hdl, post, fw, h2c, is_hw_trx_pause>>
    BY <1>2, <1>11, ClaimAdded DEF ExtSend, HostL2, TimerFire, HandlersStep, Tasklet,
       TrafficStep, HandlerStep, Others, Drv, serVars, fwVars, pathVars
  <2>2. \A d \in Dir : "SER" \in pause_id[d] => "SER" \in pause_id'[d]
    BY <1>2, <1>11, ClaimAdded DEF ExtSend, HostL2, TimerFire, HandlersStep, Tasklet,
       TrafficStep, HandlerStep, Drv, pathVars
  <2> QED
    BY <1>1, <1>11, <2>1, <2>2, HeldFrame DEF Waiting
<1>12. CASE /\ ~EventChk
            /\ \/ PollingChk \/ FwExpire \/ MsgFail \/ M1Start \/ M1Fail \/ M3Fail
               \/ M9Start \/ M9Rx \/ M9Done \/ ExtPend \/ ExtIgnore \/ PsEnter \/ PsEntered
               \/ PsLeave
  <2>1. UNCHANGED <<post, fw, h2c, is_hw_trx_pause>>
    BY <1>12, PollingFacts DEF Simple, FwExpire, MsgFail, M1Start, M1Fail, M3Fail, M9Start,
       M9Rx, M9Done, ExtPend, ExtIgnore, PsEnter, PsEntered, PsLeave, Busy, GiveUp,
       ExtFrame, fwVars, pathVars
  <2>2. ("M2" \in ser' => "M2" \in ser) /\ (Waiting' => Waiting)
    BY <1>12, PollingFacts DEF Simple, FwExpire, MsgFail, M1Start, M1Fail, M3Fail, M9Start,
       M9Rx, M9Done, ExtPend, ExtIgnore, PsEnter, PsEntered, PsLeave, GiveUp, ResetStatus,
       ExtFrame, Waiting
  <2>3. hdl' = "M1rx" => hdl = "M1rx"
    BY <1>12, PollingFacts DEF Simple, FwExpire, MsgFail, M1Start, M1Fail, M3Fail, M9Start,
       M9Rx, M9Done, ExtPend, ExtIgnore, PsEnter, PsEntered, PsLeave, GiveUp
  <2>4. \A d \in Dir : "SER" \in pause_id[d] => "SER" \in pause_id'[d]
    <3>1. CASE PollingChk \/ FwExpire \/ MsgFail \/ M1Fail \/ M3Fail \/ M9Done \/ ExtPend
               \/ ExtIgnore \/ PsEntered
      BY <3>1, PollingFacts DEF Simple, FwExpire, MsgFail, M1Fail, M3Fail, M9Done, ExtPend,
         ExtIgnore, PsEntered, pathVars
    <3>2. CASE M1Start \/ M9Start \/ M9Rx \/ PsEnter
      BY <1>2, <3>2 DEF M1Start, M9Start, M9Rx, PsEnter, PauseCall, PauseReturn, PathTypeOK
    <3>3. CASE PsLeave
      BY <1>2, <3>3 DEF PsLeave, Resume, PathTypeOK
    <3> QED
      BY <1>12, <3>1, <3>2, <3>3
  <2> QED
    BY <1>1, <1>12, <2>1, <2>2, <2>3, <2>4, HeldFrame
<1> QED
  BY <1>3, <1>4, <1>5, <1>6, <1>7, <1>8, <1>9, <1>10, <1>11, <1>12
     DEF Next, ShareStep, Environment, HandlersStep

\* A recovery that ends in success releases everything; the hardware runs again
\* before M5 can be on its way.
LEMMA AtRestStep ==
    ASSUME TypeInv, Held, AtRest, Next
    PROVE  AtRest'
<1>1. PathTypeOK /\ CallShape
  BY TypeParts DEF TypeInv
<1>2. CASE M5
  <2>1. ~is_hw_trx_pause /\ hdl = "none"
    BY <1>2, TakesFacts DEF M5, Held, Queued
  <2>2. \A d \in Dir : "SER" \notin pause_id'[d]
    BY <1>1, <1>2 DEF M5, Resume, PathTypeOK
  <2> QED
    BY <1>2, <2>1, <2>2 DEF M5, AtRest
<1>3. CASE M1Fail \/ M3Fail \/ M9Done
  BY <1>3 DEF M1Fail, M3Fail, M9Done, GiveUp, AtRest
<1>4. CASE FwExpire \/ M1Start \/ M1Hw \/ M1Done \/ M3 \/ M9Start \/ M9Rx
  <2>1. ser' # {}
    BY <1>4 DEF FwExpire, M1Start, M1Hw, M1Done, M3, M9Start, M9Rx, AtRest
  <2> QED
    BY <2>1 DEF AtRest
<1>5. CASE CallStep
  BY <1>1, <1>5, ClaimAdded DEF AtRest, serVars, CallShape, CallStep, PauseStep,
     PauseJoin, PauseRequest, PauseSeen, PauseTimeout
<1>6. CASE PsEnter \/ PsEntered \/ PsLeave
  <2>1. UNCHANGED <<ser, bserl2, is_hw_trx_pause>> /\ hdl' \in {hdl, "none", "PS"}
    BY <1>6 DEF PsEnter, PsEntered, PsLeave, ExtFrame
  <2>2. \A d \in Dir : "SER" \in pause_id'[d] => "SER" \in pause_id[d]
    BY <1>1, <1>6 DEF PsEnter, PsEntered, PsLeave, PauseCall, PauseReturn, Resume,
       PathTypeOK, Dir
  <2> QED
    BY <2>1, <2>2 DEF AtRest
<1>7. CASE PollingChk \/ EventChk \/ MsgFail \/ ExtPend \/ ExtIgnore \/ TimerFire \/ EnvStep
           \/ HandlersStep
  <2>1. UNCHANGED <<ser, bserl2, is_hw_trx_pause, pause_id, hdl>>
    BY <1>7, PollingFacts, EnvFrame DEF Simple, EventChk, MsgFail, ExtPend, ExtIgnore,
       ExtFrame, TimerFire, Drv, HandlersStep, Tasklet, TrafficStep, HandlerStep, Others,
       serVars, pathVars
  <2> QED
    BY <2>1 DEF AtRest
<1> QED
  BY <1>2, <1>3, <1>4, <1>5, <1>6, <1>7
     DEF Next, ShareStep, Environment, HandlersStep, EnvStep

\* The invariant of the recovery as a whole.
LEMMA RecoveryInit == Init => IInv
<1> SUFFICES ASSUME Init PROVE IInv
  OBVIOUS
<1>1. PathInv
  BY DEF Init, PathInit, PathInv, PausedOwned, Ordered, PollingAt, NoCall
<1>2. wait_q = <<>> /\ \A e : ~Queued(e)
  BY DEF Init, Queued, Has
<1>3. Baton
  BY <1>2 DEF Init, Baton, Once, Posted, Handled, M1Hdl, Told
<1>4. Held /\ AtRest
  BY <1>2 DEF Init, PathInit, Held, AtRest, Waiting
<1> QED
  BY <1>1, <1>3, <1>4, TypeInit DEF IInv

LEMMA RecoveryStep == IInv /\ [Next]_vars => IInv'
<1>1. ASSUME IInv, Next PROVE IInv'
  <2>1. TypeInv' /\ PathInv'
    BY <1>1, TypeStep, TypeParts, PathStep DEF IInv, TypeInv
  <2> QED
    BY <1>1, <2>1, BatonStep, HeldStep, AtRestStep DEF IInv
<1>2. ASSUME IInv, UNCHANGED vars PROVE IInv'
  <2>1. TypeInv'
    BY <1>2, TypeStep DEF IInv
  <2> QED
    BY <1>2, <2>1 DEF IInv, vars, PathInv, PausedOwned, Ordered, PollingAt, Baton, Once, Has,
       Queued, Posted, Handled, Told, Held, AtRest, Waiting
<1> QED
  BY <1>1, <1>2

\* The firmware is told to take the DMA down and up again only behind a data
\* path that is quiet, whatever errors, failed messages and level 2 requests
\* came before.
THEOREM QuietBehindM2 == Spec => []RecoveryQuiet
<1>1. IInv => RecoveryQuiet
  BY DEF IInv, PathInv, Ordered, Held, RecoveryQuiet, Waiting
<1> QED
  BY <1>1, RecoveryInit, RecoveryStep, PTL DEF Spec

\* Once a recovery is over nothing of it is left behind.
THEOREM NothingLeft == Spec => []RestReleased
<1>1. IInv => RestReleased
  BY DEF IInv, AtRest, RestReleased
<1> QED
  BY <1>1, RecoveryInit, RecoveryStep, PTL DEF Spec
=============================================================================
