-------------------------- MODULE RxReorderProofs --------------------------
(***************************************************************************)
(* Theorems of RxReorder about the reorder timer, for every window size,   *)
(* number space and number of sessions.                                    *)
(***************************************************************************)
EXTENDS RxReorder, TLAPS

\* The inductive invariant: removed is set from the mark to the free, so that
\* nothing arms the timer once it was cancelled; only a running callback has
\* frames to hand over.
Fields == {"head", "habs", "buf", "old", "started", "removed"}
Shape ==
    /\ DOMAIN r = Fields
    /\ r.removed \in BOOLEAN
    /\ list = [c \in Ctx |-> list[c]]
    /\ timer \in Off .. Timeout
    /\ ctl \in {"idle", "cancel", "free"}
    /\ callback \in {"idle", "lock", "handover"}
FreeMarked == ctl # "idle" => r.removed
IdleEmpty == callback # "handover" => list["timer"] = <<>>
TimerInv == Shape /\ FreeMarked /\ IdleEmpty /\ TimerCovers /\ TimerQuiet

---------------------------------------------------------------------------
(* The window operators.                                                   *)

\* Releasing entries keeps the marks of the session and stores nothing.
LEMMA ShiftKeepsMarks ==
  ASSUME NEW w, DOMAIN w = Fields, NEW d
  PROVE  /\ DOMAIN Shift(w, d) = Fields
         /\ Shift(w, d).removed = w.removed
         /\ Held(Shift(w, d)) \subseteq Held(w)
<1>1. /\ DOMAIN Shift(w, d) = Fields
      /\ Shift(w, d).removed = w.removed
      /\ Shift(w, d).buf =
           [i \in Slot |-> IF (i - w.head) % B < d THEN None ELSE w.buf[i]]
  BY DEF Shift, Fields
<1>2. Held(Shift(w, d)) \subseteq Held(w)
  BY <1>1 DEF Held
<1> QED BY <1>1, <1>2

\* The session has started: nothing else of the entry changes.
LEMMA StartedKeepsMarks ==
  ASSUME DOMAIN r = Fields
  PROVE  /\ DOMAIN Started = Fields
         /\ Started.removed = r.removed
         /\ Held(Started) = Held(r)
BY DEF Started, Fields, Held

\* A release that arms the timer for what is left covers it.
LEMMA RearmCovers ==
  ASSUME NEW w, w.removed \in BOOLEAN, timer \in Off .. Timeout, Rearm(w)
  PROVE  /\ timer' \in Off .. Timeout
         /\ ~w.removed /\ Held(w) # {} => timer' # Off
         /\ w.removed => timer' = timer
BY DEF Rearm, Off, Timeout

---------------------------------------------------------------------------
LEMMA TimerInit == Init => TimerInv
<1> SUFFICES ASSUME Init PROVE TimerInv
  OBVIOUS
<1>1. Shape
  BY DEF Init, Shape, Fields, Ctx, Off, Timeout
<1>2. FreeMarked /\ IdleEmpty /\ TimerCovers /\ TimerQuiet
  BY DEF Init, FreeMarked, IdleEmpty, TimerCovers, TimerQuiet, Ctx
<1> QED BY <1>1, <1>2 DEF TimerInv

\* A step of the RX handler that leaves the timer as it is and stores nothing.
LEMMA RxPasses ==
  ASSUME TimerInv, NEW w, NEW frames, RxResult(w, frames), UNCHANGED timer,
         DOMAIN w = Fields, w.removed = r.removed,
         Held(w) = {} \/ Held(w) \subseteq Held(r)
  PROVE  TimerInv'
<1>1. Shape'
  BY DEF TimerInv, Shape, RxResult, Ctx
<1>2. list'["timer"] = list["timer"]
  BY DEF TimerInv, Shape, RxResult, Ctx
<1>3. r' = w /\ Held(r)' = Held(w)
  BY DEF RxResult, Held
<1>4. FreeMarked' /\ IdleEmpty' /\ TimerQuiet'
  BY <1>2, <1>3 DEF TimerInv, FreeMarked, IdleEmpty, TimerQuiet, RxResult
<1>5. TimerCovers'
  BY <1>3 DEF TimerInv, TimerCovers, RxResult
<1> QED BY <1>1, <1>4, <1>5 DEF TimerInv

LEMMA RxStores ==
  ASSUME TimerInv, NEW n \in Number, Store(n)
  PROVE  TimerInv'
<1> DEFINE w == Shift(Started, Overflow(n))
           i == (n % M) % B
           s == [w EXCEPT !.buf[i] = n, !.old = w.old \ {i}]
           t == Shift(s, Ready(s))
           frames == Passed(r, Overflow(n)) \o Passed(s, Ready(s))
<1>1. /\ RxResult(t, frames)
      /\ Rearm(t)
  BY DEF Store
<1>2. DOMAIN r = Fields /\ r.removed \in BOOLEAN /\ timer \in Off .. Timeout
  BY DEF TimerInv, Shape
<1>3. DOMAIN w = Fields /\ w.removed = r.removed
  BY <1>2, StartedKeepsMarks, ShiftKeepsMarks
<1>4. DOMAIN s = Fields /\ s.removed = w.removed
  BY <1>3 DEF Fields
<1>5. DOMAIN t = Fields /\ t.removed = r.removed
  <2> HIDE DEF s
  <2> QED BY <1>3, <1>4, ShiftKeepsMarks
<1> HIDE DEF w, i, s, t, frames
<1>6. /\ timer' \in Off .. Timeout
      /\ ~t.removed /\ Held(t) # {} => timer' # Off
      /\ t.removed => timer' = timer
  BY <1>1, <1>2, <1>5, RearmCovers
<1>7. r' = t /\ Held(r)' = Held(t)
  BY <1>1 DEF RxResult, Held
<1>8. list' = [list EXCEPT !["rx"] = frames] /\ UNCHANGED <<alive, callback, ctl>>
  BY <1>1 DEF RxResult
<1>9. Shape' /\ list'["timer"] = list["timer"]
  BY <1>2, <1>5, <1>6, <1>7, <1>8 DEF TimerInv, Shape, Ctx
<1>10. FreeMarked' /\ IdleEmpty' /\ TimerQuiet'
  BY <1>5, <1>6, <1>7, <1>8, <1>9 DEF TimerInv, FreeMarked, IdleEmpty, TimerQuiet
<1>11. TimerCovers'
  BY <1>6, <1>7, <1>8 DEF TimerCovers
<1> QED BY <1>9, <1>10, <1>11 DEF TimerInv

LEMMA ReceiveKeeps ==
  ASSUME TimerInv, NEW n \in Number, Receive(n)
  PROVE  TimerInv'
<1> DEFINE w == Shift(Started, Overflow(n))
<1>0. DOMAIN r = Fields
  BY DEF TimerInv, Shape
<1>1. /\ DOMAIN Started = Fields /\ Started.removed = r.removed
      /\ Held(Started) = Held(r)
  BY <1>0, StartedKeepsMarks
<1>2. DOMAIN w = Fields /\ w.removed = r.removed /\ Held(w) \subseteq Held(r)
  BY <1>1, ShiftKeepsMarks
<1>3. CASE PassDirect(n)
  BY <1>3, <1>0, RxPasses DEF PassDirect
<1>4. CASE DropOld(n)
  BY <1>4, <1>1, RxPasses DEF DropOld
<1>5. CASE DropStored(n)
  <2> HIDE DEF w
  <2>1. RxResult(w, Passed(r, Overflow(n))) /\ UNCHANGED timer
    BY <1>5 DEF DropStored, w
  <2> QED BY <2>1, <1>2, RxPasses
<1>6. CASE PassInOrder(n)
  <2> DEFINE v == [w EXCEPT !.head = (w.head + 1) % M, !.habs = w.habs + 1]
  <2>1. /\ RxResult(v, Append(Passed(r, Overflow(n)), n))
        /\ UNCHANGED timer /\ Held(w) = {}
    BY <1>6 DEF PassInOrder
  <2> HIDE DEF w
  <2>2. DOMAIN v = Fields /\ v.removed = r.removed /\ v.buf = w.buf
    BY <1>2 DEF Fields
  <2>3. Held(v) = Held(w)
    BY <2>2 DEF Held
  <2> HIDE DEF v
  <2> QED BY <2>1, <2>2, <2>3, RxPasses
<1>7. CASE Store(n)
  BY <1>7, RxStores
<1> QED BY <1>3, <1>4, <1>5, <1>6, <1>7 DEF Receive

---------------------------------------------------------------------------
\* The timer, the request, the sessions and the environment.
LEMMA OtherKeeps ==
  ASSUME TimerInv,
         \/ Tick \/ OtherTid \/ Expire \/ TimerRelease \/ TimerDone \/ HandleBar
         \/ \E c \in Ctx : HandOver(c)
         \/ Start \/ Stop \/ FreeMark \/ FreeCancel \/ FreeEntry
         \/ SenderMoves \/ SendBar \/ UNCHANGED vars
  PROVE  TimerInv'
<1>0. /\ DOMAIN r = Fields /\ r.removed \in BOOLEAN /\ timer \in Off .. Timeout
      /\ list = [c \in Ctx |-> list[c]]
  BY DEF TimerInv, Shape
<1> USE DEF TimerInv, Shape, FreeMarked, IdleEmpty, TimerCovers, TimerQuiet
<1>1. CASE Tick \/ OtherTid
  <2>1. CASE Tick
    <3> DEFINE o == r.old \cup {i \in Slot : r.buf[i] \in half}
    <3>1. r' = [r EXCEPT !.old = o]
      BY <2>1 DEF Tick
    <3>2. DOMAIN r' = Fields /\ r'.removed = r.removed /\ r'.buf = r.buf
      BY <3>1, <1>0 DEF Fields
    <3>3. Held(r)' = Held(r)
      BY <3>2 DEF Held
    <3>4. timer' \in Off .. Timeout /\ (timer' = Off <=> timer = Off)
      BY <2>1, <1>0 DEF Tick, Off, Timeout
    <3>5. UNCHANGED <<alive, callback, list, ctl>>
      BY <2>1 DEF Tick
    <3> HIDE DEF o
    <3> QED BY <3>2, <3>3, <3>4, <3>5
  <2>2. CASE OtherTid
    <3>1. timer' \in Off .. Timeout /\ timer' # Off
      BY <2>2 DEF OtherTid, Off, Timeout
    <3> QED BY <2>2, <3>1 DEF OtherTid, Held
  <2> QED BY <1>1, <2>1, <2>2
<1>2. CASE Expire
  <2>1. ctl # "free"
    BY <1>2 DEF Expire, Off
  <2>2. timer' \in Off .. Timeout
    BY <1>2 DEF Expire, Off, Timeout
  <2> QED BY <1>2, <2>1, <2>2 DEF Expire, Held
<1>3. CASE TimerRelease
  <2> DEFINE t == Shift(r, Ready(r))
  <2>1. ctl # "free" /\ callback' = "handover" /\ UNCHANGED <<alive, ctl>>
        /\ list' = [list EXCEPT !["timer"] = list'["timer"]]
    BY <1>3, <1>0 DEF TimerRelease, Ctx
  <2>2. CASE alive
    <3>1. r' = t /\ Rearm(t)
      BY <1>3, <2>2 DEF TimerRelease
    <3>2. DOMAIN t = Fields /\ t.removed = r.removed
      BY <1>0, ShiftKeepsMarks
    <3> HIDE DEF t
    <3>3. /\ timer' \in Off .. Timeout
          /\ ~t.removed /\ Held(t) # {} => timer' # Off
      BY <3>1, <3>2, <1>0, RearmCovers
    <3>4. Held(r)' = Held(t)
      BY <3>1 DEF Held
    <3> QED BY <2>1, <3>1, <3>2, <3>3, <3>4 DEF Ctx
  <2>3. CASE ~alive
    <3>1. r' = r /\ timer' = timer
      BY <1>3, <2>3 DEF TimerRelease
    <3>2. list' = [c \in Ctx |-> list'[c]]
      BY <2>1, <1>0
    <3> QED BY <2>1, <2>3, <3>1, <3>2
  <2> QED BY <2>2, <2>3
<1>4. CASE TimerDone
  BY <1>4 DEF TimerDone, Held
<1>5. CASE HandleBar
  <2> DEFINE d == DistanceTo(r, bar % M)
  <2>1. /\ DOMAIN r' = Fields /\ r'.removed = r.removed
        /\ Held(r)' \subseteq Held(r)
    <3>1. CASE r' = Shift(r, d)
      <4>1. Held(r)' = Held(Shift(r, d))
        BY <3>1 DEF Held
      <4> QED BY <3>1, <4>1, <1>0, ShiftKeepsMarks
    <3>2. CASE r' = [r EXCEPT !.head = bar % M, !.habs = r.habs + d]
      <4>1. DOMAIN r' = Fields /\ r'.removed = r.removed /\ r'.buf = r.buf
        BY <3>2, <1>0 DEF Fields
      <4> QED BY <4>1 DEF Held
    <3>3. CASE r' = r
      BY <3>3, <1>0 DEF Held
    <3> QED BY <1>5, <3>1, <3>2, <3>3 DEF HandleBar
  <2>2. list' = [c \in Ctx |-> list'[c]] /\ list'["timer"] = list["timer"]
    BY <1>5, <1>0 DEF HandleBar, Ctx
  <2> QED BY <1>5, <2>1, <2>2 DEF HandleBar
<1>6. ASSUME NEW c \in Ctx, HandOver(c) PROVE TimerInv'
  <2>1. list' = [b \in Ctx |-> list'[b]]
    BY <1>6, <1>0 DEF HandOver
  <2>2. list["timer"] = <<>> => list'["timer"] = <<>>
    BY <1>6, <1>0 DEF HandOver, Ctx
  <2> QED BY <1>6, <2>1, <2>2 DEF HandOver, Held
<1>7. CASE Start
  <2>1. /\ DOMAIN r' = Fields /\ r'.removed \in BOOLEAN
        /\ r'.buf = [i \in Slot |-> None]
    BY <1>7 DEF Start, Fields
  <2>2. Held(r)' = {}
    BY <2>1 DEF Held
  <2> QED BY <1>7, <2>1, <2>2 DEF Start
<1>8. CASE Stop
  <2>1. DOMAIN r' = Fields /\ r'.removed = r.removed
    BY <1>8, <1>0 DEF Stop, Freed, Fields
  <2> QED BY <1>8, <2>1 DEF Stop
<1>9. CASE FreeMark
  <2>1. DOMAIN r' = Fields /\ r'.removed
    BY <1>9, <1>0 DEF FreeMark, Fields
  <2> QED BY <1>9, <2>1 DEF FreeMark
<1>10. CASE FreeCancel
  <2>1. timer' = Off /\ Off \in Off .. Timeout
    BY <1>10 DEF FreeCancel, Off, Timeout
  <2> QED BY <1>10, <2>1 DEF FreeCancel, Held
<1>11. CASE FreeEntry
  <2>1. DOMAIN r' = Fields /\ r'.removed = r.removed
    BY <1>11, <1>0 DEF FreeEntry, Freed, Fields
  <2> QED BY <1>11, <2>1 DEF FreeEntry
<1>12. CASE SenderMoves \/ SendBar \/ UNCHANGED vars
  BY <1>12 DEF SenderMoves, SendBar, vars, env, Held
<1> QED BY <1>1, <1>2, <1>3, <1>4, <1>5, <1>6, <1>7, <1>8, <1>9, <1>10, <1>11, <1>12

\* The invariant holds in every state.
THEOREM TimerInvariant == Spec => []TimerInv
<1>1. TimerInv /\ [Next]_vars => TimerInv'
  BY ReceiveKeeps, OtherKeeps DEF Next
<1> QED BY TimerInit, <1>1, PTL DEF Spec

\* A stored frame has a timer that will look at it (set_release_timer).
THEOREM TimerCoversCorrect == Spec => []TimerCovers
<1>1. TimerInv => TimerCovers
  BY DEF TimerInv
<1> QED BY TimerInvariant, <1>1, PTL

\* Once cancelled by phl_free_rx_reorder the timer stays quiet until the
\* entries are freed.
THEOREM TimerQuietCorrect == Spec => []TimerQuiet
<1>1. TimerInv => TimerQuiet
  BY DEF TimerInv
<1> QED BY TimerInvariant, <1>1, PTL
=============================================================================
