----------------------------- MODULE RxReorder -----------------------------
(***************************************************************************)
(* The receive reorder window of one TID of one station                    *)
(* (rtl8852cu-20240510/phl/phl_rx.c and phl_rx_agg.c).                     *)
(*                                                                         *)
(* Frames of a block acknowledgement session arrive out of order.  The RX  *)
(* handler keeps them in reorder_buf until the ones before them are there, *)
(* until they wait for too long (reorder_timer), or until the window moves *)
(* on by a frame far ahead or by a block acknowledgement request.  Each of *)
(* the three contexts changes the window under tid_rx_lock, collects the   *)
(* frames that leave it in a list of its own and, after the unlock, hands  *)
(* the list over to the receive ring of the MAC core.                      *)
(*                                                                         *)
(* A frame is its absolute number; meta->seq is the number modulo M.  The  *)
(* sender transmits any number of its own window, any number of times.     *)
(***************************************************************************)
EXTENDS Integers, Sequences, FiniteSets

CONSTANTS
    M,              \* SEQ_MODULO
    B,              \* buf_size of the session
    First, Last,    \* bound: the numbers of the frames
    Gap,            \* bound: the sender's window, and a late BAR, against head
    MaxSession      \* bound: sessions that are started

\* buf_size divides SEQ_MODULO for 8, 16, 32 and 64; Gap keeps every distance
\* that seq_less sees below half of the number space.
ASSUME WindowAssumption ==
    /\ {M, B, Gap, First, Last, MaxSession} \subseteq Nat /\ First <= Last
    /\ B > 0 /\ M % B = 0 /\ 2 * (Gap + B) < M

Number == First .. Last
None == -1
Slot == 0 .. B - 1
Ctx == {"rx", "timer", "bar"}

VARIABLES
    r,          \* *tid_rx[tid]; habs is head_seq_num before it is cut to M
    alive,      \* tid_rx[tid] is not NULL
    timer,      \* reorder_timer: not pending, or the ticks until it is due
    half,       \* the stored frames that have waited for a tick
    callback,   \* its callback: idle, before the lock, handing over
    list,       \* the frames a context has to hand over
    ctl,        \* phl_free_rx_reorder: idle, timer to cancel, entries to free
    sessions,
    base, bar,  \* the sender's window, a block acknowledgement request
    released,   \* history: the numbers the window let go, in order
    lost        \* history: numbers that were dropped though they were due

vars == <<r, alive, timer, half, callback, list, ctl, sessions, base, bar, released, lost>>
env == <<sessions, base>>

\* HT_RX_REORDER_BUF_TIMEOUT_MS: time passes in halves of it.
Timeout == 2
Off == -1

Held(w) == {w.buf[i] : i \in Slot} \ {None}     \* stored_mpdu_num is its size
Ran(s) == {s[i] : i \in DOMAIN s}

TypeOK ==
    /\ r \in [head : 0 .. M - 1, habs : Nat, buf : [Slot -> Number \cup {None}],
              old : SUBSET Slot, started : BOOLEAN, removed : BOOLEAN]
    /\ alive \in BOOLEAN /\ timer \in Off .. Timeout /\ half \subseteq Number
    /\ callback \in {"idle", "lock", "handover"}
    /\ list \in [Ctx -> Seq(Number)] /\ released \in Seq(Number)
    /\ ctl \in {"idle", "cancel", "free"}
    /\ sessions \in 0 .. MaxSession
    /\ base \in Number /\ bar \in Number \cup {None}
    /\ lost \subseteq Number

---------------------------------------------------------------------------
(* Sequence numbers and the window.                                        *)

seq_less(a, b) == (a - b) % M > M \div 2

\* The entry k numbers behind the head (reorder_index).
At(w, k) == w.buf[(w.head + k) % B]

\* Mutant: the entries are not emptied.
ShiftKeeps(w, d) == [w EXCEPT !.head = (w.head + d) % M, !.habs = w.habs + d]
\* phl_release_reorder_frame for the d numbers from the head on: what is there
\* is passed on, what is not is given up.
Shift(w, d) ==
    [w EXCEPT !.head = (w.head + d) % M,
              !.habs = w.habs + d,
              !.buf = [i \in Slot |-> IF (i - w.head) % B < d THEN None ELSE w.buf[i]],
              !.old = {i \in w.old : (i - w.head) % B >= d}]
Passed(w, d) ==
    LET upto[k \in 0 .. B] ==
          IF k = 0 THEN <<>>
          ELSE IF At(w, k - 1) = None THEN upto[k - 1]
          ELSE Append(upto[k - 1], At(w, k - 1))
    IN  upto[IF d < B THEN d ELSE B]

\* phl_release_reorder_frames up to sequence number s: how far.
DistanceTo(w, s) == (s - w.head) % M

\* Mutant: frames behind a hole are let go before their time.
StopsEager(w, k) == At(w, 0) # None /\ At(w, k) = None
\* Mutant: frames behind a hole never time out.
StopsYoung(w, k) ==
    IF At(w, 0) # None THEN At(w, k) = None ELSE At(w, k) # None /\ At(w, k - 1) = None
\* Where the walk of phl_reorder_release ends.  With a frame at the head: at
\* the first hole.  Else: at the first frame behind a hole that is not old.
Stops(w, k) ==
    IF At(w, 0) # None
    THEN At(w, k) = None
    ELSE At(w, k) # None /\ At(w, k - 1) = None /\ (w.head + k) % B \notin w.old
\* The walk moves the head just behind the last frame it lets go.
Ready(w) ==
    LET open == {k \in 1 .. B : \A j \in 1 .. k - 1 : ~Stops(w, j)}
        gone == {k \in open : At(w, k - 1) # None}
    IN  IF gone = {} THEN 0 ELSE CHOOSE k \in gone : \A j \in gone : j <= k

\* Mutant: the timer is not armed.
RearmNot(w) == timer' = IF w = w THEN timer ELSE Timeout
\* Mutant: armed although the entry is about to be freed.
RearmRemoved(w) == timer' = IF Held(w) # {} THEN Timeout ELSE timer
\* set_release_timer: the full time-out from now on, whatever the frames that
\* are left have waited for and even when the timer was about to expire.
Rearm(w) == timer' = IF Held(w) # {} /\ ~w.removed THEN Timeout ELSE timer

Init ==
    /\ r = [head |-> 0, habs |-> 0, buf |-> [i \in Slot |-> None], old |-> {},
            started |-> FALSE, removed |-> FALSE]
    /\ alive = FALSE /\ timer = Off /\ half = {} /\ callback = "idle"
    /\ list = [c \in Ctx |-> <<>>]
    /\ ctl = "idle" /\ sessions = 0
    /\ base = First /\ bar = None
    /\ released = <<>> /\ lost = {}

---------------------------------------------------------------------------
(* RX handler: phl_rx_handle_normal and phl_manage_sta_reorder_buf for     *)
(* frame n.                                                                *)

Arrives(n) == list["rx"] = <<>> /\ n \in base .. base + B - 1

\* The window becomes w; frames is what the handler has to hand over.
RxResult(w, frames) ==
    /\ r' = w /\ half' = half \cap Held(w)
    /\ list' = [list EXCEPT !["rx"] = frames]
    /\ UNCHANGED <<alive, callback, ctl, bar, env>>

\* No session, or a number from before the session: not reordered.
PassDirect(n) ==
    /\ Arrives(n)
    /\ ~alive \/ (~r.started /\ seq_less(n % M, r.head))
    /\ RxResult(r, <<n>>)
    /\ UNCHANGED <<timer, released, lost>>

Reordered(n) == Arrives(n) /\ alive /\ (r.started \/ ~seq_less(n % M, r.head))
Started == [r EXCEPT !.started = TRUE]

\* Mutant: the frame at the head is taken for an old one.
DropOldHead(n) ==
    /\ Reordered(n) /\ seq_less(n % M, (r.head + 1) % M)
    /\ RxResult(Started, <<>>)
    /\ lost' = lost \cup {m \in {n} : m >= r.habs}
    /\ UNCHANGED <<timer, released>>
DropOld(n) ==
    /\ Reordered(n) /\ seq_less(n % M, r.head)
    /\ RxResult(Started, <<>>)
    /\ lost' = lost \cup {m \in {n} : m >= r.habs}
    /\ UNCHANGED <<timer, released>>

\* A frame beyond the window moves it on: how far.
Overflow(n) ==
    IF seq_less(n % M, (r.head + B) % M) THEN 0 ELSE DistanceTo(r, (n - B + 1) % M)

\* Mutant: no test for an out of date number.
InWindowAny(n) == Reordered(n)
InWindow(n) == Reordered(n) /\ ~seq_less(n % M, r.head)

DropStored(n) ==
    LET w == Shift(Started, Overflow(n))
        frames == Passed(r, Overflow(n))
    IN  /\ InWindow(n) /\ w.buf[(n % M) % B] # None
        /\ RxResult(w, frames)
        /\ released' = released \o frames
        /\ lost' = lost \cup ({n} \ Held(w))
        /\ UNCHANGED timer

\* Mutant: the head is not cut to 12 bits.
PassInOrderWide(n) ==
    LET w == Shift(Started, Overflow(n))
        frames == Append(Passed(r, Overflow(n)), n)
    IN  /\ InWindow(n) /\ Held(w) = {} /\ n % M = w.head
        /\ RxResult([w EXCEPT !.head = w.head + 1, !.habs = w.habs + 1], frames)
        /\ released' = released \o frames
        /\ UNCHANGED <<timer, lost>>

\* In the right order with nothing stored: not buffered.
PassInOrder(n) ==
    LET w == Shift(Started, Overflow(n))
        frames == Append(Passed(r, Overflow(n)), n)
    IN  /\ InWindow(n) /\ Held(w) = {} /\ n % M = w.head
        /\ RxResult([w EXCEPT !.head = (w.head + 1) % M, !.habs = w.habs + 1], frames)
        /\ released' = released \o frames
        /\ UNCHANGED <<timer, lost>>

\* Stored, then phl_reorder_release.
Store(n) ==
    LET w == Shift(Started, Overflow(n))
        i == (n % M) % B
        s == [w EXCEPT !.buf[i] = n, !.old = w.old \ {i}]
        frames == Passed(r, Overflow(n)) \o Passed(s, Ready(s))
    IN  /\ InWindow(n) /\ w.buf[i] = None
        /\ Held(w) # {} \/ n % M # w.head
        /\ RxResult(Shift(s, Ready(s)), frames)
        /\ released' = released \o frames
        /\ Rearm(Shift(s, Ready(s)))
        /\ UNCHANGED lost

---------------------------------------------------------------------------
(* The reorder timer (phl_sta_rx_reorder_timer_expired).  There is one for *)
(* all TIDs of a station.  A frame is old when it was stored               *)
(* HT_RX_REORDER_BUF_TIMEOUT_MS ago.                                       *)

\* Time passes: at the second tick a frame is old, an armed timer due.
Tick ==
    /\ timer' = IF timer > 0 THEN timer - 1 ELSE timer
    /\ r' = [r EXCEPT !.old = @ \cup {i \in Slot : r.buf[i] \in half}]
    /\ half' = Held(r)
    /\ UNCHANGED <<alive, callback, list, ctl, env, bar, released, lost>>

\* phl_reorder_release leaves frames of another TID of the station behind.
OtherTid ==
    /\ ctl = "idle" /\ timer' = Timeout
    /\ UNCHANGED <<r, alive, half, callback, list, ctl, env, bar, released, lost>>

Expire ==
    /\ timer = 0 /\ callback = "idle"
    /\ timer' = Off /\ callback' = "lock"
    /\ UNCHANGED <<r, alive, half, list, ctl, env, bar, released, lost>>

TimerRelease ==
    /\ callback = "lock" /\ callback' = "handover"
    /\ LET frames == IF alive THEN Passed(r, Ready(r)) ELSE <<>>
       IN  /\ list' = [list EXCEPT !["timer"] = frames]
           /\ released' = released \o frames
    /\ IF alive
       THEN r' = Shift(r, Ready(r)) /\ Rearm(Shift(r, Ready(r)))
       ELSE UNCHANGED <<r, timer>>
    /\ half' = half \cap Held(r')
    /\ UNCHANGED <<alive, ctl, env, bar, lost>>

TimerDone ==
    /\ callback = "handover" /\ list["timer"] = <<>>
    /\ callback' = "idle"
    /\ UNCHANGED <<r, alive, timer, half, list, ctl, env, bar, released, lost>>

---------------------------------------------------------------------------
(* A block acknowledgement request reaches the core (rtw_phl_rx_bar).      *)

HandleBar ==
    /\ bar # None /\ list["bar"] = <<>> /\ bar' = None
    /\ IF alive /\ ~seq_less(bar % M, r.head)
       THEN LET d == DistanceTo(r, bar % M)
                frames == IF seq_less(r.head, bar % M) THEN Passed(r, d) ELSE <<>>
            IN  /\ r' = IF seq_less(r.head, bar % M)
                        THEN Shift(r, d)
                        ELSE [r EXCEPT !.head = bar % M, !.habs = r.habs + d]
                /\ list' = [list EXCEPT !["bar"] = frames]
                /\ released' = released \o frames
       ELSE UNCHANGED <<r, list, released>>
    /\ half' = half \cap Held(r')
    /\ UNCHANGED <<alive, timer, callback, ctl, env, lost>>

\* phl_handle_rx_frame_list: the next frame goes to the ring of the core (or is
\* recycled when the ring is full).
HandOver(c) ==
    /\ list[c] # <<>>
    /\ list' = [list EXCEPT ![c] = Tail(list[c])]
    /\ UNCHANGED <<r, alive, timer, half, callback, ctl, env, bar, released, lost>>

---------------------------------------------------------------------------
(* Sessions.  rtw_phl_start_rx_ba_session replaces the entry of an earlier *)
(* one; rtw_phl_stop_rx_ba_session frees it.                               *)

Start ==
    /\ ctl = "idle" /\ sessions < MaxSession
    /\ sessions' = sessions + 1
    /\ \E ssn \in base .. base + B - 1 :
         r' = [head |-> ssn % M, habs |-> ssn, buf |-> [i \in Slot |-> None],
               old |-> {}, started |-> FALSE, removed |-> FALSE]
    /\ alive' = TRUE /\ released' = <<>> /\ half' = {}
    /\ UNCHANGED <<timer, callback, list, ctl, base, bar, lost>>

Freed == [r EXCEPT !.buf = [i \in Slot |-> None], !.old = {}]

Stop ==
    /\ ctl = "idle" /\ alive
    /\ alive' = FALSE /\ r' = Freed /\ half' = {}
    /\ UNCHANGED <<timer, callback, list, ctl, env, bar, released, lost>>

\* phl_free_rx_reorder: removed is set, the timer is cancelled and its callback
\* waited for (del_timer_sync), the entry is freed.
FreeMark ==
    /\ ctl = "idle" /\ alive /\ ctl' = "cancel"
    /\ r' = [r EXCEPT !.removed = TRUE]
    /\ UNCHANGED <<alive, timer, half, callback, list, env, bar, released, lost>>
FreeCancel ==
    /\ ctl = "cancel" /\ callback = "idle"
    /\ ctl' = "free" /\ timer' = Off
    /\ UNCHANGED <<r, alive, half, callback, list, env, bar, released, lost>>
FreeEntry ==
    /\ ctl = "free" /\ ctl' = "idle"
    /\ alive' = FALSE /\ r' = Freed /\ half' = {}
    /\ UNCHANGED <<timer, callback, list, env, bar, released, lost>>

---------------------------------------------------------------------------
(* The sender: its window moves on; it asks to move the receiver's.        *)

SenderMoves ==
    /\ \E b \in base + 1 .. Last :
         /\ alive => b <= r.habs + Gap
         /\ bar # None => b <= bar + Gap
         /\ base' = b
    /\ UNCHANGED <<r, alive, timer, half, callback, list, ctl, sessions, bar, released, lost>>

SendBar ==
    /\ bar = None /\ bar' = base
    /\ UNCHANGED <<r, alive, timer, half, callback, list, ctl, env, released, lost>>

Receive(n) ==
    \/ PassDirect(n) \/ DropOld(n) \/ DropStored(n) \/ PassInOrder(n) \/ Store(n)
Next ==
    \/ \E n \in Number : Receive(n)
    \/ Tick \/ OtherTid \/ Expire \/ TimerRelease \/ TimerDone
    \/ HandleBar \/ \E c \in Ctx : HandOver(c)
    \/ Start \/ Stop \/ FreeMark \/ FreeCancel \/ FreeEntry
    \/ SenderMoves \/ SendBar

Spec == Init /\ [][Next]_vars

\* Time passes, a timer that stays due expires, the contexts run on; nothing is
\* assumed of the sender, of the other TIDs, nor that sessions end.
FairSpec ==
    /\ Spec
    /\ WF_vars(Tick) /\ WF_vars(Expire) /\ WF_vars(TimerRelease \/ TimerDone)
    /\ \A c \in Ctx : WF_vars(HandOver(c))
    /\ WF_vars(FreeCancel \/ FreeEntry)

---------------------------------------------------------------------------
(* Properties.                                                             *)

\* Every stored frame is in the entry of its number and less than buf_size
\* behind the head, so the entry found for a number is never that of another
\* (reorder_index over the wrap of the 12-bit numbers).
WindowExact ==
    alive => /\ r.head = r.habs % M
             /\ \A i \in Slot : r.buf[i] # None =>
                  /\ r.buf[i] % B = i
                  /\ r.buf[i] \in r.habs .. r.habs + B - 1

\* The window lets the frames of a session go in the order of their numbers,
\* each once, whether a frame, the timer or a BAR moves it.
InOrder == \A j \in DOMAIN released : \A i \in 1 .. j - 1 : released[i] < released[j]

\* What is dropped as old or as stored already really is
\* (phl_manage_sta_reorder_buf).
DropJustified == lost = {}

\* The head passes a number whose frame it did not let go only behind a frame
\* that timed out, at the request of the sender, or for a frame that would not
\* fit in the window otherwise.
HeadJustified ==
    [][alive /\ alive' /\ sessions' = sessions =>
         \A n \in r.habs .. r'.habs - 1 :
            \/ n \in Ran(released')
            \/ \E i \in r.old : r.buf[i] > n
            \/ bar # None /\ bar' = None /\ n < bar
            \/ \E m \in (Held(r') \cup Ran(released')) \ (Held(r) \cup Ran(released)) :
                 m >= n + B]_vars

\* A stored frame has a timer that will look at it, unless the entry is about
\* to be freed (phl_reorder_release, set_release_timer).
TimerCovers == alive /\ ~r.removed /\ Held(r) # {} => timer # Off \/ callback = "lock"

\* Once the timer of a station was cancelled it stays quiet until the entries
\* are freed, for frames still arrive in between (removed).
TimerQuiet == ctl = "free" => timer = Off /\ callback = "idle" /\ list["timer"] = <<>>

\* Frames do not stay in the window for ever, although nothing else may arrive:
\* as long as some are there, the head keeps moving, and it needs to move by
\* buf_size only to pass each of them.  No traffic of their own TID can put that
\* off; only the other TIDs can, by setting the common timer again and again.
StoredLeaves ==
    <>[](Held(r) # {}) =>
        []<><<OtherTid \/ (alive' /\ sessions' = sessions /\ r'.habs > r.habs)>>_vars

\* "the reorder_timer is reset based on the reorder_time of that ready MPDU"
\* (phl_rx.c:624): when the first frame behind the hole has waited for the time-
\* out, the timer is due or its callback about to look.
FirstReady(w) ==
    CHOOSE k \in 0 .. B - 1 : At(w, k) # None /\ \A j \in 0 .. k - 1 : At(w, j) = None
TimerFollowsFrame ==
    alive /\ ~r.removed /\ Held(r) # {} /\ (r.head + FirstReady(r)) % B \in r.old
        => timer = 0 \/ callback = "lock"

\* "If the current MPDU is in the right order and nothing else is stored we can
\* process it directly" (phl_rx.c:892): a frame is handed to the core before the
\* frames with larger numbers, whichever context has them.
HandOverOrder ==
    [][\A c \in Ctx :
         list[c] # <<>> /\ list'[c] = Tail(list[c]) /\ Head(list[c]) \in Ran(released)
         => \A d \in Ctx \ {c} : \A m \in Ran(list[d]) \cap Ran(released) :
              Head(list[c]) < m]_vars
=============================================================================
