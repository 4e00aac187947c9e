--------------------------- MODULE RxWindowProofs ---------------------------
(***************************************************************************)
(* Theorems of RxReorder about the window, for every window size, number   *)
(* space and number of sessions: the entry found for a number is its own,  *)
(* no frame is dropped that was due, the frames leave in the order of      *)
(* their numbers, and the head passes a hole for a reason only.            *)
(***************************************************************************)
EXTENDS RxReorder, NumberLemmas, TLAPS

Window == [head : 0 .. M - 1, habs : Nat, buf : [Slot -> Number \cup {None}],
           old : SUBSET Slot, started : BOOLEAN, removed : BOOLEAN]

\* The head is its number cut to the width, and every frame is in the entry of
\* its number, less than buf_size behind the head.
Exact(w) ==
    /\ w.head = w.habs % M
    /\ \A i \in Slot : w.buf[i] # None =>
         /\ w.buf[i] % B = i
         /\ w.buf[i] \in w.habs .. w.habs + B - 1

\* A list of numbers is ascending, and ends below h.
Ascending(s) == \A j \in DOMAIN s : \A i \in 1 .. j - 1 : s[i] < s[j]
Before(s, h) == \A i \in DOMAIN s : s[i] < h

---------------------------------------------------------------------------
(* Sequence numbers.                                                       *)

LEMMA Params ==
    /\ M \in Nat /\ B \in Nat /\ Gap \in Nat /\ First \in Nat /\ Last \in Nat
    /\ MaxSession \in Nat /\ First <= Last
    /\ M > 0 /\ B > 0 /\ M % B = 0 /\ 2 * (Gap + B) < M
BY WindowAssumption

\* Less than half of the number space apart, the comparison of two sequence
\* numbers is the comparison of the numbers.
LEMMA SeqLess ==
    ASSUME NEW a \in Int, NEW h \in Int, 2 * (a - h) < M, 2 * (h - a) < M
    PROVE  seq_less(a % M, h % M) <=> a < h
<1>1. ((a % M) - (h % M)) % M = (a - h) % M
  BY Params, ModDistance
<1> DEFINE x == a - h
<1>2. x \in Int /\ 2 * x < M /\ -(2 * x) < M
  OBVIOUS
<1>3. (0 <= x => x % M = x) /\ (x < 0 => x % M = M + x)
  BY <1>2, Params, ModSmall
<1>4. (x % M > M \div 2) <=> x < 0
  BY <1>2, <1>3, Params
<1> QED BY <1>1, <1>4 DEF seq_less

\* The distance of two sequence numbers is that of the numbers.
LEMMA Distance ==
    ASSUME NEW a \in Int, NEW h \in Int, h <= a, a - h < M
    PROVE  ((a % M) - (h % M)) % M = a - h
<1>1. ((a % M) - (h % M)) % M = (a - h) % M
  BY Params, ModDistance
<1> QED BY <1>1, Params, ModSmall

\* The entries do not see the cut to 12 bits, for buf_size divides SEQ_MODULO.
LEMMA SlotOf ==
    ASSUME NEW h \in Int, NEW k \in Int
    PROVE  /\ ((h % M) + k) % B = (h + k) % B
           /\ (k - (h % M)) % B = (k - h) % B
           /\ (h % M) % B = h % B
           /\ h % B \in Slot
           /\ ((h % M) + k) % M = (h + k) % M
<1>1. M % M = 0
  <2>1. (M * 1 + 0) % M = 0
    BY Params, ModUnique
  <2> QED BY <2>1, Params
<1>2. ((h % M) + k) % M = (h + k) % M
  BY Params, <1>1, ModAdd
<1>3. h % B \in Slot
  BY Params, ModSplit DEF Slot
<1>4. ((h % M) + k) % B = (h + k) % B
  BY Params, ModAdd
<1>5. (k - (h % M)) % B = (k - h) % B
  BY Params, ModAdd
<1>6. (h % M) % B = h % B
  BY Params, ModAdd
<1> QED BY <1>2, <1>3, <1>4, <1>5, <1>6

---------------------------------------------------------------------------
(* The window.                                                             *)

\* The fields of an entry of the table.
LEMMA WindowFields ==
    ASSUME NEW w \in Window
    PROVE  /\ w.head \in 0 .. M - 1 /\ w.habs \in Nat
           /\ w.buf \in [Slot -> Number \cup {None}]
           /\ w.old \subseteq Slot /\ w.started \in BOOLEAN /\ w.removed \in BOOLEAN
BY DEF Window

\* An entry whose place and contents are replaced.
LEMMA WindowExcept ==
    ASSUME NEW w \in Window, NEW h \in 0 .. M - 1, NEW n \in Nat,
           NEW c \in [Slot -> Number \cup {None}], NEW o \in SUBSET Slot
    PROVE  [w EXCEPT !.head = h, !.habs = n, !.buf = c, !.old = o] \in Window
BY DEF Window

LEMMA Numbers == Number \subseteq Nat /\ None = -1 /\ None \notin Number
BY Params DEF Number, None

\* What is k numbers behind the head is the frame with that number or nothing.
LEMMA AtIs ==
    ASSUME NEW w \in Window, Exact(w), NEW k \in 0 .. B - 1
    PROVE  /\ At(w, k) = w.buf[(w.habs + k) % B]
           /\ At(w, k) \in {None, w.habs + k}
           /\ (w.habs + k) % B \in Slot
<1>1. w.habs \in Nat /\ w.head = w.habs % M /\ k \in Nat /\ k < B
  BY Params, WindowFields DEF Exact
<1> DEFINE n == w.habs + k
<1>2. n \in Nat /\ n - w.habs = k
  BY <1>1
<1>3. n % B \in Slot /\ At(w, k) = w.buf[n % B]
  <2>1. ((w.habs % M) + k) % B = (w.habs + k) % B
    <3>1. w.habs \in Int /\ k \in Int
      BY <1>1
    <3> QED BY <3>1, SlotOf
  <2>2. n % B \in Slot
    <3>1. n \in Int
      BY <1>2
    <3> HIDE DEF n
    <3> QED BY <3>1, Params, ModSplit DEF Slot
  <2> QED BY <1>1, <2>1, <2>2 DEF At
<1>4. ASSUME w.buf[n % B] # None PROVE w.buf[n % B] = n
  <2> DEFINE x == w.buf[n % B]
  <2>1. x % B = n % B /\ x \in w.habs .. w.habs + B - 1
    BY <1>3, <1>4 DEF Exact
  <2>2. x \in Int /\ x - n < B /\ n - x < B
    BY <1>1, <1>2, <2>1, Params
  <2> HIDE DEF x, n
  <2> QED BY <1>2, <2>1, <2>2, SameRemainder, Params DEF x
<1> QED BY <1>3, <1>4

\* A frame of the window is in the entry of its number.
LEMMA HeldAt ==
    ASSUME NEW w \in Window, Exact(w), NEW n \in Held(w)
    PROVE  /\ n \in Number /\ n \in w.habs .. w.habs + B - 1
           /\ n % B \in Slot /\ w.buf[n % B] = n
           /\ n - w.habs \in 0 .. B - 1 /\ At(w, n - w.habs) = n
<1>1. PICK i \in Slot : n = w.buf[i] /\ n # None
  BY DEF Held
<1>2. n % B = i /\ n \in w.habs .. w.habs + B - 1
  BY <1>1 DEF Exact
<1>3. n \in Number /\ w.habs \in Nat
  BY <1>1, WindowFields
<1>4. n - w.habs \in 0 .. B - 1 /\ w.habs + (n - w.habs) = n
  BY <1>2, <1>3, Params, Numbers
<1>5. At(w, n - w.habs) = w.buf[n % B]
  BY <1>4, AtIs
<1> QED BY <1>1, <1>2, <1>3, <1>4, <1>5

\* Conversely an entry with something in it holds a frame of the window.
LEMMA AtHeld ==
    ASSUME NEW w \in Window, Exact(w), NEW k \in 0 .. B - 1, At(w, k) # None
    PROVE  At(w, k) = w.habs + k /\ w.habs + k \in Held(w)
<1>1. At(w, k) = w.buf[(w.habs + k) % B] /\ At(w, k) = w.habs + k /\ (w.habs + k) % B \in Slot
  BY AtIs
<1> QED BY <1>1 DEF Held

\* The entries that a shift empties are those of the numbers it passes.
LEMMA ShiftExact ==
    ASSUME NEW w \in Window, Exact(w), NEW d \in Nat
    PROVE  /\ Shift(w, d) \in Window /\ Exact(Shift(w, d))
           /\ Shift(w, d).habs = w.habs + d
           /\ Held(Shift(w, d)) = {n \in Held(w) : n >= w.habs + d}
           /\ Shift(w, d).old \subseteq w.old
           /\ Shift(w, d).started = w.started /\ Shift(w, d).removed = w.removed
<1> DEFINE u == Shift(w, d)
<1>1. /\ w.head \in 0 .. M - 1 /\ w.habs \in Nat
      /\ w.buf \in [Slot -> Number \cup {None}] /\ w.old \subseteq Slot
      /\ w.head = w.habs % M
  BY WindowFields DEF Exact
<1>2. /\ u.head = (w.head + d) % M /\ u.habs = w.habs + d
      /\ u.buf = [i \in Slot |-> IF (i - w.head) % B < d THEN None ELSE w.buf[i]]
      /\ u.old = {i \in w.old : (i - w.head) % B >= d}
      /\ u.started = w.started /\ u.removed = w.removed
      /\ DOMAIN u = {"head", "habs", "buf", "old", "started", "removed"}
  BY DEF Shift, Window
<1>3. u.head = u.habs % M /\ u.head \in 0 .. M - 1
  <2>1. (w.head + d) % M = (w.habs + d) % M
    <3>1. w.habs \in Int /\ d \in Int
      BY <1>1
    <3>2. ((w.habs % M) + d) % M = (w.habs + d) % M
      BY <3>1, SlotOf
    <3> QED BY <1>1, <3>2
  <2>2. w.habs + d \in Int
    BY <1>1
  <2>3. (w.habs + d) % M \in 0 .. M - 1
    BY <2>2, Params, ModSplit
  <2> QED BY <1>2, <2>1, <2>3
<1>4. u \in Window
  <2>1. u.buf \in [Slot -> Number \cup {None}] /\ u.old \in SUBSET Slot
    BY <1>1, <1>2
  <2>2. u.habs \in Nat /\ u.started \in BOOLEAN /\ u.removed \in BOOLEAN
    BY <1>1, <1>2, WindowFields
  <2> DEFINE h == (w.head + d) % M
             n == w.habs + d
             c == [i \in Slot |-> IF (i - w.head) % B < d THEN None ELSE w.buf[i]]
             o == {i \in w.old : (i - w.head) % B >= d}
  <2>3. u = [w EXCEPT !.head = h, !.habs = n, !.buf = c, !.old = o]
    BY DEF Shift
  <2>4. h \in 0 .. M - 1 /\ n \in Nat /\ c \in [Slot -> Number \cup {None}]
        /\ o \in SUBSET Slot
    BY <1>2, <1>3, <2>1, <2>2
  <2> HIDE DEF h, n, c, o, u
  <2> QED BY <2>3, <2>4, WindowExcept
<1>5. ASSUME NEW i \in Slot, w.buf[i] # None
      PROVE  /\ (i - w.head) % B = w.buf[i] - w.habs
             /\ w.buf[i] \in Nat /\ w.buf[i] % B = i
             /\ w.buf[i] \in w.habs .. w.habs + B - 1
  <2> DEFINE n == w.buf[i]
  <2>1. n % B = i /\ n \in w.habs .. w.habs + B - 1 /\ n \in Nat
    BY <1>1, <1>5, Numbers DEF Exact
  <2> HIDE DEF n
  <2>2. i \in Int
    BY Params DEF Slot
  <2>3. (i - w.head) % B = (i - w.habs) % B
    BY <1>1, <2>2, SlotOf
  <2>5. ((n % B) + (-w.habs)) % B = (n + (-w.habs)) % B
    <3> DEFINE k == -w.habs
    <3>1. k \in Int /\ n \in Int
      BY <1>1, <2>1
    <3> HIDE DEF k
    <3>2. ((n % B) + k) % B = (n + k) % B
      BY <3>1, Params, ModAddSame
    <3> QED BY <3>2 DEF k
  <2>6. (n - w.habs) % B = n - w.habs
    BY <1>1, <2>1, Params, ModSmall
  <2>7. (i - w.habs) % B = (n - w.habs) % B
    <3>1. (n % B) + (-w.habs) = i - w.habs /\ n + (-w.habs) = n - w.habs
      BY <1>1, <2>1, <2>2
    <3> QED BY <2>5, <3>1
  <2> QED BY <2>1, <2>3, <2>6, <2>7 DEF n
<1>6. \A i \in Slot : u.buf[i] # None =>
         u.buf[i] = w.buf[i] /\ w.buf[i] >= w.habs + d
  <2> TAKE i \in Slot
  <2> HAVE u.buf[i] # None
  <2>1. u.buf[i] = w.buf[i] /\ ~((i - w.head) % B < d) /\ w.buf[i] # None
    BY <1>2
  <2>2. (i - w.head) % B = w.buf[i] - w.habs /\ w.buf[i] \in Nat
    BY <1>5, <2>1
  <2> QED BY <1>1, <2>1, <2>2
<1>7. \A i \in Slot : w.buf[i] # None /\ w.buf[i] >= w.habs + d => u.buf[i] = w.buf[i]
  <2> TAKE i \in Slot
  <2> HAVE w.buf[i] # None /\ w.buf[i] >= w.habs + d
  <2>1. (i - w.head) % B = w.buf[i] - w.habs /\ w.buf[i] \in Nat
    BY <1>5
  <2>2. ~((i - w.head) % B < d)
    BY <1>1, <2>1
  <2> QED BY <1>2, <2>2
<1>8. Exact(u)
  <2>1. ASSUME NEW i \in Slot, u.buf[i] # None
        PROVE  u.buf[i] % B = i /\ u.buf[i] \in u.habs .. u.habs + B - 1
    <3>1. u.buf[i] = w.buf[i] /\ w.buf[i] >= w.habs + d /\ w.buf[i] # None
      BY <1>6, <2>1
    <3>2. w.buf[i] \in Nat /\ w.buf[i] % B = i /\ w.buf[i] \in w.habs .. w.habs + B - 1
      BY <1>5, <3>1
    <3> QED BY <1>1, <1>2, <3>1, <3>2, Params
  <2> QED BY <1>3, <2>1 DEF Exact
<1>9. Held(u) = {n \in Held(w) : n >= w.habs + d}
  BY <1>6, <1>7 DEF Held
<1>10. u.old \subseteq w.old
  BY <1>2
<1> HIDE DEF u
<1> QED BY <1>2, <1>4, <1>8, <1>9, <1>10 DEF u

---------------------------------------------------------------------------
(* Lists of numbers.                                                       *)

\* A number behind the last one of a list.
LEMMA AppendAscending ==
    ASSUME NEW s \in Seq(Number), Ascending(s), NEW x \in Number,
           \A n \in Ran(s) : n < x
    PROVE  /\ Append(s, x) \in Seq(Number) /\ Ascending(Append(s, x))
           /\ Ran(Append(s, x)) = Ran(s) \cup {x}
<1> DEFINE t == Append(s, x)
<1>1. /\ t \in Seq(Number) /\ Len(t) = Len(s) + 1 /\ Len(s) \in Nat
      /\ \A i \in 1 .. Len(s) : t[i] = s[i]
      /\ t[Len(s) + 1] = x
  OBVIOUS
<1>2. DOMAIN t = 1 .. Len(s) + 1 /\ DOMAIN s = 1 .. Len(s)
  BY <1>1
<1> HIDE DEF t
<1>3. Ran(t) = Ran(s) \cup {x}
  <2>1. ASSUME NEW y \in Ran(t) PROVE y \in Ran(s) \cup {x}
    <3>1. PICK i \in 1 .. Len(s) + 1 : y = t[i]
      BY <1>2 DEF Ran
    <3>2. i \in 1 .. Len(s) \/ i = Len(s) + 1
      BY <1>1, <3>1
    <3> QED BY <1>1, <1>2, <3>1, <3>2 DEF Ran
  <2>2. ASSUME NEW y \in Ran(s) PROVE y \in Ran(t)
    <3>1. PICK i \in 1 .. Len(s) : y = s[i]
      BY <1>2 DEF Ran
    <3>2. i \in 1 .. Len(s) + 1 /\ t[i] = y
      BY <1>1, <3>1
    <3> QED BY <1>2, <3>2 DEF Ran
  <2>3. x \in Ran(t)
    <3>1. Len(s) + 1 \in 1 .. Len(s) + 1
      BY <1>1
    <3> QED BY <1>1, <1>2, <3>1 DEF Ran
  <2> QED BY <2>1, <2>2, <2>3
<1>4. Ascending(t)
  <2> SUFFICES ASSUME NEW j \in 1 .. Len(s) + 1, NEW i \in 1 .. j - 1
               PROVE  t[i] < t[j]
    BY <1>2 DEF Ascending
  <2>1. i \in 1 .. Len(s) /\ t[i] = s[i]
    BY <1>1
  <2>2. CASE j \in 1 .. Len(s)
    <3>1. s[i] < s[j]
      BY <1>2, <2>2 DEF Ascending
    <3> QED BY <1>1, <2>1, <2>2, <3>1
  <2>3. CASE j = Len(s) + 1
    <3>1. s[i] \in Ran(s)
      BY <1>2, <2>1 DEF Ran
    <3> QED BY <1>1, <2>1, <2>3, <3>1
  <2>4. j \in 1 .. Len(s) \/ j = Len(s) + 1
    BY <1>1
  <2> QED BY <2>2, <2>3, <2>4
<1> QED BY <1>1, <1>3, <1>4 DEF t

\* Two lists of which the second has the larger numbers.
LEMMA ConcatAscending ==
    ASSUME NEW s \in Seq(Number), Ascending(s), NEW t \in Seq(Number), Ascending(t),
           \A n \in Ran(s) : \A m \in Ran(t) : n < m
    PROVE  /\ s \o t \in Seq(Number) /\ Ascending(s \o t)
           /\ Ran(s \o t) = Ran(s) \cup Ran(t)
<1> DEFINE u == s \o t
<1>1. /\ u \in Seq(Number) /\ Len(u) = Len(s) + Len(t)
      /\ Len(s) \in Nat /\ Len(t) \in Nat
      /\ \A i \in 1 .. Len(s) : u[i] = s[i]
      /\ \A i \in Len(s) + 1 .. Len(s) + Len(t) : u[i] = t[i - Len(s)]
  OBVIOUS
<1>2. /\ DOMAIN u = 1 .. Len(s) + Len(t)
      /\ DOMAIN s = 1 .. Len(s) /\ DOMAIN t = 1 .. Len(t)
  BY <1>1
<1> HIDE DEF u
<1>3. \A i \in 1 .. Len(s) + Len(t) :
         \/ i \in 1 .. Len(s) /\ u[i] = s[i]
         \/ i > Len(s) /\ i - Len(s) \in 1 .. Len(t) /\ u[i] = t[i - Len(s)]
  <2> TAKE i \in 1 .. Len(s) + Len(t)
  <2>1. CASE i <= Len(s)
    <3>1. i \in 1 .. Len(s)
      BY <1>1, <2>1
    <3> QED BY <1>1, <3>1
  <2>2. CASE i > Len(s)
    <3>1. i \in Len(s) + 1 .. Len(s) + Len(t) /\ i - Len(s) \in 1 .. Len(t)
      BY <1>1, <2>2
    <3> QED BY <1>1, <2>2, <3>1
  <2> QED BY <1>1, <2>1, <2>2
<1>4. Ran(u) = Ran(s) \cup Ran(t)
  <2>1. ASSUME NEW y \in Ran(u) PROVE y \in Ran(s) \cup Ran(t)
    <3>1. PICK i \in 1 .. Len(s) + Len(t) : y = u[i]
      BY <1>2 DEF Ran
    <3> QED BY <1>2, <1>3, <3>1 DEF Ran
  <2>2. ASSUME NEW y \in Ran(s) PROVE y \in Ran(u)
    <3>1. PICK i \in 1 .. Len(s) : y = s[i]
      BY <1>2 DEF Ran
    <3>2. i \in 1 .. Len(s) + Len(t) /\ u[i] = y
      BY <1>1, <3>1
    <3> QED BY <1>2, <3>2 DEF Ran
  <2>3. ASSUME NEW y \in Ran(t) PROVE y \in Ran(u)
    <3>1. PICK i \in 1 .. Len(t) : y = t[i]
      BY <1>2 DEF Ran
    <3>2. i + Len(s) \in 1 .. Len(s) + Len(t) /\ (i + Len(s)) - Len(s) = i /\ i + Len(s) > Len(s)
      BY <1>1, <3>1
    <3>3. u[i + Len(s)] = y
      BY <1>1, <1>3, <3>1, <3>2
    <3> QED BY <1>2, <3>2, <3>3 DEF Ran
  <2> QED BY <2>1, <2>2, <2>3
<1>5. Ascending(u)
  <2> SUFFICES ASSUME NEW j \in 1 .. Len(s) + Len(t), NEW i \in 1 .. j - 1
               PROVE  u[i] < u[j]
    BY <1>2 DEF Ascending
  <2>0. i \in 1 .. Len(s) + Len(t) /\ i \in Nat /\ j \in Nat /\ i < j
    BY <1>1
  <2>1. CASE j \in 1 .. Len(s) /\ u[j] = s[j]
    <3>1. s[i] < s[j] /\ i \in 1 .. Len(s)
      BY <1>1, <1>2, <2>0, <2>1 DEF Ascending
    <3> QED BY <1>1, <2>1, <3>1
  <2>2. CASE j > Len(s) /\ j - Len(s) \in 1 .. Len(t) /\ u[j] = t[j - Len(s)]
    <3>1. CASE i \in 1 .. Len(s) /\ u[i] = s[i]
      <4>1. s[i] \in Ran(s) /\ t[j - Len(s)] \in Ran(t)
        BY <1>2, <2>2, <3>1 DEF Ran
      <4> QED BY <2>2, <3>1, <4>1
    <3>2. CASE i > Len(s) /\ i - Len(s) \in 1 .. Len(t) /\ u[i] = t[i - Len(s)]
      <4>1. i - Len(s) \in 1 .. (j - Len(s)) - 1
        BY <1>1, <2>0, <2>2, <3>2
      <4>2. t[i - Len(s)] < t[j - Len(s)]
        BY <1>2, <2>2, <4>1 DEF Ascending
      <4> QED BY <2>2, <3>2, <4>2
    <3> QED BY <1>3, <2>0, <3>1, <3>2
  <2> QED BY <1>3, <2>1, <2>2
<1> QED BY <1>1, <1>4, <1>5 DEF u

LEMMA EmptyAscending ==
    /\ <<>> \in Seq(Number) /\ Ascending(<<>>) /\ Ran(<<>>) = {}
BY DEF Ascending, Ran

---------------------------------------------------------------------------
(* The frames that a shift passes on.                                      *)

\* One entry of the walk, and the walk over the first n entries.
WalkStep(w, f, k) ==
    IF k = 0 THEN <<>>
    ELSE IF At(w, k - 1) = None THEN f[k - 1]
    ELSE Append(f[k - 1], At(w, k - 1))
IsWalk(w, f, n) == f = [k \in 0 .. n |-> WalkStep(w, f, k)]

\* The walk is a function of the length of the window.
LEMMA WalkExists ==
    ASSUME NEW w
    PROVE  \E f : IsWalk(w, f, B)
<1> DEFINE T == {n \in Nat : ~\E f : IsWalk(w, f, n)}
<1>1. SUFFICES T = {}
  BY Params
<1>2. SUFFICES ASSUME T # {} PROVE FALSE
  OBVIOUS
<1>3. T \subseteq Nat
  OBVIOUS
<1>4. PICK t \in T : \A y \in T : t <= y
  BY <1>2, <1>3, LeastNumber
<1>5. t \in Nat /\ ~\E f : IsWalk(w, f, t)
  BY <1>4
<1>6. t # 0
  <2> DEFINE f == [k \in 0 .. 0 |-> <<>>]
  <2>1. \A k \in 0 .. 0 : WalkStep(w, f, k) = <<>>
    BY DEF WalkStep
  <2>2. IsWalk(w, f, 0)
    BY <2>1 DEF IsWalk
  <2> QED BY <1>5, <2>2
<1>7. t - 1 \in Nat /\ t - 1 \notin T
  BY <1>4, <1>5, <1>6
<1>8. PICK g : IsWalk(w, g, t - 1)
  BY <1>7
<1> HIDE DEF T
<1> DEFINE last == IF At(w, t - 1) = None THEN g[t - 1] ELSE Append(g[t - 1], At(w, t - 1))
           f == [k \in 0 .. t |-> IF k = t THEN last ELSE g[k]]
<1>9. ASSUME NEW k \in 0 .. t PROVE f[k] = WalkStep(w, f, k)
  <2>1. CASE k = t
    <3>1. t - 1 \in 0 .. t /\ t - 1 # t
      BY <1>5, <1>7
    <3>2. f[t - 1] = g[t - 1] /\ f[t] = last
      BY <1>5, <3>1
    <3> HIDE DEF f
    <3>3. WalkStep(w, f, t) = last
      BY <1>6, <3>2 DEF WalkStep
    <3> QED BY <2>1, <3>2, <3>3
  <2>2. CASE k # t
    <3>1. k \in 0 .. t - 1 /\ f[k] = g[k]
      BY <1>5, <2>2
    <3>2. g[k] = WalkStep(w, g, k)
      BY <1>8, <3>1 DEF IsWalk
    <3>3. k # 0 => f[k - 1] = g[k - 1]
      BY <1>5, <3>1
    <3>4. WalkStep(w, f, k) = WalkStep(w, g, k)
      BY <3>3 DEF WalkStep
    <3> QED BY <3>1, <3>2, <3>4
  <2> QED BY <2>1, <2>2
<1>10. IsWalk(w, f, t)
  BY <1>9 DEF IsWalk
<1> QED BY <1>5, <1>10

\* The walk over the first k entries collects the frames there, in the order of
\* their numbers.
LEMMA WalkCollects ==
    ASSUME NEW w \in Window, Exact(w), NEW f, IsWalk(w, f, B), NEW n \in 0 .. B
    PROVE  /\ f[n] \in Seq(Number) /\ Ascending(f[n])
           /\ Ran(f[n]) = {m \in Held(w) : m < w.habs + n}
<1> DEFINE Good(k) == /\ f[k] \in Seq(Number) /\ Ascending(f[k])
                      /\ Ran(f[k]) = {m \in Held(w) : m < w.habs + k}
           T == {k \in 0 .. B : ~Good(k)}
<1>0. \A k \in 0 .. B : f[k] = WalkStep(w, f, k)
  BY DEF IsWalk
<1>1. SUFFICES ASSUME T # {} PROVE FALSE
  OBVIOUS
<1>2. T \subseteq Nat
  BY Params
<1>3. PICK t \in T : \A y \in T : t <= y
  BY <1>1, <1>2, LeastNumber
<1>4. t \in 0 .. B /\ ~Good(t)
  BY <1>3
<1>5. w.habs \in Nat
  BY WindowFields
<1>6. CASE t = 0
  <2>1. f[0] = <<>>
    BY <1>0, Params DEF WalkStep
  <2>2. {m \in Held(w) : m < w.habs + 0} = {}
    <3>1. \A m \in Held(w) : m \in Nat /\ m >= w.habs
      BY <1>5, HeldAt, Params
    <3> QED BY <1>5, <3>1
  <2> QED BY <1>4, <1>6, <2>1, <2>2, EmptyAscending
<1>7. CASE t # 0
  <2>1. t - 1 \in 0 .. B /\ t - 1 \notin T /\ t - 1 \in 0 .. B - 1
    BY <1>3, <1>4, <1>7, Params
  <2>2. Good(t - 1)
    BY <2>1
  <2>3. f[t] = IF At(w, t - 1) = None THEN f[t - 1] ELSE Append(f[t - 1], At(w, t - 1))
    BY <1>0, <1>4, <1>7 DEF WalkStep
  <2> HIDE DEF T
  <2>4. CASE At(w, t - 1) = None
    <3>1. \A m \in Held(w) : m < w.habs + t <=> m < w.habs + (t - 1)
      <4> TAKE m \in Held(w)
      <4>1. m \in Nat /\ At(w, m - w.habs) = m /\ m # None
        BY HeldAt, Numbers
      <4>2. m # w.habs + (t - 1)
        <5>1. SUFFICES ASSUME m = w.habs + (t - 1) PROVE FALSE
          OBVIOUS
        <5>2. m - w.habs = t - 1
          BY <1>4, <1>5, <5>1
        <5> QED BY <2>4, <4>1, <5>2
      <4> QED BY <1>4, <1>5, <4>1, <4>2
    <3> QED BY <1>4, <2>2, <2>3, <2>4, <3>1
  <2>5. CASE At(w, t - 1) # None
    <3> DEFINE x == w.habs + (t - 1)
    <3>1. At(w, t - 1) = x /\ x \in Held(w)
      BY <2>1, <2>5, AtHeld
    <3>2. x \in Number /\ x \in Nat
      BY <3>1, HeldAt, Numbers
    <3>3. \A m \in Ran(f[t - 1]) : m < x
      BY <2>2
    <3>4. \A m \in Held(w) : m < w.habs + t <=> m < x \/ m = x
      <4>1. \A m \in Held(w) : m \in Nat
        BY HeldAt, Numbers
      <4> QED BY <1>4, <1>5, <4>1
    <3>5. f[t] = Append(f[t - 1], x)
      BY <2>3, <2>5, <3>1
    <3> HIDE DEF x
    <3>6. /\ f[t] \in Seq(Number) /\ Ascending(f[t])
          /\ Ran(f[t]) = Ran(f[t - 1]) \cup {x}
      BY <2>2, <3>2, <3>3, <3>5, AppendAscending
    <3>7. Ran(f[t - 1]) = {m \in Held(w) : m < x}
      BY <2>2 DEF x
    <3>8. {m \in Held(w) : m < w.habs + t} = {m \in Held(w) : m < x} \cup {x}
      BY <3>1, <3>4
    <3> QED BY <1>4, <3>6, <3>7, <3>8
  <2> QED BY <2>4, <2>5
<1> QED BY <1>6, <1>7

\* What a shift passes on are the frames that it takes out of the window, in the
\* order of their numbers.
LEMMA PassedIs ==
    ASSUME NEW w \in Window, Exact(w), NEW d \in Nat
    PROVE  /\ Passed(w, d) \in Seq(Number) /\ Ascending(Passed(w, d))
           /\ Ran(Passed(w, d)) = {m \in Held(w) : m < w.habs + d}
<1> DEFINE f == CHOOSE f : IsWalk(w, f, B)
           n == IF d < B THEN d ELSE B
<1>1. IsWalk(w, f, B)
  BY WalkExists
<1>2. Passed(w, d) = f[n]
  BY DEF Passed, IsWalk, WalkStep
<1>3. n \in 0 .. B
  BY Params
<1>4. \A m \in Held(w) : m < w.habs + d <=> m < w.habs + n
  <2> TAKE m \in Held(w)
  <2>1. m \in w.habs .. w.habs + B - 1 /\ w.habs \in Nat
    BY HeldAt, WindowFields
  <2> QED BY <2>1, Params
<1> HIDE DEF f, n
<1>5. /\ f[n] \in Seq(Number) /\ Ascending(f[n])
      /\ Ran(f[n]) = {m \in Held(w) : m < w.habs + n}
  BY <1>1, <1>3, WalkCollects
<1> QED BY <1>2, <1>4, <1>5

---------------------------------------------------------------------------
(* The release of frames that need not wait (phl_reorder_release).         *)

\* The walk lets go up to a frame, and stops nowhere before.
LEMMA ReadyIs ==
    ASSUME NEW w
    PROVE  /\ Ready(w) \in 0 .. B
           /\ Ready(w) # 0 => /\ At(w, Ready(w) - 1) # None
                              /\ \A j \in 1 .. Ready(w) - 1 : ~Stops(w, j)
<1> DEFINE open == {k \in 1 .. B : \A j \in 1 .. k - 1 : ~Stops(w, j)}
           gone == {k \in open : At(w, k - 1) # None}
<1>1. Ready(w) = IF gone = {} THEN 0 ELSE CHOOSE k \in gone : \A j \in gone : j <= k
  BY DEF Ready
<1>2. CASE gone = {}
  BY <1>1, <1>2, Params
<1>3. CASE gone # {}
  <2>1. gone \subseteq 0 .. B
    BY Params
  <2>2. \E k \in gone : \A j \in gone : j <= k
    <3> HIDE DEF gone
    <3> QED BY <1>3, <2>1, Params, GreatestNumber
  <2>3. Ready(w) \in gone
    <3> HIDE DEF gone
    <3> QED BY <1>1, <1>3, <2>2
  <2>4. /\ Ready(w) \in 1 .. B /\ At(w, Ready(w) - 1) # None
        /\ \A j \in 1 .. Ready(w) - 1 : ~Stops(w, j)
    BY <2>3
  <2> QED BY <2>4, Params
<1> QED BY <1>2, <1>3

\* The release ends at a frame of the window or leaves the head alone.
LEMMA ReleaseIs ==
    ASSUME NEW w \in Window, Exact(w)
    PROVE  /\ Ready(w) \in Nat
           /\ Ready(w) = 0 \/ (Ready(w) - 1 \in 0 .. B - 1 /\ w.habs + (Ready(w) - 1) \in Held(w))
<1>1. Ready(w) \in 0 .. B
  BY ReadyIs
<1>2. CASE Ready(w) # 0
  <2>1. At(w, Ready(w) - 1) # None /\ Ready(w) - 1 \in 0 .. B - 1
    BY <1>1, <1>2, ReadyIs, Params
  <2> QED BY <1>1, <2>1, AtHeld
<1> QED BY <1>1, <1>2, Params

\* A number that the release passes and whose frame is not there is behind a
\* frame that timed out.
LEMMA ReleaseJustified ==
    ASSUME NEW w \in Window, Exact(w), NEW n \in w.habs .. w.habs + Ready(w) - 1
    PROVE  n \in Held(w) \/ \E i \in w.old : w.buf[i] \in Number /\ w.buf[i] > n
<1> DEFINE R == Ready(w)
           j == n - w.habs
<1>1. /\ w.habs \in Nat /\ R \in 0 .. B /\ R # 0 /\ At(w, R - 1) # None
      /\ \A k \in 1 .. R - 1 : ~Stops(w, k)
      /\ j \in 0 .. R - 1 /\ n = w.habs + j /\ R \in Nat /\ B \in Nat /\ n \in Nat
  <2>1. w.habs \in Nat /\ R \in 0 .. B /\ R \in Nat /\ B \in Nat
    BY WindowFields, ReadyIs, Params
  <2>2. R # 0 /\ j \in 0 .. R - 1 /\ n = w.habs + j /\ n \in Nat
    BY <2>1
  <2> QED BY <2>1, <2>2, ReadyIs
<1> HIDE DEF R, j
<1>2. CASE At(w, j) # None
  <2>1. j \in 0 .. B - 1
    BY <1>1
  <2> QED BY <1>1, <1>2, <2>1, AtHeld
<1>3. CASE At(w, j) = None
  <2>1. At(w, 0) = None
    <3> SUFFICES ASSUME At(w, 0) # None PROVE FALSE
      OBVIOUS
    <3>1. j \in 1 .. R - 1
      BY <1>1, <1>3
    <3> QED BY <1>1, <1>3, <3>1 DEF Stops
  <2> DEFINE T == {k \in j + 1 .. R - 1 : At(w, k) # None}
  <2>2. R - 1 \in T
    <3>1. j # R - 1
      BY <1>1, <1>3
    <3> QED BY <1>1, <3>1
  <2>3. T \subseteq Nat /\ T # {}
    BY <1>1, <2>2
  <2>4. PICK k \in T : \A y \in T : k <= y
    BY <2>3, LeastNumber
  <2>5. k \in j + 1 .. R - 1 /\ At(w, k) # None /\ k \in 1 .. R - 1 /\ k \in 0 .. B - 1 /\ k \in Nat
    BY <1>1, <2>4
  <2>6. At(w, k - 1) = None
    <3>1. CASE k - 1 = j
      BY <1>3, <3>1
    <3>2. CASE k - 1 # j
      <4>1. k - 1 \in j + 1 .. R - 1
        BY <1>1, <2>5, <3>2
      <4>2. k - 1 \notin T
        BY <2>4, <2>5
      <4> QED BY <4>1, <4>2
    <3> QED BY <3>1, <3>2
  <2> HIDE DEF T
  <2>7. (w.head + k) % B \in w.old
    BY <1>1, <2>1, <2>5, <2>6 DEF Stops
  <2>8. w.buf[(w.head + k) % B] = w.habs + k /\ w.habs + k \in Held(w)
    <3>1. At(w, k) = w.habs + k /\ w.habs + k \in Held(w)
      BY <2>5, AtHeld
    <3> QED BY <3>1 DEF At
  <2>9. w.habs + k > n /\ w.habs + k \in Number
    <3>1. w.habs + k > n
      BY <1>1, <2>5
    <3> QED BY <3>1, <2>8, HeldAt
  <2> QED BY <2>7, <2>8, <2>9
<1> QED BY <1>2, <1>3

\* A frame is put into an entry.
LEMMA StoreWindow ==
    ASSUME NEW w \in Window, NEW n \in Number, NEW i \in Slot
    PROVE  [w EXCEPT !.buf[i] = n, !.old = w.old \ {i}] \in Window
<1> DEFINE c == [w.buf EXCEPT ![i] = n]
           o == w.old \ {i}
           h == w.head
           m == w.habs
<1>1. c \in [Slot -> Number \cup {None}] /\ o \in SUBSET Slot
  BY WindowFields
<1>2. [w EXCEPT !.buf[i] = n, !.old = w.old \ {i}]
        = [w EXCEPT !.head = h, !.habs = m, !.buf = c, !.old = o]
  BY DEF Window
<1>3. h \in 0 .. M - 1 /\ m \in Nat
  BY WindowFields
<1> HIDE DEF c, o, h, m
<1>4. [w EXCEPT !.head = h, !.habs = m, !.buf = c, !.old = o] \in Window
  BY <1>1, <1>3, WindowExcept
<1> QED BY <1>2, <1>4

\* A frame is put into the free entry of its number.
Stored(w, n) == [w EXCEPT !.buf[n % B] = n, !.old = w.old \ {n % B}]
LEMMA StoreExact ==
    ASSUME NEW w \in Window, Exact(w), NEW n \in Number,
           n \in w.habs .. w.habs + B - 1, w.buf[n % B] = None,
           NEW s, s = Stored(w, n)
    PROVE  /\ s \in Window /\ Exact(s) /\ s.habs = w.habs
           /\ Held(s) = Held(w) \cup {n}
           /\ s.old \subseteq w.old \ {n % B}
           /\ \A i \in Slot \ {n % B} : s.buf[i] = w.buf[i]
           /\ s.removed = w.removed
<1>1. n % B \in Slot /\ n # None
  BY Params, Numbers, ModSplit DEF Slot
<1> DEFINE i == n % B
<1>2. i \in Slot /\ w.buf[i] = None
  BY <1>1
<1> HIDE DEF i
<1>3. s = [w EXCEPT !.buf[i] = n, !.old = w.old \ {i}]
  BY DEF i, Stored
<1>4. /\ w.buf \in [Slot -> Number \cup {None}] /\ w.old \subseteq Slot
      /\ s.buf = [w.buf EXCEPT ![i] = n] /\ s.old = w.old \ {i}
      /\ s.habs = w.habs /\ s.head = w.head /\ s.removed = w.removed
  BY <1>3, WindowFields DEF Window
<1>5. s.buf[i] = n /\ \A k \in Slot \ {i} : s.buf[k] = w.buf[k]
  BY <1>2, <1>4
<1>6. s \in Window
  <2>1. [w EXCEPT !.buf[i] = n, !.old = w.old \ {i}] \in Window
    BY <1>2, StoreWindow
  <2> QED BY <1>3, <2>1, Zenon
<1>7. Held(s) = Held(w) \cup {n}
  BY <1>1, <1>2, <1>5 DEF Held
<1>8. Exact(s)
  BY <1>4, <1>5 DEF Exact, i
<1> QED BY <1>4, <1>5, <1>6, <1>7, <1>8 DEF i

---------------------------------------------------------------------------
(* The invariant.                                                          *)

\* The sender's window is near the head, and the frames are from the sender's
\* window.
Near(w) ==
    /\ base <= w.habs + Gap /\ w.habs <= base + B
    /\ \A n \in Held(w) : n < base + B
BarNear == bar # None => bar <= base /\ base <= bar + Gap
WindowInv ==
    /\ TypeOK /\ lost = {} /\ Ascending(released) /\ BarNear
    /\ alive => Exact(r) /\ Near(r) /\ \A n \in Ran(released) : n < r.habs

\* What the invariant says of the types, in the words of the lemmas.
LEMMA Types ==
    ASSUME WindowInv
    PROVE  /\ r \in Window /\ alive \in BOOLEAN
           /\ timer \in Off .. Timeout /\ half \subseteq Number
           /\ callback \in {"idle", "lock", "handover"}
           /\ list \in [Ctx -> Seq(Number)] /\ released \in Seq(Number)
           /\ ctl \in {"idle", "cancel", "free"}
           /\ sessions \in 0 .. MaxSession
           /\ base \in Number /\ bar \in Number \cup {None}
           /\ base \in Nat /\ (bar # None => bar \in Nat)
BY Numbers DEF WindowInv, TypeOK, Window

\* A window that moves on and lets go the frames it passes.
LEMMA WindowMoves ==
    ASSUME WindowInv, alive, NEW w \in Window, NEW frames \in Seq(Number),
           Exact(w), Near(w), r.habs <= w.habs, Ascending(frames),
           \A n \in Ran(frames) : r.habs <= n /\ n < w.habs,
           r' = w, released' = released \o frames,
           alive' = alive, base' = base, sessions' = sessions, ctl' = ctl,
           bar' \in {bar, None}, lost' = {},
           list' \in [Ctx -> Seq(Number)],
           timer' \in Off .. Timeout, half' \subseteq Number,
           callback' \in {"idle", "lock", "handover"}
    PROVE  WindowInv' /\ Ran(released') = Ran(released) \cup Ran(frames)
<1>1. /\ released \in Seq(Number) /\ Ascending(released) /\ Exact(r) /\ r \in Window
      /\ \A n \in Ran(released) : n < r.habs
  BY Types DEF WindowInv
<1>2. r.habs \in Nat /\ w.habs \in Nat
  BY <1>1, WindowFields
<1>3. Ran(released) \subseteq Nat /\ Ran(frames) \subseteq Nat
  <2>1. \A s \in Seq(Number) : Ran(s) \subseteq Number
    BY DEF Ran
  <2> QED BY <1>1, <2>1, Numbers
<1>4. \A n \in Ran(released) : \A m \in Ran(frames) : n < m
  BY <1>1, <1>2, <1>3
<1>5. /\ released' \in Seq(Number) /\ Ascending(released')
      /\ Ran(released') = Ran(released) \cup Ran(frames)
  BY <1>1, <1>4, ConcatAscending
<1>6. \A n \in Ran(released') : n < r'.habs
  BY <1>1, <1>2, <1>3, <1>5
<1>7. TypeOK'
  <2>1. r' \in Window
    OBVIOUS
  <2> QED BY <1>5, <2>1, Types DEF TypeOK, Window
<1>8. BarNear'
  BY DEF WindowInv, BarNear
<1>9. Exact(r)' /\ Near(r)'
  BY DEF Exact, Near, Held
<1>10. (\A n \in Ran(released) : n < r.habs)'
  BY <1>6
<1> QED BY <1>5, <1>7, <1>8, <1>9, <1>10 DEF WindowInv, Ascending

---------------------------------------------------------------------------
(* What an arriving frame meets.                                           *)

\* The handler compares the number of a frame with the head as it is meant to.
LEMMA Arrival ==
    ASSUME WindowInv, alive, NEW n \in Number, Arrives(n)
    PROVE  /\ n \in Nat /\ n < base + B /\ base <= n
           /\ seq_less(n % M, r.head) <=> n < r.habs
<1>1. n \in Nat /\ n \in base .. base + B - 1 /\ base \in Nat
  BY Types, Numbers DEF Arrives
<1>2. /\ r.habs \in Nat /\ r.head = r.habs % M
      /\ base <= r.habs + Gap /\ r.habs <= base + B
  BY Types, WindowFields DEF WindowInv, Exact, Near
<1>3. 2 * (n - r.habs) < M /\ 2 * (r.habs - n) < M /\ n \in Int /\ r.habs \in Int
  BY <1>1, <1>2, Params
<1>4. seq_less(n % M, r.habs % M) <=> n < r.habs
  BY <1>3, SeqLess
<1> QED BY <1>1, <1>2, <1>4, Params

\* A frame beyond the window moves it on so that it is the last one.
LEMMA OverflowIs ==
    ASSUME WindowInv, alive, NEW n \in Number, Arrives(n), r.habs <= n
    PROVE  /\ Overflow(n) \in Nat
           /\ n \in r.habs + Overflow(n) .. r.habs + Overflow(n) + B - 1
           /\ Overflow(n) = 0 \/ n = r.habs + Overflow(n) + (B - 1)
           /\ r.habs + Overflow(n) <= base + B
<1>1. n \in Nat /\ n \in base .. base + B - 1 /\ base \in Nat
  BY Types, Numbers DEF Arrives
<1>2. /\ r.habs \in Nat /\ r.head = r.habs % M
      /\ base <= r.habs + Gap /\ r.habs <= base + B
  BY Types, WindowFields DEF WindowInv, Exact, Near
<1> DEFINE h == r.habs
           e == h + B
           a == n - B + 1
<1>3. h \in Int /\ e \in Int /\ a \in Int /\ n \in Int /\ B \in Int
  BY <1>1, <1>2, Params
<1>4. 2 * (n - e) < M /\ 2 * (e - n) < M
  BY <1>1, <1>2, Params
<1>5. (r.head + B) % M = e % M
  <2>1. ((h % M) + B) % M = (h + B) % M
    BY <1>3, SlotOf
  <2> QED BY <1>2, <2>1
<1>6. n >= e => h <= a /\ a - h < M
  BY <1>1, <1>2, Params
<1>7. a = n - B + 1 /\ e = h + B /\ h = r.habs
  OBVIOUS
<1> HIDE DEF h, e, a
<1>8. seq_less(n % M, e % M) <=> n < e
  BY <1>3, <1>4, SeqLess
<1>9. n >= e => ((a % M) - (h % M)) % M = a - h
  BY <1>3, <1>6, Distance
<1>10. Overflow(n) = IF n < e THEN 0 ELSE a - h
  <2>1. CASE n < e
    BY <1>5, <1>8, <2>1 DEF Overflow
  <2>2. CASE ~(n < e)
    <3>1. Overflow(n) = DistanceTo(r, (n - B + 1) % M)
      BY <1>5, <1>8, <2>2 DEF Overflow
    <3>2. DistanceTo(r, a % M) = ((a % M) - (h % M)) % M
      BY <1>2, <1>7 DEF DistanceTo
    <3> QED BY <1>3, <1>7, <1>9, <2>2, <3>1, <3>2
  <2> QED BY <2>1, <2>2
<1>11. CASE n < e
  <2>1. Overflow(n) = 0
    BY <1>10, <1>11
  <2>2. n \in h .. h + B - 1
    BY <1>1, <1>3, <1>7, <1>11
  <2> QED BY <1>2, <1>7, <2>1, <2>2
<1>12. CASE ~(n < e)
  <2>1. Overflow(n) = a - h
    BY <1>10, <1>12
  <2>2. a - h \in Nat /\ h + (a - h) = a
    BY <1>3, <1>6, <1>12
  <2>3. n = a + (B - 1) /\ n \in a .. a + B - 1 /\ a <= base + B
    BY <1>1, <1>3, <1>7, Params
  <2> QED BY <1>7, <2>1, <2>2, <2>3
<1> QED BY <1>11, <1>12

\* The entry of the first frame.
LEMMA StartedIs ==
    ASSUME NEW w \in Window, Exact(w), w = r
    PROVE  /\ Started \in Window /\ Exact(Started)
           /\ Started.habs = r.habs /\ Started.head = r.head
           /\ Held(Started) = Held(r) /\ Started.old = r.old
           /\ Started.buf = r.buf
<1>1. /\ Started.habs = r.habs /\ Started.head = r.head
      /\ Started.old = r.old /\ Started.buf = r.buf
  BY DEF Started, Window
<1>2. Started \in Window
  BY DEF Started, Window
<1> QED BY <1>1, <1>2 DEF Held, Exact

\* The window after it made room for a frame, and the frames that left.
LEMMA RoomFor ==
    ASSUME WindowInv, NEW n \in Number, InWindow(n),
           NEW w, w = Shift(Started, Overflow(n)),
           NEW frames, frames = Passed(r, Overflow(n))
    PROVE  /\ alive /\ w \in Window /\ Exact(w) /\ n \in Nat /\ r.habs \in Nat
           /\ Overflow(n) \in Nat /\ w.habs = r.habs + Overflow(n)
           /\ n \in w.habs .. w.habs + B - 1 /\ n < base + B /\ r.habs <= n
           /\ Overflow(n) = 0 \/ n = w.habs + (B - 1)
           /\ Held(w) = {m \in Held(r) : m >= w.habs}
           /\ Near(w) /\ w.old \subseteq r.old
           /\ \A m \in Held(r) : m \in Nat /\ r.habs <= m /\ m < r.habs + B
           /\ frames \in Seq(Number) /\ Ascending(frames)
           /\ Ran(frames) = {m \in Held(r) : m < w.habs}
<1>1. /\ alive /\ Arrives(n) /\ r \in Window /\ Exact(r) /\ Near(r) /\ r.habs \in Nat
  BY Types, WindowFields DEF InWindow, Reordered, WindowInv
<1>2. n \in Nat /\ n < base + B /\ r.habs <= n /\ base \in Nat
  <2>1. ~(n < r.habs) /\ n \in Nat /\ n < base + B
    BY <1>1, Arrival DEF InWindow
  <2> QED BY <1>1, <2>1, Types
<1>3. /\ Overflow(n) \in Nat
      /\ n \in r.habs + Overflow(n) .. r.habs + Overflow(n) + B - 1
      /\ Overflow(n) = 0 \/ n = r.habs + Overflow(n) + (B - 1)
      /\ r.habs + Overflow(n) <= base + B
  BY <1>1, <1>2, OverflowIs
<1>4. /\ Started \in Window /\ Exact(Started)
      /\ Started.habs = r.habs /\ Held(Started) = Held(r) /\ Started.old = r.old
  BY <1>1, StartedIs
<1> DEFINE d == Overflow(n)
           u == Shift(Started, d)
<1>5. /\ u \in Window /\ Exact(u) /\ u.habs = r.habs + d
      /\ Held(u) = {m \in Held(r) : m >= r.habs + d} /\ u.old \subseteq r.old
  BY <1>3, <1>4, ShiftExact
<1>6. /\ frames \in Seq(Number) /\ Ascending(frames)
      /\ Ran(frames) = {m \in Held(r) : m < r.habs + d}
  BY <1>1, <1>3, PassedIs
<1>7. w = u
  OBVIOUS
<1> HIDE DEF u, d
<1>8. /\ w \in Window /\ Exact(w) /\ w.habs = r.habs + d
      /\ Held(w) = {m \in Held(r) : m >= r.habs + d} /\ w.old \subseteq r.old
  BY <1>5, <1>7
<1>9. \A m \in Held(r) : m \in Nat /\ r.habs <= m /\ m < r.habs + B
  <2> TAKE m \in Held(r)
  <2>1. m \in Number /\ m \in r.habs .. r.habs + B - 1
    BY <1>1, HeldAt
  <2> QED BY <1>1, <2>1, Numbers, Params
<1>10. Near(w)
  <2>1. base <= r.habs + Gap /\ \A m \in Held(r) : m < base + B
    BY <1>1 DEF Near
  <2>2. w.habs <= base + B /\ base <= w.habs + Gap
    BY <1>1, <1>2, <1>3, <1>8, <2>1, Params DEF d
  <2> QED BY <1>8, <2>1, <2>2 DEF Near
<1> QED BY <1>1, <1>2, <1>3, <1>6, <1>8, <1>9, <1>10 DEF d

---------------------------------------------------------------------------
(* The steps.  Each keeps the invariant, and moves the head past a number  *)
(* for a reason only.                                                      *)

Reason(n) ==
    \/ n \in Ran(released')
    \/ \E i \in r.old : r.buf[i] > n
    \/ bar # None /\ bar' = None /\ n < bar
    \/ \E m \in (Held(r') \cup Ran(released')) \ (Held(r) \cup Ran(released)) :
         m >= n + B
Justified ==
    alive /\ alive' /\ sessions' = sessions => \A n \in r.habs .. r'.habs - 1 : Reason(n)

\* Steps that leave the head where it is need no reason.
LEMMA HeadStays ==
    ASSUME WindowInv, r'.habs = r.habs
    PROVE  Justified
<1>1. r.habs \in Nat
  BY Types, WindowFields
<1>2. r.habs .. r'.habs - 1 = {}
  BY <1>1
<1> QED BY <1>2 DEF Justified

\* Steps of the sender, of the lists and of the timer's marks.
LEMMA WindowStays ==
    ASSUME WindowInv, TypeOK', UNCHANGED <<alive, base, bar, released, lost>>,
           r'.head = r.head, r'.habs = r.habs, r'.buf = r.buf
    PROVE  WindowInv' /\ Justified
<1>1. Held(r)' = Held(r)
  BY DEF Held
<1>2. BarNear' /\ Ascending(released)' /\ (lost = {})'
  BY DEF WindowInv, BarNear, Ascending
<1>3. alive' => Exact(r)' /\ Near(r)' /\ (\A n \in Ran(released) : n < r.habs)'
  BY <1>1 DEF WindowInv, Exact, Near, Ran
<1> QED BY <1>2, <1>3, HeadStays DEF WindowInv

LEMMA WindowInit == Init => WindowInv
<1> SUFFICES ASSUME Init PROVE WindowInv
  OBVIOUS
<1>1. 0 \in 0 .. M - 1 /\ First \in Number /\ 0 \in 0 .. MaxSession
  BY Params DEF Number
<1>2. TypeOK
  <2>1. r \in Window
    BY <1>1 DEF Init, Window
  <2>2. list \in [Ctx -> Seq(Number)] /\ released \in Seq(Number)
    BY DEF Init
  <2>3. timer \in Off .. Timeout
    BY DEF Init, Off, Timeout
  <2> QED BY <1>1, <2>1, <2>2, <2>3 DEF Init, TypeOK, Window
<1> QED BY <1>2 DEF Init, WindowInv, BarNear, Ascending

\* A list of frames that a context is given.
LEMMA ListType ==
    ASSUME WindowInv, NEW c \in Ctx, NEW s \in Seq(Number)
    PROVE  [list EXCEPT ![c] = s] \in [Ctx -> Seq(Number)]
BY Types

\* The marks of the frames that a step leaves in the window.
LEMMA HalfLeft ==
    ASSUME WindowInv, NEW X, half' = half \cap X
    PROVE  half' \subseteq Number
BY Types

LEMMA PassDirectStep ==
    ASSUME WindowInv, NEW n \in Number, PassDirect(n)
    PROVE  WindowInv' /\ Justified
<1>1. <<n>> \in Seq(Number) /\ "rx" \in Ctx
  BY DEF Ctx
<1>2. list' \in [Ctx -> Seq(Number)]
  BY <1>1, ListType DEF PassDirect, RxResult
<1>3. TypeOK'
  BY <1>2, HalfLeft DEF WindowInv, TypeOK, PassDirect, RxResult, env
<1> QED BY <1>3, WindowStays DEF PassDirect, RxResult, env

LEMMA DropOldStep ==
    ASSUME WindowInv, NEW n \in Number, DropOld(n)
    PROVE  WindowInv' /\ Justified
<1>1. alive /\ Arrives(n) /\ r \in Window /\ Exact(r)
  BY Types DEF DropOld, Reordered, WindowInv
<1>2. n \in Nat /\ n < r.habs /\ r.habs \in Nat
  BY <1>1, Arrival, WindowFields DEF DropOld
<1>3. lost' = lost
  BY <1>2 DEF DropOld
<1>4. /\ r' = Started /\ Started \in Window
      /\ Started.head = r.head /\ Started.habs = r.habs /\ Started.buf = r.buf
  BY <1>1, StartedIs DEF DropOld, RxResult
<1>5. list' \in [Ctx -> Seq(Number)]
  <2>1. <<>> \in Seq(Number) /\ "rx" \in Ctx
    BY DEF Ctx
  <2> QED BY <2>1, ListType DEF DropOld, RxResult
<1>6. TypeOK'
  BY <1>3, <1>4, <1>5, HalfLeft DEF WindowInv, TypeOK, Window, DropOld, RxResult, env
<1> QED BY <1>3, <1>4, <1>6, WindowStays DEF DropOld, RxResult, env

LEMMA DropStoredStep ==
    ASSUME WindowInv, NEW n \in Number, DropStored(n)
    PROVE  WindowInv' /\ Justified
<1> DEFINE w == Shift(Started, Overflow(n))
           frames == Passed(r, Overflow(n))
<1>1. /\ InWindow(n) /\ w.buf[(n % M) % B] # None
      /\ RxResult(w, frames) /\ released' = released \o frames
      /\ lost' = lost \cup ({n} \ Held(w)) /\ timer' = timer
  BY DEF DropStored
<1>2. w = Shift(Started, Overflow(n)) /\ frames = Passed(r, Overflow(n))
  OBVIOUS
<1> HIDE DEF w, frames
<1>3. /\ alive /\ w \in Window /\ Exact(w) /\ n \in Nat /\ r.habs \in Nat
      /\ Overflow(n) \in Nat /\ w.habs = r.habs + Overflow(n)
      /\ n \in w.habs .. w.habs + B - 1 /\ n < base + B /\ r.habs <= n
      /\ Overflow(n) = 0 \/ n = w.habs + (B - 1)
      /\ Held(w) = {m \in Held(r) : m >= w.habs}
      /\ Near(w) /\ w.old \subseteq r.old
      /\ \A m \in Held(r) : m \in Nat /\ r.habs <= m /\ m < r.habs + B
      /\ frames \in Seq(Number) /\ Ascending(frames)
      /\ Ran(frames) = {m \in Held(r) : m < w.habs}
  BY <1>1, <1>2, RoomFor
<1>4. n \in Held(w)
  <2>1. (n % M) % B = n % B /\ n % B \in Slot
    BY <1>3, SlotOf
  <2> DEFINE x == w.buf[n % B]
  <2>2. x # None
    BY <1>1, <2>1
  <2>3. x % B = n % B /\ x \in w.habs .. w.habs + B - 1
    BY <1>3, <2>1, <2>2 DEF Exact
  <2>4. x \in Held(w)
    BY <2>1, <2>2 DEF Held
  <2> HIDE DEF x
  <2>5. x \in Int /\ n \in Int /\ x - n < B /\ n - x < B
    <3>1. w.habs \in Nat /\ n \in Nat /\ n \in w.habs .. w.habs + B - 1
      BY <1>3, WindowFields
    <3> QED BY <2>3, <3>1, Params
  <2>6. x = n
    BY <2>3, <2>5, Params, SameRemainder
  <2> QED BY <2>4, <2>6
<1>5. w.habs = r.habs
  <2>1. n < r.habs + B
    BY <1>3, <1>4
  <2> QED BY <1>3, <2>1, Params
<1>6. lost' = {}
  BY <1>1, <1>4 DEF WindowInv
<1>7. /\ r' = w /\ list' = [list EXCEPT !["rx"] = frames]
      /\ UNCHANGED <<alive, callback, ctl, bar, sessions, base>>
  BY <1>1 DEF RxResult, env
<1>8. list' \in [Ctx -> Seq(Number)]
  <2>1. "rx" \in Ctx
    BY DEF Ctx
  <2> QED BY <1>3, <1>7, <2>1, ListType
<1>9. \A m \in Ran(frames) : r.habs <= m /\ m < w.habs
  BY <1>3
<1>10. /\ timer' \in Off .. Timeout /\ half' \subseteq Number
       /\ callback' \in {"idle", "lock", "handover"} /\ bar' \in {bar, None}
  <2>1. half' \subseteq Number
    BY <1>1, HalfLeft DEF RxResult
  <2> QED BY <1>1, <1>7, <2>1, Types
<1>11. r.habs <= w.habs
  BY <1>3, <1>5
<1>12. WindowInv'
  BY <1>1, <1>3, <1>6, <1>7, <1>8, <1>9, <1>10, <1>11, WindowMoves
<1>13. Justified
  BY <1>5, <1>7, HeadStays
<1> QED BY <1>12, <1>13

\* A frame that did not fit is the reason for the numbers it pushed out.
LEMMA PushedOut ==
    ASSUME WindowInv, alive, r \in Window, NEW n \in Nat, r.habs \in Nat,
           \A m \in Held(r) : m \in Nat /\ m < r.habs + B,
           n >= r.habs + B, n \in Held(r') \cup Ran(released'),
           NEW k \in Nat, k + B <= n
    PROVE  Reason(k)
<1>1. n \notin Held(r)
  BY Params
<1>2. n \notin Ran(released)
  <2>1. \A m \in Ran(released) : m < r.habs
    BY DEF WindowInv
  <2> QED BY <2>1, Params
<1>3. n >= k + B
  BY Params
<1> QED BY <1>1, <1>2, <1>3 DEF Reason

LEMMA PassInOrderStep ==
    ASSUME WindowInv, NEW n \in Number, PassInOrder(n)
    PROVE  WindowInv' /\ Justified
<1> DEFINE w == Shift(Started, Overflow(n))
           frames == Passed(r, Overflow(n))
           u == [w EXCEPT !.head = (w.head + 1) % M, !.habs = w.habs + 1]
           list1 == Append(frames, n)
<1>1. /\ InWindow(n) /\ Held(w) = {} /\ n % M = w.head
      /\ RxResult(u, list1) /\ released' = released \o list1
      /\ timer' = timer /\ lost' = lost
  BY DEF PassInOrder
<1>2. w = Shift(Started, Overflow(n)) /\ frames = Passed(r, Overflow(n))
  OBVIOUS
<1> HIDE DEF w, frames
<1>3. /\ alive /\ w \in Window /\ Exact(w) /\ n \in Nat /\ r.habs \in Nat
      /\ Overflow(n) \in Nat /\ w.habs = r.habs + Overflow(n)
      /\ n \in w.habs .. w.habs + B - 1 /\ n < base + B /\ r.habs <= n
      /\ Overflow(n) = 0 \/ n = w.habs + (B - 1)
      /\ Held(w) = {m \in Held(r) : m >= w.habs}
      /\ Near(w) /\ w.old \subseteq r.old
      /\ \A m \in Held(r) : m \in Nat /\ r.habs <= m /\ m < r.habs + B
      /\ frames \in Seq(Number) /\ Ascending(frames)
      /\ Ran(frames) = {m \in Held(r) : m < w.habs}
  BY <1>1, <1>2, RoomFor
<1>4. n = w.habs
  <2>1. n % M = w.habs % M
    BY <1>1, <1>3 DEF Exact
  <2>2. n \in Int /\ w.habs \in Int /\ n - w.habs < M /\ w.habs - n < M
    <3>1. w.habs \in Nat /\ n \in Nat /\ n \in w.habs .. w.habs + B - 1
      BY <1>3, WindowFields
    <3>2. B <= M
      BY Params
    <3> QED BY <3>1, <3>2, Params
  <2> QED BY <2>1, <2>2, Params, SameRemainder
<1>5. /\ u.habs = n + 1 /\ u.buf = w.buf /\ u.head = (w.head + 1) % M
      /\ u.head = u.habs % M
  <2>1. u.habs = n + 1 /\ u.buf = w.buf /\ u.head = (w.head + 1) % M
    BY <1>3, <1>4 DEF Window
  <2>2. w.head = n % M /\ n \in Int
    BY <1>1, <1>3
  <2>3. ((n % M) + 1) % M = (n + 1) % M
    BY <2>2, SlotOf
  <2> QED BY <2>1, <2>2, <2>3
<1>6. u \in Window
  <2> DEFINE h == (w.head + 1) % M
             m == w.habs + 1
             c == w.buf
             o == w.old
  <2>1. u = [w EXCEPT !.head = h, !.habs = m, !.buf = c, !.old = o]
    BY <1>3 DEF Window
  <2>2. m \in Nat /\ c \in [Slot -> Number \cup {None}] /\ o \in SUBSET Slot
    BY <1>3, WindowFields
  <2>3. h \in 0 .. M - 1
    <3>1. w.head + 1 \in Int
      BY <1>3, WindowFields, Params
    <3> QED BY <3>1, Params, ModSplit
  <2> HIDE DEF h, m, c, o, u
  <2> QED BY <1>3, <2>1, <2>2, <2>3, WindowExcept
<1> HIDE DEF u
<1>7. Held(u) = {}
  BY <1>1, <1>5 DEF Held
<1>8. Exact(u)
  <2>1. \A i \in Slot : u.buf[i] = None
    BY <1>7 DEF Held
  <2> QED BY <1>5, <2>1 DEF Exact
<1>9. Near(u)
  <2>1. base \in Nat /\ base <= w.habs + Gap
    BY <1>3, Types DEF Near
  <2>2. base <= u.habs + Gap /\ u.habs <= base + B
    <3>1. n \in Nat /\ n < base + B /\ u.habs = n + 1 /\ base <= n + Gap
      BY <1>3, <1>4, <1>5, <2>1
    <3> QED BY <2>1, <3>1, Params
  <2> QED BY <1>7, <2>2 DEF Near
<1>10. \A m \in Ran(frames) : m < n /\ r.habs <= m
  BY <1>3, <1>4
<1>11. /\ list1 \in Seq(Number) /\ Ascending(list1)
       /\ Ran(list1) = Ran(frames) \cup {n}
  BY <1>3, <1>10, AppendAscending
<1> HIDE DEF list1
<1>12. \A m \in Ran(list1) : r.habs <= m /\ m < u.habs
  <2>1. \A m \in Ran(frames) : m \in Nat
    BY <1>3
  <2> QED BY <1>3, <1>5, <1>10, <1>11, <2>1
<1>13. /\ r' = u /\ list' = [list EXCEPT !["rx"] = list1]
       /\ UNCHANGED <<alive, callback, ctl, bar, sessions, base>>
  BY <1>1 DEF RxResult, env
<1>14. list' \in [Ctx -> Seq(Number)]
  <2>1. "rx" \in Ctx
    BY DEF Ctx
  <2> QED BY <1>11, <1>13, <2>1, ListType
<1>15. /\ timer' \in Off .. Timeout /\ callback' \in {"idle", "lock", "handover"}
       /\ bar' \in {bar, None} /\ lost' = {} /\ r.habs <= u.habs
       /\ half' \subseteq Number
  <2>1. half' \subseteq Number
    BY <1>1, HalfLeft DEF RxResult
  <2> QED BY <1>1, <1>3, <1>5, <1>13, <2>1, Types DEF WindowInv
<1>16. WindowInv' /\ Ran(released') = Ran(released) \cup Ran(list1)
  BY <1>1, <1>3, <1>6, <1>8, <1>9, <1>11, <1>12, <1>13, <1>14, <1>15, WindowMoves
<1>17. ASSUME NEW k \in r.habs .. r'.habs - 1 PROVE Reason(k)
  <2>1. k \in Nat /\ r.habs <= k /\ k <= n
    BY <1>3, <1>5, <1>13
  <2>2. n \in Ran(released')
    BY <1>11, <1>16
  <2>3. CASE k = n
    BY <2>2, <2>3 DEF Reason
  <2>4. CASE k # n
    <3>1. Overflow(n) # 0
      BY <1>3, <1>4, <2>1, <2>4
    <3>2. n = w.habs + (B - 1) /\ n >= r.habs + B /\ k + B <= n
      BY <1>3, <1>4, <2>1, <2>4, <3>1, Params
    <3>3. r \in Window
      BY Types
    <3> QED BY <1>3, <2>1, <2>2, <3>2, <3>3, PushedOut
  <2> QED BY <2>3, <2>4
<1> QED BY <1>16, <1>17 DEF Justified

\* The release of the frames that need not wait.
LEMMA Released ==
    ASSUME NEW w \in Window, Exact(w), Near(w), base \in Nat,
           NEW u, u = Shift(w, Ready(w)), NEW frames, frames = Passed(w, Ready(w))
    PROVE  /\ u \in Window /\ Exact(u) /\ Near(u)
           /\ u.habs = w.habs + Ready(w) /\ Ready(w) \in Nat
           /\ w.habs \in Nat /\ u.habs \in Nat
           /\ Held(u) = {m \in Held(w) : m >= u.habs}
           /\ frames \in Seq(Number) /\ Ascending(frames)
           /\ Ran(frames) = {m \in Held(w) : m < u.habs}
           /\ \A m \in Held(w) : m \in Nat /\ w.habs <= m /\ m < w.habs + B
<1> DEFINE d == Ready(w)
<1>1. d \in Nat /\ (d = 0 \/ w.habs + (d - 1) \in Held(w)) /\ w.habs \in Nat
  BY ReleaseIs, WindowFields
<1>2. u = Shift(w, d) /\ frames = Passed(w, d)
  OBVIOUS
<1> HIDE DEF d
<1>3. /\ u \in Window /\ Exact(u) /\ u.habs = w.habs + d
      /\ Held(u) = {m \in Held(w) : m >= w.habs + d}
  BY <1>1, <1>2, ShiftExact
<1>4. /\ frames \in Seq(Number) /\ Ascending(frames)
      /\ Ran(frames) = {m \in Held(w) : m < w.habs + d}
  BY <1>1, <1>2, PassedIs
<1>5. \A m \in Held(w) : m \in Nat /\ w.habs <= m /\ m < w.habs + B
  <2> TAKE m \in Held(w)
  <2>1. m \in Number /\ m \in w.habs .. w.habs + B - 1
    BY HeldAt
  <2> QED BY <1>1, <2>1, Numbers, Params
<1>6. Near(u)
  <2>1. base <= w.habs + Gap /\ w.habs <= base + B /\ \A m \in Held(w) : m < base + B
    BY DEF Near
  <2>2. base <= u.habs + Gap
    BY <1>1, <1>3, <2>1, Params
  <2>3. u.habs <= base + B
    <3>1. CASE d = 0
      BY <1>1, <1>3, <2>1, <3>1
    <3>2. CASE d # 0
      <4>1. w.habs + (d - 1) < base + B
        BY <1>1, <2>1, <3>2
      <4> QED BY <1>1, <1>3, <4>1, Params
    <3> QED BY <3>1, <3>2
  <2>4. \A m \in Held(u) : m < base + B
    BY <1>3, <2>1
  <2> QED BY <2>2, <2>3, <2>4 DEF Near
<1>7. u.habs \in Nat
  BY <1>1, <1>3
<1> QED BY <1>1, <1>3, <1>4, <1>5, <1>6, <1>7 DEF d

LEMMA StoreStep ==
    ASSUME WindowInv, NEW n \in Number, Store(n)
    PROVE  WindowInv' /\ Justified
<1> DEFINE w == Shift(Started, Overflow(n))
           gone == Passed(r, Overflow(n))
           i == (n % M) % B
           s == [w EXCEPT !.buf[i] = n, !.old = w.old \ {i}]
           u == Shift(s, Ready(s))
           more == Passed(s, Ready(s))
           frames == gone \o more
<1>1. /\ InWindow(n) /\ w.buf[i] = None
      /\ RxResult(u, frames) /\ released' = released \o frames
      /\ Rearm(u) /\ lost' = lost
  BY DEF Store
<1>2. w = Shift(Started, Overflow(n)) /\ gone = Passed(r, Overflow(n))
  OBVIOUS
<1>3. u = Shift(s, Ready(s)) /\ more = Passed(s, Ready(s)) /\ frames = gone \o more
  OBVIOUS
<1>4. s = [w EXCEPT !.buf[i] = n, !.old = w.old \ {i}]
  OBVIOUS
<1> HIDE DEF w, gone, s, u, more, frames
<1>5. /\ alive /\ w \in Window /\ Exact(w) /\ n \in Nat /\ r.habs \in Nat
      /\ Overflow(n) \in Nat /\ w.habs = r.habs + Overflow(n)
      /\ n \in w.habs .. w.habs + B - 1 /\ n < base + B /\ r.habs <= n
      /\ Overflow(n) = 0 \/ n = w.habs + (B - 1)
      /\ Held(w) = {m \in Held(r) : m >= w.habs}
      /\ Near(w) /\ w.old \subseteq r.old
      /\ \A m \in Held(r) : m \in Nat /\ r.habs <= m /\ m < r.habs + B
      /\ gone \in Seq(Number) /\ Ascending(gone)
      /\ Ran(gone) = {m \in Held(r) : m < w.habs}
  BY <1>1, <1>2, RoomFor
<1>6. i = n % B
  BY <1>5, SlotOf
<1> HIDE DEF i
<1>7. /\ s \in Window /\ Exact(s) /\ s.habs = w.habs
      /\ Held(s) = Held(w) \cup {n}
      /\ s.old \subseteq w.old \ {i}
      /\ \A k \in Slot \ {i} : s.buf[k] = w.buf[k]
  <2>1. w.buf[n % B] = None /\ s = Stored(w, n)
    BY <1>1, <1>4, <1>6 DEF Stored
  <2>2. w \in Window /\ Exact(w) /\ n \in w.habs .. w.habs + B - 1
    BY <1>5
  <2>3. /\ s \in Window /\ Exact(s) /\ s.habs = w.habs
        /\ Held(s) = Held(w) \cup {n}
        /\ s.old \subseteq w.old \ {n % B}
        /\ \A k \in Slot \ {n % B} : s.buf[k] = w.buf[k]
    BY <2>1, <2>2, StoreExact
  <2> QED BY <1>6, <2>3
<1>8. w.habs \in Nat /\ base \in Nat
  BY <1>5, WindowFields, Types
<1>9. Near(s)
  <2>1. base <= s.habs + Gap /\ s.habs <= base + B /\ \A m \in Held(w) : m < base + B
    BY <1>5, <1>7 DEF Near
  <2> QED BY <1>5, <1>7, <2>1 DEF Near
<1>10. /\ u \in Window /\ Exact(u) /\ Near(u)
       /\ u.habs = s.habs + Ready(s) /\ Ready(s) \in Nat
       /\ s.habs \in Nat /\ u.habs \in Nat
       /\ Held(u) = {m \in Held(s) : m >= u.habs}
       /\ more \in Seq(Number) /\ Ascending(more)
       /\ Ran(more) = {m \in Held(s) : m < u.habs}
       /\ \A m \in Held(s) : m \in Nat /\ s.habs <= m /\ m < s.habs + B
  BY <1>3, <1>7, <1>8, <1>9, Released
<1>11. \A m \in Ran(gone) : \A p \in Ran(more) : m < p
  BY <1>5, <1>7, <1>8, <1>10
<1>12. /\ frames \in Seq(Number) /\ Ascending(frames)
       /\ Ran(frames) = Ran(gone) \cup Ran(more)
  BY <1>3, <1>5, <1>10, <1>11, ConcatAscending
<1>13. \A m \in Ran(frames) : r.habs <= m /\ m < u.habs
  <2>1. ASSUME NEW m \in Ran(gone) PROVE r.habs <= m /\ m < u.habs
    <3>1. m \in Nat /\ r.habs <= m /\ m < w.habs
      BY <1>5
    <3> QED BY <1>7, <1>8, <1>10, <3>1
  <2>2. ASSUME NEW m \in Ran(more) PROVE r.habs <= m /\ m < u.habs
    <3>1. m \in Nat /\ s.habs <= m /\ m < u.habs
      BY <1>10
    <3>2. r.habs <= w.habs
      BY <1>5
    <3> QED BY <1>5, <1>7, <1>8, <3>1, <3>2
  <2> QED BY <1>12, <2>1, <2>2
<1>14. /\ r' = u /\ list' = [list EXCEPT !["rx"] = frames]
       /\ UNCHANGED <<alive, callback, ctl, bar, sessions, base>>
  BY <1>1 DEF RxResult, env
<1>15. list' \in [Ctx -> Seq(Number)]
  <2>1. "rx" \in Ctx
    BY DEF Ctx
  <2> QED BY <1>12, <1>14, <2>1, ListType
<1>16. timer' \in Off .. Timeout /\ half' \subseteq Number
  <2>1. timer \in Off .. Timeout /\ Timeout \in Off .. Timeout
    BY Types DEF Off, Timeout
  <2>2. timer' \in Off .. Timeout
    BY <1>1, <2>1 DEF Rearm
  <2>3. half' \subseteq Number
    BY <1>1, HalfLeft DEF RxResult
  <2> QED BY <2>2, <2>3
<1>17. /\ callback' \in {"idle", "lock", "handover"} /\ bar' \in {bar, None} /\ lost' = {}
  BY <1>1, <1>14, Types DEF WindowInv
<1>18. r.habs <= u.habs
  BY <1>5, <1>7, <1>8, <1>10
<1>19. WindowInv' /\ Ran(released') = Ran(released) \cup Ran(frames)
  BY <1>1, <1>5, <1>10, <1>12, <1>13, <1>14, <1>15, <1>16, <1>17, <1>18, WindowMoves
<1>20. \A m \in Held(s) : m \in Held(r') \cup Ran(released')
  <2> TAKE m \in Held(s)
  <2>1. m \in Nat
    BY <1>10
  <2>2. CASE m < u.habs
    BY <1>10, <1>12, <1>19, <2>2
  <2>3. CASE m >= u.habs
    BY <1>10, <1>14, <2>3
  <2> QED BY <1>10, <2>1, <2>2, <2>3
<1>21. ASSUME NEW k \in r.habs .. r'.habs - 1 PROVE Reason(k)
  <2>1. k \in Nat /\ r.habs <= k /\ k < u.habs
    BY <1>5, <1>10, <1>14
  <2>2. CASE k < w.habs
    <3>1. Overflow(n) # 0
      BY <1>5, <2>1, <2>2
    <3>2. n = w.habs + (B - 1) /\ n >= r.habs + B /\ k + B <= n
      BY <1>5, <1>8, <2>1, <2>2, <3>1, Params
    <3>3. n \in Held(r') \cup Ran(released')
      BY <1>7, <1>20
    <3>4. r \in Window
      BY Types
    <3> QED BY <1>5, <2>1, <3>2, <3>3, <3>4, PushedOut
  <2>3. CASE k >= w.habs
    <3>1. k \in s.habs .. s.habs + Ready(s) - 1
      BY <1>7, <1>10, <2>1, <2>3
    <3>2. k \in Held(s) \/ \E j \in s.old : s.buf[j] \in Number /\ s.buf[j] > k
      BY <1>7, <3>1, ReleaseJustified
    <3>3. CASE k \in Held(s)
      BY <1>10, <1>12, <1>19, <2>1, <3>3 DEF Reason
    <3>4. CASE \E j \in s.old : s.buf[j] \in Number /\ s.buf[j] > k
      <4>1. PICK j \in s.old : s.buf[j] \in Number /\ s.buf[j] > k
        BY <3>4
      <4>2. j \in r.old /\ j \in Slot \ {i} /\ s.buf[j] = w.buf[j]
        <5>1. w.old \subseteq Slot
          BY <1>5, WindowFields
        <5> QED BY <1>5, <1>7, <5>1
      <4>3. w.buf[j] \in Held(w) /\ w.buf[j] % B = j
        BY <1>5, <4>1, <4>2, Numbers DEF Held, Exact
      <4>4. r.buf[j] = w.buf[j]
        <5>1. r \in Window /\ Exact(r) /\ w.buf[j] \in Held(r)
          BY <1>5, <4>3, Types DEF WindowInv
        <5> QED BY <4>3, <5>1, HeldAt
      <4>5. r.buf[j] > k
        BY <4>1, <4>2, <4>4
      <4> QED BY <4>2, <4>5 DEF Reason
    <3> QED BY <3>2, <3>3, <3>4
  <2> QED BY <1>8, <2>1, <2>2, <2>3
<1> QED BY <1>19, <1>21 DEF Justified

LEMMA TimerReleaseStep ==
    ASSUME WindowInv, TimerRelease
    PROVE  WindowInv' /\ Justified
<1>1. CASE ~alive
  <2>1. /\ released' = released \o <<>> /\ list' = [list EXCEPT !["timer"] = <<>>]
        /\ UNCHANGED <<r, timer, alive, ctl, sessions, base, bar, lost>>
        /\ callback' = "handover" /\ half' = half \cap Held(r')
    BY <1>1 DEF TimerRelease, env
  <2>2. released' = released
    <3>1. released \in Seq(Number)
      BY Types
    <3> QED BY <2>1, <3>1
  <2>3. list' \in [Ctx -> Seq(Number)]
    <3>1. <<>> \in Seq(Number) /\ "timer" \in Ctx
      BY DEF Ctx
    <3> QED BY <2>1, <3>1, ListType
  <2>4. TypeOK'
    <3>1. half' \subseteq Number
      BY <2>1, HalfLeft
    <3> QED BY <2>1, <2>2, <2>3, <3>1 DEF WindowInv, TypeOK
  <2> QED BY <2>1, <2>2, <2>4, WindowStays
<1>2. CASE alive
  <2> DEFINE u == Shift(r, Ready(r))
             frames == Passed(r, Ready(r))
  <2>1. /\ r' = u /\ Rearm(u) /\ released' = released \o frames
        /\ list' = [list EXCEPT !["timer"] = frames]
        /\ UNCHANGED <<alive, ctl, sessions, base, bar, lost>>
        /\ callback' = "handover" /\ half' = half \cap Held(r')
    BY <1>2 DEF TimerRelease, env
  <2>2. u = Shift(r, Ready(r)) /\ frames = Passed(r, Ready(r))
    OBVIOUS
  <2> HIDE DEF u, frames
  <2>3. r \in Window /\ Exact(r) /\ Near(r) /\ base \in Nat
    BY <1>2, Types DEF WindowInv
  <2>4. /\ u \in Window /\ Exact(u) /\ Near(u)
        /\ u.habs = r.habs + Ready(r) /\ Ready(r) \in Nat
        /\ r.habs \in Nat /\ u.habs \in Nat
        /\ frames \in Seq(Number) /\ Ascending(frames)
        /\ Ran(frames) = {m \in Held(r) : m < u.habs}
        /\ \A m \in Held(r) : m \in Nat /\ r.habs <= m /\ m < r.habs + B
    BY <2>2, <2>3, Released
  <2>5. \A m \in Ran(frames) : r.habs <= m /\ m < u.habs
    BY <2>4
  <2>6. list' \in [Ctx -> Seq(Number)]
    <3>1. "timer" \in Ctx
      BY DEF Ctx
    <3> QED BY <2>1, <2>4, <3>1, ListType
  <2>7. timer' \in Off .. Timeout /\ half' \subseteq Number
    <3>1. timer \in Off .. Timeout /\ Timeout \in Off .. Timeout
      BY Types DEF Off, Timeout
    <3>2. timer' \in Off .. Timeout
      BY <2>1, <3>1 DEF Rearm
    <3>3. half' \subseteq Number
      BY <2>1, HalfLeft
    <3> QED BY <3>2, <3>3
  <2>8. /\ callback' \in {"idle", "lock", "handover"} /\ bar' \in {bar, None}
        /\ lost' = {} /\ r.habs <= u.habs
    BY <2>1, <2>4 DEF WindowInv
  <2>9. WindowInv' /\ Ran(released') = Ran(released) \cup Ran(frames)
    BY <1>2, <2>1, <2>4, <2>5, <2>6, <2>7, <2>8, WindowMoves
  <2>10. ASSUME NEW k \in r.habs .. r'.habs - 1 PROVE Reason(k)
    <3>1. k \in r.habs .. r.habs + Ready(r) - 1 /\ k < u.habs
      BY <2>1, <2>4
    <3>2. k \in Held(r) \/ \E j \in r.old : r.buf[j] \in Number /\ r.buf[j] > k
      BY <2>3, <3>1, ReleaseJustified
    <3>3. CASE k \in Held(r)
      BY <2>4, <2>9, <3>1, <3>3 DEF Reason
    <3>4. CASE \E j \in r.old : r.buf[j] \in Number /\ r.buf[j] > k
      BY <3>4 DEF Reason
    <3> QED BY <3>2, <3>3, <3>4
  <2> QED BY <2>9, <2>10 DEF Justified
<1>3. alive \in BOOLEAN
  BY Types
<1> QED BY <1>1, <1>2, <1>3

LEMMA HandleBarStep ==
    ASSUME WindowInv, HandleBar
    PROVE  WindowInv' /\ Justified
<1>1. /\ bar # None /\ bar' = None /\ bar \in Nat
      /\ UNCHANGED <<alive, timer, callback, ctl, sessions, base, lost>>
      /\ half' \subseteq Number
  <2>1. half' \subseteq Number
    BY HalfLeft DEF HandleBar
  <2> QED BY <2>1, Types DEF HandleBar, env
<1>2. CASE ~(alive /\ ~seq_less(bar % M, r.head))
  <2>1. UNCHANGED <<r, list, released>>
    BY <1>2 DEF HandleBar
  <2>2. TypeOK'
    BY <1>1, <2>1 DEF WindowInv, TypeOK
  <2>3. Held(r)' = Held(r) /\ Ran(released)' = Ran(released)
    BY <2>1 DEF Held, Ran
  <2>4. alive' => Exact(r)' /\ Near(r)' /\ (\A n \in Ran(released) : n < r.habs)'
    BY <1>1, <2>1, <2>3 DEF WindowInv, Exact, Near
  <2>5. BarNear' /\ (lost = {})' /\ Ascending(released)'
    BY <1>1, <2>1 DEF WindowInv, BarNear, Ascending
  <2> QED BY <2>1, <2>2, <2>4, <2>5, HeadStays DEF WindowInv
<1>3. CASE alive /\ ~seq_less(bar % M, r.head)
  <2>1. /\ r \in Window /\ Exact(r) /\ Near(r) /\ base \in Nat
        /\ r.habs \in Nat /\ r.head = r.habs % M
    BY <1>3, Types, WindowFields DEF WindowInv, Exact
  <2>2. /\ base <= r.habs + Gap /\ r.habs <= base + B
        /\ bar <= base /\ base <= bar + Gap
    BY <1>1, <2>1 DEF WindowInv, BarNear, Near
  <2>3. 2 * (bar - r.habs) < M /\ 2 * (r.habs - bar) < M /\ bar \in Int /\ r.habs \in Int
    BY <1>1, <2>1, <2>2, Params
  <2>4. ~(bar < r.habs)
    <3>1. seq_less(bar % M, r.habs % M) <=> bar < r.habs
      BY <2>3, SeqLess
    <3> QED BY <1>3, <2>1, <3>1
  <2>5. seq_less(r.head, bar % M) <=> r.habs < bar
    <3>1. seq_less(r.habs % M, bar % M) <=> r.habs < bar
      BY <2>3, SeqLess
    <3> QED BY <2>1, <3>1
  <2>6. DistanceTo(r, bar % M) = bar - r.habs
    <3>1. r.habs <= bar /\ bar - r.habs < M
      BY <1>1, <2>1, <2>3, <2>4, Params
    <3>2. ((bar % M) - (r.habs % M)) % M = bar - r.habs
      BY <2>3, <3>1, Distance
    <3> QED BY <2>1, <3>2 DEF DistanceTo
  <2> DEFINE d == bar - r.habs
  <2>7. d \in Nat /\ r.habs + d = bar
    BY <1>1, <2>1, <2>4
  <2>8. CASE r.habs < bar
    <3> DEFINE u == Shift(r, d)
               frames == Passed(r, d)
    <3>1. /\ r' = u /\ list' = [list EXCEPT !["bar"] = frames]
          /\ released' = released \o frames
      BY <1>3, <2>5, <2>6, <2>8 DEF HandleBar
    <3>2. /\ u \in Window /\ Exact(u) /\ u.habs = bar
          /\ Held(u) = {m \in Held(r) : m >= bar}
      <4> HIDE DEF d
      <4>1. /\ u \in Window /\ Exact(u) /\ u.habs = r.habs + d
            /\ Held(u) = {m \in Held(r) : m >= r.habs + d}
        BY <2>1, <2>7, ShiftExact
      <4> QED BY <2>7, <4>1
    <3>3. /\ frames \in Seq(Number) /\ Ascending(frames)
          /\ Ran(frames) = {m \in Held(r) : m < bar}
      <4> HIDE DEF d
      <4>1. /\ frames \in Seq(Number) /\ Ascending(frames)
            /\ Ran(frames) = {m \in Held(r) : m < r.habs + d}
        BY <2>1, <2>7, PassedIs
      <4> QED BY <2>7, <4>1
    <3> HIDE DEF u, frames, d
    <3>4. Near(u)
      <4>1. \A n \in Held(r) : n < base + B
        BY <2>1 DEF Near
      <4>2. base <= u.habs + Gap /\ u.habs <= base + B
        BY <1>1, <2>1, <2>2, <3>2, Params
      <4> QED BY <3>2, <4>1, <4>2 DEF Near
    <3>5. \A m \in Ran(frames) : r.habs <= m /\ m < u.habs
      <4>1. \A m \in Held(r) : m \in r.habs .. r.habs + B - 1
        BY <2>1, HeldAt
      <4> QED BY <2>1, <3>2, <3>3, <4>1, Params
    <3>6. list' \in [Ctx -> Seq(Number)]
      <4>1. "bar" \in Ctx
        BY DEF Ctx
      <4> QED BY <3>1, <3>3, <4>1, ListType
    <3>7. /\ callback' \in {"idle", "lock", "handover"} /\ bar' \in {bar, None}
          /\ lost' = {} /\ r.habs <= u.habs /\ timer' \in Off .. Timeout
      BY <1>1, <2>1, <2>8, <3>2, Types DEF WindowInv
    <3>8. WindowInv'
      BY <1>1, <1>3, <3>1, <3>2, <3>3, <3>4, <3>5, <3>6, <3>7, WindowMoves
    <3>9. ASSUME NEW k \in r.habs .. r'.habs - 1 PROVE Reason(k)
      <4>1. k < bar
        BY <1>1, <2>1, <3>1, <3>2
      <4> QED BY <1>1, <4>1 DEF Reason
    <3> QED BY <3>8, <3>9 DEF Justified
  <2>9. CASE ~(r.habs < bar)
    <3>1. /\ r' = [r EXCEPT !.head = bar % M, !.habs = r.habs + d]
          /\ list' = [list EXCEPT !["bar"] = <<>>]
          /\ released' = released \o <<>>
      BY <1>3, <2>5, <2>6, <2>9 DEF HandleBar
    <3>2. r.habs = bar /\ bar % M = r.head
      BY <1>1, <2>1, <2>4, <2>9
    <3>3. r' = r
      <4>1. r.habs + d = r.habs
        BY <2>7, <3>2
      <4>2. [r EXCEPT !.head = r.head, !.habs = r.habs] = r
        BY <2>1 DEF Window
      <4> QED BY <3>1, <3>2, <4>1, <4>2
    <3>4. released' = released
      <4>1. released \in Seq(Number)
        BY Types
      <4> QED BY <3>1, <4>1
    <3>5. list' \in [Ctx -> Seq(Number)]
      <4>1. <<>> \in Seq(Number) /\ "bar" \in Ctx
        BY DEF Ctx
      <4> QED BY <3>1, <4>1, ListType
    <3>6. TypeOK'
      BY <1>1, <3>3, <3>4, <3>5 DEF WindowInv, TypeOK
    <3>7. Held(r)' = Held(r) /\ Ran(released)' = Ran(released)
      BY <3>3, <3>4 DEF Held, Ran
    <3>8. alive' => Exact(r)' /\ Near(r)' /\ (\A n \in Ran(released) : n < r.habs)'
      BY <1>1, <3>3, <3>7 DEF WindowInv, Exact, Near
    <3>9. BarNear' /\ (lost = {})' /\ Ascending(released)'
      BY <1>1, <3>4 DEF WindowInv, BarNear, Ascending
    <3> QED BY <3>3, <3>6, <3>8, <3>9, HeadStays DEF WindowInv
  <2> QED BY <2>8, <2>9
<1> QED BY <1>2, <1>3

\* The steps of the timer, of the lists and of the free that leave the window.
LEMMA QuietStep ==
    ASSUME WindowInv,
           Tick \/ OtherTid \/ Expire \/ TimerDone \/ FreeMark \/ FreeCancel
             \/ (\E c \in Ctx : HandOver(c)) \/ UNCHANGED vars
    PROVE  WindowInv' /\ Justified
<1>0. r \in Window /\ r.old \subseteq Slot
  BY Types, WindowFields
<1>1. CASE Tick
  <2> DEFINE o == r.old \cup {i \in Slot : r.buf[i] \in half}
  <2>1. r' = [r EXCEPT !.old = o] /\ o \in SUBSET Slot
    BY <1>0, <1>1 DEF Tick
  <2> HIDE DEF o
  <2>2. r' \in Window /\ r'.head = r.head /\ r'.habs = r.habs /\ r'.buf = r.buf
    BY <1>0, <2>1 DEF Window
  <2>3. UNCHANGED <<alive, callback, list, ctl, sessions, base, bar, released, lost>>
    BY <1>1 DEF Tick, env
  <2>4. half' \subseteq Number
    <3>1. half' = Held(r)
      BY <1>1 DEF Tick
    <3>2. \A i \in Slot : r.buf[i] \in Number \cup {None}
      BY <1>0, WindowFields
    <3> QED BY <3>1, <3>2 DEF Held
  <2>5. timer' \in Off .. Timeout
    BY <1>1, Types DEF Tick, Off, Timeout
  <2>6. TypeOK'
    BY <2>2, <2>3, <2>4, <2>5 DEF WindowInv, TypeOK, Window
  <2> QED BY <2>2, <2>3, <2>6, WindowStays
<1>2. CASE Expire \/ OtherTid
  <2>1. /\ UNCHANGED <<r, alive, half, list, ctl, sessions, base, bar, released, lost>>
        /\ timer' \in {Off, Timeout} /\ callback' \in {callback, "lock"}
    BY <1>2 DEF Expire, OtherTid, env
  <2>2. timer' \in Off .. Timeout
    BY <2>1 DEF Off, Timeout
  <2>3. TypeOK'
    BY <2>1, <2>2, Types DEF WindowInv, TypeOK
  <2> QED BY <2>1, <2>3, WindowStays
<1>3. CASE FreeMark
  <2>1. r' = [r EXCEPT !.removed = TRUE]
    BY <1>3 DEF FreeMark
  <2>2. r' \in Window /\ r'.head = r.head /\ r'.habs = r.habs /\ r'.buf = r.buf
    BY <1>0, <2>1 DEF Window
  <2>3. /\ UNCHANGED <<alive, timer, half, callback, list, sessions, base, bar, released, lost>>
        /\ ctl' = "cancel"
    BY <1>3 DEF FreeMark, env
  <2>4. TypeOK'
    BY <2>2, <2>3 DEF WindowInv, TypeOK, Window
  <2> QED BY <2>2, <2>3, <2>4, WindowStays
<1>4. CASE \E c \in Ctx : HandOver(c)
  <2>1. PICK c \in Ctx : HandOver(c)
    BY <1>4
  <2>2. list[c] \in Seq(Number) /\ list[c] # <<>>
    BY <2>1, Types DEF HandOver
  <2>3. Tail(list[c]) \in Seq(Number)
    BY <2>2
  <2>4. /\ UNCHANGED <<r, alive, timer, half, callback, ctl, sessions, base, bar, released, lost>>
        /\ list' = [list EXCEPT ![c] = Tail(list[c])]
    BY <2>1 DEF HandOver, env
  <2>5. list' \in [Ctx -> Seq(Number)]
    BY <2>3, <2>4, ListType
  <2>6. TypeOK'
    BY <2>4, <2>5 DEF WindowInv, TypeOK
  <2> QED BY <2>4, <2>6, WindowStays
<1>5. CASE TimerDone \/ FreeCancel \/ UNCHANGED vars
  <2>1. /\ UNCHANGED <<r, alive, half, list, sessions, base, bar, released, lost>>
        /\ timer' \in {timer, Off} /\ callback' \in {callback, "idle"}
        /\ ctl' \in {ctl, "free"}
    BY <1>5 DEF TimerDone, FreeCancel, vars, env
  <2>2. timer' \in Off .. Timeout
    BY <2>1, Types DEF Off, Timeout
  <2>3. TypeOK'
    BY <2>1, <2>2, Types DEF WindowInv, TypeOK
  <2> QED BY <2>1, <2>3, WindowStays
<1> QED BY <1>1, <1>2, <1>3, <1>4, <1>5

LEMMA StartStep ==
    ASSUME WindowInv, Start
    PROVE  WindowInv' /\ Justified
<1>1. PICK ssn \in base .. base + B - 1 :
        r' = [head |-> ssn % M, habs |-> ssn, buf |-> [i \in Slot |-> None],
              old |-> {}, started |-> FALSE, removed |-> FALSE]
  BY DEF Start
<1>2. /\ sessions < MaxSession /\ sessions' = sessions + 1
      /\ alive' = TRUE /\ released' = <<>> /\ half' = {}
      /\ UNCHANGED <<timer, callback, list, ctl, base, bar, lost>>
  BY DEF Start
<1>3. ssn \in Nat /\ base \in Nat /\ base <= ssn /\ ssn <= base + B /\ base <= ssn + Gap
  BY Types, Params
<1>4. ssn % M \in 0 .. M - 1
  BY <1>3, Params, ModSplit
<1>5. r' \in Window /\ r'.habs = ssn /\ r'.head = ssn % M /\ r'.buf = [i \in Slot |-> None]
  BY <1>1, <1>3, <1>4 DEF Window
<1>6. Held(r)' = {}
  BY <1>5 DEF Held
<1>7. Exact(r)' /\ Near(r)'
  BY <1>2, <1>3, <1>5, <1>6 DEF Exact, Near
<1>8. sessions' \in 0 .. MaxSession /\ sessions' # sessions
  BY <1>2, Types, Params
<1>9. TypeOK'
  <2>1. <<>> \in Seq(Number)
    OBVIOUS
  <2> QED BY <1>2, <1>5, <1>8, <2>1 DEF WindowInv, TypeOK, Window
<1>10. Ascending(released)' /\ Ran(released)' = {}
  BY <1>2, EmptyAscending
<1>11. BarNear' /\ (lost = {})'
  BY <1>2 DEF WindowInv, BarNear
<1>12. Justified
  BY <1>8 DEF Justified
<1> QED BY <1>7, <1>9, <1>10, <1>11, <1>12 DEF WindowInv

LEMMA EndStep ==
    ASSUME WindowInv, Stop \/ FreeEntry
    PROVE  WindowInv' /\ Justified
<1>1. /\ alive' = FALSE /\ r' = Freed /\ ctl' \in {ctl, "idle"} /\ half' = {}
      /\ UNCHANGED <<timer, callback, list, sessions, base, bar, released, lost>>
  BY DEF Stop, FreeEntry, env
<1>2. r' \in Window
  <2>1. r \in Window
    BY Types
  <2> DEFINE c == [i \in Slot |-> None]
  <2>2. c \in [Slot -> Number \cup {None}]
    OBVIOUS
  <2>3. r' = [r EXCEPT !.buf = c, !.old = {}]
    BY <1>1 DEF Freed
  <2> HIDE DEF c
  <2> QED BY <2>1, <2>2, <2>3 DEF Window
<1>3. TypeOK'
  BY <1>1, <1>2, Types DEF WindowInv, TypeOK, Window
<1>4. BarNear' /\ (lost = {})' /\ Ascending(released)'
  BY <1>1 DEF WindowInv, BarNear, Ascending
<1>5. Justified
  BY <1>1 DEF Justified
<1> QED BY <1>1, <1>3, <1>4, <1>5 DEF WindowInv

LEMMA SenderStep ==
    ASSUME WindowInv, SenderMoves \/ SendBar
    PROVE  WindowInv' /\ Justified
<1>0. /\ base \in Nat /\ base \in Number /\ r \in Window /\ r.habs \in Nat
      /\ bar # None => bar \in Nat /\ bar <= base /\ base <= bar + Gap
  BY Types, WindowFields DEF WindowInv, BarNear
<1>1. UNCHANGED <<r, alive, timer, half, callback, list, ctl, sessions, released, lost>>
  BY DEF SenderMoves, SendBar, env
<1>2. Justified
  BY <1>1, HeadStays
<1>3. Held(r)' = Held(r) /\ Ran(released)' = Ran(released)
  BY <1>1 DEF Held, Ran
<1>4. (lost = {})' /\ Ascending(released)'
  BY <1>1 DEF WindowInv, Ascending
<1>5. CASE SenderMoves
  <2>1. PICK b \in base + 1 .. Last :
          /\ alive => b <= r.habs + Gap
          /\ bar # None => b <= bar + Gap
          /\ base' = b
    BY <1>5 DEF SenderMoves
  <2>2. b \in Nat /\ base < b /\ b \in Number /\ bar' = bar
    BY <1>0, <1>5, <2>1, Params DEF SenderMoves, Number
  <2>3. BarNear'
    BY <1>0, <2>1, <2>2 DEF BarNear
  <2>4. alive' => Exact(r)' /\ Near(r)' /\ (\A n \in Ran(released) : n < r.habs)'
    <3> SUFFICES ASSUME alive' PROVE Exact(r)' /\ Near(r)' /\ (\A n \in Ran(released) : n < r.habs)'
      OBVIOUS
    <3>1. /\ Exact(r) /\ r.habs <= base + B /\ (\A n \in Ran(released) : n < r.habs)
          /\ \A n \in Held(r) : n < base + B
      BY <1>1 DEF WindowInv, Near
    <3>2. \A n \in Held(r) : n \in Nat
      BY <1>0, <3>1, HeldAt, Numbers
    <3>3. Near(r)'
      BY <1>0, <1>1, <1>3, <2>1, <2>2, <3>1, <3>2, Params DEF Near
    <3> QED BY <1>1, <1>3, <3>1, <3>3 DEF Exact
  <2>5. TypeOK'
    BY <1>1, <2>1, <2>2 DEF WindowInv, TypeOK
  <2> QED BY <1>2, <1>4, <2>3, <2>4, <2>5 DEF WindowInv
<1>6. CASE SendBar
  <2>1. bar' = base /\ base' = base
    BY <1>6 DEF SendBar, env
  <2>2. BarNear'
    BY <1>0, <2>1, Params DEF BarNear
  <2>3. alive' => Exact(r)' /\ Near(r)' /\ (\A n \in Ran(released) : n < r.habs)'
    BY <1>1, <1>3, <2>1 DEF WindowInv, Exact, Near
  <2>4. TypeOK'
    BY <1>0, <1>1, <2>1 DEF WindowInv, TypeOK
  <2> QED BY <1>2, <1>4, <2>2, <2>3, <2>4 DEF WindowInv
<1> QED BY <1>5, <1>6

LEMMA WindowStep ==
    ASSUME WindowInv, [Next]_vars
    PROVE  WindowInv' /\ Justified
<1>1. ASSUME NEW n \in Number, Receive(n) PROVE WindowInv' /\ Justified
  BY <1>1, PassDirectStep, DropOldStep, DropStoredStep, PassInOrderStep, StoreStep
     DEF Receive
<1>2. CASE Tick \/ OtherTid \/ Expire \/ TimerDone \/ FreeMark \/ FreeCancel
             \/ (\E c \in Ctx : HandOver(c)) \/ UNCHANGED vars
  BY <1>2, QuietStep
<1>3. CASE TimerRelease
  BY <1>3, TimerReleaseStep
<1>4. CASE HandleBar
  BY <1>4, HandleBarStep
<1>5. CASE Start
  BY <1>5, StartStep
<1>6. CASE Stop \/ FreeEntry
  BY <1>6, EndStep
<1>7. CASE SenderMoves \/ SendBar
  BY <1>7, SenderStep
<1> QED BY <1>1, <1>2, <1>3, <1>4, <1>5, <1>6, <1>7 DEF Next

---------------------------------------------------------------------------
(* The theorems.                                                           *)

LEMMA WindowInvariant == Spec => []WindowInv
<1>1. Init => WindowInv
  BY WindowInit
<1>2. WindowInv /\ [Next]_vars => WindowInv'
  BY WindowStep
<1> QED BY <1>1, <1>2, PTL DEF Spec

\* Every variable of the window keeps its type (struct rtw_phl_rx_reorder).
THEOREM WindowTypeCorrect == Spec => []TypeOK
<1>1. WindowInv => TypeOK
  BY DEF WindowInv
<1> QED BY <1>1, WindowInvariant, PTL

\* Whatever arrives, for any size that divides the number space: the entry that
\* reorder_index finds for a number is empty or that of the number, although the
\* numbers wrap.
THEOREM WindowExactCorrect == Spec => []WindowExact
<1>1. WindowInv => WindowExact
  BY DEF WindowInv, WindowExact, Exact
<1> QED BY <1>1, WindowInvariant, PTL

\* Frames, the timer and block acknowledgement requests let the frames of a
\* session go in the order of their numbers, each once.
THEOREM InOrderCorrect == Spec => []InOrder
<1>1. WindowInv => InOrder
  BY DEF WindowInv, InOrder, Ascending
<1> QED BY <1>1, WindowInvariant, PTL

\* phl_manage_sta_reorder_buf drops no frame that the window did not pass or
\* store before.
THEOREM DropJustifiedCorrect == Spec => []DropJustified
<1>1. WindowInv => DropJustified
  BY DEF WindowInv, DropJustified
<1> QED BY <1>1, WindowInvariant, PTL

\* The head never passes a number without its frame except behind a frame that
\* timed out, at the request of the sender, or for a frame that did not fit.
THEOREM HeadJustifiedCorrect == Spec => HeadJustified
<1> DEFINE Step == alive /\ alive' /\ sessions' = sessions =>
         \A n \in r.habs .. r'.habs - 1 :
            \/ n \in Ran(released')
            \/ \E i \in r.old : r.buf[i] > n
            \/ bar # None /\ bar' = None /\ n < bar
            \/ \E m \in (Held(r') \cup Ran(released')) \ (Held(r) \cup Ran(released)) :
                 m >= n + B
<1>1. WindowInv /\ [Next]_vars => [Step]_vars
  BY WindowStep DEF Justified, Reason
<1> QED BY <1>1, WindowInvariant, PTL DEF Spec, HeadJustified

=============================================================================
