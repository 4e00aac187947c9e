---------------------------- MODULE CmdMsgProofs ----------------------------
(***************************************************************************)
(* Theorems of CmdMsg, for any pool, any modules and any number of clients *)
(* with any work: no message is lost or doubled, no wake-up is lost, no    *)
(* pending message is stranded, the abort message bars the next command,   *)
(* controller messages go first, a message is complete before its command  *)
(* sees it, and a pending message can silence its sender.                  *)
(***************************************************************************)
EXTENDS CmdMsg, NumberLemmas, SequenceTheorems, FiniteSetTheorems,
        TLAPS

-----------------------------------------------------------------------------
(* The invariants                                                          *)

\* The share thread has a message exactly from the pop to the recycle or the
\* pending queue, a client from the fill to the push.
Carrying == {"chk", "ctrl", "chk2", "pre", "chk3", "post", "chk4", "req",
             "pend", "recycle"}
ThreadCarries == tpc \in Carrying <=> tmsg # Null
ClientCarries == \A c \in Client : At(c, "push") <=> cl[c].s # Null

\* A client in the middle of a cancel has a handle, one in the middle of a send
\* has picked a message of its work, and cur_req_hdl sees the command's state.
ClientKnows ==
    \A c \in Client :
        /\ cl[c].pc \in {"premap", "postmap", "flag"} => cl[c].hdl # Null
        /\ cl[c].pc \in {"pop", "push"} => cl[c].kind \in Work[c]
TypeInv == TypeOK /\ ThreadCarries /\ ClientCarries /\ ClientKnows

\* Who holds a slot, without the positions that MsgConservation counts.
Injective(q) == \A i, j \in DOMAIN q : q[i] = q[j] => i = j
Idle(s) == s \in Elems(idle_q)
Waits(s) == s \in Elems(wait_q)
Parked(s) == s \in Elems(pend_q)
Filled(s) == \E c \in Client : cl[c].s = s
Carried(s) == tmsg = s
PlaceInv ==
    /\ Injective(idle_q) /\ Injective(wait_q) /\ Injective(pend_q)
    /\ \A c, d \in Client : cl[c].s = cl[d].s /\ cl[c].s # Null => c = d
    /\ \A s \in Slot :
        /\ Idle(s) \/ Waits(s) \/ Parked(s) \/ Filled(s) \/ Carried(s)
        /\ Idle(s) => ~Waits(s) /\ ~Parked(s) /\ ~Filled(s) /\ ~Carried(s)
        /\ Waits(s) => ~Parked(s) /\ ~Filled(s) /\ ~Carried(s)
        /\ Parked(s) => ~Filled(s) /\ ~Carried(s)
        /\ Filled(s) => ~Carried(s)

\* The state of the command at each step of the share thread, and the message
\* its abort callback sent.
Ending == {"drop", "dropmov", "abort", "dropped"}
CurStep ==
    /\ tpc \notin Ending => cur \in {"none", "run", "freed"}
    /\ tpc = "drop" => cur \in {"run", "freed"}
    /\ tpc = "dropmov" => cur = "stop"
    /\ tpc = "abort" => cur \in {"stop", "last"}
    /\ tpc = "dropped" => cur = "stop"
AbortInv ==
    /\ CurStep
    /\ WAIT_ABORT <=> \E s \in Slot : Has(s, "ABORT")
    /\ \A s, t \in Slot : Has(s, "ABORT") /\ Has(t, "ABORT") => s = t
    /\ \A s \in Slot : Has(s, "ABORT") => ~Idle(s) /\ ~Filled(s)
    /\ WAIT_ABORT => tpc \notin {"drop", "dropmov", "abort"} /\ cur \in {"stop", "none"}

\* The semaphore pays for every queued message that the running round will not
\* take, for the operations that the round has passed and for the flag.
Popping == {"clr", "mov", "ops", "drop", "dropmov", "abort", "dropped", "grant",
            "pop"}
WakeInv ==
    /\ Len(wait_q) <= sema + (IF tpc \in Popping THEN 1 ELSE 0)
    /\ ops # <<>> => sema > 0 \/ tpc \in Popping \ {"pop"}
    /\ CLR_PEND => sema > 0 \/ tpc = "clr"

\* How far a message is that nobody cancelled: the pre phase hands the modules
\* of the bitmap over one by one, and ends before the message can wait again.
PhaseOf(s) ==
    IF Has(s, "PRE")
    THEN /\ premap[s] \cup seen[s] = map[s] /\ postmap[s] = map[s]
         /\ premap[s] = {} => map[s] = {} \/ (Carried(s) /\ tpc \in {"pre", "chk3"})
    ELSE seen[s] = map[s] /\ postmap[s] \subseteq map[s]
Handled == Carrying \ {"chk", "recycle"}
PhaseInv ==
    /\ \A s \in Slot : Idle(s) => seen[s] = {}
    /\ \A s \in Slot : ~Idle(s) /\ ~Has(s, "CANCEL") => PhaseOf(s)
    /\ tpc \in Handled => ~Has(tmsg, "CANCEL")
    /\ tpc \in {"pre", "chk3"} => Has(tmsg, "PRE")
    /\ tpc = "chk3" => premap[tmsg] = {}
    /\ tpc = "post" => ~Has(tmsg, "PRE")
    /\ tpc \in {"chk4", "req"} => postmap[tmsg] = {} /\ seen[tmsg] = map[tmsg]

\* A used slot has a message, and only a used slot is pending.
OwnInv ==
    \A s \in Slot : /\ ~Idle(s) => id[s] \in MsgId
                    /\ Has(s, "PENDING") => ~Idle(s)

\* MSG_OPT_CLR_SNDR_MSG_IF_PENDING remembers an event, not a message: it is
\* exact as long as no other message carries the event of a pending one.
Silences(s) == {"PENDING", "CLR_SNDR"} \subseteq status[s] /\ ~Has(s, "CANCEL")
SingleEvent == \A s, t \in Slot : s # t /\ Silences(s) => id[t] # id[s]

\* The remembered event is that of the message that silences its sender, also
\* while the command is dropped, and the message under way is of another sender.
Heard == Dispatching \cup {"pend"}
Dropping == Ending \ {"drop"}
SilentInv ==
    /\ \A s \in Slot \ {tmsg} : Silences(s) => pending_evt[id[s].src] = id[s].evt
    /\ tpc \in Dropping => \A s \in Slot : Silences(s) => id[s].src # "req"
    /\ tpc \in Heard =>
           \A s \in Slot \ {tmsg} : Silences(s) => id[s].src # id[tmsg].src

-----------------------------------------------------------------------------
(* Natural numbers and queues                                              *)

\* A set of positions that has every position before one of its own is the set
\* of the first positions.
LEMMA DownClosed ==
    ASSUME NEW m \in Nat, NEW P, P \subseteq 1 .. m,
           \A i \in P : \A j \in 1 .. i : j \in P
    PROVE  Cardinality(P) \in 0 .. m /\ P = 1 .. Cardinality(P)
<1>1. CASE P = 1 .. m
  <2>1. Cardinality(1 .. m) = m
    BY FS_Interval
  <2> QED BY <1>1, <2>1
<1>2. CASE P # 1 .. m
  <2>1. PICK k \in (1 .. m) \ P : \A y \in (1 .. m) \ P : k <= y
    <3>1. \A i \in (1 .. m) \ P : i \in Nat
      OBVIOUS
    <3>2. (1 .. m) \ P # {}
      <4>1. P \subseteq 1 .. m
        OBVIOUS
      <4> QED BY <1>2, <4>1
    <3> QED BY <3>1, <3>2, LeastNumber
  <2>2. P = 1 .. k - 1
    <3>1. ASSUME NEW i \in P PROVE i \in 1 .. k - 1
      <4>1. i < k
        BY <2>1
      <4> QED BY <2>1, <4>1
    <3>2. ASSUME NEW i \in 1 .. k - 1 PROVE i \in P
      <4>1. i \in 1 .. m /\ ~ (k <= i)
        BY <2>1
      <4> QED BY <2>1, <4>1
    <3> QED BY <3>1, <3>2
  <2>3. Cardinality(1 .. k - 1) = k - 1
    BY <2>1, FS_Interval
  <2> QED BY <2>1, <2>2, <2>3
<1> QED BY <1>1, <1>2

\* The head leaves a queue; all others stay.
LEMMA QueueTail ==
    ASSUME NEW S, NEW q \in Seq(S), q # <<>>
    PROVE  /\ Tail(q) \in Seq(S) /\ Head(q) \in S
           /\ Len(q) \in Nat /\ Len(Tail(q)) = Len(q) - 1
           /\ Elems(q) = Elems(Tail(q)) \cup {Head(q)}
           /\ Injective(q) => Injective(Tail(q)) /\ Head(q) \notin Elems(Tail(q))
<1>1. /\ Len(q) \in Nat \ {0} /\ DOMAIN q = 1 .. Len(q)
      /\ Tail(q) \in Seq(S) /\ Len(Tail(q)) = Len(q) - 1
      /\ DOMAIN Tail(q) = 1 .. Len(q) - 1
      /\ Head(q) = q[1] /\ Head(q) \in S
      /\ \A i \in 1 .. Len(q) - 1 : Tail(q)[i] = q[i + 1]
  BY HeadTailProperties, EmptySeq, LenProperties
<1>2. /\ \A i \in DOMAIN Tail(q) : i \in Int /\ i + 1 \in DOMAIN q /\ Tail(q)[i] = q[i + 1]
      /\ 1 \in DOMAIN q /\ \A i \in DOMAIN Tail(q) : i + 1 # 1
      /\ \A i \in DOMAIN q \ {1} : i - 1 \in DOMAIN Tail(q) /\ (i - 1) + 1 = i
  BY <1>1
<1>3. Elems(q) = Elems(Tail(q)) \cup {Head(q)}
  BY <1>1, <1>2 DEF Elems
<1>4. ASSUME Injective(q)
      PROVE  Injective(Tail(q)) /\ Head(q) \notin Elems(Tail(q))
  <2>1. ASSUME NEW i \in DOMAIN Tail(q), NEW j \in DOMAIN Tail(q), Tail(q)[i] = Tail(q)[j]
        PROVE  i = j
    <3>1. i + 1 = j + 1
      BY <1>2, <1>4, <2>1 DEF Injective
    <3> QED BY <1>2, <3>1
  <2>2. \A i \in DOMAIN Tail(q) : Tail(q)[i] # q[1]
    BY <1>2, <1>4 DEF Injective
  <2> QED BY <1>1, <2>1, <2>2 DEF Injective, Elems
<1> QED BY <1>1, <1>3, <1>4

\* A new element at the tail of a queue.
LEMMA QueueAppend ==
    ASSUME NEW S, NEW q \in Seq(S), NEW e \in S
    PROVE  /\ Append(q, e) \in Seq(S) /\ Append(q, e) # <<>>
           /\ Len(q) \in Nat /\ Len(Append(q, e)) = Len(q) + 1
           /\ Elems(Append(q, e)) = Elems(q) \cup {e}
           /\ Injective(q) /\ e \notin Elems(q) => Injective(Append(q, e))
<1> DEFINE p == Append(q, e)
<1>1. /\ p \in Seq(S) /\ Len(q) \in Nat /\ Len(p) = Len(q) + 1
      /\ DOMAIN q = 1 .. Len(q) /\ DOMAIN p = 1 .. Len(q) + 1
      /\ \A i \in 1 .. Len(q) : p[i] = q[i]
      /\ p[Len(q) + 1] = e
  BY AppendProperties, LenProperties
<1>2. /\ \A i \in DOMAIN q : i \in DOMAIN p /\ p[i] = q[i] /\ i # Len(q) + 1
      /\ Len(q) + 1 \in DOMAIN p
      /\ \A i \in DOMAIN p : i \in DOMAIN q \/ i = Len(q) + 1
  BY <1>1
<1>3. p # <<>>
  BY <1>1, EmptySeq
<1> HIDE DEF p
<1>4. Elems(p) = Elems(q) \cup {e}
  BY <1>1, <1>2 DEF Elems
<1>5. ASSUME Injective(q), e \notin Elems(q) PROVE Injective(p)
  <2>1. \A i \in DOMAIN q : q[i] # e
    BY <1>5 DEF Elems
  <2> QED BY <1>1, <1>2, <1>5, <2>1 DEF Injective
<1> QED BY <1>1, <1>3, <1>4, <1>5 DEF p

\* A new element somewhere in a queue.
Insert(q, n, e) == SubSeq(q, 1, n) \o <<e>> \o SubSeq(q, n + 1, Len(q))
LEMMA QueueInsert ==
    ASSUME NEW q \in Seq(Slot), NEW e \in Slot, NEW n \in 0 .. Len(q)
    PROVE  /\ Insert(q, n, e) \in Seq(Slot) /\ Len(q) \in Nat
           /\ Len(Insert(q, n, e)) = Len(q) + 1
           /\ \A i \in 1 .. n : Insert(q, n, e)[i] = q[i]
           /\ Insert(q, n, e)[n + 1] = e
           /\ \A i \in n + 2 .. Len(q) + 1 : Insert(q, n, e)[i] = q[i - 1]
<1> DEFINE a == SubSeq(q, 1, n)
           b == SubSeq(q, n + 1, Len(q))
<1>0. Len(q) \in Nat
  BY LenProperties
<1>1. a \in Seq(Slot) /\ Len(a) = n /\ \A i \in 1 .. n : a[i] = q[i]
  BY <1>0
<1>2. b \in Seq(Slot) /\ Len(b) = Len(q) - n /\ \A i \in 1 .. Len(q) - n : b[i] = q[n + i]
  BY <1>0
<1> HIDE DEF a, b
<1>3. a \o <<e>> \in Seq(Slot) /\ Len(a \o <<e>>) = n + 1
      /\ (a \o <<e>>)[n + 1] = e /\ \A i \in 1 .. n : (a \o <<e>>)[i] = q[i]
  BY <1>1
<1> DEFINE c == a \o <<e>>
<1> HIDE DEF c
<1>4. /\ c \o b \in Seq(Slot) /\ Len(c \o b) = Len(c) + Len(b)
      /\ \A i \in 1 .. Len(c) + Len(b) :
            (c \o b)[i] = IF i <= Len(c) THEN c[i] ELSE b[i - Len(c)]
  <2>1. c \in Seq(Slot)
    BY <1>3 DEF c
  <2> QED BY <1>2, <2>1, ConcatProperties
<1>5. Len(c) = n + 1 /\ c[n + 1] = e /\ \A i \in 1 .. n : c[i] = q[i]
  BY <1>3 DEF c
<1>6. /\ c \o b \in Seq(Slot) /\ Len(c \o b) = Len(q) + 1
      /\ \A i \in 1 .. n : (c \o b)[i] = q[i]
      /\ (c \o b)[n + 1] = e
  BY <1>0, <1>2, <1>4, <1>5
<1>7. ASSUME NEW i \in n + 2 .. Len(q) + 1
      PROVE  (c \o b)[i] = q[i - 1]
  <2>1. (c \o b)[i] = b[i - (n + 1)] /\ i - (n + 1) \in 1 .. Len(q) - n
    BY <1>0, <1>2, <1>4, <1>5
  <2>2. n + (i - (n + 1)) = i - 1
    OBVIOUS
  <2> QED BY <1>2, <2>1, <2>2
<1>8. Insert(q, n, e) = c \o b
  BY DEF Insert, a, b, c
<1> QED BY <1>0, <1>6, <1>7, <1>8

-----------------------------------------------------------------------------
(* The operators of the model                                              *)

LEMMA Slots == MaxMsg \in Nat /\ IsFiniteSet(Slot) /\ Slot \subseteq Nat /\ Null \notin Slot
<1>1. MaxMsg \in Nat
  BY BoundAssumption
<1> QED BY <1>1, FS_Interval DEF Slot, Null

\* The next module of a phase is one of those left and comes before the others.
LEMMA FirstIsFirst ==
    ASSUME NEW ms, ms \subseteq Mdl, ms # {}, NEW own, NEW pre \in BOOLEAN
    PROVE  /\ First(ms, own, pre) \in ms
           /\ \A n \in ms \ {First(ms, own, pre)} : Before(First(ms, own, pre), n, own, pre)
<1>1. Module \in Seq(STRING) /\ DOMAIN Module = 1 .. Len(Module) /\ Len(Module) \in Nat
  BY ModuleAssumption, LenProperties
<1>2. \A m \in Mdl : Pri[m] \in 0 .. 2
  BY ModuleAssumption
<1>3. \A m \in Mdl : Place0(m) \in 1 .. Len(Module) /\ Module[Place0(m)] = m
  BY <1>1 DEF Place0, Mdl
<1>4. \A m, n \in Mdl : Place0(m) = Place0(n) => m = n
  BY <1>3
<1> DEFINE rank(m) == IF pre THEN 2 - Pri[m] ELSE Pri[m]
           turn(m) == IF pre THEN Place0(m) ELSE Len(Module) - Place0(m)
           front == {m \in ms : \A n \in ms : rank(m) <= rank(n)}
<1>5. \A m \in Mdl : rank(m) \in Nat /\ turn(m) \in Nat
  BY <1>1, <1>2, <1>3
<1>6. front # {} /\ front \subseteq ms
  <2>1. {rank(m) : m \in ms} \subseteq Nat /\ {rank(m) : m \in ms} # {}
    BY <1>5
  <2>2. PICK r \in {rank(m) : m \in ms} : \A y \in {rank(m) : m \in ms} : r <= y
    BY <2>1, LeastNumber
  <2>3. PICK m \in ms : r = rank(m)
    BY <2>2
  <2>4. \A n \in ms : rank(m) <= rank(n)
    BY <2>2, <2>3
  <2> QED BY <2>3, <2>4
<1>7. PICK m \in front : m = own \/ (own \notin front /\ \A n \in front : turn(m) <= turn(n))
  <2>1. CASE own \in front
    BY <2>1
  <2>2. CASE own \notin front
    <3>1. {turn(m) : m \in front} \subseteq Nat /\ {turn(m) : m \in front} # {}
      BY <1>5, <1>6
    <3>2. PICK r \in {turn(m) : m \in front} : \A y \in {turn(m) : m \in front} : r <= y
      BY <3>1, LeastNumber
    <3>3. PICK m \in front : r = turn(m)
      BY <3>2
    <3>4. \A n \in front : turn(m) <= turn(n)
      BY <3>2, <3>3
    <3> QED BY <2>2, <3>3, <3>4
  <2> QED BY <2>1, <2>2
<1>8. ASSUME NEW n \in ms \ {m} PROVE Before(m, n, own, pre)
  <2>0. m \in Mdl /\ n \in Mdl /\ m # n
    BY <1>6
  <2>1. rank(m) <= rank(n)
    BY <1>6
  <2>2. CASE Pri[m] # Pri[n]
    BY <1>2, <2>0, <2>1, <2>2 DEF Before
  <2>3. CASE Pri[m] = Pri[n]
    <3>1. n \in front
      BY <1>6, <2>3
    <3>2. CASE m = own
      BY <2>0, <2>3, <3>2 DEF Before
    <3>3. CASE m # own
      <4>1. own \notin front /\ turn(m) <= turn(n) /\ n # own
        BY <1>7, <3>1, <3>3
      <4>2. Place0(m) # Place0(n) /\ Place0(m) \in Int /\ Place0(n) \in Int
        BY <1>3, <1>4, <2>0
      <4>3. IF pre THEN Place0(m) < Place0(n) ELSE Place0(m) > Place0(n)
        BY <1>1, <4>1, <4>2
      <4> QED BY <2>3, <3>3, <4>1, <4>3 DEF Before
    <3> QED BY <3>2, <3>3
  <2> QED BY <2>2, <2>3
<1>9. m \in ms
  BY <1>6
<1> HIDE DEF front, rank, turn
<1> QED BY <1>8, <1>9 DEF First

LEMMA FirstPre ==
    ASSUME NEW ms, ms \subseteq Mdl, ms # {}, NEW own
    PROVE  First(ms, own, TRUE) \in ms
BY FirstIsFirst

\* pq_insert: one element more, and controller messages stay in front.
CtrlSorted(q) == \A i, j \in DOMAIN q : i < j /\ IsCtrl(q[j]) => IsCtrl(q[i])

LEMMA TailSorted ==
    ASSUME NEW q \in Seq(Slot), q # <<>>, CtrlSorted(q)
    PROVE  Tail(q) \in Seq(Slot) /\ CtrlSorted(Tail(q))
<1>1. /\ Len(q) \in Nat \ {0} /\ DOMAIN q = 1 .. Len(q)
      /\ Tail(q) \in Seq(Slot) /\ DOMAIN Tail(q) = 1 .. Len(q) - 1
      /\ \A i \in 1 .. Len(q) - 1 : Tail(q)[i] = q[i + 1]
  BY HeadTailProperties, EmptySeq, LenProperties
<1>2. \A i \in DOMAIN Tail(q) : i \in Int /\ i + 1 \in DOMAIN q /\ Tail(q)[i] = q[i + 1]
  BY <1>1
<1>3. ASSUME NEW i \in DOMAIN Tail(q), NEW j \in DOMAIN Tail(q), i < j, IsCtrl(Tail(q)[j])
      PROVE  IsCtrl(Tail(q)[i])
  <2>1. i + 1 < j + 1
    BY <1>2, <1>3
  <2>2. IsCtrl(q[j + 1]) => IsCtrl(q[i + 1])
    BY <1>2, <2>1 DEF CtrlSorted
  <2> QED BY <1>2, <1>3, <2>2
<1> QED BY <1>1, <1>3 DEF CtrlSorted

LEMMA PlaceFacts ==
    ASSUME NEW q \in Seq(Slot), NEW s \in Slot
    PROVE  /\ Place(q, s) \in Seq(Slot) /\ Place(q, s) # <<>>
           /\ Len(q) \in Nat /\ Len(Place(q, s)) = Len(q) + 1
           /\ Elems(Place(q, s)) = Elems(q) \cup {s}
           /\ Injective(q) /\ s \notin Elems(q) => Injective(Place(q, s))
           /\ CtrlSorted(q) => CtrlSorted(Place(q, s))
<1>0. Len(q) \in Nat /\ DOMAIN q = 1 .. Len(q)
  BY LenProperties
<1>1. CASE IsCtrl(s)
  <2> DEFINE front == {i \in DOMAIN q : \A j \in 1 .. i : IsCtrl(q[j])}
  <2>1. PICK n \in 0 .. Len(q) : n = Cardinality(front) /\ front = 1 .. n
    <3>1. front \subseteq 1 .. Len(q) /\ \A i \in front : \A j \in 1 .. i : j \in front
      BY <1>0
    <3> HIDE DEF front
    <3> QED BY <1>0, <3>1, DownClosed
  <2>2. \A i \in 1 .. n : IsCtrl(q[i])
    BY <2>1
  <2> DEFINE p == Insert(q, n, s)
  <2>3. Place(q, s) = p
    BY <1>1, <2>1 DEF Place, Insert
  <2>4. /\ p \in Seq(Slot) /\ Len(p) = Len(q) + 1
        /\ \A i \in 1 .. n : p[i] = q[i]
        /\ p[n + 1] = s
        /\ \A i \in n + 2 .. Len(q) + 1 : p[i] = q[i - 1]
    BY QueueInsert
  <2> HIDE DEF p
  <2>5. DOMAIN p = 1 .. Len(q) + 1
    BY <2>4, LenProperties
  <2> DEFINE back(i) == IF i <= n THEN i ELSE i - 1
             fore(i) == IF i <= n THEN i ELSE i + 1
  <2>6. /\ \A i \in DOMAIN p \ {n + 1} : back(i) \in DOMAIN q /\ p[i] = q[back(i)]
        /\ \A i, j \in DOMAIN p \ {n + 1} : i < j => back(i) < back(j)
        /\ \A i, j \in DOMAIN p \ {n + 1} : back(i) = back(j) => i = j
        /\ \A i \in DOMAIN q : fore(i) \in DOMAIN p /\ p[fore(i)] = q[i]
        /\ n + 1 \in DOMAIN p /\ n \in Nat /\ DOMAIN p \subseteq Int
    <3>1. ASSUME NEW i \in DOMAIN p \ {n + 1}
          PROVE  back(i) \in DOMAIN q /\ p[i] = q[back(i)]
      <4>1. CASE i <= n
        BY <1>0, <2>1, <2>4, <2>5, <4>1
      <4>2. CASE ~ (i <= n)
        <5>1. i \in n + 2 .. Len(q) + 1
          BY <1>0, <2>1, <2>5, <4>2
        <5> QED BY <1>0, <2>1, <2>4, <5>1
      <4> QED BY <4>1, <4>2
    <3>2. ASSUME NEW i \in DOMAIN q
          PROVE  fore(i) \in DOMAIN p /\ p[fore(i)] = q[i]
      <4>1. CASE i <= n
        BY <1>0, <2>1, <2>4, <2>5, <4>1
      <4>2. CASE ~ (i <= n)
        <5>1. i + 1 \in n + 2 .. Len(q) + 1 /\ (i + 1) - 1 = i
          BY <1>0, <2>1, <4>2
        <5>2. p[i + 1] = q[(i + 1) - 1]
          BY <2>4, <5>1
        <5> QED BY <1>0, <2>5, <4>2, <5>1, <5>2
      <4> QED BY <4>1, <4>2
    <3>3. n + 1 \in DOMAIN p /\ n \in Nat /\ DOMAIN p \subseteq Int
      BY <1>0, <2>1, <2>5
    <3>4. \A i, j \in DOMAIN p \ {n + 1} :
             (i < j => back(i) < back(j)) /\ (back(i) = back(j) => i = j)
      BY <3>3
    <3> QED BY <3>1, <3>2, <3>3, <3>4
  <2>7. p # <<>>
    BY <2>6
  <2>8. Elems(p) = Elems(q) \cup {s}
    <3>1. ASSUME NEW i \in DOMAIN p PROVE p[i] \in Elems(q) \cup {s}
      <4>1. CASE i = n + 1
        BY <2>4, <4>1
      <4>2. CASE i # n + 1
        <5>1. back(i) \in DOMAIN q /\ p[i] = q[back(i)]
          BY <2>6, <4>2
        <5> HIDE DEF back
        <5> QED BY <5>1 DEF Elems
      <4> QED BY <4>1, <4>2
    <3>2. \A i \in DOMAIN q : q[i] \in Elems(p)
      BY <2>6 DEF Elems
    <3>3. s \in Elems(p)
      BY <2>4, <2>6 DEF Elems
    <3> QED BY <3>1, <3>2, <3>3 DEF Elems
  <2>9. ASSUME Injective(q), s \notin Elems(q) PROVE Injective(p)
    <3>1. \A i \in DOMAIN q : q[i] # s
      BY <2>9 DEF Elems
    <3>2. ASSUME NEW i \in DOMAIN p, NEW j \in DOMAIN p, p[i] = p[j] PROVE i = j
      <4>1. CASE i # n + 1 /\ j # n + 1
        <5>1. q[back(i)] = q[back(j)] /\ back(i) \in DOMAIN q /\ back(j) \in DOMAIN q
          BY <2>6, <3>2, <4>1
        <5>2. back(i) = back(j)
          BY <2>9, <5>1 DEF Injective
        <5> HIDE DEF back
        <5> QED BY <2>6, <4>1, <5>2
      <4>2. CASE i = n + 1 \/ j = n + 1
        BY <2>4, <2>6, <3>1, <3>2, <4>2
      <4> QED BY <4>1, <4>2
    <3> QED BY <3>2 DEF Injective
  <2>10. ASSUME CtrlSorted(q) PROVE CtrlSorted(p)
    <3>1. ASSUME NEW i \in DOMAIN p, NEW j \in DOMAIN p, i < j, IsCtrl(p[j])
          PROVE  IsCtrl(p[i])
      <4>1. CASE i = n + 1
        BY <1>1, <2>4, <4>1
      <4>2. CASE i < n + 1
        BY <2>2, <2>4, <2>5, <2>6, <4>2
      <4>3. CASE n + 1 < i
        <5>1. i # n + 1 /\ j # n + 1
          BY <2>6, <3>1, <4>3
        <5>2. /\ back(i) \in DOMAIN q /\ back(j) \in DOMAIN q /\ back(i) < back(j)
              /\ p[i] = q[back(i)] /\ p[j] = q[back(j)]
          BY <2>6, <3>1, <5>1
        <5> HIDE DEF back
        <5> QED BY <2>10, <3>1, <5>2 DEF CtrlSorted
      <4> QED BY <2>6, <4>1, <4>2, <4>3
    <3> QED BY <3>1 DEF CtrlSorted
  <2> QED BY <1>0, <2>3, <2>4, <2>7, <2>8, <2>9, <2>10
<1>2. CASE ~IsCtrl(s)
  <2>1. Place(q, s) = Append(q, s)
    BY <1>2 DEF Place
  <2>2. ASSUME CtrlSorted(q) PROVE CtrlSorted(Append(q, s))
    <3>1. /\ DOMAIN Append(q, s) = 1 .. Len(q) + 1
          /\ \A i \in 1 .. Len(q) : Append(q, s)[i] = q[i]
          /\ Append(q, s)[Len(q) + 1] = s
      BY <1>0, AppendProperties, LenProperties
    <3>2. ASSUME NEW i \in 1 .. Len(q) + 1, NEW j \in 1 .. Len(q) + 1, i < j,
                 IsCtrl(Append(q, s)[j])
          PROVE  IsCtrl(Append(q, s)[i])
      <4>1. j # Len(q) + 1
        BY <1>2, <3>1, <3>2
      <4>2. i \in 1 .. Len(q) /\ j \in 1 .. Len(q)
        BY <1>0, <3>2, <4>1
      <4> QED BY <1>0, <2>2, <3>1, <3>2, <4>2 DEF CtrlSorted
    <3> QED BY <3>1, <3>2 DEF CtrlSorted
  <2> QED BY <2>1, <2>2, QueueAppend
<1> QED BY <1>1, <1>2

\* push_back_token_op_info notifies the thread, or the operation is there.
LEMMA EnqueueFacts ==
    ASSUME NEW op \in OpType, Enqueue(op), ops \in Seq(OpType), sema \in Nat
    PROVE  /\ ops' \in Seq(OpType) /\ sema' \in Nat
           /\ \/ ops' = ops /\ sema' = sema /\ ops # <<>>
              \/ sema' = sema + 1
<1>1. CASE UNCHANGED <<ops, sema>> /\ Elems(ops) # {}
  <2>1. ops # <<>>
    BY <1>1 DEF Elems
  <2> QED BY <1>1, <2>1
<1>2. CASE ops' = Append(ops, op) /\ sema' = sema + 1
  BY <1>2, QueueAppend
<1> QED BY <1>1, <1>2 DEF Enqueue

\* One step of the pre phase: an answer that ends the round, or one module of
\* those left has handled the message.
LEMMA PreStep ==
    ASSUME PrePhase, premap[tmsg] \subseteq Mdl, premap[tmsg] # {}
    PROVE  \/ /\ FeedFails(tmsg) \/ \E m : FeedPends(tmsg, m)
              /\ UNCHANGED <<premap, seen>>
           \/ \E m \in premap[tmsg] :
                /\ premap' = [premap EXCEPT ![tmsg] = @ \ {m}]
                /\ seen' = [seen EXCEPT ![tmsg] = @ \cup {m}]
                /\ UNCHANGED <<tpc, status, cur, ops, sema>>
<1>1. First(premap[tmsg], id[tmsg].src, TRUE) \in premap[tmsg]
  BY FirstPre
<1>2. PICK m : m = First(premap[tmsg], id[tmsg].src, TRUE)
  OBVIOUS
<1>3. \/ (FeedFails(tmsg) \/ FeedPends(tmsg, m)) /\ UNCHANGED <<premap, seen>>
      \/ /\ premap' = [premap EXCEPT ![tmsg] = @ \ {m}]
         /\ seen' = [seen EXCEPT ![tmsg] = @ \cup {m}]
         /\ UNCHANGED <<tpc, status, cur, ops, sema>>
  BY <1>2 DEF PrePhase
<1> QED BY <1>1, <1>2, <1>3

-----------------------------------------------------------------------------
(* Types                                                                   *)

LEMMA Kinds ==
    /\ AbortKind \in Kind /\ AbortKind.src = "req"
    /\ \A k \in Kind : /\ k.src \in Src /\ k.evt \in Evt /\ k.map \in SUBSET Mdl
                       /\ k.opt \in SUBSET Option
                       /\ [src |-> k.src, evt |-> k.evt] \in MsgId
    /\ \A c \in Client : \A k \in Work[c] : k \in Kind
    /\ None \notin Evt /\ None \notin Src /\ {"ctrl", "req"} \subseteq Src
<1>1. AbortKind \in Kind /\ \A c \in Client : Work[c] \in SUBSET Kind
  BY WorkAssumption
<1>2. None \notin Src
  BY ModuleAssumption DEF Src, None
<1>3. AbortKind.src = "req" /\ None \notin Evt
  BY WorkAssumption
<1>4. \A k \in Kind : /\ k.src \in Src /\ k.evt \in Evt /\ k.map \in SUBSET Mdl
                      /\ k.opt \in SUBSET Option
                      /\ [src |-> k.src, evt |-> k.evt] \in MsgId
  BY DEF Kind, MsgId
<1>5. {"ctrl", "req"} \subseteq Src
  BY DEF Src
<1> QED BY <1>1, <1>2, <1>3, <1>4, <1>5

PoolOK ==
    /\ status \in [Slot -> SUBSET Flag] /\ id \in [Slot -> MsgId \cup {NoId}]
    /\ premap \in SlotMap /\ postmap \in SlotMap /\ map \in SlotMap /\ seen \in SlotMap
QueueOK == idle_q \in Seq(Slot) /\ wait_q \in Seq(Slot) /\ pend_q \in Seq(Slot)
DispOK ==
    /\ pending_evt \in [Src -> Evt \cup {None}]
    /\ CLR_PEND \in BOOLEAN /\ WAIT_ABORT \in BOOLEAN
    /\ SHALL_STOP \in BOOLEAN /\ CANNOT_IO \in BOOLEAN
    /\ cur \in CurState /\ reqs \in Nat /\ ops \in Seq(OpType) /\ sema \in Nat
ActorOK ==
    /\ tpc \in ThreadPc /\ tmsg \in SlotOrNull /\ notify \in BOOLEAN
    /\ cl \in [Client -> ClientState]
    /\ busy \in BOOLEAN /\ callers \subseteq Caller
    /\ left \in [{"req", "period"} -> Nat]

LEMMA TypeParts == TypeOK <=> PoolOK /\ QueueOK /\ DispOK /\ ActorOK
BY DEF TypeOK, PoolOK, QueueOK, DispOK, ActorOK

\* What the helpers of the actions do to the types.
LEMMA FillType ==
    ASSUME PoolOK, NEW s \in Slot, NEW k \in Kind, NEW flags \in SUBSET Flag,
           Fill(s, k, flags), seen' = seen
    PROVE  PoolOK'
<1>1. flags \cup k.opt \in SUBSET Flag
  BY Kinds DEF Flag
<1>2. [src |-> k.src, evt |-> k.evt] \in MsgId /\ k.map \in SUBSET Mdl
  BY Kinds
<1> QED BY <1>1, <1>2 DEF PoolOK, Fill, SlotMap

LEMMA LinkType ==
    ASSUME PoolOK, wait_q \in Seq(Slot), sema \in Nat, NEW s \in Slot, Link(s)
    PROVE  /\ wait_q' \in Seq(Slot) /\ sema' \in Nat
           /\ status' \in [Slot -> SUBSET Flag]
<1>1. wait_q' \in Seq(Slot)
  BY PlaceFacts DEF Link
<1>2. \A f \in SUBSET Flag : (f \cup {"ENQ"}) \ {"RUN"} \in SUBSET Flag
  BY DEF Flag
<1> QED BY <1>1, <1>2 DEF Link, PoolOK

LEMMA RecycleType ==
    ASSUME PoolOK, QueueOK, DispOK, NEW s \in Slot, Recycle(s)
    PROVE  /\ PoolOK' /\ idle_q' \in Seq(Slot)
           /\ pending_evt' \in [Src -> Evt \cup {None}] /\ WAIT_ABORT' \in BOOLEAN
           /\ ops' \in Seq(OpType) /\ sema' \in Nat
<1>1. PoolOK'
  BY DEF Recycle, PoolOK, SlotMap
<1>2. idle_q' \in Seq(Slot)
  BY QueueAppend DEF Recycle, QueueOK
<1>3. pending_evt' \in [Src -> Evt \cup {None}]
  BY DEF Recycle, DispOK
<1>4. WAIT_ABORT' \in BOOLEAN /\ ops' \in Seq(OpType) /\ sema' \in Nat
  <2>1. "renew" \in OpType
    BY DEF OpType
  <2>2. CASE Has(s, "ABORT")
    BY <2>1, <2>2, EnqueueFacts DEF Recycle, DispOK
  <2>3. CASE ~Has(s, "ABORT")
    BY <2>3 DEF Recycle, DispOK
  <2> QED BY <2>2, <2>3
<1> QED BY <1>1, <1>2, <1>3, <1>4

LEMMA CurReqType ==
    ASSUME DispOK, NEW s, CurReqHdl(s)
    PROVE  cur' \in CurState /\ ops' \in Seq(OpType) /\ sema' \in Nat
<1>1. "free" \in OpType
  BY DEF OpType
<1>2. CASE Enqueue("free") /\ cur' = "freed"
  BY <1>1, <1>2, EnqueueFacts DEF DispOK, CurState
<1>3. CASE UNCHANGED <<cur, ops, sema>>
  BY <1>3 DEF DispOK
<1> QED BY <1>2, <1>3 DEF CurReqHdl

LEMMA FeedType ==
    ASSUME DispOK, PoolOK, NEW s \in Slot, NEW m, FeedFails(s) \/ FeedPends(s, m)
    PROVE  /\ cur' \in CurState /\ ops' \in Seq(OpType) /\ sema' \in Nat
           /\ status' \in [Slot -> SUBSET Flag]
           /\ tpc' \in {"recycle", "pend"}
<1>1. \A f \in SUBSET Flag : f \cup {"FAIL"} \in SUBSET Flag /\ f \cup {"PENDING"} \in SUBSET Flag
  BY DEF Flag
<1>2. CASE FeedFails(s)
  BY <1>1, <1>2, CurReqType DEF FeedFails, Goto, PoolOK, DispOK
<1>3. CASE FeedPends(s, m)
  BY <1>1, <1>3 DEF FeedPends, Goto, PoolOK, DispOK
<1> QED BY <1>2, <1>3

LEMMA TypeInit == Init => TypeInv
<1> SUFFICES ASSUME Init PROVE TypeInv
  OBVIOUS
<1>1. PoolOK /\ DispOK
  <2>1. PoolOK
    BY DEF Init, PoolOK, SlotMap
  <2>2. ops \in Seq(OpType)
    BY EmptySeq DEF Init
  <2> QED BY <2>1, <2>2 DEF Init, DispOK, CurState
<1>2. QueueOK
  <2>1. \A i \in 1 .. MaxMsg : i - 1 \in Slot
    BY Slots DEF Slot
  <2>2. idle_q \in [1 .. MaxMsg -> Slot]
    BY <2>1 DEF Init
  <2>3. idle_q \in Seq(Slot)
    BY <2>2, Slots, SeqDef
  <2> QED BY <2>3, EmptySeq DEF Init, QueueOK
<1>3. ActorOK
  <2>1. AbortKind \in Kind /\ MaxSend \in Nat /\ MaxReq \in Nat /\ MaxPeriod \in Nat
    BY Kinds, BoundAssumption
  <2>2. cl \in [Client -> ClientState]
    BY <2>1 DEF Init, ClientState, ClientPc, SlotOrNull
  <2>3. left \in [{"req", "period"} -> Nat]
    BY <2>1 DEF Init
  <2> QED BY <2>2, <2>3 DEF Init, ActorOK, ThreadPc, SlotOrNull
<1>4. ThreadCarries /\ ClientCarries /\ ClientKnows
  BY DEF Init, ThreadCarries, ClientCarries, ClientKnows, Carrying, At
<1> QED BY <1>1, <1>2, <1>3, <1>4, TypeParts DEF TypeInv

\* A step of the share thread leaves the clients as they are, and the other way
\* round; most steps leave the message of the thread.
Clients == ActorOK /\ ClientCarries /\ ClientKnows
LEMMA SameClients ==
    ASSUME TypeInv, UNCHANGED <<cl, busy, callers, left>>, tpc' \in ThreadPc,
           tmsg' \in SlotOrNull, notify' \in BOOLEAN
    PROVE  Clients'
BY TypeParts DEF TypeInv, Clients, ActorOK, ClientCarries, ClientKnows, At

\* The share thread.
LEMMA TypeThread ==
    ASSUME TypeInv, ThreadStep
    PROVE  TypeInv'
<1>0. PoolOK /\ QueueOK /\ DispOK /\ ActorOK /\ ThreadCarries
  BY TypeParts DEF TypeInv
<1> SUFFICES PoolOK' /\ QueueOK' /\ DispOK' /\ ThreadCarries' /\ Clients'
  BY DEF TypeInv, Clients, TypeOK, PoolOK, QueueOK, DispOK, ActorOK
<1>1. \A l \in ThreadPc : tpc = l => (tmsg \in Slot <=> l \in Carrying)
  BY <1>0, Slots DEF ThreadCarries, ActorOK, SlotOrNull
<1> USE DEF Goto, poolVars, queueVars, dispVars, reqVars, envVars
<1>2. UNCHANGED <<cl, busy, callers, left>>
  BY DEF ThreadStep, ThreadWake, ClearTest, ClearMove, TokenOp, Grant, Drop, AbortStart,
         AbortSend, Dropped, PopWait, CheckCancelled, Controller, Redirect2, PrePhase,
         Redirect3, PostPhase, Redirect4, Request, PushPending, RecycleMsg
\* It is enough to look at what the step changes and where it goes.
<1>3. ASSUME PoolOK', QueueOK', DispOK', notify' \in BOOLEAN, tpc' \in ThreadPc,
             tmsg' \in SlotOrNull, tpc' \in Carrying <=> tmsg' # Null
      PROVE  PoolOK' /\ QueueOK' /\ DispOK' /\ ThreadCarries' /\ Clients'
  BY <1>2, <1>3, SameClients DEF ThreadCarries
<1>4. CASE ThreadWake \/ ClearTest \/ Grant \/ TokenOp
  <2>1. PoolOK' /\ QueueOK'
    BY <1>0, <1>4 DEF ThreadWake, ClearTest, Grant, TokenOp, PoolOK, QueueOK
  <2>2. ops' \in Seq(OpType)
    <3>1. ops \in Seq(OpType) /\ (ops # <<>> => Tail(ops) \in Seq(OpType))
      BY <1>0, QueueTail DEF DispOK
    <3> QED BY <1>4, <3>1 DEF ThreadWake, ClearTest, Grant, TokenOp
  <2>3. DispOK'
    <3>1. CASE ThreadWake
      BY <1>0, <2>2, <3>1 DEF ThreadWake, DispOK
    <3>2. CASE ClearTest
      BY <1>0, <2>2, <3>2 DEF ClearTest, DispOK
    <3>3. CASE Grant
      BY <1>0, <2>2, <3>3 DEF Grant, DispOK, CurState
    <3>4. CASE TokenOp
      BY <1>0, <2>2, <3>4 DEF TokenOp, DispOK
    <3> QED BY <1>4, <3>1, <3>2, <3>3, <3>4
  <2>4. tmsg' = tmsg /\ tmsg = Null /\ notify' \in BOOLEAN /\ tpc' \in ThreadPc \ Carrying
    BY <1>0, <1>4 DEF ThreadWake, ClearTest, Grant, TokenOp, ThreadPc, Carrying, ThreadCarries,
                      ActorOK
  <2> QED BY <1>3, <2>1, <2>3, <2>4 DEF SlotOrNull
<1>5. CASE ClearMove
  <2>1. CASE pend_q # <<>>
    <3>1. Head(pend_q) \in Slot /\ pend_q' \in Seq(Slot) /\ Link(Head(pend_q))
      <4>1. pend_q \in Seq(Slot)
        BY <1>0 DEF QueueOK
      <4>2. Head(pend_q) \in Slot /\ Tail(pend_q) \in Seq(Slot)
        BY <2>1, <4>1, QueueTail
      <4> QED BY <1>5, <2>1, <4>2 DEF ClearMove
    <3>2. wait_q' \in Seq(Slot) /\ sema' \in Nat /\ status' \in [Slot -> SUBSET Flag]
      BY <1>0, <3>1, LinkType DEF QueueOK, DispOK
    <3>3. PoolOK' /\ QueueOK' /\ DispOK'
      BY <1>0, <1>5, <3>1, <3>2 DEF ClearMove, PoolOK, QueueOK, DispOK
    <3>4. tpc' = tpc /\ tmsg' = tmsg /\ notify' = notify
      BY <1>5, <2>1 DEF ClearMove
    <3> QED BY <1>0, <1>3, <3>3, <3>4 DEF ActorOK, ThreadCarries
  <2>2. CASE pend_q = <<>>
    <3>1. PoolOK' /\ QueueOK' /\ DispOK'
      BY <1>0, <1>5, <2>2 DEF ClearMove, PoolOK, QueueOK, DispOK
    <3>2. /\ tmsg' = tmsg /\ tmsg = Null /\ notify' \in BOOLEAN
          /\ tpc' \in ThreadPc \ Carrying
      BY <1>0, <1>5, <2>2 DEF ClearMove, ThreadPc, Carrying, ThreadCarries, ActorOK
    <3> QED BY <1>3, <3>1, <3>2 DEF SlotOrNull
  <2> QED BY <2>1, <2>2
<1>6. CASE Drop
  <2> DEFINE pended == {s \in OfCommand : Has(s, "PENDING")}
  <2>1. Cardinality(pended) \in Nat
    <3>1. pended \subseteq Slot
      BY DEF OfCommand
    <3> QED BY <3>1, Slots, FS_Subset, FS_CardinalityType
  <2>2. sema' = sema + Cardinality(pended)
    BY <1>6 DEF Drop
  <2> HIDE DEF pended
  <2>3. status' \in [Slot -> SUBSET Flag]
    <3>1. \A f \in SUBSET Flag : (f \ {"REQ"}) \cup {"CANCEL"} \in SUBSET Flag
      BY DEF Flag
    <3> QED BY <1>0, <1>6, <3>1 DEF Drop, PoolOK
  <2>4. PoolOK' /\ QueueOK'
    BY <1>0, <1>6, <2>3 DEF Drop, PoolOK, QueueOK, SlotMap
  <2>5. DispOK'
    <3>1. /\ cur' = "stop" /\ CLR_PEND' \in BOOLEAN
          /\ UNCHANGED <<pending_evt, WAIT_ABORT, SHALL_STOP, CANNOT_IO, reqs, ops>>
      BY <1>0, <1>6 DEF Drop, DispOK
    <3> QED BY <1>0, <2>1, <2>2, <3>1 DEF DispOK, CurState
  <2>6. tmsg' = tmsg /\ tmsg = Null /\ notify' \in BOOLEAN /\ tpc' \in ThreadPc \ Carrying
    BY <1>0, <1>6 DEF Drop, ThreadPc, Carrying, ThreadCarries, ActorOK
  <2> QED BY <1>3, <2>4, <2>5, <2>6 DEF SlotOrNull
<1>7. CASE AbortStart \/ Dropped
  <2>1. PoolOK' /\ QueueOK'
    BY <1>0, <1>7 DEF AbortStart, Dropped, PoolOK, QueueOK
  <2>2. pending_evt' \in [Src -> Evt \cup {None}]
    BY <1>0, <1>7 DEF AbortStart, Dropped, DispOK
  <2>3. DispOK'
    BY <1>0, <1>7, <2>2 DEF AbortStart, Dropped, DispOK, CurState
  <2>4. tmsg' = tmsg /\ tmsg = Null /\ notify' \in BOOLEAN /\ tpc' \in ThreadPc \ Carrying
    BY <1>0, <1>7 DEF AbortStart, Dropped, ThreadPc, Carrying, ThreadCarries, ActorOK
  <2> QED BY <1>3, <2>1, <2>3, <2>4 DEF SlotOrNull
<1>8. CASE AbortSend
  <2>1. Head(idle_q) \in Slot /\ idle_q' \in Seq(Slot) /\ wait_q' \in Seq(Slot)
    BY <1>0, <1>8, QueueTail, QueueAppend DEF AbortSend, QueueOK
  <2>2. {"REQ", "PRE", "ABORT", "ENQ"} \in SUBSET Flag
    BY DEF Flag
  <2>3. PoolOK'
    BY <1>0, <1>8, <2>1, <2>2, Kinds, FillType DEF AbortSend
  <2>4. QueueOK' /\ DispOK'
    BY <1>0, <1>8, <2>1 DEF AbortSend, QueueOK, DispOK, CurState
  <2>5. tmsg' = tmsg /\ tmsg = Null /\ notify' \in BOOLEAN /\ tpc' \in ThreadPc \ Carrying
    BY <1>0, <1>8 DEF AbortSend, ThreadPc, Carrying, ThreadCarries, ActorOK
  <2> QED BY <1>3, <2>3, <2>4, <2>5 DEF SlotOrNull
<1>9. CASE PopWait
  <2>1. CASE wait_q = <<>>
    <3>1. PoolOK' /\ QueueOK' /\ DispOK'
      BY <1>0, <1>9, <2>1 DEF PopWait, PoolOK, QueueOK, DispOK
    <3>2. tmsg' = tmsg /\ tmsg = Null /\ notify' \in BOOLEAN /\ tpc' \in ThreadPc \ Carrying
      BY <1>0, <1>9, <2>1 DEF PopWait, ThreadPc, Carrying, ThreadCarries, ActorOK
    <3> QED BY <1>3, <3>1, <3>2 DEF SlotOrNull
  <2>2. CASE wait_q # <<>>
    <3>1. Head(wait_q) \in Slot /\ wait_q' \in Seq(Slot)
      <4>1. wait_q \in Seq(Slot)
        BY <1>0 DEF QueueOK
      <4>2. Head(wait_q) \in Slot /\ Tail(wait_q) \in Seq(Slot)
        BY <2>2, <4>1, QueueTail
      <4> QED BY <1>9, <2>2, <4>2 DEF PopWait
    <3>2. \A f \in SUBSET Flag : (f \cup {"RUN"}) \ {"ENQ", "PENDING"} \in SUBSET Flag
      BY DEF Flag
    <3>3. PoolOK' /\ QueueOK' /\ DispOK'
      BY <1>0, <1>9, <2>2, <3>1, <3>2 DEF PopWait, PoolOK, QueueOK, DispOK
    <3>4. tmsg' \in Slot /\ notify' \in BOOLEAN /\ tpc' \in ThreadPc \cap Carrying
      BY <1>0, <1>9, <2>2, <3>1 DEF PopWait, ThreadPc, Carrying, ActorOK
    <3> QED BY <1>3, <3>3, <3>4, Slots DEF SlotOrNull
  <2> QED BY <2>1, <2>2
<1>10. CASE CheckCancelled \/ Redirect2 \/ Redirect3 \/ Redirect4
  <2>1. status' \in [Slot -> SUBSET Flag]
    <3>1. \A f \in SUBSET Flag : /\ f \cup {"CANCEL"} \in SUBSET Flag
                                 /\ f \cup {"PENDING"} \in SUBSET Flag
                                 /\ f \cup {} \in SUBSET Flag /\ f \ {"PRE"} \in SUBSET Flag
      BY DEF Flag
    <3> QED BY <1>0, <1>10, <3>1
            DEF CheckCancelled, Redirect2, Redirect3, Redirect4, PoolOK
  <2>2. PoolOK' /\ QueueOK' /\ DispOK'
    BY <1>0, <1>10, <2>1
    DEF CheckCancelled, Redirect2, Redirect3, Redirect4, PoolOK, QueueOK, DispOK
  <2>3. tmsg' = tmsg /\ tmsg # Null /\ notify' = notify /\ tpc' \in ThreadPc \cap Carrying
    BY <1>0, <1>10 DEF CheckCancelled, Redirect2, Redirect3, Redirect4, ThreadPc, Carrying,
                       ThreadCarries
  <2> QED BY <1>0, <1>3, <2>2, <2>3 DEF ActorOK
<1>11. CASE Controller \/ PrePhase \/ PostPhase
  <2>1. tmsg \in Slot
    BY <1>1, <1>11 DEF Controller, PrePhase, PostPhase, Carrying, ThreadPc
  <2>2. /\ UNCHANGED <<id, map, queueVars, pending_evt, dispVars, reqs, tmsg, notify>>
        /\ \/ FeedFails(tmsg) \/ \E m : FeedPends(tmsg, m)
           \/ UNCHANGED <<status, cur, ops, sema>> /\ tpc' \in ThreadPc \cap Carrying
    BY <1>11 DEF Controller, PrePhase, PostPhase, ThreadPc, Carrying
  <2>3. /\ cur' \in CurState /\ ops' \in Seq(OpType) /\ sema' \in Nat
        /\ status' \in [Slot -> SUBSET Flag] /\ tpc' \in ThreadPc \cap Carrying
    <3>1. CASE FeedFails(tmsg) \/ \E m : FeedPends(tmsg, m)
      BY <1>0, <2>1, <3>1, FeedType DEF ThreadPc, Carrying
    <3>2. CASE UNCHANGED <<status, cur, ops, sema>> /\ tpc' \in ThreadPc \cap Carrying
      BY <1>0, <3>2 DEF PoolOK, DispOK
    <3> QED BY <2>2, <3>1, <3>2
  <2>4. premap' \in SlotMap /\ postmap' \in SlotMap /\ seen' \in SlotMap
    <3>1. CASE Controller
      BY <1>0, <3>1 DEF Controller, PoolOK
    <3>2. CASE PrePhase
      <4>1. CASE premap[tmsg] # {}
        <5>1. premap[tmsg] \subseteq Mdl /\ postmap' = postmap
          BY <1>0, <2>1, <3>2 DEF PoolOK, SlotMap, PrePhase
        <5>2. \/ UNCHANGED <<premap, seen>>
              \/ \E m \in premap[tmsg] :
                   /\ premap' = [premap EXCEPT ![tmsg] = @ \ {m}]
                   /\ seen' = [seen EXCEPT ![tmsg] = @ \cup {m}]
          BY <3>2, <4>1, <5>1, PreStep
        <5> QED BY <1>0, <5>1, <5>2 DEF PoolOK, SlotMap
      <4>2. CASE premap[tmsg] = {}
        BY <1>0, <3>2, <4>2 DEF PrePhase, PoolOK
      <4> QED BY <4>1, <4>2
    <3>3. CASE PostPhase
      BY <1>0, <2>1, <3>3 DEF PostPhase, PoolOK, SlotMap
    <3> QED BY <1>11, <3>1, <3>2, <3>3
  <2>5. PoolOK' /\ QueueOK' /\ DispOK'
    BY <1>0, <2>2, <2>3, <2>4 DEF PoolOK, QueueOK, DispOK
  <2> QED BY <1>0, <1>3, <2>1, <2>2, <2>3, <2>5, Slots DEF ActorOK
<1>12. CASE Request
  <2>1. cur' \in CurState /\ ops' \in Seq(OpType) /\ sema' \in Nat
    BY <1>0, <1>12, CurReqType DEF Request
  <2>2. PoolOK' /\ QueueOK' /\ DispOK'
    BY <1>0, <1>12, <2>1 DEF Request, PoolOK, QueueOK, DispOK
  <2>3. tmsg' = tmsg /\ tmsg # Null /\ notify' = notify /\ tpc' \in ThreadPc \cap Carrying
    BY <1>0, <1>12 DEF Request, ThreadPc, Carrying, ThreadCarries
  <2> QED BY <1>0, <1>3, <2>2, <2>3 DEF ActorOK
<1>13. CASE PushPending
  <2>1. tmsg \in Slot
    BY <1>1, <1>13 DEF PushPending, Carrying, ThreadPc
  <2>2. CASE Has(tmsg, "CANCEL")
    <3>1. PoolOK' /\ QueueOK' /\ DispOK'
      BY <1>0, <1>13, <2>2 DEF PushPending, PoolOK, QueueOK, DispOK
    <3>2. tmsg' = tmsg /\ notify' = notify /\ tpc' \in ThreadPc \cap Carrying
      BY <1>13, <2>2 DEF PushPending, ThreadPc, Carrying
    <3> QED BY <1>0, <1>3, <2>1, <3>1, <3>2, Slots DEF ActorOK
  <2>3. CASE ~Has(tmsg, "CANCEL")
    <3>1. status' \in [Slot -> SUBSET Flag]
      <4>1. \A f \in SUBSET Flag : (f \cup {"ENQ"}) \ {"RUN"} \in SUBSET Flag
        BY DEF Flag
      <4> QED BY <1>0, <1>13, <2>3, <4>1 DEF PushPending, PoolOK
    <3>2. pending_evt' \in [Src -> Evt \cup {None}]
      <4>1. id[tmsg].evt \in Evt \cup {None}
        BY <1>0, <2>1 DEF PoolOK, MsgId, NoId
      <4> QED BY <1>0, <1>13, <2>3, <4>1 DEF PushPending, DispOK
    <3>3. pend_q' \in Seq(Slot)
      <4>1. pend_q \in Seq(Slot)
        BY <1>0 DEF QueueOK
      <4>2. Append(pend_q, tmsg) \in Seq(Slot)
        BY <2>1, <4>1, QueueAppend
      <4> QED BY <1>13, <2>3, <4>2 DEF PushPending
    <3>4. PoolOK' /\ QueueOK' /\ DispOK'
      BY <1>0, <1>13, <3>1, <3>2, <3>3 DEF PushPending, PoolOK, QueueOK, DispOK
    <3>5. tmsg' = Null /\ notify' = notify /\ tpc' \in ThreadPc \ Carrying
      BY <1>13, <2>3 DEF PushPending, ThreadPc, Carrying
    <3> QED BY <1>0, <1>3, <3>4, <3>5 DEF ActorOK, SlotOrNull
  <2> QED BY <2>2, <2>3
<1>14. CASE RecycleMsg
  <2>1. tmsg \in Slot
    BY <1>1, <1>14 DEF RecycleMsg, Carrying, ThreadPc
  <2>2. Recycle(tmsg)
    BY <1>14 DEF RecycleMsg
  <2>3. /\ PoolOK' /\ idle_q' \in Seq(Slot)
        /\ pending_evt' \in [Src -> Evt \cup {None}] /\ WAIT_ABORT' \in BOOLEAN
        /\ ops' \in Seq(OpType) /\ sema' \in Nat
    BY <1>0, <2>1, <2>2, RecycleType
  <2>4. QueueOK' /\ DispOK'
    BY <1>0, <1>14, <2>3 DEF RecycleMsg, QueueOK, DispOK
  <2>5. tmsg' = Null /\ notify' = notify /\ tpc' \in ThreadPc \ Carrying
    BY <1>14 DEF RecycleMsg, ThreadPc, Carrying
  <2> QED BY <1>0, <1>3, <2>3, <2>4, <2>5 DEF ActorOK, SlotOrNull
<1> QED BY <1>4, <1>5, <1>6, <1>7, <1>8, <1>9, <1>10, <1>11, <1>12, <1>13, <1>14 DEF ThreadStep

\* The clients.
LEMMA TypeClient ==
    ASSUME TypeInv, NEW c \in Client, ClientStep(c)
    PROVE  TypeInv'
<1>0. PoolOK /\ QueueOK /\ DispOK /\ ActorOK /\ ThreadCarries /\ ClientCarries /\ ClientKnows
  BY TypeParts DEF TypeInv
<1>1. cl \in [Client -> ClientState] /\ cl[c] \in ClientState
  BY <1>0 DEF ActorOK
<1> USE DEF poolVars, queueVars, dispVars, reqVars, envVars
<1>2. UNCHANGED <<pend_q, CLR_PEND, SHALL_STOP, CANNOT_IO, cur, reqs, tpc, tmsg, notify, envVars>>
  BY DEF ClientStep, SendCheck, SendFill, SendPush, CancelCheck, CancelPremap, CancelPostmap,
         CancelFlag
<1>3. ASSUME PoolOK', idle_q' \in Seq(Slot), wait_q' \in Seq(Slot),
             pending_evt' \in [Src -> Evt \cup {None}], WAIT_ABORT' \in BOOLEAN,
             ops' \in Seq(OpType), sema' \in Nat,
             NEW x \in ClientState, cl' = [cl EXCEPT ![c] = x],
             x.pc = "push" <=> x.s # Null,
             x.pc \in {"premap", "postmap", "flag"} => x.hdl # Null,
             x.pc \in {"pop", "push"} => x.kind \in Work[c]
      PROVE  TypeInv'
  <2>1. QueueOK' /\ DispOK'
    BY <1>0, <1>2, <1>3 DEF QueueOK, DispOK
  <2>2. ActorOK'
    BY <1>0, <1>2, <1>3 DEF ActorOK
  <2>3. ThreadCarries'
    BY <1>0, <1>2 DEF ThreadCarries
  <2>4. \A d \in Client : cl'[d] = IF d = c THEN x ELSE cl[d]
    BY <1>1, <1>3
  <2>5. ClientCarries' /\ ClientKnows'
    BY <1>0, <1>3, <2>4 DEF ClientCarries, ClientKnows, At
  <2> QED BY <1>3, <2>1, <2>2, <2>3, <2>5
          DEF TypeInv, TypeOK, PoolOK, QueueOK, DispOK, ActorOK
<1>4. ASSUME UNCHANGED <<status, id, premap, postmap, map, seen>>
      PROVE  PoolOK'
  BY <1>0, <1>4 DEF PoolOK
<1>5. ASSUME UNCHANGED <<idle_q, wait_q, pending_evt, WAIT_ABORT, ops, sema>>
      PROVE  /\ idle_q' \in Seq(Slot) /\ wait_q' \in Seq(Slot)
             /\ pending_evt' \in [Src -> Evt \cup {None}] /\ WAIT_ABORT' \in BOOLEAN
             /\ ops' \in Seq(OpType) /\ sema' \in Nat
  BY <1>0, <1>5 DEF QueueOK, DispOK
<1>6. ASSUME NEW k \in Work[c], SendCheck(c, k)
      PROVE  TypeInv'
  <2> DEFINE x == [cl[c] EXCEPT !.pc = "pop", !.kind = k, !.left = @ - 1,
                                !.last = (k.src = "req" /\ cur = "last")]
  <2>1. cl' = [cl EXCEPT ![c] = x]
    BY <1>6 DEF SendCheck
  <2>2. k \in Kind /\ cl[c].left > 0 /\ cl[c].pc = "idle"
    BY <1>6, Kinds DEF SendCheck, At
  <2>3. x \in ClientState /\ x.pc = "pop" /\ x.kind = k /\ x.s = cl[c].s
    <3>1. cl[c].left - 1 \in Nat /\ (k.src = "req" /\ cur = "last") \in BOOLEAN
      BY <1>1, <2>2 DEF ClientState
    <3>2. x.left = cl[c].left - 1 /\ x.last = (k.src = "req" /\ cur = "last")
      BY <1>1 DEF ClientState
    <3> QED BY <1>1, <2>2, <3>1, <3>2 DEF ClientState, ClientPc
  <2>4. cl[c].s = Null
    BY <1>0, <2>2 DEF ClientCarries, At
  <2> HIDE DEF x
  <2>5. PoolOK' /\ UNCHANGED <<idle_q, wait_q, pending_evt, WAIT_ABORT, ops, sema>>
    BY <1>4, <1>6 DEF SendCheck
  <2> QED BY <1>3, <1>5, <2>1, <2>3, <2>4, <2>5
<1>7. ASSUME SendFill(c)
      PROVE  TypeInv'
  <2>1. cl[c].pc = "pop" /\ cl[c].s = Null /\ cl[c].kind \in Work[c] /\ cl[c].kind \in Kind
    BY <1>0, <1>1, <1>7 DEF SendFill, At, ClientCarries, ClientKnows, ClientState
  <2>2. UNCHANGED <<wait_q, pending_evt, WAIT_ABORT, ops, sema>>
    BY <1>7 DEF SendFill
  <2>3. CASE idle_q = <<>>
    <3> DEFINE x == [cl[c] EXCEPT !.pc = "idle"]
    <3>1. cl' = [cl EXCEPT ![c] = x] /\ PoolOK' /\ idle_q' = idle_q
      BY <1>4, <1>7, <2>3 DEF SendFill, Step
    <3>2. x \in ClientState /\ x.pc = "idle" /\ x.s = Null
      BY <1>1, <2>1 DEF ClientState, ClientPc
    <3> HIDE DEF x
    <3> QED BY <1>3, <1>5, <2>2, <3>1, <3>2
  <2>4. CASE idle_q # <<>>
    <3> DEFINE s == Head(idle_q)
               x == [cl[c] EXCEPT !.pc = "push", !.s = s]
               flags == {"PRE", IF cl[c].kind.src = "req" THEN "REQ" ELSE "BK"}
    <3>1. s \in Slot /\ Tail(idle_q) \in Seq(Slot) /\ idle_q' = Tail(idle_q)
      BY <1>0, <1>7, <2>4, QueueTail DEF SendFill, QueueOK
    <3>2. cl' = [cl EXCEPT ![c] = x] /\ Fill(s, cl[c].kind, flags) /\ seen' = seen
      BY <1>7, <2>4 DEF SendFill
    <3>3. x \in ClientState /\ x.pc = "push" /\ x.s = s /\ x.kind = cl[c].kind
      BY <1>1, <2>1, <3>1 DEF ClientState, ClientPc, SlotOrNull
    <3>4. flags \in SUBSET Flag
      BY DEF Flag
    <3> HIDE DEF x, s, flags
    <3>5. PoolOK'
      BY <1>0, <2>1, <3>1, <3>2, <3>4, FillType
    <3>6. /\ wait_q' \in Seq(Slot) /\ pending_evt' \in [Src -> Evt \cup {None}]
          /\ WAIT_ABORT' \in BOOLEAN /\ ops' \in Seq(OpType) /\ sema' \in Nat
      BY <1>0, <2>2 DEF QueueOK, DispOK
    <3> QED BY <1>3, <2>1, <3>1, <3>2, <3>3, <3>5, <3>6, Slots
  <2> QED BY <2>3, <2>4
<1>8. ASSUME SendPush(c)
      PROVE  TypeInv'
  <2>1. cl[c].pc = "push" /\ cl[c].s \in Slot
    BY <1>0, <1>1, <1>8 DEF SendPush, At, ClientCarries, ClientState, SlotOrNull
  <2>2. CASE cl[c].last
    <3> DEFINE x == [cl[c] EXCEPT !.pc = "idle", !.s = Null, !.last = FALSE]
    <3>1. cl' = [cl EXCEPT ![c] = x] /\ Recycle(cl[c].s) /\ wait_q' = wait_q
      BY <1>8, <2>2 DEF SendPush
    <3>2. x \in ClientState /\ x.pc = "idle" /\ x.s = Null
      BY <1>1 DEF ClientState, ClientPc, SlotOrNull
    <3> HIDE DEF x
    <3>3. /\ PoolOK' /\ idle_q' \in Seq(Slot)
          /\ pending_evt' \in [Src -> Evt \cup {None}] /\ WAIT_ABORT' \in BOOLEAN
          /\ ops' \in Seq(OpType) /\ sema' \in Nat
      BY <1>0, <2>1, <3>1, RecycleType
    <3>4. wait_q' \in Seq(Slot)
      BY <1>0, <3>1 DEF QueueOK
    <3> QED BY <1>3, <3>1, <3>2, <3>3, <3>4
  <2>3. CASE ~cl[c].last
    <3> DEFINE x == [cl[c] EXCEPT !.pc = "idle", !.s = Null, !.hdl = cl[c].s]
    <3>1. /\ cl' = [cl EXCEPT ![c] = x] /\ Link(cl[c].s)
          /\ UNCHANGED <<id, premap, postmap, map, seen, idle_q, pending_evt, WAIT_ABORT, ops>>
      BY <1>8, <2>3 DEF SendPush
    <3>2. x \in ClientState /\ x.pc = "idle" /\ x.s = Null
      BY <1>1, <2>1 DEF ClientState, ClientPc, SlotOrNull
    <3> HIDE DEF x
    <3>3. /\ wait_q' \in Seq(Slot) /\ sema' \in Nat
          /\ status' \in [Slot -> SUBSET Flag]
      BY <1>0, <2>1, <3>1, LinkType DEF QueueOK, DispOK
    <3>4. PoolOK' /\ idle_q' \in Seq(Slot) /\ pending_evt' \in [Src -> Evt \cup {None}]
          /\ WAIT_ABORT' \in BOOLEAN /\ ops' \in Seq(OpType)
      BY <1>0, <3>1, <3>3 DEF PoolOK, QueueOK, DispOK
    <3> QED BY <1>3, <3>1, <3>2, <3>3, <3>4
  <2> QED BY <2>2, <2>3
<1>9. ASSUME CancelCheck(c)
      PROVE  TypeInv'
  <2>1. cl[c].pc = "idle" /\ cl[c].hdl # Null /\ cl[c].s = Null
    BY <1>0, <1>9 DEF CancelCheck, At, ClientCarries
  <2>2. PoolOK' /\ UNCHANGED <<idle_q, wait_q, pending_evt, WAIT_ABORT, ops, sema>>
    BY <1>4, <1>9 DEF CancelCheck
  <2>3. PICK x : /\ cl' = [cl EXCEPT ![c] = x]
                 /\ \/ x = [cl[c] EXCEPT !.pc = "premap"]
                    \/ x = [cl[c] EXCEPT !.hdl = Null]
    BY <1>9 DEF CancelCheck, Step
  <2>4. /\ x \in ClientState /\ x.s = Null /\ x.pc \in {"premap", "idle"}
        /\ x.pc = "premap" => x.hdl # Null
    BY <1>1, <2>1, <2>3 DEF ClientState, ClientPc, SlotOrNull
  <2> QED BY <1>3, <1>5, <2>2, <2>3, <2>4
<1>10. ASSUME CancelPremap(c) \/ CancelPostmap(c) \/ CancelFlag(c)
       PROVE  TypeInv'
  <2>1. cl[c].pc \in {"premap", "postmap", "flag"} /\ cl[c].hdl \in Slot /\ cl[c].s = Null
    BY <1>0, <1>1, <1>10 DEF CancelPremap, CancelPostmap, CancelFlag, At, ClientCarries,
                              ClientKnows, ClientState, SlotOrNull
  <2>2. UNCHANGED <<idle_q, wait_q, pending_evt, WAIT_ABORT, ops, sema, id, map, seen>>
    BY <1>10 DEF CancelPremap, CancelPostmap, CancelFlag
  <2>3. PoolOK'
    <3>1. \A f \in SUBSET Flag : f \cup {"CANCEL"} \in SUBSET Flag
      BY DEF Flag
    <3> QED BY <1>0, <1>10, <2>1, <2>2, <3>1
            DEF CancelPremap, CancelPostmap, CancelFlag, PoolOK, SlotMap
  <2>4. PICK x : /\ cl' = [cl EXCEPT ![c] = x]
                 /\ \/ x = [cl[c] EXCEPT !.pc = "postmap"]
                    \/ x = [cl[c] EXCEPT !.pc = "flag"]
                    \/ x = [cl[c] EXCEPT !.pc = "idle", !.hdl = Null]
    BY <1>10 DEF CancelPremap, CancelPostmap, CancelFlag, Step
  <2>5. /\ x \in ClientState /\ x.s = Null /\ x.pc \in {"postmap", "flag", "idle"}
        /\ x.pc # "idle" => x.hdl # Null
    BY <1>1, <2>1, <2>4, Slots DEF ClientState, ClientPc, SlotOrNull
  <2> QED BY <1>3, <1>5, <2>2, <2>3, <2>4, <2>5
<1> QED BY <1>6, <1>7, <1>8, <1>9, <1>10 DEF ClientStep

\* The callers around them, and stuttering.
LEMMA TypeEnv ==
    ASSUME TypeInv, EnvStep \/ UNCHANGED vars
    PROVE  TypeInv'
<1>0. PoolOK /\ QueueOK /\ DispOK /\ ActorOK /\ ThreadCarries /\ ClientCarries /\ ClientKnows
  BY TypeParts DEF TypeInv
<1> USE DEF msgVars, poolVars, queueVars, dispVars, reqVars, envVars
<1>1. /\ UNCHANGED <<poolVars, queueVars, pending_evt, tpc, tmsg, notify, cl, WAIT_ABORT, cur>>
  BY DEF EnvStep, AddReq, CancelReq, MdlBusy, MdlReady, CannotIo, ResumeIo, ShallStop,
         ClrPending, vars
<1>2. ops' \in Seq(OpType) /\ sema' \in Nat
  <2>1. {"add", "cancel"} \subseteq OpType
    BY DEF OpType
  <2>2. CASE AddReq \/ CancelReq
    BY <1>0, <2>1, <2>2, EnqueueFacts DEF AddReq, CancelReq, DispOK
  <2>3. CASE ~ (AddReq \/ CancelReq)
    BY <1>0, <2>3 DEF EnvStep, MdlBusy, MdlReady, CannotIo, ResumeIo, ShallStop, ClrPending,
                      vars, DispOK
  <2> QED BY <2>2, <2>3
<1>3. /\ CLR_PEND' \in BOOLEAN /\ SHALL_STOP' \in BOOLEAN /\ CANNOT_IO' \in BOOLEAN
      /\ reqs' \in Nat
  <2>1. reqs \in Nat /\ (reqs' = reqs \/ reqs' = reqs + 1)
    BY <1>0 DEF EnvStep, AddReq, CancelReq, MdlBusy, MdlReady, CannotIo, ResumeIo, ShallStop,
                ClrPending, vars, DispOK
  <2>2. reqs' \in Nat
    BY <2>1
  <2>3. CLR_PEND' \in BOOLEAN /\ SHALL_STOP' \in BOOLEAN /\ CANNOT_IO' \in BOOLEAN
    BY <1>0, ZenonT(30)
    DEF EnvStep, AddReq, CancelReq, MdlBusy, MdlReady, CannotIo, ResumeIo, ShallStop,
        ClrPending, vars, DispOK
  <2> QED BY <2>2, <2>3
<1>4. busy' \in BOOLEAN /\ callers' \subseteq Caller
  BY <1>0 DEF EnvStep, AddReq, CancelReq, MdlBusy, MdlReady, CannotIo, ResumeIo, ShallStop,
              ClrPending, vars, ActorOK, Caller
<1>5. left' \in [{"req", "period"} -> Nat]
  <2>1. \/ left' = left
        \/ \E x \in {"req", "period"} : left[x] > 0 /\ left' = [left EXCEPT ![x] = @ - 1]
    BY DEF EnvStep, AddReq, CancelReq, MdlBusy, MdlReady, CannotIo, ResumeIo, ShallStop,
           ClrPending, vars
  <2> QED BY <1>0, <2>1 DEF ActorOK
<1>6. PoolOK' /\ QueueOK' /\ DispOK' /\ ActorOK'
  BY <1>0, <1>1, <1>2, <1>3, <1>4, <1>5 DEF PoolOK, QueueOK, DispOK, ActorOK
<1>7. ThreadCarries' /\ ClientCarries' /\ ClientKnows'
  BY <1>0, <1>1 DEF ThreadCarries, ClientCarries, ClientKnows, At
<1> QED BY <1>6, <1>7 DEF TypeInv, TypeOK, PoolOK, QueueOK, DispOK, ActorOK

LEMMA TypeStep == TypeInv /\ [Next]_vars => TypeInv'
BY TypeThread, TypeClient, TypeEnv DEF Next

LEMMA TypeInvariant == Spec => []TypeInv
BY TypeInit, TypeStep, PTL DEF Spec

\* The type invariant, for any pool, any modules and any work of the clients.
THEOREM TypeCorrect == Spec => []TypeOK
<1>1. TypeInv => TypeOK
  BY DEF TypeInv
<1> QED BY TypeInvariant, <1>1, PTL

-----------------------------------------------------------------------------
(* No message is lost or doubled                                           *)

LEMMA PlaceInit == Init => PlaceInv
<1> SUFFICES ASSUME Init PROVE PlaceInv
  OBVIOUS
<1>1. MaxMsg \in Nat
  BY Slots
<1>2. /\ DOMAIN idle_q = 1 .. MaxMsg /\ \A i \in 1 .. MaxMsg : idle_q[i] = i - 1
      /\ DOMAIN wait_q = {} /\ DOMAIN pend_q = {}
  BY DEF Init
<1>3. Injective(idle_q) /\ Injective(wait_q) /\ Injective(pend_q)
  BY <1>1, <1>2 DEF Injective
<1>4. \A s \in Slot : Idle(s) /\ ~Waits(s) /\ ~Parked(s) /\ ~Filled(s) /\ ~Carried(s)
  <2> TAKE s \in Slot
  <2>1. s + 1 \in 1 .. MaxMsg /\ (s + 1) - 1 = s
    BY <1>1 DEF Slot
  <2>2. Idle(s)
    BY <1>2, <2>1 DEF Idle, Elems
  <2>3. ~Waits(s) /\ ~Parked(s)
    BY <1>2 DEF Waits, Parked, Elems
  <2>4. ~Filled(s) /\ ~Carried(s)
    BY Slots DEF Init, Filled, Carried
  <2> QED BY <2>2, <2>3, <2>4
<1>5. \A c \in Client : cl[c].s = Null
  BY DEF Init
<1> QED BY <1>3, <1>4, <1>5 DEF PlaceInv

\* A slot that nobody moves stays where it is.
LEMMA PlaceStays ==
    ASSUME PlaceInv, UNCHANGED <<idle_q, wait_q, pend_q, tmsg>>,
           \A c \in Client : cl'[c].s = cl[c].s
    PROVE  PlaceInv'
BY DEF PlaceInv, Idle, Waits, Parked, Filled, Carried

\* The share thread: a message comes back from the pending queue, goes from the
\* wait queue to the thread, and from there to the pending or the idle queue.
LEMMA PlaceThread ==
    ASSUME TypeInv, PlaceInv, ThreadStep
    PROVE  PlaceInv'
<1>0. /\ idle_q \in Seq(Slot) /\ wait_q \in Seq(Slot) /\ pend_q \in Seq(Slot)
      /\ tmsg \in SlotOrNull /\ ThreadCarries
  BY TypeParts DEF TypeInv, QueueOK, ActorOK
<1>1. tpc \in Carrying => tmsg \in Slot
  BY <1>0, Slots DEF ThreadCarries, SlotOrNull
<1>2. cl' = cl
  BY DEF ThreadStep, ThreadWake, ClearTest, ClearMove, TokenOp, Grant, Drop, AbortStart,
         AbortSend, Dropped, PopWait, CheckCancelled, Controller, Redirect2, PrePhase,
         Redirect3, PostPhase, Redirect4, Request, PushPending, RecycleMsg, envVars
<1>3. CASE UNCHANGED <<queueVars, tmsg>>
  BY <1>2, <1>3, PlaceStays DEF queueVars
<1>4. CASE ClearMove /\ pend_q # <<>>
  <2>1. PICK s \in Slot : s = Head(pend_q)
    BY <1>0, <1>4, QueueTail
  <2>2. pend_q' = Tail(pend_q) /\ wait_q' = Place(wait_q, s) /\ UNCHANGED <<idle_q, tmsg>>
    BY <1>4, <2>1 DEF ClearMove, Link
  <2>3. /\ Elems(pend_q) = Elems(pend_q') \cup {s}
        /\ Injective(pend_q) => Injective(pend_q') /\ s \notin Elems(pend_q')
    BY <1>0, <1>4, <2>1, <2>2, QueueTail
  <2>4. /\ Elems(wait_q') = Elems(wait_q) \cup {s}
        /\ Injective(wait_q) /\ s \notin Elems(wait_q) => Injective(wait_q')
    BY <1>0, <2>2, PlaceFacts
  <2> QED BY <1>2, <2>2, <2>3, <2>4 DEF PlaceInv, Idle, Waits, Parked, Filled, Carried
<1>5. CASE AbortSend
  <2>1. PICK s \in Slot : s = Head(idle_q)
    BY <1>0, <1>5, QueueTail DEF AbortSend
  <2>2. idle_q' = Tail(idle_q) /\ wait_q' = Append(wait_q, s) /\ UNCHANGED <<pend_q, tmsg>>
    BY <1>5, <2>1 DEF AbortSend
  <2>3. /\ Elems(idle_q) = Elems(idle_q') \cup {s}
        /\ Injective(idle_q) => Injective(idle_q') /\ s \notin Elems(idle_q')
    BY <1>0, <1>5, <2>1, <2>2, QueueTail DEF AbortSend
  <2>4. /\ Elems(wait_q') = Elems(wait_q) \cup {s}
        /\ Injective(wait_q) /\ s \notin Elems(wait_q) => Injective(wait_q')
    BY <1>0, <2>2, QueueAppend
  <2> QED BY <1>2, <2>2, <2>3, <2>4 DEF PlaceInv, Idle, Waits, Parked, Filled, Carried
<1>6. CASE PopWait /\ wait_q # <<>>
  <2>1. PICK s \in Slot : s = Head(wait_q)
    BY <1>0, <1>6, QueueTail
  <2>2. wait_q' = Tail(wait_q) /\ tmsg' = s /\ UNCHANGED <<idle_q, pend_q>>
    BY <1>6, <2>1 DEF PopWait
  <2>3. /\ Elems(wait_q) = Elems(wait_q') \cup {s}
        /\ Injective(wait_q) => Injective(wait_q') /\ s \notin Elems(wait_q')
    BY <1>0, <1>6, <2>1, <2>2, QueueTail
  <2>4. tmsg = Null
    BY <1>0, <1>6 DEF PopWait, ThreadCarries, Carrying
  <2> QED BY <1>2, <2>2, <2>3, <2>4, Slots DEF PlaceInv, Idle, Waits, Parked, Filled, Carried
<1>7. CASE PushPending /\ ~Has(tmsg, "CANCEL")
  <2>1. tmsg \in Slot /\ tmsg' = Null /\ pend_q' = Append(pend_q, tmsg) /\ UNCHANGED <<idle_q, wait_q>>
    BY <1>1, <1>7 DEF PushPending, Carrying
  <2>2. /\ Elems(pend_q') = Elems(pend_q) \cup {tmsg}
        /\ Injective(pend_q) /\ tmsg \notin Elems(pend_q) => Injective(pend_q')
    BY <1>0, <2>1, QueueAppend
  <2> QED BY <1>2, <2>1, <2>2, Slots DEF PlaceInv, Idle, Waits, Parked, Filled, Carried
<1>8. CASE RecycleMsg
  <2>1. tmsg \in Slot /\ tmsg' = Null /\ idle_q' = Append(idle_q, tmsg) /\ UNCHANGED <<wait_q, pend_q>>
    BY <1>1, <1>8 DEF RecycleMsg, Recycle, Carrying
  <2>2. /\ Elems(idle_q') = Elems(idle_q) \cup {tmsg}
        /\ Injective(idle_q) /\ tmsg \notin Elems(idle_q) => Injective(idle_q')
    BY <1>0, <2>1, QueueAppend
  <2> QED BY <1>2, <2>1, <2>2, Slots DEF PlaceInv, Idle, Waits, Parked, Filled, Carried
<1> QED
  BY <1>3, <1>4, <1>5, <1>6, <1>7, <1>8
  DEF ThreadStep, ThreadWake, ClearTest, ClearMove, TokenOp, Grant, Drop, AbortStart,
      Dropped, PopWait, CheckCancelled, Controller, Redirect2, PrePhase,
      Redirect3, PostPhase, Redirect4, Request, PushPending, queueVars

\* The clients: from the idle queue to the client, from there to the wait queue
\* or, refused, back to the idle queue.
LEMMA PlaceClient ==
    ASSUME TypeInv, PlaceInv, NEW c \in Client, ClientStep(c)
    PROVE  PlaceInv'
<1>0. /\ idle_q \in Seq(Slot) /\ wait_q \in Seq(Slot) /\ pend_q \in Seq(Slot)
      /\ cl \in [Client -> ClientState] /\ cl[c] \in ClientState /\ ClientCarries
  BY TypeParts DEF TypeInv, QueueOK, ActorOK
<1>1. UNCHANGED <<pend_q, tmsg>> /\ \A d \in Client \ {c} : cl'[d] = cl[d]
  BY <1>0 DEF ClientStep, SendCheck, SendFill, SendPush, CancelCheck, CancelPremap,
              CancelPostmap, CancelFlag, queueVars, Step
<1>2. CASE SendFill(c) /\ idle_q # <<>>
  <2>1. PICK s \in Slot : s = Head(idle_q)
    BY <1>0, <1>2, QueueTail
  <2>2. idle_q' = Tail(idle_q) /\ wait_q' = wait_q /\ cl'[c].s = s
    BY <1>0, <1>2, <2>1 DEF SendFill, ClientState
  <2>3. /\ Elems(idle_q) = Elems(idle_q') \cup {s}
        /\ Injective(idle_q) => Injective(idle_q') /\ s \notin Elems(idle_q')
    BY <1>0, <1>2, <2>1, <2>2, QueueTail
  <2>4. cl[c].s = Null
    BY <1>0, <1>2 DEF SendFill, At, ClientCarries
  <2> QED BY <1>1, <2>2, <2>3, <2>4, Slots DEF PlaceInv, Idle, Waits, Parked, Filled, Carried
<1>3. CASE SendPush(c)
  <2>1. PICK s \in Slot : s = cl[c].s
    BY <1>0, <1>3 DEF SendPush, At, ClientCarries, ClientState, SlotOrNull
  <2>2. cl'[c].s = Null
    BY <1>0, <1>3 DEF SendPush, ClientState
  <2>3. CASE cl[c].last
    <3>1. idle_q' = Append(idle_q, s) /\ wait_q' = wait_q
      BY <1>3, <2>1, <2>3 DEF SendPush, Recycle
    <3>2. /\ Elems(idle_q') = Elems(idle_q) \cup {s}
          /\ Injective(idle_q) /\ s \notin Elems(idle_q) => Injective(idle_q')
      BY <1>0, <3>1, QueueAppend
    <3> QED BY <1>1, <2>1, <2>2, <3>1, <3>2, Slots DEF PlaceInv, Idle, Waits, Parked, Filled, Carried
  <2>4. CASE ~cl[c].last
    <3>1. wait_q' = Place(wait_q, s) /\ idle_q' = idle_q
      BY <1>3, <2>1, <2>4 DEF SendPush, Link
    <3>2. /\ Elems(wait_q') = Elems(wait_q) \cup {s}
          /\ Injective(wait_q) /\ s \notin Elems(wait_q) => Injective(wait_q')
      BY <1>0, <3>1, PlaceFacts
    <3> QED BY <1>1, <2>1, <2>2, <3>1, <3>2, Slots DEF PlaceInv, Idle, Waits, Parked, Filled, Carried
  <2> QED BY <2>3, <2>4
<1>4. CASE UNCHANGED <<idle_q, wait_q>> /\ cl'[c].s = cl[c].s
  BY <1>1, <1>4, PlaceStays
<1>5. SendFill(c) \/ SendPush(c) \/ (UNCHANGED <<idle_q, wait_q>> /\ cl'[c].s = cl[c].s)
  <2>1. ASSUME NEW k \in Work[c], SendCheck(c, k)
        PROVE  UNCHANGED <<idle_q, wait_q>> /\ cl'[c].s = cl[c].s
    BY <1>0, <2>1 DEF SendCheck, queueVars, ClientState
  <2>2. ASSUME CancelCheck(c) \/ CancelPremap(c) \/ CancelPostmap(c) \/ CancelFlag(c)
        PROVE  UNCHANGED <<idle_q, wait_q>> /\ cl'[c].s = cl[c].s
    BY <1>0, <2>2 DEF CancelCheck, CancelPremap, CancelPostmap, CancelFlag, queueVars, Step,
                      ClientState
  <2> QED BY <2>1, <2>2 DEF ClientStep
<1>6. SendFill(c) /\ idle_q = <<>> => UNCHANGED <<idle_q, wait_q>> /\ cl'[c].s = cl[c].s
  BY <1>0 DEF SendFill, Step, ClientState
<1> QED BY <1>2, <1>3, <1>4, <1>5, <1>6

LEMMA PlaceStep == TypeInv /\ PlaceInv /\ [Next]_vars => PlaceInv'
<1>1. ASSUME PlaceInv, EnvStep \/ UNCHANGED vars PROVE PlaceInv'
  BY <1>1, PlaceStays
  DEF EnvStep, AddReq, CancelReq, MdlBusy, MdlReady, CannotIo, ResumeIo, ShallStop, ClrPending,
      msgVars, queueVars, vars
<1> QED BY <1>1, PlaceThread, PlaceClient DEF Next

LEMMA PlaceInvariant == Spec => []PlaceInv
BY PlaceInit, PlaceStep, TypeInvariant, PTL DEF Spec

\* Queues that share nothing, one behind the other.
LEMMA QueueConcat ==
    ASSUME NEW p \in Seq(Slot), NEW q \in Seq(Slot)
    PROVE  /\ p \o q \in Seq(Slot)
           /\ Elems(p \o q) = Elems(p) \cup Elems(q)
           /\ Injective(p) /\ Injective(q) /\ Elems(p) \cap Elems(q) = {} => Injective(p \o q)
<1>1. Len(p) \in Nat /\ Len(q) \in Nat /\ DOMAIN p = 1 .. Len(p) /\ DOMAIN q = 1 .. Len(q)
  BY LenProperties
<1>2. /\ p \o q \in Seq(Slot) /\ Len(p \o q) = Len(p) + Len(q)
      /\ \A i \in 1 .. Len(p) + Len(q) :
            (p \o q)[i] = IF i <= Len(p) THEN p[i] ELSE q[i - Len(p)]
  BY ConcatProperties
<1> DEFINE r == p \o q
<1>3. /\ DOMAIN r = 1 .. Len(p) + Len(q)
      /\ \A i \in DOMAIN r : r[i] = IF i <= Len(p) THEN p[i] ELSE q[i - Len(p)]
  BY <1>1, <1>2, LenProperties
<1> HIDE DEF r
<1>4. \A i \in DOMAIN r : \/ i \in DOMAIN p /\ r[i] = p[i]
                          \/ i - Len(p) \in DOMAIN q /\ r[i] = q[i - Len(p)] /\ i \in Int
  <2> TAKE i \in DOMAIN r
  <2>1. CASE i <= Len(p)
    <3>1. i \in DOMAIN p
      BY <1>1, <1>3, <2>1
    <3> QED BY <1>3, <2>1, <3>1
  <2>2. CASE ~ (i <= Len(p))
    <3>1. i - Len(p) \in DOMAIN q /\ i \in Int
      BY <1>1, <1>3, <2>2
    <3> QED BY <1>3, <2>2, <3>1
  <2> QED BY <2>1, <2>2
<1>5. /\ \A i \in DOMAIN p : i \in DOMAIN r /\ r[i] = p[i]
      /\ \A i \in DOMAIN q : i + Len(p) \in DOMAIN r /\ r[i + Len(p)] = q[i]
  <2>1. \A i \in DOMAIN q : i + Len(p) \in DOMAIN r /\ ~ (i + Len(p) <= Len(p))
                             /\ (i + Len(p)) - Len(p) = i
    BY <1>1, <1>3
  <2>2. \A i \in DOMAIN p : i \in DOMAIN r /\ i <= Len(p)
    BY <1>1, <1>3
  <2> QED BY <1>3, <2>1, <2>2
<1>6. Elems(r) = Elems(p) \cup Elems(q)
  <2>1. \A i \in DOMAIN r : r[i] \in Elems(p) \cup Elems(q)
    BY <1>4 DEF Elems
  <2>2. \A i \in DOMAIN p : p[i] \in Elems(r)
    BY <1>5 DEF Elems
  <2>3. \A i \in DOMAIN q : q[i] \in Elems(r)
    BY <1>5 DEF Elems
  <2> QED BY <2>1, <2>2, <2>3 DEF Elems
<1>7. ASSUME Injective(p), Injective(q), Elems(p) \cap Elems(q) = {} PROVE Injective(r)
  <2>1. \A i \in DOMAIN p, j \in DOMAIN q : p[i] # q[j]
    BY <1>7 DEF Elems
  <2>2. \A i \in DOMAIN p : i \in Int
    BY <1>1
  <2>3. ASSUME NEW i \in DOMAIN r, NEW j \in DOMAIN r, r[i] = r[j] PROVE i = j
    <3>1. CASE i \in DOMAIN p /\ r[i] = p[i] /\ j \in DOMAIN p /\ r[j] = p[j]
      BY <1>7, <2>3, <3>1 DEF Injective
    <3>2. CASE /\ i - Len(p) \in DOMAIN q /\ r[i] = q[i - Len(p)] /\ i \in Int
               /\ j - Len(p) \in DOMAIN q /\ r[j] = q[j - Len(p)] /\ j \in Int
      <4>1. i - Len(p) = j - Len(p)
        BY <1>7, <2>3, <3>2 DEF Injective
      <4> QED BY <1>1, <3>2, <4>1
    <3> QED BY <1>4, <2>1, <2>3, <3>1, <3>2
  <2> QED BY <2>3 DEF Injective
<1> QED BY <1>2, <1>6, <1>7 DEF r

\* No interleaving of sends, pendings, cancels and aborts loses or doubles a
\* message: every slot of msg_ex_pool is in exactly one place.
THEOREM NothingLost == Spec => []MsgConservation
<1>1. ASSUME TypeInv, PlaceInv, NEW s \in Slot PROVE Cardinality(Places(s)) = 1
  <2>0. /\ idle_q \in Seq(Slot) /\ wait_q \in Seq(Slot) /\ pend_q \in Seq(Slot)
    BY <1>1, TypeParts DEF TypeInv, QueueOK
  <2>1. /\ Injective(idle_q) /\ Injective(wait_q) /\ Injective(pend_q)
        /\ Elems(idle_q) \cap Elems(wait_q) = {}
        /\ (Elems(idle_q) \cup Elems(wait_q)) \cap Elems(pend_q) = {}
    <3>1. \A x \in Elems(idle_q) : x \in Slot
      BY <2>0, LenProperties, ElementOfSeq DEF Elems
    <3>2. \A x \in Elems(wait_q) : x \in Slot
      BY <2>0, LenProperties, ElementOfSeq DEF Elems
    <3> QED BY <1>1, <3>1, <3>2 DEF PlaceInv, Idle, Waits, Parked
  <2> DEFINE iw == idle_q \o wait_q
             q == iw \o pend_q
  <2>2. iw \in Seq(Slot) /\ Elems(iw) = Elems(idle_q) \cup Elems(wait_q) /\ Injective(iw)
    BY <2>0, <2>1, QueueConcat
  <2> HIDE DEF iw
  <2>3. Elems(q) = Elems(idle_q) \cup Elems(wait_q) \cup Elems(pend_q) /\ Injective(q)
    BY <2>0, <2>1, <2>2, QueueConcat
  <2>4. q = idle_q \o wait_q \o pend_q
    BY DEF iw
  <2> HIDE DEF q
  <2> DEFINE Queued == {<<"queue", i>> : i \in {j \in DOMAIN q : q[j] = s}}
             Held == {<<"client", c>> : c \in {d \in Client : cl[d].s = s}}
             Taken == {x \in {<<"thread", 0>>} : tmsg = s}
  <2>5. Places(s) = Queued \cup Held \cup Taken
    BY <2>4 DEF Places
  <2>6. \E x : Places(s) = {x}
    <3>1. CASE s \in Elems(q)
      <4>1. ~Filled(s) /\ ~Carried(s)
        BY <1>1, <2>3, <3>1 DEF PlaceInv, Idle, Waits, Parked
      <4>2. PICK i \in DOMAIN q : q[i] = s
        BY <3>1 DEF Elems
      <4>3. {j \in DOMAIN q : q[j] = s} = {i}
        BY <2>3, <4>2 DEF Injective
      <4>4. Queued = {<<"queue", i>>}
        BY <4>3
      <4>5. Held = {} /\ Taken = {}
        BY <4>1 DEF Filled, Carried
      <4> QED BY <2>5, <4>4, <4>5
    <3>2. CASE Filled(s)
      <4>1. s \notin Elems(q) /\ ~Carried(s)
        BY <1>1, <2>3, <3>2 DEF PlaceInv, Idle, Waits, Parked
      <4>2. PICK c \in Client : cl[c].s = s
        BY <3>2 DEF Filled
      <4>3. {d \in Client : cl[d].s = s} = {c}
        BY <1>1, <4>2, Slots DEF PlaceInv
      <4>4. Held = {<<"client", c>>}
        BY <4>3
      <4>5. Queued = {} /\ Taken = {}
        BY <4>1 DEF Elems, Carried
      <4> QED BY <2>5, <4>4, <4>5
    <3>3. CASE Carried(s)
      <4>1. s \notin Elems(q) /\ ~Filled(s)
        BY <1>1, <2>3, <3>3 DEF PlaceInv, Idle, Waits, Parked
      <4>2. Queued = {} /\ Held = {}
        BY <4>1 DEF Elems, Filled
      <4>3. Taken = {<<"thread", 0>>}
        BY <3>3 DEF Carried
      <4> QED BY <2>5, <4>2, <4>3
    <3> QED BY <1>1, <2>3, <3>1, <3>2, <3>3 DEF PlaceInv, Idle, Waits, Parked
  <2> QED BY <2>6, FS_Singleton
<1>2. TypeInv /\ PlaceInv => MsgConservation
  BY <1>1 DEF MsgConservation
<1> QED BY <1>2, TypeInvariant, PlaceInvariant, PTL

-----------------------------------------------------------------------------
(* The abort message                                                       *)

\* At each step of the share thread the command is in one of few states.
LEMMA CurStepStep == TypeInv /\ CurStep /\ [Next]_vars => CurStep'
<1> SUFFICES ASSUME TypeInv, CurStep, [Next]_vars PROVE CurStep'
  OBVIOUS
<1> USE DEF CurStep, Ending, Goto
<1>1. CASE ThreadWake \/ ClearTest \/ ClearMove \/ TokenOp
  <2>1. cur' = cur
    BY <1>1 DEF ThreadWake, ClearTest, ClearMove, TokenOp, reqVars
  <2>2. cur \in CurState
    BY TypeParts DEF TypeInv, DispOK
  <2>3. CASE ThreadWake \/ ClearTest \/ TokenOp
    BY <2>1, <2>3 DEF ThreadWake, ClearTest, TokenOp
  <2>4. CASE ClearMove
    BY <2>1, <2>4 DEF ClearMove
  <2> QED BY <1>1, <2>3, <2>4
<1>2. CASE Grant \/ Drop \/ AbortStart \/ AbortSend \/ Dropped
  BY <1>2 DEF Grant, Drop, AbortStart, AbortSend, Dropped
<1>3. CASE PopWait \/ CheckCancelled \/ Redirect2 \/ Redirect3 \/ Redirect4 \/ PushPending \/ RecycleMsg
  <2>1. cur' = cur /\ tpc \notin Ending /\ tpc' \notin Ending
    BY <1>3 DEF PopWait, CheckCancelled, Redirect2, Redirect3, Redirect4, PushPending, RecycleMsg, reqVars
  <2> QED BY <2>1
<1>4. CASE Controller \/ PrePhase \/ PostPhase \/ Request
  <2>1. tpc \notin Ending /\ tpc' \notin Ending
    BY <1>4 DEF Controller, PrePhase, PostPhase, Request, FeedFails, FeedPends
  <2>2. cur' = cur \/ cur' = "freed"
    BY <1>4 DEF Controller, PrePhase, PostPhase, Request, FeedFails, FeedPends, CurReqHdl
  <2> QED BY <2>1, <2>2
<1>5. CASE UNCHANGED <<tpc, cur>>
  BY <1>5
<1>6. ThreadStep \/ UNCHANGED <<tpc, cur>>
  BY DEF Next, ClientStep, SendCheck, SendFill, SendPush, CancelCheck, CancelPremap,
         CancelPostmap, CancelFlag, EnvStep, AddReq, CancelReq, MdlBusy, MdlReady, CannotIo,
         ResumeIo, ShallStop, ClrPending, msgVars, reqVars, vars
<1> QED BY <1>1, <1>2, <1>3, <1>4, <1>5, <1>6 DEF ThreadStep

\* Most steps leave the message of an abort callback where it is.
LEMMA AbortStays ==
    ASSUME AbortInv, CurStep', WAIT_ABORT' = WAIT_ABORT, Elems(idle_q') = Elems(idle_q),
           \A s \in Slot : "ABORT" \in status'[s] <=> "ABORT" \in status[s],
           \A s \in Slot : Has(s, "ABORT") => ~Filled(s)',
           WAIT_ABORT => tpc' \notin {"drop", "dropmov", "abort"} /\ cur' \in {"stop", "none"}
    PROVE  AbortInv'
BY DEF AbortInv, Has, Idle

\* The flag of an abort message is set by AbortSend and reset with the rest.
LEMMA AbortFlag ==
    ASSUME TypeInv, ThreadStep, ~AbortSend, ~RecycleMsg
    PROVE  /\ WAIT_ABORT' = WAIT_ABORT
           /\ \A s \in Slot : "ABORT" \in status'[s] <=> "ABORT" \in status[s]
           /\ UNCHANGED <<idle_q, cl>>
<1>0. status \in [Slot -> SUBSET Flag]
  BY TypeParts DEF TypeInv, PoolOK
<1> USE DEF poolVars, queueVars, dispVars, reqVars, envVars
<1>1. UNCHANGED <<WAIT_ABORT, idle_q, cl>>
  BY DEF ThreadStep, ThreadWake, ClearTest, ClearMove, TokenOp, Grant, Drop, AbortStart,
         Dropped, PopWait, CheckCancelled, Controller, Redirect2, PrePhase,
         Redirect3, PostPhase, Redirect4, Request, PushPending
<1>2. \A s \in Slot : "ABORT" \in status'[s] <=> "ABORT" \in status[s]
  <2>1. CASE ThreadWake \/ ClearTest \/ TokenOp \/ Grant \/ AbortStart \/ Dropped \/ Redirect2
             \/ Redirect4 \/ Request
    BY <2>1 DEF ThreadWake, ClearTest, TokenOp, Grant, AbortStart, Dropped, Redirect2,
                Redirect4, Request
  <2>2. CASE ClearMove
    <3>1. CASE pend_q # <<>>
      <4>1. status' = [status EXCEPT ![Head(pend_q)] = (@ \cup {"ENQ"}) \ {"RUN"}]
        BY <2>2, <3>1 DEF ClearMove, Link
      <4> QED BY <1>0, <4>1
    <3>2. CASE pend_q = <<>>
      BY <2>2, <3>2 DEF ClearMove
    <3> QED BY <3>1, <3>2
  <2>3. CASE PopWait
    <3>1. CASE wait_q # <<>>
      <4>1. status' = [status EXCEPT ![Head(wait_q)] = (@ \cup {"RUN"}) \ {"ENQ", "PENDING"}]
        BY <2>3, <3>1 DEF PopWait
      <4> QED BY <1>0, <4>1
    <3>2. CASE wait_q = <<>>
      BY <2>3, <3>2 DEF PopWait
    <3> QED BY <3>1, <3>2
  <2>4. CASE Drop
    BY <1>0, <2>4 DEF Drop
  <2>5. CASE CheckCancelled \/ Controller \/ PrePhase \/ Redirect3 \/ PostPhase \/ PushPending
    <3>1. \/ status' = status
          \/ \E f \in {"CANCEL", "PENDING", "FAIL"} : status' = [status EXCEPT ![tmsg] = @ \cup {f}]
          \/ status' = [status EXCEPT ![tmsg] = @ \cup {}]
          \/ status' = [status EXCEPT ![tmsg] = @ \ {"PRE"}]
          \/ status' = [status EXCEPT ![tmsg] = (@ \cup {"ENQ"}) \ {"RUN"}]
      BY <2>5 DEF CheckCancelled, Controller, PrePhase, Redirect3, PostPhase, PushPending,
                  FeedFails, FeedPends
    <3> QED BY <1>0, <3>1
  <2> QED BY <2>1, <2>2, <2>3, <2>4, <2>5 DEF ThreadStep
<1> QED BY <1>1, <1>2

LEMMA AbortThread ==
    ASSUME TypeInv, PlaceInv, AbortInv, ThreadStep
    PROVE  AbortInv'
<1>0. /\ status \in [Slot -> SUBSET Flag] /\ idle_q \in Seq(Slot)
      /\ tpc \in Carrying => tmsg \in Slot
  BY TypeParts, Slots DEF TypeInv, PoolOK, QueueOK, ActorOK, ThreadCarries, SlotOrNull
<1>1. CurStep /\ CurStep'
  BY CurStepStep DEF AbortInv, Next
<1>2. CASE AbortSend
  <2>1. PICK s \in Slot : s = Head(idle_q)
    BY <1>0, <1>2, QueueTail DEF AbortSend
  <2>2. ~WAIT_ABORT /\ \A t \in Slot : ~Has(t, "ABORT")
    BY <1>2 DEF AbortInv, AbortSend
  <2>3. /\ Elems(idle_q) = Elems(idle_q') \cup {s}
        /\ s \notin Elems(idle_q') /\ ~Filled(s)
    BY <1>0, <1>2, <2>1, QueueTail DEF AbortSend, PlaceInv, Idle
  <2>4. /\ "ABORT" \in status'[s] /\ \A t \in Slot \ {s} : status'[t] = status[t]
        /\ WAIT_ABORT' = TRUE /\ cur' = "stop" /\ tpc' = "dropped" /\ cl' = cl
    BY <1>0, <1>2, <2>1 DEF AbortSend, Fill, Goto
  <2>5. \A t \in Slot : "ABORT" \in status'[t] <=> t = s
    BY <2>2, <2>4 DEF Has
  <2> QED BY <1>1, <2>3, <2>4, <2>5 DEF AbortInv, Has, Idle, Filled
<1>3. CASE RecycleMsg
  <2>0. tmsg \in Slot
    BY <1>0, <1>3 DEF RecycleMsg, Carrying
  <2>1. /\ cl' = cl /\ cur' = cur /\ tpc' = "wait"
        /\ status' = [status EXCEPT ![tmsg] = {}]
        /\ Has(tmsg, "ABORT") => WAIT_ABORT' = FALSE
        /\ ~Has(tmsg, "ABORT") => WAIT_ABORT' = WAIT_ABORT
        /\ idle_q' = Append(idle_q, tmsg)
    BY <1>3 DEF RecycleMsg, Recycle, Goto
  <2>2. Elems(idle_q') = Elems(idle_q) \cup {tmsg}
    BY <1>0, <2>0, <2>1, QueueAppend
  <2>3. \A t \in Slot : "ABORT" \in status'[t] <=> t # tmsg /\ "ABORT" \in status[t]
    BY <1>0, <2>0, <2>1
  <2>4. /\ WAIT_ABORT' <=> \E s \in Slot : "ABORT" \in status'[s]
        /\ WAIT_ABORT' => WAIT_ABORT
    <3>1. CASE Has(tmsg, "ABORT")
      <4>1. ~ \E s \in Slot : "ABORT" \in status'[s]
        BY <2>0, <2>3, <3>1 DEF AbortInv, Has
      <4> QED BY <2>1, <3>1, <4>1
    <3>2. CASE ~Has(tmsg, "ABORT")
      <4>1. \A s \in Slot : "ABORT" \in status'[s] <=> "ABORT" \in status[s]
        BY <2>0, <2>3, <3>2 DEF Has
      <4>2. WAIT_ABORT <=> \E s \in Slot : "ABORT" \in status[s]
        BY DEF AbortInv, Has
      <4> QED BY <2>1, <3>2, <4>1, <4>2
    <3> QED BY <3>1, <3>2
  <2> QED BY <1>1, <2>0, <2>1, <2>2, <2>3, <2>4 DEF AbortInv, Has, Idle, Filled
<1>4. CASE ~AbortSend /\ ~RecycleMsg
  <2>1. /\ WAIT_ABORT' = WAIT_ABORT /\ UNCHANGED <<idle_q, cl>>
        /\ \A s \in Slot : "ABORT" \in status'[s] <=> "ABORT" \in status[s]
    BY <1>4, AbortFlag
  <2>2. ASSUME WAIT_ABORT
        PROVE  tpc' \notin {"drop", "dropmov", "abort"} /\ cur' \in {"stop", "none"}
    <3>0. tpc \notin {"drop", "dropmov", "abort"} /\ cur \in {"stop", "none"}
      BY <2>2 DEF AbortInv
    <3> USE DEF Goto, reqVars
    <3>1. CASE ThreadWake \/ ClearTest \/ ClearMove \/ Dropped
      BY <1>1, <3>0, <3>1 DEF ThreadWake, ClearTest, ClearMove, Dropped
    <3>2. CASE TokenOp \/ Grant
      BY <1>1, <2>2, <3>0, <3>2 DEF TokenOp, Grant, CurStep, Ending
    <3>3. CASE PopWait \/ CheckCancelled \/ Redirect2 \/ Redirect3 \/ Redirect4 \/ PushPending
      BY <3>0, <3>3 DEF PopWait, CheckCancelled, Redirect2, Redirect3, Redirect4, PushPending
    <3>4. CASE Controller \/ PrePhase \/ PostPhase \/ Request
      <4>1. cur' = cur
        BY <3>0, <3>4 DEF Controller, PrePhase, PostPhase, Request, FeedFails, FeedPends, CurReqHdl
      <4>2. tpc' \notin {"drop", "dropmov", "abort"}
        BY <3>0, <3>4 DEF Controller, PrePhase, PostPhase, Request, FeedFails, FeedPends
      <4> QED BY <3>0, <4>1, <4>2
    <3>5. CASE Drop \/ AbortStart
      BY <3>0, <3>5 DEF Drop, AbortStart
    <3> QED BY <1>4, <3>1, <3>2, <3>3, <3>4, <3>5 DEF ThreadStep
  <2>3. \A s \in Slot : Has(s, "ABORT") => ~Filled(s)'
    BY <2>1 DEF AbortInv, Filled
  <2> QED BY <1>1, <2>1, <2>2, <2>3, AbortStays
<1> QED BY <1>2, <1>3, <1>4

LEMMA AbortClient ==
    ASSUME TypeInv, PlaceInv, AbortInv, NEW c \in Client, ClientStep(c)
    PROVE  AbortInv'
<1>0. /\ status \in [Slot -> SUBSET Flag] /\ idle_q \in Seq(Slot)
      /\ cl \in [Client -> ClientState] /\ cl[c] \in ClientState
      /\ ClientCarries /\ ClientKnows
  BY TypeParts DEF TypeInv, PoolOK, QueueOK, ActorOK
<1>1. UNCHANGED <<tpc, cur>>
  BY DEF ClientStep, SendCheck, SendFill, SendPush, CancelCheck, CancelPremap, CancelPostmap,
         CancelFlag, reqVars
<1>2. CurStep' /\ (WAIT_ABORT => tpc' \notin {"drop", "dropmov", "abort"} /\ cur' \in {"stop", "none"})
  BY <1>1 DEF AbortInv, CurStep
<1>3. CASE SendFill(c) /\ idle_q # <<>>
  <2>1. PICK s \in Slot : s = Head(idle_q)
    BY <1>0, <1>3, QueueTail
  <2>2. PICK flags : /\ flags \in SUBSET {"PRE", "REQ", "BK"}
                     /\ status' = [status EXCEPT ![s] = flags \cup cl[c].kind.opt]
    BY <1>3, <2>1 DEF SendFill, Fill
  <2>3. "ABORT" \notin cl[c].kind.opt
    BY <1>0, Kinds DEF ClientState, Option
  <2>4. Idle(s) /\ Elems(idle_q) = Elems(idle_q') \cup {s}
    <3>1. idle_q' = Tail(idle_q)
      BY <1>3 DEF SendFill
    <3> QED BY <1>0, <1>3, <2>1, <3>1, QueueTail DEF Idle
  <2>7. s \notin Elems(idle_q')
    <3>1. idle_q' = Tail(idle_q) /\ Injective(idle_q)
      BY <1>3 DEF SendFill, PlaceInv
    <3> QED BY <1>0, <1>3, <2>1, <3>1, QueueTail
  <2>5. \A t \in Slot : "ABORT" \in status'[t] <=> "ABORT" \in status[t]
    BY <1>0, <2>2, <2>3, <2>4 DEF AbortInv, Has
  <2>6. /\ WAIT_ABORT' = WAIT_ABORT /\ cl'[c].s = s
        /\ \A d \in Client \ {c} : cl'[d] = cl[d]
    BY <1>0, <1>3, <2>1 DEF SendFill, ClientState, dispVars
  <2> QED BY <1>2, <2>4, <2>5, <2>6, <2>7 DEF AbortInv, Has, Idle, Filled
<1>4. CASE SendPush(c) /\ cl[c].last
  <2>1. PICK s \in Slot : s = cl[c].s
    BY <1>0, <1>4 DEF SendPush, At, ClientCarries, ClientState, SlotOrNull
  <2>2. ~Has(s, "ABORT")
    BY <2>1 DEF AbortInv, Filled
  <2>3. /\ status' = [status EXCEPT ![s] = {}] /\ WAIT_ABORT' = WAIT_ABORT
        /\ idle_q' = Append(idle_q, s)
        /\ cl'[c].s = Null /\ \A d \in Client \ {c} : cl'[d] = cl[d]
    BY <1>0, <1>4, <2>1, <2>2 DEF SendPush, Recycle, ClientState
  <2>4. Elems(idle_q') = Elems(idle_q) \cup {s}
    BY <1>0, <2>3, QueueAppend
  <2>5. \A t \in Slot : "ABORT" \in status'[t] <=> "ABORT" \in status[t]
    BY <1>0, <2>2, <2>3 DEF Has
  <2> QED BY <1>2, <2>2, <2>3, <2>4, <2>5, Slots DEF AbortInv, Has, Idle, Filled
<1>5. CASE ~ (SendFill(c) /\ idle_q # <<>>) /\ ~ (SendPush(c) /\ cl[c].last)
  <2>1. /\ UNCHANGED <<WAIT_ABORT, idle_q>>
        /\ \A s \in Slot : "ABORT" \in status'[s] <=> "ABORT" \in status[s]
        /\ cl'[c].s \in {cl[c].s, Null} /\ \A d \in Client \ {c} : cl'[d] = cl[d]
    <3> USE DEF poolVars, queueVars, dispVars, Step, ClientState
    <3>1. ASSUME NEW k \in Work[c], SendCheck(c, k)
          PROVE  /\ UNCHANGED <<WAIT_ABORT, idle_q, status>> /\ cl'[c].s = cl[c].s
                 /\ \A d \in Client \ {c} : cl'[d] = cl[d]
      BY <1>0, <3>1 DEF SendCheck
    <3>2. CASE SendFill(c)
      BY <1>0, <1>5, <3>2 DEF SendFill
    <3>3. CASE SendPush(c)
      <4>1. /\ status' = [status EXCEPT ![cl[c].s] = (@ \cup {"ENQ"}) \ {"RUN"}]
            /\ UNCHANGED <<WAIT_ABORT, idle_q>>
            /\ cl'[c].s = Null /\ \A d \in Client \ {c} : cl'[d] = cl[d]
        BY <1>0, <1>5, <3>3 DEF SendPush, Link
      <4> QED BY <1>0, <4>1
    <3>4. CASE CancelCheck(c) \/ CancelPremap(c) \/ CancelPostmap(c)
      BY <1>0, <3>4 DEF CancelCheck, CancelPremap, CancelPostmap
    <3>5. CASE CancelFlag(c)
      BY <1>0, <3>5 DEF CancelFlag
    <3> QED BY <3>1, <3>2, <3>3, <3>4, <3>5 DEF ClientStep
  <2>2. \A s \in Slot : Has(s, "ABORT") => ~Filled(s)'
    BY <2>1, Slots DEF AbortInv, Filled
  <2> QED BY <1>2, <2>1, <2>2, AbortStays
<1> QED BY <1>3, <1>4, <1>5

LEMMA AbortStep == TypeInv /\ PlaceInv /\ AbortInv /\ [Next]_vars => AbortInv'
<1>1. ASSUME AbortInv, EnvStep \/ UNCHANGED vars PROVE AbortInv'
  <2>1. UNCHANGED <<WAIT_ABORT, idle_q, status, cl, tpc, cur>>
    BY <1>1 DEF EnvStep, AddReq, CancelReq, MdlBusy, MdlReady, CannotIo, ResumeIo, ShallStop,
                ClrPending, msgVars, dispVars, reqVars, poolVars, queueVars, vars
  <2> QED BY <1>1, <2>1 DEF AbortInv, CurStep, Has, Idle, Filled
<1> QED BY <1>1, AbortThread, AbortClient DEF Next

LEMMA AbortInvariant == Spec => []AbortInv
<1>1. Init => AbortInv
  BY Slots DEF Init, AbortInv, CurStep, Ending, Has
<1> QED BY <1>1, AbortStep, TypeInvariant, PlaceInvariant, PTL DEF Spec

\* DISPR_WAIT_ABORT_MSG_DONE is set exactly while the one message of an abort
\* callback is under way, and no command runs meanwhile.
THEOREM NextCommandWaits == Spec => []AbortBarrier
<1>1. ASSUME AbortInv PROVE AbortBarrier
  <2> DEFINE last == {s \in Slot : Has(s, "ABORT")}
  <2>1. CASE WAIT_ABORT
    <3>1. PICK s \in Slot : Has(s, "ABORT")
      BY <1>1, <2>1 DEF AbortInv
    <3>2. last = {s}
      BY <1>1, <3>1 DEF AbortInv
    <3>3. Cardinality(last) = 1
      BY <3>2, FS_Singleton
    <3> QED BY <1>1, <2>1, <3>3 DEF AbortInv, AbortBarrier
  <2>2. CASE ~WAIT_ABORT
    BY <1>1, <2>2 DEF AbortInv, AbortBarrier
  <2> QED BY <2>1, <2>2
<1> QED BY <1>1, AbortInvariant, PTL

-----------------------------------------------------------------------------
(* No wake-up is lost                                                      *)

\* A step that raises the semaphore for what it queues, and does not end the
\* part of a round that looks at the queues.
LEMMA WakeStays ==
    ASSUME TypeInv, WakeInv, sema' \in Nat, wait_q' \in Seq(Slot),
           sema' >= sema,
           Len(wait_q') = Len(wait_q) \/ (Len(wait_q') = Len(wait_q) + 1 /\ sema' = sema + 1),
           ops' = ops \/ (ops' = <<>>) \/ sema' = sema + 1,
           CLR_PEND' = CLR_PEND \/ sema' = sema + 1,
           tpc' = tpc \/ tpc \notin Popping
    PROVE  WakeInv'
<1>1. sema \in Nat /\ Len(wait_q) \in Nat /\ Len(wait_q') \in Nat
  BY TypeParts, LenProperties DEF TypeInv, DispOK, QueueOK
<1>2. "clr" \in Popping
  BY DEF Popping
<1>3. Len(wait_q') <= sema' + (IF tpc' \in Popping THEN 1 ELSE 0)
  <2>1. CASE tpc' = tpc
    BY <1>1, <2>1 DEF WakeInv
  <2>2. CASE tpc \notin Popping
    BY <1>1, <2>2 DEF WakeInv
  <2> QED BY <2>1, <2>2
<1>4. ops' # <<>> => sema' > 0 \/ tpc' \in Popping \ {"pop"}
  BY <1>1 DEF WakeInv
<1>5. CLR_PEND' => sema' > 0 \/ tpc' = "clr"
  <2>1. CASE sema' = sema + 1
    BY <1>1, <2>1
  <2>2. CASE CLR_PEND' = CLR_PEND
    <3>1. CLR_PEND => sema' > 0 \/ tpc' = "clr"
      BY <1>1, <1>2 DEF WakeInv
    <3> QED BY <2>2, <3>1
  <2> QED BY <2>1, <2>2
<1> QED BY <1>3, <1>4, <1>5 DEF WakeInv

\* What the operations of a finished message or command queue.
LEMMA RecycleWakes ==
    ASSUME TypeInv, NEW s, Recycle(s)
    PROVE  sema' \in Nat /\ sema' >= sema /\ (ops' = ops \/ sema' = sema + 1)
<1>1. ops \in Seq(OpType) /\ sema \in Nat /\ "renew" \in OpType
  BY TypeParts DEF TypeInv, DispOK, OpType
<1>2. CASE Enqueue("renew")
  BY <1>1, <1>2, EnqueueFacts
<1>3. CASE UNCHANGED <<ops, sema>>
  BY <1>1, <1>3
<1> QED BY <1>2, <1>3 DEF Recycle

LEMMA CurReqWakes ==
    ASSUME TypeInv, NEW s, CurReqHdl(s)
    PROVE  sema' \in Nat /\ sema' >= sema /\ (ops' = ops \/ sema' = sema + 1)
<1>1. ops \in Seq(OpType) /\ sema \in Nat /\ "free" \in OpType
  BY TypeParts DEF TypeInv, DispOK, OpType
<1>2. CASE Enqueue("free")
  BY <1>1, <1>2, EnqueueFacts
<1>3. CASE UNCHANGED <<ops, sema>>
  BY <1>1, <1>3
<1> QED BY <1>2, <1>3 DEF CurReqHdl

LEMMA WakeThread ==
    ASSUME TypeInv, WakeInv, ThreadStep
    PROVE  WakeInv'
<1>0. /\ wait_q \in Seq(Slot) /\ wait_q' \in Seq(Slot) /\ ops \in Seq(OpType)
      /\ sema \in Nat /\ sema' \in Nat /\ Len(wait_q) \in Nat /\ Len(wait_q') \in Nat
  <2>1. TypeInv'
    BY TypeThread
  <2>2. QueueOK' /\ DispOK'
    BY <2>1 DEF TypeInv, TypeOK, QueueOK, DispOK
  <2>3. QueueOK /\ DispOK
    BY TypeParts DEF TypeInv
  <2> QED BY <2>2, <2>3, LenProperties DEF QueueOK, DispOK
<1> USE DEF Goto, poolVars, queueVars, dispVars, reqVars
<1>1. CASE ThreadWake \/ ClearTest \/ Grant \/ AbortStart \/ Dropped
  <2>1. UNCHANGED <<wait_q, ops>>
    BY <1>1 DEF ThreadWake, ClearTest, Grant, AbortStart, Dropped
  <2>2. CASE ThreadWake
    BY <1>0, <2>1, <2>2 DEF ThreadWake, WakeInv, Popping
  <2>3. CASE ClearTest
    BY <1>0, <2>1, <2>3 DEF ClearTest, WakeInv, Popping
  <2>4. CASE Grant
    BY <1>0, <2>1, <2>4 DEF Grant, WakeInv, Popping
  <2>5. CASE AbortStart
    BY <1>0, <2>1, <2>5 DEF AbortStart, WakeInv, Popping
  <2>6. CASE Dropped
    BY <1>0, <2>1, <2>6 DEF Dropped, WakeInv, Popping
  <2> QED BY <1>1, <2>2, <2>3, <2>4, <2>5, <2>6
<1>2. CASE TokenOp
  <2>1. UNCHANGED <<wait_q, sema, CLR_PEND>> /\ tpc = "ops" /\ tpc' \in Popping
    BY <1>2 DEF TokenOp, Popping
  <2>2. ops' # <<>> => tpc' # "pop"
    BY <1>2 DEF TokenOp
  <2> QED BY <1>0, <2>1, <2>2 DEF WakeInv, Popping
<1>3. CASE ClearMove
  <2>1. UNCHANGED <<ops, CLR_PEND>> /\ tpc \in {"mov", "dropmov"} /\ tpc' \in Popping \ {"pop"}
    BY <1>3 DEF ClearMove, Popping
  <2>2. \/ UNCHANGED <<wait_q, sema>>
        \/ Len(wait_q') = Len(wait_q) + 1 /\ sema' = sema + 1
    <3>1. CASE pend_q # <<>>
      <4>1. Head(pend_q) \in Slot
        BY <3>1, QueueTail, TypeParts DEF TypeInv, QueueOK
      <4>2. wait_q' = Place(wait_q, Head(pend_q)) /\ sema' = sema + 1
        BY <1>3, <3>1 DEF ClearMove, Link
      <4> QED BY <1>0, <4>1, <4>2, PlaceFacts
    <3>2. CASE pend_q = <<>>
      BY <1>3, <3>2 DEF ClearMove
    <3> QED BY <3>1, <3>2
  <2> QED BY <1>0, <2>1, <2>2 DEF WakeInv, Popping
<1>4. CASE Drop
  <2> DEFINE pended == {s \in OfCommand : Has(s, "PENDING")}
  <2>1. Cardinality(pended) \in Nat
    <3>1. pended \subseteq Slot
      BY DEF OfCommand
    <3> QED BY <3>1, Slots, FS_Subset, FS_CardinalityType
  <2>2. sema' = sema + Cardinality(pended)
    BY <1>4 DEF Drop
  <2> HIDE DEF pended
  <2>3. sema' >= sema
    BY <1>0, <2>1, <2>2
  <2>4. UNCHANGED <<wait_q, ops>> /\ tpc = "drop" /\ tpc' \in {"dropmov", "abort"}
        /\ (CLR_PEND' => CLR_PEND)
    BY <1>4 DEF Drop
  <2> QED BY <1>0, <2>3, <2>4 DEF WakeInv, Popping
<1>5. CASE AbortSend
  <2>1. wait_q' = Append(wait_q, Head(idle_q)) /\ Head(idle_q) \in Slot
    <3>1. idle_q # <<>> /\ idle_q \in Seq(Slot)
      BY <1>5, TypeParts DEF AbortSend, TypeInv, QueueOK
    <3> QED BY <1>5, <3>1, QueueTail DEF AbortSend
  <2>2. Len(wait_q') = Len(wait_q) + 1
    BY <1>0, <2>1, QueueAppend
  <2>3. sema' = sema + 1 /\ tpc = "abort" /\ tpc' = "dropped"
    BY <1>5 DEF AbortSend
  <2> QED BY <1>0, <2>2, <2>3 DEF WakeInv, Popping
<1>6. CASE PopWait
  <2>1. UNCHANGED <<ops, sema, CLR_PEND>> /\ tpc = "pop" /\ tpc' \in {"wait", "chk"}
    BY <1>6 DEF PopWait
  <2>2. Len(wait_q') <= sema
    <3>1. CASE wait_q # <<>>
      <4>1. wait_q' = Tail(wait_q)
        BY <1>6, <3>1 DEF PopWait
      <4>2. Len(wait_q') = Len(wait_q) - 1
        BY <1>0, <3>1, <4>1, QueueTail
      <4> QED BY <1>0, <2>1, <4>2 DEF WakeInv, Popping
    <3>2. CASE wait_q = <<>>
      <4>1. wait_q' = <<>>
        BY <1>6, <3>2 DEF PopWait
      <4> QED BY <1>0, <4>1, EmptySeq
    <3> QED BY <3>1, <3>2
  <2> QED BY <1>0, <2>1, <2>2 DEF WakeInv, Popping
<1>7. CASE CheckCancelled \/ Redirect2 \/ Redirect3 \/ Redirect4 \/ PushPending
  <2>1. UNCHANGED <<wait_q, ops, sema, CLR_PEND>> /\ tpc \notin Popping
    BY <1>7 DEF CheckCancelled, Redirect2, Redirect3, Redirect4, PushPending, Popping
  <2> QED BY <1>0, <2>1, WakeStays
<1>8. CASE Controller \/ PrePhase \/ PostPhase \/ Request
  <2>1. UNCHANGED <<wait_q, CLR_PEND>> /\ tpc \notin Popping
    BY <1>8 DEF Controller, PrePhase, PostPhase, Request, Popping
  <2>2. UNCHANGED <<ops, sema>> \/ CurReqHdl(tmsg)
    BY <1>8 DEF Controller, PrePhase, PostPhase, Request, FeedFails, FeedPends
  <2>3. sema' >= sema /\ (ops' = ops \/ sema' = sema + 1)
    BY <1>0, <2>2, CurReqWakes
  <2> QED BY <1>0, <2>1, <2>3, WakeStays
<1>9. CASE RecycleMsg
  <2>1. UNCHANGED <<wait_q, CLR_PEND>> /\ tpc \notin Popping
    BY <1>9 DEF RecycleMsg, Popping
  <2>2. sema' >= sema /\ (ops' = ops \/ sema' = sema + 1)
    BY <1>9, RecycleWakes DEF RecycleMsg
  <2> QED BY <1>0, <2>1, <2>2, WakeStays
<1> QED BY <1>1, <1>2, <1>3, <1>4, <1>5, <1>6, <1>7, <1>8, <1>9 DEF ThreadStep

LEMMA WakeOthers ==
    ASSUME TypeInv, WakeInv, (\E c \in Client : ClientStep(c)) \/ EnvStep \/ UNCHANGED vars
    PROVE  WakeInv'
<1>0. /\ wait_q \in Seq(Slot) /\ wait_q' \in Seq(Slot) /\ ops \in Seq(OpType)
      /\ sema \in Nat /\ sema' \in Nat
  <2>1. TypeInv'
    BY TypeClient, TypeEnv
  <2>2. QueueOK' /\ DispOK'
    BY <2>1 DEF TypeInv, TypeOK, QueueOK, DispOK
  <2>3. QueueOK /\ DispOK
    BY TypeParts DEF TypeInv
  <2> QED BY <2>2, <2>3 DEF QueueOK, DispOK
<1> USE DEF poolVars, queueVars, dispVars, reqVars, msgVars, vars
<1>1. tpc' = tpc
  BY DEF ClientStep, SendCheck, SendFill, SendPush, CancelCheck, CancelPremap, CancelPostmap,
         CancelFlag, EnvStep, AddReq, CancelReq, MdlBusy, MdlReady, CannotIo, ResumeIo,
         ShallStop, ClrPending
<1>2. ASSUME NEW c \in Client, SendPush(c) PROVE WakeInv'
  <2>1. CLR_PEND' = CLR_PEND
    BY <1>2 DEF SendPush
  <2>2. CASE cl[c].last
    <3>1. Recycle(cl[c].s) /\ wait_q' = wait_q
      BY <1>2, <2>2 DEF SendPush
    <3>2. sema' >= sema /\ (ops' = ops \/ sema' = sema + 1)
      BY <3>1, RecycleWakes
    <3> QED BY <1>0, <1>1, <2>1, <3>1, <3>2, WakeStays
  <2>3. CASE ~cl[c].last
    <3>1. cl[c].s \in Slot
      BY <1>2, TypeParts DEF TypeInv, ActorOK, SendPush, At, ClientCarries, ClientState, SlotOrNull
    <3>2. wait_q' = Place(wait_q, cl[c].s) /\ sema' = sema + 1 /\ ops' = ops
      BY <1>2, <2>3 DEF SendPush, Link
    <3>3. Len(wait_q') = Len(wait_q) + 1
      BY <1>0, <3>1, <3>2, PlaceFacts
    <3> QED BY <1>0, <1>1, <2>1, <3>2, <3>3, WakeStays
  <2> QED BY <2>2, <2>3
<1>3. CASE AddReq \/ CancelReq
  <2>1. UNCHANGED <<wait_q, CLR_PEND>>
    BY <1>3 DEF AddReq, CancelReq
  <2>2. sema' >= sema /\ (ops' = ops \/ sema' = sema + 1)
    <3>1. \E op \in {"add", "cancel"} : Enqueue(op)
      BY <1>3 DEF AddReq, CancelReq
    <3>2. {"add", "cancel"} \subseteq OpType
      BY DEF OpType
    <3> QED BY <1>0, <3>1, <3>2, EnqueueFacts
  <2> QED BY <1>0, <1>1, <2>1, <2>2, WakeStays
<1>4. CASE ClrPending
  <2>1. UNCHANGED <<wait_q, ops>> /\ sema' = sema + 1
    BY <1>4 DEF ClrPending
  <2> QED BY <1>0, <1>1, <2>1, WakeStays
<1>5. CASE UNCHANGED <<wait_q, ops, sema, CLR_PEND>>
  BY <1>0, <1>1, <1>5, WakeStays
<1>6. ASSUME NEW c \in Client, ClientStep(c), ~SendPush(c)
      PROVE  UNCHANGED <<wait_q, ops, sema, CLR_PEND>>
  BY <1>6 DEF ClientStep, SendCheck, SendFill, CancelCheck, CancelPremap, CancelPostmap, CancelFlag
<1>7. ASSUME EnvStep \/ UNCHANGED vars, ~AddReq, ~CancelReq, ~ClrPending
      PROVE  UNCHANGED <<wait_q, ops, sema, CLR_PEND>>
  BY <1>7 DEF EnvStep, MdlBusy, MdlReady, CannotIo, ResumeIo, ShallStop
<1> QED BY <1>2, <1>3, <1>4, <1>5, <1>6, <1>7

LEMMA WakeInvariant == Spec => []WakeInv
<1>1. Init => WakeInv
  BY EmptySeq DEF Init, WakeInv
<1>2. TypeInv /\ WakeInv /\ [Next]_vars => WakeInv'
  BY WakeThread, WakeOthers DEF Next
<1> QED BY <1>1, <1>2, TypeInvariant, PTL DEF Spec

\* When the share thread sleeps with a count of 0, nothing is queued and no
\* request to clear the pending queue is open.
THEOREM ThreadWakesUp == Spec => []NoLostWakeup
<1>1. ASSUME TypeInv, WakeInv PROVE NoLostWakeup
  <2>1. wait_q \in Seq(Slot) /\ Len(wait_q) \in Nat /\ sema \in Nat
    BY <1>1, TypeParts, LenProperties DEF TypeInv, QueueOK, DispOK
  <2>2. ASSUME tpc = "wait", sema = 0 PROVE Len(wait_q) = 0 /\ ops = <<>> /\ ~CLR_PEND
    BY <1>1, <2>1, <2>2 DEF WakeInv, Popping
  <2>3. Len(wait_q) = 0 => wait_q = <<>>
    BY <2>1, EmptySeq
  <2> QED BY <2>2, <2>3 DEF NoLostWakeup
<1> QED BY <1>1, TypeInvariant, WakeInvariant, PTL

-----------------------------------------------------------------------------
(* The pending queue and the order of the wait queue                       *)

\* As long as a message is on the pending queue, or on its way there, what it
\* waits for still lasts or somebody clears the queue or is about to.
THEOREM PendingIsResumed == Spec => []NoStrandedPending
<1>1. Init => NoStrandedPending
  BY DEF Init, NoStrandedPending
<1>2. ASSUME NoStrandedPending, ThreadStep PROVE NoStrandedPending'
  <2> USE DEF Goto, queueVars, dispVars, envVars
  <2>1. CASE ThreadWake \/ TokenOp \/ Grant \/ AbortStart \/ AbortSend \/ Dropped \/ PopWait
             \/ Redirect2 \/ Redirect3 \/ Redirect4 \/ Request \/ RecycleMsg
    <3>1. UNCHANGED <<pend_q, busy, CANNOT_IO, callers, CLR_PEND>> /\ tpc' # "pend"
      BY <2>1 DEF ThreadWake, TokenOp, Grant, AbortStart, AbortSend, Dropped, PopWait, Redirect2,
                  Redirect3, Redirect4, Request, RecycleMsg, Recycle
    <3>2. tpc \notin {"mov", "dropmov"}
      BY <2>1 DEF ThreadWake, TokenOp, Grant, AbortStart, AbortSend, Dropped, PopWait, Redirect2,
                  Redirect3, Redirect4, Request, RecycleMsg
    <3> QED BY <1>2, <3>1, <3>2 DEF NoStrandedPending
  <2>2. CASE ClearTest \/ ClearMove
    BY <1>2, <2>2 DEF NoStrandedPending, ClearTest, ClearMove
  <2>3. CASE Drop
    BY <1>2, <2>3 DEF NoStrandedPending, Drop
  <2>4. CASE CheckCancelled \/ PushPending
    BY <1>2, <2>4 DEF NoStrandedPending, CheckCancelled, PushPending
  <2>5. CASE Controller \/ PrePhase \/ PostPhase
    <3>1. UNCHANGED <<pend_q, busy, CANNOT_IO, callers, CLR_PEND>>
          /\ tpc \notin {"mov", "dropmov"} /\ (tpc' = "pend" => busy)
      BY <2>5 DEF Controller, PrePhase, PostPhase, FeedFails, FeedPends
    <3> QED BY <1>2, <3>1 DEF NoStrandedPending
  <2> QED BY <1>2, <2>1, <2>2, <2>3, <2>4, <2>5 DEF ThreadStep
<1>3. ASSUME NoStrandedPending, NEW c \in Client, ClientStep(c) PROVE NoStrandedPending'
  <2>1. UNCHANGED <<pend_q, busy, CANNOT_IO, callers, CLR_PEND, tpc>>
    BY <1>3 DEF ClientStep, SendCheck, SendFill, SendPush, CancelCheck, CancelPremap,
                CancelPostmap, CancelFlag, queueVars, dispVars, envVars
  <2> QED BY <1>3, <2>1 DEF NoStrandedPending
<1>4. ASSUME NoStrandedPending, EnvStep \/ UNCHANGED vars PROVE NoStrandedPending'
  <2>1. UNCHANGED <<pend_q, tpc>>
    BY <1>4 DEF EnvStep, AddReq, CancelReq, MdlBusy, MdlReady, CannotIo, ResumeIo, ShallStop,
                ClrPending, msgVars, queueVars, vars
  <2>2. busy \/ CANNOT_IO \/ callers # {} \/ CLR_PEND
          => busy' \/ CANNOT_IO' \/ callers' # {} \/ CLR_PEND'
    BY <1>4 DEF EnvStep, AddReq, CancelReq, MdlBusy, MdlReady, CannotIo, ResumeIo, ShallStop,
                ClrPending, dispVars, envVars, vars
  <2> QED BY <1>4, <2>1, <2>2 DEF NoStrandedPending
<1>5. NoStrandedPending /\ [Next]_vars => NoStrandedPending'
  BY <1>2, <1>3, <1>4 DEF Next
<1> QED BY <1>1, <1>5, PTL DEF Spec

\* A queue keeps its order when the messages on it keep their sender.
LEMMA SortedStays ==
    ASSUME NEW q \in Seq(Slot), CtrlSorted(q), \A s \in Elems(q) : id'[s] = id[s],
           wait_q' = q
    PROVE  CtrlFirst'
<1>1. \A i \in DOMAIN q : id'[q[i]] = id[q[i]]
  BY DEF Elems
<1> QED BY <1>1 DEF CtrlSorted, CtrlFirst, IsCtrl

\* The step of one message from or to the wait queue, or of another slot.
LEMMA SortedStep == TypeInv /\ PlaceInv /\ CtrlFirst /\ [Next]_vars => CtrlFirst'
<1> SUFFICES ASSUME TypeInv, PlaceInv, CtrlFirst, [Next]_vars PROVE CtrlFirst'
  OBVIOUS
<1>0. /\ id \in [Slot -> MsgId \cup {NoId}]
      /\ idle_q \in Seq(Slot) /\ wait_q \in Seq(Slot) /\ pend_q \in Seq(Slot)
      /\ cl \in [Client -> ClientState] /\ ClientCarries
      /\ tpc \in Carrying => tmsg \in Slot
  BY TypeParts, Slots DEF TypeInv, PoolOK, QueueOK, ActorOK, ThreadCarries, SlotOrNull
<1>1. CtrlSorted(wait_q)
  BY DEF CtrlFirst, CtrlSorted
<1> USE DEF poolVars, queueVars, msgVars, vars
<1>2. CASE UNCHANGED <<id, wait_q>>
  BY <1>0, <1>1, <1>2, SortedStays
<1>3. ASSUME NEW s \in Slot, id' = id, wait_q' = Place(wait_q, s) PROVE CtrlFirst'
  <2>1. CtrlSorted(Place(wait_q, s)) /\ Place(wait_q, s) \in Seq(Slot)
    BY <1>0, <1>1, PlaceFacts
  <2> QED BY <1>3, <2>1, SortedStays
<1>4. ASSUME NEW s \in Slot, ~Waits(s), NEW x, id' = [id EXCEPT ![s] = x], wait_q' = wait_q
      PROVE  CtrlFirst'
  <2>1. \A t \in Elems(wait_q) : id'[t] = id[t]
    <3>1. \A t \in Elems(wait_q) : t \in Slot /\ t # s
      BY <1>0, <1>4, LenProperties, ElementOfSeq DEF Elems, Waits
    <3> QED BY <1>0, <1>4, <3>1
  <2> QED BY <1>0, <1>1, <1>4, <2>1, SortedStays
<1>5. CASE ClearMove /\ pend_q # <<>>
  <2>1. Head(pend_q) \in Slot
    BY <1>0, <1>5, QueueTail
  <2> QED BY <1>3, <1>5, <2>1 DEF ClearMove, Link
<1>6. CASE PopWait /\ wait_q # <<>>
  <2>1. wait_q' = Tail(wait_q) /\ id' = id
    BY <1>6 DEF PopWait
  <2>2. Tail(wait_q) \in Seq(Slot) /\ CtrlSorted(Tail(wait_q))
    BY <1>0, <1>1, <1>6, TailSorted
  <2>3. \A s \in Elems(Tail(wait_q)) : id'[s] = id[s]
    BY <2>1
  <2> QED BY <2>1, <2>2, <2>3, SortedStays
<1>7. CASE AbortSend
  <2>1. PICK s \in Slot : s = Head(idle_q) /\ Idle(s)
    BY <1>0, <1>7, QueueTail DEF AbortSend, Idle
  <2>2. /\ id' = [id EXCEPT ![s] = [src |-> "req", evt |-> AbortKind.evt]]
        /\ wait_q' = Append(wait_q, s)
    BY <1>7, <2>1, Kinds DEF AbortSend, Fill
  <2>3. \A t \in Elems(wait_q) : t \in Slot /\ t # s /\ id'[t] = id[t]
    <3>1. \A t \in Elems(wait_q) : t \in Slot /\ t # s
      BY <1>0, <2>1, LenProperties, ElementOfSeq DEF Elems, PlaceInv, Waits
    <3> QED BY <1>0, <2>2, <3>1
  <2>4. /\ Len(wait_q) \in Nat /\ DOMAIN wait_q = 1 .. Len(wait_q)
        /\ DOMAIN wait_q' = 1 .. Len(wait_q) + 1
        /\ \A i \in 1 .. Len(wait_q) : wait_q'[i] = wait_q[i]
        /\ wait_q'[Len(wait_q) + 1] = s
    BY <1>0, <2>2, AppendProperties, LenProperties
  <2>5. id'[s].src = "req"
    BY <1>0, <2>2
  <2>6. \A i \in DOMAIN wait_q : wait_q'[i] = wait_q[i] /\ id'[wait_q[i]] = id[wait_q[i]]
    BY <2>3, <2>4 DEF Elems
  <2>7. ASSUME NEW i \in DOMAIN wait_q', NEW j \in DOMAIN wait_q', i < j, id'[wait_q'[j]].src = "ctrl"
        PROVE  id'[wait_q'[i]].src = "ctrl"
    <3>1. j # Len(wait_q) + 1
      BY <2>4, <2>5, <2>7
    <3>2. i \in DOMAIN wait_q /\ j \in DOMAIN wait_q
      BY <2>4, <2>7, <3>1
    <3> QED BY <1>1, <2>6, <2>7, <3>2 DEF CtrlSorted, IsCtrl
  <2> QED BY <2>7 DEF CtrlFirst, IsCtrl
<1>8. CASE RecycleMsg
  <2>1. tmsg \in Slot /\ ~Waits(tmsg)
    BY <1>0, <1>8 DEF RecycleMsg, Carrying, PlaceInv, Carried
  <2> QED BY <1>4, <1>8, <2>1 DEF RecycleMsg, Recycle
<1>9. ASSUME NEW c \in Client, SendFill(c), idle_q # <<>> PROVE CtrlFirst'
  <2>1. PICK s \in Slot : s = Head(idle_q) /\ Idle(s)
    BY <1>0, <1>9, QueueTail DEF Idle
  <2>2. ~Waits(s)
    BY <2>1 DEF PlaceInv
  <2> QED BY <1>4, <1>9, <2>1, <2>2 DEF SendFill, Fill
<1>10. ASSUME NEW c \in Client, SendPush(c) PROVE CtrlFirst'
  <2>1. PICK s \in Slot : s = cl[c].s
    BY <1>0, <1>10 DEF SendPush, At, ClientCarries, ClientState, SlotOrNull
  <2>2. ~Waits(s)
    BY <2>1 DEF PlaceInv, Filled
  <2>3. CASE cl[c].last
    BY <1>4, <1>10, <2>1, <2>2, <2>3 DEF SendPush, Recycle
  <2>4. CASE ~cl[c].last
    BY <1>3, <1>10, <2>1, <2>4 DEF SendPush, Link
  <2> QED BY <2>3, <2>4
<1>11. \/ UNCHANGED <<id, wait_q>>
       \/ (ClearMove /\ pend_q # <<>>) \/ (PopWait /\ wait_q # <<>>) \/ AbortSend \/ RecycleMsg
       \/ \E c \in Client : (SendFill(c) /\ idle_q # <<>>) \/ SendPush(c)
  <2>1. CASE ThreadStep
    BY <2>1 DEF ThreadStep, ThreadWake, ClearTest, ClearMove, TokenOp, Grant, Drop, AbortStart,
                Dropped, PopWait, CheckCancelled, Controller, Redirect2, PrePhase,
                Redirect3, PostPhase, Redirect4, Request, PushPending
  <2>2. ASSUME NEW c \in Client, ClientStep(c)
        PROVE  UNCHANGED <<id, wait_q>> \/ (SendFill(c) /\ idle_q # <<>>) \/ SendPush(c)
    BY <2>2 DEF ClientStep, SendCheck, SendFill, CancelCheck, CancelPremap, CancelPostmap, CancelFlag
  <2>3. CASE EnvStep \/ UNCHANGED vars
    BY <2>3 DEF EnvStep, AddReq, CancelReq, MdlBusy, MdlReady, CannotIo, ResumeIo, ShallStop,
                ClrPending
  <2> QED BY <2>1, <2>2, <2>3 DEF Next
<1> QED BY <1>2, <1>5, <1>6, <1>7, <1>8, <1>9, <1>10, <1>11

\* Controller messages overtake the others on the wait queue, also when they come
\* back from the pending queue (is_higher_priority).
THEOREM ControllerFirst == Spec => []CtrlFirst
<1>1. Init => CtrlFirst
  BY DEF Init, CtrlFirst
<1> QED BY <1>1, SortedStep, TypeInvariant, PlaceInvariant, PTL DEF Spec

-----------------------------------------------------------------------------
(* A message is complete before its command sees it                        *)

\* Nobody is in the middle of a cancel when the clients do not cancel.
NoCancel == \A c \in Client : cl[c].pc \notin {"premap", "postmap", "flag"}

LEMMA NoCancelInvariant == ASSUME ~Cancels PROVE Spec => []NoCancel
<1>1. Init => NoCancel
  BY DEF Init, NoCancel
<1>2. ASSUME NoCancel, TypeInv, NEW c \in Client, ClientStep(c) PROVE NoCancel'
  <2>1. cl \in [Client -> ClientState]
    BY <1>2, TypeParts DEF TypeInv, ActorOK
  <2>2. ~CancelCheck(c) /\ ~CancelPremap(c) /\ ~CancelPostmap(c) /\ ~CancelFlag(c)
    BY <1>2 DEF CancelCheck, CancelPremap, CancelPostmap, CancelFlag, At, NoCancel
  <2>3. PICK x \in {"pop", "idle", "push"} : cl'[c].pc = x
    <3>1. ASSUME NEW k \in Work[c], SendCheck(c, k) PROVE cl'[c].pc = "pop"
      BY <2>1, <3>1 DEF SendCheck, ClientState
    <3>2. SendFill(c) => cl'[c].pc \in {"idle", "push"}
      BY <2>1 DEF SendFill, Step, ClientState
    <3>3. SendPush(c) => cl'[c].pc = "idle"
      BY <2>1 DEF SendPush, ClientState
    <3> QED BY <1>2, <2>2, <3>1, <3>2, <3>3 DEF ClientStep
  <2>4. \A d \in Client \ {c} : cl'[d] = cl[d]
    BY <1>2, <2>1, <2>2 DEF ClientStep, SendCheck, SendFill, SendPush, Step
  <2> QED BY <1>2, <2>3, <2>4 DEF NoCancel
<1>3. ASSUME NoCancel, ThreadStep \/ EnvStep \/ UNCHANGED vars PROVE NoCancel'
  <2>1. cl' = cl
    BY <1>3 DEF ThreadStep, ThreadWake, ClearTest, ClearMove, TokenOp, Grant, Drop, AbortStart,
         AbortSend, Dropped, PopWait, CheckCancelled, Controller, Redirect2, PrePhase,
         Redirect3, PostPhase, Redirect4, Request, PushPending, RecycleMsg, EnvStep, AddReq,
         CancelReq, MdlBusy, MdlReady, CannotIo, ResumeIo, ShallStop, ClrPending, msgVars, vars
  <2> QED BY <1>3, <2>1 DEF NoCancel
<1>4. NoCancel /\ TypeInv /\ [Next]_vars => NoCancel'
  BY <1>2, <1>3 DEF Next
<1> QED BY <1>1, <1>4, TypeInvariant, PTL DEF Spec

\* What PhaseInv says of one slot, and of the message of the share thread.
SlotPhase(s) ==
    /\ Idle(s) => seen[s] = {}
    /\ ~Idle(s) /\ ~Has(s, "CANCEL") => PhaseOf(s)
ThreadPhase ==
    /\ tpc \in Handled => ~Has(tmsg, "CANCEL")
    /\ tpc \in {"pre", "chk3"} => Has(tmsg, "PRE")
    /\ tpc = "chk3" => premap[tmsg] = {}
    /\ tpc = "post" => ~Has(tmsg, "PRE")
    /\ tpc \in {"chk4", "req"} => postmap[tmsg] = {} /\ seen[tmsg] = map[tmsg]
LEMMA PhaseParts == PhaseInv <=> (\A s \in Slot : SlotPhase(s)) /\ ThreadPhase
BY DEF PhaseInv, SlotPhase, ThreadPhase

\* A slot whose bitmaps stay, with the phase.
SameSlot(s) ==
    /\ premap'[s] = premap[s] /\ postmap'[s] = postmap[s]
    /\ map'[s] = map[s] /\ seen'[s] = seen[s]
    /\ "PRE" \in status'[s] <=> "PRE" \in status[s]
LEMMA SlotStays ==
    ASSUME NEW s, SlotPhase(s), SameSlot(s), Idle(s)' <=> Idle(s),
           Has(s, "CANCEL") => Has(s, "CANCEL")',
           premap[s] = {} /\ Carried(s) /\ tpc \in {"pre", "chk3"}
              => Carried(s)' /\ tpc' \in {"pre", "chk3"}
    PROVE  SlotPhase(s)'
BY DEF SlotPhase, SameSlot, PhaseOf, Has, Carried

\* The message that a slot is filled with is before its pre phase.
LEMMA SlotFilled ==
    ASSUME PoolOK, NEW s \in Slot, NEW k, NEW flags, Fill(s, k, flags), seen' = seen,
           seen[s] = {}, "PRE" \in flags
    PROVE  SlotPhase(s)'
<1>1. /\ "PRE" \in status'[s] /\ seen'[s] = {}
      /\ premap'[s] = k.map /\ postmap'[s] = k.map /\ map'[s] = k.map
  BY DEF PoolOK, Fill, SlotMap
<1> QED BY <1>1 DEF SlotPhase, PhaseOf, Has

LEMMA OthersFilled ==
    ASSUME PoolOK, NEW s \in Slot, NEW k, NEW flags, Fill(s, k, flags), seen' = seen,
           NEW t \in Slot \ {s}
    PROVE  SameSlot(t) /\ status'[t] = status[t]
BY DEF PoolOK, Fill, SlotMap, SameSlot

LEMMA OthersRecycled ==
    ASSUME PoolOK, NEW s \in Slot, Recycle(s)
    PROVE  /\ \A t \in Slot \ {s} : SameSlot(t) /\ status'[t] = status[t]
           /\ seen'[s] = {}
BY DEF PoolOK, Recycle, SlotMap, SameSlot

\* The share thread between two messages.
LEMMA PhaseBetween ==
    ASSUME TypeInv, PlaceInv, PhaseInv, ThreadStep,
           ThreadWake \/ ClearTest \/ ClearMove \/ TokenOp \/ Grant \/ Drop \/ AbortStart
           \/ AbortSend \/ Dropped \/ PopWait \/ RecycleMsg
    PROVE  PhaseInv'
<1>0. /\ PoolOK /\ idle_q \in Seq(Slot) /\ (\A s \in Slot : SlotPhase(s))
      /\ tpc \in Carrying => tmsg \in Slot
  BY TypeParts, PhaseParts, Slots
  DEF TypeInv, QueueOK, ActorOK, ThreadCarries, SlotOrNull
<1>1. status \in [Slot -> SUBSET Flag]
  BY <1>0 DEF PoolOK
<1> USE DEF Goto, poolVars, queueVars
<1>2. tpc' \notin Handled
  BY DEF ThreadWake, ClearTest, ClearMove, TokenOp, Grant, Drop, AbortStart, AbortSend, Dropped,
         PopWait, RecycleMsg, Handled, Carrying
<1>3. ThreadPhase'
  BY <1>2 DEF ThreadPhase, Handled, Carrying
<1>4. tpc \notin {"pre", "chk3"}
  BY DEF ThreadWake, ClearTest, ClearMove, TokenOp, Grant, Drop, AbortStart, AbortSend, Dropped,
         PopWait, RecycleMsg
<1>5. ASSUME NEW s \in Slot,
             ThreadWake \/ ClearTest \/ ClearMove \/ TokenOp \/ Grant \/ AbortStart
             \/ Dropped \/ PopWait
      PROVE  SlotPhase(s)'
  <2>1. UNCHANGED <<premap, postmap, map, seen, idle_q>>
    BY <1>5 DEF ThreadWake, ClearTest, ClearMove, TokenOp, Grant, AbortStart, Dropped, PopWait
  <2>2. \/ status' = status
        \/ status' = [status EXCEPT ![Head(pend_q)] = (@ \cup {"ENQ"}) \ {"RUN"}]
        \/ status' = [status EXCEPT ![Head(wait_q)] = (@ \cup {"RUN"}) \ {"ENQ", "PENDING"}]
    BY <1>5 DEF ThreadWake, ClearTest, ClearMove, TokenOp, Grant, AbortStart, Dropped, PopWait, Link
  <2>3. /\ "PRE" \in status'[s] <=> "PRE" \in status[s]
        /\ "CANCEL" \in status'[s] <=> "CANCEL" \in status[s]
    BY <1>1, <2>2
  <2>4. SameSlot(s) /\ (Idle(s)' <=> Idle(s)) /\ (Has(s, "CANCEL") => Has(s, "CANCEL")')
    BY <2>1, <2>3 DEF SameSlot, Idle, Has
  <2> QED BY <1>0, <1>4, <2>4, SlotStays
<1>6. ASSUME NEW s \in Slot, Drop PROVE SlotPhase(s)'
  <2>1. UNCHANGED <<map, seen, idle_q>>
    BY <1>6 DEF Drop
  <2>2. CASE s \in OfCommand
    <3>1. "CANCEL" \in status'[s]
      BY <1>6, <2>2 DEF Drop
    <3> QED BY <1>0, <2>1, <3>1 DEF SlotPhase, Idle, Has
  <2>3. CASE s \notin OfCommand
    <3>1. SameSlot(s) /\ status'[s] = status[s]
      BY <1>6, <2>1, <2>3 DEF Drop, SameSlot
    <3>2. (Idle(s)' <=> Idle(s)) /\ (Has(s, "CANCEL") => Has(s, "CANCEL")')
      BY <2>1, <3>1 DEF Idle, Has
    <3> QED BY <1>0, <1>4, <3>1, <3>2, SlotStays
  <2> QED BY <2>2, <2>3
<1>7. ASSUME NEW t \in Slot, AbortSend PROVE SlotPhase(t)'
  <2>1. PICK s \in Slot : s = Head(idle_q) /\ Idle(s) /\ Elems(idle_q) = Elems(Tail(idle_q)) \cup {s}
    BY <1>0, <1>7, QueueTail DEF AbortSend, Idle
  <2>2. /\ Fill(s, AbortKind, {"REQ", "PRE", "ABORT", "ENQ"}) /\ seen' = seen
        /\ idle_q' = Tail(idle_q)
    BY <1>7, <2>1 DEF AbortSend
  <2>3. CASE t = s
    <3>1. seen[s] = {}
      BY <1>0, <2>1 DEF SlotPhase
    <3> QED BY <1>0, <2>2, <2>3, <3>1, SlotFilled
  <2>4. CASE t # s
    <3>1. SameSlot(t) /\ status'[t] = status[t]
      BY <1>0, <2>2, <2>4, OthersFilled
    <3>2. (Idle(t)' <=> Idle(t)) /\ (Has(t, "CANCEL") => Has(t, "CANCEL")')
      BY <2>1, <2>2, <2>4, <3>1 DEF Idle, Has
    <3> QED BY <1>0, <1>4, <3>1, <3>2, SlotStays
  <2> QED BY <2>3, <2>4
<1>8. ASSUME NEW t \in Slot, RecycleMsg PROVE SlotPhase(t)'
  <2>1. tmsg \in Slot /\ Recycle(tmsg)
    BY <1>0, <1>8 DEF RecycleMsg, Carrying
  <2>2. Elems(idle_q') = Elems(idle_q) \cup {tmsg}
    BY <1>0, <2>1, QueueAppend DEF Recycle
  <2>3. CASE t = tmsg
    BY <1>0, <2>1, <2>2, <2>3, OthersRecycled DEF SlotPhase, Idle
  <2>4. CASE t # tmsg
    <3>1. SameSlot(t) /\ status'[t] = status[t]
      BY <1>0, <2>1, <2>4, OthersRecycled
    <3>2. (Idle(t)' <=> Idle(t)) /\ (Has(t, "CANCEL") => Has(t, "CANCEL")')
      BY <2>2, <2>4, <3>1 DEF Idle, Has
    <3> QED BY <1>0, <1>4, <3>1, <3>2, SlotStays
  <2> QED BY <2>3, <2>4
<1>9. \A s \in Slot : SlotPhase(s)'
  BY <1>5, <1>6, <1>7, <1>8
<1>10. PhaseInv' <=> (\A s \in Slot : SlotPhase(s)') /\ ThreadPhase'
  BY DEF PhaseInv, SlotPhase, ThreadPhase
<1> QED BY <1>3, <1>9, <1>10

\* The share thread with a message.
LEMMA PhaseDispatch ==
    ASSUME TypeInv, PlaceInv, PhaseInv,
           CheckCancelled \/ Controller \/ Redirect2 \/ PrePhase \/ Redirect3 \/ PostPhase
           \/ Redirect4 \/ Request \/ PushPending
    PROVE  PhaseInv'
<1> USE DEF Goto, poolVars, queueVars
<1>0. /\ PoolOK /\ (\A s \in Slot : SlotPhase(s)) /\ ThreadPhase
      /\ tmsg \in Slot /\ tpc \in Carrying \ {"recycle"}
  <2>1. tpc \in Carrying \ {"recycle"}
    BY DEF CheckCancelled, Controller, Redirect2, PrePhase, Redirect3, PostPhase, Redirect4,
           Request, PushPending, Carrying
  <2>2. tmsg \in Slot
    BY <2>1, TypeParts, Slots DEF TypeInv, ActorOK, ThreadCarries, SlotOrNull
  <2> QED BY <2>1, <2>2, TypeParts, PhaseParts DEF TypeInv
<1>1. /\ status \in [Slot -> SUBSET Flag] /\ premap \in [Slot -> SUBSET Mdl]
      /\ postmap \in [Slot -> SUBSET Mdl] /\ seen \in [Slot -> SUBSET Mdl]
  BY <1>0 DEF PoolOK, SlotMap
<1>2. /\ UNCHANGED <<map, idle_q>>
      /\ \A s \in Slot \ {tmsg} : SameSlot(s) /\ status'[s] = status[s]
  <2>1. UNCHANGED <<map, idle_q>>
    BY DEF CheckCancelled, Controller, Redirect2, PrePhase, Redirect3, PostPhase, Redirect4,
           Request, PushPending
  <2>2. status' = status \/ \E f : status' = [status EXCEPT ![tmsg] = f]
    BY DEF CheckCancelled, Controller, Redirect2, PrePhase, Redirect3, PostPhase, Redirect4,
           Request, PushPending, FeedFails, FeedPends
  <2>3. /\ premap' = premap \/ \E f : premap' = [premap EXCEPT ![tmsg] = f]
        /\ postmap' = postmap \/ \E f : postmap' = [postmap EXCEPT ![tmsg] = f]
        /\ seen' = seen \/ \E f : seen' = [seen EXCEPT ![tmsg] = f]
    BY DEF CheckCancelled, Controller, Redirect2, PrePhase, Redirect3, PostPhase, Redirect4,
           Request, PushPending
  <2> QED BY <1>1, <2>1, <2>2, <2>3 DEF SameSlot
<1>3. \A s \in Slot \ {tmsg} : SlotPhase(s)'
  <2>1. ASSUME NEW s \in Slot \ {tmsg} PROVE SlotPhase(s)'
    BY <1>0, <1>2, SlotStays DEF Idle, Has, Carried
  <2> QED BY <2>1
<1>4. tmsg \notin Elems(idle_q') /\ ((~Has(tmsg, "CANCEL")) => PhaseOf(tmsg))
  <2>1. ~Idle(tmsg)
    BY <1>0 DEF PlaceInv, Carried
  <2> QED BY <1>0, <1>2, <2>1 DEF SlotPhase, Idle
\* It is enough to look at the message of the thread.
<1>5. ASSUME "CANCEL" \notin status'[tmsg] =>
                IF "PRE" \in status'[tmsg]
                THEN /\ premap'[tmsg] \cup seen'[tmsg] = map[tmsg] /\ postmap'[tmsg] = map[tmsg]
                     /\ premap'[tmsg] = {}
                           => map[tmsg] = {} \/ (tmsg' = tmsg /\ tpc' \in {"pre", "chk3"})
                ELSE seen'[tmsg] = map[tmsg] /\ postmap'[tmsg] \subseteq map[tmsg],
             tmsg' = tmsg \/ tpc' = "wait",
             tpc' \in Handled => "CANCEL" \notin status'[tmsg],
             tpc' \in {"pre", "chk3"} => "PRE" \in status'[tmsg],
             tpc' = "chk3" => premap'[tmsg] = {},
             tpc' = "post" => "PRE" \notin status'[tmsg],
             tpc' \in {"chk4", "req"} => postmap'[tmsg] = {} /\ seen'[tmsg] = map[tmsg]
      PROVE  PhaseInv'
  <2>1. PICK s \in Slot : s = tmsg
    BY <1>0
  <2>2. SlotPhase(s)'
    BY <1>2, <1>4, <1>5, <2>1 DEF SlotPhase, PhaseOf, Has, Carried, Idle
  <2>3. ThreadPhase'
    BY <1>2, <1>5 DEF ThreadPhase, Has, Handled, Carrying
  <2>4. \A t \in Slot : SlotPhase(t)'
    BY <1>3, <2>1, <2>2
  <2> QED BY <2>3, <2>4 DEF PhaseInv, SlotPhase, ThreadPhase
<1>6. CASE CheckCancelled
  <2>1. /\ tpc = "chk" /\ UNCHANGED <<premap, postmap, seen, tmsg>>
        /\ \/ "CANCEL" \in status'[tmsg] /\ tpc' = "recycle"
           \/ /\ "CANCEL" \in status'[tmsg] <=> "CANCEL" \in status[tmsg]
              /\ "PRE" \in status'[tmsg] <=> "PRE" \in status[tmsg]
              /\ "CANCEL" \notin status[tmsg] /\ tpc' \in {"pend", "ctrl"}
    BY <1>0, <1>1, <1>6 DEF CheckCancelled, Has
  <2>2. CASE "CANCEL" \in status'[tmsg] /\ tpc' = "recycle"
    BY <1>5, <2>1, <2>2 DEF Handled, Carrying
  <2>3. CASE ~ ("CANCEL" \in status'[tmsg] /\ tpc' = "recycle")
    <3>1. "CANCEL" \notin status'[tmsg] /\ tpc' \in {"pend", "ctrl"} /\ "CANCEL" \notin status[tmsg]
      BY <2>1, <2>3
    <3>2. PhaseOf(tmsg) /\ ("PRE" \in status'[tmsg] <=> "PRE" \in status[tmsg])
      BY <1>4, <2>1, <3>1 DEF Has
    <3> QED BY <1>5, <2>1, <3>1, <3>2 DEF PhaseOf, Has, Carried
  <2> QED BY <2>2, <2>3
<1>7. CASE Controller
  <2>1. /\ tpc = "ctrl" /\ UNCHANGED <<premap, postmap, seen, tmsg>>
        /\ tpc' \in {"recycle", "pend", "chk2"}
    BY <1>7 DEF Controller, FeedFails, FeedPends
  <2>2. /\ "CANCEL" \in status'[tmsg] <=> "CANCEL" \in status[tmsg]
        /\ "PRE" \in status'[tmsg] <=> "PRE" \in status[tmsg]
    BY <1>0, <1>1, <1>7 DEF Controller, FeedFails, FeedPends
  <2>3. "CANCEL" \notin status[tmsg]
    BY <1>0, <2>1 DEF ThreadPhase, Handled, Carrying, Has
  <2> QED BY <1>4, <1>5, <2>1, <2>2, <2>3 DEF PhaseOf, Has, Carried
<1>8. CASE Redirect2
  <2>1. /\ tpc = "chk2" /\ UNCHANGED <<status, premap, postmap, seen, tmsg>>
        /\ "CANCEL" \notin status[tmsg]
    BY <1>0, <1>8 DEF Redirect2, ThreadPhase, Handled, Carrying, Has
  <2>2. tpc' = IF "PRE" \notin status[tmsg] THEN "post"
               ELSE IF premap[tmsg] = {} THEN "chk4" ELSE "pre"
    BY <1>8, <2>1 DEF Redirect2, Has
  <2>3. "PRE" \in status[tmsg] /\ premap[tmsg] = {} =>
           map[tmsg] = {} /\ postmap[tmsg] = {} /\ seen[tmsg] = {}
    BY <1>4, <2>1 DEF PhaseOf, Has
  <2> QED BY <1>4, <1>5, <2>1, <2>2, <2>3 DEF PhaseOf, Has, Carried
<1>9. CASE PrePhase
  <2>1. /\ tpc = "pre" /\ UNCHANGED <<postmap, tmsg>>
        /\ "CANCEL" \notin status[tmsg] /\ "PRE" \in status[tmsg]
    BY <1>0, <1>9 DEF PrePhase, ThreadPhase, Handled, Carrying, Has
  <2>2. premap[tmsg] \cup seen[tmsg] = map[tmsg] /\ postmap[tmsg] = map[tmsg]
    BY <1>4, <2>1 DEF PhaseOf, Has
  <2>3. CASE premap[tmsg] = {}
    <3>1. tpc' = "chk3" /\ UNCHANGED <<status, premap, seen>>
      BY <1>9, <2>3 DEF PrePhase
    <3> QED BY <1>5, <2>1, <2>2, <2>3, <3>1
  <2>4. CASE premap[tmsg] # {}
    <3>1. \/ /\ FeedFails(tmsg) \/ \E m : FeedPends(tmsg, m)
             /\ UNCHANGED <<premap, seen>>
          \/ \E m \in premap[tmsg] :
               /\ premap' = [premap EXCEPT ![tmsg] = @ \ {m}]
               /\ seen' = [seen EXCEPT ![tmsg] = @ \cup {m}]
               /\ UNCHANGED <<tpc, status, cur, ops, sema>>
      BY <1>0, <1>1, <1>9, <2>4, PreStep
    <3>2. CASE /\ FeedFails(tmsg) \/ \E m : FeedPends(tmsg, m)
               /\ UNCHANGED <<premap, seen>>
      <4>1. /\ "CANCEL" \notin status'[tmsg] /\ "PRE" \in status'[tmsg]
            /\ tpc' \in {"recycle", "pend"}
        BY <1>0, <1>1, <2>1, <3>2 DEF FeedFails, FeedPends
      <4> QED BY <1>5, <2>1, <2>2, <2>4, <3>2, <4>1
    <3>3. ASSUME NEW m \in premap[tmsg],
                 premap' = [premap EXCEPT ![tmsg] = @ \ {m}],
                 seen' = [seen EXCEPT ![tmsg] = @ \cup {m}],
                 UNCHANGED <<tpc, status, cur, ops, sema>>
          PROVE  PhaseInv'
      <4>1. premap'[tmsg] = premap[tmsg] \ {m} /\ seen'[tmsg] = seen[tmsg] \cup {m}
        BY <1>0, <1>1, <3>3
      <4>2. premap'[tmsg] \cup seen'[tmsg] = map[tmsg]
        BY <2>2, <4>1
      <4> QED BY <1>5, <2>1, <2>2, <3>3, <4>2
    <3> QED BY <3>1, <3>2, <3>3
  <2> QED BY <2>3, <2>4
<1>10. CASE Redirect3
  <2>1. /\ tpc = "chk3" /\ UNCHANGED <<premap, postmap, seen, tmsg>>
        /\ "CANCEL" \notin status[tmsg] /\ "PRE" \in status[tmsg] /\ premap[tmsg] = {}
    BY <1>0, <1>10 DEF Redirect3, ThreadPhase, Handled, Carrying, Has
  <2>2. tpc' = "post" /\ status' = [status EXCEPT ![tmsg] = @ \ {"PRE"}]
    BY <1>10, <2>1 DEF Redirect3, Has
  <2>3. "PRE" \notin status'[tmsg] /\ "CANCEL" \notin status'[tmsg]
    BY <1>0, <1>1, <2>1, <2>2
  <2>4. seen[tmsg] = map[tmsg] /\ postmap[tmsg] = map[tmsg]
    BY <1>4, <2>1 DEF PhaseOf, Has
  <2> QED BY <1>5, <2>1, <2>2, <2>3, <2>4 DEF Handled, Carrying
<1>11. CASE PostPhase
  <2>1. /\ tpc = "post" /\ UNCHANGED <<premap, seen, tmsg>>
        /\ "CANCEL" \notin status[tmsg] /\ "PRE" \notin status[tmsg]
    BY <1>0, <1>11 DEF PostPhase, ThreadPhase, Handled, Carrying, Has
  <2>2. seen[tmsg] = map[tmsg] /\ postmap[tmsg] \subseteq map[tmsg]
    BY <1>4, <2>1 DEF PhaseOf, Has
  <2>3. "CANCEL" \notin status'[tmsg] /\ "PRE" \notin status'[tmsg]
    <3>1. \/ status' = status
          \/ \E f \in {"FAIL", "PENDING"} : status' = [status EXCEPT ![tmsg] = @ \cup {f}]
      BY <1>11 DEF PostPhase, FeedFails, FeedPends
    <3> QED BY <1>0, <1>1, <2>1, <3>1
  <2>4. postmap'[tmsg] \subseteq map[tmsg]
    BY <1>0, <1>1, <1>11, <2>2 DEF PostPhase
  <2>5. tpc' \in {"recycle", "pend", "post"} \/ (tpc' = "chk4" /\ postmap'[tmsg] = {})
    BY <1>11, <2>1 DEF PostPhase, FeedFails, FeedPends
  <2> QED BY <1>5, <2>1, <2>2, <2>3, <2>4, <2>5
<1>12. CASE Redirect4 \/ Request
  <2>1. /\ tpc \in {"chk4", "req"} /\ UNCHANGED <<status, premap, postmap, seen, tmsg>>
        /\ tpc' \in {"recycle", "req"}
    BY <1>12 DEF Redirect4, Request
  <2>2. /\ "CANCEL" \notin status[tmsg] /\ postmap[tmsg] = {} /\ seen[tmsg] = map[tmsg]
    BY <1>0, <2>1 DEF ThreadPhase, Handled, Carrying, Has
  <2> QED BY <1>4, <1>5, <2>1, <2>2 DEF PhaseOf, Has, Carried
<1>13. CASE PushPending
  <2>1. /\ tpc = "pend" /\ UNCHANGED <<premap, postmap, seen>> /\ "CANCEL" \notin status[tmsg]
    BY <1>0, <1>13 DEF PushPending, ThreadPhase, Handled, Carrying, Has
  <2>2. tpc' = "wait" /\ status' = [status EXCEPT ![tmsg] = (@ \cup {"ENQ"}) \ {"RUN"}]
    BY <1>13, <2>1 DEF PushPending, Has
  <2>3. "CANCEL" \notin status'[tmsg] /\ ("PRE" \in status'[tmsg] <=> "PRE" \in status[tmsg])
    BY <1>0, <1>1, <2>1, <2>2
  <2> QED BY <1>4, <1>5, <2>1, <2>2, <2>3 DEF PhaseOf, Has, Carried, Handled, Carrying
<1> QED BY <1>6, <1>7, <1>8, <1>9, <1>10, <1>11, <1>12, <1>13

\* The clients.
LEMMA PhaseClient ==
    ASSUME TypeInv, PlaceInv, PhaseInv, NoCancel, ~Cancels, NEW c \in Client, ClientStep(c)
    PROVE  PhaseInv'
<1>0. /\ PoolOK /\ idle_q \in Seq(Slot) /\ (\A s \in Slot : SlotPhase(s)) /\ ThreadPhase
      /\ cl \in [Client -> ClientState] /\ ClientCarries
      /\ tpc \in Carrying => tmsg \in Slot
  BY TypeParts, PhaseParts, Slots DEF TypeInv, QueueOK, ActorOK, ThreadCarries, SlotOrNull
<1> USE DEF poolVars, queueVars
<1>1. UNCHANGED <<tpc, tmsg>>
  BY DEF ClientStep, SendCheck, SendFill, SendPush, CancelCheck, CancelPremap, CancelPostmap,
         CancelFlag
\* A slot that is filled or given back is not the thread's.
<1>2. ASSUME NEW s \in Slot, ~Carried(s), SlotPhase(s)',
             \A t \in Slot \ {s} : SameSlot(t) /\ status'[t] = status[t],
             \A t \in Slot \ {s} : Idle(t)' <=> Idle(t)
      PROVE  PhaseInv'
  <2>1. ASSUME NEW t \in Slot \ {s} PROVE SlotPhase(t)'
    BY <1>0, <1>1, <1>2, SlotStays DEF Has, Carried
  <2>2. ThreadPhase'
    <3>1. CASE tpc \in Carrying
      <4>1. tmsg \in Slot \ {s}
        BY <1>0, <1>2, <3>1 DEF Carried
      <4>2. SameSlot(tmsg) /\ status'[tmsg] = status[tmsg]
        BY <1>2, <4>1
      <4> QED BY <1>0, <1>1, <4>2 DEF ThreadPhase, SameSlot, Has
    <3>2. CASE tpc \notin Carrying
      BY <1>1, <3>2 DEF ThreadPhase, Handled, Carrying
    <3> QED BY <3>1, <3>2
  <2> QED BY <1>2, <2>1, <2>2 DEF PhaseInv, SlotPhase, ThreadPhase
<1>3. CASE SendFill(c) /\ idle_q # <<>>
  <2>1. PICK s \in Slot : s = Head(idle_q) /\ Idle(s) /\ Elems(idle_q) = Elems(Tail(idle_q)) \cup {s}
    BY <1>0, <1>3, QueueTail DEF Idle
  <2>2. PICK flags : /\ Fill(s, cl[c].kind, flags) /\ "PRE" \in flags
                     /\ seen' = seen /\ idle_q' = Tail(idle_q)
    BY <1>3, <2>1 DEF SendFill
  <2>3. seen[s] = {} /\ ~Carried(s)
    BY <1>0, <2>1 DEF SlotPhase, PlaceInv
  <2>4. SlotPhase(s)'
    BY <1>0, <2>2, <2>3, SlotFilled
  <2>5. \A t \in Slot \ {s} : SameSlot(t) /\ status'[t] = status[t]
    BY <1>0, <2>2, OthersFilled
  <2>6. \A t \in Slot \ {s} : Idle(t)' <=> Idle(t)
    BY <2>1, <2>2 DEF Idle
  <2> QED BY <1>2, <2>3, <2>4, <2>5, <2>6
<1>4. CASE SendPush(c)
  <2>1. PICK s \in Slot : s = cl[c].s
    BY <1>0, <1>4 DEF SendPush, At, ClientCarries, ClientState, SlotOrNull
  <2>2. ~Carried(s) /\ ~Idle(s)
    BY <2>1 DEF PlaceInv, Filled
  <2>3. CASE cl[c].last
    <3>1. Recycle(s)
      BY <1>4, <2>1, <2>3 DEF SendPush
    <3>2. Elems(idle_q') = Elems(idle_q) \cup {s}
      BY <1>0, <3>1, QueueAppend DEF Recycle
    <3>3. \A t \in Slot \ {s} : SameSlot(t) /\ status'[t] = status[t]
      BY <1>0, <3>1, OthersRecycled
    <3>4. SlotPhase(s)' /\ \A t \in Slot \ {s} : Idle(t)' <=> Idle(t)
      BY <1>0, <3>1, <3>2, OthersRecycled DEF SlotPhase, Idle
    <3> QED BY <1>2, <2>2, <3>3, <3>4
  <2>4. CASE ~cl[c].last
    <3>1. /\ status' = [status EXCEPT ![s] = (@ \cup {"ENQ"}) \ {"RUN"}]
          /\ UNCHANGED <<premap, postmap, map, seen, idle_q>>
      BY <1>4, <2>1, <2>4 DEF SendPush, Link
    <3>2. \A t \in Slot \ {s} : SameSlot(t) /\ status'[t] = status[t] /\ (Idle(t)' <=> Idle(t))
      BY <1>0, <3>1 DEF SameSlot, PoolOK, Idle
    <3>3. SameSlot(s) /\ (Has(s, "CANCEL") => Has(s, "CANCEL")') /\ (Idle(s)' <=> Idle(s))
      BY <1>0, <3>1 DEF SameSlot, PoolOK, Has, Idle
    <3>4. SlotPhase(s)'
      BY <1>0, <1>1, <3>3, SlotStays DEF Carried
    <3> QED BY <1>2, <2>2, <3>2, <3>4
  <2> QED BY <2>3, <2>4
<1>5. CASE UNCHANGED <<status, premap, postmap, map, seen, idle_q>>
  BY <1>1, <1>5 DEF PhaseInv, PhaseOf, Has, Idle, Carried
<1>6. ~CancelPremap(c) /\ ~CancelPostmap(c) /\ ~CancelFlag(c)
  BY DEF CancelPremap, CancelPostmap, CancelFlag, At, NoCancel
<1> QED BY <1>3, <1>4, <1>5, <1>6 DEF ClientStep, SendCheck, SendFill, CancelCheck

LEMMA PhaseStep ==
    ASSUME ~Cancels
    PROVE  TypeInv /\ PlaceInv /\ NoCancel /\ PhaseInv /\ [Next]_vars => PhaseInv'
<1>1. ASSUME PhaseInv, EnvStep \/ UNCHANGED vars PROVE PhaseInv'
  <2>1. UNCHANGED <<status, premap, postmap, map, seen, idle_q, tpc, tmsg>>
    BY <1>1 DEF EnvStep, AddReq, CancelReq, MdlBusy, MdlReady, CannotIo, ResumeIo, ShallStop,
                ClrPending, msgVars, poolVars, queueVars, vars
  <2> QED BY <1>1, <2>1 DEF PhaseInv, PhaseOf, Has, Idle, Carried
<1>2. ASSUME TypeInv, PlaceInv, PhaseInv, ThreadStep PROVE PhaseInv'
  BY <1>2, PhaseBetween, PhaseDispatch DEF ThreadStep
<1> QED BY <1>1, <1>2, PhaseClient DEF Next

\* When no client cancels, a message reaches the foreground command only after
\* every module of the bitmap it was sent with has seen it in both phases, and a
\* module sees the post phase only after the pre phase, however often the message
\* was pending in between.
THEOREM CompleteBeforeCommand == ASSUME ~Cancels PROVE Spec => []DeliveredToAll
<1>1. Init => PhaseInv
  <2>1. ASSUME Init PROVE PlaceInv /\ tpc = "wait" /\ \A s \in Slot : Idle(s) /\ seen[s] = {}
    <3>1. PlaceInv
      BY <2>1, PlaceInit
    <3>2. \A s \in Slot : ~Waits(s) /\ ~Parked(s) /\ ~Filled(s) /\ ~Carried(s) /\ seen[s] = {}
      BY <2>1, Slots DEF Init, Waits, Parked, Filled, Carried, Elems
    <3> QED BY <2>1, <3>1, <3>2 DEF PlaceInv, Init
  <2> QED BY <2>1 DEF PhaseInv, Handled, Carrying
<1>2. ASSUME TypeInv, PlaceInv, PhaseInv PROVE DeliveredToAll
  <2>1. ASSUME tpc = "post" PROVE postmap[tmsg] \subseteq seen[tmsg]
    <3>1. tmsg \in Slot /\ ~Idle(tmsg)
      BY <1>2, <2>1, TypeParts, Slots
      DEF TypeInv, ActorOK, ThreadCarries, Carrying, SlotOrNull, PlaceInv, Carried
    <3>2. PhaseOf(tmsg) /\ ~Has(tmsg, "PRE")
      BY <1>2, <2>1, <3>1 DEF PhaseInv, Handled, Carrying
    <3> QED BY <3>2 DEF PhaseOf
  <2> QED BY <1>2, <2>1 DEF PhaseInv, DeliveredToAll
<1> QED BY <1>1, <1>2, PhaseStep, NoCancelInvariant, TypeInvariant, PlaceInvariant, PTL DEF Spec

-----------------------------------------------------------------------------
(* The sender of a pending message is silent                               *)

\* A used slot has a message, and a pending message a used slot.
LEMMA OwnStays ==
    ASSUME TypeInv, PlaceInv, OwnInv, id' = id, Elems(idle_q') = Elems(idle_q),
           \A s \in Slot \ {tmsg} : "PENDING" \in status'[s] => "PENDING" \in status[s]
    PROVE  OwnInv'
<1>1. ASSUME NEW s \in Slot
      PROVE  (~Idle(s)' => id'[s] \in MsgId) /\ (Has(s, "PENDING")' => ~Idle(s)')
  <2>1. Carried(s) => ~Idle(s)
    BY DEF PlaceInv
  <2> QED BY <1>1, <2>1 DEF OwnInv, Idle, Has, Carried
<1> QED BY <1>1 DEF OwnInv

\* The flags of a slot that the step of another slot leaves alone.
LEMMA OthersStatus ==
    ASSUME TypeInv, [Next]_vars, NEW s \in Slot \ {tmsg}
    PROVE  "PENDING" \in status'[s] => "PENDING" \in status[s]
<1>0. status \in [Slot -> SUBSET Flag] /\ cl \in [Client -> ClientState] /\ ClientKnows
  BY TypeParts DEF TypeInv, PoolOK, ActorOK
<1> USE DEF poolVars
<1>1. CASE ThreadStep
  <2>1. CASE ThreadWake \/ ClearTest \/ TokenOp \/ Grant \/ AbortStart \/ Dropped \/ Redirect2
             \/ Redirect4 \/ Request
    BY <2>1 DEF ThreadWake, ClearTest, TokenOp, Grant, AbortStart, Dropped, Redirect2,
                Redirect4, Request
  <2>2. CASE ClearMove
    <3>1. \/ status' = status
          \/ status' = [status EXCEPT ![Head(pend_q)] = (@ \cup {"ENQ"}) \ {"RUN"}]
      BY <2>2 DEF ClearMove, Link
    <3> QED BY <1>0, <3>1
  <2>3. CASE PopWait
    <3>1. \/ status' = status
          \/ status' = [status EXCEPT ![Head(wait_q)] = (@ \cup {"RUN"}) \ {"ENQ", "PENDING"}]
      BY <2>3 DEF PopWait
    <3> QED BY <1>0, <3>1
  <2>4. CASE Drop
    BY <1>0, <2>4 DEF Drop
  <2>5. CASE AbortSend
    <3>1. status' = [status EXCEPT ![Head(idle_q)] = {"REQ", "PRE", "ABORT", "ENQ"} \cup AbortKind.opt]
      BY <2>5 DEF AbortSend, Fill
    <3>2. "PENDING" \notin AbortKind.opt
      BY Kinds DEF Option
    <3> QED BY <1>0, <3>1, <3>2
  <2>6. CASE CheckCancelled \/ Controller \/ PrePhase \/ Redirect3 \/ PostPhase \/ PushPending
             \/ RecycleMsg
    <3>1. status' = status \/ \E f : status' = [status EXCEPT ![tmsg] = f]
      BY <2>6 DEF CheckCancelled, Controller, PrePhase, Redirect3, PostPhase, PushPending,
                  RecycleMsg, Recycle, FeedFails, FeedPends
    <3> QED BY <1>0, <3>1
  <2> QED BY <1>1, <2>1, <2>2, <2>3, <2>4, <2>5, <2>6 DEF ThreadStep
<1>2. ASSUME NEW c \in Client, ClientStep(c)
      PROVE  "PENDING" \in status'[s] => "PENDING" \in status[s]
  <2>1. ASSUME NEW k \in Work[c], SendCheck(c, k) PROVE status' = status
    BY <2>1 DEF SendCheck
  <2>2. CASE SendFill(c)
    <3>1. \/ status' = status
          \/ \E flags \in SUBSET {"PRE", "REQ", "BK"} :
                status' = [status EXCEPT ![Head(idle_q)] = flags \cup cl[c].kind.opt]
      BY <2>2 DEF SendFill, Fill
    <3>2. "PENDING" \notin cl[c].kind.opt
      BY <1>0, Kinds DEF ClientState, Option
    <3> QED BY <1>0, <3>1, <3>2
  <2>3. CASE SendPush(c)
    <3>1. \/ status' = [status EXCEPT ![cl[c].s] = {}]
          \/ status' = [status EXCEPT ![cl[c].s] = (@ \cup {"ENQ"}) \ {"RUN"}]
      BY <2>3 DEF SendPush, Recycle, Link
    <3> QED BY <1>0, <3>1
  <2>4. CASE CancelCheck(c) \/ CancelPremap(c) \/ CancelPostmap(c) \/ CancelFlag(c)
    <3>1. \/ status' = status
          \/ status' = [status EXCEPT ![cl[c].hdl] = @ \cup {"CANCEL"}]
      BY <2>4 DEF CancelCheck, CancelPremap, CancelPostmap, CancelFlag
    <3> QED BY <1>0, <3>1
  <2> QED BY <1>2, <2>1, <2>2, <2>3, <2>4 DEF ClientStep
<1>3. CASE EnvStep \/ UNCHANGED vars
  BY <1>3 DEF EnvStep, AddReq, CancelReq, MdlBusy, MdlReady, CannotIo, ResumeIo, ShallStop,
              ClrPending, msgVars, vars
<1> QED BY <1>1, <1>2, <1>3 DEF Next

\* A slot leaves the idle queue with a message.
LEMMA OwnFilled ==
    ASSUME TypeInv, PlaceInv, OwnInv, [Next]_vars, idle_q # <<>>, idle_q' = Tail(idle_q),
           NEW k \in Kind, NEW flags \in SUBSET (Flag \ {"PENDING"}), Fill(Head(idle_q), k, flags)
    PROVE  OwnInv'
<1>0. /\ status \in [Slot -> SUBSET Flag] /\ id \in [Slot -> MsgId \cup {NoId}]
      /\ idle_q \in Seq(Slot)
  BY TypeParts DEF TypeInv, PoolOK, QueueOK
<1>1. PICK s \in Slot : s = Head(idle_q)
  BY <1>0, QueueTail
<1>2. /\ Elems(idle_q) = Elems(idle_q') \cup {s}
      /\ Injective(idle_q) => s \notin Elems(idle_q')
  BY <1>0, <1>1, QueueTail
<1>3. s \notin Elems(idle_q') /\ ~Carried(s)
  BY <1>2 DEF PlaceInv, Idle
<1>4. /\ id' = [id EXCEPT ![s] = [src |-> k.src, evt |-> k.evt]]
      /\ [src |-> k.src, evt |-> k.evt] \in MsgId
  BY <1>1, Kinds DEF Fill
<1>5. "PENDING" \notin status'[s]
  <2>1. status' = [status EXCEPT ![s] = flags \cup k.opt] /\ "PENDING" \notin k.opt
    BY <1>1, Kinds DEF Fill, Option
  <2> QED BY <1>0, <2>1
<1>6. ASSUME NEW t \in Slot
      PROVE  (~Idle(t)' => id'[t] \in MsgId) /\ (Has(t, "PENDING")' => ~Idle(t)')
  <2>1. CASE t = s
    BY <1>0, <1>4, <1>5, <2>1 DEF Has
  <2>2. CASE t # s
    <3>1. id'[t] = id[t] /\ (Idle(t)' <=> Idle(t))
      BY <1>0, <1>2, <1>4, <2>2 DEF Idle
    <3>2. CASE Carried(t)
      BY <3>1, <3>2 DEF OwnInv, PlaceInv
    <3>3. CASE ~Carried(t)
      <4>1. "PENDING" \in status'[t] => "PENDING" \in status[t]
        BY <3>3, OthersStatus DEF Carried
      <4> QED BY <3>1, <4>1 DEF OwnInv, Has
    <3> QED BY <3>2, <3>3
  <2> QED BY <2>1, <2>2
<1> QED BY <1>6 DEF OwnInv

\* A slot goes back to the idle queue without one.
LEMMA OwnRecycled ==
    ASSUME TypeInv, PlaceInv, OwnInv, [Next]_vars, NEW s \in Slot, Recycle(s)
    PROVE  OwnInv'
<1>0. /\ status \in [Slot -> SUBSET Flag] /\ id \in [Slot -> MsgId \cup {NoId}]
      /\ idle_q \in Seq(Slot)
  BY TypeParts DEF TypeInv, PoolOK, QueueOK
<1>1. Elems(idle_q') = Elems(idle_q) \cup {s}
  BY <1>0, QueueAppend DEF Recycle
<1>2. ASSUME NEW t \in Slot
      PROVE  (~Idle(t)' => id'[t] \in MsgId) /\ (Has(t, "PENDING")' => ~Idle(t)')
  <2>1. CASE t = s
    BY <1>0, <1>1, <2>1 DEF Recycle, Has, Idle
  <2>2. CASE t # s
    <3>1. id'[t] = id[t] /\ status'[t] = status[t] /\ (Idle(t)' <=> Idle(t))
      BY <1>0, <1>1, <2>2 DEF Recycle, Idle
    <3> QED BY <3>1 DEF OwnInv, Has
  <2> QED BY <2>1, <2>2
<1> QED BY <1>2 DEF OwnInv

LEMMA OwnStep == TypeInv /\ PlaceInv /\ OwnInv /\ [Next]_vars => OwnInv'
<1> SUFFICES ASSUME TypeInv, PlaceInv, OwnInv, [Next]_vars PROVE OwnInv'
  OBVIOUS
<1>0. cl \in [Client -> ClientState] /\ ClientCarries /\ (tpc \in Carrying => tmsg \in Slot)
  BY TypeParts, Slots DEF TypeInv, ActorOK, ThreadCarries, SlotOrNull
<1> USE DEF poolVars, queueVars, msgVars, vars
<1>1. CASE id' = id /\ idle_q' = idle_q
  BY <1>1, OthersStatus, OwnStays
<1>2. CASE AbortSend
  <2>1. {"REQ", "PRE", "ABORT", "ENQ"} \in SUBSET (Flag \ {"PENDING"})
    BY DEF Flag
  <2> QED BY <1>2, <2>1, Kinds, OwnFilled DEF AbortSend
<1>3. CASE RecycleMsg
  BY <1>0, <1>3, OwnRecycled DEF RecycleMsg, Carrying
<1>4. ASSUME NEW c \in Client, SendFill(c), idle_q # <<>> PROVE OwnInv'
  <2>1. PICK flags \in SUBSET {"PRE", "REQ", "BK"} :
           Fill(Head(idle_q), cl[c].kind, flags) /\ idle_q' = Tail(idle_q)
    BY <1>4 DEF SendFill
  <2>2. flags \in SUBSET (Flag \ {"PENDING"}) /\ cl[c].kind \in Kind
    BY <1>0, <2>1 DEF Flag, ClientState
  <2> QED BY <1>4, <2>1, <2>2, OwnFilled
<1>5. ASSUME NEW c \in Client, SendPush(c) PROVE OwnInv'
  <2>1. CASE cl[c].last
    <3>1. cl[c].s \in Slot
      BY <1>0, <1>5 DEF SendPush, At, ClientCarries, ClientState, SlotOrNull
    <3> QED BY <1>5, <2>1, <3>1, OwnRecycled DEF SendPush
  <2>2. CASE ~cl[c].last
    BY <1>1, <1>5, <2>2 DEF SendPush
  <2> QED BY <2>1, <2>2
<1>6. \/ UNCHANGED <<id, idle_q>> \/ AbortSend \/ RecycleMsg
      \/ \E c \in Client : (SendFill(c) /\ idle_q # <<>>) \/ SendPush(c)
  <2>1. CASE ThreadStep
    BY <2>1 DEF ThreadStep, ThreadWake, ClearTest, ClearMove, TokenOp, Grant, Drop, AbortStart,
                Dropped, PopWait, CheckCancelled, Controller, Redirect2, PrePhase,
                Redirect3, PostPhase, Redirect4, Request, PushPending
  <2>2. ASSUME NEW c \in Client, ClientStep(c)
        PROVE  UNCHANGED <<id, idle_q>> \/ (SendFill(c) /\ idle_q # <<>>) \/ SendPush(c)
    BY <2>2 DEF ClientStep, SendCheck, SendFill, CancelCheck, CancelPremap, CancelPostmap, CancelFlag
  <2>3. CASE EnvStep \/ UNCHANGED vars
    BY <2>3 DEF EnvStep, AddReq, CancelReq, MdlBusy, MdlReady, CannotIo, ResumeIo, ShallStop,
                ClrPending
  <2> QED BY <2>1, <2>2, <2>3 DEF Next
<1> QED BY <1>1, <1>2, <1>3, <1>4, <1>5, <1>6

LEMMA OwnInvariant == Spec => []OwnInv
<1>1. Init => OwnInv
  <2>1. ASSUME Init PROVE PlaceInv /\ \A s \in Slot : ~Has(s, "PENDING") /\ ~Waits(s) /\ ~Parked(s)
                                                   /\ ~Filled(s) /\ ~Carried(s)
    BY <2>1, PlaceInit, Slots DEF Init, Has, Waits, Parked, Filled, Carried, Elems
  <2> QED BY <2>1 DEF OwnInv, PlaceInv
<1> QED BY <1>1, OwnStep, TypeInvariant, PlaceInvariant, PTL DEF Spec

\* A step that makes no other message silence its sender, and dispatches none.
LEMMA SilentStays ==
    ASSUME TypeInv, SilentInv, tmsg' = tmsg,
           \A s \in Slot \ {tmsg} : Silences(s)' =>
               Silences(s) /\ id'[s] = id[s] /\ pending_evt'[id[s].src] = pending_evt[id[s].src],
           tpc' \in Dropping => tpc \in Dropping,
           tpc' \in Heard => tpc \in Heard /\ id'[tmsg] = id[tmsg]
    PROVE  SilentInv'
<1>1. tpc \in Dropping => tmsg = Null /\ Null \notin Slot
  BY Slots DEF TypeInv, ThreadCarries, Carrying, Dropping, Ending
<1>2. \A s \in Slot \ {tmsg'} : Silences(s)' => pending_evt'[id'[s].src] = id'[s].evt
  BY DEF SilentInv
<1>3. tpc' \in Dropping => \A s \in Slot : Silences(s)' => id'[s].src # "req"
  BY <1>1 DEF SilentInv
<1>4. tpc' \in Heard => \A s \in Slot \ {tmsg'} : Silences(s)' => id'[s].src # id'[tmsg'].src
  BY DEF SilentInv
<1> QED BY <1>2, <1>3, <1>4 DEF SilentInv

\* The flags decide whether a message silences its sender.
LEMMA SilencesStays ==
    ASSUME NEW s, Silences(s)', "PENDING" \in status'[s] => "PENDING" \in status[s],
           "CLR_SNDR" \in status'[s] => "CLR_SNDR" \in status[s],
           "CANCEL" \in status[s] => "CANCEL" \in status'[s]
    PROVE  Silences(s)
BY DEF Silences, Has

\* The event of a finished message is not the pending one of another.
LEMMA SilentRecycled ==
    ASSUME TypeInv, OwnInv, SilentInv, SingleEvent, NEW s \in Slot, Recycle(s),
           NEW t \in Slot \ {tmsg}, Silences(t)'
    PROVE  Silences(t) /\ id'[t] = id[t] /\ pending_evt'[id[t].src] = pending_evt[id[t].src]
<1>0. /\ status \in [Slot -> SUBSET Flag] /\ id \in [Slot -> MsgId \cup {NoId}]
      /\ pending_evt \in [Src -> Evt \cup {None}]
  BY TypeParts DEF TypeInv, PoolOK, DispOK
<1>1. t # s
  BY <1>0 DEF Recycle, Silences
<1>2. Silences(t) /\ id'[t] = id[t]
  BY <1>0, <1>1 DEF Recycle, Silences, Has
<1>3. id[t] \in MsgId /\ id[t] # id[s] /\ pending_evt[id[t].src] = id[t].evt
  BY <1>1, <1>2 DEF OwnInv, SingleEvent, SilentInv, Silences, Has
<1>4. ~ (id[t].src = id[s].src /\ id[t].evt = id[s].evt)
  <2>1. id[s] \in MsgId \/ id[s] = NoId
    BY <1>0
  <2> QED BY <1>3, <2>1 DEF MsgId, NoId
<1>5. id[t].src \in Src
  BY <1>3 DEF MsgId
<1>6. pending_evt'[id[t].src] = IF id[t].src = id[s].src /\ pending_evt[id[t].src] = id[s].evt
                                THEN None ELSE pending_evt[id[t].src]
  BY <1>5 DEF Recycle
<1> QED BY <1>2, <1>3, <1>4, <1>6

LEMMA SilentThread ==
    ASSUME TypeInv, PlaceInv, OwnInv, SilentInv, SingleEvent, ThreadStep
    PROVE  SilentInv'
<1>0. /\ status \in [Slot -> SUBSET Flag] /\ id \in [Slot -> MsgId \cup {NoId}]
      /\ pending_evt \in [Src -> Evt \cup {None}] /\ idle_q \in Seq(Slot) /\ wait_q \in Seq(Slot)
      /\ tpc \in Carrying => tmsg \in Slot
      /\ tpc \notin Carrying => tmsg = Null
  BY TypeParts, Slots DEF TypeInv, PoolOK, DispOK, QueueOK, ActorOK, ThreadCarries, SlotOrNull
<1> USE DEF Goto, poolVars, queueVars
<1>1. CASE ThreadWake \/ ClearTest \/ TokenOp \/ Grant \/ AbortStart \/ Redirect2 \/ Redirect4
           \/ Request
  <2>1. UNCHANGED <<status, id, pending_evt, tmsg>>
    BY <1>1 DEF ThreadWake, ClearTest, TokenOp, Grant, AbortStart, Redirect2, Redirect4, Request
  <2>2. \A s \in Slot : Silences(s)' => Silences(s)
    BY <2>1 DEF Silences, Has
  <2>3. /\ tpc' \in Dropping => tpc \in Dropping
        /\ tpc' \in Heard => tpc \in Heard
    BY <1>1 DEF ThreadWake, ClearTest, TokenOp, Grant, AbortStart, Redirect2, Redirect4, Request,
                Dropping, Ending, Heard, Dispatching
  <2> QED BY <2>1, <2>2, <2>3, SilentStays
<1>2. CASE ClearMove
  <2>1. UNCHANGED <<id, pending_evt, tmsg>>
    BY <1>2 DEF ClearMove
  <2>2. \/ status' = status
        \/ status' = [status EXCEPT ![Head(pend_q)] = (@ \cup {"ENQ"}) \ {"RUN"}]
    BY <1>2 DEF ClearMove, Link
  <2>3. \A s \in Slot : Silences(s)' => Silences(s)
    BY <1>0, <2>2 DEF Silences, Has
  <2>4. /\ tpc' \in Dropping => tpc \in Dropping
        /\ tpc' \notin Heard
    BY <1>2 DEF ClearMove, Dropping, Ending, Heard, Dispatching
  <2> QED BY <2>1, <2>3, <2>4, SilentStays
<1>3. CASE Drop
  <2>1. UNCHANGED <<id, pending_evt, tmsg>> /\ tpc' \notin Heard
    BY <1>3 DEF Drop, Heard, Dispatching
  <2>2. ASSUME NEW s \in Slot, Silences(s)' PROVE Silences(s) /\ id[s].src # "req"
    BY <1>0, <1>3, <2>2 DEF Drop, OfCommand, Silences, Has
  <2> QED BY <2>1, <2>2 DEF SilentInv
<1>4. CASE AbortSend
  <2>1. PICK s \in Slot : s = Head(idle_q)
    BY <1>0, <1>4, QueueTail DEF AbortSend
  <2>2. /\ status' = [status EXCEPT ![s] = {"REQ", "PRE", "ABORT", "ENQ"} \cup AbortKind.opt]
        /\ id' = [id EXCEPT ![s] = [src |-> AbortKind.src, evt |-> AbortKind.evt]]
        /\ UNCHANGED <<pending_evt, tmsg>> /\ tpc = "abort" /\ tpc' = "dropped"
    BY <1>4, <2>1 DEF AbortSend, Fill
  <2>3. "PENDING" \notin AbortKind.opt
    BY Kinds DEF Option
  <2>4. \A t \in Slot : Silences(t)' => t # s /\ Silences(t) /\ id'[t] = id[t]
    BY <1>0, <2>2, <2>3 DEF Silences, Has
  <2>5. tpc \in Dropping /\ tpc' \notin Heard
    BY <2>2 DEF Dropping, Ending, Heard, Dispatching
  <2> QED BY <2>2, <2>4, <2>5, SilentStays
<1>5. CASE Dropped
  <2>1. /\ UNCHANGED <<status, id, tmsg>> /\ tpc = "dropped" /\ tpc' = "grant"
        /\ pending_evt' = [pending_evt EXCEPT !["req"] = None]
    BY <1>5 DEF Dropped
  <2>2. tpc \in Dropping /\ tpc' \notin Dropping /\ tpc' \notin Heard
    BY <2>1 DEF Dropping, Ending, Heard, Dispatching
  <2>3. ASSUME NEW s \in Slot, Silences(s)'
        PROVE  Silences(s) /\ pending_evt'[id[s].src] = pending_evt[id[s].src]
    <3>1. Silences(s)
      BY <2>1, <2>3 DEF Silences, Has
    <3>2. id[s].src # "req" /\ id[s] \in MsgId
      BY <2>2, <3>1 DEF SilentInv, OwnInv, Silences, Has
    <3>3. id[s].src \in Src
      BY <3>2 DEF MsgId
    <3> QED BY <1>0, <2>1, <3>1, <3>2, <3>3
  <2> QED BY <2>1, <2>2, <2>3, SilentStays
<1>6. CASE PopWait
  <2>1. CASE wait_q = <<>>
    <3>1. UNCHANGED <<status, id, pending_evt, tmsg>> /\ tpc' = "wait"
      BY <1>6, <2>1 DEF PopWait
    <3>2. \A s \in Slot : Silences(s)' => Silences(s)
      BY <3>1 DEF Silences, Has
    <3>3. tpc' \notin Dropping /\ tpc' \notin Heard
      BY <3>1 DEF Dropping, Ending, Heard, Dispatching
    <3> QED BY <3>1, <3>2, <3>3, SilentStays
  <2>2. CASE wait_q # <<>>
    <3>1. PICK s \in Slot : s = Head(wait_q)
      BY <1>0, <2>2, QueueTail
    <3>2. /\ UNCHANGED <<id, pending_evt>> /\ tpc' = "chk" /\ tmsg = Null
          /\ status' = [status EXCEPT ![s] = (@ \cup {"RUN"}) \ {"ENQ", "PENDING"}]
      BY <1>0, <1>6, <2>2, <3>1 DEF PopWait, Carrying
    <3>3. \A t \in Slot : Silences(t)' => Silences(t)
      BY <1>0, <3>2 DEF Silences, Has
    <3>4. tpc' \notin Dropping /\ tpc' \notin Heard
      BY <3>2 DEF Dropping, Ending, Heard, Dispatching
    <3> QED BY <3>2, <3>3, <3>4, Slots DEF SilentInv
  <2> QED BY <2>1, <2>2
<1>7. CASE CheckCancelled
  <2>1. /\ UNCHANGED <<id, pending_evt, tmsg>> /\ tmsg \in Slot
        /\ tpc' \in {"recycle", "pend", "ctrl"}
    BY <1>0, <1>7 DEF CheckCancelled, Carrying
  <2>2. \A s \in Slot \ {tmsg} : Silences(s)' => Silences(s)
    BY <1>0, <1>7 DEF CheckCancelled, Silences, Has
  <2>3. tpc' # "recycle" => pending_evt[id[tmsg].src] \in {None, id[tmsg].evt}
    BY <1>7 DEF CheckCancelled, Superseded
  <2>4. ASSUME tpc' # "recycle", NEW s \in Slot \ {tmsg}, Silences(s), id[s].src = id[tmsg].src
        PROVE  FALSE
    <3>1. id[s] # id[tmsg] /\ id[s] \in MsgId /\ pending_evt[id[s].src] = id[s].evt
      BY <2>1, <2>4 DEF SingleEvent, OwnInv, SilentInv, Silences, Has
    <3>2. id[tmsg] \in MsgId
      BY <2>1 DEF OwnInv, PlaceInv, Carried
    <3>3. id[s].evt # id[tmsg].evt /\ id[s].evt # None
      BY <2>4, <3>1, <3>2, Kinds DEF MsgId
    <3> QED BY <2>3, <2>4, <3>1, <3>3
  <2>5. tpc' \notin Dropping /\ "recycle" \notin Heard
    BY <2>1 DEF Dropping, Ending, Heard, Dispatching
  <2> QED BY <2>1, <2>2, <2>4, <2>5 DEF SilentInv
<1>8. CASE Controller \/ PrePhase \/ PostPhase \/ Redirect3
  <2>1. /\ UNCHANGED <<id, pending_evt, tmsg>> /\ tpc \in Heard
        /\ status' = status \/ \E f : status' = [status EXCEPT ![tmsg] = f]
    BY <1>8 DEF Controller, PrePhase, PostPhase, Redirect3, FeedFails, FeedPends, Heard, Dispatching
  <2>2. \A s \in Slot \ {tmsg} : Silences(s)' => Silences(s)
    BY <1>0, <2>1 DEF Silences, Has
  <2>3. tpc' \notin Dropping
    BY <1>8 DEF Controller, PrePhase, PostPhase, Redirect3, FeedFails, FeedPends, Dropping, Ending
  <2> QED BY <2>1, <2>2, <2>3, SilentStays
<1>9. CASE PushPending
  <2>1. CASE Has(tmsg, "CANCEL")
    <3>1. UNCHANGED <<status, id, pending_evt, tmsg>> /\ tpc' = "recycle"
      BY <1>9, <2>1 DEF PushPending
    <3>2. \A s \in Slot : Silences(s)' => Silences(s)
      BY <3>1 DEF Silences, Has
    <3>3. tpc' \notin Dropping /\ tpc' \notin Heard
      BY <3>1 DEF Dropping, Ending, Heard, Dispatching
    <3> QED BY <3>1, <3>2, <3>3, SilentStays
  <2>2. CASE ~Has(tmsg, "CANCEL")
    <3>0. tmsg \in Slot /\ tpc = "pend" /\ tpc \in Heard
      BY <1>0, <1>9 DEF PushPending, Carrying, Heard
    <3>1. /\ id' = id /\ tmsg' = Null /\ tpc' = "wait"
          /\ status' = [status EXCEPT ![tmsg] = (@ \cup {"ENQ"}) \ {"RUN"}]
      BY <1>9, <2>2 DEF PushPending
    <3>2. pending_evt' = IF Has(tmsg, "CLR_SNDR")
                         THEN [pending_evt EXCEPT ![id[tmsg].src] = id[tmsg].evt]
                         ELSE pending_evt
      BY <1>9, <2>2 DEF PushPending
    <3>3. tpc' \notin Dropping /\ tpc' \notin Heard
      BY <3>1 DEF Dropping, Ending, Heard, Dispatching
    <3>4. id[tmsg].src \in Src
      BY <3>0 DEF OwnInv, PlaceInv, Carried, MsgId
    <3>5. \A s \in Slot : Silences(s)' => Silences(s)
      BY <1>0, <3>1 DEF Silences, Has
    <3>6. ASSUME NEW s \in Slot, Silences(s)' PROVE pending_evt'[id[s].src] = id[s].evt
      <4>1. CASE s = tmsg
        <5>1. Has(tmsg, "CLR_SNDR")
          BY <3>5, <3>6, <4>1 DEF Silences, Has
        <5> QED BY <1>0, <3>2, <3>4, <4>1, <5>1
      <4>2. CASE s # tmsg
        <5>1. Silences(s) /\ id[s].src # id[tmsg].src /\ pending_evt[id[s].src] = id[s].evt
          BY <3>0, <3>5, <3>6, <4>2 DEF SilentInv
        <5>2. id[s].src \in Src
          BY <5>1 DEF OwnInv, MsgId, Silences, Has
        <5> QED BY <1>0, <3>2, <3>4, <5>1, <5>2
      <4> QED BY <4>1, <4>2
    <3> QED BY <3>1, <3>3, <3>6 DEF SilentInv
  <2> QED BY <2>1, <2>2
<1>10. CASE RecycleMsg
  <2>1. Recycle(tmsg) /\ tmsg \in Slot /\ tmsg' = Null /\ tpc' = "wait"
    BY <1>0, <1>10 DEF RecycleMsg, Carrying
  <2>2. "PENDING" \notin status'[tmsg]
    BY <1>0, <2>1 DEF Recycle
  <2>3. ASSUME NEW t \in Slot, Silences(t)' PROVE pending_evt'[id'[t].src] = id'[t].evt
    <3>1. t # tmsg
      BY <2>2, <2>3 DEF Silences
    <3>2. Silences(t) /\ id'[t] = id[t] /\ pending_evt'[id[t].src] = pending_evt[id[t].src]
      BY <2>1, <2>3, <3>1, SilentRecycled
    <3> QED BY <3>1, <3>2 DEF SilentInv
  <2>4. tpc' \notin Dropping /\ tpc' \notin Heard
    BY <2>1 DEF Dropping, Ending, Heard, Dispatching
  <2> QED BY <2>1, <2>3, <2>4 DEF SilentInv
<1> QED BY <1>1, <1>2, <1>3, <1>4, <1>5, <1>6, <1>7, <1>8, <1>9, <1>10 DEF ThreadStep

LEMMA SilentClient ==
    ASSUME TypeInv, PlaceInv, OwnInv, SilentInv, SingleEvent, NEW c \in Client, ClientStep(c)
    PROVE  SilentInv'
<1>0. /\ status \in [Slot -> SUBSET Flag] /\ id \in [Slot -> MsgId \cup {NoId}]
      /\ idle_q \in Seq(Slot) /\ cl \in [Client -> ClientState] /\ ClientCarries
      /\ tpc \in Carrying => tmsg \in Slot
  BY TypeParts, Slots DEF TypeInv, PoolOK, QueueOK, ActorOK, ThreadCarries, SlotOrNull
<1> USE DEF poolVars, queueVars
<1>1. UNCHANGED <<tpc, tmsg>> /\ (tpc \in Heard => tmsg \in Slot)
  <2>1. UNCHANGED <<tpc, tmsg>>
    BY DEF ClientStep, SendCheck, SendFill, SendPush, CancelCheck, CancelPremap, CancelPostmap,
           CancelFlag
  <2> QED BY <1>0, <2>1 DEF Heard, Dispatching, Carrying
<1>2. CASE SendFill(c) /\ idle_q # <<>>
  <2>1. PICK s \in Slot : s = Head(idle_q) /\ Idle(s)
    BY <1>0, <1>2, QueueTail DEF Idle
  <2>0. PICK flags \in SUBSET {"PRE", "REQ", "BK"} : Fill(s, cl[c].kind, flags)
    BY <1>2, <2>1 DEF SendFill
  <2>2. /\ status' = [status EXCEPT ![s] = flags \cup cl[c].kind.opt]
        /\ id' = [id EXCEPT ![s] = [src |-> cl[c].kind.src, evt |-> cl[c].kind.evt]]
        /\ pending_evt' = pending_evt
    BY <1>2, <2>0 DEF SendFill, Fill
  <2>3. "PENDING" \notin cl[c].kind.opt
    BY <1>0, Kinds DEF ClientState, Option
  <2>4. \A t \in Slot : Silences(t)' => t # s /\ Silences(t) /\ id'[t] = id[t]
    BY <1>0, <2>2, <2>3 DEF Silences, Has
  <2>5. tpc \in Heard => id'[tmsg] = id[tmsg]
    <3>1. ~Carried(s)
      BY <2>1 DEF PlaceInv
    <3> QED BY <1>0, <1>1, <2>2, <3>1 DEF Carried
  <2> QED BY <1>1, <2>2, <2>4, <2>5, SilentStays
<1>3. CASE SendPush(c)
  <2>1. PICK s \in Slot : s = cl[c].s
    BY <1>0, <1>3 DEF SendPush, At, ClientCarries, ClientState, SlotOrNull
  <2>2. ~Carried(s)
    BY <2>1 DEF PlaceInv, Filled
  <2>3. CASE cl[c].last
    <3>1. Recycle(s)
      BY <1>3, <2>1, <2>3 DEF SendPush
    <3>2. tpc \in Heard => id'[tmsg] = id[tmsg]
      BY <1>0, <1>1, <2>2, <3>1 DEF Recycle, Carried
    <3>3. \A t \in Slot \ {tmsg} : Silences(t)' =>
             Silences(t) /\ id'[t] = id[t] /\ pending_evt'[id[t].src] = pending_evt[id[t].src]
      BY <3>1, SilentRecycled
    <3> QED BY <1>1, <3>2, <3>3, SilentStays
  <2>4. CASE ~cl[c].last
    <3>1. /\ status' = [status EXCEPT ![s] = (@ \cup {"ENQ"}) \ {"RUN"}]
          /\ UNCHANGED <<id, pending_evt>>
      BY <1>3, <2>1, <2>4 DEF SendPush, Link
    <3>2. \A t \in Slot : Silences(t)' => Silences(t)
      BY <1>0, <3>1 DEF Silences, Has
    <3> QED BY <1>1, <3>1, <3>2, SilentStays
  <2> QED BY <2>3, <2>4
<1>4. CASE /\ UNCHANGED <<id, pending_evt>>
           /\ status' = status \/ \E s : status' = [status EXCEPT ![s] = @ \cup {"CANCEL"}]
  <2>1. \A t \in Slot : Silences(t)' => Silences(t)
    BY <1>0, <1>4 DEF Silences, Has
  <2> QED BY <1>1, <1>4, <2>1, SilentStays
<1> QED
  BY <1>2, <1>3, <1>4
  DEF ClientStep, SendCheck, SendFill, CancelCheck, CancelPremap, CancelPostmap, CancelFlag

LEMMA SilentStep ==
    TypeInv /\ PlaceInv /\ OwnInv /\ SilentInv /\ SingleEvent /\ [Next]_vars => SilentInv'
<1>1. ASSUME SilentInv, EnvStep \/ UNCHANGED vars PROVE SilentInv'
  <2>1. UNCHANGED <<status, id, pending_evt, tpc, tmsg>>
    BY <1>1 DEF EnvStep, AddReq, CancelReq, MdlBusy, MdlReady, CannotIo, ResumeIo, ShallStop,
                ClrPending, msgVars, poolVars, vars
  <2> QED BY <1>1, <2>1 DEF SilentInv, Silences, Has
<1> QED BY <1>1, SilentThread, SilentClient DEF Next

\* MSG_OPT_CLR_SNDR_MSG_IF_PENDING: while such a message is pending, or back on
\* the wait queue because of it, no later event of its sender is dispatched, in
\* every execution in which no second message carries the event of a pending one.
THEOREM PendingSilencesSender == Spec /\ []SingleEvent => []SenderSilenced
<1>1. Init => SilentInv
  BY DEF Init, SilentInv, Silences, Dropping, Ending, Heard, Dispatching
<1>2. SilentInv => SenderSilenced
  BY DEF SilentInv, SenderSilenced, Silences, Heard
<1> QED BY <1>1, <1>2, SilentStep, OwnInvariant, TypeInvariant, PlaceInvariant, PTL DEF Spec
=============================================================================
