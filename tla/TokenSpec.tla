------------------------------ MODULE TokenSpec ------------------------------
(***************************************************************************)
(* What the foreground command tokens promise to the commands: a band runs *)
(* one command at a time, a command may own the whole engine (the          *)
(* exclusive right), and the message an aborted command leaves behind is   *)
(* handled before the band is used again.  Queues, slots, threads and      *)
(* semaphores are absent: CmdToken shows that the dispatchers keep this    *)
(* promise (Token!Spec, an INSTANCE of this module there).                 *)
(***************************************************************************)
CONSTANTS
    Band,           \* the bands
    Request,        \* names of requests
    NoRequest       \* the name that is no request

VARIABLES
    holder,     \* the request that runs on each band, or NoRequest
    right,      \* the band, if any, whose commands may demand the whole engine
    ending      \* bands whose aborted command still has a message to handle

vars == <<holder, right, ending>>

Others(b) == Band \ {b}

\* A lone band owns the engine from the start and for good.
Init ==
    /\ holder = [b \in Band |-> NoRequest]
    /\ right = {b \in Band : Others(b) = {}}
    /\ ending = {}

\* A band that is done with a command gives the right back, or, when nobody has
\* the right, lets the other band have it.
HandOver(b) ==
    \/ right' = (IF Others(b) = {} THEN right ELSE right \ {b})
    \/ right = {} /\ right' = Others(b)

\* A command starts: the band is free and the other band is not the owner.
Grant(b) ==
    /\ holder[b] = NoRequest /\ b \notin ending
    /\ right \cap Others(b) = {}
    /\ \E r \in Request : holder' = [holder EXCEPT ![b] = r]
    /\ UNCHANGED <<right, ending>>

\* A command was refused by its own acquired callback, or had gone already.
Refuse(b) ==
    /\ holder[b] = NoRequest /\ b \notin ending
    /\ HandOver(b)
    /\ UNCHANGED <<holder, ending>>

\* A command ends, and leaves the band either done or with a last message.
Return(b) ==
    /\ holder[b] # NoRequest
    /\ holder' = [holder EXCEPT ![b] = NoRequest]
    /\ \/ HandOver(b) /\ UNCHANGED ending
       \/ ending' = ending \cup {b} /\ UNCHANGED right

\* The last message of an aborted command is done with.
AbortDone(b) ==
    /\ b \in ending
    /\ ending' = ending \ {b}
    /\ HandOver(b)
    /\ UNCHANGED holder

\* A band gets the right while the other one runs nothing.
TakeRight(b) ==
    /\ right = {}
    /\ \A o \in Others(b) : holder[o] = NoRequest
    /\ right' = {b}
    /\ UNCHANGED <<holder, ending>>

Next == \E b \in Band : Grant(b) \/ Refuse(b) \/ Return(b) \/ AbortDone(b)
                                 \/ TakeRight(b)

Spec == Init /\ [][Next]_vars
=============================================================================
