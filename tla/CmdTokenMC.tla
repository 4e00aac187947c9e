----------------------------- MODULE CmdTokenMC -----------------------------
(* Model values and instances of CmdToken for TLC.                         *)
EXTENDS CmdToken
CONSTANTS c1, c2

OneBand == {0}
TwoBands == {0, 1}
Clients == {c1, c2}
OneExclusive == {c1}
AllExclusive == {c1, c2}
\* Pools of one slot on band 0 and of two on band 1; of two on each.
OneAndTwo == [b \in Band |-> b + 1]
TwoEach == [b \in Band |-> 2]
=============================================================================
