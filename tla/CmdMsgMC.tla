------------------------------ MODULE CmdMsgMC ------------------------------
(* Model values and instances of CmdMsg for TLC.                           *)
EXTENDS CmdMsg
CONSTANTS c1, c2

Clients == {c1, c2}

\* Two modules of different priority.
TwoModules == <<"ps", "role">>
TwoPri == [m \in {"ps", "role"} |-> IF m = "ps" THEN 2 ELSE 0]

Msg(src, evt, to, opt) == [src |-> src, evt |-> evt, map |-> to, opt |-> opt]
Both == {"ps", "role"}
Abort == Msg("req", "abort", {"role"}, {})

\* Two events of one command, the first one with the option that silences its
\* sender, beside messages of a module and of the controller.
MixedWork ==
    [c \in Clients |->
       IF c = c1 THEN {Msg("req", "step", Both, {"CLR_SNDR"})}
                 ELSE {Msg("ctrl", "phy", {"ps"}, {}), Msg("ps", "on", Both, {}),
                       Msg("req", "last", Both, {})}]
\* Two events of one command, the first one with the option that silences it.
ScanWork ==
    [c \in Clients |->
       IF c = c1 THEN {Msg("req", "swch", {"ps"}, {"CLR_SNDR"})}
                 ELSE {Msg("req", "expire", {"ps"}, {})}]
\* A command's message that may wait for I/O, and the notice that there is none.
IoWork ==
    [c \in Clients |->
       IF c = c1 THEN {Msg("req", "step", Both, {"PEND_IO"})}
                 ELSE {Msg("ctrl", "io", {"role"}, {})}]

PsPends == {"ps"}
AllPend == {"ps", "ctrl"}
Io == {"io"}
=============================================================================
