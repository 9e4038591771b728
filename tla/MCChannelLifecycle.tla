--------------------------- MODULE MCChannelLifecycle ---------------------------
(* Two calls, a configuration edited once, one fault.                      *)
EXTENDS ChannelLifecycle

CONSTANTS o1, o2

MCOp == {o1, o2}
=============================================================================
