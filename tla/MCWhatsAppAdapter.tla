-------------------------- MODULE MCWhatsAppAdapter --------------------------
(* Two sockets, so that one may leak beside the one that is held.          *)
EXTENDS WhatsAppAdapter

CONSTANTS s1, s2

MCSocket == {s1, s2}
=============================================================================
