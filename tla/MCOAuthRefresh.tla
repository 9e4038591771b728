---------------------------- MODULE MCOAuthRefresh ----------------------------
(* Two calls ask for the token at a time, while one administers it.         *)
EXTENDS OAuthRefresh

CONSTANTS c1, c2, c3

MCAsker == {c1, c2}
MCAdmin == {c3}
=============================================================================
