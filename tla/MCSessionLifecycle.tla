------------------------- MODULE MCSessionLifecycle -------------------------
(* Small instances of SessionLifecycle for TLC.                              *)
EXTENDS SessionLifecycle

CONSTANTS r1, r2, r3, browser

OneBrowser == [r \in Requests |-> browser]
=============================================================================
