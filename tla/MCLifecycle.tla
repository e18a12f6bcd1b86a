----------------------------- MODULE MCLifecycle -----------------------------
(* Small instances of ServerLifecycle for TLC: connections are model values. *)
EXTENDS ServerLifecycle

CONSTANTS c1, c2
==============================================================================
