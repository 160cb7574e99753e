---------------------------- MODULE MCExactlyOnce ----------------------------
(* A source event, its cancel, and a message without effect.                  *)
EXTENDS ExactlyOnce

CONSTANTS apply, cancel, other, source

OneSource == [m \in Messages |-> source]
Kinded    == [m \in Messages |-> CASE m = apply  -> "apply"
                                   [] m = cancel -> "cancel"
                                   [] m = other  -> "other"]
=============================================================================
