----------------------------- MODULE EventEffects -----------------------------
(***************************************************************************)
(* What the push handler promises about the messages of a subscription:    *)
(* each takes effect at most once, a cancel only after the event it        *)
(* reverses, and a message is acknowledged only when it has taken effect.  *)
(***************************************************************************)
EXTENDS Naturals

CONSTANTS
    Messages,
    Reversals,   \* the messages that undo another one's effect
    Needs        \* Needs[m]: the messages whose effect m may undo

VARIABLES effects, acked

Init ==
    /\ effects = [m \in Messages |-> 0]
    /\ acked = {}

TakeEffect(m) ==
    /\ effects[m] = 0
    /\ m \in Reversals => \E n \in Needs[m] : effects[n] = 1
    /\ effects' = [effects EXCEPT ![m] = 1]
    /\ UNCHANGED acked

Acknowledge(m) ==
    /\ effects[m] = 1
    /\ acked' = acked \cup {m}
    /\ UNCHANGED effects

Next == \E m \in Messages : TakeEffect(m) \/ Acknowledge(m)

Spec == Init /\ [][Next]_<<effects, acked>>
=============================================================================
