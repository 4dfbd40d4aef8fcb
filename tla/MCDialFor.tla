----------------------------- MODULE MCDialFor -----------------------------
(* Small instances of DialFor: two upstreams, a few concurrent requests. *)
EXTENDS DialFor

CONSTANTS c1, c2, h1, u1, u2, refused

\* Cascade of one tick, cooldown of one tick; the gate may be off.
Dialling(gate) ==
    [penalty |-> [k \in Kinds |-> 1], cooldown |-> [k \in Kinds |-> 1],
     successWeight |-> 1, scoreCap |-> 1, decayStep |-> 0, cascadeTTL |-> 1,
     debounceWindow |-> 1, pruneAfter |-> 0, probe |-> FALSE,
     connectionRefused |-> gate]

EitherGate == {Dialling(TRUE), Dialling(FALSE)}

NoRules == [h \in Hosts |-> [force |-> FALSE, prefer |-> <<>>]]
OnlyFirst == [h \in Hosts |-> [force |-> TRUE, prefer |-> <<u1>>]]
EitherRules == {NoRules, OnlyFirst}

BothPool == {[order |-> <<u1, u2>>, retryCap |-> 2]}

\* Beside the concurrent instance a smaller one: where a force rule leaves one
\* candidate for two attempts, the gate is off and c2 makes no request.  No
\* reload crosses from one to the other.
AloneIfForced ==
    /\ cfg = Dialling(rules = NoRules)
    /\ rules = NoRules \/ At(c2, "idle")
=============================================================================
