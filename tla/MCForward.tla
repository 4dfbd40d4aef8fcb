----------------------------- MODULE MCForward -----------------------------
(* A plain-HTTP request beside a CONNECT request: two upstreams, a detector *)
(* that a reload switches off, a Retry-After.                               *)
EXTENDS Forward

CONSTANTS c1, c2, h1, u1, u2, refused, limited

Tuned ==
    [penalty |-> [k \in Kinds |-> 1], cooldown |-> [k \in Kinds |-> 1],
     successWeight |-> 1, scoreCap |-> 1, decayStep |-> 0, cascadeTTL |-> 1,
     debounceWindow |-> 1, pruneAfter |-> 0, probe |-> FALSE,
     connectionRefused |-> TRUE]
OneTuning == {Tuned}

NoRules == [h \in Hosts |-> [force |-> FALSE, prefer |-> <<>>]]
PlainRules == {NoRules}

BothPool == {[order |-> <<u1, u2>>, retryCap |-> 2]}

Watching == [retryCap |-> 2, detects |-> {limited}, inspects |-> TRUE,
             connectionRefused |-> TRUE]
SwitchedKnobs == {Watching, [retryCap |-> 1, detects |-> {}, inspects |-> FALSE,
                             connectionRefused |-> FALSE]}
WatchingKnobs == {Watching}
=============================================================================
