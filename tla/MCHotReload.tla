---------------------------- MODULE MCHotReload ----------------------------
(* Static deployments that add and drop an upstream, one with a pool block. *)
EXTENDS HotReload

CONSTANTS c1, h1, u1, u2, refused, t1

Scoring(gate) ==
    [penalty |-> [k \in Kinds |-> 1], cooldown |-> [k \in Kinds |-> 1],
     successWeight |-> 1, scoreCap |-> 1, decayStep |-> 0, cascadeTTL |-> 1,
     debounceWindow |-> 1, pruneAfter |-> 0, probe |-> FALSE,
     connectionRefused |-> gate]
BothScorings == {Scoring(TRUE), Scoring(FALSE)}

NoRules == [h \in Hosts |-> [force |-> FALSE, prefer |-> <<>>]]
ForceSecond == [h \in Hosts |-> [force |-> TRUE, prefer |-> <<u2>>]]
BothRules == {NoRules, ForceSecond}

Plain ==
    [parses |-> TRUE, static |-> <<u1>>, retryCap |-> 1, blocks |-> FALSE,
     rules |-> NoRules, scoring |-> Scoring(TRUE), inline |-> {}, namesFile |-> TRUE]
\* Adds an upstream and a rule that forces it, and opens the gate.
Wider == [Plain EXCEPT !.static = <<u1, u2>>, !.retryCap = 2,
                       !.rules = ForceSecond, !.scoring = Scoring(FALSE)]
\* The rule outlives its upstream.
Unknown == [Plain EXCEPT !.rules = ForceSecond]
\* With a block, the rule may name one of its upstreams.
Pooled == [Plain EXCEPT !.blocks = TRUE]
AllDocuments == {Plain, Wider, Unknown, Pooled}

First == [order |-> <<u1>>, retryCap |-> 1]
Both(cap) == [order |-> <<u1, u2>>, retryCap |-> cap]
AllPools == {First, Both(1), Both(2)}
Composed == {First, Both(1)}

Files == {{t1}, Missing, Unreadable}
=============================================================================
