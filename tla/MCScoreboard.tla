---------------------------- MODULE MCScoreboard ----------------------------
(* Small instances of Scoreboard: pools and tunings to swap hot; times are  *)
(* ticks.                                                                   *)
EXTENDS Scoreboard, TLC

CONSTANTS h1, u1, u2, refused, limited

\* Callers are interchangeable; used where only invariants are checked.
AnyCaller == Permutations(Callers)

\* One tuning per question; every one validates.
Tuned(cool, window, decay, prune) ==
    [penalty |-> [k \in Kinds |-> IF k = refused THEN 1 ELSE 2],
     cooldown |-> [k \in Kinds |-> cool],
     successWeight |-> 1, scoreCap |-> 2, decayStep |-> decay,
     cascadeTTL |-> 2, debounceWindow |-> window, pruneAfter |-> prune,
     probe |-> FALSE, connectionRefused |-> TRUE]

NoRules == [h \in Hosts |-> [force |-> FALSE, prefer |-> <<>>]]

PlainRules == {NoRules}

BothPool == [order |-> <<u1, u2>>, retryCap |-> 2]
OnlySecond == [order |-> <<u2>>, retryCap |-> 2]
OnlyFirst == [order |-> <<u1>>, retryCap |-> 2]

\* Debouncing: two callers, one upstream, no operator; SIGHUP may swap in a
\* [[failure.status]] row whose penalty is negative, and back.
Debouncing == [Tuned(1, 2, 1, 2) EXCEPT !.cascadeTTL = 0, !.scoreCap = 1]
Lifting == [Debouncing EXCEPT !.penalty = [k \in Kinds |-> -1]]
DebounceConfigs == {Debouncing, Lifting}
DebouncePools == {OnlyFirst}

\* Operators, pool swaps and pruning: cooldowns end inside prune_after.
OpsConfigs == {[Tuned(1, 1, 1, 1) EXCEPT !.cascadeTTL = 0, !.scoreCap = 1]}
OpsPools == {BothPool, OnlySecond}
=============================================================================
