----------------------------- MODULE MCWebshare -----------------------------
(* Instances of Webshare for TLC. *)
EXTENDS Webshare

\* The status probe against list and cache; the operator's override without it.
SomeBlocks ==
    {[plan |-> TRUE, override |-> FALSE, caching |-> TRUE],
     [plan |-> FALSE, override |-> TRUE, caching |-> FALSE]}

=============================================================================
