---------------------------- MODULE DialContract ----------------------------
(***************************************************************************)
(* What a listener relies on when it calls DialFor: one request dials      *)
(* distinct upstreams, a bounded number of them, one at a time, and then   *)
(* gets exactly one verdict.  Nothing here says how the upstreams are      *)
(* chosen; DialFor is shown to implement this.                             *)
(***************************************************************************)
EXTENDS Naturals

CONSTANTS
    Requests,   \* calls of DialFor
    Upstreams,
    Attempts    \* the retry cap no request may exceed

VARIABLES
    dialled,    \* upstreams each request has dialled
    attempts,   \* and how many dials that took
    verdict     \* what DialFor returned to it

contract_vars == <<dialled, attempts, verdict>>

\* "cascade" is ErrCascadeCooling, "cancelled" the caller's own context,
\* "failed" the aggregated error after which the host is in cascade.
Verdicts == {"ok", "failed", "cascade", "cancelled"}

Init ==
    /\ dialled = [c \in Requests |-> {}]
    /\ attempts = [c \in Requests |-> 0]
    /\ verdict = [c \in Requests |-> "none"]

\* The listener calls DialFor.
Call(c) ==
    /\ verdict[c] = "none"
    /\ verdict' = [verdict EXCEPT ![c] = "running"]
    /\ UNCHANGED <<dialled, attempts>>

\* A host in cascade is refused at once.
Refuse(c) ==
    /\ verdict[c] = "none"
    /\ verdict' = [verdict EXCEPT ![c] = "cascade"]
    /\ UNCHANGED <<dialled, attempts>>

\* A dial: never one this request has made before.
Dial(c, u) ==
    /\ verdict[c] = "running"
    /\ u \notin dialled[c]
    /\ attempts[c] < Attempts
    /\ dialled' = [dialled EXCEPT ![c] = @ \cup {u}]
    /\ attempts' = [attempts EXCEPT ![c] = @ + 1]
    /\ UNCHANGED verdict

\* DialFor returns; a connection only from an upstream it dialled.
Return(c, v) ==
    /\ verdict[c] = "running"
    /\ v = "ok" => dialled[c] # {}
    /\ verdict' = [verdict EXCEPT ![c] = v]
    /\ UNCHANGED <<dialled, attempts>>

Next ==
    \E c \in Requests :
       \/ Call(c) \/ Refuse(c)
       \/ \E u \in Upstreams : Dial(c, u)
       \/ \E v \in Verdicts : Return(c, v)

\* Every call returns.
Spec ==
    /\ Init /\ [][Next]_contract_vars
    /\ \A c \in Requests : WF_contract_vars(\E v \in Verdicts : Return(c, v))

=============================================================================
