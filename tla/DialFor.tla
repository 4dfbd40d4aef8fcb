------------------------------ MODULE DialFor ------------------------------
(***************************************************************************)
(* Scoreboard.DialFor: the Pick -> Dial -> record loop every CONNECT and   *)
(* every SOCKS5 request runs, with concurrent requests, callers that go    *)
(* away, and the rest of the scoreboard changing under it.                 *)
(*                                                                         *)
(* A request is one element of Callers.  The locks DialFor takes and drops *)
(* are steps: the cascade check with the clock reading of Pick, the pin    *)
(* lookup, the ranking, the dial, the two sections of RecordFailure, and   *)
(* TripCascade.                                                            *)
(***************************************************************************)
EXTENDS Scoreboard

CONSTANTS
    DialKinds,     \* kinds ClassifyDialError returns
    RetryCeiling,  \* max_retries_per_request of every pool is at most this
    Deadlined,     \* upstreams whose Dial ends by timeout_ms
    NoUpstream, NoHost

ASSUME DialAssumption ==
    /\ DialKinds \subseteq Kinds /\ Deadlined \subseteq Upstreams
    /\ RetryCeiling \in Nat /\ \A p \in Pools : p.retryCap <= RetryCeiling
    \* The requests of one run; no upstream and no host has an empty name.
    /\ IsFiniteSet(Callers) /\ NoUpstream \notin Upstreams /\ NoHost \notin Hosts

VARIABLES
    req,    \* req[c]: where request c is in DialFor
    ended,  \* ended[c]: the caller's context is done
    \* History, read by no action:
    broke,  \* broke[c]: upstreams whose attempt for c failed on its own
    late    \* late[c]: dials c began during its host's current cascade

request_vars == <<req, ended, broke, late>>
dvars == <<sbvars, request_vars>>

----------------------------------------------------------------------------

\* pc: "idle" before the call; "attempt" the top of the loop; "pin" and
\* "rank" inside Pick with its clock reading `now'; "dial" in Upstream.Dial;
\* "record" in RecordSuccess / RecordFailure; "trip" past the loop; "done".
Idle ==
    [pc |-> "idle", host |-> NoHost, limit |-> 0, i |-> 0, tried |-> {},
     now |-> Never, up |-> NoUpstream, result |-> "none"]

At(c, pc) == req[c].pc = pc

Moved(c, pc) == [req EXCEPT ![c].pc = pc]

Finished(c, result) ==
    [req EXCEPT ![c].pc = "done", ![c].result = result, ![c].now = Never]

\* The end of a failed iteration: the upstream is burnt for this request.
Burnt(c) ==
    [req EXCEPT ![c].pc = "attempt", ![c].i = @ + 1,
                ![c].tried = @ \cup {req[c].up}, ![c].up = NoUpstream]

\* DialFor up to the loop: the host's cascade, then the pool's size and
\* retry cap, which stay fixed for this request whatever ReplacePool does.
Begin(c, h) ==
    /\ At(c, "idle")
    /\ req' = [req EXCEPT ![c] =
                 IF CascadeActive(h, clock)
                 THEN [Idle EXCEPT !.pc = "done", !.host = h, !.result = "cascade"]
                 ELSE [Idle EXCEPT !.pc = "attempt", !.host = h,
                           !.limit = Least(pool.retryCap, Len(pool.order))]]
    /\ UNCHANGED <<sbvars, ended, broke, late>>

\* Defect: the cascade is checked once, before the loop.
AttemptUnchecked(c) ==
    /\ At(c, "attempt")
    /\ req[c].i < req[c].limit
    /\ req' = IF ended[c] THEN Finished(c, "cancelled")
              ELSE [req EXCEPT ![c].pc = "pin", ![c].now = clock]
    /\ UNCHANGED <<sbvars, ended, broke, late>>

\* Defect: the loop goes on without looking at the caller's context.
AttemptRegardless(c) ==
    /\ At(c, "attempt")
    /\ req[c].i < req[c].limit
    /\ req' = IF CascadeActive(req[c].host, clock) THEN Finished(c, "cascade")
              ELSE [req EXCEPT ![c].pc = "pin", ![c].now = clock]
    /\ UNCHANGED <<sbvars, ended, broke, late>>

\* Top of the loop with attempts left: ctx.Err, then Pick's cascade check on
\* a fresh clock reading.
Attempt(c) ==
    /\ At(c, "attempt")
    /\ req[c].i < req[c].limit
    /\ req' = IF ended[c] THEN Finished(c, "cancelled")
              ELSE IF CascadeActive(req[c].host, clock) THEN Finished(c, "cascade")
              ELSE [req EXCEPT ![c].pc = "pin", ![c].now = clock]
    /\ UNCHANGED <<sbvars, ended, broke, late>>

\* Out of attempts.
LeaveLoop(c) ==
    /\ At(c, "attempt")
    /\ req[c].i >= req[c].limit
    /\ req' = Moved(c, "trip")
    /\ UNCHANGED <<sbvars, ended, broke, late>>

StartDial(c, u) ==
    /\ req' = [req EXCEPT ![c].pc = "dial", ![c].up = u, ![c].now = Never]
    /\ late' = IF CascadeActive(req[c].host, clock)
               THEN [late EXCEPT ![c] = @ + 1] ELSE late

\* pickForced finds a usable pin.
PickForced(c) ==
    /\ At(c, "pin")
    /\ \E u \in PinnedPick(req[c].host, req[c].tried, req[c].now) : StartDial(c, u)
    /\ UNCHANGED <<sbvars, ended, broke>>

\* pickForced finds none; an expired one goes to its write-locked eviction.
PickUnforced(c) ==
    /\ At(c, "pin")
    /\ PinnedPick(req[c].host, req[c].tried, req[c].now) = {}
    /\ LET h == req[c].host IN
         evicting' = IF forces[h] # NoPin /\ forces[h].until <= req[c].now
                     THEN evicting \cup {<<h, req[c].now>>} ELSE evicting
    /\ req' = Moved(c, "rank")
    /\ UNCHANGED <<clock, config_vars, entries, cascade, forces, debounce, call,
                   wipes, pruning, ended, broke, late>>

\* The scored pick, under one read lock.
PickRanked(c) ==
    /\ At(c, "rank")
    /\ \E u \in ScoredPicks(req[c].host, req[c].tried, req[c].now) : StartDial(c, u)
    /\ UNCHANGED <<sbvars, ended, broke>>

\* ErrPoolExhausted breaks the loop.
PickExhausted(c) ==
    /\ At(c, "rank")
    /\ ScoredPicks(req[c].host, req[c].tried, req[c].now) = {}
    /\ req' = [Moved(c, "trip") EXCEPT ![c].now = Never]
    /\ UNCHANGED <<sbvars, ended, broke, late>>

\* The dial returns a connection, whether or not the caller is still there.
DialSucceeds(c) ==
    /\ At(c, "dial")
    /\ BeginSuccess(c, req[c].host, req[c].up)
    /\ req' = Moved(c, "record")
    /\ UNCHANGED <<ended, broke, late>>

\* The dial fails with the caller gone: its context, not the upstream, may
\* have ended it, so nothing is recorded.
DialCut(c) ==
    /\ At(c, "dial") /\ ended[c]
    /\ req' = Finished(c, "cancelled")
    /\ UNCHANGED <<sbvars, ended, broke, late>>

Breaks(c) == broke' = [broke EXCEPT ![c] = @ \cup {req[c].up}]

\* ECONNREFUSED while scoring.connection_refused is off is not scored.
DialRefusedUnscored(c) ==
    /\ At(c, "dial") /\ ~ended[c]
    /\ ~cfg.connectionRefused
    /\ Breaks(c)
    /\ req' = Burnt(c)
    /\ UNCHANGED <<sbvars, ended, late>>

\* Defect: the failure is scored without asking whether the caller ended it.
DialFailsUnasked(c, k) ==
    /\ At(c, "dial")
    /\ IF ended[c] THEN UNCHANGED broke ELSE Breaks(c)
    /\ BeginFailure(c, req[c].host, req[c].up, k, NoOverride)
    /\ req' = Moved(c, "record")
    /\ UNCHANGED <<ended, late>>

\* Every other failure is scored; a KindRefused that is not ECONNREFUSED is
\* scored even with the gate off.
DialFails(c, k) ==
    /\ At(c, "dial") /\ ~ended[c]
    /\ Breaks(c)
    /\ BeginFailure(c, req[c].host, req[c].up, k, NoOverride)
    /\ req' = Moved(c, "record")
    /\ UNCHANGED <<ended, late>>

Credited(c) ==
    /\ At(c, "record")
    /\ ApplySuccess(c)
    /\ req' = Finished(c, "ok")
    /\ UNCHANGED <<ended, broke, late>>

Stamp(c) ==
    /\ At(c, "record")
    /\ AcceptFailure(c)
    /\ UNCHANGED request_vars

Charged(c) ==
    /\ At(c, "record")
    /\ DropFailure(c) \/ ApplyFailure(c)
    /\ req' = Burnt(c)
    /\ UNCHANGED <<ended, broke, late>>

\* Past the loop: the context is not looked at again.
Trip(c) ==
    /\ At(c, "trip")
    /\ TripCascade(req[c].host)
    /\ req' = Finished(c, "failed")
    /\ late' = [d \in Callers |-> IF req[d].host = req[c].host THEN 0 ELSE late[d]]
    /\ UNCHANGED <<ended, broke>>

\* The caller hangs up or its deadline passes.
Cancel(c) ==
    /\ req[c].pc \notin {"idle", "done"} /\ ~ended[c]
    /\ ended' = [ended EXCEPT ![c] = TRUE]
    /\ UNCHANGED <<sbvars, req, broke, late>>

----------------------------------------------------------------------------

Init ==
    /\ SBInit
    /\ req = [c \in Callers |-> Idle]
    /\ ended = [c \in Callers |-> FALSE]
    /\ broke = [c \in Callers |-> {}]
    /\ late = [c \in Callers |-> 0]

\* Pick, record and trip: what the loop does around its attempts.
Walk(c) ==
    \/ Attempt(c) \/ LeaveLoop(c)
    \/ PickForced(c) \/ PickUnforced(c) \/ PickRanked(c) \/ PickExhausted(c)
    \/ Credited(c) \/ Stamp(c) \/ Charged(c)
    \/ Trip(c)

\* The steps DialFor takes by itself once it has been called.
Step(c) ==
    \/ Walk(c)
    \/ DialSucceeds(c) \/ DialCut(c) \/ DialRefusedUnscored(c)
    \/ \E k \in DialKinds : DialFails(c, k)

Next ==
    \/ \E c \in Callers : \/ \E h \in Hosts : Begin(c, h)
                          \/ Step(c)
                          \/ Cancel(c)
    \/ Administration /\ UNCHANGED request_vars

\* What goes on by itself.  A direct dial and the CONNECT handshake of an HTTP
\* upstream carry timeout_ms; the SOCKS5 handshake has no deadline but the
\* caller's context, so it may wait for as long as the caller does.
Proceeds(c) ==
    /\ At(c, "dial") => req[c].up \in Deadlined \/ ended[c]
    /\ Step(c)

\* A goroutine that can run does run.  Nothing is assumed of callers or
\* operators.
Spec == Init /\ [][Next]_dvars /\ \A c \in Callers : WF_dvars(Proceeds(c))

----------------------------------------------------------------------------
(* Properties *)

TypeOK ==
    /\ SBTypeOK
    /\ req \in [Callers ->
          [pc : {"idle", "attempt", "pin", "rank", "dial", "record", "trip", "done"},
           host : Hosts \cup {NoHost}, limit : Nat, i : Nat, tried : SUBSET Upstreams,
           now : Time, up : Upstreams \cup {NoUpstream},
           result : {"none", "ok", "failed", "cascade", "cancelled"}]]
    /\ ended \in [Callers -> BOOLEAN]
    /\ broke \in [Callers -> SUBSET Upstreams] /\ late \in [Callers -> Nat]

\* architecture.md promises that a cascaded host answers without touching the
\* pool.  Requests already past their check may finish that one attempt; none
\* begins a second dial while the cascade lasts.
OneDialPastCascade == \A c \in Callers : late[c] <= 1

\* An upstream is charged only for dials that failed on their own: a caller
\* that hangs up never costs it a penalty, whatever its dial returned.
OnlyRealFailuresCharged ==
    \A p \in Pairs :
       entries[p].failures
         + Cardinality({c \in Callers : /\ call[c] # NoCall
                                        /\ call[c].op # "succeeding"
                                        /\ <<call[c].host, call[c].up>> = p})
         <= Cardinality({c \in Callers : req[c].host = p[1] /\ p[2] \in broke[c]})

\* The cascade "is for 'every upstream tried, all failed', not 'the caller
\* bailed'" (scoreboard.go, DialFor): every attempt of a request about to trip
\* it was ended by its upstream.  A request past its last attempt does not look
\* at its context again, so the hang-up must have been told apart before.
CascadeBlamesUpstreams ==
    \A c \in Callers : At(c, "trip") => req[c].tried \subseteq broke[c]

Contract ==
    INSTANCE DialContract WITH
        Requests <- Callers,
        Attempts <- RetryCeiling,
        attempts <- [c \in Callers |->
                       IF req[c].up = NoUpstream THEN req[c].i ELSE req[c].i + 1],
        dialled <- [c \in Callers |-> req[c].tried \cup ({req[c].up} \ {NoUpstream})],
        verdict <- [c \in Callers |->
                      CASE req[c].pc = "idle" -> "none"
                        [] req[c].pc = "done" -> req[c].result
                        [] OTHER -> "running"]

\* DialFor implements the contract: distinct upstreams, within the cap, one
\* verdict, and, where every upstream's dial has a deadline, every call
\* returns.
ImplementsContract == Contract!Spec

=============================================================================
