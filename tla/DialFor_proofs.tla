---------------------------- MODULE DialFor_proofs ----------------------------
(***************************************************************************)
(* Theorems of DialFor, for any number of concurrent requests, hosts,      *)
(* upstreams and administrative calls.  The lemmas about the loop are      *)
(* stated so that they hold for the plain requests of Forward too, whose   *)
(* stages and results are among the ones below.                            *)
(***************************************************************************)
EXTENDS DialFor, Scoreboard_proofs, FiniteSetTheorems

----------------------------------------------------------------------------
(* The inductive invariant of one request *)

Stages == {"idle", "detector", "inspection", "attempt", "pin", "rank", "dial",
           "response", "record", "trip", "done"}

Verdicts == {"none", "ok", "failed", "cascade", "cancelled", "rejected"}

Request ==
    [pc : Stages, host : Hosts \cup {NoHost}, limit : 0..RetryCeiling, i : Nat,
     tried : SUBSET Upstreams, now : Time, up : Upstreams \cup {NoUpstream},
     result : Verdicts]

\* What each stage of the loop relies on: the attempts made are the upstreams
\* tried, and while there is an upstream in hand, or one is being picked, there
\* is an attempt left for it.
WellFormed(r) ==
    /\ r.pc = "idle" => r = Idle
    /\ r.pc \notin {"idle", "done"} => r.host \in Hosts
    /\ r.result = "none" <=> r.pc # "done"
    /\ IsFiniteSet(r.tried) /\ r.i = Cardinality(r.tried) /\ r.i <= r.limit
    /\ r.pc \in {"detector", "inspection", "attempt", "pin", "rank", "trip"}
          => r.up = NoUpstream
    /\ r.pc \in {"dial", "response", "record"} => r.up # NoUpstream
    /\ r.pc \in {"pin", "rank"} \/ r.up # NoUpstream => r.i < r.limit
    /\ r.up \notin r.tried

\* A failure of c is on its way to the entry.
Charging(c) == call[c] # NoCall /\ call[c].op # "succeeding"

\* What is being recorded for c is about the upstream it has in hand, and an
\* upstream in hand is known to have failed only while that is being charged.
Recorded(c) ==
    /\ call[c] # NoCall => /\ At(c, "record")
                           /\ call[c].host = req[c].host /\ call[c].up = req[c].up
    /\ broke[c] \subseteq req[c].tried \cup {req[c].up}
    /\ Charging(c) <=> req[c].up \in broke[c]

RequestTypes ==
    /\ req \in [Callers -> Request]
    /\ ended \in [Callers -> BOOLEAN]
    /\ broke \in [Callers -> SUBSET Upstreams] /\ late \in [Callers -> Nat]

LoopInv ==
    /\ SBTypeOK /\ RequestTypes
    /\ \A c \in Callers : WellFormed(req[c]) /\ Recorded(c)

----------------------------------------------------------------------------
(* What a pick may return *)

\* Pick never returns an upstream this request has burnt, nor one outside the
\* pool.
LEMMA PicksUntried ==
    ASSUME SBTypeOK, NEW h \in Hosts, NEW tried, NEW now \in Time,
           NEW u \in PinnedPick(h, tried, now) \cup ScoredPicks(h, tried, now)
    PROVE  u \in Upstreams \ tried
<1>1. PoolIds(pool) \subseteq Upstreams
  BY PoolIdsType DEF SBTypeOK
<1>2. PinnedPick(h, tried, now) \subseteq PoolIds(pool) \ tried
  BY DEF PinnedPick
<1>3. Candidates(h, tried) \subseteq PoolIds(pool) \ tried
  BY DEF Candidates
<1>4. ScoredPicks(h, tried, now) \subseteq Candidates(h, tried)
  BY DEF ScoredPicks
<1>5. QED
  BY <1>1, <1>2, <1>3, <1>4

----------------------------------------------------------------------------
(* The loop keeps its invariant *)

\* A step of one request touches no other request.
LEMMA LoopInvFrom ==
    ASSUME LoopInv, SBTypeOK', RequestTypes', NEW c \in Callers,
           \A d \in Callers \ {c} :
              /\ req'[d] = req[d] /\ broke'[d] = broke[d] /\ call'[d] = call[d],
           WellFormed(req'[c]), Recorded(c)'
    PROVE  LoopInv'
BY DEF LoopInv, Recorded, Charging, At

LEMMA BurntIsWellFormed ==
    ASSUME LoopInv, NEW c \in Callers, req[c].pc \in {"dial", "response", "record"},
           req' = Burnt(c)
    PROVE  /\ req' \in [Callers -> Request] /\ WellFormed(req'[c])
           /\ req'[c].tried = req[c].tried \cup {req[c].up}
           /\ req'[c].up = NoUpstream /\ req'[c].pc = "attempt"
           /\ req'[c].host = req[c].host
           /\ \A d \in Callers \ {c} : req'[d] = req[d]
<1> DEFINE r == req[c]
<1>1. /\ r \in Request /\ WellFormed(r) /\ r.up \in Upstreams
      /\ r.host \in Hosts /\ r.i < r.limit /\ r.result = "none"
      /\ req \in [Callers -> Request]
  BY DEF LoopInv, RequestTypes, Request, WellFormed
<1>2. /\ req'[c].pc = "attempt" /\ req'[c].host = r.host /\ req'[c].limit = r.limit
      /\ req'[c].i = r.i + 1 /\ req'[c].tried = r.tried \cup {r.up}
      /\ req'[c].up = NoUpstream /\ req'[c].result = r.result
  BY <1>1 DEF Burnt, Request
<1>3. /\ IsFiniteSet(r.tried \cup {r.up})
      /\ Cardinality(r.tried \cup {r.up}) = Cardinality(r.tried) + 1
  BY <1>1, FS_AddElement DEF WellFormed
<1>4. req' \in [Callers -> Request]
  BY <1>1, <1>2 DEF Burnt, Request, Stages
<1>5. WellFormed(req'[c])
  BY <1>1, <1>2, <1>3, DialAssumption DEF WellFormed, Request
<1>6. QED
  BY <1>1, <1>2, <1>4, <1>5 DEF Burnt

LEMMA FinishedIsWellFormed ==
    ASSUME LoopInv, NEW c \in Callers, NEW result \in Verdicts \ {"none"},
           req[c].pc # "done", req[c].pc # "idle", req' = Finished(c, result)
    PROVE  /\ req' \in [Callers -> Request] /\ WellFormed(req'[c])
           /\ req'[c].tried = req[c].tried /\ req'[c].up = req[c].up
           /\ req'[c].host = req[c].host /\ req'[c].pc = "done"
           /\ \A d \in Callers \ {c} : req'[d] = req[d]
<1> DEFINE r == req[c]
<1>1. r \in Request /\ WellFormed(r) /\ req \in [Callers -> Request]
  BY DEF LoopInv, RequestTypes
<1>2. /\ req'[c].pc = "done" /\ req'[c].host = r.host /\ req'[c].limit = r.limit
      /\ req'[c].i = r.i /\ req'[c].tried = r.tried
      /\ req'[c].up = r.up /\ req'[c].result = result /\ req'[c].now = Never
  BY <1>1 DEF Finished, Request
<1>3. req' \in [Callers -> Request]
  BY <1>1 DEF Finished, Request, Stages, Never, Time
<1>4. WellFormed(req'[c])
  BY <1>1, <1>2 DEF WellFormed, Verdicts
<1>5. QED
  BY <1>1, <1>2, <1>3, <1>4 DEF Finished

\* A request that moves on with nothing else in hand than before.
LEMMA MovedIsWellFormed ==
    ASSUME LoopInv, NEW c \in Callers, NEW pc \in Stages,
           \/ /\ req[c].pc \in {"detector", "inspection", "attempt", "pin", "rank"}
              /\ pc \in {"inspection", "attempt", "trip"}
           \/ req[c].pc = "pin" /\ pc = "rank"
           \/ req[c].pc = "dial" /\ pc \in {"response", "record"}
           \/ req[c].pc = "response" /\ pc = "record",
           req' = Moved(c, pc)
    PROVE  /\ req' \in [Callers -> Request] /\ WellFormed(req'[c])
           /\ req'[c].tried = req[c].tried /\ req'[c].up = req[c].up
           /\ req'[c].host = req[c].host /\ req'[c].pc = pc
           /\ \A d \in Callers \ {c} : req'[d] = req[d]
<1> DEFINE r == req[c]
<1>1. r \in Request /\ WellFormed(r) /\ req \in [Callers -> Request]
  BY DEF LoopInv, RequestTypes
<1>2. /\ req'[c].pc = pc /\ req'[c].host = r.host /\ req'[c].limit = r.limit
      /\ req'[c].i = r.i /\ req'[c].tried = r.tried
      /\ req'[c].up = r.up /\ req'[c].result = r.result
  BY <1>1 DEF Moved, Request
<1>3. req' \in [Callers -> Request]
  BY <1>1 DEF Moved, Request
<1>4. WellFormed(req'[c])
  BY <1>1, <1>2 DEF WellFormed
<1>5. QED
  BY <1>1, <1>2, <1>3, <1>4 DEF Moved

\* Pick hands an upstream of the pool that is still untried to the dial.
LEMMA DialIsWellFormed ==
    ASSUME LoopInv, NEW c \in Callers, NEW u \in Upstreams \ req[c].tried,
           req[c].pc \in {"pin", "rank"}, StartDial(c, u)
    PROVE  /\ req' \in [Callers -> Request] /\ WellFormed(req'[c])
           /\ req'[c].tried = req[c].tried /\ req'[c].up = u
           /\ req'[c].host = req[c].host /\ req'[c].pc = "dial"
           /\ \A d \in Callers \ {c} : req'[d] = req[d]
           /\ late' \in [Callers -> Nat]
<1> DEFINE r == req[c]
<1>1. /\ r \in Request /\ WellFormed(r) /\ req \in [Callers -> Request]
      /\ late \in [Callers -> Nat]
  BY DEF LoopInv, RequestTypes
<1>2. /\ req'[c].pc = "dial" /\ req'[c].host = r.host /\ req'[c].limit = r.limit
      /\ req'[c].i = r.i /\ req'[c].tried = r.tried
      /\ req'[c].up = u /\ req'[c].result = r.result
  BY <1>1 DEF StartDial, Request
<1>3. req' \in [Callers -> Request]
  BY <1>1 DEF StartDial, Request, Stages, Never, Time
<1>4. WellFormed(req'[c])
  BY <1>1, <1>2, DialAssumption DEF WellFormed
<1>5. late' \in [Callers -> Nat]
  BY <1>1 DEF StartDial
<1>6. QED
  BY <1>1, <1>2, <1>3, <1>4, <1>5 DEF StartDial

\* Nothing an operator, a reload, a prune or the clock does touches what is
\* being recorded, charges a failure, or puts a host into cascade.
LEMMA AdministrationIsCalm ==
    ASSUME SBTypeOK, Administration
    PROVE  /\ SBTypeOK' /\ call' = call
           /\ \A p \in Pairs : entries'[p].failures <= entries[p].failures
           /\ \A h \in Hosts : CascadeActive(h, clock)' => CascadeActive(h, clock)
<1> DEFINE Calm == /\ call' = call
                   /\ \A p \in Pairs : entries'[p].failures <= entries[p].failures
                   /\ \A h \in Hosts : CascadeActive(h, clock)' => CascadeActive(h, clock)
<1>1. SBTypeOK'
  BY TypeStep DEF SBNext
<1>2. /\ clock \in Nat /\ entries \in [Pairs -> Entry] /\ cascade \in [Hosts -> Nat]
      /\ \A p \in Pairs : entries[p].failures \in Nat
  BY DEF SBTypeOK, Time, Entry
<1>3. ASSUME Tick PROVE Calm
  BY <1>2, <1>3 DEF Tick, CascadeActive, half_vars
<1>4. ASSUME DecayTick PROVE Calm
  BY <1>2, <1>4 DEF DecayTick, CascadeActive, Entry
<1>5. ASSUME call' = call, clock' = clock,
             \A p \in Pairs : entries'[p] \in {entries[p], Absent},
             \A h \in Hosts : cascade'[h] \in {cascade[h], Never}
      PROVE  Calm
  BY <1>2, <1>5 DEF CascadeActive, Never, Absent
<1>6. ASSUME PruneEntries PROVE Calm
  BY <1>5, <1>6 DEF PruneEntries
<1>7. ASSUME ResetState PROVE Calm
  BY <1>5, <1>7 DEF ResetState
<1>8. ASSUME NEW h \in Hosts, ForgetEntries(h) PROVE Calm
  BY <1>2, <1>5, <1>8 DEF ForgetEntries
<1>9. ASSUME UNCHANGED <<clock, entries, cascade, call>> PROVE Calm
  BY <1>2, <1>9 DEF CascadeActive
<1>10. ASSUME NEW h \in Hosts,
              \/ SeeExpiredPin(h) \/ ClearPin(h)
              \/ \E u \in Upstreams, ttl \in PinTTLs : ForcePin(h, u, ttl)
              \/ \E now \in 1..MaxTime : EvictPin(h, now)
       PROVE  Calm
  BY <1>9, <1>10 DEF SeeExpiredPin, ClearPin, ForcePin, EvictPin
<1>11. ASSUME \/ PruneDebounce
              \/ \E hosts \in wipes : WipeDebounce(hosts)
              \/ \E p \in Pools : ReplacePool(p)
              \/ \E rs \in RuleSets : ReplaceRules(rs)
              \/ \E c \in Configs : Reload(c)
       PROVE  Calm
  BY <1>9, <1>11 DEF PruneDebounce, WipeDebounce, ReplacePool, ReplaceRules, Reload
<1> HIDE DEF Calm
<1>12. Calm
  BY <1>3, <1>4, <1>6, <1>7, <1>8, <1>10, <1>11 DEF Administration
<1>13. QED
  BY <1>1, <1>12 DEF Calm

\* A request that changes nothing but its own place in the loop.
LEMMA TurnKeepsLoop ==
    ASSUME LoopInv, SBTypeOK', NEW c \in Callers,
           req' \in [Callers -> Request], WellFormed(req'[c]),
           \A d \in Callers \ {c} : req'[d] = req[d],
           late' \in [Callers -> Nat],
           UNCHANGED <<call, ended, broke>>,
           call[c] = NoCall,
           req[c].tried \cup {req[c].up} \subseteq req'[c].tried \cup {req'[c].up, NoUpstream},
           req'[c].up # NoUpstream /\ req'[c].up # req[c].up => req'[c].up \notin broke[c]
    PROVE  LoopInv'
<1>1. broke \in [Callers -> SUBSET Upstreams] /\ Recorded(c) /\ RequestTypes'
  BY DEF LoopInv, RequestTypes
<1>2. Recorded(c)'
  BY <1>1, DialAssumption DEF Recorded, Charging, At
<1>3. QED
  BY <1>1, <1>2, LoopInvFrom

\* Pick, from the clock reading to the dial.
LEMMA PickKeepsLoop ==
    ASSUME LoopInv, NEW c \in Callers,
           \/ Attempt(c) \/ LeaveLoop(c)
           \/ PickForced(c) \/ PickUnforced(c) \/ PickRanked(c) \/ PickExhausted(c)
    PROVE  LoopInv'
<1> DEFINE r == req[c]
<1>1. /\ r \in Request /\ WellFormed(r) /\ Recorded(c) /\ SBTypeOK
      /\ req \in [Callers -> Request] /\ late \in [Callers -> Nat]
      /\ ended[c] \in BOOLEAN
  BY DEF LoopInv, RequestTypes
<1>2. UNCHANGED sbvars => SBTypeOK' /\ call' = call
  BY <1>1, TypeStep DEF sbvars
<1>3. CASE Attempt(c)
  <2>1. r.pc = "attempt" /\ r.i < r.limit /\ r.up = NoUpstream /\ call[c] = NoCall
    BY <1>1, <1>3 DEF Attempt, At, WellFormed, Recorded
  <2>2. ASSUME req' = [req EXCEPT ![c].pc = "pin", ![c].now = clock]
        PROVE  /\ req' \in [Callers -> Request] /\ WellFormed(req'[c])
               /\ req'[c].tried = r.tried /\ req'[c].up = r.up
               /\ \A d \in Callers \ {c} : req'[d] = req[d]
    <3>1. /\ req'[c].pc = "pin" /\ req'[c].host = r.host /\ req'[c].limit = r.limit
          /\ req'[c].i = r.i /\ req'[c].tried = r.tried
          /\ req'[c].up = r.up /\ req'[c].result = r.result
      BY <1>1, <2>2 DEF Request
    <3>2. req' \in [Callers -> Request]
      BY <1>1, <2>2 DEF Request, Stages, SBTypeOK
    <3>3. QED
      BY <1>1, <2>1, <2>2, <3>1, <3>2 DEF WellFormed
  <2>3. /\ req' \in [Callers -> Request] /\ WellFormed(req'[c])
        /\ req'[c].tried = r.tried /\ req'[c].up = r.up
        /\ \A d \in Callers \ {c} : req'[d] = req[d]
    BY <1>3, <2>1, <2>2, FinishedIsWellFormed DEF Attempt, Verdicts
  <2>4. QED
    BY <1>1, <1>2, <1>3, <2>1, <2>3, TurnKeepsLoop DEF Attempt
<1>4. CASE LeaveLoop(c)
  <2>1. r.pc = "attempt" /\ call[c] = NoCall
    BY <1>1, <1>4 DEF LeaveLoop, At, Recorded
  <2>2. QED
    BY <1>1, <1>2, <1>4, <2>1, MovedIsWellFormed, TurnKeepsLoop DEF LeaveLoop, Stages
<1>5. CASE PickForced(c) \/ PickRanked(c)
  <2>1. /\ r.pc \in {"pin", "rank"} /\ call[c] = NoCall /\ r.up = NoUpstream
        /\ r.host \in Hosts /\ r.now \in Time
    BY <1>1, <1>5 DEF PickForced, PickRanked, At, Recorded, WellFormed, Request
  <2>2. PICK u \in Upstreams \ r.tried : StartDial(c, u)
    BY <1>1, <1>5, <2>1, PicksUntried DEF PickForced, PickRanked
  <2>3. u \notin broke[c] /\ u # NoUpstream
    BY <1>1, <2>1, <2>2, DialAssumption DEF Recorded
  <2>4. QED
    BY <1>1, <1>2, <1>5, <2>1, <2>2, <2>3, DialIsWellFormed, TurnKeepsLoop
       DEF PickForced, PickRanked
<1>6. CASE PickUnforced(c)
  <2>1. r.pc = "pin" /\ call[c] = NoCall /\ r.host \in Hosts /\ r.now \in Time
    BY <1>1, <1>6 DEF PickUnforced, At, Recorded, WellFormed, Request
  <2>2. evicting' \subseteq Hosts \X Time
    BY <1>1, <1>6, <2>1 DEF PickUnforced, SBTypeOK
  <2>3. SBTypeOK'
    BY <1>1, <1>6, <2>2 DEF PickUnforced, SBTypeOK, config_vars
  <2>4. QED
    BY <1>1, <1>6, <2>1, <2>3, MovedIsWellFormed, TurnKeepsLoop DEF PickUnforced, Stages
<1>7. CASE PickExhausted(c)
  <2>1. r.pc = "rank" /\ call[c] = NoCall
    BY <1>1, <1>7 DEF PickExhausted, At, Recorded
  <2>2. /\ req'[c].pc = "trip" /\ req'[c].host = r.host /\ req'[c].limit = r.limit
        /\ req'[c].i = r.i /\ req'[c].tried = r.tried
        /\ req'[c].up = r.up /\ req'[c].result = r.result
    BY <1>1, <1>7 DEF PickExhausted, Moved, Request
  <2>3. /\ req' \in [Callers -> Request]
        /\ \A d \in Callers \ {c} : req'[d] = req[d]
    BY <1>1, <1>7 DEF PickExhausted, Moved, Request, Stages, Never, Time
  <2>4. WellFormed(req'[c])
    BY <1>1, <2>1, <2>2 DEF WellFormed
  <2>5. QED
    BY <1>1, <1>2, <1>7, <2>1, <2>2, <2>3, <2>4, TurnKeepsLoop DEF PickExhausted
<1>8. QED
  BY <1>3, <1>4, <1>5, <1>6, <1>7

\* RecordSuccess and RecordFailure, and the cascade after the last attempt.
LEMMA RecordKeepsLoop ==
    ASSUME LoopInv, NEW c \in Callers,
           Credited(c) \/ Stamp(c) \/ Charged(c) \/ Trip(c)
    PROVE  LoopInv'
<1> DEFINE r == req[c]
<1>1. /\ r \in Request /\ WellFormed(r) /\ Recorded(c) /\ SBTypeOK /\ RequestTypes
      /\ req \in [Callers -> Request] /\ late \in [Callers -> Nat]
      /\ broke \in [Callers -> SUBSET Upstreams]
      /\ call \in [Callers -> Call \cup {NoCall}]
  BY DEF LoopInv, RequestTypes, SBTypeOK
<1>2. CASE Credited(c)
  <2>1. SBTypeOK'
    BY <1>1, <1>2, SuccessType DEF Credited
  <2>2. /\ call[c] # NoCall /\ call[c].op = "succeeding" /\ r.pc = "record"
        /\ call' = [call EXCEPT ![c] = NoCall] /\ req' = Finished(c, "ok")
        /\ UNCHANGED <<ended, broke, late>>
    BY <1>2 DEF Credited, ApplySuccess, At
  <2>3. /\ req' \in [Callers -> Request] /\ WellFormed(req'[c])
        /\ req'[c].tried = r.tried /\ req'[c].up = r.up /\ req'[c].host = r.host
        /\ \A d \in Callers \ {c} : req'[d] = req[d]
    BY <2>2, FinishedIsWellFormed DEF Verdicts
  <2>4. call'[c] = NoCall /\ \A d \in Callers \ {c} : call'[d] = call[d]
    BY <1>1, <2>2
  <2>5. Recorded(c)'
    BY <1>1, <2>2, <2>3, <2>4 DEF Recorded, Charging
  <2>6. QED
    BY <1>1, <2>1, <2>2, <2>3, <2>4, <2>5, LoopInvFrom DEF RequestTypes
<1>3. CASE Stamp(c)
  <2>1. SBTypeOK'
    BY <1>1, <1>3, FailureType DEF Stamp
  <2>2. /\ call[c] # NoCall /\ call[c].op = "failing" /\ call[c] \in Call
        /\ call' = [call EXCEPT ![c].op = "stamped"]
        /\ UNCHANGED request_vars
    BY <1>1, <1>3 DEF Stamp, AcceptFailure
  <2>3. /\ call'[c].op = "stamped" /\ call'[c].host = call[c].host
        /\ call'[c].up = call[c].up /\ call'[c] \in Call
        /\ \A d \in Callers \ {c} : call'[d] = call[d]
    BY <1>1, <2>2 DEF Call
  <2>4. Recorded(c)'
    BY <1>1, <2>2, <2>3, NoCallAssumption DEF Recorded, Charging, request_vars, At
  <2>5. QED
    BY <1>1, <2>1, <2>2, <2>3, <2>4, LoopInvFrom DEF RequestTypes, request_vars
<1>4. CASE Charged(c)
  <2>1. SBTypeOK'
    BY <1>1, <1>4, FailureType DEF Charged
  <2>2. /\ call[c] # NoCall /\ call[c].op # "succeeding" /\ r.pc = "record"
        /\ call' = [call EXCEPT ![c] = NoCall] /\ req' = Burnt(c)
        /\ UNCHANGED <<ended, broke, late>>
    BY <1>4 DEF Charged, DropFailure, ApplyFailure, At
  <2>3. /\ req' \in [Callers -> Request] /\ WellFormed(req'[c])
        /\ req'[c].tried = r.tried \cup {r.up} /\ req'[c].up = NoUpstream
        /\ \A d \in Callers \ {c} : req'[d] = req[d]
    BY <2>2, BurntIsWellFormed
  <2>4. call'[c] = NoCall /\ \A d \in Callers \ {c} : call'[d] = call[d]
    BY <1>1, <2>2
  <2>5. Recorded(c)'
    BY <1>1, <2>2, <2>3, <2>4, DialAssumption DEF Recorded, Charging
  <2>6. QED
    BY <1>1, <2>1, <2>2, <2>3, <2>4, <2>5, LoopInvFrom DEF RequestTypes
<1>5. CASE Trip(c)
  <2>1. r.pc = "trip" /\ r.host \in Hosts /\ call[c] = NoCall
    BY <1>1, <1>5 DEF Trip, At, WellFormed, Recorded
  <2>2. SBTypeOK'
    BY <1>1, <1>5, <2>1, TimeType DEF Trip
  <2>3. late' \in [Callers -> Nat]
    BY <1>1, <1>5 DEF Trip
  <2>4. /\ req' \in [Callers -> Request] /\ WellFormed(req'[c])
        /\ req'[c].tried = r.tried /\ req'[c].up = r.up
        /\ \A d \in Callers \ {c} : req'[d] = req[d]
    BY <1>5, <2>1, FinishedIsWellFormed DEF Trip, Verdicts
  <2>5. QED
    BY <1>1, <1>5, <2>1, <2>2, <2>3, <2>4, TurnKeepsLoop DEF Trip, TripCascade
<1>6. QED
  BY <1>2, <1>3, <1>4, <1>5

LEMMA WalkKeepsLoop ==
    ASSUME LoopInv, NEW c \in Callers, Walk(c)
    PROVE  LoopInv'
BY PickKeepsLoop, RecordKeepsLoop DEF Walk

----------------------------------------------------------------------------
(* What an attempt may end in *)

\* The attempt has failed on its own and is about to be charged.
LEMMA ChargeKeepsLoop ==
    ASSUME LoopInv, NEW c \in Callers, req[c].pc \in {"dial", "response"},
           NEW k \in Kinds, NEW o \in RetryAfters \cup {NoOverride},
           BeginFailure(c, req[c].host, req[c].up, k, o), Breaks(c),
           req' = Moved(c, "record"), UNCHANGED <<ended, late>>
    PROVE  LoopInv'
<1> DEFINE r == req[c]
<1>1. /\ r \in Request /\ WellFormed(r) /\ Recorded(c) /\ SBTypeOK /\ RequestTypes
      /\ r.host \in Hosts /\ r.up \in Upstreams
      /\ broke \in [Callers -> SUBSET Upstreams]
      /\ call \in [Callers -> Call \cup {NoCall}]
  BY DEF LoopInv, RequestTypes, SBTypeOK, WellFormed, Request
<1>2. SBTypeOK'
  BY <1>1, FailureType
<1>3. /\ broke' \in [Callers -> SUBSET Upstreams] /\ broke'[c] = broke[c] \cup {r.up}
      /\ \A d \in Callers \ {c} : broke'[d] = broke[d]
  BY <1>1 DEF Breaks
<1>4. /\ req' \in [Callers -> Request] /\ WellFormed(req'[c])
      /\ req'[c].tried = r.tried /\ req'[c].up = r.up /\ req'[c].host = r.host
      /\ req'[c].pc = "record"
      /\ \A d \in Callers \ {c} : req'[d] = req[d]
  BY MovedIsWellFormed DEF Stages
<1>5. /\ call'[c].op = "failing" /\ call'[c].host = r.host /\ call'[c].up = r.up
      /\ \A d \in Callers \ {c} : call'[d] = call[d]
  BY <1>1 DEF BeginFailure
<1>6. call'[c] # NoCall
  <2>1. [op |-> "failing", host |-> r.host, up |-> r.up, kind |-> k, override |-> o,
         now |-> clock, cfg |-> cfg] \in Call
    BY <1>1 DEF Call, SBTypeOK
  <2>2. QED
    BY <1>1, <2>1, NoCallAssumption DEF BeginFailure
<1>7. Recorded(c)'
  BY <1>1, <1>3, <1>4, <1>5, <1>6 DEF Recorded, Charging, At
<1>8. QED
  BY <1>1, <1>2, <1>3, <1>4, <1>5, <1>7, LoopInvFrom DEF RequestTypes

\* The attempt has succeeded and is about to be credited.
LEMMA CreditKeepsLoop ==
    ASSUME LoopInv, NEW c \in Callers, req[c].pc \in {"dial", "response"},
           BeginSuccess(c, req[c].host, req[c].up),
           req' = Moved(c, "record"), UNCHANGED <<ended, broke, late>>
    PROVE  LoopInv'
<1> DEFINE r == req[c]
<1>1. /\ r \in Request /\ WellFormed(r) /\ Recorded(c) /\ SBTypeOK /\ RequestTypes
      /\ r.host \in Hosts /\ r.up \in Upstreams /\ call[c] = NoCall
      /\ call \in [Callers -> Call \cup {NoCall}]
  BY DEF LoopInv, RequestTypes, SBTypeOK, WellFormed, Request, Recorded, At
<1>2. SBTypeOK'
  BY <1>1, SuccessType
<1>3. /\ req' \in [Callers -> Request] /\ WellFormed(req'[c])
      /\ req'[c].tried = r.tried /\ req'[c].up = r.up /\ req'[c].host = r.host
      /\ req'[c].pc = "record"
      /\ \A d \in Callers \ {c} : req'[d] = req[d]
  BY MovedIsWellFormed DEF Stages
<1>4. /\ call'[c].op = "succeeding" /\ call'[c].host = r.host /\ call'[c].up = r.up
      /\ \A d \in Callers \ {c} : call'[d] = call[d]
  BY <1>1 DEF BeginSuccess
<1>5. Recorded(c)'
  BY <1>1, <1>3, <1>4 DEF Recorded, Charging, At
<1>6. QED
  BY <1>1, <1>2, <1>3, <1>4, <1>5, LoopInvFrom DEF RequestTypes

\* The attempt has failed, on its own or not, and is not charged.
LEMMA RotateKeepsLoop ==
    ASSUME LoopInv, NEW c \in Callers, req[c].pc \in {"dial", "response"},
           Breaks(c) \/ UNCHANGED broke,
           req' = Burnt(c), UNCHANGED <<sbvars, ended, late>>
    PROVE  LoopInv'
<1> DEFINE r == req[c]
<1>1. /\ r \in Request /\ WellFormed(r) /\ Recorded(c) /\ SBTypeOK /\ RequestTypes
      /\ r.up \in Upstreams /\ call[c] = NoCall /\ call' = call
      /\ broke \in [Callers -> SUBSET Upstreams]
  BY DEF LoopInv, RequestTypes, SBTypeOK, WellFormed, Request, Recorded, At, sbvars
<1>2. SBTypeOK'
  BY <1>1, TypeStep
<1>3. /\ broke' \in [Callers -> SUBSET Upstreams]
      /\ broke'[c] \subseteq broke[c] \cup {r.up}
      /\ \A d \in Callers \ {c} : broke'[d] = broke[d]
  BY <1>1 DEF Breaks
<1>4. /\ req' \in [Callers -> Request] /\ WellFormed(req'[c])
      /\ req'[c].tried = r.tried \cup {r.up} /\ req'[c].up = NoUpstream
      /\ \A d \in Callers \ {c} : req'[d] = req[d]
  BY BurntIsWellFormed
<1>5. NoUpstream \notin broke'[c]
  BY <1>3, DialAssumption
<1>6. Recorded(c)'
  BY <1>1, <1>3, <1>4, <1>5 DEF Recorded, Charging
<1>7. QED
  BY <1>1, <1>2, <1>3, <1>4, <1>6, LoopInvFrom DEF RequestTypes

\* The attempt has ended with the caller gone.
LEMMA CutKeepsLoop ==
    ASSUME LoopInv, NEW c \in Callers, req[c].pc = "dial",
           req' = Finished(c, "cancelled"), UNCHANGED <<sbvars, ended, broke, late>>
    PROVE  LoopInv'
<1>1. Recorded(c) /\ late \in [Callers -> Nat]
  BY DEF LoopInv, RequestTypes
<1>2. call[c] = NoCall /\ call' = call
  BY <1>1 DEF Recorded, At, sbvars
<1>3. SBTypeOK'
  BY TypeStep DEF LoopInv
<1>4. /\ req' \in [Callers -> Request] /\ WellFormed(req'[c])
      /\ req'[c].tried = req[c].tried /\ req'[c].up = req[c].up
      /\ \A d \in Callers \ {c} : req'[d] = req[d]
  BY FinishedIsWellFormed DEF Verdicts
<1>5. QED
  BY <1>1, <1>2, <1>3, <1>4, TurnKeepsLoop

\* A call that begins, or is answered without an attempt.
LEMMA OpeningKeepsLoop ==
    ASSUME LoopInv, NEW c \in Callers, req[c].pc = "idle",
           NEW opened \in Request, req' = [req EXCEPT ![c] = opened],
           opened.pc \in {"detector", "attempt", "done"},
           opened.pc # "done" => opened.host \in Hosts,
           opened.result = "none" <=> opened.pc # "done",
           opened.i = 0, opened.tried = {}, opened.up = NoUpstream,
           UNCHANGED <<sbvars, ended, broke, late>>
    PROVE  LoopInv'
<1>1. /\ Recorded(c) /\ WellFormed(req[c]) /\ SBTypeOK /\ late \in [Callers -> Nat]
      /\ req \in [Callers -> Request]
  BY DEF LoopInv, RequestTypes
<1>2. call[c] = NoCall /\ call' = call /\ req[c].tried = {} /\ req[c].up = NoUpstream
  BY <1>1 DEF Recorded, At, sbvars, WellFormed, Idle
<1>3. SBTypeOK'
  BY TypeStep DEF LoopInv
<1>4. req' \in [Callers -> Request] /\ \A d \in Callers \ {c} : req'[d] = req[d]
  BY <1>1
<1>5. WellFormed(req'[c])
  <2>1. req'[c] = opened
    BY <1>1
  <2>2. Cardinality(opened.tried) = 0 /\ IsFiniteSet(opened.tried)
    BY FS_EmptySet
  <2>3. opened.limit \in Nat /\ opened.i <= opened.limit
    BY DEF Request
  <2>4. QED
    BY <2>1, <2>2, <2>3, DialAssumption DEF WellFormed
<1>6. QED
  BY <1>1, <1>2, <1>3, <1>4, <1>5, TurnKeepsLoop

LEMMA BeginKeepsLoop ==
    ASSUME LoopInv, NEW c \in Callers, NEW h \in Hosts, Begin(c, h)
    PROVE  LoopInv'
<1> DEFINE refused == [Idle EXCEPT !.pc = "done", !.host = h, !.result = "cascade"]
           admitted == [Idle EXCEPT !.pc = "attempt", !.host = h,
                                    !.limit = Least(pool.retryCap, Len(pool.order))]
<1>1. pool \in Pools /\ pool.retryCap \in Nat /\ Len(pool.order) \in Nat
  BY PoolsAssumption DEF LoopInv, SBTypeOK
<1>2. Least(pool.retryCap, Len(pool.order)) \in 0..RetryCeiling
  BY <1>1, DialAssumption DEF Least
<1>3. refused \in Request /\ admitted \in Request
  <2>1. Idle \in Request
    BY DialAssumption DEF Idle, Request, Stages, Verdicts, Never, Time
  <2>2. QED
    BY <1>2, <2>1 DEF Request, Stages, Verdicts
<1>4. /\ refused.pc = "done" /\ refused.result = "cascade" /\ refused.i = 0
      /\ refused.tried = {} /\ refused.up = NoUpstream
      /\ admitted.pc = "attempt" /\ admitted.result = "none" /\ admitted.i = 0
      /\ admitted.tried = {} /\ admitted.up = NoUpstream /\ admitted.host = h
  BY DEF Idle
<1>5. /\ req' = [req EXCEPT ![c] = IF CascadeActive(h, clock) THEN refused ELSE admitted]
      /\ req[c].pc = "idle" /\ UNCHANGED <<sbvars, ended, broke, late>>
  BY DEF Begin, At
<1> HIDE DEF refused, admitted
<1>6. QED
  BY <1>3, <1>4, <1>5, OpeningKeepsLoop

LEMMA CancelKeepsLoop ==
    ASSUME LoopInv, NEW c \in Callers, Cancel(c)
    PROVE  LoopInv'
<1>1. SBTypeOK' /\ UNCHANGED <<call, req, broke, late>>
  BY TypeStep DEF LoopInv, Cancel, sbvars
<1>2. ended' \in [Callers -> BOOLEAN]
  BY DEF LoopInv, RequestTypes, Cancel
<1>3. QED
  BY <1>1, <1>2 DEF LoopInv, RequestTypes, Recorded, Charging, At

LEMMA AdministrationKeepsLoop ==
    ASSUME LoopInv, Administration, UNCHANGED request_vars
    PROVE  LoopInv'
<1>1. SBTypeOK' /\ UNCHANGED <<call, request_vars>>
  BY AdministrationIsCalm DEF LoopInv
<1>2. QED
  BY <1>1 DEF LoopInv, RequestTypes, Recorded, Charging, At, request_vars

\* DialFor's own attempts.
LEMMA DialKeepsLoop ==
    ASSUME LoopInv, NEW c \in Callers, Step(c)
    PROVE  LoopInv'
<1>1. CASE Walk(c)
  BY <1>1, WalkKeepsLoop
<1>2. CASE DialSucceeds(c)
  BY <1>2, CreditKeepsLoop DEF DialSucceeds, At
<1>3. CASE DialCut(c)
  BY <1>3, CutKeepsLoop DEF DialCut, At
<1>4. CASE DialRefusedUnscored(c)
  BY <1>4, RotateKeepsLoop DEF DialRefusedUnscored, At
<1>5. ASSUME NEW k \in DialKinds, DialFails(c, k)
      PROVE  LoopInv'
  BY <1>5, ChargeKeepsLoop, DialAssumption DEF DialFails, At
<1>6. QED
  BY <1>1, <1>2, <1>3, <1>4, <1>5 DEF Step

----------------------------------------------------------------------------
(* Only real failures are charged *)

\* The requests whose charge against p is still on its way, and those p failed.
InFlight(p) == {c \in Callers : Charging(c) /\ <<call[c].host, call[c].up>> = p}
Failed(p) == {c \in Callers : req[c].host = p[1] /\ p[2] \in broke[c]}

LEMMA ChargesCounted ==
    OnlyRealFailuresCharged <=>
       \A p \in Pairs :
          entries[p].failures + Cardinality(InFlight(p)) <= Cardinality(Failed(p))
<1>1. \A p \in Pairs :
         {c \in Callers : /\ call[c] # NoCall /\ call[c].op # "succeeding"
                          /\ <<call[c].host, call[c].up>> = p} = InFlight(p)
  BY DEF InFlight, Charging
<1>2. QED
  BY <1>1 DEF OnlyRealFailuresCharged, Failed

LEMMA ChargesCountedNext ==
    OnlyRealFailuresCharged' <=>
       \A p \in Pairs :
          (entries[p].failures + Cardinality(InFlight(p)) <= Cardinality(Failed(p)))'
<1>1. \A p \in Pairs :
         {c \in Callers : /\ call'[c] # NoCall /\ call'[c].op # "succeeding"
                          /\ <<call'[c].host, call'[c].up>> = p} = InFlight(p)'
  BY DEF InFlight, Charging
<1>2. QED
  BY <1>1 DEF OnlyRealFailuresCharged, Failed

LEMMA SetsAreFinite ==
    ASSUME NEW p
    PROVE  /\ IsFiniteSet(InFlight(p)) /\ Cardinality(InFlight(p)) \in Nat
           /\ IsFiniteSet(Failed(p)) /\ Cardinality(Failed(p)) \in Nat
<1>1. InFlight(p) \subseteq Callers /\ Failed(p) \subseteq Callers
  BY DEF InFlight, Failed
<1>2. QED
  BY <1>1, DialAssumption, FS_Subset, FS_CardinalityType

\* Nothing new is charged: what is on its way may be applied or dropped.
LEMMA CalmKeepsCharges ==
    ASSUME SBTypeOK, SBTypeOK', OnlyRealFailuresCharged, NEW p \in Pairs,
           entries'[p].failures <= entries[p].failures,
           InFlight(p)' \subseteq InFlight(p), Failed(p) \subseteq Failed(p)'
    PROVE  (entries[p].failures + Cardinality(InFlight(p)) <= Cardinality(Failed(p)))'
<1>1. Cardinality(InFlight(p)') <= Cardinality(InFlight(p))
  BY SetsAreFinite, FS_Subset
<1>2. /\ IsFiniteSet(Failed(p)') /\ Cardinality(Failed(p)') \in Nat
      /\ Cardinality(InFlight(p)') \in Nat
  <2>1. Failed(p)' \subseteq Callers /\ InFlight(p)' \subseteq Callers
    BY DEF Failed, InFlight
  <2>2. QED
    BY <2>1, DialAssumption, FS_Subset, FS_CardinalityType
<1>3. Cardinality(Failed(p)) <= Cardinality(Failed(p)')
  BY <1>2, FS_Subset
<1>4. entries[p].failures \in Nat /\ entries'[p].failures \in Nat
  BY DEF SBTypeOK, Entry
<1>5. entries[p].failures + Cardinality(InFlight(p)) <= Cardinality(Failed(p))
  BY ChargesCounted
<1>6. QED
  BY <1>1, <1>2, <1>3, <1>4, <1>5, SetsAreFinite

\* ...which is so of every step that puts no charge on its way.
LEMMA NoNewCharge ==
    ASSUME LoopInv, SBTypeOK', OnlyRealFailuresCharged,
           \A p \in Pairs : entries'[p].failures <= entries[p].failures,
           \A d \in Callers : Charging(d)' => /\ Charging(d)
                                             /\ call'[d].host = call[d].host
                                             /\ call'[d].up = call[d].up,
           \A d \in Callers : /\ broke[d] \subseteq broke'[d]
                              /\ broke[d] # {} => req'[d].host = req[d].host
    PROVE  OnlyRealFailuresCharged'
<1> SUFFICES ASSUME NEW p \in Pairs
             PROVE  (entries[p].failures + Cardinality(InFlight(p))
                       <= Cardinality(Failed(p)))'
  BY ChargesCountedNext
<1>1. InFlight(p)' \subseteq InFlight(p)
  BY DEF InFlight
<1>2. Failed(p) \subseteq Failed(p)'
  BY DEF Failed
<1>3. QED
  BY <1>1, <1>2, CalmKeepsCharges DEF LoopInv

\* A charge on its way has a failure of its own behind it.
LEMMA ChargeIsReal ==
    ASSUME LoopInv, OnlyRealFailuresCharged, NEW c \in Callers,
           req[c].pc \in {"dial", "response"},
           NEW k \in Kinds, NEW o \in RetryAfters \cup {NoOverride},
           BeginFailure(c, req[c].host, req[c].up, k, o), Breaks(c),
           req' = Moved(c, "record"), UNCHANGED <<ended, late>>
    PROVE  OnlyRealFailuresCharged'
<1> DEFINE r == req[c]
           q == <<r.host, r.up>>
<1>1. /\ r \in Request /\ WellFormed(r) /\ Recorded(c) /\ SBTypeOK
      /\ r.host \in Hosts /\ r.up \in Upstreams
      /\ broke \in [Callers -> SUBSET Upstreams]
      /\ call \in [Callers -> Call \cup {NoCall}] /\ req \in [Callers -> Request]
  BY DEF LoopInv, RequestTypes, SBTypeOK, WellFormed, Request
<1>2. SBTypeOK' /\ entries' = entries
  BY ChargeKeepsLoop DEF LoopInv, BeginFailure
<1>3. /\ broke'[c] = broke[c] \cup {r.up} /\ \A d \in Callers \ {c} : broke'[d] = broke[d]
      /\ call[c] = NoCall /\ r.up \notin broke[c]
  BY <1>1 DEF Breaks, Recorded, Charging, At
<1>4. \A d \in Callers : req'[d].host = req[d].host
  BY <1>1 DEF Moved, Request
<1>5. /\ call'[c].host = r.host /\ call'[c].up = r.up
      /\ \A d \in Callers \ {c} : call'[d] = call[d]
  BY <1>1 DEF BeginFailure
<1>6. \A d \in Callers \ {c} : Charging(d)' <=> Charging(d)
  BY <1>5 DEF Charging
<1> SUFFICES ASSUME NEW p \in Pairs
             PROVE  (entries[p].failures + Cardinality(InFlight(p))
                       <= Cardinality(Failed(p)))'
  BY ChargesCountedNext
<1>7. CASE p # q
  <2>1. p # <<call'[c].host, call'[c].up>> /\ ~(p[1] = r.host /\ p[2] = r.up)
    BY <1>5, <1>7 DEF Pairs
  <2>2. InFlight(p)' \subseteq InFlight(p)
    BY <1>5, <1>6, <2>1 DEF InFlight
  <2>3. Failed(p) \subseteq Failed(p)'
    BY <1>3, <1>4 DEF Failed
  <2>4. entries'[p].failures <= entries[p].failures
    BY <1>1, <1>2 DEF SBTypeOK, Entry
  <2>5. QED
    BY <1>1, <1>2, <2>2, <2>3, <2>4, CalmKeepsCharges
<1>8. CASE p = q
  <2>1. InFlight(p)' \subseteq InFlight(p) \cup {c}
    BY <1>5, <1>6 DEF InFlight
  <2>2. Failed(p) \cup {c} \subseteq Failed(p)' /\ c \notin Failed(p)
    BY <1>3, <1>4, <1>8 DEF Failed
  <2>3. /\ IsFiniteSet(InFlight(p) \cup {c})
        /\ Cardinality(InFlight(p) \cup {c}) <= Cardinality(InFlight(p)) + 1
        /\ Cardinality(Failed(p) \cup {c}) = Cardinality(Failed(p)) + 1
    <3>1. /\ IsFiniteSet(InFlight(p)) /\ Cardinality(InFlight(p)) \in Nat
          /\ IsFiniteSet(Failed(p))
      BY SetsAreFinite
    <3>2. /\ IsFiniteSet(InFlight(p) \cup {c})
          /\ Cardinality(InFlight(p) \cup {c}) \in
                {Cardinality(InFlight(p)), Cardinality(InFlight(p)) + 1}
      BY <3>1, FS_AddElement
    <3>3. Cardinality(Failed(p) \cup {c}) = Cardinality(Failed(p)) + 1
      BY <2>2, <3>1, FS_AddElement
    <3>4. QED
      BY <3>1, <3>2, <3>3
  <2>4. /\ IsFiniteSet(Failed(p)') /\ Cardinality(Failed(p)') \in Nat
        /\ Cardinality(InFlight(p)') \in Nat
    <3>1. Failed(p)' \subseteq Callers /\ InFlight(p)' \subseteq Callers
      BY DEF Failed, InFlight
    <3>2. QED
      BY <3>1, DialAssumption, FS_Subset, FS_CardinalityType
  <2>5. Cardinality(InFlight(p)') <= Cardinality(InFlight(p) \cup {c})
    BY <2>1, <2>3, FS_Subset
  <2>6. Cardinality(Failed(p) \cup {c}) <= Cardinality(Failed(p)')
    BY <2>2, <2>4, FS_Subset
  <2>7. Cardinality(InFlight(p) \cup {c}) \in Nat /\ entries[p].failures \in Nat
    BY <1>1, <2>3, FS_CardinalityType DEF SBTypeOK, Entry
  <2>8. entries[p].failures + Cardinality(InFlight(p)) <= Cardinality(Failed(p))
    BY ChargesCounted
  <2>9. QED
    BY <1>2, <2>3, <2>4, <2>5, <2>6, <2>7, <2>8, SetsAreFinite
<1>9. QED
  BY <1>7, <1>8

\* Applying a charge moves it from the requests to the entry.
LEMMA ApplyKeepsCharges ==
    ASSUME LoopInv, OnlyRealFailuresCharged, NEW c \in Callers,
           ApplyFailure(c), req' = Burnt(c), UNCHANGED <<ended, broke, late>>
    PROVE  OnlyRealFailuresCharged'
<1> DEFINE q == <<call[c].host, call[c].up>>
<1>1. /\ SBTypeOK /\ entries \in [Pairs -> Entry] /\ req \in [Callers -> Request]
      /\ call \in [Callers -> Call \cup {NoCall}] /\ call[c] \in Call /\ q \in Pairs
  BY DEF LoopInv, RequestTypes, SBTypeOK, ApplyFailure, Call, Pairs
<1>2. SBTypeOK'
  BY <1>1, FailureType
<1>3. \A d \in Callers : req'[d].host = req[d].host
  BY <1>1 DEF Burnt, Request
<1>4. /\ call'[c] = NoCall /\ \A d \in Callers \ {c} : call'[d] = call[d]
      /\ Charging(c)
  BY <1>1 DEF ApplyFailure, Charging
<1>5. \A d \in Callers : Charging(d)' <=> Charging(d) /\ d # c
  BY <1>4 DEF Charging
<1>6. /\ entries'[q].failures = entries[q].failures + 1
      /\ \A p \in Pairs \ {q} : entries'[p] = entries[p]
  BY <1>1 DEF ApplyFailure, Penalised
<1> SUFFICES ASSUME NEW p \in Pairs
             PROVE  (entries[p].failures + Cardinality(InFlight(p))
                       <= Cardinality(Failed(p)))'
  BY ChargesCountedNext
<1>7. Failed(p)' = Failed(p)
  BY <1>3 DEF Failed
<1>8. CASE p # q
  <2>1. InFlight(p)' \subseteq InFlight(p)
    BY <1>4, <1>5 DEF InFlight
  <2>2. entries'[p].failures <= entries[p].failures
    BY <1>1, <1>6, <1>8 DEF Entry
  <2>3. QED
    BY <1>1, <1>2, <1>7, <2>1, <2>2, CalmKeepsCharges
<1>9. CASE p = q
  <2>1. InFlight(p)' = InFlight(p) \ {c} /\ c \in InFlight(p)
    BY <1>4, <1>5, <1>9 DEF InFlight
  <2>2. Cardinality(InFlight(p)') = Cardinality(InFlight(p)) - 1
    BY <2>1, SetsAreFinite, FS_RemoveElement
  <2>3. entries[p].failures + Cardinality(InFlight(p)) <= Cardinality(Failed(p))
    BY ChargesCounted
  <2>4. entries[p].failures \in Nat
    BY <1>1 DEF Entry
  <2>5. QED
    BY <1>6, <1>7, <1>9, <2>2, <2>3, <2>4, SetsAreFinite
<1>10. QED
  BY <1>8, <1>9

LEMMA WalkKeepsCharges ==
    ASSUME LoopInv, OnlyRealFailuresCharged, NEW c \in Callers, Walk(c)
    PROVE  OnlyRealFailuresCharged'
<1>1. /\ SBTypeOK /\ entries \in [Pairs -> Entry] /\ req \in [Callers -> Request]
      /\ call \in [Callers -> Call \cup {NoCall}]
      /\ broke \in [Callers -> SUBSET Upstreams]
      /\ \A p \in Pairs : entries[p].failures \in Nat
  BY DEF LoopInv, RequestTypes, SBTypeOK, Entry
<1>2. SBTypeOK'
  BY WalkKeepsLoop DEF LoopInv
<1>3. \A d \in Callers : req'[d].host = req[d].host
  <2>1. CASE Attempt(c) \/ LeaveLoop(c) \/ PickUnforced(c)
    BY <1>1, <2>1, SMTT(30)
       DEF Attempt, LeaveLoop, PickUnforced, Finished, Moved, Request
  <2>2. CASE PickExhausted(c)
    BY <1>1, <2>2 DEF PickExhausted, Moved, Request
  <2>3. ASSUME NEW u, StartDial(c, u)
        PROVE  \A d \in Callers : req'[d].host = req[d].host
    BY <1>1, <2>3 DEF StartDial, Request
  <2>4. CASE Credited(c) \/ Stamp(c) \/ Charged(c) \/ Trip(c)
    BY <1>1, <2>4 DEF Credited, Stamp, Charged, Trip, Finished, Burnt, Request, request_vars
  <2>5. QED
    BY <2>1, <2>2, <2>3, <2>4 DEF Walk, PickForced, PickRanked
<1>4. UNCHANGED broke
  BY DEF Walk, Attempt, LeaveLoop, PickForced, PickUnforced, PickRanked, PickExhausted,
     Credited, Stamp, Charged, Trip, request_vars
<1>5. ASSUME \A p \in Pairs : entries'[p].failures <= entries[p].failures,
             \A d \in Callers : Charging(d)' => /\ Charging(d)
                                               /\ call'[d].host = call[d].host
                                               /\ call'[d].up = call[d].up
      PROVE  OnlyRealFailuresCharged'
  BY <1>2, <1>3, <1>4, <1>5, NoNewCharge
<1>6. CASE UNCHANGED <<entries, call>>
  <2>1. \A p \in Pairs : entries'[p].failures <= entries[p].failures
    BY <1>1, <1>6
  <2>2. QED
    BY <1>5, <1>6, <2>1 DEF Charging
<1>7. CASE Credited(c)
  <2>1. /\ call[c] # NoCall /\ call[c] \in Call
        /\ entries' = [entries EXCEPT ![<<call[c].host, call[c].up>>]
                                          = Rewarded(@, call[c].now)]
        /\ call' = [call EXCEPT ![c] = NoCall]
    BY <1>1, <1>7 DEF Credited, ApplySuccess
  <2>2. \A p \in Pairs : entries'[p].failures = entries[p].failures
    BY <1>1, <2>1 DEF Rewarded, Entry
  <2>3. \A p \in Pairs : entries'[p].failures <= entries[p].failures
    BY <1>1, <2>2
  <2>4. QED
    BY <1>1, <1>5, <2>1, <2>3 DEF Charging
<1>8. CASE Stamp(c)
  <2>1. /\ call[c] # NoCall /\ call[c] \in Call /\ call[c].op = "failing"
        /\ entries' = entries /\ call' = [call EXCEPT ![c].op = "stamped"]
    BY <1>1, <1>8 DEF Stamp, AcceptFailure
  <2>2. \A p \in Pairs : entries'[p].failures <= entries[p].failures
    BY <1>1, <2>1
  <2>3. /\ call'[c].host = call[c].host /\ call'[c].up = call[c].up
        /\ \A d \in Callers \ {c} : call'[d] = call[d]
        /\ Charging(c)
    BY <1>1, <2>1 DEF Call, Charging
  <2>4. QED
    BY <1>5, <2>2, <2>3 DEF Charging
<1>9. CASE Charged(c) /\ DropFailure(c)
  <2>1. entries' = entries /\ call' = [call EXCEPT ![c] = NoCall]
    BY <1>9 DEF DropFailure
  <2>2. \A p \in Pairs : entries'[p].failures <= entries[p].failures
    BY <1>1, <2>1
  <2>3. QED
    BY <1>1, <1>5, <2>1, <2>2 DEF Charging
<1>10. CASE Charged(c) /\ ApplyFailure(c)
  BY <1>10, ApplyKeepsCharges DEF Charged
<1>11. QED
  BY <1>6, <1>7, <1>8, <1>9, <1>10 DEF Walk, Attempt, LeaveLoop, PickForced, PickUnforced,
     PickRanked, PickExhausted, Trip, TripCascade, Charged, sbvars

\* A step that leaves the entries and every recording alone.
LEMMA QuietKeepsCharges ==
    ASSUME LoopInv, LoopInv', OnlyRealFailuresCharged, UNCHANGED <<entries, call>>,
           \A d \in Callers : /\ broke[d] \subseteq broke'[d]
                              /\ req'[d].host = req[d].host \/ req[d].pc = "idle"
    PROVE  OnlyRealFailuresCharged'
<1>1. SBTypeOK' /\ \A p \in Pairs : entries'[p].failures <= entries[p].failures
  BY DEF LoopInv, SBTypeOK, Entry
<1>2. \A d \in Callers : Charging(d)' <=> Charging(d)
  BY DEF Charging
<1>3. ASSUME NEW d \in Callers, broke[d] # {}
      PROVE  req'[d].host = req[d].host
  <2>1. /\ broke[d] \subseteq req[d].tried \cup {req[d].up}
        /\ broke[d] \subseteq Upstreams
        /\ req[d].pc = "idle" => req[d] = Idle
    BY DEF LoopInv, RequestTypes, WellFormed, Recorded
  <2>2. req[d].pc # "idle"
    BY <1>3, <2>1, DialAssumption DEF Idle
  <2>3. QED
    BY <2>2
<1>4. QED
  BY <1>1, <1>2, <1>3, NoNewCharge

LEMMA AdministrationKeepsCharges ==
    ASSUME LoopInv, OnlyRealFailuresCharged, Administration, UNCHANGED request_vars
    PROVE  OnlyRealFailuresCharged'
BY AdministrationIsCalm, NoNewCharge DEF LoopInv, request_vars, Charging

\* The attempt has succeeded: nobody is charged.
LEMMA CreditKeepsCharges ==
    ASSUME LoopInv, LoopInv', OnlyRealFailuresCharged, NEW c \in Callers,
           BeginSuccess(c, req[c].host, req[c].up),
           req' = Moved(c, "record"), UNCHANGED <<ended, broke, late>>
    PROVE  OnlyRealFailuresCharged'
<1>1. /\ call \in [Callers -> Call \cup {NoCall}] /\ req \in [Callers -> Request]
      /\ entries' = entries
      /\ SBTypeOK' /\ \A p \in Pairs : entries'[p].failures <= entries[p].failures
  BY DEF LoopInv, RequestTypes, SBTypeOK, Entry, BeginSuccess
<1>2. ~Charging(c)' /\ \A d \in Callers \ {c} : call'[d] = call[d]
  BY <1>1 DEF BeginSuccess, Charging
<1>3. \A d \in Callers : Charging(d)' => /\ Charging(d)
                                        /\ call'[d].host = call[d].host
                                        /\ call'[d].up = call[d].up
  BY <1>2 DEF Charging
<1>4. \A d \in Callers : req'[d].host = req[d].host
  BY <1>1 DEF Moved, Request
<1>5. QED
  BY <1>1, <1>3, <1>4, NoNewCharge

LEMMA DialKeepsCharges ==
    ASSUME LoopInv, OnlyRealFailuresCharged, NEW c \in Callers,
           Step(c) \/ Cancel(c) \/ \E h \in Hosts : Begin(c, h)
    PROVE  OnlyRealFailuresCharged'
<1>1. /\ req \in [Callers -> Request] /\ broke \in [Callers -> SUBSET Upstreams]
  BY DEF LoopInv, RequestTypes
<1>2. LoopInv'
  BY DialKeepsLoop, CancelKeepsLoop, BeginKeepsLoop
<1>3. CASE Walk(c)
  BY <1>3, WalkKeepsCharges
<1>4. CASE DialSucceeds(c)
  BY <1>2, <1>4, CreditKeepsCharges DEF DialSucceeds
<1>5. CASE DialCut(c) \/ DialRefusedUnscored(c)
  <2>1. \A d \in Callers : req'[d].host = req[d].host /\ broke[d] \subseteq broke'[d]
    BY <1>1, <1>5 DEF DialCut, DialRefusedUnscored, Finished, Burnt, Breaks, Request
  <2>2. QED
    BY <1>2, <1>5, <2>1, QuietKeepsCharges DEF DialCut, DialRefusedUnscored, sbvars
<1>6. ASSUME NEW k \in DialKinds, DialFails(c, k)
      PROVE  OnlyRealFailuresCharged'
  BY <1>6, ChargeIsReal, DialAssumption DEF DialFails, At
<1>7. CASE Cancel(c)
  BY <1>2, <1>7, QuietKeepsCharges DEF Cancel, sbvars
<1>8. ASSUME NEW h \in Hosts, Begin(c, h)
      PROVE  OnlyRealFailuresCharged'
  <2>1. /\ req[c].pc = "idle" /\ \A d \in Callers \ {c} : req'[d] = req[d]
        /\ UNCHANGED <<entries, call, broke>>
    BY <1>1, <1>8 DEF Begin, At, sbvars
  <2>2. QED
    BY <1>2, <2>1, QuietKeepsCharges
<1>9. QED
  BY <1>3, <1>4, <1>5, <1>6, <1>7, <1>8 DEF Step

----------------------------------------------------------------------------
(* One dial past the cascade *)

\* Pick has looked at the cascade, and if it is active nevertheless, then it has
\* begun since, which reset the count.
LateInv ==
    \A c \in Callers :
       /\ late[c] <= 1
       /\ req[c].pc \in {"pin", "rank"} =>
             late[c] = 0 \/ ~CascadeActive(req[c].host, clock)

\* A step that puts no host into cascade and no request into Pick.
LEMMA QuietKeepsLate ==
    ASSUME LoopInv, LateInv, UNCHANGED late,
           \A h \in Hosts : CascadeActive(h, clock)' => CascadeActive(h, clock),
           \A d \in Callers : req'[d].pc \in {"pin", "rank"} =>
              req[d].pc \in {"pin", "rank"} /\ req'[d].host = req[d].host
    PROVE  LateInv'
<1> SUFFICES ASSUME NEW d \in Callers, req'[d].pc \in {"pin", "rank"}
             PROVE  late[d] = 0 \/ ~CascadeActive(req[d].host, clock)'
  BY DEF LateInv
<1>1. /\ req[d].pc \in {"pin", "rank"} /\ req'[d].host = req[d].host
      /\ req[d].host \in Hosts
  BY DEF LoopInv, WellFormed
<1>2. late[d] = 0 \/ ~CascadeActive(req[d].host, clock)
  BY <1>1 DEF LateInv
<1>3. ~CascadeActive(req[d].host, clock) => ~CascadeActive(req[d].host, clock)'
  BY <1>1 DEF CascadeActive
<1>4. QED
  BY <1>2, <1>3

LEMMA WalkKeepsLate ==
    ASSUME LoopInv, LateInv, NEW c \in Callers, Walk(c)
    PROVE  LateInv'
<1>1. /\ req \in [Callers -> Request] /\ late \in [Callers -> Nat]
      /\ clock \in Nat /\ cascade \in [Hosts -> Nat]
      /\ call \in [Callers -> Call \cup {NoCall}] /\ SBTypeOK
  BY DEF LoopInv, RequestTypes, SBTypeOK, Time
<1>2. ASSUME UNCHANGED <<clock, cascade>>
      PROVE  \A h : CascadeActive(h, clock)' <=> CascadeActive(h, clock)
  BY <1>2 DEF CascadeActive
<1>3. CASE Attempt(c)
  <2>1. /\ UNCHANGED <<clock, cascade, late>> /\ req[c].host \in Hosts
        /\ \A d \in Callers \ {c} : req'[d] = req[d]
        /\ req'[c].pc = "pin" =>
              req'[c].host = req[c].host /\ ~CascadeActive(req[c].host, clock)
        /\ req'[c].pc # "rank"
    BY <1>1, <1>3 DEF Attempt, sbvars, Finished, Request, LoopInv, WellFormed, At
  <2>2. QED
    BY <1>2, <2>1 DEF LateInv
<1>4. CASE LeaveLoop(c) \/ PickExhausted(c)
  <2>1. /\ UNCHANGED <<clock, cascade, late>> /\ req'[c].pc = "trip"
        /\ \A d \in Callers \ {c} : req'[d] = req[d]
    BY <1>1, <1>4 DEF LeaveLoop, PickExhausted, Moved, sbvars, Request
  <2>2. QED
    BY <1>2, <2>1, QuietKeepsLate
<1>5. CASE PickUnforced(c)
  <2>1. /\ UNCHANGED <<clock, cascade, late>> /\ req[c].pc = "pin"
        /\ req'[c].host = req[c].host
        /\ \A d \in Callers \ {c} : req'[d] = req[d]
    BY <1>1, <1>5 DEF PickUnforced, Moved, At, Request
  <2>2. QED
    BY <1>2, <2>1, QuietKeepsLate
<1>6. ASSUME NEW u, req[c].pc \in {"pin", "rank"}, StartDial(c, u), UNCHANGED sbvars
      PROVE  LateInv'
  <2>1. /\ UNCHANGED <<clock, cascade>> /\ req'[c].pc = "dial"
        /\ \A d \in Callers \ {c} : req'[d] = req[d]
    BY <1>1, <1>6 DEF StartDial, sbvars, Request
  <2>2. /\ late'[c] <= 1
        /\ \A d \in Callers \ {c} : late'[d] = late[d]
    BY <1>1, <1>6 DEF StartDial, LateInv
  <2>3. QED
    BY <1>2, <2>1, <2>2 DEF LateInv
<1>7. CASE Credited(c)
  <2>1. /\ UNCHANGED <<clock, late>> /\ req'[c].pc = "done"
        /\ cascade' = [cascade EXCEPT ![call[c].host] = Never]
        /\ \A d \in Callers \ {c} : req'[d] = req[d]
    BY <1>1, <1>7 DEF Credited, ApplySuccess, Finished, Request
  <2>2. \A h \in Hosts : CascadeActive(h, clock)' => CascadeActive(h, clock)
    BY <1>1, <2>1 DEF CascadeActive, Never
  <2>3. QED
    BY <2>1, <2>2, QuietKeepsLate
<1>8. CASE Stamp(c) \/ Charged(c)
  <2>1. /\ UNCHANGED <<clock, cascade, late>>
        /\ \A d \in Callers : req'[d] = req[d] \/ req'[d].pc = "attempt"
    BY <1>1, <1>8 DEF Stamp, Charged, AcceptFailure, DropFailure, ApplyFailure, Burnt,
       Request, request_vars
  <2>2. QED
    BY <1>2, <2>1, QuietKeepsLate
<1>9. CASE Trip(c)
  <2>1. /\ clock' = clock /\ req'[c].pc = "done" /\ req[c].host \in Hosts
        /\ \A h \in Hosts \ {req[c].host} : cascade'[h] = cascade[h]
        /\ \A d \in Callers \ {c} : req'[d] = req[d]
    BY <1>1, <1>9 DEF Trip, TripCascade, Finished, Request, LoopInv, WellFormed, At
  <2>2. \A d \in Callers : late'[d] = IF req[d].host = req[c].host THEN 0 ELSE late[d]
    BY <1>9 DEF Trip
  <2>3. ASSUME NEW d \in Callers
        PROVE  /\ late'[d] <= 1
               /\ req'[d].pc \in {"pin", "rank"} =>
                     late'[d] = 0 \/ ~(cascade'[req'[d].host] > clock')
    <3>1. CASE req[d].host = req[c].host
      BY <2>2, <3>1
    <3>2. CASE req[d].host # req[c].host
      <4>1. d # c /\ req'[d] = req[d] /\ late'[d] = late[d] /\ late[d] <= 1
        BY <2>1, <2>2, <3>2 DEF LateInv
      <4>2. ASSUME req[d].pc \in {"pin", "rank"}
            PROVE  late[d] = 0 \/ ~(cascade'[req[d].host] > clock)
        <5>1. req[d].host \in Hosts \ {req[c].host}
          BY <3>2, <4>2 DEF LoopInv, WellFormed
        <5>2. QED
          BY <2>1, <4>2, <5>1 DEF LateInv, CascadeActive
      <4>3. QED
        BY <2>1, <4>1, <4>2
    <3>3. QED
      BY <3>1, <3>2
  <2>4. QED
    BY <2>3 DEF LateInv, CascadeActive
<1>10. QED
  BY <1>3, <1>4, <1>5, <1>6, <1>7, <1>8, <1>9 DEF Walk, PickForced, PickRanked, At

LEMMA AdministrationKeepsLate ==
    ASSUME LoopInv, LateInv, Administration, UNCHANGED request_vars
    PROVE  LateInv'
BY AdministrationIsCalm, QuietKeepsLate DEF LoopInv, request_vars

LEMMA DialKeepsLate ==
    ASSUME LoopInv, LateInv, NEW c \in Callers,
           Step(c) \/ Cancel(c) \/ \E h \in Hosts : Begin(c, h)
    PROVE  LateInv'
<1>1. req \in [Callers -> Request]
  BY DEF LoopInv, RequestTypes
<1>2. CASE Walk(c)
  BY <1>2, WalkKeepsLate
<1>3. ASSUME UNCHANGED <<clock, cascade, late>>,
             \A d \in Callers : req'[d] = req[d] \/ req'[d].pc \notin {"pin", "rank"}
      PROVE  LateInv'
  <2>1. \A h \in Hosts : CascadeActive(h, clock)' => CascadeActive(h, clock)
    BY <1>3 DEF CascadeActive
  <2>2. QED
    BY <1>3, <2>1, QuietKeepsLate
<1>4. CASE DialSucceeds(c) \/ \E k \in DialKinds : DialFails(c, k)
  BY <1>1, <1>3, <1>4 DEF DialSucceeds, DialFails, BeginSuccess, BeginFailure, Moved, Request
<1>5. CASE DialCut(c) \/ DialRefusedUnscored(c)
  BY <1>1, <1>3, <1>5 DEF DialCut, DialRefusedUnscored, Finished, Burnt, Request, sbvars
<1>6. CASE Cancel(c)
  BY <1>3, <1>6 DEF Cancel, sbvars
<1>7. ASSUME NEW h \in Hosts, Begin(c, h)
      PROVE  LateInv'
  <2>1. /\ UNCHANGED <<clock, cascade, late>> /\ req'[c].pc \in {"done", "attempt"}
        /\ \A d \in Callers \ {c} : req'[d] = req[d]
    BY <1>1, <1>7 DEF Begin, sbvars, Idle
  <2>2. QED
    BY <1>3, <2>1
<1>8. QED
  BY <1>2, <1>4, <1>5, <1>6, <1>7 DEF Step

----------------------------------------------------------------------------
(* What a step is to the contract *)

Attempted(r) == IF r.up = NoUpstream THEN r.i ELSE r.i + 1
Dialled(r) == r.tried \cup ({r.up} \ {NoUpstream})
Running(r) == r.pc \notin {"idle", "done"}

OthersStay(c) == \A d \in Callers \ {c} : req'[d] = req[d]

\* The three things a request under way does, as the contract sees them.
Stays(c) ==
    /\ OthersStay(c) /\ Running(req'[c])
    /\ Attempted(req'[c]) = Attempted(req[c]) /\ Dialled(req'[c]) = Dialled(req[c])

Dials(c) ==
    /\ OthersStay(c) /\ Running(req'[c])
    /\ Attempted(req[c]) < RetryCeiling
    /\ Attempted(req'[c]) = Attempted(req[c]) + 1
    /\ \E u \in Upstreams : /\ u \notin Dialled(req[c])
                            /\ Dialled(req'[c]) = Dialled(req[c]) \cup {u}

Returns(c) ==
    /\ OthersStay(c) /\ req'[c].pc = "done"
    /\ Attempted(req'[c]) = Attempted(req[c]) /\ Dialled(req'[c]) = Dialled(req[c])
    /\ req'[c].result \in {"ok", "failed", "cascade", "cancelled"}
    /\ req'[c].result = "ok" => Dialled(req[c]) # {}

Progresses(c) == Running(req[c]) /\ (Stays(c) \/ Dials(c) \/ Returns(c))

\* A failed attempt has been counted when it was begun.
LEMMA BurntStays ==
    ASSUME LoopInv, NEW c \in Callers, req[c].pc \in {"dial", "response", "record"},
           req' = Burnt(c)
    PROVE  Progresses(c)
<1>1. /\ req[c] \in Request /\ WellFormed(req[c]) /\ req[c].up # NoUpstream
      /\ req \in [Callers -> Request] /\ req[c].i \in Nat
  BY DEF LoopInv, RequestTypes, WellFormed, Request
<1>2. /\ req'[c].i = req[c].i + 1 /\ req'[c].tried = req[c].tried \cup {req[c].up}
      /\ req'[c].up = NoUpstream /\ req'[c].pc = "attempt"
      /\ \A d \in Callers \ {c} : req'[d] = req[d]
  BY <1>1 DEF Burnt, Request
<1>3. QED
  BY <1>1, <1>2 DEF Progresses, Stays, OthersStay, Running, Attempted, Dialled

LEMMA FinishedReturns ==
    ASSUME LoopInv, NEW c \in Callers, Running(req[c]),
           NEW result \in {"ok", "failed", "cascade", "cancelled"},
           result = "ok" => req[c].pc = "record",
           req' = Finished(c, result)
    PROVE  Progresses(c)
<1>1. /\ WellFormed(req[c]) /\ req \in [Callers -> Request]
  BY DEF LoopInv, RequestTypes
<1>2. /\ req'[c].i = req[c].i /\ req'[c].tried = req[c].tried
      /\ req'[c].up = req[c].up /\ req'[c].pc = "done" /\ req'[c].result = result
      /\ \A d \in Callers \ {c} : req'[d] = req[d]
  BY <1>1 DEF Finished, Request
<1>3. QED
  BY <1>1, <1>2 DEF Progresses, Returns, OthersStay, Attempted, Dialled, WellFormed

LEMMA MovedStays ==
    ASSUME LoopInv, NEW c \in Callers, Running(req[c]),
           NEW pc \in Stages \ {"idle", "done"}, req' = Moved(c, pc)
    PROVE  Progresses(c)
<1>1. req \in [Callers -> Request]
  BY DEF LoopInv, RequestTypes
<1>2. /\ req'[c].i = req[c].i /\ req'[c].tried = req[c].tried
      /\ req'[c].up = req[c].up /\ req'[c].pc = pc
      /\ \A d \in Callers \ {c} : req'[d] = req[d]
  BY <1>1 DEF Moved, Request
<1>3. QED
  BY <1>2 DEF Progresses, Stays, OthersStay, Running, Attempted, Dialled

LEMMA WalkProgresses ==
    ASSUME LoopInv, NEW c \in Callers, Walk(c)
    PROVE  Progresses(c) \/ UNCHANGED req
<1> DEFINE r == req[c]
<1>1. /\ r \in Request /\ WellFormed(r) /\ SBTypeOK /\ req \in [Callers -> Request]
  BY DEF LoopInv, RequestTypes
<1>2. CASE Attempt(c)
  <2>1. CASE req' = [req EXCEPT ![c].pc = "pin", ![c].now = clock]
    <3>1. /\ req'[c].i = r.i /\ req'[c].tried = r.tried
          /\ req'[c].up = r.up /\ req'[c].pc = "pin"
          /\ \A d \in Callers \ {c} : req'[d] = req[d]
      BY <1>1, <2>1 DEF Request
    <3>2. r.pc = "attempt"
      BY <1>2 DEF Attempt, At
    <3>3. QED
      BY <3>1, <3>2 DEF Progresses, Stays, OthersStay, Running, Attempted, Dialled
  <2>2. CASE req' = Finished(c, "cancelled") \/ req' = Finished(c, "cascade")
    BY <1>2, <2>2, FinishedReturns DEF Attempt, At, Running
  <2>3. QED
    BY <1>2, <2>1, <2>2 DEF Attempt
<1>3. CASE LeaveLoop(c) \/ PickUnforced(c)
  BY <1>3, MovedStays DEF LeaveLoop, PickUnforced, At, Running, Stages
<1>4. CASE PickForced(c) \/ PickRanked(c)
  <2>1. /\ r.pc \in {"pin", "rank"} /\ r.up = NoUpstream /\ r.host \in Hosts
        /\ r.now \in Time /\ r.i \in Nat /\ r.limit \in 0..RetryCeiling /\ r.i < r.limit
    BY <1>1, <1>4 DEF PickForced, PickRanked, At, WellFormed, Request
  <2>2. PICK u \in Upstreams \ r.tried : StartDial(c, u)
    BY <1>1, <1>4, <2>1, PicksUntried DEF PickForced, PickRanked
  <2>3. /\ req'[c].i = r.i /\ req'[c].tried = r.tried
        /\ req'[c].up = u /\ req'[c].pc = "dial"
        /\ \A d \in Callers \ {c} : req'[d] = req[d]
    BY <1>1, <2>2 DEF StartDial, Request
  <2>4. u # NoUpstream /\ RetryCeiling \in Nat
    BY DialAssumption
  <2>5. /\ Attempted(r) = r.i /\ Attempted(req'[c]) = r.i + 1
        /\ Dialled(r) = r.tried /\ Dialled(req'[c]) = r.tried \cup {u}
    BY <2>1, <2>3, <2>4 DEF Attempted, Dialled
  <2>6. r.i < RetryCeiling
    BY <2>1, <2>4
  <2>7. QED
    BY <2>1, <2>2, <2>3, <2>5, <2>6 DEF Progresses, Dials, OthersStay, Running
<1>5. CASE PickExhausted(c)
  <2>1. /\ req'[c].i = r.i /\ req'[c].tried = r.tried
        /\ req'[c].up = r.up /\ req'[c].pc = "trip"
        /\ \A d \in Callers \ {c} : req'[d] = req[d]
    BY <1>1, <1>5 DEF PickExhausted, Moved, Request
  <2>2. r.pc = "rank"
    BY <1>5 DEF PickExhausted, At
  <2>3. QED
    BY <2>1, <2>2 DEF Progresses, Stays, OthersStay, Running, Attempted, Dialled
<1>6. CASE Credited(c)
  BY <1>6, FinishedReturns DEF Credited, At, Running
<1>7. CASE Stamp(c)
  BY <1>7 DEF Stamp, request_vars
<1>8. CASE Charged(c)
  BY <1>8, BurntStays DEF Charged, At
<1>9. CASE Trip(c)
  BY <1>9, FinishedReturns DEF Trip, At, Running
<1>10. QED
  BY <1>2, <1>3, <1>4, <1>5, <1>6, <1>7, <1>8, <1>9 DEF Walk

LEMMA DialProgresses ==
    ASSUME LoopInv, NEW c \in Callers, Step(c)
    PROVE  Progresses(c) \/ UNCHANGED req
<1>1. CASE Walk(c)
  BY <1>1, WalkProgresses
<1>2. CASE DialSucceeds(c) \/ \E k \in DialKinds : DialFails(c, k)
  BY <1>2, MovedStays DEF DialSucceeds, DialFails, At, Running, Stages
<1>3. CASE DialCut(c)
  BY <1>3, FinishedReturns DEF DialCut, At, Running
<1>4. CASE DialRefusedUnscored(c)
  BY <1>4, BurntStays DEF DialRefusedUnscored, At
<1>5. QED
  BY <1>1, <1>2, <1>3, <1>4 DEF Step

\* A call that opens has dialled nothing yet.
LEMMA BeginOpens ==
    ASSUME LoopInv, NEW c \in Callers, NEW h \in Hosts, Begin(c, h)
    PROVE  /\ OthersStay(c) /\ req[c].pc = "idle"
           /\ Attempted(req'[c]) = Attempted(req[c]) /\ Dialled(req'[c]) = Dialled(req[c])
           /\ \/ Running(req'[c])
              \/ req'[c].pc = "done" /\ req'[c].result = "cascade"
<1>1. req \in [Callers -> Request] /\ req[c].pc = "idle" /\ req[c] = Idle
  BY DEF LoopInv, RequestTypes, WellFormed, Begin, At
<1>2. /\ req'[c].i = 0 /\ req'[c].tried = {} /\ req'[c].up = NoUpstream
      /\ \/ req'[c].pc = "attempt"
         \/ req'[c].pc = "done" /\ req'[c].result = "cascade"
      /\ \A d \in Callers \ {c} : req'[d] = req[d]
  BY <1>1 DEF Begin, Idle
<1>3. req[c].i = 0 /\ req[c].tried = {} /\ req[c].up = NoUpstream
  BY <1>1 DEF Idle
<1>4. QED
  BY <1>1, <1>2, <1>3 DEF OthersStay, Running, Attempted, Dialled

----------------------------------------------------------------------------
(* Theorems *)

LEMMA InitLoopInv == Init => LoopInv /\ OnlyRealFailuresCharged
<1> SUFFICES ASSUME Init PROVE LoopInv /\ OnlyRealFailuresCharged
  OBVIOUS
<1>1. SBTypeOK
  BY InitType DEF Init
<1>2. Idle \in Request
  BY DialAssumption DEF Idle, Request, Stages, Verdicts, Never, Time
<1>3. RequestTypes
  BY <1>2 DEF Init, RequestTypes
<1>4. ASSUME NEW c \in Callers
      PROVE  WellFormed(req[c]) /\ Recorded(c)
  <2>1. req[c] = Idle /\ broke[c] = {} /\ call[c] = NoCall
    BY DEF Init, SBInit
  <2>2. Cardinality({}) = 0 /\ IsFiniteSet({})
    BY FS_EmptySet
  <2>3. QED
    BY <2>1, <2>2 DEF WellFormed, Recorded, Charging, Idle
<1>5. ASSUME NEW p \in Pairs
      PROVE  entries[p].failures + Cardinality(InFlight(p)) <= Cardinality(Failed(p))
  <2>1. entries[p].failures = 0 /\ InFlight(p) = {} /\ Failed(p) = {}
    BY DEF Init, SBInit, Absent, InFlight, Charging, Failed
  <2>2. QED
    BY <2>1, FS_EmptySet
<1>6. QED
  BY <1>1, <1>3, <1>4, <1>5, ChargesCounted DEF LoopInv

LEMMA LoopStep == LoopInv /\ [Next]_dvars => LoopInv'
<1> SUFFICES ASSUME LoopInv, [Next]_dvars PROVE LoopInv'
  OBVIOUS
<1>1. CASE Next
  BY <1>1, DialKeepsLoop, BeginKeepsLoop, CancelKeepsLoop, AdministrationKeepsLoop DEF Next
<1>2. CASE UNCHANGED dvars
  <2>1. SBTypeOK' /\ UNCHANGED <<call, request_vars>>
    BY <1>2, TypeStep DEF dvars, LoopInv, sbvars
  <2>2. QED
    BY <2>1 DEF LoopInv, RequestTypes, Recorded, Charging, At, request_vars
<1>3. QED
  BY <1>1, <1>2

LEMMA LoopCorrect == Spec => []LoopInv
BY InitLoopInv, LoopStep, PTL DEF Spec

\* A caller that hangs up never costs an upstream a penalty: whatever is in
\* the entries or on its way there has a dial behind it that failed with the
\* caller still waiting (scoreboard.go, DialFor).
THEOREM ChargesAreReal == Spec => []OnlyRealFailuresCharged
<1>1. ASSUME LoopInv, OnlyRealFailuresCharged, [Next]_dvars
      PROVE  OnlyRealFailuresCharged'
  <2>1. CASE Next
    BY <1>1, <2>1, DialKeepsCharges, AdministrationKeepsCharges DEF Next
  <2>2. CASE UNCHANGED dvars
    <3>1. UNCHANGED <<entries, call, req, broke>>
      BY <2>2 DEF dvars, sbvars, request_vars
    <3>2. LoopInv'
      BY <1>1, LoopStep
    <3>3. QED
      BY <1>1, <3>1, <3>2, QuietKeepsCharges
  <2>3. QED
    BY <1>1, <2>1, <2>2
<1>2. QED
  BY <1>1, InitLoopInv, LoopCorrect, PTL DEF Spec

\* A host in cascade is answered without touching the pool (architecture.md):
\* a request that was past its check when the cascade began may finish that one
\* attempt, and begins no other.
THEOREM CascadeStopsDials == Spec => []OneDialPastCascade
<1>1. Init => LateInv
  BY DEF Init, LateInv, Idle
<1>2. ASSUME LoopInv, LateInv, [Next]_dvars
      PROVE  LateInv'
  <2>1. CASE Next
    BY <1>2, <2>1, DialKeepsLate, AdministrationKeepsLate DEF Next
  <2>2. CASE UNCHANGED dvars
    BY <1>2, <2>2 DEF dvars, sbvars, request_vars, LateInv, CascadeActive
  <2>3. QED
    BY <1>2, <2>1, <2>2
<1>3. LateInv => OneDialPastCascade
  BY DEF LateInv, OneDialPastCascade
<1>4. QED
  BY <1>1, <1>2, <1>3, LoopCorrect, PTL DEF Spec

\* Every attempt behind a cascade was ended by its upstream: a request whose
\* caller bailed out never trips it with an attempt that was cut.
THEOREM CascadesAreEarned == Spec => []CascadeBlamesUpstreams
<1> DEFINE Blamed == \A c \in Callers : req[c].tried \subseteq broke[c]
<1>1. Init => Blamed
  BY DEF Init, Idle
<1>2. ASSUME LoopInv, Blamed, [Next]_dvars
      PROVE  Blamed'
  <2>1. /\ req \in [Callers -> Request] /\ broke \in [Callers -> SUBSET Upstreams]
    BY <1>2 DEF LoopInv, RequestTypes
  <2>2. ASSUME UNCHANGED broke, \A d \in Callers : req'[d].tried \subseteq req[d].tried
        PROVE  Blamed'
    BY <1>2, <2>2
  <2>3. ASSUME NEW c \in Callers, Charged(c)
        PROVE  Blamed'
    <3>1. req[c].up \in broke[c]
      BY <1>2, <2>3 DEF LoopInv, Recorded, Charging, Charged, DropFailure, ApplyFailure
    <3>2. /\ req'[c].tried = req[c].tried \cup {req[c].up} /\ broke' = broke
          /\ \A d \in Callers \ {c} : req'[d] = req[d]
      BY <2>1, <2>3 DEF Charged, Burnt, Request
    <3>3. QED
      BY <1>2, <3>1, <3>2
  <2>4. ASSUME NEW c \in Callers, DialRefusedUnscored(c)
        PROVE  Blamed'
    <3>1. /\ req'[c].tried = req[c].tried \cup {req[c].up}
          /\ broke'[c] = broke[c] \cup {req[c].up}
          /\ \A d \in Callers \ {c} : req'[d] = req[d] /\ broke'[d] = broke[d]
      BY <2>1, <2>4 DEF DialRefusedUnscored, Burnt, Breaks, Request
    <3>2. QED
      BY <1>2, <3>1
  <2>5. ASSUME NEW c \in Callers, NEW k \in DialKinds, DialFails(c, k)
        PROVE  Blamed'
    <3>1. \A d \in Callers : req'[d].tried = req[d].tried /\ broke[d] \subseteq broke'[d]
      BY <2>1, <2>5 DEF DialFails, Moved, Breaks, Request
    <3>2. QED
      BY <1>2, <3>1
  <2>6. ASSUME NEW c \in Callers, Attempt(c) \/ LeaveLoop(c) \/ PickUnforced(c) \/ PickExhausted(c)
        PROVE  Blamed'
    <3>1. \A d \in Callers : req'[d].tried = req[d].tried
      BY <2>1, <2>6 DEF Attempt, LeaveLoop, PickUnforced, PickExhausted, Finished, Moved, Request
    <3>2. QED
      BY <2>2, <2>6, <3>1 DEF Attempt, LeaveLoop, PickUnforced, PickExhausted
  <2>7. ASSUME NEW c \in Callers, PickForced(c) \/ PickRanked(c)
        PROVE  Blamed'
    <3>1. PICK u : StartDial(c, u)
      BY <2>7 DEF PickForced, PickRanked
    <3>2. \A d \in Callers : req'[d].tried = req[d].tried
      BY <2>1, <3>1 DEF StartDial, Request
    <3>3. QED
      BY <2>2, <2>7, <3>2 DEF PickForced, PickRanked
  <2>8. ASSUME NEW c \in Callers,
               Credited(c) \/ Stamp(c) \/ Trip(c) \/ DialSucceeds(c) \/ DialCut(c) \/ Cancel(c)
        PROVE  Blamed'
    <3>1. \A d \in Callers : req'[d].tried = req[d].tried
      BY <2>1, <2>8 DEF Credited, Stamp, Trip, DialSucceeds, DialCut, Cancel, Finished, Moved,
         Request, request_vars
    <3>2. QED
      BY <2>2, <2>8, <3>1 DEF Credited, Stamp, Trip, DialSucceeds, DialCut, Cancel, request_vars
  <2>9. ASSUME NEW c \in Callers, NEW h \in Hosts, Begin(c, h)
        PROVE  Blamed'
    <3>1. \A d \in Callers : req'[d].tried \subseteq req[d].tried
      BY <2>1, <2>9 DEF Begin, Idle
    <3>2. QED
      BY <2>2, <2>9, <3>1 DEF Begin
  <2>10. ASSUME UNCHANGED request_vars
         PROVE  Blamed'
    BY <1>2, <2>10 DEF request_vars
  <2> HIDE DEF Blamed
  <2>11. QED
    BY <1>2, <2>3, <2>4, <2>5, <2>6, <2>7, <2>8, <2>9, <2>10 DEF Next, Step, Walk, dvars
<1>3. Blamed => CascadeBlamesUpstreams
  BY DEF CascadeBlamesUpstreams
<1>4. QED
  BY <1>1, <1>2, <1>3, LoopCorrect, PTL DEF Spec

\* DialFor has neither the stages nor the rejection of a plain-HTTP request.
DirectOnly ==
    \A c \in Callers :
       /\ req[c].pc \notin {"detector", "inspection", "response"}
       /\ req[c].result # "rejected"

LEMMA DirectStep ==
    ASSUME LoopInv, DirectOnly, NEW c \in Callers,
           Step(c) \/ \E h \in Hosts : Begin(c, h)
    PROVE  DirectOnly'
<1>1. /\ req \in [Callers -> Request] /\ LoopInv'
      /\ \A d \in Callers : req'[d] \in Request /\ WellFormed(req'[d])
  BY DialKeepsLoop, BeginKeepsLoop DEF LoopInv, RequestTypes
<1>2. ASSUME \A d \in Callers :
                 \/ req'[d] = req[d]
                 \/ /\ req'[d].pc \in {"attempt", "pin", "rank", "dial", "record", "trip"}
                    /\ req'[d].result = req[d].result
                 \/ /\ req'[d].pc = "done"
                    /\ req'[d].result \in {"ok", "failed", "cascade", "cancelled"}
      PROVE  DirectOnly'
  BY <1>2 DEF DirectOnly
<1>3. CASE Attempt(c) \/ LeaveLoop(c) \/ PickUnforced(c) \/ PickExhausted(c)
  BY <1>1, <1>2, <1>3 DEF Attempt, LeaveLoop, PickUnforced, PickExhausted, Finished, Moved,
     Request
<1>4. ASSUME NEW u, StartDial(c, u)
      PROVE  DirectOnly'
  BY <1>1, <1>2, <1>4 DEF StartDial, Request
<1>5. CASE Credited(c) \/ Stamp(c) \/ Charged(c) \/ Trip(c)
  BY <1>1, <1>2, <1>5 DEF Credited, Stamp, Charged, Trip, Finished, Burnt, Request, request_vars
<1>6. CASE \/ DialSucceeds(c) \/ DialCut(c) \/ DialRefusedUnscored(c)
           \/ \E k \in DialKinds : DialFails(c, k)
  BY <1>1, <1>2, <1>6 DEF DialSucceeds, DialCut, DialRefusedUnscored, DialFails, Finished,
     Moved, Burnt, Request
<1>7. ASSUME NEW h \in Hosts, Begin(c, h)
      PROVE  DirectOnly'
  <2>1. /\ req'[c].result \in {"none", "cascade"} /\ req'[c].pc \in {"done", "attempt"}
        /\ \A d \in Callers \ {c} : req'[d] = req[d]
    BY <1>1, <1>7 DEF Begin, Idle
  <2>2. QED
    BY <2>1 DEF DirectOnly
<1>8. QED
  BY <1>3, <1>4, <1>5, <1>6, <1>7 DEF Step, Walk, PickForced, PickRanked

LEMMA DirectCorrect == Spec => []DirectOnly
<1>1. Init => DirectOnly
  BY DEF Init, DirectOnly, Idle
<1>2. ASSUME LoopInv, DirectOnly, [Next]_dvars
      PROVE  DirectOnly'
  <2>1. ASSUME NEW c \in Callers, Cancel(c)
        PROVE  DirectOnly'
    BY <1>2, <2>1 DEF Cancel, DirectOnly
  <2>2. CASE UNCHANGED request_vars
    BY <1>2, <2>2 DEF request_vars, DirectOnly
  <2>3. QED
    BY <1>2, <2>1, <2>2, DirectStep DEF Next, dvars
<1>3. QED
  BY <1>1, <1>2, LoopCorrect, PTL DEF Spec

LEMMA DirectTypes == LoopInv /\ DirectOnly => TypeOK
<1> SUFFICES ASSUME LoopInv, DirectOnly PROVE TypeOK
  OBVIOUS
<1>1. ASSUME NEW c \in Callers
      PROVE  req[c] \in
               [pc : {"idle", "attempt", "pin", "rank", "dial", "record", "trip", "done"},
                host : Hosts \cup {NoHost}, limit : Nat, i : Nat, tried : SUBSET Upstreams,
                now : Time, up : Upstreams \cup {NoUpstream},
                result : {"none", "ok", "failed", "cascade", "cancelled"}]
  BY DEF LoopInv, RequestTypes, DirectOnly, Request, Stages, Verdicts
<1>2. QED
  BY <1>1 DEF TypeOK, LoopInv, RequestTypes

\* The records of DialFor's requests keep the shape its loop gives them.
THEOREM DialForTypeCorrect == Spec => []TypeOK
BY DirectTypes, LoopCorrect, DirectCorrect, PTL

----------------------------------------------------------------------------
(* The contract *)

VerdictOf(r) ==
    CASE r.pc = "idle" -> "none"
      [] r.pc = "done" -> r.result
      [] OTHER -> "running"

\* The refinement mapping of Contract, one request at a time.
DialledMap == [c \in Callers |-> Dialled(req[c])]
AttemptedMap == [c \in Callers |-> Attempted(req[c])]
VerdictMap == [c \in Callers |-> VerdictOf(req[c])]

\* The actions of Contract over that mapping.
LEMMA ContractActions ==
    ASSUME NEW c \in Callers
    PROVE  /\ /\ VerdictMap[c] = "none"
              /\ VerdictMap' = [VerdictMap EXCEPT ![c] = "running"]
              /\ UNCHANGED <<DialledMap, AttemptedMap>>
              => Contract!Call(c)
           /\ /\ VerdictMap[c] = "none"
              /\ VerdictMap' = [VerdictMap EXCEPT ![c] = "cascade"]
              /\ UNCHANGED <<DialledMap, AttemptedMap>>
              => Contract!Refuse(c)
           /\ \A u \in Upstreams :
                 /\ VerdictMap[c] = "running" /\ u \notin DialledMap[c]
                 /\ AttemptedMap[c] < RetryCeiling
                 /\ DialledMap' = [DialledMap EXCEPT ![c] = DialledMap[c] \cup {u}]
                 /\ AttemptedMap' = [AttemptedMap EXCEPT ![c] = AttemptedMap[c] + 1]
                 /\ UNCHANGED VerdictMap
                 => Contract!Dial(c, u)
           /\ \A v \in Contract!Verdicts :
                 /\ VerdictMap[c] = "running" /\ (v = "ok" => DialledMap[c] # {})
                 /\ VerdictMap' = [VerdictMap EXCEPT ![c] = v]
                 /\ UNCHANGED <<DialledMap, AttemptedMap>>
                 => Contract!Return(c, v)
           /\ UNCHANGED <<DialledMap, AttemptedMap, VerdictMap>>
              => UNCHANGED Contract!contract_vars
BY DEF Contract!Call, Contract!Refuse, Contract!Dial, Contract!Return,
   Contract!contract_vars, DialledMap, AttemptedMap, VerdictMap, Dialled, Attempted, VerdictOf

\* Only c moves, so only its place in the mapping does.
LEMMA MapsMove ==
    ASSUME NEW c \in Callers, OthersStay(c)
    PROVE  /\ DialledMap' = [DialledMap EXCEPT ![c] = Dialled(req'[c])]
           /\ AttemptedMap' = [AttemptedMap EXCEPT ![c] = Attempted(req'[c])]
           /\ VerdictMap' = [VerdictMap EXCEPT ![c] = VerdictOf(req'[c])]
           /\ Dialled(req'[c]) = Dialled(req[c]) => UNCHANGED DialledMap
           /\ Attempted(req'[c]) = Attempted(req[c]) => UNCHANGED AttemptedMap
           /\ VerdictOf(req'[c]) = VerdictOf(req[c]) => UNCHANGED VerdictMap
<1>1. /\ DialledMap' = [d \in Callers |-> Dialled(req'[d])]
      /\ AttemptedMap' = [d \in Callers |-> Attempted(req'[d])]
      /\ VerdictMap' = [d \in Callers |-> VerdictOf(req'[d])]
  BY DEF DialledMap, AttemptedMap, VerdictMap, Dialled, Attempted, VerdictOf
<1>2. QED
  BY <1>1 DEF OthersStay, DialledMap, AttemptedMap, VerdictMap

LEMMA MapsAt ==
    ASSUME NEW c \in Callers
    PROVE  /\ DialledMap[c] = Dialled(req[c]) /\ AttemptedMap[c] = Attempted(req[c])
           /\ VerdictMap[c] = VerdictOf(req[c])
BY DEF DialledMap, AttemptedMap, VerdictMap

LEMMA ProgressIsContract ==
    ASSUME NEW c \in Callers, Progresses(c)
    PROVE  Contract!Next \/ UNCHANGED Contract!contract_vars
<1>1. VerdictOf(req[c]) = "running" /\ OthersStay(c)
  BY DEF Progresses, Running, VerdictOf, Stays, Dials, Returns
<1>2. CASE Stays(c)
  <2>1. VerdictOf(req'[c]) = "running"
    BY <1>2 DEF Stays, Running, VerdictOf
  <2>2. QED
    BY <1>1, <1>2, <2>1, MapsMove, ContractActions DEF Stays
<1>3. CASE Dials(c)
  <2>1. VerdictOf(req'[c]) = "running"
    BY <1>3 DEF Dials, Running, VerdictOf
  <2>2. PICK u \in Upstreams : /\ u \notin Dialled(req[c])
                              /\ Dialled(req'[c]) = Dialled(req[c]) \cup {u}
    BY <1>3 DEF Dials
  <2>3. /\ VerdictMap[c] = "running" /\ u \notin DialledMap[c]
        /\ AttemptedMap[c] < RetryCeiling
        /\ DialledMap' = [DialledMap EXCEPT ![c] = DialledMap[c] \cup {u}]
        /\ AttemptedMap' = [AttemptedMap EXCEPT ![c] = AttemptedMap[c] + 1]
        /\ UNCHANGED VerdictMap
    BY <1>1, <1>3, <2>1, <2>2, MapsMove, MapsAt DEF Dials
  <2>4. Contract!Dial(c, u)
    BY <2>3, ContractActions
  <2>5. QED
    BY <2>4 DEF Contract!Next
<1>4. CASE Returns(c)
  <2>1. /\ VerdictOf(req'[c]) = req'[c].result
        /\ req'[c].result \in Contract!Verdicts
    BY <1>4 DEF Returns, VerdictOf, Contract!Verdicts
  <2>2. PICK v \in Contract!Verdicts : v = req'[c].result
    BY <2>1
  <2>3. /\ VerdictMap[c] = "running" /\ (v = "ok" => DialledMap[c] # {})
        /\ VerdictMap' = [VerdictMap EXCEPT ![c] = v]
        /\ UNCHANGED <<DialledMap, AttemptedMap>>
    BY <1>1, <1>4, <2>1, <2>2, MapsMove, MapsAt DEF Returns
  <2>4. Contract!Return(c, v)
    BY <2>3, ContractActions
  <2>5. QED
    BY <2>4 DEF Contract!Next
<1>5. QED
  BY <1>2, <1>3, <1>4 DEF Progresses

\* DialFor implements what its callers rely on, as far as safety goes: every
\* dial of a request goes to another upstream, there are no more than the cap,
\* and what it returned stays returned.  (That it does return is liveness.)
THEOREM DialForKeepsContract ==
    Spec => Contract!Init /\ [][Contract!Next]_(Contract!contract_vars)
<1>1. Init => Contract!Init
  BY DEF Init, Idle, Contract!Init
<1>2. ASSUME LoopInv, [Next]_dvars
      PROVE  [Contract!Next]_(Contract!contract_vars)
  <2>1. CASE UNCHANGED req
    BY <2>1, ContractActions DEF Contract!contract_vars
  <2>2. ASSUME NEW c \in Callers, Step(c)
        PROVE  Contract!Next \/ UNCHANGED Contract!contract_vars
    BY <1>2, <2>1, <2>2, DialProgresses, ProgressIsContract
  <2>3. ASSUME NEW c \in Callers, NEW h \in Hosts, Begin(c, h)
        PROVE  Contract!Next \/ UNCHANGED Contract!contract_vars
    <3>1. /\ OthersStay(c) /\ VerdictOf(req[c]) = "none"
          /\ Attempted(req'[c]) = Attempted(req[c]) /\ Dialled(req'[c]) = Dialled(req[c])
          /\ VerdictOf(req'[c]) \in {"running", "cascade"}
      BY <1>2, <2>3, BeginOpens DEF VerdictOf, Running
    <3>2. /\ UNCHANGED <<DialledMap, AttemptedMap>> /\ VerdictMap[c] = "none"
          /\ \/ VerdictMap' = [VerdictMap EXCEPT ![c] = "running"]
             \/ VerdictMap' = [VerdictMap EXCEPT ![c] = "cascade"]
      BY <3>1, MapsMove, MapsAt
    <3>3. Contract!Call(c) \/ Contract!Refuse(c)
      BY <3>2, ContractActions
    <3>4. QED
      BY <3>3 DEF Contract!Next
  <2>4. ASSUME NEW c \in Callers, Cancel(c)
        PROVE  UNCHANGED req
    BY <2>4 DEF Cancel
  <2>5. UNCHANGED request_vars \/ UNCHANGED dvars => UNCHANGED req
    BY DEF dvars, request_vars
  <2>6. QED
    BY <1>2, <2>1, <2>2, <2>3, <2>4, <2>5 DEF Next
<1>3. QED
  BY <1>1, <1>2, LoopCorrect, PTL DEF Spec

----------------------------------------------------------------------------
(* The scoreboard under its requests *)

\* A pick looks at what is locked out by a reading that is not of the future.
PicksInPast == \A c \in Callers : req[c].now <= clock

\* What a step leaves: one section of the scoreboard at most, run by a clock
\* that does not go back, and no pick with a reading of the future.
Sectioned == [AnySection]_sbvars /\ PicksInPast'

LEMMA PicksStayPast ==
    ASSUME LoopInv, PicksInPast, clock' \in Nat, clock <= clock',
           \A d \in Callers : req'[d].now \in {req[d].now, Never, clock}
    PROVE  PicksInPast'
<1>1. clock \in Nat /\ \A d \in Callers : req[d].now \in Nat
  BY DEF LoopInv, SBTypeOK, RequestTypes, Request, Time
<1>2. QED
  BY <1>1 DEF PicksInPast, Never

\* Pick and trip: nothing but the expired pin a pick has met, or the cascade.
LEMMA PickIsSection ==
    ASSUME LoopInv, PicksInPast, NEW c \in Callers,
           \/ Attempt(c) \/ LeaveLoop(c) \/ PickForced(c) \/ PickUnforced(c)
           \/ PickRanked(c) \/ PickExhausted(c) \/ Trip(c)
    PROVE  Sectioned
<1>1. /\ req \in [Callers -> Request] /\ req[c] \in Request /\ WellFormed(req[c])
      /\ clock \in Nat /\ clock <= clock
  BY DEF LoopInv, RequestTypes, SBTypeOK, Time
<1>2. clock' = clock
  BY DEF Attempt, LeaveLoop, PickForced, PickUnforced, PickRanked, PickExhausted, Trip,
     TripCascade, sbvars
<1>3. \A d \in Callers : req'[d].now \in {req[d].now, Never, clock}
  <2>1. ASSUME req' \in {Moved(c, "trip"), Moved(c, "rank"), Finished(c, "cancelled"),
                         Finished(c, "cascade"), Finished(c, "failed")}
        PROVE  \A d \in Callers : req'[d].now \in {req[d].now, Never}
    BY <1>1, <2>1 DEF Moved, Finished, Request
  <2>2. ASSUME req' = [req EXCEPT ![c].pc = "pin", ![c].now = clock]
        PROVE  \A d \in Callers : req'[d].now \in {req[d].now, clock}
    BY <1>1, <2>2 DEF Request
  <2>3. ASSUME NEW u \in Upstreams, StartDial(c, u)
        PROVE  \A d \in Callers : req'[d].now \in {req[d].now, Never}
    BY <1>1, <2>3 DEF StartDial, Request
  <2>4. ASSUME PickForced(c) \/ PickRanked(c)
        PROVE  \E u \in Upstreams : StartDial(c, u)
    <3>1. /\ req[c].host \in Hosts /\ req[c].now \in Time /\ req[c].tried \subseteq Upstreams
      BY <1>1, <2>4 DEF PickForced, PickRanked, At, WellFormed, Request
    <3>2. QED
      BY <2>4, <3>1, PicksUntried DEF LoopInv, PickForced, PickRanked
  <2>5. CASE PickExhausted(c)
    BY <1>1, <2>5 DEF PickExhausted, Moved, Request
  <2>6. QED
    BY <2>1, <2>2, <2>3, <2>4, <2>5 DEF Attempt, LeaveLoop, PickUnforced, Trip
<1>4. ASSUME PickUnforced(c)
      PROVE  [AnySection]_sbvars
  <2>1. req[c].host \in Hosts /\ req[c].now \in Time /\ req[c].now <= clock
    BY <1>1, <1>4 DEF PickUnforced, At, WellFormed, Request, PicksInPast
  <2>2. NoticeExpiredPin(req[c].host, req[c].now) \/ UNCHANGED sbvars
    BY <1>4, <2>1 DEF PickUnforced, NoticeExpiredPin, sbvars, half_vars
  <2>3. QED
    BY <2>1, <2>2 DEF AnySection
<1>5. ASSUME Trip(c)
      PROVE  [AnySection]_sbvars
  <2>1. req[c].host \in Hosts
    BY <1>1, <1>5 DEF Trip, At, WellFormed
  <2>2. QED
    BY <1>5, <2>1 DEF Trip, AnySection
<1>6. [AnySection]_sbvars
  BY <1>4, <1>5 DEF Attempt, LeaveLoop, PickForced, PickRanked, PickExhausted
<1>7. QED
  BY <1>1, <1>2, <1>3, <1>6, PicksStayPast DEF Sectioned

\* The two Record* calls a request makes, with the upstream it has in hand.
LEMMA RecordIsSection ==
    ASSUME LoopInv, PicksInPast, NEW c \in Callers,
           \/ Credited(c) \/ Stamp(c) \/ Charged(c)
    PROVE  Sectioned
<1>1. req \in [Callers -> Request] /\ req[c] \in Request /\ clock \in Nat /\ clock <= clock
  BY DEF LoopInv, RequestTypes, SBTypeOK, Time
<1>2. AnySection /\ clock' = clock
  BY DEF Credited, Stamp, Charged, AnySection, ApplySuccess, DropFailure, AcceptFailure,
     ApplyFailure
<1>3. \A d \in Callers : req'[d].now \in {req[d].now, Never, clock}
  BY <1>1 DEF Credited, Stamp, Charged, Finished, Burnt, Request, request_vars
<1>4. QED
  BY <1>1, <1>2, <1>3, PicksStayPast DEF Sectioned

LEMMA OutcomeIsSection ==
    ASSUME LoopInv, PicksInPast, NEW c \in Callers, req[c].pc \in {"dial", "response"},
           \/ BeginSuccess(c, req[c].host, req[c].up)
           \/ \E k \in Kinds, o \in RetryAfters \cup {NoOverride} :
                 BeginFailure(c, req[c].host, req[c].up, k, o),
           req' = Moved(c, "record")
    PROVE  Sectioned
<1>1. /\ req \in [Callers -> Request] /\ req[c] \in Request /\ WellFormed(req[c])
      /\ clock \in Nat /\ clock <= clock
  BY DEF LoopInv, RequestTypes, SBTypeOK, Time
<1>2. req[c].host \in Hosts /\ req[c].up \in Upstreams
  BY <1>1 DEF WellFormed, Request
<1>3. AnySection /\ clock' = clock
  BY <1>2 DEF AnySection, BeginSuccess, BeginFailure
<1>4. \A d \in Callers : req'[d].now \in {req[d].now, Never, clock}
  BY <1>1 DEF Moved, Request
<1>5. QED
  BY <1>1, <1>3, <1>4, PicksStayPast DEF Sectioned

\* Whatever else a request does, the scoreboard does not notice.
LEMMA AsideIsSection ==
    ASSUME LoopInv, PicksInPast, UNCHANGED sbvars,
           \A d \in Callers : req'[d].now \in {req[d].now, Never}
    PROVE  Sectioned
<1>1. clock \in Nat /\ clock <= clock /\ clock' = clock
  BY DEF LoopInv, SBTypeOK, Time, sbvars
<1>2. QED
  BY <1>1, PicksStayPast DEF Sectioned

LEMMA BeginIsSection ==
    ASSUME LoopInv, PicksInPast, NEW c \in Callers, NEW h \in Hosts, Begin(c, h)
    PROVE  Sectioned
<1>1. req \in [Callers -> Request]
  BY DEF LoopInv, RequestTypes
<1>2. req'[c].now = Never /\ \A d \in Callers \ {c} : req'[d] = req[d]
  BY <1>1 DEF Begin, Idle
<1>3. UNCHANGED sbvars
  BY DEF Begin
<1>4. QED
  BY <1>2, <1>3, AsideIsSection

LEMMA DialIsSection ==
    ASSUME LoopInv, PicksInPast, NEW c \in Callers,
           Step(c) \/ (\E h \in Hosts : Begin(c, h)) \/ Cancel(c)
    PROVE  Sectioned
<1>1. /\ req \in [Callers -> Request] /\ req[c] \in Request
      /\ NoOverride \in RetryAfters \cup {NoOverride} /\ DialKinds \subseteq Kinds
  BY DialAssumption DEF LoopInv, RequestTypes
<1>2. CASE Walk(c)
  BY <1>2, PickIsSection, RecordIsSection DEF Walk
<1>3. CASE DialSucceeds(c)
  BY <1>3, OutcomeIsSection DEF DialSucceeds, At
<1>4. ASSUME NEW k \in DialKinds, DialFails(c, k)
      PROVE  Sectioned
  BY <1>1, <1>4, OutcomeIsSection DEF DialFails, At
<1>5. CASE DialCut(c)
  <2>1. \A d \in Callers : req'[d].now \in {req[d].now, Never}
    BY <1>1, <1>5 DEF DialCut, Finished, Request
  <2>2. QED
    BY <1>5, <2>1, AsideIsSection DEF DialCut
<1>6. CASE DialRefusedUnscored(c)
  <2>1. \A d \in Callers : req'[d].now \in {req[d].now, Never}
    BY <1>1, <1>6 DEF DialRefusedUnscored, Burnt, Request
  <2>2. QED
    BY <1>6, <2>1, AsideIsSection DEF DialRefusedUnscored
<1>7. ASSUME NEW h \in Hosts, Begin(c, h)
      PROVE  Sectioned
  BY <1>7, BeginIsSection
<1>8. CASE Cancel(c)
  BY <1>8, AsideIsSection DEF Cancel
<1>9. QED
  BY <1>2, <1>3, <1>4, <1>5, <1>6, <1>7, <1>8 DEF Step

LEMMA OperatorIsSection ==
    ASSUME LoopInv, PicksInPast, Administration, UNCHANGED request_vars
    PROVE  Sectioned
<1>1. clock \in Nat /\ AnySection
  BY AdministrationIsSection DEF LoopInv, SBTypeOK, Time
<1>2. clock' \in {clock, clock + 1}
  BY DEF Administration, Tick, DecayTick, PruneEntries, PruneDebounce, ResetState,
     ForgetEntries, SeeExpiredPin, ClearPin, ForcePin, EvictPin, WipeDebounce, ReplacePool,
     ReplaceRules, Reload
<1>3. clock' \in Nat /\ clock <= clock'
  BY <1>1, <1>2
<1>4. \A d \in Callers : req'[d].now = req[d].now
  BY DEF request_vars
<1>5. QED
  BY <1>1, <1>3, <1>4, PicksStayPast DEF Sectioned

LEMMA InitPicks == Init => PicksInPast
BY DEF Init, SBInit, PicksInPast, Idle, Never

\* However requests, operators and reloads are interleaved, the scoreboard sees
\* nothing but whole critical sections.
LEMMA RequestsRunSections == Spec => AnySpec
<1>1. LoopInv /\ PicksInPast /\ [Next]_dvars => [AnySection]_sbvars /\ PicksInPast'
  <2>1. LoopInv /\ PicksInPast /\ Next => Sectioned
    BY DialIsSection, OperatorIsSection DEF Next
  <2>2. LoopInv /\ PicksInPast /\ UNCHANGED dvars => Sectioned
    BY AsideIsSection DEF dvars, request_vars
  <2>3. QED
    BY <2>1, <2>2 DEF Sectioned
<1>2. Init => SBInit
  BY DEF Init
<1>3. QED
  BY <1>1, <1>2, InitPicks, LoopCorrect, PTL DEF Spec, AnySpec

\* What the scoreboard promises holds under its real callers, DialFor's requests:
\* pins stay in the pool, late penalties lock nobody out past the ceiling, scores
\* are paid for by failures, and a pick that met an expired pin never evicts the
\* one an operator has put in its place.
THEOREM RequestsKeepScoreboard ==
    Spec => /\ [](PinsInPool /\ BoundedLockout /\ FailuresAccountForScore)
            /\ LivePinSurvivesEviction
BY RequestsRunSections, SectionsKeepPins, SectionsBoundLockout, SectionsCountFailures,
   SectionsSparePins, PTL

\* However many requests fail on an upstream at once, it is charged once per kind
\* and debounce window.
THEOREM RequestsDebounced ==
    ASSUME NEW W, OneWindow(W)
    PROVE  Spec => []PenaltiesDebounced
BY RequestsRunSections, SectionsDebounce

\* A request that reads the clock when Prune runs picks as it would have, had the
\* entries that prune_after removes still been there.
THEOREM RequestsDoNotSeePrune ==
    ASSUME \A c \in Configs : c.pruneAfter > 0
                                => \A d \in Lockouts : d + MaxStall <= c.pruneAfter + 1
    PROVE  Spec => PruneKeepsRouting
BY RequestsRunSections, SectionsPruneUnseen

=============================================================================
