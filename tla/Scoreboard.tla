----------------------------- MODULE Scoreboard -----------------------------
(***************************************************************************)
(* The per-(host, upstream) scoreboard of internal/scoreboard: scores,     *)
(* cooldowns, the debounce table, cascade (negative TTL), operator force   *)
(* pins, hot reload and pruning.                                           *)
(*                                                                         *)
(* One action is one critical section of the code: what runs under         *)
(* Scoreboard.mu or under debounceMu is one step, and an operation that    *)
(* releases a lock in the middle (RecordFailure, Forget, Reset, Prune, the *)
(* expired-pin eviction) is several, with the values it carries from one   *)
(* section to the next kept in `call', `wipes', `pruning' and `evicting'.  *)
(*                                                                         *)
(* Time is a clock of whole ticks that starts at 1; 0 (Never) is Go's zero *)
(* time.Time.  Scores are whole numbers.                                   *)
(***************************************************************************)
EXTENDS Integers, Sequences, FiniteSets, Functions

CONSTANTS
    Hosts,        \* destination hosts
    Upstreams,    \* every upstream id any configuration can name
    Kinds,        \* failure.Kind values
    Callers,      \* goroutines inside RecordSuccess / RecordFailure
    Pools,        \* the pools ReplacePool may install
    RuleSets,     \* the compiled rule sets ReplaceRules may install
    Configs,      \* the tunings Reload may install
    RetryAfters,  \* the cooldown overrides a failure may carry
    PinTTLs,      \* lifetimes an operator may ask of Force
    AdminOps,     \* the operator, reload and prune calls of this instance
    StaleWindows, \* Prune drops debounce stamps older than this many windows (10)
    MaxStall,     \* bound: ticks a caller may stay inside one Record* call
    MaxTime,      \* bound: the clock stops here
    MaxFailures,  \* bound: failures reported about one entry
    NoCall, NoPin, NoOverride,
    \* Bounds of the tunings in Configs: the largest score_cap, the largest
    \* penalty, and how far a negative one lifts a score
    ScoreCeiling, PenaltyCeiling, LiftCeiling

Never == 0
Time == Nat

Tuning ==
    [penalty : [Kinds -> Int], cooldown : [Kinds -> Nat], successWeight : Nat,
     scoreCap : Nat, decayStep : Nat, cascadeTTL : Nat, debounceWindow : Nat,
     pruneAfter : Nat, probe : BOOLEAN, connectionRefused : BOOLEAN]

\* What Config.Validate admits: nothing negative but the penalty of a
\* [[failure.status]] row, whose sign nobody looks at.
ASSUME ConfigsAssumption ==
    /\ Configs \subseteq Tuning /\ Kinds # {}
    /\ \A c \in Configs :
         /\ c.scoreCap <= ScoreCeiling
         /\ \A k \in Kinds : -LiftCeiling <= c.penalty[k] /\ c.penalty[k] <= PenaltyCeiling

\* NewPool refuses an empty list; ids are unique across the composed pool.
ASSUME PoolsAssumption ==
    \A p \in Pools : p.order \in Seq(Upstreams) /\ p.retryCap \in Nat \ {0}

\* A host no rule matches has the empty rule.
ASSUME RuleSetsAssumption ==
    \A rs \in RuleSets : rs \in [Hosts -> [force : BOOLEAN, prefer : Seq(Upstreams)]]

ASSUME NumbersAssumption ==
    /\ RetryAfters \subseteq Nat   \* no cap on a Retry-After
    /\ PinTTLs \subseteq Nat \ {0} /\ StaleWindows \in Nat \ {0}
    /\ {MaxStall, MaxTime, MaxFailures} \subseteq Nat
    /\ {ScoreCeiling, PenaltyCeiling, LiftCeiling} \subseteq Nat

VARIABLES
    clock,     \* Scoreboard.clock()
    pool,      \* poolEntries (in priority order) and poolRetryCap
    rules,     \* the RuleSet
    cfg,       \* the Config
    entries,   \* entries[host][upstreamID]; a missing entry is Absent
    cascade,   \* cascade[host], the cooling expiry
    forces,    \* forces[host], the operator's pin
    debounce,  \* debounce[host, upstreamID, kind], the last accepted stamp
    call,      \* what each caller holds between two critical sections
    wipes,     \* second halves of Forget and Reset still to run: sets of hosts
    pruning,   \* what a Prune carries between its halves, or NotPruning
    evicting   \* expired-pin evictions between their RLock and their Lock

config_vars == <<pool, rules, cfg>>
half_vars == <<wipes, pruning, evicting>>
sbvars == <<clock, config_vars, entries, cascade, forces, debounce, call, half_vars>>

----------------------------------------------------------------------------
(* Data *)

Pairs == Hosts \X Upstreams
Keys == Hosts \X Upstreams \X Kinds

\* A failure clamps a score from below and a success from above.
Scores == {s \in Int : -ScoreCeiling <= s}

Entry ==
    [score : Scores, cooldownUntil : Time, lastSeen : Time, failures : Nat]

\* getOrCreateLocked starts from the zero entry, so a missing entry and a
\* zero one are the same to every reader.
Absent == [score |-> 0, cooldownUntil |-> Never, lastSeen |-> Never, failures |-> 0]

Pin == [up : Upstreams, until : Time]

Call ==
    [op : {"failing", "stamped", "succeeding"}, host : Hosts, up : Upstreams,
     kind : Kinds, override : RetryAfters \cup {NoOverride}, now : Time,
     cfg : Configs]

\* Being in no call is not a call.
ASSUME NoCallAssumption == NoCall \notin Call

\* A success has no kind; its record holds this one.
SomeKind == CHOOSE k \in Kinds : TRUE

Least(a, b) == IF a <= b THEN a ELSE b
Greatest(a, b) == IF a >= b THEN a ELSE b

NotPruning == [now |-> Never, window |-> 0]

PoolIds(p) == Range(p.order)

----------------------------------------------------------------------------
(* Pick, as a relation: every upstream it may return *)

CascadeActive(h, now) == cascade[h] > now

Cooled(h, u, now) == entries[<<h, u>>].cooldownUntil > now

\* Rule.PreferRank: position in the prefer list, first occurrence; 0 = none.
PreferRank(h, u) ==
    LET at == {i \in DOMAIN rules[h].prefer : rules[h].prefer[i] = u}
    IN IF at = {} THEN 0 ELSE CHOOSE i \in at : \A j \in at : i <= j

PoolIndex(u) == CHOOSE i \in DOMAIN pool.order : pool.order[i] = u

\* Defect: upstreams this request has burnt stay candidates.
CandidatesAgain(h, tried) ==
    {u \in PoolIds(pool) : rules[h].force => PreferRank(h, u) # 0}

Candidates(h, tried) ==
    {u \in PoolIds(pool) \ tried : rules[h].force => PreferRank(h, u) # 0}

\* preferRank ascending with 0 last, then score descending, then pool order.
Outranks(h, u, v) ==
    LET ru == PreferRank(h, u)
        rv == PreferRank(h, v)
    IN IF ru # rv THEN ru # 0 /\ (rv = 0 \/ ru < rv)
       ELSE \/ entries[<<h, u>>].score > entries[<<h, v>>].score
            \/ /\ entries[<<h, u>>].score = entries[<<h, v>>].score
               /\ PoolIndex(u) < PoolIndex(v)

\* With every candidate cooled the soonest to warm up is taken: a cooldown
\* is advisory when nothing else is left.  A probe may take any eligible
\* candidate below the top one.  Empty means ErrPoolExhausted.
ScoredPicks(h, tried, now) ==
    LET candidates == Candidates(h, tried)
        eligible == {u \in candidates : ~Cooled(h, u, now)}
    IN IF eligible = {}
       THEN {u \in candidates : \A v \in candidates :
                 entries[<<h, u>>].cooldownUntil <= entries[<<h, v>>].cooldownUntil}
       ELSE {u \in eligible :
                 cfg.probe \/ \A v \in eligible \ {u} : Outranks(h, u, v)}

\* Defect: a live pin is returned even when this request has burnt it.
PinnedPickAgain(h, tried, now) ==
    IF forces[h] # NoPin /\ forces[h].until > now /\ forces[h].up \in PoolIds(pool)
    THEN {forces[h].up} ELSE {}

\* pickForced: the pin, when it is live, untried and still in the pool.
PinnedPick(h, tried, now) ==
    IF /\ forces[h] # NoPin
       /\ forces[h].until > now
       /\ forces[h].up \in PoolIds(pool) \ tried
    THEN {forces[h].up}
    ELSE {}

----------------------------------------------------------------------------
(* Outcomes *)

\* RecordSuccess's effect on one entry, under the live Config.
Rewarded(e, now) ==
    [e EXCEPT !.score = Least(e.score + cfg.successWeight, cfg.scoreCap),
              !.cooldownUntil = Never,
              !.lastSeen = now]

\* Defect: cooldowns that add up instead of the later one winning.
CooldownStacked(e, f) ==
    IF f.override # NoOverride THEN f.now + f.override
    ELSE Greatest(e.cooldownUntil, f.now) + f.cfg.cooldown[f.kind]

\* The cooldown a failure leaves: an override replaces it (0 clears it), the
\* kind's default only ever extends it.
CooldownAfter(e, f) ==
    IF f.override # NoOverride
    THEN IF f.override > 0 THEN f.now + f.override ELSE Never
    ELSE IF f.cfg.cooldown[f.kind] > 0
         THEN Greatest(e.cooldownUntil, f.now + f.cfg.cooldown[f.kind])
         ELSE e.cooldownUntil

\* Defect: a failure with a Retry-After cools the pair but is not counted.
PenalisedUncounted(e, f) ==
    [score |-> Greatest(e.score - f.cfg.penalty[f.kind], -f.cfg.scoreCap),
     cooldownUntil |-> CooldownAfter(e, f),
     lastSeen |-> f.now,
     failures |-> IF f.override = NoOverride THEN e.failures + 1 ELSE e.failures]

\* Defect: a failure does not look at score_cap.
PenalisedUnclamped(e, f) ==
    [score |-> e.score - f.cfg.penalty[f.kind],
     cooldownUntil |-> CooldownAfter(e, f),
     lastSeen |-> f.now,
     failures |-> e.failures + 1]

\* RecordFailure's effect on one entry, under the Config it snapshotted.
Penalised(e, f) ==
    [score |-> Greatest(e.score - f.cfg.penalty[f.kind], -f.cfg.scoreCap),
     cooldownUntil |-> CooldownAfter(e, f),
     lastSeen |-> f.now,
     failures |-> e.failures + 1]

\* decayTick on one score: one step towards zero, never across it.
Decayed(s, step) ==
    IF s > 0 THEN Greatest(s - step, 0) ELSE Least(s + step, 0)

----------------------------------------------------------------------------
(* Recording *)

\* RecordSuccess up to its lock: the clock is read first.
BeginSuccess(c, h, u) ==
    /\ call[c] = NoCall
    /\ call' = [call EXCEPT ![c] =
                   [op |-> "succeeding", host |-> h, up |-> u, kind |-> SomeKind,
                    override |-> NoOverride, now |-> clock, cfg |-> cfg]]
    /\ UNCHANGED <<clock, config_vars, entries, cascade, forces, debounce, half_vars>>

\* RecordSuccess under mu: reward, and the host leaves cascade.
ApplySuccess(c) ==
    /\ call[c] # NoCall /\ call[c].op = "succeeding"
    /\ LET s == call[c] IN
         /\ entries' = [entries EXCEPT ![<<s.host, s.up>>] = Rewarded(@, s.now)]
         /\ cascade' = [cascade EXCEPT ![s.host] = Never]
    /\ call' = [call EXCEPT ![c] = NoCall]
    /\ UNCHANGED <<clock, config_vars, forces, debounce, half_vars>>

\* RecordFailure up to the debounce lock: clock reading and Config snapshot.
BeginFailure(c, h, u, k, override) ==
    /\ call[c] = NoCall
    /\ call' = [call EXCEPT ![c] = [op |-> "failing", host |-> h, up |-> u,
                    kind |-> k, override |-> override, now |-> clock, cfg |-> cfg]]
    /\ UNCHANGED <<clock, config_vars, entries, cascade, forces, debounce, half_vars>>

\* Defect: the window is one tick short.
DebouncedShort(f) ==
    LET last == debounce[<<f.host, f.up, f.kind>>]
    IN last # Never /\ f.now - last < f.cfg.debounceWindow - 1

\* acceptForDebounce's test, on the reading the caller took earlier.
Debounced(f) ==
    LET last == debounce[<<f.host, f.up, f.kind>>]
    IN /\ f.cfg.debounceWindow > 0
       /\ last # Never
       /\ f.now - last < f.cfg.debounceWindow

\* acceptForDebounce returning false: the call is a no-op.
DropFailure(c) ==
    /\ call[c] # NoCall /\ call[c].op = "failing"
    /\ Debounced(call[c])
    /\ call' = [call EXCEPT ![c] = NoCall]
    /\ UNCHANGED <<clock, config_vars, entries, cascade, forces, debounce, half_vars>>

\* acceptForDebounce returning true; a zero window stamps nothing.
AcceptFailure(c) ==
    /\ call[c] # NoCall /\ call[c].op = "failing"
    /\ ~Debounced(call[c])
    /\ LET f == call[c] IN
         debounce' = IF f.cfg.debounceWindow > 0
                     THEN [debounce EXCEPT ![<<f.host, f.up, f.kind>>] = f.now]
                     ELSE debounce
    /\ call' = [call EXCEPT ![c].op = "stamped"]
    /\ UNCHANGED <<clock, config_vars, entries, cascade, forces, half_vars>>

\* RecordFailure under mu.
ApplyFailure(c) ==
    /\ call[c] # NoCall /\ call[c].op = "stamped"
    /\ LET f == call[c] IN
         entries' = [entries EXCEPT ![<<f.host, f.up>>] = Penalised(@, f)]
    /\ call' = [call EXCEPT ![c] = NoCall]
    /\ UNCHANGED <<clock, config_vars, cascade, forces, debounce, half_vars>>

\* TripCascade: the clock is read inside the lock; a TTL of 0 disables it.
TripCascade(h) ==
    /\ cascade' = IF cfg.cascadeTTL > 0
                  THEN [cascade EXCEPT ![h] = clock + cfg.cascadeTTL]
                  ELSE cascade
    /\ UNCHANGED <<clock, config_vars, entries, forces, debounce, call, half_vars>>

DecayTick ==
    /\ cfg.decayStep > 0
    /\ entries' = [p \in Pairs |->
                     [entries[p] EXCEPT !.score = Decayed(@, cfg.decayStep)]]
    /\ UNCHANGED <<clock, config_vars, cascade, forces, debounce, call, half_vars>>

----------------------------------------------------------------------------
(* Operator calls *)

\* ClearForce, and Force with an expiry in the past: the pin goes, whatever
\* upstream it names.
ClearPin(h) ==
    /\ "force" \in AdminOps
    /\ forces[h] # NoPin
    /\ forces' = [forces EXCEPT ![h] = NoPin]
    /\ UNCHANGED <<clock, config_vars, entries, cascade, debounce, call, half_vars>>

\* Force with a live expiry: the id must be in the live pool.
ForcePin(h, u, ttl) ==
    /\ "force" \in AdminOps
    /\ u \in PoolIds(pool)
    /\ forces' = [forces EXCEPT ![h] = [up |-> u, until |-> clock + ttl]]
    /\ UNCHANGED <<clock, config_vars, entries, cascade, debounce, call, half_vars>>

\* pickForced, ForcedFor or ForceSnapshot meets an expired pin under RLock...
SeeExpiredPin(h) ==
    /\ forces[h] # NoPin /\ forces[h].until <= clock
    /\ evicting' = evicting \cup {<<h, clock>>}
    /\ UNCHANGED <<clock, config_vars, entries, cascade, forces, debounce, call,
                   wipes, pruning>>

\* Defect: the write-locked half trusts what the read-locked half saw.
EvictPinUnchecked(h, now) ==
    /\ <<h, now>> \in evicting
    /\ evicting' = evicting \ {<<h, now>>}
    /\ forces' = [forces EXCEPT ![h] = NoPin]
    /\ UNCHANGED <<clock, config_vars, entries, cascade, debounce, call, wipes, pruning>>

\* ...and under Lock drops the pin found there now if that one has expired.
EvictPin(h, now) ==
    /\ <<h, now>> \in evicting
    /\ evicting' = evicting \ {<<h, now>>}
    /\ forces' = IF forces[h] # NoPin /\ forces[h].until <= now
                 THEN [forces EXCEPT ![h] = NoPin]
                 ELSE forces
    /\ UNCHANGED <<clock, config_vars, entries, cascade, debounce, call, wipes, pruning>>

\* Forget under mu: entries and cascade of one host; the pin stays.  Bound:
\* one Forget of a host and one Reset are in flight at a time.
ForgetEntries(h) ==
    /\ "forget" \in AdminOps
    /\ {h} \notin wipes
    /\ entries' = [p \in Pairs |-> IF p[1] = h THEN Absent ELSE entries[p]]
    /\ cascade' = [cascade EXCEPT ![h] = Never]
    /\ wipes' = wipes \cup {{h}}
    /\ UNCHANGED <<clock, config_vars, forces, debounce, call, pruning, evicting>>

\* Reset under mu: entries, cascades and pins.
ResetState ==
    /\ "reset" \in AdminOps
    /\ Hosts \notin wipes
    /\ entries' = [p \in Pairs |-> Absent]
    /\ cascade' = [h \in Hosts |-> Never]
    /\ forces' = [h \in Hosts |-> NoPin]
    /\ wipes' = wipes \cup {Hosts}
    /\ UNCHANGED <<clock, config_vars, debounce, call, pruning, evicting>>

\* Second half of Forget and of Reset, under debounceMu.
WipeDebounce(hosts) ==
    /\ hosts \in wipes
    /\ debounce' = [k \in Keys |-> IF k[1] \in hosts THEN Never ELSE debounce[k]]
    /\ wipes' = wipes \ {hosts}
    /\ UNCHANGED <<clock, config_vars, entries, cascade, forces, call, pruning, evicting>>

----------------------------------------------------------------------------
(* Hot reload *)

\* Defect: the swap leaves the pins alone.
ReplacePoolKeepingPins(p) ==
    /\ pool' = p
    /\ UNCHANGED <<clock, rules, cfg, entries, cascade, forces, debounce, call, half_vars>>

\* ReplacePool evicts the pins whose upstream the new pool lacks; entries
\* survive the swap.
ReplacePool(p) ==
    /\ pool' = p
    /\ forces' = [h \in Hosts |->
                    IF forces[h] # NoPin /\ forces[h].up \notin PoolIds(p)
                    THEN NoPin ELSE forces[h]]
    /\ UNCHANGED <<clock, rules, cfg, entries, cascade, debounce, call, half_vars>>

ReplaceRules(rs) ==
    /\ rules' = rs
    /\ UNCHANGED <<clock, pool, cfg, entries, cascade, forces, debounce, call, half_vars>>

Reload(c) ==
    /\ cfg' = c
    /\ UNCHANGED <<clock, pool, rules, entries, cascade, forces, debounce, call, half_vars>>

----------------------------------------------------------------------------
(* Prune *)

\* Defect: old entries go whatever their score.
PrunableByAge(e, now) ==
    /\ cfg.pruneAfter > 0
    /\ e.lastSeen # Never
    /\ now - e.lastSeen > cfg.pruneAfter

\* An entry the prune pass drops.
Prunable(e, now) ==
    /\ cfg.pruneAfter > 0
    /\ e.score = 0 /\ e.lastSeen # Never
    /\ now - e.lastSeen > cfg.pruneAfter

\* Prune under mu.  The code reads the clock just before the lock; an older
\* reading only drops less.  One prune runs at a time: one goroutine calls it.
PruneEntries ==
    /\ "prune" \in AdminOps
    /\ pruning = NotPruning
    /\ entries' = [p \in Pairs |-> IF Prunable(entries[p], clock) THEN Absent
                                   ELSE entries[p]]
    /\ cascade' = [h \in Hosts |-> IF cascade[h] <= clock THEN Never ELSE cascade[h]]
    /\ pruning' = [now |-> clock, window |-> cfg.debounceWindow]
    /\ UNCHANGED <<clock, config_vars, forces, debounce, call, wipes, evicting>>

\* A stamp many windows old, by the reading and the window of the first half.
Stale(stamp) ==
    pruning.window > 0 /\ pruning.now - stamp > StaleWindows * pruning.window

\* Prune under debounceMu.
PruneDebounce ==
    /\ pruning # NotPruning
    /\ debounce' = [k \in Keys |-> IF Stale(debounce[k]) THEN Never ELSE debounce[k]]
    /\ pruning' = NotPruning
    /\ UNCHANGED <<clock, config_vars, entries, cascade, forces, call, wipes, evicting>>

----------------------------------------------------------------------------
(* The component on its own: any caller reports any outcome about the pool *)
(* it saw (the listeners and the control listener's report handler).       *)

Tick ==
    /\ clock < MaxTime
    /\ \A c \in Callers : call[c] # NoCall => clock < call[c].now + MaxStall
    /\ clock' = clock + 1
    /\ UNCHANGED <<config_vars, entries, cascade, forces, debounce, call, half_vars>>

SBInit ==
    /\ clock = 1
    /\ pool \in Pools /\ rules \in RuleSets /\ cfg \in Configs
    /\ entries = [p \in Pairs |-> Absent]
    /\ cascade = [h \in Hosts |-> Never]
    /\ forces = [h \in Hosts |-> NoPin]
    /\ debounce = [k \in Keys |-> Never]
    /\ call = [c \in Callers |-> NoCall]
    /\ wipes = {} /\ pruning = NotPruning /\ evicting = {}

\* The sections of Record* a caller that is already inside one still runs.
Recording ==
    \E c \in Callers : \/ ApplySuccess(c)
                       \/ DropFailure(c)
                       \/ AcceptFailure(c)
                       \/ ApplyFailure(c)

\* The operator, the SIGHUP reload, the decay and persistence goroutines.
Administration ==
    \/ Tick
    \/ DecayTick
    \/ PruneEntries \/ PruneDebounce
    \/ ResetState
    \/ \E h \in Hosts :
         \/ ForgetEntries(h)
         \/ SeeExpiredPin(h)
         \/ ClearPin(h)
         \/ \E u \in Upstreams, ttl \in PinTTLs : ForcePin(h, u, ttl)
         \/ \E now \in 1..MaxTime : EvictPin(h, now)
    \/ \E hosts \in wipes : WipeDebounce(hosts)
    \/ \E p \in Pools : ReplacePool(p)
    \/ \E rs \in RuleSets : ReplaceRules(rs)
    \/ \E c \in Configs : Reload(c)

\* handleReport calls Record* for an id HasUpstream just accepted; a
\* listener calls TripCascade when a request has used up its attempts.
Outcome ==
    \E c \in Callers, h \in Hosts, u \in PoolIds(pool) :
       \/ BeginSuccess(c, h, u)
       \/ /\ entries[<<h, u>>].failures < MaxFailures
          /\ \E k \in Kinds, o \in RetryAfters \cup {NoOverride} : BeginFailure(c, h, u, k, o)

SBNext == Outcome \/ Recording \/ Administration \/ \E h \in Hosts : TripCascade(h)

SBSpec == SBInit /\ [][SBNext]_sbvars

----------------------------------------------------------------------------
(* Properties *)

\* Types; no reload, late penalty or decay takes a score below the largest cap.
SBTypeOK ==
    /\ clock \in Time
    /\ pool \in Pools /\ rules \in RuleSets /\ cfg \in Configs
    /\ entries \in [Pairs -> Entry]
    /\ cascade \in [Hosts -> Time]
    /\ forces \in [Hosts -> Pin \cup {NoPin}]
    /\ debounce \in [Keys -> Time]
    /\ call \in [Callers -> Call \cup {NoCall}]
    /\ wipes \subseteq SUBSET Hosts
    /\ pruning \in [now : Time, window : Nat]
    /\ evicting \subseteq Hosts \X Time

\* An operator's pin always names an upstream of the live pool, whatever
\* order Force, hot swaps, expiries and evictions come in (ReplacePool
\* evicts the others under the lock that installs the new pool).
PinsInPool ==
    \A h \in Hosts : forces[h] # NoPin => forces[h].up \in PoolIds(pool)

\* What one failure may cool a pair for.
Lockouts == RetryAfters \cup {c.cooldown[k] : c \in Configs, k \in Kinds}

\* Cooldowns do not add up: however many failures pile up on a pair, of whatever
\* kinds, and however late one is applied, the pair sits out no longer from now
\* than a single configured cooldown or a single Retry-After asks for.
BoundedLockout ==
    \A p \in Pairs :
       \/ entries[p].cooldownUntil = Never
       \/ \E d \in Lockouts : entries[p].cooldownUntil <= clock + d

\* globalFailureCount accounts for what a score has moved to: below zero, and
\* above the cap, it is covered by the counted failures, and a pair that was
\* never charged a failure is never cooled.  (score_cap is documented as an
\* "absolute cap on |score|"; a failure clamps from below only, and this is
\* how far a negative penalty takes a score above it.)
FailuresAccountForScore ==
    \A p \in Pairs :
       /\ -entries[p].score <= PenaltyCeiling * entries[p].failures
       /\ entries[p].score <= ScoreCeiling + LiftCeiling * entries[p].failures
       /\ entries[p].cooldownUntil # Never => entries[p].failures > 0

\* One penalty per kind and debounce window, however many callers report the
\* same event: by tick t a pair has been charged at most once per kind for
\* each window begun since the clock started.
PenaltiesDebounced ==
    \A p \in Pairs, c \in Configs :
       c.debounceWindow > 0 =>
         entries[p].failures <=
           Cardinality(Kinds) * (1 + ((clock - 1) \div c.debounceWindow))

\* A pin an operator has just installed survives the eviction of the expired
\* one it replaced (the re-check under the write lock in pickForced,
\* ForcedFor and ForceSnapshot).
LivePinSurvivesEviction ==
    [][evicting' # evicting =>
         \A h \in Hosts : forces[h] # NoPin /\ forces[h].until > clock
                              => forces'[h] = forces[h]]_sbvars

\* Prune drops only "state that is no longer load-bearing" (persist.go): no
\* Pick chooses differently after it than before it.
PruneKeepsRouting ==
    [][pruning' # pruning =>
         \A h \in Hosts, tried \in SUBSET Upstreams :
            ScoredPicks(h, tried, clock)' = ScoredPicks(h, tried, clock)]_sbvars

=============================================================================
