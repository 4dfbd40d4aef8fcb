-------------------------- MODULE Scoreboard_proofs --------------------------
(***************************************************************************)
(* Theorems of Scoreboard, for every set of hosts, upstreams, callers,     *)
(* pools, rule sets and tunings its assumptions admit.                     *)
(***************************************************************************)
EXTENDS Scoreboard, FiniteSetTheorems, TLAPS

----------------------------------------------------------------------------
(* The arithmetic of one entry *)

\* RecordSuccess keeps an entry an entry, whatever the tuning's cap.
LEMMA RewardedType ==
    ASSUME NEW e \in Entry, NEW now \in Time, cfg \in Configs
    PROVE  Rewarded(e, now) \in Entry
<1>1. /\ cfg \in Tuning /\ cfg.scoreCap <= ScoreCeiling /\ ScoreCeiling \in Nat
  BY ConfigsAssumption, NumbersAssumption
<1>2. /\ cfg.scoreCap \in Nat /\ cfg.successWeight \in Nat
  BY <1>1 DEF Tuning
<1>3. e.score \in Int /\ -ScoreCeiling <= e.score /\ e.failures \in Nat
  BY DEF Entry, Scores
<1>4. Least(e.score + cfg.successWeight, cfg.scoreCap) \in Scores
  BY <1>1, <1>2, <1>3 DEF Least, Scores
<1>5. QED
  BY <1>3, <1>4 DEF Rewarded, Entry, Time, Never

LEMMA LockoutsType == Lockouts \subseteq Nat
<1>1. RetryAfters \subseteq Nat
  BY NumbersAssumption
<1>2. ASSUME NEW c \in Configs, NEW k \in Kinds PROVE c.cooldown[k] \in Nat
  BY <1>2, ConfigsAssumption DEF Tuning
<1>3. \A d \in Lockouts : d \in RetryAfters \/ \E c \in Configs, k \in Kinds : d = c.cooldown[k]
  BY DEF Lockouts
<1>4. QED
  BY <1>1, <1>2, <1>3

\* The cooldown a failure leaves is a time: the old one, none, or one lockout
\* after the failure itself.
LEMMA CooldownAfterBound ==
    ASSUME NEW e \in Entry, NEW f \in Call
    PROVE  /\ CooldownAfter(e, f) \in Time
           /\ \/ CooldownAfter(e, f) = e.cooldownUntil
              \/ CooldownAfter(e, f) = Never
              \/ \E d \in Lockouts : CooldownAfter(e, f) = f.now + d
<1>1. /\ f.cfg \in Configs /\ f.kind \in Kinds /\ f.now \in Nat
      /\ f.override \in RetryAfters \cup {NoOverride}
  BY DEF Call, Time
<1>2. f.cfg.cooldown[f.kind] \in Nat /\ f.cfg.cooldown[f.kind] \in Lockouts
  BY <1>1, ConfigsAssumption DEF Tuning, Lockouts
<1>3. e.cooldownUntil \in Nat
  BY DEF Entry, Time
<1>4. CASE f.override # NoOverride
  <2>1. f.override \in Nat /\ f.override \in Lockouts
    <3>1. f.override \in RetryAfters
      BY <1>1, <1>4
    <3>2. f.override \in Lockouts
      BY ONLY <3>1 DEF Lockouts
    <3>3. f.override \in Nat
      BY <3>2, LockoutsType
    <3>4. QED
      BY <3>2, <3>3
  <2>2. CooldownAfter(e, f) \in {f.now + f.override, Never}
    BY <1>4 DEF CooldownAfter
  <2>3. QED
    BY <1>1, <2>1, <2>2 DEF Never, Time
<1>5. CASE f.override = NoOverride
  <2>1. CooldownAfter(e, f) \in {f.now + f.cfg.cooldown[f.kind], e.cooldownUntil}
    BY <1>5 DEF CooldownAfter, Greatest
  <2>2. QED
    BY <1>1, <1>2, <1>3, <2>1 DEF Time
<1>6. QED
  BY <1>4, <1>5

\* RecordFailure keeps an entry an entry.
LEMMA PenalisedType ==
    ASSUME NEW e \in Entry, NEW f \in Call
    PROVE  Penalised(e, f) \in Entry
<1>1. f.cfg \in Configs /\ f.kind \in Kinds /\ f.now \in Time
  BY DEF Call
<1>2. /\ f.cfg.penalty[f.kind] \in Int
      /\ f.cfg.scoreCap \in Nat /\ f.cfg.scoreCap <= ScoreCeiling
  BY <1>1, ConfigsAssumption DEF Tuning
<1>3. e.score \in Int /\ e.failures \in Nat
  BY DEF Entry, Scores
<1>4. ScoreCeiling \in Nat
  BY NumbersAssumption
<1>5. Greatest(e.score - f.cfg.penalty[f.kind], -f.cfg.scoreCap) \in Scores
  BY <1>2, <1>3, <1>4 DEF Greatest, Scores
<1>6. CooldownAfter(e, f) \in Time
  BY CooldownAfterBound
<1>7. QED
  BY <1>1, <1>3, <1>5, <1>6 DEF Penalised, Entry

\* Decay never carries a score across zero, so it leaves no cap it is in.
LEMMA DecayedTowardsZero ==
    ASSUME NEW s \in Int, NEW step \in Nat
    PROVE  /\ Decayed(s, step) \in Int
           /\ s > 0 => 0 <= Decayed(s, step) /\ Decayed(s, step) <= s
           /\ s <= 0 => s <= Decayed(s, step) /\ Decayed(s, step) <= 0
BY DEF Decayed, Greatest, Least

\* A missing entry is a zero one.
LEMMA AbsentType == Absent \in Entry
BY NumbersAssumption DEF Absent, Entry, Scores, Never, Time

----------------------------------------------------------------------------
(* Types *)

\* Every id of an installed pool is an upstream.
LEMMA PoolIdsType ==
    ASSUME NEW p \in Pools PROVE PoolIds(p) \subseteq Upstreams
<1>1. p.order \in Seq(Upstreams)
  BY PoolsAssumption
<1>2. \A i \in DOMAIN p.order : p.order[i] \in Upstreams
  BY <1>1
<1>3. QED
  BY <1>2 DEF PoolIds, Range

LEMMA SomeKindType == SomeKind \in Kinds
BY ConfigsAssumption DEF SomeKind

LEMMA InitType == SBInit => SBTypeOK
<1> SUFFICES ASSUME SBInit PROVE SBTypeOK
  OBVIOUS
<1> USE DEF SBInit
<1>1. clock \in Time /\ pool \in Pools /\ rules \in RuleSets /\ cfg \in Configs
  BY DEF Time
<1>2. entries \in [Pairs -> Entry]
  BY AbsentType
<1>3. /\ cascade \in [Hosts -> Time] /\ debounce \in [Keys -> Time]
      /\ pruning \in [now : Time, window : Nat]
  BY DEF Time, Never, NotPruning
<1>4. /\ forces \in [Hosts -> Pin \cup {NoPin}]
      /\ call \in [Callers -> Call \cup {NoCall}]
      /\ wipes \subseteq SUBSET Hosts /\ evicting \subseteq Hosts \X Time
  OBVIOUS
<1>5. QED
  BY <1>1, <1>2, <1>3, <1>4 DEF SBTypeOK

\* The two sections of RecordSuccess.
LEMMA SuccessType ==
    ASSUME SBTypeOK, NEW c \in Callers,
           \/ \E h \in Hosts, u \in Upstreams : BeginSuccess(c, h, u)
           \/ ApplySuccess(c)
    PROVE  SBTypeOK'
<1>1. CASE \E h \in Hosts, u \in Upstreams : BeginSuccess(c, h, u)
  <2>1. PICK h \in Hosts, u \in Upstreams : BeginSuccess(c, h, u)
    BY <1>1
  <2>2. [op |-> "succeeding", host |-> h, up |-> u, kind |-> SomeKind,
         override |-> NoOverride, now |-> clock, cfg |-> cfg] \in Call
    BY SomeKindType DEF Call, SBTypeOK
  <2>3. call' \in [Callers -> Call \cup {NoCall}]
    BY <2>1, <2>2 DEF BeginSuccess, SBTypeOK
  <2>4. QED
    BY <2>1, <2>3 DEF BeginSuccess, SBTypeOK, config_vars, half_vars
<1>2. CASE ApplySuccess(c)
  <2>1. call[c] \in Call /\ <<call[c].host, call[c].up>> \in Pairs
    BY <1>2 DEF ApplySuccess, SBTypeOK, Call, Pairs
  <2>2. Rewarded(entries[<<call[c].host, call[c].up>>], call[c].now) \in Entry
    BY <2>1, RewardedType DEF SBTypeOK, Call
  <2>3. entries' \in [Pairs -> Entry]
    BY <1>2, <2>1, <2>2 DEF ApplySuccess, SBTypeOK
  <2>4. cascade' \in [Hosts -> Time] /\ call' \in [Callers -> Call \cup {NoCall}]
    BY <1>2, <2>1 DEF ApplySuccess, SBTypeOK, Time, Never
  <2>5. QED
    BY <1>2, <2>3, <2>4 DEF ApplySuccess, SBTypeOK, config_vars, half_vars
<1>3. QED
  BY <1>1, <1>2

\* The sections of RecordFailure.
LEMMA FailureType ==
    ASSUME SBTypeOK, NEW c \in Callers,
           \/ \E h \in Hosts, u \in Upstreams, k \in Kinds,
                 o \in RetryAfters \cup {NoOverride} : BeginFailure(c, h, u, k, o)
           \/ DropFailure(c) \/ AcceptFailure(c) \/ ApplyFailure(c)
    PROVE  SBTypeOK'
<1>1. ASSUME NEW h \in Hosts, NEW u \in Upstreams, NEW k \in Kinds,
             NEW o \in RetryAfters \cup {NoOverride}, BeginFailure(c, h, u, k, o)
      PROVE  SBTypeOK'
  <2>1. [op |-> "failing", host |-> h, up |-> u, kind |-> k, override |-> o,
         now |-> clock, cfg |-> cfg] \in Call
    BY DEF Call, SBTypeOK
  <2>2. call' \in [Callers -> Call \cup {NoCall}]
    BY <1>1, <2>1 DEF BeginFailure, SBTypeOK
  <2>3. QED
    BY <1>1, <2>2 DEF BeginFailure, SBTypeOK, config_vars, half_vars
<1>2. CASE DropFailure(c)
  BY <1>2 DEF DropFailure, SBTypeOK, config_vars, half_vars
<1>3. CASE AcceptFailure(c)
  <2>1. call[c] \in Call /\ [call[c] EXCEPT !.op = "stamped"] \in Call
    BY <1>3 DEF AcceptFailure, SBTypeOK, Call
  <2>2. call' \in [Callers -> Call \cup {NoCall}]
    BY <1>3, <2>1 DEF AcceptFailure, SBTypeOK
  <2>3. <<call[c].host, call[c].up, call[c].kind>> \in Keys /\ call[c].now \in Time
    BY <2>1 DEF Call, Keys
  <2>4. debounce' \in [Keys -> Time]
    BY <1>3, <2>3 DEF AcceptFailure, SBTypeOK
  <2>5. QED
    BY <1>3, <2>2, <2>4 DEF AcceptFailure, SBTypeOK, config_vars, half_vars
<1>4. CASE ApplyFailure(c)
  <2>1. call[c] \in Call /\ <<call[c].host, call[c].up>> \in Pairs
    BY <1>4 DEF ApplyFailure, SBTypeOK, Call, Pairs
  <2>2. Penalised(entries[<<call[c].host, call[c].up>>], call[c]) \in Entry
    BY <2>1, PenalisedType DEF SBTypeOK
  <2>3. /\ entries' \in [Pairs -> Entry]
        /\ call' \in [Callers -> Call \cup {NoCall}]
    BY <1>4, <2>1, <2>2 DEF ApplyFailure, SBTypeOK
  <2>4. QED
    BY <1>4, <2>3 DEF ApplyFailure, SBTypeOK, config_vars, half_vars
<1>5. QED
  BY <1>1, <1>2, <1>3, <1>4

\* Cascade trips, decay and the clock.
LEMMA TimeType ==
    ASSUME SBTypeOK, Tick \/ DecayTick \/ \E h \in Hosts : TripCascade(h)
    PROVE  SBTypeOK'
<1>1. CASE Tick
  BY <1>1 DEF Tick, SBTypeOK, Time, config_vars, half_vars
<1>2. CASE DecayTick
  <2>1. cfg.decayStep \in Nat
    BY ConfigsAssumption DEF SBTypeOK, Tuning
  <2>2. ASSUME NEW p \in Pairs
        PROVE  [entries[p] EXCEPT !.score = Decayed(@, cfg.decayStep)] \in Entry
    <3>1. entries[p] \in Entry
      BY DEF SBTypeOK
    <3>2. entries[p].score \in Int /\ -ScoreCeiling <= entries[p].score /\ ScoreCeiling \in Nat
      BY <3>1, NumbersAssumption DEF Entry, Scores
    <3>3. Decayed(entries[p].score, cfg.decayStep) \in Scores
      <4>1. /\ Decayed(entries[p].score, cfg.decayStep) \in Int
            /\ \/ 0 <= Decayed(entries[p].score, cfg.decayStep)
               \/ entries[p].score <= Decayed(entries[p].score, cfg.decayStep)
        BY <2>1, <3>2, DecayedTowardsZero
      <4>2. QED
        BY <3>2, <4>1 DEF Scores
    <3>4. QED
      BY <3>1, <3>3 DEF Entry
  <2>3. entries' \in [Pairs -> Entry]
    BY <1>2, <2>2 DEF DecayTick
  <2>4. QED
    BY <1>2, <2>3 DEF DecayTick, SBTypeOK, config_vars, half_vars
<1>3. CASE \E h \in Hosts : TripCascade(h)
  <2>1. cfg.cascadeTTL \in Nat /\ clock + cfg.cascadeTTL \in Time
    BY ConfigsAssumption DEF SBTypeOK, Tuning, Time
  <2>2. cascade' \in [Hosts -> Time]
    BY <1>3, <2>1 DEF TripCascade, SBTypeOK
  <2>3. QED
    BY <1>3, <2>2 DEF TripCascade, SBTypeOK, config_vars, half_vars
<1>4. QED
  BY <1>1, <1>2, <1>3

\* An expired pin noticed under the read lock, by a reading of the clock that may
\* be a request's of a while ago.
NoticeExpiredPin(h, now) ==
    /\ now <= clock
    /\ evicting' = evicting \cup {<<h, now>>}
    /\ UNCHANGED <<clock, config_vars, entries, cascade, forces, debounce, call,
                   wipes, pruning>>

\* Force pins and their eviction.
LEMMA PinType ==
    ASSUME SBTypeOK, NEW h \in Hosts,
           \/ ClearPin(h) \/ \E now \in Time : NoticeExpiredPin(h, now)
           \/ \E u \in Upstreams, ttl \in PinTTLs : ForcePin(h, u, ttl)
           \/ \E now \in 1..MaxTime : EvictPin(h, now)
    PROVE  SBTypeOK'
<1>1. CASE ClearPin(h)
  BY <1>1 DEF ClearPin, SBTypeOK, config_vars, half_vars
<1>2. ASSUME NEW now \in Time, NoticeExpiredPin(h, now)
      PROVE  SBTypeOK'
  BY <1>2 DEF NoticeExpiredPin, SBTypeOK, config_vars
<1>3. ASSUME NEW u \in Upstreams, NEW ttl \in PinTTLs, ForcePin(h, u, ttl)
      PROVE  SBTypeOK'
  <2>1. [up |-> u, until |-> clock + ttl] \in Pin
    BY NumbersAssumption DEF Pin, Time, SBTypeOK
  <2>2. forces' \in [Hosts -> Pin \cup {NoPin}]
    BY <1>3, <2>1 DEF ForcePin, SBTypeOK
  <2>3. QED
    BY <1>3, <2>2 DEF ForcePin, SBTypeOK, config_vars, half_vars
<1>4. ASSUME NEW now \in 1..MaxTime, EvictPin(h, now)
      PROVE  SBTypeOK'
  BY <1>4 DEF EvictPin, SBTypeOK, config_vars
<1>5. QED
  BY <1>1, <1>2, <1>3, <1>4

\* Forget and Reset, both halves.
LEMMA WipeType ==
    ASSUME SBTypeOK,
           \/ ResetState \/ \E h \in Hosts : ForgetEntries(h)
           \/ \E hosts \in wipes : WipeDebounce(hosts)
    PROVE  SBTypeOK'
<1>1. CASE ResetState
  <2>1. /\ entries' \in [Pairs -> Entry] /\ cascade' \in [Hosts -> Time]
        /\ forces' \in [Hosts -> Pin \cup {NoPin}] /\ wipes' \subseteq SUBSET Hosts
    BY <1>1, AbsentType DEF ResetState, SBTypeOK, Time, Never
  <2>2. QED
    BY <1>1, <2>1 DEF ResetState, SBTypeOK, config_vars
<1>2. ASSUME NEW h \in Hosts, ForgetEntries(h)
      PROVE  SBTypeOK'
  <2>1. /\ entries' \in [Pairs -> Entry] /\ cascade' \in [Hosts -> Time]
        /\ wipes' \subseteq SUBSET Hosts
    BY <1>2, AbsentType DEF ForgetEntries, SBTypeOK, Time, Never
  <2>2. QED
    BY <1>2, <2>1 DEF ForgetEntries, SBTypeOK, config_vars
<1>3. ASSUME NEW hosts \in wipes, WipeDebounce(hosts)
      PROVE  SBTypeOK'
  <2>1. debounce' \in [Keys -> Time] /\ wipes' \subseteq SUBSET Hosts
    BY <1>3 DEF WipeDebounce, SBTypeOK, Time, Never
  <2>2. QED
    BY <1>3, <2>1 DEF WipeDebounce, SBTypeOK, config_vars
<1>4. QED
  BY <1>1, <1>2, <1>3

\* Hot reload.
LEMMA ReloadType ==
    ASSUME SBTypeOK,
           \/ \E p \in Pools : ReplacePool(p)
           \/ \E rs \in RuleSets : ReplaceRules(rs)
           \/ \E c \in Configs : Reload(c)
    PROVE  SBTypeOK'
<1>1. ASSUME NEW p \in Pools, ReplacePool(p)
      PROVE  SBTypeOK'
  <2>1. forces' \in [Hosts -> Pin \cup {NoPin}]
    BY <1>1 DEF ReplacePool, SBTypeOK
  <2>2. QED
    BY <1>1, <2>1 DEF ReplacePool, SBTypeOK, half_vars
<1>2. CASE \E rs \in RuleSets : ReplaceRules(rs)
  BY <1>2 DEF ReplaceRules, SBTypeOK, half_vars
<1>3. CASE \E c \in Configs : Reload(c)
  BY <1>3 DEF Reload, SBTypeOK, half_vars
<1>4. QED
  BY <1>1, <1>2, <1>3

\* Both halves of Prune.
LEMMA PruneType ==
    ASSUME SBTypeOK, PruneEntries \/ PruneDebounce
    PROVE  SBTypeOK'
<1>1. CASE PruneEntries
  <2>1. entries' \in [Pairs -> Entry] /\ cascade' \in [Hosts -> Time]
    BY <1>1, AbsentType DEF PruneEntries, SBTypeOK, Time, Never
  <2>2. cfg.debounceWindow \in Nat
    BY ConfigsAssumption DEF SBTypeOK, Tuning
  <2>3. pruning' \in [now : Time, window : Nat]
    BY <1>1, <2>2 DEF PruneEntries, SBTypeOK
  <2>4. QED
    BY <1>1, <2>1, <2>3 DEF PruneEntries, SBTypeOK, config_vars
<1>2. CASE PruneDebounce
  <2>1. debounce' \in [Keys -> Time] /\ pruning' \in [now : Time, window : Nat]
    BY <1>2 DEF PruneDebounce, SBTypeOK, Time, Never, NotPruning
  <2>2. QED
    BY <1>2, <2>1 DEF PruneDebounce, SBTypeOK, config_vars
<1>3. QED
  BY <1>1, <1>2

\* One critical section of anybody's: what SBNext, DialFor, plain-HTTP requests and
\* reloads have in common.  The theorems of this module are of all its behaviours.
AnySection ==
    \/ \E c \in Callers :
         \/ \E h \in Hosts, u \in Upstreams : BeginSuccess(c, h, u)
         \/ ApplySuccess(c)
         \/ \E h \in Hosts, u \in Upstreams, k \in Kinds,
               o \in RetryAfters \cup {NoOverride} : BeginFailure(c, h, u, k, o)
         \/ DropFailure(c) \/ AcceptFailure(c) \/ ApplyFailure(c)
    \/ Tick \/ DecayTick \/ \E h \in Hosts : TripCascade(h)
    \/ \E h \in Hosts :
         \/ ClearPin(h)
         \/ \E now \in Time : NoticeExpiredPin(h, now)
         \/ \E u \in Upstreams, ttl \in PinTTLs : ForcePin(h, u, ttl)
         \/ \E now \in 1..MaxTime : EvictPin(h, now)
    \/ ResetState \/ \E h \in Hosts : ForgetEntries(h)
    \/ \E hosts \in wipes : WipeDebounce(hosts)
    \/ \E p \in Pools : ReplacePool(p)
    \/ \E rs \in RuleSets : ReplaceRules(rs)
    \/ \E c \in Configs : Reload(c)
    \/ PruneEntries \/ PruneDebounce

AnySpec == SBInit /\ [][AnySection]_sbvars

LEMMA AdministrationIsSection ==
    ASSUME SBTypeOK, Administration PROVE AnySection
<1>1. clock \in Time /\ clock <= clock
  BY DEF SBTypeOK, Time
<1>2. ASSUME NEW h \in Hosts, SeeExpiredPin(h)
      PROVE  NoticeExpiredPin(h, clock)
  BY <1>1, <1>2 DEF SeeExpiredPin, NoticeExpiredPin
<1>3. QED
  BY <1>1, <1>2, Zenon DEF Administration, AnySection

LEMMA NextIsSection ==
    ASSUME SBTypeOK, SBNext PROVE AnySection
<1>1. PoolIds(pool) \subseteq Upstreams
  BY PoolIdsType DEF SBTypeOK
<1>2. CASE Outcome
  BY <1>1, <1>2 DEF Outcome, AnySection
<1>3. CASE Recording
  BY <1>3 DEF Recording, AnySection
<1>4. CASE Administration
  BY <1>4, AdministrationIsSection
<1>5. CASE \E h \in Hosts : TripCascade(h)
  BY <1>5 DEF AnySection
<1>6. QED
  BY <1>2, <1>3, <1>4, <1>5 DEF SBNext

LEMMA SectionType == SBTypeOK /\ [AnySection]_sbvars => SBTypeOK'
<1> SUFFICES ASSUME SBTypeOK, [AnySection]_sbvars PROVE SBTypeOK'
  OBVIOUS
<1>1. CASE AnySection
  BY <1>1, SuccessType, FailureType, TimeType, PinType, WipeType, ReloadType, PruneType
     DEF AnySection
<1>2. CASE UNCHANGED sbvars
  BY <1>2 DEF sbvars, config_vars, half_vars, SBTypeOK
<1>3. QED
  BY <1>1, <1>2

LEMMA TypeStep == SBTypeOK /\ [SBNext]_sbvars => SBTypeOK'
BY SectionType, NextIsSection

LEMMA SectionsTyped == AnySpec => []SBTypeOK
BY InitType, SectionType, PTL DEF AnySpec

\* The scoreboard never leaves its types: in particular every score stays
\* inside the cap, whatever mix of rewards, penalties, decay and reloads.
THEOREM SBTypeCorrect == SBSpec => []SBTypeOK
BY InitType, TypeStep, PTL DEF SBSpec

LEMMA SpecRunsSections == SBSpec => AnySpec
<1>1. SBTypeOK /\ [SBNext]_sbvars => [AnySection]_sbvars
  BY NextIsSection
<1>2. QED
  BY <1>1, SBTypeCorrect, PTL DEF SBSpec, AnySpec

----------------------------------------------------------------------------
(* Readings of the clock lie in the past *)

\* What a caller or an eviction carries over a lock boundary is a clock reading
\* that may be old, but never one from the future.
ReadingsInPast ==
    /\ \A c \in Callers : call[c] # NoCall => call[c].now <= clock
    /\ \A e \in evicting : e[2] <= clock

LEMMA InitReadings == SBInit => ReadingsInPast
BY DEF SBInit, ReadingsInPast

LEMMA ReadingsStep ==
    SBTypeOK /\ ReadingsInPast /\ [AnySection]_sbvars => ReadingsInPast'
<1> SUFFICES ASSUME SBTypeOK, ReadingsInPast, [AnySection]_sbvars
             PROVE  ReadingsInPast'
  OBVIOUS
<1>1. clock \in Nat
  BY DEF SBTypeOK, Time
<1>2. ASSUME NEW c \in Callers, NEW h \in Hosts, NEW u \in Upstreams, BeginSuccess(c, h, u)
      PROVE  ReadingsInPast'
  BY <1>1, <1>2 DEF BeginSuccess, ReadingsInPast, SBTypeOK, half_vars
<1>3. ASSUME NEW c \in Callers, NEW h \in Hosts, NEW u \in Upstreams, NEW k \in Kinds,
             NEW o \in RetryAfters \cup {NoOverride}, BeginFailure(c, h, u, k, o)
      PROVE  ReadingsInPast'
  BY <1>1, <1>3 DEF BeginFailure, ReadingsInPast, SBTypeOK, half_vars
<1>4. ASSUME NEW c \in Callers, ApplySuccess(c) \/ DropFailure(c) \/ ApplyFailure(c)
      PROVE  ReadingsInPast'
  BY <1>4 DEF ApplySuccess, DropFailure, ApplyFailure, ReadingsInPast, SBTypeOK, half_vars
<1>5. ASSUME NEW c \in Callers, AcceptFailure(c)
      PROVE  ReadingsInPast'
  <2>1. call[c] \in Call
    BY <1>5 DEF AcceptFailure, SBTypeOK
  <2>2. \A d \in Callers : call'[d] # NoCall => call[d] # NoCall /\ call'[d].now = call[d].now
    BY <1>5, <2>1 DEF AcceptFailure, SBTypeOK, Call
  <2>3. QED
    BY <1>5, <2>2 DEF AcceptFailure, ReadingsInPast, half_vars
<1>6. CASE Tick
  <2>1. \A c \in Callers : call[c] # NoCall => call[c].now \in Nat
    BY DEF SBTypeOK, Call, Time
  <2>2. \A e \in evicting : e[2] \in Nat
    BY DEF SBTypeOK, Time
  <2>3. QED
    BY <1>1, <1>6, <2>1, <2>2 DEF Tick, ReadingsInPast, half_vars
<1>7. ASSUME NEW h \in Hosts, \E now \in Time : NoticeExpiredPin(h, now)
      PROVE  ReadingsInPast'
  BY <1>1, <1>7 DEF NoticeExpiredPin, ReadingsInPast
<1>8. ASSUME NEW h \in Hosts, NEW now \in 1..MaxTime, EvictPin(h, now)
      PROVE  ReadingsInPast'
  BY <1>8 DEF EvictPin, ReadingsInPast
<1>9. CASE UNCHANGED <<clock, call, evicting>>
  BY <1>9 DEF ReadingsInPast
<1>10. CASE \/ DecayTick \/ PruneEntries \/ PruneDebounce \/ ResetState
            \/ \E h \in Hosts : TripCascade(h) \/ ForgetEntries(h) \/ ClearPin(h)
            \/ \E h \in Hosts, u \in Upstreams, ttl \in PinTTLs : ForcePin(h, u, ttl)
            \/ \E hosts \in wipes : WipeDebounce(hosts)
            \/ \E p \in Pools : ReplacePool(p)
            \/ \E rs \in RuleSets : ReplaceRules(rs)
            \/ \E c \in Configs : Reload(c)
  BY <1>9, <1>10 DEF DecayTick, PruneEntries, PruneDebounce, ResetState, TripCascade,
     ForgetEntries, ClearPin, ForcePin, WipeDebounce, ReplacePool, ReplaceRules, Reload,
     half_vars
<1>11. CASE AnySection
  BY <1>2, <1>3, <1>4, <1>5, <1>6, <1>7, <1>8, <1>10, <1>11
     DEF AnySection
<1>12. CASE UNCHANGED sbvars
  BY <1>9, <1>12 DEF sbvars, half_vars
<1>13. QED
  BY <1>11, <1>12

LEMMA ReadingsCorrect == AnySpec => [](SBTypeOK /\ ReadingsInPast)
<1>1. SBInit => SBTypeOK /\ ReadingsInPast
  BY InitType, InitReadings
<1>2. SBTypeOK /\ ReadingsInPast /\ [AnySection]_sbvars => (SBTypeOK /\ ReadingsInPast)'
  BY SectionType, ReadingsStep
<1>3. QED
  BY <1>1, <1>2, PTL DEF AnySpec

----------------------------------------------------------------------------
(* Pins *)

\* An eviction acts by a reading that is no later than now.
LEMMA SectionsSparePins == AnySpec => LivePinSurvivesEviction
<1>1. ASSUME SBTypeOK, ReadingsInPast, [AnySection]_sbvars, evicting' # evicting,
             NEW h \in Hosts, forces[h] # NoPin, forces[h].until > clock
      PROVE  forces'[h] = forces[h]
  <2>1. CASE \E g \in Hosts : \E now \in Time : NoticeExpiredPin(g, now)
    BY <2>1 DEF NoticeExpiredPin
  <2>2. ASSUME NEW g \in Hosts, NEW now \in 1..MaxTime, EvictPin(g, now)
        PROVE  forces'[h] = forces[h]
    <3>1. now <= clock
      BY <1>1, <2>2 DEF EvictPin, ReadingsInPast
    <3>2. forces[h].until \in Nat /\ clock \in Nat /\ now \in Nat
      BY <1>1, NumbersAssumption DEF SBTypeOK, Pin, Time
    <3>3. ~(forces[h].until <= now)
      BY <1>1, <3>1, <3>2
    <3>4. QED
      BY <2>2, <3>3 DEF EvictPin, SBTypeOK
  <2>3. CASE UNCHANGED evicting
    BY <1>1, <2>3
  <2>4. AnySection
    BY <1>1, <2>3, SMTT(30) DEF sbvars, half_vars
  <2>5. \/ \E g \in Hosts : \E now \in Time : NoticeExpiredPin(g, now)
        \/ \E g \in Hosts, now \in 1..MaxTime : EvictPin(g, now)
        \/ UNCHANGED evicting
    BY <1>1, <2>4 DEF AnySection, BeginSuccess, ApplySuccess, BeginFailure, DropFailure,
       AcceptFailure, ApplyFailure, Tick, DecayTick, TripCascade, ClearPin, ForcePin,
       ResetState, ForgetEntries, WipeDebounce, ReplacePool, ReplaceRules, Reload,
       PruneEntries, PruneDebounce, half_vars
  <2>6. QED
    BY <2>1, <2>2, <2>3, <2>5
<1>2. SBTypeOK /\ ReadingsInPast /\ [AnySection]_sbvars
        => (evicting' # evicting =>
              \A h \in Hosts : forces[h] # NoPin /\ forces[h].until > clock
                                   => forces'[h] = forces[h])
  BY <1>1
<1>3. QED
  BY <1>2, ReadingsCorrect, PTL DEF AnySpec, LivePinSurvivesEviction

\* pickForced, ForcedFor and ForceSnapshot evict under the write lock only
\* what has expired by a reading no later than now, so a pin installed in
\* between is safe.
THEOREM EvictionSparesLivePins == SBSpec => LivePinSurvivesEviction
BY SectionsSparePins, SpecRunsSections

\* Only Force adds a pin and only ReplacePool changes the pool.
LEMMA SectionsKeepPins == AnySpec => []PinsInPool
<1>1. SBInit => PinsInPool
  BY DEF SBInit, PinsInPool
<1>2. ASSUME SBTypeOK, PinsInPool, [AnySection]_sbvars
      PROVE  PinsInPool'
  <2>1. ASSUME NEW g \in Hosts, NEW u \in Upstreams, NEW ttl \in PinTTLs, ForcePin(g, u, ttl)
        PROVE  PinsInPool'
    BY <1>2, <2>1 DEF ForcePin, PinsInPool, SBTypeOK, config_vars
  <2>2. ASSUME NEW p \in Pools, ReplacePool(p)
        PROVE  PinsInPool'
    BY <1>2, <2>2 DEF ReplacePool, PinsInPool
  <2>3. ASSUME NEW g \in Hosts, ClearPin(g) \/ \E now \in 1..MaxTime : EvictPin(g, now)
        PROVE  PinsInPool'
    BY <1>2, <2>3 DEF ClearPin, EvictPin, PinsInPool, SBTypeOK, config_vars
  <2>4. CASE ResetState
    BY <1>2, <2>4 DEF ResetState, PinsInPool, config_vars
  <2>5. CASE UNCHANGED <<pool, forces>>
    BY <1>2, <2>5 DEF PinsInPool
  <2>6. CASE UNCHANGED sbvars
    BY <2>5, <2>6 DEF sbvars, config_vars
  <2>7. CASE AnySection
    <3>1. \/ \E g \in Hosts, u \in Upstreams, ttl \in PinTTLs : ForcePin(g, u, ttl)
          \/ \E p \in Pools : ReplacePool(p)
          \/ \E g \in Hosts : ClearPin(g) \/ \E now \in 1..MaxTime : EvictPin(g, now)
          \/ ResetState
          \/ UNCHANGED <<pool, forces>>
      BY <1>2, <2>7 DEF AnySection, BeginSuccess, ApplySuccess, BeginFailure,
         DropFailure, AcceptFailure, ApplyFailure, Tick, DecayTick, TripCascade,
         NoticeExpiredPin, ForgetEntries, WipeDebounce, ReplaceRules, Reload,
         PruneEntries, PruneDebounce, config_vars
    <3>2. QED
      BY <2>1, <2>2, <2>3, <2>4, <2>5, <3>1
  <2>8. QED
    BY <1>2, <2>6, <2>7
<1>3. QED
  BY <1>1, <1>2, SectionsTyped, PTL DEF AnySpec

\* Pins never name an upstream the live pool lacks: Force checks the pool,
\* ReplacePool drops the others in the step that installs the new pool, and
\* everything else only removes pins.
THEOREM PinsAlwaysInPool == SBSpec => []PinsInPool
BY SectionsKeepPins, SpecRunsSections

----------------------------------------------------------------------------
(* Cooldowns *)

\* Expiries only move when a call is applied, and then to a lockout after that
\* call's reading, or to nothing.
LEMMA SectionsBoundLockout == AnySpec => []BoundedLockout
<1> DEFINE Bounded(e) == \/ e.cooldownUntil = Never
                        \/ \E d \in Lockouts : e.cooldownUntil <= clock + d
<1>1. SBInit => BoundedLockout
  BY DEF SBInit, BoundedLockout, Absent
<1>2. ASSUME SBTypeOK, ReadingsInPast, BoundedLockout, [AnySection]_sbvars
      PROVE  BoundedLockout'
  <2>1. clock \in Nat /\ Lockouts \subseteq Nat
    BY <1>2, NumbersAssumption, LockoutsType DEF SBTypeOK, Time
  <2>2. \A p \in Pairs : entries[p] \in Entry /\ entries[p].cooldownUntil \in Nat
    BY <1>2 DEF SBTypeOK, Entry, Time
  <2>3. \A p \in Pairs : Bounded(entries[p])
    BY <1>2 DEF BoundedLockout
  <2>4. ASSUME clock' = clock,
               \A p \in Pairs : \/ entries'[p].cooldownUntil = Never
                                \/ entries'[p].cooldownUntil = entries[p].cooldownUntil
        PROVE  BoundedLockout'
    BY <2>3, <2>4 DEF BoundedLockout, Lockouts
  <2>5. ASSUME NEW c \in Callers, ApplySuccess(c)
        PROVE  BoundedLockout'
    <3>1. \A p \in Pairs : \/ entries'[p].cooldownUntil = Never
                           \/ entries'[p] = entries[p]
      BY <1>2, <2>2, <2>5 DEF ApplySuccess, Rewarded, SBTypeOK, Entry
    <3>2. QED
      BY <2>4, <2>5, <3>1 DEF ApplySuccess
  <2>6. ASSUME NEW c \in Callers, ApplyFailure(c)
        PROVE  BoundedLockout'
    <3>1. call[c] \in Call /\ <<call[c].host, call[c].up>> \in Pairs
      BY <1>2, <2>6 DEF ApplyFailure, SBTypeOK, Call, Pairs
    <3>2. call[c].now \in Nat /\ call[c].now <= clock
      BY <1>2, <2>6, <3>1 DEF ApplyFailure, ReadingsInPast, Call, Time
    <3>3. DEFINE e == entries[<<call[c].host, call[c].up>>]
                 until == CooldownAfter(e, call[c])
    <3>4. until = Never \/ \E d \in Lockouts : until <= clock + d
      <4>1. e \in Entry /\ Bounded(e)
        BY <2>2, <2>3, <3>1
      <4>2. \/ until = e.cooldownUntil \/ until = Never
            \/ \E d \in Lockouts : until = call[c].now + d
        BY <3>1, <4>1, CooldownAfterBound
      <4>3. ASSUME NEW d \in Lockouts, until = call[c].now + d
            PROVE  until <= clock + d
        <5>1. d \in Nat
          BY <2>1
        <5> HIDE DEF until
        <5>2. QED
          BY <2>1, <3>2, <4>3, <5>1
      <4>4. QED
        BY <4>1, <4>2, <4>3
    <3>5. \A p \in Pairs : \/ entries'[p].cooldownUntil = until
                           \/ entries'[p] = entries[p]
      BY <1>2, <2>6, <3>1 DEF ApplyFailure, Penalised, SBTypeOK
    <3>6. clock' = clock
      BY <2>6 DEF ApplyFailure
    <3> HIDE DEF until
    <3>7. QED
      BY <2>3, <3>4, <3>5, <3>6 DEF BoundedLockout, Lockouts
  <2>7. CASE DecayTick
    BY <2>2, <2>4, <2>7 DEF DecayTick, Entry
  <2>8. CASE Tick
    <3>1. clock' = clock + 1 /\ entries' = entries
      BY <2>8 DEF Tick
    <3>2. ASSUME NEW p \in Pairs, entries[p].cooldownUntil # Never
          PROVE  \E d \in Lockouts : entries[p].cooldownUntil <= clock + 1 + d
      <4>1. PICK d \in Lockouts : entries[p].cooldownUntil <= clock + d
        BY <2>3, <3>2
      <4>2. entries[p].cooldownUntil <= clock + 1 + d
        BY <2>1, <2>2, <4>1
      <4>3. QED
        BY <4>2
    <3>3. QED
      BY <3>1, <3>2 DEF BoundedLockout, Lockouts
  <2>9. ASSUME \/ ResetState \/ PruneEntries \/ \E h \in Hosts : ForgetEntries(h)
        PROVE  BoundedLockout'
    <3>1. \A p \in Pairs : entries'[p] = Absent \/ entries'[p] = entries[p]
      BY <2>9 DEF ResetState, PruneEntries, ForgetEntries
    <3>2. clock' = clock
      BY <2>9 DEF ResetState, PruneEntries, ForgetEntries
    <3>3. QED
      BY <2>4, <3>1, <3>2 DEF Absent
  <2>10. CASE UNCHANGED <<clock, entries>>
    BY <2>4, <2>10
  <2>11. CASE UNCHANGED sbvars
    BY <2>10, <2>11 DEF sbvars
  <2>12. CASE AnySection
    <3>1. \/ \E c \in Callers : ApplySuccess(c) \/ ApplyFailure(c)
          \/ \E h \in Hosts : ForgetEntries(h)
          \/ DecayTick \/ Tick \/ ResetState \/ PruneEntries
          \/ UNCHANGED <<clock, entries>>
      BY <1>2, <2>12 DEF AnySection, BeginSuccess, BeginFailure, DropFailure,
         AcceptFailure, TripCascade, NoticeExpiredPin, EvictPin, ClearPin, ForcePin,
         WipeDebounce, ReplacePool, ReplaceRules, Reload, PruneDebounce
    <3>2. QED
      BY <2>5, <2>6, <2>7, <2>8, <2>9, <2>10, <3>1
  <2>13. QED
    BY <1>2, <2>11, <2>12
<1>3. QED
  BY <1>1, <1>2, ReadingsCorrect, PTL DEF AnySpec

\* RecordFailure: no pair sits out longer from now than one configured cooldown
\* or one Retry-After asks for, however many callers report about it and however
\* late: a penalty counts from the reading it carries, which is in the past, and
\* none is added to what is there.
THEOREM LockoutBounded == SBSpec => []BoundedLockout
BY SectionsBoundLockout, SpecRunsSections

----------------------------------------------------------------------------
(* Failures pay for what a score has lost *)

Accounted(e) ==
    /\ -e.score <= PenaltyCeiling * e.failures
    /\ e.score <= ScoreCeiling + LiftCeiling * e.failures
    /\ e.cooldownUntil # Never => e.failures > 0

\* One more failure buys one more penalty, or one more lift.
LEMMA PenalisedAccounted ==
    ASSUME NEW e \in Entry, Accounted(e), NEW f \in Call
    PROVE  Accounted(Penalised(e, f))
<1>1. f.cfg \in Configs /\ f.kind \in Kinds
  BY DEF Call
<1> DEFINE penalty == f.cfg.penalty[f.kind]
           P == PenaltyCeiling * e.failures
           L == LiftCeiling * e.failures
           s == Greatest(e.score - penalty, -f.cfg.scoreCap)
<1>2. /\ penalty \in Int /\ -LiftCeiling <= penalty /\ penalty <= PenaltyCeiling
      /\ f.cfg.scoreCap \in Nat /\ ScoreCeiling \in Nat
      /\ PenaltyCeiling \in Nat /\ LiftCeiling \in Nat
  BY <1>1, ConfigsAssumption, NumbersAssumption DEF Tuning
<1>3. e.score \in Int /\ e.failures \in Nat
  BY DEF Entry, Scores
<1>4. /\ PenaltyCeiling * (e.failures + 1) = P + PenaltyCeiling
      /\ LiftCeiling * (e.failures + 1) = L + LiftCeiling
  BY <1>2, <1>3
<1>5. P \in Nat /\ L \in Nat
  BY <1>2, <1>3
<1>6. -e.score <= P /\ e.score <= ScoreCeiling + L
  BY DEF Accounted
<1>7. /\ Penalised(e, f).score = s
      /\ Penalised(e, f).failures = e.failures + 1
  BY DEF Penalised
<1>8. -s <= P + PenaltyCeiling /\ s <= ScoreCeiling + L + LiftCeiling
  <2>1. s \in {e.score - penalty, -f.cfg.scoreCap} /\ s >= e.score - penalty
    BY <1>2, <1>3 DEF Greatest
  <2> HIDE DEF penalty, P, L, s
  <2>2. QED
    BY <1>2, <1>3, <1>5, <1>6, <2>1
<1>9. ScoreCeiling + (L + LiftCeiling) = ScoreCeiling + L + LiftCeiling
  <2> HIDE DEF L
  <2>1. QED
    BY <1>2, <1>5
<1> HIDE DEF P, L, s
<1>10. QED
  BY <1>3, <1>4, <1>7, <1>8, <1>9 DEF Accounted

LEMMA RewardedAccounted ==
    ASSUME NEW e \in Entry, Accounted(e), NEW now \in Time, cfg \in Configs
    PROVE  Accounted(Rewarded(e, now))
<1>1. /\ cfg.scoreCap \in Nat /\ cfg.successWeight \in Nat /\ cfg.scoreCap <= ScoreCeiling
      /\ PenaltyCeiling \in Nat /\ LiftCeiling \in Nat /\ ScoreCeiling \in Nat
  BY ConfigsAssumption, NumbersAssumption DEF Tuning
<1>2. e.score \in Int /\ e.failures \in Nat
  BY DEF Entry, Scores
<1>3. PenaltyCeiling * e.failures \in Nat /\ LiftCeiling * e.failures \in Nat
  BY <1>1, <1>2
<1>4. DEFINE s == Least(e.score + cfg.successWeight, cfg.scoreCap)
<1>5. s \in Int /\ (s >= e.score \/ s >= 0) /\ s <= cfg.scoreCap
  BY <1>1, <1>2 DEF Least
<1>6. -s <= PenaltyCeiling * e.failures
  BY <1>2, <1>3, <1>5 DEF Accounted
<1>7. s <= ScoreCeiling + LiftCeiling * e.failures
  <2> HIDE DEF s
  <2>1. QED
    BY <1>1, <1>3, <1>5
<1>8. /\ Rewarded(e, now).score = s /\ Rewarded(e, now).failures = e.failures
      /\ Rewarded(e, now).cooldownUntil = Never
  BY DEF Rewarded, Entry
<1>9. QED
  BY <1>6, <1>7, <1>8 DEF Accounted

LEMMA DecayedAccounted ==
    ASSUME NEW e \in Entry, Accounted(e), NEW step \in Nat
    PROVE  Accounted([e EXCEPT !.score = Decayed(@, step)])
<1>1. /\ e.score \in Int /\ e.failures \in Nat
      /\ PenaltyCeiling \in Nat /\ LiftCeiling \in Nat /\ ScoreCeiling \in Nat
  BY NumbersAssumption DEF Entry, Scores
<1>2. PenaltyCeiling * e.failures \in Nat /\ LiftCeiling * e.failures \in Nat
  BY <1>1
<1> DEFINE s == Decayed(e.score, step)
<1>3. /\ s \in Int
      /\ s >= e.score \/ s >= 0
      /\ s <= e.score \/ s <= 0
  BY <1>1, DecayedTowardsZero
<1>4. -s <= PenaltyCeiling * e.failures /\ s <= ScoreCeiling + LiftCeiling * e.failures
  <2>1. /\ -e.score <= PenaltyCeiling * e.failures
        /\ e.score <= ScoreCeiling + LiftCeiling * e.failures
    BY DEF Accounted
  <2> HIDE DEF s
  <2>2. QED
    BY <1>1, <1>2, <1>3, <2>1
<1>5. QED
  BY <1>4 DEF Accounted, Entry

LEMMA AbsentAccounted == Accounted(Absent)
<1>1. PenaltyCeiling * 0 = 0 /\ LiftCeiling * 0 = 0 /\ ScoreCeiling \in Nat
  BY NumbersAssumption
<1>2. QED
  BY <1>1 DEF Accounted, Absent, Never

\* Every section keeps every entry covered.
LEMMA SectionsCountFailures == AnySpec => []FailuresAccountForScore
<1> DEFINE Inv == \A p \in Pairs : Accounted(entries[p])
<1>1. SBInit => Inv
  BY AbsentAccounted DEF SBInit
<1>2. ASSUME SBTypeOK, Inv, [AnySection]_sbvars
      PROVE  Inv'
  <2>1. \A p \in Pairs : entries[p] \in Entry
    BY <1>2 DEF SBTypeOK
  <2>2. ASSUME NEW c \in Callers, ApplySuccess(c)
        PROVE  Inv'
    <3>1. call[c] \in Call /\ <<call[c].host, call[c].up>> \in Pairs
      BY <1>2, <2>2 DEF ApplySuccess, SBTypeOK, Call, Pairs
    <3>2. Accounted(Rewarded(entries[<<call[c].host, call[c].up>>], call[c].now))
      BY <1>2, <2>1, <3>1, RewardedAccounted DEF SBTypeOK, Call
    <3>3. \A p \in Pairs :
             \/ entries'[p] = Rewarded(entries[<<call[c].host, call[c].up>>], call[c].now)
             \/ entries'[p] = entries[p]
      BY <1>2, <2>2, <3>1 DEF ApplySuccess, SBTypeOK
    <3>4. QED
      BY <1>2, <3>2, <3>3 DEF Accounted
  <2>3. ASSUME NEW c \in Callers, ApplyFailure(c)
        PROVE  Inv'
    <3>1. call[c] \in Call /\ <<call[c].host, call[c].up>> \in Pairs
      BY <1>2, <2>3 DEF ApplyFailure, SBTypeOK, Call, Pairs
    <3>2. Accounted(Penalised(entries[<<call[c].host, call[c].up>>], call[c]))
      BY <1>2, <2>1, <3>1, PenalisedAccounted
    <3>3. \A p \in Pairs :
             \/ entries'[p] = Penalised(entries[<<call[c].host, call[c].up>>], call[c])
             \/ entries'[p] = entries[p]
      BY <1>2, <2>3, <3>1 DEF ApplyFailure, SBTypeOK
    <3>4. QED
      BY <1>2, <3>2, <3>3 DEF Accounted
  <2>4. CASE DecayTick
    <3>1. cfg.decayStep \in Nat
      BY <1>2, ConfigsAssumption DEF SBTypeOK, Tuning
    <3>2. QED
      BY <1>2, <2>1, <2>4, <3>1, DecayedAccounted DEF DecayTick, Accounted
  <2>5. ASSUME ResetState \/ PruneEntries \/ \E h \in Hosts : ForgetEntries(h)
        PROVE  Inv'
    <3>1. \A p \in Pairs : entries'[p] = Absent \/ entries'[p] = entries[p]
      BY <2>5 DEF ResetState, PruneEntries, ForgetEntries
    <3>2. QED
      BY <1>2, <3>1, AbsentAccounted DEF Accounted
  <2>6. CASE UNCHANGED entries
    BY <1>2, <2>6 DEF Accounted
  <2>7. CASE AnySection
    <3>1. \/ \E c \in Callers : ApplySuccess(c) \/ ApplyFailure(c)
          \/ DecayTick \/ ResetState \/ PruneEntries
          \/ \E h \in Hosts : ForgetEntries(h)
          \/ UNCHANGED entries
      BY <1>2, <2>7 DEF AnySection, BeginSuccess, BeginFailure, DropFailure,
         AcceptFailure, Tick, TripCascade, NoticeExpiredPin, EvictPin, ClearPin, ForcePin,
         WipeDebounce, ReplacePool, ReplaceRules, Reload, PruneDebounce
    <3>2. QED
      BY <2>2, <2>3, <2>4, <2>5, <2>6, <3>1
  <2>8. QED
    BY <1>2, <2>6, <2>7 DEF sbvars
<1>3. SBTypeOK /\ Inv => FailuresAccountForScore
  BY DEF Accounted, FailuresAccountForScore
<1>4. QED
  BY <1>1, <1>2, <1>3, SectionsTyped, PTL DEF AnySpec

\* Whatever Forget, Reset, Prune, decay and in-flight penalties do, a score below
\* zero or above the cap is covered by counted failures, and only a counted
\* failure cools.
THEOREM FailuresCounted == SBSpec => []FailuresAccountForScore
BY SectionsCountFailures, SpecRunsSections

----------------------------------------------------------------------------
(* Recent readings *)

\* No Record* call holds a reading older than MaxStall ticks.
ReadingsRecent == \A c \in Callers : call[c] # NoCall => clock <= call[c].now + MaxStall

LEMMA RecentStep ==
    SBTypeOK /\ ReadingsRecent /\ [AnySection]_sbvars => ReadingsRecent'
<1> SUFFICES ASSUME SBTypeOK, ReadingsRecent, [AnySection]_sbvars
             PROVE  ReadingsRecent'
  OBVIOUS
<1>1. clock \in Nat /\ MaxStall \in Nat
  BY NumbersAssumption DEF SBTypeOK, Time
<1>2. ASSUME NEW c \in Callers, NEW h \in Hosts, NEW u \in Upstreams, BeginSuccess(c, h, u)
      PROVE  ReadingsRecent'
  BY <1>1, <1>2 DEF BeginSuccess, ReadingsRecent, SBTypeOK
<1>3. ASSUME NEW c \in Callers, NEW h \in Hosts, NEW u \in Upstreams, NEW k \in Kinds,
             NEW o \in RetryAfters \cup {NoOverride}, BeginFailure(c, h, u, k, o)
      PROVE  ReadingsRecent'
  BY <1>1, <1>3 DEF BeginFailure, ReadingsRecent, SBTypeOK
<1>4. ASSUME NEW c \in Callers, ApplySuccess(c) \/ DropFailure(c) \/ ApplyFailure(c)
      PROVE  ReadingsRecent'
  BY <1>4 DEF ApplySuccess, DropFailure, ApplyFailure, ReadingsRecent, SBTypeOK
<1>5. ASSUME NEW c \in Callers, AcceptFailure(c)
      PROVE  ReadingsRecent'
  <2>1. call[c] \in Call
    BY <1>5 DEF AcceptFailure, SBTypeOK
  <2>2. \A d \in Callers : call'[d] # NoCall => call[d] # NoCall /\ call'[d].now = call[d].now
    BY <1>5, <2>1 DEF AcceptFailure, SBTypeOK, Call
  <2>3. QED
    BY <1>5, <2>2 DEF AcceptFailure, ReadingsRecent
<1>6. CASE Tick
  <2>1. \A c \in Callers : call[c] # NoCall => call[c].now \in Nat
    BY DEF SBTypeOK, Call, Time
  <2>2. QED
    BY <1>1, <1>6, <2>1 DEF Tick, ReadingsRecent
<1>7. CASE UNCHANGED <<clock, call>>
  BY <1>7 DEF ReadingsRecent
<1>8. CASE AnySection
  <2>1. \/ \E c \in Callers :
             \/ \E h \in Hosts, u \in Upstreams : BeginSuccess(c, h, u)
             \/ \E h \in Hosts, u \in Upstreams, k \in Kinds,
                   o \in RetryAfters \cup {NoOverride} : BeginFailure(c, h, u, k, o)
             \/ ApplySuccess(c) \/ DropFailure(c) \/ ApplyFailure(c)
             \/ AcceptFailure(c)
        \/ Tick
        \/ UNCHANGED <<clock, call>>
    BY <1>8 DEF AnySection, DecayTick, TripCascade, ClearPin, NoticeExpiredPin, ForcePin,
       EvictPin, ResetState, ForgetEntries, WipeDebounce, ReplacePool, ReplaceRules,
       Reload, PruneEntries, PruneDebounce
  <2>2. QED
    BY <1>2, <1>3, <1>4, <1>5, <1>6, <1>7, <2>1
<1>9. CASE UNCHANGED sbvars
  BY <1>7, <1>9 DEF sbvars
<1>10. QED
  BY <1>8, <1>9

LEMMA RecentCorrect == AnySpec => [](SBTypeOK /\ ReadingsInPast /\ ReadingsRecent)
<1>1. SBInit => ReadingsRecent
  BY DEF SBInit, ReadingsRecent
<1>2. QED
  BY <1>1, RecentStep, ReadingsCorrect, PTL DEF AnySpec

----------------------------------------------------------------------------
(* Prune and Pick *)

\* A penalty applied late may move lastSeen backwards, by no more than the stall
\* of the call that carries it; the cooldown it leaves in place ends one lockout
\* from the present at the latest.
CooldownsNearSightings ==
    \A p \in Pairs :
       \/ entries[p].cooldownUntil = Never
       \/ \E d \in Lockouts : entries[p].cooldownUntil <= entries[p].lastSeen + d + MaxStall

LEMMA SightingsStep ==
    ASSUME SBTypeOK, ReadingsInPast, ReadingsRecent, BoundedLockout, BoundedLockout',
           CooldownsNearSightings, [AnySection]_sbvars
    PROVE  CooldownsNearSightings'
<1> DEFINE Near(e) ==
      \/ e.cooldownUntil = Never
      \/ \E d \in Lockouts : e.cooldownUntil <= e.lastSeen + d + MaxStall
<1>0. /\ CooldownsNearSightings <=> \A p \in Pairs : Near(entries[p])
      /\ CooldownsNearSightings' <=> \A p \in Pairs : Near(entries'[p])
  BY DEF CooldownsNearSightings, Lockouts
<1> HIDE DEF Near
<1>1. clock \in Nat /\ Lockouts \subseteq Nat /\ MaxStall \in Nat
  BY NumbersAssumption, LockoutsType DEF SBTypeOK, Time
<1>2. \A p \in Pairs : /\ entries[p] \in Entry
                       /\ entries[p].cooldownUntil \in Nat /\ entries[p].lastSeen \in Nat
  BY DEF SBTypeOK, Entry, Time
<1>3. ASSUME NEW c \in Callers, ApplySuccess(c)
      PROVE  CooldownsNearSightings'
  <2>1. call[c] \in Call /\ call[c].now \in Nat
    BY <1>3 DEF ApplySuccess, SBTypeOK, Call, Time
  <2>2. \A p \in Pairs : \/ entries'[p].cooldownUntil = Never
                         \/ entries'[p] = entries[p]
    BY <1>2, <1>3 DEF ApplySuccess, Rewarded, SBTypeOK, Entry
  <2>3. QED
    BY <1>0, <2>1, <2>2 DEF Near
<1>4. ASSUME NEW c \in Callers, ApplyFailure(c)
      PROVE  CooldownsNearSightings'
  <2>1. call[c] \in Call /\ call[c].now \in Nat /\ clock <= call[c].now + MaxStall
    BY <1>4 DEF ApplyFailure, SBTypeOK, Call, Time, ReadingsRecent
  <2>2. \A p \in Pairs : \/ entries'[p].lastSeen = call[c].now
                         \/ entries'[p] = entries[p]
    BY <1>4 DEF ApplyFailure, Penalised, SBTypeOK
  <2>3. entries' \in [Pairs -> Entry]
    BY <1>4, SectionType DEF SBTypeOK
  <2>4. \A p \in Pairs : \/ entries'[p].cooldownUntil = Never
                         \/ \E d \in Lockouts : entries'[p].cooldownUntil <= clock + d
    BY <1>4 DEF ApplyFailure, BoundedLockout, Lockouts
  <2>5. ASSUME NEW p \in Pairs, entries'[p].lastSeen = call[c].now
        PROVE  Near(entries'[p])
    <3>1. CASE entries'[p].cooldownUntil = Never
      BY <3>1 DEF Near
    <3>2. CASE entries'[p].cooldownUntil # Never
      <4>1. PICK d \in Lockouts : entries'[p].cooldownUntil <= clock + d
        BY <2>4, <3>2
      <4>2. entries'[p].cooldownUntil \in Nat /\ d \in Nat
        BY <1>1, <2>3 DEF Entry, Time
      <4>3. entries'[p].cooldownUntil <= entries'[p].lastSeen + d + MaxStall
        BY <1>1, <2>1, <2>5, <4>1, <4>2
      <4>4. QED
        BY <4>3 DEF Near
    <3>3. QED
      BY <3>1, <3>2
  <2>6. QED
    BY <1>0, <2>2, <2>5
<1>5. CASE DecayTick
  <2>1. \A p \in Pairs : /\ entries'[p].cooldownUntil = entries[p].cooldownUntil
                         /\ entries'[p].lastSeen = entries[p].lastSeen
    BY <1>2, <1>5 DEF DecayTick, Entry
  <2>2. QED
    BY <1>0, <2>1 DEF Near
<1>6. ASSUME ResetState \/ PruneEntries \/ \E h \in Hosts : ForgetEntries(h)
      PROVE  CooldownsNearSightings'
  <2>1. \A p \in Pairs : entries'[p] = Absent \/ entries'[p] = entries[p]
    BY <1>6 DEF ResetState, PruneEntries, ForgetEntries
  <2>2. Near(Absent)
    BY DEF Absent, Near
  <2>3. QED
    BY <1>0, <2>1, <2>2
<1>7. CASE UNCHANGED entries
  BY <1>0, <1>7
<1>8. CASE AnySection
  <2>1. \/ \E c \in Callers : ApplySuccess(c) \/ ApplyFailure(c)
        \/ DecayTick \/ ResetState \/ PruneEntries \/ \E h \in Hosts : ForgetEntries(h)
        \/ UNCHANGED entries
    BY <1>8 DEF AnySection, BeginSuccess, BeginFailure, DropFailure, AcceptFailure, Tick,
       TripCascade, NoticeExpiredPin, EvictPin, ClearPin, ForcePin, WipeDebounce,
       ReplacePool, ReplaceRules, Reload, PruneDebounce
  <2>2. QED
    BY <1>3, <1>4, <1>5, <1>6, <1>7, <2>1
<1>9. QED
  BY <1>7, <1>8 DEF sbvars

\* Two tables in which every pair has the same score and is cooled or not alike,
\* with the same expiry if it is, give the same picks.
LEMMA SamePicks ==
    ASSUME SBTypeOK, NEW h \in Hosts, NEW tried \in SUBSET Upstreams,
           UNCHANGED <<clock, config_vars>>,
           \A u \in Upstreams :
              /\ entries'[<<h, u>>].score = entries[<<h, u>>].score
              /\ \/ entries'[<<h, u>>].cooldownUntil = entries[<<h, u>>].cooldownUntil
                 \/ ~Cooled(h, u, clock) /\ ~Cooled(h, u, clock)'
    PROVE  ScoredPicks(h, tried, clock)' = ScoredPicks(h, tried, clock)
<1>1. UNCHANGED <<pool, rules, cfg>>
  BY DEF config_vars
<1>2. PoolIds(pool) \subseteq Upstreams
  BY PoolIdsType DEF SBTypeOK
<1>3. /\ \A u : PreferRank(h, u)' = PreferRank(h, u) /\ PoolIndex(u)' = PoolIndex(u)
      /\ Candidates(h, tried)' = Candidates(h, tried)
      /\ Candidates(h, tried) \subseteq Upstreams
  BY <1>1, <1>2 DEF PreferRank, PoolIndex, Candidates
<1>4. \A u \in Upstreams : Cooled(h, u, clock)' <=> Cooled(h, u, clock)
  BY DEF Cooled
<1>5. \A u, v \in Upstreams : Outranks(h, u, v)' <=> Outranks(h, u, v)
  BY <1>3 DEF Outranks
<1> DEFINE eligible == {u \in Candidates(h, tried) : ~Cooled(h, u, clock)}
<1>6. {u \in Candidates(h, tried)' : ~Cooled(h, u, clock)'} = eligible
  BY <1>3, <1>4
<1>7. CASE eligible = {}
  <2>1. \A u \in Candidates(h, tried) :
           entries'[<<h, u>>].cooldownUntil = entries[<<h, u>>].cooldownUntil
    BY <1>3, <1>7
  <2>2. QED
    BY <1>3, <1>6, <1>7, <2>1 DEF ScoredPicks
<1>8. CASE eligible # {}
  BY <1>1, <1>3, <1>5, <1>6, <1>8 DEF ScoredPicks
<1>9. QED
  BY <1>7, <1>8

\* An entry Prune drops has a cooldown that is over: nothing is missed by a Pick.
LEMMA SectionsPruneUnseen ==
    ASSUME \A c \in Configs : c.pruneAfter > 0
                                => \A d \in Lockouts : d + MaxStall <= c.pruneAfter + 1
    PROVE  AnySpec => PruneKeepsRouting
<1>1. ASSUME SBTypeOK, CooldownsNearSightings, [AnySection]_sbvars, pruning' # pruning,
             NEW h \in Hosts, NEW tried \in SUBSET Upstreams
      PROVE  ScoredPicks(h, tried, clock)' = ScoredPicks(h, tried, clock)
  <2>1. clock \in Nat /\ Lockouts \subseteq Nat /\ MaxStall \in Nat
    BY <1>1, NumbersAssumption, LockoutsType DEF SBTypeOK, Time
  <2>2. \A p \in Pairs : /\ entries[p] \in Entry
                         /\ entries[p].cooldownUntil \in Nat /\ entries[p].lastSeen \in Nat
    BY <1>1 DEF SBTypeOK, Entry, Time
  <2>3. ASSUME PruneEntries, NEW u \in Upstreams
        PROVE  /\ entries'[<<h, u>>].score = entries[<<h, u>>].score
               /\ \/ entries'[<<h, u>>].cooldownUntil = entries[<<h, u>>].cooldownUntil
                  \/ ~Cooled(h, u, clock) /\ ~Cooled(h, u, clock)'
    <3> DEFINE p == <<h, u>>
    <3>1. p \in Pairs
      BY DEF Pairs
    <3>2. CASE Prunable(entries[p], clock)
      <4>1. entries'[p] = Absent /\ clock' = clock
        BY <2>3, <3>1, <3>2 DEF PruneEntries
      <4>2. cfg \in Configs /\ cfg.pruneAfter \in Nat
        BY <1>1, ConfigsAssumption DEF SBTypeOK, Tuning
      <4>3. entries[p].cooldownUntil <= clock
        <5>1. CASE entries[p].cooldownUntil = Never
          BY <2>1, <5>1 DEF Never
        <5>2. CASE entries[p].cooldownUntil # Never
          <6>1. PICK d \in Lockouts :
                  entries[p].cooldownUntil <= entries[p].lastSeen + d + MaxStall
            BY <1>1, <3>1, <5>2 DEF CooldownsNearSightings
          <6>2. d \in Nat /\ d + MaxStall <= cfg.pruneAfter + 1
            BY <2>1, <3>2, <4>2 DEF Prunable
          <6>3. clock - entries[p].lastSeen > cfg.pruneAfter
            BY <3>2 DEF Prunable
          <6>4. entries[p].cooldownUntil \in Nat /\ entries[p].lastSeen \in Nat
            BY <2>2, <3>1
          <6> HIDE DEF p
          <6>5. QED
            BY <2>1, <4>2, <6>1, <6>2, <6>3, <6>4
        <5>3. QED
          BY <5>1, <5>2
      <4>4. ~Cooled(h, u, clock) /\ ~Cooled(h, u, clock)'
        BY <2>1, <2>2, <3>1, <4>1, <4>3 DEF Cooled, Absent, Never
      <4>5. QED
        BY <3>2, <4>1, <4>4 DEF Prunable, Absent
    <3>3. CASE ~Prunable(entries[p], clock)
      BY <2>3, <3>1, <3>3 DEF PruneEntries
    <3>4. QED
      BY <3>2, <3>3
  <2>4. CASE PruneEntries
    <3>1. UNCHANGED <<clock, config_vars>>
      BY <2>4 DEF PruneEntries
    <3>2. QED
      BY <1>1, <2>3, <2>4, <3>1, SamePicks
  <2>5. CASE PruneDebounce
    <3>1. UNCHANGED <<clock, config_vars, entries>>
      BY <2>5 DEF PruneDebounce
    <3>2. QED
      BY <1>1, <3>1, SamePicks, SMTT(30)
  <2>6. PruneEntries \/ PruneDebounce
    <3>1. AnySection
      BY <1>1 DEF sbvars, half_vars
    <3>2. QED
      BY <1>1, <3>1 DEF AnySection, BeginSuccess, ApplySuccess, BeginFailure, DropFailure,
         AcceptFailure, ApplyFailure, Tick, DecayTick, TripCascade, NoticeExpiredPin,
         EvictPin, ClearPin, ForcePin, ResetState, ForgetEntries, WipeDebounce,
         ReplacePool, ReplaceRules, Reload, half_vars
  <2>7. QED
    BY <2>4, <2>5, <2>6
<1>2. SBTypeOK /\ CooldownsNearSightings /\ [AnySection]_sbvars
        => (pruning' # pruning =>
              \A h \in Hosts, tried \in SUBSET Upstreams :
                 ScoredPicks(h, tried, clock)' = ScoredPicks(h, tried, clock))
  BY <1>1
<1>3. SBInit => CooldownsNearSightings
  BY DEF SBInit, CooldownsNearSightings, Absent
<1>4. SBTypeOK /\ ReadingsInPast /\ ReadingsRecent /\ BoundedLockout /\ BoundedLockout'
        /\ CooldownsNearSightings /\ [AnySection]_sbvars => CooldownsNearSightings'
  BY SightingsStep
<1>5. QED
  BY <1>2, <1>3, <1>4, RecentCorrect, SectionsBoundLockout,
     PTL DEF AnySpec, PruneKeepsRouting

\* Prune drops nothing a Pick would have looked at, if no entry is old enough to
\* go before its cooldown has run out: the longest cooldown, Retry-After included,
\* and the stall of one call fit into prune_after.
THEOREM PruneIsInvisible ==
    ASSUME \A c \in Configs : c.pruneAfter > 0
                                => \A d \in Lockouts : d + MaxStall <= c.pruneAfter + 1
    PROVE  SBSpec => PruneKeepsRouting
BY SectionsPruneUnseen, SpecRunsSections

----------------------------------------------------------------------------
(* One penalty per kind and window *)

\* Whole windows: window n is the ticks n * W + 1 .. (n + 1) * W.
LEMMA WindowOf ==
    ASSUME NEW W \in Nat \ {0}, NEW t \in Nat \ {0}
    PROVE  /\ (t - 1) \div W \in Nat
           /\ ((t - 1) \div W) * W < t
           /\ t <= ((t - 1) \div W) * W + W
<1> DEFINE q == (t - 1) \div W
<1>1. q \in Int /\ W * q <= t - 1 /\ t - 1 < W * q + W
  OBVIOUS
<1>2. q >= 0
  BY <1>1
<1>3. W * q = q * W
  BY <1>1
<1>4. QED
  BY <1>1, <1>2, <1>3

LEMMA WindowsBefore ==
    ASSUME NEW W \in Nat \ {0}, NEW t \in Nat \ {0}, NEW n \in Nat, n * W < t
    PROVE  n <= (t - 1) \div W
<1> DEFINE q == (t - 1) \div W
<1>1. q \in Nat /\ t <= q * W + W
  BY WindowOf
<1>2. SUFFICES ASSUME n >= q + 1 PROVE FALSE
  BY <1>1
<1>3. n * W >= (q + 1) * W
  BY <1>1, <1>2
<1>4. (q + 1) * W = q * W + W
  BY <1>1
<1>5. QED
  BY <1>1, <1>3, <1>4

\* Callers the debounce has let through and that have not yet charged p.
Admitted(p) ==
    {c \in Callers : /\ call[c] # NoCall /\ call[c].op = "stamped"
                     /\ <<call[c].host, call[c].up>> = p}

\* No call will be let through for p and k in window n or before: the last stamp
\* is in it or later, or the stamp has gone and every reading is a window later.
Spent(p, k, n, W) ==
    \/ n * W < debounce[<<p[1], p[2], k>>]
    \/ n * W + W + MaxStall < clock

\* The charges of p, made or admitted, have windows of their own: spent holds a
\* kind and a window for each of them.
Ledger(p, spent, W) ==
    /\ spent \subseteq Kinds \X Nat /\ IsFiniteSet(spent)
    /\ entries[p].failures + Cardinality(Admitted(p)) <= Cardinality(spent)
    /\ \A e \in spent : e[2] * W < clock /\ Spent(p, e[1], e[2], W)

\* Readings lie after the clock's start, what Prune carries is not from the future
\* and speaks of the one window there is, and nothing is wiped.
SteadyWindow(W) ==
    /\ clock >= 1 /\ wipes = {}
    /\ \A c \in Callers : call[c] # NoCall => call[c].now >= 1
    /\ pruning # NotPruning => pruning.now <= clock /\ pruning.window = W

LedgerInv(W) ==
    SteadyWindow(W) /\ \A p \in Pairs : \E spent : Ledger(p, spent, W)

\* The tunings under which a window is a window: one length for all of them, no
\* operator who wipes stamps, and stalls shorter than the age at which Prune drops
\* stamps, by a whole window.
OneWindow(W) ==
    /\ W \in Nat \ {0} /\ \A c \in Configs : c.debounceWindow = W
    /\ AdminOps \cap {"forget", "reset"} = {}
    /\ W + MaxStall <= StaleWindows * W
    /\ IsFiniteSet(Callers) /\ IsFiniteSet(Kinds)

LEMMA AdmittedFinite ==
    ASSUME IsFiniteSet(Callers), NEW p
    PROVE  /\ IsFiniteSet(Admitted(p)) /\ Cardinality(Admitted(p)) \in Nat
           /\ IsFiniteSet(Admitted(p)') /\ Cardinality(Admitted(p)') \in Nat
<1>1. Admitted(p) \in SUBSET Callers /\ Admitted(p)' \in SUBSET Callers
  BY DEF Admitted
<1>2. IsFiniteSet(Admitted(p)) /\ IsFiniteSet(Admitted(p)')
  BY <1>1, FS_Subset
<1>3. QED
  BY <1>2, FS_CardinalityType

\* A step that admits nobody, charges nobody and leaves the stamps alone keeps
\* every ledger.
LEMMA CalmKeepsLedger ==
    ASSUME SBTypeOK, SBTypeOK', NEW W, OneWindow(W), NEW p \in Pairs, NEW spent,
           Ledger(p, spent, W), clock' >= clock,
           \A k \in Kinds : debounce'[<<p[1], p[2], k>>] = debounce[<<p[1], p[2], k>>],
           Admitted(p)' \subseteq Admitted(p), entries'[p].failures <= entries[p].failures
    PROVE  Ledger(p, spent, W)'
<1>1. Cardinality(Admitted(p)') <= Cardinality(Admitted(p))
  BY AdmittedFinite, FS_Subset DEF OneWindow
<1>2. /\ Cardinality(spent) \in Nat /\ entries[p].failures \in Nat
      /\ entries'[p].failures \in Nat
  BY FS_CardinalityType DEF Ledger, SBTypeOK, Entry
<1>3. entries'[p].failures + Cardinality(Admitted(p)') <= Cardinality(spent)
  <2>1. /\ Cardinality(Admitted(p)) \in Nat /\ Cardinality(Admitted(p)') \in Nat
    BY AdmittedFinite DEF OneWindow
  <2>2. QED
    BY <1>1, <1>2, <2>1 DEF Ledger
<1>4. ASSUME NEW e \in spent
      PROVE  e[2] * W < clock' /\ Spent(p, e[1], e[2], W)'
  <2>1. /\ e[1] \in Kinds /\ e[2] \in Nat /\ W \in Nat /\ MaxStall \in Nat
        /\ clock \in Nat /\ clock' \in Nat /\ e[2] * W \in Nat
    BY NumbersAssumption DEF Ledger, OneWindow, SBTypeOK, Time
  <2>2. e[2] * W < clock /\ Spent(p, e[1], e[2], W)
    BY DEF Ledger
  <2>3. debounce'[<<p[1], p[2], e[1]>>] = debounce[<<p[1], p[2], e[1]>>]
    BY <2>1
  <2>4. <<p[1], p[2], e[1]>> \in Keys
    BY <2>1 DEF Pairs, Keys
  <2>5. QED
    BY <2>1, <2>2, <2>3, <2>4 DEF Spent
<1>5. QED
  BY <1>3, <1>4 DEF Ledger

\* A call that is let through opens a window of its own: its reading is a window
\* later than the last stamp or than anything Prune has dropped.
LEMMA AcceptKeepsLedger ==
    ASSUME SBTypeOK, SBTypeOK', ReadingsInPast, ReadingsRecent, NEW W, OneWindow(W),
           NEW c \in Callers, AcceptFailure(c), NEW p \in Pairs, NEW spent,
           Ledger(p, spent, W), call[c].now >= 1
    PROVE  \E s : Ledger(p, s, W)'
<1> DEFINE f == call[c]
           t == call[c].now
           k == call[c].kind
<1>1. /\ f # NoCall /\ f.op = "failing" /\ ~Debounced(f)
      /\ f \in Call /\ f.cfg.debounceWindow = W /\ k \in Kinds /\ t \in Nat \ {0}
      /\ W \in Nat \ {0} /\ MaxStall \in Nat /\ clock \in Nat /\ clock' = clock
      /\ t <= clock /\ clock <= t + MaxStall /\ <<f.host, f.up>> \in Pairs
  BY NumbersAssumption DEF AcceptFailure, SBTypeOK, Call, Time, OneWindow, ReadingsInPast,
     ReadingsRecent, Pairs
<1>2. /\ debounce' = [debounce EXCEPT ![<<f.host, f.up, k>>] = t]
      /\ <<f.host, f.up, k>> \in Keys
  BY <1>1 DEF AcceptFailure, Keys, Pairs
<1>3. \A d \in Callers \ {c} : call'[d] = call[d]
  BY DEF AcceptFailure, SBTypeOK
<1>4. /\ call'[c] # NoCall /\ call'[c].op = "stamped"
      /\ call'[c].host = f.host /\ call'[c].up = f.up
  <2>1. call'[c] = [f EXCEPT !.op = "stamped"]
    BY DEF AcceptFailure, SBTypeOK
  <2>2. [f EXCEPT !.op = "stamped"] \in Call
    BY <1>1 DEF Call
  <2>3. QED
    BY <1>1, <2>1, <2>2, NoCallAssumption DEF Call
<1>5. CASE p # <<f.host, f.up>>
  <2>1. Admitted(p)' = Admitted(p)
    BY <1>1, <1>3, <1>4, <1>5 DEF Admitted
  <2>2. \A j \in Kinds : debounce'[<<p[1], p[2], j>>] = debounce[<<p[1], p[2], j>>]
    <3>1. \A j \in Kinds : <<p[1], p[2], j>> # <<f.host, f.up, k>>
      BY <1>5 DEF Pairs
    <3>2. \A j \in Kinds : <<p[1], p[2], j>> \in Keys
      BY DEF Pairs, Keys
    <3>3. QED
      BY <1>2, <3>1, <3>2 DEF SBTypeOK
  <2>3. entries'[p].failures <= entries[p].failures
    BY DEF AcceptFailure, SBTypeOK, Entry
  <2>4. QED
    BY <1>1, <2>1, <2>2, <2>3, CalmKeepsLedger
<1>6. CASE p = <<f.host, f.up>>
  <2> DEFINE n == (t - 1) \div W
             mine == <<k, n>>
             more == spent \cup {mine}
  <2>1. n \in Nat /\ n * W \in Nat /\ n * W < t /\ t <= n * W + W
    <3>1. n \in Nat /\ n * W < t /\ t <= n * W + W
      BY <1>1, WindowOf, Zenon
    <3>2. QED
      BY <1>1, <3>1
  <2>2. ASSUME NEW e \in spent
        PROVE  /\ e[1] \in Kinds /\ e[2] \in Nat /\ e[2] * W \in Nat
               /\ e[2] * W < clock /\ Spent(p, e[1], e[2], W)
    BY <1>1 DEF Ledger
  <2>3. ASSUME NEW e \in spent, e[1] = k
        PROVE  e[2] * W + W < t
    <3> DEFINE last == debounce[<<f.host, f.up, k>>]
    <3>1. last \in Nat
      BY <1>2 DEF SBTypeOK, Time
    <3>2. CASE e[2] * W < last
      <4>1. last # 0 /\ t >= last + W
        BY <1>1, <2>2, <3>1, <3>2 DEF Debounced, Never
      <4>2. QED
        BY <1>1, <2>2, <3>1, <3>2, <4>1
    <3>3. CASE e[2] * W + W + MaxStall < clock
      BY <1>1, <2>2, <3>3
    <3>4. QED
      BY <1>6, <2>2, <2>3, <3>2, <3>3 DEF Spent
  <2>4. mine \notin spent
    <3>1. SUFFICES ASSUME mine \in spent PROVE FALSE
      OBVIOUS
    <3>2. n * W + W < t
      BY <2>3, <3>1
    <3>3. QED
      BY <1>1, <2>1, <3>2
  <2>5. /\ IsFiniteSet(more) /\ Cardinality(more) = Cardinality(spent) + 1
        /\ Cardinality(spent) \in Nat
    BY <2>4, FS_AddElement, FS_CardinalityType DEF Ledger
  <2>6. Admitted(p)' = Admitted(p) \cup {c} /\ c \notin Admitted(p)
    BY <1>1, <1>3, <1>4, <1>6 DEF Admitted
  <2>7. Cardinality(Admitted(p)') = Cardinality(Admitted(p)) + 1
    BY <2>6, AdmittedFinite, FS_AddElement DEF OneWindow
  <2>8. entries'[p].failures + Cardinality(Admitted(p)') <= Cardinality(more)
    <3>1. entries'[p] = entries[p] /\ entries[p].failures \in Nat
      BY DEF AcceptFailure, SBTypeOK, Entry
    <3>2. Cardinality(Admitted(p)) \in Nat
      BY AdmittedFinite DEF OneWindow
    <3>3. entries[p].failures + Cardinality(Admitted(p)) <= Cardinality(spent)
      BY DEF Ledger
    <3>4. QED
      BY <2>5, <2>7, <3>1, <3>2, <3>3
  <2>9. ASSUME NEW e \in more
        PROVE  e[2] * W < clock' /\ Spent(p, e[1], e[2], W)'
    <3>1. CASE e[1] = k
      <4>1. e[2] * W < t /\ e[2] * W \in Nat
        <5>1. CASE e = mine
          BY <2>1, <5>1
        <5>2. CASE e \in spent
          BY <1>1, <2>2, <2>3, <3>1, <5>2
        <5>3. QED
          BY <5>1, <5>2
      <4>2. debounce'[<<p[1], p[2], e[1]>>] = t
        BY <1>2, <1>6, <3>1 DEF SBTypeOK
      <4>3. QED
        BY <1>1, <4>1, <4>2 DEF Spent
    <3>2. CASE e[1] # k
      <4>1. e \in spent
        BY <3>2
      <4>2. <<p[1], p[2], e[1]>> \in Keys /\ <<p[1], p[2], e[1]>> # <<f.host, f.up, k>>
        BY <2>2, <3>2, <4>1 DEF Keys, Pairs
      <4>3. debounce'[<<p[1], p[2], e[1]>>] = debounce[<<p[1], p[2], e[1]>>]
        BY <1>2, <4>2 DEF SBTypeOK
      <4>4. QED
        BY <1>1, <2>2, <4>1, <4>3 DEF Spent
    <3>3. QED
      BY <3>1, <3>2
  <2>10. more \subseteq Kinds \X Nat
    BY <1>1, <2>1 DEF Ledger
  <2>11. PICK s : s = more
    OBVIOUS
  <2>12. Ledger(p, s, W)'
    BY <2>5, <2>8, <2>9, <2>10, <2>11 DEF Ledger
  <2>13. QED
    BY <2>12
<1>7. QED
  BY <1>5, <1>6

\* An admitted call becomes a charge.
LEMMA ChargeKeepsLedger ==
    ASSUME SBTypeOK, SBTypeOK', NEW W, OneWindow(W), NEW c \in Callers, ApplyFailure(c),
           NEW p \in Pairs, NEW spent, Ledger(p, spent, W)
    PROVE  Ledger(p, spent, W)'
<1> DEFINE f == call[c]
<1>1. /\ f # NoCall /\ f.op = "stamped" /\ f \in Call /\ <<f.host, f.up>> \in Pairs
      /\ clock' = clock /\ clock \in Nat /\ debounce' = debounce
  BY DEF ApplyFailure, SBTypeOK, Call, Pairs, Time
<1>2. \A d \in Callers \ {c} : call'[d] = call[d]
  BY DEF ApplyFailure, SBTypeOK
<1>3. call'[c] = NoCall
  BY DEF ApplyFailure, SBTypeOK
<1>4. CASE p # <<f.host, f.up>>
  <2>1. Admitted(p)' \subseteq Admitted(p)
    BY <1>2, <1>3 DEF Admitted
  <2>2. entries'[p] = entries[p] /\ entries[p].failures \in Nat
    BY <1>4 DEF ApplyFailure, SBTypeOK, Entry
  <2>3. QED
    BY <1>1, <2>1, <2>2, CalmKeepsLedger
<1>5. CASE p = <<f.host, f.up>>
  <2>1. Admitted(p)' = Admitted(p) \ {c} /\ c \in Admitted(p)
    BY <1>1, <1>2, <1>3, <1>5 DEF Admitted
  <2>2. /\ Cardinality(Admitted(p)') = Cardinality(Admitted(p)) - 1
        /\ Cardinality(Admitted(p)) \in Nat
    BY <2>1, AdmittedFinite, FS_RemoveElement, ZenonT(40) DEF OneWindow
  <2>3. entries'[p].failures = entries[p].failures + 1 /\ entries[p].failures \in Nat
    BY <1>1, <1>5 DEF ApplyFailure, Penalised, SBTypeOK, Entry
  <2>4. entries'[p].failures + Cardinality(Admitted(p)') <= Cardinality(spent)
    BY <2>2, <2>3 DEF Ledger
  <2>5. QED
    BY <1>1, <2>4 DEF Ledger, Spent
<1>6. QED
  BY <1>4, <1>5

\* A stamp Prune drops lies so far back that no call in flight can still carry a
\* reading of its window.
LEMMA PruneKeepsLedger ==
    ASSUME SBTypeOK, SBTypeOK', NEW W, OneWindow(W), SteadyWindow(W), PruneDebounce,
           NEW p \in Pairs, NEW spent, Ledger(p, spent, W)
    PROVE  Ledger(p, spent, W)'
<1>1. /\ UNCHANGED <<clock, entries, call>> /\ clock \in Nat
      /\ pruning.now \in Nat /\ pruning.now <= clock /\ pruning.window = W
  BY DEF PruneDebounce, SteadyWindow, SBTypeOK, Time
<1>2. /\ W \in Nat \ {0} /\ MaxStall \in Nat /\ StaleWindows \in Nat
      /\ StaleWindows * W \in Nat /\ W + MaxStall <= StaleWindows * W
  BY NumbersAssumption DEF OneWindow
<1>3. Admitted(p)' = Admitted(p)
  BY <1>1 DEF Admitted
<1>4. ASSUME NEW e \in spent
      PROVE  e[2] * W < clock' /\ Spent(p, e[1], e[2], W)'
  <2> DEFINE key == <<p[1], p[2], e[1]>>
  <2>1. /\ e[1] \in Kinds /\ e[2] \in Nat /\ e[2] * W \in Nat
        /\ e[2] * W < clock /\ Spent(p, e[1], e[2], W)
    BY <1>2 DEF Ledger
  <2>2. key \in Keys
    BY <2>1 DEF Keys, Pairs
  <2>3. debounce[key] \in Nat
    BY <2>2 DEF SBTypeOK, Time
  <2>4. CASE Stale(debounce[key]) /\ e[2] * W < debounce[key]
    <3>1. pruning.now - debounce[key] > StaleWindows * W
      BY <1>1, <2>4 DEF Stale
    <3>2. e[2] * W + W + MaxStall < clock
      BY <1>1, <1>2, <2>1, <2>3, <2>4, <3>1
    <3>3. QED
      BY <1>1, <2>1, <3>2 DEF Spent
  <2>5. CASE ~Stale(debounce[key])
    <3>1. debounce'[key] = debounce[key]
      BY <2>2, <2>5 DEF PruneDebounce
    <3>2. QED
      BY <1>1, <2>1, <3>1 DEF Spent
  <2>6. CASE ~(e[2] * W < debounce[key])
    BY <1>1, <2>1, <2>6 DEF Spent
  <2>7. QED
    BY <2>4, <2>5, <2>6
<1>5. QED
  BY <1>1, <1>3, <1>4 DEF Ledger

LEMMA SteadyStep ==
    ASSUME SBTypeOK, NEW W, OneWindow(W), SteadyWindow(W), [AnySection]_sbvars
    PROVE  SteadyWindow(W)'
<1> USE DEF SteadyWindow
<1>1. clock \in Nat
  BY DEF SBTypeOK, Time
<1>2. ASSUME NEW c \in Callers, NEW h \in Hosts, NEW u \in Upstreams, BeginSuccess(c, h, u)
      PROVE  SteadyWindow(W)'
  BY <1>1, <1>2 DEF BeginSuccess, SBTypeOK, half_vars
<1>3. ASSUME NEW c \in Callers, NEW h \in Hosts, NEW u \in Upstreams, NEW k \in Kinds,
             NEW o \in RetryAfters \cup {NoOverride}, BeginFailure(c, h, u, k, o)
      PROVE  SteadyWindow(W)'
  BY <1>1, <1>3 DEF BeginFailure, SBTypeOK, half_vars
<1>4. ASSUME NEW c \in Callers, ApplySuccess(c) \/ DropFailure(c) \/ ApplyFailure(c)
      PROVE  SteadyWindow(W)'
  BY <1>4 DEF ApplySuccess, DropFailure, ApplyFailure, SBTypeOK, half_vars
<1>5. ASSUME NEW c \in Callers, AcceptFailure(c)
      PROVE  SteadyWindow(W)'
  <2>1. call[c] \in Call
    BY <1>5 DEF AcceptFailure, SBTypeOK
  <2>2. \A d \in Callers : call'[d] # NoCall => call[d] # NoCall /\ call'[d].now = call[d].now
    BY <1>5, <2>1 DEF AcceptFailure, SBTypeOK, Call
  <2>3. QED
    BY <1>5, <2>2 DEF AcceptFailure, half_vars
<1>6. CASE Tick
  BY <1>1, <1>6 DEF Tick, half_vars, SBTypeOK, Time
<1>7. CASE PruneEntries
  <2>1. cfg.debounceWindow = W
    BY DEF OneWindow, SBTypeOK
  <2>2. QED
    BY <1>1, <1>7, <2>1 DEF PruneEntries
<1>8. CASE PruneDebounce
  BY <1>8 DEF PruneDebounce
<1>9. CASE UNCHANGED <<clock, call, wipes, pruning>>
  BY <1>9
<1>10. CASE AnySection
  <2>1. \/ \E c \in Callers :
             \/ \E h \in Hosts, u \in Upstreams : BeginSuccess(c, h, u)
             \/ \E h \in Hosts, u \in Upstreams, k \in Kinds,
                   o \in RetryAfters \cup {NoOverride} : BeginFailure(c, h, u, k, o)
             \/ ApplySuccess(c) \/ DropFailure(c) \/ ApplyFailure(c)
             \/ AcceptFailure(c)
        \/ Tick \/ PruneEntries \/ PruneDebounce
        \/ UNCHANGED <<clock, call, wipes, pruning>>
    BY <1>10 DEF AnySection, DecayTick, TripCascade, ClearPin, NoticeExpiredPin, ForcePin,
       EvictPin, ResetState, ForgetEntries, WipeDebounce, ReplacePool, ReplaceRules,
       Reload, OneWindow, half_vars
  <2>2. QED
    BY <1>2, <1>3, <1>4, <1>5, <1>6, <1>7, <1>8, <1>9, <2>1
<1>11. QED
  BY <1>9, <1>10 DEF sbvars, half_vars

LEMMA LedgerStep ==
    ASSUME SBTypeOK, SBTypeOK', ReadingsInPast, ReadingsRecent, NEW W, OneWindow(W),
           LedgerInv(W), [AnySection]_sbvars
    PROVE  LedgerInv(W)'
<1>1. SteadyWindow(W) /\ SteadyWindow(W)'
  BY SteadyStep DEF LedgerInv
<1>2. SUFFICES ASSUME NEW p \in Pairs PROVE \E s : Ledger(p, s, W)'
  BY <1>1 DEF LedgerInv
<1>3. PICK spent : Ledger(p, spent, W)
  BY DEF LedgerInv
<1>4. ASSUME NEW c \in Callers, AcceptFailure(c)
      PROVE  \E s : Ledger(p, s, W)'
  BY <1>1, <1>3, <1>4, AcceptKeepsLedger DEF SteadyWindow, AcceptFailure
<1>5. ASSUME NEW c \in Callers, ApplyFailure(c)
      PROVE  \E s : Ledger(p, s, W)'
  BY <1>3, <1>5, ChargeKeepsLedger
<1>6. CASE PruneDebounce
  BY <1>1, <1>3, <1>6, PruneKeepsLedger
<1>7. clock \in Nat /\ entries[p] \in Entry /\ entries[p].failures \in Nat
  BY DEF SBTypeOK, Time, Entry
<1>8. ASSUME clock' >= clock, debounce' = debounce, Admitted(p)' \subseteq Admitted(p),
             entries'[p].failures <= entries[p].failures
      PROVE  \E s : Ledger(p, s, W)'
  BY <1>3, <1>8, CalmKeepsLedger
<1>9. ASSUME NEW c \in Callers,
             \/ \E h \in Hosts, u \in Upstreams : BeginSuccess(c, h, u)
             \/ \E h \in Hosts, u \in Upstreams, k \in Kinds,
                   o \in RetryAfters \cup {NoOverride} : BeginFailure(c, h, u, k, o)
             \/ DropFailure(c)
      PROVE  \E s : Ledger(p, s, W)'
  <2>1. UNCHANGED <<clock, entries, debounce>>
    BY <1>9 DEF BeginSuccess, BeginFailure, DropFailure
  <2>2. /\ call' \in [Callers -> Call \cup {NoCall}]
        /\ \A d \in Callers \ {c} : call'[d] = call[d]
        /\ call'[c] # NoCall => call'[c].op # "stamped"
    BY <1>9 DEF BeginSuccess, BeginFailure, DropFailure, SBTypeOK
  <2>3. Admitted(p)' \subseteq Admitted(p)
    BY <2>2 DEF Admitted
  <2>4. QED
    BY <1>7, <1>8, <2>1, <2>3
<1>10. ASSUME NEW c \in Callers, ApplySuccess(c)
       PROVE  \E s : Ledger(p, s, W)'
  <2>1. Admitted(p)' \subseteq Admitted(p)
    BY <1>10 DEF ApplySuccess, Admitted, SBTypeOK
  <2>2. entries'[p].failures <= entries[p].failures
    BY <1>7, <1>10 DEF ApplySuccess, Rewarded, SBTypeOK, Entry
  <2>3. QED
    BY <1>7, <1>8, <1>10, <2>1, <2>2 DEF ApplySuccess
<1>11. ASSUME call' = call
       PROVE  Admitted(p)' \subseteq Admitted(p)
  BY <1>11 DEF Admitted
<1>12. CASE Tick
  BY <1>7, <1>8, <1>11, <1>12 DEF Tick
<1>13. CASE DecayTick
  <2>1. entries'[p].failures = entries[p].failures
    BY <1>7, <1>13 DEF DecayTick, Entry
  <2>2. QED
    BY <1>7, <1>8, <1>11, <1>13, <2>1 DEF DecayTick
<1>14. CASE PruneEntries
  <2>1. entries'[p].failures = entries[p].failures \/ entries'[p].failures = 0
    BY <1>14 DEF PruneEntries, Absent
  <2>2. QED
    BY <1>7, <1>8, <1>11, <1>14, <2>1 DEF PruneEntries
<1>15. CASE UNCHANGED <<clock, entries, debounce, call>>
  BY <1>7, <1>8, <1>11, <1>15
<1>16. CASE AnySection
  <2>1. \/ \E c \in Callers :
             \/ \E h \in Hosts, u \in Upstreams : BeginSuccess(c, h, u)
             \/ \E h \in Hosts, u \in Upstreams, k \in Kinds,
                   o \in RetryAfters \cup {NoOverride} : BeginFailure(c, h, u, k, o)
             \/ DropFailure(c) \/ ApplySuccess(c) \/ AcceptFailure(c) \/ ApplyFailure(c)
        \/ Tick \/ DecayTick \/ PruneEntries \/ PruneDebounce
        \/ UNCHANGED <<clock, entries, debounce, call>>
    BY <1>1, <1>16 DEF AnySection, TripCascade, ClearPin, NoticeExpiredPin, ForcePin, EvictPin,
       ResetState, ForgetEntries, WipeDebounce, ReplacePool, ReplaceRules, Reload,
       OneWindow, SteadyWindow
  <2>2. QED
    BY <1>4, <1>5, <1>6, <1>9, <1>10, <1>12, <1>13, <1>14, <1>15, <2>1
<1>17. QED
  BY <1>15, <1>16 DEF sbvars

\* A ledger has a line for each kind and each window that has begun.
LEMMA LedgerBounds ==
    ASSUME SBTypeOK, NEW W, OneWindow(W), LedgerInv(W)
    PROVE  PenaltiesDebounced
<1>1. SUFFICES ASSUME NEW p \in Pairs
               PROVE  entries[p].failures <= Cardinality(Kinds) * (1 + ((clock - 1) \div W))
  BY DEF PenaltiesDebounced, OneWindow
<1>2. PICK spent : Ledger(p, spent, W)
  BY DEF LedgerInv
<1> DEFINE last == (clock - 1) \div W
<1>3. clock \in Nat \ {0} /\ W \in Nat \ {0}
  BY DEF LedgerInv, SteadyWindow, SBTypeOK, Time, OneWindow
<1>4. last \in Nat
  BY <1>3, WindowOf
<1>5. spent \subseteq Kinds \X (0..last)
  <2>1. ASSUME NEW e \in spent PROVE e \in Kinds \X (0..last)
    <3>1. e \in Kinds \X Nat /\ e[2] * W < clock
      BY <1>2 DEF Ledger
    <3>2. e[2] <= last
      BY <1>3, <3>1, WindowsBefore
    <3>3. QED
      BY <1>4, <3>1, <3>2
  <2>2. QED
    BY <2>1
<1>6. /\ IsFiniteSet(0..last) /\ Cardinality(0..last) = 1 + last
  BY <1>4, FS_Interval
<1>7. /\ IsFiniteSet(Kinds \X (0..last))
      /\ Cardinality(Kinds \X (0..last)) = Cardinality(Kinds) * (1 + last)
  BY <1>6, FS_Product DEF OneWindow
<1>8. Cardinality(spent) <= Cardinality(Kinds) * (1 + last)
  BY <1>5, <1>7, FS_Subset
<1>9. entries[p].failures <= Cardinality(spent)
  <2>1. entries[p].failures \in Nat
    BY DEF SBTypeOK, Entry
  <2>2. Cardinality(Admitted(p)) \in Nat
    BY AdmittedFinite DEF OneWindow
  <2>3. Cardinality(spent) \in Nat
    BY <1>2, FS_CardinalityType DEF Ledger
  <2>4. QED
    BY <1>2, <2>1, <2>2, <2>3 DEF Ledger
<1>10. QED
  <2>1. /\ entries[p].failures \in Nat /\ Cardinality(spent) \in Nat
        /\ Cardinality(Kinds) \in Nat
    BY <1>2, FS_CardinalityType DEF SBTypeOK, Entry, Ledger, OneWindow
  <2>2. Cardinality(Kinds) * (1 + last) \in Nat
    BY <1>4, <2>1
  <2>3. QED
    BY <1>8, <1>9, <2>1, <2>2

\* The ledger of windows bounds the failures of a pair.
LEMMA SectionsDebounce ==
    ASSUME NEW W, OneWindow(W)
    PROVE  AnySpec => []PenaltiesDebounced
<1>1. SBInit => LedgerInv(W)
  <2> SUFFICES ASSUME SBInit PROVE LedgerInv(W)
    OBVIOUS
  <2>1. SteadyWindow(W)
    BY DEF SBInit, SteadyWindow
  <2>2. ASSUME NEW p \in Pairs PROVE Ledger(p, {}, W)
    <3>1. Admitted(p) = {} /\ entries[p].failures = 0
      BY DEF SBInit, Admitted, Absent
    <3>2. QED
      BY <3>1, FS_EmptySet DEF Ledger
  <2>3. QED
    BY <2>1, <2>2 DEF LedgerInv
<1>2. SBTypeOK /\ SBTypeOK' /\ ReadingsInPast /\ ReadingsRecent /\ LedgerInv(W)
        /\ [AnySection]_sbvars => LedgerInv(W)'
  BY LedgerStep
<1>3. SBTypeOK /\ LedgerInv(W) => PenaltiesDebounced
  BY LedgerBounds
<1>4. QED
  BY <1>1, <1>2, <1>3, RecentCorrect, PTL DEF AnySpec

\* However many callers report however often, and wherever Prune falls, a pair is
\* charged at most once per kind and debounce window.
THEOREM OnePenaltyPerWindow ==
    ASSUME NEW W, OneWindow(W)
    PROVE  SBSpec => []PenaltiesDebounced
BY SectionsDebounce, SpecRunsSections

=============================
