--------------------------- MODULE HotReload_proofs ---------------------------
(***************************************************************************)
(* Theorems of HotReload, for any documents the operator may write, any    *)
(* edits and signals while a reload runs, and any requests under it.       *)
(***************************************************************************)
EXTENDS HotReload, DialFor_proofs

----------------------------------------------------------------------------
(* What a reload does to the requests *)

\* A piece that is installed is one the scoreboard may be given.
LEMMA InstallIsAdministration ==
    ASSUME NEW d \in Documents, Valid(d)
    PROVE  /\ Reload(d.scoring) => Administration
           /\ ReplaceRules(d.rules) => Administration
           /\ ~d.blocks /\ ReplacePool(StaticPool(d)) => Administration
<1>1. /\ d.rules \in RuleSets /\ d.scoring \in Configs
      /\ ~d.blocks => StaticPool(d) \in Pools
  BY ReloadAssumption
<1>2. QED
  BY <1>1 DEF Administration

\* Past its validation the reload works on one valid document.
WorksOnValid ==
    /\ disk \in Documents
    /\ reloading.pc \notin {"idle", "load"} =>
          reloading.doc \in Documents /\ Valid(reloading.doc)

\* What each step of the reload has behind it.
ReloadInv ==
    /\ WorksOnValid
    /\ reloading \in [pc : {"idle", "load", "check", "scoring", "detector", "pool",
                            "rules", "inspection", "tokens"},
                      doc : Documents \cup {NoDocument}]
    /\ hup \in BOOLEAN /\ hasBlocks \in BOOLEAN /\ refreshed \subseteq {"live", "next"}
    /\ {detector, inspection} \subseteq Documents
    /\ IF reloading.pc \in {"pool", "rules", "inspection"}
       THEN detector = reloading.doc ELSE detector = inspection

LEMMA ReloadInitInv == ReloadInit => ReloadInv
<1> SUFFICES ASSUME ReloadInit PROVE ReloadInv
  OBVIOUS
<1>1. disk \in Documents
  BY DEF ReloadInit
<1>2. hasBlocks \in BOOLEAN
  BY <1>1, ReloadAssumption, Zenon DEF ReloadInit
<1>3. /\ hup \in BOOLEAN /\ refreshed = {} /\ detector = disk /\ inspection = disk
      /\ reloading = [pc |-> "idle", doc |-> NoDocument]
  BY DEF ReloadInit, Resting
<1>4. QED
  BY <1>1, <1>2, <1>3 DEF ReloadInv, WorksOnValid

LEMMA ReloadInvStep == ReloadInv /\ [ReloadNext]_hvars => ReloadInv'
<1> SUFFICES ASSUME ReloadInv, [ReloadNext]_hvars PROVE ReloadInv'
  OBVIOUS
<1> USE DEF ReloadInv, WorksOnValid
<1>1. CASE UNCHANGED reload_vars
  BY <1>1 DEF reload_vars, file_vars, live_vars
<1>2. ASSUME NEW d \in Documents, Edit(d)
      PROVE  ReloadInv'
  BY <1>2 DEF Edit, live_vars
<1>3. CASE Sighup
  BY <1>3 DEF Sighup, live_vars
<1>4. ASSUME NEW p \in RefreshPools, Refresh(p)
      PROVE  ReloadInv'
  BY <1>4 DEF Refresh, file_vars
<1>5. CASE Receive
  BY <1>5 DEF Receive, Loading, Goes, live_vars
<1>6. CASE LoadConfig
  BY <1>6 DEF LoadConfig, Loading, Resting, file_vars, live_vars
<1>7. CASE CheckPreferIds
  BY <1>7 DEF CheckPreferIds, Loading, Goes, Resting, file_vars
<1>8. CASE InstallScoring
  BY <1>8 DEF InstallScoring, Loading, Goes, file_vars, live_vars
<1>9. CASE InstallDetector
  BY <1>9 DEF InstallDetector, Loading, Goes, file_vars
<1>10. CASE InstallPool
  BY <1>10 DEF InstallPool, Loading, Goes, file_vars, live_vars
<1>11. CASE InstallRules
  BY <1>11 DEF InstallRules, Loading, Goes, file_vars
<1>12. CASE InstallInspection
  BY <1>12 DEF InstallInspection, Loading, Goes, file_vars
<1>13. CASE RotateTokens
  BY <1>13 DEF RotateTokens, Loading, Resting, file_vars
<1>14. QED
  BY <1>1, <1>2, <1>3, <1>4, <1>5, <1>6, <1>7, <1>8, <1>9, <1>10, <1>11, <1>12, <1>13
     DEF ReloadNext, ReloadStep, RequestStep, hvars

LEMMA ReloadKeepsLoop ==
    LoopInv /\ DirectOnly /\ ReloadInv /\ [ReloadNext]_hvars => (LoopInv /\ DirectOnly)'
<1> SUFFICES ASSUME LoopInv, DirectOnly, ReloadInv, [ReloadNext]_hvars
             PROVE  LoopInv' /\ DirectOnly'
  OBVIOUS
<1>1. ASSUME NEW c \in Callers, RequestStep(c)
      PROVE  LoopInv' /\ DirectOnly'
  <2>1. CASE Step(c) \/ \E h \in Hosts : Begin(c, h)
    BY <2>1, DialKeepsLoop, BeginKeepsLoop, DirectStep
  <2>2. CASE Cancel(c)
    BY <2>2, CancelKeepsLoop DEF Cancel, DirectOnly
  <2>3. QED
    BY <1>1, <2>1, <2>2 DEF RequestStep
<1>2. ASSUME UNCHANGED dvars
      PROVE  LoopInv' /\ DirectOnly'
  <2>1. LoopInv'
    BY <1>2, LoopStep
  <2>2. UNCHANGED req
    BY <1>2 DEF dvars, request_vars
  <2>3. QED
    BY <2>1, <2>2 DEF DirectOnly
<1>3. ASSUME Administration, UNCHANGED request_vars
      PROVE  LoopInv' /\ DirectOnly'
  BY <1>3, AdministrationKeepsLoop DEF DirectOnly, request_vars
<1>4. ASSUME NEW p \in RefreshPools, Refresh(p)
      PROVE  Administration /\ UNCHANGED request_vars
  BY <1>4, ReloadAssumption DEF Refresh, Administration
<1>5. CASE InstallScoring
  <2>1. reloading.doc \in Documents /\ Valid(reloading.doc)
    BY <1>5 DEF InstallScoring, Loading, ReloadInv, WorksOnValid
  <2>2. QED
    BY <1>3, <1>5, <2>1, InstallIsAdministration DEF InstallScoring
<1>6. CASE InstallRules
  <2>1. reloading.doc \in Documents /\ Valid(reloading.doc)
    BY <1>6 DEF InstallRules, Loading, ReloadInv, WorksOnValid
  <2>2. QED
    BY <1>3, <1>6, <2>1, InstallIsAdministration DEF InstallRules
<1>7. CASE InstallPool
  <2>1. reloading.doc \in Documents /\ Valid(reloading.doc)
    BY <1>7 DEF InstallPool, Loading, ReloadInv, WorksOnValid
  <2>2. CASE PoolFrozen(reloading.doc)
    BY <1>2, <1>7, <2>2 DEF InstallPool, dvars
  <2>3. CASE ~PoolFrozen(reloading.doc)
    BY <1>3, <1>7, <2>1, <2>3, InstallIsAdministration DEF InstallPool, PoolFrozen
  <2>4. QED
    BY <2>2, <2>3
<1>8. QED
  BY <1>1, <1>2, <1>3, <1>4, <1>5, <1>6, <1>7
     DEF ReloadNext, ReloadStep, Edit, Sighup, Receive, LoadConfig, CheckPreferIds,
         InstallDetector, InstallInspection, RotateTokens, hvars

LEMMA ReloadCorrect == ReloadSpec => [](LoopInv /\ DirectOnly /\ ReloadInv)
<1>1. ReloadInit => LoopInv /\ DirectOnly /\ ReloadInv
  BY InitLoopInv, ReloadInitInv DEF ReloadInit, Init, DirectOnly, Idle
<1>2. LoopInv /\ DirectOnly /\ ReloadInv /\ [ReloadNext]_hvars
        => (LoopInv /\ DirectOnly /\ ReloadInv)'
  BY ReloadKeepsLoop, ReloadInvStep
<1>3. QED
  BY <1>1, <1>2, PTL DEF ReloadSpec

----------------------------------------------------------------------------
(* Theorems *)

\* Every field that a reload installs is of its type at every moment of it, and
\* nothing ends a reload between two pieces.
THEOREM ReloadTypeCorrect == ReloadSpec => []ReloadTypeOK
<1>1. LoopInv /\ DirectOnly => TypeOK
  BY DirectTypes
<1>2. TypeOK /\ ReloadInv => ReloadTypeOK
  BY DEF ReloadInv, WorksOnValid, ReloadTypeOK
<1>3. QED
  BY <1>1, <1>2, ReloadCorrect, PTL

\* A request tries an upstream once and stays within the cap it began with,
\* whatever pool, rules and cap are put under it between two attempts.
THEOREM AttemptsStayDistinct == ReloadSpec => []AttemptsDistinct
<1>1. LoopInv => AttemptsDistinct
  <2> SUFFICES ASSUME LoopInv, NEW c \in Callers
               PROVE  req[c].i = Cardinality(req[c].tried) /\ req[c].i <= RetryCeiling
    BY DEF AttemptsDistinct
  <2>1. /\ req[c].i = Cardinality(req[c].tried) /\ req[c].i <= req[c].limit
        /\ req[c].i \in Nat /\ req[c].limit \in 0..RetryCeiling /\ RetryCeiling \in Nat
    BY DialAssumption DEF LoopInv, RequestTypes, WellFormed, Request
  <2>2. QED
    BY <2>1
<1>2. QED
  BY <1>1, ReloadCorrect, PTL

\* An upstream is charged only for its own failures, through every reload.
THEOREM ReloadChargesAreReal == ReloadSpec => []OnlyRealFailuresCharged
<1>1. ReloadInit => OnlyRealFailuresCharged
  BY InitLoopInv DEF ReloadInit
<1>2. ASSUME LoopInv, DirectOnly, ReloadInv, OnlyRealFailuresCharged, [ReloadNext]_hvars
      PROVE  OnlyRealFailuresCharged'
  <2>1. LoopInv'
    BY <1>2, ReloadKeepsLoop
  <2>2. ASSUME NEW c \in Callers, RequestStep(c)
        PROVE  OnlyRealFailuresCharged'
    BY <1>2, <2>2, DialKeepsCharges DEF RequestStep
  <2>3. ASSUME UNCHANGED <<entries, call, req, broke>>
        PROVE  OnlyRealFailuresCharged'
    BY <1>2, <2>1, <2>3, QuietKeepsCharges
  <2>4. QED
    BY <1>2, <2>2, <2>3
       DEF ReloadNext, ReloadStep, Edit, Sighup, Refresh, Receive, LoadConfig, CheckPreferIds,
           InstallScoring, InstallDetector, InstallPool, InstallRules, InstallInspection,
           RotateTokens, Reload, ReplacePool, ReplaceRules, request_vars, dvars, sbvars, hvars
<1>3. QED
  BY <1>1, <1>2, ReloadCorrect, PTL DEF ReloadSpec

----------------------------------------------------------------------------
(* Rules and pool *)

\* What CheckPreferIDs has found lasts until the pool is in place, unless a
\* refresh changes the pool meanwhile; then the pool has what the rules prefer.
RulesInv ==
    /\ reloading.pc \in {"scoring", "detector", "pool"} /\ "next" \notin refreshed =>
          PreferIds(reloading.doc.rules) \subseteq ProjectedIds(reloading.doc)
    /\ reloading.pc = "rules" /\ "next" \notin refreshed =>
          PreferIds(reloading.doc.rules) \subseteq PoolIds(pool)
    /\ RulesFitPool

LEMMA StaticPoolIds ==
    ASSUME NEW d PROVE PoolIds(StaticPool(d)) = Ids(d)
BY DEF PoolIds, StaticPool, Ids

LEMMA RulesInitInv == ReloadInit => RulesInv
<1> SUFFICES ASSUME ReloadInit PROVE RulesInv
  OBVIOUS
<1>1. disk \in Documents /\ Valid(disk) /\ rules = disk.rules /\ reloading.pc = "idle"
  BY DEF ReloadInit, Resting
<1>2. CASE hasBlocks
  BY <1>1, <1>2 DEF ReloadInit, RulesInv, RulesFitPool
<1>3. CASE ~hasBlocks
  <2>1. ~disk.blocks /\ pool = StaticPool(disk)
    BY <1>3 DEF ReloadInit
  <2>2. PreferIds(rules) \subseteq PoolIds(pool)
    BY <1>1, <2>1, StaticPoolIds DEF Valid, RulesValid
  <2>3. QED
    BY <1>1, <2>2 DEF RulesInv, RulesFitPool
<1>4. QED
  BY <1>2, <1>3

LEMMA RulesInvStep == ReloadInv /\ RulesInv /\ [ReloadNext]_hvars => RulesInv'
<1> SUFFICES ASSUME ReloadInv, RulesInv, [ReloadNext]_hvars PROVE RulesInv'
  OBVIOUS
<1>1. ASSUME UNCHANGED <<pool, hasBlocks>>
      PROVE  \A d : ProjectedIds(d)' = ProjectedIds(d)
  BY <1>1 DEF ProjectedIds, PoolFrozen
<1>2. CASE UNCHANGED <<pool, rules, reloading, hasBlocks, refreshed>>
  BY <1>2 DEF RulesInv, RulesFitPool, Loading, ProjectedIds, PoolFrozen
<1>3. ASSUME NEW c \in Callers, RequestStep(c)
      PROVE  UNCHANGED <<pool, rules, reloading, hasBlocks, refreshed>>
  <2>1. UNCHANGED <<pool, rules>>
    BY <1>3, ZenonT(30) DEF RequestStep, Step, Walk, Begin, Cancel, Attempt, LeaveLoop,
       PickForced, PickUnforced, PickRanked, PickExhausted, Credited, Stamp, Charged, Trip, DialSucceeds,
       DialCut, DialRefusedUnscored, DialFails, BeginSuccess, BeginFailure, ApplySuccess,
       AcceptFailure, DropFailure, ApplyFailure, TripCascade, sbvars, config_vars
  <2>2. QED
    BY <1>3, <2>1, ZenonT(30) DEF RequestStep, reload_vars, live_vars
<1>4. ASSUME NEW p \in RefreshPools, Refresh(p)
      PROVE  RulesInv'
  BY <1>4 DEF Refresh, RulesInv, RulesFitPool
<1>5. CASE Receive \/ LoadConfig
  BY <1>5 DEF Receive, LoadConfig, Loading, Goes, Resting, RulesInv, RulesFitPool, ReloadInv,
     dvars, sbvars, config_vars, live_vars
<1>6. CASE CheckPreferIds
  <2>1. UNCHANGED <<pool, rules, hasBlocks>> /\ refreshed' = refreshed \ {"next"}
    BY <1>6 DEF CheckPreferIds, dvars, sbvars, config_vars
  <2>2. CASE PreferIds(reloading.doc.rules) \subseteq ProjectedIds(reloading.doc)
    BY <1>1, <1>6, <2>1, <2>2 DEF CheckPreferIds, Loading, Goes, RulesInv, RulesFitPool, ReloadInv
  <2>3. CASE ~(PreferIds(reloading.doc.rules) \subseteq ProjectedIds(reloading.doc))
    BY <1>6, <2>1, <2>3 DEF CheckPreferIds, Loading, Resting, RulesInv, RulesFitPool
  <2>4. QED
    BY <2>2, <2>3
<1>7. CASE InstallScoring \/ InstallDetector
  <2>1. /\ UNCHANGED <<pool, rules, hasBlocks, refreshed>>
        /\ reloading.pc \in {"scoring", "detector"} /\ reloading'.pc \in {"detector", "pool"}
        /\ reloading'.doc = reloading.doc
    BY <1>7 DEF InstallScoring, InstallDetector, Loading, Goes, Reload, live_vars, dvars, sbvars,
       config_vars, ReloadInv
  <2>2. QED
    BY <1>1, <2>1 DEF RulesInv, RulesFitPool, Loading
<1>8. CASE InstallPool
  <2>1. /\ UNCHANGED <<rules, hasBlocks, refreshed>>
        /\ reloading.pc = "pool" /\ reloading'.pc = "rules" /\ reloading'.doc = reloading.doc
    BY <1>8 DEF InstallPool, Loading, Goes, ReplacePool, live_vars, sbvars, config_vars, ReloadInv
  <2>2. PoolIds(pool') = ProjectedIds(reloading.doc)
    BY <1>8, StaticPoolIds DEF InstallPool, ReplacePool, ProjectedIds, sbvars, config_vars
  <2>3. PoolIds(pool)' = PoolIds(pool')
    BY DEF PoolIds
  <2>4. QED
    BY <2>1, <2>2, <2>3 DEF RulesInv, RulesFitPool, Loading
<1>9. CASE InstallRules
  <2>1. /\ UNCHANGED pool /\ rules' = reloading.doc.rules
        /\ reloading.pc = "rules" /\ reloading'.pc = "inspection"
        /\ "live" \notin refreshed' => "next" \notin refreshed
    BY <1>9 DEF InstallRules, Loading, Goes, ReplaceRules, ReloadInv
  <2>2. QED
    BY <2>1 DEF RulesInv, RulesFitPool, Loading
<1>10. CASE InstallInspection \/ RotateTokens
  <2>1. /\ UNCHANGED <<pool, rules, refreshed>>
        /\ reloading.pc \in {"inspection", "tokens"} /\ reloading'.pc \in {"tokens", "idle"}
    BY <1>10 DEF InstallInspection, RotateTokens, Loading, Goes, Resting, dvars, sbvars,
       config_vars, ReloadInv
  <2>2. QED
    BY <2>1 DEF RulesInv, RulesFitPool, Loading
<1>11. QED
  BY <1>2, <1>3, <1>4, <1>5, <1>6, <1>7, <1>8, <1>9, <1>10
     DEF ReloadNext, ReloadStep, Edit, Sighup, dvars, sbvars, config_vars, live_vars,
         reload_vars, hvars

\* CheckPreferIDs runs before anything is installed, and its answer still holds
\* when the rules go live: no force rule is left without a candidate, except by
\* a refresh that drops an upstream after the check.
THEOREM RulesKeepFitting == ReloadSpec => []RulesFitPool
<1>1. RulesInv => RulesFitPool
  BY DEF RulesInv
<1>2. QED
  BY <1>1, RulesInitInv, RulesInvStep, ReloadCorrect, PTL DEF ReloadSpec

\* "Missing auth_tokens_file on SIGHUP keeps the current token set rather than
\* dropping to empty" (reload).
THEOREM AuthStaysOn == ReloadSpec => AuthOffOnlyOnRequest
<1>1. ASSUME [ReloadNext]_hvars, tokens # {}, tokens' = {}, reloading.doc.namesFile
      PROVE  {} \in TokenFiles
  <2>1. CASE RotateTokens
    <3>1. PICK found \in TokenFiles :
             tokens' = IF Readable(reloading.doc, found) THEN TokensOf(reloading.doc, found)
                       ELSE tokens
      BY <2>1 DEF RotateTokens
    <3>2. tokens' = reloading.doc.inline \cup found
      BY <1>1, <3>1 DEF TokensOf
    <3>3. found = {}
      BY <1>1, <3>2
    <3>4. QED
      BY <3>3
  <2>2. CASE UNCHANGED tokens
    BY <1>1, <2>2
  <2>3. QED
    BY <1>1, <2>1, <2>2
       DEF ReloadNext, ReloadStep, RequestStep, Edit, Sighup, Refresh, Receive, LoadConfig,
           CheckPreferIds, InstallScoring, InstallDetector, InstallPool, InstallRules,
           InstallInspection, reload_vars, live_vars, hvars
<1>2. QED
  BY <1>1, PTL DEF ReloadSpec, AuthOffOnlyOnRequest

----------------------------------------------------------------------------
(* The scoreboard under a reload *)

\* Every piece a reload installs, and every refresh, is one section of the
\* scoreboard.
LEMMA ReloadRunsSections == ReloadSpec => AnySpec
<1>1. ASSUME LoopInv, DirectOnly, ReloadInv, PicksInPast, [ReloadNext]_hvars
      PROVE  Sectioned
  <2>1. ASSUME NEW c \in Callers, RequestStep(c)
        PROVE  Sectioned
    BY <1>1, <2>1, DialIsSection DEF RequestStep
  <2>2. ASSUME UNCHANGED dvars
        PROVE  Sectioned
    BY <1>1, <2>2, AsideIsSection DEF dvars, request_vars
  <2>3. ASSUME NEW p \in RefreshPools, Refresh(p)
        PROVE  Sectioned
    <3>1. Administration /\ UNCHANGED request_vars
      BY <2>3, ReloadAssumption DEF Refresh, Administration
    <3>2. QED
      BY <1>1, <3>1, OperatorIsSection
  <2>4. ASSUME InstallScoring \/ InstallRules \/ InstallPool
        PROVE  Sectioned
    <3>1. reloading.doc \in Documents /\ Valid(reloading.doc)
      BY <1>1, <2>4 DEF InstallScoring, InstallRules, InstallPool, Loading, ReloadInv,
         WorksOnValid
    <3>2. UNCHANGED dvars \/ (Administration /\ UNCHANGED request_vars)
      BY <2>4, <3>1, InstallIsAdministration DEF InstallScoring, InstallRules, InstallPool,
         PoolFrozen, dvars
    <3>3. QED
      BY <1>1, <2>2, <3>2, OperatorIsSection
  <2>5. QED
    BY <1>1, <2>1, <2>2, <2>3, <2>4
       DEF ReloadNext, ReloadStep, Edit, Sighup, Receive, LoadConfig, CheckPreferIds,
           InstallDetector, InstallInspection, RotateTokens, hvars
<1>2. LoopInv /\ DirectOnly /\ ReloadInv /\ PicksInPast /\ [ReloadNext]_hvars
        => [AnySection]_sbvars /\ PicksInPast'
  BY <1>1 DEF Sectioned
<1>3. ReloadInit => SBInit /\ PicksInPast
  BY InitPicks DEF ReloadInit, Init
<1>4. QED
  BY <1>2, <1>3, ReloadCorrect, PTL DEF ReloadSpec, AnySpec

\* Through every reload and refresh no pin names an upstream the pool has lost,
\* no cooldown or cascade set under the old scoring outlasts the ceiling, and
\* scores stay paid for by failures.
THEOREM ReloadKeepsScoreboard ==
    ReloadSpec => /\ [](PinsInPool /\ BoundedLockout /\ FailuresAccountForScore)
                  /\ LivePinSurvivesEviction
BY ReloadRunsSections, SectionsKeepPins, SectionsBoundLockout, SectionsCountFailures,
   SectionsSparePins, PTL

=============================================================================
