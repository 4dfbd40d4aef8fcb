----------------------------- MODULE HotReload -----------------------------
(***************************************************************************)
(* SIGHUP: the reloader of cmd/tunnelsmith/main.go reads the configuration *)
(* file, validates it, and installs it piece by piece under the requests   *)
(* of DialFor, the operator's edits, further signals and the refreshes of  *)
(* the pool blocks.                                                        *)
(*                                                                         *)
(* A document is what the file says: the static upstreams in priority      *)
(* order, whether it has [[upstream_pool]] blocks, the rules, the scoring, *)
(* the tokens.  `parses' stands for TOML and for every check of Validate   *)
(* that concerns one field alone.  The listener's settings are read by     *)
(* Forward's requests; here only which document they come from matters.    *)
(* The clock stands still: a reload is short beside a cooldown.            *)
(***************************************************************************)
EXTENDS DialFor

CONSTANTS
    Documents,    \* what the configuration file may say
    TokenFiles,   \* what a read of auth_tokens_file may find, the next two among it
    Missing, Unreadable, NoDocument,
    RefreshPools  \* pools a refresh tick may compose

VARIABLES
    disk,       \* the configuration file
    hup,        \* a SIGHUP waits in hupCh
    reloading,  \* where reload is, and the document it works on
    hasBlocks,  \* runningHasPool
    tokens,     \* the control listener's token set
    detector,   \* the documents the listener's detector and gate, and its
    inspection, \* inspection rules and buffer, come from
    \* History, read by no action:
    refreshed   \* the rules, of "live" and "next", the pool was refreshed under
                \* after they were checked

live_vars == <<hasBlocks, tokens, detector, inspection, refreshed>>
file_vars == <<disk, hup>>
reload_vars == <<file_vars, reloading, live_vars>>
hvars == <<dvars, reload_vars>>

----------------------------------------------------------------------------
(* Validation *)

PreferIds(rs) == UNION {Range(rs[h].prefer) : h \in Hosts}

Ids(d) == Range(d.static)

UpstreamsValid(d) ==
    /\ d.static # <<>> \/ d.blocks
    /\ Cardinality(Ids(d)) = Len(d.static)

\* A rule lists at least one id, and ids of its own file unless blocks bring
\* some that are not known yet.
RulesValid(d) ==
    /\ \A h \in Hosts : d.rules[h].force => d.rules[h].prefer # <<>>
    /\ d.blocks \/ PreferIds(d.rules) \subseteq Ids(d)

Valid(d) == d.parses /\ UpstreamsValid(d) /\ RulesValid(d)

\* Pool changes wait for a restart once blocks are in play.
PoolFrozen(d) == hasBlocks \/ d.blocks

\* Defect: the ids are those of the file whatever the pool is made of.
ProjectedIdsOfFile(d) == Ids(d)

\* Defect: the ids are always those of the running pool.
ProjectedIdsOfPool(d) == PoolIds(pool)

\* projectedUpstreamIDs: the ids the pool will have after the reload.
ProjectedIds(d) == IF PoolFrozen(d) THEN PoolIds(pool) ELSE Ids(d)

StaticPool(d) == [order |-> d.static, retryCap |-> d.retryCap]

\* Whatever fields a document has, what a valid one brings can be installed.
ASSUME ReloadAssumption ==
    /\ RefreshPools \subseteq Pools
    /\ \A d \in Documents :
         /\ d.blocks \in BOOLEAN /\ d.rules \in RuleSets /\ d.scoring \in Configs
         /\ Valid(d) /\ ~d.blocks => StaticPool(d) \in Pools

\* buildControlTokens, for what the read of the file found.
Readable(d, found) == d.namesFile => found \notin {Missing, Unreadable}
TokensOf(d, found) ==
    IF d.namesFile /\ Readable(d, found) THEN d.inline \cup found ELSE d.inline

----------------------------------------------------------------------------
(* The operator and the refresh loops *)

Edit(d) ==
    /\ disk # d /\ disk' = d
    /\ UNCHANGED <<dvars, hup, reloading, live_vars>>

\* hupCh holds one signal; another one is dropped while it waits.
Sighup ==
    /\ hup' = TRUE
    /\ UNCHANGED <<dvars, disk, reloading, live_vars>>

Refresh(p) ==
    /\ hasBlocks
    /\ ReplacePool(p)
    /\ refreshed' = {"live", "next"}
    /\ UNCHANGED <<request_vars, file_vars, reloading, hasBlocks, tokens, detector, inspection>>

----------------------------------------------------------------------------
(* reload *)

Loading(pc) == reloading.pc = pc
Goes(pc) == reloading' = [reloading EXCEPT !.pc = pc]
Resting == [pc |-> "idle", doc |-> NoDocument]

Receive ==
    /\ Loading("idle") /\ hup
    /\ hup' = FALSE
    /\ Goes("load")
    /\ UNCHANGED <<dvars, disk, live_vars>>

\* config.Load and NewRuleSet: an invalid file changes nothing.
LoadConfig ==
    /\ Loading("load")
    /\ reloading' = IF Valid(disk) THEN [pc |-> "check", doc |-> disk] ELSE Resting
    /\ UNCHANGED <<dvars, file_vars, live_vars>>

CheckPreferIds ==
    /\ Loading("check")
    /\ IF PreferIds(reloading.doc.rules) \subseteq ProjectedIds(reloading.doc)
       THEN Goes("scoring") ELSE reloading' = Resting
    /\ refreshed' = refreshed \ {"next"}
    /\ UNCHANGED <<dvars, file_vars, hasBlocks, tokens, detector, inspection>>

InstallScoring ==
    /\ Loading("scoring")
    /\ Reload(reloading.doc.scoring)
    /\ Goes("detector")
    /\ UNCHANGED <<request_vars, file_vars, live_vars>>

InstallDetector ==
    /\ Loading("detector")
    /\ detector' = reloading.doc
    /\ Goes("pool")
    /\ UNCHANGED <<dvars, file_vars, hasBlocks, tokens, inspection, refreshed>>

\* Defect: a reload that leaves the pool alone ends there.
InstallPoolOrStop ==
    /\ Loading("pool")
    /\ IF PoolFrozen(reloading.doc) THEN reloading' = Resting /\ UNCHANGED sbvars
       ELSE Goes("rules") /\ ReplacePool(StaticPool(reloading.doc))
    /\ UNCHANGED <<request_vars, file_vars, live_vars>>

\* swapStaticPool cannot fail for a document that is valid.
InstallPool ==
    /\ Loading("pool")
    /\ IF PoolFrozen(reloading.doc) THEN UNCHANGED sbvars
       ELSE ReplacePool(StaticPool(reloading.doc))
    /\ Goes("rules")
    /\ UNCHANGED <<request_vars, file_vars, live_vars>>

InstallRules ==
    /\ Loading("rules")
    /\ ReplaceRules(reloading.doc.rules)
    /\ Goes("inspection")
    /\ refreshed' = IF "next" \in refreshed THEN refreshed \cup {"live"}
                    ELSE refreshed \ {"live"}
    /\ UNCHANGED <<request_vars, file_vars, hasBlocks, tokens, detector, inspection>>

InstallInspection ==
    /\ Loading("inspection")
    /\ inspection' = reloading.doc
    /\ Goes("tokens")
    /\ UNCHANGED <<dvars, file_vars, hasBlocks, tokens, detector, refreshed>>

\* Defect: a missing file is as good as an empty one, as it is at startup.
RotateTokensAnyway ==
    /\ Loading("tokens")
    /\ \E found \in TokenFiles : tokens' = TokensOf(reloading.doc, found)
    /\ reloading' = Resting
    /\ UNCHANGED <<dvars, file_vars, hasBlocks, detector, inspection, refreshed>>

\* Tokens of a file that is missing or cannot be read stay as they are.
RotateTokens ==
    /\ Loading("tokens")
    /\ \E found \in TokenFiles :
         tokens' = IF Readable(reloading.doc, found) THEN TokensOf(reloading.doc, found)
                   ELSE tokens
    /\ reloading' = Resting
    /\ UNCHANGED <<dvars, file_vars, hasBlocks, detector, inspection, refreshed>>

ReloadStep ==
    \/ Receive \/ LoadConfig \/ CheckPreferIds
    \/ InstallScoring \/ InstallDetector \/ InstallPool
    \/ InstallRules \/ InstallInspection \/ RotateTokens

----------------------------------------------------------------------------

\* Startup ran with the file as it is: a missing token file is taken for an
\* empty one, one that cannot be read stops it.
ReloadInit ==
    /\ Init
    /\ disk \in {d \in Documents : Valid(d)}
    /\ hasBlocks = disk.blocks
    /\ cfg = disk.scoring /\ rules = disk.rules
    /\ pool.retryCap = disk.retryCap
    /\ IF hasBlocks THEN Ids(disk) \cup PreferIds(rules) \subseteq PoolIds(pool)
       ELSE pool = StaticPool(disk)
    /\ \E found \in TokenFiles \ {Unreadable} : tokens = TokensOf(disk, found)
    /\ detector = disk /\ inspection = disk
    /\ reloading = Resting
    /\ hup = FALSE /\ refreshed = {}

RequestStep(c) ==
    /\ \/ \E h \in Hosts : Begin(c, h)
       \/ Step(c)
       \/ Cancel(c)
    /\ UNCHANGED reload_vars

ReloadNext ==
    \/ \E c \in Callers : RequestStep(c)
    \/ \E d \in Documents : Edit(d)
    \/ Sighup
    \/ \E p \in RefreshPools : Refresh(p)
    \/ ReloadStep

\* The reload goroutine and the requests run when they can.
ReloadSpec ==
    /\ ReloadInit /\ [][ReloadNext]_hvars
    /\ WF_hvars(ReloadStep)
    /\ \A c \in Callers : WF_hvars(Proceeds(c) /\ UNCHANGED reload_vars)

----------------------------------------------------------------------------
(* Properties *)

ReloadTypeOK ==
    /\ TypeOK
    /\ disk \in Documents
    /\ {hup, hasBlocks} \subseteq BOOLEAN /\ refreshed \subseteq {"live", "next"}
    /\ reloading.pc \in {"idle", "load", "check", "scoring", "detector", "pool",
                         "rules", "inspection", "tokens"}
    /\ reloading.doc \in Documents \cup {NoDocument}
    /\ {detector, inspection} \subseteq Documents
    \* Nothing ends a reload half way.
    /\ reloading.pc \notin {"pool", "rules", "inspection"} => detector = inspection

\* CheckPreferIDs runs "BEFORE any partial state is installed" (reload) and
\* the pool is swapped before the rules: outside that window, and as long as
\* no refresh drops an upstream, every id a rule prefers is in the pool, so a
\* force rule never empties the candidates.
RulesFitPool ==
    "live" \notin refreshed /\ ~Loading("rules") => PreferIds(rules) \subseteq PoolIds(pool)

\* A request tries an upstream once and stays within the cap (DialFor), whatever
\* pool, rules and cap a reload or a refresh puts under it between attempts.
AttemptsDistinct ==
    \A c \in Callers : req[c].i = Cardinality(req[c].tried) /\ req[c].i <= RetryCeiling

Applied(d) ==
    /\ cfg = d.scoring /\ rules = d.rules /\ pool = StaticPool(d)
    /\ detector = d /\ inspection = d

\* A SIGHUP takes effect as a whole in a deployment without pool blocks, unless
\* the file is edited again: although it is dropped while another one waits,
\* and may find a reload half done with what the file said before.
LastSignalApplies ==
    \A d \in {d \in Documents : Valid(d) /\ ~d.blocks} :
       hup /\ disk = d /\ ~hasBlocks ~> Applied(d) \/ disk # d

\* "Missing auth_tokens_file on SIGHUP keeps the current token set rather than
\* dropping to empty" (reload): while the file, when it can be read, holds
\* tokens, naming it never switches authentication off.
AuthOffOnlyOnRequest ==
    [][/\ tokens # {} /\ tokens' = {}
       /\ reloading.doc.namesFile
       => {} \in TokenFiles]_hvars

=============================================================================
