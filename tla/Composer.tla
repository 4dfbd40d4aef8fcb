------------------------------ MODULE Composer ------------------------------
(***************************************************************************)
(* Where the running pool comes from: the refresh loop of every            *)
(* [[upstream_pool]] block, the auth-heal goroutine of a block whose       *)
(* expander can heal, the vendor's list with its disk cache, the           *)
(* poolComposer that merges the blocks (cmd/tunnelsmith/main.go), and the  *)
(* SIGHUP swap of a deployment that has only static [[upstream]] entries.  *)
(*                                                                         *)
(* An expansion is a set of upstream entries; two entries may share an id, *)
(* which is what assertUniqueUpstreamIDs refuses.  Priorities, which only  *)
(* order the pool, are left out.  upstream.New refuses none of the entries *)
(* an expander or a validated configuration builds.                        *)
(*                                                                         *)
(* Update runs under poolComposer.mu.  Installing the pool and dropping    *)
(* the cached transports are separate steps, because requests run between  *)
(* them (module Transports).                                               *)
(***************************************************************************)
EXTENDS Naturals, FiniteSets

CONSTANTS
    Blocks,       \* [[upstream_pool]] blocks
    Healers,      \* blocks whose expander implements provider.Healer
    Caching,      \* blocks with a cache_path
    Lists,        \* Lists[b]: the expansions vendor b's answers turn into
    Statics,      \* the static [[upstream]] lists a configuration may hold
    Deployments,  \* the sets of blocks a deployment may run with
    MaxChanges,   \* bound: how often vendors change their lists
    NoList, NoOne

\* Every static list has unique ids: config validation checks them.
ASSUME ListsAssumption ==
    /\ Healers \subseteq Blocks /\ Caching \subseteq Blocks
    /\ Deployments \subseteq SUBSET Blocks
    /\ \A s \in Statics : \A u, v \in s : u.id = v.id => u = v
    /\ MaxChanges \in Nat

VARIABLES
    blocks,     \* the blocks of this deployment
    static,     \* poolComposer.static, or the static list last reloaded
    vendor,     \* the list each vendor would answer with
    cached,     \* the list in each block's cache file
    worker,     \* the refresh loop and the heal goroutine of each block
    pool,       \* the pool installed in the scoreboard
    installed,  \* composerBlock.current
    swapper,    \* who is between ReplacePool and the end of its swap
    changes

cvars == <<blocks, static, vendor, cached, worker, pool, installed, swapper, changes>>

----------------------------------------------------------------------------

Workers == (Blocks \X {"refresh"}) \cup (Healers \X {"heal"})
BlockOf(w) == w[1]

\* SIGHUP's goroutine: one reload at a time, so it needs no worker state.
Sighup == <<NoOne, "sighup">>

AllLists == UNION {Lists[b] : b \in Blocks}

\* Having no list is no list, and nobody is neither a worker nor SIGHUP.
ASSUME NobodyAssumption ==
    NoList \notin AllLists /\ NoOne \notin Workers \cup {Sighup}

Resting == [pc |-> "resting", next |-> NoList]

Ids(list) == {u.id : u \in list}

\* static followed by every block's expansion.
Merged(expansions) == static \cup UNION {expansions[b] : b \in blocks}

\* assertUniqueUpstreamIDs over the merged slice, in which an entry of two
\* sources appears twice; NewPool refuses an empty one.
Installable(expansions) ==
    /\ Merged(expansions) # {}
    /\ \A u, v \in Merged(expansions) : u.id = v.id => u = v
    /\ \A b \in blocks : Ids(static) \cap Ids(expansions[b]) = {}
    /\ \A a, b \in blocks : a # b => Ids(expansions[a]) \cap Ids(expansions[b]) = {}

Replaced(b, next) == [installed EXCEPT ![b] = next]

\* Defect: the comparison looks at ids, as diffUpstreams does for the log.
SameIds(b, next) == Ids(installed[b]) = Ids(next)

\* reflect.DeepEqual with the last installed expansion.
Unchanged(b, next) == installed[b] = next

----------------------------------------------------------------------------
(* Fetching *)

\* The vendor rotates addresses or credentials, adds or drops proxies.
VendorChanges(b, list) ==
    /\ b \in blocks /\ changes < MaxChanges
    /\ list # vendor[b]
    /\ vendor' = [vendor EXCEPT ![b] = list]
    /\ changes' = changes + 1
    /\ UNCHANGED <<blocks, static, cached, worker, pool, installed, swapper>>

\* A refresh tick, or a heal the driver dispatches: one of each at a time.
Start(w) ==
    /\ BlockOf(w) \in blocks
    /\ worker[w] = Resting
    /\ worker' = [worker EXCEPT ![w].pc = "fetching"]
    /\ UNCHANGED <<blocks, static, vendor, cached, pool, installed, swapper, changes>>

\* The vendor answers.
FetchOnline(w) ==
    /\ worker[w].pc = "fetching"
    /\ worker' = [worker EXCEPT ![w] =
                    [pc |-> IF BlockOf(w) \in Caching THEN "saving" ELSE "fetched",
                     next |-> vendor[BlockOf(w)]]]
    /\ UNCHANGED <<blocks, static, vendor, cached, pool, installed, swapper, changes>>

\* The answer goes to the cache file; a failed write is only logged.
Save(w) ==
    /\ worker[w].pc = "saving"
    /\ \/ cached' = [cached EXCEPT ![BlockOf(w)] = worker[w].next]
       \/ UNCHANGED cached
    /\ worker' = [worker EXCEPT ![w].pc = "fetched"]
    /\ UNCHANGED <<blocks, static, vendor, pool, installed, swapper, changes>>

\* Defect: the fallback does not ask whether there is a cache to read.
FetchCachedBlindly(w) ==
    /\ worker[w].pc = "fetching"
    /\ BlockOf(w) \in Caching
    /\ worker' = [worker EXCEPT ![w] = [pc |-> "fetched", next |-> cached[BlockOf(w)]]]
    /\ UNCHANGED <<blocks, static, vendor, cached, pool, installed, swapper, changes>>

\* A transient failure with a readable cache file counts as a success.
FetchCached(w) ==
    /\ worker[w].pc = "fetching"
    /\ BlockOf(w) \in Caching /\ cached[BlockOf(w)] # NoList
    /\ worker' = [worker EXCEPT ![w] = [pc |-> "fetched", next |-> cached[BlockOf(w)]]]
    /\ UNCHANGED <<blocks, static, vendor, cached, pool, installed, swapper, changes>>

\* Any other failure: the previous snapshot stays.
FetchFails(w) ==
    /\ worker[w].pc = "fetching"
    /\ worker' = [worker EXCEPT ![w] = Resting]
    /\ UNCHANGED <<blocks, static, vendor, cached, pool, installed, swapper, changes>>

----------------------------------------------------------------------------
(* poolComposer.Update *)

UpdateUnchanged(w) ==
    /\ worker[w].pc = "fetched" /\ swapper = NoOne
    /\ Unchanged(BlockOf(w), worker[w].next)
    /\ worker' = [worker EXCEPT ![w] = Resting]
    /\ UNCHANGED <<blocks, static, vendor, cached, pool, installed, swapper, changes>>

\* Defect: the block's cache advances although the swap was refused.
UpdateRefusedForgetting(w) ==
    /\ worker[w].pc = "fetched" /\ swapper = NoOne
    /\ ~Unchanged(BlockOf(w), worker[w].next)
    /\ ~Installable(Replaced(BlockOf(w), worker[w].next))
    /\ installed' = Replaced(BlockOf(w), worker[w].next)
    /\ worker' = [worker EXCEPT ![w] = Resting]
    /\ UNCHANGED <<blocks, static, vendor, cached, pool, swapper, changes>>

\* A merged list that cannot be installed leaves pool and cache as they are.
UpdateRefused(w) ==
    /\ worker[w].pc = "fetched" /\ swapper = NoOne
    /\ ~Unchanged(BlockOf(w), worker[w].next)
    /\ ~Installable(Replaced(BlockOf(w), worker[w].next))
    /\ worker' = [worker EXCEPT ![w] = Resting]
    /\ UNCHANGED <<blocks, static, vendor, cached, pool, installed, swapper, changes>>

\* ReplacePool with the merged list, and the commit that follows it: nobody
\* reads composerBlock.current without the composer's mutex.
Install(w) ==
    /\ worker[w].pc = "fetched" /\ swapper = NoOne
    /\ ~Unchanged(BlockOf(w), worker[w].next)
    /\ LET expansions == Replaced(BlockOf(w), worker[w].next) IN
         /\ Installable(expansions)
         /\ pool' = Merged(expansions)
         /\ installed' = expansions
    /\ swapper' = w
    /\ worker' = [worker EXCEPT ![w] = Resting]
    /\ UNCHANGED <<blocks, static, vendor, cached, changes>>

\* SIGHUP's swapStaticPool: only where no pool block is in play.
InstallStatic(list) ==
    /\ blocks = {} /\ swapper = NoOne
    /\ list # {}
    /\ static' = list /\ pool' = list
    /\ swapper' = Sighup
    /\ UNCHANGED <<blocks, vendor, cached, worker, installed, changes>>

\* CloseTransportsExcept, the end of either swap.
FinishSwap ==
    /\ swapper # NoOne
    /\ swapper' = NoOne
    /\ UNCHANGED <<blocks, static, vendor, cached, worker, pool, installed, changes>>

----------------------------------------------------------------------------

\* Startup: the first snapshot of a block comes from the vendor or from what
\* an earlier run left in the cache.
Init ==
    /\ blocks \in Deployments
    /\ static \in Statics
    /\ vendor \in [Blocks -> AllLists] /\ installed \in [Blocks -> AllLists]
    /\ \A b \in Blocks : vendor[b] \in Lists[b] /\ installed[b] \in Lists[b]
    /\ cached \in [Blocks -> AllLists \cup {NoList}]
    /\ \A b \in Blocks : cached[b] \in IF b \in Caching THEN Lists[b] \cup {NoList}
                                       ELSE {NoList}
    /\ Installable(installed)
    /\ pool = Merged(installed)
    /\ worker = [w \in Workers |-> Resting]
    /\ swapper = NoOne /\ changes = 0

\* What a worker does once it has an answer.
Update(w) == UpdateUnchanged(w) \/ UpdateRefused(w) \/ Install(w)

Fetch(w) == Start(w) \/ FetchOnline(w) \/ Save(w) \/ FetchCached(w) \/ FetchFails(w)

Next ==
    \/ \E b \in Blocks : \E list \in Lists[b] : VendorChanges(b, list)
    \/ \E w \in Workers : Fetch(w) \/ Update(w)
    \/ \E list \in Statics : InstallStatic(list)
    \/ FinishSwap

\* Refresh timers fire, goroutines run, Go's mutexes do not starve, and a
\* vendor that is asked again and again answers again and again.
Fairness ==
    /\ WF_cvars(FinishSwap)
    /\ \A w \in Workers : WF_cvars(Save(w)) /\ SF_cvars(Update(w))
    /\ \A b \in Blocks : /\ WF_cvars(Start(<<b, "refresh">>))
                         /\ SF_cvars(FetchOnline(<<b, "refresh">>))

Spec == Init /\ [][Next]_cvars /\ Fairness

----------------------------------------------------------------------------
(* Properties *)

\* Types; a worker never reaches Update without a list.
TypeOK ==
    /\ blocks \in Deployments /\ static \in Statics
    /\ vendor \in [Blocks -> AllLists] /\ installed \in [Blocks -> AllLists]
    /\ cached \in [Blocks -> AllLists \cup {NoList}]
    /\ worker \in [Workers ->
         [pc : {"resting", "fetching", "saving", "fetched"}, next : AllLists \cup {NoList}]]
    /\ \A w \in Workers :
         worker[w].pc \in {"saving", "fetched"} => worker[w].next # NoList
    /\ swapper \in Workers \cup {Sighup, NoOne}
    /\ changes \in 0..MaxChanges

\* composer.Update answers "unchanged" from its cache alone, so the cache must
\* say what the scoreboard runs: the pool is the merge of the static list and
\* of every block's cached expansion, whatever swaps were refused before and
\* whichever of refresh and heal came first.
CacheIsRunningPool == pool = Merged(installed)

\* The vendors have stopped changing at lists that can run together, and no
\* cache file holds an older one.
Settled ==
    /\ blocks # {} /\ Installable(vendor)
    /\ \A b \in Caching : cached[b] \in {NoList, vendor[b]}

\* A swap that failed is attempted again on a later tick, and an answer that
\* was overtaken does not stay: once vendors and caches have settled the pool
\* comes to be those lists, however many earlier ones were refused and however
\* refresh and heal interleaved.
PoolCatchesUp == <>[]Settled => <>[](pool = Merged(vendor))

=============================================================================
