--------------------------- MODULE Composer_proofs ---------------------------
(***************************************************************************)
(* The composer's cache says what the scoreboard runs, and a transport     *)
(* outlives the pool it was built for only through a request caught in     *)
(* between, for any blocks, vendor lists, static lists, pools built and    *)
(* requests in flight.                                                     *)
(***************************************************************************)
EXTENDS Transports, TLAPS

----------------------------------------------------------------------------
(* The composer *)

LEMMA BlockOfWorker ==
    ASSUME NEW w \in Workers
    PROVE  BlockOf(w) \in Blocks
BY ListsAssumption DEF Workers, BlockOf

\* Types, list by list.
ListTypes ==
    /\ blocks \in Deployments /\ static \in Statics
    /\ vendor \in [Blocks -> AllLists] /\ installed \in [Blocks -> AllLists]
    /\ cached \in [Blocks -> AllLists \cup {NoList}]
    /\ changes \in 0..MaxChanges

WorkerTypes ==
    /\ worker \in [Workers ->
         [pc : {"resting", "fetching", "saving", "fetched"}, next : AllLists \cup {NoList}]]
    /\ \A w \in Workers :
         worker[w].pc \in {"saving", "fetched"} => worker[w].next # NoList
    /\ swapper \in Workers \cup {Sighup, NoOne}

PoolInv == ListTypes /\ WorkerTypes /\ CacheIsRunningPool

\* A worker that moves: what it carries is a list of the right type.
LEMMA WorkerMoves ==
    ASSUME WorkerTypes, NEW w \in Workers,
           NEW next \in [pc : {"resting", "fetching", "saving", "fetched"},
                         next : AllLists \cup {NoList}],
           next.pc \in {"saving", "fetched"} => next.next # NoList,
           worker' = [worker EXCEPT ![w] = next],
           swapper' \in Workers \cup {Sighup, NoOne}
    PROVE  WorkerTypes'
<1>1. worker'[w] = next /\ \A v \in Workers \ {w} : worker'[v] = worker[v]
  BY DEF WorkerTypes
<1>2. QED
  BY <1>1 DEF WorkerTypes

\* A refresh loop or heal goroutine up to the answer it has.
LEMMA FetchKeepsPool ==
    ASSUME PoolInv, NEW w \in Workers, Fetch(w)
    PROVE  PoolInv'
<1> DEFINE Moves == [pc : {"resting", "fetching", "saving", "fetched"},
                     next : AllLists \cup {NoList}]
<1>1. /\ worker[w] \in Moves /\ BlockOf(w) \in Blocks /\ NoList \notin AllLists
      /\ swapper \in Workers \cup {Sighup, NoOne} /\ WorkerTypes /\ ListTypes
      /\ worker[w].pc \in {"saving", "fetched"} => worker[w].next # NoList
  BY BlockOfWorker, NobodyAssumption DEF PoolInv, WorkerTypes
<1>2. Resting \in Moves /\ Resting.pc = "resting"
  BY DEF Resting
<1>3. PICK next \in Moves :
         /\ next.pc \in {"saving", "fetched"} => next.next # NoList
         /\ worker' = [worker EXCEPT ![w] = next]
  <2>1. CASE Start(w)
    BY <1>1, <2>1 DEF Start, Resting
  <2>2. CASE FetchOnline(w)
    <3> DEFINE pc == IF BlockOf(w) \in Caching THEN "saving" ELSE "fetched"
               list == vendor[BlockOf(w)]
    <3>1. pc \in {"saving", "fetched"} /\ list \in AllLists
      BY <1>1 DEF ListTypes
    <3>2. worker' = [worker EXCEPT ![w] = [pc |-> pc, next |-> list]]
      BY <2>2 DEF FetchOnline
    <3> HIDE DEF pc, list
    <3>3. [pc |-> pc, next |-> list] \in Moves
      BY <3>1
    <3>4. list # NoList
      BY <1>1, <3>1
    <3>5. QED
      BY <3>2, <3>3, <3>4
  <2>3. CASE Save(w)
    BY <1>1, <2>3 DEF Save
  <2>4. CASE FetchCached(w)
    BY <1>1, <2>4 DEF FetchCached, ListTypes
  <2>5. CASE FetchFails(w)
    BY <1>2, <2>5 DEF FetchFails
  <2>6. QED
    BY <2>1, <2>2, <2>3, <2>4, <2>5 DEF Fetch
<1>4. /\ UNCHANGED <<blocks, static, vendor, pool, installed, swapper, changes>>
      /\ cached' \in [Blocks -> AllLists \cup {NoList}]
  BY <1>1 DEF Fetch, Start, FetchOnline, Save, FetchCached, FetchFails, ListTypes
<1>5. WorkerTypes'
  BY <1>1, <1>3, <1>4, WorkerMoves
<1>6. ListTypes'
  BY <1>1, <1>4 DEF ListTypes
<1>7. CacheIsRunningPool'
  BY <1>4 DEF PoolInv, CacheIsRunningPool, Merged
<1>8. QED
  BY <1>5, <1>6, <1>7 DEF PoolInv

\* poolComposer.Update: a swap and the commit after it, or neither.
LEMMA UpdateKeepsPool ==
    ASSUME PoolInv, NEW w \in Workers, Update(w)
    PROVE  PoolInv'
<1>1. /\ WorkerTypes /\ ListTypes /\ BlockOf(w) \in Blocks
      /\ swapper \in Workers \cup {Sighup, NoOne}
  BY BlockOfWorker DEF PoolInv, WorkerTypes
<1>2. Resting \in [pc : {"resting", "fetching", "saving", "fetched"},
                   next : AllLists \cup {NoList}] /\ Resting.pc = "resting"
  BY DEF Resting
<1>3. worker' = [worker EXCEPT ![w] = Resting]
  BY DEF Update, UpdateUnchanged, UpdateRefused, Install
<1>4. swapper' \in {swapper, w} /\ UNCHANGED <<blocks, static, vendor, cached, changes>>
  BY DEF Update, UpdateUnchanged, UpdateRefused, Install
<1>5. WorkerTypes'
  BY <1>1, <1>2, <1>3, <1>4, WorkerMoves
<1>6. ASSUME UNCHANGED <<pool, installed>>
      PROVE  ListTypes' /\ CacheIsRunningPool'
  BY <1>1, <1>4, <1>6 DEF PoolInv, ListTypes, CacheIsRunningPool, Merged
<1>7. ASSUME Install(w)
      PROVE  ListTypes' /\ CacheIsRunningPool'
  <2>1. worker[w].next \in AllLists
    BY <1>1, <1>7 DEF Install, WorkerTypes
  <2>2. /\ installed' = Replaced(BlockOf(w), worker[w].next)
        /\ pool' = Merged(Replaced(BlockOf(w), worker[w].next))
    BY <1>7 DEF Install
  <2>3. CacheIsRunningPool'
    BY <1>4, <2>2 DEF CacheIsRunningPool, Merged
  <2>4. ListTypes'
    BY <1>1, <1>4, <2>1, <2>2 DEF ListTypes, Replaced
  <2>5. QED
    BY <2>3, <2>4
<1>8. QED
  BY <1>5, <1>6, <1>7 DEF PoolInv, Update, UpdateUnchanged, UpdateRefused

LEMMA NextKeepsPool ==
    ASSUME PoolInv, [Next]_cvars
    PROVE  PoolInv'
<1>1. ASSUME NEW b \in Blocks, NEW list \in Lists[b], VendorChanges(b, list)
      PROVE  PoolInv'
  <2>1. list \in AllLists
    BY DEF AllLists
  <2>2. QED
    BY <1>1, <2>1, ListsAssumption
    DEF VendorChanges, PoolInv, ListTypes, WorkerTypes, CacheIsRunningPool, Merged
<1>2. ASSUME NEW w \in Workers, Fetch(w) \/ Update(w)
      PROVE  PoolInv'
  BY <1>2, FetchKeepsPool, UpdateKeepsPool
<1>3. ASSUME NEW list \in Statics, InstallStatic(list)
      PROVE  PoolInv'
  BY <1>3 DEF InstallStatic, PoolInv, ListTypes, WorkerTypes, CacheIsRunningPool, Merged
<1>4. CASE FinishSwap
  BY <1>4 DEF FinishSwap, PoolInv, ListTypes, WorkerTypes, CacheIsRunningPool, Merged
<1>5. CASE UNCHANGED cvars
  BY <1>5 DEF cvars, PoolInv, ListTypes, WorkerTypes, CacheIsRunningPool, Merged
<1>6. QED
  BY <1>1, <1>2, <1>3, <1>4, <1>5 DEF Next

LEMMA InitHasPool == Init => PoolInv
<1> SUFFICES ASSUME Init PROVE PoolInv
  OBVIOUS
<1>1. ListTypes /\ CacheIsRunningPool
  BY ListsAssumption DEF Init, ListTypes, CacheIsRunningPool
<1>2. worker = [w \in Workers |-> Resting] /\ swapper = NoOne
  BY DEF Init
<1>3. WorkerTypes
  BY <1>2 DEF WorkerTypes, Resting
<1>4. QED
  BY <1>1, <1>3 DEF PoolInv

LEMMA PoolInvInductive == Init /\ [][Next]_cvars => []PoolInv
BY InitHasPool, NextKeepsPool, PTL

\* Types of poolComposer and of the workers: one never reaches Update without
\* a list.
THEOREM ComposerTypeCorrect == Spec => []TypeOK
<1>1. PoolInv => TypeOK
  BY DEF PoolInv, ListTypes, WorkerTypes, TypeOK
<1>2. QED
  BY <1>1, PoolInvInductive, PTL DEF Spec

\* composer.Update may answer "unchanged" from its cache alone: the pool is the
\* merge of the static list and of every block's cached expansion, whatever was
\* refused and whichever of refresh, heal and SIGHUP came first.
THEOREM CacheTellsPool == Spec => []CacheIsRunningPool
<1>1. PoolInv => CacheIsRunningPool
  BY DEF PoolInv
<1>2. QED
  BY <1>1, PoolInvInductive, PTL DEF Spec

----------------------------------------------------------------------------
(* The transports *)

\* Requests and transports add nothing to what the composer does.
LEMMA TransportsRunComposer == TransportsSpec => Init /\ [][Next]_cvars
<1>1. TransportsInit => Init
  BY DEF TransportsInit
<1>2. [TransportsNext]_tvars => [Next]_cvars
  <2> SUFFICES ASSUME [TransportsNext]_tvars PROVE [Next]_cvars
    OBVIOUS
  <2>1. CASE SwapPool
    BY <2>1 DEF SwapPool, Next, Update
  <2>2. CASE DropTransports
    BY <2>2 DEF DropTransports, Next
  <2>3. CASE Background
    BY <2>3 DEF Background, Next, Update
  <2>4. CASE UNCHANGED cvars
    BY <2>4
  <2>5. QED
    BY <2>1, <2>2, <2>3, <2>4 DEF TransportsNext, Pick, TransportFor, tvars
<1>3. QED
  BY <1>1, <1>2, PTL DEF TransportsSpec

Holds(r) == req[r] # Free

TransportTypes ==
    /\ build \in Nat \ {0}
    /\ transports \in [AllIds -> 0..build]
    /\ req \in [Requests -> [id : AllIds \cup {NoOne}, build : 0..build]]
    /\ \A r \in Requests : Holds(r) => req[r].id \in AllIds /\ req[r].build \in 1..build

\* Between swaps, and unless the last one ended around a request, nobody holds
\* an object of an earlier pool: neither a transport nor a request that may
\* still pin one.
NothingStale ==
    swapper = NoOne /\ ~straddled =>
       /\ \A id \in AllIds : Fresh(id)
       /\ \A r \in Requests : Holds(r) => req[r].build = build

TransportInv == TransportTypes /\ NothingStale

LEMMA TransportInvKept ==
    ASSUME TransportInv, [TransportsNext]_tvars
    PROVE  TransportInv'
<1> USE DEF TransportInv, TransportTypes, NothingStale, Holds, Fresh, None
<1>1. ASSUME NEW r \in Requests, NEW id \in AllIds, Pick(r, id)
      PROVE  TransportInv'
  BY <1>1 DEF Pick, Free, cvars
<1>2. ASSUME NEW r \in Requests, TransportFor(r)
      PROVE  TransportInv'
  <2>1. /\ req[r].id \in AllIds /\ req[r].build \in 1..build
        /\ transports' = [transports EXCEPT ![req[r].id] =
                             IF transports[req[r].id] = 0 THEN req[r].build
                             ELSE transports[req[r].id]]
        /\ req' = [req EXCEPT ![r] = Free]
        /\ UNCHANGED <<build, swapper, straddled>>
    BY <1>2 DEF TransportFor, cvars
  <2>2. QED
    BY <2>1 DEF Free
<1>3. CASE SwapPool
  <2>1. /\ build' = build + 1 /\ swapper' # NoOne
        /\ UNCHANGED <<transports, req, straddled>>
    BY <1>3, NobodyAssumption DEF SwapPool, Install, InstallStatic
  <2>2. QED
    BY <2>1
<1>4. CASE DropTransports
  <2>1. /\ transports' = [id \in AllIds |-> 0]
        /\ straddled' = (\E r \in Requests : req[r] # Free /\ req[r].build < build)
        /\ UNCHANGED <<build, req>>
    BY <1>4 DEF DropTransports
  <2>2. TransportTypes'
    BY <2>1
  <2>3. ASSUME ~straddled', NEW r \in Requests, req[r] # Free
        PROVE  req[r].build = build
    BY <2>1, <2>3
  <2>4. QED
    BY <2>1, <2>2, <2>3
<1>5. CASE Background
  BY <1>5 DEF Background, VendorChanges, Fetch, Start, FetchOnline, Save, FetchCached, FetchFails,
              UpdateUnchanged, UpdateRefused, transport_vars
<1>6. CASE UNCHANGED tvars
  BY <1>6 DEF tvars, cvars, transport_vars
<1>7. QED
  BY <1>1, <1>2, <1>3, <1>4, <1>5, <1>6 DEF TransportsNext

\* CloseTransportsExcept after ReplacePool: with no request caught between Pick
\* and transportFor while the swap ended, no transport dials through an object
\* of an earlier pool, however many swaps and requests there were.
THEOREM TransportsFollowSwaps == TransportsSpec => []StaleOnlyAfterStraddling
<1>1. TransportsInit => TransportInv
  <2> SUFFICES ASSUME TransportsInit PROVE TransportInv
    OBVIOUS
  <2>1. /\ build = 1 /\ transports = [id \in AllIds |-> 0]
        /\ req = [r \in Requests |-> Free]
    BY DEF TransportsInit, None
  <2>2. QED
    BY <2>1 DEF TransportInv, TransportTypes, NothingStale, Holds, Fresh, Free, None
<1>2. TransportInv /\ [TransportsNext]_tvars => TransportInv'
  BY TransportInvKept
<1>3. TransportInv => StaleOnlyAfterStraddling
  BY DEF TransportInv, NothingStale, StaleOnlyAfterStraddling
<1>4. QED
  BY <1>1, <1>2, <1>3, PTL DEF TransportsSpec

\* The listener's transports leave the composer's promise as it is.
THEOREM CacheTellsPoolUnderRequests == TransportsSpec => []CacheIsRunningPool
<1>1. PoolInv => CacheIsRunningPool
  BY DEF PoolInv
<1>2. QED
  BY <1>1, TransportsRunComposer, PoolInvInductive, PTL

=============================================================================
