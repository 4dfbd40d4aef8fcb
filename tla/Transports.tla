----------------------------- MODULE Transports -----------------------------
(***************************************************************************)
(* The HTTP listener's cached http.Transports (internal/listener/http.go)  *)
(* under the pool swaps of Composer.  Every swap builds new Upstream       *)
(* objects; a transport is cached by upstream id and keeps dialling        *)
(* through the object it was built for.  An object is told apart by the    *)
(* swap that made it: `build' counts them, and 0 stands for no transport.  *)
(*                                                                         *)
(* A plain-HTTP request takes an object from Pick, then asks transportFor, *)
(* and the swap may run in between.                                        *)
(***************************************************************************)
EXTENDS Composer

CONSTANTS
    Requests,   \* forward requests in flight
    MaxBuilds   \* bound: pools built, the startup one included

ASSUME TransportsAssumption == MaxBuilds \in Nat \ {0}

VARIABLES
    build,       \* which pool the scoreboard runs
    transports,  \* HTTPServer.transports: the build each id is pinned to
    req,         \* what a request holds between Pick and RoundTrip
    \* History, read by no action:
    straddled    \* a request held an older object when the last swap ended

transport_vars == <<build, transports, req, straddled>>
tvars == <<cvars, transport_vars>>

AllIds == {u.id : u \in UNION (Statics \cup AllLists)}

None == 0
Free == [id |-> NoOne, build |-> None]

\* Each iteration of the retry loop is a request of its own here: Pick hands
\* out an object of the live pool.
Pick(r, id) ==
    /\ req[r] = Free
    /\ id \in Ids(pool)
    /\ req' = [req EXCEPT ![r] = [id |-> id, build |-> build]]
    /\ UNCHANGED <<cvars, build, transports, straddled>>

\* transportFor: the cached transport of that id, or a new one pinned to the
\* object in hand; RoundTrip then dials through it.
TransportFor(r) ==
    /\ req[r] # Free
    /\ transports' = [transports EXCEPT ![req[r].id] =
                        IF @ = None THEN req[r].build ELSE @]
    /\ req' = [req EXCEPT ![r] = Free]
    /\ UNCHANGED <<cvars, build, straddled>>

\* ReplacePool with freshly built Upstream objects.
SwapPool ==
    /\ build < MaxBuilds
    /\ \/ \E w \in Workers : Install(w)
       \/ \E list \in Statics : InstallStatic(list)
    /\ build' = build + 1
    /\ UNCHANGED <<transports, req, straddled>>

\* Defect: transports of ids the new pool still has are kept.
DropTransportsOfRemoved ==
    /\ FinishSwap
    /\ transports' = [id \in AllIds |-> IF id \in Ids(pool) THEN transports[id] ELSE None]
    /\ straddled' = (\E r \in Requests : req[r] # Free /\ req[r].build < build)
    /\ UNCHANGED <<build, req>>

\* CloseTransportsExcept with an empty keep set.
DropTransports ==
    /\ FinishSwap
    /\ transports' = [id \in AllIds |-> None]
    /\ straddled' = (\E r \in Requests : req[r] # Free /\ req[r].build < build)
    /\ UNCHANGED <<build, req>>

TransportsInit ==
    /\ Init
    /\ build = 1
    /\ transports = [id \in AllIds |-> None]
    /\ req = [r \in Requests |-> Free]
    /\ straddled = FALSE

\* What the composer's workers do without touching the pool.
Background ==
    /\ \/ \E b \in Blocks : \E list \in Lists[b] : VendorChanges(b, list)
       \/ \E w \in Workers : Fetch(w) \/ UpdateUnchanged(w) \/ UpdateRefused(w)
    /\ UNCHANGED transport_vars

TransportsNext ==
    \/ \E r \in Requests : \/ \E id \in AllIds : Pick(r, id)
                           \/ TransportFor(r)
    \/ SwapPool \/ DropTransports
    \/ Background

TransportsSpec == TransportsInit /\ [][TransportsNext]_tvars

----------------------------------------------------------------------------
(* Properties *)

Fresh(id) == transports[id] \in {None, build}

\* "Cached HTTP transports are dropped during the swap so the new pool's
\* Upstream objects use freshly-pinned DialContext closures" (docs/
\* configuration.md).  What that buys: with no request caught between Pick
\* and transportFor while the swap ended, no transport dials through an
\* object of an earlier pool, whatever requests did while it ran.
StaleOnlyAfterStraddling ==
    swapper = NoOne /\ ~straddled => \A id \in AllIds : Fresh(id)

=============================================================================
