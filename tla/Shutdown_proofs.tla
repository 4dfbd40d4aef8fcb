--------------------------- MODULE Shutdown_proofs ---------------------------
(***************************************************************************)
(* What the disk holds, what the last flush covers, and which tunnels and  *)
(* connections outlive their server's Shutdown, for any number of          *)
(* connections, outcomes, restarts and power losses.                       *)
(***************************************************************************)
EXTENDS Shutdown, FiniteSetTheorems, TLAPS

----------------------------------------------------------------------------
(* The inductive invariant *)

Saving == loop.at \in {"written", "synced", "renamed"}

SaveTypes ==
    /\ memory \in Nat /\ held \in Nat /\ saved \in Nat /\ atStop \in Nat
    /\ stopping \in BOOLEAN
    /\ loop \in [at : {"waiting", "written", "synced", "renamed", "done"},
                 final : BOOLEAN, flushed : BOOLEAN]
    /\ durable \subseteq Nat /\ path \in durable

\* A save in progress is no older than the last one that succeeded, and it is
\* synced before it gets its name.
SaveOrder ==
    /\ \A found \in durable : saved <= found
    /\ saved <= memory
    /\ Saving => saved <= held /\ held <= memory
    /\ loop.at \in {"synced", "renamed"} => loop.flushed
    /\ loop.at = "renamed" => path = held

\* Only the flush that began after the context ended is the last one.
StopOrder ==
    /\ stopping => atStop <= memory
    /\ (Saving /\ loop.final) \/ loop.at = "done" => stopping /\ atStop <= held

SaveInv == SaveTypes /\ SaveOrder /\ StopOrder

----------------------------------------------------------------------------
(* What a step does to the persistence loop *)

Stops ==
    /\ ~stopping /\ stopping' = TRUE /\ atStop' = memory
    /\ UNCHANGED <<memory, loop_vars, disk_vars>>

Learns == Record /\ UNCHANGED <<stopping, atStop, loop_vars, disk_vars>>

\* Of all that connections, servers and run do, the loop sees an outcome, the
\* end of the context, and a restart.
LEMMA SaveCases ==
    ASSUME [Next]_vars
    PROVE  Persist \/ Learns \/ Stops \/ Start \/ UNCHANGED persist_vars
<1>1. CASE MainStep
  BY <1>1 DEF MainStep, StartShutdown, HandlersDrained, ForceTunnels, TunnelsDrained,
              CloseSocks, SocksSettled, ForceSocks, GraceEnds, CloseAdmin, SkipShutdown,
              Exit, GoesOn
<1>2. CASE Sigterm \/ AcceptFails
  BY <1>2 DEF Sigterm, AcceptFails, Stop, Stops
<1>3. CASE Deadline \/ SocksServeReturns
  BY <1>3 DEF Deadline, SocksServeReturns
<1>4. CASE PersistStep
  BY <1>4 DEF PersistStep
<1>5. ASSUME NEW c \in HttpConns, HttpStep(c)
      PROVE  Learns \/ UNCHANGED persist_vars
  BY <1>5 DEF HttpStep, Arrives, Answered, Hijacked, ReplyFails, RegisterTunnel, TunnelEnds,
              Pumps, CopyEnds, Learn, Learns
<1>6. ASSUME NEW s \in SocksConns, SocksStep(s)
      PROVE  Learns \/ UNCHANGED persist_vars
  BY <1>6 DEF SocksStep, Accepts, Adds, RegistersConn, ServeConnEnds, Learn, Learns
<1>7. CASE UNCHANGED vars
  BY <1>7 DEF vars
<1>8. QED
  BY <1>1, <1>2, <1>3, <1>4, <1>5, <1>6, <1>7 DEF Next

----------------------------------------------------------------------------
(* The invariant is inductive *)

\* One step of SaveSnapshot, or the choice of a flush.
LEMMA PersistKeepsSaveInv ==
    ASSUME SaveInv, Persist
    PROVE  SaveInv'
<1> USE DEF SaveInv, SaveTypes, SaveOrder, StopOrder, Saving, loop_vars, disk_vars
<1>1. CASE TickFlush
  BY <1>1 DEF TickFlush, Build
<1>2. CASE ShutdownFlush
  BY <1>2 DEF ShutdownFlush, Build
<1>3. CASE SyncTemp
  BY <1>3 DEF SyncTemp
<1>4. CASE Rename
  BY <1>4 DEF Rename
<1>5. CASE SyncDir
  BY <1>5 DEF SyncDir, Flushed, Waiting, Finished
<1>6. CASE SaveFails
  BY <1>6 DEF SaveFails, Flushed, Waiting, Finished
<1>7. QED
  BY <1>1, <1>2, <1>3, <1>4, <1>5, <1>6 DEF Persist, Save

\* A restart reads what it finds; nothing found is torn or too old.
LEMMA StartKeepsSaveInv ==
    ASSUME SaveInv, Start
    PROVE  SaveInv'
<1> USE DEF SaveInv, SaveTypes, SaveOrder, StopOrder, Saving
<1>1. /\ path' \in durable /\ path' \in durable' /\ durable' \subseteq durable
      /\ stopping' = FALSE /\ atStop' = 0 /\ loop' = Waiting /\ held' = 0
  BY DEF Start
<1>2. path' # Torn
  BY <1>1, TornAssumption
<1>3. CASE Loads
  <2>1. memory' = path' /\ saved' = saved
    BY <1>3 DEF Loads
  <2>2. QED
    BY <1>1, <1>2, <2>1 DEF Waiting
<1>4. CASE Refuses
  <2>1. memory' = 0 /\ saved' = 0
    BY <1>2, <1>4 DEF Refuses
  <2>2. SaveTypes'
    BY <1>1, <2>1 DEF Waiting
  <2>3. \A found \in durable' : found \in Nat
    BY <1>1
  <2>4. SaveOrder'
    BY <1>1, <2>1, <2>3 DEF Waiting
  <2>5. QED
    BY <1>1, <2>1, <2>2, <2>4 DEF Waiting
<1>5. QED
  BY <1>3, <1>4 DEF Start, Load

LEMMA SaveInvInductive == Spec => []SaveInv
<1>1. Init => SaveInv
  <2>1. ASSUME Init PROVE PersistInit
    BY <2>1 DEF Init
  <2>2. ASSUME PersistInit PROVE SaveInv
    <3>1. /\ memory = 0 /\ held = 0 /\ saved = 0 /\ atStop = 0 /\ path = 0 /\ durable = {0}
          /\ stopping = FALSE /\ loop = Waiting
      BY <2>2 DEF PersistInit
    <3>2. SaveTypes
      <4>1. stopping \in BOOLEAN
        BY <3>1
      <4>2. QED
        BY <3>1, <4>1 DEF SaveTypes, Waiting
    <3>3. SaveOrder
      BY <3>1 DEF SaveOrder, Saving, Waiting
    <3>4. StopOrder
      BY <3>1 DEF StopOrder, Saving, Waiting
    <3>5. QED
      BY <3>2, <3>3, <3>4 DEF SaveInv
  <2>3. QED
    BY <2>1, <2>2
<1>2. SaveInv /\ [Next]_vars => SaveInv'
  <2> SUFFICES ASSUME SaveInv, [Next]_vars PROVE SaveInv'
    OBVIOUS
  <2>1. CASE Persist
    BY <2>1, PersistKeepsSaveInv
  <2>2. CASE Start
    BY <2>2, StartKeepsSaveInv
  <2>3. CASE Learns
    BY <2>3 DEF Learns, Record, loop_vars, disk_vars, SaveInv, SaveTypes, SaveOrder,
                StopOrder, Saving
  <2>4. CASE Stops
    BY <2>4 DEF Stops, loop_vars, disk_vars, SaveInv, SaveTypes, SaveOrder, StopOrder, Saving
  <2>5. CASE UNCHANGED persist_vars
    BY <2>5 DEF persist_vars, loop_vars, disk_vars, SaveInv, SaveTypes, SaveOrder,
                StopOrder, Saving
  <2>6. QED
    BY <2>1, <2>2, <2>3, <2>4, <2>5, SaveCases
<1>3. QED
  BY <1>1, <1>2, PTL DEF Spec

----------------------------------------------------------------------------
(* Theorems *)

\* SaveSnapshot's order of fsync, rename and directory fsync: however often the
\* process is killed or the machine loses power, a restart finds a whole
\* snapshot no older than the last save that reported success.
THEOREM SavedStateIsSafe == Spec => []SavedStateSurvives
<1>1. SaveInv => SavedStateSurvives
  BY TornAssumption DEF SaveInv, SaveTypes, SaveOrder, SavedStateSurvives
<1>2. QED
  BY <1>1, SaveInvInductive, PTL

\* PersistenceLoop's last flush covers what was recorded when the context ended,
\* whatever flush a tick had begun before.
THEOREM LastFlushIsLast == Spec => []LastFlushCoversActivity
<1>1. SaveInv => LastFlushCoversActivity
  BY DEF SaveInv, SaveTypes, SaveOrder, StopOrder, LastFlushCoversActivity
<1>2. QED
  BY <1>1, SaveInvInductive, PTL

----------------------------------------------------------------------------
(* What is left when the servers have been shut down *)

\* Until registerTunnel both ends are the handler's; a copier that is back has
\* closed the end it wrote to.
EndsOwned ==
    \A c \in HttpConns :
        /\ http[c] \in {"none", "handling", "hijacked", "gone"} => open[c] = {}
        /\ \A e \in Ends : copier[c][e] = "ended" => Other(e) \notin open[c]

Looked == main \in {"tunnels", "forcing"} \/ PastHttp

\* Once Shutdown has looked for tunnels no connection arrives: one that could
\* still become a tunnel was caught, and one that is a tunnel was either
\* caught or seen.  It returns when those it saw are gone.
TunnelsKnown ==
    \A c \in HttpConns :
        /\ Looked /\ http[c] \in {"handling", "hijacked"} => c \in caught
        /\ Looked /\ http[c] = "tunnel" => c \in caught \/ (c \in drained /\ ~PastHttp)

Live(s) == socks[s] \notin {"none", "gone"}

\* The accept loop holds one connection at a time; when wg.Wait has returned
\* for want of counted ones that connection is all there is, and the listener
\* is closed.
AcceptsOne ==
    /\ \A s, t \in SocksConns :
          {socks[s], socks[t]} \subseteq {"accepted", "added"} => s = t
    /\ main \in {"settling", "grace"} => "socks" \notin listening
    /\ settled => /\ main \in {"admin", "wait", "exited"}
                  /\ "socks" \notin listening
                  /\ \A s, t \in SocksConns : Live(s) /\ Live(t) => s = t

ConnTypes ==
    /\ main \in {"running", "draining", "tunnels", "forcing", "socks", "settling",
                 "grace", "admin", "wait", "exited"}
    /\ listening \subseteq Servers /\ serving \subseteq Servers /\ skipped \subseteq Servers
    /\ expired \in BOOLEAN /\ settled \in BOOLEAN
    /\ http \in [HttpConns -> {"none", "handling", "hijacked", "tunnel", "gone"}]
    /\ open \in [HttpConns -> SUBSET Ends]
    /\ copier \in [HttpConns -> [Ends -> {"none", "reading", "writing", "ended"}]]
    /\ drained \subseteq HttpConns /\ caught \subseteq HttpConns
    /\ socks \in [SocksConns -> {"none", "accepted", "added", "serving", "cut", "gone"}]
    /\ starts \in 0..MaxStarts

ConnInv == ConnTypes /\ EndsOwned /\ TunnelsKnown /\ AcceptsOne

\* run of main.go: each Shutdown in its turn.
LEMMA MainKeepsConns ==
    ASSUME ConnInv, MainStep
    PROVE  ConnInv'
<1> USE DEF ConnInv, ConnTypes, EndsOwned, TunnelsKnown, AcceptsOne, Looked, PastHttp, Live,
            Servers, GoesOn, http_vars, socks_vars
<1>1. CASE StartShutdown
  BY <1>1 DEF StartShutdown
<1>2. CASE HandlersDrained
  BY <1>2 DEF HandlersDrained
<1>3. CASE ForceTunnels
  BY <1>3 DEF ForceTunnels
<1>4. CASE TunnelsDrained
  BY <1>4 DEF TunnelsDrained
<1>5. CASE CloseSocks
  BY <1>5 DEF CloseSocks
<1>6. CASE SocksSettled
  BY <1>6 DEF SocksSettled, Counted
<1>7. CASE ForceSocks
  BY <1>7 DEF ForceSocks
<1>8. CASE GraceEnds
  BY <1>8 DEF GraceEnds
<1>9. CASE CloseAdmin
  BY <1>9 DEF CloseAdmin
<1>10. CASE SkipShutdown
  BY <1>10 DEF SkipShutdown
<1>11. CASE Exit
  BY <1>11 DEF Exit
<1>12. QED
  BY <1>1, <1>2, <1>3, <1>4, <1>5, <1>6, <1>7, <1>8, <1>9, <1>10, <1>11 DEF MainStep

\* The handler of an HTTP connection and the copiers of its tunnel.
LEMMA HttpKeepsConns ==
    ASSUME ConnInv, NEW c \in HttpConns, HttpStep(c)
    PROVE  ConnInv'
<1> USE DEF ConnInv, ConnTypes, EndsOwned, TunnelsKnown, AcceptsOne, Looked, PastHttp, Live,
            main_vars, socks_vars
<1>1. CASE Arrives(c)
  BY <1>1 DEF Arrives
<1>2. CASE Answered(c)
  BY <1>2 DEF Answered
<1>3. CASE Hijacked(c)
  BY <1>3 DEF Hijacked
<1>4. CASE ReplyFails(c)
  BY <1>4 DEF ReplyFails
<1>5. CASE RegisterTunnel(c)
  BY <1>5 DEF RegisterTunnel, Ends
<1>6. CASE TunnelEnds(c)
  <2>1. open[c] = {}
    BY <1>6 DEF TunnelEnds, Ends, Other
  <2>2. QED
    BY <1>6, <2>1 DEF TunnelEnds
<1>7. ASSUME NEW e \in Ends, Pumps(c, e)
      PROVE  ConnInv'
  <2>1. PICK does \in {"reading", "writing"} : copier' = [copier EXCEPT ![c][e] = does]
    BY <1>7 DEF Pumps
  <2>2. UNCHANGED <<main, listening, serving, skipped, expired, settled, http, open, drained,
                    caught, socks, starts>>
    BY <1>7 DEF Pumps
  <2>3. /\ copier' \in [HttpConns -> [Ends -> {"none", "reading", "writing", "ended"}]]
        /\ \A d \in HttpConns, f \in Ends : copier'[d][f] = "ended" => copier[d][f] = "ended"
    BY <2>1
  <2>4. QED
    BY <2>2, <2>3
<1>8. ASSUME NEW e \in Ends, CopyEnds(c, e)
      PROVE  ConnInv'
  BY <1>8 DEF CopyEnds
<1>9. QED
  BY <1>1, <1>2, <1>3, <1>4, <1>5, <1>6, <1>7, <1>8 DEF HttpStep

\* The accept loop and the goroutine of a SOCKS5 connection.
LEMMA SocksKeepsConns ==
    ASSUME ConnInv, NEW s \in SocksConns, SocksStep(s)
    PROVE  ConnInv'
<1> USE DEF ConnInv, ConnTypes, EndsOwned, TunnelsKnown, AcceptsOne, Looked, PastHttp, Live,
            main_vars, http_vars, SocksMoves
<1>1. CASE Accepts(s)
  BY <1>1 DEF Accepts, AcceptLoopBusy
<1>2. CASE Adds(s)
  BY <1>2 DEF Adds
<1>3. CASE RegistersConn(s)
  BY <1>3 DEF RegistersConn
<1>4. CASE ServeConnEnds(s)
  BY <1>4 DEF ServeConnEnds
<1>5. QED
  BY <1>1, <1>2, <1>3, <1>4 DEF SocksStep

\* A process that starts has no connection.
LEMMA NothingOpen ==
    /\ NoConn \in [HttpConns -> {"none"}] /\ NoSocks \in [SocksConns -> {"none"}]
    /\ NoEnds \in [HttpConns -> {{}}] /\ NoEnds \in [HttpConns -> SUBSET Ends]
    /\ NoCopier \in [HttpConns -> [Ends -> {"none"}]]
    /\ NoCopier \in [HttpConns -> [Ends -> {"none", "reading", "writing", "ended"}]]
BY DEF NoConn, NoSocks, NoEnds, NoCopier

LEMMA ConnInvInductive == Spec => []ConnInv
<1>1. Init => ConnInv
  <2> SUFFICES ASSUME Init PROVE ConnInv
    OBVIOUS
  <2>1. /\ main = "running" /\ expired = FALSE /\ listening = Servers /\ serving = Servers
        /\ drained = {} /\ caught = {} /\ skipped = {} /\ settled = FALSE /\ starts = 0
        /\ http = NoConn /\ open = NoEnds /\ copier = NoCopier /\ socks = NoSocks
    BY DEF Init
  <2>2. ConnTypes
    <3>1. http \in [HttpConns -> {"none", "handling", "hijacked", "tunnel", "gone"}]
      BY <2>1, NothingOpen
    <3>2. socks \in [SocksConns -> {"none", "accepted", "added", "serving", "cut", "gone"}]
      BY <2>1, NothingOpen
    <3>3. expired \in BOOLEAN /\ settled \in BOOLEAN
      BY <2>1, Zenon
    <3>4. QED
      BY <2>1, <3>1, <3>2, <3>3, StartsAssumption, NothingOpen DEF ConnTypes
  <2>3. EndsOwned /\ TunnelsKnown
    BY <2>1, NothingOpen DEF EndsOwned, TunnelsKnown, Looked, PastHttp
  <2>4. AcceptsOne
    BY <2>1, NothingOpen DEF AcceptsOne
  <2>5. QED
    BY <2>2, <2>3, <2>4 DEF ConnInv
<1>2. ConnInv /\ [Next]_vars => ConnInv'
  <2> SUFFICES ASSUME ConnInv, [Next]_vars PROVE ConnInv'
    OBVIOUS
  <2> DEFINE Same == UNCHANGED <<main_vars, http_vars, socks_vars, starts>>
  <2>1. ASSUME Same PROVE ConnInv'
    BY <2>1 DEF ConnInv, ConnTypes, EndsOwned, TunnelsKnown, AcceptsOne, Looked, PastHttp,
                Live, main_vars, http_vars, socks_vars
  <2>2. CASE MainStep
    BY <2>2, MainKeepsConns
  <2>3. CASE Sigterm \/ AcceptFails \/ Deadline \/ SocksServeReturns
    <3>1. /\ expired' \in BOOLEAN /\ serving' \subseteq serving
          /\ UNCHANGED <<main, listening, drained, caught, skipped, http_vars, socks_vars, starts>>
      BY <2>3 DEF Sigterm, AcceptFails, Stop, Deadline, SocksServeReturns, ConnInv, ConnTypes
    <3>2. QED
      BY <3>1 DEF ConnInv, ConnTypes, EndsOwned, TunnelsKnown, AcceptsOne, Looked, PastHttp,
                  Live, http_vars, socks_vars
  <2>4. CASE PersistStep
    BY <2>1, <2>4 DEF PersistStep
  <2>5. ASSUME NEW c \in HttpConns, HttpStep(c) PROVE ConnInv'
    BY <2>5, HttpKeepsConns
  <2>6. ASSUME NEW s \in SocksConns, SocksStep(s) PROVE ConnInv'
    BY <2>6, SocksKeepsConns
  <2>7. CASE Start
    <3>1. /\ starts' \in 0..MaxStarts
          /\ main' = "running" /\ expired' = FALSE /\ listening' = Servers /\ serving' = Servers
          /\ drained' = {} /\ caught' = {} /\ skipped' = {} /\ settled' = FALSE
          /\ http' = NoConn /\ open' = NoEnds /\ copier' = NoCopier /\ socks' = NoSocks
      BY <2>7, StartsAssumption DEF Start, ConnInv, ConnTypes
    <3>2. QED
      BY <3>1, NothingOpen
      DEF ConnInv, ConnTypes, EndsOwned, TunnelsKnown, AcceptsOne, Looked, PastHttp, Live
  <2>8. CASE UNCHANGED vars
    BY <2>1, <2>8 DEF vars
  <2>9. QED
    BY <2>2, <2>3, <2>4, <2>5, <2>6, <2>7, <2>8 DEF Next
<1>3. QED
  BY <1>1, <1>2, PTL DEF Spec

\* The types of run, of its servers' Shutdown and of PersistenceLoop.  A handler
\* that is through has closed both ends of its tunnel.
THEOREM ShutdownTypeCorrect == Spec => []ShutdownTypeOK
<1>1. SaveInv => PersistTypeOK
  BY DEF SaveInv, SaveTypes, PersistTypeOK
<1>2. ConnInv /\ PersistTypeOK => ShutdownTypeOK
  BY DEF ConnInv, ConnTypes, EndsOwned, ShutdownTypeOK
<1>3. QED
  BY <1>1, <1>2, SaveInvInductive, ConnInvInductive, PTL

\* HTTPServer.Shutdown: a tunnel that is there when it has returned was a
\* handler between its start and registerTunnel when it looked, however the
\* deadline, the copiers and the handlers interleave.
THEOREM OnlyCaughtTunnelsOutlive == Spec => []OnlyUnregisteredOutlive
<1>1. ConnInv => OnlyUnregisteredOutlive
  BY DEF ConnInv, TunnelsKnown, Looked, OnlyUnregisteredOutlive
<1>2. QED
  BY <1>1, ConnInvInductive, PTL

\* SOCKSServer.Shutdown: when wg.Wait has returned nil, one connection at most
\* is served still, the one that was between Accept and wg.Add.
THEOREM OneSocksEscapes == Spec => []AtMostOneSocksEscapes
<1>1. ASSUME ConnInv, settled
      PROVE  Cardinality({s \in SocksConns : Live(s)}) <= 1
  <2> DEFINE L == {s \in SocksConns : Live(s)}
  <2>1. CASE L = {}
    <3>1. Cardinality(L) = 0
      BY <2>1, FS_EmptySet
    <3>2. QED
      BY <3>1
  <2>2. CASE L # {}
    <3>1. PICK s \in L : TRUE
      BY <2>2
    <3>2. L = {s}
      BY <1>1, <3>1 DEF ConnInv, AcceptsOne
    <3>3. Cardinality(L) = 1
      BY <3>2, FS_Singleton
    <3>4. QED
      BY <3>3
  <2>3. QED
    BY <2>1, <2>2
<1>2. ConnInv => AtMostOneSocksEscapes
  BY <1>1 DEF AtMostOneSocksEscapes, Live
<1>3. QED
  BY <1>2, ConnInvInductive, PTL

=============================================================================
