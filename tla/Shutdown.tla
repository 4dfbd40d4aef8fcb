------------------------------ MODULE Shutdown ------------------------------
(***************************************************************************)
(* SIGTERM to exit: run of cmd/tunnelsmith/main.go shuts its servers down  *)
(* one after the other under one deadline and waits for every goroutine of *)
(* the errgroup, while CONNECT tunnels pump bytes, SOCKS5 connections come *)
(* and go, and the persistence loop makes its last flush.                  *)
(*                                                                         *)
(* "admin" stands for the metrics, UI and control servers, whose Serve and *)
(* Shutdown are the same few lines.  gctx.Done also ends the SIGHUP, gauge *)
(* and refresh goroutines at once; they are left out.  The process may be  *)
(* killed or lose power at any point, and starts again from persist_path.  *)
(***************************************************************************)
EXTENDS Persistence, FiniteSets

CONSTANTS
    HttpConns,   \* HTTP connections
    SocksConns,  \* SOCKS5 connections
    \* Bounds, no part of the code:
    MaxConns, MaxOutcomes, MaxStarts

\* A bound is a number.
ASSUME StartsAssumption == MaxStarts \in Nat

VARIABLES
    main,      \* where run is; "draining" to "forcing" are in HTTPServer.Shutdown,
               \* "settling" and "grace" in SOCKSServer.Shutdown
    expired,   \* shutdownCtx is done
    listening, \* servers whose listener is open
    serving,   \* servers whose Serve has not returned
    http,      \* http[c]: what the handler of connection c is doing
    open,      \* open[c]: ends of c's tunnel this process has not closed
    copier,    \* copier[c][e]: the goroutine that reads end e of c's tunnel
    drained,   \* the tunnels Shutdown saw when it looked
    socks,     \* socks[s]: how far connection s has come
    starts,    \* times the process was started again
    \* History, read by no action:
    caught,    \* handlers under way and not yet a tunnel when it looked
    settled,   \* SOCKSServer.Shutdown returned because nobody was left
    skipped    \* servers whose Shutdown returned before closing anything

http_vars == <<http, open, copier>>
socks_vars == <<socks, settled>>
main_vars == <<main, expired, listening, serving, drained, caught, skipped>>
vars == <<persist_vars, main_vars, http_vars, socks_vars, starts>>

Servers == {"http", "socks", "admin"}
Ends == {"client", "up"}
Other(e) == IF e = "client" THEN "up" ELSE "client"

\* Bound: connections in one life of the process, one fewer in each later one.
RoomForConn ==
    starts + Cardinality({c \in HttpConns : http[c] # "none"})
           + Cardinality({s \in SocksConns : socks[s] # "none"}) < MaxConns

Learn == memory < MaxOutcomes /\ Record /\ UNCHANGED <<stopping, atStop, loop_vars, disk_vars>>

----------------------------------------------------------------------------
(* HTTP connections *)

\* A request arrives, on a new connection or on a kept-alive one that
\* http.Server.Shutdown has not found idle yet.
Arrives(c) ==
    /\ main \in {"running", "draining"}
    /\ http[c] = "none" /\ RoomForConn
    /\ http' = [http EXCEPT ![c] = "handling"]
    /\ UNCHANGED <<persist_vars, main_vars, open, copier, socks_vars, starts>>

\* A forwarded request, or a CONNECT whose dial failed, is answered.
Answered(c) ==
    /\ http[c] = "handling"
    /\ http' = [http EXCEPT ![c] = "gone"]
    /\ Learn
    /\ UNCHANGED <<main_vars, open, copier, socks_vars, starts>>

\* The dial succeeded; from Hijack on net/http does not count the connection.
Hijacked(c) ==
    /\ http[c] = "handling"
    /\ http' = [http EXCEPT ![c] = "hijacked"]
    /\ Learn
    /\ UNCHANGED <<main_vars, open, copier, socks_vars, starts>>

\* The 200 cannot be written: both connections are closed.
ReplyFails(c) ==
    /\ http[c] = "hijacked"
    /\ http' = [http EXCEPT ![c] = "gone"]
    /\ UNCHANGED <<persist_vars, main_vars, open, copier, socks_vars, starts>>

\* registerTunnel and the start of both copiers.
RegisterTunnel(c) ==
    /\ http[c] = "hijacked"
    /\ http' = [http EXCEPT ![c] = "tunnel"]
    /\ open' = [open EXCEPT ![c] = Ends]
    /\ copier' = [copier EXCEPT ![c] = [e \in Ends |-> "reading"]]
    /\ UNCHANGED <<persist_vars, main_vars, socks_vars, starts>>

\* io.Copy reads end e and writes the other one; either may take for ever
\* while both are open.
Pumps(c, e) ==
    /\ \/ copier[c][e] = "reading" /\ e \in open[c]
          /\ copier' = [copier EXCEPT ![c][e] = "writing"]
       \/ copier[c][e] = "writing" /\ Other(e) \in open[c]
          /\ copier' = [copier EXCEPT ![c][e] = "reading"]
    /\ UNCHANGED <<persist_vars, main_vars, http, open, socks_vars, starts>>

\* Defect: the destination is left open.
CopyEndsAlone(c, e) ==
    /\ copier[c][e] \in {"reading", "writing"}
    /\ copier' = [copier EXCEPT ![c][e] = "ended"]
    /\ UNCHANGED <<persist_vars, main_vars, http, open, socks_vars, starts>>

\* EOF or an error ends the copy, and its destination is closed.
CopyEnds(c, e) ==
    /\ copier[c][e] \in {"reading", "writing"}
    /\ copier' = [copier EXCEPT ![c][e] = "ended"]
    /\ open' = [open EXCEPT ![c] = @ \ {Other(e)}]
    /\ UNCHANGED <<persist_vars, main_vars, http, socks_vars, starts>>

\* A read or write on an end closed here returns at once.
CopyCut(c, e) ==
    /\ \/ copier[c][e] = "reading" /\ e \notin open[c]
       \/ copier[c][e] = "writing" /\ Other(e) \notin open[c]
    /\ CopyEnds(c, e)

\* Both copiers are back: done is closed and the tunnel unregistered.
TunnelEnds(c) ==
    /\ http[c] = "tunnel" /\ \A e \in Ends : copier[c][e] = "ended"
    /\ http' = [http EXCEPT ![c] = "gone"]
    /\ UNCHANGED <<persist_vars, main_vars, open, copier, socks_vars, starts>>

----------------------------------------------------------------------------
(* SOCKS5 connections *)

Counted == {s \in SocksConns : socks[s] \in {"added", "serving", "cut"}}

AcceptLoopBusy == \E s \in SocksConns : socks[s] \in {"accepted", "added"}

SocksMoves(s, from, to) ==
    /\ socks[s] = from
    /\ socks' = [socks EXCEPT ![s] = to]
    /\ UNCHANGED <<main_vars, http_vars, settled, starts>>

\* Accept, wg.Add and registerConn are three steps of one loop.
Accepts(s) ==
    /\ {"socks"} \subseteq listening \cap serving
    /\ ~AcceptLoopBusy /\ RoomForConn
    /\ SocksMoves(s, "none", "accepted") /\ UNCHANGED persist_vars

Adds(s) == SocksMoves(s, "accepted", "added") /\ UNCHANGED persist_vars

RegistersConn(s) == SocksMoves(s, "added", "serving") /\ UNCHANGED persist_vars

\* ServeConn dials through DialFor, relays and returns.  A connection that
\* Shutdown closed may still be in its dial, or blocked on the upstream.
ServeConnEnds(s) == \E from \in {"serving", "cut"} : SocksMoves(s, from, "gone") /\ Learn

\* The listener is closed and Accept says so.
SocksServeReturns ==
    /\ "socks" \in serving \ listening /\ ~AcceptLoopBusy
    /\ serving' = serving \ {"socks"}
    /\ UNCHANGED <<persist_vars, main, expired, listening, drained, caught, skipped,
                   http_vars, socks_vars, starts>>

----------------------------------------------------------------------------
(* main *)

\* gctx is done: a signal arrives, or Accept fails and the errgroup cancels
\* with the listener still open.
Stop(down) ==
    /\ main = "running" /\ ~stopping
    /\ stopping' = TRUE /\ atStop' = memory
    /\ serving' = serving \ down
    /\ UNCHANGED <<memory, loop_vars, disk_vars, main, expired, listening, drained, caught,
                   skipped, http_vars, socks_vars, starts>>

Sigterm == Stop({})

AcceptFails == "socks" \in serving /\ ~AcceptLoopBusy /\ Stop({"socks"})

GoesOn(to) == main' = to /\ UNCHANGED <<persist_vars, expired, starts>>

\* http.Server.Shutdown closes the listener, which ends Serve, and polls.
StartShutdown ==
    /\ main = "running" /\ stopping
    /\ GoesOn("draining")
    /\ listening' = listening \ {"http"} /\ serving' = serving \ {"http"}
    /\ UNCHANGED <<drained, caught, skipped, http_vars, socks_vars>>

\* What a Shutdown waits for: handlers, tunnels, SOCKS5 connections.
Held ==
    \/ main = "draining" /\ \E c \in HttpConns : http[c] = "handling"
    \/ main = "tunnels" /\ \E c \in drained : http[c] # "gone"
    \/ main = "settling" /\ Counted # {}

\* shutdownTimeout passes.  It is long for steps that wait for nobody.
Deadline ==
    /\ Held /\ ~expired
    /\ expired' = TRUE
    /\ UNCHANGED <<persist_vars, main, listening, serving, drained, caught, skipped,
                   http_vars, socks_vars, starts>>

\* Every handler has returned or hijacked, or the deadline has passed; then
\* the tunnels are looked up.
HandlersDrained ==
    /\ main = "draining"
    /\ expired \/ \A c \in HttpConns : http[c] # "handling"
    /\ drained' = {c \in HttpConns : http[c] = "tunnel"}
    /\ caught' = {c \in HttpConns : http[c] \in {"handling", "hijacked"}}
    /\ GoesOn(IF drained' = {} THEN "socks" ELSE "tunnels")
    /\ UNCHANGED <<listening, serving, skipped, http_vars, socks_vars>>

\* Defect: the tunnels are left to themselves when the deadline has passed.
ForceNone ==
    /\ main = "tunnels" /\ expired
    /\ GoesOn("socks")
    /\ UNCHANGED <<listening, serving, drained, caught, skipped, http_vars, socks_vars>>

\* forceClose on each of them; then done is waited for without a bound.
ForceTunnels ==
    /\ main = "tunnels" /\ expired
    /\ GoesOn("forcing")
    /\ open' = [c \in HttpConns |-> IF c \in drained THEN {} ELSE open[c]]
    /\ UNCHANGED <<listening, serving, drained, caught, skipped, http, copier, socks_vars>>

TunnelsDrained ==
    /\ main \in {"tunnels", "forcing"}
    /\ \A c \in drained : http[c] = "gone"
    /\ GoesOn("socks")
    /\ UNCHANGED <<listening, serving, drained, caught, skipped, http_vars, socks_vars>>

\* Defect: the listener stays open while the connections drain.
CloseSocksLater ==
    /\ main = "socks"
    /\ GoesOn("settling")
    /\ UNCHANGED <<listening, serving, drained, caught, skipped, http_vars, socks_vars>>

CloseSocks ==
    /\ main = "socks"
    /\ GoesOn("settling")
    /\ listening' = listening \ {"socks"}
    /\ UNCHANGED <<serving, drained, caught, skipped, http_vars, socks_vars>>

\* wg.Wait returns.
SocksSettled ==
    /\ main \in {"settling", "grace"} /\ Counted = {}
    /\ GoesOn("admin")
    /\ settled' = (main = "settling")
    /\ UNCHANGED <<listening, serving, drained, caught, skipped, http_vars, socks>>

\* The registered connections are closed at the deadline, and given a moment.
ForceSocks ==
    /\ main = "settling" /\ expired
    /\ GoesOn("grace")
    /\ socks' = [s \in SocksConns |-> IF socks[s] = "serving" THEN "cut" ELSE socks[s]]
    /\ UNCHANGED <<listening, serving, drained, caught, skipped, http_vars, settled>>

\* Defect: the grace period has no end.
GraceUnbounded ==
    /\ main = "grace" /\ Counted = {}
    /\ GoesOn("admin")
    /\ UNCHANGED <<listening, serving, drained, caught, skipped, http_vars, socks_vars>>

GraceEnds ==
    /\ main = "grace"
    /\ GoesOn("admin")
    /\ UNCHANGED <<listening, serving, drained, caught, skipped, http_vars, socks_vars>>

\* http.Server.Shutdown of metrics, UI and control; its wait ends by the
\* deadline at the latest.
CloseAdmin ==
    /\ main = "admin"
    /\ GoesOn("wait")
    /\ listening' = listening \ {"admin"} /\ serving' = serving \ {"admin"}
    /\ UNCHANGED <<drained, caught, skipped, http_vars, socks_vars>>

\* Each Shutdown starts with a select on ready and ctx.Done: once the earlier
\* ones have used the deadline up both are closed, and select may return the
\* context's error before the listener is touched.
SkipShutdown ==
    /\ main \in {"socks", "admin"} /\ expired
    /\ GoesOn(IF main = "socks" THEN "admin" ELSE "wait")
    /\ skipped' = skipped \cup {main}
    /\ UNCHANGED <<listening, serving, drained, caught, http_vars, socks_vars>>

\* g.Wait returns, and with it run.
Exit ==
    /\ main = "wait" /\ serving = {} /\ loop.at = "done"
    /\ GoesOn("exited")
    /\ UNCHANGED <<listening, serving, drained, caught, skipped, http_vars, socks_vars>>

----------------------------------------------------------------------------
(* Start *)

NoConn == [c \in HttpConns |-> "none"]
NoEnds == [c \in HttpConns |-> {}]
NoCopier == [c \in HttpConns |-> [e \in Ends |-> "none"]]
NoSocks == [s \in SocksConns |-> "none"]

Init ==
    /\ PersistInit /\ starts = 0
    /\ main = "running" /\ expired = FALSE
    /\ listening = Servers /\ serving = Servers
    /\ drained = {} /\ caught = {} /\ skipped = {} /\ settled = FALSE
    /\ http = NoConn /\ open = NoEnds /\ copier = NoCopier /\ socks = NoSocks

\* The process is started again after it exited, was killed (the panic of a
\* reused WaitGroup among others), or the machine lost power.
Start ==
    /\ starts < MaxStarts /\ starts' = starts + 1
    /\ \/ path' = path /\ durable' = durable
       \/ path' \in durable /\ durable' = {path'}
    /\ Load /\ stopping' = FALSE /\ atStop' = 0
    /\ loop' = Waiting /\ held' = 0
    /\ main' = "running" /\ expired' = FALSE
    /\ listening' = Servers /\ serving' = Servers
    /\ drained' = {} /\ caught' = {} /\ skipped' = {} /\ settled' = FALSE
    /\ http' = NoConn /\ open' = NoEnds /\ copier' = NoCopier /\ socks' = NoSocks

PersistStep == Persist /\ UNCHANGED <<main_vars, http_vars, socks_vars, starts>>

MainStep ==
    \/ StartShutdown \/ HandlersDrained \/ ForceTunnels \/ TunnelsDrained
    \/ CloseSocks \/ SocksSettled \/ ForceSocks \/ GraceEnds \/ CloseAdmin
    \/ SkipShutdown \/ Exit

HttpStep(c) ==
    \/ Arrives(c) \/ Answered(c) \/ Hijacked(c) \/ ReplyFails(c)
    \/ RegisterTunnel(c) \/ TunnelEnds(c)
    \/ \E e \in Ends : Pumps(c, e) \/ CopyEnds(c, e)

SocksStep(s) == Accepts(s) \/ Adds(s) \/ RegistersConn(s) \/ ServeConnEnds(s)

Next ==
    \/ MainStep \/ Sigterm \/ AcceptFails \/ Deadline \/ SocksServeReturns
    \/ main # "exited" /\ PersistStep
    \/ main # "exited" /\ \E c \in HttpConns : HttpStep(c)
    \/ main # "exited" /\ \E s \in SocksConns : SocksStep(s)
    \/ Start

\* Goroutines that can run do run, the deadline passes, and a flush is done
\* or fails.  While the context is done select picks it again and again, so
\* ticks do not keep the last flush away.  Nothing is assumed of clients,
\* upstreams, handlers, signals or the ticker.
Fairness ==
    /\ WF_vars(MainStep) /\ WF_vars(Deadline) /\ WF_vars(SocksServeReturns)
    /\ WF_vars(Save /\ PersistStep) /\ SF_vars(ShutdownFlush /\ PersistStep)
    /\ \A c \in HttpConns : /\ WF_vars(TunnelEnds(c))
                            /\ \A e \in Ends : WF_vars(CopyCut(c, e))
    /\ \A s \in SocksConns : WF_vars(Adds(s)) /\ WF_vars(RegistersConn(s))

Spec == Init /\ [][Next]_vars /\ Fairness

----------------------------------------------------------------------------
(* Properties *)

ShutdownTypeOK ==
    /\ PersistTypeOK
    /\ main \in {"running", "draining", "tunnels", "forcing", "socks", "settling",
                 "grace", "admin", "wait", "exited"}
    /\ listening \subseteq Servers /\ serving \subseteq Servers /\ skipped \subseteq Servers
    /\ {expired, settled} \subseteq BOOLEAN
    /\ http \in [HttpConns -> {"none", "handling", "hijacked", "tunnel", "gone"}]
    /\ open \in [HttpConns -> SUBSET Ends]
    /\ copier \in [HttpConns -> [Ends -> {"none", "reading", "writing", "ended"}]]
    /\ drained \subseteq HttpConns /\ caught \subseteq HttpConns
    /\ socks \in [SocksConns -> {"none", "accepted", "added", "serving", "cut", "gone"}]
    /\ starts \in 0..MaxStarts
    \* A handler that is through has closed both ends of its tunnel.
    /\ \A c \in HttpConns : http[c] = "gone" => open[c] = {}

PastHttp == main \in {"socks", "settling", "grace", "admin", "wait", "exited"}

\* "waits for HTTP handlers to drain, then forces any CONNECT tunnels still in
\* flight to close" (HTTPServer.Shutdown): the only tunnels left when it
\* returns are those whose handler was between its start and registerTunnel
\* when Shutdown looked.
OnlyUnregisteredOutlive ==
    PastHttp => {c \in HttpConns : http[c] = "tunnel"} \subseteq caught

\* "waits for in-flight connections to finish" (SOCKSServer.Shutdown): when it
\* reports that they have, at most the one connection the accept loop held
\* between Accept and wg.Add is still being served.
AtMostOneSocksEscapes ==
    settled => Cardinality({s \in SocksConns : socks[s] \notin {"none", "gone"}}) <= 1

\* "The caller's context bounds the wait": a shutdown whose servers were all
\* asked to stop ends the process, whatever clients and upstreams do.  Only a
\* crash, which starts it anew, comes before.
PromptShutdownExits == stopping ~> \/ main = "exited"
                                   \/ ~stopping
                                   \/ skipped # {}

\* "Shutdown closes the listener (so Serve returns)" (socks.go), and the
\* changelog has the process shut its listeners down cleanly on SIGTERM: the
\* signal ends the process.
SigtermEndsProcess == stopping ~> main = "exited" \/ ~stopping

=============================================================================
