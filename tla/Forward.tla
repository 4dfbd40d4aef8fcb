------------------------------ MODULE Forward ------------------------------
(***************************************************************************)
(* HTTPServer.handleForward: the Pick -> RoundTrip -> detect -> record     *)
(* loop of plain-HTTP requests, beside the CONNECT and SOCKS5 requests of  *)
(* DialFor on the same scoreboard, with the listener's own reload knobs    *)
(* swapped under it.                                                       *)
(*                                                                         *)
(* The loop around the attempts (context, Pick, recording, cascade) is     *)
(* DialFor's.  An attempt differs: a response can be a failure, by its     *)
(* status or by its body, and only timeouts and refusals of RoundTrip are  *)
(* charged.  The body of the request is read before the loop, and nothing  *)
(* of the response reaches the client before RecordSuccess.                *)
(***************************************************************************)
EXTENDS DialFor

CONSTANTS
    Plain,        \* the callers that are plain-HTTP requests
    StatusKinds,  \* kinds the status detector can report (429, 403, 451)
    Refused,      \* failure.KindRefused
    BodyMatch,    \* failure.KindBodyMatch
    Knobs         \* the listener's settings SIGHUP may install

ASSUME ForwardAssumption ==
    /\ Plain \subseteq Callers /\ StatusKinds \cup {Refused, BodyMatch} \subseteq Kinds
    /\ Knobs \subseteq [retryCap : 1..RetryCeiling, detects : SUBSET StatusKinds,
                        inspects : BOOLEAN, connectionRefused : BOOLEAN]

VARIABLES
    knobs,  \* retryCap, detector, rules with body_buffer, connection_refused
    view    \* view[c]: the detector and inspection settings c has read

http_vars == <<knobs, view>>
fvars == <<dvars, http_vars>>

NoView == [detects |-> {}, inspects |-> FALSE]

----------------------------------------------------------------------------

\* No absolute URL, no host, a scheme that is not http(s), a body over 8 MiB
\* or one that cannot be read: answered before the scoreboard is asked.
Reject(c) ==
    /\ At(c, "idle")
    /\ req' = Finished(c, "rejected")
    /\ UNCHANGED <<sbvars, ended, broke, late, http_vars>>

\* The retry cap; the pool's size does not bound the loop here.
BeginForward(c, h) ==
    /\ At(c, "idle")
    /\ req' = [req EXCEPT ![c] =
                 [Idle EXCEPT !.pc = "detector", !.host = h, !.limit = knobs.retryCap]]
    /\ UNCHANGED <<sbvars, ended, broke, late, http_vars>>

ReadDetector(c) ==
    /\ At(c, "detector")
    /\ view' = [view EXCEPT ![c].detects = knobs.detects]
    /\ req' = Moved(c, "inspection")
    /\ UNCHANGED <<sbvars, ended, broke, late, knobs>>

\* currentInspectionConfig: whether the host's rule has patterns and the
\* buffer is not 0.
ReadInspection(c) ==
    /\ At(c, "inspection")
    /\ view' = [view EXCEPT ![c].inspects = knobs.inspects]
    /\ req' = Moved(c, "attempt")
    /\ UNCHANGED <<sbvars, ended, broke, late, knobs>>

\* RoundTrip fails with the client gone: ErrAbortHandler, nothing recorded.
RoundTripCut(c) ==
    /\ At(c, "dial") /\ ended[c]
    /\ req' = Finished(c, "cancelled")
    /\ UNCHANGED <<sbvars, ended, broke, late, http_vars>>

\* An error that is no timeout, or a refusal with the gate off, rotates only.
RoundTripUncharged(c) ==
    /\ At(c, "dial") /\ ~ended[c]
    /\ Breaks(c)
    /\ req' = Burnt(c)
    /\ UNCHANGED <<sbvars, ended, late, http_vars>>

\* A timeout, or a refusal with the listener's gate on.
RoundTripFails(c, k) ==
    /\ At(c, "dial") /\ ~ended[c]
    /\ k = Refused => knobs.connectionRefused
    /\ Breaks(c)
    /\ BeginFailure(c, req[c].host, req[c].up, k, NoOverride)
    /\ req' = Moved(c, "record")
    /\ UNCHANGED <<ended, late, http_vars>>

\* The head of a response, whether or not the client is still there.
Responds(c) ==
    /\ At(c, "dial")
    /\ req' = Moved(c, "response")
    /\ UNCHANGED <<sbvars, ended, broke, late, http_vars>>

\* A status the detector this request holds reports, with the cooldown the
\* response's Retry-After asks for, when the rule honours it.
StatusFails(c, k, override) ==
    /\ At(c, "response")
    /\ k \in view[c].detects
    /\ Breaks(c)
    /\ BeginFailure(c, req[c].host, req[c].up, k, override)
    /\ req' = Moved(c, "record")
    /\ UNCHANGED <<ended, late, http_vars>>

\* BufferAndDecide finds a pattern in the buffered prefix.
BodyMatches(c) ==
    /\ At(c, "response") /\ view[c].inspects
    /\ Breaks(c)
    /\ BeginFailure(c, req[c].host, req[c].up, BodyMatch, NoOverride)
    /\ req' = Moved(c, "record")
    /\ UNCHANGED <<ended, late, http_vars>>

\* Defect: the upstream whose body broke may be picked again.
BodyBreaksUnmarked(c) ==
    /\ At(c, "response") /\ view[c].inspects
    /\ IF ended[c] THEN UNCHANGED broke ELSE Breaks(c)
    /\ req' = [req EXCEPT ![c].pc = "attempt", ![c].i = @ + 1, ![c].up = NoUpstream]
    /\ UNCHANGED <<sbvars, ended, late, http_vars>>

\* BufferAndDecide cannot read the body: rotate, with no penalty and without
\* asking whether the client's own hang-up broke the read.
BodyBreaks(c) ==
    /\ At(c, "response") /\ view[c].inspects
    /\ IF ended[c] THEN UNCHANGED broke ELSE Breaks(c)
    /\ req' = Burnt(c)
    /\ UNCHANGED <<sbvars, ended, late, http_vars>>

\* Nothing flags the response: RecordSuccess, then the copy to the client,
\* which never goes back to the loop.
Passes(c) ==
    /\ At(c, "response")
    /\ BeginSuccess(c, req[c].host, req[c].up)
    /\ req' = Moved(c, "record")
    /\ UNCHANGED <<ended, broke, late, http_vars>>

\* Defect: a cap below 1 is installed.
ReloadDetectorUnchecked(k) ==
    /\ knobs' = [knobs EXCEPT !.retryCap = k.retryCap - 1, !.detects = k.detects]
    /\ UNCHANGED <<dvars, view>>

\* HTTPServer.Reload, ReloadRules with ReloadBodyBufferKB, and
\* ReloadConnectionRefused, each under runtimeMu.
ReloadDetector(k) ==
    /\ knobs' = [knobs EXCEPT !.retryCap = k.retryCap, !.detects = k.detects]
    /\ UNCHANGED <<dvars, view>>

ReloadInspection(k) ==
    /\ knobs' = [knobs EXCEPT !.inspects = k.inspects]
    /\ UNCHANGED <<dvars, view>>

ReloadConnectionRefused(k) ==
    /\ knobs' = [knobs EXCEPT !.connectionRefused = k.connectionRefused]
    /\ UNCHANGED <<dvars, view>>

----------------------------------------------------------------------------

ForwardInit ==
    /\ Init
    /\ knobs \in Knobs
    /\ view = [c \in Callers |-> NoView]

\* One attempt's own steps.
RoundTrip(c) ==
    \/ RoundTripCut(c) \/ RoundTripUncharged(c)
    \/ \E k \in DialKinds : RoundTripFails(c, k)
    \/ Responds(c)
    \/ \E k \in StatusKinds, o \in RetryAfters \cup {NoOverride} : StatusFails(c, k, o)
    \/ BodyMatches(c) \/ BodyBreaks(c) \/ Passes(c)

ForwardStep(c) ==
    \/ ReadDetector(c) \/ ReadInspection(c)
    \/ RoundTrip(c)
    \/ Walk(c) /\ UNCHANGED http_vars

ForwardNext ==
    \/ \E c \in Plain : \/ Reject(c)
                        \/ \E h \in Hosts : BeginForward(c, h)
                        \/ ForwardStep(c)
    \/ /\ \E c \in Callers \ Plain : Step(c) \/ \E h \in Hosts : Begin(c, h)
       /\ UNCHANGED http_vars
    \/ \E c \in Callers : Cancel(c) /\ UNCHANGED http_vars
    \/ Administration /\ UNCHANGED <<request_vars, http_vars>>
    \/ \E k \in Knobs :
          ReloadDetector(k) \/ ReloadInspection(k) \/ ReloadConnectionRefused(k)

\* Defect: the outbound request does not carry the client's context.
ForwardProceedsDetached(c) ==
    ~At(c, "dial") /\ ~At(c, "response") /\ ForwardStep(c)

\* The transport has no ResponseHeaderTimeout and bodies have no deadline, so
\* an attempt goes on by itself only once the client has gone: newOutReq
\* clones the request with its context.
ForwardProceeds(c) ==
    /\ At(c, "dial") \/ At(c, "response") => ended[c]
    /\ ForwardStep(c)

ForwardSpec ==
    /\ ForwardInit /\ [][ForwardNext]_fvars
    /\ \A c \in Plain : WF_fvars(ForwardProceeds(c))

----------------------------------------------------------------------------
(* Properties *)

ForwardTypeOK ==
    /\ knobs \in [retryCap : 1..RetryCeiling, detects : SUBSET StatusKinds,
                  inspects : BOOLEAN, connectionRefused : BOOLEAN]
    /\ view \in [Callers -> [detects : SUBSET StatusKinds, inspects : BOOLEAN]]
    /\ \A c \in Callers \ Plain : view[c] = NoView

\* A client that hangs up frees its request, however silent the upstream is
\* and however many attempts are left.
HangUpEndsRequest ==
    \A c \in Plain : ended[c] ~> At(c, "done")

\* The extent to which a client may cool the host for everybody (CascadeBlamesUpstreams
\* is not kept here): r.Context().Err at the top of the loop stops a request after one
\* attempt its client ended, so only the last one can be behind a cascade, and none is
\* while the client waits.
OneCutBehindCascade ==
    \A c \in Callers : At(c, "trip") =>
       /\ Cardinality(req[c].tried \ broke[c]) <= 1
       /\ ~ended[c] => req[c].tried \subseteq broke[c]

ForwardContract ==
    INSTANCE DialContract WITH
        Requests <- Callers,
        Attempts <- RetryCeiling,
        attempts <- [c \in Callers |->
                       IF req[c].up = NoUpstream THEN req[c].i ELSE req[c].i + 1],
        dialled <- [c \in Callers |-> req[c].tried \cup ({req[c].up} \ {NoUpstream})],
        verdict <- [c \in Callers |->
                      CASE req[c].pc = "idle" \/ req[c].result = "rejected" -> "none"
                        [] req[c].pc = "done" /\ req[c].result # "rejected" -> req[c].result
                        [] OTHER -> "running"]

\* Plain requests keep the same contract as DialFor, on whatever mixture of
\* settings a reload leaves them: distinct upstreams within the cap, and a
\* response that has been passed on is final.
ForwardImplementsContract ==
    ForwardContract!Init /\ [][ForwardContract!Next]_(ForwardContract!contract_vars)

=============================================================================
