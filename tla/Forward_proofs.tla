---------------------------- MODULE Forward_proofs ----------------------------
(***************************************************************************)
(* Theorems of Forward: what DialFor_proofs shows of CONNECT and SOCKS5    *)
(* requests holds of any mixture of them with plain-HTTP requests, under   *)
(* listener settings that change while they run.                           *)
(***************************************************************************)
EXTENDS Forward, DialFor_proofs

----------------------------------------------------------------------------
(* One attempt of a plain request *)

\* A request answered before it has made an attempt.
LEMMA RejectKeepsLoop ==
    ASSUME LoopInv, NEW c \in Callers, Reject(c)
    PROVE  LoopInv'
<1>1. /\ req[c].pc = "idle" /\ req[c] = Idle /\ req \in [Callers -> Request]
      /\ req[c] \in Request
      /\ UNCHANGED <<sbvars, ended, broke, late>> /\ req' = Finished(c, "rejected")
  BY DEF Reject, At, LoopInv, RequestTypes, WellFormed
<1>2. /\ req'[c].pc = "done" /\ req'[c].result = "rejected" /\ req'[c].i = req[c].i
      /\ req'[c].tried = req[c].tried /\ req'[c].up = req[c].up
      /\ req'[c] \in Request /\ req' = [req EXCEPT ![c] = req'[c]]
  BY <1>1 DEF Finished, Request, Stages, Verdicts, Never, Time
<1>3. req[c].i = 0 /\ req[c].tried = {} /\ req[c].up = NoUpstream
  BY <1>1 DEF Idle
<1>4. PICK opened \in Request : opened = req'[c]
  BY <1>2
<1>5. QED
  BY <1>1, <1>2, <1>3, <1>4, OpeningKeepsLoop

LEMMA BeginForwardKeepsLoop ==
    ASSUME LoopInv, NEW c \in Callers, NEW h \in Hosts, BeginForward(c, h),
           knobs.retryCap \in 1..RetryCeiling
    PROVE  LoopInv'
<1> DEFINE admitted ==
             [Idle EXCEPT !.pc = "detector", !.host = h, !.limit = knobs.retryCap]
<1>1. Idle \in Request
  BY DialAssumption DEF Idle, Request, Stages, Verdicts, Never, Time
<1>2. admitted \in Request
  <2>1. knobs.retryCap \in 0..RetryCeiling
    BY DialAssumption
  <2>2. QED
    BY <1>1, <2>1 DEF Request, Stages
<1>3. /\ admitted.pc = "detector" /\ admitted.result = "none" /\ admitted.i = 0
      /\ admitted.tried = {} /\ admitted.up = NoUpstream /\ admitted.host = h
  BY DEF Idle
<1>4. /\ req' = [req EXCEPT ![c] = admitted]
      /\ req[c].pc = "idle" /\ UNCHANGED <<sbvars, ended, broke, late>>
  BY DEF BeginForward, At
<1> HIDE DEF admitted
<1>5. QED
  BY <1>2, <1>3, <1>4, OpeningKeepsLoop

\* A plain request that reads a setting, or has got the head of a response.
LEMMA ReadKeepsLoop ==
    ASSUME LoopInv, NEW c \in Callers,
           ReadDetector(c) \/ ReadInspection(c) \/ Responds(c)
    PROVE  LoopInv'
<1>1. /\ req[c].pc \in {"detector", "inspection", "dial"} /\ Recorded(c)
      /\ UNCHANGED <<sbvars, ended, broke, late>> /\ late \in [Callers -> Nat]
  BY DEF ReadDetector, ReadInspection, Responds, At, LoopInv, RequestTypes
<1>2. call[c] = NoCall /\ call' = call
  BY <1>1 DEF Recorded, At, sbvars
<1>3. SBTypeOK'
  BY <1>1, TypeStep DEF LoopInv
<1>4. /\ req' \in [Callers -> Request] /\ WellFormed(req'[c])
      /\ req'[c].tried = req[c].tried /\ req'[c].up = req[c].up
      /\ \A d \in Callers \ {c} : req'[d] = req[d]
  BY MovedIsWellFormed DEF ReadDetector, ReadInspection, Responds, At, Stages
<1>5. QED
  BY <1>1, <1>2, <1>3, <1>4, TurnKeepsLoop

LEMMA ForwardStepKeepsLoop ==
    ASSUME LoopInv, NEW c \in Callers, ForwardStep(c)
    PROVE  LoopInv'
<1>1. CASE Walk(c)
  BY <1>1, WalkKeepsLoop
<1>2. CASE ReadDetector(c) \/ ReadInspection(c) \/ Responds(c)
  BY <1>2, ReadKeepsLoop
<1>3. CASE RoundTripCut(c)
  BY <1>3, CutKeepsLoop DEF RoundTripCut, At
<1>4. CASE RoundTripUncharged(c) \/ BodyBreaks(c)
  BY <1>4, RotateKeepsLoop DEF RoundTripUncharged, BodyBreaks, At
<1>5. ASSUME NEW k \in DialKinds, RoundTripFails(c, k)
      PROVE  LoopInv'
  BY <1>5, ChargeKeepsLoop, DialAssumption DEF RoundTripFails, At
<1>6. ASSUME NEW k \in StatusKinds, NEW o \in RetryAfters \cup {NoOverride},
             StatusFails(c, k, o)
      PROVE  LoopInv'
  BY <1>6, ChargeKeepsLoop, ForwardAssumption DEF StatusFails, At
<1>7. CASE BodyMatches(c)
  BY <1>7, ChargeKeepsLoop, ForwardAssumption DEF BodyMatches, At
<1>8. CASE Passes(c)
  BY <1>8, CreditKeepsLoop DEF Passes, At
<1>9. QED
  BY <1>1, <1>2, <1>3, <1>4, <1>5, <1>6, <1>7, <1>8 DEF ForwardStep, RoundTrip

\* Only failures of its own are charged to an upstream, by its statuses and
\* bodies too.
LEMMA ForwardStepKeepsCharges ==
    ASSUME LoopInv, OnlyRealFailuresCharged, NEW c \in Callers, ForwardStep(c)
    PROVE  OnlyRealFailuresCharged'
<1>1. /\ req \in [Callers -> Request] /\ broke \in [Callers -> SUBSET Upstreams]
  BY DEF LoopInv, RequestTypes
<1>2. LoopInv'
  BY ForwardStepKeepsLoop
<1>3. CASE Walk(c)
  BY <1>3, WalkKeepsCharges
<1>4. CASE ReadDetector(c) \/ ReadInspection(c) \/ Responds(c) \/ RoundTripCut(c)
  <2>1. \A d \in Callers : req'[d].host = req[d].host /\ broke[d] \subseteq broke'[d]
    BY <1>1, <1>4 DEF ReadDetector, ReadInspection, Responds, RoundTripCut, Moved, Finished,
       Request
  <2>2. QED
    BY <1>2, <1>4, <2>1, QuietKeepsCharges DEF ReadDetector, ReadInspection, Responds,
       RoundTripCut, sbvars
<1>5. CASE RoundTripUncharged(c) \/ BodyBreaks(c)
  <2>1. \A d \in Callers : req'[d].host = req[d].host /\ broke[d] \subseteq broke'[d]
    BY <1>1, <1>5 DEF RoundTripUncharged, BodyBreaks, Burnt, Breaks, Request
  <2>2. QED
    BY <1>2, <1>5, <2>1, QuietKeepsCharges DEF RoundTripUncharged, BodyBreaks, sbvars
<1>6. ASSUME NEW k \in DialKinds, RoundTripFails(c, k)
      PROVE  OnlyRealFailuresCharged'
  BY <1>6, ChargeIsReal, DialAssumption DEF RoundTripFails, At
<1>7. ASSUME NEW k \in StatusKinds, NEW o \in RetryAfters \cup {NoOverride},
             StatusFails(c, k, o)
      PROVE  OnlyRealFailuresCharged'
  BY <1>7, ChargeIsReal, ForwardAssumption DEF StatusFails, At
<1>8. CASE BodyMatches(c)
  BY <1>8, ChargeIsReal, ForwardAssumption DEF BodyMatches, At
<1>9. CASE Passes(c)
  BY <1>2, <1>9, CreditKeepsCharges DEF Passes
<1>10. QED
  BY <1>3, <1>4, <1>5, <1>6, <1>7, <1>8, <1>9 DEF ForwardStep, RoundTrip

\* A step that only takes one request to a stage outside Pick.
LEMMA OpeningIsQuiet ==
    ASSUME LoopInv, NEW c \in Callers, Reject(c) \/ \E h \in Hosts : BeginForward(c, h)
    PROVE  /\ UNCHANGED <<sbvars, ended, broke, late>>
           /\ req[c].pc = "idle" /\ req'[c].pc \in {"detector", "done"}
           /\ req'[c].result \in {"none", "rejected"}
           /\ Attempted(req'[c]) = Attempted(req[c]) /\ Dialled(req'[c]) = Dialled(req[c])
           /\ OthersStay(c)
<1>1. req \in [Callers -> Request] /\ req[c].pc = "idle" /\ req[c] = Idle
  BY DEF LoopInv, RequestTypes, WellFormed, Reject, BeginForward, At
<1>2. req[c].i = 0 /\ req[c].tried = {} /\ req[c].up = NoUpstream
  BY <1>1 DEF Idle
<1>3. CASE Reject(c)
  <2>1. /\ req'[c].i = req[c].i /\ req'[c].tried = req[c].tried /\ req'[c].up = req[c].up
        /\ req'[c].pc = "done" /\ req'[c].result = "rejected"
        /\ \A d \in Callers \ {c} : req'[d] = req[d]
    BY <1>1, <1>3 DEF Reject, Finished, Request
  <2>2. QED
    BY <1>1, <1>3, <2>1 DEF Reject, OthersStay, Attempted, Dialled
<1>4. ASSUME NEW h \in Hosts, BeginForward(c, h)
      PROVE  /\ req'[c].i = 0 /\ req'[c].tried = {} /\ req'[c].up = NoUpstream
             /\ req'[c].pc = "detector" /\ req'[c].result = "none"
             /\ \A d \in Callers \ {c} : req'[d] = req[d]
             /\ UNCHANGED <<sbvars, ended, broke, late>>
  BY <1>1, <1>4 DEF BeginForward, Idle
<1>5. QED
  BY <1>1, <1>2, <1>3, <1>4 DEF OthersStay, Attempted, Dialled

LEMMA ForwardStepKeepsLate ==
    ASSUME LoopInv, LateInv, NEW c \in Callers, ForwardStep(c)
    PROVE  LateInv'
<1>1. req \in [Callers -> Request]
  BY DEF LoopInv, RequestTypes
<1>2. ASSUME UNCHANGED <<clock, cascade, late>>,
             \A d \in Callers : req'[d] = req[d] \/ req'[d].pc \notin {"pin", "rank"}
      PROVE  LateInv'
  <2>1. \A h \in Hosts : CascadeActive(h, clock)' => CascadeActive(h, clock)
    BY <1>2 DEF CascadeActive
  <2>2. QED
    BY <1>2, <2>1, QuietKeepsLate
<1>3. CASE Walk(c)
  BY <1>3, WalkKeepsLate
<1>4. CASE ReadDetector(c) \/ ReadInspection(c) \/ Responds(c)
  BY <1>1, <1>2, <1>4 DEF ReadDetector, ReadInspection, Responds, Moved, Request, sbvars
<1>5. CASE RoundTripCut(c) \/ RoundTripUncharged(c) \/ BodyBreaks(c)
  BY <1>1, <1>2, <1>5 DEF RoundTripCut, RoundTripUncharged, BodyBreaks, Finished, Burnt,
     Request, sbvars
<1>6. CASE \/ \E k \in DialKinds : RoundTripFails(c, k)
           \/ \E k \in StatusKinds, o \in RetryAfters \cup {NoOverride} : StatusFails(c, k, o)
           \/ BodyMatches(c) \/ Passes(c)
  BY <1>1, <1>2, <1>6 DEF RoundTripFails, StatusFails, BodyMatches, Passes, BeginSuccess,
     BeginFailure, Moved, Request
<1>7. QED
  BY <1>3, <1>4, <1>5, <1>6 DEF ForwardStep, RoundTrip

LEMMA ForwardProgresses ==
    ASSUME LoopInv, NEW c \in Callers, ForwardStep(c)
    PROVE  Progresses(c) \/ UNCHANGED req
<1>1. CASE Walk(c)
  BY <1>1, WalkProgresses
<1>2. CASE ReadDetector(c) \/ ReadInspection(c) \/ Responds(c)
  BY <1>2, MovedStays DEF ReadDetector, ReadInspection, Responds, At, Running, Stages
<1>3. CASE RoundTripCut(c)
  BY <1>3, FinishedReturns DEF RoundTripCut, At, Running
<1>4. CASE RoundTripUncharged(c) \/ BodyBreaks(c)
  BY <1>4, BurntStays DEF RoundTripUncharged, BodyBreaks, At
<1>5. CASE \/ \E k \in DialKinds : RoundTripFails(c, k)
           \/ \E k \in StatusKinds, o \in RetryAfters \cup {NoOverride} : StatusFails(c, k, o)
           \/ BodyMatches(c) \/ Passes(c)
  BY <1>5, MovedStays DEF RoundTripFails, StatusFails, BodyMatches, Passes, At, Running, Stages
<1>6. QED
  BY <1>1, <1>2, <1>3, <1>4, <1>5 DEF ForwardStep, RoundTrip

----------------------------------------------------------------------------
(* Theorems *)

\* The listener's settings are ones SIGHUP may install, piecewise, and what a
\* request has read of them is one of their values.
THEOREM ForwardTypeCorrect == ForwardSpec => []ForwardTypeOK
<1> DEFINE Setting == [retryCap : 1..RetryCeiling, detects : SUBSET StatusKinds,
                       inspects : BOOLEAN, connectionRefused : BOOLEAN]
           Seen == [detects : SUBSET StatusKinds, inspects : BOOLEAN]
<1>1. ForwardInit => ForwardTypeOK
  BY ForwardAssumption DEF ForwardInit, ForwardTypeOK, NoView
<1>2. ASSUME ForwardTypeOK, [ForwardNext]_fvars
      PROVE  ForwardTypeOK'
  <2>1. /\ knobs \in Setting /\ view \in [Callers -> Seen]
        /\ \A c \in Callers \ Plain : view[c] = NoView
    BY <1>2 DEF ForwardTypeOK
  <2>2. ASSUME NEW c \in Plain, ReadDetector(c) \/ ReadInspection(c)
        PROVE  ForwardTypeOK'
    <3>1. /\ view' \in [Callers -> Seen] /\ knobs' = knobs
          /\ \A d \in Callers \ {c} : view'[d] = view[d]
      BY <2>1, <2>2, ForwardAssumption DEF ReadDetector, ReadInspection
    <3>2. QED
      BY <2>1, <3>1 DEF ForwardTypeOK
  <2>3. ASSUME NEW k \in Knobs,
               ReloadDetector(k) \/ ReloadInspection(k) \/ ReloadConnectionRefused(k)
        PROVE  ForwardTypeOK'
    <3>1. k \in Setting
      BY ForwardAssumption
    <3>2. knobs' \in Setting /\ view' = view
      BY <2>1, <2>3, <3>1 DEF ReloadDetector, ReloadInspection, ReloadConnectionRefused
    <3>3. QED
      BY <2>1, <3>2 DEF ForwardTypeOK
  <2>4. CASE UNCHANGED http_vars
    BY <2>1, <2>4 DEF http_vars, ForwardTypeOK
  <2>5. QED
    BY <1>2, <2>2, <2>3, <2>4 DEF ForwardNext, ForwardStep, RoundTrip, Reject, BeginForward,
       RoundTripCut, RoundTripUncharged, RoundTripFails, Responds, StatusFails, BodyMatches,
       BodyBreaks, Passes, fvars, http_vars
<1>3. QED
  BY <1>1, <1>2, PTL DEF ForwardSpec

LEMMA ForwardLoopStep ==
    LoopInv /\ ForwardTypeOK /\ [ForwardNext]_fvars => LoopInv'
<1> SUFFICES ASSUME LoopInv, ForwardTypeOK, [ForwardNext]_fvars PROVE LoopInv'
  OBVIOUS
<1>1. ASSUME NEW c \in Plain, Reject(c) \/ \E h \in Hosts : BeginForward(c, h)
      PROVE  LoopInv'
  BY <1>1, RejectKeepsLoop, BeginForwardKeepsLoop, ForwardAssumption DEF ForwardTypeOK
<1>2. ASSUME NEW c \in Plain, ForwardStep(c)
      PROVE  LoopInv'
  BY <1>2, ForwardStepKeepsLoop, ForwardAssumption
<1>3. ASSUME NEW c \in Callers, Step(c) \/ (\E h \in Hosts : Begin(c, h)) \/ Cancel(c)
      PROVE  LoopInv'
  BY <1>3, DialKeepsLoop, BeginKeepsLoop, CancelKeepsLoop
<1>4. CASE UNCHANGED dvars
  BY <1>4, LoopStep
<1>5. QED
  BY <1>1, <1>2, <1>3, <1>4, AdministrationKeepsLoop DEF ForwardNext, fvars,
     ReloadDetector, ReloadInspection, ReloadConnectionRefused

LEMMA ForwardLoopCorrect == ForwardSpec => [](LoopInv /\ ForwardTypeOK)
<1>1. ForwardInit => LoopInv
  BY InitLoopInv DEF ForwardInit
<1>2. QED
  BY <1>1, ForwardLoopStep, ForwardTypeCorrect, PTL DEF ForwardSpec

\* A client that hangs up never costs an upstream a penalty, and no status or
\* body is charged twice, in any mixture of plain and direct requests.
THEOREM ForwardChargesAreReal == ForwardSpec => []OnlyRealFailuresCharged
<1>1. ASSUME LoopInv, ForwardTypeOK, OnlyRealFailuresCharged, [ForwardNext]_fvars
      PROVE  OnlyRealFailuresCharged'
  <2>1. LoopInv'
    BY <1>1, ForwardLoopStep
  <2>2. ASSUME NEW c \in Plain, Reject(c) \/ \E h \in Hosts : BeginForward(c, h)
        PROVE  OnlyRealFailuresCharged'
    <3>1. c \in Callers
      BY ForwardAssumption
    <3>2. /\ UNCHANGED <<entries, call, broke>> /\ req[c].pc = "idle"
          /\ \A d \in Callers \ {c} : req'[d] = req[d]
      BY <1>1, <2>2, <3>1, OpeningIsQuiet DEF sbvars, OthersStay
    <3>3. \A d \in Callers : broke[d] \subseteq broke'[d]
      BY <3>2
    <3>4. QED
      BY <1>1, <2>1, <3>2, <3>3, QuietKeepsCharges
  <2>3. ASSUME NEW c \in Plain, ForwardStep(c)
        PROVE  OnlyRealFailuresCharged'
    BY <1>1, <2>3, ForwardStepKeepsCharges, ForwardAssumption
  <2>4. ASSUME NEW c \in Callers, Step(c) \/ (\E h \in Hosts : Begin(c, h)) \/ Cancel(c)
        PROVE  OnlyRealFailuresCharged'
    BY <1>1, <2>4, DialKeepsCharges
  <2>5. CASE UNCHANGED dvars
    <3>1. UNCHANGED <<entries, call, req, broke>>
      BY <2>5 DEF dvars, sbvars, request_vars
    <3>2. QED
      BY <1>1, <2>1, <3>1, QuietKeepsCharges
  <2>6. QED
    BY <1>1, <2>2, <2>3, <2>4, <2>5, AdministrationKeepsCharges DEF ForwardNext, fvars,
       ReloadDetector, ReloadInspection, ReloadConnectionRefused
<1>2. ForwardInit => OnlyRealFailuresCharged
  BY InitLoopInv DEF ForwardInit
<1>3. QED
  BY <1>1, <1>2, ForwardLoopCorrect, PTL DEF ForwardSpec

\* No request begins a second dial while its host is in cascade, plain or not.
THEOREM ForwardCascadeStopsDials == ForwardSpec => []OneDialPastCascade
<1>1. ASSUME LoopInv, LateInv, [ForwardNext]_fvars
      PROVE  LateInv'
  <2>1. ASSUME NEW c \in Plain, Reject(c) \/ \E h \in Hosts : BeginForward(c, h)
        PROVE  LateInv'
    <3>1. c \in Callers
      BY ForwardAssumption
    <3>2. /\ UNCHANGED <<clock, cascade, late>> /\ req'[c].pc \in {"detector", "done"}
          /\ \A d \in Callers \ {c} : req'[d] = req[d]
      BY <1>1, <2>1, <3>1, OpeningIsQuiet DEF sbvars, OthersStay
    <3>3. \A h \in Hosts : CascadeActive(h, clock)' => CascadeActive(h, clock)
      BY <3>2 DEF CascadeActive
    <3>4. QED
      BY <1>1, <3>2, <3>3, QuietKeepsLate
  <2>2. ASSUME NEW c \in Plain, ForwardStep(c)
        PROVE  LateInv'
    BY <1>1, <2>2, ForwardStepKeepsLate, ForwardAssumption
  <2>3. ASSUME NEW c \in Callers, Step(c) \/ (\E h \in Hosts : Begin(c, h)) \/ Cancel(c)
        PROVE  LateInv'
    BY <1>1, <2>3, DialKeepsLate
  <2>4. CASE UNCHANGED dvars
    BY <1>1, <2>4 DEF dvars, sbvars, request_vars, LateInv, CascadeActive
  <2>5. QED
    BY <1>1, <2>1, <2>2, <2>3, <2>4, AdministrationKeepsLate DEF ForwardNext, fvars,
       ReloadDetector, ReloadInspection, ReloadConnectionRefused
<1>2. ForwardInit => LateInv
  BY DEF ForwardInit, Init, LateInv, Idle
<1>3. LateInv => OneDialPastCascade
  BY DEF LateInv, OneDialPastCascade
<1>4. QED
  BY <1>1, <1>2, <1>3, ForwardLoopCorrect, PTL DEF ForwardSpec

----------------------------------------------------------------------------
(* The contract *)

\* A request that is rejected has not been called, as far as it goes.
ForwardVerdictOf(r) ==
    CASE r.pc = "idle" \/ r.result = "rejected" -> "none"
      [] r.pc = "done" /\ r.result # "rejected" -> r.result
      [] OTHER -> "running"

ForwardVerdictMap == [c \in Callers |-> ForwardVerdictOf(req[c])]

LEMMA ForwardContractActions ==
    ASSUME NEW c \in Callers
    PROVE  /\ /\ ForwardVerdictMap[c] = "none"
              /\ ForwardVerdictMap' = [ForwardVerdictMap EXCEPT ![c] = "running"]
              /\ UNCHANGED <<DialledMap, AttemptedMap>>
              => ForwardContract!Call(c)
           /\ /\ ForwardVerdictMap[c] = "none"
              /\ ForwardVerdictMap' = [ForwardVerdictMap EXCEPT ![c] = "cascade"]
              /\ UNCHANGED <<DialledMap, AttemptedMap>>
              => ForwardContract!Refuse(c)
           /\ \A u \in Upstreams :
                 /\ ForwardVerdictMap[c] = "running" /\ u \notin DialledMap[c]
                 /\ AttemptedMap[c] < RetryCeiling
                 /\ DialledMap' = [DialledMap EXCEPT ![c] = DialledMap[c] \cup {u}]
                 /\ AttemptedMap' = [AttemptedMap EXCEPT ![c] = AttemptedMap[c] + 1]
                 /\ UNCHANGED ForwardVerdictMap
                 => ForwardContract!Dial(c, u)
           /\ \A v \in ForwardContract!Verdicts :
                 /\ ForwardVerdictMap[c] = "running" /\ (v = "ok" => DialledMap[c] # {})
                 /\ ForwardVerdictMap' = [ForwardVerdictMap EXCEPT ![c] = v]
                 /\ UNCHANGED <<DialledMap, AttemptedMap>>
                 => ForwardContract!Return(c, v)
           /\ UNCHANGED <<DialledMap, AttemptedMap, ForwardVerdictMap>>
              => UNCHANGED ForwardContract!contract_vars
BY DEF ForwardContract!Call, ForwardContract!Refuse, ForwardContract!Dial,
   ForwardContract!Return, ForwardContract!contract_vars, DialledMap, AttemptedMap,
   ForwardVerdictMap, Dialled, Attempted, ForwardVerdictOf

LEMMA ForwardMapsMove ==
    ASSUME NEW c \in Callers, OthersStay(c)
    PROVE  /\ ForwardVerdictMap' = [ForwardVerdictMap EXCEPT ![c] = ForwardVerdictOf(req'[c])]
           /\ ForwardVerdictOf(req'[c]) = ForwardVerdictOf(req[c])
                 => UNCHANGED ForwardVerdictMap
           /\ ForwardVerdictMap[c] = ForwardVerdictOf(req[c])
<1>1. ForwardVerdictMap' = [d \in Callers |-> ForwardVerdictOf(req'[d])]
  BY DEF ForwardVerdictMap, ForwardVerdictOf
<1>2. QED
  BY <1>1 DEF OthersStay, ForwardVerdictMap

LEMMA ForwardProgressIsContract ==
    ASSUME LoopInv, LoopInv', NEW c \in Callers, Progresses(c)
    PROVE  ForwardContract!Next \/ UNCHANGED ForwardContract!contract_vars
<1>1. /\ WellFormed(req[c]) /\ WellFormed(req'[c])
      /\ OthersStay(c) /\ Running(req[c])
  BY DEF LoopInv, Progresses, Stays, Dials, Returns
<1>2. ForwardVerdictOf(req[c]) = "running"
  BY <1>1 DEF WellFormed, Running, ForwardVerdictOf
<1>3. Running(req'[c]) => ForwardVerdictOf(req'[c]) = "running"
  BY <1>1 DEF WellFormed, Running, ForwardVerdictOf
<1>4. CASE Stays(c)
  BY <1>1, <1>2, <1>3, <1>4, MapsMove, ForwardMapsMove, ForwardContractActions DEF Stays
<1>5. CASE Dials(c)
  <2>1. PICK u \in Upstreams : /\ u \notin Dialled(req[c])
                              /\ Dialled(req'[c]) = Dialled(req[c]) \cup {u}
    BY <1>5 DEF Dials
  <2>2. /\ ForwardVerdictMap[c] = "running" /\ u \notin DialledMap[c]
        /\ AttemptedMap[c] < RetryCeiling
        /\ DialledMap' = [DialledMap EXCEPT ![c] = DialledMap[c] \cup {u}]
        /\ AttemptedMap' = [AttemptedMap EXCEPT ![c] = AttemptedMap[c] + 1]
        /\ UNCHANGED ForwardVerdictMap
    BY <1>1, <1>2, <1>3, <1>5, <2>1, MapsMove, MapsAt, ForwardMapsMove DEF Dials
  <2>3. ForwardContract!Dial(c, u)
    BY <2>2, ForwardContractActions
  <2>4. QED
    BY <2>3 DEF ForwardContract!Next
<1>6. CASE Returns(c)
  <2>1. /\ ForwardVerdictOf(req'[c]) = req'[c].result
        /\ req'[c].result \in ForwardContract!Verdicts
    BY <1>6 DEF Returns, ForwardVerdictOf, ForwardContract!Verdicts
  <2>2. PICK v \in ForwardContract!Verdicts : v = req'[c].result
    BY <2>1
  <2>3. /\ ForwardVerdictMap[c] = "running" /\ (v = "ok" => DialledMap[c] # {})
        /\ ForwardVerdictMap' = [ForwardVerdictMap EXCEPT ![c] = v]
        /\ UNCHANGED <<DialledMap, AttemptedMap>>
    BY <1>1, <1>2, <1>6, <2>1, <2>2, MapsMove, MapsAt, ForwardMapsMove DEF Returns
  <2>4. ForwardContract!Return(c, v)
    BY <2>3, ForwardContractActions
  <2>5. QED
    BY <2>4 DEF ForwardContract!Next
<1>7. QED
  BY <1>4, <1>5, <1>6 DEF Progresses

\* A call that opens is refused, is under way, or has not begun.
LEMMA OpeningIsContract ==
    ASSUME LoopInv, LoopInv', NEW c \in Callers,
           Reject(c) \/ (\E h \in Hosts : BeginForward(c, h)) \/ \E h \in Hosts : Begin(c, h)
    PROVE  ForwardContract!Next \/ UNCHANGED ForwardContract!contract_vars
<1>1. /\ OthersStay(c) /\ req[c].pc = "idle"
      /\ Attempted(req'[c]) = Attempted(req[c]) /\ Dialled(req'[c]) = Dialled(req[c])
      /\ \/ Running(req'[c])
         \/ req'[c].pc = "done" /\ req'[c].result \in {"rejected", "cascade"}
         \/ req'[c].pc = "done" /\ req'[c].result = "none"
  BY OpeningIsQuiet, BeginOpens DEF Running
<1>2. WellFormed(req'[c]) /\ ForwardVerdictOf(req[c]) = "none"
  BY <1>1 DEF LoopInv, ForwardVerdictOf
<1>3. ForwardVerdictOf(req'[c]) \in {"none", "running", "cascade"}
  <2>1. CASE Running(req'[c])
    BY <1>2, <2>1 DEF WellFormed, Running, ForwardVerdictOf
  <2>2. CASE req'[c].pc = "done" /\ req'[c].result = "cascade"
    BY <2>2 DEF ForwardVerdictOf
  <2>3. CASE req'[c].pc = "done" /\ req'[c].result \in {"none", "rejected"}
    BY <2>3 DEF ForwardVerdictOf
  <2>4. QED
    BY <1>1, <2>1, <2>2, <2>3
<1>4. /\ UNCHANGED <<DialledMap, AttemptedMap>> /\ ForwardVerdictMap[c] = "none"
      /\ \/ ForwardVerdictMap' = [ForwardVerdictMap EXCEPT ![c] = "running"]
         \/ ForwardVerdictMap' = [ForwardVerdictMap EXCEPT ![c] = "cascade"]
         \/ UNCHANGED ForwardVerdictMap
  BY <1>1, <1>2, <1>3, MapsMove, ForwardMapsMove
<1>5. \/ ForwardContract!Call(c) \/ ForwardContract!Refuse(c)
      \/ UNCHANGED ForwardContract!contract_vars
  BY <1>4, ForwardContractActions
<1>6. QED
  BY <1>5 DEF ForwardContract!Next

\* Plain requests keep DialFor's contract whatever mixture of settings a reload
\* leaves them: an upstream that has answered badly is not asked again, the cap
\* holds, and a response that was passed on is final.
THEOREM ForwardKeepsContract == ForwardSpec => ForwardImplementsContract
<1>1. ForwardInit => ForwardContract!Init
  BY DEF ForwardInit, Init, Idle, ForwardContract!Init
<1>2. ASSUME LoopInv, ForwardTypeOK, [ForwardNext]_fvars
      PROVE  [ForwardContract!Next]_(ForwardContract!contract_vars)
  <2>1. LoopInv'
    BY <1>2, ForwardLoopStep
  <2>2. CASE UNCHANGED req
    BY <2>2 DEF ForwardContract!contract_vars
  <2>3. ASSUME NEW c \in Callers, Progresses(c) \/ UNCHANGED req
        PROVE  ForwardContract!Next \/ UNCHANGED ForwardContract!contract_vars
    BY <1>2, <2>1, <2>2, <2>3, ForwardProgressIsContract
  <2>4. ASSUME NEW c \in Plain,
               Reject(c) \/ (\E h \in Hosts : BeginForward(c, h)) \/ ForwardStep(c)
        PROVE  ForwardContract!Next \/ UNCHANGED ForwardContract!contract_vars
    BY <1>2, <2>1, <2>3, <2>4, ForwardProgresses, OpeningIsContract, ForwardAssumption
  <2>5. ASSUME NEW c \in Callers, Step(c) \/ \E h \in Hosts : Begin(c, h)
        PROVE  ForwardContract!Next \/ UNCHANGED ForwardContract!contract_vars
    BY <1>2, <2>1, <2>3, <2>5, DialProgresses, OpeningIsContract
  <2>6. ASSUME NEW c \in Callers, Cancel(c)
        PROVE  UNCHANGED req
    BY <2>6 DEF Cancel
  <2>7. UNCHANGED request_vars \/ UNCHANGED dvars \/ UNCHANGED fvars => UNCHANGED req
    BY DEF fvars, dvars, request_vars
  <2>8. QED
    BY <1>2, <2>2, <2>4, <2>5, <2>6, <2>7 DEF ForwardNext, ReloadDetector, ReloadInspection,
       ReloadConnectionRefused
<1>3. QED
  BY <1>1, <1>2, ForwardLoopCorrect, PTL DEF ForwardSpec, ForwardImplementsContract

----------------------------------------------------------------------------
(* The scoreboard under plain requests *)

LEMMA BeginForwardIsSection ==
    ASSUME LoopInv, PicksInPast, NEW c \in Callers, NEW h \in Hosts, BeginForward(c, h)
    PROVE  Sectioned
<1>1. req \in [Callers -> Request]
  BY DEF LoopInv, RequestTypes
<1>2. req'[c].now = Never /\ \A d \in Callers \ {c} : req'[d] = req[d]
  BY <1>1 DEF BeginForward, Idle
<1>3. UNCHANGED sbvars
  BY DEF BeginForward
<1>4. QED
  BY <1>2, <1>3, AsideIsSection

\* The steps of a request that record nothing.
LEMMA UnrecordedIsSection ==
    ASSUME LoopInv, PicksInPast, NEW c \in Callers,
           \/ ReadDetector(c) \/ ReadInspection(c) \/ Responds(c) \/ RoundTripCut(c)
           \/ RoundTripUncharged(c) \/ BodyBreaks(c) \/ Reject(c)
    PROVE  Sectioned
<1>1. req \in [Callers -> Request]
  BY DEF LoopInv, RequestTypes
<1>2. UNCHANGED sbvars
  BY DEF ReadDetector, ReadInspection, Responds, RoundTripCut, RoundTripUncharged, BodyBreaks,
     Reject
<1>3. \A d \in Callers : req'[d].now \in {req[d].now, Never}
  BY <1>1 DEF ReadDetector, ReadInspection, Responds, RoundTripCut, RoundTripUncharged,
     BodyBreaks, Reject, Moved, Finished, Burnt, Request
<1>4. QED
  BY <1>2, <1>3, AsideIsSection

LEMMA ForwardStepIsSection ==
    ASSUME LoopInv, PicksInPast, NEW c \in Callers, ForwardStep(c)
    PROVE  Sectioned
<1>1. /\ NoOverride \in RetryAfters \cup {NoOverride}
      /\ DialKinds \cup StatusKinds \cup {BodyMatch} \subseteq Kinds
  BY DialAssumption, ForwardAssumption
<1>2. CASE Walk(c)
  BY <1>2, PickIsSection, RecordIsSection DEF Walk
<1>3. CASE \/ ReadDetector(c) \/ ReadInspection(c) \/ Responds(c) \/ RoundTripCut(c)
           \/ RoundTripUncharged(c) \/ BodyBreaks(c)
  BY <1>3, UnrecordedIsSection
<1>4. ASSUME NEW k \in DialKinds, RoundTripFails(c, k)
      PROVE  Sectioned
  BY <1>1, <1>4, OutcomeIsSection DEF RoundTripFails, At
<1>5. ASSUME NEW k \in StatusKinds, NEW o \in RetryAfters \cup {NoOverride},
             StatusFails(c, k, o)
      PROVE  Sectioned
  BY <1>1, <1>5, OutcomeIsSection DEF StatusFails, At
<1>6. CASE BodyMatches(c)
  BY <1>1, <1>6, OutcomeIsSection DEF BodyMatches, At
<1>7. CASE Passes(c)
  BY <1>7, OutcomeIsSection DEF Passes, At
<1>8. QED
  BY <1>2, <1>3, <1>4, <1>5, <1>6, <1>7 DEF ForwardStep, RoundTrip

\* Statuses, bodies and Retry-After reach the scoreboard in the same sections as
\* dial failures do.
LEMMA ForwardRunsSections == ForwardSpec => AnySpec
<1>1. ASSUME LoopInv, PicksInPast, [ForwardNext]_fvars
      PROVE  Sectioned
  <2>1. ASSUME NEW c \in Plain, Reject(c) \/ \E h \in Hosts : BeginForward(c, h)
        PROVE  Sectioned
    <3>1. c \in Callers
      BY ForwardAssumption
    <3>2. CASE Reject(c)
      BY <1>1, <3>1, <3>2, UnrecordedIsSection
    <3>3. CASE \E h \in Hosts : BeginForward(c, h)
      BY <1>1, <3>1, <3>3, BeginForwardIsSection
    <3>4. QED
      BY <2>1, <3>2, <3>3
  <2>2. ASSUME NEW c \in Plain, ForwardStep(c)
        PROVE  Sectioned
    BY <1>1, <2>2, ForwardStepIsSection, ForwardAssumption
  <2>3. ASSUME NEW c \in Callers, Step(c) \/ (\E h \in Hosts : Begin(c, h)) \/ Cancel(c)
        PROVE  Sectioned
    BY <1>1, <2>3, DialIsSection
  <2>4. CASE UNCHANGED dvars
    BY <1>1, <2>4, AsideIsSection DEF dvars, request_vars
  <2>5. CASE Administration /\ UNCHANGED request_vars
    BY <1>1, <2>5, OperatorIsSection
  <2>6. QED
    BY <1>1, <2>1, <2>2, <2>3, <2>4, <2>5 DEF ForwardNext, fvars, ReloadDetector,
       ReloadInspection, ReloadConnectionRefused
<1>2. LoopInv /\ PicksInPast /\ [ForwardNext]_fvars => [AnySection]_sbvars /\ PicksInPast'
  BY <1>1 DEF Sectioned
<1>3. ForwardInit => SBInit /\ PicksInPast
  BY InitPicks DEF ForwardInit, Init
<1>4. QED
  BY <1>2, <1>3, ForwardLoopCorrect, PTL DEF ForwardSpec, AnySpec

\* The scoreboard's promises hold under plain requests as well: a Retry-After,
\* however long and however late it is recorded, locks nobody out past the
\* ceiling, and every point a score has lost is paid for by a counted failure.
THEOREM ForwardKeepsScoreboard ==
    ForwardSpec => /\ [](PinsInPool /\ BoundedLockout /\ FailuresAccountForScore)
                   /\ LivePinSurvivesEviction
BY ForwardRunsSections, SectionsKeepPins, SectionsBoundLockout, SectionsCountFailures,
   SectionsSparePins, PTL

\* A burst of error responses costs an upstream one penalty per kind and window.
THEOREM ForwardDebounced ==
    ASSUME NEW W, OneWindow(W)
    PROVE  ForwardSpec => []PenaltiesDebounced
BY ForwardRunsSections, SectionsDebounce

----------------------------------------------------------------------------
(* How far a client may cool a host *)

\* Every attempt of a request was ended by its upstream, but for one at most that
\* the client has ended; such a request gets no further than the top of the loop.
Blamed(c) == req[c].tried \subseteq broke[c]

CutOnce(c) ==
    /\ ~ended[c] => Blamed(c)
    /\ req[c].pc \in {"pin", "rank", "dial", "response", "record"} => Blamed(c)
    /\ \E u : req[c].tried \subseteq broke[c] \cup {u}

CutInv == \A c \in Callers : CutOnce(c)

\* A step of one request that ends no attempt.
LEMMA QuietKeepsCuts ==
    ASSUME CutInv, NEW c \in Callers, ended' = ended,
           \A d \in Callers : req'[d].tried = req[d].tried /\ broke[d] \subseteq broke'[d],
           \A d \in Callers \ {c} : req'[d].pc = req[d].pc,
           req'[c].pc \in {"pin", "rank", "dial", "response", "record"}
              => \/ req[c].pc \in {"pin", "rank", "dial", "response", "record"}
                 \/ ~ended[c]
    PROVE  CutInv'
<1>1. ASSUME NEW d \in Callers
      PROVE  CutOnce(d)'
  <2>1. /\ req'[d].tried = req[d].tried /\ broke[d] \subseteq broke'[d]
        /\ CutOnce(d)
    BY <1>1 DEF CutInv
  <2>2. Blamed(d) => Blamed(d)'
    BY <2>1 DEF Blamed
  <2>3. \E u : req'[d].tried \subseteq broke'[d] \cup {u}
    BY <2>1 DEF CutOnce
  <2>4. req'[d].pc \in {"pin", "rank", "dial", "response", "record"}
           => \/ req[d].pc \in {"pin", "rank", "dial", "response", "record"}
              \/ ~ended[d]
    BY <1>1
  <2>5. QED
    BY <2>1, <2>2, <2>3, <2>4 DEF CutOnce
<1>2. QED
  BY <1>1 DEF CutInv

\* The end of an attempt, by its upstream unless the client has gone.
LEMMA BurntKeepsCuts ==
    ASSUME LoopInv, CutInv, NEW c \in Callers, ended' = ended,
           req[c].pc \in {"dial", "response", "record"}, req' = Burnt(c),
           \A d \in Callers : broke[d] \subseteq broke'[d],
           ~ended[c] => req[c].up \in broke'[c]
    PROVE  CutInv'
<1>1. /\ req'[c].tried = req[c].tried \cup {req[c].up} /\ req'[c].pc = "attempt"
      /\ \A d \in Callers \ {c} : req'[d] = req[d]
  BY BurntIsWellFormed
<1>2. CutOnce(c)'
  <2>1. req[c].tried \subseteq broke'[c]
    BY DEF CutInv, CutOnce, Blamed
  <2>2. req'[c].tried \subseteq broke'[c] \cup {req[c].up}
    BY <1>1, <2>1
  <2>3. ~ended[c] => req'[c].tried \subseteq broke'[c]
    BY <1>1, <2>1
  <2>4. QED
    BY <1>1, <2>2, <2>3 DEF CutOnce, Blamed
<1>3. ASSUME NEW d \in Callers \ {c}
      PROVE  CutOnce(d)'
  <2>1. req'[d] = req[d] /\ broke[d] \subseteq broke'[d] /\ CutOnce(d)
    BY <1>1, <1>3 DEF CutInv
  <2>2. QED
    BY <2>1 DEF CutOnce, Blamed
<1>4. QED
  BY <1>2, <1>3 DEF CutInv

\* A request that begins has tried nothing.
LEMMA FreshKeepsCuts ==
    ASSUME CutInv, NEW c \in Callers, UNCHANGED <<ended, broke>>, req'[c].tried = {},
           \A d \in Callers \ {c} : req'[d] = req[d]
    PROVE  CutInv'
<1>1. CutOnce(c)'
  BY DEF CutOnce, Blamed
<1>2. \A d \in Callers \ {c} : CutOnce(d)'
  BY DEF CutInv, CutOnce, Blamed
<1>3. QED
  BY <1>1, <1>2 DEF CutInv

\* The walk: only Charged ends an attempt, one that has been charged.
LEMMA WalkKeepsCuts ==
    ASSUME LoopInv, CutInv, NEW c \in Callers, Walk(c)
    PROVE  CutInv'
<1>1. /\ req \in [Callers -> Request] /\ broke \in [Callers -> SUBSET Upstreams]
      /\ Recorded(c)
  BY DEF LoopInv, RequestTypes
<1>2. CASE Charged(c)
  <2>1. req[c].pc = "record" /\ Charging(c) /\ req' = Burnt(c) /\ UNCHANGED <<ended, broke>>
    BY <1>2 DEF Charged, At, DropFailure, ApplyFailure, Charging
  <2>2. req[c].up \in broke[c]
    BY <1>1, <2>1 DEF Recorded
  <2>3. QED
    BY <2>1, <2>2, BurntKeepsCuts
<1>3. CASE Attempt(c)
  <2>1. /\ \A d \in Callers : req'[d].tried = req[d].tried
        /\ \A d \in Callers \ {c} : req'[d].pc = req[d].pc
        /\ req'[c].pc = "pin" => ~ended[c]
        /\ req'[c].pc \in {"pin", "done"}
    BY <1>1, <1>3 DEF Attempt, Finished, Request
  <2>2. UNCHANGED <<ended, broke>>
    BY <1>3 DEF Attempt
  <2>3. QED
    BY <2>1, <2>2, QuietKeepsCuts
<1>4. CASE LeaveLoop(c) \/ PickUnforced(c) \/ PickExhausted(c) \/ Credited(c) \/ Trip(c)
  <2>1. /\ \A d \in Callers : req'[d].tried = req[d].tried
        /\ \A d \in Callers \ {c} : req'[d].pc = req[d].pc
        /\ req'[c].pc = "rank" => req[c].pc = "pin"
        /\ req'[c].pc \in {"rank", "trip", "done"}
    BY <1>1, <1>4 DEF LeaveLoop, PickUnforced, PickExhausted, Credited, Trip, Finished,
       Moved, Request, At
  <2>2. UNCHANGED <<ended, broke>>
    BY <1>4 DEF LeaveLoop, PickUnforced, PickExhausted, Credited, Trip
  <2>3. QED
    BY <2>1, <2>2, QuietKeepsCuts
<1>5. CASE PickForced(c) \/ PickRanked(c)
  <2>1. req[c].pc \in {"pin", "rank"} /\ UNCHANGED <<ended, broke>>
    BY <1>5 DEF PickForced, PickRanked, At
  <2>2. PICK u : StartDial(c, u)
    BY <1>5 DEF PickForced, PickRanked
  <2>3. /\ \A d \in Callers : req'[d].tried = req[d].tried
        /\ \A d \in Callers \ {c} : req'[d].pc = req[d].pc
    BY <1>1, <2>2 DEF StartDial, Request
  <2>4. QED
    BY <2>1, <2>3, QuietKeepsCuts
<1>6. CASE Stamp(c)
  BY <1>6, QuietKeepsCuts DEF Stamp, request_vars
<1>7. QED
  BY <1>2, <1>3, <1>4, <1>5, <1>6 DEF Walk

\* What an attempt of a plain or a direct request ends in.
LEMMA OutcomeKeepsCuts ==
    ASSUME LoopInv, CutInv, NEW c \in Callers, ended' = ended,
           req[c].pc \in {"dial", "response"},
           \/ /\ req' \in {Moved(c, "response"), Moved(c, "record"), Finished(c, "cancelled")}
              /\ UNCHANGED broke \/ Breaks(c)
           \/ /\ req' = Burnt(c)
              /\ IF ended[c] THEN UNCHANGED broke \/ Breaks(c) ELSE Breaks(c)
    PROVE  CutInv'
<1>1. req \in [Callers -> Request] /\ broke \in [Callers -> SUBSET Upstreams]
  BY DEF LoopInv, RequestTypes
<1>2. \A d \in Callers : broke[d] \subseteq broke'[d]
  BY <1>1 DEF Breaks
<1>3. CASE req' \in {Moved(c, "response"), Moved(c, "record"), Finished(c, "cancelled")}
  <2>1. /\ \A d \in Callers : req'[d].tried = req[d].tried
        /\ \A d \in Callers \ {c} : req'[d].pc = req[d].pc
    BY <1>1, <1>3 DEF Moved, Finished, Request
  <2>2. QED
    BY <1>2, <2>1, QuietKeepsCuts
<1>4. CASE req' = Burnt(c) /\ (~ended[c] => Breaks(c))
  <2>1. ~ended[c] => req[c].up \in broke'[c]
    BY <1>1, <1>4 DEF Breaks
  <2>2. QED
    BY <1>2, <1>4, <2>1, BurntKeepsCuts
<1>5. QED
  BY <1>3, <1>4

LEMMA CutStep ==
    ASSUME LoopInv, CutInv, [ForwardNext]_fvars
    PROVE  CutInv'
<1>1. /\ req \in [Callers -> Request]
      /\ \A c \in Callers : At(c, "idle") => req[c].tried = {}
  BY DEF LoopInv, RequestTypes, WellFormed, Idle, At
<1>2. ASSUME NEW c \in Callers, Walk(c)
      PROVE  CutInv'
  BY <1>2, WalkKeepsCuts
<1>3. ASSUME NEW c \in Callers, Reject(c)
      PROVE  CutInv'
  <2>1. req'[c].tried = {} /\ \A d \in Callers \ {c} : req'[d] = req[d]
    BY <1>1, <1>3 DEF Reject, Finished, Request
  <2>2. QED
    BY <1>3, <2>1, FreshKeepsCuts DEF Reject
<1>4. ASSUME NEW c \in Callers, NEW h \in Hosts, BeginForward(c, h)
      PROVE  CutInv'
  <2>1. req'[c].tried = {} /\ \A d \in Callers \ {c} : req'[d] = req[d]
    BY <1>1, <1>4 DEF BeginForward, Idle
  <2>2. QED
    BY <1>4, <2>1, FreshKeepsCuts DEF BeginForward
<1>5. ASSUME NEW c \in Callers, NEW h \in Hosts, Begin(c, h)
      PROVE  CutInv'
  <2>1. req'[c].tried = {} /\ \A d \in Callers \ {c} : req'[d] = req[d]
    BY <1>1, <1>5 DEF Begin, Idle
  <2>2. QED
    BY <1>5, <2>1, FreshKeepsCuts DEF Begin
<1>6. ASSUME NEW c \in Callers, ReadDetector(c) \/ ReadInspection(c)
      PROVE  CutInv'
  <2>1. /\ \A d \in Callers : req'[d].tried = req[d].tried
        /\ \A d \in Callers \ {c} : req'[d].pc = req[d].pc
        /\ req'[c].pc \in {"inspection", "attempt"}
    BY <1>1, <1>6 DEF ReadDetector, ReadInspection, Moved, Request
  <2>2. UNCHANGED <<ended, broke>>
    BY <1>6 DEF ReadDetector, ReadInspection
  <2>3. QED
    BY <2>1, <2>2, QuietKeepsCuts
<1>7. ASSUME NEW c \in Callers, RoundTrip(c)
      PROVE  CutInv'
  BY <1>7, OutcomeKeepsCuts
     DEF RoundTrip, RoundTripCut, RoundTripUncharged, RoundTripFails, Responds, StatusFails,
         BodyMatches, BodyBreaks, Passes, At
<1>8. ASSUME NEW c \in Callers, \/ DialSucceeds(c) \/ DialCut(c) \/ DialRefusedUnscored(c)
                                \/ \E k \in DialKinds : DialFails(c, k)
      PROVE  CutInv'
  BY <1>8, OutcomeKeepsCuts DEF DialSucceeds, DialCut, DialRefusedUnscored, DialFails, At
<1>9. ASSUME NEW c \in Callers, Cancel(c)
      PROVE  CutInv'
  <2>1. \A d \in Callers : ~ended'[d] => ~ended[d]
    BY <1>9 DEF Cancel, LoopInv, RequestTypes
  <2>2. QED
    BY <1>9, <2>1 DEF Cancel, CutInv, CutOnce, Blamed
<1>10. ASSUME UNCHANGED request_vars
       PROVE  CutInv'
  BY <1>10 DEF request_vars, CutInv, CutOnce, Blamed
<1>11. ASSUME NEW c \in Plain, ForwardStep(c)
       PROVE  CutInv'
  BY <1>2, <1>6, <1>7, <1>11, ForwardAssumption DEF ForwardStep
<1>12. ASSUME NEW c \in Callers, Step(c)
       PROVE  CutInv'
  BY <1>2, <1>8, <1>12 DEF Step
<1>13. CASE UNCHANGED dvars
  BY <1>10, <1>13 DEF dvars
<1>14. CASE \E c \in Plain : Reject(c) \/ (\E h \in Hosts : BeginForward(c, h)) \/ ForwardStep(c)
  BY <1>3, <1>4, <1>11, <1>14, ForwardAssumption
<1>15. CASE \E c \in Callers : Step(c) \/ (\E h \in Hosts : Begin(c, h)) \/ Cancel(c)
  BY <1>5, <1>9, <1>12, <1>15
<1>16. \/ UNCHANGED dvars \/ UNCHANGED request_vars
       \/ \E c \in Plain : Reject(c) \/ (\E h \in Hosts : BeginForward(c, h)) \/ ForwardStep(c)
       \/ \E c \in Callers : Step(c) \/ (\E h \in Hosts : Begin(c, h)) \/ Cancel(c)
  <2>1. CASE UNCHANGED fvars
    BY <2>1 DEF fvars
  <2>2. CASE ForwardNext
    BY <2>2, ZenonT(30)
       DEF ForwardNext, ReloadDetector, ReloadInspection, ReloadConnectionRefused
  <2>3. QED
    BY <2>1, <2>2
<1>17. QED
  BY <1>10, <1>13, <1>14, <1>15, <1>16

\* What is left of "every upstream tried, all failed" (scoreboard.go, DialFor) where
\* handleForward takes the client's hang-up for a broken body: behind a cascade there
\* is at most the last attempt cut by its client, and none while the client waits.
THEOREM OneCutAtMost == ForwardSpec => []OneCutBehindCascade
<1>1. ForwardInit => CutInv
  <2>1. ASSUME ForwardInit, NEW c \in Callers
        PROVE  CutOnce(c)
    <3>1. req[c].tried = {} /\ req[c].pc = "idle"
      BY <2>1 DEF ForwardInit, Init, Idle
    <3>2. QED
      BY <3>1 DEF CutOnce, Blamed
  <2>2. QED
    BY <2>1 DEF CutInv
<1>2. LoopInv /\ CutInv /\ [ForwardNext]_fvars => CutInv'
  BY CutStep
<1>3. ASSUME CutInv, NEW c \in Callers
      PROVE  /\ Cardinality(req[c].tried \ broke[c]) <= 1
             /\ ~ended[c] => req[c].tried \subseteq broke[c]
  <2>1. PICK u : req[c].tried \subseteq broke[c] \cup {u}
    BY <1>3 DEF CutInv, CutOnce
  <2>2. IsFiniteSet({u}) /\ Cardinality({u}) = 1
    BY FS_Singleton
  <2>3. req[c].tried \ broke[c] \subseteq {u}
    BY <2>1
  <2>4. Cardinality(req[c].tried \ broke[c]) <= 1
    BY <2>2, <2>3, FS_Subset
  <2>5. QED
    BY <1>3, <2>4 DEF CutInv, CutOnce, Blamed
<1>4. CutInv => OneCutBehindCascade
  BY <1>3 DEF OneCutBehindCascade
<1>5. QED
  BY <1>1, <1>2, <1>4, ForwardLoopCorrect, PTL DEF ForwardSpec

=============================================================================
