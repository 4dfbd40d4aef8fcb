----------------------------- MODULE HealDriver -----------------------------
(***************************************************************************)
(* The auth-heal drivers (cmd/tunnelsmith/healdriver.go): a burst of 407s  *)
(* from the upstreams of one [[upstream_pool]] block makes its driver call *)
(* the vendor's Heal and hand the result to the pool composer.             *)
(*                                                                         *)
(* One action is one section under the driver's mu or wireMu, or one       *)
(* outcome of the Heal call.  Listeners run before main wires the drivers, *)
(* so events arrive at any time.  Ids and id_prefixes are sequences of     *)
(* their '-'-separated parts, of any number, so HasPrefix(id, prefix + "-")*)
(* is a proper prefix of sequences.                                        *)
(***************************************************************************)
EXTENDS Integers, Sequences, FiniteSets

CONSTANTS
    Prefixes,     \* id_prefix values deployments use
    Suffixes,     \* what a block puts behind its prefix: hostnames, proxy ids
    Deployments,  \* [pools, healers : SUBSET Prefixes, statics : a set of ids]
    Threshold, Window, Cooldown, CallTimeout,
    MaxTime,      \* bound: the clock stops here
    MaxSeen       \* bound: 407s of one block between two heals

ASSUME HealAssumption ==
    /\ Prefixes \subseteq Seq(STRING) \ {<<>>}
    /\ Suffixes \subseteq Seq(STRING) \ {<<>>}
    /\ {Threshold, Window, Cooldown} \subseteq Nat \ {0}
    /\ {CallTimeout, MaxTime, MaxSeen} \subseteq Nat
    \* authHealWindow is 30 s, authHealCooldown 60 s
    /\ Window <= Cooldown
    \* A driver's block is one of the deployment's.
    /\ \A d \in Deployments : d.healers \subseteq d.pools /\ d.pools \subseteq Prefixes

VARIABLES
    deployment,
    clock,
    stopping,   \* gctx is done
    parent,     \* parentCtx of each driver: "background" or "main"
    composer,   \* has setComposer run?
    events,     \* the buffered timestamps
    lastHeal,
    inFlight,
    heal,       \* where runHeal is, with the context it derived
    \* History, read by no action:
    seen,       \* timestamps of every event since the last dispatch
    counted,    \* the events the last dispatch was decided on
    ended,      \* when the last heal goroutine ended
    foreign     \* drivers that counted another block's event

wiring_vars == <<parent, composer>>
driver_vars == <<events, lastHeal, inFlight, heal>>
history_vars == <<seen, counted, ended, foreign>>
hvars == <<deployment, clock, stopping, wiring_vars, driver_vars, history_vars>>

Never == 0

NotRunning == [at |-> "none", parent |-> "none", since |-> Never]

----------------------------------------------------------------------------
(* Which driver an event reaches *)

\* strings.HasPrefix(s, p + "-")
Under(s, p) == Len(p) < Len(s) /\ SubSeq(s, 1, Len(p)) = p

\* Defect: only the static ids are compared.
AcceptsStaticOnly(d) ==
    \A h \in d.healers, s \in d.statics : ~Under(s, h)

\* validateNoPoolPrefixCollision: startup refuses the other deployments.
Accepts(d) ==
    \A h \in d.healers :
       /\ \A s \in d.statics : ~Under(s, h)
       /\ \A p \in d.pools \ {h} : ~Under(p, h)

\* The block of a [[upstream]].
Static == <<>>

Statics == {[block |-> Static, id |-> s] : s \in deployment.statics}

\* What an expander generates: id_prefix + "-" + hostname or proxy id.
Members(p) == {[block |-> p, id |-> p \o s] : s \in Suffixes}

Upstreams == Statics \cup UNION {Members(p) : p \in deployment.pools}

\* Those a KindProxyAuth can come from: it is the 407 of an HTTP upstream to
\* CONNECT and nothing else.  A block without a Healer is a Mullvad block,
\* all of whose members speak SOCKS5.
Challengers == Statics \cup UNION {Members(p) : p \in deployment.healers}

\* fanoutFailureHook: every driver sees the event, Observe keeps its own.
Observers(id) == {h \in deployment.healers : Under(id, h)}

----------------------------------------------------------------------------
(* Counting *)

\* Defect: nothing bounds the buffer.
NewestUncapped(s) == s

\* Defect: the cap keeps the first events, not the last.
Oldest(s) == IF Len(s) > Threshold THEN SubSeq(s, 1, Threshold) ELSE s

\* The cap on the buffer.
Newest(s) ==
    IF Len(s) > Threshold THEN SubSeq(s, Len(s) - Threshold + 1, Len(s)) ELSE s

\* Defect: the window is not applied.
KeptUntrimmed(d) == {Newest(Append(events[d], clock))}

\* What bump keeps: the events of the window (they are in order of time, so
\* the ones that go are a prefix), this one, and of those the newest.
Kept(d) ==
    LET s == events[d]
    IN {Newest(Append(SubSeq(s, k, Len(s)), clock)) : k \in
          {k \in 1..(Len(s) + 1) :
             \A i \in 1..Len(s) : s[i] > clock - Window <=> i >= k}}

CooledDown(d) == lastHeal[d] = Never \/ clock - lastHeal[d] >= Cooldown

\* The gates of bump once the burst is complete.
MayDispatch(d) == ~inFlight[d] /\ CooledDown(d) /\ composer[d]

\* An event of one upstream, for the record.
Note(d, up) ==
    foreign' = IF up.block # d THEN foreign \cup {d} ELSE foreign

\* bump that only counts.
Count(d, up) ==
    /\ d \in Observers(up.id) /\ Len(seen[d]) < MaxSeen
    /\ \E kept \in Kept(d) :
         /\ Len(kept) < Threshold \/ ~MayDispatch(d)
         /\ events' = [events EXCEPT ![d] = kept]
    /\ seen' = [seen EXCEPT ![d] = Append(@, clock)]
    /\ Note(d, up)
    /\ UNCHANGED <<deployment, clock, stopping, wiring_vars, lastHeal, inFlight, heal,
                   counted, ended>>

\* bump that completes a burst: runHeal is started.
Dispatch(d, up) ==
    /\ d \in Observers(up.id)
    /\ MayDispatch(d)
    /\ \E kept \in Kept(d) :
         /\ Len(kept) >= Threshold
         /\ counted' = [counted EXCEPT ![d] = kept]
    /\ events' = [events EXCEPT ![d] = <<>>]
    /\ inFlight' = [inFlight EXCEPT ![d] = TRUE]
    /\ heal' = [heal EXCEPT ![d] = [NotRunning EXCEPT !.at = "started"]]
    /\ seen' = [seen EXCEPT ![d] = <<>>]
    /\ Note(d, up)
    /\ UNCHANGED <<deployment, clock, stopping, wiring_vars, lastHeal, ended>>

----------------------------------------------------------------------------
(* Running a heal *)

\* runHeal reads the wiring and calls Heal under callTimeout.
CallHeal(d) ==
    /\ heal[d].at = "started"
    /\ heal' = [heal EXCEPT ![d] = [at |-> "calling", parent |-> parent[d], since |-> clock]]
    /\ UNCHANGED <<deployment, clock, stopping, wiring_vars, events, lastHeal, inFlight,
                   history_vars>>

\* Heal returns a list; what Update does with it is Composer's.
HealReturns(d) ==
    /\ heal[d].at = "calling"
    /\ heal' = [heal EXCEPT ![d].at = "updating"]
    /\ UNCHANGED <<deployment, clock, stopping, wiring_vars, events, lastHeal, inFlight,
                   history_vars>>

\* Defect: the cooldown runs from the dispatch.
EndedAtDispatch(d) ==
    /\ inFlight' = [inFlight EXCEPT ![d] = FALSE]
    /\ lastHeal' = [lastHeal EXCEPT ![d] = heal[d].since]
    /\ heal' = [heal EXCEPT ![d] = NotRunning]
    /\ ended' = [ended EXCEPT ![d] = clock]

\* runHeal's deferred function, on every path out.
Ended(d) ==
    /\ inFlight' = [inFlight EXCEPT ![d] = FALSE]
    /\ lastHeal' = [lastHeal EXCEPT ![d] = clock]
    /\ heal' = [heal EXCEPT ![d] = NotRunning]
    /\ ended' = [ended EXCEPT ![d] = clock]

\* Defect: a failed heal leaves the driver in flight.
HealFailsStuck(d) ==
    /\ heal[d].at = "calling"
    /\ lastHeal' = [lastHeal EXCEPT ![d] = clock]
    /\ heal' = [heal EXCEPT ![d] = NotRunning]
    /\ ended' = [ended EXCEPT ![d] = clock]
    /\ UNCHANGED <<deployment, clock, stopping, wiring_vars, events, inFlight, seen, counted, foreign>>

\* Heal fails: the vendor, the timeout, or SIGTERM through the parent.
HealFails(d) ==
    /\ heal[d].at = "calling"
    /\ Ended(d)
    /\ UNCHANGED <<deployment, clock, stopping, wiring_vars, events, seen, counted, foreign>>

\* composer.Update has returned, with or without a swap.
UpdateReturns(d) ==
    /\ heal[d].at = "updating"
    /\ Ended(d)
    /\ UNCHANGED <<deployment, clock, stopping, wiring_vars, events, seen, counted, foreign>>

----------------------------------------------------------------------------
(* main *)

\* connectAuthHealDriversToComposer: the context first...
SetParent(d) ==
    /\ parent[d] = "background"
    /\ parent' = [parent EXCEPT ![d] = "main"]
    /\ UNCHANGED <<deployment, clock, stopping, composer, driver_vars, history_vars>>

\* Defect: the composer does not wait for the context.
SetComposerEarly(d) ==
    /\ ~composer[d]
    /\ composer' = [composer EXCEPT ![d] = TRUE]
    /\ UNCHANGED <<deployment, clock, stopping, parent, driver_vars, history_vars>>

\* ...then the composer.
SetComposer(d) ==
    /\ ~composer[d] /\ parent[d] = "main"
    /\ composer' = [composer EXCEPT ![d] = TRUE]
    /\ UNCHANGED <<deployment, clock, stopping, parent, driver_vars, history_vars>>

\* SIGTERM, or a listener that failed.
Stop ==
    /\ ~stopping
    /\ stopping' = TRUE
    /\ UNCHANGED <<deployment, clock, wiring_vars, driver_vars, history_vars>>

\* Time passes; a Heal call lasts CallTimeout at most, the goroutine around
\* it is not held up, and under a parent that is done it ends at once.
Tick ==
    /\ clock < MaxTime
    /\ \A d \in Prefixes :
         heal[d].at = "calling" =>
            /\ clock < heal[d].since + CallTimeout
            /\ ~(stopping /\ heal[d].parent = "main")
    /\ clock' = clock + 1
    /\ UNCHANGED <<deployment, stopping, wiring_vars, driver_vars, history_vars>>

HealInit ==
    /\ deployment \in {d \in Deployments : Accepts(d)}
    /\ clock = 1 /\ stopping = FALSE
    /\ parent = [d \in Prefixes |-> "background"]
    /\ composer = [d \in Prefixes |-> FALSE]
    /\ events = [d \in Prefixes |-> <<>>]
    /\ lastHeal = [d \in Prefixes |-> Never]
    /\ inFlight = [d \in Prefixes |-> FALSE]
    /\ heal = [d \in Prefixes |-> NotRunning]
    /\ seen = [d \in Prefixes |-> <<>>] /\ counted = [d \in Prefixes |-> <<>>]
    /\ ended = [d \in Prefixes |-> Never]
    /\ foreign = {}

Run(d) == CallHeal(d) \/ HealReturns(d) \/ HealFails(d) \/ UpdateReturns(d)

HealNext ==
    \/ \E d \in deployment.healers :
          \/ \E up \in Challengers : Count(d, up) \/ Dispatch(d, up)
          \/ CallHeal(d) \/ HealReturns(d) \/ HealFails(d) \/ UpdateReturns(d)
          \/ SetParent(d) \/ SetComposer(d)
    \/ Stop \/ Tick

\* The Heal call has a deadline and Update takes no lock for good, so a heal
\* that has been started goes on.
HealSpec ==
    /\ HealInit /\ [][HealNext]_hvars
    /\ \A d \in Prefixes : WF_hvars(Run(d))

----------------------------------------------------------------------------
(* Properties *)

\* Types, and the buffer never outgrows the threshold.
HealTypeOK ==
    /\ deployment \in Deployments
    /\ clock \in Nat /\ stopping \in BOOLEAN
    /\ parent \in [Prefixes -> {"background", "main"}]
    /\ composer \in [Prefixes -> BOOLEAN]
    /\ events \in [Prefixes -> Seq(Nat)]
    /\ \A d \in Prefixes : Len(events[d]) <= Threshold
    /\ lastHeal \in [Prefixes -> Nat]
    /\ inFlight \in [Prefixes -> BOOLEAN]
    /\ heal \in [Prefixes -> [at : {"none", "started", "calling", "updating"},
                              parent : {"none", "background", "main"}, since : Nat]]
    /\ seen \in [Prefixes -> Seq(Nat)] /\ counted \in [Prefixes -> Seq(Nat)]
    /\ ended \in [Prefixes -> Nat]
    /\ foreign \subseteq Prefixes

\* "Let one heal complete and propagate" (bump's comment): a heal never runs
\* on evidence gathered before the previous one ended, so 407s of the
\* credentials that heal replaced cannot start another, though they stay
\* buffered while it runs.
EvidenceAfterHeal ==
    \A d \in Prefixes : inFlight[d] =>
       \A i \in DOMAIN counted[d] : counted[d][i] > ended[d]

\* The gap from the end of one heal to the start of the next is the cooldown.
HealsSpaced ==
    [][\A d \in Prefixes :
          ~inFlight[d] /\ inFlight'[d] /\ ended[d] # Never
             => clock - ended[d] >= Cooldown]_hvars

\* Trimming and capping lose no burst: an event that completes Threshold of
\* them inside the window starts a heal unless one runs, ran just now, or the
\* composer is not wired.
Burst(s) ==
    Cardinality({i \in DOMAIN s : s[i] > clock - Window}) + 1 >= Threshold

NoBurstMissed ==
    [][\A d \in Prefixes :
          Len(seen'[d]) > Len(seen[d]) /\ Burst(seen[d])
             => inFlight[d] \/ ~CooledDown(d) \/ ~composer[d]]_hvars

\* No heal escapes shutdown: whatever the order of wiring and events, Heal
\* is called under main's context.
HealUnderMainContext ==
    \A d \in Prefixes : heal[d].at = "calling" => heal[d].parent = "main"

\* The upstreams whose events a foreign driver takes for its own.
Strays == {up \in Upstreams : ~(Observers(up.id) \subseteq {up.block})}

\* No block is healed for another's 407s.  validateNoPoolPrefixCollision's
\* comment promises more, that startup refuses every deployment with a stray;
\* it compares prefixes in one direction, and lets those of blocks without a
\* Healer through.  Their upstreams answer no 407.
OwnEventsOnly ==
    /\ foreign = {}
    /\ \A up \in Strays : up.block \in deployment.pools \ deployment.healers

\* Every heal ends and re-arms its driver.
HealEnds == \A d \in Prefixes : inFlight[d] ~> ~inFlight[d]

=============================================================================
