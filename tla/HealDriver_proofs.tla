-------------------------- MODULE HealDriver_proofs --------------------------
(***************************************************************************)
(* Heals are spaced, run under main's context and stand on fresh evidence  *)
(* of their own block, for every deployment, threshold, window, cooldown   *)
(* and timeout, and clocks of any length.                                  *)
(***************************************************************************)
EXTENDS HealDriver, SequenceTheorems, FiniteSetTheorems, TLAPS

----------------------------------------------------------------------------
(* The inductive invariant *)

WiringTypes ==
    /\ parent \in [Prefixes -> {"background", "main"}]
    /\ composer \in [Prefixes -> BOOLEAN]
    /\ inFlight \in [Prefixes -> BOOLEAN]
    /\ lastHeal \in [Prefixes -> Nat] /\ ended \in [Prefixes -> Nat]
    /\ heal \in [Prefixes -> [at : {"none", "started", "calling", "updating"},
                              parent : {"none", "background", "main"}, since : Nat]]
    /\ clock \in Nat
    /\ deployment.healers \subseteq Prefixes

\* The composer is wired after the context, and only then does a heal start.
WiredInOrder ==
    \A d \in Prefixes :
       /\ composer[d] => parent[d] = "main"
       /\ heal[d].at = "started" => parent[d] = "main"
       /\ heal[d].at = "calling" => heal[d].parent = "main"

\* The cooldown runs from the end of the last heal.
CooldownFromEnd == \A d \in Prefixes : lastHeal[d] = ended[d]

HealInv == WiringTypes /\ WiredInOrder /\ CooldownFromEnd

USE DEF Never

----------------------------------------------------------------------------
(* The invariant is inductive *)

LEMMA HealInitInv == HealInit => HealInv
<1> SUFFICES ASSUME HealInit PROVE HealInv
  OBVIOUS
<1>1. deployment.healers \subseteq Prefixes /\ clock \in Nat
  BY HealAssumption DEF HealInit
<1>2. /\ parent = [d \in Prefixes |-> "background"]
      /\ composer = [d \in Prefixes |-> FALSE]
      /\ lastHeal = [d \in Prefixes |-> Never]
      /\ inFlight = [d \in Prefixes |-> FALSE]
      /\ heal = [d \in Prefixes |-> NotRunning]
      /\ ended = [d \in Prefixes |-> Never]
  BY DEF HealInit
<1>3. WiringTypes
  BY <1>1, <1>2 DEF WiringTypes, NotRunning
<1>4. WiredInOrder /\ CooldownFromEnd
  BY <1>2 DEF WiredInOrder, CooldownFromEnd, NotRunning
<1>5. QED
  BY <1>3, <1>4 DEF HealInv

LEMMA HealInvKept ==
    ASSUME HealInv, [HealNext]_hvars
    PROVE  HealInv'
<1> USE DEF HealInv, WiringTypes, WiredInOrder, CooldownFromEnd
<1>1. ASSUME NEW d \in deployment.healers, NEW up \in Challengers, Count(d, up)
      PROVE  HealInv'
  BY <1>1 DEF Count, wiring_vars
<1>2. ASSUME NEW d \in deployment.healers, NEW up \in Challengers, Dispatch(d, up)
      PROVE  HealInv'
  BY <1>2 DEF Dispatch, MayDispatch, NotRunning, wiring_vars
<1>3. ASSUME NEW d \in deployment.healers, CallHeal(d)
      PROVE  HealInv'
  BY <1>3 DEF CallHeal, wiring_vars, history_vars
<1>4. ASSUME NEW d \in deployment.healers, HealReturns(d)
      PROVE  HealInv'
  <2>1. /\ heal' = [heal EXCEPT ![d].at = "updating"]
        /\ UNCHANGED <<parent, composer, inFlight, lastHeal, ended, clock, deployment>>
    BY <1>4 DEF HealReturns, wiring_vars, history_vars
  <2>2. /\ heal'[d].at = "updating"
        /\ heal'[d] \in [at : {"none", "started", "calling", "updating"},
                        parent : {"none", "background", "main"}, since : Nat]
    BY <2>1
  <2>3. \A e \in Prefixes \ {d} : heal'[e] = heal[e]
    BY <2>1
  <2>4. WiringTypes'
    BY <2>1, <2>2, <2>3
  <2>5. WiredInOrder' /\ CooldownFromEnd'
    BY <2>1, <2>2, <2>3
  <2>6. QED
    BY <2>4, <2>5
<1>5. ASSUME NEW d \in deployment.healers, HealFails(d) \/ UpdateReturns(d)
      PROVE  HealInv'
  <2>1. /\ inFlight' = [inFlight EXCEPT ![d] = FALSE]
        /\ lastHeal' = [lastHeal EXCEPT ![d] = clock] /\ ended' = [ended EXCEPT ![d] = clock]
        /\ heal' = [heal EXCEPT ![d] = NotRunning]
        /\ UNCHANGED <<parent, composer, clock, deployment>>
    BY <1>5 DEF HealFails, UpdateReturns, Ended, wiring_vars
  <2>2. WiringTypes'
    BY <2>1 DEF NotRunning
  <2>3. WiredInOrder'
    BY <2>1 DEF NotRunning
  <2>4. CooldownFromEnd'
    BY <2>1
  <2>5. QED
    BY <2>2, <2>3, <2>4
<1>6. ASSUME NEW d \in deployment.healers, SetParent(d)
      PROVE  HealInv'
  BY <1>6 DEF SetParent, driver_vars, history_vars
<1>7. ASSUME NEW d \in deployment.healers, SetComposer(d)
      PROVE  HealInv'
  BY <1>7 DEF SetComposer, driver_vars, history_vars
<1>8. CASE Stop \/ Tick
  BY <1>8 DEF Stop, Tick, wiring_vars, driver_vars, history_vars
<1>9. CASE UNCHANGED hvars
  BY <1>9 DEF hvars, wiring_vars, driver_vars, history_vars
<1>10. QED
  BY <1>1, <1>2, <1>3, <1>4, <1>5, <1>6, <1>7, <1>8, <1>9 DEF HealNext

LEMMA HealInvInductive == HealSpec => []HealInv
  BY HealInitInv, HealInvKept, PTL DEF HealSpec

----------------------------------------------------------------------------
(* Theorems *)

\* connectAuthHealDriversToComposer: whatever the order of wiring and 407s, no
\* Heal is called under the background context, which SIGTERM would not end.
THEOREM HealsUnderMain == HealSpec => []HealUnderMainContext
<1>1. HealInv => HealUnderMainContext
  BY DEF HealInv, WiredInOrder, HealUnderMainContext
<1>2. QED
  BY <1>1, HealInvInductive, PTL

\* bump keeps timestamps of the window only, this event's among them, and no
\* more than a burst of them.
LEMMA KeptEvents ==
    ASSUME NEW d \in Prefixes, events[d] \in Seq(Nat \ {0}), clock \in Nat \ {0},
           NEW kept \in Kept(d)
    PROVE  /\ kept \in Seq(Nat \ {0}) /\ Len(kept) <= Threshold
           /\ \A i \in 1..Len(kept) : kept[i] > clock - Window
<1> DEFINE T == Nat \ {0}
           s == events[d]
<1>1. /\ Window \in Nat \ {0} /\ Threshold \in Nat \ {0}
      /\ s \in Seq(T) /\ Len(s) \in Nat /\ \A i \in 1..Len(s) : s[i] \in T
  BY HealAssumption, LenProperties, ElementOfSeq
<1>2. PICK k \in 1..(Len(s) + 1) :
         /\ kept = Newest(Append(SubSeq(s, k, Len(s)), clock))
         /\ \A i \in 1..Len(s) : s[i] > clock - Window <=> i >= k
  BY DEF Kept
<1> DEFINE t == SubSeq(s, k, Len(s))
           u == Append(t, clock)
<1>3. /\ t \in Seq(T) /\ Len(t) = Len(s) - k + 1
      /\ \A i \in 1..Len(t) : t[i] > clock - Window
  <2>1. k \in Int /\ k >= 1 /\ k <= Len(s) + 1
    BY <1>1
  <2>2. \A i \in k..Len(s) : s[i] \in T
    BY <1>1, <2>1
  <2>3. /\ t \in Seq(T) /\ Len(t) = IF k <= Len(s) THEN Len(s) - k + 1 ELSE 0
        /\ \A i \in 1..(Len(s) - k + 1) : t[i] = s[k + i - 1]
    BY <1>1, <2>1, <2>2, SubSeqProperties
  <2> HIDE DEF s, t, T
  <2>4. Len(t) = Len(s) - k + 1
    BY <1>1, <2>1, <2>3
  <2>5. ASSUME NEW i \in 1..Len(t) PROVE t[i] > clock - Window
    <3>1. k + i - 1 \in 1..Len(s) /\ k + i - 1 >= k
      BY <1>1, <2>1, <2>4
    <3>2. s[k + i - 1] > clock - Window
      BY <1>2, <3>1
    <3>3. t[i] = s[k + i - 1]
      BY <2>3, <2>4
    <3>4. QED
      BY <3>2, <3>3
  <2>6. QED
    BY <2>3, <2>4, <2>5
<1>4. /\ u \in Seq(T) /\ Len(u) \in Nat
      /\ \A i \in 1..Len(u) : u[i] > clock - Window
  <2>1. /\ u \in Seq(T) /\ Len(u) = Len(t) + 1 /\ u[Len(t) + 1] = clock
        /\ \A i \in 1..Len(t) : u[i] = t[i]
    BY <1>3, AppendProperties
  <2>2. Len(t) \in Nat /\ \A i \in 1..Len(t) : t[i] > clock - Window
    BY <1>3, LenProperties
  <2>3. clock > clock - Window
    BY <1>1
  <2> HIDE DEF T, s, t, u
  <2>4. ASSUME NEW i \in 1..Len(u) PROVE u[i] > clock - Window
    BY <2>1, <2>2, <2>3
  <2>5. QED
    BY <2>1, <2>2, <2>4
<1>5. CASE Len(u) <= Threshold
  <2>1. kept = u
    <3> HIDE DEF u
    <3>1. ~(Len(u) > Threshold)
      BY <1>1, <1>4, <1>5
    <3>2. QED
      BY <1>2, <3>1 DEF Newest, u
  <2>2. QED
    BY <1>4, <1>5, <2>1
<1>6. CASE Len(u) > Threshold
  <2> DEFINE m == Len(u) - Threshold + 1
  <2>1. kept = SubSeq(u, m, Len(u))
    BY <1>2, <1>6 DEF Newest
  <2>2. m \in Int /\ m >= 1 /\ m <= Len(u) /\ Len(u) - m + 1 = Threshold
    BY <1>1, <1>4, <1>6
  <2>3. \A i \in m..Len(u) : u[i] \in T
    <3> HIDE DEF m, T, u
    <3>1. SUFFICES ASSUME NEW i \in m..Len(u) PROVE u[i] \in T
      OBVIOUS
    <3>2. i \in 1..Len(u)
      BY <1>4, <2>2
    <3>3. QED
      BY <1>4, <3>2, ElementOfSeq
  <2>4. /\ kept \in Seq(T) /\ Len(kept) = Threshold
        /\ \A i \in 1..Threshold : kept[i] = u[m + i - 1]
    <3> HIDE DEF m, u
    <3>1. QED
      BY <1>4, <2>1, <2>2, <2>3, SubSeqProperties
  <2>5. ASSUME NEW i \in 1..Len(kept) PROVE kept[i] > clock - Window
    <3>1. m + i - 1 \in 1..Len(u)
      BY <1>1, <1>4, <2>2, <2>4
    <3>2. QED
      BY <1>4, <2>4, <3>1
  <2>6. QED
    BY <1>1, <2>4, <2>5
<1>7. QED
  BY <1>1, <1>4, <1>5, <1>6

\* Timestamps are clock readings, and a running heal stands on evidence newer
\* than the end of the heal before it.
Evidence ==
    /\ clock \in Nat \ {0}
    /\ \A d \in Prefixes : events[d] \in Seq(Nat \ {0})
    /\ counted \in [Prefixes -> Seq(Nat)]
    /\ events = [d \in Prefixes |-> events[d]]
    /\ EvidenceAfterHeal

EvidenceInv == HealInv /\ Evidence

LEMMA EvidenceKept ==
    ASSUME EvidenceInv, [HealNext]_hvars
    PROVE  Evidence'
<1>1. HealInv /\ HealInv' /\ Evidence
  BY HealInvKept DEF EvidenceInv
<1> USE DEF HealInv, WiringTypes
<1>2. ASSUME UNCHANGED <<clock, events, counted, inFlight, ended>>
      PROVE  Evidence'
  BY <1>1, <1>2 DEF Evidence, EvidenceAfterHeal
<1>3. ASSUME NEW d \in deployment.healers, NEW up \in Challengers, Count(d, up)
      PROVE  Evidence'
  <2>1. d \in Prefixes /\ UNCHANGED <<clock, counted, inFlight, ended>>
    BY <1>1, <1>3 DEF Count, Note, wiring_vars
  <2>2. PICK kept \in Kept(d) : events' = [events EXCEPT ![d] = kept]
    BY <1>3 DEF Count
  <2>3. kept \in Seq(Nat \ {0})
    BY <1>1, <2>1, KeptEvents DEF Evidence
  <2>4. QED
    BY <1>1, <2>1, <2>2, <2>3 DEF Evidence, EvidenceAfterHeal
<1>4. ASSUME NEW d \in deployment.healers, NEW up \in Challengers, Dispatch(d, up)
      PROVE  Evidence'
  <2>1. /\ d \in Prefixes /\ UNCHANGED <<clock, ended, lastHeal>>
        /\ events' = [events EXCEPT ![d] = <<>>]
        /\ inFlight' = [inFlight EXCEPT ![d] = TRUE]
    BY <1>1, <1>4 DEF Dispatch, Note, wiring_vars
  <2>2. PICK kept \in Kept(d) : counted' = [counted EXCEPT ![d] = kept]
    BY <1>4 DEF Dispatch
  <2>3. /\ kept \in Seq(Nat \ {0})
        /\ \A i \in 1..Len(kept) : kept[i] > clock - Window
    BY <1>1, <2>1, KeptEvents DEF Evidence
  <2>4. ended[d] = Never \/ clock - ended[d] >= Cooldown
    BY <1>1, <1>4, <2>1 DEF Dispatch, MayDispatch, CooledDown, CooldownFromEnd
  <2>5. ASSUME NEW i \in DOMAIN kept PROVE kept[i] > ended[d]
    <3>1. i \in 1..Len(kept) /\ kept[i] \in Nat \ {0}
      BY <2>3, <2>5, LenProperties, ElementOfSeq
    <3>2. QED
      BY <1>1, <2>1, <2>3, <2>4, <3>1, HealAssumption, SMTT(30)
  <2>6. counted' \in [Prefixes -> Seq(Nat)]
    <3>1. kept \in Seq(Nat)
      BY <2>3, SeqMonotonic
    <3>2. QED
      BY <1>1, <2>2, <3>1 DEF Evidence
  <2>7. EvidenceAfterHeal'
    BY <1>1, <2>1, <2>2, <2>5 DEF Evidence, EvidenceAfterHeal
  <2>8. \A e \in Prefixes : events'[e] \in Seq(Nat \ {0})
    BY <1>1, <2>1, EmptySeq DEF Evidence
  <2>9. QED
    BY <1>1, <2>1, <2>6, <2>7, <2>8 DEF Evidence
<1>5. ASSUME NEW d \in deployment.healers, HealFails(d) \/ UpdateReturns(d)
      PROVE  Evidence'
  <2>1. /\ d \in Prefixes /\ UNCHANGED <<clock, events, counted>>
        /\ inFlight' = [inFlight EXCEPT ![d] = FALSE]
        /\ ended' = [ended EXCEPT ![d] = clock]
    BY <1>1, <1>5 DEF HealFails, UpdateReturns, Ended, wiring_vars
  <2>2. QED
    BY <1>1, <2>1 DEF Evidence, EvidenceAfterHeal
<1>6. CASE Tick
  BY <1>1, <1>6 DEF Tick, Evidence, EvidenceAfterHeal, driver_vars, history_vars
<1>7. QED
  BY <1>2, <1>3, <1>4, <1>5, <1>6 DEF HealNext, CallHeal, HealReturns, SetParent, SetComposer,
     Stop, hvars, wiring_vars, driver_vars, history_vars

\* bump and runHeal: no heal runs on 407s of the credentials the heal before it
\* replaced, whatever was buffered while that one ran.
THEOREM HealsOnFreshEvidence == HealSpec => []EvidenceAfterHeal
<1>1. HealInit => EvidenceInv
  <2> SUFFICES ASSUME HealInit PROVE Evidence
    BY HealInitInv DEF EvidenceInv
  <2>1. /\ clock = 1 /\ events = [d \in Prefixes |-> <<>>]
        /\ counted = [d \in Prefixes |-> <<>>] /\ inFlight = [d \in Prefixes |-> FALSE]
    BY DEF HealInit
  <2>2. QED
    BY <2>1, EmptySeq DEF Evidence, EvidenceAfterHeal
<1>2. EvidenceInv /\ [HealNext]_hvars => EvidenceInv'
  BY EvidenceKept, HealInvKept DEF EvidenceInv
<1>3. EvidenceInv => EvidenceAfterHeal
  BY DEF EvidenceInv, Evidence
<1>4. QED
  BY <1>1, <1>2, <1>3, PTL DEF HealSpec

\* An id that reaches two drivers: one of their prefixes begins with the other.
LEMMA CommonMember ==
    ASSUME NEW Parts, NEW id \in Seq(Parts), NEW p \in Seq(Parts), NEW d \in Seq(Parts),
           Under(id, p), Under(id, d)
    PROVE  p = d \/ Under(p, d) \/ Under(d, p)
<1> DEFINE Shorter(x, y) ==
      /\ x \in Seq(Parts) /\ y \in Seq(Parts) /\ Under(id, x) /\ Under(id, y)
      /\ Len(x) <= Len(y)
<1>1. ASSUME NEW x, NEW y, Shorter(x, y)
      PROVE  x = y \/ Under(y, x)
  <2>1. /\ Len(x) \in Nat /\ Len(y) \in Nat /\ Len(id) \in Nat
        /\ Len(x) <= Len(y) /\ Len(y) < Len(id)
        /\ SubSeq(id, 1, Len(x)) = x /\ SubSeq(id, 1, Len(y)) = y
        /\ x \in Seq(Parts) /\ y \in Seq(Parts)
    BY <1>1, LenProperties DEF Under
  <2>2. /\ \A i \in 1..Len(id) : id[i] \in Parts
        /\ \A i \in 1..Len(y) : y[i] \in Parts
    BY <2>1, ElementOfSeq
  <2> HIDE DEF Shorter
  <2>3. /\ \A i \in 1..Len(x) : i \in 1..Len(id)
        /\ \A i \in 1..Len(y) : i \in 1..Len(id)
        /\ \A i \in 1..Len(x) : i \in 1..Len(y)
    BY <2>1
  <2>4. /\ \A i \in 1..Len(x) : x[i] = id[i]
        /\ \A i \in 1..Len(y) : y[i] = id[i]
    <3>1. \A n \in Nat : n <= Len(id) =>
            \A i \in 1..n : SubSeq(id, 1, n)[i] = id[i]
      <4>1. SUFFICES ASSUME NEW n \in Nat, n <= Len(id), NEW i \in 1..n
                     PROVE  SubSeq(id, 1, n)[i] = id[i]
        OBVIOUS
      <4>2. \A j \in 1..n : id[j] \in Parts
        BY <2>1, <2>2, <4>1
      <4>3. i \in 1..(n - 1 + 1) /\ 1 + i - 1 = i /\ 1 <= n + 1
        BY <4>1
      <4>4. QED
        BY <4>2, <4>3, SubSeqProperties
    <3>2. QED
      BY <2>1, <3>1
  <2>5. SubSeq(y, 1, Len(x)) = x
    <3>1. \A i \in 1..Len(x) : y[i] \in Parts
      BY <2>2, <2>3
    <3>2. /\ SubSeq(y, 1, Len(x)) \in Seq(Parts) /\ Len(SubSeq(y, 1, Len(x))) = Len(x)
          /\ \A i \in 1..Len(x) : SubSeq(y, 1, Len(x))[i] = y[i]
      BY <2>1, <3>1, SubSeqProperties
    <3>3. QED
      BY <2>1, <2>3, <2>4, <3>2, SeqEqual
  <2>6. CASE Len(x) = Len(y)
    BY <2>1, <2>4, <2>6, SeqEqual
  <2>7. CASE Len(x) < Len(y)
    BY <2>5, <2>7 DEF Under
  <2>8. Len(x) = Len(y) \/ Len(x) < Len(y)
    <3>1. Len(x) \in Nat /\ Len(y) \in Nat /\ Len(x) <= Len(y)
      BY <2>1
    <3>2. QED
      BY ONLY <3>1
  <2>9. QED
    BY ONLY <2>6, <2>7, <2>8
<1>2. Len(p) <= Len(d) \/ Len(d) <= Len(p)
  BY LenProperties
<1>3. Shorter(p, d) \/ Shorter(d, p)
  BY <1>2
<1> HIDE DEF Shorter
<1>4. QED
  BY <1>1, <1>3

\* An expander's ids are under its prefix, however many parts it adds.
LEMMA MemberUnderPrefix ==
    ASSUME NEW p \in Prefixes, NEW up \in Members(p)
    PROVE  up.block = p /\ up.id \in Seq(STRING) /\ Under(up.id, p)
<1>1. PICK s \in Suffixes : up = [block |-> p, id |-> p \o s]
  BY DEF Members
<1>2. p \in Seq(STRING) /\ s \in Seq(STRING) /\ s # <<>>
  BY HealAssumption
<1>3. /\ p \o s \in Seq(STRING) /\ Len(p \o s) = Len(p) + Len(s)
      /\ \A i \in 1..Len(p) : (p \o s)[i] = p[i]
  BY <1>2, ConcatProperties, LenProperties
<1>4. Len(p) \in Nat /\ Len(s) \in Nat /\ Len(s) # 0
  BY <1>2, LenProperties, EmptySeq
<1>5. SubSeq(p \o s, 1, Len(p)) = p
  <2>1. \A i \in 1..Len(p) : (p \o s)[i] \in STRING
    BY <1>2, <1>3, ElementOfSeq
  <2>2. /\ SubSeq(p \o s, 1, Len(p)) \in Seq(STRING)
        /\ Len(SubSeq(p \o s, 1, Len(p))) = Len(p)
        /\ \A i \in 1..Len(p) : SubSeq(p \o s, 1, Len(p))[i] = (p \o s)[i]
    BY <1>3, <1>4, <2>1, SubSeqProperties
  <2>3. QED
    BY <1>2, <1>3, <2>2, SeqEqual
<1>6. QED
  BY <1>1, <1>3, <1>4, <1>5 DEF Under

\* In a deployment that starts, the drivers an upstream that can answer 407
\* reaches are its own.
LEMMA ChallengersReachOwn ==
    ASSUME Accepts(deployment), deployment.pools \subseteq Prefixes,
           deployment.healers \subseteq deployment.pools,
           NEW up \in Challengers, NEW d \in Observers(up.id)
    PROVE  up.block = d
<1>1. Under(up.id, d) /\ d \in deployment.healers /\ d \in deployment.pools /\ d \in Seq(STRING)
  BY HealAssumption DEF Observers
<1>2. up \notin Statics
  BY <1>1 DEF Accepts, Statics
<1>3. PICK p \in deployment.healers : up \in Members(p)
  BY <1>2 DEF Challengers
<1>4. /\ p \in Prefixes /\ p \in deployment.pools /\ p \in Seq(STRING)
      /\ up.block = p /\ up.id \in Seq(STRING) /\ Under(up.id, p)
  BY <1>3, MemberUnderPrefix, HealAssumption
<1>5. p = d \/ Under(p, d) \/ Under(d, p)
  BY <1>1, <1>4, CommonMember
<1>6. p = d
  BY <1>1, <1>4, <1>5 DEF Accepts
<1>7. QED
  BY <1>4, <1>6

\* Observe and validateNoPoolPrefixCollision: in a deployment that starts, the
\* 407 of any upstream that can answer one, whatever its id, is counted by the
\* driver of that upstream's block and by no other, and an id that is routed
\* elsewhere belongs to a block without a Healer.
THEOREM EventsAreOwn == HealSpec => []OwnEventsOnly
<1> DEFINE Own == /\ foreign = {} /\ Accepts(deployment)
                  /\ deployment.pools \subseteq Prefixes
                  /\ deployment.healers \subseteq deployment.pools
<1>1. HealInit => Own
  BY HealAssumption DEF HealInit
<1>2. Own /\ [HealNext]_hvars => Own'
  <2> SUFFICES ASSUME Own, [HealNext]_hvars PROVE Own'
    OBVIOUS
  <2>1. ASSUME NEW d \in deployment.healers, NEW up \in Challengers,
               Count(d, up) \/ Dispatch(d, up)
        PROVE  foreign' = foreign /\ deployment' = deployment
    BY <2>1, ChallengersReachOwn DEF Count, Dispatch, Note
  <2>2. CASE UNCHANGED <<foreign, deployment>>
    BY <2>2
  <2>3. QED
    BY <2>1, <2>2 DEF HealNext, CallHeal, HealReturns, HealFails, UpdateReturns, SetParent,
       SetComposer, Stop, Tick, hvars, history_vars
<1>3. Own => OwnEventsOnly
  <2> SUFFICES ASSUME Own, NEW up \in Strays
               PROVE  up.block \in deployment.pools \ deployment.healers
    BY DEF OwnEventsOnly
  <2>1. up \notin Challengers
    BY ChallengersReachOwn DEF Strays
  <2>2. PICK p \in deployment.pools : up \in Members(p)
    BY <2>1 DEF Strays, Upstreams, Challengers
  <2>3. p \notin deployment.healers
    BY <2>1, <2>2 DEF Challengers
  <2>4. up.block = p
    BY <2>2, MemberUnderPrefix
  <2>5. QED
    BY <2>2, <2>3, <2>4
<1>4. QED
  BY <1>1, <1>2, <1>3, PTL DEF HealSpec

\* bump and runHeal: from the end of one heal to the start of the next there is
\* a whole cooldown, however long the heal took and whatever arrived meanwhile.
THEOREM HealsAreSpaced == HealSpec => HealsSpaced
<1>1. ASSUME HealInv, [HealNext]_hvars
      PROVE  [\A d \in Prefixes :
                ~inFlight[d] /\ inFlight'[d] /\ ended[d] # Never
                   => clock - ended[d] >= Cooldown]_hvars
  <2> SUFFICES ASSUME HealNext, NEW d \in Prefixes, ~inFlight[d], inFlight'[d], ended[d] # Never
               PROVE  clock - ended[d] >= Cooldown
    BY <1>1
  <2>1. ASSUME NEW e \in deployment.healers, NEW up \in Challengers, Dispatch(e, up)
        PROVE  clock - ended[d] >= Cooldown
    <3>1. d = e
      BY <1>1, <2>1 DEF Dispatch, HealInv, WiringTypes
    <3>2. QED
      BY <1>1, <2>1, <3>1 DEF Dispatch, MayDispatch, CooledDown, HealInv, CooldownFromEnd
  <2>2. ASSUME NEW e \in deployment.healers, HealFails(e) \/ UpdateReturns(e)
        PROVE  FALSE
    BY <1>1, <2>2 DEF HealFails, UpdateReturns, Ended, HealInv, WiringTypes
  <2>3. ASSUME UNCHANGED inFlight
        PROVE  FALSE
    BY <2>3
  <2>4. QED
    BY <2>1, <2>2, <2>3 DEF HealNext, Count, CallHeal, HealReturns, SetParent, SetComposer,
       Stop, Tick, driver_vars
<1>2. QED
  BY <1>1, HealInvInductive, PTL DEF HealSpec, HealsSpaced

----------------------------------------------------------------------------
(* The buffer against all that was seen *)

\* The cap of bump keeps a suffix.
LEMMA NewestSuffix ==
    ASSUME NEW T, NEW u \in Seq(T)
    PROVE  /\ Newest(u) \in Seq(T)
           /\ Len(Newest(u)) = IF Len(u) > Threshold THEN Threshold ELSE Len(u)
           /\ \A i \in 1..Len(Newest(u)) :
                Newest(u)[i] = u[Len(u) - Len(Newest(u)) + i]
<1>1. Threshold \in Nat \ {0} /\ Len(u) \in Nat
  BY HealAssumption, LenProperties
<1>2. CASE Len(u) > Threshold
  <2> DEFINE m == Len(u) - Threshold + 1
  <2>1. m \in 1..Len(u) /\ Len(u) - m + 1 = Threshold /\ m <= Len(u) + 1
    BY <1>1, <1>2
  <2>2. \A i \in m..Len(u) : u[i] \in T
    BY <1>1, <2>1, ElementOfSeq
  <2>3. Newest(u) = SubSeq(u, m, Len(u))
    BY <1>2 DEF Newest
  <2>4. /\ Newest(u) \in Seq(T) /\ Len(Newest(u)) = Threshold
        /\ \A i \in 1..Threshold : Newest(u)[i] = u[m + i - 1]
    <3> HIDE DEF m
    <3>1. QED
      BY <1>1, <2>1, <2>2, <2>3, SubSeqProperties
  <2>5. \A i \in 1..Threshold : m + i - 1 = Len(u) - Threshold + i
    BY <1>1
  <2>6. QED
    BY <1>2, <2>4, <2>5
<1>3. CASE ~(Len(u) > Threshold)
  <2>1. Newest(u) = u
    BY <1>3 DEF Newest
  <2>2. \A i \in 1..Len(u) : Len(u) - Len(u) + i = i
    BY <1>1
  <2>3. QED
    BY <1>3, <2>1, <2>2
<1>4. QED
  BY <1>2, <1>3

\* d's buffer is the end of what d saw since its last dispatch, in order of
\* time; what is missing in front has left the window, unless the buffer is
\* full.
Buffered(d) ==
    /\ events[d] \in Seq(Nat) /\ seen[d] \in Seq(Nat)
    /\ Len(events[d]) <= Threshold /\ Len(events[d]) <= Len(seen[d])
    /\ \A i, j \in 1..Len(seen[d]) : i <= j => seen[d][i] <= seen[d][j]
    /\ \A i \in 1..Len(seen[d]) : seen[d][i] <= clock
    /\ \A i \in 1..Len(events[d]) :
         events[d][i] = seen[d][Len(seen[d]) - Len(events[d]) + i]
    /\ \/ Len(events[d]) = Threshold
       \/ \A i \in 1..(Len(seen[d]) - Len(events[d])) : seen[d][i] <= clock - Window

\* bump: trimming by the window and capping by the count keep the buffer that.
LEMMA KeptIsBuffered ==
    ASSUME NEW d \in Prefixes, clock \in Nat, Buffered(d), NEW kept \in Kept(d)
    PROVE  LET s == Append(seen[d], clock)
           IN  /\ kept \in Seq(Nat) /\ Len(kept) <= Threshold /\ Len(kept) <= Len(s)
               /\ Len(kept) >= 1
               /\ \A i \in 1..Len(kept) : kept[i] = s[Len(s) - Len(kept) + i]
               /\ \/ Len(kept) = Threshold
                  \/ \A i \in 1..(Len(s) - Len(kept)) : s[i] <= clock - Window
<1> DEFINE e == events[d]
           n == Len(seen[d])
           o == n - Len(e)
           s == Append(seen[d], clock)
<1>1. /\ Window \in Nat \ {0} /\ Threshold \in Nat \ {0} /\ clock \in Nat
      /\ e \in Seq(Nat) /\ Len(e) \in Nat /\ n \in Nat /\ o \in Nat
      /\ \A i \in 1..Len(e) : e[i] \in Nat
      /\ seen[d] \in Seq(Nat) /\ \A i \in 1..n : seen[d][i] \in Nat
  <2>1. e \in Seq(Nat) /\ seen[d] \in Seq(Nat) /\ Len(e) <= n
    BY DEF Buffered
  <2>2. Len(e) \in Nat /\ n \in Nat
    BY <2>1, LenProperties
  <2>3. /\ \A i \in 1..Len(e) : e[i] \in Nat
        /\ \A i \in 1..n : seen[d][i] \in Nat
    BY <2>1, ElementOfSeq
  <2>4. o \in Nat
    BY <2>1, <2>2
  <2>5. QED
    BY <2>1, <2>2, <2>3, <2>4, HealAssumption
<1>2. /\ s \in Seq(Nat) /\ Len(s) = n + 1 /\ s[n + 1] = clock
      /\ \A i \in 1..n : s[i] = seen[d][i]
  BY <1>1, AppendProperties
<1>3. PICK k \in 1..(Len(e) + 1) :
         /\ kept = Newest(Append(SubSeq(e, k, Len(e)), clock))
         /\ \A i \in 1..Len(e) : e[i] > clock - Window <=> i >= k
  BY DEF Kept
<1>4. k \in Int /\ k >= 1 /\ k <= Len(e) + 1
  BY <1>1
<1> DEFINE t == SubSeq(e, k, Len(e))
           u == Append(t, clock)
<1>5. /\ t \in Seq(Nat) /\ Len(t) = Len(e) - k + 1
      /\ \A i \in 1..Len(t) : t[i] = e[k + i - 1]
  <2>1. \A i \in k..Len(e) : e[i] \in Nat
    BY <1>1, <1>4
  <2>2. /\ t \in Seq(Nat) /\ Len(t) = IF k <= Len(e) THEN Len(e) - k + 1 ELSE 0
        /\ \A i \in 1..(Len(e) - k + 1) : t[i] = e[k + i - 1]
    BY <1>1, <1>4, <2>1, SubSeqProperties
  <2> HIDE DEF t, e
  <2>3. QED
    BY <1>1, <1>4, <2>2, SMTT(30)
<1>6. /\ u \in Seq(Nat) /\ Len(u) = Len(e) - k + 2 /\ u[Len(u)] = clock
      /\ \A i \in 1..(Len(u) - 1) : u[i] = e[k + i - 1]
  <2>1. /\ u \in Seq(Nat) /\ Len(u) = Len(t) + 1 /\ u[Len(t) + 1] = clock
        /\ \A i \in 1..Len(t) : u[i] = t[i]
    BY <1>1, <1>5, AppendProperties, SMTT(30)
  <2> HIDE DEF t, e, u
  <2>2. Len(t) \in Nat /\ Len(u) - 1 = Len(t) /\ Len(u) = Len(e) - k + 2
    BY <1>1, <1>4, <1>5, <2>1
  <2>3. ASSUME NEW i \in 1..(Len(u) - 1) PROVE u[i] = e[k + i - 1]
    <3>1. i \in 1..Len(t)
      BY <2>2
    <3>2. QED
      BY <1>5, <2>1, <3>1
  <2>4. QED
    BY <2>1, <2>2, <2>3
<1>7. /\ \A i \in 1..Len(e) : e[i] = seen[d][o + i]
      /\ \A i, j \in 1..n : i <= j => seen[d][i] <= seen[d][j]
      /\ Len(e) = Threshold \/ \A i \in 1..o : seen[d][i] <= clock - Window
      /\ Len(e) <= Threshold /\ o + Len(e) = n
  <2>1. /\ \A i \in 1..Len(e) : e[i] = seen[d][o + i]
        /\ \A i, j \in 1..n : i <= j => seen[d][i] <= seen[d][j]
    BY DEF Buffered
  <2>2. Len(e) = Threshold \/ \A i \in 1..o : seen[d][i] <= clock - Window
    BY DEF Buffered
  <2>3. Len(e) <= Threshold
    BY DEF Buffered
  <2>4. o + Len(e) = n
    BY <1>1
  <2>5. QED
    BY <2>1, <2>2, <2>3, <2>4
<1>8. /\ kept = Newest(u) /\ kept \in Seq(Nat)
      /\ Len(kept) = IF Len(u) > Threshold THEN Threshold ELSE Len(u)
      /\ \A i \in 1..Len(kept) : kept[i] = u[Len(u) - Len(kept) + i]
  <2> HIDE DEF u
  <2>1. kept = Newest(u)
    BY <1>3 DEF u
  <2>2. QED
    BY <1>6, <2>1, NewestSuffix
<1> HIDE DEF e, n, o, s, t, u
\* The lengths, without the contents.
<1>9. /\ Threshold \in Nat \ {0} /\ Window \in Nat /\ clock \in Nat
      /\ Len(e) \in Nat /\ n \in Nat /\ o \in Nat /\ k \in Int
      /\ k >= 1 /\ k <= Len(e) + 1 /\ o + Len(e) = n /\ Len(e) <= Threshold
      /\ Len(s) = n + 1 /\ Len(u) = Len(e) - k + 2
      /\ Len(kept) = IF Len(u) > Threshold THEN Threshold ELSE Len(u)
  BY <1>1, <1>2, <1>4, <1>6, <1>7, <1>8
<1>10. \A i \in 1..Len(u) : u[i] = s[Len(s) - Len(u) + i]
  <2> SUFFICES ASSUME NEW i \in 1..Len(u) PROVE u[i] = s[Len(s) - Len(u) + i]
    OBVIOUS
  <2>1. CASE i = Len(u)
    BY <1>1, <1>2, <1>4, <1>6, <2>1, SMTT(30)
  <2>2. CASE i # Len(u)
    <3>1. /\ i \in 1..(Len(u) - 1) /\ k + i - 1 \in 1..Len(e)
          /\ o + (k + i - 1) = Len(s) - Len(u) + i /\ o + (k + i - 1) \in 1..n
      BY <1>9, <2>2
    <3>2. u[i] = seen[d][o + (k + i - 1)]
      BY <1>6, <1>7, <3>1
    <3>3. QED
      BY <1>2, <3>1, <3>2
  <2>3. QED
    BY <2>1, <2>2
<1>11. Len(kept) \in Nat /\ Len(u) \in Nat /\ Len(kept) <= Len(u) /\ Len(u) <= Len(s)
  BY <1>9
<1>12. \A i \in 1..Len(kept) : kept[i] = s[Len(s) - Len(kept) + i]
  <2> SUFFICES ASSUME NEW i \in 1..Len(kept) PROVE kept[i] = s[Len(s) - Len(kept) + i]
    OBVIOUS
  <2>1. /\ Len(u) - Len(kept) + i \in 1..Len(u)
        /\ Len(s) - Len(u) + (Len(u) - Len(kept) + i) = Len(s) - Len(kept) + i
    BY <1>1, <1>2, <1>11, SMTT(30)
  <2>2. QED
    BY <1>8, <1>10, <2>1
<1>13. ASSUME Len(kept) # Threshold, NEW i \in 1..(Len(s) - Len(kept))
       PROVE  s[i] <= clock - Window
  <2>1. /\ Len(kept) = Len(u) /\ Len(u) < Threshold
        /\ i \in 1..(o + k - 1) /\ i \in 1..n
    BY <1>13, <1>9
  <2>2. CASE i > o
    <3>1. i - o \in 1..Len(e) /\ ~(i - o >= k) /\ o + (i - o) = i
      BY <1>1, <1>4, <1>7, <2>1, <2>2
    <3>2. ~(e[i - o] > clock - Window) /\ e[i - o] \in Nat
      BY <1>1, <1>3, <3>1 DEF e
    <3>3. s[i] = e[i - o]
      BY <1>2, <1>7, <2>1, <3>1
    <3>4. QED
      BY <1>1, <3>2, <3>3
  <2>3. CASE i <= o /\ Len(e) # Threshold
    BY <1>1, <1>2, <1>7, <2>1, <2>3
  <2>4. CASE i <= o /\ Len(e) = Threshold
    <3>1. k > 1 /\ 1 \in 1..Len(e) /\ o + 1 \in 1..n /\ i <= o + 1
      BY <1>1, <1>4, <1>6, <1>7, <2>1, <2>4
    <3>2. ~(e[1] > clock - Window) /\ e[1] \in Nat
      BY <1>1, <1>3, <1>4, <3>1 DEF e
    <3>3. seen[d][i] <= seen[d][o + 1] /\ seen[d][o + 1] = e[1]
      BY <1>7, <2>1, <3>1
    <3>4. s[i] = seen[d][i] /\ seen[d][i] \in Nat
      BY <1>1, <1>2, <2>1
    <3>5. clock - Window \in Int /\ e[1] <= clock - Window
      BY <1>9, <3>2
    <3>6. QED
      BY <3>2, <3>3, <3>4, <3>5
  <2>5. QED
    BY <1>1, <2>1, <2>2, <2>3, <2>4
<1>14. Len(kept) >= 1 /\ Len(kept) <= Threshold
  BY <1>9
<1>15. Len(kept) <= Len(s)
  BY <1>9, <1>11
<1>16. \/ Len(kept) = Threshold
       \/ \A i \in 1..(Len(s) - Len(kept)) : s[i] <= clock - Window
  BY <1>13
<1>17. kept \in Seq(Nat)
  BY <1>8
<1>18. QED
  BY ONLY <1>12, <1>14, <1>15, <1>16, <1>17 DEF s

\* bump that only counts: one more event seen, and the buffer is still its end.
LEMMA CountKeepsBuffered ==
    ASSUME NEW d \in Prefixes, clock \in Nat, Buffered(d), NEW kept \in Kept(d),
           events'[d] = kept, seen'[d] = Append(seen[d], clock), clock' = clock
    PROVE  Buffered(d)'
<1> DEFINE n == Len(seen[d])
           s == Append(seen[d], clock)
<1>1. /\ seen[d] \in Seq(Nat) /\ n \in Nat /\ \A i \in 1..n : seen[d][i] \in Nat
      /\ s \in Seq(Nat) /\ Len(s) = n + 1 /\ s[n + 1] = clock
      /\ \A i \in 1..n : s[i] = seen[d][i]
  BY LenProperties, ElementOfSeq, AppendProperties DEF Buffered
<1>2. /\ \A i, j \in 1..n : i <= j => seen[d][i] <= seen[d][j]
      /\ \A i \in 1..n : seen[d][i] <= clock
  BY DEF Buffered
<1>3. /\ kept \in Seq(Nat) /\ Len(kept) <= Threshold /\ Len(kept) <= Len(s)
      /\ \A i \in 1..Len(kept) : kept[i] = s[Len(s) - Len(kept) + i]
      /\ \/ Len(kept) = Threshold
         \/ \A i \in 1..(Len(s) - Len(kept)) : s[i] <= clock - Window
  BY KeptIsBuffered
<1> HIDE DEF n, s
<1>4. ASSUME NEW i \in 1..Len(s) PROVE s[i] <= clock
  <2>1. CASE i = n + 1
    BY <1>1, <2>1
  <2>2. CASE i # n + 1
    <3>1. i \in 1..n
      BY <1>1, <2>2
    <3>2. QED
      BY <1>1, <1>2, <3>1
  <2>3. QED
    BY <2>1, <2>2
<1>5. ASSUME NEW i \in 1..Len(s), NEW j \in 1..Len(s), i <= j
      PROVE  s[i] <= s[j]
  <2>1. CASE j = n + 1
    BY <1>1, <1>4, <2>1
  <2>2. CASE j # n + 1
    <3>1. i \in 1..n /\ j \in 1..n
      BY <1>1, <1>5, <2>2
    <3>2. QED
      BY <1>1, <1>2, <1>5, <3>1
  <2>3. QED
    BY <2>1, <2>2
<1>6. events'[d] = kept /\ seen'[d] = s /\ clock' = clock
  BY DEF s
<1>7. QED
  BY <1>1, <1>3, <1>4, <1>5, <1>6 DEF Buffered

\* A dispatch empties the buffer and starts the count of what was seen anew.
LEMMA EmptyIsBuffered ==
    ASSUME NEW d \in Prefixes, events[d] = <<>>, seen[d] = <<>>
    PROVE  Buffered(d)
<1>1. Len(<<>>) = 0 /\ <<>> \in Seq(Nat)
  BY EmptySeq
<1>2. Threshold \in Nat
  BY HealAssumption
<1>3. QED
  BY <1>1, <1>2 DEF Buffered

BufferTypes ==
    /\ deployment \in Deployments /\ stopping \in BOOLEAN
    /\ events \in [Prefixes -> Seq(Nat)]
    /\ seen \in [Prefixes -> Seq(Nat)] /\ counted \in [Prefixes -> Seq(Nat)]
    /\ foreign \subseteq Prefixes

BufferInv == HealInv /\ BufferTypes /\ \A d \in Prefixes : Buffered(d)

LEMMA BufferInvKept ==
    ASSUME BufferInv, [HealNext]_hvars
    PROVE  BufferInv'
<1>1. /\ HealInv /\ HealInv' /\ BufferTypes /\ clock \in Nat
      /\ deployment.healers \subseteq Prefixes
  BY HealInvKept DEF BufferInv, HealInv, WiringTypes
<1> DEFINE Goal == BufferTypes' /\ \A e \in Prefixes : Buffered(e)'
<1>2. ASSUME NEW d \in deployment.healers, NEW up \in Challengers, Count(d, up)
      PROVE  Goal
  <2>1. /\ d \in Prefixes /\ UNCHANGED <<deployment, clock, stopping, counted>>
        /\ seen' = [seen EXCEPT ![d] = Append(seen[d], clock)]
        /\ foreign' \in {foreign, foreign \cup {d}}
    BY <1>1, <1>2 DEF Count, Note, wiring_vars
  <2>2. PICK kept \in Kept(d) : events' = [events EXCEPT ![d] = kept]
    BY <1>2 DEF Count
  <2>3. Buffered(d)
    BY <2>1 DEF BufferInv
  <2>4. kept \in Seq(Nat) /\ Append(seen[d], clock) \in Seq(Nat)
    BY <1>1, <2>1, <2>3, KeptIsBuffered, AppendProperties DEF Buffered
  <2>5. BufferTypes'
    BY <1>1, <2>1, <2>2, <2>4 DEF BufferTypes
  <2>6. Buffered(d)'
    <3>1. events'[d] = kept /\ seen'[d] = Append(seen[d], clock) /\ clock' = clock
      BY <1>1, <2>1, <2>2 DEF BufferTypes
    <3>2. QED
      BY <1>1, <2>1, <2>3, <3>1, CountKeepsBuffered
  <2>7. ASSUME NEW e \in Prefixes \ {d} PROVE Buffered(e)'
    <3>1. events'[e] = events[e] /\ seen'[e] = seen[e] /\ clock' = clock
      BY <1>1, <2>1, <2>2 DEF BufferTypes
    <3>2. Buffered(e)
      BY DEF BufferInv
    <3>3. QED
      BY <3>1, <3>2 DEF Buffered
  <2>8. QED
    BY <2>5, <2>6, <2>7
<1>3. ASSUME NEW d \in deployment.healers, NEW up \in Challengers, Dispatch(d, up)
      PROVE  Goal
  <2>1. /\ d \in Prefixes /\ UNCHANGED <<deployment, clock, stopping>>
        /\ seen' = [seen EXCEPT ![d] = <<>>] /\ events' = [events EXCEPT ![d] = <<>>]
        /\ foreign' \in {foreign, foreign \cup {d}}
    BY <1>1, <1>3 DEF Dispatch, Note, wiring_vars
  <2>2. PICK kept \in Kept(d) : counted' = [counted EXCEPT ![d] = kept]
    BY <1>3 DEF Dispatch
  <2>3. kept \in Seq(Nat) /\ <<>> \in Seq(Nat)
    BY <1>1, <2>1, KeptIsBuffered, EmptySeq DEF BufferInv
  <2>4. BufferTypes'
    BY <1>1, <2>1, <2>2, <2>3 DEF BufferTypes
  <2>5. Buffered(d)'
    <3>1. events'[d] = <<>> /\ seen'[d] = <<>>
      BY <1>1, <2>1 DEF BufferTypes
    <3>2. Len(<<>>) = 0 /\ Threshold \in Nat
      BY EmptySeq, HealAssumption
    <3>3. QED
      BY <2>3, <3>1, <3>2 DEF Buffered
  <2>6. ASSUME NEW e \in Prefixes \ {d} PROVE Buffered(e)'
    <3>1. events'[e] = events[e] /\ seen'[e] = seen[e] /\ clock' = clock
      BY <1>1, <2>1 DEF BufferTypes
    <3>2. Buffered(e)
      BY DEF BufferInv
    <3>3. QED
      BY <3>1, <3>2 DEF Buffered
  <2>7. QED
    BY <2>4, <2>5, <2>6
<1>4. ASSUME Tick
      PROVE  Goal
  <2>1. clock' = clock + 1 /\ UNCHANGED <<deployment, stopping, events, seen, counted, foreign>>
    BY <1>4 DEF Tick, driver_vars, history_vars
  <2>2. ASSUME NEW e \in Prefixes PROVE Buffered(e)'
    <3>1. Buffered(e)
      BY DEF BufferInv
    <3>2. /\ \A i \in 1..Len(seen[e]) : seen[e][i] \in Nat
          /\ Len(events[e]) \in Nat /\ Len(seen[e]) \in Nat /\ Window \in Nat
      BY <3>1, ElementOfSeq, LenProperties, HealAssumption DEF Buffered
    <3>3. \A i \in 1..Len(seen[e]) : seen[e][i] <= clock + 1
      BY <1>1, <3>1, <3>2 DEF Buffered
    <3>4. \/ Len(events[e]) = Threshold
          \/ \A i \in 1..(Len(seen[e]) - Len(events[e])) : seen[e][i] <= clock + 1 - Window
      <4>1. \A i \in 1..(Len(seen[e]) - Len(events[e])) : i \in 1..Len(seen[e])
        BY <3>2
      <4>2. QED
        BY <1>1, <3>1, <3>2, <4>1 DEF Buffered
    <3>5. QED
      <4>1. events'[e] = events[e] /\ seen'[e] = seen[e] /\ clock' = clock + 1
        BY <2>1
      <4>2. \A i \in 1..Len(seen'[e]) : seen'[e][i] <= clock'
        BY <3>3, <4>1
      <4>3. \/ Len(events'[e]) = Threshold
            \/ \A i \in 1..(Len(seen'[e]) - Len(events'[e])) : seen'[e][i] <= clock' - Window
        <5>1. clock' - Window = clock + 1 - Window
          BY <1>1, <3>2, <4>1
        <5>2. QED
          BY <3>4, <4>1, <5>1
      <4>4. /\ \A i, j \in 1..Len(seen'[e]) : i <= j => seen'[e][i] <= seen'[e][j]
            /\ \A i \in 1..Len(events'[e]) :
                 events'[e][i] = seen'[e][Len(seen'[e]) - Len(events'[e]) + i]
        BY <3>1, <4>1 DEF Buffered
      <4>5. /\ events'[e] \in Seq(Nat) /\ seen'[e] \in Seq(Nat)
            /\ Len(events'[e]) <= Threshold /\ Len(events'[e]) <= Len(seen'[e])
        BY <3>1, <4>1 DEF Buffered
      <4>6. QED
        BY <4>2, <4>3, <4>4, <4>5 DEF Buffered
  <2>3. BufferTypes'
    BY <1>1, <2>1 DEF BufferTypes
  <2>4. QED
    BY <2>2, <2>3
<1>5. ASSUME UNCHANGED <<deployment, clock, events, seen, counted, foreign>>,
             stopping' \in BOOLEAN
      PROVE  Goal
  BY <1>1, <1>5 DEF BufferInv, BufferTypes, Buffered
<1>6. stopping \in BOOLEAN
  BY <1>1 DEF BufferTypes
<1>7. Goal
  <2> HIDE DEF Goal
  <2>1. CASE Stop
    BY <1>5, <2>1 DEF Stop, wiring_vars, driver_vars, history_vars
  <2>2. ASSUME NEW d \in deployment.healers,
               \/ CallHeal(d) \/ HealReturns(d) \/ HealFails(d) \/ UpdateReturns(d)
               \/ SetParent(d) \/ SetComposer(d)
        PROVE  Goal
    BY <1>5, <1>6, <2>2
    DEF CallHeal, HealReturns, HealFails, UpdateReturns, SetParent, SetComposer, Ended,
        wiring_vars, driver_vars, history_vars
  <2>3. CASE UNCHANGED hvars
    BY <1>5, <1>6, <2>3 DEF hvars, driver_vars, history_vars
  <2>4. QED
    BY <1>2, <1>3, <1>4, <2>1, <2>2, <2>3 DEF HealNext
<1>8. QED
  BY <1>1, <1>7 DEF BufferInv

LEMMA BufferInvInductive == HealSpec => []BufferInv
<1>1. HealInit => BufferInv
  <2> SUFFICES ASSUME HealInit PROVE BufferInv
    OBVIOUS
  <2>1. /\ deployment \in Deployments /\ foreign = {} /\ stopping \in BOOLEAN
        /\ events = [d \in Prefixes |-> <<>>] /\ seen = [d \in Prefixes |-> <<>>]
        /\ counted = [d \in Prefixes |-> <<>>]
    BY DEF HealInit
  <2>2. BufferTypes
    BY <2>1, EmptySeq DEF BufferTypes
  <2>3. \A d \in Prefixes : Buffered(d)
    BY <2>1, EmptyIsBuffered
  <2>4. QED
    BY <2>2, <2>3, HealInitInv DEF BufferInv
<1>2. BufferInv /\ [HealNext]_hvars => BufferInv'
  BY BufferInvKept
<1>3. QED
  BY <1>1, <1>2, PTL DEF HealSpec

\* Types of the driver, and bump's cap: the buffer never outgrows a burst.
THEOREM HealTypeCorrect == HealSpec => []HealTypeOK
<1>1. BufferInv => HealTypeOK
  <2> SUFFICES ASSUME BufferInv PROVE HealTypeOK
    OBVIOUS
  <2>1. \A d \in Prefixes : Len(events[d]) <= Threshold
    BY DEF BufferInv, Buffered
  <2>2. QED
    BY <2>1 DEF BufferInv, BufferTypes, HealInv, WiringTypes, HealTypeOK
<1>2. QED
  BY <1>1, BufferInvInductive, PTL

\* bump: trimming and capping the buffer lose no burst.  Whatever the driver
\* dropped, an event that is the last of Threshold inside the window is only
\* counted while a heal runs, or ran just now, or the composer is not wired.
THEOREM BurstsAreServed == HealSpec => NoBurstMissed
<1>1. ASSUME BufferInv, [HealNext]_hvars
      PROVE  [\A d \in Prefixes :
                Len(seen'[d]) > Len(seen[d]) /\ Burst(seen[d])
                   => inFlight[d] \/ ~CooledDown(d) \/ ~composer[d]]_hvars
  <2> SUFFICES ASSUME HealNext, NEW d \in Prefixes, Len(seen'[d]) > Len(seen[d]),
                      Burst(seen[d]), MayDispatch(d)
               PROVE  FALSE
    BY <1>1 DEF MayDispatch
  <2>1. /\ Buffered(d) /\ clock \in Nat /\ seen \in [Prefixes -> Seq(Nat)]
        /\ Len(seen[d]) \in Nat /\ deployment.healers \subseteq Prefixes
    BY <1>1, LenProperties DEF BufferInv, BufferTypes, HealInv, WiringTypes
  <2>2. ASSUME NEW e \in deployment.healers, NEW up \in Challengers, Count(e, up)
        PROVE  FALSE
    <3> DEFINE n == Len(seen[d])
               s == Append(seen[d], clock)
    <3>1. e = d
      BY <2>1, <2>2 DEF Count, Note
    <3>2. PICK kept \in Kept(d) : Len(kept) < Threshold
      BY <2>2, <3>1 DEF Count
    <3>3. /\ Len(kept) \in Nat /\ Len(kept) <= n + 1 /\ Len(kept) >= 1
          /\ \A i \in 1..(n + 1 - Len(kept)) : s[i] <= clock - Window
      <4>1. Len(s) = n + 1 /\ n \in Nat
        BY <2>1, AppendProperties
      <4>2. kept \in Seq(Nat) /\ Len(kept) \in Nat /\ Threshold \in Nat
        BY <2>1, KeptIsBuffered, LenProperties, HealAssumption
      <4>3. /\ Len(kept) <= Len(s) /\ Len(kept) >= 1
            /\ \/ Len(kept) = Threshold
               \/ \A i \in 1..(Len(s) - Len(kept)) : s[i] <= clock - Window
        BY <2>1, KeptIsBuffered
      <4>4. Len(kept) # Threshold
        BY <3>2, <4>2
      <4>5. \A i \in 1..(Len(s) - Len(kept)) : s[i] <= clock - Window
        BY <4>3, <4>4
      <4> HIDE DEF s, n
      <4>6. QED
        BY <4>1, <4>2, <4>3, <4>5
    <3> DEFINE W == {i \in DOMAIN seen[d] : seen[d][i] > clock - Window}
               from == n + 2 - Len(kept)
    <3>4. W \subseteq from..n
      <4>1. SUFFICES ASSUME NEW i \in 1..n, seen[d][i] > clock - Window, i < from
                     PROVE  FALSE
        <5>1. DOMAIN seen[d] = 1..n
          BY <2>1, LenProperties
        <5> HIDE DEF n
        <5>2. from \in Int
          BY <2>1, <3>3 DEF n
        <5>3. QED
          BY <5>1, <5>2, <4>1
      <4>2. i \in 1..(n + 1 - Len(kept))
        BY <2>1, <3>3, <4>1
      <4>3. s[i] <= clock - Window
        BY <3>3, <4>2
      <4>4. s[i] = seen[d][i]
        BY <2>1, AppendProperties
      <4>5. seen[d][i] \in Nat /\ clock - Window \in Int
        <5>1. seen[d] \in Seq(Nat) /\ i \in 1..Len(seen[d])
          BY <2>1
        <5>2. clock - Window \in Int
          BY <2>1, HealAssumption
        <5> HIDE DEF n, s, W, from
        <5>3. seen[d][i] \in Nat
          BY <5>1, ElementOfSeq
        <5>4. QED
          BY <5>2, <5>3
      <4>6. QED
        BY <4>1, <4>3, <4>4, <4>5
    <3>5. /\ IsFiniteSet(from..n)
          /\ Cardinality(from..n) = IF from > n THEN 0 ELSE n - from + 1
      <4>1. from \in Int /\ n \in Int
        BY <2>1, <3>3
      <4> HIDE DEF from, n
      <4>2. QED
        BY <4>1, FS_Interval
    <3>6. Cardinality(W) \in Nat /\ Cardinality(W) <= Cardinality(from..n)
      BY <3>4, <3>5, FS_Subset, FS_CardinalityType
    <3>7. Cardinality(from..n) = Len(kept) - 1
      <4> HIDE DEF n
      <4>1. QED
        BY <2>1, <3>3, <3>5 DEF n
    <3>8. Cardinality(W) + 1 >= Threshold
      BY DEF Burst
    <3> HIDE DEF W, from, n
    <3>9. QED
      BY <3>2, <3>3, <3>6, <3>7, <3>8, HealAssumption
  <2>3. ASSUME NEW e \in deployment.healers, NEW up \in Challengers, Dispatch(e, up)
        PROVE  FALSE
    <3>1. seen'[d] \in {<<>>, seen[d]}
      BY <2>1, <2>3 DEF Dispatch
    <3>2. Len(<<>>) = 0
      BY EmptySeq
    <3>3. QED
      BY <2>1, <3>1, <3>2
  <2>4. CASE UNCHANGED seen
    BY <2>1, <2>4
  <2>5. QED
    BY <2>2, <2>3, <2>4
    DEF HealNext, CallHeal, HealReturns, HealFails, UpdateReturns, SetParent, SetComposer,
        Stop, Tick, driver_vars, history_vars
<1>2. QED
  BY <1>1, BufferInvInductive, PTL DEF HealSpec, NoBurstMissed

=============================================================================
