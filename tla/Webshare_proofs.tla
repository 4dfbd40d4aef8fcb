--------------------------- MODULE Webshare_proofs ---------------------------
(***************************************************************************)
(* A token rotation costs no request, and no expansion comes without       *)
(* credentials, for any number of tokens, credentials, writes of the token *)
(* file and pages.                                                         *)
(***************************************************************************)
EXTENDS Webshare, TLAPS

----------------------------------------------------------------------------
(* A Snapshot or Heal under way *)

Asks == {"none", "rotation", "page", "status"}

Calls ==
    [at : {"resting", "asking", "sent", "reloading", "failed", "listed", "probed"},
     ask : Asks, page : 0..PageLimit, used : 0..MaxTokens, again : BOOLEAN,
     why : {"none", "unauthorized", "refused", "transient"},
     got : SUBSET (1..MaxCreds), canonical : SUBSET (1..MaxCreds), sound : BOOLEAN]

LEMMA RestingIsCall ==
    /\ Resting \in Calls
    /\ Resting.at = "resting" /\ Resting.ask = "none" /\ Resting.again = FALSE
    /\ Resting.sound = FALSE /\ Resting.page = 0
BY WebshareAssumption DEF Resting, Calls, Asks

\* Done forgets the request and keeps what it brought.
LEMMA DoneIsCall ==
    ASSUME NEW c \in Calls
    PROVE  /\ Done(c) \in Calls
           /\ Done(c).got = c.got /\ Done(c).canonical = c.canonical
           /\ Done(c).ask = "none" /\ Done(c).page = 0
           /\ Done(c).again = FALSE /\ Done(c).sound = FALSE
BY RestingIsCall DEF Done, Calls

\* The next request keeps the page count too.
LEMMA AskIsCall ==
    ASSUME NEW c \in Calls, NEW what \in Asks
    PROVE  /\ Ask(c, what) \in Calls
           /\ Ask(c, what).got = c.got /\ Ask(c, what).ask = what
           /\ Ask(c, what).page = c.page
           /\ Ask(c, what).again = FALSE /\ Ask(c, what).sound = FALSE
           /\ Ask(c, what).at = "asking"
BY DoneIsCall DEF Ask, Calls

LEMMA FirstPageIsCall ==
    ASSUME NEW c \in Calls
    PROVE  /\ FirstPage(c) \in Calls
           /\ FirstPage(c).ask = "page" /\ FirstPage(c).at = "asking"
           /\ FirstPage(c).again = FALSE /\ FirstPage(c).sound = FALSE
<1>1. Ask(c, "page") \in Calls /\ Ask(c, "page").ask = "page" /\ Ask(c, "page").at = "asking"
      /\ Ask(c, "page").again = FALSE /\ Ask(c, "page").sound = FALSE
  BY AskIsCall DEF Asks
<1>2. 1 \in 0..PageLimit
  BY WebshareAssumption
<1>3. QED
  BY <1>1, <1>2 DEF FirstPage, Calls

\* A call that is past the list, or asks for the status, has credentials.
Supplied(c) == c.at \in {"listed", "probed"} \/ c.ask = "status" => c.got # {}

\* The status probe starts from a list that is not empty.
LEMMA ProbeIsCall ==
    ASSUME NEW c \in Calls, c.got # {}
    PROVE  Probe(c) \in Calls /\ Supplied(Probe(c)) /\ Probe(c).sound = FALSE
<1>1. CASE block.plan
  <2> DEFINE d == [c EXCEPT !.page = 0]
  <2>1. d \in Calls /\ d.got = c.got
    BY WebshareAssumption DEF Calls
  <2> HIDE DEF d
  <2>2. /\ Ask(d, "status") \in Calls /\ Ask(d, "status").got = d.got
        /\ Ask(d, "status").sound = FALSE
    BY <2>1, AskIsCall DEF Asks
  <2>3. Probe(c) = Ask(d, "status")
    BY <1>1 DEF Probe, d
  <2>4. QED
    BY <2>1, <2>2, <2>3 DEF Supplied
<1>2. CASE ~block.plan
  <2>1. Probe(c) = [Done(c) EXCEPT !.at = "probed"]
    BY <1>2 DEF Probe
  <2>2. QED
    BY <2>1, DoneIsCall, ZenonT(40) DEF Supplied, Calls
<1>3. QED
  BY <1>1, <1>2

----------------------------------------------------------------------------
(* The inductive invariant *)

\* While the file has held the right token since the request began: what the
\* request was sent with is the token in memory, or a reload has put the right
\* one there; the retry goes out with the right one; and a 401 is not final.
Trusted(c) ==
    /\ c.at = "failed" /\ c.why = "unauthorized" => ~c.sound
    /\ c.sound /\ (c.at \in {"sent", "reloading"} \/ (c.at = "asking" /\ c.again)) =>
         /\ file = vendor.token
         /\ c.at = "asking" => token = vendor.token
         /\ c.at = "sent" /\ c.again => c.used = vendor.token
         /\ c.at = "sent" /\ ~c.again => token \in {c.used, vendor.token}
         /\ c.at = "reloading" => c.used # vendor.token /\ token \in {c.used, vendor.token}

WorldTypes ==
    /\ block \in Blocks
    /\ vendor \in [token : Tokens, creds : 1..MaxCreds, listed : 1..MaxCreds]
    /\ file \in Tokens \cup {Broken, NoFile} /\ writes \in 0..MaxWrites
    /\ token \in Tokens
    /\ cache = NoList \/ (cache \subseteq 1..MaxCreds /\ cache # {})
    /\ handed \subseteq 1..MaxCreds \cup {Operators} /\ handed # {}

CallsInv ==
    /\ call \in [Workers -> Calls]
    /\ \A w \in Workers : Supplied(call[w]) /\ Trusted(call[w])

WebshareInv == WorldTypes /\ CallsInv

----------------------------------------------------------------------------
(* Steps of a goroutine *)

\* One goroutine moves on and the other's request is none the worse for it: a
\* reload puts the file's token into memory.
LEMMA CallMoves ==
    ASSUME WebshareInv, NEW w \in Workers, NEW c \in Calls, Becomes(w, c),
           Supplied(c), Trusted(c)',
           UNCHANGED <<vendor, file>>, token' \in {token, file}
    PROVE  CallsInv'
<1>1. call \in [Workers -> Calls] /\ \A v \in Workers : Supplied(call[v]) /\ Trusted(call[v])
  BY DEF WebshareInv, CallsInv
<1>2. call'[w] = c /\ call' \in [Workers -> Calls]
      /\ \A v \in Workers \ {w} : call'[v] = call[v]
  BY <1>1 DEF Becomes
<1>3. ASSUME NEW v \in Workers \ {w}
      PROVE  (Supplied(call[v]) /\ Trusted(call[v]))'
  <2>1. call'[v] = call[v] /\ Supplied(call[v]) /\ Trusted(call[v])
    BY <1>1, <1>2
  <2>2. QED
    BY <2>1 DEF Supplied, Trusted
<1>4. (Supplied(call[w]) /\ Trusted(call[w]))'
  BY <1>2 DEF Supplied, Trusted
<1>5. QED
  BY <1>2, <1>3, <1>4 DEF CallsInv

\* A new request, or none: nothing is claimed of its token yet.
LEMMA CallMovesOn ==
    ASSUME WebshareInv, NEW w \in Workers, NEW c \in Calls, Becomes(w, c),
           Supplied(c), c.sound = FALSE,
           UNCHANGED <<vendor, file, token>>
    PROVE  CallsInv'
<1>1. Trusted(c)'
  BY DEF Trusted
<1>2. QED
  BY <1>1, CallMoves

\* snapshotToken: the first send takes the token in memory.
LEMMA TakeTokenKeeps ==
    ASSUME WebshareInv, NEW w \in Workers, TakeToken(w)
    PROVE  WebshareInv'
<1>1. /\ call[w] \in Calls /\ Supplied(call[w]) /\ Trusted(call[w]) /\ call[w].at = "asking"
      /\ UNCHANGED <<block, vendor, file, writes, cache, handed, token>> /\ token \in Tokens
  BY DEF WebshareInv, CallsInv, WorldTypes, TakeToken, At, Others, world_vars
<1>2. PICK b \in BOOLEAN : b = IF call[w].again THEN call[w].sound ELSE file = vendor.token
  <2>1. call[w].sound \in BOOLEAN
    BY <1>1 DEF Calls
  <2>2. (file = vendor.token) \in BOOLEAN
    BY Zenon
  <2>3. QED
    BY <2>1, <2>2
<1>3. token \in 0..MaxTokens
  BY <1>1, WebshareAssumption DEF Tokens
<1>4. PICK c \in Calls :
         /\ Becomes(w, c)
         /\ c.at = "sent" /\ c.used = token /\ c.sound = b
         /\ c.again = call[w].again /\ c.got = call[w].got /\ c.ask = call[w].ask
  <2> DEFINE d == [call[w] EXCEPT !.at = "sent", !.used = token, !.sound = b]
  <2>1. /\ d \in Calls /\ d.at = "sent" /\ d.used = token /\ d.sound = b
        /\ d.again = call[w].again /\ d.got = call[w].got /\ d.ask = call[w].ask
    BY <1>1, <1>3 DEF Calls
  <2>2. Becomes(w, d)
    BY <1>2 DEF TakeToken
  <2> HIDE DEF d
  <2>3. QED
    BY <2>1, <2>2
<1>5. Supplied(c)
  BY <1>1, <1>4 DEF Supplied
<1>6. Trusted(c)'
  <2>1. CASE call[w].again
    BY <1>1, <1>2, <1>4, <2>1 DEF Trusted
  <2>2. CASE ~call[w].again
    BY <1>1, <1>2, <1>4, <2>2 DEF Trusted
  <2>3. QED
    BY <2>1, <2>2
<1>7. CallsInv'
  BY <1>1, <1>4, <1>5, <1>6, CallMoves
<1>8. QED
  BY <1>1, <1>7 DEF WebshareInv, WorldTypes

LEMMA FailedCall ==
    ASSUME NEW w \in Workers, call[w] \in Calls,
           NEW why \in {"unauthorized", "refused", "transient"}, Fails(w, why)
    PROVE  \E c \in Calls :
              /\ Becomes(w, c)
              /\ c.at = "failed" /\ c.why = why /\ c.sound = call[w].sound
              /\ c.got = call[w].got /\ c.ask = call[w].ask
<1> DEFINE c == [call[w] EXCEPT !.at = "failed", !.why = why, !.used = 0]
<1>1. 0 \in 0..MaxTokens
  BY WebshareAssumption
<1>2. /\ c \in Calls /\ c.at = "failed" /\ c.why = why /\ c.sound = call[w].sound
      /\ c.got = call[w].got /\ c.ask = call[w].ask
  BY <1>1 DEF Calls
<1>3. Becomes(w, c)
  BY DEF Fails
<1> HIDE DEF c
<1>4. QED
  BY <1>2, <1>3

\* requestWithRetry on an answer that is a failure.
LEMMA FailureKeeps ==
    ASSUME WebshareInv, NEW w \in Workers,
           Unauthorized(w) \/ Refused(w) \/ Outage(w) \/ TooManyPages(w)
    PROVE  WebshareInv'
<1>1. /\ call[w] \in Calls /\ Supplied(call[w]) /\ Trusted(call[w]) /\ call[w].at = "sent"
      /\ UNCHANGED <<block, vendor, file, writes, cache, handed, token>>
  BY DEF WebshareInv, CallsInv, Unauthorized, Refused, Outage, TooManyPages, Answered, At,
         Others, Local, world_vars
<1>2. ASSUME NEW why \in {"unauthorized", "refused", "transient"}, Fails(w, why),
             why = "unauthorized" => ~call[w].sound
      PROVE  CallsInv'
  <2>1. PICK c \in Calls :
           /\ Becomes(w, c)
           /\ c.at = "failed" /\ c.why = why /\ c.sound = call[w].sound
           /\ c.got = call[w].got /\ c.ask = call[w].ask
    BY <1>1, <1>2, FailedCall
  <2>2. Supplied(c)
    BY <1>1, <2>1 DEF Supplied
  <2>3. Trusted(c)'
    BY <1>2, <2>1 DEF Trusted
  <2>4. QED
    BY <1>1, <2>1, <2>2, <2>3, CallMoves
<1>3. ASSUME Unauthorized(w), ~call[w].again
      PROVE  CallsInv'
  <2>1. call[w].used # vendor.token
    BY <1>3 DEF Unauthorized
  <2>2. PICK c \in Calls :
           /\ Becomes(w, c)
           /\ c.at = "reloading" /\ c.sound = call[w].sound
           /\ c.got = call[w].got /\ c.ask = call[w].ask /\ c.used = call[w].used
    <3> DEFINE d == [call[w] EXCEPT !.at = "reloading"]
    <3>1. Becomes(w, d)
      BY <1>3 DEF Unauthorized
    <3>2. /\ d \in Calls /\ d.at = "reloading" /\ d.sound = call[w].sound
          /\ d.got = call[w].got /\ d.ask = call[w].ask /\ d.used = call[w].used
      BY <1>1 DEF Calls
    <3> HIDE DEF d
    <3>3. QED
      BY <3>1, <3>2
  <2>3. Supplied(c) /\ Trusted(c)'
    BY <1>1, <1>3, <2>1, <2>2 DEF Supplied, Trusted
  <2>4. QED
    BY <1>1, <2>2, <2>3, CallMoves
<1>4. ASSUME Unauthorized(w), call[w].again
      PROVE  CallsInv'
  <2>1. Fails(w, "unauthorized") /\ ~call[w].sound
    BY <1>1, <1>4 DEF Unauthorized, Trusted
  <2>2. QED
    BY <1>2, <2>1
<1>5. CallsInv'
  BY <1>2, <1>3, <1>4 DEF Refused, Outage, TooManyPages
<1>6. QED
  BY <1>1, <1>5 DEF WebshareInv, WorldTypes

\* reloadIfRotated: the retry has the right token, or the file had not.
LEMMA ReloadKeeps ==
    ASSUME WebshareInv, NEW w \in Workers, ReloadIfRotated(w)
    PROVE  WebshareInv'
<1>1. /\ call[w] \in Calls /\ Supplied(call[w]) /\ Trusted(call[w]) /\ call[w].at = "reloading"
      /\ UNCHANGED <<block, vendor, file, writes, cache, handed>>
      /\ token \in Tokens /\ vendor.token \in Tokens
      /\ token' \in {token, file} /\ token' \in Tokens
  BY DEF WebshareInv, CallsInv, WorldTypes, ReloadIfRotated, At, Others, world_vars
<1>2. ASSUME Retry(w), call[w].sound => token' = vendor.token
      PROVE  CallsInv'
  <2>1. PICK c \in Calls :
           /\ Becomes(w, c)
           /\ c.at = "asking" /\ c.again = TRUE /\ c.sound = call[w].sound
           /\ c.got = call[w].got /\ c.ask = call[w].ask
    <3> DEFINE d == [call[w] EXCEPT !.at = "asking", !.again = TRUE]
    <3>1. Becomes(w, d)
      BY <1>2 DEF Retry
    <3>2. /\ d \in Calls /\ d.at = "asking" /\ d.again = TRUE /\ d.sound = call[w].sound
          /\ d.got = call[w].got /\ d.ask = call[w].ask
      BY <1>1 DEF Calls
    <3> HIDE DEF d
    <3>3. QED
      BY <3>1, <3>2
  <2>2. Supplied(c) /\ Trusted(c)'
    BY <1>1, <1>2, <2>1 DEF Supplied, Trusted
  <2>3. QED
    BY <1>1, <2>1, <2>2, CallMoves
<1>3. ASSUME Fails(w, "unauthorized"), ~call[w].sound
      PROVE  CallsInv'
  <2>1. PICK c \in Calls :
           /\ Becomes(w, c)
           /\ c.at = "failed" /\ c.sound = call[w].sound
           /\ c.got = call[w].got /\ c.ask = call[w].ask
    BY <1>1, <1>3, FailedCall
  <2>2. Supplied(c) /\ Trusted(c)'
    BY <1>1, <1>3, <2>1 DEF Supplied, Trusted
  <2>3. QED
    BY <1>1, <2>1, <2>2, CallMoves
<1>4. CASE token # call[w].used /\ UNCHANGED token /\ Retry(w)
  BY <1>1, <1>2, <1>4 DEF Trusted, WebshareInv, WorldTypes
<1>5. CASE token = call[w].used /\ token' = file /\ Retry(w)
  BY <1>1, <1>2, <1>5 DEF Trusted, WebshareInv, WorldTypes
<1>6. CASE /\ token = call[w].used /\ file \notin Tokens \ {token}
           /\ UNCHANGED token /\ Fails(w, "unauthorized")
  BY <1>1, <1>3, <1>6 DEF Trusted, WebshareInv, WorldTypes
<1>7. QED
  BY <1>4, <1>5, <1>6 DEF ReloadIfRotated

\* Heal and Snapshot between their requests.
LEMMA WalkKeeps ==
    ASSUME WebshareInv, NEW w \in Workers,
           \/ Begin(w) \/ Rotation(w) \/ Page(w) \/ LastPage(w) \/ SaveCache(w)
           \/ CacheFallback(w) \/ GiveUp(w) \/ ProbeSucceeds(w) \/ ProbeFails(w) \/ Hand(w)
    PROVE  WebshareInv'
<1>1. /\ call[w] \in Calls /\ Supplied(call[w])
      /\ UNCHANGED <<block, vendor, file, writes, token>>
      /\ WorldTypes /\ vendor.listed \in 1..MaxCreds /\ vendor.creds \in 1..MaxCreds
  BY DEF WebshareInv, CallsInv, WorldTypes, Begin, Rotation, Page, LastPage, SaveCache,
         CacheFallback, GiveUp, ProbeSucceeds, ProbeFails, Probed, Hand, Local, world_vars
<1> DEFINE Moves == \E c \in Calls : Becomes(w, c) /\ Supplied(c) /\ c.sound = FALSE
           Kept == UNCHANGED <<cache, handed>>
<1>2. ASSUME Begin(w) PROVE Moves /\ Kept
  <2>1. /\ Ask(Resting, "rotation") \in Calls /\ Supplied(Ask(Resting, "rotation"))
        /\ Ask(Resting, "rotation").sound = FALSE
    BY RestingIsCall, AskIsCall DEF Asks, Supplied
  <2>2. /\ FirstPage(Resting) \in Calls /\ Supplied(FirstPage(Resting))
        /\ FirstPage(Resting).sound = FALSE
    BY RestingIsCall, FirstPageIsCall DEF Supplied
  <2>3. QED
    BY <1>2, <2>1, <2>2 DEF Begin
<1>3. ASSUME Rotation(w) PROVE Moves /\ Kept
  BY <1>1, <1>3, FirstPageIsCall DEF Rotation, Supplied
<1>4. /\ WithPage(call[w]) \in Calls /\ WithPage(call[w]).got # {}
      /\ WithPage(call[w]).page = call[w].page
  BY <1>1 DEF WithPage, Calls
<1>5. ASSUME Page(w) PROVE Moves /\ Kept
  <2> DEFINE a == Ask(WithPage(call[w]), "page")
             c == [a EXCEPT !.page = @ + 1]
  <2>1. /\ a \in Calls /\ a.ask = "page" /\ a.at = "asking" /\ a.sound = FALSE
        /\ a.page = call[w].page
    BY <1>4, AskIsCall DEF Asks
  <2>2. call[w].page + 1 \in 0..PageLimit
    BY <1>1, <1>5, WebshareAssumption DEF Page, Calls
  <2>3. Becomes(w, c) /\ Kept
    BY <1>5 DEF Page
  <2> HIDE DEF a
  <2>4. c \in Calls /\ c.ask = "page" /\ c.at = "asking" /\ c.sound = FALSE
    BY <2>1, <2>2 DEF Calls
  <2> HIDE DEF c
  <2>5. QED
    BY <2>3, <2>4 DEF Supplied
<1>6. ASSUME LastPage(w) PROVE Moves /\ Kept
  <2> DEFINE d == Done(WithPage(call[w]))
             c == [d EXCEPT !.at = "listed"]
  <2>1. d \in Calls /\ d.got # {} /\ d.sound = FALSE
    BY <1>4, DoneIsCall
  <2>2. Becomes(w, c) /\ Kept
    BY <1>6 DEF LastPage
  <2> HIDE DEF d
  <2>3. c \in Calls /\ c.got # {} /\ c.sound = FALSE
    BY <2>1 DEF Calls
  <2> HIDE DEF c
  <2>4. QED
    BY <2>2, <2>3 DEF Supplied
<1>7. ASSUME SaveCache(w)
      PROVE  Moves /\ handed' = handed /\ cache' \in {cache, call[w].got} /\ call[w].got # {}
  <2>1. call[w].got # {}
    BY <1>1, <1>7 DEF SaveCache, At, Supplied
  <2>2. Probe(call[w]) \in Calls /\ Supplied(Probe(call[w])) /\ Probe(call[w]).sound = FALSE
    BY <1>1, <2>1, ProbeIsCall
  <2>3. QED
    BY <1>7, <2>1, <2>2 DEF SaveCache
<1>8. ASSUME CacheFallback(w) PROVE Moves /\ Kept
  <2> DEFINE c == [call[w] EXCEPT !.got = cache]
  <2>1. cache \subseteq 1..MaxCreds /\ cache # {}
    BY <1>1, <1>8 DEF CacheFallback, FallsBack, WorldTypes
  <2>2. c \in Calls /\ c.got = cache
    BY <1>1, <2>1 DEF Calls
  <2>3. Becomes(w, Probe(c)) /\ Kept
    BY <1>8 DEF CacheFallback
  <2> HIDE DEF c
  <2>4. QED
    BY <2>1, <2>2, <2>3, ProbeIsCall
<1>9. ASSUME GiveUp(w) PROVE Moves /\ Kept
  BY <1>9, RestingIsCall DEF GiveUp, Supplied
<1>10. ASSUME ProbeSucceeds(w) \/ ProbeFails(w) PROVE Moves /\ Kept
  <2>1. PICK canonical \in SUBSET (1..MaxCreds) : Probed(w, canonical)
    BY <1>1, <1>10 DEF ProbeSucceeds, ProbeFails
  <2>2. call[w].got # {}
    BY <1>1, <1>10 DEF ProbeSucceeds, ProbeFails, Answered, Failed, Supplied
  <2> DEFINE d == Done(call[w])
             c == [d EXCEPT !.at = "probed", !.canonical = canonical]
  <2>3. d \in Calls /\ d.got # {} /\ d.sound = FALSE
    BY <1>1, <2>2, DoneIsCall
  <2>4. Becomes(w, c) /\ Kept
    BY <2>1 DEF Probed
  <2> HIDE DEF d
  <2>5. c \in Calls /\ c.got # {} /\ c.sound = FALSE
    BY <2>3 DEF Calls
  <2> HIDE DEF c
  <2>6. QED
    BY <2>4, <2>5 DEF Supplied
<1>11. ASSUME Hand(w)
       PROVE  /\ Moves /\ cache' = cache
              /\ handed' \subseteq 1..MaxCreds \cup {Operators} /\ handed' # {}
  <2>1. call[w].got # {} /\ call[w].got \subseteq 1..MaxCreds
        /\ call[w].canonical \subseteq 1..MaxCreds
    BY <1>1, <1>11 DEF Hand, At, Supplied, Calls
  <2>2. QED
    <3>1. Moves /\ cache' = cache
      BY <1>11, RestingIsCall DEF Hand, Supplied
    <3>2. handed' = Transform(call[w])
      BY <1>11 DEF Hand
    <3>3. \/ Transform(call[w]) = {Operators}
          \/ Transform(call[w]) = call[w].canonical /\ call[w].canonical # {}
          \/ Transform(call[w]) = call[w].got
      BY DEF Transform
    <3>4. Transform(call[w]) \subseteq 1..MaxCreds \cup {Operators} /\ Transform(call[w]) # {}
      BY <2>1, <3>3
    <3>5. QED
      BY <3>1, <3>2, <3>4
<1>12. Moves
  <2> HIDE DEF Moves, Kept
  <2>1. QED
    BY <1>2, <1>3, <1>5, <1>6, <1>7, <1>8, <1>9, <1>10, <1>11
<1>13. CallsInv'
  BY <1>1, <1>12, CallMovesOn
<1>14. /\ cache' = NoList \/ (cache' \subseteq 1..MaxCreds /\ cache' # {})
       /\ handed' \subseteq 1..MaxCreds \cup {Operators} /\ handed' # {}
  <2> HIDE DEF Moves
  <2>1. ASSUME Kept PROVE /\ cache' = NoList \/ (cache' \subseteq 1..MaxCreds /\ cache' # {})
                          /\ handed' \subseteq 1..MaxCreds \cup {Operators} /\ handed' # {}
    BY <1>1, <2>1 DEF WorldTypes
  <2>2. CASE SaveCache(w)
    <3>1. call[w].got \in SUBSET (1..MaxCreds)
      BY <1>1 DEF Calls
    <3>2. QED
      BY <1>1, <1>7, <2>2, <3>1 DEF WorldTypes
  <2>3. CASE Hand(w)
    BY <1>1, <1>11, <2>3 DEF WorldTypes
  <2>4. QED
    BY <1>2, <1>3, <1>5, <1>6, <1>8, <1>9, <1>10, <2>1, <2>2, <2>3
<1>15. QED
  BY <1>1, <1>13, <1>14 DEF WebshareInv, WorldTypes

----------------------------------------------------------------------------
(* The vendor and the operator *)

\* A token is issued, or the file is written: no request counts on it any more.
LEMMA UnsoundKeepsCalls ==
    ASSUME WebshareInv, Unsound
    PROVE  CallsInv'
<1>1. call \in [Workers -> Calls] /\ \A w \in Workers : Supplied(call[w])
  BY DEF WebshareInv, CallsInv
<1>2. ASSUME NEW w \in Workers
      PROVE  /\ call'[w] \in Calls /\ call'[w].sound = FALSE
             /\ call'[w].at = call[w].at /\ call'[w].ask = call[w].ask
             /\ call'[w].got = call[w].got
  BY <1>1 DEF Unsound, Calls
<1>3. call' \in [Workers -> Calls]
  BY <1>2 DEF Unsound
<1>4. QED
  BY <1>1, <1>2, <1>3 DEF CallsInv, Supplied, Trusted

LEMMA WorldKeeps ==
    ASSUME WebshareInv,
           \/ IssueToken \/ RotateCreds \/ ListCatchesUp
           \/ \E t \in Tokens \cup {Broken} : WriteFile(t)
    PROVE  WebshareInv'
<1>1. WorldTypes /\ CallsInv
  BY DEF WebshareInv
<1>2. CASE IssueToken
  <2>1. WorldTypes'
    BY <1>1, <1>2, WebshareAssumption DEF IssueToken, WorldTypes, Tokens
  <2>2. QED
    BY <1>2, <2>1, UnsoundKeepsCalls DEF IssueToken, WebshareInv
<1>3. CASE RotateCreds \/ ListCatchesUp
  <2>1. /\ vendor' \in [token : Tokens, creds : 1..MaxCreds, listed : 1..MaxCreds]
        /\ vendor'.token = vendor.token
        /\ UNCHANGED <<block, file, writes, token, cache, call, handed>>
    BY <1>1, <1>3, WebshareAssumption DEF RotateCreds, ListCatchesUp, WorldTypes
  <2>2. WorldTypes'
    BY <1>1, <2>1 DEF WorldTypes
  <2>3. CallsInv'
    BY <1>1, <2>1 DEF CallsInv, Supplied, Trusted
  <2>4. QED
    BY <2>2, <2>3 DEF WebshareInv
<1>4. ASSUME NEW t \in Tokens \cup {Broken}, WriteFile(t)
      PROVE  WebshareInv'
  <2>1. WorldTypes'
    BY <1>1, <1>4, WebshareAssumption DEF WriteFile, WorldTypes
  <2>2. QED
    BY <1>4, <2>1, UnsoundKeepsCalls DEF WriteFile, WebshareInv
<1>5. QED
  BY <1>2, <1>3, <1>4

LEMMA WebshareInvInductive == Spec => []WebshareInv
<1>1. Init => WebshareInv
  <2> SUFFICES ASSUME Init PROVE WebshareInv
    OBVIOUS
  <2>1. 1 \in Tokens /\ 1 \in 1..MaxCreds /\ 0 \in 0..MaxWrites
    BY WebshareAssumption DEF Tokens
  <2>2. WorldTypes
    <3>1. /\ block \in Blocks /\ vendor = [token |-> 1, creds |-> 1, listed |-> 1]
          /\ file \in {1, NoFile} /\ writes = 0 /\ token = 1
          /\ handed = {Operators} \/ handed = {1}
          /\ cache = NoList \/ cache = {1}
      BY DEF Init
    <3>2. handed \subseteq 1..MaxCreds \cup {Operators} /\ handed # {}
      BY <2>1, <3>1
    <3>3. cache = NoList \/ (cache \subseteq 1..MaxCreds /\ cache # {})
      BY <2>1, <3>1
    <3>4. vendor \in [token : Tokens, creds : 1..MaxCreds, listed : 1..MaxCreds]
      BY <2>1, <3>1
    <3>5. QED
      BY <2>1, <3>1, <3>2, <3>3, <3>4 DEF WorldTypes
  <2>3. call = [w \in Workers |-> Resting]
    BY DEF Init
  <2>4. CallsInv
    BY <2>3, RestingIsCall DEF CallsInv, Supplied, Trusted
  <2>5. QED
    BY <2>2, <2>4 DEF WebshareInv
<1>2. WebshareInv /\ [Next]_wvars => WebshareInv'
  <2> SUFFICES ASSUME WebshareInv, [Next]_wvars PROVE WebshareInv'
    OBVIOUS
  <2>1. ASSUME NEW w \in Workers, Snapshot(w) PROVE WebshareInv'
    BY <2>1, TakeTokenKeeps, FailureKeeps, ReloadKeeps, WalkKeeps DEF Snapshot
  <2>2. CASE UNCHANGED wvars
    BY <2>2 DEF wvars, world_vars, WebshareInv, WorldTypes, CallsInv, Supplied, Trusted
  <2>3. QED
    BY <2>1, <2>2, WorldKeeps DEF Next
<1>3. QED
  BY <1>1, <1>2, PTL DEF Spec

----------------------------------------------------------------------------
(* Theorems *)

\* Types of the client and of a walk, whatever the number of pages; transform
\* never hands over an expansion without credentials, from the list, from the
\* cache or from the status probe.
THEOREM WebshareTypeCorrect == Spec => []TypeOK
<1>1. WebshareInv => TypeOK
  <2> SUFFICES ASSUME WebshareInv PROVE TypeOK
    OBVIOUS
  <2>1. cache \in (SUBSET (1..MaxCreds)) \cup {NoList}
    BY DEF WebshareInv, WorldTypes
  <2>2. handed \in (SUBSET (1..MaxCreds \cup {Operators})) \ {{}}
    BY DEF WebshareInv, WorldTypes
  <2>3. QED
    BY <2>1, <2>2 DEF WebshareInv, WorldTypes, CallsInv, Calls, Asks, TypeOK
<1>2. QED
  BY <1>1, WebshareInvInductive, PTL

\* reloadIfRotated's comparison with the token the request was sent with: no
\* request comes back with a 401 while the file holds the right token,
\* whichever of the two goroutines reloads it first.
THEOREM RotationsAreAbsorbed == Spec => []RotationCostsNoRequest
<1>1. WebshareInv => RotationCostsNoRequest
  BY DEF WebshareInv, CallsInv, Trusted, RotationCostsNoRequest, At
<1>2. QED
  BY <1>1, WebshareInvInductive, PTL

=============================================================================
