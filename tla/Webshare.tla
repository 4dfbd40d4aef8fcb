------------------------------ MODULE Webshare ------------------------------
(***************************************************************************)
(* One Webshare block (internal/upstream/webshare): its refresh loop and   *)
(* its heal goroutine walk the vendor's paginated list, fall back to the   *)
(* disk cache, ask the status endpoint for the account's credentials, and  *)
(* share one client whose API token is reloaded from its file on a 401.    *)
(*                                                                         *)
(* What becomes of an expansion is Composer's business; of an expansion    *)
(* only the credentials its upstreams carry matter here, and the list has  *)
(* at least one valid proxy.  Tokens and credentials are numbered in the   *)
(* order the vendor issues them.  Backoff only delays the next refresh,    *)
(* and no property counts time.                                            *)
(***************************************************************************)
EXTENDS Naturals

CONSTANTS
    Blocks,     \* [plan : BOOLEAN, override : BOOLEAN, caching : BOOLEAN]
    PageLimit,  \* maxResponsePages
    \* Bounds, no part of the code:
    MaxTokens, MaxCreds, MaxWrites,
    Broken,     \* a token file LoadTokenFile refuses
    NoFile,     \* the block has an inline api_token
    NoList, Operators

ASSUME WebshareAssumption ==
    /\ Blocks \subseteq [plan : BOOLEAN, override : BOOLEAN, caching : BOOLEAN]
    /\ PageLimit \in Nat \ {0}
    /\ {MaxTokens, MaxCreds} \subseteq Nat \ {0} /\ MaxWrites \in Nat

VARIABLES
    block,    \* the configuration
    vendor,   \* the token it accepts, the credentials of the account, and
              \* those its list shows, which lag behind
    file,     \* what api_token_file holds
    writes,   \* how often it was written
    token,    \* Client.APIToken
    cache,    \* the list in the cache file
    call,     \* the Snapshot or Heal of each goroutine
    handed    \* the credentials of the expansion handed to Update last

world_vars == <<vendor, file, writes>>
wvars == <<block, world_vars, token, cache, call, handed>>

Workers == {"refresh", "heal"}
Tokens == 1..MaxTokens

\* The last field is history, read by no action: the file has held the token
\* the vendor accepts since the request began.
Resting == [at |-> "resting", ask |-> "none", page |-> 0, used |-> 0, again |-> FALSE,
            why |-> "none", got |-> {}, canonical |-> {}, sound |-> FALSE]

At(w, at) == call[w].at = at
Becomes(w, c) == call' = [call EXCEPT ![w] = c]

----------------------------------------------------------------------------
(* The vendor and the operator *)

Unsound == call' = [w \in Workers |-> [call[w] EXCEPT !.sound = FALSE]]

IssueToken ==
    /\ vendor.token < MaxTokens
    /\ vendor' = [vendor EXCEPT !.token = @ + 1]
    /\ Unsound
    /\ UNCHANGED <<block, file, writes, token, cache, handed>>

RotateCreds ==
    /\ vendor.creds < MaxCreds
    /\ vendor' = [vendor EXCEPT !.creds = @ + 1]
    /\ UNCHANGED <<block, file, writes, token, cache, call, handed>>

ListCatchesUp ==
    /\ vendor.listed # vendor.creds
    /\ vendor' = [vendor EXCEPT !.listed = vendor.creds]
    /\ UNCHANGED <<block, file, writes, token, cache, call, handed>>

\* The operator writes the token file: a token that was issued, or a file
\* that is empty, missing or malformed.
WriteFile(t) ==
    /\ file # NoFile /\ t # file /\ writes < MaxWrites
    /\ t \in 1..vendor.token \cup {Broken}
    /\ file' = t /\ writes' = writes + 1
    /\ Unsound
    /\ UNCHANGED <<block, vendor, token, cache, handed>>

----------------------------------------------------------------------------
(* One request: requestWithRetry *)

\* Nothing of the last request is left but what it brought.
Done(c) == [Resting EXCEPT !.got = c.got, !.canonical = c.canonical]

Ask(c, what) ==
    [Done(c) EXCEPT !.at = "asking", !.ask = what, !.page = c.page]

Others == <<block, world_vars, cache, handed>>

\* snapshotToken, for the first send or the retry.
TakeToken(w) ==
    /\ At(w, "asking")
    /\ Becomes(w, [call[w] EXCEPT !.at = "sent", !.used = token,
                     !.sound = IF call[w].again THEN @ ELSE file = vendor.token])
    /\ UNCHANGED <<Others, token>>

Fails(w, why) == Becomes(w, [call[w] EXCEPT !.at = "failed", !.why = why, !.used = 0])

\* A 401: the retry's is final.
Unauthorized(w) ==
    /\ At(w, "sent") /\ call[w].used # vendor.token
    /\ IF call[w].again THEN Fails(w, "unauthorized")
       ELSE Becomes(w, [call[w] EXCEPT !.at = "reloading"])
    /\ UNCHANGED <<Others, token>>

Retry(w) == Becomes(w, [call[w] EXCEPT !.at = "asking", !.again = TRUE])

\* Defect: the file is compared with the token in memory only.
ReloadIfRotatedAlone(w) ==
    /\ At(w, "reloading")
    /\ IF file \in Tokens \ {token} THEN token' = file /\ Retry(w)
       ELSE UNCHANGED token /\ Fails(w, "unauthorized")
    /\ UNCHANGED Others

\* reloadIfRotated, under tokenMu: another request may have reloaded already.
ReloadIfRotated(w) ==
    /\ At(w, "reloading")
    /\ \/ token # call[w].used /\ UNCHANGED token /\ Retry(w)
       \/ token = call[w].used /\ file \in Tokens \ {token} /\ token' = file /\ Retry(w)
       \/ token = call[w].used /\ file \notin Tokens \ {token}
             /\ UNCHANGED token /\ Fails(w, "unauthorized")
    /\ UNCHANGED Others

\* 403, 429, another 4xx, or an answer that makes no sense.
Refused(w) == At(w, "sent") /\ Fails(w, "refused") /\ UNCHANGED <<Others, token>>

\* 5xx, or an error of the network, which a context that is done looks like.
Outage(w) == At(w, "sent") /\ Fails(w, "transient") /\ UNCHANGED <<Others, token>>

Answered(w, ask) == At(w, "sent") /\ call[w].ask = ask /\ call[w].used = vendor.token

Failed(w, ask) == At(w, "failed") /\ call[w].ask = ask

----------------------------------------------------------------------------
(* Heal and Snapshot *)

Local == <<block, world_vars, token>>

FirstPage(c) == [Ask(c, "page") EXCEPT !.page = 1]

Begin(w) ==
    /\ At(w, "resting")
    /\ Becomes(w, IF w = "heal" THEN Ask(Resting, "rotation") ELSE FirstPage(Resting))
    /\ UNCHANGED <<Local, cache, handed>>

\* Heal goes on whether or not the vendor refreshes its list.
Rotation(w) ==
    /\ Answered(w, "rotation") \/ Failed(w, "rotation")
    /\ Becomes(w, FirstPage(call[w]))
    /\ UNCHANGED <<Local, cache, handed>>

WithPage(c) == [c EXCEPT !.got = @ \cup {vendor.listed}]

Page(w) ==
    /\ Answered(w, "page") /\ call[w].page < PageLimit
    /\ Becomes(w, [Ask(WithPage(call[w]), "page") EXCEPT !.page = @ + 1])
    /\ UNCHANGED <<Local, cache, handed>>

TooManyPages(w) ==
    /\ Answered(w, "page") /\ call[w].page = PageLimit
    /\ Fails(w, "refused")
    /\ UNCHANGED <<Local, cache, handed>>

LastPage(w) ==
    /\ Answered(w, "page")
    /\ Becomes(w, [Done(WithPage(call[w])) EXCEPT !.at = "listed"])
    /\ UNCHANGED <<Local, cache, handed>>

\* What follows ListProxies: the status probe, which needs a plan id.
Probe(c) ==
    IF block.plan THEN Ask([c EXCEPT !.page = 0], "status") ELSE [Done(c) EXCEPT !.at = "probed"]

\* The list goes to the cache file; a failed write is only logged.
SaveCache(w) ==
    /\ At(w, "listed")
    /\ \/ block.caching /\ cache' = call[w].got
       \/ UNCHANGED cache
    /\ Becomes(w, Probe(call[w]))
    /\ UNCHANGED <<Local, handed>>

\* cacheFallbackAllowed, and a cache to read.
FallsBack(c) == c.why = "transient" /\ block.caching /\ cache # NoList

\* Defect: a cache that cannot be read is an empty list.
CacheFallbackBlindly(w) ==
    /\ Failed(w, "page") /\ call[w].why = "transient" /\ block.caching
    /\ Becomes(w, Probe([call[w] EXCEPT !.got = IF cache = NoList THEN {} ELSE cache]))
    /\ UNCHANGED <<Local, cache, handed>>

\* tryCacheFallback
CacheFallback(w) ==
    /\ Failed(w, "page") /\ FallsBack(call[w])
    /\ Becomes(w, Probe([call[w] EXCEPT !.got = cache]))
    /\ UNCHANGED <<Local, cache, handed>>

\* The previous expansion stays; RunRefresh comes back later.
GiveUp(w) ==
    /\ Failed(w, "page") /\ ~FallsBack(call[w])
    /\ Becomes(w, Resting)
    /\ UNCHANGED <<Local, cache, handed>>

Probed(w, canonical) ==
    /\ Becomes(w, [Done(call[w]) EXCEPT !.at = "probed", !.canonical = canonical])
    /\ UNCHANGED <<Local, cache, handed>>

ProbeSucceeds(w) == Answered(w, "status") /\ Probed(w, {vendor.creds})

\* An error of any kind, or empty credentials.
ProbeFails(w) == (Answered(w, "status") \/ Failed(w, "status")) /\ Probed(w, {})

\* Defect: the list's credentials win over the account's.
TransformListed(c) == IF block.override THEN {Operators} ELSE c.got

\* transform: the operator's credentials, else the account's, else the list's.
Transform(c) ==
    IF block.override THEN {Operators}
    ELSE IF c.canonical # {} THEN c.canonical
    ELSE c.got

\* onChange of the refresh loop, Update of runHeal.
Hand(w) ==
    /\ At(w, "probed")
    /\ handed' = Transform(call[w])
    /\ Becomes(w, Resting)
    /\ UNCHANGED <<Local, cache>>

----------------------------------------------------------------------------

Init ==
    /\ block \in Blocks
    /\ vendor = [token |-> 1, creds |-> 1, listed |-> 1]
    /\ file \in {1, NoFile} /\ writes = 0
    /\ token = 1
    /\ cache \in IF block.caching THEN {NoList, {1}} ELSE {NoList}
    /\ call = [w \in Workers |-> Resting]
    /\ handed = IF block.override THEN {Operators} ELSE {1}

\* What the goroutine does, and what the vendor makes of its request.
Snapshot(w) ==
    \/ Begin(w) \/ TakeToken(w) \/ ReloadIfRotated(w)
    \/ Unauthorized(w) \/ Refused(w) \/ Outage(w)
    \/ Rotation(w) \/ Page(w) \/ TooManyPages(w) \/ LastPage(w)
    \/ SaveCache(w) \/ CacheFallback(w) \/ GiveUp(w)
    \/ ProbeSucceeds(w) \/ ProbeFails(w) \/ Hand(w)

Next ==
    \/ \E w \in Workers : Snapshot(w)
    \/ IssueToken \/ RotateCreds \/ ListCatchesUp
    \/ \E t \in Tokens \cup {Broken} : WriteFile(t)

\* The refresh timer fires, its goroutine runs, and every request ends: the
\* HTTP client has a timeout.  A vendor that is asked again and again answers
\* again and again: with a 401, with its list, with its status.
Fairness ==
    /\ WF_wvars(Snapshot("refresh"))
    /\ SF_wvars(Unauthorized("refresh"))
    /\ SF_wvars(LastPage("refresh"))
    /\ SF_wvars(ProbeSucceeds("refresh"))

Spec == Init /\ [][Next]_wvars /\ Fairness

----------------------------------------------------------------------------
(* Properties *)

TypeOK ==
    /\ block \in Blocks
    /\ vendor \in [token : Tokens, creds : 1..MaxCreds, listed : 1..MaxCreds]
    /\ file \in Tokens \cup {Broken, NoFile} /\ writes \in 0..MaxWrites
    /\ token \in Tokens
    /\ cache \in (SUBSET (1..MaxCreds)) \cup {NoList}
    /\ call \in [Workers ->
          [at : {"resting", "asking", "sent", "reloading", "failed", "listed", "probed"},
           ask : {"none", "rotation", "page", "status"}, page : 0..PageLimit,
           used : 0..MaxTokens, again : BOOLEAN,
           why : {"none", "unauthorized", "refused", "transient"},
           got : SUBSET (1..MaxCreds), canonical : SUBSET (1..MaxCreds),
           sound : BOOLEAN]]
    \* No expansion comes without credentials.
    /\ handed \in (SUBSET (1..MaxCreds \cup {Operators})) \ {{}}

\* "Retry once when the token file has rotated underneath us"
\* (requestWithRetry): a request does not come back with a 401 if the file
\* held the right token all the while, whichever goroutine reloaded it and
\* however the two requests interleave.
RotationCostsNoRequest ==
    \A w \in Workers : At(w, "failed") /\ call[w].why = "unauthorized" => ~call[w].sound

Current == handed = IF block.override THEN {Operators} ELSE {vendor.creds}

\* What the vendor would accept is within reach: the token in the file, and
\* the credentials through the status endpoint or the list.
Reachable ==
    /\ vendor.token = IF file = NoFile THEN token ELSE file
    /\ block.plan \/ vendor.listed = vendor.creds

\* "Structural fix for the rotated password, 407 storm" (Snapshot, RunRefresh):
\* once token and credentials stay put, the refresh loop hands over the right
\* ones again and again, through refusals, outages, cached lists, a list that
\* keeps showing the old ones, and whatever a heal does in between.
RefreshRecovers == <>[]Reachable => []<>Current

=============================================================================
