-------------------------------- MODULE Fetch --------------------------------
(***************************************************************************)
(* fetchWithProgress (site/js/net.js) over the persistent cache            *)
(* (site/js/cache.js): the fetches of one URL by the idle prefetch, by a   *)
(* boot and by other visits, sharing one cached copy.                      *)
(*                                                                         *)
(* A body is how many of its chunks arrived and whether they are intact;   *)
(* the network may end it short without an error.  Every cache operation   *)
(* may silently do nothing, as cache.js promises.                          *)
(*                                                                         *)
(* The usual names (Init, Next, ...) carry this module's name: SourceProofs *)
(* extends it together with Source.                                        *)
(***************************************************************************)
EXTENDS Integers

CONSTANTS
    Fetchers,   \* callers of fetchWithProgress for this URL
    Attempts,   \* ATTEMPTS: downloads tried before giving up
    Size,       \* chunks of the complete body
    Verifiers,  \* those that pass a verify function
    MaxRestarts \* bound: how often any caller starts over

ASSUME FetchAssumption ==
    /\ Attempts \in Nat \ {0}
    /\ Size \in Nat
    /\ Verifiers \subseteq Fetchers
    /\ MaxRestarts \in Nat

VARIABLES
    cache,      \* the persistent copy, or NoBody
    pc,
    body,       \* the buffer each fetcher holds
    attempt,    \* the download under way, from 1
    downloaded, \* what this attempt reported and may have to take back
    reported,   \* sum of the onBytes calls: what the progress row shows
    restarts

fetchVars == <<cache, pc, body, attempt, downloaded, reported, restarts>>

Bodies == [chunks : 0..Size, intact : BOOLEAN]
NoBody == [chunks |-> 0 - 1, intact |-> FALSE]
Good(b) == b.intact /\ b.chunks = Size

\* verify(bytes) resolves to null: without one, anything passes.  (The calls
\* in app.js and store.js pass none.)
Passes(f, b) == f \in Verifiers => Good(b)

FetchInit ==
    /\ cache \in Bodies \cup {NoBody}
    /\ pc = [f \in Fetchers |-> "start"]
    /\ body = [f \in Fetchers |-> NoBody]
    /\ attempt = [f \in Fetchers |-> 0]
    /\ downloaded = [f \in Fetchers |-> 0]
    /\ reported = [f \in Fetchers |-> 0]
    /\ restarts = 0

Goto(f, label) == pc' = [pc EXCEPT ![f] = label]

\* Mutant: what was kept once is not verified again.
HitUnchecked(f) ==
    /\ pc[f] = "start" /\ cache # NoBody
    /\ body' = [body EXCEPT ![f] = cache]
    /\ reported' = [reported EXCEPT ![f] = @ + cache.chunks]
    /\ Goto(f, "done")
    /\ UNCHANGED <<cache, attempt, downloaded, restarts>>

\* The cache answers; draining the hit fills the row.
Hit(f) ==
    /\ pc[f] = "start"
    /\ cache # NoBody
    /\ body' = [body EXCEPT ![f] = cache]
    /\ reported' = [reported EXCEPT ![f] = @ + cache.chunks]
    /\ Goto(f, IF Passes(f, cache) THEN "done" ELSE "evict")
    /\ UNCHANGED <<cache, attempt, downloaded, restarts>>

\* The read of the cached copy breaks off part of the way: it is outside the
\* attempts, so the fetch fails, and what it reported stays on the row.
HitBreaks(f) ==
    /\ pc[f] = "start"
    /\ cache # NoBody
    /\ \E n \in 0..cache.chunks : reported' = [reported EXCEPT ![f] = @ + n]
    /\ Goto(f, "broken")
    /\ UNCHANGED <<cache, body, attempt, downloaded, restarts>>

\* Nothing cached, or storage would not say.
Miss(f) ==
    /\ pc[f] = "start"
    /\ attempt' = [attempt EXCEPT ![f] = 1]
    /\ Goto(f, "fetching")
    /\ UNCHANGED <<cache, body, downloaded, reported, restarts>>

\* A cached copy that fails is forgotten, and its bytes taken back.
Evict(f) ==
    /\ pc[f] = "evict"
    /\ cache' \in {NoBody, cache}
    /\ reported' = [reported EXCEPT ![f] = @ - body[f].chunks]
    /\ attempt' = [attempt EXCEPT ![f] = 1]
    /\ Goto(f, "fetching")
    /\ UNCHANGED <<body, downloaded, restarts>>

\* A chunk arrives.
Chunk(f) ==
    /\ pc[f] = "fetching"
    /\ downloaded[f] < Size
    /\ downloaded' = [downloaded EXCEPT ![f] = @ + 1]
    /\ reported' = [reported EXCEPT ![f] = @ + 1]
    /\ UNCHANGED <<cache, pc, body, attempt, restarts>>

\* Mutants: nothing is taken back; no attempt is counted.
TakeBackNothing(f) == UNCHANGED reported
CountNothing(f) == UNCHANGED attempt

\* The bytes an attempt reported are taken back from the row.
TakeBack(f) == reported' = [reported EXCEPT ![f] = @ - downloaded[f]]

MayRetry(f) == attempt[f] < Attempts

CountAttempt(f) == attempt' = [attempt EXCEPT ![f] = @ + 1]

\* The attempt is made again, unless it was the last.
Retry(f) ==
    /\ TakeBack(f)
    /\ downloaded' = [downloaded EXCEPT ![f] = 0]
    /\ \/ MayRetry(f) /\ CountAttempt(f) /\ UNCHANGED pc
       \/ ~MayRetry(f) /\ Goto(f, "failed") /\ UNCHANGED attempt
    /\ UNCHANGED <<cache, body, restarts>>

\* The connection breaks, or the answer is an HTTP error.
Break(f) == pc[f] = "fetching" /\ Retry(f)

\* The body ends cleanly, wherever it is by then.
EndOfBody(f, intact) ==
    LET b == [chunks |-> downloaded[f], intact |-> intact] IN
    /\ pc[f] = "fetching"
    /\ \/ /\ Passes(f, b)
          /\ body' = [body EXCEPT ![f] = b]
          /\ Goto(f, "store")
          /\ UNCHANGED <<cache, attempt, downloaded, reported, restarts>>
       \/ ~Passes(f, b) /\ Retry(f)

\* Kept for next time, unless the quota or the browser says no.
Store(f) ==
    /\ pc[f] = "store"
    /\ cache' \in {body[f], cache}
    /\ Goto(f, "done")
    /\ UNCHANGED <<body, attempt, downloaded, reported, restarts>>

\* The caller is gone (a reload, a closed tab) or asks again later: all
\* its state is new, the cache is not.
Restart(f) ==
    /\ restarts < MaxRestarts
    /\ pc[f] # "start"
    /\ restarts' = restarts + 1
    /\ Goto(f, "start")
    /\ body' = [body EXCEPT ![f] = NoBody]
    /\ attempt' = [attempt EXCEPT ![f] = 0]
    /\ downloaded' = [downloaded EXCEPT ![f] = 0]
    /\ reported' = [reported EXCEPT ![f] = 0]
    /\ UNCHANGED cache

Step(f) ==
    \/ Hit(f) \/ HitBreaks(f) \/ Miss(f) \/ Evict(f)
    \/ Chunk(f) \/ Break(f) \/ Store(f)
    \/ \E intact \in BOOLEAN : EndOfBody(f, intact)

FetchNext == \E f \in Fetchers : Step(f) \/ Restart(f)

FetchSpec == FetchInit /\ [][FetchNext]_fetchVars
FetchFairSpec == FetchSpec /\ \A f \in Fetchers : WF_fetchVars(Step(f))
-----------------------------------------------------------------------------
FetchTypeOK ==
    /\ cache \in Bodies \cup {NoBody}
    /\ pc \in [Fetchers -> {"start", "evict", "fetching", "store", "done", "failed", "broken"}]
    /\ body \in [Fetchers -> Bodies \cup {NoBody}]
    /\ attempt \in [Fetchers -> 0..Attempts]
    /\ downloaded \in [Fetchers -> 0..Size]
    /\ reported \in [Fetchers -> Int]
    /\ restarts \in 0..MaxRestarts

\* The row never overcounts and never undercounts: it shows the attempt
\* under way, the whole of a body that was returned, and nothing at all
\* for one that was given up (the retractions in fetchWithProgress).  Only
\* a cached copy whose read broke off may leave something behind, never
\* more than a whole body.
RowExact ==
    \A f \in Fetchers :
        reported[f] \in
            CASE pc[f] = "fetching" -> {downloaded[f]}
              [] pc[f] \in {"evict", "store", "done"} -> {body[f].chunks}
              [] pc[f] = "broken" -> 0..Size
              [] OTHER -> {0}

\* What each caller has been told.
Bodiless(outcome) == [outcome |-> outcome, body |-> NoBody]
Told ==
    [f \in Fetchers |->
        CASE pc[f] = "done" -> [outcome |-> "answered", body |-> body[f]]
          [] pc[f] \in {"failed", "broken"} -> Bodiless("error")
          [] OTHER -> Bodiless("asking")]
One == INSTANCE OneFetch WITH
    Callers <- Fetchers, Contents <- Bodies,
    Accepted <- [f \in Fetchers |-> {b \in Bodies : Passes(f, b)}],
    Nothing <- NoBody, kept <- cache, told <- Told

\* Attempts, retractions, evictions and other callers' turns do not show: to
\* a caller it is one step from asking to a body or an error, one that it
\* accepts if it verifies, whatever the others have kept meanwhile; and what
\* is kept changes only to the body a caller is about to be given, or to none
\* (fetchWithProgress; its comment at net.js:48).
ActsAsOne == One!OneSpec

\* Every fetch ends: attempts are bounded, and each ends in bytes or in an
\* error.
Settled(f) == pc[f] \in {"done", "failed", "broken"}
Settles == \A f \in Fetchers : ~Settled(f) ~> Settled(f)
=============================================================================
