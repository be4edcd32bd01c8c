------------------------------ MODULE NarFetch ------------------------------
(***************************************************************************)
(* The archive downloads of a boot: mapConcurrent's workers (net.js)       *)
(* running fetchNar (store.js) on the closure, with one decode at a time,  *)
(* over the persistent cache that every tab shares.  Fetch describes       *)
(* fetchWithProgress in detail; here it either brings a body from the      *)
(* network or gives up.                                                    *)
(*                                                                         *)
(* An archive in the cache is good or bad; bad stands for whatever         *)
(* verifyUnpacked refuses, or that does not decode.                        *)
(***************************************************************************)
EXTENDS Integers, Sequences, SequencesExt

CONSTANTS
    Pages,          \* tabs
    Boots,          \* of closures that share paths
    PageOf,         \* the tab of each; a boot that failed is no bar to another
    NarConcurrency, \* NAR_CONCURRENCY, the most workers of a mapConcurrent
    Crews,          \* how many workers each boot has, none if it never begins:
                    \* a set, of which each behaviour has one
    Items,          \* store paths of all of them
    Archives,       \* of each boot: its closure, in walking order
    Compression,    \* of each archive: "xz" (or zstd) or "none"
    NarAttempts,    \* NAR_ATTEMPTS: times an archive is fetched
    NoItem,         \* what a worker that has not begun is on
    Earlier,        \* what earlier visits may have left in the cache
    MaxReloads,     \* bound: how often any page is reloaded
    CacheFails      \* whether the browser may refuse to store or forget

ASSUME NarAssumption ==
    /\ NarConcurrency \in Nat \ {0}
    /\ PageOf \in [Boots -> Pages]
    /\ Crews \subseteq [Boots -> 0..NarConcurrency]
    /\ Archives \in [Boots -> Seq(Items)]
    /\ Compression \in [Items -> {"xz", "none"}]
    /\ Earlier \subseteq [Items -> {"none", "good", "bad"}]
    /\ NarAttempts \in Nat \ {0}
    /\ MaxReloads \in Nat
    /\ CacheFails \in BOOLEAN

VARIABLES
    cache,     \* for each archive "none", "good" or "bad"
    orphaned,  \* bad copies no fetch under way will see to
    next,      \* mapConcurrent's next index, for each boot
    decoding,  \* the chain of decodes of each page, the running one first
    share,     \* the archives written into the share of each boot's engine
    engine,    \* the boot's vmPromise
    pc, item, attempt, body,  \* of each worker
    blamed,    \* archives that the network, a decoder or a browser that does
               \* not forget got wrong since the first page was opened
    reloads

fetchVars == <<item, attempt, body>>
vars == <<cache, orphaned, next, decoding, share, engine, pc, fetchVars, blamed, reloads>>

Workers == Boots \X (1..NarConcurrency)
Boot(w) == w[1]
Page(w) == PageOf[Boot(w)]
Begun(b) == \E w \in Workers : Boot(w) = b /\ pc[w] # "absent"

Init ==
    /\ cache \in Earlier
    /\ orphaned = {i \in Items : cache[i] = "bad"}
    /\ next = [b \in Boots |-> 0]
    /\ decoding = [p \in Pages |-> <<>>]
    /\ share = [b \in Boots |-> {}]
    /\ engine = [b \in Boots |-> "starting"]
    /\ \E crew \in Crews :
        pc = [w \in Workers |-> IF w[2] <= crew[Boot(w)] THEN "next" ELSE "absent"]
    /\ item = [w \in Workers |-> NoItem]
    /\ attempt = [w \in Workers |-> 0]
    /\ body = [w \in Workers |-> "none"]
    /\ blamed = {}
    /\ reloads = 0

Goto(w, label) == pc' = [pc EXCEPT ![w] = label]

\* fetchNar is left: its variables are gone.
Leave(w, label) ==
    /\ Goto(w, label)
    /\ item' = [item EXCEPT ![w] = NoItem]
    /\ attempt' = [attempt EXCEPT ![w] = 0]
    /\ body' = [body EXCEPT ![w] = "none"]

\* The worker takes the next index, or returns when there is none.
Take(w) ==
    /\ pc[w] = "next"
    /\ next' = [next EXCEPT ![Boot(w)] = @ + 1]
    /\ \/ /\ next[Boot(w)] < Len(Archives[Boot(w)])
          /\ item' = [item EXCEPT ![w] = Archives[Boot(w)][next[Boot(w)] + 1]]
          /\ attempt' = [attempt EXCEPT ![w] = 1]
          /\ Goto(w, "lookup")
       \/ /\ next[Boot(w)] >= Len(Archives[Boot(w)])
          /\ Goto(w, "done")
          /\ UNCHANGED <<item, attempt>>
    /\ UNCHANGED <<cache, orphaned, decoding, share, engine, body, blamed, reloads>>

\* The narinfo this page has may name a compression the page cannot undo:
\* it is refused before any fetch.
Unsupported(w) ==
    /\ pc[w] = "lookup" /\ attempt[w] = 1
    /\ Leave(w, "thrown")
    /\ UNCHANGED <<cache, orphaned, next, decoding, share, engine, blamed, reloads>>

\* serialize: a decode waits for every one asked for before it; an archive
\* that is not compressed needs none.
EnterDecoding(w) ==
    \/ /\ Compression[item[w]] = "xz"
       /\ decoding' = [decoding EXCEPT ![Page(w)] = Append(@, w)]
       /\ Goto(w, "decoding")
    \/ /\ Compression[item[w]] = "none"
       /\ Goto(w, "plain")
       /\ UNCHANGED decoding

\* fetchWithProgress finds a copy in the cache.
Hit(w) ==
    /\ pc[w] = "lookup"
    /\ cache[item[w]] # "none"
    /\ body' = [body EXCEPT ![w] = cache[item[w]]]
    /\ EnterDecoding(w)
    /\ UNCHANGED <<cache, orphaned, next, share, engine, item, attempt, blamed, reloads>>

\* The read of a cached copy breaks off: neither fetchWithProgress nor
\* fetchNar makes another attempt.
HitBreaks(w) ==
    /\ pc[w] = "lookup"
    /\ cache[item[w]] # "none"
    /\ Leave(w, "thrown")
    /\ UNCHANGED <<cache, orphaned, next, decoding, share, engine, blamed, reloads>>

\* It finds none and downloads, or gives up and the worker with it.
Download(w) ==
    /\ pc[w] = "lookup"
    /\ cache[item[w]] = "none" \/ CacheFails
    /\ \/ \E b \in {"good", "bad"} :
            /\ body' = [body EXCEPT ![w] = b]
            /\ blamed' = IF b = "bad" THEN blamed \cup {item[w]} ELSE blamed
            /\ Goto(w, "store")
            /\ UNCHANGED <<item, attempt>>
       \/ Leave(w, "thrown") /\ UNCHANGED blamed
    /\ UNCHANGED <<cache, orphaned, next, decoding, share, engine, reloads>>

\* The body is kept before anything has looked inside it.
Store(w) ==
    /\ pc[w] = "store"
    /\ \/ /\ cache' = [cache EXCEPT ![item[w]] = body[w]]
          /\ orphaned' = orphaned \ {item[w]}
       \/ CacheFails /\ UNCHANGED <<cache, orphaned>>
    /\ EnterDecoding(w)
    /\ UNCHANGED <<next, share, engine, fetchVars, blamed, reloads>>

\* parse: an archive that verified may still be malformed.  The worker then
\* throws, and the copy in the cache stays.
Parse(w) ==
    \/ /\ Goto(w, "unpacked")
       /\ body' = [body EXCEPT ![w] = "none"]
       /\ UNCHANGED <<item, attempt>>
    \/ Leave(w, "thrown")

\* Mutant: an archive that is not what was promised is skipped.
JudgeSkips(w) ==
    IF body[w] = "good" THEN Parse(w) ELSE Leave(w, "next")

\* The archive is what the narinfo promised, or it is not.
Judge(w) ==
    IF body[w] = "good" THEN Parse(w) ELSE Goto(w, "evict") /\ UNCHANGED fetchVars

\* Mutant: a decode that failed poisons the chain.
ReleaseGood(p) ==
    decoding' = [decoding EXCEPT ![p] = IF body[Head(@)] = "good" THEN Tail(@) ELSE @]

Release(p) == decoding' = [decoding EXCEPT ![p] = Tail(@)]

\* The decode at the head ends and the next may start, however it ended.
\* A good body may still decode wrong: the hash is there to say so.
Decode(w) ==
    LET p == Page(w) IN
    /\ pc[w] = "decoding" /\ Head(decoding[p]) = w
    /\ Release(p)
    /\ \/ /\ Judge(w)
          /\ UNCHANGED blamed
       \/ /\ blamed' = blamed \cup {item[w]}
          /\ Goto(w, "evict")
          /\ UNCHANGED fetchVars
    /\ UNCHANGED <<cache, orphaned, next, share, engine, reloads>>

CheckPlain(w) ==
    /\ pc[w] = "plain"
    /\ Judge(w)
    /\ UNCHANGED <<cache, orphaned, next, decoding, share, engine, blamed, reloads>>

\* Mutant: the copy stays in the cache.
UncacheNothing(i) == UNCHANGED <<cache, orphaned, blamed>>

\* evictFromCache, which may do nothing.
Uncache(i) ==
    \/ /\ cache' = [cache EXCEPT ![i] = "none"]
       /\ orphaned' = orphaned \ {i}
       /\ UNCHANGED blamed
    \/ /\ CacheFails
       /\ blamed' = blamed \cup {i}
       /\ orphaned' = IF cache[i] = "bad" THEN orphaned \cup {i} ELSE orphaned
       /\ UNCHANGED cache

MayRetry(w) == attempt[w] < NarAttempts

\* Bytes that cannot be used must not stay in the cache; then once more
\* from the start, or the worker throws.
Evict(w) ==
    /\ pc[w] = "evict"
    /\ Uncache(item[w])
    /\ \/ /\ MayRetry(w)
          /\ attempt' = [attempt EXCEPT ![w] = @ + 1]
          /\ Goto(w, "lookup")
       \/ ~MayRetry(w) /\ Goto(w, "refused") /\ UNCHANGED attempt
    /\ body' = [body EXCEPT ![w] = "none"]
    /\ UNCHANGED <<next, decoding, share, engine, item, reloads>>

\* The parsed archive waits for the engine, and goes into its share.
Write(w) ==
    /\ pc[w] = "unpacked"
    /\ \/ /\ engine[Boot(w)] = "up"
          /\ share' = [share EXCEPT ![Boot(w)] = @ \cup {item[w]}]
          /\ Leave(w, "next")
       \/ /\ engine[Boot(w)] = "failed"
          /\ Leave(w, "thrown")
          /\ UNCHANGED share
    /\ UNCHANGED <<cache, orphaned, next, decoding, engine, blamed, reloads>>

\* vmPromise settles: startVM or something it needs may fail.  It may also
\* never do so: an engine that fails before preRun is logged, and "filesystem"
\* stays pending.
EngineSettles(b) ==
    /\ engine[b] = "starting" /\ Begun(b)
    /\ \E outcome \in {"up", "failed"} : engine' = [engine EXCEPT ![b] = outcome]
    /\ UNCHANGED <<cache, orphaned, next, decoding, share, pc, fetchVars, blamed, reloads>>

\* The tab is reloaded, or closed and opened again, between any two steps:
\* only the cache survives.
Reload(p) ==
    LET gone == {w \in Workers : Page(w) = p}
        afresh(value, old) == [b \in Boots |-> IF PageOf[b] = p THEN value ELSE old[b]]
    IN
    /\ \E w \in gone : pc[w] # "absent"
    /\ reloads < MaxReloads
    /\ reloads' = reloads + 1
    /\ orphaned' = orphaned \cup {i \in Items : cache[i] = "bad"}
    /\ decoding' = [decoding EXCEPT ![p] = <<>>]
    /\ next' = afresh(0, next)
    /\ share' = afresh({}, share)
    /\ engine' = afresh("starting", engine)
    /\ pc' = [w \in Workers |-> IF w \in gone /\ pc[w] # "absent" THEN "next" ELSE pc[w]]
    /\ item' = [w \in Workers |-> IF w \in gone THEN NoItem ELSE item[w]]
    /\ attempt' = [w \in Workers |-> IF w \in gone THEN 0 ELSE attempt[w]]
    /\ body' = [w \in Workers |-> IF w \in gone THEN "none" ELSE body[w]]
    /\ UNCHANGED <<cache, blamed>>

Work(w) ==
    \/ Take(w) \/ Unsupported(w) \/ Hit(w) \/ HitBreaks(w)
    \/ Download(w) \/ Store(w) \/ Decode(w) \/ CheckPlain(w) \/ Evict(w) \/ Write(w)

Next ==
    \/ \E w \in Workers : Work(w)
    \/ \E b \in Boots : EngineSettles(b)
    \/ \E p \in Pages : Reload(p)

Spec == Init /\ [][Next]_vars
\* Nothing is assumed of the engine.
FairSpec == Spec /\ \A w \in Workers : WF_vars(Work(w))
-----------------------------------------------------------------------------
Labels == {"absent", "next", "lookup", "store", "decoding", "plain", "evict",
           "unpacked", "done", "thrown", "refused"}

TypeOK ==
    /\ cache \in [Items -> {"none", "good", "bad"}]
    /\ orphaned \in SUBSET Items
    /\ next \in [Boots -> Nat]
    /\ decoding \in [Pages -> Seq(Workers)]
    /\ share \in [Boots -> SUBSET Items]
    /\ engine \in [Boots -> {"starting", "up", "failed"}]
    /\ pc \in [Workers -> Labels]
    /\ item \in [Workers -> Items \cup {NoItem}]
    /\ attempt \in [Workers -> 0..NarAttempts]
    /\ body \in [Workers -> {"none", "good", "bad"}]
    /\ blamed \in SUBSET Items
    /\ reloads \in 0..MaxReloads

\* mapConcurrent resolves only when its workers all returned: by then every
\* archive of the closure is in the share (closurePromise in boot), also
\* while the workers of a boot that failed go on in the same tab.
ResolvedIsComplete ==
    \A b \in Boots :
        /\ \E w \in Workers : Boot(w) = b /\ pc[w] = "done"
        /\ \A w \in Workers : Boot(w) = b => pc[w] \in {"done", "absent"}
        => share[b] = ToSet(Archives[b])

\* A bad copy in the cache is one that some fetch under way is about to
\* evict, unless its page was closed or the browser would not forget it.
BadHasAnOwner ==
    \A i \in Items : cache[i] = "bad" =>
        \/ i \in orphaned
        \/ \E w \in Workers :
            item[w] = i /\ body[w] = "bad" /\ pc[w] \in {"decoding", "plain", "evict"}

\* Bad copies that earlier visits left are never fatal on their own: an
\* archive is refused only if the network, a decoder or a browser that does
\* not forget has gone wrong over it since.
RefusalIsEarned == \A w \in Workers : pc[w] = "refused" => item[w] \in blamed

\* Every worker comes to rest, with its share of the closure or with an
\* error: no decode that failed holds the decoder (serialize), and only an
\* engine that never settles keeps a worker, with an archive for it in hand.
Stopped(w) == pc[w] \in {"absent", "done", "thrown", "refused"}
AwaitsEngine(w) == pc[w] = "unpacked" /\ engine[Boot(w)] = "starting"
WorkersStop == \A w \in Workers : <>[](Stopped(w) \/ AwaitsEngine(w))
=============================================================================
