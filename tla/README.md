# trynix in TLA+

trynix is a page that boots a Linux VM in the browser with packages from the
nixpkgs history on its PATH: QEMU compiled to WebAssembly, a store share the
page fills from a binary cache while the engine starts, and a link that
describes the whole selection. Nothing runs on a server, so everything that is
hard about it happens inside one page: many awaits, each of them a place where
the reader or another call gets a turn; downloads that end short without an
error; a cache shared by tabs and visits; a guest at the far end of a serial
line that may not be listening.

This directory holds a model of that page, the runs that check it with TLC, and
theorems about it that TLAPS proves for all values of the constants.

## The system and its parts

| part | state it keeps | operations | what is hard |
|---|---|---|---|
| page (`site/js/app.js`, `url.js`) | selection, address bar, button, `vmStarted`, `vm`, `mounted` | select, deselect, restore, boot, add, reload, reboot | `render` enables the button during a boot or an add; a restore in the middle of a reload; two boots |
| closure walk (`closure.js`, `walkRoots`) | closure, queue, batch in flight | `walkClosure`, `walkRoots` | overlapping adds share `mounted`, which changes during a walk; a batch that fails half way |
| fetch and cache (`net.js`, `cache.js`) | one cached body for each URL; what a progress row was told | `fetchWithProgress`, `drain`, cache get / put / delete | short bodies, retries, bad cached copies, cache calls that silently do nothing |
| archive downloads (`store.js`, `mapConcurrent`) | shared index, decode queue, share | `fetchNar`, `serialize`, worker loop | the body is cached before it is checked; a tab closed in between; the engine may fail first |
| store share (`boot.js` `storeShare`, `run`, `add`) | paths written, link farm | `write`, `link`, `linkAll` | name collisions between roots and dependencies; archives in any order; overlapping adds |
| guest (`nix/guest/init`) | serial line, mount, dentry cache | handshake, mount, manifest, shell | lost and superfluous newlines; a share that changes under `cache=loose` |
| handshake (`boot.js` `run`, `resume`, `coldBoot`, `watchConsole`) | transcript, waiters, poll | wait for markers, send newlines, hand over | nothing says the far end listens; every wait may time out |
| index (`multiverse.js`, `ranges.js`) | promises by shard | lookups, version order, ranges | a rejected promise is kept; the order of versions |
| lanes (`search.js`, `complete.js`, `app.js`) | dropdown, results pane, the line of ranges | lookups on every key stroke | answers out of order; a line half resolved |
| sources (`outputs.js`, `substituters.js`) | sibling shards, the extra caches, kept narinfos | `rootsOf`, `fetchNarinfo`, `verify`, `reportSilent` | the list is edited while narinfos are on their way; several keys; texts cut short |
| archives (`nar.js`, `hash.js`, `writeEntries`) | none | `parseNar`, `decodeNixBase32`, `absoluteTarget` | archives that end early; links that are moved |
| console (`terminal.js`, `keybar.js`, `onResize`, `watchConsole`) | grid, sticky modifiers, transcript | resize, zoom, keys, `waitFor` | a guest whose serial line has no size; markers cut in pieces |
| progress, report, log, asset versions | screen, one table | presentation | |
| tools, action, benchmarks, patches, vendored engine | outside the page | | |

How they interact. `boot` walks the closure, then starts three things at once:
the engine, the small files it starts from, and the archive workers, which write
into the engine's share as soon as it is up. When both are in, `vm.run` links the
farm, writes the manifest, releases QEMU and shakes hands with the guest over
the console. `addToRunningVM` walks again from `mounted`, downloads what is
missing and links with the new roots replacing. Walks, archives and boot files
go through `fetchWithProgress` and the cache. The guest sees the share through
9p, without being told of changes. Before all that the lanes fill the selection
from the index, `rootsOf` adds the bin outputs, and the caches of the list are
asked for each narinfo in turn; what their keys say is reported once the walk is
over. The console writes its size into the share for the guest to find.

What makes each part correct is stated as its properties below; every part,
also the ones that are not modelled, is listed in `PROJECT.json` under
`components`, and what a test would hardly reach under `hazards`.

## Modules

| module | models | its state and actions in the code |
|---|---|---|
| `Closure` | what a walk promises | abstract: begin, deliver the missing part of the closure at once, mount or give up |
| `ClosureWalk` | `walkRoots`, `walkClosure`, the mounting half of `addToRunningVM` | one variable for each local of the two functions, per call; `Request` / `Answer` are the two sides of the await on a batch, `Refused` any narinfo that cannot be had |
| `OneFetch` | what `fetchWithProgress` promises | abstract: a call is answered with a body its caller accepts, or with an error; what is kept becomes a body its keeper accepts, or none |
| `Fetch` | `fetchWithProgress`, `drain`, `cache.js` | `pc` follows the function; a body is how many chunks arrived and whether they are intact; a caller passes a verify function or, as all those of the page, none; the cache may refuse any put or delete, and the read of a cached copy may break off |
| `NarFetch` | `mapConcurrent` running `fetchNar`, `serialize`, the write into the share | one worker per lane of `mapConcurrent`, `next`, `share` and `engine` of each boot; `decoding` is the promise chain all boots of a tab share, `cache` that of all tabs; reloads, a boot beside what a failed one left running, and an engine that comes up, fails, or never settles |
| `Farm` | `linkAll` over `linkPrograms` | operators only: what a batch of links leaves, name by name |
| `StoreShare` | the share during boot and adds | `Lands` = `write` of one archive, `Run` = linking in `run`, `Add` = `vm.add` |
| `GuestNames` | dentries the guest keeps | extends `StoreShare` by what the shell resolved |
| `Handshake` | `run`, `resume`, `coldBoot`, `waitFor`, `settled`; QEMU's restore; `nix/guest/init` | newlines in flight, markers in the transcript, where page, QEMU and guest are |
| `Page` | selection, link, restore, button, boots, adds, reloads | an action for the stretch between two awaits of `boot`, `addToRunningVM` and `restore`; an engine that never comes up, a write that throws |
| `Index` | `compareVersions`, `versionsOf`, `matches`, `resolveSpecs` | operators only: versions are sequences of components |
| `Lanes` | the search box and its pane, `RangeComplete`, the line of ranges, the lane tabs, `fetchShard` | `promise` and `waiting`, a lookup and the tasks that await it; `turn`, the microtask queue; a task is an async handler with the keys it has still to await, and `Resume` runs the first of the queue up to its next await |
| `Console` | the terminal's grid, `winsize.N` and the loop of the manifest, sticky modifiers, the transcript and a waiter | one action for each handler of terminal and key bar, and the guest's two sides |
| `NixHash` | `decodeNixBase32`, `decodeHex`, `parseHash`, `verifyHash` | operators only, and the number a text stands for |
| `Unpack` | `Reader`, `parseNode`, `parseNar`, `writeEntries`, `absoluteTarget` | operators only, and the format and path resolution as nix and the kernel have them |
| `Source` | `rootsOf`, `fetchNarinfo`, `parseNarinfo`, `verify`, `verifyUnpacked`, `programsOf`, `reportSilent`, the caches lane | a boot from its selection to the archives in the share; `Start`, `FromBrowser`, `FromCache`, `NotHere` are the turns of one narinfo lookup; `Arrivals`, a constant, is what may arrive of each archive |
| `Archives` | `fetchNar`'s parse and the write after it, for `Source` | the `Arrivals` of `Source` by `Unpack`: every archive whole, cut short or damaged, parsed and written |

`ClosureWalk` refines `Closure`, which is what lets `StoreShare` take closures as
given (`Runtime`) and an add's walk as one step; `StoreShare` in turn is what
lets `Page` treat "what an add brings" as a set of packages. `GuestNames`
composes the share with the guest that reads it. `Fetch` refines `OneFetch`, and
is the detail of the steps `Hit`, `HitBreaks`, `Download` and `Store` of
`NarFetch`. `Lanes` stands on `Index`, whose answers it delivers late. `Source`
takes the walk from `ClosureWalk`, leaves retries to `NarFetch`, and what becomes
of an archive's bytes to `Archives`, which composes it with `Unpack`; of a hash
it knows whether it matches, which is the answer of `NixHash`.

Operators marked *Mutant* next to a definition are that definition with a
plausible bug; each property of a run is violated when one of them takes the
definition's place (`PROJECT.json`, `mutants`). No specification uses them.

## Runs

| run | instance | shows |
|---|---|---|
| `closure_walk` | 2 calls, 4 paths with a diamond and self references, batches of 2 | a walk's result closes around its roots although `mounted` moved, the walk refines `Closure`, and ends |
| `fetch` | 2 callers, one with a verify function and one without, 3 attempts, 2 chunks, 2 restarts | rows count exactly; to each caller a fetch is one step, it refines `OneFetch`; every fetch ends |
| `nar` | a boot with 2 workers, two boots with one each in two tabs or in one, a boot whose archive is not compressed; 3 archives, 2 attempts, 1 reload, copies from earlier visits, a cache that may refuse | the closure promise means a complete share; a refusal needs damage in this very fetch; a bad copy has somebody about to evict it, unless its page is gone or the browser refused; workers stop, or wait for an engine that never came up |
| `store_share` | 4 paths: a package above a library, and a bin sibling that offers the same name as the library, 2 overlapping adds | the selection wins, every program is on PATH and every link resolves (`FarmIsWhole`), what the guest cached still runs |
| `handshake` | both boots, traced or not, a guest that keeps up or may stop, up to 4 newlines | share, QEMU, guest and page take their turns in order (`InOrder`), one newline suffices, the page always ends, a guest that keeps up reaches its shell, the poll stops |
| `page_life` | a reader with 1 package and 1 raw path to pick, and 2 boots and an add or a boot and 2 adds; a reader with 2 packages and 2 paths, 3 of them selected, and a boot; 3 loads | adds have a VM, the map of mounted paths is the share and what a write that threw left out, a reload restores the screen in its two passes and each list in its order, the button comes back |
| `lanes` | 3 attributes in 2 shards, a prerelease, releases only numbers order, a dead one, a pattern with a star, 2 handlers at once | a box shows the answer to its latest request unless a lookup of another key was under way, a line is selected whole or not at all, and with the newest releases; loading ends |
| `console` | 2 window sizes, 2 faces, 2 files, a marker of 2 pieces in a transcript of 4 | the guest gets the last size, one tap modifies one key, a marker is heard however it is cut |
| `source` | the default cache, a mirror with another build, a cache of its own (or its key mistyped), 3 digests, 1 edit, a browser with Ed25519, with SHA-256 only, with neither | every selected path and bin output is walked, a verdict is right for the list it was taken against, a vouched path is the content that was vouched for, cut archives are refused, a link that neither steps up from a linked directory nor past `/` leads where it led, an archive passes if and only if its hash is the number the text is |

Three runs state what a comment or document says and find the code doing
something else:

| run | the text | the code |
|---|---|---|
| `share_recent` | `docs/design.md:95` the most recent choice runs | a selection whose closure is there already links nothing |
| `page_engines` | `app.js:378` a second boot restarts the page | a boot that failed after its engine came up, or a button enabled by `render`, leads to a second engine in place |
| `index_order` | `multiverse.js:86` a release sorts above its prereleases | 1.2 is shorter than 1.2-rc1 and sorts below it, so a range takes the candidate |

A run checks the properties its question is about. Those that follow from them
or that a theorem settles for every instance (`MountedClosed`, `AskedOnce`,
`DependencyNeverShadows` and the `TypeOK` of the proved modules)
stay with their theorems and are not run again.

### Disagreements without a run

Smaller ones, or ones whose two sides lie in different modules:

- `cache.js:20` says that what the cache cannot do costs a download, never an
  error; a cached copy whose read breaks off fails the fetch, without another
  attempt (`net.js:58`), and the bytes it reported stay on the row (`HitBreaks`).
- `net.js:50` says a bad body is neither used nor kept. That is so of a caller
  that passes `verify`, and no caller in the repository does (`app.js:483`, `494`,
  `720`, `store.js:105`): a body that ended short is stored and handed over. Of an
  archive `fetchNar` then finds out and evicts it (`BadHasAnOwner`); the engine
  and the snapshot keep it.
- `docs/design.md:144` says the manifest drains the spare newlines; it reads
  nothing, and the shell gets them (`boot-test.py` counts the bare prompts).
- `app.js:128` says the link reproduces the screen; paths are restored before
  packages. `ReloadKeepsPackages` states the order there is.
- `nix/guest/init:55` says names the page links later were never looked up, while
  an add replaces links the guest may have cached.
- `boot.js:382` says the new roots replace links, while `add` is handed all the
  selected roots; `boot.js:336` says `run` resolves at the prompt, while
  `coldBoot` resolves at init's welcome.
- `keybar.js:7` speaks of one key; PgUp, PgDn and pastes leave modifiers armed.
  `OneKeyPerTap` speaks of the keys that take them. `toUpperCase` makes "SS" of
  "ß", so Ctrl with it sends Ctrl-S.
- `substituters.js:114` says a known cache costs no network; it does when a cache
  earlier in the list answers 404, which is not kept.
- A narinfo whose text was cut short is kept, and its missing references with it,
  for every later visit (`substituters.js:160`).
- `compareVersions` is no order once numbers and words mix: 9 < 10 < 1a < 9; and
  `Number` reads "1e3" and "0x10". `pkg@*` matches nothing.
- An HTTP error of a shard reads as "not in the index", one of a cache as "no
  configured cache holds it"; `assets.js` keeps an empty table after an error.
- Escape and an accepted suggestion do not cancel a lookup under way, so a list
  may reappear; after the caret has moved a suggestion lands at the old place.
- A pane whose shard's promise was rejected says "loading" until a reload.
- `decodeHex` accepts a byte whose second digit is none; the text is then refused
  as a wrong hash rather than a bad one.
- `store.js:189` says a relative target is made absolute. One that climbs to `/`
  or past it pops the empty part before the first slash, and becomes empty (which
  MEMFS refuses) or relative; and one through a linked directory is resolved by
  its parts alone. `LinksKeepMeaning` excepts both (`Climbs`).
- A lookup of one shard may be answered after a later one of another, and its list
  or its results shown over the newer ones (`complete.js:69`, `search.js`);
  `ShownIsFresh` excepts them (`overtaken`).
- A selection is reported silent when the sibling shard failed though its bin
  output was selected as well.
- `addToRunningVM` verifies no signatures.
- `app.js:384` says the map tells a later add what is really new; an add whose
  write throws leaves it claiming paths the guest lacks (`app.js:633`).
  `MountedIsShare` says that those (`torn`), and no others, are missing.
- While the guest catches up after the boot it passes through older sizes.

### Why the bounds are enough

- *Calls, adds, boots, tabs, fetchers, workers: two.* Every hazard is between two
  of them; a third only repeats one of the two roles. The two callers of `fetch`
  are one that verifies and one that does not.
- *Readers.* Two boots with two adds and four packages would be too much at once:
  a behaviour of `page_life` has one of three readers, who may pick, boot and add
  only what is his. The theorems are about any.
- *Graph.* A path reached twice, a path that references itself, a shared leaf
  and two roots are what `enqueued` is for; batches of 2 make a level both one
  batch and several.
- *Attempts.* The page has `ATTEMPTS` = 4 downloads; 3 in the run has a first, a
  middle and a last. `NAR_ATTEMPTS` = 2 is the code's own number.
- *Chunks.* Two: none, part, all of a body.
- *Names.* A farm is linked name by name, so one name that roots and
  dependencies share is the general case; the theorems are about any number.
- *Lanes.* Two handlers at once is what one request overtaking another takes; a
  third only waits behind them. Three attributes give a shard alone, a shard
  shared, and an attribute without versions.
- *Console.* The transcript's limit is twice the marker, so a marker can straddle
  the cut; two sizes is one before and one after the loop starts, or both late.
- *Source.* Each archive arrives whole, cut at every cell, and damaged at every
  cell. A store path is at depth one instead of three, so that a link of three
  `..` reaches past `/`. One edit of the list is one before, during or after any lookup.
- *Hashes.* Bytes of four bits and digits of three keep the ways 8 and 5 can
  straddle: a digit inside a byte, over its end, and over the last byte's.
- *Newlines.* The count saturates at `MaxLines`; only none, one and more matter.
- *Loads: three.* A page starts afresh, and `screen` remembers the one before: the
  second load restores what the first selected, and the third may interrupt it at
  any point of its restore.
- *Restarts, reloads, selected packages* (`MaxRestarts`, `MaxReloads`,
  `MaxSelected`) only bound the state space.

Deadlock is checked in `store_share`. Elsewhere the system may stop: every
fetch is done, the walk is over, the guest sits at its prompt.

### Fairness

Nothing is assumed of the reader. Weak fairness is assumed of a step the
browser will run by itself: an answer or refusal of a fetch (the network ends
every request one way or the other), a promise continuation, a timer. In
`Handshake` a guest is `fast` when it always beats the page's three-minute wait;
only then must it and QEMU make progress. Any other guest may stop for good, and
`PageEnds` still holds because `waitFor` times out. In `Page` an engine that
fails before `preRun` is only logged (`boot.js:308`) and its promise never
settles: that boot is stuck, and `ButtonComesBack` names it as the one failure
that leaves the button off. So `NarFetch` assumes nothing of its engine
(`EngineSettles` is not fair) but that its workers go on: `WorkersStop` says that
each comes to rest, or has its archive in hand and waits for the engine
(`AwaitsEngine`, the await at `app.js:545`). In `Lanes` the event loop runs (`Resume`), and the
network answers or refuses a lookup whatever the reader does meanwhile
(`WF_promise(Deliver(k))`), so the pane stops loading for every outcome but a
rejection. In `Console` only the loop of
the manifest is fair: sizes are finitely many, and the guest reaches the last.

## Proofs

TLAPS proves these for every graph, number of calls, attempts, names and so on,
from the named assumptions of each module only.

- `ClosureWalkProofs`: types; `MountedClosed`, `AskedOnce`, `FreshCompletes`; and
  that the walk implements `Closure`. The invariant says, for each call, that the
  local closure is closed, that everything reachable from what was found is
  found, in flight or queued, and that whatever was mounted meanwhile is itself
  closed. `mounted` only grows, which is why a walk begun from an older copy
  still returns enough.
- `SourceProofs`, of `Source`: types, over any lists, index and archives;
  `RootsAreWhole`, from `RootsInv`: at any point of `rootsOf`, each root so far has
  the bin output its shard answered with, a shard that answered never answers
  otherwise, and `wanted` is what those roots name, each once. `VerdictRight` and
  `VouchedIsGenuine` from `VerdictInv`: once there are verdicts the list, the
  narinfos and what was found no longer change, and what is in the share was
  checked against a narinfo whose verdict is known. Two lemmas say what `verify`'s
  loop over the signatures comes to: `TrueIsVouched`, and `VouchedIsTrue` where
  all can be examined; a third (`UnpackedIsGenuine`) that a path reported verified
  came with a whole narinfo in a browser that has Ed25519 and so SHA-256, which is
  why its hash was compared.
- `SourceProofs`, of `Fetch`: types and `RowExact`, for callers that verify and
  callers that do not, in any mixture; and that the fetch implements `OneFetch`
  (`ActsAsOne`), whose callers see `Told`: retries, retractions and evictions by
  others are stutters, and a call that refused the kept copy may forget the good
  one another call has put in its place meanwhile. (One module for both, so
  `Fetch` puts its name before `Init`, `Next` and the like.)
- `StoreShareProofs`: types; `SelectionWins`, `LinksResolve`, `AllOnPath` and
  their conjunction `FarmIsWhole`, `DependencyNeverShadows`. The lemma
  `LinkAllSpec` says what a batch leaves under a name; the invariant `Stages`
  relates the stage of each add to what was written. It is needed because an add
  skips what is mounted, and only `Stages` says that what is mounted is written
  and linked. That the first and last offering of a name exist is proved from
  finiteness of sequences. The guest's lookups (`GuestNames`) are stutters of the
  share, and what it holds on to always runs (`CachedStillRuns`).
- `HandshakeProofs`: types, `InOrder` and its three parts, `OneLineFinishes`,
  from one invariant that fixes the order of share, QEMU and guest and counts
  newlines.
- `NarFetchProofs`: types; `ResolvedIsComplete`, from the invariant (`Accounted`)
  that every archive the boot's shared index has passed is in its share or at one
  of its workers, or a worker of that boot has thrown; the workers of other boots
  in the tab share its decoder and nothing else. `BadHasAnOwner` is
  inductive next to the types. `RefusalIsEarned` takes the hypothesis
  `NarAttempts > 1` (the code's `NAR_ATTEMPTS` is 2) and needs it: with a single
  attempt a bad copy of an earlier visit is fatal at once. Its invariant
  (`Earned`) says of an archive over which nothing has gone wrong that a worker
  past its first attempt finds no bad copy of it, stores none, and evicts only
  one that an earlier visit left.
- `PageProofs`: types; `AddsHaveVM` and `MountedIsShare` from one invariant
  (`EngineInv`) on which boots have an engine and whose the page talks to:
  before the first boot is over there is nothing to add to and nothing mounted,
  so a single engine is the one that `mounted` is about, and all that share lacks
  of it is what a write that threw left out. `ReloadKeepsPackages`
  from `OrderInv`: at any point of a restore, what is selected and then what is
  still to be looked up are the screen as it was left, paths first. The link's
  two filters have no repetitions and keep the order; their lemmas are about
  `Keep`, a filter written without recursion, since nothing can be proved of the
  library's.
- `ConsoleProofs`: types, among them the transcript's limit and that the
  manifest's loop never passes the file it waits for; `OneKeyPerTap`; and
  `MarkerIsHeard`, from `HeardInv`: until the marker is complete the transcript
  ends with what there is of it and has no unit of it before. Then what is there
  is never the marker (`PartIsNotMarker`, from `MarkerAssumption`), cutting the
  front off leaves what there is of it (`CapKeepsPart`), and a complete one is
  still there after the cut, with whatever the guest's last write had behind it
  (`MarkerIsKept`, from the limit in `ConsoleAssumption`).
- `LanesProofs`: types; `LineIsWhole` and `ShownIsFresh`, over any index, lines and
  texts and any number of handlers at once. `QueueInv` says that what waits for a
  promise waits for a pending one, that what is in the microtask queue had its
  promise settled, and that only a line awaits more than one. `LineInv` adds that
  for each spec of a line under way the shard has been answered or is still among
  the keys to await; promises never change once settled, so it survives every
  step. `FreshInv` is about a box that may not have been overtaken: its tasks all
  await the same lookup, the last of them in its queue carries the latest request,
  and once that is answered no other waits, so the screen is right when the turn
  ends. Within a turn it need not be: older answers are shown and replaced before
  the browser draws. `PicksAlwaysHighest` is about what the order of
  the code does give, whether it is that of the dates or not: what a line selects
  for a spec is not below any live release the spec admits. Any two versions
  compare one way round (`OneIsNotLower`), but three may go in a circle, and of an
  index that holds such a circle nothing is said (`NoCycles`); a release with its
  prereleases is none, so the instances of `lanes` and of `index_order` are both
  covered. That `versionsOf` can list the releases highest first is `CanBeSorted`,
  by a least counterexample on their number whose lowest one (`Lowest`, the one
  with the fewest below it) is put last; the first of the list that a spec takes
  is then the highest of all it takes (`TakesHighest`), and `HighestInductive`
  carries it from the answer to the selection. That the highest is also the newest
  (`PicksAreNewest`) holds of the instance of `lanes` only, and is checked there.

`IndexAssumption` and `IndexIsFinite` type the releases and say that each attribute
has finitely many. `LanesAssumption` types the constants and says that a fragment after an `@` and
the specs of a line name attributes, and that a line is not empty.
`MarkerAssumption` says two things of "trynix: welcome to the multiverse", cut
into units anywhere: no proper beginning of it is also an end of it (only its
first letter is a `t` followed by an `r`, and it ends with an `e`), and some piece
of it, "multiverse" for one, is in nothing else the guest writes; a reader who
types it at the prompt comes after every wait for it. `ConsoleAssumption` has a
write and the marker fit the transcript together: that is kept at 64 KiB, and the
serial line hands over far less at a time.

`SourceAssumption` types the constants. `ArrivalsAssumption` says that an archive
which arrives whole and undamaged reads as what nix packed; `parseNar` is
recursive, so TLC evaluates it for the archives of the instance (`Archives`), each
of them parsed, and nothing is proved of the parser.

The farm operator `LinkAll` is a closed form. That it equals the two loops of the
code is an assumption, `LinkAllIsTheLoop` of `MCStoreShare`, which TLC evaluates
over every batch and list of roots of the instance; it is not proved, being an
induction over the batch, and no proof uses it. `KeepIsTheFilter` of `MCPage` is
the same for `Keep` and the library's filter.

Only model-checked: `PicksAreNewest`, whose dates the code does not know; all
liveness (`WalkEnds`, `Settles`, `WorkersStop`,
`PageEnds`, `GuestComesUp`, `PollStops`, `ButtonComesBack`, `LoadingEnds`,
`SizeArrives`), which is outside what TLAPS does here; and what the parser, the
writer of links and the decoders of hashes compute (`CutIsRefused`,
`LinksKeepMeaning`, `HashesRight`), which are recursive or folds over data and so
outside its reach too.

## Not modelled

- MEMFS failing during the boot for other reasons than a name that is taken (in
  `Page` a write of an add may throw half way); which of two boots of a page sets
  `vm` last (`Page` has the second engine, `NarFetch` the workers of both).
- Versions and caches in the link; the grammar of a line of ranges
  (`parseSpecs`), of a cache line and of a fragment under the caret: they map
  text to the data the models start from. The ranking of `searchAttrs`, the
  debounce timer but for what it allows.
- The copy key, focus, theme and ghostty's drawing; `warmHttpCache`.
- Base64 (`atob`), SHA-256 and Ed25519: the browser's. A signature says whose key
  made it and what it covers.
- `boot`'s early return without cross-origin isolation: nothing starts.
- Progress, log, report, format, asset versions: presentation, or one table
  fetched once.
- QEMU, the kernel and the engine patches: their sources are not part of the
  repository. What the page relies on (a restore overwrites the UART, init reads
  one line) is modelled as the code and its comments describe it.
- Tools, the preview action and the benchmark pages run outside the page: shell
  and harnesses around GitHub's API, a browser or a file of their own.

## Plan

Written, in this order: `Closure`, `ClosureWalk`, `Fetch`, `NarFetch`, `Farm`,
`StoreShare`, `GuestNames`, `Handshake`, `Page`; then `Index`, `Lanes`, `Console`,
`NixHash`, `Unpack`, `Source`, `Archives`, `OneFetch`; and the proofs of all but
`NixHash`, `Unpack` and `Archives`.

An abstract specification worth stating next to `Closure` and `OneFetch`: a boot
as one step from a selection to a running guest (refined by `NarFetch` with
`Handshake`).
