-------------------------------- MODULE Page --------------------------------
(***************************************************************************)
(* The life of one page (site/js/app.js, url.js): the selection and the    *)
(* link that describes it, the restore of a link, the one button, boots,   *)
(* adds, reloads.  Every await in them is a place where the reader, or     *)
(* another call of the same function, gets a turn.                         *)
(*                                                                         *)
(* What a boot or an add brings is the set of packages it was begun with:  *)
(* ClosureWalk and StoreShare refine that to closures and links.           *)
(***************************************************************************)
EXTENDS Integers, Sequences, FiniteSets

CONSTANTS
    Packages,    \* what may be selected
    Named,       \* those with an attribute: the others are raw store paths
    Boots,       \* calls of boot in one life of the page
    NoVM,        \* no engine yet
    Adds,        \* calls of addToRunningVM under way at once
    Readers,     \* what there is to pick, and the boots and adds that may be
                 \* called: a set, of which each behaviour has one
    MaxSelected, \* bound: packages selected at once
    MaxLoads     \* bound: times the page is loaded

ASSUME PageAssumption ==
    /\ Named \subseteq Packages
    /\ NoVM \notin Boots
    /\ Readers \subseteq [picks : SUBSET Packages, calls : SUBSET (Boots \cup Adds)]
    /\ MaxSelected \in Nat
    /\ MaxLoads \in Nat \ {0}

VARIABLES
    selection,   \* in selection order
    link,        \* the address bar: named packages, raw paths
    restoring,   \* named packages the restore has still to look up
    autoboot,    \* whether a boot follows the restore
    button,      \* whether the button is enabled
    booting,     \* of each boot: "idle", "walking", "starting", "filling", "over",
                 \* or "stuck": its engine failed where nobody listens
    wanted,      \* the packages each boot and add began with
    share,       \* what each boot's engine has in its share
    engines,     \* boots whose engine was instantiated in this page
    vm,          \* whose engine the page talks to, or NoVM
    vmStarted,
    mounted,     \* the page's map of what the guest has
    adding,      \* of each add: "idle", "walking", "fetching"
    fresh,       \* what each add fetches
    loads,       \* how often the page was loaded
    screen,      \* the selection when the page was last left, while
    faithful,    \* the reader changed nothing since, and the index knew all
    torn,        \* what adds left unwritten, in this life of the page, as a
                 \* write threw
    reader

vars == <<selection, link, restoring, autoboot, button, booting, wanted, share, engines, vm,
          vmStarted, mounted, torn, adding, fresh, loads, screen, faithful, reader>>

Members(s) == {s[i] : i \in 1..Len(s)}

\* entries.filter: SelectSeq of the members of S, written without recursion.
Before(s, S, i) == Cardinality({j \in 1..i : s[j] \in S})
Keep(s, S) ==
    [k \in 1..Before(s, S, Len(s)) |->
        s[CHOOSE i \in 1..Len(s) : s[i] \in S /\ Before(s, S, i) = k]]

Paths == Packages \ Named

\* Mutant of LinkOf: only the attributes reach the link.
LinkOfNamed(s) == [pkgs |-> Keep(s, Named), paths |-> <<>>]

\* urlState and writeUrl: named packages and paths are two lists.
LinkOf(s) == [pkgs |-> Keep(s, Named), paths |-> Keep(s, Paths)]

\* render: the link and the button follow the selection.
Render(s) ==
    /\ selection' = s
    /\ link' = LinkOf(s)
    /\ button' = (s # <<>>)

Init ==
    /\ booting = [b \in Boots |-> "idle"]
    /\ wanted = [c \in Boots \cup Adds |-> {}]
    /\ share = [b \in Boots |-> {}]
    /\ engines = {}
    /\ vm = NoVM
    /\ vmStarted = FALSE
    /\ mounted = {}
    /\ adding = [k \in Adds |-> "idle"]
    /\ fresh = [k \in Adds |-> {}]
    /\ selection = <<>>
    /\ link = LinkOf(<<>>)
    /\ restoring = <<>>
    /\ autoboot = FALSE
    /\ button = FALSE
    /\ loads = 1
    /\ screen = <<>>
    /\ faithful = TRUE
    /\ torn = {}
    /\ reader \in Readers

bootVars == <<booting, share, engines, vm, vmStarted>>
addVars == <<adding, fresh, torn>>
guestVars == <<bootVars, wanted, mounted, addVars>>
loadVars == <<restoring, autoboot, loads, screen, reader>>

\* The screen is no longer the one the page was left with.
Altered == faithful' = FALSE /\ screen' = <<>>

-----------------------------------------------------------------------------
\* Any lane: Map.set of a digest that is there already keeps its place.
Select(p) ==
    /\ p \in reader.picks /\ Len(selection) < MaxSelected
    /\ Render(IF p \in Members(selection) THEN selection ELSE Append(selection, p))
    /\ Altered
    /\ UNCHANGED <<guestVars, restoring, autoboot, loads, reader>>

Deselect(p) ==
    /\ p \in Members(selection)
    /\ Render(Keep(selection, Packages \ {p}))
    /\ Altered
    /\ UNCHANGED <<guestVars, restoring, autoboot, loads, reader>>

\* Everything a page holds besides its selection and its link is lost.
Forget ==
    /\ booting' = [b \in Boots |-> "idle"]
    /\ wanted' = [c \in Boots \cup Adds |-> {}]
    /\ share' = [b \in Boots |-> {}]
    /\ engines' = {}
    /\ vm' = NoVM
    /\ vmStarted' = FALSE
    /\ mounted' = {}
    /\ torn' = {}
    /\ adding' = [k \in Adds |-> "idle"]
    /\ fresh' = [k \in Adds |-> {}]

\* The page is left and loaded again from its link.  The first render shows
\* an empty selection; the paths are selected in the same turn, the named
\* packages as their versions arrive.
Load(boot) ==
    /\ loads < MaxLoads
    /\ loads' = loads + 1
    /\ screen' = selection
    /\ faithful' = TRUE
    /\ Render(link.paths)
    /\ restoring' = link.pkgs
    /\ autoboot' = boot
    /\ Forget
    /\ UNCHANGED reader

Reload == Load(FALSE)

\* "Start over in a fresh VM": the link with boot=1, once a VM runs.
Reboot == vmStarted /\ Load(TRUE)

\* versionsOf answers, or the index does not know the package.
Restore ==
    /\ restoring # <<>>
    /\ restoring' = Tail(restoring)
    /\ LET p == Head(restoring) IN
        \/ /\ Render(IF p \in Members(selection) THEN selection ELSE Append(selection, p))
           /\ UNCHANGED <<faithful, screen>>
        \/ /\ Altered
           /\ UNCHANGED <<selection, link, button>>
    /\ UNCHANGED <<guestVars, autoboot, loads, reader>>

\* A shard cannot be fetched: restore throws, and no boot follows.
RestoreThrows ==
    /\ restoring # <<>>
    /\ restoring' = <<>>
    /\ autoboot' = FALSE
    /\ Altered
    /\ UNCHANGED <<selection, link, button, guestVars, loads, reader>>

-----------------------------------------------------------------------------
\* boot up to its first await.
BeginBoot(b) ==
    /\ booting[b] = "idle" /\ b \in reader.calls
    /\ booting' = [booting EXCEPT ![b] = "walking"]
    /\ wanted' = [wanted EXCEPT ![b] = Members(selection)]
    /\ button' = FALSE
    /\ UNCHANGED <<selection, link, share, engines, vm, vmStarted, mounted, addVars,
                   loads, screen, faithful, reader>>

ClickBoot(b) ==
    /\ button
    /\ ~vmStarted
    /\ BeginBoot(b)
    /\ UNCHANGED <<restoring, autoboot>>

AutoBoot(b) ==
    /\ autoboot
    /\ restoring = <<>>
    /\ selection # <<>>
    /\ autoboot' = FALSE
    /\ BeginBoot(b)
    /\ UNCHANGED restoring

\* The closure is walked, and the downloads begin.
Walked(b) ==
    /\ booting[b] = "walking"
    /\ booting' = [booting EXCEPT ![b] = "starting"]
    /\ UNCHANGED <<selection, link, button, faithful, loadVars, wanted, share, engines, vm,
                   vmStarted, mounted, addVars>>

\* vmPromise resolves: vm is this boot's from here on.
EngineUp(b) ==
    /\ booting[b] = "starting"
    /\ booting' = [booting EXCEPT ![b] = "filling"]
    /\ engines' = engines \cup {b}
    /\ vm' = b
    /\ UNCHANGED <<selection, link, button, faithful, loadVars, wanted, share, vmStarted,
                   mounted, addVars>>

\* An engine that fails before preRun is only logged: filesystem, and with
\* it vmPromise, never settles, and boot waits for ever.
EngineHangs(b) ==
    /\ booting[b] = "starting"
    /\ booting' = [booting EXCEPT ![b] = "stuck"]
    /\ wanted' = [wanted EXCEPT ![b] = {}]
    /\ UNCHANGED <<selection, link, button, faithful, loadVars, share, engines, vm,
                   vmStarted, mounted, addVars>>

\* closurePromise resolves: the guest is released, and the button adds.
GuestRuns(b) ==
    /\ booting[b] = "filling"
    /\ booting' = [booting EXCEPT ![b] = "over"]
    /\ share' = [share EXCEPT ![b] = @ \cup wanted[b]]
    /\ vmStarted' = TRUE
    /\ mounted' = wanted[b]
    /\ wanted' = [wanted EXCEPT ![b] = {}]
    /\ button' = TRUE
    /\ UNCHANGED <<selection, link, faithful, loadVars, engines, vm, addVars>>

\* Mutant of BootFails: the catch leaves the button as it is.
BootFailsDisabled(b) ==
    /\ booting[b] \in {"walking", "starting", "filling"}
    /\ booting' = [booting EXCEPT ![b] = "over"]
    /\ wanted' = [wanted EXCEPT ![b] = {}]
    /\ UNCHANGED <<selection, link, button, faithful, loadVars, share, engines, vm,
                   vmStarted, mounted, addVars>>

\* An await of boot throws: the walk, a download, the engine, an archive.
BootFails(b) ==
    /\ booting[b] \in {"walking", "starting", "filling"}
    /\ booting' = [booting EXCEPT ![b] = "over"]
    /\ wanted' = [wanted EXCEPT ![b] = {}]
    /\ button' = TRUE
    /\ UNCHANGED <<selection, link, faithful, loadVars, share, engines, vm,
                   vmStarted, mounted, addVars>>

-----------------------------------------------------------------------------
\* Mutant of ClickAdd: the button adds as soon as there is an engine.
ClickAddEarly(k) ==
    /\ button
    /\ vm # NoVM
    /\ adding[k] = "idle" /\ k \in reader.calls
    /\ adding' = [adding EXCEPT ![k] = "walking"]
    /\ wanted' = [wanted EXCEPT ![k] = Members(selection)]
    /\ button' = FALSE
    /\ UNCHANGED <<selection, link, faithful, loadVars, bootVars, mounted, fresh, torn>>

\* addToRunningVM up to its first await.
ClickAdd(k) ==
    /\ button
    /\ vmStarted
    /\ adding[k] = "idle" /\ k \in reader.calls
    /\ adding' = [adding EXCEPT ![k] = "walking"]
    /\ wanted' = [wanted EXCEPT ![k] = Members(selection)]
    /\ button' = FALSE
    /\ UNCHANGED <<selection, link, faithful, loadVars, bootVars, mounted, fresh, torn>>

\* Mutant of AddOver: a call that has ended still counts as one under way.
AddOverKept(k) ==
    /\ adding' = [adding EXCEPT ![k] = "over"]
    /\ wanted' = [wanted EXCEPT ![k] = {}]
    /\ fresh' = [fresh EXCEPT ![k] = {}]
    /\ button' = TRUE
    /\ UNCHANGED <<selection, link, faithful, loadVars, booting, engines, vm, vmStarted>>

\* However it ends, the button comes back.
AddOver(k) ==
    /\ adding' = [adding EXCEPT ![k] = "idle"]
    /\ wanted' = [wanted EXCEPT ![k] = {}]
    /\ fresh' = [fresh EXCEPT ![k] = {}]
    /\ button' = TRUE
    /\ UNCHANGED <<selection, link, faithful, loadVars, booting, engines, vm, vmStarted>>

\* What is new is told from the map as the walk ends: walkRoots holds the map
\* itself.  A second boot that gets its guest meanwhile replaces that map and
\* the walk keeps the older one; this is left out, as the page then has two
\* engines and no property speaks of the map any more.
AddWalked(k) ==
    /\ adding[k] = "walking"
    /\ ~(wanted[k] \subseteq mounted)
    /\ adding' = [adding EXCEPT ![k] = "fetching"]
    /\ fresh' = [fresh EXCEPT ![k] = wanted[k] \ mounted]
    /\ wanted' = [wanted EXCEPT ![k] = {}]
    /\ UNCHANGED <<selection, link, button, faithful, loadVars, bootVars, mounted, torn>>

AlreadyThere(k) ==
    /\ adding[k] = "walking"
    /\ wanted[k] \subseteq mounted
    /\ AddOver(k)
    /\ UNCHANGED <<share, mounted, torn>>

\* Mutant of AddFails: the map is filled before the archives are in.
AddFailsMounted(k) ==
    /\ adding[k] # "idle"
    /\ mounted' = mounted \cup fresh[k]
    /\ AddOver(k)
    /\ UNCHANGED <<share, torn>>

AddFails(k) ==
    /\ adding[k] # "idle"
    /\ AddOver(k)
    /\ UNCHANGED <<share, mounted, torn>>

\* The archives are in: the map takes them all, and then the share of vm,
\* unless a write throws (MEMFS is memory) and leaves the rest unwritten.
AddEnds(k) ==
    /\ adding[k] = "fetching"
    /\ mounted' = mounted \cup fresh[k]
    /\ \E written \in SUBSET fresh[k] :
        /\ share' = [share EXCEPT ![vm] = @ \cup written]
        /\ torn' = torn \cup (fresh[k] \ written)
    /\ AddOver(k)

-----------------------------------------------------------------------------
BootStep(b) == Walked(b) \/ EngineUp(b) \/ EngineHangs(b) \/ GuestRuns(b) \/ BootFails(b)
AddStep(k) == AddWalked(k) \/ AlreadyThere(k) \/ AddFails(k) \/ AddEnds(k)
RestoreStep == Restore \/ RestoreThrows \/ \E b \in Boots : AutoBoot(b)

Next ==
    \/ \E p \in Packages : Select(p) \/ Deselect(p)
    \/ Reload \/ Reboot
    \/ RestoreStep
    \/ \E b \in Boots : ClickBoot(b) \/ BootStep(b)
    \/ \E k \in Adds : ClickAdd(k) \/ AddStep(k)

Spec == Init /\ [][Next]_vars

\* Fetches are answered or refused; nothing obliges the reader.
FairSpec ==
    /\ Spec
    /\ WF_vars(RestoreStep)
    /\ \A b \in Boots : WF_vars(BootStep(b))
    /\ \A k \in Adds : WF_vars(AddStep(k))
-----------------------------------------------------------------------------
Lists == Seq(Packages)

TypeOK ==
    /\ selection \in Lists
    /\ link \in [pkgs : Lists, paths : Lists]
    /\ restoring \in Lists
    /\ autoboot \in BOOLEAN
    /\ button \in BOOLEAN
    /\ booting \in [Boots -> {"idle", "walking", "starting", "filling", "stuck", "over"}]
    /\ wanted \in [Boots \cup Adds -> SUBSET Packages]
    /\ share \in [Boots -> SUBSET Packages]
    /\ engines \in SUBSET Boots
    /\ vm \in Boots \cup {NoVM}
    /\ vmStarted \in BOOLEAN
    /\ mounted \in SUBSET Packages
    /\ adding \in [Adds -> {"idle", "walking", "fetching"}]
    /\ fresh \in [Adds -> SUBSET Packages]
    /\ loads \in 1..MaxLoads
    /\ screen \in Lists
    /\ torn \in SUBSET Packages
    /\ reader \in Readers
    /\ faithful \in BOOLEAN

\* An add has a running VM to add to (vm.add in addToRunningVM), however
\* boots, adds and reloads interleave.
AddsHaveVM == \A k \in Adds : adding[k] # "idle" => vmStarted /\ vm \in engines

\* As long as the page made one engine, its map of what the guest has is what
\* that engine's share holds, whatever adds overlap, fail or find: no add
\* skips a path the guest lacks, but for those a write that threw has left
\* out (the map is filled first, app.js:633).
MountedIsShare ==
    vmStarted /\ Cardinality(engines) = 1 => mounted = share[vm] \cup torn

\* A reload brings back what was on the screen, unless the reader changed
\* something meanwhile or the index did not answer, and in this order: the
\* raw paths as they were selected, then the packages as they were (restore
\* selects in two passes).  The order counts: the first root that offers a
\* name wins it.
ReloadKeepsPackages ==
    faithful /\ restoring = <<>> =>
        selection = Keep(screen, Paths) \o Keep(screen, Named)

\* Every boot and add ends with the button back, unless the reader cleared
\* the selection or an engine failed where nobody listens: no other failure
\* leaves the page with nothing to press.
ButtonComesBack ==
    selection # <<>> /\ ~button ~>
        button \/ selection = <<>> \/ \E b \in Boots : booting[b] = "stuck"

\* "A second boot restarts the page instead": the emscripten module owns its
\* workers and memory for the life of the page (app.js).
AtMostOneEngine == Cardinality(engines) <= 1
=============================================================================
