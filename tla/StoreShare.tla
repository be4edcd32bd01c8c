----------------------------- MODULE StoreShare -----------------------------
(***************************************************************************)
(* The store share of a running page: what boot, run and add (site/js/     *)
(* app.js, boot.js) write into it and link, for a selection that changes   *)
(* at any moment.  Adds overlap: any change of the selection enables the   *)
(* button while an earlier add is still downloading.                       *)
(*                                                                         *)
(* Runtime[p] is the closure of p (ClosureWalk proves the walk computes    *)
(* it), Sibling[p] the bin output selected along with p, or NoPath.        *)
(***************************************************************************)
EXTENDS Farm

CONSTANTS
    Runtime,
    Sibling,
    Selectable,  \* the paths the reader may select
    Adds,        \* calls of addToRunningVM
    MaxSelected  \* bound: packages selected at once

ASSUME ShareAssumption ==
    /\ Runtime \in [Paths -> SUBSET Paths]
    /\ \A p \in Paths : p \in Runtime[p]
    /\ Sibling \in [Paths -> Paths \cup {NoPath}]
    /\ Selectable \subseteq Paths
    /\ MaxSelected \in Nat

VARIABLES
    selection, \* the selected paths, in selection order
    phase,     \* "page", "landing" (a boot downloads) or "running"
    landing,   \* archives of the boot still on their way
    written,   \* paths in the share
    farm,
    mounted,   \* the page's map of what the guest has
    roots,     \* the roots of the boot and of each add, captured at its start
    stage,     \* of each add
    fresh,     \* what each add downloads
    linked     \* the roots of the last batch linked

vars == <<selection, phase, landing, written, farm, mounted, roots, stage, fresh, linked>>

Callers == Adds \cup {"boot"}

\* rootsOf and digestsOf: each selected path, then its bin sibling.  Where
\* there is none the path is repeated, which counts for nothing.
RootsOf(s) ==
    [i \in 1..(2 * Len(s)) |->
        LET p == s[(i + 1) \div 2] IN
        IF i % 2 = 1 \/ Sibling[p] = NoPath THEN p ELSE Sibling[p]]

ClosureOf(s) == UNION {Runtime[p] : p \in Members(s)}

Init ==
    /\ selection = <<>>
    /\ phase = "page"
    /\ landing = {}
    /\ written = {}
    /\ farm = [n \in Names |-> NoPath]
    /\ mounted = {}
    /\ roots = [c \in Callers |-> <<>>]
    /\ stage = [k \in Adds |-> "idle"]
    /\ fresh = [k \in Adds |-> {}]
    /\ linked = <<>>

shareVars == <<landing, written, farm, mounted, linked>>
addVars == <<stage, fresh>>

Select(p) ==
    /\ p \notin Members(selection)
    /\ Len(selection) < MaxSelected
    /\ selection' = Append(selection, p)
    /\ UNCHANGED <<phase, shareVars, roots, addVars>>

Deselect(i) ==
    /\ i \in 1..Len(selection)
    /\ selection' = [j \in 1..(Len(selection) - 1) |->
                        IF j < i THEN selection[j] ELSE selection[j + 1]]
    /\ UNCHANGED <<phase, shareVars, roots, addVars>>

\* The boot walks the closure of what is selected now.
Boot ==
    /\ phase = "page"
    /\ selection # <<>>
    /\ phase' = "landing"
    /\ roots' = [roots EXCEPT !["boot"] = RootsOf(selection)]
    /\ landing' = ClosureOf(RootsOf(selection))
    /\ UNCHANGED <<selection, written, farm, mounted, linked, addVars>>

\* An archive lands.
Lands(p) ==
    /\ phase = "landing"
    /\ p \in landing
    /\ landing' = landing \ {p}
    /\ written' = written \cup {p}
    /\ UNCHANGED <<selection, phase, farm, mounted, roots, addVars, linked>>

\* A download fails: the next boot has an engine and a share of its own.
BootFails ==
    /\ phase = "landing"
    /\ landing # {}
    /\ phase' = "page"
    /\ landing' = {}
    /\ written' = {}
    /\ roots' = [roots EXCEPT !["boot"] = <<>>]
    /\ UNCHANGED <<selection, farm, mounted, addVars, linked>>

\* Mutant: only the roots are linked.
RunRootsOnly(order) ==
    /\ phase = "landing"
    /\ landing = {}
    /\ phase' = "running"
    /\ farm' = LinkAll(farm, <<>>, roots["boot"], "keep")
    /\ mounted' = ClosureOf(roots["boot"])
    /\ linked' = roots["boot"]
    /\ UNCHANGED <<selection, landing, written, roots, addVars>>

\* All are in: run links everything written, keeping the first of a name.
\* order is the one the archives landed in, which only the network knows.
Run(order) ==
    /\ phase = "landing"
    /\ landing = {}
    /\ phase' = "running"
    /\ farm' = LinkAll(farm, order, roots["boot"], "keep")
    /\ mounted' = ClosureOf(roots["boot"])
    /\ linked' = roots["boot"]
    /\ UNCHANGED <<selection, landing, written, roots, addVars>>

\* An add begins with the selection of that moment.
Begin(k) ==
    /\ phase = "running"
    /\ stage[k] = "idle"
    /\ selection # <<>>
    /\ stage' = [stage EXCEPT ![k] = "walking"]
    /\ roots' = [roots EXCEPT ![k] = RootsOf(selection)]
    /\ UNCHANGED <<selection, phase, shareVars, fresh>>

\* Nothing of an add is left once it is over.
Idle(k) ==
    /\ stage' = [stage EXCEPT ![k] = "idle"]
    /\ roots' = [roots EXCEPT ![k] = <<>>]
    /\ fresh' = [fresh EXCEPT ![k] = {}]

\* The walk ends with paths to fetch ...
Walked(k) ==
    LET lacking == ClosureOf(roots[k]) \ mounted IN
    /\ stage[k] = "walking"
    /\ lacking # {}
    /\ stage' = [stage EXCEPT ![k] = "fetching"]
    /\ fresh' = [fresh EXCEPT ![k] = lacking]
    /\ UNCHANGED <<selection, phase, shareVars, roots>>

\* ... or with none: "already there", and the add is over.
AlreadyThere(k) ==
    /\ stage[k] = "walking"
    /\ ClosureOf(roots[k]) \subseteq mounted
    /\ Idle(k)
    /\ UNCHANGED <<selection, phase, shareVars>>

\* Mutant: a failed add takes its closure out of the share again.
AddFailsCleans(k) ==
    /\ stage[k] \in {"walking", "fetching"}
    /\ written' = written \ ClosureOf(roots[k])
    /\ Idle(k)
    /\ UNCHANGED <<selection, phase, landing, farm, mounted, linked>>

AddFails(k) ==
    /\ stage[k] \in {"walking", "fetching"}
    /\ Idle(k)
    /\ UNCHANGED <<selection, phase, shareVars>>

\* Mutant: a link that is there stays.
AddKeeps(k, batch) ==
    /\ stage[k] = "fetching"
    /\ mounted' = mounted \cup fresh[k]
    /\ written' = written \cup fresh[k]
    /\ farm' = LinkAll(farm, batch, roots[k], "keep")
    /\ linked' = roots[k]
    /\ Idle(k)
    /\ UNCHANGED <<selection, phase, landing>>

\* Everything is unpacked: add writes what is not there yet, and links with
\* the roots replacing.  batch is fresh in the order the walk found it.
Add(k, batch) ==
    /\ stage[k] = "fetching"
    /\ mounted' = mounted \cup fresh[k]
    /\ written' = written \cup fresh[k]
    /\ farm' = LinkAll(farm, batch, roots[k], "replace")
    /\ linked' = roots[k]
    /\ Idle(k)
    /\ UNCHANGED <<selection, phase, landing>>

AddEnds(k) == \E batch \in Orders(fresh[k]) : Add(k, batch)

Next ==
    \/ \E p \in Selectable : Select(p)
    \/ \E i \in 1..MaxSelected : Deselect(i)
    \/ \E p \in Paths : Lands(p)
    \/ Boot \/ BootFails
    \/ \E order \in Orders(written) : Run(order)
    \/ \E k \in Adds :
        Begin(k) \/ Walked(k) \/ AlreadyThere(k) \/ AddFails(k) \/ AddEnds(k)

Spec == Init /\ [][Next]_vars
-----------------------------------------------------------------------------
TypeOK ==
    /\ selection \in Seq(Paths)
    /\ phase \in {"page", "landing", "running"}
    /\ landing \in SUBSET Paths
    /\ written \in SUBSET Paths
    /\ farm \in [Names -> Paths \cup {NoPath}]
    /\ mounted \in SUBSET Paths
    /\ roots \in [Callers -> Seq(Paths)]
    /\ stage \in [Adds -> {"idle", "walking", "fetching"}]
    /\ fresh \in [Adds -> SUBSET Paths]
    /\ linked \in Seq(Paths)

Offered(S, n) == \E p \in S : n \in Programs[p]

\* What the reader selected wins a collision with a dependency: a name that
\* some root of the last batch offers runs from a root of that batch.
SelectionWins ==
    \A n \in Names : Offered(Members(linked), n) => farm[n] \in Members(linked)

\* Every link leads somewhere: the path is in the share and has the program.
LinksResolve ==
    \A n \in Names : farm[n] # NoPath =>
        farm[n] \in written /\ n \in Programs[farm[n]]

\* Once the guest runs, every program of every mounted path is on PATH.
AllOnPath ==
    phase = "running" =>
        /\ mounted = written
        /\ \A n \in Names : Offered(mounted, n) => farm[n] # NoPath

\* The farm misses nothing and promises nothing it has not, however adds
\* overlap and fail (linkAll, write, add).
FarmIsWhole == AllOnPath /\ LinksResolve

\* A dependency never shadows what is there: a link that exists only ever
\* changes to a path the reader selected, and no link goes away.
DependencyNeverShadows ==
    [][\A n \in Names : farm[n] # NoPath /\ farm'[n] # farm[n] =>
            \E k \in Adds : stage[k] = "fetching" /\ farm'[n] \in Members(roots[k])]_farm

\* "The new selection's links replace old ones so the most recent choice
\* runs" (docs/design.md): when an add ends well, a package selected since
\* the last batch runs under each name it is the last root to offer.
MostRecentRuns ==
    [][\A k \in Adds : AlreadyThere(k) \/ AddEnds(k) =>
        \A n \in Names :
            LET choice == LastOffering(roots[k], n) IN
            choice \notin Members(linked) \cup {NoPath} => farm'[n] = choice]_vars
=============================================================================
