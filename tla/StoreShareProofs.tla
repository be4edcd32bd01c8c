-------------------------- MODULE StoreShareProofs --------------------------
(***************************************************************************)
(* For every set of paths, programs, closures and siblings, and any number *)
(* of overlapping adds: every link resolves, a selection wins over its     *)
(* dependencies, every mounted program is on PATH, and what the guest      *)
(* cached of them still runs.                                              *)
(***************************************************************************)
EXTENDS GuestNames, FiniteSetTheorems, WellFoundedInduction, TLAPS

\* A non-empty set of naturals has a least member.  (Induction is out of
\* the provers' reach; the sets 0..i under strict inclusion are not.)
LEMMA Least ==
    ASSUME NEW I \in SUBSET Nat, I # {}
    PROVE  \E i \in I : \A j \in I : i <= j
<1> DEFINE T == {0..i : i \in I}
<1>1. \A i \in I : 0..i \in FiniteSubsetsOf(Nat)
    BY FS_Interval DEF FiniteSubsetsOf
<1>2. T \subseteq FiniteSubsetsOf(Nat) /\ T # {}
    BY <1>1
<1>3. \E A \in T : \A B \in T : <<B, A>> \notin StrictSubsetOrdering(Nat)
    <2> HIDE DEF T
    <2> QED BY <1>2, FS_StrictSubsetOrderingWellFounded, WFMin
<1>4. PICK i \in I : \A B \in T : <<B, 0..i>> \notin StrictSubsetOrdering(Nat)
    BY <1>3
<1>5. ASSUME NEW j \in I, j < i PROVE FALSE
    <2>1. 0..j \subseteq 0..i /\ 0..j # 0..i
        BY <1>5
    <2> QED BY <1>1, <1>4, <2>1 DEF StrictSubsetOrdering, FiniteSubsetsOf
<1> QED BY <1>5

\* ... and a bounded one has a greatest.
LEMMA Greatest ==
    ASSUME NEW n \in Nat, NEW I \in SUBSET (0..n), I # {}
    PROVE  \E i \in I : \A j \in I : j <= i
<1> DEFINE J == {n - i : i \in I}
<1>1. \A i \in I : n - i \in Nat
    OBVIOUS
<1>2. PICK m \in J : \A j \in J : m <= j
    <2>1. J \in SUBSET Nat /\ J # {}
        BY <1>1
    <2> HIDE DEF J
    <2> QED BY <2>1, Least
<1>3. PICK i \in I : m = n - i
    OBVIOUS
<1>4. \A j \in I : n - i <= n - j
    BY <1>2, <1>3
<1> QED BY <1>1, <1>4

-----------------------------------------------------------------------------
\* A path of a sequence that offers a name is found where it first stands.
LEMMA OfferingFound ==
    ASSUME NEW s \in Seq(Paths), NEW n \in Names
    PROVE  /\ Offering(s, n) \in SUBSET (1..Len(s))
           /\ \A i \in Offering(s, n) : s[i] \in Members(s) /\ n \in Programs[s[i]]
           /\ Offered(Members(s), n) <=> Offering(s, n) # {}
<1>1. ASSUME NEW k \in 1..Len(s), n \in Programs[s[k]]
      PROVE  Offering(s, n) # {}
    <2> DEFINE I == {i \in 1..Len(s) : s[i] = s[k]}
    <2>1. PICK i \in I : \A j \in I : i <= j
        <3>1. I \in SUBSET Nat /\ k \in I
            OBVIOUS
        <3> HIDE DEF I
        <3> QED BY <3>1, Least
    <2>2. \A j \in 1..(i - 1) : j \in 1..Len(s) /\ s[j] # s[i]
        BY <2>1
    <2> QED BY <1>1, <2>1, <2>2 DEF Offering
<1> QED BY <1>1 DEF Offering, Offered, Members

\* p is a path of s that offers n, or NoPath when there is none.
Picked(p, s, n) ==
    IF Offered(Members(s), n)
    THEN p \in Members(s) /\ n \in Programs[p] /\ p \in Paths /\ p # NoPath
    ELSE p = NoPath

\* What FirstOffering and LastOffering pick.
LEMMA Picks ==
    ASSUME NEW s \in Seq(Paths), NEW n \in Names
    PROVE  Picked(FirstOffering(s, n), s, n) /\ Picked(LastOffering(s, n), s, n)
<1> DEFINE I == Offering(s, n)
<1>1. Members(s) \subseteq Paths
    BY DEF Members
<1>2. CASE I = {}
    BY <1>2, OfferingFound DEF FirstOffering, LastOffering, Picked
<1>3. CASE I # {}
    <2>0. Offered(Members(s), n)
        BY <1>3, OfferingFound
    <2>1. I \in SUBSET Nat /\ I \in SUBSET (0..Len(s)) /\ Len(s) \in Nat
        BY OfferingFound
    <2>2. \E i \in I : \A j \in I : i <= j
        <3> HIDE DEF I
        <3> QED BY <1>3, <2>1, Least
    <2>3. \E i \in I : \A j \in I : j <= i
        <3> HIDE DEF I
        <3> QED BY <1>3, <2>1, Greatest
    <2>4. \A i \in I : Picked(s[i], s, n)
        BY <1>1, <2>0, OfferingFound, FarmAssumption DEF Picked
    <2>5. PICK i \in I : FirstOffering(s, n) = s[i]
        BY <1>3, <2>2 DEF FirstOffering
    <2>6. PICK j \in I : LastOffering(s, n) = s[j]
        BY <1>3, <2>3 DEF LastOffering
    <2> HIDE DEF I
    <2> QED BY <2>4, <2>5, <2>6
<1> QED BY <1>2, <1>3

\* What a batch leaves under one name.
LEMMA LinkAllSpec ==
    ASSUME NEW f \in [Names -> Paths \cup {NoPath}],
           NEW b \in Seq(Paths), NEW r \in Seq(Paths), NEW prec \in {"keep", "replace"},
           NEW n \in Names
    PROVE  LET p == LinkAll(f, b, r, prec)[n] IN
           /\ p \in Paths \cup {NoPath}
           /\ p # f[n] => n \in Programs[p] /\ p \in Members(b) \cup Members(r)
           /\ f[n] # NoPath \/ Offered(Members(b), n) => p # NoPath
           /\ f[n] # NoPath /\ p # f[n] => p \in Members(r)
           /\ (prec = "replace" \/ f[n] = NoPath) /\ Offered(Members(r), n) => p \in Members(r)
<1> DEFINE first == FirstOffering(r, n)
           last == LastOffering(r, n)
           rest == FirstOffering(b, n)
<1>1. Picked(first, r, n) /\ Picked(last, r, n) /\ Picked(rest, b, n)
    BY Picks
<1>2. LinkAll(f, b, r, prec)[n] =
        OrElse(IF prec = "replace" THEN OrElse(last, f[n]) ELSE OrElse(f[n], first), rest)
    BY DEF LinkAll
<1> HIDE DEF first, last, rest
<1> QED BY <1>1, <1>2 DEF OrElse, Picked

LEMMA LinkAllType ==
    ASSUME NEW f \in [Names -> Paths \cup {NoPath}],
           NEW b \in Seq(Paths), NEW r \in Seq(Paths), NEW prec \in {"keep", "replace"}
    PROVE  LinkAll(f, b, r, prec) \in [Names -> Paths \cup {NoPath}]
<1>1. \A n \in Names : LinkAll(f, b, r, prec)[n] \in Paths \cup {NoPath}
    BY LinkAllSpec
<1>2. LinkAll(f, b, r, prec) = [n \in Names |-> LinkAll(f, b, r, prec)[n]]
    BY DEF LinkAll
<1> QED BY <1>1, <1>2

\* An order of a set of paths is a sequence of exactly its members.
LEMMA OrdersSpec ==
    ASSUME NEW S \in SUBSET Paths, NEW s \in Orders(S)
    PROVE  s \in Seq(Paths) /\ Members(s) = S
<1>1. Cardinality(S) \in Nat
    BY FS_Subset, FS_CardinalityType, FarmAssumption
<1>2. s \in [1..Cardinality(S) -> S] /\ \A p \in S : \E i \in 1..Cardinality(S) : s[i] = p
    BY DEF Orders
<1>3. Len(s) = Cardinality(S) /\ s \in Seq(Paths)
    BY <1>1, <1>2
<1> QED BY <1>2, <1>3 DEF Members

LEMMA RootsOfType ==
    ASSUME NEW s \in Seq(Paths)
    PROVE  RootsOf(s) \in Seq(Paths)
<1>1. \A i \in 1..(2 * Len(s)) : (i + 1) \div 2 \in 1..Len(s)
    OBVIOUS
<1>2. \A i \in 1..(2 * Len(s)) : RootsOf(s)[i] \in Paths
    BY <1>1, ShareAssumption DEF RootsOf
<1>3. RootsOf(s) \in [1..(2 * Len(s)) -> Paths]
    BY <1>2 DEF RootsOf
<1> QED BY <1>3

LEMMA ClosureOfSpec ==
    ASSUME NEW s \in Seq(Paths)
    PROVE  Members(s) \subseteq ClosureOf(s) /\ ClosureOf(s) \in SUBSET Paths
BY ShareAssumption DEF ClosureOf, Members

-----------------------------------------------------------------------------
\* The state keeps its types, through every step of boot, run and add.
THEOREM TypeCorrect == Spec => []TypeOK
<1> USE DEF TypeOK, Callers
<1>1. Init => TypeOK
    BY DEF Init
<1>2. TypeOK /\ [Next]_vars => TypeOK'
    <2> SUFFICES ASSUME TypeOK, [Next]_vars PROVE TypeOK'
        OBVIOUS
    <2> USE DEF shareVars, addVars
    <2>1. ASSUME NEW p \in Selectable, Select(p) PROVE TypeOK'
        BY <2>1, ShareAssumption DEF Select
    <2>2. ASSUME NEW i \in 1..MaxSelected, Deselect(i) PROVE TypeOK'
        <3>1. selection' \in Seq(Paths)
            <4>1. Len(selection) - 1 \in Nat
                BY <2>2 DEF Deselect
            <4>2. \A j \in 1..(Len(selection) - 1) :
                    (IF j < i THEN selection[j] ELSE selection[j + 1]) \in Paths
                BY <2>2
            <4>3. selection' \in [1..(Len(selection) - 1) -> Paths]
                BY <2>2, <4>2 DEF Deselect
            <4>4. \A m \in Nat : [1..m -> Paths] \subseteq Seq(Paths)
                OBVIOUS
            <4> HIDE DEF TypeOK
            <4> QED BY <4>1, <4>3, <4>4
        <3> QED BY <2>2, <3>1 DEF Deselect
    <2>3. ASSUME NEW p \in Paths, Lands(p) PROVE TypeOK'
        BY <2>3 DEF Lands
    <2>4. ASSUME Boot PROVE TypeOK'
        BY <2>4, RootsOfType, ClosureOfSpec DEF Boot
    <2>5. ASSUME BootFails PROVE TypeOK'
        BY <2>5 DEF BootFails
    <2>6. ASSUME NEW order \in Orders(written), Run(order) PROVE TypeOK'
        <3>1. farm' \in [Names -> Paths \cup {NoPath}]
            BY <2>6, LinkAllType, OrdersSpec DEF Run
        <3>2. ClosureOf(roots["boot"]) \in SUBSET Paths
            BY ClosureOfSpec
        <3> QED BY <2>6, <3>1, <3>2 DEF Run
    <2>7. ASSUME NEW k \in Adds, Begin(k) PROVE TypeOK'
        BY <2>7, RootsOfType DEF Begin
    <2>8. ASSUME NEW k \in Adds, Walked(k) PROVE TypeOK'
        <3>1. ClosureOf(roots[k]) \in SUBSET Paths
            BY ClosureOfSpec
        <3> QED BY <2>8, <3>1 DEF Walked
    <2>9. ASSUME NEW k \in Adds, AlreadyThere(k) PROVE TypeOK'
        BY <2>9 DEF AlreadyThere, Idle
    <2>10. ASSUME NEW k \in Adds, AddFails(k) PROVE TypeOK'
        BY <2>10 DEF AddFails, Idle
    <2>11. ASSUME NEW k \in Adds, NEW batch \in Orders(fresh[k]), Add(k, batch)
           PROVE  TypeOK'
        <3>1. farm' \in [Names -> Paths \cup {NoPath}]
            BY <2>11, LinkAllType, OrdersSpec DEF Add
        <3> QED BY <2>11, <3>1 DEF Add, Idle
    <2>12. CASE UNCHANGED vars
        BY <2>12 DEF vars
    <2> QED BY <2>1, <2>2, <2>3, <2>4, <2>5, <2>6, <2>7, <2>8, <2>9, <2>10, <2>11, <2>12
            DEF Next, AddEnds
<1> QED BY <1>1, <1>2, PTL DEF Spec

-----------------------------------------------------------------------------
\* Before the guest runs nothing is linked, mounted or being added; from then
\* on the page's map is what the share holds, and what an add has not
\* fetched of its closure is mounted already.
Stages ==
    /\ phase = "page" => written = {} /\ landing = {}
    /\ phase = "landing" =>
        /\ Members(roots["boot"]) \subseteq written \cup landing
        /\ ClosureOf(roots["boot"]) = written \cup landing
    /\ phase = "running" => mounted = written
    /\ phase # "running" =>
        /\ \A n \in Names : farm[n] = NoPath
        /\ linked = <<>>
        /\ \A k \in Adds : stage[k] = "idle"
    /\ \A k \in Adds : stage[k] = "fetching" =>
        Members(roots[k]) \subseteq mounted \cup fresh[k]

LEMMA NoMembers == Members(<<>>) = {}
BY DEF Members

LEMMA StagesInductive ==
    ASSUME TypeOK, Stages, [Next]_vars
    PROVE  Stages'
<1> USE DEF TypeOK, Stages, Callers, shareVars, addVars
<1>1. ASSUME NEW p \in Selectable, Select(p) PROVE Stages'
    BY <1>1 DEF Select
<1>2. ASSUME NEW i \in 1..MaxSelected, Deselect(i) PROVE Stages'
    BY <1>2 DEF Deselect
<1>3. ASSUME NEW p \in Paths, Lands(p) PROVE Stages'
    BY <1>3 DEF Lands
<1>4. ASSUME Boot PROVE Stages'
    <2>1. Members(RootsOf(selection)) \subseteq ClosureOf(RootsOf(selection))
        BY RootsOfType, ClosureOfSpec
    <2> QED BY <1>4, <2>1 DEF Boot
<1>5. ASSUME BootFails PROVE Stages'
    BY <1>5 DEF BootFails
<1>6. ASSUME NEW order \in Orders(written), Run(order) PROVE Stages'
    BY <1>6 DEF Run
<1>7. ASSUME NEW k \in Adds, Begin(k) PROVE Stages'
    BY <1>7 DEF Begin
<1>8. ASSUME NEW k \in Adds, Walked(k) PROVE Stages'
    <2>1. Members(roots[k]) \subseteq ClosureOf(roots[k])
        BY ClosureOfSpec
    <2> QED BY <1>8, <2>1 DEF Walked
<1>9. ASSUME NEW k \in Adds, AlreadyThere(k) PROVE Stages'
    BY <1>9 DEF AlreadyThere, Idle
<1>10. ASSUME NEW k \in Adds, AddFails(k) PROVE Stages'
    BY <1>10 DEF AddFails, Idle
<1>11. ASSUME NEW k \in Adds, NEW batch \in Orders(fresh[k]), Add(k, batch)
       PROVE  Stages'
    BY <1>11 DEF Add, Idle
<1>12. CASE UNCHANGED vars
    BY <1>12 DEF vars
<1> QED BY <1>1, <1>2, <1>3, <1>4, <1>5, <1>6, <1>7, <1>8, <1>9, <1>10, <1>11, <1>12
        DEF Next, AddEnds

THEOREM StagesHold == Spec => []Stages
<1>1. Init => Stages
    BY NoMembers DEF Init, Stages, Callers
<1>2. TypeOK /\ Stages /\ [Next]_vars => Stages'
    BY StagesInductive
<1> QED BY <1>1, <1>2, TypeCorrect, PTL DEF Spec

-----------------------------------------------------------------------------
\* Only run and add touch the farm; the rest of the share they read.
LEMMA OnlyBatchesLink ==
    ASSUME TypeOK, Stages, [Next]_vars
    PROVE  \/ \E order \in Orders(written) : Run(order)
           \/ \E k \in Adds : \E batch \in Orders(fresh[k]) : Add(k, batch)
           \/ /\ UNCHANGED <<farm, linked>>
              /\ \/ UNCHANGED <<written, mounted>>
                 \/ phase # "running" /\ phase' # "running"
              /\ phase = "running" <=> phase' = "running"
BY DEF Next, AddEnds, vars, TypeOK, Stages, shareVars, addVars, Select, Deselect, Lands, Boot,
       BootFails, Begin, Walked, AlreadyThere, AddFails

\* What the reader selected wins a collision with a dependency.
THEOREM SelectionAlwaysWins == Spec => []SelectionWins
<1>1. Init => SelectionWins
    BY NoMembers DEF Init, SelectionWins, Offered
<1>2. ASSUME TypeOK, Stages, SelectionWins, [Next]_vars PROVE SelectionWins'
    <2> USE <1>2 DEF TypeOK
    <2>1. ASSUME NEW order \in Orders(written), Run(order) PROVE SelectionWins'
        <3>1. order \in Seq(Paths) /\ roots["boot"] \in Seq(Paths)
            BY OrdersSpec DEF Callers
        <3>2. \A n \in Names : farm[n] = NoPath
            BY <2>1 DEF Stages, Run
        <3>3. ASSUME NEW n \in Names, Offered(Members(roots["boot"]), n)
              PROVE  LinkAll(farm, order, roots["boot"], "keep")[n] \in Members(roots["boot"])
            BY <3>1, <3>2, <3>3, LinkAllSpec
        <3> QED BY <2>1, <3>3 DEF Run, SelectionWins, Offered
    <2>2. ASSUME NEW k \in Adds, NEW batch \in Orders(fresh[k]), Add(k, batch)
          PROVE  SelectionWins'
        <3>1. batch \in Seq(Paths) /\ roots[k] \in Seq(Paths)
            BY OrdersSpec DEF Callers
        <3>2. ASSUME NEW n \in Names, Offered(Members(roots[k]), n)
              PROVE  LinkAll(farm, batch, roots[k], "replace")[n] \in Members(roots[k])
            BY <3>1, <3>2, LinkAllSpec
        <3> QED BY <2>2, <3>2 DEF Add, SelectionWins, Offered
    <2>3. CASE UNCHANGED <<farm, linked>>
        BY <2>3 DEF SelectionWins, Offered, Members
    <2> QED BY <2>1, <2>2, <2>3, OnlyBatchesLink
<1> QED BY <1>1, <1>2, TypeCorrect, StagesHold, PTL DEF Spec

\* Every link leads to a path in the share that has the program.
THEOREM LinksAlwaysResolve == Spec => []LinksResolve
<1>1. Init => LinksResolve
    BY DEF Init, LinksResolve
<1>2. ASSUME TypeOK, Stages, LinksResolve, [Next]_vars PROVE LinksResolve'
    <2> USE <1>2 DEF TypeOK
    <2>1. ASSUME NEW order \in Orders(written), Run(order) PROVE LinksResolve'
        <3>1. /\ order \in Seq(Paths) /\ Members(order) = written
              /\ roots["boot"] \in Seq(Paths) /\ Members(roots["boot"]) \subseteq written
            BY <2>1, OrdersSpec DEF Callers, Stages, Run
        <3>2. \A n \in Names : farm[n] = NoPath
            BY <2>1 DEF Stages, Run
        <3>3. ASSUME NEW n \in Names, LinkAll(farm, order, roots["boot"], "keep")[n] # NoPath
              PROVE  LET p == LinkAll(farm, order, roots["boot"], "keep")[n] IN
                     p \in written /\ n \in Programs[p]
            <4> DEFINE p == LinkAll(farm, order, roots["boot"], "keep")[n]
            <4>1. p # farm[n] => n \in Programs[p] /\ p \in Members(order) \cup Members(roots["boot"])
                BY <3>1, LinkAllSpec
            <4> QED BY <3>1, <3>2, <3>3, <4>1
        <3> QED BY <2>1, <3>3 DEF Run, LinksResolve
    <2>2. ASSUME NEW k \in Adds, NEW batch \in Orders(fresh[k]), Add(k, batch)
          PROVE  LinksResolve'
        <3>1. /\ batch \in Seq(Paths) /\ Members(batch) = fresh[k]
              /\ roots[k] \in Seq(Paths) /\ Members(roots[k]) \subseteq mounted \cup fresh[k]
            BY <2>2, OrdersSpec DEF Callers, Stages, Add
        <3>2. mounted = written
            BY <2>2 DEF Stages, Add
        <3>3. ASSUME NEW n \in Names, LinkAll(farm, batch, roots[k], "replace")[n] # NoPath
              PROVE  LET p == LinkAll(farm, batch, roots[k], "replace")[n] IN
                     p \in written \cup fresh[k] /\ n \in Programs[p]
            <4> DEFINE p == LinkAll(farm, batch, roots[k], "replace")[n]
            <4>1. p # farm[n] => n \in Programs[p] /\ p \in Members(batch) \cup Members(roots[k])
                BY <3>1, LinkAllSpec
            <4> QED BY <3>1, <3>2, <3>3, <4>1 DEF LinksResolve
        <3> QED BY <2>2, <3>3 DEF Add, LinksResolve
    <2>3. CASE UNCHANGED <<farm, linked>> /\ UNCHANGED <<written, mounted>>
        BY <2>3 DEF LinksResolve
    <2>4. CASE UNCHANGED <<farm, linked>> /\ phase # "running"
        BY <2>4 DEF LinksResolve, Stages
    <2> QED BY <2>1, <2>2, <2>3, <2>4, OnlyBatchesLink
<1> QED BY <1>1, <1>2, TypeCorrect, StagesHold, PTL DEF Spec

\* Once the guest runs, every program of every mounted path is on PATH.
THEOREM AlwaysAllOnPath == Spec => []AllOnPath
<1>1. Init => AllOnPath
    BY DEF Init, AllOnPath
<1>2. ASSUME TypeOK, Stages, Stages', AllOnPath, [Next]_vars PROVE AllOnPath'
    <2> USE <1>2 DEF TypeOK
    <2>1. ASSUME NEW order \in Orders(written), Run(order) PROVE AllOnPath'
        <3>1. /\ order \in Seq(Paths) /\ Members(order) = written
              /\ roots["boot"] \in Seq(Paths)
            BY OrdersSpec DEF Callers
        <3>2. ASSUME NEW n \in Names, Offered(written, n)
              PROVE  LinkAll(farm, order, roots["boot"], "keep")[n] # NoPath
            BY <3>1, <3>2, LinkAllSpec
        <3>3. ClosureOf(roots["boot"]) = written
            BY <2>1 DEF Stages, Run
        <3> QED BY <2>1, <3>2, <3>3 DEF Run, AllOnPath, Offered
    <2>2. ASSUME NEW k \in Adds, NEW batch \in Orders(fresh[k]), Add(k, batch)
          PROVE  AllOnPath'
        <3>1. /\ batch \in Seq(Paths) /\ Members(batch) = fresh[k]
              /\ roots[k] \in Seq(Paths) /\ phase = "running" /\ mounted = written
            BY <2>2, OrdersSpec DEF Callers, Stages, Add
        <3>2. ASSUME NEW n \in Names, Offered(mounted \cup fresh[k], n)
              PROVE  LinkAll(farm, batch, roots[k], "replace")[n] # NoPath
            <4>1. farm[n] # NoPath \/ Offered(Members(batch), n)
                BY <3>1, <3>2 DEF AllOnPath, Offered
            <4> QED BY <3>1, <4>1, LinkAllSpec
        <3> QED BY <2>2, <3>1, <3>2 DEF Add, AllOnPath, Offered
    <2>3. CASE /\ UNCHANGED <<farm, linked>> /\ UNCHANGED <<written, mounted>>
               /\ phase = "running" <=> phase' = "running"
        BY <2>3 DEF AllOnPath, Offered
    <2>4. CASE phase' # "running"
        BY <2>4 DEF AllOnPath
    <2> QED BY <2>1, <2>2, <2>3, <2>4, OnlyBatchesLink
<1> QED BY <1>1, <1>2, TypeCorrect, StagesHold, PTL DEF Spec

\* The farm misses nothing and promises nothing it has not.
THEOREM FarmAlwaysWhole == Spec => []FarmIsWhole
<1>1. AllOnPath /\ LinksResolve => FarmIsWhole
    BY DEF FarmIsWhole
<1> QED BY <1>1, AlwaysAllOnPath, LinksAlwaysResolve, PTL

\* A link that exists only ever changes to a path the reader selected.
THEOREM DependenciesNeverShadow == Spec => DependencyNeverShadows
<1>1. ASSUME TypeOK, Stages, [Next]_vars, NEW n \in Names, farm[n] # NoPath, farm'[n] # farm[n]
      PROVE  \E k \in Adds : stage[k] = "fetching" /\ farm'[n] \in Members(roots[k])
    <2> USE <1>1 DEF TypeOK
    <2>1. ASSUME NEW order \in Orders(written), Run(order) PROVE FALSE
        BY <2>1 DEF Run, Stages
    <2>2. ASSUME NEW k \in Adds, NEW batch \in Orders(fresh[k]), Add(k, batch)
          PROVE  stage[k] = "fetching" /\ farm'[n] \in Members(roots[k])
        <3>1. batch \in Seq(Paths) /\ roots[k] \in Seq(Paths)
            BY OrdersSpec DEF Callers
        <3>2. farm' = LinkAll(farm, batch, roots[k], "replace") /\ stage[k] = "fetching"
            BY <2>2 DEF Add
        <3> QED BY <1>1, <3>1, <3>2, LinkAllSpec
    <2> QED BY <1>1, <2>1, <2>2, OnlyBatchesLink
<1>2. TypeOK /\ Stages /\ [Next]_vars =>
        [\A n \in Names : farm[n] # NoPath /\ farm'[n] # farm[n] =>
            \E k \in Adds : stage[k] = "fetching" /\ farm'[n] \in Members(roots[k])]_farm
    BY <1>1
<1> QED BY <1>2, TypeCorrect, StagesHold, PTL DEF Spec, DependencyNeverShadows

-----------------------------------------------------------------------------
(* A guest that caches names adds nothing the share has to fear: its steps *)
(* are stutters of StoreShare, and what it holds on to always runs.        *)

\* Every behaviour with the guest's cache is one of the share.
LEMMA NamesImplementShare == NamesSpec => Spec
<1>1. NamesInit => Init
    BY DEF NamesInit
<1>2. [NamesNext]_nameVars => [Next]_vars
    BY DEF NamesNext, nameVars, Resolve
<1> QED BY <1>1, <1>2, PTL DEF NamesSpec, Spec

\* Before the guest runs nothing is cached.
CacheStages ==
    /\ cached \in [Names -> Paths \cup {NoPath}]
    /\ phase # "running" => \A n \in Names : cached[n] = NoPath

\* The share only grows while the guest runs, and the guest never stops.
LEMMA RunningOnlyGrows ==
    ASSUME TypeOK, Stages, [Next]_vars, phase = "running"
    PROVE  phase' = "running" /\ written \subseteq written'
BY DEF Next, AddEnds, vars, TypeOK, Stages, shareVars, addVars, Select, Deselect, Lands, Boot,
       BootFails, Run, Begin, Walked, AlreadyThere, AddFails, Add

LEMMA CacheStagesHold == NamesSpec => []CacheStages
<1>1. NamesInit => CacheStages
    BY DEF NamesInit, CacheStages
<1>2. ASSUME TypeOK, Stages, CacheStages, [NamesNext]_nameVars PROVE CacheStages'
    <2> USE <1>2 DEF CacheStages, TypeOK
    <2>1. CASE Next /\ UNCHANGED cached
        <3>1. phase' # "running" => phase # "running"
            BY <2>1, RunningOnlyGrows
        <3> QED BY <2>1, <3>1
    <2>2. ASSUME NEW n \in Names, Resolve(n) PROVE CacheStages'
        BY <2>2 DEF Resolve, OrElse, vars
    <2>3. CASE UNCHANGED nameVars
        BY <2>3 DEF nameVars, vars
    <2> QED BY <1>2, <2>1, <2>2, <2>3 DEF NamesNext
<1> QED BY <1>1, <1>2, NamesImplementShare, TypeCorrect, StagesHold, PTL DEF NamesSpec

\* Whatever the guest holds on to, stale or not, is in the share and has the
\* program (linkPrograms replaces links, and nothing removes a path).
THEOREM CachedAlwaysRuns == NamesSpec => []CachedStillRuns
<1>1. NamesInit => CachedStillRuns
    BY DEF NamesInit, CachedStillRuns
<1>2. ASSUME TypeOK, Stages, LinksResolve, CacheStages, CachedStillRuns, [NamesNext]_nameVars
      PROVE  CachedStillRuns'
    <2> USE <1>2 DEF CacheStages, TypeOK
    <2>1. CASE Next /\ UNCHANGED cached
        <3>1. CASE phase = "running"
            BY <2>1, <3>1, RunningOnlyGrows DEF CachedStillRuns
        <3>2. CASE phase # "running"
            BY <2>1, <3>2 DEF CachedStillRuns
        <3> QED BY <3>1, <3>2
    <2>2. ASSUME NEW n \in Names, Resolve(n) PROVE CachedStillRuns'
        BY <2>2 DEF Resolve, OrElse, vars, CachedStillRuns, LinksResolve
    <2>3. CASE UNCHANGED nameVars
        BY <2>3 DEF nameVars, vars, CachedStillRuns
    <2> QED BY <1>2, <2>1, <2>2, <2>3 DEF NamesNext
<1> QED BY <1>1, <1>2, NamesImplementShare, TypeCorrect, StagesHold, LinksAlwaysResolve,
           CacheStagesHold, PTL DEF NamesSpec
=============================================================================
