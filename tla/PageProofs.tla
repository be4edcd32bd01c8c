----------------------------- MODULE PageProofs -----------------------------
(***************************************************************************)
(* For every set of packages, boots and adds: an add has a running engine, *)
(* the page's map of the guest is what the guest has, and a reload brings  *)
(* back what was on the screen.                                            *)
(***************************************************************************)
EXTENDS Page, SequenceTheorems, FiniteSetTheorems, TLAPS

\* A non-empty set of naturals has a least member (as in StoreShareProofs).
LEMMA Least ==
    ASSUME NEW I \in SUBSET Nat, I # {}
    PROVE  \E i \in I : \A j \in I : i <= j
<1> DEFINE T == {0..i : i \in I}
<1>1. \A i \in I : 0..i \in FiniteSubsetsOf(Nat)
    BY FS_Interval DEF FiniteSubsetsOf
<1>2. T \subseteq FiniteSubsetsOf(Nat) /\ T # {}
    BY <1>1
<1>3. \E A \in T : \A B \in T : <<B, A>> \notin StrictSubsetOrdering(Nat)
    <2> HIDE DEF T
    <2> QED BY <1>2, FS_StrictSubsetOrderingWellFounded, WFMin
<1>4. PICK i \in I : \A B \in T : <<B, 0..i>> \notin StrictSubsetOrdering(Nat)
    BY <1>3
<1>5. ASSUME NEW j \in I, j < i PROVE FALSE
    <2>1. 0..j \subseteq 0..i /\ 0..j # 0..i
        BY <1>5
    <2> QED BY <1>1, <1>4, <2>1 DEF StrictSubsetOrdering, FiniteSubsetsOf
<1> QED BY <1>5

-----------------------------------------------------------------------------
(* What a filter of a list keeps.                                          *)

LEMMA BeforeCounts ==
    ASSUME NEW s, Len(s) \in Nat, NEW S
    PROVE  /\ Before(s, S, 0) = 0
           /\ \A i \in 0..Len(s) : Before(s, S, i) \in Nat
           /\ \A i \in 1..Len(s) :
                Before(s, S, i) = Before(s, S, i - 1) + (IF s[i] \in S THEN 1 ELSE 0)
<1> DEFINE Kept(i) == {j \in 1..i : s[j] \in S}
<1>1. \A i \in 0..Len(s) : IsFiniteSet(Kept(i)) /\ Cardinality(Kept(i)) \in Nat
    <2>1. ASSUME NEW i \in 0..Len(s)
          PROVE  IsFiniteSet(Kept(i)) /\ Cardinality(Kept(i)) \in Nat
        <3>1. IsFiniteSet(1..i) /\ Kept(i) \in SUBSET (1..i)
            BY FS_Interval
        <3> HIDE DEF Kept
        <3> QED BY <3>1, FS_Subset, FS_CardinalityType
    <2> QED BY <2>1
<1>2. Kept(0) = {}
    OBVIOUS
<1>3. ASSUME NEW i \in 1..Len(s)
      PROVE  Cardinality(Kept(i)) = Cardinality(Kept(i - 1)) + (IF s[i] \in S THEN 1 ELSE 0)
    <2>1. i - 1 \in 0..Len(s) /\ i \notin Kept(i - 1)
        OBVIOUS
    <2>2. CASE s[i] \in S
        <3>1. Kept(i) = Kept(i - 1) \cup {i}
            BY <2>2
        <3> HIDE DEF Kept
        <3> QED BY <1>1, <2>1, <2>2, <3>1, FS_AddElement
    <2>3. CASE s[i] \notin S
        <3>1. Kept(i) = Kept(i - 1)
            BY <2>3
        <3> HIDE DEF Kept
        <3> QED BY <1>1, <2>1, <2>3, <3>1
    <2> QED BY <2>2, <2>3
<1>4. \A i : Before(s, S, i) = Cardinality(Kept(i))
    BY DEF Before
<1> HIDE DEF Kept
<1> QED BY <1>1, <1>2, <1>3, <1>4, FS_EmptySet

\* The k-th of what is kept stands somewhere in the list.
LEMMA KeptStands ==
    ASSUME NEW s, Len(s) \in Nat, NEW S, NEW k \in 1..Before(s, S, Len(s))
    PROVE  \E i \in 1..Len(s) : s[i] \in S /\ Before(s, S, i) = k
<1> DEFINE I == {i \in 0..Len(s) : Before(s, S, i) >= k}
<1>1. Len(s) \in I /\ I \in SUBSET Nat
    BY BeforeCounts
<1>2. PICK i \in I : \A j \in I : i <= j
    <2> HIDE DEF I
    <2> QED BY <1>1, Least
<1>3. i \in 1..Len(s) /\ i - 1 \in 0..Len(s) /\ i - 1 \notin I
    BY <1>2, BeforeCounts
<1> QED BY <1>2, <1>3, BeforeCounts

\* A filter of a list without repetitions is one, of members of the list
\* that are in the set.
LEMMA KeepFilters ==
    ASSUME NEW P, NEW s \in Seq(P), NEW S
    PROVE  /\ Keep(s, S) \in Seq(P)
           /\ \A k \in 1..Len(Keep(s, S)) : Keep(s, S)[k] \in S
           /\ IsInjective(s) => IsInjective(Keep(s, S))
<1> DEFINE n == Before(s, S, Len(s))
           At(k) == CHOOSE i \in 1..Len(s) : s[i] \in S /\ Before(s, S, i) = k
<1>0. Len(s) \in Nat /\ DOMAIN s = 1..Len(s)
    OBVIOUS
<1>1. Len(s) \in Nat /\ n \in Nat /\ DOMAIN s = 1..Len(s)
    <2>1. Len(s) \in 0..Len(s)
        BY <1>0
    <2> QED BY <1>0, <2>1, BeforeCounts
<1>2. Keep(s, S) = [k \in 1..n |-> s[At(k)]]
    BY DEF Keep
<1>3. \A k \in 1..n : At(k) \in 1..Len(s) /\ s[At(k)] \in S /\ Before(s, S, At(k)) = k
    <2>1. ASSUME NEW k \in 1..n
          PROVE  At(k) \in 1..Len(s) /\ s[At(k)] \in S /\ Before(s, S, At(k)) = k
        <3>1. \E i \in 1..Len(s) : s[i] \in S /\ Before(s, S, i) = k
            BY <1>1, KeptStands
        <3> QED BY <3>1
    <2> QED BY <2>1
<1> HIDE DEF n, At
<1>4. \A k \in 1..n : s[At(k)] \in P
    BY <1>3, ElementOfSeq
<1>5. Keep(s, S) \in Seq(P) /\ Len(Keep(s, S)) = n /\ DOMAIN Keep(s, S) = 1..n
    BY <1>1, <1>2, <1>4
<1>6. ASSUME IsInjective(s) PROVE IsInjective(Keep(s, S))
    <2>1. ASSUME NEW k \in 1..n, NEW m \in 1..n, s[At(k)] = s[At(m)] PROVE k = m
        BY <1>1, <1>3, <1>6, <2>1 DEF IsInjective
    <2> QED BY <1>2, <1>5, <2>1 DEF IsInjective
<1> QED BY <1>2, <1>3, <1>5, <1>6

LEMMA EmptyFilter == \A S : Keep(<<>>, S) = <<>>
<1> SUFFICES ASSUME NEW S PROVE Keep(<<>>, S) = <<>>
    OBVIOUS
<1>1. Len(<<>>) = 0 /\ Before(<<>>, S, Len(<<>>)) = 0
    BY BeforeCounts
<1> QED BY <1>1 DEF Keep

\* Two lists without repetitions, of different things, make one.
LEMMA InjectiveConcat ==
    ASSUME NEW P, NEW s \in Seq(P), NEW t \in Seq(P), IsInjective(s), IsInjective(t),
           \A i \in 1..Len(s), j \in 1..Len(t) : s[i] # t[j]
    PROVE  IsInjective(s \o t)
<1>1. /\ Len(s) \in Nat /\ Len(t) \in Nat
      /\ DOMAIN s = 1..Len(s) /\ DOMAIN t = 1..Len(t)
      /\ DOMAIN (s \o t) = 1..(Len(s) + Len(t))
      /\ \A i \in 1..Len(s) : (s \o t)[i] = s[i]
      /\ \A i \in (Len(s) + 1)..(Len(s) + Len(t)) :
            i - Len(s) \in 1..Len(t) /\ (s \o t)[i] = t[i - Len(s)]
    OBVIOUS
<1>2. ASSUME NEW i \in DOMAIN (s \o t), NEW j \in DOMAIN (s \o t), (s \o t)[i] = (s \o t)[j]
      PROVE  i = j
    <2>1. CASE i <= Len(s) /\ j <= Len(s)
        BY <1>1, <1>2, <2>1 DEF IsInjective
    <2>2. CASE i > Len(s) /\ j > Len(s)
        <3>1. i - Len(s) = j - Len(s)
            BY <1>1, <1>2, <2>2 DEF IsInjective
        <3> QED BY <1>1, <3>1
    <2>3. CASE i <= Len(s) /\ j > Len(s)
        BY <1>1, <1>2, <2>3
    <2>4. CASE i > Len(s) /\ j <= Len(s)
        BY <1>1, <1>2, <2>4
    <2> QED BY <1>1, <2>1, <2>2, <2>3, <2>4
<1> QED BY <1>2 DEF IsInjective

-----------------------------------------------------------------------------
(* Types.                                                                  *)

LEMMA RenderTypes ==
    ASSUME NEW s \in Lists, Render(s)
    PROVE  /\ selection' \in Lists
           /\ link' \in [pkgs : Lists, paths : Lists]
           /\ button' \in BOOLEAN
BY KeepFilters DEF Render, LinkOf, Lists

LEMMA TakenTypes ==
    ASSUME NEW s \in Lists, NEW p \in Packages
    PROVE  (IF p \in Members(s) THEN s ELSE Append(s, p)) \in Lists
BY DEF Lists

LEMMA MembersType == ASSUME NEW s \in Lists PROVE Members(s) \in SUBSET Packages
BY ElementOfSeq DEF Members, Lists

LEMMA TypeInductive == TypeOK /\ [Next]_vars => TypeOK'
<1> SUFFICES ASSUME TypeOK, [Next]_vars PROVE TypeOK'
    OBVIOUS
<1>0. <<>> \in Lists
    BY EmptySeq DEF Lists
<1>1. ASSUME NEW p \in Packages, Select(p) PROVE TypeOK'
    <2>1. selection' \in Lists /\ link' \in [pkgs : Lists, paths : Lists] /\ button' \in BOOLEAN
        BY <1>1, RenderTypes, TakenTypes DEF Select, TypeOK
    <2> QED BY <1>0, <1>1, <2>1 DEF Select, Altered, TypeOK, guestVars, bootVars, addVars
<1>2. ASSUME NEW p \in Packages, Deselect(p) PROVE TypeOK'
    <2>1. Keep(selection, Packages \ {p}) \in Lists
        BY KeepFilters DEF TypeOK, Lists
    <2>2. selection' \in Lists /\ link' \in [pkgs : Lists, paths : Lists] /\ button' \in BOOLEAN
        BY <1>2, <2>1, RenderTypes DEF Deselect
    <2> QED BY <1>0, <1>2, <2>2 DEF Deselect, Altered, TypeOK, guestVars, bootVars, addVars
<1>3. ASSUME NEW b \in BOOLEAN, Load(b) PROVE TypeOK'
    <2>1. selection' \in Lists /\ link' \in [pkgs : Lists, paths : Lists] /\ button' \in BOOLEAN
        BY <1>3, RenderTypes DEF Load, TypeOK
    <2>2. loads' \in 1..MaxLoads
        BY <1>3, PageAssumption DEF Load, TypeOK
    <2> QED BY <1>3, <2>1, <2>2 DEF Load, Forget, TypeOK
<1>4. CASE Restore
    <2>1. Head(restoring) \in Packages /\ restoring' \in Lists
        BY <1>4, HeadTailProperties DEF Restore, TypeOK, Lists
    <2>2. selection' \in Lists /\ link' \in [pkgs : Lists, paths : Lists]
          /\ button' \in BOOLEAN /\ faithful' \in BOOLEAN /\ screen' \in Lists
        BY <1>0, <1>4, <2>1, RenderTypes, TakenTypes DEF Restore, Altered, TypeOK
    <2> QED BY <1>4, <2>1, <2>2 DEF Restore, TypeOK, guestVars, bootVars, addVars
<1>5. CASE RestoreThrows
    BY <1>0, <1>5 DEF RestoreThrows, Altered, TypeOK, guestVars, bootVars, addVars
<1>6. ASSUME NEW b \in Boots, BeginBoot(b), UNCHANGED restoring, autoboot' \in BOOLEAN
      PROVE  TypeOK'
    <2>1. Members(selection) \in SUBSET Packages
        BY MembersType DEF TypeOK
    <2> QED BY <1>6, <2>1 DEF BeginBoot, TypeOK, addVars
<1>7. ASSUME NEW b \in Boots, ClickBoot(b) \/ AutoBoot(b) PROVE TypeOK'
    BY <1>6, <1>7 DEF ClickBoot, AutoBoot, TypeOK
<1>8. ASSUME NEW b \in Boots, Walked(b) \/ EngineUp(b) \/ EngineHangs(b) PROVE TypeOK'
    BY <1>8 DEF Walked, EngineUp, EngineHangs, TypeOK, loadVars, addVars
<1>9. ASSUME NEW b \in Boots, GuestRuns(b) PROVE TypeOK'
    <2>1. wanted[b] \in SUBSET Packages /\ wanted' \in [Boots \cup Adds -> SUBSET Packages]
        BY <1>9 DEF GuestRuns, TypeOK
    <2>2. share' \in [Boots -> SUBSET Packages]
        BY <1>9, <2>1 DEF GuestRuns, TypeOK
    <2> QED BY <1>9, <2>1, <2>2 DEF GuestRuns, TypeOK, loadVars, addVars
<1>10. ASSUME NEW b \in Boots, BootFails(b) PROVE TypeOK'
    BY <1>10 DEF BootFails, TypeOK, loadVars, addVars
<1>11. ASSUME NEW k \in Adds, ClickAdd(k) PROVE TypeOK'
    <2>1. Members(selection) \in SUBSET Packages
        BY MembersType DEF TypeOK
    <2> QED BY <1>11, <2>1 DEF ClickAdd, TypeOK, loadVars, bootVars
<1>12. ASSUME NEW k \in Adds, AddWalked(k) PROVE TypeOK'
    BY <1>12 DEF AddWalked, TypeOK, loadVars, bootVars
<1>13. ASSUME NEW k \in Adds, AlreadyThere(k) \/ AddFails(k) PROVE TypeOK'
    BY <1>13 DEF AlreadyThere, AddFails, AddOver, TypeOK, loadVars
<1>14. ASSUME NEW k \in Adds, AddEnds(k) PROVE TypeOK'
    <2>1. fresh[k] \in SUBSET Packages
        BY DEF TypeOK
    <2>2. PICK written \in SUBSET fresh[k] :
            /\ share' = [share EXCEPT ![vm] = @ \cup written]
            /\ torn' = torn \cup (fresh[k] \ written)
        BY <1>14 DEF AddEnds
    <2>3. share' \in [Boots -> SUBSET Packages]
        BY <2>1, <2>2 DEF TypeOK
    <2>4. torn' \in SUBSET Packages
        BY <2>1, <2>2 DEF TypeOK
    <2>5. mounted' \in SUBSET Packages
        BY <1>14, <2>1 DEF AddEnds, TypeOK
    <2> QED BY <1>14, <2>3, <2>4, <2>5 DEF AddEnds, AddOver, TypeOK, loadVars
<1>15. CASE UNCHANGED vars
    BY <1>15 DEF vars, TypeOK
<1> QED
    BY <1>1, <1>2, <1>3, <1>4, <1>5, <1>7, <1>8, <1>9, <1>10, <1>11, <1>12, <1>13, <1>14, <1>15
    DEF Next, Reload, Reboot, RestoreStep, BootStep, AddStep

\* Every variable keeps its type: no add lingers once it has ended.
THEOREM TypeCorrect == Spec => []TypeOK
<1>1. Init => TypeOK
    <2> SUFFICES ASSUME Init PROVE TypeOK
        OBVIOUS
    <2>1. <<>> \in Lists /\ LinkOf(<<>>) \in [pkgs : Lists, paths : Lists]
        BY EmptySeq, EmptyFilter DEF Lists, LinkOf
    <2>2. 1 \in 1..MaxLoads
        BY PageAssumption
    <2> QED BY <2>1, <2>2 DEF Init, TypeOK
<1> QED BY <1>1, TypeInductive, PTL DEF Spec

-----------------------------------------------------------------------------
(* Engines, shares and adds.                                               *)

\* Which boots have an engine, whose the page talks to, and what must wait
\* for the first guest.
EngineInv ==
    /\ IsFiniteSet(engines)
    /\ engines # {} => vm \in engines
    /\ vmStarted => \E b \in engines : booting[b] = "over"
    /\ ~vmStarted =>
        /\ mounted = {} /\ torn = {}
        /\ \A b \in Boots : share[b] = {}
        /\ \A k \in Adds : adding[k] = "idle"
    /\ \A b \in Boots :
        /\ booting[b] \in {"idle", "walking", "starting", "stuck"} => b \notin engines
        /\ booting[b] = "filling" => b \in engines

LEMMA OneEngine ==
    ASSUME EngineInv, Cardinality(engines) = 1
    PROVE  engines = {vm}
BY FS_Singleton, FS_EmptySet DEF EngineInv

RunInv == EngineInv /\ MountedIsShare

LEMMA RunInductive == TypeOK /\ RunInv /\ [Next]_vars => RunInv'
<1> SUFFICES ASSUME TypeOK, RunInv, [Next]_vars PROVE RunInv'
    OBVIOUS
<1>1. ASSUME UNCHANGED <<booting, share, engines, vm, vmStarted, mounted, torn>>,
             \/ UNCHANGED adding
             \/ vmStarted
      PROVE  RunInv'
    BY <1>1 DEF RunInv, EngineInv, MountedIsShare
<1>2. ASSUME NEW p \in Packages, Select(p) \/ Deselect(p) PROVE RunInv'
    BY <1>1, <1>2 DEF Select, Deselect, guestVars, bootVars, addVars
<1>3. ASSUME NEW b \in BOOLEAN, Load(b) PROVE RunInv'
    <2>1. engines' = {} /\ mounted' = {} /\ torn' = {} /\ vmStarted' = FALSE
          /\ (\A c \in Boots : share'[c] = {} /\ booting'[c] = "idle")
          /\ (\A k \in Adds : adding'[k] = "idle")
        BY <1>3 DEF Load, Forget
    <2> QED BY <2>1, FS_EmptySet DEF RunInv, EngineInv, MountedIsShare
<1>4. CASE Restore \/ RestoreThrows
    BY <1>1, <1>4 DEF Restore, RestoreThrows, guestVars, bootVars, addVars
<1>5. ASSUME NEW b \in Boots, ClickBoot(b) \/ AutoBoot(b) PROVE RunInv'
    <2>1. BeginBoot(b)
        BY <1>5 DEF ClickBoot, AutoBoot
    <2> QED BY <2>1 DEF BeginBoot, TypeOK, RunInv, EngineInv, MountedIsShare, addVars
<1>6. ASSUME NEW b \in Boots, Walked(b) \/ EngineHangs(b) PROVE RunInv'
    BY <1>6 DEF Walked, EngineHangs, TypeOK, RunInv, EngineInv, MountedIsShare, addVars
<1>7. ASSUME NEW b \in Boots, EngineUp(b) PROVE RunInv'
    <2>1. /\ booting' = [booting EXCEPT ![b] = "filling"] /\ booting[b] = "starting"
          /\ engines' = engines \cup {b} /\ vm' = b
          /\ UNCHANGED <<share, vmStarted, mounted, torn, adding>>
        BY <1>7 DEF EngineUp, addVars
    <2>2. b \notin engines
        BY <2>1 DEF RunInv, EngineInv
    <2>3. EngineInv'
        BY <2>1, FS_AddElement DEF TypeOK, RunInv, EngineInv
    <2>4. vmStarted' => Cardinality(engines') # 1
        <3>1. vmStarted => \E c \in engines : c # b
            BY <2>2 DEF RunInv, EngineInv
        <3>2. Cardinality(engines') = 1 => engines' = {b}
            BY <2>1, <2>3, FS_Singleton DEF EngineInv
        <3> QED BY <2>1, <3>1, <3>2
    <2> QED BY <2>3, <2>4 DEF RunInv, MountedIsShare
<1>8. ASSUME NEW b \in Boots, GuestRuns(b) PROVE RunInv'
    <2>1. /\ booting' = [booting EXCEPT ![b] = "over"] /\ booting[b] = "filling"
          /\ share' = [share EXCEPT ![b] = @ \cup wanted[b]]
          /\ vmStarted' = TRUE /\ mounted' = wanted[b]
          /\ UNCHANGED <<engines, vm, torn, adding>>
        BY <1>8 DEF GuestRuns, addVars
    <2>2. b \in engines
        BY <2>1 DEF RunInv, EngineInv
    <2>3. EngineInv'
        BY <2>1, <2>2 DEF TypeOK, RunInv, EngineInv
    <2>4. ASSUME Cardinality(engines) = 1 PROVE mounted' = share'[vm'] \cup torn'
        <3>1. vm = b /\ engines = {b}
            BY <2>2, <2>4, OneEngine DEF RunInv
        <3>2. share[b] = {} /\ torn = {}
            BY <2>1, <3>1 DEF RunInv, EngineInv
        <3> QED BY <2>1, <3>1, <3>2 DEF TypeOK
    <2> QED BY <2>1, <2>3, <2>4 DEF RunInv, MountedIsShare
<1>9. ASSUME NEW b \in Boots, BootFails(b) PROVE RunInv'
    BY <1>9 DEF BootFails, TypeOK, RunInv, EngineInv, MountedIsShare, addVars
<1>10. ASSUME NEW k \in Adds, ClickAdd(k) \/ AddWalked(k) PROVE RunInv'
    <2>1. vmStarted
        BY <1>10 DEF ClickAdd, AddWalked, RunInv, EngineInv
    <2> QED BY <1>1, <1>10, <2>1 DEF ClickAdd, AddWalked, bootVars
<1>11. ASSUME NEW k \in Adds, AlreadyThere(k) \/ AddFails(k) PROVE RunInv'
    <2>1. vmStarted
        BY <1>11 DEF AlreadyThere, AddFails, RunInv, EngineInv
    <2> QED BY <1>1, <1>11, <2>1 DEF AlreadyThere, AddFails, AddOver
<1>12. ASSUME NEW k \in Adds, AddEnds(k) PROVE RunInv'
    <2>1. vmStarted /\ vm \in engines /\ vm \in Boots
        BY <1>12 DEF AddEnds, RunInv, EngineInv, TypeOK
    <2>2. EngineInv'
        BY <1>12, <2>1 DEF AddEnds, AddOver, RunInv, EngineInv
    <2>3. PICK written \in SUBSET fresh[k] :
            /\ share' = [share EXCEPT ![vm] = @ \cup written]
            /\ torn' = torn \cup (fresh[k] \ written)
        BY <1>12 DEF AddEnds
    <2>4. ASSUME Cardinality(engines) = 1 PROVE mounted' = share'[vm] \cup torn'
        <3>1. mounted = share[vm] \cup torn /\ mounted' = mounted \cup fresh[k]
            BY <1>12, <2>1, <2>4 DEF AddEnds, RunInv, MountedIsShare
        <3> QED BY <2>1, <2>3, <3>1 DEF TypeOK
    <2> QED BY <1>12, <2>2, <2>4 DEF AddEnds, AddOver, RunInv, MountedIsShare
<1>13. CASE UNCHANGED vars
    BY <1>1, <1>13 DEF vars
<1> QED
    BY <1>2, <1>3, <1>4, <1>5, <1>6, <1>7, <1>8, <1>9, <1>10, <1>11, <1>12, <1>13
    DEF Next, Reload, Reboot, RestoreStep, BootStep, AddStep

LEMMA RunInvHolds == Spec => []RunInv
<1>1. Init => RunInv
    BY FS_EmptySet DEF Init, RunInv, EngineInv, MountedIsShare
<1> QED BY <1>1, TypeCorrect, RunInductive, PTL DEF Spec

\* An add has a running VM to add to, however boots, adds and reloads
\* interleave (vm.add in addToRunningVM).
THEOREM AddsAlwaysHaveVM == Spec => []AddsHaveVM
<1>1. RunInv => AddsHaveVM
    BY DEF RunInv, EngineInv, AddsHaveVM
<1> QED BY <1>1, RunInvHolds, PTL

\* As long as the page made one engine, its map of what the guest has is what
\* that engine's share holds: no add skips a path the guest lacks, but for
\* those a write that threw has left out (mounted in app.js).
THEOREM MountedAlwaysShare == Spec => []MountedIsShare
BY RunInvHolds, PTL DEF RunInv

-----------------------------------------------------------------------------
(* The selection, its link, and what a reload brings back.                 *)

\* The screen as a reload orders it: the raw paths, then the packages.
Restored(s) == Keep(s, Paths) \o Keep(s, Named)

\* What is selected and what is still to be looked up are, one after the
\* other, what the page showed when it was left; nothing is twice in a list.
OrderInv ==
    /\ IsInjective(selection) /\ IsInjective(screen)
    /\ link = LinkOf(selection)
    /\ faithful => selection \o restoring = Restored(screen)

Lining == <<selection, link, restoring, screen, faithful>>

LEMMA RestoredInjective ==
    ASSUME NEW s \in Lists, IsInjective(s)
    PROVE  IsInjective(Restored(s))
<1>1. /\ Keep(s, Paths) \in Lists /\ IsInjective(Keep(s, Paths))
      /\ Keep(s, Named) \in Lists /\ IsInjective(Keep(s, Named))
      /\ \A k \in 1..Len(Keep(s, Paths)) : Keep(s, Paths)[k] \in Paths
      /\ \A k \in 1..Len(Keep(s, Named)) : Keep(s, Named)[k] \in Named
    BY KeepFilters DEF Lists
<1>2. \A i \in 1..Len(Keep(s, Paths)), j \in 1..Len(Keep(s, Named)) :
        Keep(s, Paths)[i] # Keep(s, Named)[j]
    BY <1>1 DEF Paths
<1> QED BY <1>1, <1>2, InjectiveConcat DEF Restored, Lists

\* Moving the head of one list to the end of the other.
LEMMA MoveHead ==
    ASSUME NEW P, NEW s \in Seq(P), NEW t \in Seq(P), t # <<>>
    PROVE  Append(s, Head(t)) \o Tail(t) = s \o t
<1>1. /\ Append(s, Head(t)) \in Seq(P) /\ Tail(t) \in Seq(P)
      /\ Len(Append(s, Head(t))) = Len(s) + 1
      /\ Len(Tail(t)) = Len(t) - 1 /\ Len(t) \in Nat \ {0} /\ Len(s) \in Nat
      /\ \A i \in 1..Len(s) : Append(s, Head(t))[i] = s[i]
      /\ Append(s, Head(t))[Len(s) + 1] = t[1]
      /\ \A i \in 1..(Len(t) - 1) : Tail(t)[i] = t[i + 1]
    OBVIOUS
<1> DEFINE u == Append(s, Head(t)) \o Tail(t)
           v == s \o t
<1>2. u \in Seq(P) /\ v \in Seq(P) /\ Len(u) = Len(v) /\ Len(v) = Len(s) + Len(t)
    BY <1>1, ConcatProperties
<1>3. ASSUME NEW i \in 1..(Len(s) + Len(t)) PROVE u[i] = v[i]
    <2>1. /\ u[i] = IF i <= Len(s) + 1 THEN Append(s, Head(t))[i] ELSE Tail(t)[i - (Len(s) + 1)]
          /\ v[i] = IF i <= Len(s) THEN s[i] ELSE t[i - Len(s)]
        BY <1>1, ConcatProperties
    <2> HIDE DEF u, v
    <2>2. CASE i <= Len(s)
        BY <1>1, <2>1, <2>2
    <2>3. CASE i = Len(s) + 1
        BY <1>1, <2>1, <2>3
    <2>4. CASE i > Len(s) + 1
        <3>1. i - (Len(s) + 1) \in 1..(Len(t) - 1)
            BY <1>1, <2>4
        <3>2. Tail(t)[i - (Len(s) + 1)] = t[(i - (Len(s) + 1)) + 1]
            BY <1>1, <3>1
        <3> QED BY <1>1, <2>1, <2>4, <3>2
    <2> QED BY <1>1, <2>2, <2>3, <2>4
<1> HIDE DEF u, v
<1>4. u = v
    BY <1>2, <1>3, SeqEqual
<1> QED BY <1>4 DEF u, v

\* A member that the rest of a list without repetitions begins with is not
\* in what comes before.
LEMMA HeadIsNew ==
    ASSUME NEW s \in Lists, NEW t \in Lists, t # <<>>, IsInjective(s \o t)
    PROVE  Head(t) \notin Members(s)
<1>1. /\ Len(s) \in Nat /\ Len(t) \in Nat \ {0}
      /\ DOMAIN (s \o t) = 1..(Len(s) + Len(t))
      /\ \A i \in 1..Len(s) : (s \o t)[i] = s[i]
      /\ (s \o t)[Len(s) + 1] = Head(t)
    BY DEF Lists
<1>2. ASSUME NEW i \in 1..Len(s), s[i] = Head(t) PROVE FALSE
    BY <1>1, <1>2 DEF IsInjective
<1> QED BY <1>2 DEF Members

LEMMA TakenInjective ==
    ASSUME NEW s \in Lists, IsInjective(s), NEW p \in Packages
    PROVE  IsInjective(IF p \in Members(s) THEN s ELSE Append(s, p))
<1>1. CASE p \notin Members(s)
    <2>1. /\ Len(s) \in Nat /\ DOMAIN s = 1..Len(s)
          /\ DOMAIN Append(s, p) = 1..(Len(s) + 1)
          /\ \A i \in 1..Len(s) : Append(s, p)[i] = s[i]
          /\ Append(s, p)[Len(s) + 1] = p
        BY DEF Lists
    <2>2. \A i \in 1..Len(s) : s[i] # p
        BY <1>1 DEF Members
    <2>3. IsInjective(Append(s, p))
        <3> HIDE DEF Append
        <3> QED BY <2>1, <2>2 DEF IsInjective
    <2> QED BY <1>1, <2>3
<1> QED BY <1>1

LEMMA NoneTwice == IsInjective(<<>>)
BY DEF IsInjective

LEMMA OrderInductive == TypeOK /\ OrderInv /\ [Next]_vars => OrderInv'
<1> SUFFICES ASSUME TypeOK, OrderInv, [Next]_vars PROVE OrderInv'
    OBVIOUS
<1>0. selection \in Lists /\ screen \in Lists /\ restoring \in Lists
    BY DEF TypeOK
<1>1. CASE UNCHANGED Lining
    BY <1>1 DEF Lining, OrderInv, Restored, LinkOf
<1>2. ASSUME NEW p \in Packages, Select(p) PROVE OrderInv'
    BY <1>0, <1>2, TakenInjective, NoneTwice DEF Select, Altered, Render, OrderInv
<1>3. ASSUME NEW p \in Packages, Deselect(p) PROVE OrderInv'
    <2>1. IsInjective(Keep(selection, Packages \ {p}))
        BY <1>0, KeepFilters DEF OrderInv, Lists
    <2> QED BY <1>3, <2>1, NoneTwice DEF Deselect, Altered, Render, OrderInv
<1>4. ASSUME NEW b \in BOOLEAN, Load(b) PROVE OrderInv'
    <2>1. selection' = Keep(selection, Paths) /\ restoring' = Keep(selection, Named)
          /\ screen' = selection /\ link' = LinkOf(selection')
        BY <1>4 DEF Load, Render, OrderInv, LinkOf
    <2>2. IsInjective(selection')
        BY <1>0, <2>1, KeepFilters DEF OrderInv, Lists
    <2> QED BY <2>1, <2>2 DEF OrderInv, Restored
<1>5. CASE Restore
    <2> DEFINE p == Head(restoring)
    <2>1. restoring # <<>> /\ restoring' = Tail(restoring) /\ p \in Packages
        BY <1>0, <1>5, HeadTailProperties DEF Restore, Lists
    <2>2. CASE Altered /\ UNCHANGED <<selection, link, button>>
        BY <2>1, <2>2, NoneTwice DEF Altered, OrderInv, LinkOf
    <2>3. CASE /\ Render(IF p \in Members(selection) THEN selection ELSE Append(selection, p))
               /\ UNCHANGED <<faithful, screen>>
        <3>1. IsInjective(selection') /\ link' = LinkOf(selection')
            BY <1>0, <2>1, <2>3, TakenInjective DEF Render, OrderInv
        <3>2. ASSUME faithful PROVE selection' \o restoring' = Restored(screen)
            <4>1. selection \o restoring = Restored(screen) /\ IsInjective(selection \o restoring)
                BY <1>0, <3>2, RestoredInjective DEF OrderInv
            <4>2. p \notin Members(selection)
                BY <1>0, <2>1, <4>1, HeadIsNew
            <4>3. selection' = Append(selection, Head(restoring))
                BY <2>3, <4>2 DEF Render
            <4> QED BY <1>0, <2>1, <4>1, <4>3, MoveHead DEF Lists
        <3> QED BY <2>1, <2>3, <3>1, <3>2 DEF OrderInv, Restored
    <2> QED BY <1>5, <2>2, <2>3 DEF Restore
<1>6. CASE RestoreThrows
    BY <1>6, NoneTwice DEF RestoreThrows, Altered, OrderInv, LinkOf
<1>7. ASSUME NEW b \in Boots, ClickBoot(b) \/ AutoBoot(b) \/ BootStep(b) PROVE OrderInv'
    BY <1>1, <1>7
    DEF ClickBoot, AutoBoot, BeginBoot, BootStep, Walked, EngineUp, EngineHangs, GuestRuns,
        BootFails, Lining, loadVars
<1>8. ASSUME NEW k \in Adds, ClickAdd(k) \/ AddStep(k) PROVE OrderInv'
    BY <1>1, <1>8
    DEF ClickAdd, AddStep, AddWalked, AlreadyThere, AddFails, AddEnds, AddOver, Lining, loadVars
<1>9. CASE UNCHANGED vars
    BY <1>1, <1>9 DEF vars, Lining
<1> QED
    BY <1>2, <1>3, <1>4, <1>5, <1>6, <1>7, <1>8, <1>9
    DEF Next, Reload, Reboot, RestoreStep

\* A reload brings back what was on the screen, unless the reader changed
\* something meanwhile or the index did not answer: the raw paths as they
\* were selected, then the packages as they were (urlState, restore).
THEOREM ReloadAlwaysKeepsPackages == Spec => []ReloadKeepsPackages
<1>1. Init => OrderInv
    <2> SUFFICES ASSUME Init PROVE OrderInv
        OBVIOUS
    <2>1. <<>> \in Seq(Packages) /\ <<>> \o <<>> = <<>>
        BY EmptySeq, ConcatEmptySeq
    <2>2. Restored(<<>>) = <<>>
        BY <2>1, EmptyFilter DEF Restored
    <2> QED BY <2>1, <2>2, NoneTwice DEF Init, OrderInv
<1>2. TypeOK /\ OrderInv => ReloadKeepsPackages
    <2> SUFFICES ASSUME TypeOK, OrderInv, faithful, restoring = <<>>
                 PROVE  selection = Restored(screen)
        BY DEF ReloadKeepsPackages, Restored
    <2>1. selection \o <<>> = selection
        BY ConcatEmptySeq DEF TypeOK, Lists
    <2> QED BY <2>1 DEF OrderInv
<1> QED BY <1>1, <1>2, TypeCorrect, OrderInductive, PTL DEF Spec
=============================================================================
