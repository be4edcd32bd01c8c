---------------------------- MODULE SourceProofs ----------------------------
(***************************************************************************)
(* For every list of caches, every index of siblings and every archive:    *)
(* what is walked is what was selected with its programs, a verdict is     *)
(* right for the list it was taken against, and a path reported verified   *)
(* is what was vouched for.  And of the fetch below them, for every body,  *)
(* number of attempts and number of callers: the row counts exactly, and   *)
(* to each caller, one that verifies or one that does not, a fetch is a    *)
(* single step.                                                            *)
(***************************************************************************)
EXTENDS Source, Fetch, SequenceTheorems, FiniteSetTheorems, TLAPS

\* A non-empty set of naturals has a least member (as in StoreShareProofs).
LEMMA Least ==
    ASSUME NEW I \in SUBSET Nat, I # {}
    PROVE  Min(I) \in I /\ \A j \in I : Min(I) <= j
<1> DEFINE T == {0..i : i \in I}
<1>1. \A i \in I : 0..i \in FiniteSubsetsOf(Nat)
    BY FS_Interval DEF FiniteSubsetsOf
<1>2. T \subseteq FiniteSubsetsOf(Nat) /\ T # {}
    BY <1>1
<1>3. \E A \in T : \A B \in T : <<B, A>> \notin StrictSubsetOrdering(Nat)
    <2> HIDE DEF T
    <2> QED BY <1>2, FS_StrictSubsetOrderingWellFounded, WFMin
<1>4. PICK i \in I : \A B \in T : <<B, 0..i>> \notin StrictSubsetOrdering(Nat)
    BY <1>3
<1>5. ASSUME NEW j \in I, j < i PROVE FALSE
    <2>1. 0..j \subseteq 0..i /\ 0..j # 0..i
        BY <1>5
    <2> QED BY <1>1, <1>4, <2>1 DEF StrictSubsetOrdering, FiniteSubsetsOf
<1>6. \E k \in I : \A j \in I : k <= j
    BY <1>5
<1> QED BY <1>6 DEF Min

LEMMA EmptyDomain == DOMAIN <<>> = {} /\ Len(<<>>) = 0
OBVIOUS

-----------------------------------------------------------------------------
(* verify.                                                                 *)

\* What every narinfo has: a sequence of signatures.
IsNarinfo(narinfo) == narinfo.sigs \in Seq(ToSet(narinfo.sigs))
IsList(list) == list \in Seq(ToSet(list))

\* The first key of a name is one of the list, with that name.
LEMMA FirstKey ==
    ASSUME NEW list, IsList(list), NEW sig, KeysNamed(list, sig) # {}
    PROVE  Min(KeysNamed(list, sig)) \in KeysNamed(list, sig)
<1>1. DOMAIN list = 1..Len(list) /\ Len(list) \in Nat
    BY DEF IsList
<1>2. KeysNamed(list, sig) \in SUBSET Nat
    BY <1>1 DEF KeysNamed
<1> QED BY <1>2, Least

\* The first decisive signature is one of the narinfo's.
LEMMA FirstDecisive ==
    ASSUME NEW narinfo, IsNarinfo(narinfo), NEW list, Decisive(narinfo, list) # {}
    PROVE  /\ Min(Decisive(narinfo, list)) \in Decisive(narinfo, list)
           /\ Decisive(narinfo, list) \subseteq DOMAIN narinfo.sigs
<1>1. DOMAIN narinfo.sigs = 1..Len(narinfo.sigs) /\ Len(narinfo.sigs) \in Nat
    BY DEF IsNarinfo
<1>2. Decisive(narinfo, list) \in SUBSET Nat /\ Decisive(narinfo, list) \subseteq DOMAIN narinfo.sigs
    BY <1>1 DEF Decisive, Known
<1> QED BY <1>2, Least

LEMMA SaysOneOfThree ==
    \A sig, narinfo, list : Says(sig, narinfo, list) \in {"true", "false", "null"}
BY DEF Says

LEMMA VerifyOneOfThree ==
    \A narinfo, list : Verify(narinfo, list) \in {"true", "false", "null"}
BY SaysOneOfThree DEF Verify

\* Where a key of the list made a signature of the content.
Vouched(narinfo, list) ==
    \E sig \in ToSet(narinfo.sigs) : \E i \in KeysNamed(list, sig) : Signed(sig, list[i], narinfo)

\* verify says "true" only where a key of the list vouches, in a browser
\* that can examine a signature.
LEMMA TrueIsVouched ==
    ASSUME NEW narinfo, IsNarinfo(narinfo), NEW list, IsList(list),
           Verify(narinfo, list) = "true"
    PROVE  Vouched(narinfo, list) /\ browser = "ed25519" /\ narinfo.sigs # <<>>
<1> DEFINE k == Min(Decisive(narinfo, list))
           sig == narinfo.sigs[k]
<1>1. /\ narinfo.sigs # <<>> /\ Decisive(narinfo, list) # {}
      /\ Says(sig, narinfo, list) = "true"
    BY DEF Verify
<1>2. k \in Decisive(narinfo, list) /\ k \in DOMAIN narinfo.sigs
    BY <1>1, FirstDecisive
<1>3. sig \in ToSet(narinfo.sigs) /\ KeysNamed(list, sig) # {}
    BY <1>2 DEF Decisive, Known, ToSet
<1>4. Min(KeysNamed(list, sig)) \in KeysNamed(list, sig)
    BY <1>3, FirstKey
<1> HIDE DEF k, sig
<1>5. browser = "ed25519" /\ Signed(sig, list[Min(KeysNamed(list, sig))], narinfo)
    BY <1>1 DEF Says
<1> QED BY <1>1, <1>3, <1>4, <1>5 DEF Vouched

\* Where nothing is in the way of examining any signature.
Plain(narinfo, list) ==
    /\ browser = "ed25519"
    /\ \A sig \in ToSet(narinfo.sigs) : sig.readable /\ Cardinality(KeysNamed(list, sig)) <= 1
    /\ \A i \in DOMAIN list : list[i].readable

LEMMA AtMostOne ==
    ASSUME NEW S, IsFiniteSet(S), Cardinality(S) <= 1, NEW x \in S, NEW y \in S
    PROVE  x = y
<1>1. CASE Cardinality(S) = 0
    BY <1>1, FS_EmptySet
<1>2. CASE Cardinality(S) = 1
    <2>1. \E z : S = {z}
        BY <1>2, FS_Singleton
    <2> QED BY <2>1
<1> QED BY <1>1, <1>2, FS_CardinalityType

\* ... and there it does say "true" wherever one of them was made by a key.
LEMMA VouchedIsTrue ==
    ASSUME NEW narinfo, IsNarinfo(narinfo), NEW list, IsList(list),
           Vouched(narinfo, list), Plain(narinfo, list)
    PROVE  Verify(narinfo, list) = "true"
<1>1. PICK s \in DOMAIN narinfo.sigs :
        \E i \in KeysNamed(list, narinfo.sigs[s]) : Signed(narinfo.sigs[s], list[i], narinfo)
    BY DEF Vouched, ToSet
<1>2. ASSUME NEW k \in Known(narinfo, list)
      PROVE  Says(narinfo.sigs[k], narinfo, list) \in {"true", "false"}
    <2>1. narinfo.sigs[k] \in ToSet(narinfo.sigs) /\ KeysNamed(list, narinfo.sigs[k]) # {}
        BY DEF Known, ToSet
    <2>2. Min(KeysNamed(list, narinfo.sigs[k])) \in DOMAIN list
        BY <2>1, FirstKey DEF KeysNamed
    <2> QED BY <2>1, <2>2 DEF Says, Plain
<1>3. s \in Known(narinfo, list) /\ Says(narinfo.sigs[s], narinfo, list) = "true"
    <2> DEFINE sig == narinfo.sigs[s]
    <2>1. PICK i \in KeysNamed(list, sig) : Signed(sig, list[i], narinfo)
        BY <1>1
    <2>2. IsFiniteSet(KeysNamed(list, sig)) /\ Cardinality(KeysNamed(list, sig)) <= 1
        <3>1. DOMAIN list = 1..Len(list) /\ Len(list) \in Nat
            BY DEF IsList
        <3>2. KeysNamed(list, sig) \subseteq 1..Len(list) /\ sig \in ToSet(narinfo.sigs)
            BY <3>1 DEF KeysNamed, ToSet
        <3>3. IsFiniteSet(1..Len(list))
            BY <3>1, FS_Interval
        <3> QED BY <3>2, <3>3, FS_Subset DEF Plain
    <2>3. Min(KeysNamed(list, sig)) = i
        BY <2>1, <2>2, FirstKey, AtMostOne
    <2>4. sig \in ToSet(narinfo.sigs) /\ i \in DOMAIN list
        BY <2>1 DEF KeysNamed, ToSet
    <2> HIDE DEF sig
    <2>5. Says(sig, narinfo, list) = "true"
        BY <2>1, <2>3, <2>4 DEF Says, Plain
    <2> QED BY <2>1, <2>5 DEF sig, Known
<1>4. Min(Decisive(narinfo, list)) \in Decisive(narinfo, list) /\ Decisive(narinfo, list) # {}
    BY <1>3, FirstDecisive DEF Decisive
<1>5. Says(narinfo.sigs[Min(Decisive(narinfo, list))], narinfo, list) = "true"
    BY <1>2, <1>4 DEF Decisive
<1>6. narinfo.sigs # <<>>
    BY <1>1, EmptyDomain
<1> QED BY <1>4, <1>5, <1>6 DEF Verify, Plain

-----------------------------------------------------------------------------
(* Types.                                                                  *)

Shards == {ShardOf[d] : d \in Digests}
Effective == {Default \o list : list \in Lists \cup {<<>>}}

\* TypeOK, and what it takes for granted of the lookups.
TypeInv ==
    /\ stage \in {"roots", "lookup", "unpack", "running", "failed"}
    /\ selection \in Seq(Digests)
    /\ shards \in [Shards -> {"unasked", "ok", "empty"}]
    /\ roots \in Seq([digest : Digests, bin : SUBSET Digests])
    /\ wanted \in Seq(Digests)
    /\ extra \in Lists \cup {<<>>}
    /\ DOMAIN lookup \subseteq Digests
    /\ \A d \in DOMAIN lookup :
        /\ lookup[d] \in [list : Effective \cup {<<>>}, at : Nat]
        /\ lookup[d].at \in 0..Len(lookup[d].list) + 1
    /\ kept \in [DOMAIN Text -> Copies \cup {"none"}]
    /\ \A d \in DOMAIN info :
        info[d].copy \in Copies /\ <<info[d].from, d>> \in DOMAIN Text
    /\ \A d \in DOMAIN verdict : verdict[d] \in {"true", "false", "null"}

LEMMA EmptyIsList == IsList(<<>>)
BY DEF IsList

\* Whatever is a sequence of something is one of its members.
LEMMA SequenceIsList == ASSUME NEW S, NEW s \in Seq(S) PROVE IsList(s) /\ Len(s) \in Nat
<1>1. /\ s \in [1..Len(s) -> S] /\ Len(s) \in Nat
    OBVIOUS
<1>2. \A i \in 1..Len(s) : s[i] \in ToSet(s)
    BY <1>1 DEF ToSet
<1>3. s \in [1..Len(s) -> ToSet(s)]
    BY <1>1, <1>2
<1> QED BY <1>1, <1>3 DEF IsList

LEMMA EffectiveAreLists ==
    \A list \in Effective \cup {<<>>} : IsList(list) /\ Len(list) \in Nat
<1>1. ASSUME NEW e \in Lists \cup {<<>>} PROVE IsList(Default \o e) /\ Len(Default \o e) \in Nat
    <2>1. Default \in Seq(ToSet(Default)) /\ e \in Seq(ToSet(e))
        BY SourceAssumption, EmptyIsList DEF IsList
    <2>2. Default \in Seq(ToSet(Default) \cup ToSet(e)) /\ e \in Seq(ToSet(Default) \cup ToSet(e))
        BY <2>1
    <2>3. Default \o e \in Seq(ToSet(Default) \cup ToSet(e))
        BY <2>2
    <2> QED BY <2>3, SequenceIsList
<1> QED BY <1>1, EmptyIsList, EmptyDomain DEF Effective

\* What a root names, and what is taken of it into the list.
NamesOf(root) == {root.digest} \cup root.bin

LEMMA AppendTakes ==
    ASSUME NEW S, NEW ds \in Seq(S), NEW d \in S
    PROVE  LET to == IF d \in ToSet(ds) THEN ds ELSE Append(ds, d) IN
           /\ to \in Seq(S) /\ ToSet(to) = ToSet(ds) \cup {d}
           /\ IsInjective(ds) => IsInjective(to)
<1>1. CASE d \in ToSet(ds)
    BY <1>1
<1>2. CASE d \notin ToSet(ds)
    <2> DEFINE to == Append(ds, d)
    <2>1. /\ to \in Seq(S) /\ Len(to) = Len(ds) + 1 /\ Len(ds) \in Nat
          /\ to[Len(to)] = d /\ \A i \in 1..Len(ds) : to[i] = ds[i]
          /\ DOMAIN ds = 1..Len(ds) /\ DOMAIN to = 1..Len(to)
        OBVIOUS
    <2> HIDE DEF to
    <2>2. ToSet(to) = ToSet(ds) \cup {d}
        <3>1. ASSUME NEW i \in 1..Len(to) PROVE to[i] \in ToSet(ds) \cup {d}
            BY <2>1 DEF ToSet
        <3>2. ToSet(ds) \subseteq ToSet(to) /\ d \in ToSet(to)
            BY <2>1 DEF ToSet
        <3> QED BY <2>1, <3>1, <3>2 DEF ToSet
    <2>3. IsInjective(ds) => IsInjective(to)
        <3> SUFFICES ASSUME IsInjective(ds), NEW i \in DOMAIN to, NEW j \in DOMAIN to, to[i] = to[j]
                     PROVE  i = j
            BY DEF IsInjective
        <3> QED BY <1>2, <2>1 DEF IsInjective, ToSet
    <2> QED BY <1>2, <2>1, <2>2, <2>3 DEF to
<1> QED BY <1>1, <1>2

\* TakeRoot adds the store paths of a root, each of them once.
LEMMA TakeRootTakes ==
    ASSUME NEW ds \in Seq(Digests), NEW root, root.digest \in Digests,
           root.bin = {} \/ \E b \in Digests : root.bin = {b}
    PROVE  /\ TakeRoot(ds, root) \in Seq(Digests)
           /\ ToSet(TakeRoot(ds, root)) = ToSet(ds) \cup NamesOf(root)
           /\ IsInjective(ds) => IsInjective(TakeRoot(ds, root))
<1> DEFINE Add(to, d) == IF d \in ToSet(to) THEN to ELSE Append(to, d)
           one == Add(ds, root.digest)
<1>1. /\ one \in Seq(Digests) /\ ToSet(one) = ToSet(ds) \cup {root.digest}
      /\ IsInjective(ds) => IsInjective(one)
    BY AppendTakes
<1>2. CASE root.bin = {}
    BY <1>1, <1>2 DEF TakeRoot, NamesOf
<1>3. ASSUME NEW b \in Digests, root.bin = {b}
      PROVE  /\ TakeRoot(ds, root) \in Seq(Digests)
             /\ ToSet(TakeRoot(ds, root)) = ToSet(ds) \cup NamesOf(root)
             /\ IsInjective(ds) => IsInjective(TakeRoot(ds, root))
    <2>1. (CHOOSE d \in root.bin : TRUE) = b /\ root.bin # {}
        BY <1>3
    <2>2. TakeRoot(ds, root) = Add(one, b)
        BY <2>1 DEF TakeRoot
    <2> HIDE DEF one
    <2>3. /\ Add(one, b) \in Seq(Digests) /\ ToSet(Add(one, b)) = ToSet(one) \cup {b}
          /\ IsInjective(one) => IsInjective(Add(one, b))
        BY <1>1, AppendTakes
    <2> QED BY <1>1, <1>3, <2>2, <2>3 DEF NamesOf
<1> QED BY <1>2, <1>3

LEMMA TypeInit == Init => TypeInv
<1> SUFFICES ASSUME Init PROVE TypeInv
    OBVIOUS
<1>1. selection \in Seq(Digests) /\ kept \in [DOMAIN Text -> Copies \cup {"none"}]
    BY SourceAssumption DEF Init
<1> QED BY <1>1, EmptyDomain DEF Init, TypeInv, Shards

\* Where a lookup is, there is a narinfo: a copy of it, and of the text.
LEMMA AskedIsThere ==
    ASSUME TypeInv, NEW d, Asking(d)
    PROVE  d \in Digests /\ Here(d) = <<Here(d)[1], d>>
BY DEF TypeInv, Asking, Looking, Here

LEMMA FoundTyped ==
    ASSUME TypeInv, NEW d, NEW copy \in Copies, Asking(d), Here(d) \in DOMAIN Text, Found(d, copy)
    PROVE  \A e \in DOMAIN info' :
                info'[e].copy \in Copies /\ <<info'[e].from, e>> \in DOMAIN Text
BY AskedIsThere DEF TypeInv, Found, With

LEMMA OneFurther ==
    ASSUME NEW L, NEW r \in [list : L, at : Nat], NEW s, s = [r EXCEPT !.at = @ + 1]
    PROVE  s \in [list : L, at : Nat] /\ s.list = r.list /\ s.at = r.at + 1
OBVIOUS

LEMMA TypeInductive == TypeInv /\ [Next]_vars => TypeInv'
<1> SUFFICES ASSUME TypeInv, [Next]_vars PROVE TypeInv'
    OBVIOUS
<1> USE DEF TypeInv
<1>1. CASE AskRoot
    <2>1. Len(roots) + 1 \in 1..Len(selection)
        BY <1>1 DEF AskRoot
    <2> DEFINE d == selection[Len(roots) + 1]
    <2>2. d \in Digests
        BY <2>1
    <2>3. PICK answer \in {"ok", "empty"} :
            LET root == [digest |-> d,
                         bin |-> IF d \in DOMAIN Bin /\ answer = "ok" THEN {Bin[d]} \ {d} ELSE {}]
            IN  /\ shards' = [shards EXCEPT ![ShardOf[d]] = answer]
                /\ roots' = Append(roots, root)
                /\ wanted' = TakeRoot(wanted, root)
        BY <1>1 DEF AskRoot
    <2> DEFINE root == [digest |-> d,
                        bin |-> IF d \in DOMAIN Bin /\ answer = "ok" THEN {Bin[d]} \ {d} ELSE {}]
    <2>4. /\ root \in [digest : Digests, bin : SUBSET Digests]
          /\ root.digest \in Digests
          /\ root.bin = {} \/ \E b \in Digests : root.bin = {b}
        <3>1. d \in DOMAIN Bin => Bin[d] \in Digests
            BY SourceAssumption
        <3> DEFINE b == IF d \in DOMAIN Bin /\ answer = "ok" THEN {Bin[d]} \ {d} ELSE {}
        <3> HIDE DEF d
        <3>2. b = {} \/ \E e \in Digests : b = {e}
            BY <3>1
        <3>3. root = [digest |-> d, bin |-> b]
            OBVIOUS
        <3> HIDE DEF b, root
        <3>4. b \in SUBSET Digests
            BY <3>2
        <3> QED BY <2>2, <3>2, <3>3, <3>4
    <2>5. shards' \in [Shards -> {"unasked", "ok", "empty"}]
        BY <2>3
    <2> HIDE DEF root, d
    <2>6. wanted' = TakeRoot(wanted, root) /\ roots' = Append(roots, root)
        BY <2>3 DEF root
    <2>7. wanted' \in Seq(Digests) /\ roots' \in Seq([digest : Digests, bin : SUBSET Digests])
        <3>1. TakeRoot(wanted, root) \in Seq(Digests)
            BY <2>4, TakeRootTakes
        <3> QED BY <2>4, <2>6, <3>1
    <2> QED BY <1>1, <2>5, <2>7 DEF AskRoot
<1>2. CASE Walk
    <2>1. DOMAIN lookup' = ToSet(wanted) /\ ToSet(wanted) \subseteq Digests
        BY <1>2 DEF Walk, ToSet
    <2>2. \A d \in DOMAIN lookup' : lookup'[d] = NotStarted
        BY <1>2 DEF Walk
    <2> QED BY <1>2, <2>1, <2>2, EmptyDomain DEF Walk, NotStarted
<1>3. CASE EditCaches
    BY <1>3 DEF EditCaches, bootVars
<1>4. CASE CheckSignatures
    BY <1>4, VerifyOneOfThree, EmptyDomain DEF CheckSignatures
<1>5. CASE Run
    BY <1>5 DEF Run
<1>6. ASSUME NEW d \in Digests, Start(d) PROVE TypeInv'
    <2>1. ReadSubstituters \in Effective /\ Len(ReadSubstituters) \in Nat
        <3>1. ReadSubstituters \in Effective
            BY DEF ReadSubstituters, Effective
        <3> QED BY <3>1, EffectiveAreLists
    <2> QED BY <1>6, <2>1 DEF Start
<1>7. ASSUME NEW d \in Digests, FromBrowser(d) PROVE TypeInv'
    <2>1. Here(d) \in DOMAIN Text /\ kept[Here(d)] \in Copies
        BY <1>7 DEF FromBrowser, Stored
    <2> QED BY <1>7, <2>1, FoundTyped DEF FromBrowser, Found
<1>8. ASSUME NEW d \in Digests, FromCache(d) PROVE TypeInv'
    <2>1. PICK copy \in Copies : Found(d, copy) /\ kept' \in {kept, [kept EXCEPT ![Here(d)] = copy]}
        BY <1>8 DEF FromCache
    <2>2. kept' \in [DOMAIN Text -> Copies \cup {"none"}]
        BY <2>1
    <2> QED BY <1>8, <2>1, <2>2, FoundTyped DEF FromCache, Found
<1>9. ASSUME NEW d \in Digests, NotHere(d) PROVE TypeInv'
    <2>1. lookup[d].at \in 1..Len(lookup[d].list) /\ d \in DOMAIN lookup
        BY <1>9 DEF NotHere, Asking, Looking
    <2>2. Len(lookup[d].list) \in Nat
        BY <2>1, EffectiveAreLists
    <2>3. lookup' = [lookup EXCEPT ![d].at = @ + 1]
        BY <1>9 DEF NotHere
    <2>4. \A e \in DOMAIN lookup' :
            /\ lookup'[e] \in [list : Effective \cup {<<>>}, at : Nat]
            /\ lookup'[e].at \in 0..Len(lookup'[e].list) + 1
        <3>1. \A e \in DOMAIN lookup : e # d => lookup'[e] = lookup[e]
            BY <2>3
        <3>2. lookup'[d] = [lookup[d] EXCEPT !.at = @ + 1] /\ lookup[d].at \in Nat
            BY <2>1, <2>3
        <3>3. /\ lookup'[d] \in [list : Effective \cup {<<>>}, at : Nat]
              /\ lookup'[d].list = lookup[d].list /\ lookup'[d].at = lookup[d].at + 1
            <4>1. lookup[d] \in [list : Effective \cup {<<>>}, at : Nat]
                BY <2>1
            <4> QED BY <3>2, <4>1, OneFurther
        <3>4. lookup'[d].at \in 0..Len(lookup'[d].list) + 1
            BY <2>1, <2>2, <3>3
        <3> QED BY <2>3, <3>1, <3>3, <3>4
    <2> QED BY <1>9, <2>3, <2>4 DEF NotHere
<1>10. ASSUME NEW d \in Digests, LookupFails(d) PROVE TypeInv'
    BY <1>10 DEF LookupFails, bootVars
<1>11. ASSUME NEW d \in Digests, Unpack(d) PROVE TypeInv'
    BY <1>11 DEF Unpack
<1>12. CASE UNCHANGED vars
    BY <1>12 DEF vars, bootVars
<1> QED
    BY <1>1, <1>2, <1>3, <1>4, <1>5, <1>6, <1>7, <1>8, <1>9, <1>10, <1>11, <1>12
    DEF Next, LookupStep

-----------------------------------------------------------------------------
(* The roots and what they name.                                           *)

\* A root is the selected path and, where its shard answered, its sibling.
RootOf(i) ==
    /\ roots[i].digest = selection[i]
    /\ shards[ShardOf[selection[i]]] \in {"ok", "empty"}
    /\ roots[i].bin =
        IF selection[i] \in DOMAIN Bin /\ shards[ShardOf[selection[i]]] = "ok"
        THEN {Bin[selection[i]]} \ {selection[i]} ELSE {}

RootsInv ==
    /\ Len(roots) <= Len(selection)
    /\ stage # "roots" => Len(roots) = Len(selection)
    /\ \A i \in 1..Len(roots) : RootOf(i)
    /\ \A d : d \in ToSet(wanted) <=> \E i \in 1..Len(roots) : d \in NamesOf(roots[i])
    /\ IsInjective(wanted)
    /\ silent \subseteq ToSet(selection)

LEMMA RootsUnmoved ==
    RootsInv /\ UNCHANGED <<selection, shards, roots, wanted>>
        /\ (stage' # "roots" => Len(roots) = Len(selection)) /\ silent' \subseteq ToSet(selection)
        => RootsInv'
<1> SUFFICES ASSUME RootsInv, UNCHANGED <<selection, shards, roots, wanted>>,
                    stage' # "roots" => Len(roots) = Len(selection),
                    silent' \subseteq ToSet(selection)
             PROVE  RootsInv'
    OBVIOUS
<1>1. \A i \in 1..Len(roots) : RootOf(i)'
    BY DEF RootsInv, RootOf
<1> QED BY <1>1 DEF RootsInv

\* A shard that answered stays as it is, and so do the roots it was for.
LEMMA RootStays ==
    ASSUME TypeInv, RootsInv, AskRoot, NEW i \in 1..Len(roots)
    PROVE  RootOf(i)' /\ roots'[i] = roots[i]
<1>1. /\ roots'[i] = roots[i] /\ selection' = selection
      /\ i \in 1..Len(selection) /\ selection[i] \in Digests
    BY DEF TypeInv, RootsInv, AskRoot
<1>2. shards'[ShardOf[selection[i]]] = shards[ShardOf[selection[i]]]
    <2>1. RootOf(i)
        BY DEF RootsInv
    <2> QED BY <1>1, <2>1 DEF TypeInv, AskRoot, RootOf, Shards
<1> QED BY <1>1, <1>2 DEF RootsInv, RootOf

LEMMA RootsInductive == TypeInv /\ RootsInv /\ [Next]_vars => RootsInv'
<1> SUFFICES ASSUME TypeInv, RootsInv, [Next]_vars PROVE RootsInv'
    OBVIOUS
<1>1. CASE AskRoot
    <2> DEFINE n == Len(roots) + 1
               d == selection[n]
    <2>1. n \in 1..Len(selection) /\ d \in Digests /\ Len(roots) \in Nat
        BY <1>1 DEF AskRoot, TypeInv
    <2>2. PICK answer \in {"ok", "empty"} :
            LET root == [digest |-> d,
                         bin |-> IF d \in DOMAIN Bin /\ answer = "ok" THEN {Bin[d]} \ {d} ELSE {}]
            IN  /\ shards' = [shards EXCEPT ![ShardOf[d]] = answer]
                /\ roots' = Append(roots, root)
                /\ wanted' = TakeRoot(wanted, root)
        BY <1>1 DEF AskRoot
    <2> DEFINE b == IF d \in DOMAIN Bin /\ answer = "ok" THEN {Bin[d]} \ {d} ELSE {}
               root == [digest |-> d, bin |-> b]
    <2>3. b = {} \/ \E e \in Digests : b = {e}
        <3>1. d \in DOMAIN Bin => Bin[d] \in Digests
            BY SourceAssumption
        <3> HIDE DEF d
        <3> QED BY <3>1
    <2>4. /\ roots' = Append(roots, root) /\ wanted' = TakeRoot(wanted, root)
          /\ Len(roots') = n /\ roots'[n] = root
        BY <2>2 DEF TypeInv
    <2>5. root.digest = d /\ root.bin = b
        OBVIOUS
    <2>6. shards'[ShardOf[d]] = answer
        BY <2>1, <2>2 DEF TypeInv, Shards
    <2> HIDE DEF root
    <2>7. /\ ToSet(wanted') = ToSet(wanted) \cup NamesOf(root)
          /\ IsInjective(wanted')
        BY <2>1, <2>3, <2>4, <2>5, TakeRootTakes DEF RootsInv, TypeInv
    <2>8. selection' = selection
        BY <1>1 DEF AskRoot
    <2>9. ASSUME NEW i \in 1..Len(roots') PROVE RootOf(i)'
        <3>1. CASE i \in 1..Len(roots)
            BY <1>1, <3>1, RootStays
        <3>2. CASE i = n
            <4>1. roots'[i] = root /\ selection'[i] = d
                BY <2>4, <2>8, <3>2
            <4> QED BY <2>5, <2>6, <4>1 DEF RootOf
        <3> QED BY <2>1, <2>4, <3>1, <3>2
    <2>10. \A e : e \in ToSet(wanted') <=> \E i \in 1..Len(roots') : e \in NamesOf(roots'[i])
        <3>1. \A i \in 1..Len(roots) : roots'[i] = roots[i]
            BY <1>1, RootStays
        <3>2. \A i : i \in 1..Len(roots') <=> i \in 1..Len(roots) \/ i = n
            BY <2>1, <2>4
        <3>3. \A e : e \in ToSet(wanted) <=> \E i \in 1..Len(roots) : e \in NamesOf(roots[i])
            BY DEF RootsInv
        <3> HIDE DEF n
        <3> QED BY <2>4, <2>7, <3>1, <3>2, <3>3
    <2>11. Len(roots') <= Len(selection') /\ stage' = "roots" /\ silent' = silent
        BY <1>1, <2>1, <2>4, <2>8 DEF AskRoot
    <2>12. silent \subseteq ToSet(selection)
        BY DEF RootsInv
    <2> QED BY <2>7, <2>8, <2>9, <2>10, <2>11, <2>12 DEF RootsInv
<1>2. CASE Walk
    BY <1>2, RootsUnmoved DEF Walk, RootsInv
<1>3. CASE EditCaches
    BY <1>3, RootsUnmoved DEF EditCaches, bootVars, RootsInv
<1>4. CASE CheckSignatures
    BY <1>4, RootsUnmoved DEF CheckSignatures, RootsInv
<1>5. CASE Run
    <2>1. Len(roots) = Len(selection) /\ Len(roots) \in Nat
          /\ DOMAIN roots = 1..Len(roots) /\ DOMAIN selection = 1..Len(selection)
        BY <1>5 DEF Run, RootsInv, TypeInv
    <2>2. \A r \in ToSet(roots) : r.digest \in ToSet(selection)
        <3>1. \A i \in 1..Len(roots) : roots[i].digest = selection[i]
            BY DEF RootsInv, RootOf
        <3> QED BY <2>1, <3>1 DEF ToSet
    <2> QED BY <1>5, <2>1, <2>2, RootsUnmoved DEF Run, Silent
<1>6. ASSUME NEW d \in Digests, LookupStep(d) PROVE RootsInv'
    BY <1>6, RootsUnmoved
    DEF LookupStep, Start, FromBrowser, FromCache, NotHere, LookupFails, Found, Asking, Looking,
        bootVars, RootsInv
<1>7. ASSUME NEW d \in Digests, Unpack(d) PROVE RootsInv'
    BY <1>7, RootsUnmoved DEF Unpack, RootsInv
<1>8. CASE UNCHANGED vars
    BY <1>8, RootsUnmoved DEF vars, bootVars, RootsInv
<1> QED BY <1>1, <1>2, <1>3, <1>4, <1>5, <1>6, <1>7, <1>8 DEF Next

LEMMA RootsHold == Spec => [](TypeInv /\ RootsInv)
<1>1. Init => RootsInv
    <2> SUFFICES ASSUME Init PROVE RootsInv
        OBVIOUS
    <2>1. ToSet(<<>>) = {} /\ IsInjective(<<>>) /\ Len(selection) \in Nat
        BY SourceAssumption, EmptyDomain DEF Init, ToSet, IsInjective
    <2> QED BY <2>1, EmptyDomain DEF Init, RootsInv
<1> QED BY <1>1, TypeInit, TypeInductive, RootsInductive, PTL DEF Spec

\* Every variable keeps its type: no store path is made up, no lookup leaves
\* its list, and only what was selected is called silent.
THEOREM TypeCorrect == Spec => []TypeOK
<1>1. TypeInv /\ RootsInv => TypeOK
    BY DEF TypeInv, RootsInv, TypeOK, ToSet
<1> QED BY <1>1, RootsHold, PTL

\* Whatever shards fail, what is walked is every selected path and each bin
\* output that is known, once (rootsOf, digestsOf).
THEOREM RootsAlwaysWhole == Spec => []RootsAreWhole
<1>1. TypeInv /\ RootsInv => RootsAreWhole
    <2> SUFFICES ASSUME TypeInv, RootsInv, stage # "roots"
                 PROVE  ToSet(wanted) = ToSet(selection) \cup
                            {Bin[d] : d \in {d \in ToSet(selection) \cap DOMAIN Bin :
                                                shards[ShardOf[d]] = "ok"}}
        BY DEF RootsInv, RootsAreWhole
    <2>1. /\ Len(roots) = Len(selection) /\ DOMAIN selection = 1..Len(selection)
          /\ \A i \in 1..Len(selection) : RootOf(i)
        BY DEF RootsInv, TypeInv
    <2> DEFINE Ok(d) == d \in DOMAIN Bin /\ shards[ShardOf[d]] = "ok"
    <2>2. \A d : \A i \in 1..Len(selection) :
            d \in NamesOf(roots[i]) <=>
                d = selection[i] \/ (Ok(selection[i]) /\ d = Bin[selection[i]])
        <3> SUFFICES ASSUME NEW d, NEW i \in 1..Len(selection)
                     PROVE  d \in NamesOf(roots[i]) <=>
                                d = selection[i] \/ (Ok(selection[i]) /\ d = Bin[selection[i]])
            OBVIOUS
        <3>1. RootOf(i)
            BY <2>1
        <3>2. CASE Ok(selection[i])
            <4>1. roots[i].digest = selection[i] /\ roots[i].bin = {Bin[selection[i]]} \ {selection[i]}
                BY <3>1, <3>2 DEF RootOf
            <4> QED BY <3>2, <4>1 DEF NamesOf
        <3>3. CASE ~Ok(selection[i])
            <4>1. roots[i].digest = selection[i] /\ roots[i].bin = {}
                BY <3>1, <3>3 DEF RootOf
            <4> QED BY <3>3, <4>1 DEF NamesOf
        <3> QED BY <3>2, <3>3
    <2>3. ToSet(selection) = {selection[i] : i \in 1..Len(selection)}
        BY <2>1 DEF ToSet
    <2>4. \A d : d \in ToSet(wanted) <=> \E i \in 1..Len(selection) : d \in NamesOf(roots[i])
        BY <2>1 DEF RootsInv
    <2>5. \A d : d \in ToSet(wanted) <=>
            \E i \in 1..Len(selection) :
                d = selection[i] \/ (Ok(selection[i]) /\ d = Bin[selection[i]])
        <3> HIDE DEF Ok
        <3> QED BY <2>2, <2>4
    <2> QED BY <2>3, <2>5
<1> QED BY <1>1, RootsHold, PTL

-----------------------------------------------------------------------------
(* The verdicts, and what they are about.                                  *)

\* What is found is a narinfo; one with signatures came as a whole text.
LEMMA NarinfosAreNarinfos ==
    ASSUME TypeInv, NEW d \in DOMAIN info
    PROVE  /\ IsNarinfo(NarinfoOf(d))
           /\ NarinfoOf(d).sigs # <<>> => info[d].copy = "whole"
           /\ NarinfoOf(d).build = Text[<<info[d].from, d>>].build
           /\ NarinfoOf(d).build \in DOMAIN Tree
           /\ NarinfoOf(d).hashed <=> info[d].copy = "whole"
<1>1. <<info[d].from, d>> \in DOMAIN Text
    BY DEF TypeInv
<1>2. /\ Text[<<info[d].from, d>>].sigs \in Seq(ToSet(Text[<<info[d].from, d>>].sigs))
      /\ Text[<<info[d].from, d>>].build \in DOMAIN Tree
    BY <1>1, SourceAssumption
<1> QED BY <1>2, EmptyIsList DEF NarinfoOf, Narinfo, IsNarinfo, IsList

\* What a verdict says of a found path, with the lists in effect.
VerdictHolds(d) ==
    /\ verdict[d] = "true" => Vouched(NarinfoOf(d), ReadSubstituters)
    /\ Vouched(NarinfoOf(d), ReadSubstituters) /\ Plain(NarinfoOf(d), ReadSubstituters)
            => verdict[d] = "true"
    /\ verdict[d] = "true" => browser = "ed25519" /\ info[d].copy = "whole"

\* Once there are verdicts nothing is looked up any more, and the list is
\* no longer edited; what is in the share was judged before.
VerdictInv ==
    /\ DOMAIN verdict # {} => DOMAIN lookup = {} /\ stage \notin {"roots", "lookup"}
    /\ stage \in {"unpack", "running"} => DOMAIN verdict = DOMAIN info
    /\ \A d \in DOMAIN verdict : d \in DOMAIN info /\ VerdictHolds(d)
    /\ archive.digest # "none" =>
        /\ archive.digest \in DOMAIN verdict
        /\ verdict[archive.digest] = "true" =>
                archive.entries = Tree[NarinfoOf(archive.digest).build]

LEMMA VerdictsFixed ==
    VerdictInv /\ DOMAIN verdict # {} /\ [Next]_vars
        => UNCHANGED <<browser, extra, info, verdict, lookup>> /\ stage' \notin {"roots", "lookup"}
BY DEF VerdictInv, Next, vars, bootVars, AskRoot, Walk, EditCaches, CheckSignatures, Run, LookupStep,
    Start, FromBrowser, FromCache, NotHere, LookupFails, Found, Asking, Looking, Unpack

LEMMA NoVerdictYet ==
    VerdictInv /\ DOMAIN verdict = {} /\ [Next]_vars /\ ~CheckSignatures
        => verdict' = verdict /\ (archive' = archive \/ \E d \in Digests : Unpack(d))
<1>1. (\E d \in Digests : Unpack(d)) => verdict' = verdict
    BY DEF Unpack
<1>2. [Next]_vars /\ ~CheckSignatures /\ ~(\E d \in Digests : Unpack(d))
        => UNCHANGED <<verdict, archive>>
    BY DEF Next, vars, bootVars, AskRoot, Walk, EditCaches, Run, LookupStep,
        Start, FromBrowser, FromCache, NotHere, LookupFails, Found
<1> QED BY <1>1, <1>2

\* A verdict stays right while what it speaks of stays.
LEMMA VerdictStays ==
    ASSUME NEW d, UNCHANGED <<browser, extra, info, verdict>>
    PROVE  /\ NarinfoOf(d)' = NarinfoOf(d)
           /\ VerdictHolds(d) => VerdictHolds(d)'
<1>1. NarinfoOf(d)' = NarinfoOf(d)
    BY DEF NarinfoOf, Narinfo
<1>2. ReadSubstituters' = ReadSubstituters
    BY DEF ReadSubstituters
<1>3. /\ Vouched(NarinfoOf(d), ReadSubstituters)' = Vouched(NarinfoOf(d), ReadSubstituters)
      /\ Plain(NarinfoOf(d), ReadSubstituters)' = Plain(NarinfoOf(d), ReadSubstituters)
    BY <1>1, <1>2 DEF Vouched, Plain
<1> QED BY <1>1, <1>3 DEF VerdictHolds

\* verify, of everything that was found.
LEMMA VerdictsTaken ==
    ASSUME TypeInv, CheckSignatures, NEW d \in DOMAIN info
    PROVE  VerdictHolds(d)'
<1> DEFINE narinfo == NarinfoOf(d)
           list == ReadSubstituters
<1>1. /\ verdict'[d] = Verify(narinfo, list)
      /\ UNCHANGED <<browser, extra, info>>
    BY DEF CheckSignatures
<1>2. narinfo' = narinfo /\ list' = list
    BY <1>1 DEF NarinfoOf, Narinfo, ReadSubstituters
<1>3. IsNarinfo(narinfo) /\ (narinfo.sigs # <<>> => info[d].copy = "whole")
    BY NarinfosAreNarinfos
<1>4. IsList(list)
    BY EffectiveAreLists DEF ReadSubstituters, Effective, TypeInv
<1> HIDE DEF narinfo, list
<1>5. /\ Verify(narinfo, list) = "true" =>
            Vouched(narinfo, list) /\ browser = "ed25519" /\ info[d].copy = "whole"
      /\ Vouched(narinfo, list) /\ Plain(narinfo, list) => Verify(narinfo, list) = "true"
    BY <1>3, <1>4, TrueIsVouched, VouchedIsTrue
<1>6. Vouched(narinfo, list)' = Vouched(narinfo, list) /\ Plain(narinfo, list)' = Plain(narinfo, list)
    BY <1>1, <1>2 DEF Vouched, Plain
<1> QED BY <1>1, <1>5, <1>6 DEF VerdictHolds, narinfo, list

\* What reaches the share of a path reported verified is what was vouched
\* for: a whole text has the hash, and a browser with Ed25519 has SHA-256.
LEMMA UnpackedIsGenuine ==
    ASSUME TypeInv, VerdictInv, NEW d, Unpack(d), archive' # archive, verdict[d] = "true"
    PROVE  archive'.entries = Tree[NarinfoOf(d).build]
<1> DEFINE build == Served[<<info[d].from, d>>]
<1>1. d \in DOMAIN info /\ d \in DOMAIN verdict
    BY DEF Unpack, VerdictInv
<1>2. PICK arrival \in Arrivals[build] :
        /\ VerifyUnpacked(NarinfoOf(d), arrival, build) /\ arrival.ok
        /\ archive'.entries = arrival.entries
    BY DEF Unpack
<1>3. NarinfoOf(d).hashed /\ browser # "none"
    BY <1>1, NarinfosAreNarinfos DEF VerdictInv, VerdictHolds
<1>4. arrival.damage = "none" /\ build = NarinfoOf(d).build
    BY <1>2, <1>3 DEF VerifyUnpacked
<1>5. NarinfoOf(d).build \in DOMAIN Tree
    BY <1>1, NarinfosAreNarinfos
<1> QED BY <1>2, <1>4, <1>5, ArrivalsAssumption

LEMMA VerdictInductive == TypeInv /\ VerdictInv /\ [Next]_vars => VerdictInv'
<1> SUFFICES ASSUME TypeInv, VerdictInv, [Next]_vars PROVE VerdictInv'
    OBVIOUS
<1>1. CASE CheckSignatures
    <2>1. /\ DOMAIN verdict' = DOMAIN info /\ DOMAIN verdict = {}
          /\ DOMAIN lookup' = {} /\ UNCHANGED <<archive, info>> /\ stage' = "unpack"
        BY <1>1, EmptyDomain DEF CheckSignatures, VerdictInv
    <2>2. archive.digest = "none"
        BY <2>1 DEF VerdictInv
    <2>3. \A d \in DOMAIN verdict' : d \in DOMAIN info' /\ VerdictHolds(d)'
        BY <1>1, <2>1, VerdictsTaken
    <2> QED BY <2>1, <2>2, <2>3 DEF VerdictInv
<1>2. CASE ~CheckSignatures /\ DOMAIN verdict = {}
    <2>1. verdict' = verdict /\ DOMAIN verdict' = {}
        BY <1>2, NoVerdictYet
    <2>2. archive' = archive
        BY <1>2, NoVerdictYet DEF Unpack, VerdictInv
    <2>3. CASE \E d \in Digests : Unpack(d)
        <3>1. stage = "unpack" /\ info' = info /\ stage' # "roots"
            BY <2>3 DEF Unpack
        <3> QED BY <1>2, <2>1, <2>2, <3>1 DEF VerdictInv
    <2>4. CASE \E d \in Digests : LookupStep(d)
        <3>1. stage' \in {stage, "failed"} /\ stage \in {"lookup", "failed"}
            BY <2>4 DEF LookupStep, Start, FromBrowser, FromCache, NotHere, LookupFails, Found,
                Asking, Looking, bootVars
        <3> QED BY <1>2, <2>1, <2>2, <3>1 DEF VerdictInv
    <2>5. CASE AskRoot \/ Walk \/ EditCaches
        <3>1. stage' \in {"roots", "lookup"} /\ info' = info
            BY <2>5 DEF AskRoot, Walk, EditCaches, bootVars
        <3> QED BY <1>2, <2>1, <2>2, <3>1 DEF VerdictInv
    <2>6. CASE Run \/ UNCHANGED vars
        <3>1. /\ stage' = stage \/ (stage = "unpack" /\ stage' = "running")
              /\ info' = info
            BY <2>6 DEF Run, vars, bootVars
        <3> QED BY <1>2, <2>1, <2>2, <3>1 DEF VerdictInv
    <2> QED BY <1>2, <2>3, <2>4, <2>5, <2>6 DEF Next
<1>3. CASE DOMAIN verdict # {}
    <2>1. /\ UNCHANGED <<browser, extra, info, verdict, lookup>> /\ stage' \notin {"roots", "lookup"}
          /\ stage \notin {"roots", "lookup"} /\ DOMAIN lookup = {}
        BY <1>3, VerdictsFixed DEF VerdictInv
    <2>2. \A d \in DOMAIN verdict' : d \in DOMAIN info' /\ VerdictHolds(d)'
        BY <2>1, VerdictStays DEF VerdictInv
    <2>3. stage' \in {"unpack", "running"} => stage \in {"unpack", "running"}
        BY <2>1 DEF Next, vars, bootVars, AskRoot, Walk, EditCaches, CheckSignatures, Run, LookupStep,
            Start, FromBrowser, FromCache, NotHere, LookupFails, Found, Unpack
    <2>4. ASSUME archive'.digest # "none"
          PROVE  /\ archive'.digest \in DOMAIN verdict'
                 /\ verdict'[archive'.digest] = "true" =>
                        archive'.entries = Tree[NarinfoOf(archive'.digest).build]
        <3>1. CASE archive' = archive
            BY <2>1, <2>4, <3>1 DEF VerdictInv
        <3>2. CASE archive' # archive
            <4>1. PICK d \in Digests : Unpack(d)
                BY <3>2 DEF Next, vars, bootVars, AskRoot, Walk, EditCaches, CheckSignatures, Run,
                    LookupStep, Start, FromBrowser, FromCache, NotHere, LookupFails, Found
            <4>2. archive'.digest = d /\ d \in DOMAIN verdict
                BY <3>2, <4>1 DEF Unpack, VerdictInv
            <4> QED BY <2>1, <3>2, <4>1, <4>2, UnpackedIsGenuine
        <3> QED BY <3>1, <3>2
    <2>5. NarinfoOf(archive.digest)' = NarinfoOf(archive'.digest)
        BY <2>1 DEF NarinfoOf, Narinfo
    <2> QED BY <1>3, <2>1, <2>2, <2>3, <2>4, <2>5 DEF VerdictInv
<1> QED BY <1>1, <1>2, <1>3

LEMMA VerdictsHold == Spec => [](TypeInv /\ VerdictInv)
<1>1. Init => VerdictInv
    BY EmptyDomain DEF Init, VerdictInv, NoArchive
<1> QED BY <1>1, TypeInit, TypeInductive, VerdictInductive, PTL DEF Spec

\* Whatever the list was while the narinfos were looked up: a verdict is
\* "true" only with a key of the list in effect that made a signature, and
\* it is "true" whenever there is one and nothing keeps it from being
\* examined (verify, the signature check of boot).
THEOREM VerdictAlwaysRight == Spec => []VerdictRight
<1>1. VerdictInv => VerdictRight
    BY DEF VerdictInv, VerdictHolds, VerdictRight, Vouched, Plain
<1> QED BY <1>1, VerdictsHold, PTL

\* A path reported verified is, once written, the content some key of the
\* list vouched for, whichever cache the archive came from, whatever earlier
\* visits kept and whatever the download did to it (verify, verifyUnpacked).
THEOREM VouchedAlwaysGenuine == Spec => []VouchedIsGenuine
<1>1. VerdictInv => VouchedIsGenuine
    BY DEF VerdictInv, VouchedIsGenuine
<1> QED BY <1>1, VerdictsHold, PTL

-----------------------------------------------------------------------------
(* fetchWithProgress: its types, the row it fills, and the bodies that pass. *)

LEMMA NoBodyIsNone == NoBody \notin Bodies /\ NoBody.chunks = 0 - 1
BY DEF NoBody, Bodies

\* Every variable keeps its type.
THEOREM FetchTypeCorrect == FetchSpec => []FetchTypeOK
<1> USE FetchAssumption DEF FetchTypeOK, Goto
<1>1. FetchInit => FetchTypeOK
    BY DEF FetchInit
<1>2. FetchTypeOK /\ [FetchNext]_fetchVars => FetchTypeOK'
    <2> SUFFICES ASSUME FetchTypeOK, [FetchNext]_fetchVars PROVE FetchTypeOK'
        OBVIOUS
    <2>1. ASSUME NEW f \in Fetchers, Hit(f) PROVE FetchTypeOK'
        <3>1. cache \in Bodies /\ cache.chunks \in Int
            BY <2>1 DEF Hit, Bodies
        <3> QED BY <2>1, <3>1 DEF Hit
    <2>2. ASSUME NEW f \in Fetchers, Miss(f) PROVE FetchTypeOK'
        BY <2>2 DEF Miss
    <2>3. ASSUME NEW f \in Fetchers, Evict(f) PROVE FetchTypeOK'
        <3>1. body[f].chunks \in Int
            BY NoBodyIsNone DEF Bodies
        <3> QED BY <2>3, <3>1 DEF Evict
    <2>4. ASSUME NEW f \in Fetchers, Chunk(f) PROVE FetchTypeOK'
        BY <2>4 DEF Chunk
    <2>5. ASSUME NEW f \in Fetchers, Retry(f) PROVE FetchTypeOK'
        BY <2>5 DEF Retry, TakeBack, MayRetry, CountAttempt
    <2>6. ASSUME NEW f \in Fetchers, NEW intact \in BOOLEAN, EndOfBody(f, intact)
          PROVE  FetchTypeOK'
        <3>1. [chunks |-> downloaded[f], intact |-> intact] \in Bodies
            BY DEF Bodies
        <3> QED BY <2>5, <2>6, <3>1 DEF EndOfBody
    <2>7. ASSUME NEW f \in Fetchers, Store(f) PROVE FetchTypeOK'
        BY <2>7 DEF Store
    <2>8. ASSUME NEW f \in Fetchers, Restart(f) PROVE FetchTypeOK'
        BY <2>8 DEF Restart
    <2>9. CASE UNCHANGED fetchVars
        BY <2>9 DEF fetchVars
    <2>10. ASSUME NEW f \in Fetchers, HitBreaks(f) PROVE FetchTypeOK'
        <3>1. PICK n \in 0..cache.chunks : reported' = [reported EXCEPT ![f] = @ + n]
            BY <2>10 DEF HitBreaks
        <3> QED BY <2>10, <3>1 DEF HitBreaks
    <2> QED
        BY <2>1, <2>2, <2>3, <2>4, <2>5, <2>6, <2>7, <2>8, <2>9, <2>10
        DEF FetchNext, Step, Break
<1> QED BY <1>1, <1>2, PTL DEF FetchSpec

-----------------------------------------------------------------------------
\* What one fetcher's row owes, and that nothing is carried over from one
\* attempt to the next.
RowInv(f) ==
    /\ pc[f] = "fetching" => reported[f] = downloaded[f]
    /\ pc[f] \in {"start", "evict", "failed"} => downloaded[f] = 0
    /\ pc[f] \in {"start", "failed"} => reported[f] = 0
    /\ pc[f] = "broken" => reported[f] \in 0..Size
    /\ pc[f] \in {"evict", "store", "done"} =>
        body[f] \in Bodies /\ reported[f] = body[f].chunks

LEMMA RowInductive ==
    FetchTypeOK /\ (\A f \in Fetchers : RowInv(f)) /\ [FetchNext]_fetchVars
        => (\A f \in Fetchers : RowInv(f))'
<1> SUFFICES ASSUME FetchTypeOK, \A f \in Fetchers : RowInv(f), [FetchNext]_fetchVars,
                    NEW g \in Fetchers
             PROVE  RowInv(g)'
    OBVIOUS
<1> USE FetchAssumption DEF FetchTypeOK, RowInv, Goto
<1>1. ASSUME NEW f \in Fetchers, Hit(f) PROVE RowInv(g)'
    <2>1. cache \in Bodies /\ cache.chunks \in Int
        BY <1>1 DEF Hit, Bodies
    <2> QED BY <1>1, <2>1 DEF Hit
<1>2. ASSUME NEW f \in Fetchers, Miss(f) PROVE RowInv(g)'
    BY <1>2 DEF Miss
<1>3. ASSUME NEW f \in Fetchers, Evict(f) PROVE RowInv(g)'
    <2>1. body[f].chunks \in Int
        BY NoBodyIsNone DEF Bodies
    <2> QED BY <1>3, <2>1 DEF Evict
<1>4. ASSUME NEW f \in Fetchers, Chunk(f) PROVE RowInv(g)'
    BY <1>4 DEF Chunk
<1>5. ASSUME NEW f \in Fetchers, pc[f] = "fetching", Retry(f) PROVE RowInv(g)'
    BY <1>5 DEF Retry, TakeBack, MayRetry, CountAttempt
<1>6. ASSUME NEW f \in Fetchers, NEW intact \in BOOLEAN, EndOfBody(f, intact)
      PROVE  RowInv(g)'
    <2>1. [chunks |-> downloaded[f], intact |-> intact] \in Bodies
        BY DEF Bodies
    <2> QED BY <1>5, <1>6, <2>1 DEF EndOfBody
<1>7. ASSUME NEW f \in Fetchers, Store(f) PROVE RowInv(g)'
    BY <1>7 DEF Store
<1>8. ASSUME NEW f \in Fetchers, Restart(f) PROVE RowInv(g)'
    BY <1>8 DEF Restart
<1>9. CASE UNCHANGED fetchVars
    BY <1>9 DEF fetchVars
<1>10. ASSUME NEW f \in Fetchers, HitBreaks(f) PROVE RowInv(g)'
    <2>1. cache \in Bodies /\ cache.chunks \in 0..Size
        BY <1>10 DEF HitBreaks, Bodies
    <2>2. PICK n \in 0..cache.chunks : reported' = [reported EXCEPT ![f] = @ + n]
        BY <1>10 DEF HitBreaks
    <2>3. n \in 0..Size /\ reported[f] = 0
        BY <1>10, <2>1, <2>2 DEF HitBreaks
    <2> QED BY <1>10, <2>2, <2>3 DEF HitBreaks
<1> QED
    BY <1>1, <1>2, <1>3, <1>4, <1>5, <1>6, <1>7, <1>8, <1>9, <1>10
    DEF FetchNext, Step, Break

\* The progress row is exact at every moment: no retry, no eviction and no
\* restart makes it over- or undercount (fetchWithProgress).
THEOREM RowAlwaysExact == FetchSpec => []RowExact
<1>1. FetchInit => \A f \in Fetchers : RowInv(f)
    BY DEF FetchInit, RowInv
<1>2. (\A f \in Fetchers : RowInv(f)) /\ FetchTypeOK => RowExact
    BY DEF RowInv, RowExact, FetchTypeOK
<1> QED BY <1>1, <1>2, RowInductive, FetchTypeCorrect, PTL DEF FetchSpec

-----------------------------------------------------------------------------
\* What a fetcher is about to store or has returned passed the verify function
\* of its caller, if there is one.
PassInv == \A f \in Fetchers : pc[f] \in {"store", "done"} => Passes(f, body[f])

LEMMA PassInductive == FetchTypeOK /\ PassInv /\ [FetchNext]_fetchVars => PassInv'
<1> SUFFICES ASSUME FetchTypeOK, PassInv, [FetchNext]_fetchVars, NEW g \in Fetchers,
                    pc'[g] \in {"store", "done"}
             PROVE  Passes(g, body'[g])
    BY DEF PassInv, Passes
<1> USE DEF FetchTypeOK, PassInv, Goto
<1>1. ASSUME NEW f \in Fetchers, Hit(f) PROVE Passes(g, body'[g])
    BY <1>1 DEF Hit
<1>2. ASSUME NEW f \in Fetchers, Miss(f) PROVE Passes(g, body'[g])
    BY <1>2 DEF Miss
<1>3. ASSUME NEW f \in Fetchers, Evict(f) PROVE Passes(g, body'[g])
    BY <1>3 DEF Evict
<1>4. ASSUME NEW f \in Fetchers, Chunk(f) PROVE Passes(g, body'[g])
    BY <1>4 DEF Chunk
<1>5. ASSUME NEW f \in Fetchers, Retry(f) PROVE Passes(g, body'[g])
    BY <1>5 DEF Retry, TakeBack, MayRetry, CountAttempt
<1>6. ASSUME NEW f \in Fetchers, NEW intact \in BOOLEAN, EndOfBody(f, intact)
      PROVE  Passes(g, body'[g])
    BY <1>5, <1>6 DEF EndOfBody
<1>7. ASSUME NEW f \in Fetchers, Store(f) PROVE Passes(g, body'[g])
    BY <1>7 DEF Store
<1>8. ASSUME NEW f \in Fetchers, Restart(f) PROVE Passes(g, body'[g])
    BY <1>8 DEF Restart
<1>9. CASE UNCHANGED fetchVars
    BY <1>9 DEF fetchVars
<1>10. ASSUME NEW f \in Fetchers, HitBreaks(f) PROVE Passes(g, body'[g])
    BY <1>10 DEF HitBreaks
<1> QED
    BY <1>1, <1>2, <1>3, <1>4, <1>5, <1>6, <1>7, <1>8, <1>9, <1>10
    DEF FetchNext, Step, Break

LEMMA PassHolds == FetchSpec => []PassInv
<1>1. FetchInit => PassInv
    BY DEF FetchInit, PassInv
<1> QED BY <1>1, PassInductive, FetchTypeCorrect, PTL DEF FetchSpec

-----------------------------------------------------------------------------
(* Every step of a fetch is one of the promise or does not show.             *)

\* What one caller is told is a matter of its own pc and body.
LEMMA OthersAreTold ==
    ASSUME FetchTypeOK, NEW f \in Fetchers, NEW label, NEW told,
           Goto(f, label), \A g \in Fetchers : g # f => body'[g] = body[g],
           told = CASE label = "done" -> [outcome |-> "answered", body |-> body'[f]]
                    [] label \in {"failed", "broken"} -> Bodiless("error")
                    [] OTHER -> Bodiless("asking")
    PROVE  Told' = [Told EXCEPT ![f] = told]
<1>1. pc'[f] = label /\ \A g \in Fetchers : g # f => pc'[g] = pc[g]
    BY DEF Goto, FetchTypeOK
<1>2. Told'[f] = told
    BY <1>1 DEF Told
<1>3. \A g \in Fetchers : g # f => Told'[g] = Told[g]
    BY <1>1 DEF Told
<1>4. /\ Told = [g \in Fetchers |-> Told[g]]
      /\ Told' = [g \in Fetchers |-> Told'[g]]
    BY DEF Told
<1> QED BY <1>2, <1>3, <1>4

\* A call under way that does not end is told nothing yet.
LEMMA StillAsking ==
    ASSUME NEW f \in Fetchers,
           \A g \in Fetchers : g # f => pc'[g] = pc[g] /\ body'[g] = body[g],
           pc[f] \notin {"done", "failed", "broken"},
           pc'[f] \notin {"done", "failed", "broken"}
    PROVE  UNCHANGED Told
<1>1. \A g \in Fetchers : Told'[g] = Told[g]
    BY DEF Told, Bodiless
<1>2. /\ Told = [g \in Fetchers |-> Told[g]]
      /\ Told' = [g \in Fetchers |-> Told'[g]]
    BY DEF Told
<1> QED BY <1>1, <1>2

LEMMA FetchStepIsOne ==
    FetchTypeOK /\ (\A f \in Fetchers : RowInv(f)) /\ PassInv /\ [FetchNext]_fetchVars
        => [One!OneNext]_One!oneVars
<1> SUFFICES ASSUME FetchTypeOK, \A f \in Fetchers : RowInv(f), PassInv,
                    [FetchNext]_fetchVars
             PROVE  One!OneNext \/ UNCHANGED <<cache, Told>>
    BY DEF One!oneVars
<1>1. ASSUME NEW f \in Fetchers, NEW b \in Bodies, Passes(f, b),
             Told[f] = Bodiless("asking"), cache' = b \/ cache' = cache,
             Told' = [Told EXCEPT ![f] = [outcome |-> "answered", body |-> b]]
      PROVE  One!OneNext
    <2>1. Told[f].outcome = "asking"
        BY <1>1 DEF Bodiless
    <2>2. One!Answer(f)
        BY <1>1, <2>1 DEF One!Answer
    <2> QED BY <2>2 DEF One!OneNext
<1>2. ASSUME NEW f \in Fetchers, Told[f] = Bodiless("asking"), UNCHANGED cache,
             Told' = [Told EXCEPT ![f] = Bodiless("error")]
      PROVE  One!OneNext
    <2>1. One!Fail(f)
        BY <1>2 DEF One!Fail, One!Without, Bodiless
    <2> QED BY <2>1 DEF One!OneNext
<1>3. ASSUME NEW f \in Fetchers, Hit(f) PROVE One!OneNext \/ UNCHANGED <<cache, Told>>
    <2>1. /\ cache \in Bodies /\ UNCHANGED cache /\ Told[f] = Bodiless("asking")
          /\ body'[f] = cache /\ \A g \in Fetchers : g # f => body'[g] = body[g]
        BY <1>3 DEF Hit, FetchTypeOK, Told
    <2>2. CASE Passes(f, cache)
        <3>1. Told' = [Told EXCEPT ![f] = [outcome |-> "answered", body |-> cache]]
            <4>1. Goto(f, "done")
                BY <1>3, <2>2 DEF Hit
            <4>2. Told' = [Told EXCEPT ![f] = [outcome |-> "answered", body |-> body'[f]]]
                BY <2>1, <4>1, OthersAreTold
            <4> QED BY <2>1, <4>2
        <3>2. Told[f] = Bodiless("asking") /\ cache \in Bodies /\ cache' = cache
            BY <2>1
        <3> QED BY <1>1, <2>2, <3>1, <3>2
    <2>3. CASE ~Passes(f, cache)
        BY <1>3, <2>1, <2>3, StillAsking DEF Hit, Goto, FetchTypeOK
    <2> QED BY <2>2, <2>3
<1>4. ASSUME NEW f \in Fetchers, HitBreaks(f) PROVE One!OneNext
    <2>1. Told[f] = Bodiless("asking")
        BY <1>4 DEF HitBreaks, Told
    <2>2. Told' = [Told EXCEPT ![f] = Bodiless("error")]
        BY <1>4, OthersAreTold DEF HitBreaks
    <2> QED BY <1>2, <1>4, <2>1, <2>2 DEF HitBreaks
<1>5. ASSUME NEW f \in Fetchers, Miss(f) \/ Chunk(f) PROVE UNCHANGED <<cache, Told>>
    BY <1>5, StillAsking DEF Miss, Chunk, Goto, FetchTypeOK
<1>6. ASSUME NEW f \in Fetchers, Evict(f) PROVE One!OneNext \/ UNCHANGED <<cache, Told>>
    <2>1. UNCHANGED Told /\ cache' \in {NoBody, cache}
        BY <1>6, StillAsking DEF Evict, Goto, FetchTypeOK
    <2>2. Told[f].outcome = "asking"
        BY <1>6 DEF Evict, Told, Bodiless
    <2> QED BY <2>1, <2>2 DEF One!OneNext, One!Forget
<1>7. ASSUME NEW f \in Fetchers, pc[f] = "fetching", Retry(f)
      PROVE  One!OneNext \/ UNCHANGED <<cache, Told>>
    <2>1. CASE UNCHANGED pc
        BY <1>7, <2>1, StillAsking DEF Retry, Goto, FetchTypeOK
    <2>2. CASE Goto(f, "failed")
        <3>1. Told[f] = Bodiless("asking")
            BY <1>7 DEF Told
        <3>2. Told' = [Told EXCEPT ![f] = Bodiless("error")]
            BY <1>7, <2>2, OthersAreTold DEF Retry
        <3> QED BY <1>2, <1>7, <3>1, <3>2 DEF Retry
    <2> QED BY <1>7, <2>1, <2>2 DEF Retry
<1>8. ASSUME NEW f \in Fetchers, NEW intact \in BOOLEAN, EndOfBody(f, intact)
      PROVE  One!OneNext \/ UNCHANGED <<cache, Told>>
    <2>1. CASE Goto(f, "store") /\ UNCHANGED cache /\ \E b : body' = [body EXCEPT ![f] = b]
        BY <1>8, <2>1, StillAsking DEF EndOfBody, Goto, FetchTypeOK
    <2> QED BY <1>7, <1>8, <2>1 DEF EndOfBody
<1>9. ASSUME NEW f \in Fetchers, Store(f) PROVE One!OneNext
    <2>1. body[f] \in Bodies /\ Passes(f, body[f]) /\ Told[f] = Bodiless("asking")
        BY <1>9 DEF Store, RowInv, PassInv, Told
    <2>2. Told' = [Told EXCEPT ![f] = [outcome |-> "answered", body |-> body[f]]]
        BY <1>9, OthersAreTold DEF Store
    <2> QED BY <1>1, <1>9, <2>1, <2>2 DEF Store
<1>10. ASSUME NEW f \in Fetchers, Restart(f) PROVE One!OneNext \/ UNCHANGED <<cache, Told>>
    <2>1. UNCHANGED cache /\ \A g \in Fetchers : g # f => body'[g] = body[g]
        BY <1>10 DEF Restart, FetchTypeOK
    <2>2. CASE pc[f] \in {"done", "failed", "broken"}
        <3>1. Told' = [Told EXCEPT ![f] = Bodiless("asking")]
            BY <1>10, <2>1, OthersAreTold DEF Restart
        <3>2. Told[f].outcome # "asking"
            BY <2>2 DEF Told, Bodiless
        <3>3. One!Again(f)
            BY <2>1, <3>1, <3>2 DEF One!Again, One!Without, Bodiless
        <3> QED BY <3>3 DEF One!OneNext
    <2>3. CASE pc[f] \notin {"done", "failed", "broken"}
        BY <1>10, <2>1, <2>3, StillAsking DEF Restart, Goto, FetchTypeOK
    <2> QED BY <2>2, <2>3
<1>11. CASE UNCHANGED fetchVars
    BY <1>11 DEF fetchVars, Told
<1> QED
    BY <1>3, <1>4, <1>5, <1>6, <1>7, <1>8, <1>9, <1>10, <1>11 DEF FetchNext, Step, Break

\* To its callers fetchWithProgress is one step from asking to a body the
\* caller accepts or an error, and what it keeps for later visits changes only
\* to a body that the caller who stored it accepts or to none.
THEOREM FetchActsAsOne == FetchSpec => ActsAsOne
<1>1. FetchInit => One!OneInit
    BY DEF FetchInit, One!OneInit, One!Without, Told, Bodiless
<1>2. FetchInit => \A f \in Fetchers : RowInv(f)
    BY DEF FetchInit, RowInv
<1> QED
    BY <1>1, <1>2, FetchStepIsOne, RowInductive, PassHolds, FetchTypeCorrect, PTL
    DEF FetchSpec, ActsAsOne, One!OneSpec

=============================================================================
