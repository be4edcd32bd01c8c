-------------------------------- MODULE Farm --------------------------------
(***************************************************************************)
(* The link farm of the store share: storeShare.linkAll (site/js/boot.js)  *)
(* over linkPrograms (site/js/store.js).  The farm maps a program name to  *)
(* the store path its link names.                                          *)
(*                                                                         *)
(* The code links one path after another; LinkAll says what the whole      *)
(* batch leaves, name by name.  MCStoreShare compares it with the loop.    *)
(***************************************************************************)
EXTENDS Integers, Sequences, FiniteSets

CONSTANTS
    Paths,     \* store paths
    Names,     \* program names
    Programs,  \* Programs[p]: the programs directly under p's bin/
    NoPath     \* no link by that name

ASSUME FarmAssumption ==
    /\ IsFiniteSet(Paths)
    /\ Programs \in [Paths -> SUBSET Names]
    /\ NoPath \notin Paths

Members(s) == {s[i] : i \in 1..Len(s)}

\* The set S as a sequence, in any order.
Orders(S) == {s \in [1..Cardinality(S) -> S] : \A p \in S : \E i \in DOMAIN s : s[i] = p}

\* Where s offers n; a path that is repeated counts where it first stands,
\* as digestsOf (site/js/app.js) drops the repeats.
Offering(s, n) ==
    {i \in 1..Len(s) : n \in Programs[s[i]] /\ \A j \in 1..(i - 1) : s[j] # s[i]}

\* The first and the last path of s that offer n.
FirstOffering(s, n) ==
    LET I == Offering(s, n) IN
    IF I = {} THEN NoPath ELSE s[CHOOSE i \in I : \A j \in I : i <= j]

LastOffering(s, n) ==
    LET I == Offering(s, n) IN
    IF I = {} THEN NoPath ELSE s[CHOOSE i \in I : \A j \in I : j <= i]

OrElse(p, q) == IF p = NoPath THEN q ELSE p

\* The roots go first, each replacing or keeping an existing link as
\* precedence says; the rest of the batch only fills names still free.
LinkAll(farm, basenames, roots, precedence) ==
    [n \in Names |->
        LET chosen ==
                IF precedence = "replace"
                THEN OrElse(LastOffering(roots, n), farm[n])
                ELSE OrElse(farm[n], FirstOffering(roots, n))
        IN  OrElse(chosen, FirstOffering(basenames, n))]
=============================================================================
