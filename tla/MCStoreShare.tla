---------------------------- MODULE MCStoreShare ----------------------------
(* A package above a library, one whose programs are in a bin sibling, and *)
(* a name that the sibling and the library both offer.                     *)
EXTENDS GuestNames, SequencesExt

MCPaths == {"app", "tool", "tool-bin", "lib"}
MCPrograms == [p \in MCPaths |-> IF p \in {"tool-bin", "lib"} THEN {"json"} ELSE {}]
MCRuntime == [p \in MCPaths |-> IF p = "app" THEN {"app", "lib"} ELSE {p}]
MCSibling == [p \in MCPaths |-> IF p = "tool" THEN "tool-bin" ELSE NoPath]
MCSelectable == {"app", "tool", "lib"}

\* linkPrograms (store.js): one name after another, an existing link kept
\* or replaced.
LinkPrograms(f, p, precedence) ==
    [n \in Names |->
        IF n \in Programs[p] /\ (f[n] = NoPath \/ precedence = "replace") THEN p ELSE f[n]]

\* The two loops of linkAll (boot.js): the roots, then the batch without
\* them, which always keeps.
LinkLoop(f, basenames, batchRoots, precedence) ==
    LET afterRoots ==
            FoldLeft(LAMBDA g, p : LinkPrograms(g, p, precedence), f, batchRoots)
        rest == SelectSeq(basenames, LAMBDA p : ~Contains(batchRoots, p))
    IN  FoldLeft(LAMBDA g, p : LinkPrograms(g, p, "keep"), afterRoots, rest)

\* Every batch leaves the farm that the two loops of linkAll leave, roots
\* that are named twice and roots that are not of the batch included.
Batches == UNION {Orders(S) : S \in SUBSET Paths}
RootLists == UNION {[1..n -> Paths] : n \in 0..2}
ASSUME LinkAllIsTheLoop ==
    \A f \in [Names -> Paths \cup {NoPath}], batch \in Batches, batchRoots \in RootLists,
       precedence \in {"keep", "replace"} :
        LinkAll(f, batch, batchRoots, precedence) = LinkLoop(f, batch, batchRoots, precedence)
=============================================================================
