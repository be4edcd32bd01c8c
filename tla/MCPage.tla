------------------------------- MODULE MCPage -------------------------------
(* A small page, its readers, and what its Keep stands for. *)
EXTENDS Page

CONSTANTS jq, rg, raw, lib, boot, again, add, more

Reader(picks, calls) == [picks |-> picks, calls |-> calls]
\* Two boots and an add, or a boot and two adds, with little to pick; or more
\* to pick, two of each kind, and a boot.
MCReaders ==
    {Reader({jq, raw}, {boot, again, add}), Reader({jq, raw}, {boot, add, more}),
     Reader(Packages, {boot})}

\* Keep is the filter of the code on every short selection.
ASSUME KeepIsTheFilter ==
    \A n \in 0..4 : \A s \in [1..n -> 0..2], S \in SUBSET (0..2) :
        Keep(s, S) = SelectSeq(s, LAMBDA x : x \in S)
=============================================================================
