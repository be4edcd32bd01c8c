------------------------------- MODULE Index -------------------------------
(***************************************************************************)
(* What the nixpkgs index answers, as pure operators: the order of         *)
(* versions (multiverse.js), the ranges a line may ask for and what they   *)
(* resolve to (ranges.js).                                                 *)
(*                                                                         *)
(* A version is the sequence of its components, each                       *)
(*   [sep |-> the separator before it, num |-> the integer Number() makes  *)
(*    of it or NotANumber, lex |-> its place in the order of the words].   *)
(* A pattern is a version too, one that may end in a star: the component   *)
(* whose place is 0, below every word (a star is always ".*" or alone).    *)
(***************************************************************************)
EXTENDS Integers, Sequences, FiniteSets, SequencesExt

CONSTANTS
    Attrs,     \* attributes of the index
    Releases   \* of each attribute: a set of [attr, ver, alive, digest]

ASSUME IndexAssumption ==
    \A a \in Attrs : \A r \in Releases[a] :
        /\ r.attr = a /\ r.alive \in {"yes", "no", "unknown"}
        /\ r.ver \in Seq([sep : STRING, num : Int, lex : Nat])
ASSUME IndexIsFinite == \A a \in Attrs : IsFiniteSet(Releases[a])

NotANumber == -1

AllReleases == UNION {Releases[a] : a \in Attrs}

\* Two integers compare as numbers, everything else as words.
CompareComponents(x, y) ==
    IF x.num # NotANumber /\ y.num # NotANumber THEN x.num - y.num ELSE x.lex - y.lex

\* Mutant: every component compares as a word.
CompareWords(a, b) ==
    LET differ == {i \in DOMAIN a \cap DOMAIN b : a[i].lex # b[i].lex} IN
    IF differ = {} THEN Len(a) - Len(b)
    ELSE LET i == Min(differ) IN a[i].lex - b[i].lex

\* The first component that differs decides; when the shared ones are all
\* equal the shorter version is the smaller.
CompareVersions(a, b) ==
    LET differ == {i \in DOMAIN a \cap DOMAIN b : CompareComponents(a[i], b[i]) # 0} IN
    IF differ = {} THEN Len(a) - Len(b)
    ELSE LET i == Min(differ) IN CompareComponents(a[i], b[i])

\* The versions of each attribute, newest first.
VersionsOf ==
    [attr \in Attrs |->
        CHOOSE s \in SetToSeqs(Releases[attr]) :
            \A i, j \in DOMAIN s : i < j => CompareVersions(s[i].ver, s[j].ver) >= 0]

\* version === prefix || version.startsWith(prefix + ".")
BeginsWith(ver, prefix) ==
    /\ prefix # <<>>
    /\ IsPrefix(prefix, ver)
    /\ Len(ver) > Len(prefix) => ver[Len(prefix) + 1].sep = "."

\* pattern.replace(/\.?\*$/, "")
WithoutStar(pattern) ==
    IF pattern # <<>> /\ Last(pattern).lex = 0 THEN Front(pattern) ELSE pattern

\* Only the prefix match knows the star: an operator compares with the
\* pattern as it was typed.
Matches(spec, ver) ==
    LET order == CompareVersions(ver, spec.pattern) IN
    CASE spec.operator = "any" -> TRUE
      [] spec.operator = "=" -> BeginsWith(ver, WithoutStar(spec.pattern))
      [] spec.operator = ">=" -> order >= 0
      [] spec.operator = "<=" -> order <= 0
      [] spec.operator = ">" -> order > 0
      [] spec.operator = "<" -> order < 0

\* A build the census never looked at is worth an attempt, a dead one not.
Takes(spec, r) == r.alive # "no" /\ Matches(spec, r.ver)

\* Where among the versions of its attribute there is one a spec takes.
Hits(spec) ==
    {i \in DOMAIN VersionsOf[spec.attr] : Takes(spec, VersionsOf[spec.attr][i])}

\* The first build each spec of a line takes, and the spec's place in the
\* line; a spec whose attribute the index does not hold, or that takes
\* nothing, is only reported.
ResolveSpecs(line, known) ==
    {[at |-> i, release |-> VersionsOf[line[i].attr][Min(Hits(line[i]))]] :
        i \in {i \in DOMAIN line : line[i].attr \in known /\ Hits(line[i]) # {}}}
=============================================================================
