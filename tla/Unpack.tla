------------------------------- MODULE Unpack -------------------------------
(***************************************************************************)
(* From the bytes of an archive to files in the share: parseNar (nar.js)   *)
(* and writeEntries (store.js).                                            *)
(*                                                                         *)
(* Bytes are cells.  A string is a length in PAD cells, then its cells,    *)
(* then cells up to a multiple of PAD; a token of the format is one cell,  *)
(* a symlink's target one cell per component, as split("/") has them: an   *)
(* absolute one begins with an empty component.                            *)
(***************************************************************************)
EXTENDS Integers, Sequences, SequencesExt

CONSTANT PAD

ASSUME UnpackAssumption == PAD \in Nat \ {0}

Refusal == [entries |-> <<>>, rest |-> <<<<"refused">>>>, ok |-> FALSE]

RECURSIVE Blobs(_, _)

\* The strings a reader finds from an offset on, as long as a length can be
\* read; subarray cuts the last one short without a word.
Blobs(bytes, offset) ==
    IF offset + PAD > Len(bytes) THEN <<>>
    ELSE LET length == bytes[offset + 1].length
             from == offset + PAD
             to == IF from + length < Len(bytes) THEN from + length ELSE Len(bytes)
         IN  <<[i \in 1..(to - from) |-> bytes[from + i].cell]>>
                \o Blobs(bytes, from + length + ((PAD - (length % PAD)) % PAD))

T(token) == <<token>>

\* Whether the next strings are these tokens; "*" is any string.
Expect(ts, tokens) ==
    /\ Len(tokens) <= Len(ts)
    /\ \A i \in DOMAIN tokens : tokens[i] = "*" \/ ts[i] = T(tokens[i])

After(ts, k) == SubSeq(ts, k + 1, Len(ts))

\* Mutant: the bracket after a file or a link is not asked for.
ClosedAnyhow(entry, ts, k) == [entries |-> <<entry>>, rest |-> After(ts, k + 1), ok |-> TRUE]

\* The node that the first k strings are, its bracket closed.
Closed(entry, ts, k) ==
    IF Expect(After(ts, k), <<")">>)
    THEN [entries |-> <<entry>>, rest |-> After(ts, k + 1), ok |-> TRUE]
    ELSE Refusal

RECURSIVE ParseNode(_, _), ParseEntries(_, _)

\* The "executable" flag is followed by an empty string.
ParseNode(ts, path) ==
    CASE Expect(ts, <<"(", "type", "regular", "contents", "*">>) ->
            Closed([path |-> path, type |-> "regular", executable |-> FALSE, data |-> ts[5]], ts, 5)
      [] Expect(ts, <<"(", "type", "regular", "executable", "*", "contents", "*">>)
            /\ ts[5] = <<>> ->
            Closed([path |-> path, type |-> "regular", executable |-> TRUE, data |-> ts[7]], ts, 7)
      [] Expect(ts, <<"(", "type", "symlink", "target", "*">>) ->
            Closed([path |-> path, type |-> "symlink", target |-> ts[5]], ts, 5)
      [] Expect(ts, <<"(", "type", "directory">>) ->
            LET inside == ParseEntries(After(ts, 3), path) IN
            [inside EXCEPT !.entries = <<[path |-> path, type |-> "directory"]>> \o @]
      [] OTHER -> Refusal

ParseEntries(ts, path) ==
    CASE Expect(ts, <<")">>) -> [entries |-> <<>>, rest |-> Tail(ts), ok |-> TRUE]
      [] Expect(ts, <<"entry", "(", "name", "*", "node">>) ->
            LET node == ParseNode(After(ts, 5), path \o ts[4])
                others == ParseEntries(Tail(node.rest), path)
            IN  IF node.ok /\ Expect(node.rest, <<")">>)
                THEN [others EXCEPT !.entries = node.entries \o @]
                ELSE Refusal
      [] OTHER -> Refusal

\* What comes after the root's last bracket is not looked at.
ParseNar(bytes) ==
    LET ts == Blobs(bytes, 0) IN
    IF Expect(ts, <<"nix-archive-1">>) THEN ParseNode(Tail(ts), <<>>) ELSE Refusal
-----------------------------------------------------------------------------
\* One component of a relative target.  pop takes whatever is last, the
\* empty component before the leading slash as well.
Step(parts, part) ==
    CASE part \in {"", "."} -> parts
      [] part = ".." -> IF parts = <<>> THEN parts ELSE Front(parts)
      [] OTHER -> Append(parts, part)

IsAbsolute(target) == Len(target) > 1 /\ Head(target) = ""

Split(path) == <<"">> \o path

\* Mutant: a relative target is resolved against the link itself.
AbsoluteTargetOfLink(link, target) ==
    IF IsAbsolute(target) THEN target ELSE FoldLeft(Step, Split(link), target)

\* A relative target is resolved against the directory of the link, component
\* by component, whatever those are.  Past "/" the result is relative after
\* all, and of "/" itself nothing is left.
AbsoluteTarget(link, target) ==
    IF IsAbsolute(target) THEN target ELSE FoldLeft(Step, Split(Front(link)), target)

\* What MEMFS refuses: a name taken, no directory to put it in, or a link to
\* nowhere (an empty text has no component, or an empty one).
Fits(fs, path, node) ==
    /\ path \notin DOMAIN fs /\ Front(path) \in DOMAIN fs /\ fs[Front(path)].type = "directory"
    /\ node.type = "symlink" => node.target \notin {<<>>, <<"">>}

Put(fs, path, node) == [p \in DOMAIN fs \cup {path} |-> IF p = path THEN node ELSE fs[p]]

\* One entry; the root directory may be there, and its parents are.
WriteEntry(state, root, entry) ==
    LET path == root \o entry.path
        node == IF entry.type = "symlink"
                THEN [type |-> "symlink", target |-> AbsoluteTarget(path, entry.target)]
                ELSE [f \in DOMAIN entry \ {"path"} |-> entry[f]]
    IN  IF state.ok /\ (Fits(state.fs, path, node) \/ (entry.path = <<>> /\ entry.type = "directory"))
        THEN [state EXCEPT !.fs = Put(@, path, node)]
        ELSE [state EXCEPT !.ok = FALSE]

WriteEntries(fs, root, entries) ==
    FoldLeft(LAMBDA s, e : WriteEntry(s, root, e), [fs |-> fs, ok |-> TRUE], entries)
-----------------------------------------------------------------------------
(* The format and the file system as their own documents define them, for  *)
(* the properties.  A tree is its entries, each directory before what is   *)
(* in it, with the names of a directory in order.                          *)

Cell(c) == [cell |-> c, length |-> 0]
Pack(string) ==
    LET length == Len(string) IN
    [i \in 1..(PAD + length + ((PAD - (length % PAD)) % PAD)) |->
        IF i = 1 THEN [cell |-> "", length |-> length]
        ELSE IF i - PAD \in 1..length THEN Cell(string[i - PAD]) ELSE Cell("")]

Brackets(tokens) == FoldLeft(LAMBDA bytes, t : bytes \o Pack(t), <<>>, tokens)

RECURSIVE PackNode(_, _)
PackNode(tree, path) ==
    LET e == CHOOSE e \in ToSet(tree) : e.path = path
        children == SelectSeq(tree, LAMBDA c : c.path # <<>> /\ Front(c.path) = path)
        child(c) == Brackets(<<T("entry"), T("("), T("name"), <<Last(c.path)>>, T("node")>>)
                        \o PackNode(tree, c.path) \o Pack(T(")"))
    IN  Brackets(<<T("("), T("type"), T(e.type)>>)
        \o (CASE e.type = "regular" ->
                    Brackets((IF e.executable THEN <<T("executable"), <<>>>> ELSE <<>>)
                             \o <<T("contents"), e.data>>)
              [] e.type = "symlink" -> Brackets(<<T("target"), e.target>>)
              [] e.type = "directory" ->
                    FoldLeft(LAMBDA bytes, c : bytes \o child(c), <<>>, children))
        \o Pack(T(")"))

PackNar(tree) == Pack(T("nix-archive-1")) \o PackNode(tree, <<>>)

\* A tree where the page puts it, its links as the archive has them.
AsPacked(root, tree) ==
    [p \in {root \o e.path : e \in ToSet(tree)} |->
        LET e == CHOOSE e \in ToSet(tree) : root \o e.path = p IN
        [f \in DOMAIN e \ {"path"} |-> e[f]]]

\* One component of a path, as the kernel takes it: above "/" is "/".
Enter(at, part) ==
    CASE part \in {"", "."} -> at
      [] part = ".." -> IF at = <<>> THEN at ELSE Front(at)
      [] OTHER -> Append(at, part)

RECURSIVE Lead(_, _, _, _)

\* Where a path leads in fs, starting from "at", links followed on the way;
\* the kernel gives up on a loop, and what fs lacks holds no links.
Lead(fs, at, parts, links) ==
    IF links = 0 THEN <<"loop">>
    ELSE IF at \in DOMAIN fs /\ fs[at].type = "symlink"
    THEN LET target == fs[at].target IN
         IF IsAbsolute(target) THEN Lead(fs, <<>>, target \o parts, links - 1)
         ELSE Lead(fs, Front(at), target \o parts, links - 1)
    ELSE IF parts = <<>> THEN at
    ELSE Lead(fs, Enter(at, Head(parts)), Tail(parts), links)

\* The places a relative target steps up from, by its components alone.
StepsUpFrom(dir, target) ==
    {FoldLeft(Enter, dir, SubSeq(target, 1, k - 1)) : k \in {k \in DOMAIN target : target[k] = ".."}}

\* A resolution by components alone gets a target wrong that steps out of a
\* directory it entered through a link; and absoluteTarget one that steps up
\* from "/".
Climbs(fs, dir, target) ==
    \E at \in StepsUpFrom(dir, target) :
        at = <<>> \/ (at \in DOMAIN fs /\ fs[at].type = "symlink")
=============================================================================
