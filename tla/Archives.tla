------------------------------ MODULE Archives ------------------------------
(***************************************************************************)
(* What arrives of an archive, and what the share has of it: Source with   *)
(* the parser and the writer of Unpack behind it, and the hashes of        *)
(* NixHash before it.                                                      *)
(***************************************************************************)
EXTENDS Source, Unpack, NixHash

\* What may arrive in the place of the archive's bytes: fewer of them, or
\* others, as the decoders have been seen to do.
Damaged(bytes, damage, k) ==
    CASE damage = "none" -> bytes
      [] damage = "short" -> SubSeq(bytes, 1, k)
      [] damage = "wrong" -> [bytes EXCEPT ![k] = [cell |-> "?", length |-> 1]]

\* A store path in the share before its archive is written.
Root == <<"path">>
Empty == [p \in {<<>>} |-> [type |-> "directory"]]

Unreadable == [ok |-> FALSE, damage |-> "wrong", length |-> 0, entries |-> <<>>]

\* fetchNar's last step and share.write: bytes, parsed and written.  One
\* that fails in them fails the boot, of whatever length it is.
Arrival(packed, damage, k) ==
    LET bytes == Damaged(packed, damage, k)
        parsed == ParseNar(bytes) IN
    IF parsed.ok /\ WriteEntries(Empty, Root, parsed.entries).ok
    THEN [ok |-> TRUE, damage |-> IF bytes = packed THEN "none" ELSE damage,
          length |-> Len(bytes), entries |-> parsed.entries]
    ELSE Unreadable

\* The Arrivals of Source: whole, cut at every cell, damaged at every cell.
ParsedArrivals ==
    [build \in DOMAIN Tree |->
        LET packed == PackNar(Tree[build]) IN
        {Arrival(packed, "none", 1)} \cup
        {Arrival(packed, x[1], x[2]) : x \in {"short", "wrong"} \X DOMAIN packed}]
-----------------------------------------------------------------------------
\* parseNar: an archive that ended early is refused, even where neither a
\* size nor a hash is known, unless all it lost was padding.
CutIsRefused ==
    archive.damage = "short" =>
        archive.entries = Tree[Served[<<info[archive.digest].from, archive.digest>>]]

\* writeEntries: in the share each link leads where it led in the archive,
\* although its target is another, unless the target climbs out of a
\* directory it entered through a link, or past "/" (absoluteTarget).
LinksKeepMeaning ==
    LET written == WriteEntries(Empty, Root, archive.entries).fs
        packed == AsPacked(Root, archive.entries) IN
    archive.damage = "none" =>
        \A e \in {e \in ToSet(archive.entries) : e.type = "symlink"} :
            Climbs(packed, Front(Root \o e.path), e.target)
            \/ Lead(written, Root \o e.path, <<>>, 5) = Lead(packed, Root \o e.path, <<>>, 5)

\* verifyHash: what VerifyUnpacked takes for granted of a text and a hash is
\* so for every one of them (decodeNixBase32, decodeHex, decodersFor).
HashesRight == AnswersRight[browser # "none"]
=============================================================================
