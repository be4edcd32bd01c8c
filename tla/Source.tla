------------------------------- MODULE Source -------------------------------
(***************************************************************************)
(* Where the bytes of a boot come from: the sibling outputs of what is     *)
(* selected (outputs.js), the binary caches asked for each narinfo and the *)
(* signatures on it (substituters.js), and the archive checked against the *)
(* narinfo (store.js), with the cache list edited while narinfos are on    *)
(* their way (app.js).                                                     *)
(*                                                                         *)
(* A build is what an archive contains, and stands for its NarHash.  The   *)
(* walk from a narinfo to its references is ClosureWalk's, the download    *)
(* and its retries are NarFetch's, and Archives says what the parser makes *)
(* of what arrives.                                                        *)
(***************************************************************************)
EXTENDS Integers, SequencesExt

CONSTANTS
    Digests,    \* store paths
    Selections, \* what may be selected: sequences of digests
    Bin,        \* of some digests: the digest of the "bin" output
    ShardOf,    \* of each digest: its shard of the sibling map
    Default,    \* DEFAULT_SUBSTITUTERS: a sequence of caches
    Lists,      \* what the caches lane may parse to: sequences of caches
    Text,       \* of <<url, digest>>: the narinfo there, where there is one
    Served,     \* of <<url, digest>>: the build whose archive is there
    Tree,       \* of each build: its entries
    Arrivals,   \* of each build, what may arrive of its archive: how long it is,
                \* whether it parses and can be written, and its entries
    KeptBefore, \* what earlier visits may have left: of each <<url, digest>> a copy, or "none"
    MaxEdits    \* bound: edits of the caches lane

Copies == {"whole", "cut"}

ASSUME SourceAssumption ==
    /\ Selections \subseteq Seq(Digests)
    /\ DOMAIN Bin \subseteq Digests /\ \A d \in DOMAIN Bin : Bin[d] \in Digests
    /\ \A list \in Lists \cup {Default} : list \in Seq(ToSet(list))
    /\ DOMAIN Text = DOMAIN Served
    /\ \A at \in DOMAIN Text :
        /\ {Text[at].build, Served[at]} \subseteq DOMAIN Tree
        /\ Text[at].sigs \in Seq(ToSet(Text[at].sigs))
    /\ KeptBefore \subseteq [DOMAIN Text -> Copies \cup {"none"}]
    /\ MaxEdits \in Nat

\* What nix packed, and nothing damaged, reads as what was packed.
ASSUME ArrivalsAssumption ==
    \A build \in DOMAIN Tree : \A arrival \in Arrivals[build] :
        arrival.ok /\ arrival.damage = "none" => arrival.entries = Tree[build]

VARIABLES
    stage,
    browser,   \* what SubtleCrypto can do here
    selection,
    shards,    \* of each shard: "unasked", "ok", or "empty" when it failed
    roots,     \* so far: the digest and the set of its bin output
    wanted,    \* digestsOf of those
    extra,     \* the extra caches in effect
    edits,
    lookup,    \* of each wanted digest: the list it goes through, and how far
    kept,      \* the persistent cache: of each <<url, digest>> a copy, or not
    info,      \* of each digest found: its cache, and the copy it came as
    verdict,   \* what verify said of it
    archive,   \* the last archive unpacked, written to the share
    programs,  \* of each digest written: programsOf
    silent     \* the selections reported to have no programs

bootVars == <<selection, shards, roots, wanted, lookup, info, verdict, archive, programs, silent>>
vars == <<stage, browser, bootVars, extra, edits, kept>>

NoArchive == [digest |-> "none", damage |-> "none", entries |-> <<>>]

Init ==
    /\ shards = [s \in {ShardOf[d] : d \in Digests} |-> "unasked"]
    /\ roots = <<>> /\ wanted = <<>>
    /\ lookup = <<>> /\ info = <<>> /\ verdict = <<>>
    /\ archive = NoArchive
    /\ programs = <<>> /\ silent = {}
    /\ extra = <<>> /\ edits = 0
    /\ stage = "roots"
    /\ selection \in Selections
    /\ browser \in {"ed25519", "sha256", "none"}
    /\ kept \in KeptBefore
-----------------------------------------------------------------------------
\* Mutant: a root without a bin output is not told from one with it.
TakeRootOrNull(ds, root) ==
    ds \o <<root.digest>> \o (IF root.bin = {} THEN <<"null">> ELSE SetToSeq(root.bin))

\* Mutant: a digest named twice is kept twice.
TakeRootAgain(ds, root) == ds \o <<root.digest>> \o SetToSeq(root.bin)

\* digestsOf, one turn of its loop: the store paths a root names, unless
\* they are there already.
TakeRoot(ds, root) ==
    LET Add(to, d) == IF d \in ToSet(to) THEN to ELSE Append(to, d)
        withDigest == Add(ds, root.digest)
    IN  IF root.bin = {} THEN withDigest
        ELSE Add(withDigest, CHOOSE d \in root.bin : TRUE)

\* rootsOf: one selected digest after the other.  A shard is asked once in
\* the life of the page; one that fails has no siblings.  digestsOf goes
\* over the roots in the order they were found in, and is taken along.
AskRoot ==
    /\ stage = "roots" /\ Len(roots) < Len(selection)
    /\ LET d == selection[Len(roots) + 1] IN
       \E answer \in {"ok", "empty"} :
           LET root == [digest |-> d,
                        bin |-> IF d \in DOMAIN Bin /\ answer = "ok" THEN {Bin[d]} \ {d} ELSE {}]
           IN  /\ shards[ShardOf[d]] \in {"unasked", answer}
               /\ shards' = [shards EXCEPT ![ShardOf[d]] = answer]
               /\ roots' = Append(roots, root)
               /\ wanted' = TakeRoot(wanted, root)
    /\ UNCHANGED <<stage, browser, selection, extra, edits, lookup, kept, info,
                   verdict, archive, programs, silent>>

ReadSubstituters == Default \o extra

NotStarted == [list |-> <<>>, at |-> 0]

Walk ==
    /\ stage = "roots" /\ Len(roots) = Len(selection)
    /\ stage' = "lookup"
    /\ lookup' = [d \in ToSet(wanted) |-> NotStarted]
    /\ UNCHANGED <<browser, selection, shards, roots, wanted, extra, edits, kept, info, verdict,
                   archive, programs, silent>>

\* An edit of the lane that parses is in effect at once; one that does not
\* leaves the last good list, and is no step.
EditCaches ==
    /\ stage \in {"roots", "lookup"} /\ edits < MaxEdits
    /\ extra' \in Lists
    /\ edits' = edits + 1
    /\ UNCHANGED <<stage, browser, bootVars, kept>>
-----------------------------------------------------------------------------
Looking(d) == stage \in {"lookup", "failed"} /\ d \in DOMAIN lookup /\ d \notin DOMAIN info
Here(d) == <<lookup[d].list[lookup[d].at].url, d>>
Asking(d) == Looking(d) /\ lookup[d].at \in 1..Len(lookup[d].list)
Stored(at) == at \in DOMAIN kept /\ kept[at] # "none"
With(f, k, v) == [x \in DOMAIN f \cup {k} |-> IF x = k THEN v ELSE f[x]]

\* fetchFrom: the list is read when the lookup starts.
Start(d) ==
    /\ Looking(d) /\ lookup[d].at = 0
    /\ lookup' = [lookup EXCEPT ![d] = [list |-> ReadSubstituters, at |-> 1]]
    /\ UNCHANGED <<stage, browser, selection, shards, roots, wanted, extra, edits, kept,
                   info, verdict, archive, programs, silent>>

Found(d, copy) ==
    /\ info' = With(info, d, [from |-> Here(d)[1], copy |-> copy])
    /\ UNCHANGED <<stage, browser, selection, shards, roots, wanted, extra, edits, lookup,
                   verdict, archive, programs, silent>>

FromBrowser(d) ==
    /\ Asking(d) /\ Stored(Here(d))
    /\ Found(d, kept[Here(d)])
    /\ UNCHANGED kept

\* The text may end early without an error, as bodies do in Fetch; keeping
\* it may fail without a word, as may finding what is kept.
FromCache(d) ==
    /\ Asking(d) /\ Here(d) \in DOMAIN Text
    /\ \E copy \in Copies :
        /\ Found(d, copy)
        /\ kept' \in {kept, [kept EXCEPT ![Here(d)] = copy]}

\* Not there, or an HTTP error of another kind; or no answer at all, or a
\* kept text that cannot be read, which is kept for the message.
NotHere(d) ==
    /\ Asking(d)
    /\ lookup' = [lookup EXCEPT ![d].at = @ + 1]
    /\ UNCHANGED <<stage, browser, selection, shards, roots, wanted, extra, edits, kept,
                   info, verdict, archive, programs, silent>>

\* No cache of the list is left: the walk, and with it the boot, fails; the
\* lookups beside it go on.
LookupFails(d) ==
    /\ Looking(d) /\ lookup[d].at > Len(lookup[d].list) /\ stage = "lookup"
    /\ stage' = "failed"
    /\ UNCHANGED <<browser, bootVars, extra, edits, kept>>
-----------------------------------------------------------------------------
\* parseNarinfo of a copy: a text that ends early has lost the hash, the
\* size and the signatures, which come last, and nobody notices.
Narinfo(at, copy) ==
    [build |-> Text[at].build,
     readable |-> Text[at].readable,
     hashed |-> copy = "whole",
     size |-> IF copy = "whole" THEN Text[at].size ELSE 0,
     sigs |-> IF copy = "whole" THEN Text[at].sigs ELSE <<>>]

NarinfoOf(d) == Narinfo(<<info[d].from, d>>, info[d].copy)

Signed(sig, key, narinfo) == sig.by = key.by /\ sig.covers = narinfo.build

KeysNamed(list, sig) == {i \in DOMAIN list : list[i].name = sig.name}

\* What the first key of a signature's name says of it.
Says(sig, narinfo, list) ==
    LET key == list[Min(KeysNamed(list, sig))] IN
    CASE browser # "ed25519" \/ ~sig.readable \/ ~key.readable -> "null"
      [] OTHER -> IF Signed(sig, key, narinfo) THEN "true" ELSE "false"

Known(narinfo, list) == {i \in DOMAIN narinfo.sigs : KeysNamed(list, narinfo.sigs[i]) # {}}

\* Mutant: the first signature with a known name decides.
DecisiveKnown(narinfo, list) == Known(narinfo, list)

\* The signatures that end verify's loop.
Decisive(narinfo, list) ==
    {i \in Known(narinfo, list) : Says(narinfo.sigs[i], narinfo, list) # "false"}

Verify(narinfo, list) ==
    LET decisive == Decisive(narinfo, list) IN
    CASE narinfo.sigs = <<>> -> "false"
      [] narinfo.sigs # <<>> /\ browser = "none" -> "null"
      [] OTHER -> IF decisive = {} THEN "false" ELSE Says(narinfo.sigs[Min(decisive)], narinfo, list)

\* The verdicts are only reported: no path is left out for one.
CheckSignatures ==
    /\ stage = "lookup" /\ DOMAIN info = ToSet(wanted)
    /\ stage' = "unpack"
    /\ verdict' = [d \in DOMAIN info |-> Verify(NarinfoOf(d), ReadSubstituters)]
    /\ lookup' = <<>>
    /\ UNCHANGED <<browser, selection, shards, roots, wanted, info, archive, programs,
                   silent, extra, edits, kept>>
-----------------------------------------------------------------------------
\* Mutant: the size is all that is compared.
SizeFits(narinfo, arrival, build) == narinfo.size # 0 => arrival.length = narinfo.size

\* verifyUnpacked: the size where one is known, and the hash where one is
\* known and the browser has SHA-256.
VerifyUnpacked(narinfo, arrival, build) ==
    /\ narinfo.size # 0 => arrival.length = narinfo.size
    /\ narinfo.hashed /\ browser # "none" =>
            narinfo.readable /\ arrival.damage = "none" /\ build = narinfo.build

\* Executables and symlinks directly under bin.
ProgramsOf(entries) ==
    {e.path[2] : e \in {e \in ToSet(entries) :
        /\ Len(e.path) = 2 /\ e.path[1] = "bin"
        /\ e.type = "symlink" \/ (e.type = "regular" /\ e.executable)}}

\* The archive comes from the cache the narinfo came from, and is written
\* under the digest; what fails in it fails the boot.
Unpack(d) ==
    /\ stage = "unpack" /\ d \in DOMAIN info \ DOMAIN programs
    /\ LET build == Served[<<info[d].from, d>>] IN
       \E arrival \in Arrivals[build] :
           IF VerifyUnpacked(NarinfoOf(d), arrival, build) /\ arrival.ok
           THEN /\ archive' = [digest |-> d, damage |-> arrival.damage,
                               entries |-> arrival.entries]
                /\ programs' = With(programs, d, ProgramsOf(arrival.entries))
                /\ UNCHANGED stage
           ELSE /\ stage' = "failed"
                /\ UNCHANGED <<archive, programs>>
    /\ UNCHANGED <<browser, selection, shards, roots, wanted, lookup, info, verdict, silent,
                   extra, edits, kept>>

\* A selection is silent when neither it nor its bin output has programs.
Silent(rs) ==
    {r.digest : r \in {r \in ToSet(rs) : \A d \in {r.digest} \cup r.bin : programs[d] = {}}}

\* Everything is written: the guest runs, and reportSilent.
Run ==
    /\ stage = "unpack" /\ DOMAIN programs = DOMAIN info
    /\ stage' = "running"
    /\ silent' = Silent(roots)
    /\ UNCHANGED <<browser, selection, shards, roots, wanted, lookup, info, verdict, archive,
                   programs, extra, edits, kept>>

LookupStep(d) ==
    Start(d) \/ FromBrowser(d) \/ FromCache(d) \/ NotHere(d) \/ LookupFails(d)

Next ==
    \/ AskRoot \/ Walk \/ EditCaches \/ CheckSignatures \/ Run
    \/ \E d \in Digests : LookupStep(d) \/ Unpack(d)

Spec == Init /\ [][Next]_vars
-----------------------------------------------------------------------------
TypeOK ==
    /\ stage \in {"roots", "lookup", "unpack", "running", "failed"}
    /\ \A s \in DOMAIN shards : shards[s] \in {"unasked", "ok", "empty"}
    /\ ToSet(wanted) \subseteq Digests
    /\ \A d \in DOMAIN lookup : lookup[d].at \in 0..Len(lookup[d].list) + 1
    /\ \A at \in DOMAIN kept : kept[at] \in Copies \cup {"none"}
    /\ \A d \in DOMAIN verdict : verdict[d] \in {"true", "false", "null"}
    /\ silent \subseteq ToSet(selection)

\* rootsOf and digestsOf: every selected path is walked, and its bin output
\* wherever the sibling map answered, each of them once however it came in.
RootsAreWhole ==
    stage # "roots" =>
        /\ ToSet(wanted) = ToSet(selection) \cup
               {Bin[d] : d \in {d \in ToSet(selection) \cap DOMAIN Bin : shards[ShardOf[d]] = "ok"}}
        /\ IsInjective(wanted)

\* verify, against the list in effect when it looks: "true" only with a key
\* of the list that made a signature; and "true" whenever there is one,
\* as long as all can be examined and no two keys share a name.
VerdictRight ==
    \A d \in DOMAIN verdict :
        LET narinfo == NarinfoOf(d)
            list == ReadSubstituters
            vouched == \E sig \in ToSet(narinfo.sigs) : \E i \in KeysNamed(list, sig) :
                            Signed(sig, list[i], narinfo)
            plain == /\ browser = "ed25519"
                     /\ \A sig \in ToSet(narinfo.sigs) :
                            sig.readable /\ Cardinality(KeysNamed(list, sig)) <= 1
                     /\ \A i \in DOMAIN list : list[i].readable
        IN  /\ verdict[d] = "true" => vouched
            /\ vouched /\ plain => verdict[d] = "true"

\* A path reported verified is, once written, the very content some key of
\* the list vouched for, whatever cache its archive came from and whatever
\* the download did to it.
VouchedIsGenuine ==
    LET d == archive.digest IN
    d # "none" /\ verdict[d] = "true" => archive.entries = Tree[NarinfoOf(d).build]
=============================================================================
