------------------------------ MODULE MCSource ------------------------------
(* jq with its programs in another output; the default cache, a mirror of   *)
(* it and a cache with builds of its own.                                   *)
EXTENDS Archives

Entry(path, type) == [path |-> path, type |-> type]
File(path, executable) ==
    [path |-> path, type |-> "regular", executable |-> executable, data |-> <<"a", "b", "c">>]
Link(path, target) == [path |-> path, type |-> "symlink", target |-> target]

MCTree ==
    [jq |-> <<Entry(<<>>, "directory"), Entry(<<"lib">>, "directory"),
              Link(<<"lib", "l">>, <<"..", "so">>), Link(<<"so">>, <<"", "dep", "so">>)>>,
     jqOwn |-> <<Entry(<<>>, "directory"), Entry(<<"bin">>, "directory"),
                 File(<<"bin", "doc">>, FALSE), Link(<<"bin", "past">>, <<"..", "..", "..", "bin">>),
                 Link(<<"bin", "x">>, <<"", "">>), Link(<<"dep">>, <<"..", "dep", "", ".">>)>>,
     jqTop |-> <<Entry(<<>>, "directory"), Link(<<"top">>, <<"..">>)>>,
     jqbin |-> <<Entry(<<>>, "directory"), Entry(<<"bin">>, "directory"),
                 File(<<"bin", "jq">>, TRUE), Link(<<"bin", "q">>, <<".", "jq">>),
                 Link(<<"sbin">>, <<"bin">>), Link(<<"up">>, <<"sbin", "..", "bin", "jq">>)>>,
     sh |-> <<File(<<>>, TRUE)>>]

Key(url, name, by, readable) == [url |-> url, name |-> name, by |-> by, readable |-> readable]
Sig(name, by, covers, readable) ==
    [name |-> name, by |-> by, covers |-> covers, readable |-> readable]
MCDefault == <<Key("nixos", "nixos-1", "nixos", TRUE)>>
Mirror == Key("mirror", "nixos-1", "rotated", TRUE)
Own == Key("own", "own-1", "own", TRUE)
Typo == Key("own", "own-1", "own", FALSE)
MCLists == {<<>>, <<Own>>, <<Mirror, Typo>>}

MCSize == [build \in DOMAIN MCTree |-> Len(PackNar(MCTree[build]))]

Info(build, sized, sigs) ==
    [build |-> build, size |-> IF sized THEN MCSize[build] ELSE 0,
     readable |-> sigs # <<>>, sigs |-> sigs]
ByNixos(build) == Sig("nixos-1", "nixos", build, TRUE)
ByOwn(build) == Sig("own-1", "own", build, TRUE)
Both(digest) == {<<url, digest>> : url \in {"nixos", "own"}}
MCText ==
    [at \in Both("jq") \cup Both("jqbin") \cup {<<"mirror", "jq">>, <<"own", "sh">>} |->
        CASE at = <<"own", "jq">> -> Info("jqOwn", TRUE, <<ByNixos("jq"), ByOwn("jqOwn")>>)
          [] at = <<"own", "sh">> -> Info("sh", FALSE, <<Sig("own-1", "own", "sh", FALSE)>>)
          [] at = <<"own", "jqbin">> -> Info("jqTop", TRUE, <<>>)
          [] OTHER -> Info(at[2], at[1] = "nixos", <<ByNixos(at[2])>>)]
\* The mirror has another build's archive than its narinfo names.
MCServed == [at \in DOMAIN MCText |->
    IF at = <<"mirror", "jq">> THEN "jqOwn" ELSE MCText[at].build]

\* Earlier visits kept nothing, or one narinfo, whole or not.
MCKept ==
    LET Only(at, copy) == [x \in DOMAIN MCText |-> IF x = at THEN copy ELSE "none"] IN
    {Only(<<"nixos", "jq">>, "none"), Only(<<"nixos", "jq">>, "cut"),
     Only(<<"mirror", "jq">>, "whole"), Only(<<"own", "jq">>, "whole")}

MCSelections == {<<"jq">>, <<"jqbin", "jq">>, <<"sh">>}
MCBin == [jq |-> "jqbin", sh |-> "sh"]
MCShardOf == [jq |-> "j", jqbin |-> "j", sh |-> "s"]
\* TLC evaluates a definition once, and what a constant stands for every time.
MCArrivals == ParsedArrivals

\* Every text of the length of either encoding, and three of no length.
MCFields ==
    [1..Base32Length -> 0..2^DigitBits - 1] \cup [1..HexLength -> {NotADigit} \cup 0..3]
        \cup {<<0, NotADigit, 1>>, <<0>>, <<0, 0>>}
=============================================================================
