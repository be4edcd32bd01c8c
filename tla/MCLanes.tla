------------------------------ MODULE MCLanes ------------------------------
(* Three attributes in two shards: one has a prerelease, one has releases   *)
(* that only numbers order, one has none for this system.                   *)
EXTENDS Lanes

N(sep, n, lex) == [sep |-> sep, num |-> n, lex |-> lex]
\* The words "1" < "10" < "2" < "3" < "6" < "9" < "rc1" in lexical order.
One == N("", 1, 1)
Three == N("", 3, 4)
V16 == <<One, N(".", 6, 5)>>
V16rc == V16 \o <<N("-", NotANumber, 7)>>
V39 == <<Three, N(".", 9, 6)>>
V310 == <<Three, N(".", 10, 2)>>
V3102 == V310 \o <<N(".", 2, 3)>>
Star == <<N(".", NotANumber, 0)>>
V4 == <<N("", 4, 5)>>

R(attr, ver, alive, digest) == [attr |-> attr, ver |-> ver, alive |-> alive, digest |-> digest]
MCReleases ==
    [jq |-> {R("jq", V16rc, "yes", "jq1"), R("jq", <<One, N(".", 9, 6)>>, "yes", "jq2")},
     py |-> {R("py", V39, "yes", "py1"), R("py", V3102, "unknown", "py2"), R("py", V4, "no", "py3")},
     pyx |-> {}]
\* ... and one whose prerelease is still in the index.
RcReleases ==
    [MCReleases EXCEPT !.jq = {R("jq", V16rc, "yes", "jq1"), R("jq", V16, "yes", "jq2")}]
MCAge == [jq1 |-> 1, jq2 |-> 2, py1 |-> 1, py2 |-> 2, py3 |-> 3]
MCShardOf == [jq |-> "jq", py |-> "py", pyx |-> "py"]

F(mode, attr, prefix) == [mode |-> mode, attr |-> attr, prefix |-> prefix]
MCShort == {F("attr", "", "p")}
MCFragments == MCShort \cup {F("attr", "", "py"), F("version", "py", ""), F("version", "jq", "")}
MCOffers == [f \in MCFragments |->
    CASE f.mode = "attr" -> <<"py", "pyx">>
      [] f.attr = "py" -> <<"4", "3.10.2", "3.9">>
      [] OTHER -> <<"1.9">>]
S(attr, operator, pattern) == [attr |-> attr, operator |-> operator, pattern |-> pattern]
MCLines == {<<S("py", "any", <<>>), S("jq", "=", <<One>> \o Star)>>,
            <<S("jq", "any", <<>>), S("pyx", "any", <<>>), S("py", "<", V310 \o Star)>>}
MCFound == [p |-> {"py", "pyx"}, j |-> {"jq"}]
=============================================================================
