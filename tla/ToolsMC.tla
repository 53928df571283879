------------------------------ MODULE ToolsMC ------------------------------
(***************************************************************************)
(* Tools on bounded inputs.                                                *)
(***************************************************************************)
EXTENDS Tools, Sequences, TLC

\* rpm-extract (in the cfg): five paths of two files, three of them shipped, two
\* of these under a legacy root and one with a name too long to link to; a
\* directory and a device.

\* pin: three packages on two architectures, each built for both, for the second
\* only, or without an architecture, and requiring up to two capabilities.
MCArches == <<"x86_64", "aarch64">>
MCOffers == {{"x86_64", "aarch64"}, {"aarch64"}, {"noarch"}}

\* Versions of up to three characters, well formed or not, with epochs and
\* revisions, and of four characters as releases have them.
Strings(alphabet, max) == UNION {[1..n -> alphabet] : n \in 0..max}
Releases ==
    {s \in Strings({"0", "1", ".", "~", "a"}, 4) :
        /\ Len(s) > 0 => s[1] \in {"0", "1"}
        /\ \A n \in 1..(Len(s) - 1) :
            s[n] \notin {"0", "1"} => s[n + 1] \in {"0", "1"}}
MCTexts == Strings({"0", "1", ":", "-", "b"}, 3) \cup Releases

\* ca-bundle: up to three objects: certificates of two keys, one of them without
\* a version field, whose distrust dates lie on either side of the limit, usage
\* objects of both keys, and objects that should be refused.
Tbs(key) == <<"serial", "signature", "issuer", "validity", "subject", key>>
Cert(der) == [type |-> "CERTIFICATE", der |-> der]
PublicKey(key) == [type |-> "PUBLIC KEY", der |-> <<key>>]
Unset == [form |-> "unset", day |-> 0]
Day(n) == [form |-> "date", day |-> n]
Trusted(pem, after) ==
    [class |-> "certificate", trusted |-> TRUE, distrusted |-> FALSE, after |-> after,
     value |-> "none", pem |-> pem, flaw |-> "none"]
Usage(key, value) ==
    [class |-> "usage", trusted |-> FALSE, distrusted |-> FALSE, after |-> Unset,
     value |-> value, pem |-> PublicKey(key), flaw |-> "none"]
V3 == Cert(<<"version">> \o Tbs("k1"))
V1 == Cert(Tbs("k2"))
MCObjects ==
    {Trusted(V3, Unset), Trusted(V1, Day(1)), Trusted(V1, Day(2)),
     [Trusted(V3, Unset) EXCEPT !.distrusted = TRUE],
     [Trusted(V1, Unset) EXCEPT !.trusted = FALSE],
     Usage("k1", "mail"), Usage("k1", "server"), Usage("k2", "any"), Usage("k2", "mail"),
     [Usage("k1", "mail") EXCEPT !.class = "extension"],
     Usage("k2", "truncated"), Trusted(Cert(SubSeq(Tbs("k2"), 1, 4)), Unset),
     Trusted(V3, [form |-> "unquoted", day |-> 0]),
     [Trusted(V1, Unset) EXCEPT !.pem.der = <<>>],
     [Trusted(V1, Unset) EXCEPT !.flaw = "bare"],
     [Trusted(V1, Unset) EXCEPT !.flaw = "open"]}

\* The vulnerabilities page: up to three matches, of two vulnerabilities in the
\* binaries 2 and 3 of source 1, in source 1 itself and in 4, for either
\* architecture or for both, and VEX statements of every kind.
Match(id, label, package, upstream, arch, fix) ==
    [id |-> id, label |-> label, package |-> package, upstream |-> upstream,
     version |-> 1, arch |-> arch, fix |-> fix]
Statement(id, status) == [id |-> id, status |-> status]
MCMatches ==
    {Match(1, "high", 2, 1, "amd64", 0), Match(1, "high", 3, 1, "amd64", 0),
     Match(1, "high", 2, 1, "arm64", 0), Match(1, "high", 3, 1, "amd64", 1),
     Match(1, "high", 1, 0, "amd64", 0), Match(2, "low", 1, 0, "", 0),
     Match(2, "weird", 4, 0, "all", 0), Match(2, "low", 3, 1, "arm64", 0)}
MCCarried == <<"amd64", "arm64">>
MCStatements ==
    {{}, {Statement(1, "not_affected")}, {Statement(1, "under_investigation")},
     {Statement(1, "affected"), Statement(2, "fixed")}}

\* The versions page: five tags on two builds, each published or not.
Tag(kind, upstream, variant, place) ==
    [kind |-> kind, upstream |-> upstream, variant |-> variant, place |-> place]
MCTags ==
    {Tag("latest", 0, 0, 0), Tag("name", 0, 0, 1), Tag("version", 31, 0, 0),
     Tag("version", 31, 1, 0), Tag("version", 30, 0, 0)}
MCArchesOf == [d1 |-> {"amd64"}, d2 |-> {"amd64", "arm64"}]

\* elfneeds: a program with an interpreter that needs one or two libraries, which
\* are there, of another machine, links to each other or to themselves, or not
\* there, on the run path, in a directory of ld.so.conf, or nowhere; or one that
\* is as many links away as are followed, or one more, and likewise for includes.
Elf(machine, interp, needed, runpath) ==
    [kind |-> "elf", machine |-> machine, interp |-> interp, needed |-> needed,
     runpath |-> runpath, rpath |-> {"opt"}, target |-> <<>>]
Lib(machine) == Elf(machine, <<>>, {}, {})
Link(dir, name) == [Lib("") EXCEPT !.kind = "link", !.target = <<dir, name>>]
Other == [Lib("") EXCEPT !.kind = "other"]
Malformed == [Lib("") EXCEPT !.kind = "malformed"]
Absent == [Lib("") EXCEPT !.kind = "absent"]
Files ==
    [app : {Elf("x86", <<<<"lib", "ld">>>>, needed, runpath) :
               needed \in {{"a"}, {"a", "b"}}, runpath \in {{}, {"$ORIGIN"}}},
     ld : {Other, Link("opt", "ld"), Absent},
     liba : {Lib("x86"), Lib("arm"), Link("opt", "a"), Link("lib", "a"), Absent},
     opta : {Lib("x86"), Link("bin", "b"), Link("lib", "a"), Absent},
     binb : {Elf("x86", <<>>, {"a"}, {"bin"}), Malformed, Other, Absent},
     debug : {Elf("x86", <<>>, {"c"}, {})}]
At == [app |-> <<"bin", "app">>, ld |-> <<"lib", "ld">>, liba |-> <<"lib", "a">>,
       opta |-> <<"opt", "a">>, binb |-> <<"bin", "b">>, debug |-> <<"debug", "x">>]
Root(f) == [p \in {At[n] : n \in {m \in DOMAIN f : f[m].kind # "absent"}} |->
               f[CHOOSE n \in DOMAIN f : At[n] = p]]
Chain(n) ==
    LET at == [k \in 0..n |-> IF k = 0 THEN At.liba ELSE <<"chain", ToString(k)>>]
        far == {at[k] : k \in 0..n}
    IN  [p \in {At.app} \cup far |->
            IF p = At.app THEN Elf("x86", <<>>, {"a"}, {})
            ELSE IF p = at[n] THEN Lib("x86")
            ELSE [Lib("") EXCEPT !.kind = "link",
                                 !.target = at[1 + (CHOOSE k \in 0..(n - 1) : p = at[k])]]]
MCRoots == {Root(f) : f \in Files} \cup {Chain(n) : n \in {39, 40}}
Conf(dirs, includes) == [dirs |-> dirs, includes |-> includes]
Nested(n) ==
    LET name == [k \in 0..n |-> IF k = 0 THEN "ld.so.conf" ELSE ToString(k)]
    IN  [c \in {name[k] : k \in 0..n} |->
            IF c = name[n] THEN Conf({"opt"}, {})
            ELSE Conf({}, {name[1 + (CHOOSE k \in 0..(n - 1) : c = name[k])]})]
MCConfs ==
    {<<>>, [c \in {"ld.so.conf"} |-> Conf({"opt"}, {})],
     [c \in {"ld.so.conf", "d.conf"} |->
         IF c = "d.conf" THEN Conf({"opt"}, {"ld.so.conf"}) ELSE Conf({}, {"d.conf"})]}
    \cup {Nested(n) : n \in {8, 9}}
MCMatched ==
    [glob \in {"app", "ap*", "bin/*", "b"} |->
        CASE glob \in {"app", "ap*"} -> {At.app}
          [] glob = "bin/*" -> {At.app, At.binb}
          [] glob = "b" -> {At.binb}]
MCAllowLists ==
    {<<>>, <<"app">>, <<"bin/*", "app">>, <<"b", "app">>, <<"app", "ap*">>,
     <<"app", "bin/*", "app">>}

\* knife bep digests: three file sets, shared, in a cycle or never announced, and
\* a label that completes in two configurations next to one that fails.
FileSet(files, below) == [files |-> files, fileSets |-> below]
Completion(n, label, success, group, below) ==
    [n |-> n, label |-> label, success |-> success, group |-> group, fileSets |-> below]
MCGraphs ==
    {[id \in ids |-> IF id = "s1" THEN FileSet({"f1"}, {"s2", "s3"})
                     ELSE IF id = "s2" THEN FileSet({"f2"}, below) ELSE FileSet({"f2", "f3"}, {})] :
        ids \in {{"s1", "s2", "s3"}, {"s1", "s2"}}, below \in {{}, {"s1"}, {"s3"}}}
MCCompletions ==
    {{Completion(1, "//a", TRUE, "default", one), Completion(2, "//a", TRUE, "default", {"s3"}),
      Completion(3, "//b", success, group, {"s2"})} :
        one \in {{"s1"}, {"s2"}}, success \in BOOLEAN, group \in {"default", "extra"}}
=============================================================================
