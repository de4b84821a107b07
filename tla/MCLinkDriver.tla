----------------------------- MODULE MCLinkDriver -----------------------------
(***************************************************************************)
(* Model-checking instance of the link drivers: command lines of           *)
(* MaxGroups well-formed groups of tokens, and shorter ones with odd       *)
(* groups and a tail that may leave the last option without its value.     *)
(***************************************************************************)
EXTENDS LinkDriver

CONSTANT MaxGroups

MCSeparate == {"-o", "-filelist", "-noall_load"}
MCLone == {"-noall_load"}
MCUnlisted == {"-unlisted"}
MCFlags == {"-dead_strip", "-bitcode_bundle", "-add_ast_path", "-help", "-unlisted"}
MCLists == [p \in {"LinkFileList"} |-> <<"b.o", "c.o">>]
MCSpellings ==
    ("linker" :> {"--linker=clang", "--linker="}) @@
    ("libtool" :> {"--libtool=libtool", "--libtool="}) @@
    ("linker-flavor" :> {"--linker-flavor=clang", "--linker-flavor=lld", "--linker-flavor=ld64"}) @@
    ("workers" :> {"--workers=2"}) @@ ("exclude-path" :> {"--exclude-path=a"})
MCReadable == {"a.o", "b.o", "c.o", "m.swiftmodule"}

Valid == {
    <<"a.o">>, <<"-dead_strip">>, <<"-bitcode_bundle">>, <<"-o", "app">>,
    <<"-filelist", "LinkFileList">>, <<"-add_ast_path", "m.swiftmodule">>,
    <<"-Xmull", "--linker=clang">>, <<"-Xmull", "--linker-flavor=clang">>,
    <<"-Xmull", "--libtool=libtool">>}

Odd == {
    <<"-help">>, <<"missing.o">>, <<"-filelist", "missing">>, <<"-unlisted", "app">>,
    <<"-unlisted", "a.o">>, <<"-unlisted">>, <<"-o">>, <<"-add_ast_path">>, <<"-filelist">>,
    <<"-noall_load">>, <<"-Xmull", "--linker-flavor=lld">>}

(* The drivers' own options among themselves, before one object.           *)
Own == {
    "--linker=clang", "--linker=", "--libtool=libtool", "--libtool=", "--linker-flavor=clang",
    "--linker-flavor=ld64", "--workers=2", "--workers=two", "--exclude-path=a", "--help"}

OwnLines == {<<"-Xmull", a, "-Xmull", b, "a.o">> : a, b \in Own}

Tails == {<<>>, <<"-Xmull">>, <<"-o">>, <<"-add_ast_path">>}

Lines(groups, n) == {FlattenSeq(s) : s \in [1..n -> groups]}

MCCommandLines ==
    Lines(Valid, MaxGroups) \cup OwnLines \cup
    {line \o tail : line \in UNION {Lines(Valid \cup Odd, n) : n \in 0..(MaxGroups - 1)},
                   tail \in Tails}
=============================================================================
