------------------------------- MODULE LinkStep -------------------------------
(***************************************************************************)
(* What a build system may expect when it calls mull-ld or mull-libtool    *)
(* where it called the linker or libtool: the step either reports a        *)
(* failure, or has linked, with success, the objects of its command line   *)
(* with the options of its command line - each object as it was or         *)
(* recompiled with its mutants.                                            *)
(*                                                                         *)
(* What a command line means is what the real tool reads in it: an option  *)
(* that takes a value takes the token after it, whatever that is.          *)
(***************************************************************************)
EXTENDS Naturals, Sequences, SequencesExt, FiniteSets

CONSTANTS
    Takes,      \* the options of the real tool that are followed by a value
    Options,    \* the tokens with a dash
    Lists,      \* the readable file lists: from their names to their lines
    Readable,   \* the readable files
    Unlisted,   \* options with a value that the drivers' tables do not list
    Lone        \* options without one that the tables have with a value

VARIABLES
    tool,       \* "mull-ld" or "mull-libtool"
    tokens,     \* the command line of the step
    printed,    \* what xcrun, which knows the real tool, prints
    status,     \* how the process ended, or "running"
    linked      \* the [line, list] the real tool succeeded with, if it did

vars == <<tool, tokens, printed, status, linked>>

Nothing == [line |-> <<>>, list |-> <<>>]
TempFile == "mull-ld-filelist"

At(line, P(_)) == FlattenSeq([i \in DOMAIN line |-> IF P(i) THEN <<line[i]>> ELSE <<>>])

(* Position i holds a value if the options right before it, each of which  *)
(* would take the next one as its value, are odd in number.                *)
IsValue(line, takes, i) ==
    Cardinality({j \in 1..(i-1) : \A k \in j..(i-1) : line[k] \in takes}) % 2 = 1

LinkerTokens ==
    At(tokens, LAMBDA i : tokens[i] # "-Xmull" /\ ~IsValue(tokens, {"-Xmull"}, i))

(* The options for the driver, and the table they make it use.             *)
MullOptions == {tokens[i] : i \in {k \in DOMAIN tokens : IsValue(tokens, {"-Xmull"}, k)}}

table ==
    IF tool = "mull-libtool" THEN "libtool"
    ELSE IF "--linker-flavor=clang" \in MullOptions THEN "clang"
    ELSE IF "--linker-flavor=lld" \in MullOptions THEN "none"
    ELSE "ld64"

TakesOf == Takes \cup IF table = "ld64" THEN {"-add_ast_path"} ELSE {}

(* A list that cannot be read stands for objects nobody knows.             *)
ObjectsOf(line, lists) ==
    FlattenSeq([i \in DOMAIN line |->
        IF IsValue(line, TakesOf, i)
        THEN IF line[i-1] # "-filelist" THEN <<>>
             ELSE IF line[i] \in DOMAIN lists THEN lists[line[i]] ELSE <<line[i]>>
        ELSE IF line[i] \in Options THEN <<>> ELSE <<line[i]>>])

OptionsOf(line, dropped) ==
    At(line, LAMBDA i :
        IF IsValue(line, TakesOf, i) THEN line[i-1] # "-filelist"
        ELSE line[i] \in Options \ ({"-filelist"} \cup dropped))

-----------------------------------------------------------------------------
(* The parser takes values for values.  The value of an option that it     *)
(* takes for a flag is not itself an option: the parser would give it the  *)
(* token after it.  And no option is there that it gives a value the real  *)
(* tool does not read as one.                                              *)
Unambiguous ==
    LET line == LinkerTokens IN
    /\ \A i \in 2..Len(line) :
          IsValue(line, TakesOf, i) /\ line[i-1] \in Unlisted \cup {"-add_ast_path"}
              => line[i] \notin Options
    /\ \A i \in DOMAIN line : line[i] \notin Lone

(* The driver can make sense of the command line at all.                   *)
Parsable ==
    LET line == LinkerTokens IN
    /\ table # "none"
    /\ ~IsValue(tokens, {"-Xmull"}, Len(tokens) + 1)
    /\ table = "ld64" =>
          /\ Unambiguous
          /\ IsValue(line, TakesOf, Len(line) + 1) => line[Len(line)] # "-add_ast_path"

(* No option lacks its value, the file lists can be read, and the value of *)
(* an option the tables do not list is not by chance a readable file.      *)
Meaningful ==
    LET line == LinkerTokens IN
    /\ Unambiguous
    /\ ~IsValue(line, TakesOf, Len(line) + 1)
    /\ \A i \in 2..Len(line) : IsValue(line, TakesOf, i) =>
          /\ line[i-1] = "-filelist" => line[i] \in DOMAIN Lists
          /\ line[i-1] \in Unlisted => line[i] \notin Readable

Dropped == IF table = "ld64" THEN {"-bitcode_bundle"} ELSE {}

Count(s, x) == Cardinality({k \in DOMAIN s : s[k] = x})

(* All options but -bitcode_bundle, in their order; every object as often  *)
(* as before; and in ld64's flavor, when nothing was recompiled, in the    *)
(* same order, a file list standing where it stood.                        *)
Faithful(link) ==
    LET files == [k \in DOMAIN link.list |-> link.list[k].object]
        before == ObjectsOf(LinkerTokens, Lists)
        after == ObjectsOf(link.line,
                     [p \in DOMAIN Lists \cup {TempFile} |->
                         IF p = TempFile THEN files ELSE Lists[p]])
    IN  /\ OptionsOf(link.line, {}) = OptionsOf(LinkerTokens, Dropped)
        /\ \A f \in Range(before) \cup Range(after) : Count(before, f) = Count(after, f)
        /\ table = "ld64" /\ (\A k \in DOMAIN link.list : ~link.list[k].compiled)
               => after = before

Init == status = "running" /\ linked = Nothing

Succeed ==
    /\ status = "running" /\ status' = "success"
    /\ Parsable /\ Meaningful => Faithful(linked')
    /\ UNCHANGED <<tool, tokens, printed>>

Help ==
    /\ status = "running" /\ status' = "success"
    /\ "-help" \in Range(LinkerTokens) \/ "--help" \in MullOptions
    /\ UNCHANGED <<tool, tokens, printed, linked>>

Fail ==
    /\ status = "running" /\ status' = "failure"
    /\ UNCHANGED <<tool, tokens, printed, linked>>

Crash ==
    /\ status = "running" /\ status' = "undefined"
    /\ ~Parsable \/ printed = "nothing"
    /\ UNCHANGED <<tool, tokens, printed, linked>>

Next == Help \/ Succeed \/ Fail \/ Crash

Spec == Init /\ [][Next]_vars
=============================================================================
