--------------------------- MODULE LinkerArguments ---------------------------
(***************************************************************************)
(* The command line of a link as the drivers take it apart and put it      *)
(* together again: tools/mull-ld/LinkerOptions.cpp and the functions of    *)
(* the same names in mull-ld.cpp and mull-libtool.cpp.                     *)
(*                                                                         *)
(* Tokens are strings.  A parsed argument is the sequence of the tokens it *)
(* renders to: <<"-o", "app">>, <<"-dead_strip">>, <<"a.o">>.  The three   *)
(* tables of options are "ld64", "clang" and "libtool".                    *)
(***************************************************************************)
EXTENDS Naturals, Sequences, SequencesExt

CONSTANTS
    Separate,   \* options the tables know to be followed by a value
    Flags,      \* tokens with a dash the tables take for options alone
    Lists       \* the readable file lists: from their names to their lines

Filelist == "-filelist"
AddAstPath == "-add_ast_path"
BitcodeBundle == "-bitcode_bundle"
Xmull == "-Xmull"

(* lld's table has -add_ast_path without its value (LinkerOptions.cpp:59). *)
ASSUME TokenAssumption ==
    /\ Separate \cup Flags \subseteq STRING
    /\ Filelist \in Separate
    /\ {AddAstPath, BitcodeBundle} \subseteq Flags
    /\ Separate \cap Flags = {} /\ Xmull \notin Separate \cup Flags
    /\ \A p \in DOMAIN Lists : Lists[p] \in Seq(STRING)

-----------------------------------------------------------------------------
(* The positions a loop skips because the element before them has consumed *)
(* them: one of takers, and not itself taken.                              *)
Taken(s, takers) ==
    LET taken[k \in 1..Len(s)] == k > 1 /\ s[k-1] \in takers /\ ~taken[k-1]
    IN taken

Collect(s, Part(_)) == FlattenSeq([k \in DOMAIN s |-> Part(k)])

filterMullOptions(args) ==
    LET value == Taken(args, {Xmull}) IN
    [mullArgs   |-> Collect(args, LAMBDA k : IF value[k] THEN <<args[k]>> ELSE <<>>),
     linkerArgs |-> Collect(args, LAMBDA k :
                        IF value[k] \/ args[k] = Xmull THEN <<>> ELSE <<args[k]>>)]

(* The last -Xmull lacks its option.                                       *)
ReadsPastEnd(args) ==
    args # <<>> /\ Last(args) = Xmull /\ ~Taken(args, {Xmull})[Len(args)]

(* OptTable::ParseArgs: an option that takes a value is an argument when   *)
(* its value is there.  One that lacks it is dropped, and reported in      *)
(* missingIndex and missingCount, which nobody reads.                      *)
ParseArgs(linkerArgs) ==
    LET value == Taken(linkerArgs, Separate) IN
    Collect(linkerArgs, LAMBDA k :
        IF value[k] THEN << <<linkerArgs[k-1], linkerArgs[k]>> >>
        ELSE IF linkerArgs[k] \in Separate THEN <<>>
        ELSE << <<linkerArgs[k]>> >>)

IsInput(arg) == Len(arg) = 1 /\ arg[1] \notin Flags
IsFilelist(arg) == arg[1] = Filelist

(* A list that cannot be read is an error nobody looks at.                 *)
readFilelistFile(path) == IF path \in DOMAIN Lists THEN Lists[path] ELSE <<>>

-----------------------------------------------------------------------------
(* The loops of LD64OptTable, in which -add_ast_path takes the argument    *)
(* after it along: the `++it' of their bodies.  The iterator runs past the *)
(* end if there is no argument after it.                                   *)
Skipped(args) == Taken(args, {<<AddAstPath>>})

SkipsPastEnd(table, args) ==
    /\ table = "ld64" /\ args # <<>>
    /\ Last(args) = <<AddAstPath>> /\ ~Skipped(args)[Len(args)]

Objects(arg) ==
    IF IsInput(arg) THEN arg
    ELSE IF IsFilelist(arg) THEN readFilelistFile(arg[2])
    ELSE <<>>

(* Fault: the value of -add_ast_path is taken for an input.                *)
collectObjectFilesUnskipped(table, args) == Collect(args, LAMBDA k : Objects(args[k]))

(* ld64 keeps the order of the command line, the others collect the inputs *)
(* before the file lists.                                                  *)
collectObjectFiles(table, args) ==
    LET skipped == Skipped(args)
        Filtered(P(_)) == Collect(args, LAMBDA k : IF P(args[k]) THEN Objects(args[k]) ELSE <<>>)
    IN IF table = "ld64"
       THEN Collect(args, LAMBDA k : IF skipped[k] THEN <<>> ELSE Objects(args[k]))
       ELSE Filtered(IsInput) \o Filtered(IsFilelist)

collectObjectLinkOpts(table, args) ==
    LET skipped == Skipped(args)
        Rendered(arg) == IF IsInput(arg) \/ IsFilelist(arg) THEN <<>> ELSE arg
    IN Collect(args, LAMBDA k :
           IF table # "ld64" THEN Rendered(args[k])
           ELSE IF skipped[k] THEN args[k]
           ELSE IF args[k] = <<BitcodeBundle>> THEN <<>>
           ELSE Rendered(args[k]))

appendFilelist(filelist, output) == output \o <<Filelist, filelist>>
=============================================================================
