------------------------------ MODULE LinkDriver ------------------------------
(***************************************************************************)
(* The processes mull-ld and mull-libtool (mull-ld.cpp, LinkerInvocation.  *)
(* cpp, mull-libtool.cpp) from their command line to their exit status.    *)
(* Both take the command line apart (LinkerArguments), let the pipeline    *)
(* rewrite the list of objects (ObjectRewriting, which MutationPipeline    *)
(* implements), write the new list to a temporary file and run the real    *)
(* tool with it.                                                           *)
(***************************************************************************)
EXTENDS LinkerArguments

CONSTANTS
    CommandLines,   \* the command lines, as sequences of tokens
    Readable,       \* the files access(path, R_OK) succeeds for
    Unlisted,       \* flags of the tables that are really followed by a value
    Lone,           \* options with a value, in the tables, that really have none
    Spellings       \* from the drivers' own options to the tokens that set them

TempFile == "mull-ld-filelist"

(* -add_ast_path has a value, which the drivers skip themselves, and       *)
(* -bitcode_bundle has none.  libtool's table has -noall_load with a value *)
(* (mull-libtool/Options.td:20), which the real tool does not read.  That  *)
(* a literal is a string is said here for the provers, which have no rule  *)
(* for it.                                                                 *)
ASSUME DriverAssumption ==
    /\ CommandLines \subseteq Seq(STRING)
    /\ Unlisted \subseteq Flags \ {AddAstPath, BitcodeBundle}
    /\ Lone \subseteq Separate \ {Filelist}
    /\ TempFile \in STRING

VARIABLES
    tool,           \* "mull-ld" or "mull-libtool"
    tokens,         \* argv without argv[0]
    hangs,          \* the programs that would never end by themselves
    printed,        \* what xcrun prints when it succeeds
    pc,             \* the phase of main()
    table, named,   \* the table of options; whether the real tool has a name
    args,           \* parsedArgs
    inputObjects,
    output,         \* the objects the pipeline returned
    filelist,       \* what the temporary file holds
    ioError,        \* the error state of its stream
    result,         \* status of the real tool
    linked,         \* its arguments and the list it read, if it succeeded
    status          \* how the process ended

world   == <<tool, tokens, hangs, printed>>
options == <<table, named, args>>
link    == <<filelist, ioError, result, linked>>
vars == <<world, pc, options, inputObjects, output, link, status>>

Nothing == [line |-> <<>>, list |-> <<>>]

(* mull-libtool looks for the real tool before it looks at the objects.    *)
Phases ==
    IF tool = "mull-ld"
    THEN <<"split", "collect", "find", "pipeline", "write", "link", "finish">>
    ELSE <<"split", "find", "collect", "pipeline", "write", "link", "finish">>

GoOn == \E k \in DOMAIN Phases : Phases[k] = pc /\ pc' = Phases[k+1]

Exit(s) == status' = s /\ pc' = "ended"

Init ==
    /\ tool \in {"mull-ld", "mull-libtool"} /\ tokens \in CommandLines
    /\ hangs \in SUBSET {"xcrun", "linker"}
    /\ printed \in IF "xcrun" \in hangs THEN {"nothing"} ELSE {"path", "newline", "nothing"}
    /\ pc = "split" /\ status = "running"
    /\ table = "ld64" /\ named = FALSE /\ args = <<>>
    /\ inputObjects = <<>> /\ output = <<>>
    /\ filelist = <<>> /\ ioError = FALSE /\ result = "none" /\ linked = Nothing

-----------------------------------------------------------------------------
(* The options of the drivers themselves.  mull-libtool has no flavors.    *)
RealTool == IF tool = "mull-ld" THEN "linker" ELSE "libtool"

Lasting == {"exclude-path", "include-path", "target-executable"}

DriverOptions ==
    {RealTool, "debug", "dump-llvm", "enable-syntax", "workers", "coverage-info",
     "git-diff-ref", "git-project-root"}
    \cup Lasting \cup IF tool = "mull-ld" THEN {"linker-flavor"} ELSE {}

SpellingsOf(option) == IF option \in DOMAIN Spellings THEN Spellings[option] ELSE {}

(* Each token sets an option, and only the lists may be set repeatedly.    *)
validOptions(mullArgs) ==
    /\ \A arg \in Range(mullArgs) : \E o \in DriverOptions : arg \in SpellingsOf(o)
    /\ \A k, l \in DOMAIN mullArgs : k # l =>
          \A o \in DriverOptions \ Lasting : ~({mullArgs[k], mullArgs[l]} \subseteq SpellingsOf(o))

(* An empty name is no name.                                               *)
NamesTool(mullArgs) ==
    Range(mullArgs) \cap (SpellingsOf(RealTool) \ {"--linker=", "--libtool="}) # {}

GetLinkerOptTable(mullArgs) ==
    IF tool = "mull-libtool" THEN "libtool"
    ELSE IF "--linker-flavor=clang" \in Range(mullArgs) THEN "clang"
    ELSE IF "--linker-flavor=lld" \in Range(mullArgs) THEN "none"
    ELSE "ld64"

hasHelpFlag(parsed) == \E k \in DOMAIN parsed : parsed[k] = <<"-help">>

(* How the process ends before it looks at its objects, if it does.        *)
(* args[index + 1] of a trailing -Xmull, and the methods of the null table *)
(* of an unknown flavor, are undefined behaviour.  The parser of the       *)
(* driver's own options prints their help and ends the process.            *)
EarlyEnd(mullArgs, flavor, parsed) ==
    IF ReadsPastEnd(tokens) THEN "undefined"
    ELSE IF "--help" \in Range(mullArgs) THEN "success"
    ELSE IF ~validOptions(mullArgs) THEN "failure"
    ELSE IF flavor = "none" THEN "undefined"
    ELSE IF flavor # "libtool" /\ hasHelpFlag(parsed) THEN "success"
    ELSE "running"

(* Splitting the command line, parsing both halves, and the help message.  *)
SplitArguments ==
    LET split == filterMullOptions(tokens)
        end == EarlyEnd(split.mullArgs, table', args')
    IN
    /\ pc = "split"
    /\ table' = GetLinkerOptTable(split.mullArgs)
    /\ named' = NamesTool(split.mullArgs)
    /\ args' = ParseArgs(split.linkerArgs)
    /\ \/ end = "running" /\ GoOn /\ UNCHANGED status
       \/ end # "running" /\ Exit(end)
    /\ UNCHANGED <<world, inputObjects, output, link>>

(* collectObjectFiles() and validateInputFiles().                          *)
CollectObjects ==
    LET objects == collectObjectFiles(table, args) IN
    /\ pc = "collect"
    /\ inputObjects' = objects
    /\ \/ SkipsPastEnd(table, args) /\ Exit("undefined")
       \/ /\ ~SkipsPastEnd(table, args)
          /\ \/ Range(objects) \subseteq Readable /\ GoOn /\ UNCHANGED status
             \/ ~(Range(objects) \subseteq Readable) /\ Exit("failure")
    /\ UNCHANGED <<world, options, output, link>>

(* Fault: mull-ld waits without a limit, as mull-libtool does.             *)
OutcomesUnlimited(program) ==
    IF program \in hangs THEN {} ELSE {"Passed", "Failed"}

(* What runProgram() may answer: mull-ld waits for a limited time, and     *)
(* mull-libtool (timeout -1) for as long as it takes.                      *)
Outcomes(program) ==
    (IF program \in hangs THEN {} ELSE {"Passed", "Failed"})
        \cup (IF tool = "mull-ld" THEN {"Timedout"} ELSE {})

(* What getLinkerPath() and getLibtoolPath() make of what xcrun prints.    *)
(* back() of an empty string is undefined behaviour; only mull-ld looks    *)
(* for an empty name, in validateConfiguration().                          *)
TakePath ==
    \/ printed = "nothing" /\ Exit("undefined") /\ UNCHANGED named
    \/ printed = "path" /\ named' = TRUE /\ GoOn /\ UNCHANGED status
    \/ /\ printed = "newline" /\ UNCHANGED named
       /\ \/ tool = "mull-ld" /\ Exit("failure")
          \/ tool = "mull-libtool" /\ GoOn /\ UNCHANGED status

(* `xcrun -find' unless a tool was named; diagnostics.error ends the       *)
(* process.                                                                *)
FindLinker ==
    /\ pc = "find"
    /\ \/ named /\ GoOn /\ UNCHANGED <<named, status>>
       \/ /\ ~named
          /\ \E r \in Outcomes("xcrun") :
                \/ r = "Passed" /\ TakePath
                \/ r # "Passed" /\ Exit("failure") /\ UNCHANGED named
    /\ UNCHANGED <<world, table, args, inputObjects, output, link>>

Pipeline == INSTANCE ObjectRewriting WITH
    done <- pc \notin {"split", "collect", "find", "pipeline"}

(* The pipeline returns what it promises, or a thread it needs cannot be   *)
(* created and the process ends.                                           *)
RunPipeline ==
    /\ pc = "pipeline"
    /\ \/ GoOn /\ Pipeline!Return /\ UNCHANGED status
       \/ Exit("failure") /\ UNCHANGED <<inputObjects, output>>
    /\ UNCHANGED <<world, options, link>>

(* The temporary file list: complete, or cut short by an error that only   *)
(* the stream remembers.                                                   *)
WriteFilelist ==
    /\ pc = "write"
    /\ \/ filelist' = output /\ UNCHANGED ioError
       \/ /\ ioError' = TRUE
          /\ \E n \in 0..Len(output) : n < Len(output) /\ filelist' = SubSeq(output, 1, n)
    /\ GoOn
    /\ UNCHANGED <<world, options, inputObjects, output, result, linked, status>>

(* What the real tool is given to link.                                    *)
LinkCommand ==
    [line |-> appendFilelist(TempFile, collectObjectLinkOpts(table, args)), list |-> filelist]

(* Fault: the real tool is waited for, and its status is not looked at.    *)
RunLinkerUnchecked ==
    /\ pc = "link"
    /\ \E r \in IF named THEN Outcomes("linker") ELSE {"Failed"} : result' = r
    /\ linked' = LinkCommand /\ GoOn
    /\ UNCHANGED <<world, options, inputObjects, output, filelist, ioError, status>>

(* A program without a name cannot be started.                             *)
RunLinker ==
    /\ pc = "link"
    /\ \E r \in IF named THEN Outcomes("linker") ELSE {"Failed"} :
          /\ result' = r
          /\ linked' = IF r = "Passed" THEN LinkCommand ELSE linked
    /\ GoOn
    /\ UNCHANGED <<world, options, inputObjects, output, filelist, ioError, status>>

(* diagnostics.error unless the tool passed; then the destructor of the    *)
(* stream, which aborts the process if a write has failed.                 *)
FinishLink ==
    /\ pc = "finish"
    /\ Exit(IF result = "Passed" /\ ~ioError THEN "success" ELSE "failure")
    /\ UNCHANGED <<world, options, inputObjects, output, link>>

Step ==
    \/ SplitArguments \/ CollectObjects \/ FindLinker \/ RunPipeline
    \/ WriteFilelist \/ RunLinker \/ FinishLink

(* The end, or mull-libtool waiting for a program that does not end.       *)
Waiting(program) ==
    /\ Outcomes(program) = {}
    /\ \/ program = "xcrun" /\ pc = "find" /\ ~named
       \/ program = "linker" /\ pc = "link" /\ named

Idle ==
    /\ pc = "ended" \/ Waiting("xcrun") \/ Waiting("linker")
    /\ UNCHANGED vars

Next == Step \/ Idle

(* The process is scheduled, and a program that does not hang ends.        *)
Spec == Init /\ [][Next]_vars /\ WF_vars(Step)

-----------------------------------------------------------------------------
(* The process walks through its phases; a parsed argument is a token      *)
(* alone or an option with its value, never an option that lacks it; and   *)
(* only the real tool's success leaves a link behind.                      *)
TypeOK ==
    /\ tool \in {"mull-ld", "mull-libtool"} /\ tokens \in Seq(STRING)
    /\ hangs \subseteq {"xcrun", "linker"} /\ printed \in {"path", "newline", "nothing"}
    /\ pc \in Range(Phases) \cup {"ended"}
    /\ status \in {"running", "success", "failure", "undefined"}
    /\ (pc = "ended") = (status # "running")
    /\ table \in {"ld64", "clang", "libtool", "none"} /\ named \in BOOLEAN
    /\ \A k \in DOMAIN args :
          \/ Len(args[k]) = 1 /\ args[k][1] \notin Separate
          \/ Len(args[k]) = 2 /\ args[k][1] \in Separate
    /\ inputObjects \in Seq(STRING)
    /\ output \in Seq([object : Range(inputObjects), compiled : BOOLEAN])
    /\ IsPrefix(filelist, output) /\ ioError \in BOOLEAN
    /\ result \in {"none", "Passed", "Failed", "Timedout"}
    /\ (linked # Nothing) = (result = "Passed")

LinkStep == INSTANCE LinkStep WITH
    linked <- IF status = "success" THEN linked ELSE Nothing,
    Takes <- (Separate \ Lone) \cup Unlisted,
    Options <- Separate \cup Flags

(* The drivers can stand in for the tool they wrap.  Exit status 0 means   *)
(* that the real tool has linked exactly the objects of the command line   *)
(* with its options, through the split, the parser's groups, the skipped   *)
(* arguments, the pipeline's list and the temporary file; and undefined    *)
(* behaviour is met on malformed command lines, or when xcrun succeeds     *)
(* without a word, only.                                                   *)
ImplementsLinkStep == LinkStep!Spec

(* mull-ld always ends; mull-libtool ends unless a program it waits for    *)
(* does not.                                                               *)
Terminates == <>(pc = "ended" \/ (tool = "mull-libtool" /\ hangs # {}))
=============================================================================
