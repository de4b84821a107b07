---------------------------- MODULE XCTestRunFile ----------------------------
(***************************************************************************)
(* lib/XCTestRunFile.cpp: an .xctestrun property list and the PlistBuddy   *)
(* commands that edit it.                                                  *)
(*                                                                         *)
(* A file maps each target name to an entry: whether the target is in the  *)
(* file, the environment variables added for it (identifiers of mutants),  *)
(* and its blueprint name.  The name m of a mutant stands for the target   *)
(* "<source>-m" the test runner adds.  The operators give the file after a *)
(* command that ran; a command can also fail (PlistBuddy exits non-zero or *)
(* passes its 10 seconds) and leave the file alone.                        *)
(***************************************************************************)
EXTENDS Naturals, FiniteSets

CONSTANTS Mutant,     \* identifiers of mutants
          Source,     \* the test target under mutation (--test-target)
          Others      \* the other test targets of the original file

ASSUME NamesAssumption ==
    /\ Source \notin Mutant /\ Source \notin Others /\ Others \cap Mutant = {}
    /\ IsFiniteSet(Others) /\ IsFiniteSet(Mutant)

Target == {Source} \cup Others \cup Mutant
Entry  == [present : BOOLEAN, env : SUBSET Mutant, blueprint : Target]
File   == [Target -> Entry]

Absent == [present |-> FALSE, env |-> {}, blueprint |-> Source]
NoFile == [x \in Target |-> Absent]
FileWith(S) ==
    [x \in Target |-> IF x \in S THEN [present |-> TRUE, env |-> {}, blueprint |-> x]
                                 ELSE Absent]

getTargets(f) == {x \in Target : f[x].present}

(* "Copy src new": both the missing source and the existing destination    *)
(* are errors.                                                             *)
duplicateTestTarget(f, src, new) ==
    IF f[src].present /\ ~f[new].present THEN [f EXCEPT ![new] = f[src]] ELSE f

(* "Add target:TestingEnvironmentVariables:key".                           *)
addEnvironmentVariable(f, target, key) ==
    IF f[target].present THEN [f EXCEPT ![target].env = @ \cup {key}] ELSE f

(* "Set target:BlueprintName name".                                        *)
setBlueprintName(f, target, name) ==
    IF f[target].present THEN [f EXCEPT ![target].blueprint = name] ELSE f

(* "Delete target".                                                        *)
deleteTestTarget(f, target) == [f EXCEPT ![target] = Absent]
=============================================================================
