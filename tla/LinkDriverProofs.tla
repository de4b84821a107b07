--------------------------- MODULE LinkDriverProofs ---------------------------
(***************************************************************************)
(* Theorems about LinkDriver, for all command lines, tables of options and *)
(* file lists.                                                             *)
(***************************************************************************)
EXTENDS LinkDriver, InductionLemmas

Tokens == Seq(STRING)
PhaseNames == {"split", "collect", "find", "pipeline", "write", "link", "finish"}
Before == {"split", "collect", "find"}

(* The parsed arguments are sequences of tokens.                           *)
Argument(arg) ==
    /\ arg \in Tokens
    /\ \/ Len(arg) = 1 /\ arg[1] \notin Separate
       \/ Len(arg) = 2 /\ arg[1] \in Separate
ArgumentSet == {arg \in Tokens : Argument(arg)}

(* What the phases to come fill in is not there yet.                       *)
EmptyInv ==
    /\ pc \in Before \cup {"pipeline"} => output = <<>>
    /\ pc \in Before \cup {"pipeline", "write"} => filelist = <<>>
    /\ pc \in Before \cup {"pipeline", "write", "link"} => result = "none" /\ linked = Nothing

(* The parts of the type invariant.                                        *)
WorldType ==
    /\ tool \in {"mull-ld", "mull-libtool"} /\ tokens \in Tokens
    /\ hangs \subseteq {"xcrun", "linker"} /\ printed \in {"path", "newline", "nothing"}
ControlType ==
    /\ pc \in PhaseNames \cup {"ended"}
    /\ status \in {"running", "success", "failure", "undefined"}
    /\ (pc = "ended") = (status # "running")
OptionType ==
    /\ table \in {"ld64", "clang", "libtool", "none"} /\ named \in BOOLEAN
    /\ args \in Seq(ArgumentSet)
ListType ==
    /\ inputObjects \in Tokens
    /\ output \in Seq([object : Range(inputObjects), compiled : BOOLEAN])
LinkType ==
    /\ IsPrefix(filelist, output) /\ ioError \in BOOLEAN
    /\ result \in {"none", "Passed", "Failed", "Timedout"}
    /\ (linked # Nothing) = (result = "Passed")

IInv == WorldType /\ ControlType /\ OptionType /\ ListType /\ LinkType /\ EmptyInv

-----------------------------------------------------------------------------
(* Reading a line from its start.                                          *)

LEMMA SameCardinality == ASSUME NEW S PROVE LinkStep!Cardinality(S) = Cardinality(S)
  BY DEF LinkStep!Cardinality, Cardinality

(* Whether a token holds a value depends on the one before it.             *)
LEMMA ValueSteps ==
    ASSUME NEW s, NEW T
    PROVE  /\ \A i : LinkStep!IsValue(s, T, i) \in BOOLEAN
           /\ ~LinkStep!IsValue(s, T, 1)
           /\ \A i \in Nat \ {0} : LinkStep!IsValue(s, T, i + 1) <=>
                                      s[i] \in T /\ ~LinkStep!IsValue(s, T, i)
<1> DEFINE J(i) == {j \in 1..(i-1) : \A k \in j..(i-1) : s[k] \in T}
<1>1. J(1) = {}
  OBVIOUS
<1>2. ASSUME NEW i \in Nat \ {0}
      PROVE  /\ J(i + 1) = IF s[i] \in T THEN J(i) \cup {i} ELSE {}
             /\ IsFiniteSet(J(i)) /\ i \notin J(i) /\ Cardinality(J(i)) \in Nat
             /\ Cardinality(J(i) \cup {i}) = Cardinality(J(i)) + 1
  <2>1. J(i + 1) = {j \in 1..i : \A k \in j..i : s[k] \in T}
    OBVIOUS
  <2>2. \A j \in 1..i : (\A k \in j..i : s[k] \in T) <=>
                           s[i] \in T /\ \A k \in j..(i-1) : s[k] \in T
    OBVIOUS
  <2>3. J(i + 1) = IF s[i] \in T THEN J(i) \cup {i} ELSE {}
    BY <2>1, <2>2
  <2>4. J(i) \subseteq 1..(i-1) /\ i \notin J(i) /\ IsFiniteSet(1..(i-1))
    BY FS_Interval
  <2> HIDE DEF J
  <2>5. IsFiniteSet(J(i))
    BY <2>4, FS_Subset
  <2> QED
    BY <2>3, <2>4, <2>5, FS_CardinalityType, FS_AddElement
<1>3. \A i : /\ LinkStep!IsValue(s, T, i) <=> Cardinality(J(i)) % 2 = 1
             /\ LinkStep!IsValue(s, T, i) \in BOOLEAN
  BY SameCardinality DEF LinkStep!IsValue
<1> HIDE DEF J
<1>4. Cardinality(J(1)) = 0
  BY <1>1, FS_EmptySet
<1>5. \A c \in Nat : (c + 1) % 2 = 1 <=> ~(c % 2 = 1)
  OBVIOUS
<1>6. ASSUME NEW i \in Nat \ {0}
      PROVE  LinkStep!IsValue(s, T, i + 1) <=> s[i] \in T /\ ~LinkStep!IsValue(s, T, i)
  <2>1. CASE s[i] \in T
    <3>1. Cardinality(J(i + 1)) = Cardinality(J(i)) + 1 /\ Cardinality(J(i)) \in Nat
      BY <1>2, <2>1
    <3>2. Cardinality(J(i + 1)) % 2 = 1 <=> ~(Cardinality(J(i)) % 2 = 1)
      BY <1>5, <3>1
    <3> QED
      BY <1>3, <2>1, <3>2
  <2>2. CASE s[i] \notin T
    <3>1. Cardinality(J(i + 1)) = 0
      BY <1>2, <2>2, FS_EmptySet
    <3> QED
      BY <1>3, <2>2, <3>1
  <2> QED
    BY <2>1, <2>2
<1>7. ~LinkStep!IsValue(s, T, 1)
  BY <1>3, <1>4
<1> QED
  BY <1>3, <1>6, <1>7

(* It does not depend on the tokens after it.                              *)
LEMMA ValuePrefix ==
    ASSUME NEW s, NEW t, NEW T, NEW i \in Nat, \A k \in 1..(i-1) : s[k] = t[k]
    PROVE  LinkStep!IsValue(s, T, i) <=> LinkStep!IsValue(t, T, i)
<1>1. {j \in 1..(i-1) : \A k \in j..(i-1) : s[k] \in T} =
      {j \in 1..(i-1) : \A k \in j..(i-1) : t[k] \in T}
  OBVIOUS
<1> QED
  BY <1>1 DEF LinkStep!IsValue

(* The loops of the drivers skip what the tools read as a value.           *)
LEMMA TakenIsValue ==
    ASSUME NEW A, NEW s \in Seq(A), NEW T
    PROVE  Taken(s, T) = [k \in 1..Len(s) |-> LinkStep!IsValue(s, T, k)]
<1> DEFINE n == Len(s)
           V == [k \in 1..n |-> LinkStep!IsValue(s, T, k)]
           Steps(f) == f = [k \in 1..n |-> k > 1 /\ s[k-1] \in T /\ ~f[k-1]]
<1>0. n \in Nat
  OBVIOUS
<1>1. \A k \in 1..n : V[k] <=> k > 1 /\ s[k-1] \in T /\ ~V[k-1]
  <2> SUFFICES ASSUME NEW k \in 1..n PROVE V[k] <=> k > 1 /\ s[k-1] \in T /\ ~V[k-1]
    OBVIOUS
  <2>1. CASE k = 1
    BY <2>1, ValueSteps
  <2>2. CASE k # 1
    <3>1. k - 1 \in Nat \ {0} /\ k - 1 \in 1..n /\ (k - 1) + 1 = k /\ k > 1
      BY <1>0, <2>2
    <3>2. LinkStep!IsValue(s, T, (k - 1) + 1) <=> s[k-1] \in T /\ ~LinkStep!IsValue(s, T, k - 1)
      BY <3>1, ValueSteps
    <3> QED
      BY <3>1, <3>2
  <2> QED
    BY <2>1, <2>2
<1>2. Steps(V)
  <2>1. \A k \in 1..n : V[k] = (k > 1 /\ s[k-1] \in T /\ ~V[k-1])
    <3>1. \A k \in 1..n : V[k] \in BOOLEAN
      BY ValueSteps
    <3> HIDE DEF V
    <3> QED
      BY <1>1, <3>1
  <2>2. V = [k \in 1..n |-> V[k]]
    OBVIOUS
  <2> HIDE DEF V
  <2> QED
    BY <2>1, <2>2
<1>3. Taken(s, T) = CHOOSE f : Steps(f)
  BY DEF Taken
<1> HIDE DEF V
<1>4. ASSUME NEW f, Steps(f) PROVE f = V
  <2> DEFINE U == {m \in Nat : m \in 1..n => f[m] = V[m]}
  <2>1. \A k \in 1..n : /\ f[k] = (k > 1 /\ s[k-1] \in T /\ ~f[k-1])
                         /\ V[k] = (k > 1 /\ s[k-1] \in T /\ ~V[k-1])
    BY <1>2, <1>4
  <2>2. ASSUME NEW m \in U PROVE m + 1 \in U
    <3>1. m \in Nat /\ (m \in 1..n => f[m] = V[m])
      OBVIOUS
    <3> SUFFICES ASSUME m + 1 \in 1..n PROVE f[m+1] = V[m+1]
      OBVIOUS
    <3>2. /\ f[m+1] = (m + 1 > 1 /\ s[(m+1)-1] \in T /\ ~f[(m+1)-1])
          /\ V[m+1] = (m + 1 > 1 /\ s[(m+1)-1] \in T /\ ~V[(m+1)-1])
      BY <2>1
    <3>3. CASE m = 0
      BY <3>2, <3>3
    <3>4. CASE m # 0
      <4>1. m \in 1..n /\ (m+1)-1 = m
        BY <1>0, <3>1, <3>4
      <4> QED
        BY <3>1, <3>2, <4>1
    <3> QED
      BY <3>3, <3>4
  <2>3. U = Nat
    <3>1. U \in SUBSET Nat /\ 0 \in U
      OBVIOUS
    <3> HIDE DEF U
    <3> QED
      BY <2>2, <3>1, SetInduction
  <2>4. \A k \in 1..n : f[k] = V[k]
    <3>1. \A k \in 1..n : k \in U
      <4> HIDE DEF U
      <4> QED
        BY <2>3
    <3> QED
      BY <3>1
  <2>5. DOMAIN f = 1..n /\ DOMAIN V = 1..n /\ f = [k \in DOMAIN f |-> f[k]] /\ V = [k \in DOMAIN V |-> V[k]]
    BY <1>2, <1>4
  <2> QED
    BY <2>4, <2>5
<1> QED
  BY <1>2, <1>3, <1>4 DEF V

-----------------------------------------------------------------------------
(* Arguments.                                                              *)

(* The part of the parsed arguments that ends with token k.                *)
ArgumentParts(line) ==
    [k \in 1..Len(line) |->
        IF LinkStep!IsValue(line, Separate, k) THEN << <<line[k-1], line[k]>> >>
        ELSE IF line[k] \in Separate THEN <<>> ELSE << <<line[k]>> >>]

LEMMA TokensAndPairs ==
    \A x, y \in STRING : /\ <<x>> \in Tokens /\ <<x, y>> \in Tokens
                         /\ Len(<<x>>) = 1 /\ Len(<<x, y>>) = 2
                         /\ <<x>>[1] = x /\ <<x, y>>[1] = x /\ <<x, y>>[2] = y
<1>1. ASSUME NEW B PROVE \A x, y \in B : <<x>> \in Seq(B) /\ <<x, y>> \in Seq(B)
  OBVIOUS
<1>2. \A x, y \in STRING : <<x>> \in Tokens /\ <<x, y>> \in Tokens
  BY <1>1 DEF Tokens
<1> QED
  BY <1>2

(* The parser renders an option with its value, or a token alone.          *)
LEMMA ParsedParts ==
    ASSUME NEW line \in Tokens
    PROVE  /\ ParseArgs(line) = FlattenSeq(ArgumentParts(line))
           /\ ArgumentParts(line) \in [1..Len(line) -> Seq(ArgumentSet)]
<1> DEFINE value == Taken(line, Separate)
<1>1. /\ Len(line) \in Nat /\ DOMAIN line = 1..Len(line)
      /\ \A k \in 1..Len(line) : line[k] \in STRING /\ k \in Nat
  BY DEF Tokens
<1>2. value = [k \in 1..Len(line) |-> LinkStep!IsValue(line, Separate, k)]
  BY TakenIsValue DEF Tokens
<1>3. \A k \in 1..Len(line) : LinkStep!IsValue(line, Separate, k) => k - 1 \in 1..Len(line) /\ line[k-1] \in Separate
  <2>1. ~LinkStep!IsValue(line, Separate, 1)
    BY ValueSteps
  <2>2. ASSUME NEW k \in 1..Len(line), k # 1, LinkStep!IsValue(line, Separate, k)
        PROVE  line[k-1] \in Separate
    <3>1. k - 1 \in Nat \ {0} /\ (k - 1) + 1 = k
      BY <1>1, <2>2
    <3>2. LinkStep!IsValue(line, Separate, (k - 1) + 1) => line[k-1] \in Separate
      BY <3>1, ValueSteps
    <3> QED
      BY <2>2, <3>1, <3>2
  <2> QED
    BY <1>1, <2>1, <2>2
<1>4. ParseArgs(line) = FlattenSeq(ArgumentParts(line))
  <2>1. ParseArgs(line) = FlattenSeq([k \in DOMAIN line |->
            IF value[k] THEN << <<line[k-1], line[k]>> >>
            ELSE IF line[k] \in Separate THEN <<>> ELSE << <<line[k]>> >>])
    BY DEF ParseArgs, Collect
  <2>2. \A k \in 1..Len(line) : value[k] = LinkStep!IsValue(line, Separate, k)
    BY <1>2
  <2> HIDE DEF value
  <2>3. ArgumentParts(line) = [k \in DOMAIN line |->
            IF value[k] THEN << <<line[k-1], line[k]>> >>
            ELSE IF line[k] \in Separate THEN <<>> ELSE << <<line[k]>> >>]
    BY <1>1, <2>2, Zenon DEF ArgumentParts
  <2> QED
    BY <2>1, <2>3
<1>5. ASSUME NEW k \in 1..Len(line), line[k] \notin Separate PROVE <<line[k]>> \in ArgumentSet
  BY <1>1, <1>5, TokensAndPairs DEF Argument, ArgumentSet
<1>6. ASSUME NEW k \in 1..Len(line), LinkStep!IsValue(line, Separate, k)
      PROVE  <<line[k-1], line[k]>> \in ArgumentSet
  BY <1>1, <1>3, <1>6, TokensAndPairs DEF Argument, ArgumentSet
<1>7. <<>> \in Seq(ArgumentSet) /\ \A x \in ArgumentSet : <<x>> \in Seq(ArgumentSet)
  <2>1. ASSUME NEW B PROVE <<>> \in Seq(B) /\ \A x \in B : <<x>> \in Seq(B)
    OBVIOUS
  <2> QED
    BY <2>1
<1>8. \A k \in 1..Len(line) :
          (IF LinkStep!IsValue(line, Separate, k) THEN << <<line[k-1], line[k]>> >>
           ELSE IF line[k] \in Separate THEN <<>> ELSE << <<line[k]>> >>) \in Seq(ArgumentSet)
  BY <1>5, <1>6, <1>7
<1> QED
  BY <1>4, <1>8 DEF ArgumentParts

LEMMA ParsedArguments ==
    ASSUME NEW line \in Tokens
    PROVE  ParseArgs(line) \in Seq(ArgumentSet)
<1>1. ArgumentParts(line) \in Seq(Seq(ArgumentSet))
  <2>1. Len(line) \in Nat
    BY DEF Tokens
  <2> QED
    BY <2>1, ParsedParts
<1> QED
  BY <1>1, ParsedParts, FlattenFacts

(* What the loops over the arguments collect of each of them.              *)
Unskipped(list) == [k \in 1..Len(list) |-> IF Skipped(list)[k] THEN <<>> ELSE Objects(list[k])]
Inputs(list) == [k \in 1..Len(list) |-> IF IsInput(list[k]) THEN Objects(list[k]) ELSE <<>>]
Listed(list) == [k \in 1..Len(list) |-> IF IsFilelist(list[k]) THEN Objects(list[k]) ELSE <<>>]
Rendered(arg) == IF IsInput(arg) \/ IsFilelist(arg) THEN <<>> ELSE arg
RenderedArgs(flavor, list) ==
    [k \in 1..Len(list) |->
        IF flavor # "ld64" THEN Rendered(list[k])
        ELSE IF Skipped(list)[k] THEN list[k]
        ELSE IF list[k] = <<BitcodeBundle>> THEN <<>>
        ELSE Rendered(list[k])]

LEMMA CollectedParts ==
    ASSUME NEW list \in Seq(ArgumentSet), NEW flavor
    PROVE  /\ collectObjectFiles("ld64", list) = FlattenSeq(Unskipped(list))
           /\ flavor # "ld64" => collectObjectFiles(flavor, list) =
                  FlattenSeq(Inputs(list)) \o FlattenSeq(Listed(list))
           /\ collectObjectLinkOpts(flavor, list) = FlattenSeq(RenderedArgs(flavor, list))
           /\ Unskipped(list) \in [1..Len(list) -> Tokens]
           /\ Inputs(list) \in [1..Len(list) -> Tokens]
           /\ Listed(list) \in [1..Len(list) -> Tokens]
           /\ RenderedArgs(flavor, list) \in [1..Len(list) -> Tokens]
<1>1. Len(list) \in Nat /\ DOMAIN list = 1..Len(list) /\ \A k \in 1..Len(list) : list[k] \in Tokens
  <2>1. ArgumentSet \subseteq Tokens
    BY DEF ArgumentSet
  <2> QED
    BY <2>1
<1>2. <<>> \in Tokens
  BY DEF Tokens
<1>3. \A arg \in Tokens : Objects(arg) \in Tokens
  <2>1. \A p : readFilelistFile(p) \in Tokens
    BY <1>2, TokenAssumption DEF readFilelistFile, Tokens
  <2> QED
    BY <1>2, <2>1 DEF Objects
<1>4. /\ Unskipped(list) \in [1..Len(list) -> Tokens]
      /\ Inputs(list) \in [1..Len(list) -> Tokens]
      /\ Listed(list) \in [1..Len(list) -> Tokens]
      /\ RenderedArgs(flavor, list) \in [1..Len(list) -> Tokens]
  BY <1>1, <1>2, <1>3 DEF Unskipped, Inputs, Listed, Rendered, RenderedArgs
<1>5. collectObjectFiles("ld64", list) = FlattenSeq(Unskipped(list))
  BY <1>1 DEF collectObjectFiles, Collect, Unskipped
<1>6. flavor # "ld64" => collectObjectFiles(flavor, list) =
          FlattenSeq(Inputs(list)) \o FlattenSeq(Listed(list))
  BY <1>1 DEF collectObjectFiles, Collect, Inputs, Listed
<1>7. collectObjectLinkOpts(flavor, list) = FlattenSeq(RenderedArgs(flavor, list))
  BY <1>1 DEF collectObjectLinkOpts, Collect, Rendered, RenderedArgs
<1> QED
  BY <1>4, <1>5, <1>6, <1>7

(* The objects and the options of parsed arguments are tokens.             *)
LEMMA ObjectsAreTokens ==
    ASSUME NEW list \in Seq(ArgumentSet), NEW flavor
    PROVE  /\ collectObjectFiles(flavor, list) \in Tokens
           /\ collectObjectLinkOpts(flavor, list) \in Tokens
<1>1. ASSUME NEW ss \in [1..Len(list) -> Tokens] PROVE FlattenSeq(ss) \in Tokens
  <2>1. Len(list) \in Nat
    OBVIOUS
  <2>2. ss \in Seq(Seq(STRING))
    BY <2>1 DEF Tokens
  <2> QED
    BY <2>2, FlattenFacts DEF Tokens
<1>2. FlattenSeq(Inputs(list)) \o FlattenSeq(Listed(list)) \in Tokens
  <2>1. FlattenSeq(Inputs(list)) \in Tokens /\ FlattenSeq(Listed(list)) \in Tokens
    BY <1>1, CollectedParts
  <2> QED
    BY <2>1 DEF Tokens
<1> QED
  BY <1>1, <1>2, CollectedParts

(* The two halves of the command line are tokens, too.                     *)
LEMMA SplitIsTokens ==
    ASSUME NEW line \in Tokens
    PROVE  filterMullOptions(line).linkerArgs \in Tokens
<1> DEFINE value == Taken(line, {Xmull})
           ss == [k \in DOMAIN line |-> IF value[k] \/ line[k] = Xmull THEN <<>> ELSE <<line[k]>>]
<1>1. filterMullOptions(line).linkerArgs = FlattenSeq(ss)
  BY DEF filterMullOptions, Collect
<1> HIDE DEF value
<1>2. /\ \A x \in STRING : <<x>> \in Seq(STRING)
      /\ <<>> \in Seq(STRING)
  <2>1. ASSUME NEW A PROVE <<>> \in Seq(A) /\ \A x \in A : <<x>> \in Seq(A)
    OBVIOUS
  <2> QED
    BY <2>1
<1>3. ss \in Seq(Seq(STRING))
  <2>1. Len(line) \in Nat /\ DOMAIN line = 1..Len(line) /\ \A k \in 1..Len(line) : line[k] \in STRING
    BY DEF Tokens
  <2>2. \A k \in 1..Len(line) : (IF value[k] \/ line[k] = Xmull THEN <<>> ELSE <<line[k]>>) \in Seq(STRING)
    BY <1>2, <2>1, Zenon
  <2> QED
    BY <2>1, <2>2
<1> HIDE DEF ss
<1> QED
  BY <1>1, <1>3, FlattenFacts DEF Tokens

(* What the pipeline returns.                                              *)
LEMMA RewritingType ==
    ASSUME NEW objects \in Tokens, NEW out \in Pipeline!Rewritings(objects)
    PROVE  out \in Seq([object : Range(objects), compiled : BOOLEAN])
<1> DEFINE T == [object : Range(objects), compiled : BOOLEAN]
<1>1. Pipeline!Range(objects) = Range(objects)
  BY DEF Pipeline!Range, Range
<1>2. \A S : Pipeline!Keep(objects, S) = Keep(objects, S)
  BY DEF Pipeline!Keep, Keep, Pipeline!FlattenSeq, FlattenSeq
<1>3. ASSUME NEW r, NEW c \in BOOLEAN PROVE Pipeline!Marked(objects, r, c) \in Seq(T)
  <2> DEFINE S == IF c THEN r ELSE Range(objects) \ r
             kept == Keep(objects, S)
  <2>1. Pipeline!Marked(objects, r, c) = [k \in DOMAIN kept |-> [object |-> kept[k], compiled |-> c]]
    BY <1>1, <1>2 DEF Pipeline!Marked
  <2> HIDE DEF S
  <2>2. objects \in Seq(STRING)
    BY DEF Tokens
  <2>3. kept \in Seq(STRING) /\ Range(kept) = Range(objects) \cap S
    BY <2>2, KeepFacts
  <2> HIDE DEF kept
  <2>4. Len(kept) \in Nat /\ DOMAIN kept = 1..Len(kept)
    BY <2>3
  <2>5. \A k \in 1..Len(kept) : kept[k] \in Range(objects)
    BY <2>3, <2>4 DEF Range
  <2>6. \A k \in 1..Len(kept) : [object |-> kept[k], compiled |-> c] \in T
    BY <2>5
  <2> HIDE DEF T
  <2> QED
    BY <2>1, <2>4, <2>6
<1> HIDE DEF T
<1>4. PICK r \in SUBSET Range(objects) :
          out = Pipeline!Marked(objects, r, FALSE) \o Pipeline!Marked(objects, r, TRUE)
  BY <1>1 DEF Pipeline!Rewritings
<1>5. Pipeline!Marked(objects, r, FALSE) \in Seq(T) /\ Pipeline!Marked(objects, r, TRUE) \in Seq(T)
  BY <1>3
<1>6. out \in Seq(T)
  <2> DEFINE a == Pipeline!Marked(objects, r, FALSE)
             b == Pipeline!Marked(objects, r, TRUE)
  <2>1. a \in Seq(T) /\ b \in Seq(T) /\ out = a \o b
    BY <1>4, <1>5
  <2> HIDE DEF a, b
  <2> QED
    BY <2>1
<1> QED
  BY <1>6 DEF T

-----------------------------------------------------------------------------
(* Phases.                                                                 *)

LEMMA PhaseFacts ==
    /\ DOMAIN Phases = {1, 2, 3, 4, 5, 6, 7} /\ Range(Phases) = PhaseNames
    /\ Phases[4] = "pipeline" /\ Phases[5] = "write" /\ Phases[6] = "link" /\ Phases[7] = "finish"
    /\ Phases[1] = "split" /\ {Phases[2], Phases[3]} = {"collect", "find"}
<1>1. /\ DOMAIN Phases = 1..7
      /\ Phases[4] = "pipeline" /\ Phases[5] = "write" /\ Phases[6] = "link" /\ Phases[7] = "finish"
      /\ Phases[1] = "split" /\ {Phases[2], Phases[3]} = {"collect", "find"}
  BY DEF Phases
<1>2. 1..7 = {1, 2, 3, 4, 5, 6, 7}
  OBVIOUS
<1> HIDE DEF Phases
<1>3. Range(Phases) = {Phases[1], Phases[2], Phases[3], Phases[4], Phases[5], Phases[6], Phases[7]}
  BY <1>1, <1>2 DEF Range
<1> QED
  BY <1>1, <1>2, <1>3 DEF PhaseNames

(* The phase after this one.                                               *)
LEMMA GoOnFacts ==
    ASSUME GoOn, pc # "finish"
    PROVE  /\ pc \in {"split", "collect", "find"} => pc' \in {"collect", "find", "pipeline"}
           /\ pc = "pipeline" => pc' = "write"
           /\ pc = "write" => pc' = "link"
           /\ pc = "link" => pc' = "finish"
           /\ pc' \in PhaseNames
<1>1. PICK k \in {1, 2, 3, 4, 5, 6, 7} : Phases[k] = pc /\ pc' = Phases[k+1]
  BY PhaseFacts DEF GoOn
<1>2. k \in {1, 2, 3, 4, 5, 6}
  BY <1>1, PhaseFacts
<1> QED
  BY <1>1, <1>2, PhaseFacts DEF PhaseNames

-----------------------------------------------------------------------------
(* The first states.                                                      *)

LEMMA EmptyPrefix == ASSUME NEW A, NEW s \in Seq(A) PROVE IsPrefix(<<>>, s)
<1>1. Len(<<>>) = 0 /\ Len(s) \in Nat
  OBVIOUS
<1>2. SubSeq(<<>>, 1, 0) = <<>> /\ SubSeq(s, 1, 0) = <<>>
  OBVIOUS
<1> QED
  BY <1>1, <1>2 DEF IsPrefix

LEMMA Initially == Init => IInv
<1> SUFFICES ASSUME Init PROVE IInv
  OBVIOUS
<1>1. WorldType
  BY DriverAssumption DEF Init, WorldType, Tokens
<1>2. ControlType
  BY DEF Init, ControlType, PhaseNames
<1>3. OptionType
  <2>1. args = <<>> /\ args \in Seq(ArgumentSet)
    BY DEF Init
  <2> QED
    BY <2>1 DEF Init, OptionType
<1>4. ListType
  BY DEF Init, ListType, Tokens
<1>5. LinkType
  <2>1. output = <<>> /\ output \in Tokens /\ filelist = <<>>
    BY DEF Init, Tokens
  <2> QED
    BY <2>1, EmptyPrefix DEF Init, LinkType, Tokens
<1>6. EmptyInv
  BY DEF Init, EmptyInv
<1> QED
  BY <1>1, <1>2, <1>3, <1>4, <1>5, <1>6 DEF IInv

(* A step to the next phase or to the end of the process.                  *)
LEMMA ControlStep ==
    ASSUME ControlType, pc \in PhaseNames,
           \/ pc # "finish" /\ GoOn /\ UNCHANGED status
           \/ \E s \in {"success", "failure", "undefined"} : Exit(s)
    PROVE  ControlType'
<1>1. CASE pc # "finish" /\ GoOn /\ UNCHANGED status
  BY <1>1, GoOnFacts DEF ControlType, PhaseNames
<1>2. CASE \E s \in {"success", "failure", "undefined"} : Exit(s)
  BY <1>2 DEF ControlType, Exit
<1> QED
  BY <1>1, <1>2

(* What a step has not filled in yet remains empty.                        *)
LEMMA EmptyStep ==
    ASSUME EmptyInv, UNCHANGED <<output, link>>, pc \in Before, GoOn \/ pc' = "ended"
    PROVE  EmptyInv'
<1>1. pc' \in {"collect", "find", "pipeline", "ended"}
  BY GoOnFacts DEF Before
<1> QED
  BY <1>1 DEF EmptyInv, Before, link

-----------------------------------------------------------------------------
(* Steps.                                                                  *)

LEMMA SplitArgumentsStep == ASSUME IInv, SplitArguments PROVE IInv'
<1>1. /\ WorldType /\ ControlType /\ ListType /\ LinkType /\ EmptyInv /\ pc = "split"
      /\ UNCHANGED <<world, inputObjects, output, link>>
  BY DEF IInv, SplitArguments
<1>2. WorldType'
  BY <1>1 DEF WorldType, world
<1>3. ControlType' /\ (GoOn \/ pc' = "ended")
  <2>1. \/ GoOn /\ UNCHANGED status
        \/ \E s \in {"success", "failure", "undefined"} : Exit(s)
    BY DEF SplitArguments, EarlyEnd
  <2> QED
    BY <1>1, <2>1, ControlStep DEF PhaseNames, Exit
<1>4. OptionType'
  <2> DEFINE split == filterMullOptions(tokens)
  <2>1. split.linkerArgs \in Tokens
    BY <1>1, SplitIsTokens DEF WorldType
  <2>2. /\ table' = GetLinkerOptTable(split.mullArgs)
        /\ args' = ParseArgs(split.linkerArgs) /\ named' \in BOOLEAN
    BY DEF SplitArguments, NamesTool
  <2> HIDE DEF split
  <2>3. args' \in Seq(ArgumentSet)
    BY <2>1, <2>2, ParsedArguments
  <2>4. table' \in {"ld64", "clang", "libtool", "none"}
    BY <2>2 DEF GetLinkerOptTable
  <2> QED
    BY <2>2, <2>3, <2>4 DEF OptionType
<1>5. ListType' /\ LinkType'
  BY <1>1 DEF ListType, LinkType, link
<1>6. EmptyInv'
  BY <1>1, <1>3, EmptyStep DEF Before
<1> QED
  BY <1>2, <1>3, <1>4, <1>5, <1>6 DEF IInv

LEMMA CollectObjectsStep == ASSUME IInv, CollectObjects PROVE IInv'
<1>1. /\ WorldType /\ ControlType /\ OptionType /\ LinkType /\ EmptyInv /\ pc = "collect"
      /\ UNCHANGED <<world, options, output, link>>
  BY DEF IInv, CollectObjects
<1>2. WorldType'
  BY <1>1 DEF WorldType, world
<1>3. ControlType' /\ (GoOn \/ pc' = "ended")
  <2>1. \/ GoOn /\ UNCHANGED status
        \/ \E s \in {"success", "failure", "undefined"} : Exit(s)
    BY DEF CollectObjects
  <2> QED
    BY <1>1, <2>1, ControlStep DEF PhaseNames, Exit
<1>4. OptionType'
  BY <1>1 DEF OptionType, options
<1>5. ListType'
  <2>1. inputObjects' \in Tokens
    BY <1>1, ObjectsAreTokens DEF CollectObjects, OptionType
  <2>2. output' = <<>>
    BY <1>1 DEF EmptyInv, Before
  <2>3. \A A : <<>> \in Seq(A)
    OBVIOUS
  <2> QED
    BY <2>1, <2>2, <2>3 DEF ListType
<1>6. LinkType'
  BY <1>1 DEF LinkType, link
<1>7. EmptyInv'
  BY <1>1, <1>3, EmptyStep DEF Before
<1> QED
  BY <1>2, <1>3, <1>4, <1>5, <1>6, <1>7 DEF IInv

LEMMA FindLinkerStep == ASSUME IInv, FindLinker PROVE IInv'
<1>1. /\ WorldType /\ ControlType /\ OptionType /\ ListType /\ LinkType /\ EmptyInv
      /\ pc = "find" /\ UNCHANGED <<world, table, args, inputObjects, output, link>>
      /\ named' \in {named, TRUE}
  BY DEF IInv, FindLinker, TakePath
<1>2. WorldType' /\ OptionType' /\ ListType' /\ LinkType'
  BY <1>1 DEF WorldType, world, OptionType, ListType, LinkType, link
<1>3. ControlType' /\ (GoOn \/ pc' = "ended")
  <2>1. \/ GoOn /\ UNCHANGED status
        \/ \E s \in {"success", "failure", "undefined"} : Exit(s)
    BY DEF FindLinker, TakePath
  <2> QED
    BY <1>1, <2>1, ControlStep DEF PhaseNames, Exit
<1>4. EmptyInv'
  BY <1>1, <1>3, EmptyStep DEF Before
<1> QED
  BY <1>2, <1>3, <1>4 DEF IInv

LEMMA RunPipelineStep == ASSUME IInv, RunPipeline PROVE IInv'
<1>1. /\ WorldType /\ ControlType /\ OptionType /\ ListType /\ LinkType /\ EmptyInv
      /\ pc = "pipeline" /\ UNCHANGED <<world, options, link>>
  BY DEF IInv, RunPipeline
<1>2. WorldType' /\ OptionType'
  BY <1>1 DEF WorldType, world, OptionType, options
<1>3. ControlType' /\ pc' \in {"write", "ended"}
  <2>1. \/ GoOn /\ UNCHANGED status
        \/ \E s \in {"success", "failure", "undefined"} : Exit(s)
    BY DEF RunPipeline
  <2> QED
    BY <1>1, <2>1, ControlStep, GoOnFacts DEF PhaseNames, Exit
<1>4. ListType'
  <2>1. CASE UNCHANGED <<inputObjects, output>>
    BY <1>1, <2>1 DEF ListType
  <2>2. CASE Pipeline!Return
    <3>1. inputObjects' = inputObjects /\ output' \in Pipeline!Rewritings(inputObjects)
      BY <2>2 DEF Pipeline!Return
    <3>2. inputObjects \in Tokens
      BY <1>1 DEF ListType
    <3> QED
      BY <3>1, <3>2, RewritingType DEF ListType
  <2> QED
    BY <2>1, <2>2 DEF RunPipeline
<1>5. LinkType'
  <2>1. filelist' = <<>>
    BY <1>1 DEF link, EmptyInv
  <2>2. IsPrefix(filelist', output')
    BY <1>4, <2>1, EmptyPrefix DEF ListType
  <2> QED
    BY <1>1, <2>2 DEF LinkType, link
<1>6. EmptyInv'
  BY <1>1, <1>3 DEF EmptyInv, Before, link
<1> QED
  BY <1>2, <1>3, <1>4, <1>5, <1>6 DEF IInv

LEMMA WriteFilelistStep == ASSUME IInv, WriteFilelist PROVE IInv'
<1>1. /\ WorldType /\ ControlType /\ OptionType /\ ListType /\ LinkType /\ EmptyInv
      /\ pc = "write" /\ GoOn
      /\ UNCHANGED <<world, options, inputObjects, output, result, linked, status>>
  BY DEF IInv, WriteFilelist
<1>2. WorldType' /\ OptionType' /\ ListType'
  BY <1>1 DEF WorldType, world, OptionType, options, ListType
<1>3. ControlType' /\ pc' = "link"
  BY <1>1, ControlStep, GoOnFacts DEF PhaseNames
<1>4. LinkType'
  <2> DEFINE A == [object : Range(inputObjects), compiled : BOOLEAN]
  <2>1. output \in Seq(A)
    BY <1>1 DEF ListType
  <2> HIDE DEF A
  <2>2. IsPrefix(output, output)
    BY <2>1 DEF IsPrefix
  <2>3. ASSUME NEW n \in 0..Len(output) PROVE IsPrefix(SubSeq(output, 1, n), output)
    <3>1. Len(output) \in Nat /\ n \in Nat /\ n <= Len(output)
      BY <2>1
    <3>2. SubSeq(output, 1, n) \in Seq(A) /\ Len(SubSeq(output, 1, n)) = n
      BY <2>1, <3>1
    <3>3. SubSeq(SubSeq(output, 1, n), 1, n) = SubSeq(output, 1, n)
      BY <2>1, <3>1, <3>2
    <3> QED
      BY <3>1, <3>2, <3>3 DEF IsPrefix
  <2>4. IsPrefix(filelist', output) /\ ioError' \in BOOLEAN
    BY <1>1, <2>2, <2>3 DEF WriteFilelist, LinkType
  <2> QED
    BY <1>1, <2>4 DEF LinkType
<1>5. EmptyInv'
  BY <1>1, <1>3 DEF EmptyInv, Before
<1> QED
  BY <1>2, <1>3, <1>4, <1>5 DEF IInv

LEMMA RunLinkerStep == ASSUME IInv, RunLinker PROVE IInv'
<1>1. /\ WorldType /\ ControlType /\ OptionType /\ ListType /\ LinkType /\ EmptyInv
      /\ pc = "link" /\ GoOn
      /\ UNCHANGED <<world, options, inputObjects, output, filelist, ioError, status>>
  BY DEF IInv, RunLinker
<1>2. WorldType' /\ OptionType' /\ ListType'
  BY <1>1 DEF WorldType, world, OptionType, options, ListType
<1>3. ControlType' /\ pc' = "finish"
  BY <1>1, ControlStep, GoOnFacts DEF PhaseNames
<1>4. LinkType'
  <2> DEFINE opts == collectObjectLinkOpts(table, args)
             line == appendFilelist(TempFile, opts)
  <2>1. opts \in Tokens
    BY <1>1, ObjectsAreTokens DEF OptionType
  <2> HIDE DEF opts
  <2>2. line # <<>>
    <3>1. opts \in Seq(STRING) /\ Len(opts) \in Nat
      BY <2>1 DEF Tokens
    <3>2. Len(line) = Len(opts) + 2
      BY <3>1 DEF appendFilelist
    <3> QED
      BY <3>1, <3>2
  <2>3. PICK r \in {"Passed", "Failed", "Timedout"} :
           result' = r /\ linked' = IF r # "Passed" THEN linked ELSE [line |-> line, list |-> filelist]
    BY DEF RunLinker, LinkCommand, Outcomes, opts
  <2> HIDE DEF line
  <2>4. [line |-> line, list |-> filelist] # Nothing
    BY <2>2 DEF Nothing
  <2>5. linked = Nothing
    BY <1>1 DEF EmptyInv
  <2>6. (linked' # Nothing) = (result' = "Passed")
    BY <2>3, <2>4, <2>5
  <2> QED
    BY <1>1, <2>3, <2>6 DEF LinkType
<1>5. EmptyInv'
  BY <1>3 DEF EmptyInv, Before
<1> QED
  BY <1>2, <1>3, <1>4, <1>5 DEF IInv

LEMMA FinishLinkStep == ASSUME IInv, FinishLink PROVE IInv'
<1>1. /\ WorldType /\ ControlType /\ OptionType /\ ListType /\ LinkType
      /\ UNCHANGED <<world, options, inputObjects, output, link>>
      /\ pc = "finish" /\ \E s \in {"success", "failure"} : Exit(s)
  BY DEF IInv, FinishLink
<1>2. WorldType' /\ OptionType' /\ ListType' /\ LinkType'
  BY <1>1 DEF WorldType, world, OptionType, options, ListType, LinkType, link
<1>3. ControlType' /\ pc' = "ended"
  BY <1>1, ControlStep DEF PhaseNames, Exit
<1>4. EmptyInv'
  BY <1>3 DEF EmptyInv, Before
<1> QED
  BY <1>2, <1>3, <1>4 DEF IInv

LEMMA IInvStep == IInv /\ [Next]_vars => IInv'
<1> SUFFICES ASSUME IInv, [Next]_vars PROVE IInv'
  OBVIOUS
<1>1. CASE UNCHANGED vars
  BY <1>1 DEF vars, world, options, link, IInv, WorldType, ControlType, OptionType,
     ListType, LinkType, EmptyInv
<1> QED
  BY <1>1, SplitArgumentsStep, CollectObjectsStep, FindLinkerStep, RunPipelineStep,
     WriteFilelistStep, RunLinkerStep, FinishLinkStep DEF Next, Step, Idle

LEMMA TypeParts == IInv => TypeOK
<1>1. ASSUME args \in Seq(ArgumentSet), NEW k \in DOMAIN args PROVE Argument(args[k])
  BY <1>1, ElementOfSeq DEF ArgumentSet
<1> QED
  BY <1>1, PhaseFacts DEF IInv, TypeOK, WorldType, ControlType, OptionType, ListType, LinkType,
     Tokens, Argument

(* The invariant holds in every state.                                     *)
THEOREM Invariance == Spec => []IInv
  BY Initially, IInvStep, PTL DEF Spec

(* For all command lines and tables of options the process walks through   *)
(* its phases, no parsed option lacks its value, the list handed to the    *)
(* tool is one the pipeline returned or the beginning of it, and only the  *)
(* real tool's success leaves a link behind.                               *)
THEOREM TypeCorrectness == Spec => []TypeOK
  BY Invariance, TypeParts, PTL

-----------------------------------------------------------------------------
(* Command lines, one token at a time.                                     *)

(* Whether a token after s would be a value.                               *)
Open(s, T) == LinkStep!IsValue(s, T, Len(s) + 1)

LEMMA OpenEmpty == ASSUME NEW T PROVE ~Open(<<>>, T)
<1>1. Len(<<>>) + 1 = 1
  OBVIOUS
<1> QED
  BY <1>1, ValueSteps DEF Open

(* The sequence s can be followed by x.                                    *)
Grows(s, x) ==
    /\ Len(s) \in Nat /\ Len(Append(s, x)) = Len(s) + 1 /\ (Len(s) + 1) - 1 = Len(s)
    /\ Append(s, x)[Len(s) + 1] = x /\ \A k \in 1..Len(s) : Append(s, x)[k] = s[k]

LEMMA Growing ==
    /\ \A s \in Tokens, x \in STRING : Grows(s, x) /\ Append(s, x) \in Tokens
    /\ \A A : \A s \in Seq(A), x \in A : Grows(s, x) /\ Append(s, x) \in Seq(A)
<1>1. ASSUME NEW A, NEW s \in Seq(A), NEW x \in A PROVE Grows(s, x) /\ Append(s, x) \in Seq(A)
  BY DEF Grows
<1>2. \A A : \A s \in Seq(A), x \in A : Grows(s, x) /\ Append(s, x) \in Seq(A)
  BY <1>1
<1> QED
  BY <1>2, Zenon DEF Tokens

LEMMA EarlierValue ==
    ASSUME NEW s, NEW x, NEW T, Grows(s, x), NEW i \in 1..(Len(s) + 1)
    PROVE  LinkStep!IsValue(Append(s, x), T, i) = LinkStep!IsValue(s, T, i)
<1>1. i \in Nat /\ \A k \in 1..(i-1) : Append(s, x)[k] = s[k]
  BY DEF Grows
<1>2. LinkStep!IsValue(Append(s, x), T, i) <=> LinkStep!IsValue(s, T, i)
  BY <1>1, ValuePrefix
<1> QED
  BY <1>2, ValueSteps

LEMMA OpenSteps ==
    ASSUME NEW s, NEW x, NEW T, Grows(s, x)
    PROVE  /\ Open(s, T) \in BOOLEAN
           /\ Open(Append(s, x), T) <=> x \in T /\ ~Open(s, T)
           /\ Open(s, T) => Len(s) \in 1..Len(s) /\ s[Len(s)] \in T
           /\ LinkStep!IsValue(Append(s, x), T, Len(s) + 1) = Open(s, T)
<1> DEFINE n == Len(s)
           t == Append(s, x)
<1>1. /\ n \in Nat /\ Len(t) = n + 1 /\ t[n+1] = x /\ \A k \in 1..n : t[k] = s[k]
      /\ n + 1 \in Nat \ {0}
  BY DEF Grows
<1>2. Open(s, T) = LinkStep!IsValue(s, T, n + 1) /\ Open(t, T) = LinkStep!IsValue(t, T, (n + 1) + 1)
  BY <1>1 DEF Open
<1> HIDE DEF n, t
<1>3. LinkStep!IsValue(t, T, n + 1) = LinkStep!IsValue(s, T, n + 1)
  <2>1. Len(s) + 1 \in 1..(Len(s) + 1)
    BY <1>1 DEF n
  <2> QED
    BY <2>1, EarlierValue DEF n, t
<1>5. Open(t, T) <=> x \in T /\ ~Open(s, T)
  <2>1. LinkStep!IsValue(t, T, (n + 1) + 1) <=> t[n+1] \in T /\ ~LinkStep!IsValue(t, T, n + 1)
    BY <1>1, ValueSteps
  <2> QED
    BY <1>1, <1>2, <1>3, <2>1
<1>6. Open(s, T) \in BOOLEAN
  BY <1>2, ValueSteps
<1>7. Open(s, T) => n \in 1..n /\ s[n] \in T
  <2>1. CASE n = 0
    <3>1. n + 1 = 1
      BY <2>1
    <3> QED
      BY <1>2, <3>1, ValueSteps
  <2>2. CASE n # 0
    <3>1. n \in Nat \ {0} /\ n \in 1..n
      BY <1>1, <2>2
    <3>2. LinkStep!IsValue(s, T, n + 1) <=> s[n] \in T /\ ~LinkStep!IsValue(s, T, n)
      BY <3>1, ValueSteps
    <3> QED
      BY <1>2, <3>1, <3>2
  <2> QED
    BY <2>1, <2>2
<1> QED
  BY <1>2, <1>3, <1>5, <1>6, <1>7 DEF n, t

(* The parser: an option with its value, nothing yet, or a token alone.    *)
LEMMA ParseSteps ==
    ASSUME NEW s \in Tokens, NEW x \in STRING
    PROVE  ParseArgs(Append(s, x)) =
               IF Open(s, Separate) THEN Append(ParseArgs(s), <<s[Len(s)], x>>)
               ELSE IF x \in Separate THEN ParseArgs(s)
               ELSE Append(ParseArgs(s), <<x>>)
<1> DEFINE n == Len(s)
           t == Append(s, x)
           last == IF Open(s, Separate) THEN << <<s[Len(s)], x>> >>
                   ELSE IF x \in Separate THEN <<>> ELSE << <<x>> >>
<1>1. /\ n \in Nat /\ Len(t) = n + 1 /\ t[n+1] = x /\ t \in Tokens
      /\ \A k \in 1..n : t[k] = s[k]
      /\ (n + 1) - 1 = n /\ Grows(s, x)
  BY Growing DEF Grows
<1>2. /\ \A i \in 1..n : LinkStep!IsValue(t, Separate, i) = LinkStep!IsValue(s, Separate, i)
      /\ LinkStep!IsValue(t, Separate, n + 1) = Open(s, Separate)
      /\ Open(s, Separate) => n \in 1..n
  <2>1. Grows(s, x)
    BY <1>1
  <2>2. \A i \in 1..Len(s) : LinkStep!IsValue(Append(s, x), Separate, i) = LinkStep!IsValue(s, Separate, i)
    <3> TAKE i \in 1..Len(s)
    <3>1. i \in 1..(Len(s) + 1)
      BY <2>1 DEF Grows
    <3> QED
      BY <2>1, <3>1, EarlierValue
  <2>3. LinkStep!IsValue(Append(s, x), Separate, Len(s) + 1) = Open(s, Separate)
    BY <2>1, OpenSteps
  <2>4. Open(s, Separate) => Len(s) \in 1..Len(s)
    BY <2>1, OpenSteps
  <2> QED
    BY <2>2, <2>3, <2>4
<1>3. ParseArgs(s) = FlattenSeq(ArgumentParts(s)) /\ ParseArgs(t) = FlattenSeq(ArgumentParts(t))
  BY <1>1, ParsedParts
<1>4. /\ ArgumentParts(s) \in [1..n -> Seq(ArgumentSet)]
      /\ ArgumentParts(t) \in [1..(n+1) -> Seq(ArgumentSet)]
  BY <1>1, ParsedParts
<1>5. ArgumentParts(t)[n+1] = last
  <2>1. n + 1 \in 1..(n+1)
    BY <1>1
  <2>2. ArgumentParts(t)[n+1] =
            IF LinkStep!IsValue(t, Separate, n + 1) THEN << <<t[(n+1)-1], t[n+1]>> >>
            ELSE IF t[n+1] \in Separate THEN <<>> ELSE << <<t[n+1]>> >>
    BY <1>1, <2>1 DEF ArgumentParts
  <2> QED
    BY <1>1, <1>2, <2>2
<1>6. \A k \in 1..n : ArgumentParts(s)[k] = ArgumentParts(t)[k]
  <2> SUFFICES ASSUME NEW k \in 1..n PROVE ArgumentParts(s)[k] = ArgumentParts(t)[k]
    OBVIOUS
  <2>1. k \in 1..Len(t) /\ (k - 1 \in 1..n \/ ~LinkStep!IsValue(s, Separate, k))
    <3>1. k = 1 => ~LinkStep!IsValue(s, Separate, k)
      BY ValueSteps
    <3> QED
      BY <1>1, <3>1
  <2> HIDE DEF n, t
  <2> QED
    BY <1>1, <1>2, <2>1 DEF ArgumentParts, n
<1> HIDE DEF n, t, last
<1>7. FlattenSeq(ArgumentParts(t)) = FlattenSeq(ArgumentParts(s)) \o last
  BY <1>1, <1>4, <1>5, <1>6, PartsAppended
<1>8. ParseArgs(s) \in Seq(ArgumentSet)
  BY ParsedArguments
<1>9. \A v \in Seq(ArgumentSet) : \A y : v \o <<y>> = Append(v, y) /\ v \o <<>> = v
  OBVIOUS
<1> QED
  BY <1>3, <1>7, <1>8, <1>9 DEF last, t

(* The loops over the arguments.                                           *)
SkipOpen(list) == Open(list, {<<AddAstPath>>})

RenderedLast(flavor, list, arg) ==
    IF flavor # "ld64" THEN Rendered(arg)
    ELSE IF SkipOpen(list) THEN arg
    ELSE IF arg = <<BitcodeBundle>> THEN <<>>
    ELSE Rendered(arg)

LEMMA SkippedSteps ==
    ASSUME NEW list \in Seq(ArgumentSet), NEW arg \in ArgumentSet
    PROVE  /\ \A k \in 1..Len(list) : Skipped(Append(list, arg))[k] = Skipped(list)[k]
           /\ Skipped(Append(list, arg))[Len(list) + 1] = SkipOpen(list)
<1> DEFINE n == Len(list)
           t == Append(list, arg)
           T == {<<AddAstPath>>}
<1>1. Grows(list, arg) /\ t \in Seq(ArgumentSet) /\ n \in Nat /\ Len(t) = n + 1
  BY Growing DEF Grows
<1>2. /\ Skipped(list) = [k \in 1..n |-> LinkStep!IsValue(list, T, k)]
      /\ Skipped(t) = [k \in 1..(n+1) |-> LinkStep!IsValue(t, T, k)]
  BY <1>1, TakenIsValue DEF Skipped
<1>3. \A k \in 1..(n+1) : LinkStep!IsValue(t, T, k) = LinkStep!IsValue(list, T, k)
  BY <1>1, EarlierValue
<1> HIDE DEF T, t
<1>4. n + 1 \in 1..(n+1) /\ \A k \in 1..n : k \in 1..(n+1)
  BY <1>1
<1> HIDE DEF n
<1>5. /\ \A k \in 1..n : Skipped(t)[k] = Skipped(list)[k]
      /\ Skipped(t)[n+1] = LinkStep!IsValue(list, T, n + 1)
  BY <1>2, <1>3, <1>4
<1> QED
  BY <1>5 DEF SkipOpen, Open, n, t, T

LEMMA CollectSteps ==
    ASSUME NEW list \in Seq(ArgumentSet), NEW arg \in ArgumentSet, NEW flavor
    PROVE  /\ FlattenSeq(Unskipped(Append(list, arg))) =
                  FlattenSeq(Unskipped(list)) \o (IF SkipOpen(list) THEN <<>> ELSE Objects(arg))
           /\ FlattenSeq(Inputs(Append(list, arg))) =
                  FlattenSeq(Inputs(list)) \o (IF IsInput(arg) THEN Objects(arg) ELSE <<>>)
           /\ FlattenSeq(Listed(Append(list, arg))) =
                  FlattenSeq(Listed(list)) \o (IF IsFilelist(arg) THEN Objects(arg) ELSE <<>>)
           /\ FlattenSeq(RenderedArgs(flavor, Append(list, arg))) =
                  FlattenSeq(RenderedArgs(flavor, list)) \o RenderedLast(flavor, list, arg)
<1> DEFINE n == Len(list)
           t == Append(list, arg)
<1>1. /\ t \in Seq(ArgumentSet) /\ n \in Nat /\ Len(t) = n + 1 /\ t[n+1] = arg
      /\ \A k \in 1..n : t[k] = list[k]
  BY Growing DEF Grows
<1>2. /\ \A k \in 1..n : Skipped(t)[k] = Skipped(list)[k]
      /\ Skipped(t)[n+1] = SkipOpen(list)
  BY SkippedSteps
<1> HIDE DEF t, n
<1>3. n + 1 \in 1..(n+1) /\ \A k \in 1..n : k \in 1..(n+1)
  BY <1>1
<1>4. ASSUME NEW P \in [1..n -> Tokens], NEW Q \in [1..(n+1) -> Tokens],
             \A k \in 1..n : P[k] = Q[k]
      PROVE  FlattenSeq(Q) = FlattenSeq(P) \o Q[n+1]
  BY <1>1, <1>4, PartsAppended DEF Tokens
<1>5. /\ Unskipped(list) \in [1..n -> Tokens] /\ Unskipped(t) \in [1..(n+1) -> Tokens]
      /\ Inputs(list) \in [1..n -> Tokens] /\ Inputs(t) \in [1..(n+1) -> Tokens]
      /\ Listed(list) \in [1..n -> Tokens] /\ Listed(t) \in [1..(n+1) -> Tokens]
      /\ RenderedArgs(flavor, list) \in [1..n -> Tokens]
      /\ RenderedArgs(flavor, t) \in [1..(n+1) -> Tokens]
  BY <1>1, CollectedParts DEF n
<1>6. FlattenSeq(Unskipped(t)) = FlattenSeq(Unskipped(list)) \o (IF SkipOpen(list) THEN <<>> ELSE Objects(arg))
  <2>1. \A k \in 1..n : Unskipped(list)[k] = Unskipped(t)[k]
    BY <1>1, <1>2, <1>3 DEF Unskipped, n
  <2>2. Unskipped(t)[n+1] = IF SkipOpen(list) THEN <<>> ELSE Objects(arg)
    BY <1>1, <1>2, <1>3 DEF Unskipped
  <2> QED
    BY <1>4, <1>5, <2>1, <2>2
<1>7. FlattenSeq(Inputs(t)) = FlattenSeq(Inputs(list)) \o (IF IsInput(arg) THEN Objects(arg) ELSE <<>>)
  <2>1. \A k \in 1..n : Inputs(list)[k] = Inputs(t)[k]
    BY <1>1, <1>3 DEF Inputs, n
  <2>2. Inputs(t)[n+1] = IF IsInput(arg) THEN Objects(arg) ELSE <<>>
    BY <1>1, <1>3 DEF Inputs
  <2> QED
    BY <1>4, <1>5, <2>1, <2>2
<1>8. FlattenSeq(Listed(t)) = FlattenSeq(Listed(list)) \o (IF IsFilelist(arg) THEN Objects(arg) ELSE <<>>)
  <2>1. \A k \in 1..n : Listed(list)[k] = Listed(t)[k]
    BY <1>1, <1>3 DEF Listed, n
  <2>2. Listed(t)[n+1] = IF IsFilelist(arg) THEN Objects(arg) ELSE <<>>
    BY <1>1, <1>3 DEF Listed
  <2> QED
    BY <1>4, <1>5, <2>1, <2>2
<1>9. FlattenSeq(RenderedArgs(flavor, t)) =
          FlattenSeq(RenderedArgs(flavor, list)) \o RenderedLast(flavor, list, arg)
  <2>1. \A k \in 1..n : RenderedArgs(flavor, list)[k] = RenderedArgs(flavor, t)[k]
    BY <1>1, <1>2, <1>3 DEF RenderedArgs, n
  <2>2. RenderedArgs(flavor, t)[n+1] = RenderedLast(flavor, list, arg)
    BY <1>1, <1>2, <1>3 DEF RenderedArgs, RenderedLast
  <2> QED
    BY <1>4, <1>5, <2>1, <2>2
<1> QED
  BY <1>6, <1>7, <1>8, <1>9 DEF t

-----------------------------------------------------------------------------
(* What the real tool reads.                                               *)

(* With the options the tables give a value the tool does not read.        *)
Takers == LinkStep!TakesOf \cup Lone
Options == Separate \cup Flags

ReadObjects(line, lists) ==
    [k \in 1..Len(line) |->
        IF LinkStep!IsValue(line, Takers, k)
        THEN IF line[k-1] # Filelist THEN <<>>
             ELSE IF line[k] \in DOMAIN lists THEN lists[line[k]] ELSE <<line[k]>>
        ELSE IF line[k] \in Options THEN <<>> ELSE <<line[k]>>]

ReadOptions(line, dropped) ==
    [k \in 1..Len(line) |->
        IF IF LinkStep!IsValue(line, Takers, k) THEN line[k-1] # Filelist
           ELSE line[k] \in Options \ ({Filelist} \cup dropped)
        THEN <<line[k]>> ELSE <<>>]

ObjectsOf(line, lists) == FlattenSeq(ReadObjects(line, lists))
OptionsOf(line, dropped) == FlattenSeq(ReadOptions(line, dropped))

(* They tell apart only lines with such an option.                         *)
LEMMA SameValues ==
    ASSUME NEW line, NEW i \in Int, \A k \in 1..(i-1) : line[k] \notin Lone
    PROVE  LinkStep!IsValue(line, LinkStep!TakesOf, i) = LinkStep!IsValue(line, Takers, i)
<1>1. \A k \in 1..(i-1) : line[k] \in LinkStep!TakesOf <=> line[k] \in Takers
  BY DEF Takers
<1> DEFINE J(T) == {j \in 1..(i-1) : \A k \in j..(i-1) : line[k] \in T}
<1>2. J(LinkStep!TakesOf) = J(Takers)
  BY <1>1
<1> QED
  BY <1>2, Zenon DEF LinkStep!IsValue

LEMMA SameReading ==
    ASSUME NEW line \in Tokens, NEW lists, NEW dropped,
           \A i \in DOMAIN line : i < Len(line) => line[i] \notin Lone
    PROVE  /\ LinkStep!ObjectsOf(line, lists) = ObjectsOf(line, lists)
           /\ LinkStep!OptionsOf(line, dropped) = OptionsOf(line, dropped)
<1>1. \A s : LinkStep!FlattenSeq(s) = FlattenSeq(s)
  BY DEF LinkStep!FlattenSeq, FlattenSeq
<1>2. DOMAIN line = 1..Len(line)
  BY DEF Tokens
<1>0. \A i \in 1..Len(line) :
          LinkStep!IsValue(line, LinkStep!TakesOf, i) = LinkStep!IsValue(line, Takers, i)
  <2>1. Len(line) \in Nat
    BY DEF Tokens
  <2>2. ASSUME NEW i \in 1..Len(line), NEW k \in 1..(i-1) PROVE line[k] \notin Lone
    BY <1>2, <2>1
  <2>3. \A i \in 1..Len(line) : i \in Int
    BY <2>1
  <2> QED
    BY <2>2, <2>3, SameValues
<1>3. LinkStep!ObjectsOf(line, lists) = ObjectsOf(line, lists)
  <2>1. [i \in DOMAIN line |->
            IF LinkStep!IsValue(line, LinkStep!TakesOf, i)
            THEN IF line[i-1] # "-filelist" THEN <<>>
                 ELSE IF line[i] \in DOMAIN lists THEN lists[line[i]] ELSE <<line[i]>>
            ELSE IF line[i] \in Separate \cup Flags THEN <<>> ELSE <<line[i]>>]
        = ReadObjects(line, lists)
    BY <1>0, <1>2 DEF ReadObjects, Options, Filelist
  <2> QED
    BY <1>1, <2>1, Zenon DEF LinkStep!ObjectsOf, ObjectsOf
<1>4. LinkStep!OptionsOf(line, dropped) = OptionsOf(line, dropped)
  <2>1. [i \in DOMAIN line |->
            IF IF LinkStep!IsValue(line, LinkStep!TakesOf, i) THEN line[i-1] # "-filelist"
               ELSE line[i] \in (Separate \cup Flags) \ ({"-filelist"} \cup dropped)
            THEN <<line[i]>> ELSE <<>>]
        = ReadOptions(line, dropped)
    BY <1>0, <1>2 DEF ReadOptions, Options, Filelist
  <2> QED
    BY <1>1, <2>1, Zenon DEF LinkStep!OptionsOf, LinkStep!At, OptionsOf
<1> QED
  BY <1>3, <1>4

LEMMA ReadParts ==
    ASSUME NEW line \in Tokens, NEW lists, \A p \in DOMAIN lists : lists[p] \in Tokens, NEW dropped
    PROVE  /\ ReadObjects(line, lists) \in [1..Len(line) -> Tokens]
           /\ ReadOptions(line, dropped) \in [1..Len(line) -> Tokens]
<1>1. \A k \in 1..Len(line) : <<line[k]>> \in Tokens
  BY TokensAndPairs DEF Tokens
<1>2. <<>> \in Tokens
  BY DEF Tokens
<1> QED
  BY <1>1, <1>2 DEF ReadObjects, ReadOptions

LEMMA ReadSteps ==
    ASSUME NEW s \in Tokens, NEW x \in STRING,
           NEW lists, \A p \in DOMAIN lists : lists[p] \in Tokens, NEW dropped
    PROVE  /\ ObjectsOf(Append(s, x), lists) = ObjectsOf(s, lists) \o
                  (IF Open(s, Takers)
                   THEN IF s[Len(s)] # Filelist THEN <<>>
                        ELSE IF x \in DOMAIN lists THEN lists[x] ELSE <<x>>
                   ELSE IF x \in Options THEN <<>> ELSE <<x>>)
           /\ OptionsOf(Append(s, x), dropped) = OptionsOf(s, dropped) \o
                  (IF IF Open(s, Takers) THEN s[Len(s)] # Filelist
                      ELSE x \in Options \ ({Filelist} \cup dropped)
                   THEN <<x>> ELSE <<>>)
           /\ ObjectsOf(s, lists) \in Tokens /\ OptionsOf(s, dropped) \in Tokens
<1> DEFINE n == Len(s)
           t == Append(s, x)
<1>1. /\ t \in Tokens /\ n \in Nat /\ Len(t) = n + 1 /\ t[n+1] = x /\ (n + 1) - 1 = n
      /\ \A k \in 1..n : t[k] = s[k]
      /\ Grows(s, x)
  BY Growing DEF Grows
<1>2. /\ \A k \in 1..(n+1) : LinkStep!IsValue(t, Takers, k) = LinkStep!IsValue(s, Takers, k)
      /\ LinkStep!IsValue(t, Takers, n + 1) = Open(s, Takers)
      /\ Open(s, Takers) => n \in 1..n
  <2>1. \A k \in 1..(n+1) : LinkStep!IsValue(t, Takers, k) = LinkStep!IsValue(s, Takers, k)
    BY <1>1, EarlierValue
  <2>2. /\ LinkStep!IsValue(t, Takers, n + 1) = Open(s, Takers)
        /\ Open(s, Takers) => n \in 1..n
    BY <1>1, OpenSteps
  <2> QED
    BY <2>1, <2>2
<1>3. ~LinkStep!IsValue(s, Takers, 1)
  BY ValueSteps
<1>4. /\ ReadObjects(s, lists) \in [1..n -> Tokens] /\ ReadObjects(t, lists) \in [1..(n+1) -> Tokens]
      /\ ReadOptions(s, dropped) \in [1..n -> Tokens] /\ ReadOptions(t, dropped) \in [1..(n+1) -> Tokens]
  BY <1>1, ReadParts
<1> HIDE DEF t, n
<1>5. /\ n + 1 \in 1..(n+1)
      /\ \A k \in 1..n : k \in 1..(n+1) /\ k \in 1..Len(t) /\ (k = 1 \/ k - 1 \in 1..n)
  BY <1>1
<1>6. ASSUME NEW P \in [1..n -> Tokens], NEW Q \in [1..(n+1) -> Tokens],
             \A k \in 1..n : P[k] = Q[k]
      PROVE  FlattenSeq(P) \in Tokens /\ FlattenSeq(Q) = FlattenSeq(P) \o Q[n+1]
  BY <1>1, <1>6, PartsAppended DEF Tokens
<1>7. \A k \in 1..n : ReadObjects(s, lists)[k] = ReadObjects(t, lists)[k]
  <2> SUFFICES ASSUME NEW k \in 1..n PROVE ReadObjects(s, lists)[k] = ReadObjects(t, lists)[k]
    OBVIOUS
  <2>1. /\ t[k] = s[k] /\ LinkStep!IsValue(t, Takers, k) = LinkStep!IsValue(s, Takers, k)
        /\ LinkStep!IsValue(s, Takers, k) => t[k-1] = s[k-1]
    BY <1>1, <1>2, <1>3, <1>5
  <2> QED
    BY <1>5, <2>1 DEF ReadObjects, n
<1>8. \A k \in 1..n : ReadOptions(s, dropped)[k] = ReadOptions(t, dropped)[k]
  <2> SUFFICES ASSUME NEW k \in 1..n PROVE ReadOptions(s, dropped)[k] = ReadOptions(t, dropped)[k]
    OBVIOUS
  <2>1. /\ t[k] = s[k] /\ LinkStep!IsValue(t, Takers, k) = LinkStep!IsValue(s, Takers, k)
        /\ LinkStep!IsValue(s, Takers, k) => t[k-1] = s[k-1]
    BY <1>1, <1>2, <1>3, <1>5
  <2> QED
    BY <1>5, <2>1 DEF ReadOptions, n
<1>9. /\ t[n+1] = x /\ LinkStep!IsValue(t, Takers, n + 1) = Open(s, Takers)
      /\ Open(s, Takers) => t[(n+1)-1] = s[n]
  BY <1>1, <1>2
<1>10. ReadObjects(t, lists)[n+1] =
           IF Open(s, Takers)
           THEN IF s[n] # Filelist THEN <<>>
                ELSE IF x \in DOMAIN lists THEN lists[x] ELSE <<x>>
           ELSE IF x \in Options THEN <<>> ELSE <<x>>
  BY <1>1, <1>5, <1>9 DEF ReadObjects
<1>11. ReadOptions(t, dropped)[n+1] =
           IF IF Open(s, Takers) THEN s[n] # Filelist
              ELSE x \in Options \ ({Filelist} \cup dropped)
           THEN <<x>> ELSE <<>>
  BY <1>1, <1>5, <1>9 DEF ReadOptions
<1>12. FlattenSeq(ReadObjects(t, lists)) = FlattenSeq(ReadObjects(s, lists)) \o ReadObjects(t, lists)[n+1]
  BY <1>4, <1>6, <1>7
<1>13. FlattenSeq(ReadOptions(t, dropped)) = FlattenSeq(ReadOptions(s, dropped)) \o ReadOptions(t, dropped)[n+1]
  BY <1>4, <1>6, <1>8
<1>14. FlattenSeq(ReadObjects(s, lists)) \in Tokens /\ FlattenSeq(ReadOptions(s, dropped)) \in Tokens
  BY <1>4, <1>6, <1>7, <1>8
<1> QED
  BY <1>10, <1>11, <1>12, <1>13, <1>14 DEF ObjectsOf, OptionsOf, n, t

LEMMA PrefixFacts ==
    ASSUME NEW line \in Tokens
    PROVE  /\ Len(line) \in Nat /\ SubSeq(line, 1, 0) = <<>> /\ SubSeq(line, 1, Len(line)) = line
           /\ \A m \in Nat : m <= Len(line) =>
                  SubSeq(line, 1, m) \in Tokens /\ Len(SubSeq(line, 1, m)) = m
           /\ \A m \in Nat : m + 1 <= Len(line) =>
                  /\ line[m+1] \in STRING
                  /\ SubSeq(line, 1, m + 1) = Append(SubSeq(line, 1, m), line[m+1])
           /\ \A m \in Nat : m \in 1..Len(line) => SubSeq(line, 1, m)[m] = line[m]
<1>1. ASSUME NEW A, NEW s \in Seq(A)
      PROVE  /\ Len(s) \in Nat /\ SubSeq(s, 1, 0) = <<>> /\ SubSeq(s, 1, Len(s)) = s
             /\ \A m \in Nat : m <= Len(s) =>
                    SubSeq(s, 1, m) \in Seq(A) /\ Len(SubSeq(s, 1, m)) = m
             /\ \A m \in Nat : m + 1 <= Len(s) =>
                    /\ s[m+1] \in A
                    /\ SubSeq(s, 1, m + 1) = Append(SubSeq(s, 1, m), s[m+1])
             /\ \A m \in Nat : m \in 1..Len(s) => SubSeq(s, 1, m)[m] = s[m]
  <2>1. Len(s) \in Nat /\ SubSeq(s, 1, 0) = <<>> /\ SubSeq(s, 1, Len(s)) = s
    OBVIOUS
  <2>2. ASSUME NEW m \in Nat, m <= Len(s)
        PROVE  SubSeq(s, 1, m) \in Seq(A) /\ Len(SubSeq(s, 1, m)) = m
    BY <2>2
  <2>3. ASSUME NEW m \in Nat, m + 1 <= Len(s)
        PROVE  s[m+1] \in A /\ SubSeq(s, 1, m + 1) = Append(SubSeq(s, 1, m), s[m+1])
    BY <2>3
  <2>4. ASSUME NEW m \in Nat, m \in 1..Len(s) PROVE SubSeq(s, 1, m)[m] = s[m]
    BY <2>4
  <2> QED
    BY <2>1, <2>2, <2>3, <2>4
<1> QED
  BY <1>1 DEF Tokens

LEMMA Concatenated ==
    ASSUME NEW s \in Tokens, NEW t \in Tokens
    PROVE  /\ s \o t \in Tokens /\ Range(s \o t) = Range(s) \cup Range(t)
           /\ s \o <<>> = s /\ <<>> \o s = s
           /\ \A x : Occurrences(s \o t, x) = Occurrences(s, x) + Occurrences(t, x)
           /\ \A x \in STRING : s \o <<x>> = Append(s, x)
<1>1. ASSUME NEW A, NEW u \in Seq(A), NEW v \in Seq(A)
      PROVE  /\ u \o v \in Seq(A) /\ Range(u \o v) = Range(u) \cup Range(v)
             /\ u \o <<>> = u /\ <<>> \o u = u
             /\ \A x : Occurrences(u \o v, x) = Occurrences(u, x) + Occurrences(v, x)
             /\ \A x \in A : u \o <<x>> = Append(u, x)
  <2>1. u \o <<>> = u /\ <<>> \o u = u /\ \A x \in A : u \o <<x>> = Append(u, x)
    OBVIOUS
  <2>2. \A x : Occurrences(u \o v, x) = Occurrences(u, x) + Occurrences(v, x)
    BY OccurrencesConcat
  <2>3. u \o v \in Seq(A) /\ Range(u \o v) = Range(u) \cup Range(v)
    BY ConcatFacts
  <2> QED
    BY <2>1, <2>2, <2>3
<1> QED
  BY <1>1 DEF Tokens

(* The options of a line, read as a line again: they are all options or    *)
(* values of options, and there is no object among them.                   *)
ReadsBack(s, dropped, lists) ==
    LET kept == OptionsOf(s, dropped) IN
    /\ Open(kept, Takers) <=> Open(s, Takers) /\ s[Len(s)] # Filelist
    /\ Open(kept, Takers) => kept[Len(kept)] = s[Len(s)]
    /\ OptionsOf(kept, {}) = kept
    /\ ObjectsOf(kept, lists) = <<>>

LEMMA TakerFacts ==
    /\ Takers \subseteq Options /\ Separate \subseteq Takers /\ Filelist \in Separate
    /\ Takers \subseteq Separate \cup Unlisted \cup {AddAstPath}
    /\ AddAstPath \in Takers <=> LinkStep!table = "ld64"
    /\ AddAstPath \in Flags /\ BitcodeBundle \in Flags /\ Separate \cap Flags = {}
    /\ BitcodeBundle \notin Takers /\ Unlisted \subseteq Flags
    /\ LinkStep!Dropped \cap Takers = {}
    /\ LinkStep!Dropped = IF LinkStep!table = "ld64" THEN {BitcodeBundle} ELSE {}
<1>1. /\ Filelist \in Separate /\ {AddAstPath, BitcodeBundle} \subseteq Flags
      /\ Separate \cap Flags = {} /\ Unlisted \subseteq Flags \ {AddAstPath, BitcodeBundle}
      /\ Lone \subseteq Separate
  BY TokenAssumption, DriverAssumption
<1>2. Takers = Separate \cup Unlisted \cup IF LinkStep!table = "ld64" THEN {AddAstPath} ELSE {}
  BY <1>1 DEF Takers, LinkStep!TakesOf, AddAstPath
<1>3. LinkStep!Dropped = IF LinkStep!table = "ld64" THEN {BitcodeBundle} ELSE {}
  BY DEF LinkStep!Dropped, BitcodeBundle
<1>4. AddAstPath # BitcodeBundle
  BY DEF AddAstPath, BitcodeBundle
<1> QED
  BY <1>1, <1>2, <1>3, <1>4 DEF Options

LEMMA EmptyReadings ==
    ASSUME NEW lists, NEW dropped
    PROVE  ObjectsOf(<<>>, lists) = <<>> /\ OptionsOf(<<>>, dropped) = <<>>
<1>1. Len(<<>>) = 0 /\ 1..0 = {} /\ FlattenSeq(<<>>) = <<>>
  BY DEF FlattenSeq
<1>2. ReadObjects(<<>>, lists) = <<>> /\ ReadOptions(<<>>, dropped) = <<>>
  BY <1>1 DEF ReadObjects, ReadOptions
<1> QED
  BY <1>1, <1>2 DEF ObjectsOf, OptionsOf

LEMMA ReadsBackStep ==
    ASSUME NEW s \in Tokens, NEW x \in STRING,
           NEW lists, \A p \in DOMAIN lists : lists[p] \in Tokens,
           NEW dropped, dropped \cap Takers = {},
           ReadsBack(s, dropped, lists)
    PROVE  ReadsBack(Append(s, x), dropped, lists)
<1> DEFINE t == Append(s, x)
           kept == OptionsOf(s, dropped)
           last == s[Len(s)]
           keeps == IF Open(s, Takers) THEN last # Filelist ELSE x \in Options \ ({Filelist} \cup dropped)
           keptNow == OptionsOf(t, dropped)
<1>1. /\ t \in Tokens /\ t[Len(t)] = x /\ kept \in Tokens
      /\ Grows(s, x) /\ Grows(kept, x)
      /\ Append(kept, x)[Len(Append(kept, x))] = x
  <2>1. kept \in Tokens
    BY ReadSteps
  <2> HIDE DEF kept
  <2>2. \A v \in Tokens : Append(v, x) \in Tokens /\ Grows(v, x) /\ Append(v, x)[Len(Append(v, x))] = x
    <3> TAKE v \in Tokens
    <3>1. Append(v, x) \in Tokens /\ Grows(v, x)
      BY Growing
    <3> QED
      BY <3>1 DEF Grows
  <2> QED
    BY <2>1, <2>2
<1>2. keptNow = IF keeps THEN Append(kept, x) ELSE kept
  <2>1. keptNow = kept \o (IF keeps THEN <<x>> ELSE <<>>)
    BY ReadSteps
  <2> HIDE DEF keptNow, keeps, kept
  <2> QED
    BY <1>1, <2>1, Concatenated
<1>3. /\ Open(kept, Takers) <=> Open(s, Takers) /\ last # Filelist
      /\ Open(kept, Takers) => kept[Len(kept)] = last
      /\ OptionsOf(kept, {}) = kept
      /\ ObjectsOf(kept, lists) = <<>>
  BY DEF ReadsBack
<1>4. /\ Open(t, Takers) <=> x \in Takers /\ ~Open(s, Takers)
      /\ Open(Append(kept, x), Takers) <=> x \in Takers /\ ~Open(kept, Takers)
      /\ Open(s, Takers) \in BOOLEAN
  BY <1>1, OpenSteps
<1>5. /\ (IF Open(kept, Takers) THEN kept[Len(kept)] # Filelist ELSE x \in Options \ {Filelist})
             => OptionsOf(Append(kept, x), {}) = kept \o <<x>>
      /\ (IF Open(kept, Takers) THEN kept[Len(kept)] # Filelist ELSE x \in Options)
             => ObjectsOf(Append(kept, x), lists) = <<>> \o <<>>
  <2>1. ASSUME NEW none, NEW y \in Tokens, none = {},
               IF Open(y, Takers) THEN y[Len(y)] # Filelist ELSE x \in Options \ {Filelist}
        PROVE  OptionsOf(Append(y, x), none) = OptionsOf(y, none) \o <<x>>
    <3>1. OptionsOf(Append(y, x), none) = OptionsOf(y, none) \o
                 (IF IF Open(y, Takers) THEN y[Len(y)] # Filelist
                     ELSE x \in Options \ ({Filelist} \cup none)
                  THEN <<x>> ELSE <<>>)
      BY ReadSteps
    <3> QED
      BY <2>1, <3>1
  <2>2. ASSUME NEW y \in Tokens,
               IF Open(y, Takers) THEN y[Len(y)] # Filelist ELSE x \in Options
        PROVE  ObjectsOf(Append(y, x), lists) = ObjectsOf(y, lists) \o <<>>
    BY <2>2, ReadSteps
  <2> HIDE DEF kept
  <2> QED
    BY <1>1, <1>3, <2>1, <2>2
<1>6. kept \o <<x>> = Append(kept, x) /\ <<>> \o <<>> = <<>>
  <2>1. \A y \in Tokens : y \o <<x>> = Append(y, x) /\ y \o <<>> = y
    BY Concatenated
  <2>2. <<>> \in Tokens
    BY DEF Tokens
  <2> HIDE DEF kept
  <2> QED
    BY <1>1, <2>1, <2>2
<1> HIDE DEF kept, last, keptNow, t
<1>7. /\ Open(keptNow, Takers) <=> Open(t, Takers) /\ x # Filelist
      /\ Open(keptNow, Takers) => keptNow[Len(keptNow)] = x
      /\ OptionsOf(keptNow, {}) = keptNow
      /\ ObjectsOf(keptNow, lists) = <<>>
  <2>1. CASE Open(s, Takers) /\ last # Filelist
    <3>1. keptNow = Append(kept, x) /\ Open(kept, Takers) /\ kept[Len(kept)] # Filelist
      BY <1>2, <1>3, <2>1
    <3>2. ~Open(keptNow, Takers) /\ ~Open(t, Takers)
      BY <1>4, <2>1, <3>1
    <3>3. OptionsOf(keptNow, {}) = keptNow /\ ObjectsOf(keptNow, lists) = <<>>
      BY <1>5, <1>6, <3>1
    <3> QED
      BY <3>2, <3>3
  <2>2. CASE Open(s, Takers) /\ last = Filelist
    BY <1>1, <1>2, <1>3, <1>4, <2>2
  <2>3. CASE ~Open(s, Takers) /\ x \in Options \ ({Filelist} \cup dropped)
    BY <1>1, <1>2, <1>3, <1>4, <1>5, <1>6, <2>3
  <2>4. CASE ~Open(s, Takers) /\ x \notin Options \ ({Filelist} \cup dropped)
    <3>1. x = Filelist \/ x \notin Takers
      BY <2>4, TakerFacts
    <3> QED
      BY <1>2, <1>3, <1>4, <2>4, <3>1
  <2> QED
    BY <1>4, <2>1, <2>2, <2>3, <2>4
<1> QED
  BY <1>1, <1>7 DEF ReadsBack, keptNow, t

LEMMA ReadingBack ==
    ASSUME NEW line \in Tokens,
           NEW lists, \A p \in DOMAIN lists : lists[p] \in Tokens,
           NEW dropped, dropped \cap Takers = {}
    PROVE  ReadsBack(line, dropped, lists)
<1> DEFINE u(m) == SubSeq(line, 1, m)
           T == {m \in Nat : m <= Len(line) => ReadsBack(u(m), dropped, lists)}
<1>1. 0 \in T
  <2>1. u(0) = <<>>
    BY PrefixFacts
  <2> QED
    BY <2>1, OpenEmpty, EmptyReadings DEF ReadsBack
<1>2. ASSUME NEW m \in T PROVE m + 1 \in T
  <2> SUFFICES ASSUME m + 1 <= Len(line) PROVE ReadsBack(u(m+1), dropped, lists)
    OBVIOUS
  <2>1. /\ m \in Nat /\ m <= Len(line) /\ ReadsBack(u(m), dropped, lists)
        /\ u(m) \in Tokens /\ line[m+1] \in STRING /\ u(m+1) = Append(u(m), line[m+1])
    BY PrefixFacts
  <2> HIDE DEF u, T
  <2> QED
    BY <2>1, ReadsBackStep
<1>3. T = Nat
  <2>1. T \in SUBSET Nat
    OBVIOUS
  <2> HIDE DEF T
  <2> QED
    BY <1>1, <1>2, <2>1, SetInduction
<1>4. Len(line) \in Nat /\ Len(line) \in T /\ u(Len(line)) = line
  <2> HIDE DEF T
  <2> QED
    BY <1>3, PrefixFacts
<1>5. ReadsBack(u(Len(line)), dropped, lists)
  BY <1>4
<1> QED
  BY <1>4, <1>5

-----------------------------------------------------------------------------
(* What the driver makes of it.                                            *)

(* No value of an option that the parser takes for a flag is an option.    *)
NoOption(s, x) ==
    Open(s, Takers) /\ s[Len(s)] \in Unlisted \cup {AddAstPath} => x \notin Options

(* The parser and the loops over its arguments are where the real tool is: *)
(* in the middle of an option, or not.                                     *)
KeepsPace(s) ==
    /\ Open(s, Separate) <=> Open(s, Takers) /\ s[Len(s)] \in Separate
    /\ LinkStep!table = "ld64" =>
          (SkipOpen(ParseArgs(s)) <=> Open(s, Takers) /\ s[Len(s)] = AddAstPath)

LEMMA KeepsPaceStep ==
    ASSUME NEW s \in Tokens, NEW x \in STRING, KeepsPace(s), NoOption(s, x)
    PROVE  KeepsPace(Append(s, x))
<1> DEFINE t == Append(s, x)
           last == s[Len(s)]
           a == ParseArgs(s)
<1>1. Grows(s, x) /\ t[Len(t)] = x
  <2>1. Grows(s, x)
    BY Growing
  <2> QED
    BY <2>1 DEF Grows
<1>2. /\ Open(t, Takers) <=> x \in Takers /\ ~Open(s, Takers)
      /\ Open(t, Separate) <=> x \in Separate /\ ~Open(s, Separate)
      /\ Open(s, Takers) => last \in Takers
  BY <1>1, OpenSteps
<1>3. /\ Open(s, Separate) <=> Open(s, Takers) /\ last \in Separate
      /\ LinkStep!table = "ld64" => (SkipOpen(a) <=> Open(s, Takers) /\ last = AddAstPath)
  BY DEF KeepsPace
<1>4. Open(s, Takers) /\ ~Open(s, Separate) => x \notin Options
  BY <1>2, <1>3, TakerFacts DEF NoOption
<1>5. /\ a \in Seq(ArgumentSet)
      /\ x \notin Separate => <<x>> \in ArgumentSet
      /\ Open(s, Separate) => <<last, x>> \in ArgumentSet
  <2>1. a \in Seq(ArgumentSet)
    BY ParsedArguments
  <2>2. Open(s, Separate) => last \in STRING /\ last \in Separate
    <3>1. Open(s, Separate) => Len(s) \in 1..Len(s) /\ last \in Separate
      BY <1>1, OpenSteps
    <3>2. Len(s) \in 1..Len(s) => last \in STRING
      BY DEF Tokens
    <3> QED
      BY <3>1, <3>2
  <2> QED
    BY <2>1, <2>2, TokensAndPairs DEF ArgumentSet, Argument
<1>6. ParseArgs(t) = IF Open(s, Separate) THEN Append(a, <<last, x>>)
                     ELSE IF x \in Separate THEN a ELSE Append(a, <<x>>)
  BY ParseSteps
<1>7. ASSUME NEW arg \in ArgumentSet
      PROVE  SkipOpen(Append(a, arg)) <=> arg = <<AddAstPath>> /\ ~SkipOpen(a)
  <2>1. Grows(a, arg)
    BY <1>5, Growing
  <2> HIDE DEF a
  <2> QED
    BY <2>1, OpenSteps DEF SkipOpen
<1> HIDE DEF t, last, a
<1>8. Open(t, Separate) <=> Open(t, Takers) /\ x \in Separate
  BY <1>2, <1>3, <1>4, TakerFacts DEF Options
<1>9. ASSUME LinkStep!table = "ld64"
      PROVE  SkipOpen(ParseArgs(t)) <=> Open(t, Takers) /\ x = AddAstPath
  <2>1. CASE Open(s, Separate)
    <3>1. <<last, x>> # <<AddAstPath>>
      OBVIOUS
    <3> QED
      BY <1>2, <1>3, <1>5, <1>6, <1>7, <2>1, <3>1
  <2>2. CASE ~Open(s, Separate) /\ x \in Separate
    <3>1. x # AddAstPath /\ x \in Options
      BY <2>2, TakerFacts DEF Options
    <3>2. ~Open(s, Takers)
      BY <1>4, <2>2, <3>1
    <3> QED
      BY <1>3, <1>6, <1>9, <2>2, <3>1, <3>2
  <2>3. CASE ~Open(s, Separate) /\ x \notin Separate
    <3>1. <<x>> = <<AddAstPath>> <=> x = AddAstPath
      OBVIOUS
    <3>2. SkipOpen(ParseArgs(t)) <=> x = AddAstPath /\ ~SkipOpen(a)
      BY <1>5, <1>6, <1>7, <2>3, <3>1
    <3>3. x = AddAstPath => x \in Options /\ x \in Takers /\ ~Open(s, Takers)
      BY <1>4, <1>9, <2>3, TakerFacts DEF Options
    <3> QED
      BY <1>2, <1>3, <1>9, <3>2, <3>3
  <2> QED
    BY <2>1, <2>2, <2>3
<1> QED
  BY <1>1, <1>8, <1>9 DEF KeepsPace, t

(* A token after the first m of a line.                                    *)
LEMMA PrefixOpen ==
    ASSUME NEW line \in Tokens, NEW m \in Nat, m <= Len(line), NEW T
    PROVE  Open(SubSeq(line, 1, m), T) = LinkStep!IsValue(line, T, m + 1)
<1> DEFINE u == SubSeq(line, 1, m)
<1>1. Len(u) = m /\ \A k \in 1..m : u[k] = line[k]
  <2>1. ASSUME NEW A, NEW s \in Seq(A), m <= Len(s)
        PROVE  Len(SubSeq(s, 1, m)) = m /\ \A k \in 1..m : SubSeq(s, 1, m)[k] = s[k]
    BY <2>1
  <2> QED
    BY <2>1 DEF Tokens
<1> HIDE DEF u
<1>2. LinkStep!IsValue(u, T, m + 1) <=> LinkStep!IsValue(line, T, m + 1)
  <2>1. m + 1 \in Nat /\ \A k \in 1..((m+1)-1) : u[k] = line[k]
    BY <1>1
  <2> QED
    BY <2>1, ValuePrefix
<1>3. Open(u, T) = LinkStep!IsValue(u, T, m + 1)
  BY <1>1 DEF Open
<1>4. Open(u, T) = LinkStep!IsValue(line, T, m + 1)
  <2>1. LinkStep!IsValue(u, T, m + 1) = LinkStep!IsValue(line, T, m + 1)
    BY <1>2, ValueSteps
  <2> QED
    BY <1>3, <2>1, Zenon
<1> QED
  BY <1>4 DEF u

LEMMA PlainLine ==
    ASSUME LinkStep!LinkerTokens \in Tokens, LinkStep!Unambiguous
    PROVE  /\ \A i \in DOMAIN LinkStep!LinkerTokens : LinkStep!LinkerTokens[i] \notin Lone
           /\ \A i \in 1..(Len(LinkStep!LinkerTokens) + 1) :
                  LinkStep!IsValue(LinkStep!LinkerTokens, LinkStep!TakesOf, i)
                      = LinkStep!IsValue(LinkStep!LinkerTokens, Takers, i)
<1> DEFINE line == LinkStep!LinkerTokens
<1>1. Len(line) \in Nat /\ DOMAIN line = 1..Len(line) /\ \A i \in DOMAIN line : line[i] \notin Lone
  BY DEF Tokens, LinkStep!Unambiguous
<1> HIDE DEF line
<1>2. ASSUME NEW i \in 1..(Len(line) + 1), NEW k \in 1..(i-1) PROVE line[k] \notin Lone
  BY <1>1
<1>3. \A i \in 1..(Len(line) + 1) : i \in Int
  BY <1>1
<1> QED
  BY <1>1, <1>2, <1>3, SameValues DEF line

LEMMA KeepingPace ==
    ASSUME LinkStep!LinkerTokens \in Tokens, LinkStep!Unambiguous,
           NEW m \in Nat, m <= Len(LinkStep!LinkerTokens)
    PROVE  /\ KeepsPace(SubSeq(LinkStep!LinkerTokens, 1, m))
           /\ m + 1 <= Len(LinkStep!LinkerTokens) =>
                  NoOption(SubSeq(LinkStep!LinkerTokens, 1, m), LinkStep!LinkerTokens[m+1])
<1> DEFINE line == LinkStep!LinkerTokens
           u(k) == SubSeq(line, 1, k)
           T == {k \in Nat : k <= Len(line) => KeepsPace(u(k))}
<1>0. /\ line \in Tokens
      /\ \A i \in 2..Len(line) :
            LinkStep!IsValue(line, Takers, i) /\ line[i-1] \in Unlisted \cup {AddAstPath}
                => line[i] \notin Options
  <2>1. Len(line) \in Nat
    BY DEF Tokens
  <2>2. \A i \in 2..Len(line) : i \in 1..(Len(line) + 1)
    BY <2>1
  <2>3. \A i \in 2..Len(line) :
            LinkStep!IsValue(line, LinkStep!TakesOf, i) = LinkStep!IsValue(line, Takers, i)
    BY <2>2, PlainLine
  <2> QED
    BY <2>3 DEF LinkStep!Unambiguous, Options, AddAstPath
<1> HIDE DEF line
<1>1. ASSUME NEW k \in Nat, k + 1 <= Len(line) PROVE NoOption(u(k), line[k+1])
  <2>1. Len(line) \in Nat /\ k <= Len(line) /\ Len(u(k)) = k /\ Open(u(k), Takers) = LinkStep!IsValue(line, Takers, k + 1)
    BY <1>0, <1>1, PrefixFacts, PrefixOpen
  <2>2. CASE k = 0
    BY <2>1, <2>2, ValueSteps DEF NoOption
  <2>3. CASE k # 0
    <3>1. k + 1 \in 2..Len(line) /\ (k + 1) - 1 = k /\ k \in 1..Len(line)
      BY <1>1, <2>1, <2>3
    <3>2. u(k)[k] = line[k]
      BY <1>0, <3>1, PrefixFacts
    <3> HIDE DEF u
    <3> QED
      BY <1>0, <2>1, <3>1, <3>2 DEF NoOption
  <2> QED
    BY <2>2, <2>3
<1>2. 0 \in T
  <2>1. u(0) = <<>>
    BY <1>0, PrefixFacts
  <2>2. ParseArgs(<<>>) = <<>>
    <3>1. <<>> \in Tokens /\ Len(<<>>) = 0 /\ 1..0 = {} /\ FlattenSeq(<<>>) = <<>>
      BY DEF Tokens, FlattenSeq
    <3>2. ArgumentParts(<<>>) = <<>>
      BY <3>1 DEF ArgumentParts
    <3> QED
      BY <3>1, <3>2, ParsedParts
  <2> QED
    BY <2>1, <2>2, OpenEmpty DEF KeepsPace, SkipOpen
<1>3. ASSUME NEW k \in T PROVE k + 1 \in T
  <2> SUFFICES ASSUME k + 1 <= Len(line) PROVE KeepsPace(u(k+1))
    OBVIOUS
  <2>1. Len(line) \in Nat
    BY <1>0, PrefixFacts
  <2>2. k \in Nat /\ k <= Len(line) /\ KeepsPace(u(k))
    BY <2>1
  <2>3. NoOption(u(k), line[k+1])
    BY <1>1, <2>2
  <2>4. u(k) \in Tokens /\ line[k+1] \in STRING /\ u(k+1) = Append(u(k), line[k+1])
    BY <1>0, <2>2, PrefixFacts
  <2> HIDE DEF u, T
  <2> QED
    BY <2>2, <2>3, <2>4, KeepsPaceStep
<1>4. T = Nat
  <2>1. T \in SUBSET Nat
    OBVIOUS
  <2> HIDE DEF T
  <2> QED
    BY <1>2, <1>3, <2>1, SetInduction
<1>5. m \in T
  <2> HIDE DEF T
  <2> QED
    BY <1>4
<1> QED
  BY <1>1, <1>5 DEF line

(* The option that a value has to follow before the parser shows it.       *)
Pending(s) ==
    IF Open(s, Takers) /\ s[Len(s)] \in Separate \ {Filelist} THEN <<s[Len(s)]>> ELSE <<>>

(* The objects and options of the parsed arguments are those of the line.  *)
SameObjects(s) ==
    LET parsed == ParseArgs(s) IN
    IF LinkStep!table = "ld64"
    THEN FlattenSeq(Unskipped(parsed)) = ObjectsOf(s, Lists)
    ELSE \A f : Occurrences(ObjectsOf(s, Lists), f) =
                    Occurrences(FlattenSeq(Inputs(parsed)), f) + Occurrences(FlattenSeq(Listed(parsed)), f)
SameOptions(s) ==
    FlattenSeq(RenderedArgs(LinkStep!table, ParseArgs(s))) \o Pending(s) = OptionsOf(s, LinkStep!Dropped)

(* The lists can be read, and no option that the tables do not list has a  *)
(* value.                                                                  *)
Understood(s, x) ==
    Open(s, Takers) => /\ s[Len(s)] = Filelist => x \in DOMAIN Lists
                       /\ s[Len(s)] \notin Unlisted

LEMMA Joined ==
    /\ <<>> \in Tokens
    /\ \A u, v \in Tokens : u \o v \in Tokens /\ u \o <<>> = u /\ <<>> \o u = u
    /\ \A u, v, w \in Tokens : (u \o v) \o w = u \o (v \o w)
    /\ \A x, y \in STRING : <<x>> \o <<y>> = <<x, y>>
<1>1. ASSUME NEW A, NEW u \in Seq(A), NEW v \in Seq(A)
      PROVE  <<>> \in Seq(A) /\ u \o v \in Seq(A) /\ u \o <<>> = u /\ <<>> \o u = u
  OBVIOUS
<1>2. ASSUME NEW A, NEW u \in Seq(A), NEW v \in Seq(A), NEW w \in Seq(A)
      PROVE  (u \o v) \o w = u \o (v \o w)
  OBVIOUS
<1>3. ASSUME NEW A, NEW x \in A, NEW y \in A PROVE <<x>> \o <<y>> = <<x, y>>
  <2> DEFINE l == <<x>> \o <<y>>
             r == <<x, y>>
  <2>1. l \in Seq(A) /\ Len(l) = 2 /\ l[1] = x /\ l[2] = y
    OBVIOUS
  <2>2. r \in Seq(A) /\ Len(r) = 2 /\ r[1] = x /\ r[2] = y
    OBVIOUS
  <2> HIDE DEF l, r
  <2>3. l = [k \in 1..2 |-> l[k]] /\ r = [k \in 1..2 |-> r[k]]
    BY <2>1, <2>2
  <2>4. \A k \in 1..2 : l[k] = r[k]
    BY <2>1, <2>2
  <2>5. l = r
    BY <2>3, <2>4
  <2> QED
    BY <2>5 DEF l, r
<1>4. <<>> \in Tokens
  BY DEF Tokens
<1>5. \A u, v \in Tokens : u \o v \in Tokens /\ u \o <<>> = u /\ <<>> \o u = u
  BY <1>1 DEF Tokens
<1>6. \A u, v, w \in Tokens : (u \o v) \o w = u \o (v \o w)
  BY <1>2 DEF Tokens
<1> QED
  BY <1>3, <1>4, <1>5, <1>6

LEMMA SameOptionsStep ==
    ASSUME NEW s \in Tokens, NEW x \in STRING, KeepsPace(s), NoOption(s, x), Understood(s, x),
           SameOptions(s)
    PROVE  SameOptions(Append(s, x))
<1> DEFINE t == Append(s, x)
           last == s[Len(s)]
           a == ParseArgs(s)
           flavor == LinkStep!table
           dropped == LinkStep!Dropped
           Out(v) == FlattenSeq(RenderedArgs(flavor, v))
<1>1. Grows(s, x) /\ t \in Tokens /\ t[Len(t)] = x
  <2>1. Grows(s, x) /\ t \in Tokens
    BY Growing
  <2> QED
    BY <2>1 DEF Grows
<1>2. /\ Open(t, Takers) <=> x \in Takers /\ ~Open(s, Takers)
      /\ Open(s, Takers) => last \in Takers /\ Len(s) \in 1..Len(s)
  BY <1>1, OpenSteps
<1>3. /\ Open(s, Separate) <=> Open(s, Takers) /\ last \in Separate
      /\ flavor = "ld64" => (SkipOpen(a) <=> Open(s, Takers) /\ last = AddAstPath)
      /\ Open(s, Takers) => last \in Separate \/ (flavor = "ld64" /\ last = AddAstPath /\ x \notin Options)
  BY <1>2, TakerFacts DEF KeepsPace, Understood, NoOption
<1>4. ParseArgs(t) = IF Open(s, Separate) THEN Append(a, <<last, x>>)
                     ELSE IF x \in Separate THEN a ELSE Append(a, <<x>>)
  BY ParseSteps
<1>5. /\ a \in Seq(ArgumentSet)
      /\ Open(s, Takers) => last \in STRING
      /\ x \notin Separate => <<x>> \in ArgumentSet
      /\ Open(s, Separate) => <<last, x>> \in ArgumentSet
  <2>1. a \in Seq(ArgumentSet)
    BY ParsedArguments
  <2>2. Len(s) \in 1..Len(s) => last \in STRING
    BY DEF Tokens
  <2> QED
    BY <1>2, <1>3, <2>1, <2>2, TokensAndPairs DEF ArgumentSet, Argument
<1>6. ASSUME NEW arg \in ArgumentSet
      PROVE  Out(Append(a, arg)) = Out(a) \o RenderedLast(flavor, a, arg)
  <2> HIDE DEF a
  <2> QED
    BY <1>5, CollectSteps
<1>7. OptionsOf(t, dropped) = OptionsOf(s, dropped) \o
          (IF IF Open(s, Takers) THEN last # Filelist ELSE x \in Options \ ({Filelist} \cup dropped)
           THEN <<x>> ELSE <<>>)
  BY ReadSteps, TokenAssumption DEF Tokens
<1>8. Out(a) \in Tokens /\ Out(a) \o Pending(s) = OptionsOf(s, dropped)
  <2>1. Out(a) = collectObjectLinkOpts(flavor, a)
    BY <1>5, CollectedParts
  <2>2. collectObjectLinkOpts(flavor, a) \in Tokens
    BY <1>5, ObjectsAreTokens
  <2> QED
    BY <2>1, <2>2 DEF SameOptions
<1>9. /\ <<>> \in Tokens /\ <<x>> \in Tokens
      /\ Open(s, Takers) => <<last>> \in Tokens /\ <<last, x>> \in Tokens /\ <<last>> \o <<x>> = <<last, x>>
  <2> HIDE DEF last
  <2> QED
    BY <1>5, TokensAndPairs, Joined
<1> DEFINE shown == Out(ParseArgs(t))
<1>11. Pending(t) = IF x \in Separate \ {Filelist} /\ ~Open(s, Takers) THEN <<x>> ELSE <<>>
  BY <1>1, <1>2, TakerFacts DEF Pending
<1>12. Pending(s) = IF Open(s, Takers) /\ last \in Separate \ {Filelist} THEN <<last>> ELSE <<>>
  BY DEF Pending
<1> HIDE DEF t, last, a, flavor, dropped, Out
<1>13. shown \o Pending(t) = OptionsOf(t, dropped)
  <2>1. CASE Open(s, Takers) /\ last = Filelist
    <3>1. shown = Out(a) \o RenderedLast(flavor, a, <<last, x>>)
      BY <1>3, <1>4, <1>5, <1>6, <2>1, TakerFacts
    <3>2. RenderedLast(flavor, a, <<last, x>>) = <<>>
      <4>1. <<last, x>> # <<BitcodeBundle>> /\ IsFilelist(<<last, x>>)
        BY <2>1 DEF IsFilelist
      <4>2. ~(flavor = "ld64" /\ SkipOpen(a))
        BY <1>3, <2>1, TakerFacts
      <4> QED
        BY <4>1, <4>2 DEF RenderedLast, Rendered
    <3>3. Pending(s) = <<>> /\ Pending(t) = <<>>
      BY <1>11, <1>12, <2>1
    <3> QED
      BY <1>7, <1>8, <2>1, <3>1, <3>2, <3>3, Joined
  <2>2. CASE Open(s, Takers) /\ last \in Separate \ {Filelist}
    <3>1. shown = Out(a) \o RenderedLast(flavor, a, <<last, x>>)
      BY <1>3, <1>4, <1>5, <1>6, <2>2
    <3>2. RenderedLast(flavor, a, <<last, x>>) = <<last, x>>
      <4>1. /\ <<last, x>> # <<BitcodeBundle>> /\ ~IsFilelist(<<last, x>>) /\ ~IsInput(<<last, x>>)
        BY <2>2 DEF IsFilelist, IsInput
      <4> QED
        BY <4>1 DEF RenderedLast, Rendered
    <3>3. Pending(s) = <<last>> /\ Pending(t) = <<>>
      BY <1>11, <1>12, <2>2
    <3>4. OptionsOf(t, dropped) = (Out(a) \o <<last>>) \o <<x>>
      BY <1>7, <1>8, <2>2, <3>3
    <3>5. shown = Out(a) \o (<<last>> \o <<x>>)
      BY <1>9, <2>2, <3>1, <3>2
    <3>7. <<last>> \o <<x>> \in Tokens
      BY <1>9, <2>2
    <3>8. shown \in Tokens
      BY <1>8, <3>5, <3>7, Joined
    <3>6. (Out(a) \o <<last>>) \o <<x>> = Out(a) \o (<<last>> \o <<x>>)
      BY <1>8, <1>9, <2>2, Joined
    <3> QED
      BY <3>3, <3>4, <3>5, <3>6, <3>8, Joined
  <2>3. CASE Open(s, Takers) /\ last \notin Separate
    <3>1. flavor = "ld64" /\ SkipOpen(a) /\ x \notin Options /\ x \notin Separate /\ last # Filelist
      BY <1>3, <2>3, TakerFacts DEF Options
    <3>2. shown = Out(a) \o RenderedLast(flavor, a, <<x>>)
      BY <1>3, <1>4, <1>5, <1>6, <2>3, <3>1
    <3>3. RenderedLast(flavor, a, <<x>>) = <<x>>
      BY <3>1 DEF RenderedLast
    <3>4. Pending(s) = <<>> /\ Pending(t) = <<>>
      BY <1>11, <1>12, <2>3
    <3>5. shown = Out(a) \o <<x>>
      BY <3>2, <3>3
    <3>7. shown \in Tokens
      BY <1>8, <1>9, <3>5, Joined
    <3>6. OptionsOf(t, dropped) = Out(a) \o <<x>>
      BY <1>7, <1>8, <2>3, <3>1, <3>4, Joined
    <3> QED
      BY <3>4, <3>5, <3>6, <3>7, Joined
  <2>4. CASE ~Open(s, Takers) /\ x \in Separate
    <3>1. shown = Out(a) /\ Pending(s) = <<>> /\ x \in Options /\ x \notin dropped
      BY <1>3, <1>4, <1>12, <2>4, TakerFacts DEF Options, dropped
    <3>2. Pending(t) = IF x # Filelist THEN <<x>> ELSE <<>>
      BY <1>11, <2>4
    <3> QED
      BY <1>7, <1>8, <2>4, <3>1, <3>2, Joined
  <2>5. CASE ~Open(s, Takers) /\ x \notin Separate
    <3>1. shown = Out(a) \o RenderedLast(flavor, a, <<x>>) /\ Pending(s) = <<>> /\ Pending(t) = <<>>
      BY <1>3, <1>4, <1>5, <1>6, <1>11, <1>12, <2>5
    <3>2. RenderedLast(flavor, a, <<x>>) = IF x \in Options \ ({Filelist} \cup dropped) THEN <<x>> ELSE <<>>
      <4>1. /\ IsInput(<<x>>) <=> x \notin Flags
            /\ IsFilelist(<<x>>) <=> x = Filelist
            /\ <<x>> = <<BitcodeBundle>> <=> x = BitcodeBundle
        BY DEF IsInput, IsFilelist
      <4>2. x # Filelist /\ (x \in Options <=> x \in Flags)
        BY <2>5, TakerFacts DEF Options
      <4>3. ~(flavor = "ld64" /\ SkipOpen(a))
        BY <1>3, <2>5
      <4>4. x \in dropped <=> flavor = "ld64" /\ x = BitcodeBundle
        BY TakerFacts DEF dropped, flavor
      <4> QED
        BY <4>1, <4>2, <4>3, <4>4 DEF RenderedLast, Rendered
    <3> DEFINE more == IF x \in Options \ ({Filelist} \cup dropped) THEN <<x>> ELSE <<>>
    <3>3. more \in Tokens /\ shown = Out(a) \o more /\ OptionsOf(t, dropped) = (Out(a) \o <<>>) \o more
      BY <1>7, <1>8, <1>9, <2>5, <3>1, <3>2
    <3> HIDE DEF more
    <3>4. shown \in Tokens
      BY <1>8, <3>3, Joined
    <3> QED
      BY <1>8, <3>1, <3>3, <3>4, Joined
  <2> QED
    BY <2>1, <2>2, <2>3, <2>4, <2>5
<1> QED
  BY <1>13 DEF SameOptions, Out, flavor, dropped, t

LEMMA OccurrencesNat == \A s \in Tokens : \A x : Occurrences(s, x) \in Nat
<1>1. ASSUME NEW A, NEW s \in Seq(A), NEW x PROVE Occurrences(s, x) \in Nat
  <2> DEFINE O == {k \in DOMAIN s : s[k] = x}
  <2>1. O \subseteq 1..Len(s) /\ 1 \in Int /\ Len(s) \in Int
    OBVIOUS
  <2> HIDE DEF O
  <2>2. IsFiniteSet(1..Len(s))
    BY <2>1, FS_Interval
  <2>3. Cardinality(O) \in Nat
    BY <2>1, <2>2, FS_Subset, FS_CardinalityType
  <2> QED
    BY <2>3 DEF Occurrences, O
<1> QED
  BY <1>1 DEF Tokens

LEMMA PartsAreTokens ==
    ASSUME NEW list \in Seq(ArgumentSet)
    PROVE  /\ FlattenSeq(Unskipped(list)) \in Tokens
           /\ FlattenSeq(Inputs(list)) \in Tokens /\ FlattenSeq(Listed(list)) \in Tokens
<1> DEFINE n == Len(list)
<1>1. n \in Nat
  OBVIOUS
<1>2. ASSUME NEW flavor
      PROVE  /\ Unskipped(list) \in [1..n -> Tokens] /\ Inputs(list) \in [1..n -> Tokens]
             /\ Listed(list) \in [1..n -> Tokens]
  BY CollectedParts
<1>3. /\ Unskipped(list) \in [1..n -> Tokens] /\ Inputs(list) \in [1..n -> Tokens]
      /\ Listed(list) \in [1..n -> Tokens]
  BY <1>2
<1> HIDE DEF n
<1>4. \A P \in [1..n -> Tokens] : P \in Seq(Tokens)
  BY <1>1
<1>5. \A P \in Seq(Tokens) : FlattenSeq(P) \in Tokens
  BY FlattenFacts DEF Tokens
<1> QED
  BY <1>3, <1>4, <1>5

(* What one more token adds to the objects, read either way.               *)
LEMMA SameObjectsStep ==
    ASSUME NEW s \in Tokens, NEW x \in STRING, KeepsPace(s), NoOption(s, x), Understood(s, x),
           SameObjects(s)
    PROVE  SameObjects(Append(s, x))
<1> DEFINE t == Append(s, x)
           last == s[Len(s)]
           a == ParseArgs(s)
           flavor == LinkStep!table
           piece == IF Open(s, Takers)
                    THEN IF last # Filelist THEN <<>>
                         ELSE IF x \in DOMAIN Lists THEN Lists[x] ELSE <<x>>
                    ELSE IF x \in Options THEN <<>> ELSE <<x>>
<1>1. Open(s, Takers) => last \in Takers /\ Len(s) \in 1..Len(s)
  <2>1. Grows(s, x)
    BY Growing
  <2> QED
    BY <2>1, OpenSteps
<1>3. /\ Open(s, Separate) <=> Open(s, Takers) /\ last \in Separate
      /\ flavor = "ld64" => (SkipOpen(a) <=> Open(s, Takers) /\ last = AddAstPath)
      /\ Open(s, Takers) => last \in Separate \/ (flavor = "ld64" /\ last = AddAstPath /\ x \notin Options)
      /\ Open(s, Takers) /\ last = Filelist => x \in DOMAIN Lists
  BY <1>1, TakerFacts DEF KeepsPace, Understood, NoOption
<1>4. ParseArgs(t) = IF Open(s, Separate) THEN Append(a, <<last, x>>)
                     ELSE IF x \in Separate THEN a ELSE Append(a, <<x>>)
  BY ParseSteps
<1>5. /\ a \in Seq(ArgumentSet)
      /\ x \notin Separate => <<x>> \in ArgumentSet
      /\ Open(s, Separate) => <<last, x>> \in ArgumentSet
  <2>1. a \in Seq(ArgumentSet)
    BY ParsedArguments
  <2>2. Len(s) \in 1..Len(s) => last \in STRING
    BY DEF Tokens
  <2> QED
    BY <1>1, <1>3, <2>1, <2>2, TokensAndPairs DEF ArgumentSet, Argument
<1>6. ObjectsOf(t, Lists) = ObjectsOf(s, Lists) \o piece /\ ObjectsOf(s, Lists) \in Tokens
  BY ReadSteps, TokenAssumption DEF Tokens
<1>7. piece \in Tokens
  <2>1. <<>> \in Tokens /\ <<x>> \in Tokens
    BY TokensAndPairs, Joined
  <2>2. \A p \in DOMAIN Lists : Lists[p] \in Tokens
    BY TokenAssumption DEF Tokens
  <2> QED
    BY <2>1, <2>2
<1> HIDE DEF t, a, flavor
<1> DEFINE Adds(arg) == /\ arg \in ArgumentSet /\ ParseArgs(t) = Append(a, arg)
                        /\ flavor = "ld64" => piece = IF SkipOpen(a) THEN <<>> ELSE Objects(arg)
                        /\ flavor # "ld64" => piece = Objects(arg)
                        /\ ~(IsInput(arg) /\ IsFilelist(arg))
                        /\ ~IsInput(arg) /\ ~IsFilelist(arg) => Objects(arg) = <<>>
<1>8. (ParseArgs(t) = a /\ piece = <<>>) \/ \E arg : Adds(arg)
  <2>1. CASE Open(s, Separate)
    <3>1. /\ ~IsInput(<<last, x>>)
          /\ IsFilelist(<<last, x>>) <=> last = Filelist
          /\ Objects(<<last, x>>) = IF last = Filelist THEN readFilelistFile(x) ELSE <<>>
      BY DEF IsInput, IsFilelist, Objects
    <3>2. ~(flavor = "ld64" /\ SkipOpen(a))
      BY <1>3, <2>1, TakerFacts
    <3>3. piece = IF last = Filelist THEN readFilelistFile(x) ELSE <<>>
      BY <1>3, <2>1 DEF readFilelistFile
    <3> HIDE DEF last, piece
    <3>4. Adds(<<last, x>>)
      BY <1>4, <1>5, <2>1, <3>1, <3>2, <3>3
    <3> HIDE DEF Adds
    <3> QED
      BY <3>4
  <2>2. CASE ~Open(s, Separate) /\ x \in Separate
    <3>1. x \in Options /\ ~Open(s, Takers)
      BY <1>3, <2>2 DEF Options
    <3> QED
      BY <1>4, <2>2, <3>1
  <2>3. CASE ~Open(s, Separate) /\ x \notin Separate
    <3>1. /\ IsInput(<<x>>) <=> x \notin Flags
          /\ ~IsFilelist(<<x>>)
          /\ Objects(<<x>>) = IF x \notin Flags THEN <<x>> ELSE <<>>
      BY <2>3, TakerFacts DEF IsInput, IsFilelist, Objects
    <3>2. x \in Options <=> x \in Flags
      BY <2>3 DEF Options
    <3>3. piece = IF Open(s, Takers) THEN <<>> ELSE Objects(<<x>>)
      BY <1>3, <2>3, <3>1, <3>2, TakerFacts
    <3>4. Open(s, Takers) => flavor = "ld64"
      BY <1>3, <2>3
    <3>5. flavor = "ld64" => (SkipOpen(a) <=> Open(s, Takers))
      BY <1>3, <2>3
    <3>6. Objects(<<x>>) = <<>> \/ IsInput(<<x>>)
      BY <3>1
    <3> HIDE DEF piece
    <3>7. Adds(<<x>>)
      BY <1>4, <1>5, <2>3, <3>1, <3>3, <3>4, <3>5, <3>6
    <3> HIDE DEF Adds
    <3> QED
      BY <3>7
  <2> QED
    BY <2>1, <2>2, <2>3
<1> HIDE DEF piece
<1>9. CASE ParseArgs(t) = a /\ piece = <<>>
  BY <1>6, <1>9, Joined DEF SameObjects, a, t
<1>10. ASSUME NEW arg, Adds(arg) PROVE SameObjects(t)
  <2> DEFINE in == IF IsInput(arg) THEN Objects(arg) ELSE <<>>
             listed == IF IsFilelist(arg) THEN Objects(arg) ELSE <<>>
  <2>1. /\ FlattenSeq(Unskipped(Append(a, arg))) =
               FlattenSeq(Unskipped(a)) \o (IF SkipOpen(a) THEN <<>> ELSE Objects(arg))
        /\ FlattenSeq(Inputs(Append(a, arg))) = FlattenSeq(Inputs(a)) \o in
        /\ FlattenSeq(Listed(Append(a, arg))) = FlattenSeq(Listed(a)) \o listed
    BY <1>5, <1>10, CollectSteps
  <2>2. CASE flavor = "ld64"
    <3>1. FlattenSeq(Unskipped(a)) = ObjectsOf(s, Lists)
      BY <2>2 DEF SameObjects, a, flavor
    <3>2. FlattenSeq(Unskipped(ParseArgs(t))) = ObjectsOf(t, Lists)
      BY <1>6, <1>10, <2>1, <2>2, <3>1
    <3> QED
      BY <2>2, <3>2 DEF SameObjects, flavor
  <2>3. CASE flavor # "ld64"
    <3> DEFINE I == FlattenSeq(Inputs(a))
               L == FlattenSeq(Listed(a))
    <3>1. \A f : Occurrences(ObjectsOf(s, Lists), f) = Occurrences(I, f) + Occurrences(L, f)
      BY <2>3 DEF SameObjects, a, flavor
    <3>2. I \in Tokens /\ L \in Tokens
      BY <1>5, PartsAreTokens
    <3>3. piece = Objects(arg) /\ in \in Tokens /\ listed \in Tokens
      BY <1>7, <1>10, <2>3, Joined
    <3>4. /\ \/ in = piece /\ listed = <<>>
             \/ in = <<>> /\ listed = piece
      BY <1>10, <3>3
    <3> HIDE DEF I, L, in, listed, Adds
    <3>5. ASSUME NEW f
          PROVE  Occurrences(ObjectsOf(t, Lists), f) =
                     Occurrences(I \o in, f) + Occurrences(L \o listed, f)
      <4>1. /\ Occurrences(I \o in, f) = Occurrences(I, f) + Occurrences(in, f)
            /\ Occurrences(L \o listed, f) = Occurrences(L, f) + Occurrences(listed, f)
            /\ Occurrences(ObjectsOf(s, Lists) \o piece, f) =
                   Occurrences(ObjectsOf(s, Lists), f) + Occurrences(piece, f)
        <5>1. \A u, v \in Tokens : \A y : Occurrences(u \o v, y) = Occurrences(u, y) + Occurrences(v, y)
          BY Concatenated
        <5> QED
          BY <1>6, <1>7, <3>2, <3>3, <5>1
      <4>2. Occurrences(in, f) + Occurrences(listed, f) = Occurrences(piece, f)
        <5>1. Occurrences(<<>>, f) = 0 /\ Occurrences(piece, f) \in Nat
          BY <1>7, OccurrencesEmpty, OccurrencesNat
        <5> QED
          BY <3>4, <5>1
      <4>3. /\ Occurrences(I, f) \in Nat /\ Occurrences(L, f) \in Nat
            /\ Occurrences(in, f) \in Nat /\ Occurrences(listed, f) \in Nat
        BY <3>2, <3>3, OccurrencesNat
      <4>4. Occurrences(ObjectsOf(s, Lists), f) = Occurrences(I, f) + Occurrences(L, f)
        BY <3>1
      <4> QED
        BY <1>6, <4>1, <4>2, <4>3, <4>4
    <3>6. ParseArgs(t) = Append(a, arg)
      BY <1>10 DEF Adds
    <3>7. FlattenSeq(Inputs(ParseArgs(t))) = I \o in /\ FlattenSeq(Listed(ParseArgs(t))) = L \o listed
      BY <2>1, <3>6 DEF I, L
    <3> QED
      BY <2>3, <3>5, <3>7 DEF SameObjects, flavor
  <2> QED
    BY <2>2, <2>3
<1> HIDE DEF Adds
<1>11. SameObjects(t)
  BY <1>8, <1>9, <1>10 DEF t
<1> QED
  BY <1>11 DEF t

(* What the driver collects of a line, and that it only grows with it.     *)
Collected(s) == collectObjectFiles(LinkStep!table, ParseArgs(s))

LEMMA CollectedGrows ==
    ASSUME NEW s \in Tokens, NEW x \in STRING
    PROVE  /\ Range(Collected(s)) \subseteq Range(Collected(Append(s, x)))
           /\ KeepsPace(s) /\ Open(s, Takers) /\ s[Len(s)] \in Unlisted /\ x \notin Options
                  => x \in Range(Collected(Append(s, x)))
<1> DEFINE t == Append(s, x)
           last == s[Len(s)]
           a == ParseArgs(s)
           flavor == LinkStep!table
           C(list) == collectObjectFiles(flavor, list)
<1>1. a \in Seq(ArgumentSet)
  BY ParsedArguments
<1>2. ParseArgs(t) = IF Open(s, Separate) THEN Append(a, <<last, x>>)
                     ELSE IF x \in Separate THEN a ELSE Append(a, <<x>>)
  BY ParseSteps
<1>3. /\ x \notin Separate => <<x>> \in ArgumentSet
      /\ Open(s, Separate) => <<last, x>> \in ArgumentSet
  <2>1. Grows(s, x)
    BY Growing
  <2>2. Open(s, Separate) => last \in Separate /\ Len(s) \in 1..Len(s)
    BY <2>1, OpenSteps
  <2>3. Len(s) \in 1..Len(s) => last \in STRING
    BY DEF Tokens
  <2> QED
    BY <2>2, <2>3, TokensAndPairs DEF ArgumentSet, Argument
<1> HIDE DEF a, flavor, t
<1>4. ASSUME NEW list \in Seq(ArgumentSet), NEW arg \in ArgumentSet
      PROVE  /\ Range(C(list)) \subseteq Range(C(Append(list, arg)))
             /\ IsInput(arg) /\ ~(flavor = "ld64" /\ SkipOpen(list)) => arg[1] \in Range(C(Append(list, arg)))
  <2> DEFINE more == Append(list, arg)
             one == IF SkipOpen(list) THEN <<>> ELSE Objects(arg)
             in == IF IsInput(arg) THEN Objects(arg) ELSE <<>>
             listed == IF IsFilelist(arg) THEN Objects(arg) ELSE <<>>
  <2>1. more \in Seq(ArgumentSet)
    BY <1>4, Growing
  <2>2. /\ FlattenSeq(Unskipped(more)) = FlattenSeq(Unskipped(list)) \o one
        /\ FlattenSeq(Inputs(more)) = FlattenSeq(Inputs(list)) \o in
        /\ FlattenSeq(Listed(more)) = FlattenSeq(Listed(list)) \o listed
    BY <1>4, CollectSteps
  <2>3. /\ flavor = "ld64" => C(list) = FlattenSeq(Unskipped(list)) /\ C(more) = FlattenSeq(Unskipped(more))
        /\ flavor # "ld64" => C(list) = FlattenSeq(Inputs(list)) \o FlattenSeq(Listed(list))
                              /\ C(more) = FlattenSeq(Inputs(more)) \o FlattenSeq(Listed(more))
    BY <1>4, <2>1, CollectedParts
  <2>4. Objects(arg) \in Tokens /\ (IsInput(arg) => arg[1] \in Range(Objects(arg)))
    <3>1. arg \in Tokens
      BY <1>4 DEF ArgumentSet
    <3>2. \A p : readFilelistFile(p) \in Tokens
      BY Joined, TokenAssumption DEF readFilelistFile, Tokens
    <3>3. Objects(arg) \in Tokens
      BY <3>1, <3>2, Joined DEF Objects
    <3>4. IsInput(arg) => Objects(arg) = arg /\ 1 \in DOMAIN arg
      BY <3>1 DEF IsInput, Objects, Tokens
    <3> QED
      BY <3>3, <3>4 DEF Range
  <2>5. one \in Tokens /\ in \in Tokens /\ listed \in Tokens
    BY <2>4, Joined
  <2>6. ASSUME NEW l \in Seq(ArgumentSet)
        PROVE  /\ FlattenSeq(Unskipped(l)) \in Tokens
               /\ FlattenSeq(Inputs(l)) \in Tokens /\ FlattenSeq(Listed(l)) \in Tokens
    BY PartsAreTokens
  <2>7. \A v, w \in Tokens : Range(v \o w) = Range(v) \cup Range(w)
    BY Concatenated
  <2> DEFINE U(l) == FlattenSeq(Unskipped(l))
             I(l) == FlattenSeq(Inputs(l))
             L(l) == FlattenSeq(Listed(l))
  <2>8. /\ U(list) \in Tokens /\ I(list) \in Tokens /\ L(list) \in Tokens
        /\ I(more) \in Tokens /\ L(more) \in Tokens
    BY <1>4, <2>1, <2>6
  <2>9. /\ U(more) = U(list) \o one /\ I(more) = I(list) \o in /\ L(more) = L(list) \o listed
    BY <2>2
  <2>10. /\ flavor = "ld64" => C(list) = U(list) /\ C(more) = U(more)
         /\ flavor # "ld64" => C(list) = I(list) \o L(list) /\ C(more) = I(more) \o L(more)
    BY <2>3
  <2>11. IsInput(arg) => in = Objects(arg) /\ (~SkipOpen(list) => one = Objects(arg))
    OBVIOUS
  <2> HIDE DEF U, I, L, one, in, listed, more, C
  <2>12. /\ Range(U(more)) = Range(U(list)) \cup Range(one)
         /\ Range(I(more)) = Range(I(list)) \cup Range(in)
         /\ Range(L(more)) = Range(L(list)) \cup Range(listed)
         /\ Range(I(list) \o L(list)) = Range(I(list)) \cup Range(L(list))
         /\ Range(I(more) \o L(more)) = Range(I(more)) \cup Range(L(more))
    BY <2>5, <2>7, <2>8, <2>9
  <2>13. Range(C(list)) \subseteq Range(C(more))
    BY <2>10, <2>12
  <2>14. IsInput(arg) /\ ~(flavor = "ld64" /\ SkipOpen(list)) => arg[1] \in Range(C(more))
    BY <2>4, <2>10, <2>11, <2>12
  <2> QED
    BY <2>13, <2>14 DEF more
<1> HIDE DEF C
<1>5. Range(C(a)) \subseteq Range(C(ParseArgs(t)))
  BY <1>1, <1>2, <1>3, <1>4
<1>6. ASSUME KeepsPace(s), Open(s, Takers), last \in Unlisted, x \notin Options
      PROVE  x \in Range(C(ParseArgs(t)))
  <2>1. last \notin Separate /\ last # AddAstPath /\ x \notin Separate /\ x \notin Flags
    <3>1. last \in Flags \ {AddAstPath, BitcodeBundle}
      BY <1>6, DriverAssumption
    <3> QED
      BY <1>6, <3>1, TakerFacts DEF Options
  <2>2. ~Open(s, Separate) /\ ~(flavor = "ld64" /\ SkipOpen(a))
    BY <1>6, <2>1 DEF KeepsPace, a, flavor
  <2>3. ParseArgs(t) = Append(a, <<x>>) /\ <<x>> \in ArgumentSet
    BY <1>2, <1>3, <2>1, <2>2
  <2>4. IsInput(<<x>>) /\ <<x>>[1] = x
    BY <2>1 DEF IsInput
  <2> QED
    BY <1>1, <1>4, <2>2, <2>3, <2>4
<1> QED
  BY <1>5, <1>6 DEF Collected, C, a, flavor, t

(* No file is readable by chance, and the lists can be read: the driver    *)
(* has understood the line.                                                *)
LEMMA Understanding ==
    ASSUME NEW line, line = LinkStep!LinkerTokens, line \in Tokens, LinkStep!Meaningful,
           Range(Collected(line)) \subseteq Readable,
           NEW m \in Nat, m + 1 <= Len(line)
    PROVE  Understood(SubSeq(line, 1, m), line[m+1])
<1> DEFINE u(k) == SubSeq(line, 1, k)
           n == Len(line)
           G == {k \in Nat : k <= n => Range(Collected(u(n - k))) \subseteq Range(Collected(line))}
<1>1. /\ n \in Nat /\ u(n) = line
      /\ \A k \in Nat : k + 1 <= n =>
            u(k) \in Tokens /\ line[k+1] \in STRING /\ u(k+1) = Append(u(k), line[k+1])
  <2>1. Len(line) \in Nat /\ SubSeq(line, 1, Len(line)) = line
    BY PrefixFacts
  <2>2. ASSUME NEW k \in Nat, k + 1 <= Len(line)
        PROVE  u(k) \in Tokens /\ line[k+1] \in STRING /\ u(k+1) = Append(u(k), line[k+1])
    <3>1. k <= Len(line)
      BY <2>1, <2>2
    <3> QED
      BY <2>2, <3>1, PrefixFacts
  <2> QED
    BY <2>1, <2>2
<1> HIDE DEF n, u
<1>2. 0 \in G
  <2>1. n - 0 = n
    BY <1>1
  <2> QED
    BY <1>1, <2>1
<1>3. ASSUME NEW k \in G PROVE k + 1 \in G
  <2> SUFFICES ASSUME k + 1 <= n
               PROVE  Range(Collected(u(n - (k + 1)))) \subseteq Range(Collected(line))
    OBVIOUS
  <2> DEFINE l == n - (k + 1)
  <2>1. l \in Nat /\ l + 1 = n - k /\ l + 1 <= n /\ k <= n
    BY <1>1
  <2>2. Range(Collected(u(l + 1))) \subseteq Range(Collected(line))
    BY <2>1
  <2> HIDE DEF l, G
  <2>3. Range(Collected(u(l))) \subseteq Range(Collected(u(l + 1)))
    BY <1>1, <2>1, CollectedGrows
  <2> QED
    BY <2>2, <2>3 DEF l
<1>4. G = Nat
  <2>1. G \in SUBSET Nat
    OBVIOUS
  <2> HIDE DEF G
  <2> QED
    BY <1>2, <1>3, <2>1, SetInduction
<1>5. Range(Collected(u(m + 1))) \subseteq Readable
  <2>1. n - (m + 1) \in Nat /\ n - (m + 1) <= n /\ n - (n - (m + 1)) = m + 1
    BY <1>1 DEF n
  <2>2. n - (m + 1) \in G
    BY <1>4, <2>1
  <2> QED
    BY <2>1, <2>2
<1>6. \A i \in 2..Len(line) : LinkStep!IsValue(line, Takers, i) =>
          /\ line[i-1] = Filelist => line[i] \in DOMAIN Lists
          /\ line[i-1] \in Unlisted => line[i] \notin Readable
  <2>1. \A i \in 2..Len(line) : i \in 1..(Len(line) + 1)
    BY <1>1 DEF n
  <2>2. \A i \in 2..Len(line) :
            LinkStep!IsValue(line, LinkStep!TakesOf, i) = LinkStep!IsValue(line, Takers, i)
    BY <2>1, PlainLine DEF LinkStep!Meaningful
  <2> QED
    BY <2>2 DEF LinkStep!Meaningful, Filelist
<1>7. KeepsPace(u(m)) /\ NoOption(u(m), line[m+1])
  <2>1. m <= Len(line)
    BY <1>1 DEF n
  <2> QED
    BY <2>1, KeepingPace DEF LinkStep!Meaningful, u
<1>8. Len(u(m)) = m /\ Open(u(m), Takers) = LinkStep!IsValue(line, Takers, m + 1)
  <2>1. m <= Len(line)
    BY <1>1 DEF n
  <2> QED
    BY <2>1, PrefixFacts, PrefixOpen DEF u
<1>9. SUFFICES ASSUME Open(u(m), Takers)
               PROVE  /\ u(m)[m] = Filelist => line[m+1] \in DOMAIN Lists
                      /\ u(m)[m] \notin Unlisted
  BY <1>8 DEF Understood, u
<1>10. m + 1 \in 2..Len(line) /\ (m + 1) - 1 = m /\ u(m)[m] = line[m]
  <2>1. m # 0
    <3>1. m = 0 => m + 1 = 1
      OBVIOUS
    <3> QED
      BY <1>8, <1>9, <3>1, ValueSteps
  <2>2. m \in 1..Len(line) /\ m + 1 \in 2..Len(line)
    BY <1>1, <2>1 DEF n
  <2> QED
    BY <2>2, PrefixFacts DEF u
<1>11. ASSUME u(m)[m] \in Unlisted PROVE FALSE
  <2>1. line[m+1] \notin Options
    BY <1>7, <1>8, <1>9, <1>11 DEF NoOption
  <2>2. line[m+1] \in Range(Collected(u(m + 1)))
    <3>1. u(m) \in Tokens /\ line[m+1] \in STRING /\ u(m+1) = Append(u(m), line[m+1])
      BY <1>1 DEF n
    <3> QED
      BY <1>7, <1>8, <1>9, <1>11, <2>1, <3>1, CollectedGrows
  <2>3. line[m+1] \notin Readable
    BY <1>6, <1>8, <1>9, <1>10, <1>11
  <2> QED
    BY <1>5, <2>2, <2>3
<1> QED
  BY <1>6, <1>8, <1>9, <1>10, <1>11

(* The parsed arguments mean what the line means.                          *)
LEMMA Matching ==
    ASSUME NEW line, line = LinkStep!LinkerTokens, line \in Tokens, LinkStep!Meaningful,
           Range(Collected(line)) \subseteq Readable
    PROVE  /\ SameObjects(line) /\ ~Open(line, Takers)
           /\ collectObjectLinkOpts(LinkStep!table, ParseArgs(line)) = OptionsOf(line, LinkStep!Dropped)
<1> DEFINE u(k) == SubSeq(line, 1, k)
           T == {k \in Nat : k <= Len(line) => SameObjects(u(k)) /\ SameOptions(u(k))}
<1>1. Len(line) \in Nat /\ u(0) = <<>> /\ u(Len(line)) = line
  BY PrefixFacts
<1>2. 0 \in T
  <2>1. ParseArgs(<<>>) = <<>> /\ FlattenSeq(<<>>) = <<>>
    <3>1. <<>> \in Tokens /\ Len(<<>>) = 0 /\ 1..0 = {} /\ FlattenSeq(<<>>) = <<>>
      BY DEF Tokens, FlattenSeq
    <3>2. ArgumentParts(<<>>) = <<>>
      BY <3>1 DEF ArgumentParts
    <3> QED
      BY <3>1, <3>2, ParsedParts
  <2>2. /\ Unskipped(<<>>) = <<>> /\ Inputs(<<>>) = <<>> /\ Listed(<<>>) = <<>>
        /\ \A flavor : RenderedArgs(flavor, <<>>) = <<>>
    <3>1. Len(<<>>) = 0 /\ 1..0 = {}
      OBVIOUS
    <3> QED
      BY <3>1 DEF Unskipped, Inputs, Listed, RenderedArgs
  <2>3. ObjectsOf(<<>>, Lists) = <<>> /\ OptionsOf(<<>>, LinkStep!Dropped) = <<>>
    BY EmptyReadings
  <2>4. Pending(<<>>) = <<>>
    BY OpenEmpty DEF Pending
  <2>5. SameObjects(<<>>)
    <3>1. \A f : Occurrences(<<>>, f) = 0
      BY OccurrencesEmpty
    <3> QED
      BY <2>1, <2>2, <2>3, <3>1 DEF SameObjects
  <2>6. SameOptions(<<>>)
    <3>1. <<>> \o <<>> = <<>>
      BY Joined
    <3> QED
      BY <2>1, <2>2, <2>3, <2>4, <3>1 DEF SameOptions
  <2> QED
    BY <1>1, <2>5, <2>6
<1>3. ASSUME NEW k \in T PROVE k + 1 \in T
  <2> SUFFICES ASSUME k + 1 <= Len(line) PROVE SameObjects(u(k+1)) /\ SameOptions(u(k+1))
    OBVIOUS
  <2>1. k \in Nat /\ k <= Len(line) /\ SameObjects(u(k)) /\ SameOptions(u(k))
    BY <1>1
  <2>2. u(k) \in Tokens /\ line[k+1] \in STRING /\ u(k+1) = Append(u(k), line[k+1])
    BY <2>1, PrefixFacts
  <2>3. Understood(u(k), line[k+1])
    BY <2>1, Understanding
  <2>4. KeepsPace(u(k)) /\ NoOption(u(k), line[k+1])
    BY <2>1, KeepingPace DEF LinkStep!Meaningful
  <2> HIDE DEF u, T
  <2> QED
    BY <2>1, <2>2, <2>3, <2>4, SameObjectsStep, SameOptionsStep
<1>4. T = Nat
  <2>1. T \in SUBSET Nat
    OBVIOUS
  <2> HIDE DEF T
  <2> QED
    BY <1>2, <1>3, <2>1, SetInduction
<1>5. SameObjects(line) /\ SameOptions(line)
  <2>1. Len(line) \in T
    <3> HIDE DEF T
    <3> QED
      BY <1>1, <1>4
  <2>2. SameObjects(u(Len(line))) /\ SameOptions(u(Len(line)))
    BY <1>1, <2>1
  <2> QED
    BY <1>1, <2>2
<1>6. ~Open(line, Takers)
  <2>1. Len(line) + 1 \in 1..(Len(line) + 1)
    BY <1>1
  <2>2. LinkStep!IsValue(line, LinkStep!TakesOf, Len(line) + 1) = LinkStep!IsValue(line, Takers, Len(line) + 1)
    BY <2>1, PlainLine DEF LinkStep!Meaningful
  <2> QED
    BY <2>2 DEF LinkStep!Meaningful, Open
<1>7. collectObjectLinkOpts(LinkStep!table, ParseArgs(line)) = OptionsOf(line, LinkStep!Dropped)
  <2> DEFINE list == ParseArgs(line)
             opts == collectObjectLinkOpts(LinkStep!table, list)
  <2>1. list \in Seq(ArgumentSet)
    BY ParsedArguments
  <2>2. opts = FlattenSeq(RenderedArgs(LinkStep!table, list)) /\ opts \in Tokens
    <3> HIDE DEF list
    <3> QED
      BY <2>1, CollectedParts, ObjectsAreTokens
  <2>3. Pending(line) = <<>>
    BY <1>6 DEF Pending
  <2>4. opts \o <<>> = OptionsOf(line, LinkStep!Dropped)
    BY <1>5, <2>2, <2>3 DEF SameOptions
  <2> HIDE DEF opts
  <2>5. opts \o <<>> = opts
    BY <2>2, Joined
  <2> QED
    BY <2>4, <2>5 DEF opts
<1> QED
  BY <1>5, <1>6, <1>7

-----------------------------------------------------------------------------
(* What the pipeline makes of the objects, as names again.                 *)

Names(out) == [k \in DOMAIN out |-> out[k].object]
NoneCompiled(out) == \A k \in DOMAIN out : ~out[k].compiled
Unchanged(s) == [k \in DOMAIN s |-> [object |-> s[k], compiled |-> FALSE]]
Recompiled(s) == [k \in DOMAIN s |-> [object |-> s[k], compiled |-> TRUE]]

LEMMA Elements ==
    ASSUME NEW A, NEW s \in Seq(A), NEW t \in Seq(A)
    PROVE  /\ DOMAIN (s \o t) = 1..(Len(s) + Len(t))
           /\ \A k \in 1..Len(s) : (s \o t)[k] = s[k]
           /\ \A k \in 1..Len(t) : Len(s) + k \in 1..(Len(s) + Len(t)) /\ (s \o t)[Len(s) + k] = t[k]
           /\ \A k \in 1..(Len(s) + Len(t)) :
                 k \in 1..Len(s) \/ (k - Len(s) \in 1..Len(t) /\ Len(s) + (k - Len(s)) = k)
<1>1. /\ DOMAIN (s \o t) = 1..(Len(s) + Len(t)) /\ Len(s) \in Nat /\ Len(t) \in Nat
      /\ \A k \in 1..Len(s) : (s \o t)[k] = s[k]
      /\ \A k \in 1..Len(t) : (s \o t)[Len(s) + k] = t[k]
  OBVIOUS
<1> QED
  BY <1>1

LEMMA NamesOfParts ==
    ASSUME NEW A, NEW u \in Seq(A), NEW v \in Seq(A), NEW out,
           out = Unchanged(u) \o Recompiled(v)
    PROVE  /\ Names(out) = u \o v
           /\ NoneCompiled(out) => v = <<>>
<1> DEFINE B == [object : A, compiled : BOOLEAN]
           f == [k \in DOMAIN u |-> [object |-> u[k], compiled |-> FALSE]]
           g == [k \in DOMAIN v |-> [object |-> v[k], compiled |-> TRUE]]
           m == Len(u)
           n == Len(v)
<1>1. /\ m \in Nat /\ n \in Nat /\ DOMAIN u = 1..m /\ DOMAIN v = 1..n
      /\ f \in Seq(B) /\ g \in Seq(B) /\ Len(f) = m /\ Len(g) = n
      /\ \A k \in 1..m : f[k] = [object |-> u[k], compiled |-> FALSE]
      /\ \A k \in 1..n : g[k] = [object |-> v[k], compiled |-> TRUE]
  <2>1. m \in Nat /\ n \in Nat /\ DOMAIN u = 1..m /\ DOMAIN v = 1..n
    OBVIOUS
  <2>2. /\ f \in [1..m -> B] /\ g \in [1..n -> B]
    <3>1. (\A k \in 1..m : u[k] \in A) /\ \A k \in 1..n : v[k] \in A
      OBVIOUS
    <3> QED
      BY <2>1, <3>1
  <2> HIDE DEF B
  <2>3. f \in Seq(B) /\ g \in Seq(B) /\ Len(f) = m /\ Len(g) = n
    <3> HIDE DEF f, g, m, n
    <3> QED
      BY <2>1, <2>2
  <2> QED
    BY <2>1, <2>3
<1>2. out = f \o g
  BY Zenon DEF Unchanged, Recompiled
<1> HIDE DEF f, g, m, n, B
<1>3. /\ DOMAIN out = 1..(m+n)
      /\ \A k \in 1..m : out[k] = f[k]
      /\ \A k \in 1..n : m + k \in 1..(m+n) /\ out[m+k] = g[k]
      /\ \A k \in 1..(m+n) : k \in 1..m \/ (k - m \in 1..n /\ m + (k - m) = k)
  <2>1. f \in Seq(B) /\ g \in Seq(B) /\ Len(f) = m /\ Len(g) = n
    BY <1>1
  <2>2. /\ DOMAIN (f \o g) = 1..(Len(f) + Len(g))
        /\ \A k \in 1..Len(f) : (f \o g)[k] = f[k]
        /\ \A k \in 1..Len(g) : Len(f) + k \in 1..(Len(f) + Len(g)) /\ (f \o g)[Len(f) + k] = g[k]
        /\ \A k \in 1..(Len(f) + Len(g)) :
              k \in 1..Len(f) \/ (k - Len(f) \in 1..Len(g) /\ Len(f) + (k - Len(f)) = k)
    BY <2>1, Elements
  <2> QED
    BY <1>2, <2>1, <2>2
<1>4. /\ DOMAIN (u \o v) = 1..(m+n)
      /\ \A k \in 1..m : (u \o v)[k] = u[k]
      /\ \A k \in 1..n : (u \o v)[m+k] = v[k]
  BY Elements DEF m, n
<1>5. \A k \in 1..(m+n) : Names(out)[k] = (u \o v)[k]
  <2> SUFFICES ASSUME NEW k \in 1..(m+n) PROVE out[k].object = (u \o v)[k]
    BY <1>3 DEF Names
  <2>1. CASE k \in 1..m
    BY <1>1, <1>3, <1>4, <2>1
  <2>2. CASE k \notin 1..m
    <3>1. k - m \in 1..n /\ m + (k - m) = k
      BY <1>3, <2>2
    <3>2. out[k] = g[k-m] /\ (u \o v)[k] = v[k-m]
      BY <1>3, <1>4, <3>1
    <3> QED
      BY <1>1, <3>1, <3>2
  <2> QED
    BY <2>1, <2>2
<1>6. Names(out) = u \o v
  <2>1. /\ Names(out) = [k \in 1..(m+n) |-> Names(out)[k]]
        /\ u \o v = [k \in 1..(m+n) |-> (u \o v)[k]]
    <3>1. Names(out) = [k \in 1..(m+n) |-> Names(out)[k]]
      BY <1>3 DEF Names
    <3>2. u \o v \in Seq(A)
      OBVIOUS
    <3>3. \A s \in Seq(A) : s = [k \in DOMAIN s |-> s[k]]
      OBVIOUS
    <3> QED
      BY <1>4, <3>1, <3>2, <3>3
  <2> QED
    BY <1>5, <2>1
<1>7. ASSUME NoneCompiled(out) PROVE v = <<>>
  <2>1. n = 0
    <3> SUFFICES ASSUME n # 0 PROVE FALSE
      OBVIOUS
    <3>1. 1 \in 1..n
      BY <1>1
    <3>2. out[m+1] = g[1] /\ m + 1 \in DOMAIN out /\ g[1].compiled
      BY <1>1, <1>3, <3>1
    <3> QED
      BY <1>7, <3>2 DEF NoneCompiled
  <2> QED
    BY <2>1 DEF n
<1> QED
  BY <1>6, <1>7

(* Every object as often as before; the same list if nothing is compiled.  *)
LEMMA RewritingFacts ==
    ASSUME NEW objects \in Tokens, NEW out \in Pipeline!Rewritings(objects)
    PROVE  /\ Names(out) \in Tokens
           /\ \A f : Occurrences(Names(out), f) = Occurrences(objects, f)
           /\ NoneCompiled(out) => Names(out) = objects
<1>1. /\ \A objs : Pipeline!Range(objs) = Range(objs)
      /\ \A objs, S : Pipeline!Keep(objs, S) = Keep(objs, S)
  BY DEF Pipeline!Range, Range, Pipeline!Keep, Keep, Pipeline!FlattenSeq, FlattenSeq
<1>2. PICK r \in SUBSET Range(objects) :
          out = Pipeline!Marked(objects, r, FALSE) \o Pipeline!Marked(objects, r, TRUE)
  BY <1>1 DEF Pipeline!Rewritings
<1> DEFINE rest == Range(objects) \ r
           u == Keep(objects, rest)
           v == Keep(objects, r)
<1>3. /\ u \in Tokens /\ Range(u) = Range(objects) \cap rest
      /\ v \in Tokens /\ Range(v) = Range(objects) \cap r
  BY KeepFacts DEF Tokens
<1>4. out = Unchanged(u) \o Recompiled(v)
  <2>1. Pipeline!Marked(objects, r, FALSE) = Unchanged(u)
    BY <1>1 DEF Pipeline!Marked, Unchanged, Recompiled
  <2>2. Pipeline!Marked(objects, r, TRUE) = Recompiled(v)
    BY <1>1 DEF Pipeline!Marked, Unchanged, Recompiled
  <2> QED
    BY <1>2, <2>1, <2>2
<1>5. /\ Names(out) = u \o v
      /\ NoneCompiled(out) => v = <<>>
  <2> HIDE DEF u, v
  <2>1. u \in Seq(STRING) /\ v \in Seq(STRING)
    BY <1>3 DEF Tokens
  <2>2. out = Unchanged(u) \o Recompiled(v) => Names(out) = u \o v /\ (NoneCompiled(out) => v = <<>>)
    BY <2>1, NamesOfParts
  <2> QED
    BY <1>4, <2>2
<1>6. Names(out) \in Tokens
  <2> HIDE DEF u, v
  <2> QED
    BY <1>3, <1>5, Joined
<1>7. ASSUME NEW f PROVE Occurrences(Names(out), f) = Occurrences(objects, f)
  <2>1. /\ Occurrences(u, f) = IF f \in rest THEN Occurrences(objects, f) ELSE 0
        /\ Occurrences(v, f) = IF f \in r THEN Occurrences(objects, f) ELSE 0
    BY OccurrencesKept DEF Tokens
  <2>2. Occurrences(u \o v, f) = Occurrences(u, f) + Occurrences(v, f)
    <3>1. \A a, b \in Tokens : \A x : Occurrences(a \o b, x) = Occurrences(a, x) + Occurrences(b, x)
      BY Concatenated
    <3> HIDE DEF u, v
    <3> QED
      BY <1>3, <3>1
  <2>3. f \notin Range(objects) => Occurrences(objects, f) = 0
    <3>1. ASSUME f \notin Range(objects) PROVE {k \in DOMAIN objects : objects[k] = f} = {}
      BY <3>1 DEF Range
    <3> QED
      BY <3>1, FS_EmptySet DEF Occurrences
  <2>4. Occurrences(objects, f) \in Nat
    BY OccurrencesNat
  <2> HIDE DEF u, v
  <2>5. f \in rest <=> f \in Range(objects) /\ f \notin r
    OBVIOUS
  <2> QED
    BY <1>5, <2>1, <2>2, <2>3, <2>4, <2>5
<1>8. ASSUME NoneCompiled(out) PROVE Names(out) = objects
  <2>1. v = <<>>
    BY <1>5, <1>8
  <2>2. Range(v) = {}
    <3>1. DOMAIN <<>> = {}
      OBVIOUS
    <3> QED
      BY <2>1, <3>1 DEF Range
  <2>3. Range(objects) \subseteq rest
    BY <1>3, <2>2
  <2>4. u = objects
    BY <2>3, OccurrencesKept DEF Tokens
  <2>5. u \o <<>> = u
    <3> HIDE DEF u
    <3> QED
      BY <1>3, Joined
  <2> QED
    BY <1>5, <2>1, <2>4, <2>5
<1> QED
  BY <1>6, <1>7, <1>8

(* The option or value that x adds to the options of s, if any.            *)
Shown(s, x, dropped) ==
    IF IF Open(s, Takers) THEN s[Len(s)] # Filelist
       ELSE x \in Options \ ({Filelist} \cup dropped)
    THEN <<x>> ELSE <<>>

LEMMA OptionSteps ==
    ASSUME NEW s \in Tokens, NEW x \in STRING, NEW dropped
    PROVE  /\ OptionsOf(Append(s, x), dropped) = OptionsOf(s, dropped) \o Shown(s, x, dropped)
           /\ OptionsOf(s, dropped) \in Tokens
<1>1. \A p \in DOMAIN Lists : Lists[p] \in Tokens
  BY TokenAssumption DEF Tokens
<1>2. ASSUME NEW lists, \A p \in DOMAIN lists : lists[p] \in Tokens
      PROVE  /\ OptionsOf(Append(s, x), dropped) = OptionsOf(s, dropped) \o
                    (IF IF Open(s, Takers) THEN s[Len(s)] # Filelist
                        ELSE x \in Options \ ({Filelist} \cup dropped)
                     THEN <<x>> ELSE <<>>)
             /\ OptionsOf(s, dropped) \in Tokens
  BY <1>2, ReadSteps
<1> QED
  BY <1>1, <1>2 DEF Shown

(* The name of a list is no option of the line.                            *)
LEMMA NameStep ==
    ASSUME NEW s \in Tokens, NEW x \in STRING, NEW dropped, Open(s, Takers), s[Len(s)] = Filelist
    PROVE  OptionsOf(Append(s, x), dropped) = OptionsOf(s, dropped) \o <<>>
<1>1. OptionsOf(Append(s, x), dropped) = OptionsOf(s, dropped) \o Shown(s, x, dropped)
  BY OptionSteps
<1>2. Shown(s, x, dropped) = <<>>
  BY DEF Shown
<1> QED
  BY <1>1, <1>2

NewLists(files) == [p \in DOMAIN Lists \cup {TempFile} |-> IF p = TempFile THEN files ELSE Lists[p]]

(* The command line of the real tool, read back.                           *)
LEMMA NewLine ==
    ASSUME NEW kept \in Tokens, NEW files \in Tokens,
           NEW lists, lists = NewLists(files), NEW none, none = {},
           ~Open(kept, Takers), OptionsOf(kept, none) = kept, ObjectsOf(kept, lists) = <<>>
    PROVE  LET line == appendFilelist(TempFile, kept) IN
           line \in Tokens /\ OptionsOf(line, none) = kept /\ ObjectsOf(line, lists) = files
<1> DEFINE v == Append(kept, Filelist)
           w == Append(v, TempFile)
<1>1. /\ Filelist \in STRING /\ TempFile \in STRING /\ \A p \in DOMAIN lists : lists[p] \in Tokens
      /\ lists[TempFile] = files /\ TempFile \in DOMAIN lists
  <2>1. Filelist \in STRING /\ TempFile \in STRING
    BY TokenAssumption, DriverAssumption
  <2>2. \A p \in DOMAIN Lists : Lists[p] \in Tokens
    BY TokenAssumption DEF Tokens
  <2> QED
    BY <2>1, <2>2 DEF NewLists
<1>2. Grows(kept, Filelist) /\ v \in Tokens
  BY <1>1, Growing
<1>3. /\ Open(v, Takers)
      /\ v[Len(v)] = Filelist
      /\ OptionsOf(v, none) = kept \o <<>> /\ ObjectsOf(v, lists) = <<>> \o <<>>
  <2>1. Open(v, Takers) <=> Filelist \in Takers /\ ~Open(kept, Takers)
    BY <1>2, OpenSteps
  <2>2. Filelist \in Takers /\ Filelist \in Options
    BY TakerFacts
  <2>3. OptionsOf(v, none) = OptionsOf(kept, none) \o <<>>
    <3>1. OptionsOf(v, none) = OptionsOf(kept, none) \o Shown(kept, Filelist, none)
      BY <1>1, OptionSteps
    <3>2. Shown(kept, Filelist, none) = <<>>
      BY DEF Shown
    <3> QED
      BY <3>1, <3>2
  <2>4. ObjectsOf(v, lists) = ObjectsOf(kept, lists) \o
            (IF Open(kept, Takers)
             THEN IF kept[Len(kept)] # Filelist THEN <<>>
                  ELSE IF Filelist \in DOMAIN lists THEN lists[Filelist] ELSE <<Filelist>>
             ELSE IF Filelist \in Options THEN <<>> ELSE <<Filelist>>)
    BY <1>1, ReadSteps
  <2>5. v[Len(v)] = Filelist
    BY <1>2 DEF Grows
  <2> HIDE DEF v
  <2> QED
    BY <2>1, <2>2, <2>3, <2>4, <2>5
<1>4. kept \o <<>> = kept /\ <<>> \o <<>> = <<>> /\ <<>> \o files = files
  BY Joined
<1>5. w \in Tokens /\ OptionsOf(w, none) = kept /\ ObjectsOf(w, lists) = files
  <2> HIDE DEF v
  <2>1. OptionsOf(w, none) = OptionsOf(v, none) \o <<>>
    BY <1>1, <1>2, <1>3, NameStep
  <2>2. ObjectsOf(w, lists) = ObjectsOf(v, lists) \o
            (IF Open(v, Takers)
             THEN IF v[Len(v)] # Filelist THEN <<>>
                  ELSE IF TempFile \in DOMAIN lists THEN lists[TempFile] ELSE <<TempFile>>
             ELSE IF TempFile \in Options THEN <<>> ELSE <<TempFile>>)
    BY <1>1, <1>2, ReadSteps
  <2>3. w \in Tokens
    BY <1>1, <1>2, Growing
  <2>4. OptionsOf(w, none) = kept \o <<>>
    BY <1>3, <1>4, <2>1
  <2>5. ObjectsOf(w, lists) = <<>> \o files
    BY <1>1, <1>3, <1>4, <2>2
  <2> QED
    BY <1>4, <2>3, <2>4, <2>5
<1>6. appendFilelist(TempFile, kept) = w
  <2>1. <<Filelist>> \o <<TempFile>> = <<Filelist, TempFile>> /\ <<Filelist>> \in Tokens /\ <<TempFile>> \in Tokens
    BY <1>1, Joined, TokensAndPairs
  <2>2. kept \o (<<Filelist>> \o <<TempFile>>) = (kept \o <<Filelist>>) \o <<TempFile>>
    BY <2>1, Joined
  <2>3. \A s \in Tokens, x \in STRING : s \o <<x>> = Append(s, x)
    <3> TAKE s \in Tokens, x \in STRING
    <3>1. s \in Tokens /\ <<>> \in Tokens
      BY Joined
    <3> QED
      BY <3>1, Concatenated
  <2>4. kept \o <<Filelist>> = v
    BY <1>1, <2>3
  <2> HIDE DEF v
  <2>5. v \o <<TempFile>> = w
    BY <1>1, <1>2, <2>3
  <2> QED
    BY <2>1, <2>2, <2>4, <2>5 DEF appendFilelist
<1> HIDE DEF v, w
<1> QED
  BY <1>5, <1>6

(* No token of the new line was not on the old one.                        *)
LEMMA BuiltLine ==
    ASSUME NEW line \in Tokens, NEW dropped, \A i \in DOMAIN line : line[i] \notin Lone,
           NEW new, new = appendFilelist(TempFile, OptionsOf(line, dropped))
    PROVE  \A i \in DOMAIN new : i < Len(new) => new[i] \notin Lone
<1> DEFINE ss == ReadOptions(line, dropped)
           kept == OptionsOf(line, dropped)
<1>1. Len(line) \in Nat /\ DOMAIN line = 1..Len(line)
  BY DEF Tokens
<1>2. ss \in Seq(Tokens) /\ DOMAIN ss = 1..Len(line)
  <2>1. \A k \in 1..Len(line) : <<line[k]>> \in Tokens
    BY TokensAndPairs DEF Tokens
  <2>2. <<>> \in Tokens
    BY DEF Tokens
  <2> QED
    BY <1>1, <2>1, <2>2 DEF ReadOptions
<1>3. kept \in Tokens
  <2>1. \A p \in DOMAIN Lists : Lists[p] \in Tokens
    BY TokenAssumption DEF Tokens
  <2> QED
    BY <2>1, ReadSteps, DriverAssumption
<1>4. Range(kept) = UNION {Range(ss[k]) : k \in DOMAIN ss}
  BY <1>2, FlattenFacts DEF Tokens, OptionsOf
<1>5. Range(<<>>) = {} /\ \A x : Range(<<x>>) = {x}
  <2>1. DOMAIN <<>> = {} /\ \A x : DOMAIN <<x>> = {1} /\ <<x>>[1] = x
    OBVIOUS
  <2> QED
    BY <2>1 DEF Range
<1>6. \A k \in 1..Len(line) : Range(ss[k]) \subseteq {line[k]}
  BY <1>5 DEF ReadOptions
<1>7. \A x \in Range(kept) : x \notin Lone
  BY <1>1, <1>2, <1>4, <1>6
<1>8. Filelist \notin Lone
  BY DriverAssumption
<1> HIDE DEF kept, ss
<1>9. /\ Len(kept) \in Nat /\ DOMAIN new = 1..(Len(kept) + 2) /\ Len(new) = Len(kept) + 2
      /\ \A i \in 1..Len(kept) : new[i] = kept[i]
      /\ new[Len(kept) + 1] = Filelist
  BY <1>3 DEF appendFilelist, Tokens, kept
<1>10. \A i \in 1..Len(kept) : kept[i] \in Range(kept)
  BY <1>3 DEF Range, Tokens
<1> QED
  BY <1>7, <1>8, <1>9, <1>10

(* What the real tool links is what the line stands for.                   *)
LEMMA FaithfulLink ==
    ASSUME NEW line, line = LinkStep!LinkerTokens, line \in Tokens, LinkStep!Meaningful,
           Range(Collected(line)) \subseteq Readable,
           NEW out \in Pipeline!Rewritings(Collected(line)),
           NEW built, built = [line |-> appendFilelist(TempFile,
                                            collectObjectLinkOpts(LinkStep!table, ParseArgs(line))),
                               list |-> out]
    PROVE  LinkStep!Faithful(built)
<1> DEFINE dropped == LinkStep!Dropped
           kept == OptionsOf(line, dropped)
           files == Names(out)
           lists == [p \in DOMAIN Lists \cup {TempFile} |-> IF p = TempFile THEN files ELSE Lists[p]]
           objects == Collected(line)
           before == ObjectsOf(line, Lists)
<1>1. SameObjects(line) /\ ~Open(line, Takers) /\ built.line = appendFilelist(TempFile, kept)
  BY Matching
<1>2. objects \in Tokens
  BY ParsedArguments, ObjectsAreTokens DEF Collected
<1>3. /\ files \in Tokens
      /\ \A f : Occurrences(files, f) = Occurrences(objects, f)
      /\ NoneCompiled(out) => files = objects
  <2> HIDE DEF objects
  <2>1. out \in Pipeline!Rewritings(objects)
    BY DEF objects
  <2> QED
    BY <1>2, <2>1, RewritingFacts
<1>4. /\ \A f : Occurrences(before, f) = Occurrences(objects, f)
      /\ LinkStep!table = "ld64" => before = objects
  <2> DEFINE parsed == ParseArgs(line)
             I == FlattenSeq(Inputs(parsed))
             L == FlattenSeq(Listed(parsed))
  <2>1. parsed \in Seq(ArgumentSet)
    BY ParsedArguments
  <2>2. CASE LinkStep!table = "ld64"
    <3>1. objects = FlattenSeq(Unskipped(parsed))
      BY <2>1, <2>2, CollectedParts DEF Collected
    <3> QED
      BY <1>1, <2>2, <3>1 DEF SameObjects
  <2>3. CASE LinkStep!table # "ld64"
    <3>1. objects = I \o L /\ I \in Tokens /\ L \in Tokens
      BY <2>1, <2>3, CollectedParts, PartsAreTokens DEF Collected
    <3>2. \A f : Occurrences(before, f) = Occurrences(I, f) + Occurrences(L, f)
      BY <1>1, <2>3 DEF SameObjects
    <3> HIDE DEF I, L
    <3>3. \A f : Occurrences(I \o L, f) = Occurrences(I, f) + Occurrences(L, f)
      BY <3>1, Concatenated
    <3> QED
      BY <2>3, <3>1, <3>2, <3>3
  <2> QED
    BY <2>2, <2>3
<1>5. kept \in Tokens
  <2>1. (\A p \in DOMAIN Lists : Lists[p] \in Tokens) /\ Filelist \in STRING
    BY TokenAssumption DEF Tokens
  <2> QED
    BY <2>1, ReadSteps
<1>6. \A none : none = {} =>
          built.line \in Tokens /\ OptionsOf(built.line, none) = kept /\ ObjectsOf(built.line, lists) = files
  <2>1. \A p \in DOMAIN lists : lists[p] \in Tokens
    BY <1>3, TokenAssumption DEF Tokens
  <2>2. ReadsBack(line, dropped, lists)
    <3> HIDE DEF lists
    <3> QED
      BY <2>1, ReadingBack, TakerFacts
  <2>3. ~Open(kept, Takers) /\ (\A none : none = {} => OptionsOf(kept, none) = kept) /\ ObjectsOf(kept, lists) = <<>>
    BY <1>1, <2>2 DEF ReadsBack
  <2>4. lists = NewLists(files)
    BY DEF NewLists
  <2>5. TAKE none
  <2>6. SUFFICES ASSUME none = {}
                 PROVE  built.line \in Tokens /\ OptionsOf(built.line, none) = kept
                        /\ ObjectsOf(built.line, lists) = files
    OBVIOUS
  <2> DEFINE new == appendFilelist(TempFile, kept)
  <2> HIDE DEF kept, files, lists
  <2>7. new \in Tokens /\ OptionsOf(new, none) = kept /\ ObjectsOf(new, lists) = files
    BY <1>3, <1>5, <2>3, <2>4, <2>6, NewLine
  <2> QED
    BY <1>1, <2>7
<1>7. built.line \in Tokens /\ ObjectsOf(built.line, lists) = files
  BY <1>6
<1>8. OptionsOf(built.line, {}) = kept
  BY <1>6
<1>9. ASSUME NEW s, NEW f PROVE LinkStep!Count(s, f) = Occurrences(s, f)
  BY SameCardinality DEF LinkStep!Count, Occurrences
<1>10. built.list = out
  OBVIOUS
<1>11. LinkStep!table = "ld64" /\ (\A k \in DOMAIN built.list : ~built.list[k].compiled) => files = before
  BY <1>3, <1>4, <1>10 DEF NoneCompiled
<1>16. \A i \in DOMAIN line : line[i] \notin Lone
  BY PlainLine DEF LinkStep!Meaningful
<1>17. \A i \in DOMAIN built.line : i < Len(built.line) => built.line[i] \notin Lone
  BY <1>1, <1>5, <1>16, BuiltLine
<1>12. LinkStep!OptionsOf(built.line, {}) = LinkStep!OptionsOf(LinkStep!LinkerTokens, LinkStep!Dropped)
  <2>1. LinkStep!OptionsOf(built.line, {}) = OptionsOf(built.line, {})
    BY <1>7, <1>17, SameReading
  <2>2. LinkStep!OptionsOf(line, dropped) = kept
    BY <1>16, SameReading
  <2> QED
    BY <1>8, <2>1, <2>2
<1>13. LinkStep!ObjectsOf(LinkStep!LinkerTokens, Lists) = before
  BY <1>16, SameReading
<1>14. LinkStep!ObjectsOf(built.line,
           [p \in DOMAIN Lists \cup {LinkStep!TempFile} |->
               IF p = LinkStep!TempFile THEN [k \in DOMAIN built.list |-> built.list[k].object]
               ELSE Lists[p]]) = files
  <2>1. LinkStep!TempFile = TempFile
    BY DEF LinkStep!TempFile, TempFile
  <2>2. files = [k \in DOMAIN built.list |-> built.list[k].object]
    BY <1>10 DEF Names
  <2>3. LinkStep!ObjectsOf(built.line, lists) = files
    <3> HIDE DEF lists, files
    <3> QED
      BY <1>7, <1>17, SameReading
  <2> QED
    BY <2>1, <2>2, <2>3
<1> HIDE DEF files, before, objects
<1>15. \A f : LinkStep!Count(before, f) = LinkStep!Count(files, f)
  BY <1>3, <1>4, <1>9
<1> QED
  BY <1>11, <1>12, <1>13, <1>14, <1>15, Zenon DEF LinkStep!Faithful

-----------------------------------------------------------------------------
(* The split of the command line is what its reader sees in it.            *)

Line == LinkStep!LinkerTokens

LEMMA SplitMeaning ==
    ASSUME tokens \in Tokens
    PROVE  /\ filterMullOptions(tokens).linkerArgs = Line /\ Line \in Tokens
           /\ GetLinkerOptTable(filterMullOptions(tokens).mullArgs) = LinkStep!table
           /\ \A x : x \in Range(filterMullOptions(tokens).mullArgs) <=> x \in LinkStep!MullOptions
           /\ ReadsPastEnd(tokens) <=> LinkStep!IsValue(tokens, {"-Xmull"}, Len(tokens) + 1)
<1> DEFINE n == Len(tokens)
           value == Taken(tokens, {Xmull})
           V(k) == LinkStep!IsValue(tokens, {"-Xmull"}, k)
<1>1. /\ n \in Nat /\ DOMAIN tokens = 1..n /\ \A k \in 1..n : tokens[k] \in STRING
  BY DEF Tokens
<1>2. value = [k \in 1..n |-> V(k)]
  BY TakenIsValue DEF Tokens, Xmull
<1>3. \A k \in 1..n : value[k] = V(k)
  BY <1>2
<1>4. filterMullOptions(tokens).linkerArgs = Line
  <2>1. filterMullOptions(tokens).linkerArgs =
            FlattenSeq([k \in DOMAIN tokens |-> IF value[k] \/ tokens[k] = Xmull THEN <<>> ELSE <<tokens[k]>>])
    BY DEF filterMullOptions, Collect
  <2>2. Line = LinkStep!FlattenSeq([k \in DOMAIN tokens |->
                   IF tokens[k] # "-Xmull" /\ ~V(k) THEN <<tokens[k]>> ELSE <<>>])
    BY DEF Line, LinkStep!LinkerTokens, LinkStep!At
  <2>3. \A s : LinkStep!FlattenSeq(s) = FlattenSeq(s)
    BY DEF LinkStep!FlattenSeq, FlattenSeq
  <2> HIDE DEF value, V
  <2>4. [k \in DOMAIN tokens |-> IF value[k] \/ tokens[k] = Xmull THEN <<>> ELSE <<tokens[k]>>] =
        [k \in DOMAIN tokens |-> IF tokens[k] # "-Xmull" /\ ~V(k) THEN <<tokens[k]>> ELSE <<>>]
    BY <1>1, <1>3 DEF Xmull
  <2> QED
    BY <2>1, <2>2, <2>3, <2>4
<1>5. /\ GetLinkerOptTable(filterMullOptions(tokens).mullArgs) = LinkStep!table
      /\ \A x : x \in Range(filterMullOptions(tokens).mullArgs) <=> x \in LinkStep!MullOptions
  <2> DEFINE mine == filterMullOptions(tokens).mullArgs
             ss == [k \in DOMAIN tokens |-> IF value[k] THEN <<tokens[k]>> ELSE <<>>]
  <2>1. mine = FlattenSeq(ss)
    BY DEF filterMullOptions, Collect
  <2>2. LinkStep!MullOptions = {tokens[i] : i \in {k \in 1..n : V(k)}}
    BY <1>1 DEF LinkStep!MullOptions
  <2> HIDE DEF value, V
  <2>3. \A k \in 1..n : ss[k] = IF V(k) THEN <<tokens[k]>> ELSE <<>>
    BY <1>1, <1>3
  <2>4. DOMAIN ss = 1..n /\ ss \in Seq(Seq(STRING))
    <3>1. ASSUME NEW B PROVE <<>> \in Seq(B) /\ \A x \in B : <<x>> \in Seq(B)
      OBVIOUS
    <3>2. \A k \in 1..n : (IF value[k] THEN <<tokens[k]>> ELSE <<>>) \in Seq(STRING)
      BY <1>1, <3>1
    <3> QED
      BY <1>1, <3>2
  <2> HIDE DEF ss
  <2>5. Range(FlattenSeq(ss)) = UNION {Range(ss[k]) : k \in DOMAIN ss}
    BY <2>4, FlattenFacts
  <2>6. \A k \in 1..n : Range(ss[k]) = IF V(k) THEN {tokens[k]} ELSE {}
    <3>1. Range(<<>>) = {} /\ \A x : Range(<<x>>) = {x}
      <4>1. DOMAIN <<>> = {} /\ \A x : DOMAIN <<x>> = {1} /\ <<x>>[1] = x
        OBVIOUS
      <4> QED
        BY <4>1 DEF Range
    <3> QED
      BY <2>3, <3>1
  <2>7. \A x : x \in Range(mine) <=> x \in LinkStep!MullOptions
    BY <2>1, <2>2, <2>4, <2>5, <2>6
  <2>8. ASSUME NEW m, \A x : x \in Range(m) <=> x \in LinkStep!MullOptions
        PROVE  GetLinkerOptTable(m) = LinkStep!table
    BY <2>8 DEF GetLinkerOptTable, LinkStep!table
  <2> QED
    BY <2>7, <2>8
<1>6. ReadsPastEnd(tokens) <=> V(n + 1)
  <2>1. CASE n = 0
    <3>1. n + 1 = 1 /\ tokens = <<>>
      BY <2>1 DEF Tokens
    <3> HIDE DEF n
    <3> QED
      BY <3>1, ValueSteps DEF ReadsPastEnd
  <2>2. CASE n # 0
    <3>1. n \in Nat \ {0} /\ n \in 1..n /\ tokens # <<>> /\ Last(tokens) = tokens[n]
      BY <1>1, <2>2 DEF Last
    <3>2. V(n + 1) <=> tokens[n] \in {"-Xmull"} /\ ~V(n)
      BY <3>1, ValueSteps
    <3>3. value[Len(tokens)] = V(n)
      BY <1>3, <3>1
    <3> HIDE DEF value, V
    <3> QED
      BY <3>1, <3>2, <3>3 DEF ReadsPastEnd, Xmull, value
  <2> QED
    BY <2>1, <2>2
<1>7. Line \in Tokens
  BY <1>4, SplitIsTokens
<1> QED
  BY <1>4, <1>5, <1>6, <1>7

(* The help flag is one of the tokens.                                     *)
LEMMA HelpFlag ==
    ASSUME NEW line \in Tokens, hasHelpFlag(ParseArgs(line))
    PROVE  "-help" \in Range(line)
<1> DEFINE ss == ArgumentParts(line)
<1>1. /\ Len(line) \in Nat /\ DOMAIN line = 1..Len(line)
      /\ ParseArgs(line) = FlattenSeq(ss) /\ ss \in [1..Len(line) -> Seq(ArgumentSet)]
  BY ParsedParts DEF Tokens
<1>2. <<"-help">> \in Range(FlattenSeq(ss))
  BY <1>1 DEF hasHelpFlag, Range
<1>3. PICK k \in 1..Len(line) : <<"-help">> \in Range(ss[k])
  <2> HIDE DEF ss
  <2>1. ss \in Seq(Seq(ArgumentSet)) /\ DOMAIN ss = 1..Len(line)
    BY <1>1
  <2>2. Range(FlattenSeq(ss)) = UNION {Range(ss[k]) : k \in DOMAIN ss}
    BY <2>1, FlattenFacts
  <2> QED
    BY <1>2, <2>1, <2>2
<1>4. Range(<<>>) = {} /\ \A x : Range(<<x>>) = {x}
  <2>1. DOMAIN <<>> = {} /\ \A x : DOMAIN <<x>> = {1} /\ <<x>>[1] = x
    OBVIOUS
  <2> QED
    BY <2>1 DEF Range
<1>5. ss[k] = IF LinkStep!IsValue(line, Separate, k) THEN << <<line[k-1], line[k]>> >>
              ELSE IF line[k] \in Separate THEN <<>> ELSE << <<line[k]>> >>
  BY DEF ArgumentParts
<1>6. <<"-help">> = <<line[k-1], line[k]>> \/ <<"-help">> = <<line[k]>>
  BY <1>3, <1>4, <1>5
<1>7. line[k] = "-help"
  <2>1. \A x, y, z : <<x>> # <<y, z>> /\ (<<x>> = <<y>> => x = y)
    OBVIOUS
  <2> QED
    BY <1>6, <2>1
<1> QED
  BY <1>1, <1>7 DEF Range

(* The loops run past the end on malformed lines only.                     *)
LEMMA PastEnd ==
    ASSUME Line \in Tokens, LinkStep!Parsable, SkipsPastEnd(LinkStep!table, ParseArgs(Line))
    PROVE  FALSE
<1> DEFINE list == ParseArgs(Line)
           T == {<<AddAstPath>>}
           n == Len(list)
<1>1. /\ LinkStep!table = "ld64" /\ list # <<>> /\ Last(list) = <<AddAstPath>>
      /\ ~Skipped(list)[n]
  BY DEF SkipsPastEnd
<1>2. list \in Seq(ArgumentSet)
  BY ParsedArguments
<1>3. SkipOpen(list)
  <2> HIDE DEF list
  <2>1. n \in Nat \ {0} /\ n \in 1..n /\ Last(list) = list[n]
    BY <1>1, <1>2 DEF Last
  <2>2. Skipped(list) = [k \in 1..n |-> LinkStep!IsValue(list, T, k)]
    BY <1>2, TakenIsValue DEF Skipped
  <2>3. ~LinkStep!IsValue(list, T, n)
    BY <1>1, <2>1, <2>2
  <2>4. LinkStep!IsValue(list, T, n + 1) <=> list[n] \in T /\ ~LinkStep!IsValue(list, T, n)
    BY <2>1, ValueSteps
  <2> QED
    BY <1>1, <2>1, <2>3, <2>4 DEF SkipOpen, Open
<1>4. LinkStep!Unambiguous
  BY <1>1 DEF LinkStep!Parsable
<1>5. Len(Line) \in Nat /\ SubSeq(Line, 1, Len(Line)) = Line
  BY PrefixFacts
<1>6. KeepsPace(SubSeq(Line, 1, Len(Line)))
  BY <1>4, <1>5, KeepingPace DEF Line
<1>7. Open(Line, Takers) /\ Line[Len(Line)] = AddAstPath
  BY <1>1, <1>3, <1>5, <1>6 DEF KeepsPace
<1> QED
  <2>1. Len(Line) + 1 \in 1..(Len(Line) + 1)
    BY <1>5
  <2>2. LinkStep!IsValue(Line, LinkStep!TakesOf, Len(Line) + 1) = LinkStep!IsValue(Line, Takers, Len(Line) + 1)
    BY <1>4, <2>1, PlainLine DEF Line
  <2> QED
    BY <1>1, <1>7, <2>2 DEF LinkStep!Parsable, Open, Line, AddAstPath

-----------------------------------------------------------------------------
(* Refinement.                                                             *)

(* What each phase has made of the command line.                           *)
Parsed ==
    pc \notin {"split", "ended"} =>
        table = LinkStep!table /\ table # "none" /\ args = ParseArgs(Line)
Gathered ==
    pc \in {"pipeline", "write", "link", "finish"} \/ (pc = "find" /\ tool = "mull-ld") =>
        inputObjects = Collected(Line) /\ Range(inputObjects) \subseteq Readable
Rewritten ==
    pc \in {"write", "link", "finish"} => output \in Pipeline!Rewritings(inputObjects)
Written ==
    pc \in {"link", "finish"} /\ ~ioError => filelist = output
Built ==
    pc = "finish" /\ result = "Passed" =>
        linked = [line |-> appendFilelist(TempFile, collectObjectLinkOpts(table, args)),
                  list |-> filelist]

DataInv == Parsed /\ Gathered /\ Rewritten /\ Written /\ Built

LEMMA SameLine ==
    ASSUME UNCHANGED world
    PROVE  Line' = Line /\ (LinkStep!table)' = LinkStep!table /\ tool' = tool
           /\ (Collected(Line))' = Collected(Line)
<1>1. tool' = tool /\ tokens' = tokens
  BY DEF world
<1>2. Line' = Line
  BY <1>1 DEF Line, LinkStep!LinkerTokens, LinkStep!At
<1>3. (LinkStep!table)' = LinkStep!table
  BY <1>1 DEF LinkStep!table, LinkStep!MullOptions
<1>4. (Collected(Line))' = Collected(Line)
  BY <1>2, <1>3 DEF Collected
<1> QED
  BY <1>1, <1>2, <1>3, <1>4

LEMMA NextPhase ==
    ASSUME GoOn, tool \in {"mull-ld", "mull-libtool"}
    PROVE  /\ pc = "split" => pc' = IF tool = "mull-ld" THEN "collect" ELSE "find"
           /\ pc = "collect" => pc' = IF tool = "mull-ld" THEN "find" ELSE "pipeline"
           /\ pc = "find" => pc' = IF tool = "mull-ld" THEN "pipeline" ELSE "collect"
           /\ pc = "pipeline" => pc' = "write"
           /\ pc = "write" => pc' = "link"
           /\ pc = "link" => pc' = "finish"
<1>1. PICK k \in {1, 2, 3, 4, 5, 6, 7} : Phases[k] = pc /\ pc' = Phases[k+1]
  BY PhaseFacts DEF GoOn
<1>2. /\ Phases[2] = IF tool = "mull-ld" THEN "collect" ELSE "find"
      /\ Phases[3] = IF tool = "mull-ld" THEN "find" ELSE "collect"
  BY DEF Phases
<1> QED
  BY <1>1, <1>2, PhaseFacts

LEMMA DataInitially == Init => DataInv
  BY DEF Init, DataInv, Parsed, Gathered, Rewritten, Written, Built

LEMMA EndedKeepsData == ASSUME pc' = "ended" PROVE DataInv'
  BY DEF DataInv, Parsed, Gathered, Rewritten, Written, Built

LEMMA DataStep == IInv /\ DataInv /\ [Next]_vars => DataInv'
<1> SUFFICES ASSUME IInv, DataInv, [Next]_vars PROVE DataInv'
  OBVIOUS
<1>0. Parsed /\ Gathered /\ Rewritten /\ Written /\ Built
      /\ tool \in {"mull-ld", "mull-libtool"} /\ tokens \in Tokens
  BY DEF DataInv, IInv, WorldType
<1>1. CASE UNCHANGED vars
  <2>1. UNCHANGED world /\ UNCHANGED <<pc, table, args, inputObjects, output, filelist, ioError, result, linked>>
    BY <1>1 DEF vars, options, link
  <2> QED
    BY <1>0, <2>1, SameLine DEF DataInv, Parsed, Gathered, Rewritten, Written, Built
<1>2. CASE SplitArguments
  <2> DEFINE split == filterMullOptions(tokens)
             end == EarlyEnd(split.mullArgs, GetLinkerOptTable(split.mullArgs), ParseArgs(split.linkerArgs))
  <2>1. /\ pc = "split" /\ UNCHANGED world
        /\ table' = GetLinkerOptTable(split.mullArgs) /\ args' = ParseArgs(split.linkerArgs)
        /\ (end = "running" /\ GoOn) \/ pc' = "ended"
    BY <1>2 DEF SplitArguments, Exit
  <2>2. CASE end = "running" /\ GoOn
    <3>1. pc' \in {"collect", "find"} /\ (pc' = "find" => tool # "mull-ld")
      BY <1>0, <2>1, <2>2, NextPhase
    <3>2. table' = LinkStep!table /\ args' = ParseArgs(Line)
      BY <1>0, <2>1, SplitMeaning
    <3>3. table' # "none"
      BY <2>1, <2>2 DEF EarlyEnd
    <3>4. Parsed'
      BY <2>1, <3>2, <3>3, SameLine DEF Parsed
    <3> QED
      BY <2>1, <3>1, <3>4, SameLine DEF DataInv, Gathered, Rewritten, Written, Built
  <2> QED
    BY <2>1, <2>2, EndedKeepsData
<1>3. CASE CollectObjects
  <2>1. /\ pc = "collect" /\ UNCHANGED world /\ UNCHANGED <<table, args>>
        /\ inputObjects' = collectObjectFiles(table, args)
        /\ \/ GoOn /\ Range(collectObjectFiles(table, args)) \subseteq Readable
           \/ pc' = "ended"
    BY <1>3 DEF CollectObjects, Exit, options
  <2>2. CASE GoOn /\ Range(collectObjectFiles(table, args)) \subseteq Readable
    <3>1. pc' \in {"find", "pipeline"}
      BY <1>0, <2>1, <2>2, NextPhase
    <3>2. table = LinkStep!table /\ table # "none" /\ args = ParseArgs(Line)
      BY <1>0, <2>1 DEF Parsed
    <3>3. Parsed'
      BY <2>1, <3>2, SameLine DEF Parsed
    <3>4. inputObjects' = Collected(Line) /\ Range(inputObjects') \subseteq Readable
      BY <2>1, <2>2, <3>2 DEF Collected
    <3>5. Gathered'
      BY <2>1, <3>4, SameLine DEF Gathered
    <3> QED
      BY <3>1, <3>3, <3>5 DEF DataInv, Rewritten, Written, Built
  <2> QED
    BY <2>1, <2>2, EndedKeepsData
<1>4. CASE FindLinker
  <2>1. /\ pc = "find" /\ UNCHANGED world /\ UNCHANGED <<table, args, inputObjects>>
        /\ GoOn \/ pc' = "ended"
    BY <1>4 DEF FindLinker, TakePath, Exit
  <2>2. CASE GoOn
    <3>1. pc' \in {"collect", "pipeline"} /\ (pc' = "pipeline" => tool = "mull-ld")
      BY <1>0, <2>1, <2>2, NextPhase
    <3>2. Parsed'
      BY <1>0, <2>1, SameLine DEF Parsed
    <3>3. Gathered'
      BY <1>0, <2>1, <3>1, SameLine DEF Gathered
    <3> QED
      BY <3>1, <3>2, <3>3 DEF DataInv, Rewritten, Written, Built
  <2> QED
    BY <2>1, <2>2, EndedKeepsData
<1>5. CASE RunPipeline
  <2>1. /\ pc = "pipeline" /\ UNCHANGED world /\ UNCHANGED <<table, args>>
        /\ (GoOn /\ Pipeline!Return) \/ pc' = "ended"
    BY <1>5 DEF RunPipeline, Exit, options
  <2>2. CASE GoOn /\ Pipeline!Return
    <3>1. pc' = "write"
      BY <1>0, <2>1, <2>2, NextPhase
    <3>2. inputObjects' = inputObjects /\ output' \in Pipeline!Rewritings(inputObjects)
      BY <2>2 DEF Pipeline!Return
    <3>3. Parsed'
      BY <1>0, <2>1, SameLine DEF Parsed
    <3>4. Gathered'
      BY <1>0, <2>1, <3>1, <3>2, SameLine DEF Gathered
    <3>5. Rewritten'
      BY <3>2 DEF Rewritten
    <3> QED
      BY <3>1, <3>3, <3>4, <3>5 DEF DataInv, Written, Built
  <2> QED
    BY <2>1, <2>2, EndedKeepsData
<1>6. CASE WriteFilelist
  <2>1. /\ pc = "write" /\ GoOn /\ UNCHANGED world /\ UNCHANGED <<table, args, inputObjects, output>>
        /\ filelist' = output \/ ioError' = TRUE
    BY <1>6 DEF WriteFilelist, options
  <2>2. pc' = "link"
    BY <1>0, <2>1, NextPhase
  <2>3. Parsed' /\ Gathered' /\ Rewritten'
    BY <1>0, <2>1, <2>2, SameLine DEF Parsed, Gathered, Rewritten
  <2> QED
    BY <2>1, <2>2, <2>3 DEF DataInv, Written, Built
<1>7. CASE RunLinker
  <2>1. /\ pc = "link" /\ GoOn /\ UNCHANGED world
        /\ UNCHANGED <<table, args, inputObjects, output, filelist, ioError>>
        /\ result' = "Passed" =>
               linked' = [line |-> appendFilelist(TempFile, collectObjectLinkOpts(table, args)),
                          list |-> filelist]
    BY <1>7 DEF RunLinker, LinkCommand, options
  <2>2. pc' = "finish"
    BY <1>0, <2>1, NextPhase
  <2>3. Parsed' /\ Gathered' /\ Rewritten' /\ Written'
    BY <1>0, <2>1, <2>2, SameLine DEF Parsed, Gathered, Rewritten, Written
  <2>4. Built'
    BY <2>1 DEF Built
  <2> QED
    BY <2>3, <2>4 DEF DataInv
<1>8. CASE FinishLink
  <2>1. pc' = "ended"
    BY <1>8 DEF FinishLink, Exit
  <2> QED
    BY <2>1, EndedKeepsData
<1> QED
  BY <1>1, <1>2, <1>3, <1>4, <1>5, <1>6, <1>7, <1>8 DEF Next, Step, Idle

LEMMA StepInitially == Init => LinkStep!Init
  BY DEF Init, LinkStep!Init, LinkStep!Nothing, Nothing

(* The ways a process may end that leave nothing behind.                   *)
LEMMA Failing ==
    ASSUME ControlType, pc # "ended", UNCHANGED world, status' = "failure"
    PROVE  LinkStep!Fail
  BY DEF ControlType, LinkStep!Fail, LinkStep!vars, world

LEMMA Crashing ==
    ASSUME ControlType, pc # "ended", UNCHANGED world, status' = "undefined",
           ~LinkStep!Parsable \/ printed = "nothing"
    PROVE  LinkStep!Crash
  BY DEF ControlType, LinkStep!Crash, world

LEMMA GoingOn ==
    ASSUME ControlType, pc # "ended", UNCHANGED <<world, status>>
    PROVE  UNCHANGED LinkStep!vars
  BY DEF ControlType, LinkStep!vars, world

LEMMA RefiningStep == IInv /\ DataInv /\ [Next]_vars => [LinkStep!Next]_(LinkStep!vars)
<1> SUFFICES ASSUME IInv, DataInv, [Next]_vars PROVE LinkStep!Next \/ UNCHANGED LinkStep!vars
  OBVIOUS
<1>0. /\ Parsed /\ Gathered /\ Rewritten /\ Written /\ Built
      /\ ControlType /\ tokens \in Tokens /\ EmptyInv
  BY DEF DataInv, IInv, WorldType
<1>1. CASE UNCHANGED vars
  <2>1. UNCHANGED <<tool, tokens, printed, status, linked>>
    BY <1>1 DEF vars, world, link
  <2> QED
    BY <2>1 DEF LinkStep!vars
<1>2. CASE SplitArguments
  <2> DEFINE split == filterMullOptions(tokens)
             end == EarlyEnd(split.mullArgs, GetLinkerOptTable(split.mullArgs), ParseArgs(split.linkerArgs))
  <2>1. /\ pc = "split" /\ UNCHANGED <<world, link>>
        /\ UNCHANGED status \/ (status' = end /\ end # "running")
    BY <1>2 DEF SplitArguments, Exit
  <2>2. end \in {"undefined", "failure", "success", "running"}
    BY DEF EarlyEnd
  <2>3. CASE UNCHANGED status
    BY <1>0, <2>1, <2>3, GoingOn
  <2>4. CASE status' = end /\ end = "failure"
    BY <1>0, <2>1, <2>4, Failing DEF LinkStep!Next
  <2>5. CASE status' = end /\ end = "undefined"
    <3>1. ReadsPastEnd(tokens) \/ GetLinkerOptTable(split.mullArgs) = "none"
      BY <2>5 DEF EarlyEnd
    <3>2. ~LinkStep!Parsable
      BY <1>0, <3>1, SplitMeaning DEF LinkStep!Parsable
    <3> HIDE DEF end
    <3> QED
      BY <1>0, <2>1, <2>5, <3>2, Crashing DEF LinkStep!Next
  <2>6. CASE status' = end /\ end = "success"
    <3>1. hasHelpFlag(ParseArgs(split.linkerArgs)) \/ "--help" \in Range(split.mullArgs)
      BY <2>6 DEF EarlyEnd
    <3>2. "-help" \in Range(Line) \/ "--help" \in LinkStep!MullOptions
      BY <1>0, <3>1, SplitMeaning, HelpFlag
    <3>3. "-help" \in LinkStep!Range(LinkStep!LinkerTokens) \/ "--help" \in LinkStep!MullOptions
      BY <3>2 DEF Line, LinkStep!Range, Range
    <3>4. status = "running" /\ linked = Nothing
      BY <1>0, <2>1 DEF ControlType, EmptyInv, Before
    <3>5. UNCHANGED <<tool, tokens, printed, linked>>
      BY <2>1 DEF world, link
    <3> HIDE DEF end
    <3>6. LinkStep!Help
      BY <2>6, <3>3, <3>4, <3>5 DEF LinkStep!Help
    <3> QED
      BY <3>6 DEF LinkStep!Next
  <2> HIDE DEF end
  <2> QED
    BY <2>1, <2>2, <2>3, <2>4, <2>5, <2>6
<1>3. CASE CollectObjects
  <2>1. /\ pc = "collect" /\ UNCHANGED world
        /\ \/ UNCHANGED status
           \/ status' = "failure"
           \/ status' = "undefined" /\ SkipsPastEnd(table, args)
    BY <1>3 DEF CollectObjects, Exit
  <2>2. CASE status' = "undefined" /\ SkipsPastEnd(table, args)
    <3>1. table = LinkStep!table /\ args = ParseArgs(Line) /\ Line \in Tokens
      BY <1>0, <2>1, SplitMeaning DEF Parsed
    <3>2. ~LinkStep!Parsable
      BY <2>2, <3>1, PastEnd
    <3> QED
      BY <1>0, <2>1, <2>2, <3>2, Crashing DEF LinkStep!Next
  <2> QED
    BY <1>0, <2>1, <2>2, GoingOn, Failing DEF LinkStep!Next
<1>4. CASE FindLinker \/ RunPipeline \/ WriteFilelist \/ RunLinker
  <2>1. /\ pc # "ended" /\ UNCHANGED world
        /\ \/ UNCHANGED status
           \/ status' = "failure"
           \/ status' = "undefined" /\ printed = "nothing"
    BY <1>4 DEF FindLinker, TakePath, RunPipeline, WriteFilelist, RunLinker, Exit
  <2> QED
    BY <1>0, <2>1, GoingOn, Failing, Crashing DEF LinkStep!Next
<1>5. CASE FinishLink
  <2>1. /\ pc = "finish" /\ UNCHANGED <<world, link>> /\ status = "running"
        /\ \/ status' = "failure"
           \/ status' = "success" /\ result = "Passed" /\ ~ioError
    BY <1>0, <1>5 DEF FinishLink, Exit, ControlType
  <2>2. CASE status' = "failure"
    BY <1>0, <2>1, <2>2, Failing DEF LinkStep!Next
  <2>3. CASE status' = "success" /\ result = "Passed" /\ ~ioError
    <3>1. /\ table = LinkStep!table /\ args = ParseArgs(Line) /\ Line \in Tokens
          /\ inputObjects = Collected(Line) /\ Range(inputObjects) \subseteq Readable
          /\ output \in Pipeline!Rewritings(inputObjects) /\ filelist = output
          /\ linked = [line |-> appendFilelist(TempFile, collectObjectLinkOpts(table, args)),
                       list |-> filelist]
      BY <1>0, <2>1, <2>3, SplitMeaning DEF Parsed, Gathered, Rewritten, Written, Built
    <3>2. LinkStep!Meaningful => LinkStep!Faithful(linked)
      BY <3>1, FaithfulLink DEF Line
    <3>3. linked' = linked /\ UNCHANGED <<tool, tokens, printed>>
      BY <2>1 DEF link, world
    <3>4. LinkStep!Succeed
      BY <2>1, <2>3, <3>2, <3>3 DEF LinkStep!Succeed
    <3> QED
      BY <3>4 DEF LinkStep!Next
  <2> QED
    BY <2>1, <2>2, <2>3
<1> QED
  BY <1>1, <1>2, <1>3, <1>4, <1>5 DEF Next, Step, Idle

(* For all command lines and tables of options a process that exits with   *)
(* status 0 has had the real tool link the objects of its command line     *)
(* with its options, and undefined behaviour is met on malformed command   *)
(* lines only.                                                             *)
THEOREM Refinement == Spec => ImplementsLinkStep
<1>1. Spec => [](IInv /\ DataInv)
  <2>1. Init => IInv /\ DataInv
    BY Initially, DataInitially
  <2>2. IInv /\ DataInv /\ [Next]_vars => (IInv /\ DataInv)'
    BY IInvStep, DataStep
  <2> QED
    BY <2>1, <2>2, PTL DEF Spec
<1> QED
  BY <1>1, StepInitially, RefiningStep, PTL DEF Spec, ImplementsLinkStep, LinkStep!Spec

=============================================================================
