-------------------------- MODULE MCMutationPipeline --------------------------
(***************************************************************************)
(* Model-checking instance of the pipeline: links of native objects,       *)
(* objects whose bitcode cannot be loaded, and up to two bitcode objects,  *)
(* with functions of none, one or two mutation points.                     *)
(***************************************************************************)
EXTENDS MutationPipeline

Native     == [kind |-> "unreadable", functions |-> <<>>]
Unloadable == [kind |-> "unloadable", functions |-> <<>>]
Code(fs)   == [kind |-> "bitcode", functions |-> fs]

MCPrograms ==
    {<<>>,
     <<Native, Unloadable>>,
     <<Code(<<2>>), Native, Code(<<1>>)>>,
     <<Unloadable, Code(<<1, 1>>), Code(<<1>>)>>,
     <<Code(<<0>>), Code(<<2>>)>>,
     <<Code(<<1, 1>>), Native, Code(<<2>>), Unloadable>>}
=============================================================================
