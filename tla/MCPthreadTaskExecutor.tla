------------------------ MODULE MCPthreadTaskExecutor ------------------------
(***************************************************************************)
(* Model-checking instance of the executor: every input of up to MaxIn     *)
(* items, every number of tasks up to MaxTasks, every set of items that    *)
(* yield a result and every partition of the input into batches.           *)
(***************************************************************************)
EXTENDS PthreadTaskExecutor
=============================================================================
