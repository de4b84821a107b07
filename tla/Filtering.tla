------------------------------- MODULE Filtering -------------------------------
(***************************************************************************)
(* Lists from which some elements are dropped.                             *)
(***************************************************************************)
EXTENDS Sequences, SequencesExt

(* The elements of s that are in S, in the order of s.                     *)
Keep(s, S) == FlattenSeq([k \in DOMAIN s |-> IF s[k] \in S THEN <<s[k]>> ELSE <<>>])
=============================================================================
