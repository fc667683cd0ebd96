-------------------------------- MODULE Kept --------------------------------
(***************************************************************************)
(* Vec::retain and Iterator::filter of the standard library: the elements  *)
(* of a sequence that are in a set, in their order. It is a fold, where    *)
(* SelectSeq is recursive, so that FoldLemmas can prove what it does.      *)
(***************************************************************************)
EXTENDS SequencesExt

\* One element after the other.
Kept(seq, S) == FoldLeft(LAMBDA kept, e : IF e \in S THEN Append(kept, e) ELSE kept, <<>>, seq)
=============================================================================
