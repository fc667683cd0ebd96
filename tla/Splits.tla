------------------------------- MODULE Splits -------------------------------
(***************************************************************************)
(* str::split of the standard library, on sequences of any kind: the parts *)
(* between the separators, of which the first and the last may be empty.   *)
(***************************************************************************)
EXTENDS SequencesExt

Split(seq, separator) ==
    FoldLeft(LAMBDA parts, e : IF e = separator THEN Append(parts, <<>>)
                               ELSE [parts EXCEPT ![Len(parts)] = Append(@, e)],
             << <<>> >>, seq)
=============================================================================
