-------------------------- MODULE CommandLineProofs --------------------------
(***************************************************************************)
(* Proofs about CommandLine, for any lines, and about VirtualFS, for any   *)
(* paths, tools and views.                                                 *)
(*   Lines: the inductive invariant Inv, and with it that the parts of a   *)
(* line make the line, that no argument is lost, that the tokens follow    *)
(* the quoting (by Reading, which follows the loop of tokenize() symbol by *)
(* symbol), and that a path means what is written.                         *)
(*   Paths: links never chain and are as good as their targets, and no     *)
(* tool changes anything by a path, one that was parsed from a line        *)
(* included.                                                               *)
(*   What the folds over symbols, tokens, words and names compute is       *)
(* followed one element at a time by the lemmas named ...Steps, along the  *)
(* lines of FoldLemmas.                                                    *)
(***************************************************************************)
EXTENDS CommandLine, VirtualFS, FoldLemmas, SequenceTheorems, FiniteSetTheorems

-----------------------------------------------------------------------------
\* The first n of a sequence.
Initial(seq, n) == SubSeq(seq, 1, n)

\* They grow by one.
LEMMA InitialGrows ==
    ASSUME NEW R, NEW seq \in Seq(R)
    PROVE  /\ Initial(seq, 0) = <<>>
           /\ Initial(seq, Len(seq)) = seq
           /\ \A n \in 0..Len(seq) : Initial(seq, n) \in Seq(R) /\ Len(Initial(seq, n)) = n
           /\ \A n \in 0..(Len(seq) - 1) :
                 /\ seq[n + 1] \in R
                 /\ Initial(seq, n + 1) = Append(Initial(seq, n), seq[n + 1])
<1>1. Initial(seq, 0) = <<>> /\ Initial(seq, Len(seq)) = seq
  BY DEF Initial
<1>2. ASSUME NEW n \in 0..Len(seq)
      PROVE  Initial(seq, n) \in Seq(R) /\ Len(Initial(seq, n)) = n
  BY DEF Initial
<1>3. ASSUME NEW n \in 0..(Len(seq) - 1)
      PROVE  /\ seq[n + 1] \in R
             /\ Initial(seq, n + 1) = Append(Initial(seq, n), seq[n + 1])
  BY DEF Initial
<1>. QED  BY <1>1, <1>2, <1>3

\* Joining three sequences.
Associates(a, b, c) == (a \o b) \o c = a \o (b \o c)
LEMMA ThreeInARow ==
    ASSUME NEW R, NEW a \in Seq(R), NEW b \in Seq(R), NEW c \in Seq(R)
    PROVE  Associates(a, b, c)
  BY ConcatAssociative DEF Associates

-----------------------------------------------------------------------------
(* Splitting.                                                              *)

Parts(R) == { parts \in Seq(Seq(R)) : parts # <<>> }
SplitStep(parts, e, separator) ==
    IF e = separator THEN Append(parts, <<>>)
    ELSE [parts EXCEPT ![Len(parts)] = Append(@, e)]

\* The parts after each element.
SplitRuns(R, seq, separator) ==
    { f \in [0..Len(seq) -> Parts(R)] :
        /\ f[0] = << <<>> >>
        /\ f[Len(seq)] = Split(seq, separator)
        /\ \A n \in 1..Len(seq) : f[n] = SplitStep(f[n - 1], seq[n], separator) }

\* An element goes to the last part, or starts a new one.
LEMMA SplitStepTyped ==
    ASSUME NEW R, NEW parts \in Parts(R), NEW e \in R, NEW separator
    PROVE  SplitStep(parts, e, separator) \in Parts(R)
<1>1. parts \in Seq(Seq(R)) /\ Len(parts) \in Nat /\ Len(parts) >= 1 /\ <<>> \in Seq(R)
  BY DEF Parts
<1>2. parts[Len(parts)] \in Seq(R)
  BY <1>1
<1>3. Append(parts[Len(parts)], e) \in Seq(R)
  BY <1>2
<1>4. [parts EXCEPT ![Len(parts)] = Append(@, e)] \in Seq(Seq(R))
  BY <1>1, <1>3
<1>5. Len([parts EXCEPT ![Len(parts)] = Append(@, e)]) = Len(parts)
  BY <1>1
<1>6. Append(parts, <<>>) \in Seq(Seq(R)) /\ Append(parts, <<>>) # <<>>
  BY <1>1
<1>. QED  BY <1>1, <1>4, <1>5, <1>6 DEF Parts, SplitStep

\* Split looks at one element after the other.
LEMMA SplitSteps ==
    ASSUME NEW R, NEW seq \in Seq(R), NEW separator
    PROVE  SplitRuns(R, seq, separator) # {}
<1>. DEFINE D == Parts(R)
            step == [p \in D \X R |-> SplitStep(p[1], p[2], separator)]
            Rec(it) == [t \in SUBSET (DOMAIN seq) |->
                          IF t = {} THEN << <<>> >>
                          ELSE SplitStep(it[t \ {Max(t)}], seq[Max(t)], separator)]
            iter == CHOOSE it : it = Rec(it)
<1>1. step \in [D \X R -> D] /\ << <<>> >> \in D
  <2>1. << <<>> >> \in D
    BY DEF Parts
  <2>. QED  BY <2>1, SplitStepTyped
<1>2. \A old \in D, e \in R : step[<<old, e>>] = SplitStep(old, e, separator)
  OBVIOUS
<1>0. seq \in Seq(R)
  OBVIOUS
<1>. HIDE DEF D, step
<1>3. iter = Rec(iter)
  <2>1. Iterators(D, << <<>> >>, seq, step) # {}
    BY <1>0, <1>1, FoldIterates
  <2>2. PICK it \in Iterators(D, << <<>> >>, seq, step) : TRUE
    BY <2>1
  <2>3. it = Rec(it)
    <3>. SUFFICES ASSUME NEW t \in SUBSET (DOMAIN seq), t # {}
                  PROVE  it[t] = SplitStep(it[t \ {Max(t)}], seq[Max(t)], separator)
      BY <2>2 DEF Iterators, Unfolds
    <3>1. seq[Max(t)] \in R
      BY <1>0, MaxInDomain
    <3>. QED  BY <1>2, <2>2, <3>1 DEF Iterators, Unfolds
  <2>. HIDE DEF Rec
  <2>. QED  BY <2>3
<1>4. Split(seq, separator) = iter[DOMAIN seq]
  BY DEF Split, SplitStep, FoldLeft, MapThenFoldSet
<1>. HIDE DEF iter
<1>5. Unfolds(iter, D, << <<>> >>, seq, step)
  <2>1. ASSUME NEW t \in SUBSET (DOMAIN seq), t # {}, iter[t \ {Max(t)}] \in D
        PROVE  iter[t] = step[<<iter[t \ {Max(t)}], seq[Max(t)]>>]
    <3>1. seq[Max(t)] \in R
      BY <1>0, <2>1, MaxInDomain
    <3>2. iter[t] = SplitStep(iter[t \ {Max(t)}], seq[Max(t)], separator)
      BY <1>3, <2>1
    <3>. QED  BY <1>2, <2>1, <3>1, <3>2
  <2>. QED  BY <1>3, <2>1 DEF Unfolds
<1>6. PICK f \in Runs(D, << <<>> >>, seq, step) : f[Len(seq)] = iter[DOMAIN seq]
  <2>. HIDE DEF Rec
  <2>1. iter[DOMAIN seq] \in Outcomes(D, << <<>> >>, seq, step)
    BY <1>0, <1>1, <1>5, FoldAlong
  <2>. QED  BY <2>1 DEF Outcomes
<1>7. ASSUME NEW n \in 1..Len(seq) PROVE f[n] = SplitStep(f[n - 1], seq[n], separator)
  <2>1. f[n - 1] \in D /\ seq[n] \in R
    BY <1>0 DEF Runs
  <2>. QED  BY <1>2, <1>6, <2>1 DEF Runs
<1>8. f \in SplitRuns(R, seq, separator)
  BY <1>4, <1>6, <1>7 DEF D, Runs, SplitRuns
<1>. QED  BY <1>8

-----------------------------------------------------------------------------
(* Pipelines.                                                              *)

Tokens ==
    { Token("Word", w) : w \in Texts \ {<<>>} } \cup { Token(op, <<>>) : op \in Ops \ {"Word"} }
Found == [tokens : { ts \in Seq(Tokens) : ts # <<>> }, separator : Separators \cup {"End"}]
Collections == [pipelines : Seq(Found), open : Seq(Tokens)]

Collect(ts) == FoldLeft(Collected, Start, ts)

\* What has been collected after each token.
CollectRuns(ts) ==
    { f \in [0..Len(ts) -> Collections] :
        /\ f[0] = Start
        /\ f[Len(ts)] = Collect(ts)
        /\ \A n \in 1..Len(ts) : f[n] = Collected(f[n - 1], ts[n]) }

\* A pipeline ends at most once, and never empty.
LEMMA EndedTyped ==
    ASSUME NEW got \in Collections, NEW separator \in Separators \cup {"End"}
    PROVE  Ended(got, separator) \in Collections
  BY DEF Collections, Ended, Found, Pipeline

\* A token goes to the open pipeline, or ends it.
LEMMA CollectedTyped ==
    ASSUME NEW got \in Collections, NEW token \in Tokens
    PROVE  Collected(got, token) \in Collections
<1>1. CASE token.op \in Separators
  BY <1>1, EndedTyped DEF Collected
<1>2. CASE token.op \notin Separators
  BY <1>2 DEF Collected, Collections
<1>. QED  BY <1>1, <1>2

\* The pipelines are found token by token.
LEMMA CollectSteps ==
    ASSUME NEW ts \in Seq(Tokens)
    PROVE  CollectRuns(ts) # {}
<1>. DEFINE D == Collections
            R == Tokens
            step == [p \in D \X R |-> Collected(p[1], p[2])]
            Rec(it) == [t \in SUBSET (DOMAIN ts) |->
                          IF t = {} THEN Start
                          ELSE Collected(it[t \ {Max(t)}], ts[Max(t)])]
            iter == CHOOSE it : it = Rec(it)
<1>1. step \in [D \X R -> D] /\ Start \in D
  BY CollectedTyped DEF Start, Collections
<1>2. \A old \in D, e \in R : step[<<old, e>>] = Collected(old, e)
  OBVIOUS
<1>0. ts \in Seq(R)
  OBVIOUS
<1>. HIDE DEF D, R, step
<1>3. iter = Rec(iter)
  <2>1. Iterators(D, Start, ts, step) # {}
    BY <1>0, <1>1, FoldIterates
  <2>2. PICK it \in Iterators(D, Start, ts, step) : TRUE
    BY <2>1
  <2>3. it = Rec(it)
    <3>. SUFFICES ASSUME NEW t \in SUBSET (DOMAIN ts), t # {}
                  PROVE  it[t] = Collected(it[t \ {Max(t)}], ts[Max(t)])
      BY <2>2 DEF Iterators, Unfolds
    <3>1. ts[Max(t)] \in R
      BY <1>0, MaxInDomain
    <3>. QED  BY <1>2, <2>2, <3>1 DEF Iterators, Unfolds
  <2>. HIDE DEF Rec
  <2>. QED  BY <2>3
<1>4. Collect(ts) = iter[DOMAIN ts]
  BY DEF Collect, FoldLeft, MapThenFoldSet
<1>. HIDE DEF iter
<1>5. Unfolds(iter, D, Start, ts, step)
  <2>1. ASSUME NEW t \in SUBSET (DOMAIN ts), t # {}, iter[t \ {Max(t)}] \in D
        PROVE  iter[t] = step[<<iter[t \ {Max(t)}], ts[Max(t)]>>]
    <3>1. ts[Max(t)] \in R
      BY <1>0, <2>1, MaxInDomain
    <3>2. iter[t] = Collected(iter[t \ {Max(t)}], ts[Max(t)])
      BY <1>3, <2>1
    <3>. QED  BY <1>2, <2>1, <3>1, <3>2
  <2>. QED  BY <1>3, <2>1 DEF Unfolds
<1>6. PICK f \in Runs(D, Start, ts, step) : f[Len(ts)] = iter[DOMAIN ts]
  <2>. HIDE DEF Rec
  <2>1. iter[DOMAIN ts] \in Outcomes(D, Start, ts, step)
    BY <1>0, <1>1, <1>5, FoldAlong
  <2>. QED  BY <2>1 DEF Outcomes
<1>7. ASSUME NEW n \in 1..Len(ts) PROVE f[n] = Collected(f[n - 1], ts[n])
  <2>1. f[n - 1] \in D /\ ts[n] \in R
    BY <1>0 DEF Runs
  <2>. QED  BY <1>2, <1>6, <2>1 DEF Runs
<1>8. f \in CollectRuns(ts)
  BY <1>4, <1>6, <1>7 DEF D, Runs, CollectRuns
<1>. QED  BY <1>8

-----------------------------------------------------------------------------
(* Errors.                                                                 *)

Errors == {"ParseError", "InvalidPath"}

\* No error is the first if there is none, and the first is one of them.
LEMMA FirstOfErrors ==
    ASSUME NEW N \in Nat, NEW errors, DOMAIN errors = 1..N
    PROVE  /\ FirstOf(errors) = None <=> \A k \in 1..N : errors[k] = None
           /\ FirstOf(errors) # None => \E k \in 1..N : FirstOf(errors) = errors[k]
<1>. DEFINE failed == { k \in DOMAIN errors : errors[k] # None }
<1>1. FirstOf(errors) = IF failed = {} THEN None ELSE errors[Min(failed)]
  BY DEF FirstOf
<1>2. failed # {} => Min(failed) \in failed
  <2>1. failed \subseteq Nat
    OBVIOUS
  <2>. HIDE DEF failed
  <2>. QED  BY <2>1, MinOf
<1>. QED  BY <1>1, <1>2

\* parse_pipeline fails with an error of a stage, or with none.
LEMMA PipelineErrorTyped ==
    ASSUME NEW pipeline \in Found
    PROVE  /\ Stages(pipeline) \in Parts(Tokens)
           /\ PipelineError(pipeline) \in Errors \cup {None}
           /\ PipelineError(pipeline) = None <=>
                 \A j \in DOMAIN Stages(pipeline) : StageError(Stages(pipeline)[j]) = None
<1>. DEFINE stages == Stages(pipeline)
            errors == [j \in DOMAIN stages |-> StageError(stages[j])]
<1>1. stages \in Parts(Tokens)
  <2>1. pipeline.tokens \in Seq(Tokens)
    BY DEF Found
  <2>. DEFINE ts == pipeline.tokens
              pipe == Token("Pipe", <<>>)
  <2>. HIDE DEF ts, pipe
  <2>2. PICK f \in SplitRuns(Tokens, ts, pipe) : TRUE
    BY <2>1, SplitSteps DEF ts
  <2>3. Split(ts, pipe) \in Parts(Tokens)
    <3>1. Len(ts) \in 0..Len(ts)
      BY <2>1 DEF ts
    <3>. QED  BY <2>2, <3>1 DEF SplitRuns
  <2>. QED  BY <2>3 DEF Stages, ts, pipe
<1>. HIDE DEF stages
<1>2. DOMAIN errors = 1..Len(stages) /\ Len(stages) \in Nat /\ DOMAIN stages = 1..Len(stages)
  BY <1>1 DEF Parts
<1>3. PipelineError(pipeline) = FirstOf(errors)
  BY DEF PipelineError, stages
<1>4. \A j \in DOMAIN stages : errors[j] = StageError(stages[j])
                                 /\ StageError(stages[j]) \in Errors \cup {None}
  BY DEF StageError, Errors
<1>. HIDE DEF errors
<1>5. /\ FirstOf(errors) = None <=> \A j \in 1..Len(stages) : errors[j] = None
      /\ FirstOf(errors) # None => \E j \in 1..Len(stages) : FirstOf(errors) = errors[j]
  BY <1>2, FirstOfErrors
<1>. QED  BY <1>1, <1>2, <1>3, <1>4, <1>5 DEF stages

\* What parse_tokens finds.
LEMMA PipelinesTyped ==
    ASSUME NEW ts \in Seq(Tokens)
    PROVE  Pipelines(ts) \in Seq(Found)
<1>1. PICK f \in CollectRuns(ts) : TRUE
  BY CollectSteps
<1>2. Len(ts) \in 0..Len(ts)
  OBVIOUS
<1>3. f[Len(ts)] \in Collections
  BY <1>1, <1>2 DEF CollectRuns
<1>4. Ended(f[Len(ts)], "End") \in Collections
  BY <1>3, EndedTyped
<1>. QED  BY <1>1, <1>4 DEF CollectRuns, Collections, Pipelines, Collect

\* What a line is made of, but for its errors.
GroupsOf(ts) == [k \in DOMAIN Pipelines(ts) |-> ParsePipeline(Pipelines(ts)[k])]
AllStand(ts) == \A k \in DOMAIN Pipelines(ts) : Standalone(GroupsOf(ts)[k].stages)
NoErrors(ts) == \A k \in DOMAIN Pipelines(ts) : PipelineError(Pipelines(ts)[k]) = None

\* A line is its pipelines, or an error.
LEMMA ParsedLine ==
    ASSUME NEW ts \in Seq(Tokens)
    PROVE  \/ /\ ParseTokens(ts) = [error |-> None, groups |-> GroupsOf(ts)]
              /\ NoErrors(ts) /\ AllStand(ts)
           \/ /\ ParseTokens(ts) \in { Failed(error) : error \in Errors }
              /\ ~(NoErrors(ts) /\ AllStand(ts))
<1>. DEFINE pipelines == Pipelines(ts)
            errors == [k \in DOMAIN pipelines |-> PipelineError(pipelines[k])]
            error == FirstOf(errors)
            groups == GroupsOf(ts)
<1>1. ParseTokens(ts) =
          IF error # None THEN Failed(error)
          ELSE IF \A k \in DOMAIN groups : Standalone(groups[k].stages)
          THEN [error |-> None, groups |-> groups]
          ELSE Failed("ParseError")
  BY DEF ParseTokens, GroupsOf
<1>2. DOMAIN groups = DOMAIN pipelines
  BY DEF GroupsOf
<1>3. pipelines \in Seq(Found)
  BY PipelinesTyped
<1>. HIDE DEF pipelines, groups
<1>4. DOMAIN pipelines = 1..Len(pipelines) /\ Len(pipelines) \in Nat
      /\ DOMAIN errors = 1..Len(pipelines)
  BY <1>3
<1>5. \A k \in DOMAIN pipelines : errors[k] = PipelineError(pipelines[k])
                                    /\ errors[k] \in Errors \cup {None}
  BY <1>3, PipelineErrorTyped
<1>. HIDE DEF errors
<1>6. /\ error = None <=> \A k \in 1..Len(pipelines) : errors[k] = None
      /\ error # None => \E k \in 1..Len(pipelines) : error = errors[k]
  BY <1>4, FirstOfErrors
<1>. HIDE DEF error
<1>7. error = None <=> NoErrors(ts)
  BY <1>4, <1>5, <1>6 DEF NoErrors, pipelines
<1>8. (\A k \in DOMAIN groups : Standalone(groups[k].stages)) <=> AllStand(ts)
  BY <1>2 DEF AllStand, pipelines, groups
<1>9. error # None => error \in Errors
  BY <1>4, <1>5, <1>6
<1>10. CASE error # None
  BY <1>1, <1>7, <1>9, <1>10
<1>11. CASE error = None
  <2>1. Failed("ParseError") \in { Failed(e) : e \in Errors }
    BY DEF Errors
  <2>. QED  BY <1>1, <1>7, <1>8, <1>11, <2>1 DEF groups
<1>. QED  BY <1>10, <1>11

\* What TypeOK says of a line.
LineTyped(l) ==
    /\ l.error \in {None, "ParseError", "InvalidPath"}
    /\ \A k \in DOMAIN l.groups :
        /\ l.groups[k].stages # <<>>
        /\ l.groups[k].separator \in {"Sequential", "Background", "End"}
        /\ \A j \in DOMAIN l.groups[k].stages : l.groups[k].stages[j].path # Invalid

\* Every group of a line has stages, and none of them an invalid path.
LEMMA ParseTokensTyped ==
    ASSUME NEW ts \in Seq(Tokens)
    PROVE  LineTyped(ParseTokens(ts))
<1>1. ASSUME NEW error \in Errors PROVE LineTyped(Failed(error))
  BY DEF LineTyped, Failed, Errors
<1>2. CASE ParseTokens(ts) = [error |-> None, groups |-> GroupsOf(ts)] /\ NoErrors(ts)
  <2>. DEFINE groups == GroupsOf(ts)
  <2>1. ASSUME NEW k \in DOMAIN groups
        PROVE  /\ groups[k].stages # <<>>
               /\ groups[k].separator \in {"Sequential", "Background", "End"}
               /\ \A j \in DOMAIN groups[k].stages : groups[k].stages[j].path # Invalid
    <3>. DEFINE pipeline == Pipelines(ts)[k]
                stages == Stages(pipeline)
    <3>1. k \in DOMAIN Pipelines(ts) /\ groups[k] = ParsePipeline(pipeline)
      BY DEF GroupsOf
    <3>2. pipeline \in Found
      BY <3>1, PipelinesTyped
    <3>3. PipelineError(pipeline) = None
      BY <1>2, <3>1 DEF NoErrors
    <3>. HIDE DEF pipeline, groups
    <3>4. stages \in Parts(Tokens) /\ \A j \in DOMAIN stages : StageError(stages[j]) = None
      BY <3>2, <3>3, PipelineErrorTyped
    <3>5. /\ groups[k].stages = [j \in DOMAIN stages |-> ParseStage(stages[j])]
          /\ groups[k].separator = pipeline.separator
      BY <3>1 DEF ParsePipeline
    <3>. HIDE DEF stages
    <3>6. DOMAIN groups[k].stages # {} /\ DOMAIN groups[k].stages = DOMAIN stages
      <4>1. 1 \in DOMAIN stages
        BY <3>4 DEF Parts
      <4>. QED  BY <3>5, <4>1
    <3>7. pipeline.separator \in {"Sequential", "Background", "End"}
      BY <3>2 DEF Found, Separators
    <3>8. ASSUME NEW j \in DOMAIN stages
          PROVE  ParseStage(stages[j]).path # Invalid
      <4>1. StageError(stages[j]) = None /\ None \notin {"ParseError", "InvalidPath"}
        BY <3>4, NoneAssumption
      <4>2. Arguments(Words(stages[j])).path # Invalid
        BY <4>1 DEF StageError
      <4>. QED  BY <4>2 DEF ParseStage
    <3>9. groups[k].stages # <<>>
      BY <3>6
    <3>. QED  BY <3>5, <3>6, <3>7, <3>8, <3>9
  <2>. HIDE DEF groups
  <2>2. LineTyped([error |-> None, groups |-> groups])
    BY <2>1 DEF LineTyped
  <2>. QED  BY <1>2, <2>2 DEF groups
<1>. QED  BY <1>1, <1>2, ParsedLine

-----------------------------------------------------------------------------
(* The tokenizer.                                                          *)

\* What is still to be consumed is the end of the input.
AtEnd(end, all) ==
    /\ Len(end) <= Len(all)
    /\ \A i \in 1..Len(end) : end[i] = all[Len(all) - Len(end) + i]

(* The inductive invariant: the types, the end of the input that is left,  *)
(* and where the line that was parsed came from.                           *)
Tokenizing ==
    /\ input \in Inputs
    /\ rest \in Texts /\ AtEnd(rest, input)
    /\ quote \in Quotes \cup {None}
    /\ word \in Texts
    /\ tokens \in Seq(Tokens)
Parsed ==
    line # None =>
        /\ rest = <<>>
        /\ quote = None =>
              word = <<>> /\ line = IF tokens = <<>> THEN Failed("ParseError")
                                    ELSE ParseTokens(tokens)
        /\ quote # None => line = Failed("ParseError")
Inv == Tokenizing /\ Parsed

\* A word that is flushed is a token.
LEMMA FlushedTyped ==
    ASSUME tokens \in Seq(Tokens), word \in Texts
    PROVE  Flushed \in Seq(Tokens)
<1>1. word # <<>> => Token("Word", word) \in Tokens
  BY DEF Tokens
<1>. QED  BY <1>1 DEF Flushed

\* What is left after n symbols are consumed is an end of the input still.
LEMMA Consumed ==
    ASSUME NEW all \in Texts, NEW end \in Texts, AtEnd(end, all), NEW n \in 1..Len(end)
    PROVE  /\ SubSeq(end, n + 1, Len(end)) \in Texts
           /\ AtEnd(SubSeq(end, n + 1, Len(end)), all)
           /\ Head(end) \in Symbols
<1>. DEFINE left == SubSeq(end, n + 1, Len(end))
<1>1. Len(end) \in Nat /\ Len(all) \in Nat /\ n \in Nat /\ end # <<>>
  BY DEF Texts
<1>2. /\ left \in Texts /\ Len(left) = Len(end) - n
      /\ \A i \in 1..(Len(end) - n) : left[i] = end[n + i]
  BY <1>1 DEF Texts
<1>3. Head(end) \in Symbols
  BY <1>1 DEF Texts
<1>. HIDE DEF left
<1>4. AtEnd(left, all)
  <2>1. Len(left) <= Len(all)
    BY <1>1, <1>2 DEF AtEnd
  <2>2. ASSUME NEW i \in 1..Len(left)
        PROVE  left[i] = all[Len(all) - Len(left) + i]
    <3>1. n + i \in 1..Len(end) /\ i \in 1..(Len(end) - n)
      BY <1>1, <1>2
    <3>2. left[i] = end[n + i] /\ end[n + i] = all[Len(all) - Len(end) + (n + i)]
      BY <1>2, <3>1 DEF AtEnd
    <3>3. Len(all) - Len(end) + (n + i) = Len(all) - Len(left) + i
      BY <1>1, <1>2
    <3>. QED  BY <3>2, <3>3
  <2>. QED  BY <2>1, <2>2 DEF AtEnd
<1>. QED  BY <1>2, <1>3, <1>4 DEF left

\* Nothing has been consumed.
LEMMA InitInv == Init => Inv
<1>. SUFFICES ASSUME Init PROVE Inv
  OBVIOUS
<1>1. input \in Texts /\ rest = input
  BY InputsAssumption DEF Init
<1>2. Len(input) \in Nat
  BY <1>1 DEF Texts
<1>3. AtEnd(rest, input)
  BY <1>1, <1>2 DEF AtEnd
<1>4. <<>> \in Texts /\ <<>> \in Seq(Tokens)
  BY DEF Texts
<1>. QED  BY <1>1, <1>3, <1>4 DEF Init, Inv, Tokenizing, Parsed

\* Every arm of tokenize() consumes something, and parsing is the end.
LEMMA NextInv == Inv /\ [Next]_vars => Inv'
<1>. SUFFICES ASSUME Inv, [Next]_vars PROVE Inv'
  OBVIOUS
<1>0. /\ input \in Texts /\ rest \in Texts /\ tokens \in Seq(Tokens) /\ word \in Texts
      /\ Len(rest) \in Nat
  BY InputsAssumption DEF Inv, Tokenizing, Texts
<1>a. Flushed \in Seq(Tokens)
  BY <1>0, FlushedTyped
<1>b. ASSUME NEW n \in 1..Len(rest), Consume(n)
      PROVE  rest' \in Texts /\ AtEnd(rest', input) /\ Head(rest) \in Symbols /\ line = None
  <2>1. rest # <<>>
    BY <1>0
  <2>2. AtEnd(rest, input) /\ line = None
    BY <2>1 DEF Inv, Tokenizing, Parsed
  <2>. QED  BY <1>0, <1>b, <2>2, Consumed DEF Consume
<1>c. rest # <<>> => 1 \in 1..Len(rest)
  BY <1>0
<1>d. <<>> \in Texts
  BY DEF Texts
<1>1. CASE OpenQuote
  <2>1. rest # <<>> /\ Consume(1)
    BY <1>1 DEF OpenQuote, Bare
  <2>. QED  BY <1>1, <1>b, <1>c, <2>1 DEF OpenQuote, Bare, Inv, Tokenizing, Parsed
<1>2. CASE InQuote
  <2>1. rest # <<>> /\ Consume(1)
    BY <1>2 DEF InQuote
  <2>2. rest' \in Texts /\ AtEnd(rest', input) /\ Head(rest) \in Symbols /\ line = None
    BY <1>b, <1>c, <2>1
  <2>3. word' \in {word, Append(word, Head(rest))}
    BY <1>2 DEF InQuote
  <2>4. Append(word, Head(rest)) \in Texts
    BY <1>0, <2>2 DEF Texts
  <2>. QED  BY <1>0, <1>2, <2>2, <2>3, <2>4 DEF InQuote, Inv, Tokenizing, Parsed
<1>3. CASE Unterminated
  BY <1>3 DEF Unterminated, Inv, Tokenizing, Parsed
<1>4. CASE Operator
  <2>1. rest # <<>> /\ Consume(1)
    BY <1>4 DEF Operator, Bare
  <2>2. rest' \in Texts /\ AtEnd(rest', input) /\ line = None
    BY <1>b, <1>c, <2>1
  <2>3. Token(Operators[Head(rest)], <<>>) \in Tokens
    <3>1. Head(rest) \in DOMAIN Operators
      BY <1>4 DEF Operator, Bare
    <3>2. Operators[Head(rest)] \in Ops \ {"Word"}
      BY <3>1 DEF Operators, Ops
    <3>. QED  BY <3>2 DEF Tokens
  <2>4. tokens' \in Seq(Tokens)
    BY <1>4, <1>a, <2>3 DEF Operator
  <2>. QED  BY <1>4, <1>d, <2>2, <2>4 DEF Operator, Inv, Tokenizing, Parsed
<1>5. CASE Redirect
  <2>1. PICK n \in 1..Len(rest) : Consume(n)
    BY <1>0, <1>5 DEF Redirect, Bare
  <2>2. rest' \in Texts /\ AtEnd(rest', input) /\ line = None
    BY <1>b, <2>1
  <2>3. Token("Append", <<>>) \in Tokens /\ Token("Overwrite", <<>>) \in Tokens
    BY DEF Tokens, Ops
  <2>4. tokens' \in Seq(Tokens)
    BY <1>5, <1>a, <2>3 DEF Redirect
  <2>. QED  BY <1>5, <1>d, <2>2, <2>4 DEF Redirect, Inv, Tokenizing, Parsed
<1>6. CASE Blank
  <2>1. rest # <<>> /\ Consume(1)
    BY <1>6 DEF Blank, Bare
  <2>2. rest' \in Texts /\ AtEnd(rest', input) /\ line = None
    BY <1>b, <1>c, <2>1
  <2>. QED  BY <1>6, <1>a, <1>d, <2>2 DEF Blank, Inv, Tokenizing, Parsed
<1>7. CASE Letter
  <2>1. rest # <<>> /\ Consume(1)
    BY <1>7 DEF Letter
  <2>2. rest' \in Texts /\ AtEnd(rest', input) /\ Head(rest) \in Symbols /\ line = None
    BY <1>b, <1>c, <2>1
  <2>3. word' \in Texts
    BY <1>0, <1>7, <2>2 DEF Letter, Texts
  <2>. QED  BY <1>7, <2>2, <2>3 DEF Letter, Inv, Tokenizing, Parsed
<1>8. CASE ParseLine
  BY <1>8, <1>a, <1>d DEF ParseLine, Inv, Tokenizing, Parsed
<1>9. CASE UNCHANGED vars
  BY <1>9 DEF vars, Inv, Tokenizing, Parsed
<1>. QED  BY <1>1, <1>2, <1>3, <1>4, <1>5, <1>6, <1>7, <1>8, <1>9 DEF Next

\* An end of a text is a suffix of it.
LEMMA EndIsSuffix ==
    ASSUME NEW all \in Texts, NEW end \in Texts, AtEnd(end, all)
    PROVE  IsSuffix(end, all)
<1>. DEFINE a == Reverse(all)
            e == Reverse(end)
            n == Len(end)
            m == Len(all)
<1>1. n \in Nat /\ m \in Nat /\ n <= m
  BY DEF Texts, AtEnd
<1>2. /\ a \in Texts /\ Len(a) = m /\ \A i \in 1..m : a[i] = all[(m - i) + 1]
      /\ e \in Texts /\ Len(e) = n /\ \A i \in 1..n : e[i] = end[(n - i) + 1]
  BY DEF Texts, Reverse
<1>3. \A i \in 1..n : end[i] = all[m - n + i]
  BY DEF AtEnd
<1>. HIDE DEF a, e, n, m
<1>4. ASSUME NEW i \in 1..n PROVE e[i] = a[i]
  <2>1. i \in 1..m /\ (n - i) + 1 \in 1..n
    BY <1>1
  <2>2. m - n + ((n - i) + 1) = (m - i) + 1
    BY <1>1
  <2>3. e[i] = end[(n - i) + 1] /\ a[i] = all[(m - i) + 1]
    BY <1>2, <2>1
  <2>4. end[(n - i) + 1] = all[m - n + ((n - i) + 1)]
    BY <1>3, <2>1
  <2>. QED  BY <2>2, <2>3, <2>4
<1>5. SubSeq(e, 1, n) = [i \in 1..n |-> e[i]] /\ SubSeq(a, 1, n) = [i \in 1..n |-> a[i]]
  BY <1>1, <1>2 DEF Texts
<1>6. SubSeq(e, 1, n) = SubSeq(a, 1, n)
  BY <1>4, <1>5
<1>. QED  BY <1>1, <1>2, <1>6 DEF IsSuffix, IsPrefix, a, e

\* The inductive invariant holds.
LEMMA InvHolds == Spec => []Inv
  BY InitInv, NextInv, PTL DEF Spec

(* tokenize() consumes the input from the front and makes no empty word;   *)
(* no group of a parsed line is without a stage or has an invalid path.    *)
THEOREM CommandLineTypeCorrect == Spec => []TypeOK
<1>1. Inv => TypeOK
  <2>. SUFFICES ASSUME Inv PROVE TypeOK
    OBVIOUS
  <2>1. IsSuffix(rest, input)
    <3>1. input \in Texts /\ rest \in Texts /\ AtEnd(rest, input)
      BY InputsAssumption DEF Inv, Tokenizing
    <3>. QED  BY <3>1, EndIsSuffix
  <2>2. ASSUME NEW i \in DOMAIN tokens
        PROVE  tokens[i].op \in Ops /\ (tokens[i].op = "Word" <=> tokens[i].text # <<>>)
    <3>1. tokens[i] \in Tokens
      BY DEF Inv, Tokenizing
    <3>. QED  BY <3>1 DEF Tokens, Token, Ops
  <2>3. line # None => LineTyped(line)
    <3>1. LineTyped(Failed("ParseError"))
      BY DEF LineTyped, Failed
    <3>2. tokens \in Seq(Tokens)
      BY DEF Inv, Tokenizing
    <3>. QED  BY <3>1, <3>2, ParseTokensTyped DEF Inv, Parsed
  <2>4. quote \in Quotes \cup {None}
    BY DEF Inv, Tokenizing
  <2>. QED  BY <2>1, <2>2, <2>3, <2>4 DEF TypeOK, LineTyped
<1>. QED  BY <1>1, InvHolds, PTL

-----------------------------------------------------------------------------
(* Splitting, once more.                                                   *)

\* Appending to the second of two sequences appends to both.
AppendsLast(a, b, e) == Append(a \o b, e) = a \o Append(b, e)
LEMMA AppendToConcat ==
    ASSUME NEW R, NEW a \in Seq(R), NEW b \in Seq(R), NEW e \in R
    PROVE  AppendsLast(a, b, e)
  BY DEF AppendsLast

\* Splitting goes on after parts that are complete.
LEMMA SplitStepAfter ==
    ASSUME NEW R, NEW a \in Seq(Seq(R)), NEW b \in Parts(R), NEW e \in R, NEW separator
    PROVE  SplitStep(a \o b, e, separator) = a \o SplitStep(b, e, separator)
<1>. DEFINE n == Len(a)
            m == Len(b)
            ab == a \o b
<1>1. b \in Seq(Seq(R)) /\ n \in Nat /\ m \in Nat /\ m >= 1 /\ <<>> \in Seq(R)
  BY DEF Parts
<1>2. CASE e = separator
  <2>. DEFINE S == Seq(R)
              none == <<>>
  <2>1. a \in Seq(S) /\ b \in Seq(S) /\ none \in S
    BY <1>1
  <2>. HIDE DEF S, none, n, m, ab
  <2>2. AppendsLast(a, b, none)
    BY <2>1, AppendToConcat
  <2>. QED  BY <1>2, <2>2 DEF AppendsLast, SplitStep, none
<1>3. CASE e # separator
  <2>1. /\ ab \in Seq(Seq(R)) /\ Len(ab) = n + m
        /\ \A i \in 1..(n + m) : ab[i] = IF i <= n THEN a[i] ELSE b[i - n]
    BY <1>1, ConcatProperties
  <2>2. b[m] \in Seq(R) /\ Append(b[m], e) \in Seq(R)
    BY <1>1
  <2>. DEFINE c == [b EXCEPT ![m] = Append(@, e)]
              new == Append(b[m], e)
  <2>3. c \in Seq(Seq(R)) /\ Len(c) = m /\ \A i \in 1..m : c[i] = IF i = m THEN new ELSE b[i]
    BY <1>1, <2>2
  <2>. HIDE DEF c
  <2>4. /\ a \o c \in Seq(Seq(R)) /\ Len(a \o c) = n + m
        /\ \A i \in 1..(n + m) : (a \o c)[i] = IF i <= n THEN a[i] ELSE c[i - n]
    <3>1. Len(a \o c) = Len(a) + Len(c)
          /\ \A i \in 1..(Len(a) + Len(c)) : (a \o c)[i] = IF i <= Len(a) THEN a[i]
                                                             ELSE c[i - Len(a)]
      BY <2>3, ConcatProperties
    <3>2. a \o c \in Seq(Seq(R))
      BY <2>3
    <3>. QED  BY <2>3, <3>1, <3>2
  <2>5. ab[n + m] = b[m]
    BY <1>1, <2>1
  <2>. HIDE DEF ab, new
  <2>. DEFINE l == [ab EXCEPT ![n + m] = new]
              r == a \o c
  <2>6. l \in Seq(Seq(R)) /\ Len(l) = n + m
        /\ \A i \in 1..(n + m) : l[i] = IF i = n + m THEN new ELSE ab[i]
    BY <1>1, <2>1, <2>2 DEF new
  <2>. HIDE DEF l, r, n, m
  <2>7. ASSUME NEW i \in 1..(n + m) PROVE l[i] = r[i]
    <3>1. CASE i <= n
      <4>1. i # n + m
        BY <1>1, <3>1
      <4>. QED  BY <2>1, <2>4, <2>6, <3>1, <4>1 DEF r
    <3>2. CASE ~(i <= n)
      <4>1. i - n \in 1..m /\ (i = n + m <=> i - n = m)
        BY <1>1, <3>2
      <4>2. r[i] = c[i - n]
        BY <2>4, <3>2 DEF r
      <4>3. ab[i] = b[i - n]
        BY <2>1, <3>2
      <4>. QED  BY <2>3, <2>6, <4>1, <4>2, <4>3
    <3>. QED  BY <3>1, <3>2
  <2>8. l = r
    BY <2>4, <2>6, <2>7, SeqEqual DEF r
  <2>9. SplitStep(ab, e, separator) = l
    BY <1>3, <2>1, <2>5 DEF SplitStep, l, new
  <2>10. SplitStep(b, e, separator) = c
    BY <1>3 DEF SplitStep, c, m
  <2>. QED  BY <2>8, <2>9, <2>10 DEF r, ab
<1>. QED  BY <1>2, <1>3

\* One more element.
LEMMA SplitAppend ==
    ASSUME NEW R, NEW seq \in Seq(R), NEW e \in R, NEW separator
    PROVE  /\ Split(seq, separator) \in Parts(R)
           /\ Split(Append(seq, e), separator) = SplitStep(Split(seq, separator), e, separator)
<1>. DEFINE more == Append(seq, e)
<1>1. /\ Len(seq) \in Nat /\ more \in Seq(R) /\ Len(more) = Len(seq) + 1
      /\ more[Len(seq) + 1] = e /\ \A n \in 1..Len(seq) : more[n] = seq[n]
  OBVIOUS
<1>. HIDE DEF more
<1>2. PICK f \in SplitRuns(R, seq, separator) : TRUE
  BY SplitSteps
<1>3. PICK g \in SplitRuns(R, more, separator) : TRUE
  BY <1>1, SplitSteps
<1>. DEFINE Same == { n \in 0..Len(seq) : g[n] = f[n] }
<1>4. \A n \in 0..Len(seq) : n \in Same
  <2>1. 0 \in Same
    BY <1>1, <1>2, <1>3 DEF SplitRuns
  <2>2. \A n \in 0..(Len(seq) - 1) : n \in Same => n + 1 \in Same
    <3>. SUFFICES ASSUME NEW n \in 0..(Len(seq) - 1), g[n] = f[n] PROVE g[n + 1] = f[n + 1]
      BY <1>1
    <3>1. n + 1 \in 1..Len(seq) /\ n + 1 \in 1..Len(more) /\ (n + 1) - 1 = n
      BY <1>1
    <3>2. f[n + 1] = SplitStep(f[n], seq[n + 1], separator)
      BY <1>2, <3>1 DEF SplitRuns
    <3>3. g[n + 1] = SplitStep(g[n], more[n + 1], separator)
      BY <1>3, <3>1 DEF SplitRuns
    <3>. QED  BY <1>1, <3>1, <3>2, <3>3
  <2>. HIDE DEF Same
  <2>. QED  BY <1>1, <2>1, <2>2, StepsUpTo
<1>5. g[Len(seq)] = Split(seq, separator) /\ f[Len(seq)] \in Parts(R)
  BY <1>1, <1>2, <1>4 DEF SplitRuns
<1>6. Len(seq) + 1 \in 1..Len(more) /\ (Len(seq) + 1) - 1 = Len(seq)
  BY <1>1
<1>7. g[Len(seq) + 1] = SplitStep(g[Len(seq)], e, separator)
  BY <1>1, <1>3, <1>6 DEF SplitRuns
<1>8. g[Len(seq) + 1] = Split(more, separator)
  BY <1>1, <1>3 DEF SplitRuns
<1>9. f[Len(seq)] = Split(seq, separator)
  BY <1>2 DEF SplitRuns
<1>. QED  BY <1>5, <1>7, <1>8, <1>9 DEF more

\* So is one more symbol split.
SplitsOn(seq, e, separator) ==
    Split(Append(seq, e), separator) = SplitStep(Split(seq, separator), e, separator)
LEMMA SplitMore ==
    ASSUME NEW R, NEW seq \in Seq(R), NEW e \in R, NEW separator
    PROVE  SplitsOn(seq, e, separator)
  BY SplitAppend DEF SplitsOn

\* Cut at a separator, the parts are those of both sides.
LEMMA SplitConcat ==
    ASSUME NEW R, NEW a \in Seq(R), NEW b \in Seq(R), NEW separator \in R
    PROVE  Split(Append(a, separator) \o b, separator)
               = Split(a, separator) \o Split(b, separator)
<1>. DEFINE ahead == Append(a, separator)
            parts == Split(a, separator)
<1>1. ahead \in Seq(R) /\ Len(b) \in Nat
  OBVIOUS
<1>2. /\ parts \in Parts(R) /\ parts \in Seq(Seq(R))
      /\ Split(ahead, separator) = Append(parts, <<>>)
  BY SplitAppend DEF SplitStep, Parts
<1>3. PICK g \in SplitRuns(R, b, separator) : TRUE
  BY SplitSteps
<1>. HIDE DEF parts, ahead
<1>. DEFINE whole == [n \in 0..Len(b) |-> Split(ahead \o Initial(b, n), separator)]
            both == [n \in 0..Len(b) |-> parts \o g[n]]
            Good == { n \in 0..Len(b) : whole[n] = both[n] }
<1>4. 0 \in Good
  <2>1. Initial(b, 0) = <<>> /\ g[0] = << <<>> >>
    BY <1>3, InitialGrows DEF SplitRuns
  <2>2. ahead \o <<>> = ahead
    BY <1>1
  <2>3. <<>> \in Seq(R)
    OBVIOUS
  <2>4. Append(parts, <<>>) = parts \o << <<>> >>
    BY <1>2, <2>3
  <2>5. 0 \in 0..Len(b)
    BY <1>1
  <2>6. whole[0] = Split(ahead, separator) /\ both[0] = parts \o << <<>> >>
    BY <2>1, <2>2, <2>5
  <2>. HIDE DEF whole, both
  <2>. QED  BY <1>2, <2>4, <2>5, <2>6
<1>5. \A n \in 0..(Len(b) - 1) : n \in Good => n + 1 \in Good
  <2>. SUFFICES ASSUME NEW n \in 0..(Len(b) - 1), n \in 0..Len(b), n + 1 \in 0..Len(b),
                       whole[n] = both[n]
                PROVE  whole[n + 1] = both[n + 1]
    <3>. HIDE DEF whole, both
    <3>. QED  BY <1>1
  <2>0. /\ Split(ahead \o Initial(b, n), separator) = parts \o g[n]
        /\ whole[n + 1] = Split(ahead \o Initial(b, n + 1), separator)
        /\ both[n + 1] = parts \o g[n + 1]
    OBVIOUS
  <2>. HIDE DEF whole, both
  <2>1. n + 1 \in 1..Len(b) /\ (n + 1) - 1 = n /\ n \in 0..Len(b) /\ n \in Nat
    BY <1>1
  <2>2. /\ Initial(b, n) \in Seq(R) /\ b[n + 1] \in R
        /\ Initial(b, n + 1) = Append(Initial(b, n), b[n + 1])
    BY <2>1, InitialGrows
  <2>. DEFINE s == Initial(b, n)
              e == b[n + 1]
  <2>3. s \in Seq(R) /\ e \in R /\ Initial(b, n + 1) = Append(s, e)
    BY <2>2
  <2>4. g[n] \in Parts(R) /\ g[n + 1] = SplitStep(g[n], e, separator)
    BY <1>3, <2>1 DEF SplitRuns
  <2>. HIDE DEF s, e
  <2>5. ahead \o Append(s, e) = Append(ahead \o s, e)
    BY <1>1, <2>3
  <2>6. ahead \o s \in Seq(R)
    BY <1>1, <2>3
  <2>. DEFINE as == ahead \o s
  <2>. HIDE DEF as
  <2>7. Split(Append(as, e), separator) = SplitStep(Split(as, separator), e, separator)
    <3>1. as \in Seq(R) /\ e \in R
      BY <2>3, <2>6 DEF as
    <3>2. SplitsOn(as, e, separator)
      BY <3>1, SplitMore
    <3>. QED  BY <3>2 DEF SplitsOn
  <2>8. Split(as, separator) = parts \o g[n]
    BY <2>0 DEF as, s
  <2>9. SplitStep(parts \o g[n], e, separator) = parts \o SplitStep(g[n], e, separator)
    BY <1>2, <2>3, <2>4, SplitStepAfter
  <2>. QED  BY <2>0, <2>3, <2>4, <2>5, <2>7, <2>8, <2>9 DEF as
<1>6. \A n \in 0..Len(b) : n \in Good
  <2>. HIDE DEF Good
  <2>. QED  BY <1>1, <1>4, <1>5, StepsUpTo
<1>7. Initial(b, Len(b)) = b /\ g[Len(b)] = Split(b, separator)
  <2>1. Initial(b, Len(b)) = b
    BY InitialGrows
  <2>2. g[Len(b)] = Split(b, separator)
    BY <1>3 DEF SplitRuns
  <2>. QED  BY <2>1, <2>2
<1>8. Len(b) \in 0..Len(b) /\ whole[Len(b)] = both[Len(b)]
  <2>. HIDE DEF whole, both
  <2>. QED  BY <1>1, <1>6
<1>9. whole[Len(b)] = Split(ahead \o b, separator) /\ both[Len(b)] = parts \o g[Len(b)]
  BY <1>7, <1>8
<1>. QED  BY <1>7, <1>8, <1>9 DEF ahead, parts

-----------------------------------------------------------------------------
(* Collecting the tokens of two halves.                                    *)

\* What is collected of a half, behind the pipelines found before.
After(found, got) == [pipelines |-> found \o got.pipelines, open |-> got.open]

\* A run of the fold ends with what is collected.
LEMMA CollectTyped ==
    ASSUME NEW ts \in Seq(Tokens)
    PROVE  /\ Collect(ts) \in Collections
           /\ Collect(<<>>) = Start
           /\ Pipelines(ts) = Ended(Collect(ts), "End").pipelines
<1>1. PICK f \in CollectRuns(ts) : TRUE
  BY CollectSteps
<1>2. <<>> \in Seq(Tokens) /\ Len(<<>>) = 0
  OBVIOUS
<1>3. PICK g \in CollectRuns(<<>>) : TRUE
  BY <1>2, CollectSteps
<1>4. Len(ts) \in 0..Len(ts)
  OBVIOUS
<1>5. Collect(ts) = f[Len(ts)] /\ Collect(<<>>) = g[Len(<<>>)]
  BY <1>1, <1>3 DEF CollectRuns
<1>6. f[Len(ts)] \in Collections /\ g[0] = Start
  BY <1>1, <1>3, <1>4 DEF CollectRuns
<1>7. Pipelines(ts) = Ended(Collect(ts), "End").pipelines
  BY DEF Pipelines, Collect
<1>. QED  BY <1>2, <1>5, <1>6, <1>7

\* One more token.
LEMMA CollectAppend ==
    ASSUME NEW ts \in Seq(Tokens), NEW t \in Tokens
    PROVE  Collect(Append(ts, t)) = Collected(Collect(ts), t)
<1>. DEFINE more == Append(ts, t)
<1>1. /\ Len(ts) \in Nat /\ more \in Seq(Tokens) /\ Len(more) = Len(ts) + 1
      /\ more[Len(ts) + 1] = t /\ \A n \in 1..Len(ts) : more[n] = ts[n]
  OBVIOUS
<1>. HIDE DEF more
<1>2. PICK f \in CollectRuns(ts) : TRUE
  BY CollectSteps
<1>3. PICK g \in CollectRuns(more) : TRUE
  BY <1>1, CollectSteps
<1>. DEFINE Same == { n \in 0..Len(ts) : g[n] = f[n] }
<1>4. \A n \in 0..Len(ts) : n \in Same
  <2>1. 0 \in Same
    BY <1>1, <1>2, <1>3 DEF CollectRuns
  <2>2. \A n \in 0..(Len(ts) - 1) : n \in Same => n + 1 \in Same
    <3>. SUFFICES ASSUME NEW n \in 0..(Len(ts) - 1), g[n] = f[n] PROVE g[n + 1] = f[n + 1]
      BY <1>1
    <3>1. n + 1 \in 1..Len(ts) /\ n + 1 \in 1..Len(more) /\ (n + 1) - 1 = n
      BY <1>1
    <3>2. f[n + 1] = Collected(f[n], ts[n + 1])
      BY <1>2, <3>1 DEF CollectRuns
    <3>3. g[n + 1] = Collected(g[n], more[n + 1])
      BY <1>3, <3>1 DEF CollectRuns
    <3>. QED  BY <1>1, <3>1, <3>2, <3>3
  <2>. HIDE DEF Same
  <2>. QED  BY <1>1, <2>1, <2>2, StepsUpTo
<1>5. g[Len(ts)] = f[Len(ts)]
  BY <1>1, <1>4
<1>6. Len(ts) + 1 \in 1..Len(more) /\ (Len(ts) + 1) - 1 = Len(ts)
  BY <1>1
<1>7. g[Len(ts) + 1] = Collected(g[Len(ts)], t)
  BY <1>1, <1>3, <1>6 DEF CollectRuns
<1>8. g[Len(ts) + 1] = Collect(more)
  BY <1>1, <1>3 DEF CollectRuns
<1>9. f[Len(ts)] = Collect(ts)
  BY <1>2 DEF CollectRuns
<1>. QED  BY <1>5, <1>7, <1>8, <1>9 DEF more

\* What was found before a half does not change how the half is collected.
LEMMA CollectedAfter ==
    ASSUME NEW found \in Seq(Found), NEW got \in Collections,
           NEW separator \in Separators \cup {"End"}, NEW t \in Tokens
    PROVE  /\ Ended(After(found, got), separator) = After(found, Ended(got, separator))
           /\ Collected(After(found, got), t) = After(found, Collected(got, t))
<1>1. ASSUME NEW s \in Separators \cup {"End"}
      PROVE  Ended(After(found, got), s) = After(found, Ended(got, s))
  <2>1. CASE got.open = <<>>
    BY <2>1 DEF Ended, After
  <2>2. CASE got.open # <<>>
    <3>. DEFINE ps == got.pipelines
                p == Pipeline(got.open, s)
    <3>1. ps \in Seq(Found) /\ p \in Found
      BY <2>2 DEF Collections, Found, Pipeline
    <3>. HIDE DEF ps, p
    <3>2. AppendsLast(found, ps, p)
      BY <3>1, AppendToConcat
    <3>3. Ended(After(found, got), s) = [pipelines |-> Append(found \o ps, p), open |-> <<>>]
      BY <2>2 DEF Ended, After, ps, p
    <3>4. Ended(got, s) = [pipelines |-> Append(ps, p), open |-> <<>>]
      BY <2>2 DEF Ended, ps, p
    <3>5. After(found, Ended(got, s)) = [pipelines |-> found \o Append(ps, p), open |-> <<>>]
      BY <3>4 DEF After
    <3>. QED  BY <3>2, <3>3, <3>5 DEF AppendsLast
  <2>. QED  BY <2>1, <2>2
<1>2. ASSUME t.op \in Separators
      PROVE  Collected(After(found, got), t) = After(found, Collected(got, t))
  <2>1. Ended(After(found, got), t.op) = After(found, Ended(got, t.op))
    BY <1>1, <1>2
  <2>. QED  BY <1>2, <2>1 DEF Collected
<1>3. ASSUME t.op \notin Separators
      PROVE  Collected(After(found, got), t) = After(found, Collected(got, t))
  BY <1>3 DEF Collected, After, Collections
<1>4. Collected(After(found, got), t) = After(found, Collected(got, t))
  BY <1>2, <1>3
<1>5. Ended(After(found, got), separator) = After(found, Ended(got, separator))
  BY <1>1
<1>. QED  BY <1>4, <1>5

\* A half that begins a pipeline is collected as if it were alone.
LEMMA CollectConcat ==
    ASSUME NEW a \in Seq(Tokens), NEW b \in Seq(Tokens), Collect(a).open = <<>>
    PROVE  Collect(a \o b) = After(Collect(a).pipelines, Collect(b))
<1>. DEFINE found == Collect(a).pipelines
            whole == [n \in 0..Len(b) |-> Collect(a \o Initial(b, n))]
            both == [n \in 0..Len(b) |-> After(found, Collect(Initial(b, n)))]
            Good == { n \in 0..Len(b) : whole[n] = both[n] }
<1>1. Len(b) \in Nat /\ Collect(a) \in Collections /\ found \in Seq(Found)
  BY CollectTyped DEF Collections
<1>2. 0 \in Good
  <2>1. Initial(b, 0) = <<>> /\ 0 \in 0..Len(b) /\ a \o <<>> = a
    BY <1>1, InitialGrows
  <2>2. whole[0] = Collect(a) /\ both[0] = After(found, Start)
    BY <2>1, CollectTyped
  <2>3. found \o <<>> = found
    <3>. HIDE DEF found
    <3>. QED  BY <1>1
  <2>4. Collect(a) = [pipelines |-> found, open |-> <<>>]
    BY <1>1 DEF Collections
  <2>. HIDE DEF whole, both, found
  <2>5. After(found, Start) = [pipelines |-> found, open |-> <<>>]
    BY <2>3 DEF After, Start
  <2>. QED  BY <2>1, <2>2, <2>4, <2>5
<1>3. \A n \in 0..(Len(b) - 1) : n \in Good => n + 1 \in Good
  <2>. SUFFICES ASSUME NEW n \in 0..(Len(b) - 1), n \in 0..Len(b), n + 1 \in 0..Len(b),
                       whole[n] = both[n]
                PROVE  whole[n + 1] = both[n + 1]
    <3>. HIDE DEF whole, both
    <3>. QED  BY <1>1
  <2>0. /\ Collect(a \o Initial(b, n)) = After(found, Collect(Initial(b, n)))
        /\ whole[n + 1] = Collect(a \o Initial(b, n + 1))
        /\ both[n + 1] = After(found, Collect(Initial(b, n + 1)))
    OBVIOUS
  <2>. HIDE DEF whole, both, found
  <2>. DEFINE s == Initial(b, n)
              e == b[n + 1]
  <2>1. s \in Seq(Tokens) /\ e \in Tokens /\ Initial(b, n + 1) = Append(s, e)
    BY InitialGrows
  <2>. HIDE DEF s, e
  <2>. DEFINE as == a \o s
  <2>2. as \in Seq(Tokens)
    BY <2>1
  <2>3. AppendsLast(a, s, e)
    BY <2>1, AppendToConcat
  <2>. HIDE DEF as
  <2>4. Collect(Append(as, e)) = Collected(Collect(as), e)
    BY <2>1, <2>2, CollectAppend
  <2>5. Collect(Append(s, e)) = Collected(Collect(s), e) /\ Collect(s) \in Collections
    BY <2>1, CollectAppend, CollectTyped
  <2>6. Collected(After(found, Collect(s)), e) = After(found, Collected(Collect(s), e))
    BY <1>1, <2>1, <2>5, CollectedAfter
  <2>7. Collect(as) = After(found, Collect(s))
    BY <2>0 DEF as, s
  <2>8. a \o Append(s, e) = Append(as, e)
    BY <2>3 DEF AppendsLast, as
  <2>. QED  BY <2>0, <2>1, <2>4, <2>5, <2>6, <2>7, <2>8
<1>4. \A n \in 0..Len(b) : n \in Good
  <2>. HIDE DEF Good
  <2>. QED  BY <1>1, <1>2, <1>3, StepsUpTo
<1>5. Initial(b, Len(b)) = b /\ Len(b) \in 0..Len(b)
  BY <1>1, InitialGrows
<1>6. whole[Len(b)] = both[Len(b)]
  <2>. HIDE DEF whole, both
  <2>. QED  BY <1>4, <1>5
<1>. QED  BY <1>5, <1>6

\* One that separates nothing stays in the pipeline that is open.
LEMMA CollectedOpen ==
    ASSUME NEW found, NEW open, NEW t \in Tokens, t.op \notin Separators
    PROVE  Collected([pipelines |-> found, open |-> open], t)
               = [pipelines |-> found, open |-> Append(open, t)]
  BY DEF Collected

\* Tokens that separate nothing stay in the pipeline that is open.
LEMMA CollectOpen ==
    ASSUME NEW a \in Seq(Tokens), NEW b \in Seq(Tokens),
           \A i \in 1..Len(b) : b[i].op \notin Separators
    PROVE  Collect(a \o b) = [pipelines |-> Collect(a).pipelines, open |-> Collect(a).open \o b]
<1>. DEFINE found == Collect(a).pipelines
            open == Collect(a).open
            whole == [n \in 0..Len(b) |-> Collect(a \o Initial(b, n))]
            both == [n \in 0..Len(b) |-> [pipelines |-> found, open |-> open \o Initial(b, n)]]
            Good == { n \in 0..Len(b) : whole[n] = both[n] }
<1>1. Len(b) \in Nat /\ Collect(a) \in Collections /\ found \in Seq(Found) /\ open \in Seq(Tokens)
  BY CollectTyped DEF Collections
<1>2. 0 \in Good
  <2>1. Initial(b, 0) = <<>> /\ 0 \in 0..Len(b) /\ a \o <<>> = a
    BY <1>1, InitialGrows
  <2>2. whole[0] = Collect(a) /\ both[0] = [pipelines |-> found, open |-> open \o <<>>]
    BY <2>1
  <2>3. open \o <<>> = open
    <3>. HIDE DEF open
    <3>. QED  BY <1>1
  <2>4. Collect(a) = [pipelines |-> found, open |-> open]
    BY <1>1 DEF Collections
  <2>. HIDE DEF whole, both, found, open
  <2>. QED  BY <2>1, <2>2, <2>3, <2>4
<1>3. \A n \in 0..(Len(b) - 1) : n \in Good => n + 1 \in Good
  <2>. SUFFICES ASSUME NEW n \in 0..(Len(b) - 1), n \in 0..Len(b), n + 1 \in 0..Len(b),
                       whole[n] = both[n]
                PROVE  whole[n + 1] = both[n + 1]
    <3>. HIDE DEF whole, both
    <3>. QED  BY <1>1
  <2>0. /\ Collect(a \o Initial(b, n)) = [pipelines |-> found, open |-> open \o Initial(b, n)]
        /\ whole[n + 1] = Collect(a \o Initial(b, n + 1))
        /\ both[n + 1] = [pipelines |-> found, open |-> open \o Initial(b, n + 1)]
    OBVIOUS
  <2>. HIDE DEF whole, both, found, open
  <2>. DEFINE s == Initial(b, n)
              e == b[n + 1]
  <2>1. s \in Seq(Tokens) /\ e \in Tokens /\ Initial(b, n + 1) = Append(s, e)
    BY InitialGrows
  <2>2. e.op \notin Separators
    <3>1. n + 1 \in 1..Len(b)
      BY <1>1
    <3>. QED  BY <3>1
  <2>. HIDE DEF s, e
  <2>. DEFINE as == a \o s
  <2>3. as \in Seq(Tokens)
    BY <2>1
  <2>4. AppendsLast(a, s, e) /\ AppendsLast(open, s, e)
    BY <1>1, <2>1, AppendToConcat
  <2>. HIDE DEF as
  <2>5. Collect(Append(as, e)) = Collected(Collect(as), e)
    BY <2>1, <2>3, CollectAppend
  <2>. DEFINE os == open \o s
  <2>6. Collect(as) = [pipelines |-> found, open |-> os]
    BY <2>0 DEF as, s
  <2>7. a \o Append(s, e) = Append(as, e) /\ open \o Append(s, e) = Append(os, e)
    BY <2>4 DEF AppendsLast, as
  <2>. HIDE DEF os
  <2>8. Collected(Collect(as), e) = [pipelines |-> found, open |-> Append(os, e)]
    BY <1>1, <2>1, <2>2, <2>6, CollectedOpen
  <2>. DEFINE se == Append(s, e)
  <2>9. a \o se = Append(as, e) /\ open \o se = Append(os, e) /\ Initial(b, n + 1) = se
    BY <2>1, <2>7
  <2>. HIDE DEF se
  <2>10. /\ whole[n + 1] = Collect(a \o se)
         /\ both[n + 1] = [pipelines |-> found, open |-> open \o se]
    BY <2>0, <2>9
  <2>11. whole[n + 1] = [pipelines |-> found, open |-> Append(os, e)]
    BY <2>5, <2>8, <2>9, <2>10
  <2>. QED  BY <2>9, <2>10, <2>11
<1>4. \A n \in 0..Len(b) : n \in Good
  <2>. HIDE DEF Good
  <2>. QED  BY <1>1, <1>2, <1>3, StepsUpTo
<1>5. Initial(b, Len(b)) = b /\ Len(b) \in 0..Len(b)
  BY <1>1, InitialGrows
<1>6. whole[Len(b)] = both[Len(b)]
  <2>. HIDE DEF whole, both
  <2>. QED  BY <1>4, <1>5
<1>. QED  BY <1>5, <1>6

-----------------------------------------------------------------------------
(* The two halves of a line.                                               *)

\* No pipeline of these fails, and none has company it may not have.
Sound(ps) ==
    \A k \in DOMAIN ps :
        PipelineError(ps[k]) = None /\ Standalone(ParsePipeline(ps[k]).stages)
Groups(ps) == [k \in DOMAIN ps |-> ParsePipeline(ps[k])]
AllGroups == { ParsePipeline(p) : p \in Found }

\* A line has no error when its pipelines are sound, and then is made of them.
LEMMA LineOfPipelines ==
    ASSUME NEW ts \in Seq(Tokens)
    PROVE  /\ ParseTokens(ts).error = None <=> Sound(Pipelines(ts))
           /\ Sound(Pipelines(ts)) => ParseTokens(ts).groups = Groups(Pipelines(ts))
<1>1. GroupsOf(ts) = Groups(Pipelines(ts))
  BY DEF GroupsOf, Groups
<1>2. \A k \in DOMAIN Pipelines(ts) : GroupsOf(ts)[k] = ParsePipeline(Pipelines(ts)[k])
  BY DEF GroupsOf
<1>3. Sound(Pipelines(ts)) <=> NoErrors(ts) /\ AllStand(ts)
  BY <1>2 DEF Sound, NoErrors, AllStand
<1>4. CASE /\ ParseTokens(ts) = [error |-> None, groups |-> GroupsOf(ts)]
           /\ NoErrors(ts) /\ AllStand(ts)
  BY <1>1, <1>3, <1>4
<1>5. CASE /\ ParseTokens(ts) \in { Failed(error) : error \in Errors }
           /\ ~(NoErrors(ts) /\ AllStand(ts))
  <2>1. PICK error \in Errors : ParseTokens(ts) = Failed(error)
    BY <1>5
  <2>2. ParseTokens(ts).error = error
    BY <2>1 DEF Failed
  <2>3. error # None
    BY NoneAssumption DEF Errors
  <2>. QED  BY <1>3, <1>5, <2>2, <2>3
<1>. QED  BY <1>4, <1>5, ParsedLine

\* What holds of two sequences of pipelines holds of both together.
SoundBoth(p, q) ==
    /\ Sound(p \o q) <=> Sound(p) /\ Sound(q)
    /\ Groups(p \o q) = Groups(p) \o Groups(q)
LEMMA SoundConcat ==
    ASSUME NEW p \in Seq(Found), NEW q \in Seq(Found)
    PROVE  SoundBoth(p, q) /\ Groups(p) \in Seq(AllGroups) /\ Groups(q) \in Seq(AllGroups)
<1>. DEFINE n == Len(p)
            m == Len(q)
            pq == p \o q
<1>1. /\ n \in Nat /\ m \in Nat /\ pq \in Seq(Found) /\ Len(pq) = n + m
      /\ DOMAIN p = 1..n /\ DOMAIN q = 1..m /\ DOMAIN pq = 1..(n + m)
      /\ \A i \in 1..n : pq[i] = p[i] /\ i \in 1..(n + m)
      /\ \A i \in 1..m : pq[n + i] = q[i] /\ n + i \in 1..(n + m)
      /\ \A i \in 1..(n + m) : i \in 1..n \/ (i - n \in 1..m /\ pq[i] = q[i - n])
  <2>1. pq \in Seq(Found)
    OBVIOUS
  <2>2. /\ Len(pq) = n + m
        /\ \A i \in 1..(n + m) : pq[i] = IF i <= n THEN p[i] ELSE q[i - n]
    BY ConcatProperties
  <2>3. n \in Nat /\ m \in Nat /\ DOMAIN p = 1..n /\ DOMAIN q = 1..m /\ DOMAIN pq = 1..(n + m)
    BY <2>1, <2>2
  <2>. HIDE DEF n, m, pq
  <2>4. ASSUME NEW i \in 1..m PROVE pq[n + i] = q[i] /\ n + i \in 1..(n + m)
    <3>1. n + i \in 1..(n + m) /\ ~(n + i <= n) /\ (n + i) - n = i
      BY <2>3
    <3>. QED  BY <2>2, <3>1
  <2>5. \A i \in 1..n : pq[i] = p[i] /\ i \in 1..(n + m)
    BY <2>2, <2>3
  <2>6. \A i \in 1..(n + m) : i \in 1..n \/ (i - n \in 1..m /\ pq[i] = q[i - n])
    BY <2>2, <2>3
  <2>. QED  BY <2>1, <2>2, <2>3, <2>4, <2>5, <2>6
<1>2. Groups(p) \in Seq(AllGroups) /\ Groups(q) \in Seq(AllGroups)
      /\ Len(Groups(p)) = n /\ Len(Groups(q)) = m
  BY DEF Groups, AllGroups
<1>. HIDE DEF n, m, pq
<1>3. Sound(pq) <=> Sound(p) /\ Sound(q)
  <2>. DEFINE Good(pipeline) == /\ PipelineError(pipeline) = None
                                /\ Standalone(ParsePipeline(pipeline).stages)
  <2>1. /\ Sound(p) <=> \A i \in 1..n : Good(p[i])
        /\ Sound(q) <=> \A i \in 1..m : Good(q[i])
        /\ Sound(pq) <=> \A i \in 1..(n + m) : Good(pq[i])
    BY <1>1 DEF Sound
  <2>. HIDE DEF Good
  <2>2. ASSUME \A i \in 1..(n + m) : Good(pq[i])
        PROVE  (\A i \in 1..n : Good(p[i])) /\ \A i \in 1..m : Good(q[i])
    <3>1. \A i \in 1..n : Good(p[i])
      BY <1>1, <2>2
    <3>2. \A i \in 1..m : Good(q[i])
      BY <1>1, <2>2
    <3>. QED  BY <3>1, <3>2
  <2>3. ASSUME \A i \in 1..n : Good(p[i]), \A i \in 1..m : Good(q[i])
        PROVE  \A i \in 1..(n + m) : Good(pq[i])
    BY <1>1, <2>3
  <2>. QED  BY <2>1, <2>2, <2>3
<1>. DEFINE l == Groups(pq)
            r == Groups(p) \o Groups(q)
<1>4. /\ l \in Seq(AllGroups) /\ Len(l) = n + m
      /\ \A i \in 1..(n + m) : l[i] = ParsePipeline(pq[i])
  BY <1>1 DEF Groups, AllGroups
<1>5. /\ r \in Seq(AllGroups) /\ Len(r) = n + m
      /\ \A i \in 1..(n + m) : r[i] = IF i <= n THEN Groups(p)[i] ELSE Groups(q)[i - n]
  <2>. DEFINE gp == Groups(p)
              gq == Groups(q)
  <2>1. gp \in Seq(AllGroups) /\ gq \in Seq(AllGroups) /\ Len(gp) = n /\ Len(gq) = m
    BY <1>2
  <2>. HIDE DEF gp, gq
  <2>2. /\ Len(gp \o gq) = Len(gp) + Len(gq)
        /\ \A i \in 1..(Len(gp) + Len(gq)) :
              (gp \o gq)[i] = IF i <= Len(gp) THEN gp[i] ELSE gq[i - Len(gp)]
    BY <2>1, ConcatProperties
  <2>3. gp \o gq \in Seq(AllGroups)
    BY <2>1
  <2>4. /\ Len(gp \o gq) = n + m
        /\ \A i \in 1..(n + m) : (gp \o gq)[i] = IF i <= n THEN gp[i] ELSE gq[i - n]
    BY <2>1, <2>2
  <2>. QED  BY <2>3, <2>4 DEF gp, gq
<1>6. ASSUME NEW i \in 1..(n + m) PROVE l[i] = r[i]
  <2>1. CASE i <= n
    <3>1. i \in 1..n
      BY <1>1, <2>1
    <3>2. Groups(p)[i] = ParsePipeline(p[i])
      BY <1>1, <3>1 DEF Groups
    <3>. QED  BY <1>1, <1>4, <1>5, <2>1, <3>1, <3>2
  <2>2. CASE ~(i <= n)
    <3>1. i - n \in 1..m /\ pq[i] = q[i - n]
      BY <1>1, <2>2
    <3>2. Groups(q)[i - n] = ParsePipeline(q[i - n])
      BY <1>1, <3>1 DEF Groups
    <3>. QED  BY <1>4, <1>5, <2>2, <3>1, <3>2
  <2>. QED  BY <2>1, <2>2
<1>. HIDE DEF l, r
<1>7. l = r
  BY <1>4, <1>5, <1>6, SeqEqual
<1>. QED  BY <1>2, <1>3, <1>7 DEF SoundBoth, l, r, pq

\* What the end makes of what is open.
Alone(open, separator) == IF open = <<>> THEN <<>> ELSE << Pipeline(open, separator) >>

\* Ending adds one pipeline at most.
LEMMA EndedAdds ==
    ASSUME NEW got \in Collections, NEW separator \in Separators \cup {"End"}
    PROVE  /\ Ended(got, separator).pipelines = got.pipelines \o Alone(got.open, separator)
           /\ Ended(got, separator).open = <<>>
           /\ Alone(got.open, separator) \in Seq(Found)
<1>. DEFINE ps == got.pipelines
            p == Pipeline(got.open, separator)
<1>1. ps \in Seq(Found) /\ got.open \in Seq(Tokens)
  BY DEF Collections
<1>2. CASE got.open = <<>>
  <2>. HIDE DEF ps
  <2>1. ps \o <<>> = ps
    BY <1>1
  <2>2. Alone(got.open, separator) = <<>> /\ Ended(got, separator) = got
    BY <1>2 DEF Alone, Ended
  <2>3. <<>> \in Seq(Found)
    OBVIOUS
  <2>. QED  BY <1>2, <2>1, <2>2, <2>3 DEF ps
<1>3. CASE got.open # <<>>
  <2>1. p \in Found
    BY <1>1, <1>3 DEF Found, Pipeline
  <2>2. Alone(got.open, separator) = <<p>>
        /\ Ended(got, separator) = [pipelines |-> Append(ps, p), open |-> <<>>]
    BY <1>3 DEF Alone, Ended
  <2>. HIDE DEF ps, p
  <2>3. ps \o <<p>> = Append(ps, p) /\ <<p>> \in Seq(Found)
    BY <1>1, <2>1
  <2>. QED  BY <2>2, <2>3 DEF ps
<1>. QED  BY <1>2, <1>3

\* After a separator nothing is open, and the pipelines go on from there.
FoundInHalves(a, b) == Pipelines(a \o b) = Pipelines(a) \o Pipelines(b)
LEMMA PipelinesConcat ==
    ASSUME NEW a \in Seq(Tokens), NEW b \in Seq(Tokens), Collect(a).open = <<>>
    PROVE  FoundInHalves(a, b)
<1>. DEFINE found == Collect(a).pipelines
            got == Collect(b)
<1>1. Collect(a) \in Collections /\ got \in Collections /\ found \in Seq(Found)
  BY CollectTyped DEF Collections
<1>2. Pipelines(a) = found
  <2>1. Ended(Collect(a), "End") = Collect(a)
    BY DEF Ended
  <2>. QED  BY <2>1, CollectTyped
<1>3. Collect(a \o b) = After(found, got)
  BY CollectConcat
<1>4. a \o b \in Seq(Tokens)
  OBVIOUS
<1>5. Pipelines(a \o b) = Ended(Collect(a \o b), "End").pipelines
  BY <1>4, CollectTyped
<1>6. Pipelines(b) = Ended(got, "End").pipelines
  BY CollectTyped
<1>. HIDE DEF found, got
<1>7. Ended(After(found, got), "End") = After(found, Ended(got, "End"))
  <2>1. Token("Pipe", <<>>) \in Tokens
    BY DEF Tokens, Ops
  <2>. QED  BY <1>1, <2>1, CollectedAfter
<1>8. After(found, Ended(got, "End")).pipelines = found \o Ended(got, "End").pipelines
  BY DEF After
<1>9. Pipelines(a \o b) = found \o Pipelines(b)
  BY <1>3, <1>5, <1>6, <1>7, <1>8
<1>. QED  BY <1>2, <1>9 DEF FoundInHalves

\* A separator ends what is open.
LEMMA SeparatorEnds ==
    ASSUME NEW ts \in Seq(Tokens), NEW t \in Tokens, t.op \in Separators
    PROVE  /\ Collect(Append(ts, t)).open = <<>>
           /\ Pipelines(Append(ts, t)) = Collect(ts).pipelines \o Alone(Collect(ts).open, t.op)
<1>1. Collect(ts) \in Collections
  BY CollectTyped
<1>2. Collect(Append(ts, t)) = Ended(Collect(ts), t.op)
  BY CollectAppend DEF Collected
<1>3. /\ Ended(Collect(ts), t.op).pipelines = Collect(ts).pipelines \o Alone(Collect(ts).open, t.op)
      /\ Ended(Collect(ts), t.op).open = <<>>
  BY <1>1, EndedAdds
<1>4. Append(ts, t) \in Seq(Tokens)
  OBVIOUS
<1>5. Pipelines(Append(ts, t)) = Ended(Collect(Append(ts, t)), "End").pipelines
  BY <1>4, CollectTyped
<1>6. Ended(Collect(Append(ts, t)), "End") = Collect(Append(ts, t))
  BY <1>2, <1>3 DEF Ended
<1>. QED  BY <1>2, <1>3, <1>5, <1>6

-----------------------------------------------------------------------------
(* A pipeline cut at a pipe.                                               *)

\* Where the elements of two sequences are in both together.
Concatenated(p, q) ==
    /\ Len(p \o q) = Len(p) + Len(q)
    /\ DOMAIN p = 1..Len(p) /\ DOMAIN q = 1..Len(q) /\ DOMAIN (p \o q) = 1..(Len(p) + Len(q))
    /\ Len(p) \in Nat /\ Len(q) \in Nat
    /\ \A i \in 1..(Len(p) + Len(q)) :
          IF i <= Len(p) THEN i \in 1..Len(p) /\ (p \o q)[i] = p[i]
          ELSE i - Len(p) \in 1..Len(q) /\ (p \o q)[i] = q[i - Len(p)]
    /\ \A i \in 1..Len(p) : (p \o q)[i] = p[i] /\ i \in 1..(Len(p) + Len(q))
    /\ \A i \in 1..Len(q) : /\ (p \o q)[Len(p) + i] = q[i]
                            /\ Len(p) + i \in 1..(Len(p) + Len(q))
LEMMA ConcatenatedSeqs ==
    ASSUME NEW R, NEW p \in Seq(R), NEW q \in Seq(R)
    PROVE  Concatenated(p, q) /\ p \o q \in Seq(R)
<1>. DEFINE n == Len(p)
            m == Len(q)
            pq == p \o q
<1>1. pq \in Seq(R)
  OBVIOUS
<1>2. /\ Len(pq) = n + m
      /\ \A i \in 1..(n + m) : pq[i] = IF i <= n THEN p[i] ELSE q[i - n]
  BY ConcatProperties
<1>3. n \in Nat /\ m \in Nat /\ DOMAIN p = 1..n /\ DOMAIN q = 1..m /\ DOMAIN pq = 1..(n + m)
  BY <1>1, <1>2
<1>. HIDE DEF n, m, pq
<1>4. ASSUME NEW i \in 1..m PROVE pq[n + i] = q[i] /\ n + i \in 1..(n + m)
  <2>1. n + i \in 1..(n + m) /\ ~(n + i <= n) /\ (n + i) - n = i
    BY <1>3
  <2>. QED  BY <1>2, <2>1
<1>5. ASSUME NEW i \in 1..n PROVE pq[i] = p[i] /\ i \in 1..(n + m)
  BY <1>2, <1>3
<1>6. ASSUME NEW i \in 1..(n + m)
      PROVE  IF i <= n THEN i \in 1..n /\ pq[i] = p[i]
             ELSE i - n \in 1..m /\ pq[i] = q[i - n]
  BY <1>2, <1>3
<1>. QED  BY <1>1, <1>2, <1>3, <1>4, <1>5, <1>6 DEF Concatenated, n, m, pq

\* A pipeline that can be part of a line.
Fine(pipeline) ==
    PipelineError(pipeline) = None /\ Standalone(ParsePipeline(pipeline).stages)

Pipe == Token("Pipe", <<>>)
AllStages == { ParseStage(stage) : stage \in Seq(Tokens) }

\* The stages of a pipeline are parsed one by one.
LEMMA StagesParsed ==
    ASSUME NEW ts \in Seq(Tokens), ts # <<>>, NEW separator \in Separators \cup {"End"},
           NEW stages, stages = Split(ts, Pipe)
    PROVE  /\ Pipeline(ts, separator) \in Found
           /\ stages \in Seq(Seq(Tokens)) /\ Len(stages) >= 1
           /\ PipelineError(Pipeline(ts, separator)) = None <=>
                 \A j \in DOMAIN stages : StageError(stages[j]) = None
           /\ ParsePipeline(Pipeline(ts, separator))
                 = [stages |-> [j \in DOMAIN stages |-> ParseStage(stages[j])],
                    separator |-> separator]
<1>1. Pipeline(ts, separator) \in Found
  BY DEF Found, Pipeline
<1>2. Stages(Pipeline(ts, separator)) = stages
  BY DEF Stages, Pipeline, Pipe
<1>3. stages \in Parts(Tokens)
  BY <1>1, <1>2, PipelineErrorTyped
<1>4. PipelineError(Pipeline(ts, separator)) = None <=>
          \A j \in DOMAIN stages : StageError(stages[j]) = None
  BY <1>1, <1>2, PipelineErrorTyped
<1>5. Pipeline(ts, separator).separator = separator
  BY DEF Pipeline
<1>6. ParsePipeline(Pipeline(ts, separator))
          = [stages |-> [j \in DOMAIN stages |-> ParseStage(stages[j])], separator |-> separator]
  BY <1>2, <1>5 DEF ParsePipeline
<1>7. stages \in Seq(Seq(Tokens)) /\ Len(stages) >= 1
  <2>1. stages \in Seq(Seq(Tokens)) /\ stages # <<>>
    BY <1>3 DEF Parts
  <2>. DEFINE S == Seq(Tokens)
  <2>2. stages \in Seq(S)
    BY <2>1
  <2>. HIDE DEF S
  <2>3. Len(stages) >= 1
    BY <2>1, <2>2
  <2>. QED  BY <2>1, <2>3
<1>. QED  BY <1>1, <1>4, <1>6, <1>7

\* A stage without tokens has no tool.
LEMMA EmptyStage == StageError(<<>>) # None
<1>1. Words(<<>>) = <<>>
  <2>. DEFINE kept == { i \in DOMAIN <<>> : /\ <<>>[i].op = "Word"
                                            /\ i > 1 => <<>>[i - 1].op \notin Redirections }
              at == InOrder(<<>>, kept)
  <2>1. [i \in DOMAIN <<>> |-> i] = <<>>
    OBVIOUS
  <2>2. at = <<>>
    BY <2>1, KeptEmpty DEF InOrder
  <2>. HIDE DEF at
  <2>3. [k \in DOMAIN at |-> <<>>[at[k]].text] = <<>>
    BY <2>2
  <2>. QED  BY <2>3 DEF Words, at
<1>. QED  BY <1>1, NoneAssumption DEF StageError

\* Both sides of a pipe are pipelines, and the stages are those of both.
LEMMA FineAtPipe ==
    ASSUME NEW o \in Seq(Tokens), NEW q \in Seq(Tokens), NEW separator \in Separators \cup {"End"},
           Fine(Pipeline(Append(o, Pipe) \o q, separator))
    PROVE  /\ o # <<>> /\ q # <<>>
           /\ Fine(Pipeline(o, "End")) /\ Fine(Pipeline(q, separator))
           /\ ParsePipeline(Pipeline(Append(o, Pipe) \o q, separator))
                 = Piped(ParsePipeline(Pipeline(o, "End")), ParsePipeline(Pipeline(q, separator)))
<1>. DEFINE S == Seq(Tokens)
            os == Split(o, Pipe)
            qs == Split(q, Pipe)
            ts == Append(o, Pipe) \o q
            stages == os \o qs
<1>1. Pipe \in Tokens /\ ts \in Seq(Tokens) /\ ts # <<>>
  <2>1. Pipe \in Tokens
    BY DEF Pipe, Tokens, Ops
  <2>2. Append(o, Pipe) \in Seq(Tokens) /\ Append(o, Pipe) # <<>>
    BY <2>1
  <2>. DEFINE op == Append(o, Pipe)
  <2>. HIDE DEF op
  <2>3. op \o q \in Seq(Tokens) /\ op \o q # <<>>
    BY <2>2 DEF op
  <2>. QED  BY <2>1, <2>3 DEF op
<1>2. stages = Split(ts, Pipe)
  BY <1>1, SplitConcat
<1>3. /\ stages \in Seq(Seq(Tokens)) /\ Len(stages) >= 1
      /\ \A j \in DOMAIN stages : StageError(stages[j]) = None
      /\ ParsePipeline(Pipeline(ts, separator))
            = [stages |-> [j \in DOMAIN stages |-> ParseStage(stages[j])], separator |-> separator]
  <2>1. Fine(Pipeline(ts, separator))
    OBVIOUS
  <2>. HIDE DEF stages, ts
  <2>2. /\ stages \in Seq(Seq(Tokens)) /\ Len(stages) >= 1
        /\ PipelineError(Pipeline(ts, separator)) = None <=>
              \A j \in DOMAIN stages : StageError(stages[j]) = None
        /\ ParsePipeline(Pipeline(ts, separator))
              = [stages |-> [j \in DOMAIN stages |-> ParseStage(stages[j])],
                 separator |-> separator]
    BY <1>1, <1>2, StagesParsed
  <2>. QED  BY <2>1, <2>2 DEF Fine
<1>4. os \in Seq(S) /\ qs \in Seq(S) /\ os # <<>> /\ qs # <<>>
  BY <1>1, SplitAppend DEF Parts
<1>5. /\ o = <<>> => os = << <<>> >>
      /\ q = <<>> => qs = << <<>> >>
  <2>1. PICK f \in SplitRuns(Tokens, o, Pipe) : TRUE
    BY SplitSteps
  <2>2. PICK g \in SplitRuns(Tokens, q, Pipe) : TRUE
    BY SplitSteps
  <2>3. f[0] = << <<>> >> /\ f[Len(o)] = os /\ g[0] = << <<>> >> /\ g[Len(q)] = qs
    BY <2>1, <2>2 DEF SplitRuns
  <2>4. o = <<>> => Len(o) = 0
    OBVIOUS
  <2>5. q = <<>> => Len(q) = 0
    OBVIOUS
  <2>. QED  BY <2>3, <2>4, <2>5
<1>6. Concatenated(os, qs)
  <2>. HIDE DEF S, os, qs
  <2>. QED  BY <1>4, ConcatenatedSeqs
<1>7. /\ DOMAIN stages = 1..(Len(os) + Len(qs)) /\ DOMAIN os = 1..Len(os) /\ DOMAIN qs = 1..Len(qs)
      /\ Len(os) >= 1 /\ Len(qs) >= 1 /\ Len(os) \in Nat /\ Len(qs) \in Nat
  <2>1. Len(os) >= 1 /\ Len(qs) >= 1
    <3>. HIDE DEF S, os, qs
    <3>. QED  BY <1>4
  <2>. QED  BY <1>6, <2>1 DEF Concatenated
<1>. HIDE DEF S, os, qs, stages, ts
<1>8. /\ \A i \in 1..Len(os) : stages[i] = os[i] /\ i \in 1..(Len(os) + Len(qs))
      /\ \A i \in 1..Len(qs) : /\ stages[Len(os) + i] = qs[i]
                               /\ Len(os) + i \in 1..(Len(os) + Len(qs))
      /\ \A i \in 1..(Len(os) + Len(qs)) :
            IF i <= Len(os) THEN i \in 1..Len(os) /\ stages[i] = os[i]
            ELSE i - Len(os) \in 1..Len(qs) /\ stages[i] = qs[i - Len(os)]
  BY <1>6 DEF Concatenated, stages
<1>9. /\ \A j \in DOMAIN os : StageError(os[j]) = None
      /\ \A j \in DOMAIN qs : StageError(qs[j]) = None
  <2>1. ASSUME NEW j \in DOMAIN os PROVE StageError(os[j]) = None
    BY <1>3, <1>7, <1>8
  <2>2. ASSUME NEW j \in DOMAIN qs PROVE StageError(qs[j]) = None
    <3>1. j \in 1..Len(qs)
      BY <1>7
    <3>2. StageError(stages[Len(os) + j]) = None /\ stages[Len(os) + j] = qs[j]
      BY <1>3, <1>7, <1>8, <3>1
    <3>. QED  BY <3>2
  <2>. QED  BY <2>1, <2>2
<1>10. o # <<>> /\ q # <<>>
  <2>1. ASSUME o = <<>> PROVE FALSE
    <3>1. os[1] = <<>> /\ 1 \in DOMAIN os
      BY <1>5, <1>7, <2>1
    <3>. QED  BY <1>9, <3>1, EmptyStage
  <2>2. ASSUME q = <<>> PROVE FALSE
    <3>1. qs[1] = <<>> /\ 1 \in DOMAIN qs
      BY <1>5, <1>7, <2>2
    <3>. QED  BY <1>9, <3>1, EmptyStage
  <2>. QED  BY <2>1, <2>2
<1>. DEFINE ops == [j \in DOMAIN os |-> ParseStage(os[j])]
            qps == [j \in DOMAIN qs |-> ParseStage(qs[j])]
            all == [j \in DOMAIN stages |-> ParseStage(stages[j])]
<1>11. /\ PipelineError(Pipeline(o, "End")) = None
       /\ ParsePipeline(Pipeline(o, "End")) = [stages |-> ops, separator |-> "End"]
  BY <1>9, <1>10, StagesParsed DEF os
<1>12. /\ PipelineError(Pipeline(q, separator)) = None
       /\ ParsePipeline(Pipeline(q, separator)) = [stages |-> qps, separator |-> separator]
  BY <1>9, <1>10, StagesParsed DEF qs
<1>13. ParsePipeline(Pipeline(ts, separator)) = [stages |-> all, separator |-> separator]
  BY <1>3
<1>14. os \in Seq(Seq(Tokens)) /\ qs \in Seq(Seq(Tokens))
  BY <1>4 DEF S
<1>15. /\ ops \in Seq(AllStages) /\ Len(ops) = Len(os) /\ DOMAIN ops = 1..Len(os)
       /\ qps \in Seq(AllStages) /\ Len(qps) = Len(qs) /\ DOMAIN qps = 1..Len(qs)
  <2>1. ASSUME NEW j \in 1..Len(os) PROVE ParseStage(os[j]) \in AllStages
    <3>1. os[j] \in Seq(Tokens)
      BY <1>4, <1>7 DEF S
    <3>. QED  BY <3>1 DEF AllStages
  <2>2. ASSUME NEW j \in 1..Len(qs) PROVE ParseStage(qs[j]) \in AllStages
    <3>1. qs[j] \in Seq(Tokens)
      BY <1>4, <1>7 DEF S
    <3>. QED  BY <3>1 DEF AllStages
  <2>. HIDE DEF AllStages
  <2>3. ops \in [1..Len(os) -> AllStages] /\ qps \in [1..Len(qs) -> AllStages]
    BY <1>7, <2>1, <2>2
  <2>. HIDE DEF ops, qps
  <2>. QED  BY <1>7, <2>3
<1>16. /\ DOMAIN all = 1..(Len(os) + Len(qs))
       /\ \A i \in 1..Len(os) : all[i] = ops[i]
       /\ \A i \in 1..Len(qs) : all[Len(os) + i] = qps[i]
       /\ \A i \in 1..(Len(os) + Len(qs)) :
             all[i] = IF i <= Len(os) THEN ops[i] ELSE qps[i - Len(os)]
  <2>1. ASSUME NEW i \in 1..Len(os) PROVE all[i] = ops[i]
    BY <1>7, <1>8
  <2>2. ASSUME NEW i \in 1..Len(qs) PROVE all[Len(os) + i] = qps[i]
    BY <1>7, <1>8
  <2>3. ASSUME NEW i \in 1..(Len(os) + Len(qs))
        PROVE  all[i] = IF i <= Len(os) THEN ops[i] ELSE qps[i - Len(os)]
    BY <1>7, <1>8
  <2>. QED  BY <1>7, <2>1, <2>2, <2>3
<1>17. Concatenated(ops, qps) /\ ops \o qps \in Seq(AllStages)
  <2>. HIDE DEF ops, qps
  <2>. QED  BY <1>15, ConcatenatedSeqs
<1>. HIDE DEF ops, qps, all
<1>18. all = ops \o qps
  <2>. DEFINE r == ops \o qps
              n == Len(os)
              m == Len(qs)
  <2>1. /\ r \in Seq(AllStages) /\ Len(r) = n + m
        /\ \A i \in 1..(n + m) : r[i] = IF i <= n THEN ops[i] ELSE qps[i - n]
    BY <1>15, <1>17 DEF Concatenated
  <2>. HIDE DEF r, n, m
  <2>2. \A i \in 1..(n + m) : r[i] = all[i]
    BY <1>16, <2>1 DEF n, m
  <2>3. n + m \in Nat /\ DOMAIN all = 1..(n + m)
    BY <1>7, <1>16 DEF n, m
  <2>4. r = [i \in 1..(n + m) |-> r[i]] /\ all = [i \in 1..(n + m) |-> all[i]]
    <3>1. DOMAIN r = 1..(n + m)
      BY <2>1
    <3>2. r = [i \in DOMAIN r |-> r[i]]
      BY <2>1
    <3>3. all = [i \in DOMAIN all |-> all[i]]
      BY DEF all
    <3>. QED  BY <2>3, <3>1, <3>2, <3>3
  <2>5. r = all
    BY <2>2, <2>4
  <2>. QED  BY <2>5 DEF r
<1>19. ParsePipeline(Pipeline(ts, separator))
          = Piped(ParsePipeline(Pipeline(o, "End")), ParsePipeline(Pipeline(q, separator)))
  <2>. DEFINE x == ParsePipeline(Pipeline(o, "End"))
              y == ParsePipeline(Pipeline(q, separator))
  <2>1. x.stages = ops /\ y.stages = qps /\ y.separator = separator
    BY <1>11, <1>12
  <2>. HIDE DEF x, y
  <2>2. Piped(x, y) = [stages |-> ops \o qps, separator |-> separator]
    BY <2>1 DEF Piped
  <2>. QED  BY <1>13, <1>18, <2>2 DEF x, y
<1>20. Standalone(ops) /\ Standalone(qps)
  <2>1. Standalone(all)
    BY <1>13 DEF Fine, ts
  <2>2. Len(all) = Len(os) + Len(qs)
    BY <1>15, <1>17, <1>18 DEF Concatenated
  <2>3. \A j \in 1..(Len(os) + Len(qs)) : all[j].tool \notin TransactionControl
    BY <1>7, <1>16, <2>1, <2>2 DEF Standalone
  <2>4. ASSUME NEW j \in 1..Len(os) PROVE ops[j].tool \notin TransactionControl
    BY <1>8, <1>16, <2>3
  <2>5. ASSUME NEW j \in 1..Len(qs) PROVE qps[j].tool \notin TransactionControl
    BY <1>8, <1>16, <2>3
  <2>. QED  BY <1>15, <2>4, <2>5 DEF Standalone
<1>. QED  BY <1>10, <1>11, <1>12, <1>19, <1>20 DEF Fine, ts

-----------------------------------------------------------------------------
(* A line cut at a pipe.                                                   *)

(* The pipelines before the one at the cut, its tokens on both sides, what *)
(* ends it, and the pipelines after it.                                    *)
Cuts == [before : Seq(Found), left : Seq(Tokens), right : Seq(Tokens),
         separator : Separators \cup {"End"}, after : Seq(Found)]
CutAt(a, b, c) ==
    /\ Pipelines(a) = c.before \o Alone(c.left, "End")
    /\ Pipelines(b) = Alone(c.right, c.separator) \o c.after
    /\ Pipelines(Append(a, Pipe) \o b)
           = c.before \o (<< Pipeline(Append(c.left, Pipe) \o c.right, c.separator) >> \o c.after)

\* What is open before a pipe is still open after it, and a piece further on.
LEMMA CollectPiece ==
    ASSUME NEW a \in Seq(Tokens), NEW b \in Seq(Tokens),
           \A i \in 1..Len(b) : b[i].op \notin Separators
    PROVE  /\ Append(a, Pipe) \o b \in Seq(Tokens)
           /\ Collect(Append(a, Pipe) \o b)
                 = [pipelines |-> Collect(a).pipelines,
                    open |-> Append(Collect(a).open, Pipe) \o b]
           /\ Collect(b) = [pipelines |-> <<>>, open |-> b]
<1>1. Pipe \in Tokens /\ Pipe.op \notin Separators
  BY DEF Pipe, Token, Tokens, Ops, Separators
<1>. DEFINE ap == Append(a, Pipe)
            open == Collect(a).open
            found == Collect(a).pipelines
<1>2. ap \in Seq(Tokens)
  BY <1>1
<1>3. Collect(a) = [pipelines |-> found, open |-> open]
  BY CollectTyped DEF Collections
<1>4. Collect(ap) = Collected(Collect(a), Pipe)
  BY <1>1, CollectAppend
<1>5. <<>> \in Seq(Tokens) /\ <<>> \o b = b
  OBVIOUS
<1>6. Collect(<<>>) = [pipelines |-> <<>>, open |-> <<>>]
  BY CollectTyped, <1>5 DEF Start
<1>. HIDE DEF open, found, ap
<1>7. Collect(ap) = [pipelines |-> found, open |-> Append(open, Pipe)]
  BY <1>1, <1>3, <1>4, CollectedOpen
<1>8. Collect(ap \o b) = [pipelines |-> Collect(ap).pipelines, open |-> Collect(ap).open \o b]
  BY <1>2, CollectOpen
<1>9. Collect(ap).pipelines = found /\ Collect(ap).open = Append(open, Pipe)
  BY <1>7
<1>10. Collect(<<>> \o b) = [pipelines |-> Collect(<<>>).pipelines, open |-> Collect(<<>>).open \o b]
  BY <1>5, CollectOpen
<1>11. Collect(b) = [pipelines |-> <<>>, open |-> b]
  <2>1. Collect(<<>>).pipelines = <<>> /\ Collect(<<>>).open = <<>>
    BY <1>6
  <2>2. Collect(b) = [pipelines |-> Collect(<<>>).pipelines, open |-> Collect(<<>>).open \o b]
    BY <1>5, <1>10
  <2>3. Collect(<<>>).open \o b = b
    BY <1>5, <2>1
  <2>. QED  BY <2>1, <2>2, <2>3
<1>12. ap \o b \in Seq(Tokens)
  BY <1>2
<1>. QED  BY <1>8, <1>9, <1>11, <1>12 DEF ap, open, found

\* Adding a symbol to a sequence leaves a sequence, and not an empty one.
LEMMA AppendKeeps ==
    ASSUME NEW S, NEW s \in Seq(S), NEW x \in S
    PROVE  Append(s, x) \in Seq(S) /\ Append(s, x) # <<>>
<1>1. Append(s, x) \in Seq(S)
  OBVIOUS
<1>2. Len(Append(s, x)) = Len(s) + 1 /\ Len(s) \in Nat
  OBVIOUS
<1>3. Append(s, x) # <<>>
  BY <1>2
<1>. QED  BY <1>1, <1>3

\* The pipeline at the cut reaches as far as the next separator.
LEMMA CutsAtPipe ==
    ASSUME NEW a \in Seq(Tokens), NEW b \in Seq(Tokens)
    PROVE  { c \in Cuts : CutAt(a, b, c) } # {}
<1>. DEFINE P == Collect(a).pipelines
            o == Collect(a).open
            ap == Append(a, Pipe)
            op == Append(o, Pipe)
<1>1. /\ Collect(a) \in Collections /\ P \in Seq(Found) /\ o \in Seq(Tokens)
      /\ Pipe \in Tokens /\ ap \in Seq(Tokens) /\ op \in Seq(Tokens) /\ op # <<>>
  <2>1. Collect(a) \in Collections /\ P \in Seq(Found) /\ o \in Seq(Tokens)
    BY CollectTyped DEF Collections
  <2>2. Pipe \in Tokens
    BY DEF Pipe, Tokens, Ops
  <2>. HIDE DEF P, o
  <2>3. ap \in Seq(Tokens)
    BY <2>2, AppendKeeps
  <2>4. op \in Seq(Tokens) /\ op # <<>>
    BY <2>1, <2>2, AppendKeeps
  <2>. HIDE DEF ap, op
  <2>. QED  BY <2>1, <2>2, <2>3, <2>4
<1>2. Pipelines(a) = P \o Alone(o, "End")
  <2>1. Ended(Collect(a), "End").pipelines = P \o Alone(o, "End")
    BY <1>1, EndedAdds
  <2>. QED  BY <2>1, CollectTyped
<1>. DEFINE Ends == { i \in 1..Len(b) : b[i].op \in Separators }
<1>3. CASE Ends = {}
  <2>1. /\ ap \o b \in Seq(Tokens)
        /\ Collect(ap \o b) = [pipelines |-> P, open |-> op \o b]
        /\ Collect(b) = [pipelines |-> <<>>, open |-> b]
    BY <1>3, CollectPiece
  <2>. DEFINE w == Pipeline(op \o b, "End")
              c == [before |-> P, left |-> o, right |-> b, separator |-> "End", after |-> <<>>]
  <2>. HIDE DEF P, o, ap, op
  <2>2. op \o b # <<>>
    BY <1>1
  <2>3. Collect(ap \o b) \in Collections /\ Collect(b) \in Collections
    BY <2>1, CollectTyped
  <2>4. Pipelines(ap \o b) = P \o <<w>>
    <3>1. Ended(Collect(ap \o b), "End").pipelines = P \o Alone(op \o b, "End")
      <4>. DEFINE got == Collect(ap \o b)
      <4>1. got.pipelines = P /\ got.open = op \o b /\ got \in Collections
        BY <2>1, <2>3
      <4>. HIDE DEF got
      <4>2. Ended(got, "End").pipelines = got.pipelines \o Alone(got.open, "End")
        BY <4>1, EndedAdds
      <4>. QED  BY <4>1, <4>2 DEF got
    <3>2. Alone(op \o b, "End") = <<w>>
      BY <2>2 DEF Alone
    <3>. QED  BY <2>1, <3>1, <3>2, CollectTyped
  <2>5. Pipelines(b) = Alone(b, "End") /\ Alone(b, "End") \in Seq(Found)
    <3>1. /\ Ended(Collect(b), "End").pipelines = <<>> \o Alone(b, "End")
          /\ Alone(b, "End") \in Seq(Found)
      <4>. DEFINE got == Collect(b)
      <4>1. got.pipelines = <<>> /\ got.open = b /\ got \in Collections
        BY <2>1, <2>3
      <4>. HIDE DEF got
      <4>2. /\ Ended(got, "End").pipelines = got.pipelines \o Alone(got.open, "End")
            /\ Alone(got.open, "End") \in Seq(Found)
        BY <4>1, EndedAdds
      <4>. QED  BY <4>1, <4>2 DEF got
    <3>2. <<>> \o Alone(b, "End") = Alone(b, "End")
      BY <3>1
    <3>. QED  BY <3>1, <3>2, CollectTyped
  <2>6. Alone(b, "End") \o <<>> = Alone(b, "End") /\ <<w>> \o <<>> = <<w>>
    <3>1. <<w>> \in Seq({w})
      OBVIOUS
    <3>. HIDE DEF w
    <3>2. <<w>> \o <<>> = <<w>>
      OBVIOUS
    <3>. QED  BY <2>5, <3>2
  <2>7. c \in Cuts
    BY <1>1 DEF Cuts
  <2>8. /\ c.before = P /\ c.left = o /\ c.right = b /\ c.separator = "End" /\ c.after = <<>>
    OBVIOUS
  <2>9. Pipelines(ap \o b) = c.before \o (<< Pipeline(Append(c.left, Pipe) \o c.right, c.separator) >> \o c.after)
    <3>1. Pipeline(Append(c.left, Pipe) \o c.right, c.separator) = w
      BY <2>8 DEF op
    <3>. HIDE DEF c, w
    <3>. QED  BY <2>4, <2>6, <2>8, <3>1
  <2>10. Pipelines(b) = Alone(c.right, c.separator) \o c.after
    BY <2>5, <2>6, <2>8
  <2>11. Pipelines(a) = c.before \o Alone(c.left, "End")
    BY <1>2, <2>8
  <2>. HIDE DEF c
  <2>12. CutAt(a, b, c)
    BY <2>9, <2>10, <2>11 DEF CutAt, ap
  <2>. QED  BY <2>7, <2>12
<1>4. CASE Ends # {}
  <2>. DEFINE m == Min(Ends)
              q == SubSeq(b, 1, m - 1)
              s == b[m]
              r == SubSeq(b, m + 1, Len(b))
  <2>1. m \in Ends /\ \A i \in Ends : m <= i
    <3>1. Ends \subseteq Nat
      OBVIOUS
    <3>. HIDE DEF Ends
    <3>. QED  BY <1>4, <3>1, MinOf
  <2>. HIDE DEF m, P, o, ap, op
  <2>2. /\ m \in 1..Len(b) /\ m \in Nat /\ s.op \in Separators /\ s \in Tokens /\ Len(b) \in Nat
        /\ \A i \in 1..(m - 1) : b[i].op \notin Separators
    BY <2>1
  <2>3. q \in Seq(Tokens) /\ Len(q) = m - 1 /\ \A i \in 1..(m - 1) : q[i] = b[i]
    BY <2>2
  <2>4. r \in Seq(Tokens) /\ Len(r) = Len(b) - m /\ \A i \in 1..(Len(b) - m) : r[i] = b[m + i]
    BY <2>2
  <2>5. b = Append(q, s) \o r
    <3>. DEFINE qs == Append(q, s)
    <3>1. /\ qs \in Seq(Tokens) /\ Len(qs) = m
          /\ \A i \in 1..m : qs[i] = b[i]
      BY <2>2, <2>3
    <3>. HIDE DEF q, r, s, qs
    <3>2. Concatenated(qs, r) /\ qs \o r \in Seq(Tokens)
      BY <2>4, <3>1, ConcatenatedSeqs
    <3>. DEFINE l == qs \o r
    <3>3. /\ l \in Seq(Tokens) /\ Len(l) = Len(b)
      BY <2>2, <2>4, <3>1, <3>2 DEF Concatenated
    <3>4. ASSUME NEW i \in 1..Len(b) PROVE l[i] = b[i]
      <4>1. IF i <= m THEN i \in 1..m /\ l[i] = qs[i]
            ELSE i - m \in 1..(Len(b) - m) /\ l[i] = r[i - m]
        <5>1. Len(qs) + Len(r) = Len(b)
          BY <2>2, <2>4, <3>1
        <5>. QED  BY <2>4, <3>1, <3>2, <5>1 DEF Concatenated
      <4>2. i > m => m + (i - m) = i
        BY <2>2
      <4>. HIDE DEF l
      <4>. QED  BY <2>2, <2>4, <3>1, <4>1, <4>2
    <3>. HIDE DEF l
    <3>5. l = b
      BY <3>3, <3>4, SeqEqual
    <3>. QED  BY <3>5 DEF l, qs
  <2>6. \A i \in 1..Len(q) : q[i].op \notin Separators
    BY <2>2, <2>3
  <2>. HIDE DEF q, r, s
  <2>7. /\ ap \o q \in Seq(Tokens)
        /\ Collect(ap \o q) = [pipelines |-> P, open |-> op \o q]
        /\ Collect(q) = [pipelines |-> <<>>, open |-> q]
    BY <2>3, <2>6, CollectPiece DEF P, o, ap, op
  <2>. DEFINE w == Pipeline(op \o q, s.op)
              c == [before |-> P, left |-> o, right |-> q, separator |-> s.op,
                    after |-> Pipelines(r)]
              qs == Append(q, s)
              apq == ap \o q
              apqs == Append(apq, s)
  <2>8. op \o q # <<>>
    BY <1>1, <2>3
  <2>9. qs \in Seq(Tokens) /\ apq \in Seq(Tokens)
    BY <2>2, <2>3, <2>7
  <2>. HIDE DEF apq
  <2>10. apqs \in Seq(Tokens)
    BY <2>2, <2>9
  <2>11. /\ Collect(qs).open = <<>>
         /\ Pipelines(qs) = <<>> \o Alone(q, s.op)
    <3>1. /\ Collect(qs).open = <<>>
          /\ Pipelines(qs) = Collect(q).pipelines \o Alone(Collect(q).open, s.op)
      BY <2>2, <2>3, SeparatorEnds
    <3>2. Collect(q).pipelines = <<>> /\ Collect(q).open = q
      BY <2>7
    <3>. HIDE DEF qs
    <3>. QED  BY <3>1, <3>2
  <2>12. /\ Collect(apqs).open = <<>>
         /\ Pipelines(apqs) = P \o Alone(op \o q, s.op)
    <3>1. /\ Collect(apqs).open = <<>>
          /\ Pipelines(apqs) = Collect(apq).pipelines \o Alone(Collect(apq).open, s.op)
      BY <2>2, <2>9, SeparatorEnds
    <3>2. Collect(apq).pipelines = P /\ Collect(apq).open = op \o q
      BY <2>7 DEF apq
    <3>. HIDE DEF apqs
    <3>. QED  BY <3>1, <3>2
  <2>13. Alone(q, s.op) \in Seq(Found) /\ <<w>> \in Seq(Found) /\ Alone(op \o q, s.op) = <<w>>
    <3>1. Collect(q) \in Collections /\ Collect(apq) \in Collections
      BY <2>3, <2>9, CollectTyped
    <3>2. Alone(q, s.op) \in Seq(Found) /\ Alone(op \o q, s.op) \in Seq(Found)
      <4>1. Collect(q).open = q /\ Collect(apq).open = op \o q
        BY <2>7 DEF apq
      <4>2. /\ Alone(Collect(q).open, s.op) \in Seq(Found)
            /\ Alone(Collect(apq).open, s.op) \in Seq(Found)
        BY <2>2, <3>1, EndedAdds
      <4>. QED  BY <4>1, <4>2
    <3>3. Alone(op \o q, s.op) = <<w>>
      BY <2>8 DEF Alone
    <3>. QED  BY <3>2, <3>3
  <2>14. Pipelines(qs) = Alone(q, s.op)
    BY <2>11, <2>13
  <2>. HIDE DEF qs, apqs, w
  <2>15. FoundInHalves(qs, r) /\ FoundInHalves(apqs, r) /\ Pipelines(r) \in Seq(Found)
    BY <2>4, <2>9, <2>10, <2>11, <2>12, PipelinesConcat, PipelinesTyped
  <2>16. Pipelines(b) = Alone(q, s.op) \o Pipelines(r)
    BY <2>5, <2>14, <2>15 DEF FoundInHalves, qs
  <2>17. ap \o b = apqs \o r
    <3>1. Append(q, s) \in Seq(Tokens)
      BY <2>9 DEF qs
    <3>2. AppendsLast(ap, q, s)
      BY <1>1, <2>2, <2>3, AppendToConcat
    <3>3. ap \o qs = apqs
      BY <3>2 DEF AppendsLast, apqs, apq, qs
    <3>4. ap \o (qs \o r) = (ap \o qs) \o r
      <4>1. ap \in Seq(Tokens) /\ qs \in Seq(Tokens) /\ r \in Seq(Tokens)
        BY <1>1, <2>4, <2>9
      <4>2. Associates(ap, qs, r)
        BY <4>1, ThreeInARow
      <4>. QED  BY <4>2 DEF Associates
    <3>. QED  BY <2>5, <3>3, <3>4 DEF qs
  <2>18. Pipelines(ap \o b) = P \o (<<w>> \o Pipelines(r))
    <3>1. Pipelines(apqs \o r) = (P \o <<w>>) \o Pipelines(r)
      BY <2>12, <2>13, <2>15 DEF FoundInHalves
    <3>2. Associates(P, <<w>>, Pipelines(r))
      BY <1>1, <2>13, <2>15, ThreeInARow
    <3>. QED  BY <2>17, <3>1, <3>2 DEF Associates
  <2>19. c \in Cuts
    BY <1>1, <2>2, <2>3, <2>15 DEF Cuts
  <2>20. /\ c.before = P /\ c.left = o /\ c.right = q /\ c.separator = s.op
         /\ c.after = Pipelines(r)
    OBVIOUS
  <2>. HIDE DEF c
  <2>21. Pipeline(Append(c.left, Pipe) \o c.right, c.separator) = w
    BY <2>20 DEF op, w
  <2>22. /\ Pipelines(a) = c.before \o Alone(c.left, "End")
         /\ Pipelines(b) = Alone(c.right, c.separator) \o c.after
         /\ Pipelines(ap \o b) = c.before \o (<<w>> \o c.after)
    BY <1>2, <2>16, <2>18, <2>20
  <2>23. CutAt(a, b, c)
    BY <2>21, <2>22 DEF CutAt, ap
  <2>. QED  BY <2>19, <2>23
<1>. QED  BY <1>3, <1>4

-----------------------------------------------------------------------------
(* What a line is made of.                                                 *)

\* Cut at a separator, a line is both halves, and fails with either.
LEMMA SeparatorJoins ==
    ASSUME NEW a \in Seq(Tokens), NEW b \in Seq(Tokens), NEW t \in Tokens, t.op \in Separators,
           line = ParseTokens(Append(a, t) \o b)
    PROVE  JoinedAtSeparator(ParseTokens(Append(a, t)), ParseTokens(b))
<1>. DEFINE at == Append(a, t)
            ps == Pipelines(at)
            qs == Pipelines(b)
<1>1. at \in Seq(Tokens) /\ Collect(at).open = <<>>
  <2>1. at \in Seq(Tokens)
    OBVIOUS
  <2>2. Collect(at).open = <<>>
    BY SeparatorEnds
  <2>. QED  BY <2>1, <2>2
<1>2. line = ParseTokens(at \o b)
  OBVIOUS
<1>. HIDE DEF at
<1>3. at \o b \in Seq(Tokens) /\ FoundInHalves(at, b)
  BY <1>1, PipelinesConcat
<1>4. ps \in Seq(Found) /\ qs \in Seq(Found)
  BY <1>1, PipelinesTyped
<1>. HIDE DEF ps, qs
<1>5. Pipelines(at \o b) = ps \o qs
  BY <1>3 DEF FoundInHalves, ps, qs
<1>6. /\ line.error = None <=> Sound(ps \o qs)
      /\ Sound(ps \o qs) => line.groups = Groups(ps \o qs)
  BY <1>2, <1>3, <1>5, LineOfPipelines
<1>7. SoundBoth(ps, qs)
  BY <1>4, SoundConcat
<1>8. /\ ParseTokens(at).error = None <=> Sound(ps)
      /\ Sound(ps) => ParseTokens(at).groups = Groups(ps)
  BY <1>1, LineOfPipelines DEF ps
<1>9. /\ ParseTokens(b).error = None <=> Sound(qs)
      /\ Sound(qs) => ParseTokens(b).groups = Groups(qs)
  BY LineOfPipelines DEF qs
<1>10. /\ line.error = None <=> ParseTokens(at).error = None /\ ParseTokens(b).error = None
       /\ line.error = None => line.groups = ParseTokens(at).groups \o ParseTokens(b).groups
  BY <1>6, <1>7, <1>8, <1>9 DEF SoundBoth
<1>. QED  BY <1>10 DEF JoinedAtSeparator, at

\* One pipeline alone.
LEMMA SoundOne ==
    ASSUME NEW pipeline \in Found
    PROVE  /\ <<pipeline>> \in Seq(Found)
           /\ Sound(<<pipeline>>) <=> Fine(pipeline)
           /\ Groups(<<pipeline>>) = <<ParsePipeline(pipeline)>>
<1>1. DOMAIN <<pipeline>> = {1} /\ <<pipeline>>[1] = pipeline
  OBVIOUS
<1>2. Sound(<<pipeline>>) <=> Fine(pipeline)
  BY <1>1 DEF Sound, Fine
<1>3. Groups(<<pipeline>>) = [k \in {1} |-> ParsePipeline(pipeline)]
  BY <1>1 DEF Groups
<1>. QED  BY <1>2, <1>3

\* The last of one half and the first of the other are one at the cut.
PipedBetween(x, g, h, y) ==
    LET before == x \o <<g>>
        after == <<h>> \o y
    IN  /\ before # <<>> /\ after # <<>>
        /\ x \o (<<Piped(g, h)>> \o y)
               = Front(before) \o << Piped(Last(before), Head(after)) >> \o Tail(after)
LEMMA PipedInTheMiddle ==
    ASSUME NEW R, NEW x \in Seq(R), NEW g \in R, NEW h \in R, NEW y \in Seq(R), Piped(g, h) \in R
    PROVE  PipedBetween(x, g, h, y)
<1>. DEFINE before == x \o <<g>>
            after == <<h>> \o y
            p == Piped(g, h)
<1>1. before \in Seq(R) /\ Len(before) = Len(x) + 1 /\ before[Len(x) + 1] = g
      /\ \A i \in 1..Len(x) : before[i] = x[i]
  OBVIOUS
<1>2. Front(before) = x /\ Last(before) = g /\ before # <<>>
  <2>1. Front(before) = SubSeq(before, 1, Len(before) - 1)
    BY DEF Front
  <2>. HIDE DEF before
  <2>2. SubSeq(before, 1, Len(x)) = x
    BY <1>1
  <2>. QED  BY <1>1, <2>1, <2>2 DEF Last
<1>3. Head(after) = h /\ Tail(after) = y /\ after # <<>>
  OBVIOUS
<1>4. <<p>> \in Seq(R)
  OBVIOUS
<1>. HIDE DEF before, after, p
<1>5. (x \o <<p>>) \o y = x \o (<<p>> \o y)
  BY <1>4, ConcatAssociative
<1>6. x \o (<<p>> \o y) = Front(before) \o <<Piped(Last(before), Head(after))>> \o Tail(after)
  BY <1>2, <1>3, <1>5 DEF p
<1>. QED  BY <1>2, <1>3, <1>6 DEF PipedBetween, before, after, p

\* Cut at a pipe, the pipeline at the cut alone falls in two.
LEMMA PipeJoins ==
    ASSUME NEW a \in Seq(Tokens), NEW b \in Seq(Tokens), line = ParseTokens(Append(a, Pipe) \o b)
    PROVE  JoinedAtPipe(ParseTokens(a), ParseTokens(b))
<1>. SUFFICES ASSUME line.error = None
              PROVE  /\ ParseTokens(a).error = None /\ ParseTokens(b).error = None
                     /\ ParseTokens(a).groups # <<>> /\ ParseTokens(b).groups # <<>>
                     /\ line.groups = Front(ParseTokens(a).groups)
                            \o << Piped(Last(ParseTokens(a).groups), Head(ParseTokens(b).groups)) >>
                            \o Tail(ParseTokens(b).groups)
  BY DEF JoinedAtPipe
<1>1. PICK c \in Cuts : CutAt(a, b, c)
  BY CutsAtPipe
<1>. DEFINE x == c.before
            y == c.after
            all == Append(c.left, Pipe) \o c.right
            w == Pipeline(all, c.separator)
            g == Pipeline(c.left, "End")
            h == Pipeline(c.right, c.separator)
            ts == Append(a, Pipe) \o b
<1>2. /\ x \in Seq(Found) /\ y \in Seq(Found) /\ c.left \in Seq(Tokens) /\ c.right \in Seq(Tokens)
      /\ c.separator \in Separators \cup {"End"} /\ Pipe \in Tokens /\ ts \in Seq(Tokens)
  <2>1. Pipe \in Tokens
    BY DEF Pipe, Tokens, Ops
  <2>2. Append(a, Pipe) \in Seq(Tokens)
    BY <2>1
  <2>. DEFINE ap == Append(a, Pipe)
  <2>. HIDE DEF ap
  <2>3. ap \o b \in Seq(Tokens)
    BY <2>2 DEF ap
  <2>. QED  BY <2>1, <2>3 DEF Cuts, ap
<1>3. w \in Found
  <2>. DEFINE l == c.left
              lp == Append(l, Pipe)
  <2>1. lp \in Seq(Tokens) /\ lp # <<>>
    <3>1. l \in Seq(Tokens) /\ Pipe \in Tokens
      BY <1>2
    <3>. HIDE DEF l
    <3>. QED  BY <3>1
  <2>. HIDE DEF lp
  <2>2. lp \o c.right \in Seq(Tokens) /\ lp \o c.right # <<>>
    BY <1>2, <2>1 DEF lp
  <2>3. all \in Seq(Tokens) /\ all # <<>>
    BY <2>2 DEF lp
  <2>. HIDE DEF all
  <2>. QED  BY <1>2, <2>3 DEF Found, Pipeline
<1>4. /\ Pipelines(a) = x \o Alone(c.left, "End")
      /\ Pipelines(b) = Alone(c.right, c.separator) \o y
      /\ Pipelines(ts) = x \o (<<w>> \o y)
  BY <1>1 DEF CutAt
<1>. HIDE DEF x, y, w, ts, all
<1>5. /\ <<w>> \in Seq(Found) /\ (Sound(<<w>>) <=> Fine(w))
      /\ Groups(<<w>>) = <<ParsePipeline(w)>>
  BY <1>3, SoundOne
<1>6. <<w>> \o y \in Seq(Found)
  BY <1>2, <1>5
<1>7. SoundBoth(<<w>>, y) /\ SoundBoth(x, <<w>> \o y)
      /\ Groups(x) \in Seq(AllGroups) /\ Groups(y) \in Seq(AllGroups)
  BY <1>2, <1>5, <1>6, SoundConcat
<1>8. /\ Sound(x \o (<<w>> \o y))
      /\ line.groups = Groups(x \o (<<w>> \o y))
  BY <1>2, <1>4, LineOfPipelines DEF ts
<1>9. /\ Sound(x) /\ Sound(y) /\ Fine(w)
      /\ line.groups = Groups(x) \o (<<ParsePipeline(w)>> \o Groups(y))
  BY <1>5, <1>7, <1>8 DEF SoundBoth
<1>10. /\ c.left # <<>> /\ c.right # <<>> /\ Fine(g) /\ Fine(h)
       /\ ParsePipeline(w) = Piped(ParsePipeline(g), ParsePipeline(h))
  <2>1. Fine(Pipeline(Append(c.left, Pipe) \o c.right, c.separator))
    BY <1>9 DEF w, all
  <2>. QED  BY <1>2, <2>1, FineAtPipe DEF w, all
<1>11. g \in Found /\ h \in Found
  BY <1>2, <1>10 DEF Found, Pipeline
<1>12. Pipelines(a) = x \o <<g>> /\ Pipelines(b) = <<h>> \o y
  BY <1>4, <1>10 DEF Alone
<1>. HIDE DEF g, h
<1>13. /\ <<g>> \in Seq(Found) /\ Sound(<<g>>) /\ Groups(<<g>>) = <<ParsePipeline(g)>>
       /\ <<h>> \in Seq(Found) /\ Sound(<<h>>) /\ Groups(<<h>>) = <<ParsePipeline(h)>>
  BY <1>10, <1>11, SoundOne
<1>14. SoundBoth(x, <<g>>) /\ SoundBoth(<<h>>, y)
  BY <1>2, <1>13, SoundConcat
<1>. DEFINE pg == ParsePipeline(g)
            ph == ParsePipeline(h)
<1>15. /\ ParseTokens(a).error = None /\ ParseTokens(a).groups = Groups(x) \o <<pg>>
       /\ ParseTokens(b).error = None /\ ParseTokens(b).groups = <<ph>> \o Groups(y)
  <2>1. /\ Sound(Pipelines(a)) /\ Groups(Pipelines(a)) = Groups(x) \o <<pg>>
    BY <1>9, <1>12, <1>13, <1>14 DEF SoundBoth
  <2>2. /\ Sound(Pipelines(b)) /\ Groups(Pipelines(b)) = <<ph>> \o Groups(y)
    BY <1>9, <1>12, <1>13, <1>14 DEF SoundBoth
  <2>. QED  BY <2>1, <2>2, LineOfPipelines
<1>16. pg \in AllGroups /\ ph \in AllGroups /\ Piped(pg, ph) \in AllGroups
  <2>1. pg \in AllGroups /\ ph \in AllGroups /\ ParsePipeline(w) \in AllGroups
    BY <1>3, <1>11 DEF AllGroups
  <2>. QED  BY <1>10, <2>1
<1>. HIDE DEF pg, ph
<1>17. PipedBetween(Groups(x), pg, ph, Groups(y))
  BY <1>7, <1>16, PipedInTheMiddle
<1>18. line.groups = Groups(x) \o (<<Piped(pg, ph)>> \o Groups(y))
  BY <1>9, <1>10 DEF pg, ph
<1>. DEFINE gx == Groups(x)
            gy == Groups(y)
            ga == ParseTokens(a).groups
            gb == ParseTokens(b).groups
<1>19. /\ ga # <<>> /\ gb # <<>>
       /\ gx \o (<<Piped(pg, ph)>> \o gy)
              = Front(ga) \o << Piped(Last(ga), Head(gb)) >> \o Tail(gb)
  BY <1>15, <1>17 DEF PipedBetween
<1>. HIDE DEF gx, gy, ga, gb
<1>. QED  BY <1>15, <1>18, <1>19 DEF gx, gy, ga, gb

\* A sequence is what is before one of its elements, the element, and what is after it.
LEMMA CutSequence ==
    ASSUME NEW R, NEW ts \in Seq(R), NEW i \in 1..Len(ts)
    PROVE  /\ SubSeq(ts, 1, i - 1) \in Seq(R) /\ SubSeq(ts, i + 1, Len(ts)) \in Seq(R)
           /\ SubSeq(ts, 1, i) = Append(SubSeq(ts, 1, i - 1), ts[i])
           /\ ts = Append(SubSeq(ts, 1, i - 1), ts[i]) \o SubSeq(ts, i + 1, Len(ts))
<1>. DEFINE a == SubSeq(ts, 1, i - 1)
            b == SubSeq(ts, i + 1, Len(ts))
            at == SubSeq(ts, 1, i)
            n == Len(ts)
<1>1. n \in Nat /\ i \in Nat /\ i >= 1 /\ i <= n
  OBVIOUS
<1>2. a \in Seq(R) /\ Len(a) = i - 1 /\ \A k \in 1..(i - 1) : a[k] = ts[k]
  BY <1>1
<1>3. b \in Seq(R) /\ Len(b) = n - i /\ \A k \in 1..(n - i) : b[k] = ts[i + k]
  BY <1>1
<1>4. at \in Seq(R) /\ Len(at) = i /\ \A k \in 1..i : at[k] = ts[k]
  BY <1>1
<1>. HIDE DEF a, b, at, n
<1>5. at = Append(a, ts[i])
  <2>. DEFINE l == Append(a, ts[i])
  <2>1. ts[i] \in R
    OBVIOUS
  <2>2. l \in Seq(R) /\ Len(l) = i /\ \A k \in 1..i : l[k] = ts[k]
    BY <1>1, <1>2, <2>1
  <2>. HIDE DEF l
  <2>3. at = l
    BY <1>4, <2>2, SeqEqual
  <2>. QED  BY <2>3 DEF l
<1>6. ts = at \o b
  <2>. DEFINE l == at \o b
  <2>1. Concatenated(at, b) /\ l \in Seq(R)
    BY <1>3, <1>4, ConcatenatedSeqs
  <2>2. Len(l) = n
    BY <1>1, <1>3, <1>4, <2>1 DEF Concatenated
  <2>3. ASSUME NEW k \in 1..n PROVE l[k] = ts[k]
    <3>1. Len(at) + Len(b) = n
      BY <1>1, <1>3, <1>4
    <3>2. IF k <= i THEN k \in 1..i /\ l[k] = at[k] ELSE k - i \in 1..(n - i) /\ l[k] = b[k - i]
      BY <1>3, <1>4, <2>1, <3>1 DEF Concatenated
    <3>3. i + (k - i) = k
      BY <1>1
    <3>. HIDE DEF l
    <3>. QED  BY <1>3, <1>4, <3>2, <3>3
  <2>. HIDE DEF l
  <2>4. l = ts
    BY <2>1, <2>2, <2>3, SeqEqual DEF n
  <2>. QED  BY <2>4 DEF l
<1>. QED  BY <1>2, <1>3, <1>5, <1>6 DEF a, b, at, n

(* A line can be cut at any ; or & and its halves parsed on their own; cut *)
(* at a |, the pipeline at the cut alone falls in two.                     *)
THEOREM CommandLineHalves == Spec => []HalvesMakeTheLine
<1>1. Inv => HalvesMakeTheLine
  <2>. SUFFICES ASSUME Inv, line # None, tokens # <<>>, quote = None,
                       NEW i \in DOMAIN tokens, tokens[i].op \in Range(Operators)
                PROVE  IF tokens[i].op = "Pipe"
                       THEN JoinedAtPipe(ParseTokens(SubSeq(tokens, 1, i - 1)),
                                         ParseTokens(SubSeq(tokens, i + 1, Len(tokens))))
                       ELSE JoinedAtSeparator(ParseTokens(SubSeq(tokens, 1, i)),
                                              ParseTokens(SubSeq(tokens, i + 1, Len(tokens))))
    BY DEF HalvesMakeTheLine
  <2>. DEFINE a == SubSeq(tokens, 1, i - 1)
              b == SubSeq(tokens, i + 1, Len(tokens))
              t == tokens[i]
  <2>1. tokens \in Seq(Tokens) /\ line = ParseTokens(tokens)
    BY DEF Inv, Tokenizing, Parsed
  <2>2. i \in 1..Len(tokens) /\ t \in Tokens
    BY <2>1
  <2>3. /\ a \in Seq(Tokens) /\ b \in Seq(Tokens) /\ SubSeq(tokens, 1, i) = Append(a, t)
        /\ tokens = Append(a, t) \o b
    BY <2>1, <2>2, CutSequence
  <2>4. t.op = "Pipe" \/ t.op \in Separators
    BY DEF Range, Operators, Separators
  <2>5. t.op = "Pipe" => t = Pipe
    BY <2>2 DEF Tokens, Token, Pipe
  <2>6. "Pipe" \notin Separators
    BY DEF Separators
  <2>. HIDE DEF a, b, t
  <2>7. ASSUME t.op = "Pipe" PROVE JoinedAtPipe(ParseTokens(a), ParseTokens(b))
    BY <2>1, <2>3, <2>5, <2>7, PipeJoins
  <2>8. ASSUME t.op \in Separators
        PROVE  JoinedAtSeparator(ParseTokens(Append(a, t)), ParseTokens(b))
    BY <2>1, <2>2, <2>3, <2>8, SeparatorJoins
  <2>. QED  BY <2>3, <2>4, <2>6, <2>7, <2>8 DEF a, b, t
<1>. QED  BY <1>1, InvHolds, PTL

\* The parts are sequences, and there is one at least.
LEMMA SplitTyped ==
    ASSUME NEW R, NEW seq \in Seq(R), NEW separator
    PROVE  Split(seq, separator) \in Parts(R)
<1>1. PICK f \in SplitRuns(R, seq, separator) : TRUE
  BY SplitSteps
<1>2. Len(seq) \in 0..Len(seq)
  OBVIOUS
<1>. QED  BY <1>1, <1>2 DEF SplitRuns

-----------------------------------------------------------------------------
(* Paths.                                                                  *)

ParsedPaths == [kind : Kinds, names : Seq(Texts)]

\* Trimming, stripping and splitting take pieces of a text.
LEMMA PiecesTyped ==
    ASSUME NEW t \in Texts
    PROVE  /\ Trim(t) \in Texts /\ StripSlash(t) \in Texts
           /\ Segments(t) \in Parts(Symbols)
           /\ First(t) \in Texts /\ Rest(t) \in Texts
<1>1. t \in Seq(Symbols) /\ Len(t) \in Nat
  BY DEF Texts
<1>2. Trim(t) \in Texts
  <2>. DEFINE ink == { i \in DOMAIN t : t[i] # " " }
  <2>1. ASSUME ink # {} PROVE SubSeq(t, Min(ink), Max(ink)) \in Texts
    <3>1. ink \subseteq 1..Len(t) /\ ink \subseteq 0..Len(t) /\ ink \subseteq Nat
      <4>1. DOMAIN t = 1..Len(t)
        BY <1>1
      <4>2. ink \subseteq 1..Len(t)
        BY <4>1
      <4>. HIDE DEF ink
      <4>. QED  BY <1>1, <4>2
    <3>. HIDE DEF ink
    <3>2. Min(ink) \in 1..Len(t) /\ Max(ink) \in 1..Len(t)
      BY <1>1, <2>1, <3>1, MinOf, MaxOf
    <3>. QED  BY <1>1, <3>2 DEF Texts
  <2>2. <<>> \in Texts
    BY DEF Texts
  <2>. QED  BY <2>1, <2>2 DEF Trim
<1>3. StripSlash(t) \in Texts
  <2>1. t # <<>> => Front(t) \in Texts
    BY <1>1 DEF Front, Texts
  <2>. QED  BY <2>1 DEF StripSlash
<1>4. Segments(t) \in Parts(Symbols)
  BY <1>1, SplitTyped DEF Segments
<1>5. First(t) \in Texts
  <2>. DEFINE S == Seq(Symbols)
              segments == Segments(t)
  <2>1. segments \in Seq(S) /\ segments # <<>>
    BY <1>4 DEF Parts
  <2>. HIDE DEF S, segments
  <2>2. Head(segments) \in S
    BY <2>1
  <2>. QED  BY <2>2 DEF First, S, Texts, segments
<1>6. Rest(t) \in Texts
  <2>. DEFINE n == Len(First(t)) + 2
  <2>1. n \in Nat /\ n >= 1
    BY <1>5 DEF Texts
  <2>. HIDE DEF n
  <2>2. SubSeq(t, n, Len(t)) \in Seq(Symbols)
    BY <1>1, <2>1
  <2>. QED  BY <2>2 DEF Rest, Texts, n
<1>. QED  BY <1>2, <1>3, <1>4, <1>5, <1>6

\* A path is a kind and names.
LEMMA ParsePathTyped ==
    ASSUME NEW w \in Texts
    PROVE  ParsePath(w) \in ParsedPaths /\ ParsePath(w) # None
<1>. USE DEF Is
<1>1. \A kind \in Kinds, names \in Seq(Texts) : Is(kind, names) \in ParsedPaths
  BY DEF ParsedPaths
<1>2. ASSUME NEW n \in Texts, NEW m \in Texts
      PROVE  <<>> \in Seq(Texts) /\ <<n>> \in Seq(Texts) /\ <<n, m>> \in Seq(Texts)
  OBVIOUS
<1>. HIDE DEF Is
<1>a. Invalid \in ParsedPaths /\ Is("DbRoot", <<>>) \in ParsedPaths /\ Is("SearchRoot", <<>>) \in ParsedPaths
  <2>1. <<>> \in Seq(Texts)
    OBVIOUS
  <2>2. "Invalid" \in Kinds /\ "DbRoot" \in Kinds /\ "SearchRoot" \in Kinds
    BY DEF Kinds
  <2>3. \A kind \in Kinds : Is(kind, <<>>) \in ParsedPaths
    BY <1>1, <2>1
  <2>. QED  BY <2>2, <2>3 DEF Invalid
<1>3. ASSUME NEW kind \in Kinds, NEW rest1 \in Texts
      PROVE  ParseName(kind, rest1) \in ParsedPaths
  <2>1. StripSlash(rest1) \in Texts
    BY PiecesTyped
  <2>. QED  BY <1>1, <1>2, <1>a, <2>1 DEF ParseName
<1>4. ASSUME NEW rest1 \in Texts PROVE ParseSearch(rest1) \in ParsedPaths
  <2>. DEFINE t == StripSlash(rest1)
  <2>1. t \in Texts
    BY PiecesTyped
  <2>. HIDE DEF t
  <2>2. First(t) \in Texts /\ Rest(t) \in Texts
    BY <2>1, PiecesTyped
  <2>3. ParseSearch(rest1) \in
            {Is("SearchRoot", <<>>), Is("SearchCollection", <<First(t)>>),
             Is("SearchQuery", <<First(t), Rest(t)>>)}
    BY DEF ParseSearch, t
  <2>4. Is("SearchCollection", <<First(t)>>) \in ParsedPaths
    <3>1. <<First(t)>> \in Seq(Texts) /\ "SearchCollection" \in Kinds
      BY <1>2, <2>2 DEF Kinds
    <3>. QED  BY <1>1, <3>1
  <2>5. Is("SearchQuery", <<First(t), Rest(t)>>) \in ParsedPaths
    <3>1. <<First(t), Rest(t)>> \in Seq(Texts) /\ "SearchQuery" \in Kinds
      BY <1>2, <2>2 DEF Kinds
    <3>. QED  BY <1>1, <3>1
  <2>. QED  BY <1>a, <2>3, <2>4, <2>5
<1>5. ASSUME NEW rest1 \in Texts PROVE ParseDb(rest1) \in ParsedPaths
  <2>. DEFINE all == Segments(rest1)
              segments == Kept(all, Range(all) \ {<<>>})
              fitting == { f \in DbForms :
                              /\ Len(segments) = Len(f.dir) + f.names
                              /\ \A i \in DOMAIN f.dir : segments[i] = <<f.dir[i]>> }
              S == Texts
  <2>1. all \in Seq(S)
    BY PiecesTyped DEF Parts, Texts
  <2>. HIDE DEF all, S
  <2>2. segments \in Seq(S)
    BY <2>1, KeptShorter
  <2>. HIDE DEF segments
  <2>3. ASSUME NEW f \in DbForms
        PROVE  Is(f.kind, SubSeq(segments, Len(f.dir) + 1, Len(segments))) \in ParsedPaths
    <3>1. f.kind \in Kinds /\ Len(f.dir) \in Nat
      <4>1. f.dir \in {<<"vectors">>, <<"graphs">>, <<"tables">>,
                        <<"graphs", "nodes">>, <<"graphs", "edges">>}
        BY DEF DbForms, Form
      <4>2. f.kind \in Kinds
        <5>1. f.kind \in {"VectorRoot", "Collection", "GraphRoot", "GraphNodeRoot",
                          "GraphEdgeRoot", "GraphNode", "GraphEdge", "TableRoot", "Table",
                          "View", "ViewEntry"}
          BY DEF DbForms, Form
        <5>. QED  BY <5>1 DEF Kinds
      <4>. QED  BY <4>1, <4>2
    <3>. DEFINE n == Len(f.dir) + 1
    <3>2. n \in Nat /\ n >= 1
      BY <3>1
    <3>. HIDE DEF n
    <3>3. SubSeq(segments, n, Len(segments)) \in Seq(S)
      BY <2>2, <3>2
    <3>. QED  BY <1>1, <3>1, <3>3 DEF S, n
  <2>4. fitting # {} => (CHOOSE g \in fitting : TRUE) \in DbForms
    OBVIOUS
  <2>5. ParseDb(rest1) \in
            {Is("DbRoot", <<>>), Invalid}
                \cup { Is(f.kind, SubSeq(segments, Len(f.dir) + 1, Len(segments))) : f \in DbForms }
    BY <2>4 DEF ParseDb, segments, all
  <2>. QED  BY <1>a, <2>3, <2>5
<1>6. ParsePath(w) \in ParsedPaths
  <2>. DEFINE t == Trim(w)
              trimmed == StripSlash(Tail(t))
              rest1 == Rest(trimmed)
  <2>1. CASE t = <<>> \/ Head(t) # "/" \/ trimmed = <<>>
    BY <1>a, <2>1 DEF ParsePath
  <2>2. CASE ~(t = <<>> \/ Head(t) # "/" \/ trimmed = <<>>)
    <3>1. t \in Texts
      BY PiecesTyped
    <3>2. Tail(t) \in Texts
      BY <2>2, <3>1 DEF Texts
    <3>3. trimmed \in Texts
      BY <3>2, PiecesTyped
    <3>4. rest1 \in Texts
      BY <3>3, PiecesTyped
    <3>5. ParsePath(w) \in {ParseDb(rest1), ParseSearch(rest1), ParseName("Result", rest1),
                            ParseName("Tmp", rest1), ParseName("Symlink", rest1), Invalid}
      <4>. HIDE DEF rest1
      <4>. QED  BY <2>2 DEF ParsePath, rest1
    <3>. HIDE DEF rest1
    <3>6. /\ ParseName("Result", rest1) \in ParsedPaths /\ ParseName("Tmp", rest1) \in ParsedPaths
          /\ ParseName("Symlink", rest1) \in ParsedPaths
      <4>1. "Result" \in Kinds /\ "Tmp" \in Kinds /\ "Symlink" \in Kinds
        BY DEF Kinds
      <4>. QED  BY <1>3, <3>4, <4>1
    <3>7. ParseDb(rest1) \in ParsedPaths /\ ParseSearch(rest1) \in ParsedPaths
      BY <1>4, <1>5, <3>4
    <3>. QED  BY <1>a, <3>5, <3>6, <3>7
  <2>. QED  BY <2>1, <2>2
<1>. QED  BY <1>6, NoneAssumption DEF ParsedPaths

-----------------------------------------------------------------------------
(* The arguments of a stage.                                               *)

FullTexts == Texts \ {<<>>}
FlagMaps == UNION { [S -> Texts] : S \in SUBSET Texts }
Gathered == [flags : FlagMaps, path : ParsedPaths \cup {None}, positional : Seq(Texts),
             flag : Texts \cup {None}]

\* What has been gathered after each word.
ArgumentRuns(ws) ==
    { f \in [0..Len(ws) -> Gathered] :
        /\ f[0] = NoArguments
        /\ f[Len(ws)] = FoldLeft(Argument, NoArguments, ws)
        /\ \A n \in 1..Len(ws) : f[n] = Argument(f[n - 1], ws[n]) }

\* One of four things happens to a word.
TakesValue(got, w) == got.flag # None /\ IsValue(w)
IsFlag(w) == Dashed(w) /\ Len(w) > 1
Outcome(got, w) ==
    [flags |-> IF TakesValue(got, w) THEN Inserted(got.flags, got.flag, w)
               ELSE IF IsFlag(w) THEN Inserted(got.flags, w, <<>>)
               ELSE got.flags,
     path |-> IF ~TakesValue(got, w) /\ ~IsFlag(w) /\ Slashed(w) /\ got.path = None
              THEN ParsePath(w) ELSE got.path,
     positional |-> IF TakesValue(got, w) \/ IsFlag(w) \/ (Slashed(w) /\ got.path = None)
                    THEN got.positional ELSE Append(got.positional, w),
     flag |-> IF ~TakesValue(got, w) /\ IsFlag(w) THEN w ELSE None]
LEMMA ArgumentOutcome ==
    ASSUME NEW got \in Gathered, NEW w
    PROVE  Argument(got, w) = Outcome(got, w)
<1>. DEFINE next == [got EXCEPT !.flag = None]
<1>1. got = [flags |-> got.flags, path |-> got.path, positional |-> got.positional,
             flag |-> got.flag]
  BY DEF Gathered
<1>2. next = [flags |-> got.flags, path |-> got.path, positional |-> got.positional,
              flag |-> None]
  BY <1>1
<1>3. CASE TakesValue(got, w)
  <2>1. Argument(got, w) = [next EXCEPT !.flags = Inserted(@, got.flag, w)]
    BY <1>3 DEF Argument, TakesValue, IsValue
  <2>2. Argument(got, w) = [flags |-> Inserted(got.flags, got.flag, w), path |-> got.path,
                            positional |-> got.positional, flag |-> None]
    BY <1>2, <2>1
  <2>3. ~IsFlag(w)
    BY <1>3 DEF TakesValue, IsValue, IsFlag
  <2>. QED  BY <1>3, <2>2, <2>3 DEF Outcome
<1>4. CASE ~TakesValue(got, w) /\ IsFlag(w)
  <2>1. Argument(got, w) = [got EXCEPT !.flags = Inserted(@, w, <<>>), !.flag = w]
    BY <1>4 DEF Argument, TakesValue, IsFlag, Dashed, Slashed
  <2>2. Argument(got, w) = [flags |-> Inserted(got.flags, w, <<>>), path |-> got.path,
                            positional |-> got.positional, flag |-> w]
    BY <1>1, <2>1
  <2>. QED  BY <1>4, <2>2 DEF Outcome
<1>5. CASE ~TakesValue(got, w) /\ ~IsFlag(w) /\ Slashed(w) /\ got.path = None
  <2>1. Argument(got, w) = [next EXCEPT !.path = ParsePath(w)]
    BY <1>5 DEF Argument, TakesValue, IsFlag
  <2>2. Argument(got, w) = [flags |-> got.flags, path |-> ParsePath(w),
                            positional |-> got.positional, flag |-> None]
    BY <1>2, <2>1
  <2>. QED  BY <1>5, <2>2 DEF Outcome
<1>6. CASE ~TakesValue(got, w) /\ ~IsFlag(w) /\ ~(Slashed(w) /\ got.path = None)
  <2>1. Argument(got, w) = [next EXCEPT !.positional = Append(@, w)]
    BY <1>6 DEF Argument, TakesValue, IsFlag
  <2>2. Argument(got, w) = [flags |-> got.flags, path |-> got.path,
                            positional |-> Append(got.positional, w), flag |-> None]
    BY <1>2, <2>1
  <2>. QED  BY <1>6, <2>2 DEF Outcome
<1>. QED  BY <1>3, <1>4, <1>5, <1>6

\* A map with a flag more.
LEMMA InsertedTyped ==
    ASSUME NEW flags \in FlagMaps, NEW flag \in Texts, NEW value \in Texts
    PROVE  /\ Inserted(flags, flag, value) \in FlagMaps
           /\ DOMAIN Inserted(flags, flag, value) = DOMAIN flags \cup {flag}
<1>1. PICK S \in SUBSET Texts : flags \in [S -> Texts]
  BY DEF FlagMaps
<1>2. S \cup {flag} \in SUBSET Texts /\ DOMAIN flags = S
  BY <1>1
<1>3. Inserted(flags, flag, value) \in [S \cup {flag} -> Texts]
  BY <1>1, <1>2 DEF Inserted
<1>. QED  BY <1>2, <1>3 DEF FlagMaps

\* What is gathered stays what it is.
LEMMA ArgumentTyped ==
    ASSUME NEW got \in Gathered, NEW w \in FullTexts
    PROVE  Argument(got, w) \in Gathered
<1>1. w \in Texts /\ <<>> \in Texts
  BY DEF FullTexts, Texts
<1>2. ParsePath(w) \in ParsedPaths
  BY <1>1, ParsePathTyped
<1>3. TakesValue(got, w) => got.flag \in Texts
  BY DEF TakesValue, Gathered
<1>4. /\ TakesValue(got, w) => Inserted(got.flags, got.flag, w) \in FlagMaps
      /\ Inserted(got.flags, w, <<>>) \in FlagMaps
  BY <1>1, <1>3, InsertedTyped DEF Gathered
<1>5. Append(got.positional, w) \in Seq(Texts)
  BY <1>1 DEF Gathered
<1>6. Outcome(got, w) \in Gathered
  BY <1>1, <1>2, <1>4, <1>5 DEF Outcome, Gathered
<1>. QED  BY <1>6, ArgumentOutcome

\* The words are taken one after the other.
LEMMA ArgumentSteps ==
    ASSUME NEW ws \in Seq(FullTexts)
    PROVE  ArgumentRuns(ws) # {}
<1>. DEFINE D == Gathered
            R == FullTexts
            step == [p \in D \X R |-> Argument(p[1], p[2])]
            Rec(it) == [t \in SUBSET (DOMAIN ws) |->
                          IF t = {} THEN NoArguments
                          ELSE Argument(it[t \ {Max(t)}], ws[Max(t)])]
            iter == CHOOSE it : it = Rec(it)
<1>1. step \in [D \X R -> D] /\ NoArguments \in D
  <2>1. <<>> \in FlagMaps
    <3>1. <<>> \in [{} -> Texts] /\ {} \in SUBSET Texts
      OBVIOUS
    <3>. QED  BY <3>1 DEF FlagMaps
  <2>2. NoArguments \in D
    BY <2>1 DEF NoArguments, Gathered
  <2>. QED  BY <2>2, ArgumentTyped
<1>2. \A old \in D, e \in R : step[<<old, e>>] = Argument(old, e)
  OBVIOUS
<1>0. ws \in Seq(R)
  OBVIOUS
<1>. HIDE DEF D, R, step
<1>3. iter = Rec(iter)
  <2>1. Iterators(D, NoArguments, ws, step) # {}
    BY <1>0, <1>1, FoldIterates
  <2>2. PICK it \in Iterators(D, NoArguments, ws, step) : TRUE
    BY <2>1
  <2>3. it = Rec(it)
    <3>. SUFFICES ASSUME NEW t \in SUBSET (DOMAIN ws), t # {}
                  PROVE  it[t] = Argument(it[t \ {Max(t)}], ws[Max(t)])
      BY <2>2 DEF Iterators, Unfolds
    <3>1. ws[Max(t)] \in R
      BY <1>0, MaxInDomain
    <3>. QED  BY <1>2, <2>2, <3>1 DEF Iterators, Unfolds
  <2>. HIDE DEF Rec
  <2>. QED  BY <2>3
<1>4. FoldLeft(Argument, NoArguments, ws) = iter[DOMAIN ws]
  BY DEF FoldLeft, MapThenFoldSet
<1>. HIDE DEF iter
<1>5. Unfolds(iter, D, NoArguments, ws, step)
  <2>1. ASSUME NEW t \in SUBSET (DOMAIN ws), t # {}, iter[t \ {Max(t)}] \in D
        PROVE  iter[t] = step[<<iter[t \ {Max(t)}], ws[Max(t)]>>]
    <3>1. ws[Max(t)] \in R
      BY <1>0, <2>1, MaxInDomain
    <3>2. iter[t] = Argument(iter[t \ {Max(t)}], ws[Max(t)])
      BY <1>3, <2>1
    <3>. QED  BY <1>2, <2>1, <3>1, <3>2
  <2>. QED  BY <1>3, <2>1 DEF Unfolds
<1>6. PICK f \in Runs(D, NoArguments, ws, step) : f[Len(ws)] = iter[DOMAIN ws]
  <2>. HIDE DEF Rec
  <2>1. iter[DOMAIN ws] \in Outcomes(D, NoArguments, ws, step)
    BY <1>0, <1>1, <1>5, FoldAlong
  <2>. QED  BY <2>1 DEF Outcomes
<1>7. ASSUME NEW n \in 1..Len(ws) PROVE f[n] = Argument(f[n - 1], ws[n])
  <2>1. f[n - 1] \in D /\ ws[n] \in R
    BY <1>0 DEF Runs
  <2>. QED  BY <1>2, <1>6, <2>1 DEF Runs
<1>8. f \in ArgumentRuns(ws)
  BY <1>4, <1>6, <1>7 DEF D, Runs, ArgumentRuns
<1>. QED  BY <1>8

-----------------------------------------------------------------------------
(* What is gathered after n words.                                         *)

SlashedTo(ws, n) == { w \in 1..n : Slashed(ws[w]) }
FlagsTo(ws, n) == { w \in 1..n : IsFlag(ws[w]) }
CountTo(ws, n) == { w \in 1..n : ws[w] = CountFlag }
Valued(flags) == { f \in DOMAIN flags : flags[f] # <<>> }
Size(S) == Cardinality(S)

PathFound(ws, n, got) ==
    got.path = IF SlashedTo(ws, n) = {} THEN None ELSE ParsePath(ws[Min(SlashedTo(ws, n))])

\* The flags found, and the one that may still get a value.
FlagsFound(ws, n, got) ==
    /\ DOMAIN got.flags = { ws[w] : w \in FlagsTo(ws, n) }
    /\ got.flag = IF n \in FlagsTo(ws, n) THEN ws[n] ELSE None
    /\ n \in FlagsTo(ws, n) => got.flags[ws[n]] = <<>>

\* The value of the last -n.
CountFound(ws, n, got) ==
    LET last == Max(CountTo(ws, n))
    IN  CountTo(ws, n) # {} =>
            got.flags[CountFlag] = IF last < n /\ IsValue(ws[last + 1]) THEN ws[last + 1]
                                   ELSE <<>>

\* Where every word went, when no flag is repeated.
WordsCounted(ws, n, got) ==
    /\ IsFiniteSet(DOMAIN got.flags)
    /\ Size(DOMAIN got.flags) <= Size(FlagsTo(ws, n))
    /\ Size(DOMAIN got.flags) = Size(FlagsTo(ws, n)) =>
          n = Size(FlagsTo(ws, n)) + Size(Valued(got.flags))
                 + (IF SlashedTo(ws, n) = {} THEN 0 ELSE 1) + Len(got.positional)

\* The positions found so far grow with every word.
LEMMA FoundGrows ==
    ASSUME NEW ws \in Seq(FullTexts), NEW n \in 0..(Len(ws) - 1)
    PROVE  /\ ws[n + 1] \in FullTexts /\ n + 1 \in 1..Len(ws)
           /\ SlashedTo(ws, n + 1) = SlashedTo(ws, n) \cup (IF Slashed(ws[n + 1]) THEN {n + 1} ELSE {})
           /\ FlagsTo(ws, n + 1) = FlagsTo(ws, n) \cup (IF IsFlag(ws[n + 1]) THEN {n + 1} ELSE {})
           /\ CountTo(ws, n + 1) = CountTo(ws, n) \cup (IF ws[n + 1] = CountFlag THEN {n + 1} ELSE {})
           /\ \A S \in {SlashedTo(ws, n), FlagsTo(ws, n), CountTo(ws, n)} :
                 S \subseteq 1..n /\ S \subseteq Nat /\ n + 1 \notin S
<1>1. Len(ws) \in Nat /\ n \in Nat /\ n + 1 \in 1..Len(ws) /\ 1..(n + 1) = 1..n \cup {n + 1}
      /\ n + 1 \notin 1..n /\ 1..n \subseteq Nat
  OBVIOUS
<1>2. ws[n + 1] \in FullTexts
  BY <1>1
<1>3. SlashedTo(ws, n + 1) = SlashedTo(ws, n) \cup (IF Slashed(ws[n + 1]) THEN {n + 1} ELSE {})
  BY <1>1 DEF SlashedTo
<1>4. FlagsTo(ws, n + 1) = FlagsTo(ws, n) \cup (IF IsFlag(ws[n + 1]) THEN {n + 1} ELSE {})
  BY <1>1 DEF FlagsTo
<1>5. CountTo(ws, n + 1) = CountTo(ws, n) \cup (IF ws[n + 1] = CountFlag THEN {n + 1} ELSE {})
  BY <1>1 DEF CountTo
<1>6. SlashedTo(ws, n) \subseteq 1..n /\ FlagsTo(ws, n) \subseteq 1..n /\ CountTo(ws, n) \subseteq 1..n
  BY DEF SlashedTo, FlagsTo, CountTo
<1>. QED  BY <1>1, <1>2, <1>3, <1>4, <1>5, <1>6

\* A word is at most one of these.
LEMMA WordKinds ==
    ASSUME NEW w
    PROVE  /\ IsFlag(w) => ~IsValue(w) /\ ~Slashed(w)
           /\ Slashed(w) => ~IsValue(w) /\ ~IsFlag(w)
           /\ w = CountFlag => IsFlag(w)
  BY DEF IsFlag, IsValue, Dashed, Slashed, CountFlag

\* The first path is kept.
LEMMA PathStep ==
    ASSUME NEW ws \in Seq(FullTexts), NEW n \in 0..(Len(ws) - 1), NEW got \in Gathered,
           PathFound(ws, n, got)
    PROVE  PathFound(ws, n + 1, Outcome(got, ws[n + 1]))
<1>. DEFINE w == ws[n + 1]
            old == SlashedTo(ws, n)
            new == SlashedTo(ws, n + 1)
<1>1. /\ w \in FullTexts /\ new = old \cup (IF Slashed(w) THEN {n + 1} ELSE {})
      /\ old \subseteq 1..n /\ n \in Nat
  BY FoundGrows
<1>2. old # {} => ParsePath(ws[Min(old)]) # None
  <2>1. ASSUME old # {} PROVE ws[Min(old)] \in Texts
    <3>1. old \subseteq Nat
      BY <1>1
    <3>2. Min(old) \in old
      BY <2>1, <3>1, MinOf
    <3>3. Min(old) \in 1..Len(ws)
      BY <1>1, <3>2
    <3>. QED  BY <3>3 DEF FullTexts
  <2>. QED  BY <2>1, ParsePathTyped
<1>3. got.path = None <=> old = {}
  BY <1>2 DEF PathFound
<1>4. Outcome(got, w).path = IF Slashed(w) /\ old = {} THEN ParsePath(w) ELSE got.path
  <2>1. Slashed(w) => ~TakesValue(got, w) /\ ~IsFlag(w)
    BY WordKinds DEF TakesValue
  <2>. HIDE DEF old, w
  <2>. QED  BY <1>3, <2>1 DEF Outcome
<1>5. Slashed(w) => Min(new) = IF old = {} THEN n + 1 ELSE Min(old)
  <2>1. ASSUME Slashed(w), old = {} PROVE Min(new) = n + 1
    <3>1. new = {n + 1} /\ n + 1 \in Nat
      BY <1>1, <2>1
    <3>2. {n + 1} \subseteq Nat /\ {n + 1} # {}
      BY <3>1
    <3>3. Min({n + 1}) \in {n + 1}
      BY <3>2, MinOf
    <3>. QED  BY <3>1, <3>3
  <2>2. ASSUME Slashed(w), old # {} PROVE Min(new) = Min(old)
    <3>1. new = old \cup {n + 1} /\ old \subseteq Nat /\ new \subseteq Nat /\ new # {}
      BY <1>1, <2>2
    <3>. HIDE DEF old, new
    <3>2. Min(old) \in old /\ \A m \in old : Min(old) <= m
      BY <2>2, <3>1, MinOf
    <3>3. Min(new) \in new /\ \A m \in new : Min(new) <= m
      BY <3>1, MinOf
    <3>4. Min(old) < n + 1 /\ Min(old) \in Nat
      <4>1. Min(old) \in 1..n
        BY <1>1, <3>2 DEF old
      <4>. QED  BY <1>1, <4>1
    <3>5. Min(new) <= Min(old) /\ Min(new) \in Nat
      BY <3>1, <3>2, <3>3
    <3>6. Min(new) \in old
      BY <1>1, <3>1, <3>3, <3>4, <3>5
    <3>. QED  BY <3>2, <3>4, <3>5, <3>6
  <2>. QED  BY <2>1, <2>2
<1>6. ~Slashed(w) => new = old
  BY <1>1
<1>7. Slashed(w) => new # {}
  BY <1>1
<1>. HIDE DEF w, old, new
<1>8. Outcome(got, w).path = IF new = {} THEN None ELSE ParsePath(ws[Min(new)])
  <2>1. got.path = IF old = {} THEN None ELSE ParsePath(ws[Min(old)])
    BY DEF PathFound, old
  <2>2. CASE ~Slashed(w)
    BY <1>4, <1>6, <2>1, <2>2
  <2>3. CASE Slashed(w) /\ old = {}
    BY <1>4, <1>5, <1>7, <2>3 DEF w
  <2>4. CASE Slashed(w) /\ old # {}
    BY <1>4, <1>5, <1>7, <2>1, <2>4
  <2>. QED  BY <2>2, <2>3, <2>4
<1>. QED  BY <1>8 DEF PathFound, w, new

\* A flag waits for its value for one word.
LEMMA FlagStep ==
    ASSUME NEW ws \in Seq(FullTexts), NEW n \in 0..(Len(ws) - 1), NEW got \in Gathered,
           FlagsFound(ws, n, got)
    PROVE  FlagsFound(ws, n + 1, Outcome(got, ws[n + 1]))
<1>. DEFINE w == ws[n + 1]
            old == FlagsTo(ws, n)
            new == FlagsTo(ws, n + 1)
            out == Outcome(got, w)
<1>1. /\ w \in FullTexts /\ new = old \cup (IF IsFlag(w) THEN {n + 1} ELSE {})
      /\ n + 1 \notin old
  BY FoundGrows
<1>2. /\ DOMAIN got.flags = { ws[k] : k \in old }
      /\ got.flag = IF n \in old THEN ws[n] ELSE None
  BY DEF FlagsFound
<1>3. CASE TakesValue(got, w)
  <2>1. n \in old /\ got.flag = ws[n] /\ new = old /\ n + 1 \notin new
    BY <1>1, <1>2, <1>3, WordKinds DEF TakesValue
  <2>2. out.flags = Inserted(got.flags, got.flag, w) /\ out.flag = None
    BY <1>3 DEF Outcome
  <2>3. DOMAIN out.flags = DOMAIN got.flags
    BY <1>2, <2>1, <2>2 DEF Inserted
  <2>. HIDE DEF w, old, new, out
  <2>. QED  BY <1>2, <2>1, <2>2, <2>3 DEF FlagsFound, w, old, new, out
<1>4. CASE ~TakesValue(got, w) /\ IsFlag(w)
  <2>1. new = old \cup {n + 1}
    BY <1>1, <1>4
  <2>2. out.flags = Inserted(got.flags, w, <<>>) /\ out.flag = w
    BY <1>4 DEF Outcome
  <2>3. DOMAIN out.flags = DOMAIN got.flags \cup {w} /\ out.flags[w] = <<>>
    BY <2>2 DEF Inserted
  <2>. HIDE DEF old, new, out
  <2>4. DOMAIN out.flags = { ws[k] : k \in new }
    BY <1>2, <2>1, <2>3
  <2>. QED  BY <2>1, <2>2, <2>3, <2>4 DEF FlagsFound, old, new, out
<1>5. CASE ~TakesValue(got, w) /\ ~IsFlag(w)
  <2>1. new = old /\ n + 1 \notin new
    BY <1>1, <1>5
  <2>2. out.flags = got.flags /\ out.flag = None
    BY <1>5 DEF Outcome
  <2>. HIDE DEF w, old, new, out
  <2>. QED  BY <1>2, <2>1, <2>2 DEF FlagsFound, w, old, new, out
<1>. QED  BY <1>3, <1>4, <1>5

\* Only the word after a -n is its value.
LEMMA CountStep ==
    ASSUME NEW ws \in Seq(FullTexts), NEW n \in 0..(Len(ws) - 1), NEW got \in Gathered,
           FlagsFound(ws, n, got), CountFound(ws, n, got)
    PROVE  CountFound(ws, n + 1, Outcome(got, ws[n + 1]))
<1>. DEFINE w == ws[n + 1]
            old == CountTo(ws, n)
            new == CountTo(ws, n + 1)
            out == Outcome(got, w)
            l == Max(old)
<1>1. /\ w \in FullTexts /\ new = old \cup (IF w = CountFlag THEN {n + 1} ELSE {})
      /\ old \subseteq 1..n /\ n \in Nat
  BY FoundGrows
<1>2. old # {} => l \in old /\ l \in 1..n /\ \A k \in old : l >= k
  <2>1. old \subseteq 0..n
    BY <1>1
  <2>. HIDE DEF old
  <2>. QED  BY <1>1, <2>1, MaxOf
<1>3. old # {} => got.flags[CountFlag] = IF l < n /\ IsValue(ws[l + 1]) THEN ws[l + 1] ELSE <<>>
  BY DEF CountFound
<1>4. got.flag = IF IsFlag(ws[n]) /\ n \in 1..n THEN ws[n] ELSE None
  BY DEF FlagsFound, FlagsTo
<1>5. n \in old <=> n \in 1..n /\ ws[n] = CountFlag
  BY DEF CountTo
<1>6. CASE w = CountFlag
  <2>1. IsFlag(w) /\ ~IsValue(w)
    BY <1>6, WordKinds
  <2>2. ~TakesValue(got, w)
    BY <2>1 DEF TakesValue
  <2>3. out.flags = Inserted(got.flags, w, <<>>)
    BY <2>1, <2>2 DEF Outcome
  <2>4. out.flags[CountFlag] = <<>>
    BY <1>6, <2>3 DEF Inserted
  <2>5. Max(new) = n + 1
    <3>1. new \subseteq 0..(n + 1) /\ n + 1 \in new /\ n + 1 \in Nat
      BY <1>1, <1>6
    <3>. HIDE DEF new
    <3>2. new # {}
      BY <3>1
    <3>3. Max(new) \in new /\ \A k \in new : Max(new) >= k
      BY <3>1, <3>2, MaxOf
    <3>4. Max(new) \in 0..(n + 1) /\ Max(new) >= n + 1
      BY <3>1, <3>3
    <3>. QED  BY <3>1, <3>4
  <2>6. ~(Max(new) < n + 1)
    BY <1>1, <2>5
  <2>. HIDE DEF new, out
  <2>. QED  BY <2>4, <2>6 DEF CountFound, new, out
<1>7. CASE w # CountFlag
  <2>1. new = old
    BY <1>1, <1>7
  <2>2. CASE old = {}
    BY <2>1, <2>2 DEF CountFound
  <2>3. CASE old # {} /\ l < n
    <3>1. got.flag # CountFlag
      <4>1. n \notin old
        BY <1>2, <2>3
      <4>2. CountFlag # None
        <5>1. CountFlag \in Texts
          <6>1. l \in 1..Len(ws) /\ ws[l] = CountFlag
            BY <1>2, <2>3 DEF CountTo
          <6>. QED  BY <6>1 DEF FullTexts
        <5>. QED  BY <5>1, NoneAssumption
      <4>. QED  BY <1>4, <1>5, <4>1, <4>2
    <3>2. out.flags \in {got.flags, Inserted(got.flags, w, <<>>), Inserted(got.flags, got.flag, w)}
      BY DEF Outcome
    <3>3. CountFlag \in DOMAIN got.flags
      <4>1. l \in FlagsTo(ws, n)
        BY <1>2, <2>3, WordKinds DEF FlagsTo, CountTo
      <4>2. ws[l] = CountFlag
        BY <1>2, <2>3 DEF CountTo
      <4>. QED  BY <4>1, <4>2 DEF FlagsFound
    <3>4. out.flags[CountFlag] = got.flags[CountFlag]
      <4>. HIDE DEF w, out
      <4>. QED  BY <1>7, <3>1, <3>2, <3>3 DEF Inserted
    <3>5. l < n + 1 /\ l < n
      BY <1>1, <1>2, <2>3
    <3>. HIDE DEF l, old, new, out, w
    <3>6. out.flags[CountFlag] = IF l < n + 1 /\ IsValue(ws[l + 1]) THEN ws[l + 1] ELSE <<>>
      BY <1>3, <2>3, <3>4, <3>5
    <3>. QED  BY <2>1, <3>6 DEF CountFound, l, old, new, out, w
  <2>4. CASE old # {} /\ ~(l < n)
    <3>1. l = n /\ n \in old /\ ws[n] = CountFlag /\ n \in 1..n
      BY <1>1, <1>2, <1>5, <2>4
    <3>2. IsFlag(ws[n]) /\ got.flag = CountFlag
      BY <1>4, <3>1, WordKinds
    <3>3. CountFlag # None
      <4>1. CountFlag \in Texts
        <5>1. n \in 1..Len(ws)
          BY <3>1
        <5>. QED  BY <3>1, <5>1 DEF FullTexts
      <4>. QED  BY <4>1, NoneAssumption
    <3>4. got.flags[CountFlag] = <<>>
      BY <1>3, <2>4
    <3>5. TakesValue(got, w) <=> IsValue(w)
      BY <3>2, <3>3 DEF TakesValue
    <3>6. CASE IsValue(w)
      <4>1. out.flags = Inserted(got.flags, CountFlag, w)
        BY <3>2, <3>5, <3>6 DEF Outcome
      <4>2. out.flags[CountFlag] = w
        BY <4>1 DEF Inserted
      <4>3. l + 1 = n + 1 /\ l < n + 1
        BY <1>1, <3>1
      <4>. HIDE DEF l, old, new, out
      <4>. QED  BY <2>1, <3>6, <4>2, <4>3 DEF CountFound, l, old, new, out
    <3>7. CASE ~IsValue(w)
      <4>1. out.flags \in {got.flags, Inserted(got.flags, w, <<>>)}
        BY <3>5, <3>7 DEF Outcome
      <4>2. CountFlag \in DOMAIN got.flags
        <5>1. n \in FlagsTo(ws, n)
          BY <3>1, <3>2 DEF FlagsTo
        <5>. QED  BY <3>1, <5>1 DEF FlagsFound
      <4>3. out.flags[CountFlag] = <<>>
        <5>. HIDE DEF w, out
        <5>. QED  BY <1>7, <3>4, <4>1, <4>2 DEF Inserted
      <4>4. l + 1 = n + 1
        BY <3>1
      <4>. HIDE DEF l, old, new, out
      <4>. QED  BY <2>1, <3>7, <4>3, <4>4 DEF CountFound, l, old, new, out
    <3>. QED  BY <3>6, <3>7
  <2>. QED  BY <2>2, <2>3, <2>4
<1>. QED  BY <1>6, <1>7

\* One more of them.
LEMMA SizeGrows ==
    ASSUME NEW S, IsFiniteSet(S)
    PROVE  /\ Size(S) \in Nat
           /\ \A x : IsFiniteSet(S \cup {x})
           /\ \A x : x \in S => Size(S \cup {x}) = Size(S)
           /\ \A x : x \notin S => Size(S \cup {x}) = Size(S) + 1
<1>1. Size(S) \in Nat
  BY FS_CardinalityType DEF Size
<1>2. ASSUME NEW x
      PROVE  /\ IsFiniteSet(S \cup {x})
             /\ x \in S => Size(S \cup {x}) = Size(S)
             /\ x \notin S => Size(S \cup {x}) = Size(S) + 1
  BY FS_AddElement DEF Size
<1>. QED  BY <1>1, <1>2

\* No word is lost.
LEMMA WordStep ==
    ASSUME NEW ws \in Seq(FullTexts), NEW n \in 0..(Len(ws) - 1), NEW got \in Gathered,
           PathFound(ws, n, got), FlagsFound(ws, n, got), WordsCounted(ws, n, got)
    PROVE  WordsCounted(ws, n + 1, Outcome(got, ws[n + 1]))
<1>. DEFINE w == ws[n + 1]
            flags == FlagsTo(ws, n)
            slashed == SlashedTo(ws, n)
            out == Outcome(got, w)
            named == DOMAIN got.flags
            valued == Valued(got.flags)
            one == IF slashed = {} THEN 0 ELSE 1
            p == Len(got.positional)
<1>1. /\ w \in FullTexts /\ n \in Nat /\ n + 1 \notin flags
      /\ FlagsTo(ws, n + 1) = flags \cup (IF IsFlag(w) THEN {n + 1} ELSE {})
      /\ SlashedTo(ws, n + 1) = slashed \cup (IF Slashed(w) THEN {n + 1} ELSE {})
      /\ flags \subseteq 1..n /\ slashed \subseteq 1..n
  BY FoundGrows
<1>2. /\ IsFiniteSet(named) /\ Size(named) <= Size(flags)
      /\ Size(named) = Size(flags) => n = Size(flags) + Size(valued) + one + p
  BY DEF WordsCounted
<1>3. IsFiniteSet(flags) /\ IsFiniteSet(valued)
  <2>1. IsFiniteSet(1..n)
    BY <1>1, FS_Interval
  <2>2. IsFiniteSet(flags)
    BY <1>1, <2>1, FS_Subset
  <2>3. valued \in SUBSET named
    BY DEF Valued
  <2>4. IsFiniteSet(valued)
    BY <1>2, <2>3, FS_Subset
  <2>. QED  BY <2>2, <2>4
<1>4. Size(flags) \in Nat /\ Size(named) \in Nat /\ Size(valued) \in Nat /\ p \in Nat
      /\ one \in {0, 1}
  <2>1. got.positional \in Seq(Texts)
    BY DEF Gathered
  <2>2. p \in Nat
    BY <2>1
  <2>. HIDE DEF flags, named, valued
  <2>. QED  BY <1>2, <1>3, <2>2, SizeGrows
<1>5. got.path = None <=> slashed = {}
  <2>1. slashed # {} => ParsePath(ws[Min(slashed)]) # None
    <3>1. ASSUME slashed # {} PROVE ws[Min(slashed)] \in Texts
      <4>1. slashed \subseteq Nat
        BY <1>1
      <4>2. Min(slashed) \in slashed
        BY <3>1, <4>1, MinOf
      <4>3. Min(slashed) \in 1..Len(ws)
        BY <1>1, <4>2
      <4>. QED  BY <4>3 DEF FullTexts
    <3>. QED  BY <3>1, ParsePathTyped
  <2>. QED  BY <2>1 DEF PathFound
<1>6. CASE TakesValue(got, w)
  <2>1. n \in flags /\ got.flag = ws[n] /\ got.flags[ws[n]] = <<>> /\ ws[n] \in named
    <3>1. n \in flags /\ got.flag = ws[n]
      BY <1>6 DEF TakesValue, FlagsFound
    <3>. QED  BY <3>1 DEF FlagsFound
  <2>2. ~IsFlag(w) /\ ~Slashed(w)
    BY <1>6, WordKinds DEF TakesValue
  <2>3. out.flags = Inserted(got.flags, ws[n], w) /\ out.positional = got.positional
    BY <1>6, <2>1 DEF Outcome
  <2>4. w # <<>>
    BY <1>1 DEF FullTexts
  <2>5. DOMAIN out.flags = named /\ Valued(out.flags) = valued \cup {ws[n]} /\ ws[n] \notin valued
    <3>. HIDE DEF w, out
    <3>. QED  BY <2>1, <2>3, <2>4 DEF Inserted, Valued
  <2>6. Size(Valued(out.flags)) = Size(valued) + 1
    <3>. HIDE DEF valued, out
    <3>. QED  BY <1>3, <2>5, SizeGrows
  <2>7. FlagsTo(ws, n + 1) = flags /\ SlashedTo(ws, n + 1) = slashed
    BY <1>1, <2>2
  <2>. DEFINE v == Size(Valued(out.flags))
  <2>8. /\ DOMAIN out.flags = named /\ out.positional = got.positional
        /\ v = Size(valued) + 1
    BY <2>3, <2>5, <2>6
  <2>. HIDE DEF flags, slashed, out, named, valued, w, v, p
  <2>. HIDE DEF one
  <2>9. Size(named) = Size(flags) => n + 1 = Size(flags) + v + one + p
    <3>1. n \in Nat /\ one \in {0, 1} /\ p \in Nat /\ v = Size(valued) + 1
      BY <1>1, <1>4, <2>8
    <3>2. Size(flags) \in Nat /\ Size(valued) \in Nat
      BY <1>4
    <3>3. Size(named) = Size(flags) => n = Size(flags) + Size(valued) + one + p
      BY <1>2
    <3>. QED  BY <3>1, <3>2, <3>3
  <2>. QED  BY <1>2, <2>7, <2>8, <2>9 DEF WordsCounted, v, one, p, out, w
<1>7. CASE ~TakesValue(got, w) /\ IsFlag(w)
  <2>1. ~Slashed(w)
    BY <1>7, WordKinds
  <2>2. out.flags = Inserted(got.flags, w, <<>>) /\ out.positional = got.positional
    BY <1>7 DEF Outcome
  <2>3. DOMAIN out.flags = named \cup {w} /\ (w \notin named => Valued(out.flags) = valued)
    <3>. HIDE DEF w, out
    <3>. QED  BY <2>2 DEF Inserted, Valued
  <2>4. FlagsTo(ws, n + 1) = flags \cup {n + 1} /\ SlashedTo(ws, n + 1) = slashed
    BY <1>1, <1>7, <2>1
  <2>. DEFINE newFlags == FlagsTo(ws, n + 1)
              newNamed == DOMAIN out.flags
              v == Size(Valued(out.flags))
  <2>5. Size(newFlags) = Size(flags) + 1
    <3>. HIDE DEF flags, newFlags
    <3>1. newFlags = flags \cup {n + 1}
      BY <2>4 DEF newFlags
    <3>. QED  BY <1>1, <1>3, <3>1, SizeGrows
  <2>6. /\ IsFiniteSet(newNamed)
        /\ w \in named => Size(newNamed) = Size(named)
        /\ w \notin named => Size(newNamed) = Size(named) + 1 /\ v = Size(valued)
    <3>. HIDE DEF named, valued, out, w
    <3>. QED  BY <1>2, <2>3, SizeGrows
  <2>. HIDE DEF flags, slashed, out, named, valued, w, v, p, newFlags, newNamed
  <2>7. Size(newNamed) <= Size(newFlags)
    BY <1>2, <1>4, <2>5, <2>6
  <2>8. ASSUME Size(newNamed) = Size(newFlags)
        PROVE  n + 1 = Size(newFlags) + v + one + p
    <3>1. w \notin named
      BY <1>2, <1>4, <2>5, <2>6, <2>8
    <3>2. Size(newNamed) = Size(named) + 1 /\ v = Size(valued)
      BY <2>6, <3>1
    <3>3. n = Size(flags) + Size(valued) + one + p
      BY <1>2, <1>4, <2>5, <2>8, <3>2
    <3>4. n \in Nat
      BY <1>1
    <3>. HIDE DEF one
    <3>5. /\ Size(flags) \in Nat /\ Size(valued) \in Nat /\ one \in {0, 1} /\ p \in Nat
          /\ Size(newFlags) = Size(flags) + 1
      BY <1>4, <2>5
    <3>. QED  BY <3>2, <3>3, <3>4, <3>5
  <2>9. Len(out.positional) = p
    BY <2>2 DEF p
  <2>. HIDE DEF one
  <2>. QED  BY <2>4, <2>6, <2>7, <2>8, <2>9
            DEF WordsCounted, v, one, out, w, slashed, newFlags, newNamed
<1>8. CASE ~TakesValue(got, w) /\ ~IsFlag(w)
  <2>1. out.flags = got.flags
    BY <1>8 DEF Outcome
  <2>2. FlagsTo(ws, n + 1) = flags
    BY <1>1, <1>8
  <2>. DEFINE newOne == IF SlashedTo(ws, n + 1) = {} THEN 0 ELSE 1
              newP == Len(out.positional)
  <2>3. newOne + newP = one + p + 1 /\ newOne \in {0, 1} /\ newP \in Nat
    <3>1. CASE Slashed(w) /\ got.path = None
      <4>1. slashed = {} /\ SlashedTo(ws, n + 1) # {}
        BY <1>1, <1>5, <3>1
      <4>2. out.positional = got.positional
        BY <3>1 DEF Outcome
      <4>3. newOne = 1 /\ one = 0 /\ newP = p
        BY <4>1, <4>2
      <4>. HIDE DEF newOne, newP, one, p
      <4>. QED  BY <1>4, <4>3
    <3>2. CASE ~(Slashed(w) /\ got.path = None)
      <4>1. SlashedTo(ws, n + 1) = {} <=> slashed = {}
        BY <1>1, <1>5, <3>2
      <4>2. out.positional = Append(got.positional, w)
        BY <1>8, <3>2 DEF Outcome
      <4>3. got.positional \in Seq(Texts) /\ w \in Texts
        BY <1>1 DEF Gathered, FullTexts
      <4>4. newP = p + 1
        BY <4>2, <4>3
      <4>. HIDE DEF newP, p
      <4>. QED  BY <1>4, <4>1, <4>4
    <3>. QED  BY <3>1, <3>2
  <2>. HIDE DEF flags, slashed, out, named, valued, w, p, newP, one, newOne
  <2>4. Size(named) = Size(flags) => n + 1 = Size(flags) + Size(valued) + newOne + newP
    BY <1>1, <1>2, <1>4, <2>3
  <2>5. DOMAIN out.flags = named /\ Valued(out.flags) = valued
    BY <2>1 DEF named, valued
  <2>. QED  BY <1>2, <2>2, <2>4, <2>5 DEF WordsCounted, newOne, newP, out, w
<1>. QED  BY <1>6, <1>7, <1>8

\* What is gathered from all words.
LEMMA AllGathered ==
    ASSUME NEW ws \in Seq(FullTexts), NEW got, got = FoldLeft(Argument, NoArguments, ws)
    PROVE  /\ PathFound(ws, Len(ws), got) /\ FlagsFound(ws, Len(ws), got)
           /\ CountFound(ws, Len(ws), got) /\ WordsCounted(ws, Len(ws), got)
<1>1. PICK f \in ArgumentRuns(ws) : TRUE
  BY ArgumentSteps
<1>. DEFINE AllFound(n, g) == /\ PathFound(ws, n, g) /\ FlagsFound(ws, n, g)
                              /\ CountFound(ws, n, g) /\ WordsCounted(ws, n, g)
            Good == { n \in 0..Len(ws) : AllFound(n, f[n]) }
<1>2. Len(ws) \in Nat
  OBVIOUS
<1>3. AllFound(0, f[0])
  <2>1. f[0] = NoArguments
    BY <1>1 DEF ArgumentRuns
  <2>2. SlashedTo(ws, 0) = {} /\ FlagsTo(ws, 0) = {} /\ CountTo(ws, 0) = {}
    BY DEF SlashedTo, FlagsTo, CountTo
  <2>3. /\ NoArguments.path = None /\ NoArguments.flag = None /\ Len(NoArguments.positional) = 0
        /\ DOMAIN NoArguments.flags = {} /\ Valued(NoArguments.flags) = {}
    BY DEF NoArguments, Valued
  <2>4. IsFiniteSet({}) /\ Size({}) = 0
    BY FS_EmptySet DEF Size
  <2>5. PathFound(ws, 0, NoArguments)
    BY <2>2, <2>3 DEF PathFound
  <2>6. FlagsFound(ws, 0, NoArguments)
    BY <2>2, <2>3 DEF FlagsFound
  <2>7. CountFound(ws, 0, NoArguments)
    BY <2>2 DEF CountFound
  <2>8. WordsCounted(ws, 0, NoArguments)
    <3>1. /\ IsFiniteSet(DOMAIN NoArguments.flags) /\ Size(DOMAIN NoArguments.flags) = 0
          /\ Size(Valued(NoArguments.flags)) = 0 /\ Size(FlagsTo(ws, 0)) = 0
          /\ (IF SlashedTo(ws, 0) = {} THEN 0 ELSE 1) = 0
      BY <2>2, <2>3, <2>4
    <3>. QED  BY <2>3, <3>1 DEF WordsCounted
  <2>. QED  BY <2>1, <2>5, <2>6, <2>7, <2>8
<1>4. ASSUME NEW n \in 0..(Len(ws) - 1), AllFound(n, f[n]) PROVE AllFound(n + 1, f[n + 1])
  <2>1. n \in 0..Len(ws) /\ n + 1 \in 1..Len(ws) /\ (n + 1) - 1 = n
    BY <1>2
  <2>2. f[n] \in Gathered /\ f[n + 1] = Argument(f[n], ws[n + 1])
    BY <1>1, <2>1 DEF ArgumentRuns
  <2>3. f[n + 1] = Outcome(f[n], ws[n + 1])
    BY <2>2, ArgumentOutcome
  <2>4. /\ PathFound(ws, n, f[n]) /\ FlagsFound(ws, n, f[n])
        /\ CountFound(ws, n, f[n]) /\ WordsCounted(ws, n, f[n])
    BY <1>4
  <2>5. PathFound(ws, n + 1, f[n + 1])
    BY <2>2, <2>3, <2>4, PathStep
  <2>6. FlagsFound(ws, n + 1, f[n + 1])
    BY <2>2, <2>3, <2>4, FlagStep
  <2>7. CountFound(ws, n + 1, f[n + 1])
    BY <2>2, <2>3, <2>4, CountStep
  <2>8. WordsCounted(ws, n + 1, f[n + 1])
    BY <2>2, <2>3, <2>4, WordStep
  <2>. QED  BY <2>5, <2>6, <2>7, <2>8
<1>. HIDE DEF AllFound
<1>5. 0 \in Good /\ \A n \in 0..(Len(ws) - 1) : n \in Good => n + 1 \in Good
  BY <1>2, <1>3, <1>4
<1>6. \A n \in 0..Len(ws) : n \in Good
  <2>. HIDE DEF Good
  <2>. QED  BY <1>2, <1>5, StepsUpTo
<1>7. AllFound(Len(ws), f[Len(ws)])
  BY <1>2, <1>6
<1>8. f[Len(ws)] = got
  BY <1>1 DEF ArgumentRuns
<1>. QED  BY <1>7, <1>8 DEF AllFound

\* No word of a stage is empty.
LEMMA WordsTyped ==
    ASSUME NEW stage \in Seq(Tokens)
    PROVE  Words(stage) \in Seq(FullTexts)
<1>. DEFINE kept == { i \in DOMAIN stage : /\ stage[i].op = "Word"
                                           /\ i > 1 => stage[i - 1].op \notin Redirections }
            indices == [i \in DOMAIN stage |-> i]
            at == InOrder(stage, kept)
<1>1. indices \in Seq(Nat)
  BY DEF indices
<1>. HIDE DEF indices
<1>2. at \in Seq(kept)
  <2>. HIDE DEF kept
  <2>1. Kept(indices, kept) \in Seq(kept)
    BY <1>1, KeptWithin
  <2>. QED  BY <2>1 DEF InOrder, indices
<1>. HIDE DEF at
<1>3. \A i \in kept : stage[i].text \in FullTexts
  <2>1. \A i \in kept : stage[i] \in Tokens /\ stage[i].op = "Word"
    OBVIOUS
  <2>. HIDE DEF kept
  <2>2. \A t \in Tokens : t.op = "Word" => t.text \in FullTexts
    BY DEF Tokens, Token, FullTexts
  <2>. QED  BY <2>1, <2>2
<1>4. Words(stage) = [k \in DOMAIN at |-> stage[at[k]].text]
  BY DEF Words, at
<1>. HIDE DEF kept
<1>5. DOMAIN at = 1..Len(at) /\ Len(at) \in Nat /\ \A k \in 1..Len(at) : at[k] \in kept
  BY <1>2
<1>. DEFINE ws == [k \in 1..Len(at) |-> stage[at[k]].text]
<1>6. ws \in Seq(FullTexts)
  <2>1. ws \in [1..Len(at) -> FullTexts]
    BY <1>3, <1>5
  <2>. HIDE DEF ws
  <2>. QED  BY <1>5, <2>1
<1>. QED  BY <1>4, <1>5, <1>6

\* The count of a head or a tail is what follows the last -n.
LEMMA CountGiven ==
    ASSUME NEW tool \in {"head", "tail"}, NEW flags, CountFlag \in DOMAIN flags,
           NEW n \in DOMAIN Value, flags[CountFlag] \in {<<n>>, <<"+", n>>}
    PROVE  Count(tool, flags) = Value[n]
<1>. DEFINE given == flags[CountFlag]
            text == IF tool = "tail" /\ given # <<>> /\ Head(given) = "+" THEN Tail(given) ELSE given
<1>1. n \notin {"+", "-", "/"} /\ Value[n] \in Nat
  BY ValueAssumption
<1>2. Value[n] # None
  BY <1>1, NoneAssumption
<1>3. Count(tool, flags) = IF Number(text) = None THEN DefaultCount ELSE Number(text)
  BY DEF Count
<1>4. text \in {<<n>>, <<"+", n>>}
  <2>1. CASE given = <<n>>
    BY <1>1, <2>1
  <2>2. CASE given = <<"+", n>>
    <3>1. Tail(given) = <<n>>
      BY <2>2
    <3>. QED  BY <2>2, <3>1
  <2>. QED  BY <2>1, <2>2
<1>. HIDE DEF text
<1>5. Number(text) = Value[n]
  <2>1. CASE text = <<n>>
    <3>1. Len(text) = 1 /\ Head(text) = n
      BY <2>1
    <3>. QED  BY <3>1 DEF Number
  <2>2. CASE text = <<"+", n>>
    <3>1. Len(text) = 2 /\ Head(text) = "+" /\ text[2] = n
      BY <2>2
    <3>. QED  BY <3>1 DEF Number
  <2>. QED  BY <1>4, <2>1, <2>2
<1>. QED  BY <1>2, <1>3, <1>5

\* All of it for one stage.
LEMMA StageKept ==
    ASSUME NEW stage \in Seq(Tokens), Words(stage) # <<>>
    PROVE  KeptIn(Tail(Words(stage)), ParseStage(stage))
<1>. DEFINE words == Words(stage)
            ws == Tail(words)
            n == Len(ws)
            got == Arguments(words)
            parsed == ParseStage(stage)
<1>1. ws \in Seq(FullTexts)
  <2>1. words \in Seq(FullTexts)
    BY WordsTyped
  <2>. HIDE DEF words
  <2>. QED  BY <2>1 DEF words
<1>2. got = FoldLeft(Argument, NoArguments, ws)
  BY DEF Arguments
<1>3. /\ parsed.path = got.path /\ parsed.flags = got.flags
      /\ parsed.positional = got.positional
      /\ parsed.tool \in {"head", "tail"} => parsed.pushed = Count(parsed.tool, got.flags)
  BY DEF ParseStage
<1>. HIDE DEF words, ws, got, parsed
<1>4. /\ PathFound(ws, n, got) /\ FlagsFound(ws, n, got)
      /\ CountFound(ws, n, got) /\ WordsCounted(ws, n, got)
  BY <1>1, <1>2, AllGathered
<1>5. n \in Nat /\ DOMAIN ws = 1..n
  BY <1>1
<1>6. /\ SlashedAt(ws) = SlashedTo(ws, n) /\ FlagsAt(ws) = FlagsTo(ws, n)
      /\ CountAt(ws) = CountTo(ws, n)
  BY <1>5 DEF SlashedAt, FlagsAt, CountAt, SlashedTo, FlagsTo, CountTo, IsFlag
<1>. HIDE DEF n
<1>. DEFINE slashed == SlashedAt(ws)
            flagged == FlagsAt(ws)
            counted == CountAt(ws)
            pathWords == IF slashed = {} THEN {} ELSE {Min(slashed)}
            valued == { f \in DOMAIN parsed.flags : parsed.flags[f] # <<>> }
<1>7. parsed.path = IF slashed = {} THEN None ELSE ParsePath(ws[Min(slashed)])
  BY <1>3, <1>4, <1>6 DEF PathFound
<1>8. DOMAIN parsed.flags = { ws[w] : w \in flagged }
  BY <1>3, <1>4, <1>6 DEF FlagsFound
<1>9. Cardinality(flagged) = Cardinality(DOMAIN parsed.flags) =>
          Len(ws) = Cardinality(flagged) + Cardinality(valued)
                        + Cardinality(pathWords) + Len(parsed.positional)
  <2>1. Cardinality(pathWords) = IF slashed = {} THEN 0 ELSE 1
    BY FS_EmptySet, FS_Singleton
  <2>2. valued = Valued(got.flags)
    BY <1>3 DEF Valued
  <2>3. Size(DOMAIN got.flags) = Size(flagged) =>
            n = Size(flagged) + Size(valued) + (IF slashed = {} THEN 0 ELSE 1)
                    + Len(got.positional)
    BY <1>4, <1>6, <2>2 DEF WordsCounted
  <2>. HIDE DEF slashed, flagged, pathWords, valued
  <2>. QED  BY <1>3, <2>1, <2>3 DEF Size, n
<1>10. ASSUME NEW v \in DOMAIN Value,
              \/ parsed.tool \in {"head", "tail"} /\ <<v>> \in CountWritten(ws)
              \/ parsed.tool = "head" /\ <<"+", v>> \in CountWritten(ws)
       PROVE  parsed.pushed = Value[v]
  <2>1. PICK l \in counted : l = Max(counted) /\ l < Len(ws) /\ ws[l + 1] \in {<<v>>, <<"+", v>>}
    BY <1>10 DEF CountWritten
  <2>2. CountFlag \in DOMAIN got.flags
    <3>1. ws[l] = CountFlag /\ l \in DOMAIN ws
      BY <2>1 DEF CountAt
    <3>2. l \in FlagsTo(ws, n)
      BY <1>5, <3>1, WordKinds DEF FlagsTo
    <3>. QED  BY <1>4, <3>1, <3>2 DEF FlagsFound
  <2>3. IsValue(ws[l + 1])
    <3>1. v \notin {"-", "/"}
      BY ValueAssumption
    <3>2. Head(ws[l + 1]) \in {v, "+"}
      BY <2>1
    <3>. QED  BY <3>1, <3>2 DEF IsValue, Dashed, Slashed
  <2>4. got.flags[CountFlag] = ws[l + 1]
    BY <1>4, <1>6, <2>1, <2>3 DEF CountFound, n
  <2>5. parsed.tool \in {"head", "tail"}
    BY <1>10
  <2>. HIDE DEF counted
  <2>6. Count(parsed.tool, got.flags) = Value[v]
    BY <2>1, <2>2, <2>4, <2>5, CountGiven
  <2>. QED  BY <1>3, <2>5, <2>6
<1>11. KeptIn(ws, parsed)
  BY <1>7, <1>8, <1>9, <1>10 DEF KeptIn, slashed, flagged, pathWords, valued
<1>. QED  BY <1>11 DEF ws, words, parsed

\* Where a line without errors comes from.
LEMMA LineStages ==
    ASSUME Inv, line # None, line.error = None
    PROVE  /\ tokens \in Seq(Tokens) /\ line.groups = Groups(Pipelines(tokens))
           /\ \A k \in DOMAIN Pipelines(tokens) :
                \A j \in DOMAIN Stages(Pipelines(tokens)[k]) :
                    /\ Stages(Pipelines(tokens)[k])[j] \in Seq(Tokens)
                    /\ Words(Stages(Pipelines(tokens)[k])[j]) # <<>>
                    /\ line.groups[k].stages[j] = ParseStage(Stages(Pipelines(tokens)[k])[j])
                    /\ line.groups[k].stages[j].path # Invalid
<1>1. tokens \in Seq(Tokens) /\ line = ParseTokens(tokens)
  <2>1. Failed("ParseError").error # None
    BY NoneAssumption DEF Failed
  <2>. QED  BY <2>1 DEF Inv, Tokenizing, Parsed
<1>2. Sound(Pipelines(tokens)) /\ line.groups = Groups(Pipelines(tokens))
  BY <1>1, LineOfPipelines
<1>3. Pipelines(tokens) \in Seq(Found)
  BY <1>1, PipelinesTyped
<1>. DEFINE ps == Pipelines(tokens)
<1>. HIDE DEF ps
<1>4. ASSUME NEW k \in DOMAIN ps, NEW j \in DOMAIN Stages(ps[k])
      PROVE  /\ Stages(ps[k])[j] \in Seq(Tokens)
             /\ Words(Stages(ps[k])[j]) # <<>>
             /\ line.groups[k].stages[j] = ParseStage(Stages(ps[k])[j])
             /\ line.groups[k].stages[j].path # Invalid
  <2>1. ps[k] \in Found /\ PipelineError(ps[k]) = None
    BY <1>2, <1>3 DEF Sound, ps
  <2>2. Stages(ps[k]) \in Parts(Tokens) /\ StageError(Stages(ps[k])[j]) = None
    BY <2>1, PipelineErrorTyped
  <2>. DEFINE S == Seq(Tokens)
              stages == Stages(ps[k])
  <2>3. stages[j] \in Seq(Tokens)
    <3>1. stages \in Seq(S)
      BY <2>2 DEF Parts
    <3>2. j \in DOMAIN stages
      OBVIOUS
    <3>. HIDE DEF S, stages
    <3>3. stages[j] \in S
      BY <3>1, <3>2
    <3>. QED  BY <3>3 DEF S
  <2>4. line.groups[k] = ParsePipeline(ps[k])
    BY <1>2 DEF Groups, ps
  <2>5. line.groups[k].stages[j] = ParseStage(stages[j])
    BY <2>4 DEF ParsePipeline
  <2>6. Words(stages[j]) # <<>> /\ Arguments(Words(stages[j])).path # Invalid
    BY <2>2, NoneAssumption DEF StageError
  <2>7. ParseStage(stages[j]).path = Arguments(Words(stages[j])).path
    BY DEF ParseStage
  <2>. QED  BY <2>3, <2>5, <2>6, <2>7
<1>. QED  BY <1>1, <1>2, <1>4 DEF ps

(* No argument is lost, no path is taken for a flag's value, and the count *)
(* of a head, or of a tail without the sign, is what follows the last -n.  *)
THEOREM CommandLineArguments == Spec => []ArgumentsKept
<1>1. Inv => ArgumentsKept
  <2>. SUFFICES ASSUME Inv, line # None, line.error = None,
                       NEW k \in DOMAIN WordsOfLine, NEW j \in DOMAIN WordsOfLine[k]
                PROVE  KeptIn(WordsOfLine[k][j], line.groups[k].stages[j])
    BY DEF ArgumentsKept
  <2>. DEFINE stage == Stages(Pipelines(tokens)[k])[j]
  <2>1. /\ k \in DOMAIN Pipelines(tokens) /\ j \in DOMAIN Stages(Pipelines(tokens)[k])
        /\ WordsOfLine[k][j] = Tail(Words(stage))
    BY DEF WordsOfLine
  <2>2. /\ stage \in Seq(Tokens) /\ Words(stage) # <<>>
        /\ line.groups[k].stages[j] = ParseStage(stage)
    BY <2>1, LineStages
  <2>. HIDE DEF stage
  <2>3. KeptIn(Tail(Words(stage)), ParseStage(stage))
    BY <2>2, StageKept
  <2>. QED  BY <2>1, <2>2, <2>3
<1>. QED  BY <1>1, InvHolds, PTL

-----------------------------------------------------------------------------
(* What the tokens of a text are: the parts of Tokenized by name.          *)

Opened(t) == [i \in 0..Len(t) |-> OpenAfter(SubSeq(t, 1, i))]
BreaksOf(t) == { i \in DOMAIN t : Opened(t)[i - 1] = None /\ t[i] \in Special \ Quotes }
TextOf(t) ==
    { i \in DOMAIN t : IF Opened(t)[i - 1] = None THEN t[i] \notin Special
                       ELSE Opened(t)[i] # None }
Joined(t, i, j) == (i..j) \cap BreaksOf(t) = {}
Arrows(t, i, j) == \A m \in i..j : m \in BreaksOf(t) /\ t[m] = ">"
ArrowsBefore(t, i) == { j \in 1..(i - 1) : Arrows(t, j, i - 1) }
WordBegins(t) == { i \in TextOf(t) : \A j \in TextOf(t) : j < i => ~Joined(t, j, i) }
OperatorsOf(t) == { i \in BreaksOf(t) : t[i] \in DOMAIN Operators }
RedirectsOf(t) ==
    { i \in BreaksOf(t) : t[i] = ">" /\ Cardinality(ArrowsBefore(t, i)) % 2 = 0 }
Begins(t) == WordBegins(t) \cup OperatorsOf(t) \cup RedirectsOf(t)
WordFrom(t, i) == { j \in TextOf(t) : j >= i /\ Joined(t, i, j) }
Written(t, S) == [k \in DOMAIN InOrder(t, S) |-> t[InOrder(t, S)[k]]]
TokenAt(t, i) ==
    IF i \in TextOf(t) THEN Token("Word", Written(t, WordFrom(t, i)))
    ELSE IF t[i] \in DOMAIN Operators THEN Token(Operators[t[i]], <<>>)
    ELSE IF i < Len(t) /\ Arrows(t, i, i + 1) THEN Token("Append", <<>>)
    ELSE Token("Overwrite", <<>>)
TokensAt(t, S) == [k \in DOMAIN InOrder(t, S) |-> TokenAt(t, InOrder(t, S)[k])]

\* They are the parts of Tokenized.
LEMMA TokenizedParts ==
    ASSUME NEW t
    PROVE  Tokenized(t) = TokensAt(t, Begins(t))
  BY DEF Tokenized, TokensAt, TokenAt, Written, WordFrom, Begins, RedirectsOf, OperatorsOf,
         WordBegins, ArrowsBefore, Arrows, Joined, TextOf, BreaksOf, Opened

-----------------------------------------------------------------------------
(* Quotes, symbol by symbol.                                               *)

OpenStep(open, c) ==
    IF open = None THEN IF c \in Quotes THEN c ELSE None
    ELSE IF c = open THEN None
    ELSE open

\* The quote that is open after each symbol.
OpenRuns(t) ==
    { f \in [0..Len(t) -> Quotes \cup {None}] :
        /\ f[0] = None
        /\ f[Len(t)] = OpenAfter(t)
        /\ \A n \in 1..Len(t) : f[n] = OpenStep(f[n - 1], t[n]) }

\* A quote opens, or closes, or is text in the other one.
LEMMA OpenSteps ==
    ASSUME NEW R, NEW text \in Seq(R)
    PROVE  OpenRuns(text) # {}
<1>. DEFINE D == Quotes \cup {None}
            step == [p \in D \X R |-> OpenStep(p[1], p[2])]
            Rec(it) == [t \in SUBSET (DOMAIN text) |->
                          IF t = {} THEN None
                          ELSE OpenStep(it[t \ {Max(t)}], text[Max(t)])]
            iter == CHOOSE it : it = Rec(it)
<1>1. step \in [D \X R -> D] /\ None \in D
  BY DEF OpenStep
<1>2. \A old \in D, e \in R : step[<<old, e>>] = OpenStep(old, e)
  OBVIOUS
<1>0. text \in Seq(R)
  OBVIOUS
<1>. HIDE DEF D, step
<1>3. iter = Rec(iter)
  <2>1. Iterators(D, None, text, step) # {}
    BY <1>0, <1>1, FoldIterates
  <2>2. PICK it \in Iterators(D, None, text, step) : TRUE
    BY <2>1
  <2>3. it = Rec(it)
    <3>. SUFFICES ASSUME NEW t \in SUBSET (DOMAIN text), t # {}
                  PROVE  it[t] = OpenStep(it[t \ {Max(t)}], text[Max(t)])
      BY <2>2 DEF Iterators, Unfolds
    <3>1. text[Max(t)] \in R
      BY <1>0, MaxInDomain
    <3>. QED  BY <1>2, <2>2, <3>1 DEF Iterators, Unfolds
  <2>. HIDE DEF Rec
  <2>. QED  BY <2>3
<1>4. OpenAfter(text) = iter[DOMAIN text]
  BY DEF OpenAfter, OpenStep, FoldLeft, MapThenFoldSet
<1>. HIDE DEF iter
<1>5. Unfolds(iter, D, None, text, step)
  <2>1. ASSUME NEW t \in SUBSET (DOMAIN text), t # {}, iter[t \ {Max(t)}] \in D
        PROVE  iter[t] = step[<<iter[t \ {Max(t)}], text[Max(t)]>>]
    <3>1. text[Max(t)] \in R
      BY <1>0, <2>1, MaxInDomain
    <3>2. iter[t] = OpenStep(iter[t \ {Max(t)}], text[Max(t)])
      BY <1>3, <2>1
    <3>. QED  BY <1>2, <2>1, <3>1, <3>2
  <2>. QED  BY <1>3, <2>1 DEF Unfolds
<1>6. PICK f \in Runs(D, None, text, step) : f[Len(text)] = iter[DOMAIN text]
  <2>. HIDE DEF Rec
  <2>1. iter[DOMAIN text] \in Outcomes(D, None, text, step)
    BY <1>0, <1>1, <1>5, FoldAlong
  <2>. QED  BY <2>1 DEF Outcomes
<1>7. ASSUME NEW n \in 1..Len(text) PROVE f[n] = OpenStep(f[n - 1], text[n])
  <2>1. f[n - 1] \in D /\ text[n] \in R
    BY <1>0 DEF Runs
  <2>. QED  BY <1>2, <1>6, <2>1 DEF Runs
<1>8. f \in OpenRuns(text)
  BY <1>4, <1>6, <1>7 DEF D, Runs, OpenRuns
<1>. QED  BY <1>8

\* One more symbol.
LEMMA OpenGrows ==
    ASSUME NEW R, NEW t \in Seq(R)
    PROVE  /\ OpenAfter(<<>>) = None
           /\ \A n \in 0..Len(t) : OpenAfter(Initial(t, n)) \in Quotes \cup {None}
           /\ \A n \in 0..(Len(t) - 1) :
                 OpenAfter(Initial(t, n + 1)) = OpenStep(OpenAfter(Initial(t, n)), t[n + 1])
<1>1. <<>> \in Seq(R)
  OBVIOUS
<1>2. OpenAfter(<<>>) = None
  <2>1. PICK f \in OpenRuns(<<>>) : TRUE
    BY <1>1, OpenSteps
  <2>. QED  BY <2>1 DEF OpenRuns
<1>3. PICK f \in OpenRuns(t) : TRUE
  BY OpenSteps
<1>4. ASSUME NEW n \in 0..Len(t) PROVE OpenAfter(Initial(t, n)) = f[n]
  <2>. DEFINE a == Initial(t, n)
  <2>1. a \in Seq(R) /\ Len(a) = n /\ \A m \in 1..n : a[m] = t[m]
    BY DEF Initial
  <2>. HIDE DEF a
  <2>2. PICK g \in OpenRuns(a) : TRUE
    BY <2>1, OpenSteps
  <2>. DEFINE Same == { m \in 0..n : g[m] = f[m] }
  <2>3. n \in Nat /\ n <= Len(t) /\ Len(t) \in Nat
    OBVIOUS
  <2>4. 0 \in Same
    BY <1>3, <2>2, <2>3 DEF OpenRuns
  <2>5. ASSUME NEW m \in 0..(n - 1), m \in Same PROVE m + 1 \in Same
    <3>1. m + 1 \in 1..n /\ m + 1 \in 1..Len(t) /\ (m + 1) - 1 = m /\ m + 1 \in 0..n
      BY <2>3
    <3>2. g[m + 1] = OpenStep(g[m], a[m + 1]) /\ f[m + 1] = OpenStep(f[m], t[m + 1])
      BY <1>3, <2>1, <2>2, <3>1 DEF OpenRuns
    <3>. QED  BY <2>1, <2>5, <3>1, <3>2
  <2>. HIDE DEF Same
  <2>6. \A m \in 0..n : m \in Same
    BY <2>3, <2>4, <2>5, StepsUpTo
  <2>7. n \in Same
    BY <2>3, <2>6
  <2>. QED  BY <2>1, <2>2, <2>7 DEF OpenRuns, Same, a
<1>5. ASSUME NEW n \in 0..(Len(t) - 1)
      PROVE  OpenAfter(Initial(t, n + 1)) = OpenStep(OpenAfter(Initial(t, n)), t[n + 1])
  <2>1. n + 1 \in 1..Len(t) /\ (n + 1) - 1 = n /\ n \in 0..Len(t) /\ n + 1 \in 0..Len(t)
    OBVIOUS
  <2>. QED  BY <1>3, <1>4, <2>1 DEF OpenRuns
<1>6. ASSUME NEW n \in 0..Len(t) PROVE OpenAfter(Initial(t, n)) \in Quotes \cup {None}
  BY <1>3, <1>4 DEF OpenRuns
<1>. QED  BY <1>2, <1>5, <1>6

-----------------------------------------------------------------------------
(* The positions of a text, in order.                                      *)

\* Positions are in order when one behind all others is appended.
InOrderGrows(t, S, m) == InOrder(t, S \cup {m}) = Append(InOrder(t, S), m)
LEMMA InOrderAppend ==
    ASSUME NEW R, NEW t \in Seq(R), NEW m \in 1..Len(t), NEW S \in SUBSET (1..(m - 1))
    PROVE  InOrderGrows(t, S, m) /\ InOrder(t, S) \in Seq(S) /\ InOrder(t, {}) = <<>>
<1>. DEFINE N == Len(t)
            at == [i \in 1..N |-> i]
<1>1. N \in Nat /\ DOMAIN t = 1..N
  OBVIOUS
<1>2. InOrder(t, S) = Kept(at, S) /\ InOrder(t, S \cup {m}) = Kept(at, S \cup {m})
        /\ InOrder(t, {}) = Kept(at, {})
  BY <1>1 DEF InOrder
<1>3. m \in 1..N /\ \A i \in S : i \in 1..N /\ i < m
  BY <1>1
<1>. HIDE DEF N
<1>4. at \in Seq(1..N) /\ Len(at) = N /\ \A i \in 1..N : at[i] = i
  BY <1>1
<1>. HIDE DEF at
<1>5. PICK f \in KeptRuns(1..N, at, S) : TRUE
  BY <1>4, KeptSteps
<1>6. PICK g \in KeptRuns(1..N, at, S \cup {m}) : TRUE
  BY <1>4, KeptSteps
<1>7. /\ f[0] = <<>> /\ f[N] = Kept(at, S)
      /\ \A n \in 1..N : f[n] = IF n \in S THEN Append(f[n - 1], n) ELSE f[n - 1]
  BY <1>4, <1>5 DEF KeptRuns
<1>8. /\ g[0] = <<>> /\ g[N] = Kept(at, S \cup {m})
      /\ \A n \in 1..N : g[n] = IF n \in S \cup {m} THEN Append(g[n - 1], n) ELSE g[n - 1]
  BY <1>4, <1>6 DEF KeptRuns
<1>. DEFINE Grown == { n \in 0..N : g[n] = IF n < m THEN f[n] ELSE Append(f[n], m) }
<1>9. 0 \in Grown
  BY <1>1, <1>3, <1>7, <1>8
<1>10. ASSUME NEW n \in 0..(N - 1), n \in Grown PROVE n + 1 \in Grown
  <2>1. n + 1 \in 1..N /\ (n + 1) - 1 = n /\ n + 1 \in 0..N
    BY <1>1
  <2>2. /\ f[n + 1] = IF n + 1 \in S THEN Append(f[n], n + 1) ELSE f[n]
        /\ g[n + 1] = IF n + 1 \in S \cup {m} THEN Append(g[n], n + 1) ELSE g[n]
        /\ g[n] = IF n < m THEN f[n] ELSE Append(f[n], m)
    BY <1>7, <1>8, <1>10, <2>1
  <2>3. CASE n + 1 < m
    BY <1>3, <2>1, <2>2, <2>3
  <2>4. CASE n + 1 = m
    <3>1. n + 1 \notin S /\ n < m /\ ~(n + 1 < m)
      BY <1>3, <2>4
    <3>2. f[n + 1] = f[n] /\ g[n + 1] = Append(g[n], n + 1) /\ g[n] = f[n]
      BY <2>2, <2>4, <3>1
    <3>3. g[n + 1] = Append(f[n + 1], m)
      BY <2>4, <3>2
    <3>. QED  BY <2>1, <3>1, <3>3
  <2>5. CASE n + 1 > m
    <3>1. n + 1 \notin S /\ n + 1 # m /\ ~(n < m) /\ ~(n + 1 < m)
      BY <1>3, <2>5
    <3>. QED  BY <2>1, <2>2, <3>1
  <2>. QED  BY <1>3, <2>3, <2>4, <2>5
<1>. HIDE DEF Grown
<1>11. N \in Grown
  <2>1. \A n \in 0..N : n \in Grown
    BY <1>1, <1>9, <1>10, StepsUpTo
  <2>. QED  BY <1>1, <2>1
<1>12. Kept(at, S \cup {m}) = Append(Kept(at, S), m)
  <2>1. ~(N < m) /\ g[N] = IF N < m THEN f[N] ELSE Append(f[N], m)
    BY <1>1, <1>3, <1>11 DEF Grown
  <2>. QED  BY <1>7, <1>8, <2>1
<1>13. Kept(at, S) \in Seq(S)
  BY <1>4, KeptWithin
<1>14. Kept(at, {}) = <<>>
  <2>1. Kept(at, {}) \in Seq({})
    BY <1>4, KeptWithin
  <2>. QED  BY <2>1
<1>. QED  BY <1>2, <1>12, <1>13, <1>14 DEF InOrderGrows

\* So is what is written there, and the tokens there.
WrittenGrows(t, S, m) == Written(t, S \cup {m}) = Append(Written(t, S), t[m])
TokensGrow(t, S, m) == TokensAt(t, S \cup {m}) = Append(TokensAt(t, S), TokenAt(t, m))
LEMMA AtPositions ==
    ASSUME NEW R, NEW t \in Seq(R), NEW m \in 1..Len(t), NEW S \in SUBSET (1..(m - 1))
    PROVE  WrittenGrows(t, S, m) /\ TokensGrow(t, S, m)
<1>. DEFINE p == InOrder(t, S)
            q == InOrder(t, S \cup {m})
<1>1. q = Append(p, m) /\ p \in Seq(S)
  BY InOrderAppend DEF InOrderGrows
<1>. HIDE DEF p, q
<1>2. /\ Len(p) \in Nat /\ DOMAIN p = 1..Len(p) /\ DOMAIN q = 1..(Len(p) + 1)
      /\ q[Len(p) + 1] = m /\ \A k \in 1..Len(p) : q[k] = p[k]
  BY <1>1
<1>3. Written(t, S \cup {m}) = [k \in 1..(Len(p) + 1) |-> t[q[k]]]
        /\ Written(t, S) = [k \in 1..Len(p) |-> t[p[k]]]
  BY <1>2 DEF Written, p, q
<1>4. TokensAt(t, S \cup {m}) = [k \in 1..(Len(p) + 1) |-> TokenAt(t, q[k])]
        /\ TokensAt(t, S) = [k \in 1..Len(p) |-> TokenAt(t, p[k])]
  BY <1>2 DEF TokensAt, p, q
<1>. HIDE DEF p, q
<1>5. WrittenGrows(t, S, m)
  <2>. DEFINE w == Written(t, S)
              e == t[m]
  <2>1. Len(w) = Len(p) /\ Append(w, e) = [k \in 1..(Len(w) + 1) |-> IF k = Len(w) + 1 THEN e ELSE w[k]]
    BY <1>2, <1>3
  <2>2. ASSUME NEW k \in 1..(Len(p) + 1)
        PROVE  t[q[k]] = IF k = Len(p) + 1 THEN e ELSE w[k]
    BY <1>2, <1>3
  <2>. HIDE DEF w, e
  <2>3. [k \in 1..(Len(p) + 1) |-> t[q[k]]]
            = [k \in 1..(Len(w) + 1) |-> IF k = Len(w) + 1 THEN e ELSE w[k]]
    BY <2>1, <2>2
  <2>4. Written(t, S \cup {m}) = Append(w, e)
    BY <1>3, <2>1, <2>3
  <2>. QED  BY <2>4 DEF WrittenGrows, w, e
<1>6. TokensGrow(t, S, m)
  <2>. DEFINE w == TokensAt(t, S)
              e == TokenAt(t, m)
  <2>1. Len(w) = Len(p) /\ Append(w, e) = [k \in 1..(Len(w) + 1) |-> IF k = Len(w) + 1 THEN e ELSE w[k]]
    BY <1>2, <1>4
  <2>2. ASSUME NEW k \in 1..(Len(p) + 1)
        PROVE  TokenAt(t, q[k]) = IF k = Len(p) + 1 THEN e ELSE w[k]
    BY <1>2, <1>4
  <2>. HIDE DEF w, e
  <2>3. [k \in 1..(Len(p) + 1) |-> TokenAt(t, q[k])]
            = [k \in 1..(Len(w) + 1) |-> IF k = Len(w) + 1 THEN e ELSE w[k]]
    BY <2>1, <2>2
  <2>4. TokensAt(t, S \cup {m}) = Append(w, e)
    BY <1>4, <2>1, <2>3
  <2>. QED  BY <2>4 DEF TokensGrow, w, e
<1>. QED  BY <1>5, <1>6

-----------------------------------------------------------------------------
(* What a symbol is, and what has been read after n of them.               *)

OpenAt(t, n) == OpenAfter(Initial(t, n))

\* A symbol splits words, is text, or is neither: a quote.
LEMMA SymbolKinds ==
    ASSUME NEW R, NEW t \in Seq(R), NEW n \in 0..(Len(t) - 1)
    PROVE  /\ n + 1 \in BreaksOf(t) <=> OpenAt(t, n) = None /\ t[n + 1] \in Special \ Quotes
           /\ n + 1 \in TextOf(t) <=> IF OpenAt(t, n) = None THEN t[n + 1] \notin Special
                                      ELSE t[n + 1] # OpenAt(t, n)
           /\ OpenAt(t, n + 1) = OpenStep(OpenAt(t, n), t[n + 1])
<1>1. n \in 0..Len(t) /\ n + 1 \in 0..Len(t) /\ n + 1 \in DOMAIN t /\ (n + 1) - 1 = n
  OBVIOUS
<1>2. Opened(t)[n] = OpenAt(t, n) /\ Opened(t)[n + 1] = OpenAt(t, n + 1)
  BY <1>1 DEF Opened, OpenAt, Initial
<1>3. OpenAt(t, n) \in Quotes \cup {None} /\ OpenAt(t, n + 1) = OpenStep(OpenAt(t, n), t[n + 1])
  BY <1>1, OpenGrows DEF OpenAt
<1>4. None \notin Quotes
  BY NoneAssumption DEF Quotes
<1>. QED  BY <1>1, <1>2, <1>3, <1>4 DEF BreaksOf, TextOf, OpenStep

\* Text splits nothing.
LEMMA TextIsNoBreak ==
    ASSUME NEW R, NEW t \in Seq(R)
    PROVE  /\ BreaksOf(t) \subseteq 1..Len(t) /\ TextOf(t) \subseteq 1..Len(t)
           /\ BreaksOf(t) \cap TextOf(t) = {}
           /\ Begins(t) \subseteq BreaksOf(t) \cup TextOf(t)
<1>1. BreaksOf(t) \subseteq 1..Len(t) /\ TextOf(t) \subseteq 1..Len(t)
  BY DEF BreaksOf, TextOf
<1>2. BreaksOf(t) \cap TextOf(t) = {}
  BY DEF BreaksOf, TextOf, Special
<1>3. Begins(t) \subseteq BreaksOf(t) \cup TextOf(t)
  BY DEF Begins, WordBegins, OperatorsOf, RedirectsOf
<1>. QED  BY <1>1, <1>2, <1>3

(* The text of the word that is being read, the tokens that have begun,    *)
(* and those that are complete.                                            *)
Pending(t, n) == { j \in TextOf(t) : j <= n /\ Joined(t, j, n) }
BeginsTo(t, n) == { i \in Begins(t) : i <= n }
Done(t, n) == BeginsTo(t, n) \ Pending(t, n)

\* A break ends the word, and text goes to it.
LEMMA PendingGrows ==
    ASSUME NEW R, NEW t \in Seq(R), NEW n \in 0..(Len(t) - 1)
    PROVE  /\ n + 1 \in BreaksOf(t) => Pending(t, n + 1) = {}
           /\ n + 1 \in TextOf(t) => Pending(t, n + 1) = Pending(t, n) \cup {n + 1}
           /\ n + 1 \notin BreaksOf(t) \cup TextOf(t) => Pending(t, n + 1) = Pending(t, n)
<1>. DEFINE m == n + 1
<1>1. n \in Nat /\ m \in Nat /\ m > n /\ \A j \in Nat : j <= m <=> j <= n \/ j = m
  OBVIOUS
<1>2. /\ BreaksOf(t) \subseteq Nat /\ TextOf(t) \subseteq Nat
      /\ BreaksOf(t) \cap TextOf(t) = {}
  BY TextIsNoBreak
<1>3. ASSUME NEW j \in Nat, j <= n PROVE Joined(t, j, m) <=> Joined(t, j, n) /\ m \notin BreaksOf(t)
  <2>1. j..m = (j..n) \cup {m}
    BY <1>1, <1>3
  <2>. QED  BY <2>1 DEF Joined
<1>4. Joined(t, m, m) <=> m \notin BreaksOf(t)
  <2>1. m..m = {m}
    BY <1>1
  <2>. QED  BY <2>1 DEF Joined
<1>. HIDE DEF m
<1>. QED  BY <1>1, <1>2, <1>3, <1>4 DEF Pending, m

\* What has begun is complete once the word is.
LEMMA DoneGrows ==
    ASSUME NEW R, NEW t \in Seq(R), NEW n \in 0..(Len(t) - 1)
    PROVE  /\ n + 1 \notin BreaksOf(t) => Done(t, n + 1) = Done(t, n)
           /\ n + 1 \in BreaksOf(t) => Done(t, n + 1) = BeginsTo(t, n + 1)
           /\ n + 1 \in Begins(t) => BeginsTo(t, n + 1) = BeginsTo(t, n) \cup {n + 1}
           /\ n + 1 \notin Begins(t) => BeginsTo(t, n + 1) = BeginsTo(t, n)
<1>. DEFINE m == n + 1
<1>1. n \in Nat /\ m \in Nat /\ m > n /\ \A j \in Nat : j <= m <=> j <= n \/ j = m
  OBVIOUS
<1>2. BreaksOf(t) \subseteq Nat /\ TextOf(t) \subseteq Nat /\ Begins(t) \subseteq BreaksOf(t) \cup TextOf(t)
  BY TextIsNoBreak
<1>3. /\ m \in BreaksOf(t) => Pending(t, m) = {}
      /\ m \in TextOf(t) => Pending(t, m) = Pending(t, n) \cup {m}
      /\ m \notin BreaksOf(t) \cup TextOf(t) => Pending(t, m) = Pending(t, n)
  BY PendingGrows
<1>. HIDE DEF m
<1>4. /\ m \in Begins(t) => BeginsTo(t, m) = BeginsTo(t, n) \cup {m}
      /\ m \notin Begins(t) => BeginsTo(t, m) = BeginsTo(t, n)
  BY <1>1, <1>2 DEF BeginsTo
<1>5. m \notin BeginsTo(t, n)
  BY <1>1 DEF BeginsTo
<1>. QED  BY <1>2, <1>3, <1>4, <1>5 DEF Done, m

\* The word that is being read begins at the first of its text.
LEMMA WordBeginsFirst ==
    ASSUME NEW R, NEW t \in Seq(R), NEW n \in 0..Len(t), Pending(t, n) # {},
           NEW p, p = Min(Pending(t, n))
    PROVE  /\ p \in 1..Len(t) /\ p <= n
           /\ BeginsTo(t, n) = Done(t, n) \cup {p}
           /\ Done(t, n) \subseteq 1..(p - 1)
           /\ p \in TextOf(t)
           /\ (n < Len(t) => n + 1 \in BreaksOf(t)) => WordFrom(t, p) = Pending(t, n)
<1>. DEFINE P == Pending(t, n)
            B == BreaksOf(t)
            T == TextOf(t)
            N == Len(t)
<1>1. /\ B \subseteq 1..N /\ T \subseteq 1..N /\ B \cap T = {} /\ Begins(t) \subseteq B \cup T
      /\ N \in Nat /\ n \in Nat /\ n <= N
  BY TextIsNoBreak
<1>2. P = { j \in T : j <= n /\ \A b \in B : ~(j <= b /\ b <= n) }
  BY <1>1 DEF Pending, Joined
<1>3. \A i, j \in T : Joined(t, i, j) <=> \A b \in B : ~(i <= b /\ b <= j)
  BY <1>1 DEF Joined
<1>4. \A i \in T : i \in Begins(t) <=> \A j \in T : j < i => ~Joined(t, j, i)
  BY <1>1 DEF Begins, WordBegins, OperatorsOf, RedirectsOf
<1>5. WordFrom(t, p) = { j \in T : j >= p /\ Joined(t, p, j) }
  BY DEF WordFrom
<1>. HIDE DEF P, B, T, N
<1>6. p \in P /\ \A j \in P : p <= j
  <2>1. P \subseteq Nat
    BY <1>1, <1>2
  <2>2. P # {} /\ p = Min(P)
    BY DEF P
  <2>. QED  BY <2>1, <2>2, MinOf
<1>7. p \in T /\ p \in 1..N /\ p <= n /\ \A b \in B : ~(p <= b /\ b <= n)
  BY <1>1, <1>2, <1>6
<1>8. p \in Begins(t)
  <2>1. ASSUME NEW j \in T, j < p, Joined(t, j, p) PROVE FALSE
    <3>1. \A b \in B : ~(j <= b /\ b <= p)
      BY <1>3, <1>7, <2>1
    <3>2. \A b \in B : ~(j <= b /\ b <= n)
      BY <1>1, <1>7, <3>1
    <3>3. j \in P
      BY <1>1, <1>2, <1>7, <2>1, <3>2
    <3>. QED  BY <1>1, <1>6, <1>7, <2>1, <3>3
  <2>. QED  BY <1>4, <1>7, <2>1
<1>9. ASSUME NEW i \in Begins(t), i <= n, i \notin P PROVE i \in 1..(p - 1)
  <2>1. i \in 1..N
    BY <1>1
  <2>2. SUFFICES ASSUME i >= p PROVE FALSE
    BY <1>7, <2>1
  <2>3. i \notin B
    BY <1>7, <1>9, <2>2
  <2>4. i \in T
    BY <1>1, <2>3
  <2>5. \A b \in B : ~(i <= b /\ b <= n)
    BY <1>1, <1>7, <2>1, <2>2
  <2>. QED  BY <1>2, <1>9, <2>4, <2>5
<1>10. ASSUME NEW i \in Begins(t), i \in P PROVE i = p
  <2>1. SUFFICES ASSUME i > p PROVE FALSE
    BY <1>1, <1>2, <1>6, <1>7, <1>10
  <2>2. i \in T /\ i <= n
    BY <1>2, <1>10
  <2>3. \A b \in B : ~(p <= b /\ b <= i)
    BY <1>1, <1>7, <2>2
  <2>4. Joined(t, p, i)
    BY <1>3, <1>7, <2>2, <2>3
  <2>5. p < i
    BY <1>1, <1>7, <2>1, <2>2
  <2>. QED  BY <1>4, <1>7, <1>10, <2>2, <2>4, <2>5
<1>11. BeginsTo(t, n) = Done(t, n) \cup {p}
  BY <1>6, <1>7, <1>8, <1>10 DEF BeginsTo, Done, P
<1>12. Done(t, n) \subseteq 1..(p - 1)
  BY <1>9 DEF Done, BeginsTo, P
<1>13. ASSUME n < N => n + 1 \in B PROVE WordFrom(t, p) = P
  <2>1. ASSUME NEW j \in P PROVE j \in WordFrom(t, p)
    <3>1. j \in T /\ j <= n /\ j >= p
      BY <1>1, <1>2, <1>6, <1>7
    <3>2. \A b \in B : ~(p <= b /\ b <= j)
      BY <1>1, <1>7, <3>1
    <3>. QED  BY <1>3, <1>5, <1>7, <3>1, <3>2
  <2>2. ASSUME NEW j \in WordFrom(t, p) PROVE j \in P
    <3>1. j \in T /\ j >= p /\ \A b \in B : ~(p <= b /\ b <= j)
      BY <1>3, <1>5, <1>7
    <3>2. j \in 1..N
      BY <1>1, <3>1
    <3>3. j <= n
      BY <1>1, <1>7, <1>13, <3>1, <3>2
    <3>4. \A b \in B : ~(j <= b /\ b <= n)
      BY <1>1, <1>7, <3>1, <3>2
    <3>. QED  BY <1>2, <3>1, <3>3, <3>4
  <2>. QED  BY <2>1, <2>2
<1>. QED  BY <1>7, <1>11, <1>12, <1>13 DEF P, T, B, N

-----------------------------------------------------------------------------
(* Redirections: one or two arrows.                                        *)

Even(t, i) == Cardinality(ArrowsBefore(t, i)) % 2 = 0
IsArrow(t, i) == i \in BreaksOf(t) /\ t[i] = ">"

\* An arrow more changes whether their number is even.
LEMMA EvenGrows ==
    ASSUME NEW R, NEW t \in Seq(R), NEW m \in 1..Len(t)
    PROVE  /\ IsArrow(t, m) => (Even(t, m + 1) <=> ~Even(t, m))
           /\ ~IsArrow(t, m) => Even(t, m + 1)
           /\ Even(t, 1)
<1>. DEFINE A == ArrowsBefore(t, m)
            B == ArrowsBefore(t, m + 1)
<1>1. m \in Nat /\ m >= 1 /\ (m + 1) - 1 = m /\ 1..m = (1..(m - 1)) \cup {m} /\ m \notin 1..(m - 1)
  OBVIOUS
<1>2. A = { j \in 1..(m - 1) : \A x \in j..(m - 1) : IsArrow(t, x) }
  BY DEF ArrowsBefore, Arrows, IsArrow
<1>3. B = { j \in 1..m : \A x \in j..m : IsArrow(t, x) }
  BY <1>1 DEF ArrowsBefore, Arrows, IsArrow
<1>4. ArrowsBefore(t, 1) = {}
  BY DEF ArrowsBefore
<1>. HIDE DEF A, B
<1>5. \A j \in 1..m : m \in j..m
  BY <1>1
<1>6. ~IsArrow(t, m) => B = {}
  BY <1>3, <1>5
<1>7. ASSUME IsArrow(t, m) PROVE B = A \cup {m}
  <2>1. \A j \in 1..(m - 1) : j..m = (j..(m - 1)) \cup {m}
    BY <1>1
  <2>2. m..m = {m}
    BY <1>1
  <2>. QED  BY <1>1, <1>2, <1>3, <1>7, <2>1, <2>2
<1>8. IsFiniteSet(A) /\ m \notin A
  <2>1. A \subseteq 1..(m - 1)
    BY <1>2
  <2>2. IsFiniteSet(1..(m - 1))
    BY <1>1, FS_Interval
  <2>. QED  BY <1>1, <2>1, <2>2, FS_Subset
<1>9. Cardinality(A) \in Nat /\ Cardinality(A \cup {m}) = Cardinality(A) + 1
  BY <1>8, FS_CardinalityType, FS_AddElement
<1>10. Cardinality({}) = 0
  BY FS_EmptySet
<1>11. \A c \in Nat : (c + 1) % 2 = 0 <=> ~(c % 2 = 0)
  OBVIOUS
<1>12. 0 % 2 = 0
  OBVIOUS
<1>13. IsArrow(t, m) => (Even(t, m + 1) <=> ~Even(t, m))
  BY <1>7, <1>9, <1>11 DEF Even, A, B
<1>14. ~IsArrow(t, m) => Even(t, m + 1)
  BY <1>6, <1>10, <1>12 DEF Even, B
<1>15. Even(t, 1)
  BY <1>4, <1>10, <1>12 DEF Even
<1>. QED  BY <1>13, <1>14, <1>15

\* The token at a break.
BreakToken(t, m) ==
    IF t[m] \in DOMAIN Operators THEN Token(Operators[t[m]], <<>>)
    ELSE IF m < Len(t) /\ IsArrow(t, m) /\ IsArrow(t, m + 1) THEN Token("Append", <<>>)
    ELSE Token("Overwrite", <<>>)
LEMMA BreakBegins ==
    ASSUME NEW R, NEW t \in Seq(R), NEW m \in 1..Len(t), m \in BreaksOf(t)
    PROVE  /\ m \in Begins(t) <=> t[m] \in DOMAIN Operators \/ (t[m] = ">" /\ Even(t, m))
           /\ TokenAt(t, m) = BreakToken(t, m)
<1>1. m \notin TextOf(t)
  BY TextIsNoBreak
<1>2. Arrows(t, m, m + 1) <=> IsArrow(t, m) /\ IsArrow(t, m + 1)
  <2>1. m..(m + 1) = {m, m + 1}
    OBVIOUS
  <2>. QED  BY <2>1 DEF Arrows, IsArrow
<1>3. m \in Begins(t) <=> t[m] \in DOMAIN Operators \/ (t[m] = ">" /\ Even(t, m))
  BY <1>1 DEF Begins, WordBegins, OperatorsOf, RedirectsOf, Even
<1>4. TokenAt(t, m) = BreakToken(t, m)
  BY <1>1, <1>2 DEF TokenAt, BreakToken
<1>. QED  BY <1>3, <1>4

-----------------------------------------------------------------------------
(* The inductive invariant of the tokenizer's loop: the quote, the word    *)
(* and the tokens are those of what has been read, and a redirection is    *)
(* never read from its second arrow on.                                    *)
ReadTo == Len(input) - Len(rest)
WordRead(n) ==
    /\ word = Written(input, Pending(input, n))
    /\ word = <<>> <=> Pending(input, n) = {}
TokensRead(n) == tokens = TokensAt(input, Done(input, n))
ArrowsRead(n) ==
    n < Len(input) /\ quote = None /\ input[n + 1] = ">" => Even(input, n + 1)
ReadUpTo(n) == WordRead(n) /\ TokensRead(n) /\ ArrowsRead(n)
AllRead == rest = <<>> /\ word = <<>> /\ tokens = Tokenized(input)
Reading == quote = OpenAt(input, ReadTo) /\ (ReadUpTo(ReadTo) \/ AllRead)

\* What flush_word makes of it: all tokens that have begun.
LEMMA FlushedTokens ==
    ASSUME NEW R, input \in Seq(R), NEW n \in 0..Len(input),
           n < Len(input) => n + 1 \in BreaksOf(input), WordRead(n), TokensRead(n)
    PROVE  Flushed = TokensAt(input, BeginsTo(input, n))
<1>. DEFINE t == input
<1>1. CASE Pending(input, n) = {}
  <2>1. Done(input, n) = BeginsTo(input, n)
    BY <1>1 DEF Done
  <2>. QED  BY <1>1, <2>1 DEF WordRead, TokensRead, Flushed
<1>2. CASE Pending(input, n) # {}
  <2>. DEFINE p == Min(Pending(t, n))
              D == Done(t, n)
  <2>1. /\ p \in 1..Len(t) /\ p \in TextOf(t)
        /\ BeginsTo(t, n) = D \cup {p}
        /\ D \subseteq 1..(p - 1)
        /\ WordFrom(t, p) = Pending(t, n)
    BY <1>2, WordBeginsFirst
  <2>2. TokenAt(t, p) = Token("Word", word)
    BY <2>1 DEF TokenAt, WordRead
  <2>3. Flushed = Append(tokens, Token("Word", word))
    BY <1>2 DEF Flushed, WordRead
  <2>. HIDE DEF p, D
  <2>4. TokensAt(t, D \cup {p}) = Append(TokensAt(t, D), TokenAt(t, p))
    BY <2>1, AtPositions DEF TokensGrow
  <2>5. tokens = TokensAt(t, D)
    BY DEF TokensRead, D
  <2>. QED  BY <2>1, <2>2, <2>3, <2>4, <2>5
<1>. QED  BY <1>1, <1>2

\* The next symbol.
LEMMA ReadNext ==
    ASSUME Inv, rest # <<>>, NEW n, n = ReadTo
    PROVE  /\ n \in 0..(Len(input) - 1) /\ n \in Nat /\ input \in Seq(Symbols)
           /\ Head(rest) = input[n + 1]
           /\ Len(rest) > 1 <=> n + 1 < Len(input)
           /\ Len(rest) > 1 => rest[2] = input[n + 2]
           /\ input' = input /\ Consume(1) => ReadTo' = n + 1
           /\ input' = input /\ Len(rest) > 1 /\ Consume(2) => ReadTo' = n + 2
<1>1. /\ input \in Seq(Symbols) /\ rest \in Seq(Symbols)
      /\ Len(rest) <= Len(input)
      /\ \A i \in 1..Len(rest) : rest[i] = input[Len(input) - Len(rest) + i]
  BY InputsAssumption DEF Inv, Tokenizing, AtEnd, Texts
<1>. DEFINE N == Len(input)
            L == Len(rest)
<1>2. N \in Nat /\ L \in Nat /\ L >= 1 /\ L <= N /\ n = N - L
  BY <1>1 DEF ReadTo
<1>3. Head(rest) = rest[1]
  BY <1>1
<1>4. rest[1] = input[n + 1] /\ (L > 1 => rest[2] = input[n + 2])
  BY <1>1, <1>2
<1>5. ASSUME NEW k \in 1..L, Consume(k) PROVE Len(rest') = L - k
  <2>1. rest' = SubSeq(rest, k + 1, L)
    BY <1>5 DEF Consume
  <2>2. Len(SubSeq(rest, k + 1, L)) = L - k
    BY <1>1, <1>2
  <2>. QED  BY <2>1, <2>2
<1>6. /\ Consume(1) => Len(rest') = L - 1
      /\ L > 1 /\ Consume(2) => Len(rest') = L - 2
  BY <1>2, <1>5
<1>. HIDE DEF N, L
<1>7. n \in 0..(N - 1) /\ n \in Nat /\ (L > 1 <=> n + 1 < N)
  BY <1>2
<1>8. /\ input' = input /\ Consume(1) => ReadTo' = n + 1
      /\ input' = input /\ L > 1 /\ Consume(2) => ReadTo' = n + 2
  <2>1. input' = input => ReadTo' = N - Len(rest')
    BY DEF ReadTo, N
  <2>. QED  BY <1>2, <1>6, <2>1
<1>. QED  BY <1>1, <1>3, <1>4, <1>7, <1>8 DEF N, L

\* A symbol that splits nothing: text goes to the word, a quote nowhere.
LEMMA SymbolRead ==
    ASSUME Inv, Reading, rest # <<>>, NEW n, n = ReadTo, n + 1 \notin BreaksOf(input),
           input' = input, Consume(1), tokens' = tokens,
           quote' = OpenStep(quote, input[n + 1]),
           word' = IF n + 1 \in TextOf(input) THEN Append(word, input[n + 1]) ELSE word
    PROVE  Reading'
<1>. DEFINE t == input
            m == n + 1
<1>1. /\ n \in 0..(Len(t) - 1) /\ n \in Nat /\ t \in Seq(Symbols) /\ ReadTo' = m
      /\ m \in 1..Len(t)
  BY ReadNext
<1>2. quote = OpenAt(t, n) /\ WordRead(n) /\ TokensRead(n)
  BY DEF Reading, AllRead, ReadUpTo
<1>3. quote' = OpenAt(t, m)
  BY <1>1, <1>2, SymbolKinds
<1>4. TokensRead(m)'
  <2>1. Done(t, m) = Done(t, n)
    BY <1>1, DoneGrows
  <2>. QED  BY <1>2, <2>1 DEF TokensRead
<1>5. ArrowsRead(m)'
  <2>1. Even(t, m + 1)
    BY <1>1, EvenGrows DEF IsArrow
  <2>. QED  BY <2>1 DEF ArrowsRead
<1>6. WordRead(m)'
  <2>1. CASE m \in TextOf(t)
    <3>. DEFINE P == Pending(t, n)
    <3>1. Pending(t, m) = P \cup {m}
      BY <1>1, <2>1, PendingGrows
    <3>2. P \in SUBSET (1..(m - 1))
      BY <1>1, TextIsNoBreak DEF Pending
    <3>. HIDE DEF P
    <3>3. Written(t, P \cup {m}) = Append(Written(t, P), t[m])
      BY <1>1, <3>2, AtPositions DEF WrittenGrows
    <3>4. word' = Append(word, t[m]) /\ word = Written(t, P)
      BY <1>2, <2>1 DEF WordRead, P
    <3>5. word' # <<>>
      <4>1. word \in Seq(Symbols) /\ t[m] \in Symbols
        BY <1>1 DEF Inv, Tokenizing, Texts
      <4>. QED  BY <3>4, <4>1
    <3>6. word' = Written(t, Pending(t, m)) /\ Pending(t, m) # {}
      BY <3>1, <3>3, <3>4
    <3>. QED  BY <3>5, <3>6 DEF WordRead
  <2>2. CASE m \notin TextOf(t)
    <3>1. Pending(t, m) = Pending(t, n)
      BY <1>1, <2>2, PendingGrows
    <3>. QED  BY <1>2, <2>2, <3>1 DEF WordRead
  <2>. QED  BY <2>1, <2>2
<1>. QED  BY <1>1, <1>3, <1>4, <1>5, <1>6 DEF Reading, ReadUpTo

\* What is known at a symbol that splits words.
Breaking == Bare(DOMAIN Operators \cup {">", " "})
LEMMA AtBreak ==
    ASSUME Inv, Reading, Breaking, NEW n, n = ReadTo
    PROVE  /\ n + 1 \in BreaksOf(input) /\ n + 1 \in 1..Len(input)
           /\ OpenAt(input, n + 1) = None
           /\ Flushed = TokensAt(input, BeginsTo(input, n))
           /\ input[n + 1] = ">" => Even(input, n + 1)
           /\ BeginsTo(input, n) \in SUBSET (1..((n + 1) - 1))
<1>. DEFINE t == input
            m == n + 1
<1>1. rest # <<>> /\ quote = None /\ Head(rest) \in DOMAIN Operators \cup {">", " "}
  BY DEF Breaking, Bare
<1>a. /\ n \in 0..(Len(t) - 1) /\ n \in Nat /\ t \in Seq(Symbols)
      /\ Head(rest) = t[n + 1]
  BY <1>1, ReadNext
<1>c. n \in 0..(Len(t) - 1) /\ n \in Nat /\ Len(t) \in Nat
  BY <1>a
<1>b. /\ n < Len(t) /\ n \in 0..Len(t) /\ m \in 1..Len(t) /\ n \in Nat /\ m - 1 = n /\ Len(t) \in Nat
  BY <1>c
<1>2. /\ n \in 0..(Len(t) - 1) /\ n \in Nat /\ t \in Seq(Symbols) /\ t[m] = Head(rest)
      /\ m \in 1..Len(t)
  BY <1>a, <1>b
<1>3. OpenAt(t, n) = None /\ WordRead(n) /\ TokensRead(n) /\ ArrowsRead(n)
  BY <1>1 DEF Reading, AllRead, ReadUpTo
<1>4. t[m] \in Special \ Quotes
  BY <1>1, <1>2 DEF Special, Quotes, Operators
<1>5. m \in BreaksOf(t) /\ OpenAt(t, m) = None
  BY <1>2, <1>3, <1>4, SymbolKinds DEF OpenStep
<1>6. Flushed = TokensAt(t, BeginsTo(t, n))
  BY <1>a, <1>b, <1>3, <1>5, FlushedTokens
<1>7. t[m] = ">" => Even(t, m)
  BY <1>1, <1>b, <1>3 DEF ArrowsRead
<1>8. BeginsTo(t, n) \in SUBSET (1..(m - 1))
  <2>1. Begins(t) \subseteq 1..Len(t)
    BY <1>a, TextIsNoBreak
  <2>2. \A i \in 1..Len(t) : i <= n => i \in 1..n
    BY <1>b
  <2>. QED  BY <1>b, <2>1, <2>2 DEF BeginsTo
<1>. QED  BY <1>2, <1>5, <1>6, <1>7, <1>8

\* After a symbol that splits words, there is none.
LEMMA BreakRead ==
    ASSUME Inv, NEW m \in 1..Len(input), m \in BreaksOf(input), ReadTo' = m,
           OpenAt(input, m) = None, input' = input, quote' = None, word' = <<>>,
           tokens' = TokensAt(input, BeginsTo(input, m)),
           m < Len(input) /\ input[m + 1] = ">" => Even(input, m + 1)
    PROVE  Reading'
<1>. DEFINE t == input
            n == m - 1
<1>1. n \in 0..(Len(t) - 1) /\ n + 1 = m /\ t \in Seq(Symbols)
  BY InputsAssumption DEF Inv, Tokenizing, Texts
<1>. HIDE DEF n
<1>2. Pending(t, m) = {}
  BY <1>1, PendingGrows
<1>3. Done(t, m) = BeginsTo(t, m)
  BY <1>1, DoneGrows
<1>4. Written(t, {}) = <<>>
  <2>1. InOrder(t, {}) = <<>>
    <3>1. {} \in SUBSET (1..(m - 1))
      OBVIOUS
    <3>. QED  BY <1>1, <3>1, InOrderAppend
  <2>. QED  BY <2>1 DEF Written
<1>. QED  BY <1>2, <1>3, <1>4 DEF Reading, ReadUpTo, WordRead, TokensRead, ArrowsRead

\* A | or ; or & is a token.
LEMMA OperatorRead == Inv /\ Reading /\ Operator => Reading'
<1>. SUFFICES ASSUME Inv, Reading, Operator PROVE Reading'
  OBVIOUS
<1>. DEFINE t == input
            n == ReadTo
            m == n + 1
            S == BeginsTo(t, n)
<1>1. Breaking /\ rest # <<>> /\ quote = None
  BY DEF Breaking, Bare, Operator
<1>2. /\ m \in BreaksOf(t) /\ m \in 1..Len(t) /\ OpenAt(t, m) = None
      /\ Flushed = TokensAt(t, S) /\ S \in SUBSET (1..(m - 1))
  BY <1>1, AtBreak
<1>3. t \in Seq(Symbols) /\ t[m] = Head(rest) /\ n \in 0..(Len(t) - 1)
  BY <1>1, ReadNext
<1>4. ReadTo' = m
  BY <1>1, ReadNext DEF Operator
<1>. HIDE DEF n, S, t
<1>5. t[m] \in DOMAIN Operators /\ t[m] # ">"
  BY <1>3 DEF Operator, Bare, Operators
<1>6. m \in Begins(t) /\ TokenAt(t, m) = Token(Operators[t[m]], <<>>)
  BY <1>2, <1>3, <1>5, BreakBegins DEF BreakToken
<1>7. BeginsTo(t, m) = S \cup {m}
  BY <1>3, <1>6, DoneGrows DEF S
<1>8. TokensAt(t, S \cup {m}) = Append(TokensAt(t, S), TokenAt(t, m))
  BY <1>2, <1>3, AtPositions DEF TokensGrow
<1>9. tokens' = TokensAt(t, BeginsTo(t, m))
  BY <1>2, <1>3, <1>6, <1>7, <1>8 DEF Operator
<1>10. Even(t, m + 1)
  BY <1>2, <1>3, <1>5, EvenGrows DEF IsArrow
<1>. QED  BY <1>1, <1>2, <1>4, <1>9, <1>10, BreakRead DEF Operator, t

\* A blank only ends the word.
LEMMA BlankRead == Inv /\ Reading /\ Blank => Reading'
<1>. SUFFICES ASSUME Inv, Reading, Blank PROVE Reading'
  OBVIOUS
<1>. DEFINE t == input
            n == ReadTo
            m == n + 1
            S == BeginsTo(t, n)
<1>1. Breaking /\ rest # <<>> /\ quote = None
  BY DEF Breaking, Bare, Blank
<1>2. /\ m \in BreaksOf(t) /\ m \in 1..Len(t) /\ OpenAt(t, m) = None
      /\ Flushed = TokensAt(t, S)
  BY <1>1, AtBreak
<1>3. t \in Seq(Symbols) /\ t[m] = Head(rest) /\ n \in 0..(Len(t) - 1)
  BY <1>1, ReadNext
<1>4. ReadTo' = m
  BY <1>1, ReadNext DEF Blank
<1>. HIDE DEF n, S, t
<1>5. t[m] = " " /\ t[m] \notin DOMAIN Operators /\ t[m] # ">"
  BY <1>3 DEF Blank, Bare, Operators
<1>6. m \notin Begins(t)
  BY <1>2, <1>3, <1>5, BreakBegins
<1>7. BeginsTo(t, m) = S
  BY <1>3, <1>6, DoneGrows DEF S
<1>9. tokens' = TokensAt(t, BeginsTo(t, m))
  BY <1>2, <1>7 DEF Blank
<1>10. Even(t, m + 1)
  BY <1>2, <1>3, <1>5, EvenGrows DEF IsArrow
<1>. QED  BY <1>1, <1>2, <1>4, <1>9, <1>10, BreakRead DEF Blank, t

\* A redirection is one token, of one arrow or of two.
LEMMA RedirectRead == Inv /\ Reading /\ Redirect => Reading'
<1>. SUFFICES ASSUME Inv, Reading, Redirect PROVE Reading'
  OBVIOUS
<1>. DEFINE t == input
            n == ReadTo
            m == n + 1
            S == BeginsTo(t, n)
            twice == Len(rest) > 1 /\ rest[2] = ">"
<1>1. Breaking /\ rest # <<>> /\ quote = None
  BY DEF Breaking, Bare, Redirect
<1>2. /\ m \in BreaksOf(t) /\ m \in 1..Len(t) /\ OpenAt(t, m) = None
      /\ Flushed = TokensAt(t, S) /\ S \in SUBSET (1..(m - 1))
      /\ t[m] = ">" => Even(t, m)
  BY <1>1, AtBreak
<1>3. /\ t \in Seq(Symbols) /\ t[m] = Head(rest) /\ n \in 0..(Len(t) - 1)
      /\ Len(rest) > 1 <=> m < Len(t)
  BY <1>1, ReadNext
<1>a. Len(rest) > 1 => rest[2] = t[n + 2]
  BY <1>1, ReadNext
<1>b. n \in Nat /\ n + 2 = m + 1 /\ m \in Nat /\ Len(t) \in Nat
  BY <1>3
<1>4. /\ twice => ReadTo' = m + 1
      /\ ~twice => ReadTo' = m
  <2>1. /\ input' = input /\ Consume(1) => ReadTo' = n + 1
        /\ input' = input /\ Len(rest) > 1 /\ Consume(2) => ReadTo' = n + 2
    BY <1>1, ReadNext
  <2>. QED  BY <1>b, <2>1 DEF Redirect
<1>c. /\ input' = input /\ quote' = None /\ word' = <<>>
      /\ tokens' = Append(Flushed, Token(IF twice THEN "Append" ELSE "Overwrite", <<>>))
  BY <1>1 DEF Redirect
<1>d. t[m] = ">"
  BY <1>3 DEF Redirect, Bare
<1>5. twice <=> m < Len(t) /\ t[m + 1] = ">"
  BY <1>3, <1>a, <1>b
<1>. HIDE DEF n, S, t, twice
<1>6. IsArrow(t, m) /\ Even(t, m) /\ m \in Begins(t) /\ t[m] \notin DOMAIN Operators
  <2>1. t[m] \notin DOMAIN Operators
    BY <1>d DEF Operators
  <2>. QED  BY <1>2, <1>3, <1>d, <2>1, BreakBegins DEF IsArrow
<1>7. BeginsTo(t, m) = S \cup {m}
  BY <1>3, <1>6, DoneGrows DEF S
<1>8. TokensAt(t, S \cup {m}) = Append(TokensAt(t, S), TokenAt(t, m))
  BY <1>2, <1>3, AtPositions DEF TokensGrow
<1>9. TokenAt(t, m) = BreakToken(t, m)
  BY <1>2, <1>3, BreakBegins
<1>10. ~Even(t, m + 1)
  BY <1>2, <1>3, <1>6, EvenGrows
<1>11. CASE ~twice
  <2>1. ~(m < Len(t) /\ t[m + 1] = ">")
    BY <1>5, <1>11
  <2>2. TokenAt(t, m) = Token("Overwrite", <<>>)
    BY <1>6, <1>9, <2>1 DEF BreakToken, IsArrow
  <2>3. tokens' = TokensAt(t, BeginsTo(t, m))
    BY <1>2, <1>7, <1>8, <1>11, <1>c, <2>2
  <2>. QED  BY <1>2, <1>4, <1>11, <1>c, <2>1, <2>3, BreakRead DEF t
<1>12. CASE twice
  <2>. DEFINE p == m + 1
  <2>1. m < Len(t) /\ t[p] = ">" /\ p \in 1..Len(t) /\ m \in 0..(Len(t) - 1) /\ p \in Nat
    BY <1>5, <1>12, <1>2, <1>b
  <2>2. p \in BreaksOf(t) /\ OpenAt(t, p) = None
    <3>1. ">" \in Special \ Quotes /\ ">" \notin Quotes
      BY DEF Special, Quotes
    <3>. QED  BY <1>2, <1>3, <2>1, <3>1, SymbolKinds DEF OpenStep
  <2>3. TokenAt(t, m) = Token("Append", <<>>)
    BY <1>6, <1>9, <2>1, <2>2 DEF BreakToken, IsArrow
  <2>4. p \notin Begins(t)
    <3>1. t[p] \notin DOMAIN Operators
      BY <2>1 DEF Operators
    <3>. QED  BY <1>3, <1>10, <2>1, <2>2, <3>1, BreakBegins
  <2>5. BeginsTo(t, p) = BeginsTo(t, m)
    BY <1>3, <2>1, <2>4, DoneGrows
  <2>6. Even(t, p + 1)
    BY <1>3, <1>10, <2>1, <2>2, EvenGrows DEF IsArrow
  <2>7. tokens' = TokensAt(t, BeginsTo(t, p))
    BY <1>2, <1>7, <1>8, <1>12, <1>c, <2>3, <2>5
  <2>8. ReadTo' = p
    BY <1>4, <1>12
  <2>. HIDE DEF p
  <2>. QED  BY <1>c, <2>1, <2>2, <2>6, <2>7, <2>8, BreakRead DEF t
<1>. QED  BY <1>11, <1>12

\* At the end of the input the last word is flushed.
LEMMA ParseLineRead == Inv /\ Reading /\ ParseLine => Reading'
<1>. SUFFICES ASSUME Inv, Reading, ParseLine PROVE Reading'
  OBVIOUS
<1>1. input \in Seq(Symbols) /\ Len(input) \in Nat
  BY InputsAssumption DEF Inv, Tokenizing, Texts
<1>2. rest = <<>> /\ ReadTo = Len(input)
  BY <1>1 DEF ParseLine, ReadTo
<1>3. Flushed = Tokenized(input)
  <2>1. CASE ReadUpTo(Len(input))
    <3>1. Flushed = TokensAt(input, BeginsTo(input, Len(input)))
      <4>1. Len(input) \in 0..Len(input) /\ ~(Len(input) < Len(input))
        BY <1>1
      <4>. QED  BY <1>1, <2>1, <4>1, FlushedTokens DEF ReadUpTo
    <3>2. BeginsTo(input, Len(input)) = Begins(input)
      <4>1. Begins(input) \subseteq 1..Len(input)
        BY <1>1, TextIsNoBreak
      <4>. QED  BY <1>1, <4>1 DEF BeginsTo
    <3>. QED  BY <3>1, <3>2, TokenizedParts
  <2>2. CASE AllRead
    BY <2>2 DEF AllRead, Flushed
  <2>. QED  BY <1>2, <2>1, <2>2 DEF Reading
<1>4. AllRead'
  BY <1>2, <1>3 DEF ParseLine, AllRead
<1>5. quote' = OpenAt(input', ReadTo')
  BY <1>2 DEF ParseLine, Reading, ReadTo
<1>. QED  BY <1>4, <1>5 DEF Reading

\* Nothing has been read.
LEMMA InitReading == Init => Reading
<1>. SUFFICES ASSUME Init PROVE Reading
  OBVIOUS
<1>1. input \in Seq(Symbols) /\ Len(input) \in Nat /\ rest = input
  BY InputsAssumption DEF Init, Texts
<1>2. ReadTo = 0
  BY <1>1 DEF ReadTo
<1>3. OpenAt(input, 0) = None
  BY <1>1, InitialGrows, OpenGrows DEF OpenAt
<1>4. Pending(input, 0) = {} /\ BeginsTo(input, 0) = {}
  <2>1. Begins(input) \subseteq 1..Len(input) /\ TextOf(input) \subseteq 1..Len(input)
    BY <1>1, TextIsNoBreak
  <2>2. \A i \in 1..Len(input) : ~(i <= 0)
    BY <1>1
  <2>. QED  BY <2>1, <2>2 DEF Pending, BeginsTo
<1>5. ASSUME input # <<>> PROVE InOrder(input, {}) = <<>> /\ Even(input, 1)
  <2>1. 1 \in 1..Len(input) /\ {} \in SUBSET (1..(1 - 1))
    BY <1>1, <1>5
  <2>. QED  BY <1>1, <2>1, InOrderAppend, EvenGrows
<1>6. ASSUME input = <<>> PROVE InOrder(input, {}) = <<>>
  <2>1. [i \in DOMAIN input |-> i] = <<>>
    BY <1>6
  <2>. QED  BY <2>1, KeptEmpty DEF InOrder
<1>7. WordRead(0) /\ TokensRead(0)
  <2>1. InOrder(input, {}) = <<>>
    BY <1>5, <1>6
  <2>2. Written(input, {}) = <<>> /\ TokensAt(input, {}) = <<>>
    BY <2>1 DEF Written, TokensAt
  <2>3. Done(input, 0) = {}
    BY <1>4 DEF Done
  <2>. QED  BY <1>4, <2>2, <2>3 DEF WordRead, TokensRead, Init
<1>8. ArrowsRead(0)
  <2>1. 0 < Len(input) => input # <<>>
    BY <1>1
  <2>. QED  BY <1>5, <2>1 DEF ArrowsRead
<1>. QED  BY <1>2, <1>3, <1>7, <1>8 DEF Reading, ReadUpTo, Init

\* Every arm of tokenize() keeps it.
LEMMA NextReading == Inv /\ Reading /\ [Next]_vars => Reading'
<1>. SUFFICES ASSUME Inv, Reading, [Next]_vars PROVE Reading'
  OBVIOUS
<1>. DEFINE n == ReadTo
            m == n + 1
<1>1. ASSUME rest # <<>>
      PROVE  /\ quote \in Quotes \cup {None} /\ quote = OpenAt(input, n)
             /\ Head(rest) = input[m]
             /\ m \in BreaksOf(input) <=> quote = None /\ input[m] \in Special \ Quotes
             /\ m \in TextOf(input) <=> IF quote = None THEN input[m] \notin Special
                                        ELSE input[m] # quote
  <2>1. n \in 0..(Len(input) - 1) /\ input \in Seq(Symbols) /\ Head(rest) = input[m]
    BY <1>1, ReadNext
  <2>2. quote = OpenAt(input, n) /\ quote \in Quotes \cup {None}
    BY DEF Reading, Inv, Tokenizing
  <2>. HIDE DEF n
  <2>. QED  BY <2>1, <2>2, SymbolKinds
<1>2. CASE OpenQuote
  <2>1. rest # <<>> /\ quote = None /\ Head(rest) \in Quotes
    BY <1>2 DEF OpenQuote, Bare
  <2>2. m \notin BreaksOf(input) /\ m \notin TextOf(input) /\ input[m] \in Quotes
    BY <1>1, <2>1 DEF Special
  <2>3. quote' = OpenStep(quote, input[m])
    BY <1>1, <1>2, <2>1 DEF OpenQuote, OpenStep
  <2>. QED  BY <1>2, <2>1, <2>2, <2>3, SymbolRead DEF OpenQuote
<1>3. CASE InQuote
  <2>1. rest # <<>> /\ quote # None
    BY <1>3 DEF InQuote
  <2>2. m \notin BreaksOf(input) /\ (m \in TextOf(input) <=> input[m] # quote)
    BY <1>1, <2>1
  <2>3. quote' = OpenStep(quote, input[m])
    BY <1>1, <1>3, <2>1 DEF InQuote, Closes, OpenStep
  <2>4. word' = IF m \in TextOf(input) THEN Append(word, input[m]) ELSE word
    BY <1>1, <1>3, <2>1, <2>2 DEF InQuote, Closes
  <2>. QED  BY <1>3, <2>1, <2>2, <2>3, <2>4, SymbolRead DEF InQuote
<1>4. CASE Letter
  <2>1. rest # <<>> /\ quote = None /\ Head(rest) \notin Special
    BY <1>4 DEF Letter
  <2>2. m \notin BreaksOf(input) /\ m \in TextOf(input) /\ input[m] \notin Quotes
    BY <1>1, <2>1 DEF Special
  <2>3. quote' = OpenStep(quote, input[m])
    BY <1>1, <1>4, <2>1, <2>2 DEF Letter, OpenStep
  <2>4. word' = Append(word, input[m])
    BY <1>1, <1>4, <2>1 DEF Letter
  <2>. QED  BY <1>4, <2>1, <2>2, <2>3, <2>4, SymbolRead DEF Letter
<1>5. CASE Unterminated
  BY <1>5 DEF Unterminated, Reading, ReadTo, ReadUpTo, WordRead, TokensRead, ArrowsRead, AllRead
<1>6. CASE UNCHANGED vars
  BY <1>6 DEF vars, Reading, ReadTo, ReadUpTo, WordRead, TokensRead, ArrowsRead, AllRead
<1>. QED  BY <1>2, <1>3, <1>4, <1>5, <1>6, OperatorRead, RedirectRead, BlankRead, ParseLineRead
          DEF Next

(* What is quoted splits nothing and is kept as it is: the tokens of any   *)
(* line are those of its breaks and its text, and a line with an open      *)
(* quote fails.                                                            *)
THEOREM CommandLineQuoting == Spec => []TokensFollowQuoting
<1>1. Inv /\ Reading => TokensFollowQuoting
  <2>. SUFFICES ASSUME Inv, Reading, line # None PROVE TokensFollowQuoting
    BY DEF TokensFollowQuoting
  <2>1. rest = <<>> /\ input \in Seq(Symbols) /\ Len(input) \in Nat
    BY InputsAssumption DEF Inv, Tokenizing, Parsed, Texts
  <2>2. quote = OpenAfter(input)
    <3>1. ReadTo = Len(input)
      BY <2>1 DEF ReadTo
    <3>2. Initial(input, Len(input)) = input
      BY <2>1, InitialGrows
    <3>. QED  BY <3>1, <3>2 DEF Reading, OpenAt
  <2>3. CASE quote # None
    BY <2>2, <2>3 DEF Inv, Parsed, TokensFollowQuoting
  <2>4. CASE quote = None
    <3>1. word = <<>>
      BY <2>4 DEF Inv, Parsed
    <3>2. ReadTo = Len(input)
      BY <2>1 DEF ReadTo
    <3>3. CASE ReadUpTo(Len(input))
      <4>1. Done(input, Len(input)) = Begins(input)
        <5>1. Begins(input) \subseteq 1..Len(input)
          BY <2>1, TextIsNoBreak
        <5>2. BeginsTo(input, Len(input)) = Begins(input)
          BY <2>1, <5>1 DEF BeginsTo
        <5>. QED  BY <3>1, <3>3, <5>2 DEF ReadUpTo, WordRead, Done
      <4>. QED  BY <2>2, <2>4, <3>3, <4>1, TokenizedParts DEF ReadUpTo, TokensRead, TokensFollowQuoting
    <3>4. CASE AllRead
      BY <2>2, <2>4, <3>4 DEF AllRead, TokensFollowQuoting
    <3>. QED  BY <3>2, <3>3, <3>4 DEF Reading
  <2>. QED  BY <2>3, <2>4
<1>2. Init => Inv /\ Reading
  BY InitInv, InitReading
<1>3. Inv /\ Reading /\ [Next]_vars => (Inv /\ Reading)'
  BY NextInv, NextReading
<1>. QED  BY <1>1, <1>2, <1>3, PTL DEF Spec

-----------------------------------------------------------------------------
(* Segments.                                                               *)

\* No part has a separator in it.
LEMMA SplitParts ==
    ASSUME NEW R, NEW seq \in Seq(R), NEW separator
    PROVE  Split(seq, separator) \in Parts(R \ {separator})
<1>. DEFINE split == [n \in 0..Len(seq) |-> Split(Initial(seq, n), separator)]
            Q == R \ {separator}
            Good == { n \in 0..Len(seq) : split[n] \in Parts(Q) }
<1>1. Len(seq) \in Nat
  OBVIOUS
<1>2. 0 \in Good
  <2>1. Initial(seq, 0) = <<>>
    BY InitialGrows
  <2>2. Split(<<>>, separator) = << <<>> >>
    <3>0. <<>> \in Seq(R)
      OBVIOUS
    <3>1. PICK f \in SplitRuns(R, <<>>, separator) : TRUE
      BY <3>0, SplitSteps
    <3>. QED  BY <3>1 DEF SplitRuns
  <2>3. << <<>> >> \in Parts(Q)
    BY DEF Parts
  <2>. QED  BY <1>1, <2>1, <2>2, <2>3
<1>3. ASSUME NEW n \in 0..(Len(seq) - 1), split[n] \in Parts(Q) PROVE split[n + 1] \in Parts(Q)
  <2>. DEFINE s == Initial(seq, n)
              e == seq[n + 1]
  <2>1. n \in 0..Len(seq) /\ n + 1 \in 0..Len(seq)
    BY <1>1
  <2>2. s \in Seq(R) /\ e \in R /\ Initial(seq, n + 1) = Append(s, e)
    BY <2>1, InitialGrows
  <2>3. split[n] = Split(s, separator) /\ split[n + 1] = Split(Append(s, e), separator)
    BY <2>1, <2>2
  <2>. HIDE DEF s, e, split
  <2>4. split[n + 1] = SplitStep(split[n], e, separator)
    BY <2>2, <2>3, SplitAppend
  <2>. DEFINE parts == split[n]
  <2>5. CASE e = separator
    <3>. DEFINE S == Seq(Q)
                none == <<>>
                more == Append(parts, none)
    <3>1. parts \in Seq(S) /\ none \in S
      BY <1>3 DEF Parts
    <3>. HIDE DEF S, parts, Q, none
    <3>2. more \in Seq(S) /\ Len(more) = Len(parts) + 1 /\ Len(parts) \in Nat
      BY <3>1
    <3>3. more # <<>>
      BY <3>2
    <3>. QED  BY <2>4, <2>5, <3>2, <3>3 DEF SplitStep, Parts, S, parts, none
  <2>6. CASE e # separator
    <3>1. e \in Q
      BY <2>2, <2>6
    <3>. HIDE DEF Q
    <3>. QED  BY <1>3, <2>4, <3>1, SplitStepTyped
  <2>. QED  BY <2>5, <2>6
<1>4. \A n \in 0..(Len(seq) - 1) : n \in Good => n + 1 \in Good
  <2>. HIDE DEF split, Q
  <2>. QED  BY <1>1, <1>3
<1>5. \A n \in 0..Len(seq) : n \in Good
  <2>. HIDE DEF Good
  <2>. QED  BY <1>1, <1>2, <1>4, StepsUpTo
<1>6. Len(seq) \in 0..Len(seq) /\ Initial(seq, Len(seq)) = seq
  BY <1>1, InitialGrows
<1>. QED  BY <1>5, <1>6

\* Without a separator there is one part.
Whole(seq, separator) == Split(seq, separator) = <<seq>>
LEMMA SplitWhole ==
    ASSUME NEW R, NEW seq \in Seq(R), NEW separator, separator \notin R
    PROVE  Whole(seq, separator)
<1>. DEFINE split == [n \in 0..Len(seq) |-> Split(Initial(seq, n), separator)]
            Good == { n \in 0..Len(seq) : split[n] = <<Initial(seq, n)>> }
<1>1. Len(seq) \in Nat
  OBVIOUS
<1>2. 0 \in Good
  <2>1. Initial(seq, 0) = <<>>
    BY InitialGrows
  <2>2. Split(<<>>, separator) = << <<>> >>
    <3>0. <<>> \in Seq(R)
      OBVIOUS
    <3>1. PICK f \in SplitRuns(R, <<>>, separator) : TRUE
      BY <3>0, SplitSteps
    <3>. QED  BY <3>1 DEF SplitRuns
  <2>. QED  BY <1>1, <2>1, <2>2
<1>3. ASSUME NEW n \in 0..(Len(seq) - 1), split[n] = <<Initial(seq, n)>>
      PROVE  split[n + 1] = <<Initial(seq, n + 1)>>
  <2>. DEFINE s == Initial(seq, n)
              e == seq[n + 1]
  <2>1. n \in 0..Len(seq) /\ n + 1 \in 0..Len(seq)
    BY <1>1
  <2>2. s \in Seq(R) /\ e \in R /\ Initial(seq, n + 1) = Append(s, e)
    BY <2>1, InitialGrows
  <2>3. split[n] = Split(s, separator) /\ split[n + 1] = Split(Append(s, e), separator)
    BY <2>1, <2>2
  <2>. HIDE DEF s, e, split
  <2>4. split[n + 1] = SplitStep(split[n], e, separator)
    BY <2>2, <2>3, SplitAppend
  <2>5. split[n] = <<s>> /\ e # separator
    BY <1>3, <2>2 DEF s
  <2>6. SplitStep(<<s>>, e, separator) = <<Append(s, e)>>
    BY <2>5 DEF SplitStep
  <2>. QED  BY <2>2, <2>4, <2>5, <2>6
<1>4. \A n \in 0..(Len(seq) - 1) : n \in Good => n + 1 \in Good
  <2>. HIDE DEF split
  <2>. QED  BY <1>1, <1>3
<1>5. \A n \in 0..Len(seq) : n \in Good
  <2>. HIDE DEF Good
  <2>. QED  BY <1>1, <1>2, <1>4, StepsUpTo
<1>6. Len(seq) \in 0..Len(seq) /\ Initial(seq, Len(seq)) = seq
  BY <1>1, InitialGrows
<1>. QED  BY <1>5, <1>6 DEF Whole

\* What is behind a sequence and one element more.
LEMMA AfterThat ==
    ASSUME NEW R, NEW a \in Seq(R), NEW e \in R, NEW b \in Seq(R)
    PROVE  SubSeq(Append(a, e) \o b, Len(a) + 2, Len(Append(a, e) \o b)) = b
<1>. DEFINE n == Len(a)
            m == Len(b)
            x == Append(a, e) \o b
            y == SubSeq(x, n + 2, Len(x))
<1>1. n \in Nat /\ m \in Nat
  OBVIOUS
<1>2. x \in Seq(R) /\ Len(x) = (n + 1) + m /\ \A i \in 1..m : x[(n + 1) + i] = b[i]
  OBVIOUS
<1>. HIDE DEF n, m, x
<1>3. /\ y \in Seq(R) /\ Len(y) = m
      /\ \A i \in 1..m : y[i] = x[(n + 1) + i]
  BY <1>1, <1>2
<1>. HIDE DEF y
<1>4. \A i \in 1..m : y[i] = b[i]
  BY <1>2, <1>3
<1>5. y = b
  BY <1>1, <1>3, <1>4, SeqEqual DEF m
<1>. QED  BY <1>5 DEF y, x, n

\* A text is its first segment, or goes on after a slash.
Pieces(R) == [first : Seq(R \ {"/"}), rest : Seq(R)]
CutHere(x, c) ==
    /\ x = Append(c.first, "/") \o c.rest
    /\ Segments(x) = <<c.first>> \o Segments(c.rest)
    /\ First(x) = c.first /\ Rest(x) = c.rest
Unslashed(x) == Segments(x) = <<x>> /\ First(x) = x /\ Rest(x) = <<>>
Slashes(x) == { i \in DOMAIN x : x[i] = "/" }

\* What is written around a slash, the first part having none, is cut there.
LEMMA CutText ==
    ASSUME NEW R, "/" \in R, NEW a \in Seq(R \ {"/"}), NEW b \in Seq(R)
    PROVE  CutHere(Append(a, "/") \o b, [first |-> a, rest |-> b])
<1>. DEFINE Q == R \ {"/"}
            S == Seq(R)
            x == Append(a, "/") \o b
            segments == Segments(b)
<1>1. a \in Seq(Q) /\ "/" \notin Q /\ a \in S /\ b \in S
  OBVIOUS
<1>2. segments \in Seq(S)
  BY SplitTyped DEF Segments, Parts
<1>3. Split(a, "/") = <<a>>
  <2>. HIDE DEF Q
  <2>. QED  BY <1>1, SplitWhole DEF Whole
<1>4. Segments(x) = <<a>> \o segments
  <2>1. Split(x, "/") = Split(a, "/") \o Split(b, "/")
    BY <1>1, SplitConcat
  <2>. HIDE DEF x
  <2>. QED  BY <1>3, <2>1 DEF Segments
<1>5. First(x) = a
  <2>. HIDE DEF S, segments, x
  <2>1. Head(<<a>> \o segments) = a
    BY <1>1, <1>2
  <2>. QED  BY <1>4, <2>1 DEF First
<1>6. SubSeq(x, Len(a) + 2, Len(x)) = b
  BY <1>1, AfterThat
<1>7. Rest(x) = b
  <2>. HIDE DEF x
  <2>. QED  BY <1>5, <1>6 DEF Rest
<1>. QED  BY <1>4, <1>5, <1>7 DEF CutHere

\* A text without a slash is its own first part; any other is cut at its first slash.
LEMMA FirstAndRest ==
    ASSUME NEW R, NEW x \in Seq(R)
    PROVE  /\ Slashes(x) = {} => x \in Seq(R \ {"/"}) /\ Unslashed(x)
           /\ Slashes(x) # {} => { c \in Pieces(R) : CutHere(x, c) } # {}
<1>1. Len(x) \in Nat /\ DOMAIN x = 1..Len(x)
  OBVIOUS
<1>2. ASSUME NEW a \in Seq(R \ {"/"}) PROVE Split(a, "/") = <<a>>
  <2>. DEFINE Q == R \ {"/"}
  <2>1. a \in Seq(Q) /\ "/" \notin Q
    OBVIOUS
  <2>. HIDE DEF Q
  <2>. QED  BY <2>1, SplitWhole DEF Whole
<1>3. ASSUME Slashes(x) = {} PROVE x \in Seq(R \ {"/"}) /\ Unslashed(x)
  <2>1. x \in Seq(R \ {"/"})
    <3>1. \A i \in 1..Len(x) : x[i] \in R \ {"/"}
      BY <1>1, <1>3 DEF Slashes
    <3>. QED  BY <1>1, <3>1
  <2>2. Segments(x) = <<x>>
    BY <1>2, <2>1 DEF Segments
  <2>3. First(x) = x
    BY <2>2 DEF First
  <2>4. Rest(x) = <<>>
    BY <1>1, <2>3 DEF Rest
  <2>. QED  BY <2>1, <2>2, <2>3, <2>4 DEF Unslashed
<1>4. ASSUME Slashes(x) # {} PROVE { c \in Pieces(R) : CutHere(x, c) } # {}
  <2>. DEFINE k == Min(Slashes(x))
              a == SubSeq(x, 1, k - 1)
              b == SubSeq(x, k + 1, Len(x))
  <2>1. k \in Slashes(x) /\ \A i \in Slashes(x) : k <= i
    <3>1. Slashes(x) \subseteq Nat
      BY <1>1 DEF Slashes
    <3>. QED  BY <1>4, <3>1, MinOf
  <2>2. k \in 1..Len(x) /\ x[k] = "/" /\ "/" \in R
    BY <1>1, <2>1 DEF Slashes
  <2>. HIDE DEF k
  <2>3. a \in Seq(R) /\ b \in Seq(R) /\ x = Append(a, x[k]) \o b
    BY <2>2, CutSequence
  <2>4. Len(a) = k - 1 /\ \A i \in 1..(k - 1) : a[i] = x[i]
    BY <1>1, <2>2
  <2>. HIDE DEF a
  <2>5. a \in Seq(R \ {"/"})
    <3>1. ASSUME NEW i \in 1..(k - 1) PROVE a[i] \in R \ {"/"}
      <4>1. i \in 1..Len(x) /\ ~(k <= i)
        BY <1>1, <2>2
      <4>2. i \notin Slashes(x)
        BY <2>1, <4>1
      <4>3. x[i] \in R /\ x[i] # "/"
        BY <1>1, <4>1, <4>2 DEF Slashes
      <4>. QED  BY <2>4, <4>3
    <3>2. a = [i \in 1..(k - 1) |-> a[i]] /\ k - 1 \in Nat
      BY <2>2, <2>3, <2>4
    <3>. QED  BY <3>1, <3>2
  <2>. HIDE DEF b
  <2>6. [first |-> a, rest |-> b] \in Pieces(R)
    BY <2>3, <2>5 DEF Pieces
  <2>7. CutHere(x, [first |-> a, rest |-> b])
    BY <2>2, <2>3, <2>5, CutText
  <2>. QED  BY <2>6, <2>7
<1>. QED  BY <1>3, <1>4

-----------------------------------------------------------------------------
(* Writing names behind slashes.                                           *)

\* The texts of these symbols.
TextsOf(R, Q) == R = Seq(Q)

\* The text after each name.
SpeltRuns(Q, base, names) ==
    { f \in [0..Len(names) -> Seq(Q)] :
        /\ f[0] = base
        /\ f[Len(names)] = Spelt(base, names)
        /\ \A n \in 1..Len(names) : f[n] = f[n - 1] \o <<"/">> \o names[n] }

\* One name after the other.
LEMMA SpeltSteps ==
    ASSUME NEW Q, "/" \in Q, NEW base \in Seq(Q), NEW R, TextsOf(R, Q), NEW names \in Seq(R)
    PROVE  SpeltRuns(Q, base, names) # {}
<1>. DEFINE D == Seq(Q)
            step == [p \in D \X R |-> p[1] \o <<"/">> \o p[2]]
            Rec(it) == [t \in SUBSET (DOMAIN names) |->
                          IF t = {} THEN base
                          ELSE it[t \ {Max(t)}] \o <<"/">> \o names[Max(t)]]
            iter == CHOOSE it : it = Rec(it)
<1>1. step \in [D \X R -> D] /\ base \in D
  <2>1. <<"/">> \in Seq(Q)
    OBVIOUS
  <2>2. ASSUME NEW a \in Seq(Q), NEW b \in Seq(Q) PROVE a \o <<"/">> \o b \in Seq(Q)
    <3>1. a \o <<"/">> \in Seq(Q)
      BY <2>1
    <3>. QED  BY <3>1
  <2>. QED  BY <2>2 DEF TextsOf
<1>2. \A old \in D, e \in R : step[<<old, e>>] = old \o <<"/">> \o e
  OBVIOUS
<1>0. names \in Seq(R)
  OBVIOUS
<1>. HIDE DEF D, step
<1>3. iter = Rec(iter)
  <2>1. Iterators(D, base, names, step) # {}
    BY <1>0, <1>1, FoldIterates
  <2>2. PICK it \in Iterators(D, base, names, step) : TRUE
    BY <2>1
  <2>3. it = Rec(it)
    <3>. SUFFICES ASSUME NEW t \in SUBSET (DOMAIN names), t # {}
                  PROVE  it[t] = it[t \ {Max(t)}] \o <<"/">> \o names[Max(t)]
      BY <2>2 DEF Iterators, Unfolds
    <3>1. names[Max(t)] \in R
      BY <1>0, MaxInDomain
    <3>. QED  BY <1>2, <2>2, <3>1 DEF Iterators, Unfolds
  <2>. HIDE DEF Rec
  <2>. QED  BY <2>3
<1>4. Spelt(base, names) = iter[DOMAIN names]
  BY DEF Spelt, FoldLeft, MapThenFoldSet
<1>. HIDE DEF iter
<1>5. Unfolds(iter, D, base, names, step)
  <2>1. ASSUME NEW t \in SUBSET (DOMAIN names), t # {}, iter[t \ {Max(t)}] \in D
        PROVE  iter[t] = step[<<iter[t \ {Max(t)}], names[Max(t)]>>]
    <3>1. names[Max(t)] \in R
      BY <1>0, <2>1, MaxInDomain
    <3>2. iter[t] = iter[t \ {Max(t)}] \o <<"/">> \o names[Max(t)]
      BY <1>3, <2>1
    <3>. QED  BY <1>2, <2>1, <3>1, <3>2
  <2>. QED  BY <1>3, <2>1 DEF Unfolds
<1>6. PICK f \in Runs(D, base, names, step) : f[Len(names)] = iter[DOMAIN names]
  <2>. HIDE DEF Rec
  <2>1. iter[DOMAIN names] \in Outcomes(D, base, names, step)
    BY <1>0, <1>1, <1>5, FoldAlong
  <2>. QED  BY <2>1 DEF Outcomes
<1>7. ASSUME NEW n \in 1..Len(names) PROVE f[n] = f[n - 1] \o <<"/">> \o names[n]
  <2>1. f[n - 1] \in D /\ names[n] \in R
    <3>. HIDE DEF D
    <3>1. names[n] \in R
      BY <1>0
    <3>2. f[n - 1] \in D
      <4>1. n - 1 \in 0..Len(names)
        BY <1>0
      <4>. QED  BY <4>1 DEF Runs
    <3>. QED  BY <3>1, <3>2
  <2>. QED  BY <1>2, <1>6, <2>1 DEF Runs
<1>8. f \in SpeltRuns(Q, base, names)
  BY <1>4, <1>6, <1>7 DEF D, Runs, SpeltRuns
<1>. QED  BY <1>8

\* A name more.
SpeltMore(base, names, name) ==
    Spelt(base, Append(names, name)) = Append(Spelt(base, names), "/") \o name
LEMMA SpeltAppend ==
    ASSUME NEW Q, "/" \in Q, NEW base \in Seq(Q), NEW R, TextsOf(R, Q), NEW names \in Seq(R),
           NEW name \in R
    PROVE  SpeltMore(base, names, name) /\ Spelt(base, names) \in Seq(Q) /\ Spelt(base, <<>>) = base
<1>. DEFINE more == Append(names, name)
<1>1. /\ Len(names) \in Nat /\ more \in Seq(R) /\ Len(more) = Len(names) + 1
      /\ more[Len(names) + 1] = name /\ \A n \in 1..Len(names) : more[n] = names[n]
  OBVIOUS
<1>. HIDE DEF more
<1>2. PICK f \in SpeltRuns(Q, base, names) : TRUE
  BY SpeltSteps
<1>3. PICK g \in SpeltRuns(Q, base, more) : TRUE
  BY <1>1, SpeltSteps
<1>. DEFINE Same == { n \in 0..Len(names) : g[n] = f[n] }
<1>4. \A n \in 0..Len(names) : n \in Same
  <2>1. 0 \in Same
    BY <1>1, <1>2, <1>3 DEF SpeltRuns
  <2>2. \A n \in 0..(Len(names) - 1) : n \in Same => n + 1 \in Same
    <3>. SUFFICES ASSUME NEW n \in 0..(Len(names) - 1), g[n] = f[n] PROVE g[n + 1] = f[n + 1]
      BY <1>1
    <3>1. n + 1 \in 1..Len(names) /\ n + 1 \in 1..Len(more) /\ (n + 1) - 1 = n
      BY <1>1
    <3>2. f[n + 1] = f[n] \o <<"/">> \o names[n + 1]
      BY <1>2, <3>1 DEF SpeltRuns
    <3>3. g[n + 1] = g[n] \o <<"/">> \o more[n + 1]
      BY <1>3, <3>1 DEF SpeltRuns
    <3>. QED  BY <1>1, <3>1, <3>2, <3>3
  <2>. HIDE DEF Same
  <2>. QED  BY <1>1, <2>1, <2>2, StepsUpTo
<1>5. f[Len(names)] = Spelt(base, names) /\ f[Len(names)] \in Seq(Q) /\ g[Len(names)] = f[Len(names)]
  BY <1>1, <1>2, <1>4 DEF SpeltRuns
<1>6. Len(names) + 1 \in 1..Len(more) /\ (Len(names) + 1) - 1 = Len(names)
  BY <1>1
<1>7. g[Len(names) + 1] = g[Len(names)] \o <<"/">> \o name
  BY <1>1, <1>3, <1>6 DEF SpeltRuns
<1>8. g[Len(names) + 1] = Spelt(base, more)
  BY <1>1, <1>3 DEF SpeltRuns
<1>9. Spelt(base, names) \o <<"/">> = Append(Spelt(base, names), "/")
  BY <1>5
<1>10. Spelt(base, <<>>) = base
  <2>1. <<>> \in Seq(R)
    OBVIOUS
  <2>2. PICK h \in SpeltRuns(Q, base, <<>>) : TRUE
    BY <2>1, SpeltSteps
  <2>. QED  BY <2>2 DEF SpeltRuns
<1>. QED  BY <1>5, <1>7, <1>8, <1>9, <1>10 DEF SpeltMore, more

\* What is written, name after name.
SpeltAlong(Q, base, names) ==
    /\ Spelt(base, Initial(names, 0)) = base
    /\ Initial(names, Len(names)) = names
    /\ \A n \in 0..Len(names) : Spelt(base, Initial(names, n)) \in Seq(Q)
    /\ \A n \in 0..(Len(names) - 1) :
          /\ Initial(names, n + 1) = Append(Initial(names, n), names[n + 1])
          /\ Spelt(base, Initial(names, n + 1))
                 = Append(Spelt(base, Initial(names, n)), "/") \o names[n + 1]
LEMMA SpeltGrows ==
    ASSUME NEW Q, "/" \in Q, NEW base \in Seq(Q), NEW R, TextsOf(R, Q), NEW names \in Seq(R)
    PROVE  SpeltAlong(Q, base, names)
<1>1. /\ Initial(names, 0) = <<>>
      /\ Initial(names, Len(names)) = names
      /\ \A n \in 0..Len(names) : Initial(names, n) \in Seq(R)
      /\ \A n \in 0..(Len(names) - 1) :
            /\ names[n + 1] \in R
            /\ Initial(names, n + 1) = Append(Initial(names, n), names[n + 1])
  BY InitialGrows
<1>2. Len(names) \in Nat
  OBVIOUS
<1>3. Spelt(base, <<>>) = base
  <2>1. \E e : e \in R
    <3>1. <<>> \in Seq(Q)
      OBVIOUS
    <3>. QED  BY <3>1 DEF TextsOf
  <2>. QED  BY <2>1, SpeltAppend
<1>4. ASSUME NEW n \in 0..Len(names) PROVE Spelt(base, Initial(names, n)) \in Seq(Q)
  <2>1. \E e : e \in R
    <3>1. <<>> \in Seq(Q)
      OBVIOUS
    <3>. QED  BY <3>1 DEF TextsOf
  <2>2. Initial(names, n) \in Seq(R)
    BY <1>1
  <2>. QED  BY <2>1, <2>2, SpeltAppend
<1>5. ASSUME NEW n \in 0..(Len(names) - 1)
      PROVE  /\ n \in 0..Len(names) /\ n + 1 \in 0..Len(names)
             /\ Spelt(base, Initial(names, n + 1))
                    = Append(Spelt(base, Initial(names, n)), "/") \o names[n + 1]
  <2>1. n \in 0..Len(names) /\ n + 1 \in 0..Len(names)
    BY <1>2
  <2>. DEFINE s == Initial(names, n)
              e == names[n + 1]
  <2>2. s \in Seq(R) /\ e \in R /\ Initial(names, n + 1) = Append(s, e)
    BY <1>1, <2>1
  <2>. HIDE DEF s, e
  <2>3. SpeltMore(base, s, e)
    BY <2>2, SpeltAppend
  <2>. QED  BY <2>1, <2>2, <2>3 DEF SpeltMore, s, e
<1>. QED  BY <1>1, <1>3, <1>4, <1>5 DEF SpeltAlong

\* One sequence and one element more.
OneMore(a, b, e) ==
    /\ a \o Append(b, e) = Append(a \o b, e)
    /\ Append(a, e) = a \o <<e>>
    /\ a \o <<>> = a
LEMMA OneMoreElement ==
    ASSUME NEW R, NEW a \in Seq(R), NEW b \in Seq(R), NEW e \in R
    PROVE  OneMore(a, b, e) /\ a \o b \in Seq(R) /\ Append(b, e) \in Seq(R)
<1>1. a \o Append(b, e) = Append(a \o b, e)
  OBVIOUS
<1>2. Append(a, e) = a \o <<e>>
  OBVIOUS
<1>3. a \o <<>> = a
  OBVIOUS
<1>4. a \o b \in Seq(R) /\ Append(b, e) \in Seq(R)
  OBVIOUS
<1>. QED  BY <1>1, <1>2, <1>3, <1>4 DEF OneMore

\* The first names of a sequence.
LEMMA NamesGrow ==
    ASSUME NEW S, NEW names \in Seq(S)
    PROVE  /\ Len(names) \in Nat /\ Len(names) \in 0..Len(names) /\ 0 \in 0..Len(names)
           /\ Initial(names, 0) = <<>>
           /\ \A n \in 0..(Len(names) - 1) :
                 /\ n \in 0..Len(names) /\ n + 1 \in 0..Len(names)
                 /\ Initial(names, n) \in Seq(S) /\ names[n + 1] \in S
<1>1. Len(names) \in Nat
  OBVIOUS
<1>2. /\ Initial(names, 0) = <<>>
      /\ \A n \in 0..Len(names) : Initial(names, n) \in Seq(S)
      /\ \A n \in 0..(Len(names) - 1) : names[n + 1] \in S
  BY InitialGrows
<1>3. /\ Len(names) \in 0..Len(names) /\ 0 \in 0..Len(names)
      /\ \A n \in 0..(Len(names) - 1) : n \in 0..Len(names) /\ n + 1 \in 0..Len(names)
  BY <1>1
<1>. QED  BY <1>1, <1>2, <1>3

\* What is in front of it stays there.
InFront(a, base, names) == Spelt(a \o base, names) = a \o Spelt(base, names)
LEMMA SpeltAfter ==
    ASSUME NEW Q, "/" \in Q, NEW a \in Seq(Q), NEW base \in Seq(Q), NEW S, TextsOf(S, Q),
           NEW names \in Seq(S)
    PROVE  InFront(a, base, names)
<1>. DEFINE b == a \o base
            spelt == [n \in 0..Len(names) |-> Spelt(b, Initial(names, n))]
            given == [n \in 0..Len(names) |-> a \o Spelt(base, Initial(names, n))]
            Good == { n \in 0..Len(names) : spelt[n] = given[n] }
<1>1. b \in Seq(Q)
  <2>. HIDE DEF spelt, given, Good
  <2>. QED  OBVIOUS
<1>. HIDE DEF b
<1>2. SpeltAlong(Q, base, names) /\ SpeltAlong(Q, b, names)
  BY <1>1, SpeltGrows
<1>3. 0 \in Good
  BY <1>2, NamesGrow DEF SpeltAlong, b
<1>4. ASSUME NEW n \in 0..(Len(names) - 1), spelt[n] = given[n] PROVE spelt[n + 1] = given[n + 1]
  <2>. DEFINE s == Spelt(base, Initial(names, n))
              t == Spelt(b, Initial(names, n))
              e == names[n + 1]
  <2>1. n \in 0..Len(names) /\ n + 1 \in 0..Len(names) /\ e \in S
    BY NamesGrow
  <2>2. s \in Seq(Q) /\ t \in Seq(Q)
    BY <1>2, <2>1 DEF SpeltAlong
  <2>3. e \in Seq(Q)
    BY <2>1 DEF TextsOf
  <2>4. /\ spelt[n] = t /\ given[n] = a \o s
        /\ spelt[n + 1] = Append(t, "/") \o e
        /\ given[n + 1] = a \o (Append(s, "/") \o e)
    BY <1>2, <2>1 DEF SpeltAlong
  <2>. HIDE DEF spelt, given, s, t, e
  <2>. DEFINE u == Append(s, "/")
  <2>a. OneMore(a, s, "/") /\ Append(s, "/") \in Seq(Q)
    BY <2>2, OneMoreElement
  <2>5. Append(a \o s, "/") = a \o u /\ u \in Seq(Q)
    BY <2>a DEF OneMore
  <2>. HIDE DEF u
  <2>b. Associates(a, u, e)
    BY <2>3, <2>5, ThreeInARow
  <2>6. (a \o u) \o e = a \o (u \o e)
    BY <2>b DEF Associates
  <2>. QED  BY <1>4, <2>4, <2>5, <2>6 DEF u
<1>5. \A n \in 0..(Len(names) - 1) : n \in Good => n + 1 \in Good
  <2>. HIDE DEF spelt, given
  <2>. QED  BY <1>4, NamesGrow
<1>6. \A n \in 0..Len(names) : n \in Good
  <2>. HIDE DEF Good
  <2>. QED  BY <1>3, <1>5, NamesGrow, StepsUpTo
<1>. QED  BY <1>2, <1>6, NamesGrow DEF InFront, SpeltAlong, b

\* The first name can be written first.
FirstName(base, name, names) ==
    Spelt(base, <<name>> \o names) = Spelt(Append(base, "/") \o name, names)
LEMMA SpeltFirst ==
    ASSUME NEW Q, "/" \in Q, NEW base \in Seq(Q), NEW S, TextsOf(S, Q),
           NEW name \in S, NEW names \in Seq(S)
    PROVE  FirstName(base, name, names)
<1>. DEFINE b == Append(base, "/") \o name
            one == <<name>>
            all == [n \in 0..Len(names) |-> Spelt(base, one \o Initial(names, n))]
            rests == [n \in 0..Len(names) |-> Spelt(b, Initial(names, n))]
            Good == { n \in 0..Len(names) : all[n] = rests[n] }
<1>1. b \in Seq(Q) /\ one \in Seq(S)
  <2>. HIDE DEF all, rests, Good
  <2>1. name \in Seq(Q)
    BY DEF TextsOf
  <2>2. Append(base, "/") \in Seq(Q)
    OBVIOUS
  <2>3. one \in Seq(S)
    OBVIOUS
  <2>4. b \in Seq(Q)
    BY <2>1, <2>2
  <2>. QED  BY <2>3, <2>4
<1>2. SpeltMore(base, <<>>, name) /\ Spelt(base, <<>>) = base /\ Append(<<>>, name) = one
        /\ one \o <<>> = one
  <2>1. <<>> \in Seq(S)
    OBVIOUS
  <2>2. Append(<<>>, name) = one /\ one \o <<>> = one
    OBVIOUS
  <2>. QED  BY <2>1, <2>2, SpeltAppend
<1>. HIDE DEF one
<1>3. b = Spelt(base, one)
  BY <1>2 DEF SpeltMore
<1>. HIDE DEF b
<1>4. SpeltAlong(Q, b, names)
  BY <1>1, SpeltGrows
<1>5. 0 \in Good
  BY <1>2, <1>3, <1>4, NamesGrow DEF SpeltAlong
<1>6. ASSUME NEW n \in 0..(Len(names) - 1), all[n] = rests[n] PROVE all[n + 1] = rests[n + 1]
  <2>. DEFINE i == Initial(names, n)
              e == names[n + 1]
              j == one \o i
  <2>1. n \in 0..Len(names) /\ n + 1 \in 0..Len(names) /\ i \in Seq(S) /\ e \in S
    BY NamesGrow
  <2>2. j \in Seq(S) /\ one \o Append(i, e) = Append(j, e)
    BY <1>1, <2>1, OneMoreElement DEF OneMore
  <2>3. all[n] = Spelt(base, j) /\ rests[n] = Spelt(b, i)
    BY <2>1
  <2>4. Initial(names, n + 1) = Append(i, e) /\ rests[n + 1] = Append(Spelt(b, i), "/") \o e
    BY <1>4, <2>1 DEF SpeltAlong
  <2>5. all[n + 1] = Spelt(base, Append(j, e))
    BY <2>1, <2>2, <2>4
  <2>. HIDE DEF all, rests, i, e, j
  <2>6. SpeltMore(base, j, e)
    BY <2>1, <2>2, SpeltAppend
  <2>. QED  BY <1>6, <2>3, <2>4, <2>5, <2>6 DEF SpeltMore
<1>7. \A n \in 0..(Len(names) - 1) : n \in Good => n + 1 \in Good
  <2>. HIDE DEF all, rests
  <2>. QED  BY <1>6, NamesGrow
<1>8. \A n \in 0..Len(names) : n \in Good
  <2>. HIDE DEF Good
  <2>. QED  BY <1>5, <1>7, NamesGrow, StepsUpTo
<1>. QED  BY <1>4, <1>8, NamesGrow DEF FirstName, SpeltAlong, b, one

\* The last of a sequence.
LastOf(R, s, f, l) ==
    /\ s = Append(f, l)
    /\ \A x \in R : [s EXCEPT ![Len(s)] = x] = Append(f, x)
LEMMA FrontAndLast ==
    ASSUME NEW R, NEW s \in Seq(R), s # <<>>
    PROVE  Front(s) \in Seq(R) /\ Last(s) \in R /\ LastOf(R, s, Front(s), Last(s))
<1>. DEFINE n == Len(s)
            f == Front(s)
<1>1. n \in Nat /\ n >= 1 /\ n \in 1..n /\ s \in [1..n -> R]
  OBVIOUS
<1>2. f \in Seq(R) /\ Len(f) = n - 1 /\ \A k \in 1..(n - 1) : f[k] = s[k]
  BY <1>1 DEF Front
<1>3. Last(s) = s[n] /\ s[n] \in R
  BY <1>1 DEF Last
<1>. HIDE DEF n, f
<1>4. ASSUME NEW x \in R PROVE [s EXCEPT ![n] = x] = Append(f, x)
  <2>. DEFINE a == [s EXCEPT ![n] = x]
              b == Append(f, x)
  <2>1. a \in Seq(R) /\ Len(a) = n /\ \A k \in 1..n : a[k] = IF k = n THEN x ELSE s[k]
    BY <1>1
  <2>2. b \in Seq(R) /\ Len(b) = Len(f) + 1 /\ b[Len(f) + 1] = x /\ \A k \in 1..Len(f) : b[k] = f[k]
    BY <1>2
  <2>. HIDE DEF a, b
  <2>3. Len(b) = n /\ \A k \in 1..n : b[k] = IF k = n THEN x ELSE s[k]
    <3>1. \A k \in 1..n : k # n => k \in 1..(n - 1)
      BY <1>1
    <3>2. Len(f) + 1 = n /\ Len(f) = n - 1
      BY <1>1, <1>2
    <3>. QED  BY <1>2, <2>2, <3>1, <3>2
  <2>4. a = b
    BY <2>1, <2>2, <2>3, SeqEqual
  <2>. QED  BY <2>4 DEF a, b
<1>5. s = [s EXCEPT ![n] = s[n]]
  BY <1>1
<1>. QED  BY <1>2, <1>3, <1>4, <1>5 DEF LastOf, n, f

\* The segments of a text, written behind slashes, are the text.
SpeltBack(base, x) == Spelt(base, Segments(x)) = Append(base, "/") \o x
LEMMA SpeltSegments ==
    ASSUME NEW Q, "/" \in Q, NEW base \in Seq(Q), NEW x \in Seq(Q)
    PROVE  SpeltBack(base, x)
<1>. DEFINE S == Seq(Q)
            ahead == Append(base, "/")
            spelt == [n \in 0..Len(x) |-> Spelt(base, Segments(Initial(x, n)))]
            given == [n \in 0..Len(x) |-> ahead \o Initial(x, n)]
            Good == { n \in 0..Len(x) : spelt[n] = given[n] }
<1>1. TextsOf(S, Q) /\ <<>> \in S /\ ahead \in Seq(Q)
  BY DEF TextsOf
<1>2. \A n \in 0..Len(x) : Initial(x, n) \in Seq(Q)
  BY InitialGrows
<1>. HIDE DEF ahead
<1>3. 0 \in Good
  <2>. HIDE DEF S
  <2>1. Segments(<<>>) = << <<>> >>
    <3>. DEFINE P == Q \ {"/"}
    <3>1. <<>> \in Seq(P) /\ "/" \notin P
      OBVIOUS
    <3>. HIDE DEF P
    <3>2. Whole(<<>>, "/")
      BY <3>1, SplitWhole
    <3>. QED  BY <3>2 DEF Whole, Segments
  <2>2. SpeltMore(base, <<>>, <<>>) /\ Spelt(base, <<>>) = base
    <3>1. <<>> \in Seq(S)
      OBVIOUS
    <3>. QED  BY <1>1, <3>1, SpeltAppend
  <2>3. Append(<<>>, <<>>) = << <<>> >>
    OBVIOUS
  <2>4. spelt[0] = Spelt(base, << <<>> >>) /\ given[0] = ahead \o <<>>
    BY <2>1, NamesGrow
  <2>5. 0 \in 0..Len(x)
    BY NamesGrow
  <2>. HIDE DEF spelt, given
  <2>. QED  BY <2>2, <2>3, <2>4, <2>5 DEF SpeltMore, ahead
<1>4. ASSUME NEW n \in 0..(Len(x) - 1), spelt[n] = given[n] PROVE spelt[n + 1] = given[n + 1]
  <2>. DEFINE i == Initial(x, n)
              e == x[n + 1]
              parts == Segments(i)
              f == Front(parts)
              l == Last(parts)
  <2>1. n \in 0..Len(x) /\ n + 1 \in 0..Len(x) /\ i \in Seq(Q) /\ e \in Q
    BY NamesGrow
  <2>2. Initial(x, n + 1) = Append(i, e)
    BY InitialGrows
  <2>3. /\ spelt[n] = Spelt(base, parts) /\ given[n] = ahead \o i
        /\ spelt[n + 1] = Spelt(base, Segments(Append(i, e)))
        /\ given[n + 1] = ahead \o Append(i, e)
    BY <2>1, <2>2
  <2>. HIDE DEF spelt, given, i, e
  <2>4. Segments(Append(i, e)) = SplitStep(parts, e, "/") /\ parts \in Parts(Q)
    BY <2>1, SplitAppend DEF Segments
  <2>5. parts \in Seq(S) /\ parts # <<>>
    BY <2>4 DEF Parts
  <2>. HIDE DEF parts, S
  <2>6. f \in Seq(S) /\ l \in S /\ LastOf(S, parts, f, l)
    BY <2>5, FrontAndLast
  <2>7. ahead \o Append(i, e) = Append(ahead \o i, e)
    <3>1. OneMore(ahead, i, e)
      BY <1>1, <2>1, OneMoreElement
    <3>. QED  BY <3>1 DEF OneMore
  <2>8. Spelt(base, parts) = ahead \o i
    BY <1>4, <2>3
  <2>. HIDE DEF f, l
  <2>9. CASE e = "/"
    <3>1. SpeltMore(base, parts, <<>>) /\ Spelt(base, parts) \in Seq(Q)
      BY <1>1, <2>5, SpeltAppend
    <3>2. Append(Spelt(base, parts), "/") \o <<>> = Append(Spelt(base, parts), "/")
      BY <3>1
    <3>. QED  BY <2>3, <2>4, <2>7, <2>8, <2>9, <3>1, <3>2 DEF SpeltMore, SplitStep
  <2>10. CASE e # "/"
    <3>. DEFINE u == Append(Spelt(base, f), "/")
                k == Append(l, e)
    <3>1. l \in Seq(Q) /\ k \in Seq(Q)
      BY <2>1, <2>6 DEF S
    <3>2. SplitStep(parts, e, "/") = Append(f, k)
      <4>1. parts[Len(parts)] = l
        <5>1. parts = Append(f, l) /\ f \in Seq(S) /\ l \in S
          BY <2>6 DEF LastOf
        <5>. QED  BY <5>1
      <4>0. k \in S
        BY <3>1 DEF S
      <4>2. SplitStep(parts, e, "/") = [parts EXCEPT ![Len(parts)] = Append(parts[Len(parts)], e)]
        BY <2>10 DEF SplitStep
      <4>. HIDE DEF k
      <4>3. [parts EXCEPT ![Len(parts)] = k] = Append(f, k)
        BY <2>6, <4>0 DEF LastOf
      <4>. QED  BY <4>1, <4>2, <4>3 DEF k
    <3>3. k \in S
      BY <3>1 DEF S
    <3>4. SpeltMore(base, f, l) /\ Spelt(base, f) \in Seq(Q)
      BY <1>1, <2>6, SpeltAppend
    <3>a. SpeltMore(base, f, k)
      BY <1>1, <2>6, <3>3, SpeltAppend
    <3>5. u \in Seq(Q)
      BY <3>4
    <3>6. Spelt(base, parts) = u \o l /\ Spelt(base, Append(f, k)) = u \o k
      BY <2>6, <3>4, <3>a DEF SpeltMore, LastOf
    <3>. HIDE DEF u
    <3>7. OneMore(u, l, e)
      BY <2>1, <3>1, <3>5, OneMoreElement
    <3>8. u \o k = Append(u \o l, e)
      BY <3>7 DEF OneMore
    <3>. QED  BY <2>3, <2>4, <2>7, <2>8, <3>2, <3>6, <3>8
  <2>. QED  BY <2>9, <2>10
<1>5. \A n \in 0..(Len(x) - 1) : n \in Good => n + 1 \in Good
  <2>. HIDE DEF spelt, given
  <2>. QED  BY <1>4, NamesGrow
<1>6. \A n \in 0..Len(x) : n \in Good
  <2>. HIDE DEF Good
  <2>. QED  BY <1>3, <1>5, NamesGrow, StepsUpTo
<1>7. Initial(x, Len(x)) = x
  BY InitialGrows
<1>. QED  BY <1>6, <1>7, NamesGrow DEF SpeltBack, ahead

\* What is written ends as the last name does.
EndsAlike(text, name) == text # <<>> /\ Last(text) = Last(name)
LEMMA SpeltLast ==
    ASSUME NEW Q, "/" \in Q, NEW base \in Seq(Q), NEW S, TextsOf(S, Q), NEW names \in Seq(S),
           names # <<>>, Last(names) # <<>>
    PROVE  EndsAlike(Spelt(base, names), Last(names))
<1>. DEFINE f == Front(names)
            l == Last(names)
            u == Append(Spelt(base, f), "/")
<1>1. f \in Seq(S) /\ l \in S /\ names = Append(f, l)
  BY FrontAndLast DEF LastOf
<1>. HIDE DEF f
<1>2. SpeltMore(base, f, l) /\ Spelt(base, f) \in Seq(Q)
  BY <1>1, SpeltAppend
<1>3. l \in Seq(Q) /\ l # <<>>
  BY <1>1 DEF TextsOf
<1>4. u \in Seq(Q) /\ Spelt(base, names) = u \o l
  <2>1. u \in Seq(Q)
    BY <1>2
  <2>2. Spelt(base, Append(f, l)) = u \o l
    BY <1>2 DEF SpeltMore
  <2>. QED  BY <1>1, <2>1, <2>2
<1>. HIDE DEF u, l
<1>5. u \o l # <<>> /\ Last(u \o l) = Last(l)
  <2>1. Concatenated(u, l)
    BY <1>3, <1>4, ConcatenatedSeqs
  <2>2. Len(u) \in Nat /\ Len(l) \in Nat /\ Len(l) >= 1
    BY <1>3, <1>4
  <2>3. Len(l) \in 1..Len(l) /\ Len(u \o l) = Len(u) + Len(l)
    BY <2>1, <2>2 DEF Concatenated
  <2>4. (u \o l)[Len(u) + Len(l)] = l[Len(l)]
    BY <2>1, <2>3 DEF Concatenated
  <2>. QED  BY <2>2, <2>3, <2>4 DEF Last
<1>. QED  BY <1>4, <1>5 DEF EndsAlike, l

\* A text without a slash is its only segment.
LEMMA WithoutSlash ==
    ASSUME NEW P, "/" \notin P, NEW T, TextsOf(T, P), NEW a \in T
    PROVE  Segments(a) = <<a>>
<1>1. a \in Seq(P)
  BY DEF TextsOf
<1>2. Whole(a, "/")
  BY <1>1, SplitWhole
<1>. QED  BY <1>2 DEF Whole, Segments

\* What is written has the names for its segments.
SplitAgain(base, names) == Segments(Spelt(base, names)) = <<base>> \o names
LEMMA SpeltSplits ==
    ASSUME NEW P, "/" \notin P, NEW T, TextsOf(T, P), NEW base \in T, NEW names \in Seq(T)
    PROVE  SplitAgain(base, names)
<1>. DEFINE Q == P \cup {"/"}
            S == Seq(Q)
            one == <<base>>
            spelt == [n \in 0..Len(names) |-> Segments(Spelt(base, Initial(names, n)))]
            given == [n \in 0..Len(names) |-> one \o Initial(names, n)]
            Good == { n \in 0..Len(names) : spelt[n] = given[n] }
<1>0. T \subseteq S /\ "/" \in Q
  BY DEF TextsOf
<1>1. base \in Seq(Q) /\ TextsOf(S, Q) /\ names \in Seq(S)
  <2>1. names \in Seq(S)
    <3>. HIDE DEF S, Q, spelt, given, Good
    <3>. QED  BY <1>0
  <2>. QED  BY <1>0, <2>1 DEF TextsOf
<1>2. one \in Seq(T) /\ one \o <<>> = one
  <2>. HIDE DEF spelt, given, Good
  <2>. QED  OBVIOUS
<1>. HIDE DEF S, Q, one
<1>3. SpeltAlong(Q, base, names)
  BY <1>0, <1>1, SpeltGrows
<1>4. 0 \in Good
  <2>1. Segments(base) = one
    BY WithoutSlash DEF one
  <2>. QED  BY <1>2, <1>3, <2>1, NamesGrow DEF SpeltAlong
<1>5. ASSUME NEW n \in 0..(Len(names) - 1), spelt[n] = given[n] PROVE spelt[n + 1] = given[n + 1]
  <2>. DEFINE s == Spelt(base, Initial(names, n))
              i == Initial(names, n)
              e == names[n + 1]
  <2>1. /\ n \in 0..Len(names) /\ n + 1 \in 0..Len(names) /\ e \in T /\ i \in Seq(T)
    BY NamesGrow
  <2>2. s \in Seq(Q)
    BY <1>3, <2>1 DEF SpeltAlong
  <2>3. e \in Seq(Q)
    BY <1>0, <2>1 DEF S
  <2>4. spelt[n] = Segments(s) /\ given[n] = one \o i
    BY <2>1
  <2>5. /\ spelt[n + 1] = Segments(Append(s, "/") \o e)
        /\ given[n + 1] = one \o Append(i, e)
    BY <1>3, <2>1 DEF SpeltAlong
  <2>. HIDE DEF spelt, given, s, i, e
  <2>6. Segments(Append(s, "/") \o e) = Segments(s) \o Segments(e)
    BY <1>0, <2>2, <2>3, SplitConcat DEF Segments
  <2>7. Segments(e) = <<e>>
    BY <2>1, WithoutSlash
  <2>8. OneMore(one, i, e) /\ one \o i \in Seq(T)
    BY <1>2, <2>1, OneMoreElement
  <2>. DEFINE h == one \o i
  <2>9. h \in Seq(T) /\ one \o Append(i, e) = Append(h, e)
    BY <2>8 DEF OneMore
  <2>. HIDE DEF h
  <2>10. OneMore(h, i, e)
    BY <2>1, <2>9, OneMoreElement
  <2>11. Append(h, e) = h \o <<e>>
    BY <2>10 DEF OneMore
  <2>. QED  BY <1>5, <2>4, <2>5, <2>6, <2>7, <2>9, <2>11 DEF h
<1>6. \A n \in 0..(Len(names) - 1) : n \in Good => n + 1 \in Good
  <2>. HIDE DEF spelt, given
  <2>. QED  BY <1>5, NamesGrow
<1>7. \A n \in 0..Len(names) : n \in Good
  <2>. HIDE DEF Good
  <2>. QED  BY <1>4, <1>6, NamesGrow, StepsUpTo
<1>. QED  BY <1>3, <1>7, NamesGrow DEF SplitAgain, SpeltAlong, one

-----------------------------------------------------------------------------
(* Trimming and stripping.                                                 *)

\* What is trimmed begins and ends with something that is no blank.
Inked(t) == t # <<>> /\ t[1] # " " /\ t[Len(t)] # " "
Inks(t) == { i \in DOMAIN t : t[i] # " " }
TrimmedTo(w, n) ==
    /\ Inks(w) = {} => Trim(w) = <<>>
    /\ Inks(w) # {} => Trim(w) = SubSeq(w, Min(Inks(w)), Max(Inks(w)))
    /\ Inks(w) \subseteq 1..n
    /\ Inks(w) # {} => /\ Min(Inks(w)) \in Inks(w) /\ Max(Inks(w)) \in Inks(w)
                       /\ \A i \in Inks(w) : Min(Inks(w)) <= i /\ i <= Max(Inks(w))

\* It is cut at the first and the last symbol that is no blank.
LEMMA TrimIs ==
    ASSUME NEW R, NEW w \in Seq(R)
    PROVE  TrimmedTo(w, Len(w))
<1>1. Len(w) \in Nat /\ DOMAIN w = 1..Len(w)
  OBVIOUS
<1>2. Inks(w) \subseteq 1..Len(w)
  BY <1>1 DEF Inks
<1>3. /\ Inks(w) = {} => Trim(w) = <<>>
      /\ Inks(w) # {} => Trim(w) = SubSeq(w, Min(Inks(w)), Max(Inks(w)))
  BY DEF Trim, Inks
<1>4. ASSUME Inks(w) # {}
      PROVE  /\ Min(Inks(w)) \in Inks(w) /\ Max(Inks(w)) \in Inks(w)
             /\ \A i \in Inks(w) : Min(Inks(w)) <= i /\ i <= Max(Inks(w))
  <2>1. Inks(w) \subseteq 0..Len(w) /\ Inks(w) \subseteq Nat
    BY <1>1, <1>2
  <2>. QED  BY <1>1, <1>4, <2>1, MinOf, MaxOf
<1>. QED  BY <1>2, <1>3, <1>4 DEF TrimmedTo

\* A text that begins and ends with something that is no blank is not trimmed.
Untrimmed(t) == Trim(t) = t
LEMMA TrimNothing ==
    ASSUME NEW R, NEW t \in Seq(R), Inked(t)
    PROVE  Untrimmed(t)
<1>. DEFINE n == Len(t)
            ink == Inks(t)
<1>1. n \in Nat /\ DOMAIN t = 1..n /\ (t # <<>> => n >= 1) /\ SubSeq(t, 1, n) = t
  OBVIOUS
<1>2. n >= 1
  BY <1>1 DEF Inked
<1>3. 1 \in ink /\ n \in ink
  <2>1. t[1] # " " /\ t[n] # " "
    BY DEF Inked
  <2>2. 1 \in DOMAIN t /\ n \in DOMAIN t
    <3>. HIDE DEF n
    <3>. QED  BY <1>1, <1>2
  <2>. HIDE DEF n
  <2>. QED  BY <2>1, <2>2 DEF Inks
<1>4. TrimmedTo(t, n)
  BY TrimIs
<1>5. /\ ink \subseteq 1..n /\ Min(ink) \in ink /\ Max(ink) \in ink
      /\ Min(ink) <= 1 /\ n <= Max(ink)
      /\ Trim(t) = SubSeq(t, Min(ink), Max(ink))
  BY <1>3, <1>4 DEF TrimmedTo
<1>. HIDE DEF n, ink
<1>. DEFINE a == Min(ink)
            b == Max(ink)
<1>6. a = 1 /\ b = n
  <2>1. a \in 1..n /\ b \in 1..n /\ a <= 1 /\ n <= b
    BY <1>5
  <2>. HIDE DEF a, b
  <2>. QED  BY <1>1, <2>1
<1>. QED  BY <1>1, <1>5, <1>6 DEF Untrimmed

\* What is trimmed begins and ends with no blank.
LEMMA TrimmedEnds ==
    ASSUME NEW R, NEW w \in Seq(R)
    PROVE  Trim(w) # <<>> => Trim(w) \in Seq(R) /\ Inked(Trim(w))
<1>. DEFINE n == Len(w)
            ink == Inks(w)
            a == Min(ink)
            b == Max(ink)
            t == SubSeq(w, a, b)
<1>0. SUFFICES ASSUME Trim(w) # <<>> PROVE Trim(w) \in Seq(R) /\ Inked(Trim(w))
  OBVIOUS
<1>1. n \in Nat
  OBVIOUS
<1>2. TrimmedTo(w, n)
  BY TrimIs
<1>3. Trim(w) = t /\ a \in ink /\ b \in ink /\ a <= b /\ ink \subseteq 1..n
  BY <1>0, <1>2 DEF TrimmedTo
<1>4. w[a] # " " /\ w[b] # " "
  BY <1>3 DEF Inks
<1>5. a \in 1..n /\ b \in 1..n /\ a <= b
  BY <1>3
<1>. HIDE DEF a, b, ink
<1>6. /\ t \in Seq(R) /\ Len(t) = (b - a) + 1
      /\ \A i \in 1..((b - a) + 1) : t[i] = w[(a + i) - 1]
  BY <1>1, <1>5
<1>. HIDE DEF t, n
<1>7. /\ 1 \in 1..((b - a) + 1) /\ (b - a) + 1 \in 1..((b - a) + 1)
      /\ (a + 1) - 1 = a /\ (a + ((b - a) + 1)) - 1 = b
  BY <1>1, <1>5
<1>8. t[1] = w[a] /\ t[Len(t)] = w[b]
  BY <1>6, <1>7
<1>9. t # <<>>
  BY <1>0, <1>3
<1>. QED  BY <1>3, <1>4, <1>6, <1>8, <1>9 DEF Inked

\* A text that neither a slash nor a blank ends.
Closed(x) == x # <<>> /\ x[Len(x)] # "/" /\ x[Len(x)] # " "

\* Nor has it a slash in front, or next to another.
Smooth(x) ==
    /\ x # <<>> /\ x[1] # "/" /\ x[Len(x)] # "/"
    /\ \A n \in 1..(Len(x) - 1) : x[n] # "/" \/ x[n + 1] # "/"

\* All but the end.
LEMMA FrontIs ==
    ASSUME NEW R, NEW s \in Seq(R)
    PROVE  s # <<>> => /\ Front(s) \in Seq(R) /\ Len(Front(s)) = Len(s) - 1
                       /\ \A n \in 1..(Len(s) - 1) : Front(s)[n] = s[n]
<1>. DEFINE m == Len(s) - 1
            f == SubSeq(s, 1, m)
<1>1. Len(s) \in Nat /\ (s # <<>> => Len(s) >= 1)
  OBVIOUS
<1>2. ASSUME s # <<>> PROVE f \in Seq(R) /\ Len(f) = m /\ \A n \in 1..m : f[n] = s[n]
  <2>1. m \in Nat /\ m <= Len(s)
    <3>. HIDE DEF f
    <3>. QED  BY <1>1, <1>2
  <2>. HIDE DEF m
  <2>. QED  BY <1>1, <2>1
<1>3. f = Front(s)
  BY DEF Front
<1>. HIDE DEF f
<1>. QED  BY <1>2, <1>3

\* It is what is left when it is stripped.
Unstripped(x) == StripSlash(x) = x
LEMMA StripNothing ==
    ASSUME NEW R, NEW x \in Seq(R), x # <<>> => x[Len(x)] # "/"
    PROVE  Unstripped(x)
  BY DEF Unstripped, StripSlash, Last

\* The end of two texts is the end of the second.
SameEnd(x, y) == x # <<>> /\ x[Len(x)] = y[Len(y)]
LEMMA EndOfBoth ==
    ASSUME NEW R, NEW a \in Seq(R), NEW b \in Seq(R), b # <<>>
    PROVE  SameEnd(a \o b, b)
<1>. DEFINE n == Len(a)
            m == Len(b)
            x == a \o b
<1>1. n \in Nat /\ m \in Nat /\ m >= 1
  OBVIOUS
<1>2. x \in Seq(R) /\ Len(x) = n + m /\ \A i \in 1..m : x[n + i] = b[i]
  OBVIOUS
<1>3. x # <<>> <=> Len(x) # 0
  OBVIOUS
<1>. HIDE DEF n, m, x
<1>4. x # <<>> /\ x[Len(x)] = b[m]
  BY <1>1, <1>2, <1>3
<1>. QED  BY <1>4 DEF SameEnd, x, m

\* The rest of ParsePath, when the text is trimmed and stripped.
Named(x) ==
    CASE First(x) = <<"db">>      -> ParseDb(Rest(x))
      [] First(x) = <<"search">>  -> ParseSearch(Rest(x))
      [] First(x) = <<"results">> -> ParseName("Result", Rest(x))
      [] First(x) = <<"tmp">>     -> ParseName("Tmp", Rest(x))
      [] First(x) = <<"links">>   -> ParseName("Symlink", Rest(x))
      [] OTHER                    -> Invalid

\* A slash and a text after it.
Behind(x) == <<"/">> \o x
LEMMA BehindSlash ==
    ASSUME NEW R, "/" \in R, NEW x \in Seq(R)
    PROVE  /\ Behind(x) \in Seq(R) /\ Behind(x)[1] = "/" /\ Behind(x) # <<>>
           /\ Head(Behind(x)) = "/" /\ Tail(Behind(x)) = x
           /\ Len(Behind(x)) = Len(x) + 1
           /\ \A n \in 1..Len(x) : Behind(x)[n + 1] = x[n]
<1>. DEFINE y == <<"/">> \o x
<1>1. y \in Seq(R) /\ Len(y) = Len(x) + 1 /\ y[1] = "/" /\ \A n \in 1..Len(x) : y[n + 1] = x[n]
  OBVIOUS
<1>2. y # <<>> /\ Head(y) = "/"
  OBVIOUS
<1>3. Tail(y) = x
  OBVIOUS
<1>4. y = Behind(x)
  BY DEF Behind
<1>. HIDE DEF y
<1>. QED  BY <1>1, <1>2, <1>3, <1>4

\* A text that ends in neither a slash nor a blank is read as it is behind a slash.
Reads(x) == ParsePath(Behind(x)) = Named(x)
LEMMA ParseBehind ==
    ASSUME NEW R, "/" \in R, NEW x \in Seq(R), Closed(x)
    PROVE  Reads(x)
<1>. DEFINE y == Behind(x)
<1>1. x # <<>> /\ x[Len(x)] # "/" /\ x[Len(x)] # " "
  BY DEF Closed
<1>2. /\ y \in Seq(R) /\ y[1] = "/" /\ Head(y) = "/" /\ Tail(y) = x /\ Len(y) = Len(x) + 1
      /\ y # <<>> /\ \A n \in 1..Len(x) : y[n + 1] = x[n]
  BY BehindSlash
<1>3. Len(x) \in 1..Len(x)
  <2>1. x # <<>> => Len(x) \in 1..Len(x)
    <3>. HIDE DEF y
    <3>. QED  OBVIOUS
  <2>. QED  BY <1>1, <2>1
<1>. HIDE DEF y
<1>4. y[Len(y)] = x[Len(x)]
  BY <1>2, <1>3
<1>5. Inked(y)
  BY <1>1, <1>2, <1>4 DEF Inked
<1>6. Trim(y) = y
  BY <1>2, <1>5, TrimNothing DEF Untrimmed
<1>7. StripSlash(Tail(y)) = x
  BY <1>1, <1>2, StripNothing DEF Unstripped
<1>8. ParsePath(y) = Named(x)
  BY <1>1, <1>2, <1>6, <1>7 DEF ParsePath, Named
<1>. QED  BY <1>8 DEF Reads, y

\* What is read is what stands behind the slash, stripped.
ReadFrom(w, x) ==
    /\ ParsePath(w) = Named(x)
    /\ StripSlash(Trim(w)) = Behind(x)
    /\ (\A n \in 1..(Len(Trim(w)) - 1) : Trim(w)[n] # "/" \/ Trim(w)[n + 1] # "/") => Smooth(x)
LEMMA ParseReads ==
    ASSUME NEW R, "/" \in R, NEW w \in Seq(R), ParsePath(w) # Invalid
    PROVE  { x \in Seq(R) : x # <<>> /\ ReadFrom(w, x) } # {}
<1>. DEFINE t == Trim(w)
            u == Tail(t)
            x == StripSlash(u)
<1>1. t # <<>> /\ Head(t) = "/" /\ x # <<>> /\ ParsePath(w) = Named(x)
  BY DEF ParsePath, Named
<1>2. t \in Seq(R)
  BY <1>1, TrimmedEnds
<1>. HIDE DEF t
<1>3. u \in Seq(R) /\ u # <<>>
  <2>1. u \in Seq(R)
    BY <1>1, <1>2
  <2>2. u = <<>> => x = <<>>
    BY DEF StripSlash
  <2>. QED  BY <1>1, <2>1, <2>2
<1>4. t = Behind(u)
  <2>. DEFINE s == <<Head(t)>> \o Tail(t)
  <2>1. t # <<>> => t = s
    BY <1>2
  <2>2. s = Behind(u)
    BY <1>1 DEF Behind
  <2>. QED  BY <1>1, <2>1, <2>2
<1>. HIDE DEF u
<1>5. /\ t[1] = "/" /\ Len(t) = Len(u) + 1
      /\ \A n \in 1..Len(u) : t[n + 1] = u[n]
  BY <1>3, <1>4, BehindSlash
<1>6. Len(u) \in Nat /\ Len(u) \in 1..Len(u) /\ t[Len(t)] = u[Len(u)] /\ 1 \in 1..Len(u)
  <2>1. Len(u) \in Nat /\ (u # <<>> => Len(u) \in 1..Len(u) /\ 1 \in 1..Len(u))
    BY <1>3
  <2>. QED  BY <1>3, <1>5, <2>1
<1>. DEFINE l == Len(u)
            k == Len(x)
            y == Behind(x)
            Same == /\ x \in Seq(R) /\ k \in 1..l /\ \A n \in 1..k : x[n] = t[n + 1]
                    /\ x[k] # "/" \/ (k + 1 <= l /\ t[k + 2] = "/")
                    /\ StripSlash(t) = y
<1>7. ASSUME u[l] = "/" PROVE Same
  <2>. DEFINE f == Front(t)
              m == l - 1
  <2>1. x = Front(u) /\ StripSlash(t) = f
    BY <1>1, <1>3, <1>6, <1>7 DEF StripSlash, Last
  <2>2. x \in Seq(R) /\ k = m /\ \A n \in 1..m : x[n] = u[n]
    BY <1>3, <2>1, FrontIs
  <2>3. f \in Seq(R) /\ Len(f) = Len(t) - 1 /\ \A n \in 1..(Len(t) - 1) : f[n] = t[n]
    BY <1>1, <1>2, FrontIs
  <2>4. k \in Nat /\ k >= 1
    <3>1. k \in Nat /\ (x # <<>> => k >= 1)
      BY <2>2
    <3>. QED  BY <1>1, <3>1
  <2>5. y \in Seq(R) /\ y[1] = "/" /\ Len(y) = k + 1 /\ \A n \in 1..k : y[n + 1] = x[n]
    BY <2>2, BehindSlash
  <2>6. \A n \in 1..l : t[n + 1] = u[n]
    BY <1>5
  <2>7. t[1] = "/" /\ Len(t) = l + 1 /\ l \in Nat
    BY <1>5, <1>6
  <2>. HIDE DEF x, f, y, k, l
  <2>8. /\ k \in 1..l /\ l \in 1..l /\ k + 1 = l /\ Len(f) = k + 1
        /\ \A n \in 1..k : n \in 1..l
        /\ \A n \in 1..(k + 1) : n = 1 \/ (n - 1 \in 1..k /\ (n - 1) + 1 = n)
    BY <2>2, <2>3, <2>4, <2>7
  <2>9. \A n \in 1..(k + 1) : f[n] = t[n]
    BY <2>3, <2>7, <2>8
  <2>10. \A n \in 1..k : x[n] = t[n + 1]
    BY <2>2, <2>6, <2>8
  <2>11. ASSUME NEW n \in 1..(k + 1) PROVE f[n] = y[n]
    <3>1. f[n] = t[n]
      BY <2>9
    <3>2. CASE n = 1
      BY <2>5, <2>7, <3>1, <3>2
    <3>3. CASE n # 1
      <4>. DEFINE j == n - 1
      <4>1. j \in 1..k /\ j + 1 = n
        BY <2>8, <3>3
      <4>. HIDE DEF j
      <4>2. y[j + 1] = x[j] /\ x[j] = t[j + 1]
        BY <2>5, <2>10, <4>1
      <4>. QED  BY <3>1, <4>1, <4>2
    <3>. QED  BY <3>2, <3>3
  <2>12. f = y
    BY <2>3, <2>4, <2>5, <2>8, <2>11, SeqEqual
  <2>13. t[k + 2] = "/"
    <3>1. (k + 1) + 1 = k + 2
      BY <2>4
    <3>. QED  BY <1>7, <2>6, <2>8, <3>1
  <2>. QED  BY <2>1, <2>2, <2>8, <2>10, <2>12, <2>13
<1>8. ASSUME u[l] # "/" PROVE Same
  <2>1. x = u /\ StripSlash(t) = t
    BY <1>1, <1>6, <1>8 DEF StripSlash, Last
  <2>. HIDE DEF x
  <2>. QED  BY <1>3, <1>4, <1>5, <1>6, <1>8, <2>1
<1>9. Same
  BY <1>7, <1>8
<1>10. Len(t) = l + 1 /\ l \in Nat /\ t[1] = "/"
  BY <1>5, <1>6
<1>. HIDE DEF x, k, l, y
<1>11. ASSUME \A n \in 1..(Len(t) - 1) : t[n] # "/" \/ t[n + 1] # "/"
       PROVE  Smooth(x)
  <2>1. /\ 1 \in 1..k /\ 1 \in 1..(Len(t) - 1)
        /\ k + 1 <= l => k + 1 \in 1..(Len(t) - 1)
        /\ (k + 1) + 1 = k + 2
        /\ \A n \in 1..(k - 1) : n + 1 \in 1..(Len(t) - 1) /\ n \in 1..k /\ n + 1 \in 1..k
    BY <1>9, <1>10
  <2>2. x[1] # "/"
    BY <1>9, <1>10, <1>11, <2>1
  <2>3. x[k] # "/"
    BY <1>9, <1>11, <2>1
  <2>4. \A n \in 1..(k - 1) : x[n] # "/" \/ x[n + 1] # "/"
    BY <1>9, <1>11, <2>1
  <2>. QED  BY <1>1, <2>2, <2>3, <2>4 DEF Smooth, k
<1>12. ReadFrom(w, x)
  BY <1>1, <1>9, <1>11 DEF ReadFrom, t, y
<1>. QED  BY <1>1, <1>9, <1>12

\* A text is its first segment, or that, a slash and the rest.
Divided(R, x) ==
    /\ First(x) \in Seq(R \ {"/"}) /\ Rest(x) \in Seq(R)
    /\ (x = First(x) /\ Rest(x) = <<>>) \/ x = Append(First(x), "/") \o Rest(x)
LEMMA Divides ==
    ASSUME NEW R, NEW x \in Seq(R)
    PROVE  Divided(R, x)
<1>1. CASE Slashes(x) = {}
  <2>1. x \in Seq(R \ {"/"}) /\ First(x) = x /\ Rest(x) = <<>>
    BY <1>1, FirstAndRest DEF Unslashed
  <2>. QED  BY <2>1 DEF Divided
<1>2. CASE Slashes(x) # {}
  <2>1. PICK c \in Pieces(R) : CutHere(x, c)
    BY <1>2, FirstAndRest
  <2>2. c.first \in Seq(R \ {"/"}) /\ c.rest \in Seq(R)
    BY DEF Pieces
  <2>3. x = Append(c.first, "/") \o c.rest /\ First(x) = c.first /\ Rest(x) = c.rest
    BY <2>1 DEF CutHere
  <2>. QED  BY <2>2, <2>3 DEF Divided
<1>. QED  BY <1>1, <1>2

\* A slash and a text after two others.
Joins(a, b, c) ==
    /\ Append(Behind(a), "/") \o b = Behind(Append(a, "/") \o b)
    /\ Append(Append(a, "/") \o b, "/") \o c = Append(a, "/") \o (Append(b, "/") \o c)
LEMMA Joining ==
    ASSUME NEW R, "/" \in R, NEW a \in Seq(R), NEW b \in Seq(R), NEW c \in Seq(R)
    PROVE  Joins(a, b, c)
<1>. DEFINE s == <<"/">>
            as == Append(a, "/")
            bs == Append(b, "/")
<1>1. s \in Seq(R) /\ as \in Seq(R) /\ bs \in Seq(R)
  OBVIOUS
<1>2. Append(s \o a, "/") = s \o as
  BY OneMoreElement DEF OneMore
<1>3. (s \o as) \o b = s \o (as \o b)
  <2>. HIDE DEF s, as
  <2>1. Associates(s, as, b)
    BY <1>1, ThreeInARow
  <2>. QED  BY <2>1 DEF Associates
<1>4. Append(as \o b, "/") = as \o bs
  <2>. HIDE DEF as
  <2>1. OneMore(as, b, "/")
    BY <1>1, OneMoreElement
  <2>. QED  BY <2>1 DEF OneMore, bs
<1>5. (as \o bs) \o c = as \o (bs \o c)
  <2>. HIDE DEF bs, as
  <2>1. Associates(as, bs, c)
    BY <1>1, ThreeInARow
  <2>. QED  BY <2>1 DEF Associates
<1>6. Behind(a) = s \o a /\ Behind(as \o b) = s \o (as \o b)
  BY DEF Behind
<1>. HIDE DEF s
<1>7. Append(Behind(a), "/") \o b = Behind(Append(a, "/") \o b)
  BY <1>2, <1>3, <1>6
<1>8. Append(Append(a, "/") \o b, "/") \o c = Append(a, "/") \o (Append(b, "/") \o c)
  BY <1>4, <1>5
<1>. HIDE DEF as, bs
<1>. QED  BY <1>7, <1>8 DEF Joins

\* One name, and two, behind a text.
SpeltOut(base, a, b) ==
    /\ Spelt(base, <<>>) = base
    /\ Spelt(base, <<a>>) = Append(base, "/") \o a
    /\ Spelt(base, <<a, b>>) = Append(Append(base, "/") \o a, "/") \o b
LEMMA SpeltTwo ==
    ASSUME NEW Q, "/" \in Q, NEW base \in Seq(Q), NEW a \in Seq(Q), NEW b \in Seq(Q)
    PROVE  SpeltOut(base, a, b)
<1>. DEFINE S == Seq(Q)
            none == <<>>
            one == <<a>>
<1>1. TextsOf(S, Q) /\ a \in S /\ b \in S
  BY DEF TextsOf
<1>. HIDE DEF S
<1>2. none \in Seq(S) /\ one \in Seq(S) /\ one = Append(none, a) /\ <<a, b>> = Append(one, b)
  BY <1>1
<1>. HIDE DEF none, one
<1>3. SpeltMore(base, none, a) /\ Spelt(base, <<>>) = base
  BY <1>1, <1>2, SpeltAppend
<1>4. SpeltMore(base, one, b)
  BY <1>1, <1>2, SpeltAppend
<1>5. Spelt(base, none) = base
  BY <1>3 DEF none
<1>6. Spelt(base, one) = Append(base, "/") \o a
  BY <1>2, <1>3, <1>5 DEF SpeltMore
<1>7. Spelt(base, <<a, b>>) = Append(Append(base, "/") \o a, "/") \o b
  BY <1>2, <1>4, <1>6 DEF SpeltMore
<1>8. Spelt(base, <<a>>) = Append(base, "/") \o a
  BY <1>6 DEF one
<1>. QED  BY <1>3, <1>7, <1>8 DEF SpeltOut

\* What is written around a slash, the first part having none, is cut there.
CutInto(a, b) ==
    LET x == Append(a, "/") \o b
    IN  First(x) = a /\ Rest(x) = b
LEMMA CutParts ==
    ASSUME NEW R, "/" \in R, NEW a \in Seq(R \ {"/"}), NEW b \in Seq(R)
    PROVE  CutInto(a, b)
<1>1. CutHere(Append(a, "/") \o b, [first |-> a, rest |-> b])
  BY CutText
<1>. QED  BY <1>1 DEF CutHere, CutInto

\* The names that are read again.
Plain(names) == \A n \in DOMAIN names : names[n] # <<>> /\ Last(names[n]) \notin {"/", " "}

\* They end neither in a slash nor in a blank.
LEMMA PlainNames ==
    ASSUME NEW names, Plain(names), NEW n \in DOMAIN names
    PROVE  Closed(names[n])
<1>1. names[n] # <<>> /\ Last(names[n]) \notin {"/", " "}
  BY DEF Plain
<1>. QED  BY <1>1 DEF Closed, Last

\* What is written for p, which was read from x behind a slash.
Again(R, p) == { y \in Seq(R) : Closed(y) /\ Spelled(p) = Behind(y) /\ Named(y) = p }
RoundTrips(R, x, p) ==
    /\ Smooth(x) => Spelled(p) = Behind(x)
    /\ Plain(p.names) => Again(R, p) # {}

\* What is after the last cut ends as the whole does.
EndsOf(a, b) ==
    LET x == Append(a, "/") \o b
    IN  /\ Smooth(x) => b # <<>> /\ b[Len(b)] # "/"
        /\ Closed(b) => Closed(x)
        /\ b = <<>> => x[Len(x)] = "/"
LEMMA EndAfterSlash ==
    ASSUME NEW R, "/" \in R, NEW a \in Seq(R), NEW b \in Seq(R)
    PROVE  EndsOf(a, b)
<1>. DEFINE s == Append(a, "/")
            x == s \o b
            none == <<>>
<1>1. s \in Seq(R) /\ s[Len(s)] = "/"
  OBVIOUS
<1>. HIDE DEF s
<1>2. s \o none = s
  BY <1>1
<1>3. ASSUME b # none PROVE SameEnd(x, b)
  BY <1>1, <1>3, EndOfBoth
<1>4. b = none => x[Len(x)] = "/"
  BY <1>1, <1>2
<1>. HIDE DEF x
<1>5. Smooth(x) => b # <<>> /\ b[Len(b)] # "/"
  BY <1>3, <1>4 DEF Smooth, SameEnd
<1>6. Closed(b) => Closed(x)
  BY <1>3 DEF Closed, SameEnd
<1>. QED  BY <1>4, <1>5, <1>6 DEF EndsOf, x, s, none

\* The kinds whose name is all that is written.
Namespaces(kind, ns) ==
    /\ Place(kind) = Behind(ns)
    /\ \A y : First(y) = ns => Named(y) = ParseName(kind, Rest(y))
LEMMA NamedRoundTrips ==
    ASSUME NEW R, "/" \in R, NEW x \in Seq(R), NEW kind, NEW ns, Namespaces(kind, ns),
           First(x) = ns, Named(x) # Invalid
    PROVE  RoundTrips(R, x, Named(x))
<1>. DEFINE r == Rest(x)
            name == StripSlash(r)
            none == <<>>
<1>1. Place(kind) = Behind(ns) /\ \A y : First(y) = ns => Named(y) = ParseName(kind, Rest(y))
  BY DEF Namespaces
<1>2. Named(x) = Is(kind, <<name>>) /\ name # none
  <2>1. Named(x) = ParseName(kind, r)
    BY <1>1
  <2>. QED  BY <2>1 DEF ParseName
<1>3. /\ ns \in Seq(R \ {"/"}) /\ ns \in Seq(R) /\ r \in Seq(R)
      /\ (x = ns /\ r = none) \/ x = Append(ns, "/") \o r
  <2>1. /\ ns \in Seq(R \ {"/"}) /\ r \in Seq(R)
        /\ (x = ns /\ r = none) \/ x = Append(ns, "/") \o r
    BY Divides DEF Divided
  <2>2. ns \in Seq(R)
    <3>. DEFINE Q == R \ {"/"}
    <3>1. Q \subseteq R /\ ns \in Seq(Q)
      BY <2>1
    <3>. HIDE DEF Q, r, none
    <3>. QED  BY <3>1
  <2>. QED  BY <2>1, <2>2
<1>4. r # none /\ name \in Seq(R)
  <2>1. r = none => name = none
    BY DEF StripSlash
  <2>2. r # none
    BY <1>2, <2>1
  <2>3. name = r \/ name = Front(r)
    BY DEF StripSlash
  <2>. HIDE DEF r, name
  <2>4. Front(r) \in Seq(R)
    BY <1>3, <2>2, FrontIs
  <2>. QED  BY <1>3, <2>2, <2>3, <2>4
<1>5. x = Append(ns, "/") \o r
  BY <1>3, <1>4
<1>. HIDE DEF r, name, none
<1>6. Spelled(Named(x)) = Behind(Append(ns, "/") \o name)
  <2>1. Behind(ns) \in Seq(R)
    BY <1>3, BehindSlash
  <2>2. SpeltOut(Behind(ns), name, name) /\ Joins(ns, name, name)
    BY <1>3, <1>4, <2>1, SpeltTwo, Joining
  <2>3. Spelt(Behind(ns), <<name>>) = Behind(Append(ns, "/") \o name)
    BY <2>2 DEF SpeltOut, Joins
  <2>4. Spelled(Named(x)) = Spelt(Place(kind), <<name>>)
    BY <1>2 DEF Spelled, Is
  <2>. QED  BY <1>1, <2>3, <2>4
<1>7. ASSUME Smooth(x) PROVE Spelled(Named(x)) = Behind(x)
  <2>1. r[Len(r)] # "/"
    BY <1>3, <1>5, <1>7, EndAfterSlash DEF EndsOf
  <2>2. name = r
    BY <1>3, <2>1, StripNothing DEF Unstripped, name
  <2>. QED  BY <1>5, <1>6, <2>2
<1>8. ASSUME Plain(Named(x).names) PROVE Again(R, Named(x)) # {}
  <2>. DEFINE y == Append(ns, "/") \o name
  <2>1. Closed(name)
    <3>1. 1 \in DOMAIN <<name>> /\ <<name>>[1] = name
      OBVIOUS
    <3>2. Named(x).names = <<name>>
      BY <1>2 DEF Is
    <3>. QED  BY <1>8, <3>1, <3>2, PlainNames
  <2>2. y \in Seq(R) /\ Closed(y)
    <3>1. y \in Seq(R)
      BY <1>3, <1>4
    <3>. QED  BY <1>3, <1>4, <2>1, <3>1, EndAfterSlash DEF EndsOf
  <2>3. First(y) = ns /\ Rest(y) = name
    <3>1. CutInto(ns, name)
      BY <1>3, <1>4, CutParts
    <3>. QED  BY <3>1 DEF CutInto
  <2>. HIDE DEF y
  <2>4. StripSlash(name) = name
    BY <1>4, <2>1, StripNothing DEF Unstripped, Closed
  <2>5. Named(y) = ParseName(kind, name)
    BY <1>1, <2>3
  <2>6. Named(y) = Named(x)
    BY <1>2, <2>4, <2>5 DEF ParseName, none
  <2>. QED  BY <1>6, <2>2, <2>6 DEF Again, y
<1>. QED  BY <1>7, <1>8 DEF RoundTrips

\* A text without a slash is all first segment.
LEMMA OnlyFirst ==
    ASSUME NEW R, NEW a \in Seq(R \ {"/"})
    PROVE  First(a) = a /\ Rest(a) = <<>> /\ a \in Seq(R)
<1>. DEFINE Q == R \ {"/"}
<1>1. a \in Seq(Q) /\ Q \subseteq R /\ "/" \notin Q
  OBVIOUS
<1>. HIDE DEF Q
<1>2. a \in Seq(R) /\ Slashes(a) = {}
  BY <1>1 DEF Slashes
<1>. QED  BY <1>2, FirstAndRest DEF Unslashed

\* The kinds under /search.
SearchPlace(ns) ==
    /\ \A kind \in {"SearchRoot", "SearchCollection", "SearchQuery"} : Place(kind) = Behind(ns)
    /\ \A y : First(y) = ns => Named(y) = ParseSearch(Rest(y))
    /\ Closed(ns)
LEMMA SearchRoundTrips ==
    ASSUME NEW R, "/" \in R, NEW x \in Seq(R), NEW ns, SearchPlace(ns), First(x) = ns
    PROVE  RoundTrips(R, x, Named(x))
<1>. DEFINE r == Rest(x)
            t == StripSlash(r)
            f == First(t)
            q == Rest(t)
            none == <<>>
            under == Append(ns, "/")
            p == Named(x)
<1>1. /\ \A kind \in {"SearchRoot", "SearchCollection", "SearchQuery"} : Place(kind) = Behind(ns)
      /\ \A y : First(y) = ns => Named(y) = ParseSearch(Rest(y))
      /\ Closed(ns)
  BY DEF SearchPlace
<1>2. /\ ns \in Seq(R \ {"/"}) /\ r \in Seq(R)
      /\ (x = ns /\ r = none) \/ x = under \o r
  BY Divides DEF Divided
<1>3. ns \in Seq(R) /\ First(ns) = ns /\ Rest(ns) = none
  BY <1>2, OnlyFirst
<1>4. Behind(ns) \in Seq(R)
  BY <1>3, BehindSlash
<1>5. p = ParseSearch(r)
  BY <1>1
<1>6. ASSUME r = none PROVE RoundTrips(R, x, p)
  <2>1. p = Is("SearchRoot", <<>>)
    BY <1>5, <1>6 DEF ParseSearch
  <2>2. Spelled(p) = Behind(ns)
    <3>1. Spelled(p) = Spelt(Behind(ns), <<>>)
      BY <1>1, <2>1 DEF Spelled, Is
    <3>2. SpeltOut(Behind(ns), ns, ns)
      BY <1>3, <1>4, SpeltTwo
    <3>. QED  BY <3>1, <3>2 DEF SpeltOut
  <2>3. ASSUME Smooth(x) PROVE x = ns
    <3>1. x = under \o r => r # <<>>
      BY <1>2, <1>3, <2>3, EndAfterSlash DEF EndsOf
    <3>. QED  BY <1>2, <1>6, <3>1
  <2>4. Named(ns) = p
    <3>1. Named(ns) = ParseSearch(Rest(ns))
      BY <1>1, <1>3
    <3>. QED  BY <1>3, <1>5, <1>6, <3>1
  <2>5. Again(R, p) # {}
    BY <1>1, <1>3, <2>2, <2>4 DEF Again
  <2>. QED  BY <2>2, <2>3, <2>5 DEF RoundTrips
<1>7. ASSUME r # none PROVE x = under \o r /\ t \in Seq(R)
  <2>1. t = r \/ t = Front(r)
    BY DEF StripSlash
  <2>2. Front(r) \in Seq(R)
    BY <1>2, <1>7, FrontIs
  <2>. QED  BY <1>2, <1>7, <2>1, <2>2
<1>8. ASSUME r # none
      PROVE  /\ f \in Seq(R \ {"/"}) /\ f \in Seq(R) /\ First(f) = f /\ Rest(f) = none /\ q \in Seq(R)
             /\ (t = f /\ q = none) \/ t = Append(f, "/") \o q
  <2>1. /\ f \in Seq(R \ {"/"}) /\ q \in Seq(R)
        /\ (t = f /\ q = none) \/ t = Append(f, "/") \o q
    BY <1>7, <1>8, Divides DEF Divided
  <2>. HIDE DEF f, q
  <2>. QED  BY <2>1, OnlyFirst
<1>9. ASSUME r # none, Smooth(x) PROVE t = r /\ r[Len(r)] # "/"
  <2>1. r[Len(r)] # "/"
    BY <1>2, <1>3, <1>7, <1>9, EndAfterSlash DEF EndsOf
  <2>. QED  BY <1>2, <2>1, StripNothing DEF Unstripped
<1>10. ASSUME NEW z \in Seq(R), Closed(z), ParseSearch(z) = p, Spelled(p) = Behind(under \o z)
       PROVE  Again(R, p) # {}
  <2>. DEFINE y == under \o z
  <2>1. y \in Seq(R)
    BY <1>3
  <2>2. Closed(y)
    BY <1>3, <1>10, EndAfterSlash DEF EndsOf
  <2>3. First(y) = ns /\ Rest(y) = z
    <3>1. CutInto(ns, z)
      BY <1>2, <1>10, CutParts
    <3>. QED  BY <3>1 DEF CutInto
  <2>. HIDE DEF y
  <2>4. Named(y) = p
    BY <1>1, <1>10, <2>3
  <2>. QED  BY <1>10, <2>1, <2>2, <2>4 DEF Again, y
<1>. HIDE DEF r, t, f, q, under, none
<1>11. ASSUME r # none, q = none PROVE RoundTrips(R, x, p)
  <2>1. p = Is("SearchCollection", <<f>>)
    BY <1>5, <1>11 DEF ParseSearch, t, f, q, none
  <2>2. Spelled(p) = Behind(under \o f)
    <3>1. Spelled(p) = Spelt(Behind(ns), <<f>>)
      BY <1>1, <2>1 DEF Spelled, Is
    <3>2. SpeltOut(Behind(ns), f, f) /\ Joins(ns, f, f)
      BY <1>3, <1>4, <1>8, <1>11, SpeltTwo, Joining
    <3>. QED  BY <3>1, <3>2 DEF SpeltOut, Joins, under
  <2>3. ASSUME Smooth(x) PROVE r = f
    <3>1. t = Append(f, "/") \o q => t[Len(t)] = "/"
      BY <1>8, <1>11, EndAfterSlash DEF EndsOf, none
    <3>. QED  BY <1>8, <1>9, <1>11, <2>3, <3>1
  <2>4. ASSUME Plain(p.names) PROVE Again(R, p) # {}
    <3>1. 1 \in DOMAIN <<f>> /\ <<f>>[1] = f
      OBVIOUS
    <3>2. p.names = <<f>>
      BY <2>1 DEF Is
    <3>3. Closed(f)
      BY <2>4, <3>1, <3>2, PlainNames
    <3>4. StripSlash(f) = f
      BY <1>8, <1>11, <3>3, StripNothing DEF Unstripped, Closed
    <3>5. ParseSearch(f) = p
      BY <1>8, <1>11, <2>1, <3>3, <3>4 DEF ParseSearch, none, Closed
    <3>. QED  BY <1>8, <1>10, <1>11, <2>2, <3>3, <3>5
  <2>. QED  BY <1>7, <1>11, <2>2, <2>3, <2>4 DEF RoundTrips
<1>12. ASSUME r # none, q # none PROVE RoundTrips(R, x, p)
  <2>. DEFINE z == Append(f, "/") \o q
  <2>1. p = Is("SearchQuery", <<f, q>>)
    BY <1>5, <1>12 DEF ParseSearch, t, f, q, none
  <2>2. f \in Seq(R) /\ q \in Seq(R) /\ t = z /\ z \in Seq(R) /\ f \in Seq(R \ {"/"})
    BY <1>8, <1>12
  <2>3. Spelled(p) = Behind(under \o z)
    <3>1. Spelled(p) = Spelt(Behind(ns), <<f, q>>)
      BY <1>1, <2>1 DEF Spelled, Is
    <3>2. under \o f \in Seq(R)
      BY <1>3, <2>2 DEF under
    <3>3. SpeltOut(Behind(ns), f, q) /\ Joins(ns, f, q) /\ Joins(under \o f, q, q)
      BY <1>3, <1>4, <2>2, <3>2, SpeltTwo, Joining
    <3>4. Spelt(Behind(ns), <<f, q>>) = Append(Append(Behind(ns), "/") \o f, "/") \o q
      BY <3>3 DEF SpeltOut
    <3>5. /\ Append(Behind(ns), "/") \o f = Behind(under \o f)
          /\ Append(under \o f, "/") \o q = under \o z
      BY <3>3 DEF Joins, under
    <3>6. Append(Behind(under \o f), "/") \o q = Behind(Append(under \o f, "/") \o q)
      BY <3>3 DEF Joins
    <3>. QED  BY <3>1, <3>4, <3>5, <3>6
  <2>4. ASSUME Plain(p.names) PROVE Again(R, p) # {}
    <3>1. 2 \in DOMAIN <<f, q>> /\ <<f, q>>[2] = q
      OBVIOUS
    <3>2. p.names = <<f, q>>
      BY <2>1 DEF Is
    <3>3. Closed(q)
      BY <2>4, <3>1, <3>2, PlainNames
    <3>4. Closed(z)
      BY <2>2, <3>3, EndAfterSlash DEF EndsOf
    <3>5. First(z) = f /\ Rest(z) = q
      <4>1. CutInto(f, q)
        BY <2>2, CutParts
      <4>. QED  BY <4>1 DEF CutInto
    <3>. HIDE DEF z
    <3>6. StripSlash(z) = z
      BY <2>2, <3>4, StripNothing DEF Unstripped, Closed
    <3>7. ParseSearch(z) = p
      BY <1>12, <2>1, <3>4, <3>5, <3>6 DEF ParseSearch, Closed, none
    <3>. QED  BY <1>10, <2>2, <2>3, <3>4, <3>7
  <2>. HIDE DEF z
  <2>. QED  BY <1>7, <1>9, <1>12, <2>2, <2>3, <2>4 DEF RoundTrips
<1>. QED  BY <1>6, <1>11, <1>12

\* What is all in a set is all kept.
KeptWhole(seq, S) == Kept(seq, S) = seq
LEMMA KeptAll ==
    ASSUME NEW S, NEW seq \in Seq(S)
    PROVE  KeptWhole(seq, S)
<1>1. PICK f \in KeptRuns(S, seq, S) : TRUE
  BY KeptSteps
<1>2. /\ f[0] = <<>> /\ f[Len(seq)] = Kept(seq, S)
      /\ \A n \in 1..Len(seq) : f[n] = IF seq[n] \in S THEN Append(f[n - 1], seq[n]) ELSE f[n - 1]
  BY <1>1 DEF KeptRuns
<1>3. /\ Len(seq) \in Nat /\ \A n \in 1..Len(seq) : seq[n] \in S
      /\ Initial(seq, 0) = <<>> /\ Initial(seq, Len(seq)) = seq
      /\ \A n \in 0..(Len(seq) - 1) : Initial(seq, n + 1) = Append(Initial(seq, n), seq[n + 1])
  BY InitialGrows
<1>. DEFINE m == Len(seq)
            Good == { n \in 0..m : f[n] = Initial(seq, n) }
<1>. HIDE DEF m
<1>4. 0 \in Good
  BY <1>2, <1>3 DEF m
<1>5. \A n \in 0..(m - 1) : n \in Good => n + 1 \in Good
  <2>1. SUFFICES ASSUME NEW n \in 0..(m - 1), n \in Good PROVE n + 1 \in Good
    OBVIOUS
  <2>2. n + 1 \in 1..m /\ n + 1 \in 0..m /\ (n + 1) - 1 = n
    BY <1>3 DEF m
  <2>3. f[n + 1] = Append(f[n], seq[n + 1])
    BY <1>2, <1>3, <2>2 DEF m
  <2>. QED  BY <1>3, <2>1, <2>2, <2>3 DEF m
<1>. HIDE DEF Good
<1>6. \A n \in 0..m : n \in Good
  BY <1>3, <1>4, <1>5, StepsUpTo DEF m
<1>7. m \in 0..m
  BY <1>3 DEF m
<1>. QED  BY <1>2, <1>3, <1>6, <1>7 DEF Good, m, KeptWhole

\* The parts before the last have something in them.
Filled(parts) == \A i \in 1..(Len(parts) - 1) : parts[i] # <<>>
Tip(parts) == parts[Len(parts)]
Steps(parts, e, separator) ==
    LET next == SplitStep(parts, e, separator)
    IN  /\ e = separator /\ Tip(parts) # <<>> => Filled(next)
        /\ e # separator => Filled(next) /\ Tip(next) # <<>>
LEMMA FilledStep ==
    ASSUME NEW R, NEW parts \in Parts(R), Filled(parts), NEW e \in R, NEW separator
    PROVE  Steps(parts, e, separator)
<1>. DEFINE S == Seq(R)
            m == Len(parts)
            none == <<>>
            more == Append(parts, none)
            longer == Append(parts[m], e)
            other == [parts EXCEPT ![m] = longer]
<1>1. parts \in Seq(S) /\ none \in S /\ (parts # none => m >= 1) /\ parts # none
  BY DEF Parts
<1>2. m \in Nat /\ m >= 1
  BY <1>1
<1>3. longer \in S /\ longer # none
  <2>. HIDE DEF m
  <2>1. \A i \in 1..Len(parts) : parts[i] \in S
    BY <1>1
  <2>2. parts[m] \in S
    BY <1>2, <2>1 DEF m
  <2>. DEFINE l == parts[m]
  <2>3. l \in Seq(R)
    BY <2>2
  <2>. HIDE DEF l
  <2>. QED  BY <2>3 DEF l
<1>4. SplitStep(parts, e, separator) = IF e = separator THEN more ELSE other
  BY DEF SplitStep
<1>5. \A i \in 1..(m - 1) : parts[i] # none
  BY DEF Filled
<1>. HIDE DEF S, longer, none
<1>6. Len(more) = m + 1 /\ \A i \in 1..m : more[i] = parts[i]
  BY <1>1
<1>7. Len(other) = m /\ other[m] = longer /\ \A i \in 1..(m - 1) : other[i] = parts[i]
  BY <1>1, <1>2, <1>3
<1>. HIDE DEF more, other, m
<1>8. ASSUME parts[m] # none PROVE \A i \in 1..(Len(more) - 1) : more[i] # none
  <2>1. Len(more) - 1 = m /\ \A i \in 1..m : i = m \/ i \in 1..(m - 1)
    BY <1>2, <1>6
  <2>. QED  BY <1>5, <1>6, <1>8, <2>1
<1>9. (\A i \in 1..(Len(other) - 1) : other[i] # none) /\ other[Len(other)] # none
  BY <1>3, <1>5, <1>7
<1>. QED  BY <1>4, <1>8, <1>9 DEF Steps, Filled, Tip, m, none

\* A text without adjacent slashes, or one at an end, has no empty segment.
FullSegments(x) == \A i \in DOMAIN Segments(x) : Segments(x)[i] # <<>>
LEMMA NoEmptySegment ==
    ASSUME NEW R, NEW x \in Seq(R), Smooth(x)
    PROVE  FullSegments(x)
<1>1. PICK f \in SplitRuns(R, x, "/") : TRUE
  BY SplitSteps
<1>2. /\ f \in [0..Len(x) -> Parts(R)] /\ f[0] = << <<>> >> /\ f[Len(x)] = Segments(x)
      /\ \A n \in 1..Len(x) : f[n] = SplitStep(f[n - 1], x[n], "/")
  BY <1>1 DEF SplitRuns, Segments
<1>3. Len(x) \in Nat /\ \A n \in 1..Len(x) : x[n] \in R
  OBVIOUS
<1>. DEFINE m == Len(x)
            FullAt(n) == /\ Filled(f[n])
                         /\ n >= 1 /\ x[n] # "/" => Tip(f[n]) # <<>>
            Good == { n \in 0..m : FullAt(n) }
<1>4. /\ x # <<>> /\ x[1] # "/" /\ x[m] # "/"
      /\ \A n \in 1..(m - 1) : x[n] # "/" \/ x[n + 1] # "/"
  BY DEF Smooth
<1>. HIDE DEF m
<1>5. 0 \in Good
  <2>1. Len(f[0]) = 1
    BY <1>2
  <2>2. Filled(f[0])
    BY <2>1 DEF Filled
  <2>. QED  BY <1>3, <2>2 DEF m
<1>6. ASSUME NEW n \in 0..(m - 1), FullAt(n) PROVE FullAt(n + 1)
  <2>1. n + 1 \in 1..m /\ (n + 1) - 1 = n /\ n \in 0..m /\ n + 1 >= 1 /\ (n = 0 \/ n \in 1..(m - 1))
    BY <1>3 DEF m
  <2>2. f[n] \in Parts(R) /\ x[n + 1] \in R /\ f[n + 1] = SplitStep(f[n], x[n + 1], "/")
    BY <1>2, <1>3, <2>1 DEF m
  <2>3. Steps(f[n], x[n + 1], "/")
    BY <1>6, <2>2, FilledStep
  <2>4. ASSUME x[n + 1] = "/" PROVE Tip(f[n]) # <<>>
    <3>1. n >= 1 /\ n \in 1..(m - 1)
      BY <1>4, <2>1, <2>4
    <3>2. x[n] # "/"
      BY <1>4, <2>4, <3>1
    <3>. QED  BY <1>6, <3>1, <3>2
  <2>. QED  BY <2>2, <2>3, <2>4 DEF Steps
<1>. HIDE DEF FullAt
<1>7. \A n \in 0..(m - 1) : n \in Good => n + 1 \in Good
  <2>1. \A n \in 0..(m - 1) : n + 1 \in 0..m
    BY <1>3 DEF m
  <2>. QED  BY <1>6, <2>1
<1>. HIDE DEF Good
<1>8. \A n \in 0..m : n \in Good
  BY <1>3, <1>5, <1>7, StepsUpTo DEF m
<1>9. m \in 0..m /\ m >= 1
  <2>1. m \in Nat /\ (x # <<>> => m >= 1)
    BY <1>3 DEF m
  <2>. QED  BY <1>4, <2>1
<1>10. Filled(Segments(x)) /\ Tip(Segments(x)) # <<>>
  BY <1>2, <1>4, <1>8, <1>9 DEF Good, FullAt, m
<1>. DEFINE segments == Segments(x)
            S == Seq(R)
<1>11. segments \in Seq(S)
  BY SplitTyped DEF Segments, Parts
<1>. HIDE DEF S, segments
<1>12. \A i \in DOMAIN segments : i = Len(segments) \/ i \in 1..(Len(segments) - 1)
  BY <1>11
<1>. QED  BY <1>10, <1>12 DEF segments, Filled, Tip, FullSegments

\* What is left from the k-th element on.
LEMMA FromThere ==
    ASSUME NEW S, NEW s \in Seq(S), NEW n, n = Len(s), NEW k \in 1..(n + 1)
    PROVE  /\ SubSeq(s, k, n) \in Seq(S) /\ Len(SubSeq(s, k, n)) = (n - k) + 1
           /\ \A i \in 1..((n - k) + 1) : SubSeq(s, k, n)[i] = s[(i + k) - 1]
<1>1. n \in Nat
  OBVIOUS
<1>. DEFINE u == SubSeq(s, k, n)
<1>2. \A i \in k..n : s[i] \in S
  BY <1>1
<1>3. u \in Seq(S)
  BY <1>1, <1>2
<1>4. Len(u) = (n - k) + 1
  BY <1>1
<1>5. \A i \in 1..((n - k) + 1) : u[i] = s[(i + k) - 1]
  BY <1>1
<1>. QED  BY <1>3, <1>4, <1>5

\* A sequence is its first element, or its first two, and what is after.
Opens(s) ==
    /\ s # <<>> => s = <<s[1]>> \o SubSeq(s, 2, Len(s))
    /\ Len(s) >= 2 => s = <<s[1]>> \o (<<s[2]>> \o SubSeq(s, 3, Len(s)))
LEMMA FirstElements ==
    ASSUME NEW S, NEW s \in Seq(S)
    PROVE  Opens(s)
<1>. DEFINE n == Len(s)
            a == <<s[1]>>
            b == <<s[2]>>
            u == SubSeq(s, 2, n)
            v == SubSeq(s, 3, n)
            none == <<>>
<1>1. n \in Nat /\ (s # none => n >= 1)
  OBVIOUS
<1>2. ASSUME n >= 1 PROVE s = a \o u
  <2>1. u \in Seq(S) /\ Len(u) = n - 1 /\ \A i \in 1..(n - 1) : u[i] = s[i + 1]
    <3>1. 2 \in 1..(n + 1) /\ (n - 2) + 1 = n - 1 /\ \A i \in 1..(n - 1) : (i + 2) - 1 = i + 1
      <4>. HIDE DEF n
      <4>. QED  BY <1>1, <1>2
    <3>2. n = Len(s)
      OBVIOUS
    <3>. HIDE DEF n
    <3>. QED  BY <3>1, <3>2, FromThere
  <2>2. a \in Seq(S)
    BY <1>1, <1>2
  <2>. DEFINE w == a \o u
  <2>3. w \in Seq(S) /\ Len(w) = 1 + Len(u) /\ w[1] = s[1] /\ \A i \in 1..Len(u) : w[i + 1] = u[i]
    BY <2>1, <2>2
  <2>. HIDE DEF w, a, u, n
  <2>4. \A i \in 1..n : i = 1 \/ (i - 1 \in 1..(n - 1) /\ (i - 1) + 1 = i)
    BY <1>1, <1>2
  <2>5. \A i \in 1..n : w[i] = s[i]
    BY <2>1, <2>3, <2>4
  <2>6. w = s
    BY <1>1, <1>2, <2>1, <2>3, <2>5, SeqEqual DEF n
  <2>. QED  BY <2>6 DEF w
<1>3. ASSUME n >= 2 PROVE u = b \o v
  <2>1. v \in Seq(S) /\ Len(v) = n - 2 /\ \A i \in 1..(n - 2) : v[i] = s[i + 2]
    <3>1. 3 \in 1..(n + 1) /\ (n - 3) + 1 = n - 2 /\ \A i \in 1..(n - 2) : (i + 3) - 1 = i + 2
      <4>. HIDE DEF n
      <4>. QED  BY <1>1, <1>3
    <3>2. n = Len(s)
      OBVIOUS
    <3>. HIDE DEF n
    <3>. QED  BY <3>1, <3>2, FromThere
  <2>2. b \in Seq(S)
    BY <1>1, <1>3
  <2>3. u \in Seq(S) /\ Len(u) = n - 1 /\ \A i \in 1..(n - 1) : u[i] = s[i + 1]
    <3>1. 2 \in 1..(n + 1) /\ (n - 2) + 1 = n - 1 /\ \A i \in 1..(n - 1) : (i + 2) - 1 = i + 1
      <4>. HIDE DEF n
      <4>. QED  BY <1>1, <1>3
    <3>2. n = Len(s)
      OBVIOUS
    <3>. HIDE DEF n
    <3>. QED  BY <3>1, <3>2, FromThere
  <2>. DEFINE w == b \o v
  <2>4. w \in Seq(S) /\ Len(w) = 1 + Len(v) /\ w[1] = s[2] /\ \A i \in 1..Len(v) : w[i + 1] = v[i]
    BY <2>1, <2>2
  <2>. HIDE DEF w, b, v, u, n
  <2>5. \A i \in 1..(n - 1) : i = 1 \/ (i - 1 \in 1..(n - 2) /\ (i - 1) + 1 = i /\ (i - 1) + 2 = i + 1)
    BY <1>1, <1>3
  <2>6. \A i \in 1..(n - 1) : w[i] = u[i]
    <3>1. SUFFICES ASSUME NEW i \in 1..(n - 1) PROVE w[i] = u[i]
      OBVIOUS
    <3>2. CASE i = 1
      <4>1. 1 + 1 = 2
        OBVIOUS
      <4>. QED  BY <2>3, <2>4, <3>2, <4>1
    <3>3. CASE i # 1
      <4>1. i - 1 \in 1..(n - 2) /\ (i - 1) + 1 = i /\ (i - 1) + 2 = i + 1
        BY <2>5, <3>3
      <4>2. w[i] = v[i - 1] /\ v[i - 1] = s[i + 1]
        BY <2>1, <2>4, <4>1
      <4>. QED  BY <2>3, <4>2
    <3>. QED  BY <3>2, <3>3
  <2>7. Len(w) = n - 1
    BY <1>1, <1>3, <2>1, <2>4
  <2>8. w = u
    BY <2>3, <2>4, <2>6, <2>7, SeqEqual
  <2>. QED  BY <2>8 DEF w
<1>. HIDE DEF n, a, b, u, v
<1>4. n >= 2 => n >= 1
  BY <1>1
<1>5. s # none => s = a \o u
  BY <1>1, <1>2
<1>6. n >= 2 => s = a \o (b \o v)
  BY <1>2, <1>3, <1>4
<1>. QED  BY <1>5, <1>6 DEF Opens, n, a, b, u, v

\* The directories of the forms and the places of their kinds.
OneDir(f, d) == f.dir = <<d>> /\ Place(f.kind) = <<"/", "db", "/", d>>
TwoDirs(f, d, e) == f.dir = <<d, e>> /\ Place(f.kind) = <<"/", "db", "/", d, "/", e>>
Directories == {"vectors", "graphs", "nodes", "edges", "tables"}
LEMMA DbShapes ==
    ASSUME NEW f \in DbForms
    PROVE  /\ f.names \in Nat
           /\ \/ \E d \in Directories : OneDir(f, d)
              \/ \E d, e \in Directories : TwoDirs(f, d, e)
<1>2. f.names \in Nat
  BY DEF DbForms, Form
<1>3. \/ f.dir = <<"vectors">> /\ f.kind \in {"VectorRoot", "Collection"}
      \/ f.dir = <<"graphs">> /\ f.kind = "GraphRoot"
      \/ f.dir = <<"graphs", "nodes">> /\ f.kind \in {"GraphNodeRoot", "GraphNode"}
      \/ f.dir = <<"graphs", "edges">> /\ f.kind \in {"GraphEdgeRoot", "GraphEdge"}
      \/ f.dir = <<"tables">> /\ f.kind \in {"TableRoot", "Table", "View", "ViewEntry"}
  BY DEF DbForms, Form
<1>4. /\ \A k \in {"VectorRoot", "Collection"} : Place(k) = <<"/", "db", "/", "vectors">>
      /\ Place("GraphRoot") = <<"/", "db", "/", "graphs">>
      /\ \A k \in {"TableRoot", "Table", "View", "ViewEntry"} : Place(k) = <<"/", "db", "/", "tables">>
  BY DEF Place
<1>5. /\ \A k \in {"GraphNodeRoot", "GraphNode"} : Place(k) = <<"/", "db", "/", "graphs", "/", "nodes">>
      /\ \A k \in {"GraphEdgeRoot", "GraphEdge"} : Place(k) = <<"/", "db", "/", "graphs", "/", "edges">>
  BY DEF Place
<1>. QED  BY <1>2, <1>3, <1>4, <1>5 DEF OneDir, TwoDirs, Directories

\* A directory of the tree is a text of its own.
DirText(R, d) == d \in R /\ d # "/" /\ d # " "
KnownIn(R) == "/" \in R /\ "db" \in R /\ Directories \subseteq R
LEMMA DirectoryTexts ==
    ASSUME NEW R, KnownIn(R)
    PROVE  "/" \in R /\ DirText(R, "db") /\ \A d \in Directories : DirText(R, d)
  BY DEF KnownIn, DirText, Directories

\* A place and the names under it, and all the segments under /db.
Db == <<"/", "db">>
DbSpelt(f, segments, names) ==
    /\ Spelt(Place(f.kind), names) = Spelt(Db, segments)
    /\ segments # <<>> /\ segments[1] # <<>>
    /\ Plain(names) => Closed(Last(segments))

\* The end of a sequence is the end of its last part.
EndsWith(s, t) == s # <<>> /\ Last(s) = Last(t)
LEMMA LastOfBoth ==
    ASSUME NEW S, NEW s \in Seq(S), NEW t \in Seq(S), t # <<>>
    PROVE  EndsWith(s \o t, t)
<1>1. SameEnd(s \o t, t)
  BY EndOfBoth
<1>. QED  BY <1>1 DEF SameEnd, EndsWith, Last

\* One element more, by its elements.
LEMMA OneBehind ==
    ASSUME NEW R, NEW s \in Seq(R), NEW e \in R, NEW t \in Seq(R), Len(t) = Len(s) + 1,
           t[Len(s) + 1] = e, \A i \in 1..Len(s) : t[i] = s[i]
    PROVE  Append(s, e) = t
<1>. DEFINE n == Len(s)
            u == Append(s, e)
<1>1. n \in Nat
  OBVIOUS
<1>2. u \in Seq(R) /\ Len(u) = n + 1 /\ u[n + 1] = e /\ \A i \in 1..n : u[i] = s[i]
  OBVIOUS
<1>3. Len(t) = n + 1 /\ t[n + 1] = e /\ \A i \in 1..n : t[i] = s[i]
  OBVIOUS
<1>. HIDE DEF u, n
<1>4. \A i \in 1..(n + 1) : u[i] = t[i]
  BY <1>1, <1>2, <1>3
<1>5. u = t
  BY <1>1, <1>2, <1>3, <1>4, SeqEqual
<1>. QED  BY <1>5 DEF u

\* Writing a directory behind a place.
Lettered(a, b, d, e) ==
    /\ Append(<<a, b>>, a) \o <<d>> = <<a, b, a, d>>
    /\ Append(<<a, b, a, d>>, a) \o <<e>> = <<a, b, a, d, a, e>>
LEMMA Lettering ==
    ASSUME NEW R, NEW a \in R, NEW b \in R, NEW d \in R, NEW e \in R
    PROVE  Lettered(a, b, d, e)
<1>. DEFINE x == <<a, b, a>>
            y == <<a, b, a, d, a>>
            ab == <<a, b>>
            abad == <<a, b, a, d>>
            all == <<a, b, a, d, a, e>>
<1>0. /\ x \in Seq(R) /\ y \in Seq(R) /\ ab \in Seq(R) /\ abad \in Seq(R) /\ all \in Seq(R)
      /\ Len(ab) = 2 /\ Len(x) = 3 /\ Len(abad) = 4 /\ Len(y) = 5 /\ Len(all) = 6
  OBVIOUS
<1>1. Append(ab, a) = x /\ Append(x, d) = abad
  <2>1. /\ x[3] = a /\ \A i \in 1..2 : x[i] = ab[i]
        /\ abad[4] = d /\ \A i \in 1..3 : abad[i] = x[i]
    OBVIOUS
  <2>. HIDE DEF x, ab, abad, y, all
  <2>2. /\ Len(x) = Len(ab) + 1 /\ x[Len(ab) + 1] = a /\ \A i \in 1..Len(ab) : x[i] = ab[i]
        /\ Len(abad) = Len(x) + 1 /\ abad[Len(x) + 1] = d /\ \A i \in 1..Len(x) : abad[i] = x[i]
    BY <1>0, <2>1
  <2>3. Append(ab, a) = x
    BY <1>0, <2>2, OneBehind
  <2>4. Append(x, d) = abad
    BY <1>0, <2>2, OneBehind
  <2>. QED  BY <2>3, <2>4
<1>2. Append(abad, a) = y /\ Append(y, e) = all
  <2>1. /\ y[5] = a /\ \A i \in 1..4 : y[i] = abad[i]
        /\ all[6] = e /\ \A i \in 1..5 : all[i] = y[i]
    OBVIOUS
  <2>. HIDE DEF x, ab, abad, y, all
  <2>2. /\ Len(y) = Len(abad) + 1 /\ y[Len(abad) + 1] = a /\ \A i \in 1..Len(abad) : y[i] = abad[i]
        /\ Len(all) = Len(y) + 1 /\ all[Len(y) + 1] = e /\ \A i \in 1..Len(y) : all[i] = y[i]
    BY <1>0, <2>1
  <2>3. Append(abad, a) = y
    BY <1>0, <2>2, OneBehind
  <2>4. Append(y, e) = all
    BY <1>0, <2>2, OneBehind
  <2>. QED  BY <2>3, <2>4
<1>. HIDE DEF x, y
<1>3. OneMore(x, x, d) /\ OneMore(y, y, e)
  BY <1>0, OneMoreElement
<1>4. Append(x, d) = x \o <<d>> /\ Append(y, e) = y \o <<e>>
  BY <1>3 DEF OneMore
<1>5. Append(<<a, b>>, a) \o <<d>> = <<a, b, a, d>>
  BY <1>1, <1>4
<1>6. Append(<<a, b, a, d>>, a) \o <<e>> = <<a, b, a, d, a, e>>
  BY <1>2, <1>4
<1>. QED  BY <1>5, <1>6 DEF Lettered

\* A directory's text.
LEMMA NameOfDir ==
    ASSUME NEW R, NEW S, TextsOf(S, R), NEW d \in R
    PROVE  <<d>> \in S /\ <<d>> # <<>>
<1>1. <<d>> \in Seq(R) /\ <<d>> # <<>>
  OBVIOUS
<1>. QED  BY <1>1 DEF TextsOf

\* One directory, and names.
LEMMA OneDirSpelt ==
    ASSUME NEW R, KnownIn(R), NEW d, DirText(R, d), NEW f, OneDir(f, d), NEW S, TextsOf(S, R),
           NEW names \in Seq(S)
    PROVE  DbSpelt(f, << <<d>> >> \o names, names)
<1>. DEFINE t == <<d>>
            one == <<t>>
            segs == one \o names
            none == <<>>
<1>1. d \in R /\ d # "/" /\ d # " "
  BY DEF DirText
<1>2. "/" \in R /\ "db" \in R
  BY DEF KnownIn
<1>3. Db \in Seq(R) /\ Append(Db, "/") \o t = <<"/", "db", "/", d>>
  <2>1. Lettered("/", "db", d, d)
    BY <1>1, <1>2, Lettering
  <2>2. Db \in Seq(R)
    <3>1. ASSUME NEW a \in R, NEW b \in R PROVE <<a, b>> \in Seq(R)
      OBVIOUS
    <3>. QED  BY <1>2, <3>1 DEF Db
  <2>. QED  BY <2>1, <2>2 DEF Lettered, Db
<1>4. t \in S /\ t # <<>>
  BY <1>1, NameOfDir
<1>5. Closed(t)
  BY <1>1 DEF Closed
<1>. HIDE DEF t
<1>6. FirstName(Db, t, names)
  BY <1>2, <1>3, <1>4, SpeltFirst
<1>7. Spelt(Place(f.kind), names) = Spelt(Db, segs)
  BY <1>3, <1>6 DEF FirstName, OneDir
<1>8. one \in Seq(S) /\ one # none
  BY <1>4
<1>9. segs # none /\ segs[1] = t
  BY <1>4
<1>10. ASSUME names = none PROVE Last(segs) = t
  <2>1. segs = one
    BY <1>8, <1>10
  <2>2. Last(one) = t
    BY DEF Last
  <2>. QED  BY <2>1, <2>2
<1>11. ASSUME names # none PROVE Last(segs) = names[Len(names)] /\ Len(names) \in DOMAIN names
  <2>. HIDE DEF one
  <2>1. EndsWith(one \o names, names)
    BY <1>8, <1>11, LastOfBoth
  <2>2. names # none => Len(names) \in DOMAIN names
    OBVIOUS
  <2>. QED  BY <1>11, <2>1, <2>2 DEF EndsWith, Last
<1>. HIDE DEF segs
<1>12. Plain(names) => Closed(Last(segs))
  <2>1. SUFFICES ASSUME Plain(names) PROVE Closed(Last(segs))
    OBVIOUS
  <2>2. CASE names = none
    BY <1>5, <1>10, <2>2
  <2>3. CASE names # none
    BY <1>11, <2>1, <2>3, PlainNames
  <2>. QED  BY <2>2, <2>3
<1>. QED  BY <1>4, <1>7, <1>9, <1>12 DEF DbSpelt, segs, none, t

\* Two directories, and names.
LEMMA TwoDirsSpelt ==
    ASSUME NEW R, KnownIn(R), NEW d, DirText(R, d), NEW e, DirText(R, e), NEW f, TwoDirs(f, d, e),
           NEW S, TextsOf(S, R), NEW names \in Seq(S)
    PROVE  DbSpelt(f, << <<d>> >> \o (<< <<e>> >> \o names), names)
<1>. DEFINE t == <<d>>
            u == <<e>>
            one == <<t>>
            base == Append(Db, "/") \o t
            place == <<"/", "db", "/", d>>
            inner == <<u>> \o names
            segs == one \o inner
            none == <<>>
<1>1. d \in R /\ e \in R /\ d # "/" /\ d # " " /\ e # "/" /\ e # " "
  BY DEF DirText
<1>2. "/" \in R /\ "db" \in R
  BY DEF KnownIn
<1>3. Db \in Seq(R) /\ base = place /\ base \in Seq(R)
  <2>1. Lettered("/", "db", d, e)
    BY <1>1, <1>2, Lettering
  <2>2. Db \in Seq(R)
    <3>1. ASSUME NEW a \in R, NEW b \in R PROVE <<a, b>> \in Seq(R)
      OBVIOUS
    <3>. QED  BY <1>2, <3>1 DEF Db
  <2>3. place \in Seq(R)
    <3>1. ASSUME NEW a \in R, NEW b \in R, NEW c \in R PROVE <<a, b, a, c>> \in Seq(R)
      OBVIOUS
    <3>. QED  BY <1>1, <1>2, <3>1
  <2>4. base = place
    BY <2>1 DEF Lettered, Db
  <2>. QED  BY <2>2, <2>3, <2>4
<1>4. Append(place, "/") \o u = <<"/", "db", "/", d, "/", e>>
  <2>1. Lettered("/", "db", d, e)
    BY <1>1, <1>2, Lettering
  <2>. QED  BY <2>1 DEF Lettered
<1>5. t \in S /\ t # <<>> /\ u \in S
  BY <1>1, NameOfDir
<1>6. Closed(u)
  BY <1>1 DEF Closed
<1>7. Append(base, "/") \o u = <<"/", "db", "/", d, "/", e>>
  BY <1>3, <1>4
<1>. HIDE DEF t, u, base, place
<1>8. inner \in Seq(S)
  BY <1>5
<1>9. FirstName(base, u, names)
  BY <1>2, <1>3, <1>5, SpeltFirst
<1>10. Spelt(Place(f.kind), names) = Spelt(base, inner)
  BY <1>7, <1>9 DEF FirstName, TwoDirs
<1>11. inner # none
  BY <1>5
<1>12. ASSUME names = none PROVE Last(inner) = u
  <2>1. inner = <<u>>
    BY <1>5, <1>12
  <2>2. Last(<<u>>) = u
    BY DEF Last
  <2>. QED  BY <2>1, <2>2
<1>13. ASSUME names # none PROVE Last(inner) = names[Len(names)] /\ Len(names) \in DOMAIN names
  <2>1. <<u>> \in Seq(S)
    BY <1>5
  <2>2. EndsWith(<<u>> \o names, names)
    BY <1>13, <2>1, LastOfBoth
  <2>3. names # none => Len(names) \in DOMAIN names
    OBVIOUS
  <2>. QED  BY <1>13, <2>2, <2>3 DEF EndsWith, Last
<1>. HIDE DEF inner
<1>14. FirstName(Db, t, inner)
  BY <1>2, <1>3, <1>5, <1>8, SpeltFirst
<1>15. Spelt(Place(f.kind), names) = Spelt(Db, segs)
  BY <1>10, <1>14 DEF FirstName, base
<1>16. segs # none /\ segs[1] = t
  BY <1>5, <1>8
<1>17. Last(segs) = Last(inner)
  <2>1. one \in Seq(S)
    BY <1>5
  <2>. HIDE DEF one
  <2>2. EndsWith(one \o inner, inner)
    BY <1>8, <1>11, <2>1, LastOfBoth
  <2>. QED  BY <2>2 DEF EndsWith
<1>. HIDE DEF segs
<1>18. Plain(names) => Closed(Last(segs))
  <2>1. SUFFICES ASSUME Plain(names) PROVE Closed(Last(segs))
    OBVIOUS
  <2>2. CASE names = none
    BY <1>6, <1>12, <1>17, <2>2
  <2>3. CASE names # none
    BY <1>13, <1>17, <2>1, <2>3, PlainNames
  <2>. QED  BY <2>2, <2>3
<1>. QED  BY <1>5, <1>15, <1>16, <1>18 DEF DbSpelt, segs, inner, none, t, u

\* What fits a form is its directories and the names.
Fits(f, segments) ==
    /\ Len(segments) = Len(f.dir) + f.names
    /\ \A i \in DOMAIN f.dir : segments[i] = <<f.dir[i]>>

(* No two patterns of parse_db fit the same segments: the order of its     *)
(* arms does not matter, and ParseDb has one form to choose from.          *)
THEOREM OneFormFits ==
    ASSUME NEW S, NEW segments \in Seq(S), NEW f \in DbForms, NEW g \in DbForms,
           Fits(f, segments), Fits(g, segments)
    PROVE  f = g
<1>. DEFINE n == Len(segments)
            a == segments[1]
            b == segments[2]
            At(h, dir, m, kind) == h.dir = dir /\ h.names = m /\ h.kind = kind
            One(h, d, m, kind) == At(h, <<d>>, m, kind) /\ n = m + 1 /\ a = <<d>>
            Two(h, d, e, m, kind) == At(h, <<d, e>>, m, kind) /\ n = m + 2 /\ a = <<d>> /\ b = <<e>>
            Known(h) ==
                \/ One(h, "vectors", 0, "VectorRoot") \/ One(h, "vectors", 1, "Collection")
                \/ One(h, "graphs", 0, "GraphRoot")
                \/ Two(h, "graphs", "nodes", 0, "GraphNodeRoot")
                \/ Two(h, "graphs", "edges", 0, "GraphEdgeRoot")
                \/ Two(h, "graphs", "nodes", 1, "GraphNode")
                \/ Two(h, "graphs", "edges", 1, "GraphEdge")
                \/ One(h, "tables", 0, "TableRoot") \/ One(h, "tables", 1, "Table")
                \/ One(h, "tables", 2, "View") \/ One(h, "tables", 3, "ViewEntry")
<1>1. ASSUME NEW h \in DbForms, Fits(h, segments) PROVE Known(h) /\ h = Form(h.dir, h.names, h.kind)
  <2>1. \/ At(h, <<"vectors">>, 0, "VectorRoot") \/ At(h, <<"vectors">>, 1, "Collection")
        \/ At(h, <<"graphs">>, 0, "GraphRoot")
        \/ At(h, <<"graphs", "nodes">>, 0, "GraphNodeRoot")
        \/ At(h, <<"graphs", "edges">>, 0, "GraphEdgeRoot")
        \/ At(h, <<"graphs", "nodes">>, 1, "GraphNode")
        \/ At(h, <<"graphs", "edges">>, 1, "GraphEdge")
        \/ At(h, <<"tables">>, 0, "TableRoot") \/ At(h, <<"tables">>, 1, "Table")
        \/ At(h, <<"tables">>, 2, "View") \/ At(h, <<"tables">>, 3, "ViewEntry")
    BY DEF DbForms, Form
  <2>2. h = Form(h.dir, h.names, h.kind)
    BY DEF DbForms, Form
  <2>3. ASSUME NEW d, NEW m, NEW kind, At(h, <<d>>, m, kind), m \in Nat PROVE One(h, d, m, kind)
    <3>1. h.dir = <<d>> /\ Len(h.dir) = 1 /\ 1 \in DOMAIN h.dir /\ h.dir[1] = d
      BY <2>3
    <3>. QED  BY <1>1, <2>3, <3>1 DEF Fits
  <2>4. ASSUME NEW d, NEW e, NEW m, NEW kind, At(h, <<d, e>>, m, kind), m \in Nat
        PROVE  Two(h, d, e, m, kind)
    <3>1. /\ h.dir = <<d, e>> /\ Len(h.dir) = 2 /\ 1 \in DOMAIN h.dir /\ h.dir[1] = d
          /\ 2 \in DOMAIN h.dir /\ h.dir[2] = e
      BY <2>4
    <3>. QED  BY <1>1, <2>4, <3>1 DEF Fits
  <2>. HIDE DEF At, One, Two
  <2>. QED  BY <2>1, <2>2, <2>3, <2>4
<1>2. \A d, e : <<d>> = <<e>> => d = e
  OBVIOUS
<1>3. ASSUME NEW d, NEW m \in Nat, NEW j, NEW e, NEW k \in Nat, NEW l, One(f, d, m, j), One(g, e, k, l)
      PROVE  d = e /\ m = k
  BY <1>2, <1>3
<1>4. ASSUME NEW d, NEW x, NEW m \in Nat, NEW j, NEW e, NEW y, NEW k \in Nat, NEW l,
             Two(f, d, x, m, j), Two(g, e, y, k, l)
      PROVE  d = e /\ x = y /\ m = k
  BY <1>2, <1>4
<1>5. ASSUME NEW h, NEW i, NEW d, NEW m, NEW j, NEW e, NEW y, NEW k, NEW l,
             One(h, d, m, j), Two(i, e, y, k, l)
      PROVE  d = e /\ m + 1 = k + 2
  BY <1>2, <1>5
<1>6. Known(f) /\ Known(g)
  BY <1>1
<1>. HIDE DEF One, Two, a, b, n
<1>7. \A h : \A d, m, kind : One(h, d, m, kind) => At(h, <<d>>, m, kind)
  BY DEF One
<1>8. \A h : \A d, e, m, kind : Two(h, d, e, m, kind) => At(h, <<d, e>>, m, kind)
  BY DEF Two
<1>9. f.dir = g.dir /\ f.names = g.names /\ f.kind = g.kind
  BY <1>3, <1>4, <1>5, <1>6, <1>7, <1>8
<1>. QED  BY <1>1, <1>9

\* What fits is a place, and names.
NamesIn(f, segments) == SubSeq(segments, Len(f.dir) + 1, Len(segments))
LEMMA DbSegments ==
    ASSUME NEW R, KnownIn(R), NEW S, TextsOf(S, R), NEW segments \in Seq(S),
           NEW f \in DbForms, Fits(f, segments)
    PROVE  DbSpelt(f, segments, NamesIn(f, segments)) /\ NamesIn(f, segments) \in Seq(S)
<1>. DEFINE n == Len(segments)
            none == <<>>
<1>1. n = Len(f.dir) + f.names /\ f.names \in Nat /\ \A i \in DOMAIN f.dir : segments[i] = <<f.dir[i]>>
  BY DbShapes DEF Fits
<1>2. /\ segments # none => segments = <<segments[1]>> \o SubSeq(segments, 2, n)
      /\ n >= 2 => segments = <<segments[1]>> \o (<<segments[2]>> \o SubSeq(segments, 3, n))
  BY FirstElements DEF Opens
<1>3. n \in Nat /\ (n >= 1 => segments # none)
  OBVIOUS
<1>. HIDE DEF n, none
<1>4. ASSUME NEW d \in Directories, OneDir(f, d)
      PROVE  DbSpelt(f, segments, NamesIn(f, segments)) /\ NamesIn(f, segments) \in Seq(S)
  <2>1. f.dir = <<d>> /\ Len(f.dir) = 1 /\ 1 \in DOMAIN f.dir /\ f.dir[1] = d
    BY <1>4 DEF OneDir
  <2>2. segments[1] = <<d>>
    BY <1>1, <2>1
  <2>3. Len(f.dir) + 1 = 2 /\ n >= 1 /\ 2 \in 1..(n + 1)
    BY <1>1, <1>3, <2>1
  <2>. DEFINE names == SubSeq(segments, 2, n)
  <2>4. names = NamesIn(f, segments)
    BY <2>3 DEF NamesIn, n
  <2>5. names \in Seq(S)
    BY <2>3, FromThere DEF n
  <2>. HIDE DEF names
  <2>6. segments = << <<d>> >> \o names
    BY <1>2, <1>3, <2>2, <2>3 DEF names
  <2>7. DbSpelt(f, << <<d>> >> \o names, names)
    BY <1>4, <2>5, OneDirSpelt, DirectoryTexts
  <2>. QED  BY <2>4, <2>5, <2>6, <2>7
<1>5. ASSUME NEW d \in Directories, NEW e \in Directories, TwoDirs(f, d, e)
      PROVE  DbSpelt(f, segments, NamesIn(f, segments)) /\ NamesIn(f, segments) \in Seq(S)
  <2>1. /\ f.dir = <<d, e>> /\ Len(f.dir) = 2
        /\ 1 \in DOMAIN f.dir /\ f.dir[1] = d /\ 2 \in DOMAIN f.dir /\ f.dir[2] = e
    BY <1>5 DEF TwoDirs
  <2>2. segments[1] = <<d>> /\ segments[2] = <<e>>
    BY <1>1, <2>1
  <2>3. Len(f.dir) + 1 = 3 /\ n >= 2 /\ 3 \in 1..(n + 1)
    BY <1>1, <1>3, <2>1
  <2>. DEFINE names == SubSeq(segments, 3, n)
  <2>4. names = NamesIn(f, segments)
    BY <2>3 DEF NamesIn, n
  <2>5. names \in Seq(S)
    BY <2>3, FromThere DEF n
  <2>. HIDE DEF names
  <2>6. segments = << <<d>> >> \o (<< <<e>> >> \o names)
    BY <1>2, <2>2, <2>3 DEF names
  <2>7. DbSpelt(f, << <<d>> >> \o (<< <<e>> >> \o names), names)
    BY <1>5, <2>5, TwoDirsSpelt, DirectoryTexts
  <2>. QED  BY <2>4, <2>5, <2>6, <2>7
<1>. QED  BY <1>4, <1>5, DbShapes

\* ParseDb by the segments that have something in them.
FormsOf(segments) == { f \in DbForms : Fits(f, segments) }
DbOf(segments) ==
    IF FormsOf(segments) = {} THEN Invalid
    ELSE LET f == CHOOSE g \in FormsOf(segments) : TRUE
         IN  Is(f.kind, NamesIn(f, segments))
FullOf(r) == Kept(Segments(r), Range(Segments(r)) \ {<<>>})
LEMMA ParseDbIs ==
    ASSUME NEW r, r # <<>>
    PROVE  ParseDb(r) = DbOf(FullOf(r))
<1>. DEFINE segments == FullOf(r)
            fitting == { f \in DbForms :
                            /\ Len(segments) = Len(f.dir) + f.names
                            /\ \A i \in DOMAIN f.dir : segments[i] = <<f.dir[i]>> }
            g == CHOOSE h \in fitting : TRUE
<1>1. FormsOf(segments) = fitting
  BY DEF FormsOf, Fits
<1>2. ParseDb(r) = IF fitting = {} THEN Invalid
                   ELSE Is(g.kind, SubSeq(segments, Len(g.dir) + 1, Len(segments)))
  BY DEF ParseDb, FullOf
<1>. HIDE DEF segments, fitting
<1>3. DbOf(segments) = IF fitting = {} THEN Invalid ELSE Is(g.kind, NamesIn(g, segments))
  BY <1>1 DEF DbOf
<1>. HIDE DEF g
<1>4. ParseDb(r) = DbOf(segments)
  BY <1>2, <1>3 DEF NamesIn
<1>. QED  BY <1>4 DEF segments

\* They are the segments that are left, none has a slash, and where all have
\* something in them they are all.
FullParts(T, segments) == segments \in Seq(T) /\ \A i \in DOMAIN segments : segments[i] # <<>>
LEMMA FullOfIs ==
    ASSUME NEW R, NEW r \in Seq(R), NEW T, TextsOf(T, R \ {"/"})
    PROVE  /\ FullParts(T, FullOf(r))
           /\ (\A i \in DOMAIN Segments(r) : Segments(r)[i] # <<>>) => FullOf(r) = Segments(r)
<1>. DEFINE segments == Segments(r)
            none == <<>>
            K == Range(segments) \ {none}
<1>1. segments \in Seq(T)
  BY SplitParts DEF Parts, TextsOf, Segments
<1>2. FullOf(r) = Kept(segments, K)
  BY DEF FullOf
<1>. HIDE DEF segments, none
<1>3. Range(segments) \subseteq T
  BY <1>1 DEF Range
<1>4. Kept(segments, K) \in Seq(K)
  <2>. HIDE DEF K
  <2>. QED  BY <1>1, KeptWithin
<1>5. FullParts(T, FullOf(r))
  <2>. DEFINE full == FullOf(r)
  <2>1. full \in Seq(K) /\ K \subseteq T /\ \A e \in K : e # none
    BY <1>2, <1>3, <1>4
  <2>. HIDE DEF full, K
  <2>2. full \in Seq(T) /\ \A i \in DOMAIN full : full[i] \in K
    BY <2>1
  <2>. QED  BY <2>1, <2>2 DEF FullParts, full, none
<1>6. ASSUME \A i \in DOMAIN segments : segments[i] # none PROVE FullOf(r) = segments
  <2>1. \A i \in DOMAIN segments : segments[i] \in K
    BY <1>1, <1>6 DEF Range
  <2>. HIDE DEF K
  <2>2. segments \in Seq(K)
    BY <1>1, <2>1
  <2>3. KeptWhole(segments, K)
    BY <2>2, KeptAll
  <2>. QED  BY <1>2, <2>3 DEF KeptWhole
<1>. QED  BY <1>5, <1>6 DEF segments, none

\* What is behind the first slash is as smooth as the whole.
LEMMA SmoothRest ==
    ASSUME NEW R, "/" \in R, NEW a \in Seq(R), NEW b \in Seq(R), Smooth(Append(a, "/") \o b)
    PROVE  Smooth(b)
<1>. DEFINE s == Append(a, "/")
            x == s \o b
            n == Len(s)
            m == Len(b)
<1>1. b # <<>> /\ b[m] # "/"
  BY EndAfterSlash DEF EndsOf
<1>2. s \in Seq(R) /\ n \in Nat /\ m \in Nat /\ s[n] = "/" /\ n >= 1 /\ (b # <<>> => m >= 1)
  OBVIOUS
<1>. HIDE DEF s
<1>3. Len(x) = n + m /\ (\A i \in 1..m : x[n + i] = b[i]) /\ (\A i \in 1..n : x[i] = s[i])
  BY <1>2
<1>4. \A i \in 1..(Len(x) - 1) : x[i] # "/" \/ x[i + 1] # "/"
  BY DEF Smooth, s
<1>. HIDE DEF x, n, m
<1>5. /\ n \in 1..n /\ n \in 1..(Len(x) - 1) /\ 1 \in 1..m
      /\ \A i \in 1..(m - 1) : /\ n + i \in 1..(Len(x) - 1) /\ (n + i) + 1 = n + (i + 1)
                               /\ i \in 1..m /\ i + 1 \in 1..m
  BY <1>1, <1>2, <1>3
<1>6. b[1] # "/"
  BY <1>2, <1>3, <1>4, <1>5
<1>7. ASSUME NEW i \in 1..(m - 1) PROVE b[i] # "/" \/ b[i + 1] # "/"
  BY <1>3, <1>4, <1>5
<1>. QED  BY <1>1, <1>6, <1>7 DEF Smooth, m

\* What is written behind a text is read as the text and the segments.
ReadBack(R, base, segments) ==
    LET y == Spelt(base, segments)
    IN  y \in Seq(R) /\ First(y) = base /\ Segments(Rest(y)) = segments /\ Rest(y) # <<>>
LEMMA ReadingBack ==
    ASSUME NEW R, "/" \in R, NEW T, TextsOf(T, R \ {"/"}), NEW base \in T,
           NEW segments \in Seq(T), segments # <<>>, segments[1] # <<>>
    PROVE  ReadBack(R, base, segments)
<1>. DEFINE P == R \ {"/"}
            S == Seq(R)
            y == Spelt(base, segments)
            one == <<base>>
            none == <<>>
<1>1. "/" \notin P /\ P \subseteq R /\ R = P \cup {"/"}
  OBVIOUS
<1>2. T = Seq(P)
  BY DEF TextsOf
<1>3. T \subseteq S
  <2>. HIDE DEF P
  <2>. QED  BY <1>1, <1>2
<1>4. base \in Seq(R) /\ segments \in Seq(S) /\ TextsOf(S, R)
  <2>1. segments \in Seq(S)
    <3>. HIDE DEF S
    <3>. QED  BY <1>3
  <2>. QED  BY <1>3, <2>1 DEF TextsOf
<1>. HIDE DEF P, S
<1>5. SpeltAlong(R, base, segments)
  BY <1>4, SpeltGrows
<1>6. y \in Seq(R)
  BY <1>5, NamesGrow DEF SpeltAlong
<1>7. SplitAgain(base, segments)
  <2>1. TextsOf(T, P)
    BY DEF P
  <2>. QED  BY <1>1, <2>1, SpeltSplits
<1>8. Segments(y) = one \o segments
  BY <1>7 DEF SplitAgain
<1>9. one \in Seq(T) /\ one # none /\ Len(one) = 1 /\ one[1] = base
  OBVIOUS
<1>. HIDE DEF y
<1>10. Slashes(y) # {}
  <2>1. Slashes(y) = {} => Segments(y) = <<y>>
    BY <1>6, FirstAndRest DEF Unslashed
  <2>2. Len(one \o segments) # 1
    <3>1. Len(segments) \in Nat /\ (segments # none => Len(segments) >= 1)
      OBVIOUS
    <3>2. Len(one \o segments) = 1 + Len(segments)
      BY <1>9
    <3>. HIDE DEF one
    <3>. QED  BY <3>1, <3>2
  <2>3. Len(<<y>>) = 1
    OBVIOUS
  <2>. HIDE DEF one
  <2>. QED  BY <1>8, <2>1, <2>2, <2>3
<1>11. PICK c \in Pieces(R) : CutHere(y, c)
  BY <1>6, <1>10, FirstAndRest
<1>12. /\ c.first \in Seq(P) /\ c.rest \in Seq(R)
       /\ Segments(y) = <<c.first>> \o Segments(c.rest) /\ First(y) = c.first /\ Rest(y) = c.rest
  BY <1>11 DEF CutHere, Pieces, P
<1>. DEFINE more == Segments(c.rest)
            f == c.first
<1>13. more \in Seq(T)
  <2>1. more \in Parts(R \ {"/"})
    BY <1>12, SplitParts DEF Segments
  <2>. QED  BY <2>1 DEF Parts, TextsOf
<1>14. f \in T
  BY <1>2, <1>12
<1>15. one \o segments = <<f>> \o more
  BY <1>8, <1>12
<1>. HIDE DEF more, f
<1>16. Head(one \o segments) = base /\ Tail(one \o segments) = segments
  OBVIOUS
<1>17. Head(<<f>> \o more) = f /\ Tail(<<f>> \o more) = more
  BY <1>13, <1>14
<1>. HIDE DEF one
<1>18. f = base /\ more = segments
  BY <1>15, <1>16, <1>17
<1>19. c.rest # <<>>
  <2>1. c.rest = <<>> => more = << <<>> >>
    <3>1. Segments(<<>>) = << <<>> >>
      <4>1. <<>> \in T
        BY <1>2
      <4>. QED  BY <1>1, <4>1, WithoutSlash DEF P
    <3>. QED  BY <3>1 DEF more
  <2>. QED  BY <1>18, <2>1
<1>. QED  BY <1>6, <1>12, <1>18, <1>19 DEF ReadBack, y, more, f

\* The kinds under /db.
DbPlace(ns) ==
    /\ Behind(ns) = Db
    /\ Place("DbRoot") = Db
    /\ \A y : First(y) = ns => Named(y) = ParseDb(Rest(y))
    /\ Closed(ns)
LEMMA DbRootRoundTrips ==
    ASSUME NEW R, "/" \in R, NEW x \in Seq(R), NEW ns, DbPlace(ns), First(x) = ns, Rest(x) = <<>>
    PROVE  RoundTrips(R, x, Named(x))
<1>. DEFINE p == Named(x)
            none == <<>>
<1>1. Behind(ns) = Db /\ Place("DbRoot") = Db /\ Closed(ns)
  BY DEF DbPlace
<1>2. \A y : First(y) = ns /\ Rest(y) = <<>> => Named(y) = Is("DbRoot", <<>>)
  BY DEF DbPlace, ParseDb
<1>3. /\ ns \in Seq(R \ {"/"})
      /\ x = ns \/ x = Append(ns, "/") \o none
  BY Divides DEF Divided
<1>4. ns \in Seq(R) /\ First(ns) = ns /\ Rest(ns) = none
  BY <1>3, OnlyFirst
<1>5. p = Is("DbRoot", <<>>) /\ Named(ns) = p
  BY <1>2, <1>4
<1>6. Spelled(p) = Behind(ns)
  <2>1. Spelled(p) = Spelt(Db, <<>>)
    BY <1>1, <1>5 DEF Spelled, Is
  <2>2. Behind(ns) \in Seq(R)
    BY <1>4, BehindSlash
  <2>3. SpeltOut(Db, ns, ns)
    BY <1>1, <1>4, <2>2, SpeltTwo
  <2>. QED  BY <1>1, <2>1, <2>3 DEF SpeltOut
<1>7. ASSUME Smooth(x) PROVE x = ns
  <2>1. none \in Seq(R)
    OBVIOUS
  <2>2. x = Append(ns, "/") \o none => none # <<>>
    BY <1>4, <1>7, <2>1, EndAfterSlash DEF EndsOf
  <2>. QED  BY <1>3, <2>2
<1>8. Again(R, p) # {}
  BY <1>1, <1>4, <1>5, <1>6 DEF Again
<1>. QED  BY <1>6, <1>7, <1>8 DEF RoundTrips

\* What is under it.
LEMMA DbRoundTrips ==
    ASSUME NEW R, KnownIn(R), NEW x \in Seq(R), NEW ns, DbPlace(ns), First(x) = ns,
           Rest(x) # <<>>, Named(x) # Invalid
    PROVE  RoundTrips(R, x, Named(x))
<1>. DEFINE r == Rest(x)
            p == Named(x)
            T == Seq(R \ {"/"})
            S == Seq(R)
            full == FullOf(r)
            f == CHOOSE g \in FormsOf(full) : TRUE
            names == NamesIn(f, full)
            y == Spelt(ns, full)
<1>1. "/" \in R /\ TextsOf(T, R \ {"/"}) /\ TextsOf(S, R)
  BY DEF KnownIn, TextsOf
<1>2. Behind(ns) = Db /\ Closed(ns)
  BY DEF DbPlace
<1>3. p = ParseDb(r) /\ \A z : First(z) = ns => Named(z) = ParseDb(Rest(z))
  BY DEF DbPlace
<1>4. ns \in T /\ r \in Seq(R) /\ (x = Append(ns, "/") \o r)
  BY Divides DEF Divided
<1>5. ns \in Seq(R) /\ T \subseteq S
  <2>. DEFINE P == R \ {"/"}
  <2>1. ns \in Seq(P) /\ P \subseteq R /\ T = Seq(P)
    BY <1>4
  <2>. HIDE DEF P, T
  <2>. QED  BY <2>1
<1>. HIDE DEF T, S, r
<1>6. /\ FullParts(T, full)
      /\ (\A i \in DOMAIN Segments(r) : Segments(r)[i] # <<>>) => full = Segments(r)
  BY <1>1, <1>4, FullOfIs
<1>7. full \in Seq(T) /\ full \in Seq(S) /\ \A i \in DOMAIN full : full[i] # <<>>
  <2>1. full \in Seq(T) /\ \A i \in DOMAIN full : full[i] # <<>>
    BY <1>6 DEF FullParts
  <2>. HIDE DEF full
  <2>. QED  BY <1>5, <2>1
<1>. HIDE DEF full
<1>8. p = DbOf(full)
  BY <1>3, ParseDbIs DEF full, r
<1>9. p = Is(f.kind, names) /\ f \in DbForms /\ Fits(f, full)
  <2>1. FormsOf(full) # {}
    BY <1>8 DEF DbOf
  <2>2. f \in FormsOf(full)
    BY <2>1
  <2>. HIDE DEF f
  <2>3. f \in DbForms /\ Fits(f, full)
    BY <2>2 DEF FormsOf
  <2>4. DbOf(full) = Is(f.kind, names)
    BY <2>1 DEF DbOf, f
  <2>. QED  BY <1>8, <2>3, <2>4
<1>. HIDE DEF f
<1>10. DbSpelt(f, full, names)
  BY <1>1, <1>7, <1>9, DbSegments
<1>. HIDE DEF names
<1>11. /\ Spelt(Place(f.kind), names) = Spelt(Db, full)
       /\ full # <<>> /\ full[1] # <<>>
       /\ Plain(names) => Closed(Last(full))
  BY <1>10 DEF DbSpelt
<1>12. Spelled(p) = Behind(y)
  <2>1. Spelled(p) = Spelt(Db, full)
    BY <1>9, <1>11 DEF Spelled, Is
  <2>2. <<"/">> \in Seq(R)
    BY <1>1
  <2>3. InFront(<<"/">>, ns, full)
    BY <1>1, <1>5, <1>7, <2>2, SpeltAfter
  <2>. QED  BY <1>2, <2>1, <2>3 DEF InFront, Behind
<1>13. ASSUME Smooth(x) PROVE Spelled(p) = Behind(x)
  <2>1. Smooth(r)
    BY <1>1, <1>4, <1>5, <1>13, SmoothRest
  <2>2. FullSegments(r)
    BY <1>4, <2>1, NoEmptySegment
  <2>3. full = Segments(r)
    BY <1>6, <2>2 DEF FullSegments
  <2>4. SpeltBack(ns, r)
    BY <1>1, <1>4, <1>5, SpeltSegments
  <2>5. y = x
    BY <1>4, <2>3, <2>4 DEF SpeltBack
  <2>. QED  BY <1>12, <2>5
<1>14. ReadBack(R, ns, full)
  BY <1>1, <1>4, <1>7, <1>11, ReadingBack
<1>15. y \in Seq(R) /\ First(y) = ns /\ Segments(Rest(y)) = full /\ Rest(y) # <<>>
  BY <1>14 DEF ReadBack
<1>16. ASSUME Plain(p.names) PROVE Again(R, p) # {}
  <2>1. Closed(Last(full))
    BY <1>9, <1>11, <1>16 DEF Is
  <2>2. Closed(y)
    <3>1. Last(full) # <<>>
      BY <2>1 DEF Closed
    <3>2. EndsAlike(Spelt(ns, full), Last(full))
      BY <1>1, <1>5, <1>7, <1>11, <3>1, SpeltLast
    <3>. QED  BY <2>1, <3>2 DEF EndsAlike, Closed, Last
  <2>. DEFINE s == Rest(y)
  <2>3. s \in Seq(R)
    BY <1>15, Divides DEF Divided
  <2>4. Named(y) = ParseDb(s) /\ s # <<>>
    BY <1>3, <1>15
  <2>5. Segments(s) = full
    BY <1>15
  <2>. HIDE DEF s, y
  <2>6. FullOf(s) = full
    BY <1>1, <1>7, <2>3, <2>5, FullOfIs
  <2>7. Named(y) = p
    BY <1>8, <2>4, <2>6, ParseDbIs
  <2>. QED  BY <1>12, <1>15, <2>2, <2>7 DEF Again
<1>. QED  BY <1>13, <1>16 DEF RoundTrips

\* Two texts of one symbol.
LEMMA TwoLetters ==
    ASSUME NEW b, NEW a
    PROVE  <<b>> \o <<a>> = <<b, a>>
<1>. DEFINE R == {a, b}
            s == <<b>>
            t == <<b, a>>
<1>1. s \in Seq(R) /\ t \in Seq(R) /\ a \in R
  OBVIOUS
<1>2. Len(s) = 1 /\ Len(t) = 2 /\ t[2] = a /\ t[1] = s[1]
  OBVIOUS
<1>. HIDE DEF R, s, t
<1>3. Append(s, a) = t
  <2>1. Len(t) = Len(s) + 1 /\ t[Len(s) + 1] = a /\ \A i \in 1..Len(s) : t[i] = s[i]
    BY <1>2
  <2>. QED  BY <1>1, <2>1, OneBehind
<1>4. OneMore(s, s, a)
  BY <1>1, OneMoreElement
<1>5. s \o <<a>> = t
  BY <1>3, <1>4 DEF OneMore
<1>. QED  BY <1>5 DEF s, t

\* The five namespaces.
LEMMA AllNamespaces ==
    /\ DbPlace(<<"db">>)
    /\ SearchPlace(<<"search">>)
    /\ Namespaces("Result", <<"results">>)
    /\ Namespaces("Tmp", <<"tmp">>)
    /\ Namespaces("Symlink", <<"links">>)
<1>1. \A a : <<"/">> \o <<a>> = <<"/", a>>
  BY TwoLetters
<1>2. /\ Behind(<<"db">>) = <<"/", "db">> /\ Behind(<<"search">>) = <<"/", "search">>
      /\ Behind(<<"results">>) = <<"/", "results">> /\ Behind(<<"tmp">>) = <<"/", "tmp">>
      /\ Behind(<<"links">>) = <<"/", "links">>
  BY <1>1 DEF Behind
<1>3. /\ Place("DbRoot") = <<"/", "db">> /\ Place("Result") = <<"/", "results">>
      /\ Place("Tmp") = <<"/", "tmp">> /\ Place("Symlink") = <<"/", "links">>
      /\ \A kind \in {"SearchRoot", "SearchCollection", "SearchQuery"} :
            Place(kind) = <<"/", "search">>
  BY DEF Place
<1>4. ASSUME NEW a, NEW b, <<a>> = <<b>> PROVE a = b
  <2>1. <<a>>[1] = a /\ <<b>>[1] = b
    OBVIOUS
  <2>. QED  BY <1>4, <2>1
<1>5. \A y : First(y) = <<"db">> => Named(y) = ParseDb(Rest(y))
  BY DEF Named
<1>6. \A y : First(y) = <<"search">> => Named(y) = ParseSearch(Rest(y))
  BY <1>4 DEF Named
<1>7. \A y : First(y) = <<"results">> => Named(y) = ParseName("Result", Rest(y))
  BY <1>4 DEF Named
<1>8. \A y : First(y) = <<"tmp">> => Named(y) = ParseName("Tmp", Rest(y))
  BY <1>4 DEF Named
<1>9. \A y : First(y) = <<"links">> => Named(y) = ParseName("Symlink", Rest(y))
  BY <1>4 DEF Named
<1>10. Closed(<<"db">>) /\ Closed(<<"search">>)
  BY DEF Closed
<1>11. DbPlace(<<"db">>)
  BY <1>2, <1>3, <1>5, <1>10 DEF DbPlace, Db
<1>12. SearchPlace(<<"search">>)
  BY <1>2, <1>3, <1>6, <1>10 DEF SearchPlace
<1>. QED  BY <1>2, <1>3, <1>7, <1>8, <1>9, <1>11, <1>12 DEF Namespaces

\* Every path that is one means what is written.
LEMMA NamedPaths ==
    ASSUME NEW R, KnownIn(R), NEW x \in Seq(R), Named(x) # Invalid
    PROVE  RoundTrips(R, x, Named(x))
<1>1. "/" \in R
  BY DEF KnownIn
<1>2. CASE First(x) = <<"db">>
  <2>1. CASE Rest(x) = <<>>
    BY <1>1, <1>2, <2>1, AllNamespaces, DbRootRoundTrips
  <2>2. CASE Rest(x) # <<>>
    BY <1>2, <2>2, AllNamespaces, DbRoundTrips
  <2>. QED  BY <2>1, <2>2
<1>3. CASE First(x) = <<"search">>
  BY <1>1, <1>3, AllNamespaces, SearchRoundTrips
<1>4. CASE First(x) = <<"results">>
  BY <1>1, <1>4, AllNamespaces, NamedRoundTrips
<1>5. CASE First(x) = <<"tmp">>
  BY <1>1, <1>5, AllNamespaces, NamedRoundTrips
<1>6. CASE First(x) = <<"links">>
  BY <1>1, <1>6, AllNamespaces, NamedRoundTrips
<1>. QED  BY <1>2, <1>3, <1>4, <1>5, <1>6 DEF Named

\* What a path that got through means.
MeansItself(w, p) ==
    /\ (\A n \in 1..(Len(Trim(w)) - 1) : Trim(w)[n] # "/" \/ Trim(w)[n + 1] # "/") =>
           Spelled(p) = StripSlash(Trim(w))
    /\ Plain(p.names) => ParsePath(Spelled(p)) = p
LEMMA PathMeansItself ==
    ASSUME NEW w \in Texts, ParsePath(w) # Invalid
    PROVE  MeansItself(w, ParsePath(w))
<1>. DEFINE R == Symbols \cup {"/", "db"} \cup Directories
            p == ParsePath(w)
<1>1. KnownIn(R) /\ "/" \in R
  BY DEF KnownIn
<1>2. w \in Seq(R)
  <2>1. w \in Seq(Symbols) /\ Symbols \subseteq R
    BY DEF Texts
  <2>. HIDE DEF R
  <2>. QED  BY <2>1
<1>. HIDE DEF R
<1>3. PICK x \in Seq(R) : x # <<>> /\ ReadFrom(w, x)
  BY <1>1, <1>2, ParseReads
<1>4. /\ p = Named(x) /\ StripSlash(Trim(w)) = Behind(x)
      /\ (\A n \in 1..(Len(Trim(w)) - 1) : Trim(w)[n] # "/" \/ Trim(w)[n + 1] # "/") => Smooth(x)
  BY <1>3 DEF ReadFrom
<1>5. RoundTrips(R, x, p)
  BY <1>1, <1>4, NamedPaths
<1>6. ASSUME Plain(p.names) PROVE ParsePath(Spelled(p)) = p
  <2>1. PICK y \in Seq(R) : Closed(y) /\ Spelled(p) = Behind(y) /\ Named(y) = p
    BY <1>5, <1>6 DEF RoundTrips, Again
  <2>2. Reads(y)
    BY <1>1, <2>1, ParseBehind
  <2>. QED  BY <2>1, <2>2 DEF Reads
<1>. QED  BY <1>4, <1>5, <1>6 DEF RoundTrips, MeansItself

\* The path of a stage is that of its first word with a slash in front.
LEMMA PathOfLine ==
    ASSUME Inv, line # None, line.error = None,
           NEW k \in DOMAIN WordsOfLine, NEW j \in DOMAIN WordsOfLine[k],
           line.groups[k].stages[j].path # None
    PROVE  LET words == WordsOfLine[k][j]
               w == words[Min(SlashedAt(words))]
               p == line.groups[k].stages[j].path
           IN  w \in Texts /\ p = ParsePath(w) /\ p # Invalid
<1>. DEFINE stage == Stages(Pipelines(tokens)[k])[j]
            words == Tail(Words(stage))
            p == line.groups[k].stages[j].path
            slashed == SlashedAt(words)
            w == words[Min(slashed)]
<1>1. /\ k \in DOMAIN Pipelines(tokens) /\ j \in DOMAIN Stages(Pipelines(tokens)[k])
      /\ WordsOfLine[k][j] = words
  BY DEF WordsOfLine
<1>2. /\ stage \in Seq(Tokens) /\ Words(stage) # <<>>
      /\ p = ParseStage(stage).path /\ p # Invalid
  BY <1>1, LineStages
<1>. HIDE DEF stage
<1>3. ParseStage(stage).path = IF slashed = {} THEN None ELSE ParsePath(w)
  BY <1>2, StageKept DEF KeptIn
<1>4. slashed # {} /\ p = ParsePath(w)
  BY <1>2, <1>3
<1>5. words \in Seq(FullTexts)
  <2>1. Words(stage) \in Seq(FullTexts)
    BY <1>2, WordsTyped
  <2>. QED  BY <1>2, <2>1
<1>. HIDE DEF words
<1>6. w \in Texts
  <2>1. slashed \subseteq DOMAIN words /\ DOMAIN words \subseteq Nat
    BY <1>5 DEF SlashedAt
  <2>2. Min(slashed) \in DOMAIN words
    BY <1>4, <2>1, MinOf
  <2>3. w \in FullTexts
    BY <1>5, <2>2
  <2>. QED  BY <2>3 DEF FullTexts
<1>. QED  BY <1>1, <1>2, <1>4, <1>6

(* A path's kind and names, written out again, are the text they were read *)
(* from, and read the same once more.                                      *)
THEOREM CommandLinePaths == Spec => []PathsRoundTrip
<1>1. Inv => PathsRoundTrip
  <2>. SUFFICES ASSUME Inv, line # None, line.error = None,
                       NEW k \in DOMAIN WordsOfLine, NEW j \in DOMAIN WordsOfLine[k],
                       line.groups[k].stages[j].path # None
                PROVE  RoundTrip(WordsOfLine[k][j], line.groups[k].stages[j].path)
    BY DEF PathsRoundTrip
  <2>. DEFINE words == WordsOfLine[k][j]
              w == words[Min(SlashedAt(words))]
              p == line.groups[k].stages[j].path
  <2>1. w \in Texts /\ p = ParsePath(w) /\ p # Invalid
    BY PathOfLine
  <2>2. MeansItself(w, p)
    BY <2>1, PathMeansItself
  <2>. QED  BY <2>2 DEF MeansItself, RoundTrip, Plain
<1>. QED  BY <1>1, InvHolds, PTL

-----------------------------------------------------------------------------
(* What the virtual file system makes of a path.                           *)

\* No link at first.
LEMMA VfsInitTyped == InitVfs => VfsTypeOK
  BY DEF InitVfs, VfsTypeOK

\* add_symlink() checks its target, and the other methods add nothing.
LEMMA VfsNextTyped == VfsTypeOK /\ [NextVfs]_vfsVars => VfsTypeOK'
<1> SUFFICES ASSUME VfsTypeOK, [NextVfs]_vfsVars PROVE VfsTypeOK'
  OBVIOUS
<1>1. ASSUME NEW name \in LinkNames, NEW target \in Paths, AddSymlink(name, target)
      PROVE  VfsTypeOK'
  BY <1>1 DEF VfsTypeOK, AddSymlink, Linkable
<1>2. ASSUME NEW name \in LinkNames, RemoveSymlink(name)
      PROVE  VfsTypeOK'
  BY <1>2 DEF VfsTypeOK, RemoveSymlink
<1>3. ASSUME NEW p \in Paths, NEW tool \in Tools, Visit(p, tool)
      PROVE  VfsTypeOK'
  BY <1>3 DEF VfsTypeOK, Visit
<1>4. CASE UNCHANGED vfsVars
  BY <1>4 DEF VfsTypeOK, vfsVars
<1>5. QED
  BY <1>1, <1>2, <1>3, <1>4 DEF NextVfs

(* The link table maps names of links to paths that are not links, through *)
(* any sequence of add_symlink() and remove_symlink().                     *)
THEOREM VfsTypeCorrect == VfsSpec => []VfsTypeOK
  BY VfsInitTyped, VfsNextTyped, PTL DEF VfsSpec

(* resolve() treats a link as its target for every tool: its own refusal of*)
(* chains is never reached.                                                *)
THEOREM VfsLinksAreTransparent == VfsSpec => []LinksAreTransparent
<1>1. VfsTypeOK => LinksAreTransparent
  BY DEF VfsTypeOK, LinksAreTransparent, Resolve
<1>2. QED
  BY <1>1, VfsTypeCorrect, PTL

-----------------------------------------------------------------------------
ReadKinds == {"Error", "ListCollections", "InspectCollection", "VectorSearch",
              "ListTables", "DescribeTable", "QueryTable", "ReadResult"}

\* Every arm of resolve() builds one of the variants that read.
LEMMA TargetsRead ==
    ASSUME NEW p, NEW tool, p.kind \in PathKinds, p.kind # "Symlink"
    PROVE  ResolveTarget(p, tool).kind \in ReadKinds
<1>1. CASE p.kind \in Roots
  BY <1>1 DEF ResolveTarget, Op, ReadKinds, Roots, Inspected
<1>2. CASE p.kind \in Inspected
  BY <1>2 DEF ResolveTarget, ResolveInspected, Op, ReadKinds, Roots, Inspected
<1>3. CASE p.kind = "Table"
  BY <1>3 DEF ResolveTarget, ResolveTable, Op, ReadKinds, Roots, Inspected
<1>4. CASE p.kind = "ViewEntry"
  <2>1. ResolveTarget(p, tool) = ResolveEntry(p)
    BY <1>4 DEF ResolveTarget, Roots, Inspected
  <2>2. ResolveEntry(p).kind \in {"Error", "QueryTable"}
    BY DEF ResolveEntry, Op, Error
  <2>3. QED
    BY <2>1, <2>2 DEF ReadKinds
<1>5. CASE p.kind \in {"TableRoot", "View", "SearchQuery", "Result", "Tmp"}
  BY <1>5 DEF ResolveTarget, Op, ReadKinds, Roots, Inspected
<1>6. QED
  BY <1>1, <1>2, <1>3, <1>4, <1>5 DEF PathKinds, Roots, Inspected

\* What reads is no write and lists no results.
LEMMA ReadKindsRead ==
    ASSUME NEW o, o.kind \in ReadKinds
    PROVE  ~IsWrite(o) /\ o.kind # "ListResults"
  BY DEF ReadKinds, IsWrite

\* resolve() gives a read or an error for all kinds of paths.
LEMMA ResolveReads ==
    ASSUME VfsTypeOK, NEW p, p.kind \in PathKinds, NEW tool
    PROVE  Resolve(p, tool).kind \in ReadKinds
<1>1. CASE p.kind # "Symlink"
  BY <1>1, TargetsRead DEF Resolve
<1>2. CASE p.kind = "Symlink" /\ p.name \notin DOMAIN symlinks
  BY <1>2 DEF Resolve, Error, Op, ReadKinds
<1>3. CASE p.kind = "Symlink" /\ p.name \in DOMAIN symlinks
  <2>1. symlinks[p.name] \in Paths /\ symlinks[p.name].kind # "Symlink"
    BY <1>3 DEF VfsTypeOK
  <2>2. Resolve(p, tool) = ResolveTarget(symlinks[p.name], tool)
    BY <1>3, <2>1 DEF Resolve
  <2>3. symlinks[p.name].kind \in PathKinds
    BY <2>1, PathsAssumption
  <2>. QED  BY <2>1, <2>2, <2>3, TargetsRead
<1>. QED  BY <1>1, <1>2, <1>3

(* No tool gets a write, or a listing of the results, out of any path: the *)
(* read-only checks of exec_tool() and exec_pipeline() never refuse.       *)
THEOREM VfsPathsOnlyRead == VfsSpec => []PathsOnlyRead
<1>1. VfsTypeOK => PathsOnlyRead
  <2> SUFFICES ASSUME VfsTypeOK, NEW p \in Paths, NEW tool \in Tools
               PROVE  Resolve(p, tool).kind \in ReadKinds
    BY ReadKindsRead DEF PathsOnlyRead
  <2>1. QED
    BY ResolveReads, PathsAssumption
<1>2. QED
  BY <1>1, VfsTypeCorrect, PTL

-----------------------------------------------------------------------------
(* Paths of a line.                                                        *)

\* The names a kind has, for VirtualFS.
NameAt(p, n) == IF n \in DOMAIN p.names THEN p.names[n] ELSE None
InVfs(p) ==
    [kind |-> p.kind, name |-> NameAt(p, 1), view |-> NameAt(p, 2), param |-> NameAt(p, 3)]

\* Every tool gets a read, or an error, for every path of a parsed line.
LinesOnlyRead ==
    line # None /\ line.error = None =>
        \A k \in DOMAIN WordsOfLine : \A j \in DOMAIN WordsOfLine[k] :
            LET p == line.groups[k].stages[j].path
            IN  p # None => \A tool \in Tools : Resolve(InVfs(p), tool).kind \in ReadKinds

\* The kinds the parser tells apart are those resolve() knows.
LEMMA KindsAgree == Kinds \ {"Invalid"} = PathKinds
  BY DEF Kinds, PathKinds, Roots, Inspected

\* Nothing but the error is of its kind.
LEMMA ParsePathKind ==
    ASSUME NEW w, ParsePath(w).kind = "Invalid"
    PROVE  ParsePath(w) = Invalid
<1>1. \A kind, names : Is(kind, names).kind = kind
  BY DEF Is
<1>2. ASSUME NEW kind, kind # "Invalid", NEW rest1, ParseName(kind, rest1).kind = "Invalid"
      PROVE  ParseName(kind, rest1) = Invalid
  BY <1>1, <1>2 DEF ParseName
<1>3. ASSUME NEW rest1 PROVE ParseSearch(rest1).kind # "Invalid"
  BY <1>1 DEF ParseSearch
<1>4. ASSUME NEW rest1, ParseDb(rest1).kind = "Invalid"
      PROVE  ParseDb(rest1) = Invalid
  <2>. DEFINE segments == Kept(Segments(rest1), Range(Segments(rest1)) \ {<<>>})
              fitting == { f \in DbForms :
                              /\ Len(segments) = Len(f.dir) + f.names
                              /\ \A i \in DOMAIN f.dir : segments[i] = <<f.dir[i]>> }
              g == CHOOSE f \in fitting : TRUE
  <2>1. \A f \in DbForms : f.kind # "Invalid"
    BY DEF DbForms, Form
  <2>2. fitting # {} => g \in fitting
    OBVIOUS
  <2>3. fitting # {} => g.kind # "Invalid"
    BY <2>1, <2>2
  <2>4. ParseDb(rest1) =
            IF rest1 = <<>> THEN Is("DbRoot", <<>>)
            ELSE IF fitting = {} THEN Invalid
            ELSE Is(g.kind, SubSeq(segments, Len(g.dir) + 1, Len(segments)))
    BY DEF ParseDb
  <2>. HIDE DEF segments, fitting, g
  <2>. QED  BY <1>1, <1>4, <2>3, <2>4
<1>5. PICK rest1 : ParsePath(w) \in {ParseDb(rest1), ParseSearch(rest1), ParseName("Result", rest1),
                                     ParseName("Tmp", rest1), ParseName("Symlink", rest1), Invalid}
  <2>. DEFINE rest2 == Rest(StripSlash(Tail(Trim(w))))
  <2>1. ParsePath(w) \in {ParseDb(rest2), ParseSearch(rest2), ParseName("Result", rest2),
                          ParseName("Tmp", rest2), ParseName("Symlink", rest2), Invalid}
    <3>. HIDE DEF rest2
    <3>. QED  BY DEF ParsePath, rest2
  <2>. QED  BY <2>1
<1>. QED  BY <1>2, <1>3, <1>4, <1>5

(* Whatever line is typed and whatever was linked before: no tool gets a   *)
(* write out of a path the parser lets through, and there is no such path  *)
(* resolve() has no arm for.                                               *)
THEOREM CommandLineOnlyReads == Spec /\ VfsSpec => []LinesOnlyRead
<1>1. Inv /\ VfsTypeOK => LinesOnlyRead
  <2>. SUFFICES ASSUME Inv, VfsTypeOK, line # None, line.error = None,
                       NEW k \in DOMAIN WordsOfLine, NEW j \in DOMAIN WordsOfLine[k],
                       line.groups[k].stages[j].path # None, NEW tool \in Tools
                PROVE  Resolve(InVfs(line.groups[k].stages[j].path), tool).kind \in ReadKinds
    BY DEF LinesOnlyRead
  <2>. DEFINE p == line.groups[k].stages[j].path
  <2>1. PICK w \in Texts : p = ParsePath(w) /\ p # Invalid
    BY PathOfLine
  <2>2. p \in ParsedPaths
    BY <2>1, ParsePathTyped
  <2>3. p.kind \in Kinds /\ p.kind # "Invalid"
    <3>1. p.kind \in Kinds
      BY <2>2 DEF ParsedPaths
    <3>. QED  BY <2>1, <3>1, ParsePathKind
  <2>. HIDE DEF p
  <2>4. InVfs(p).kind \in PathKinds
    BY <2>3, KindsAgree DEF InVfs
  <2>5. Resolve(InVfs(p), tool).kind \in ReadKinds
    BY <2>4, ResolveReads
  <2>. QED  BY <2>5 DEF p
<1>2. Spec => []Inv
  BY InvHolds
<1>3. VfsSpec => []VfsTypeOK
  BY VfsTypeCorrect
<1>. QED  BY <1>1, <1>2, <1>3, PTL
=============================================================================
