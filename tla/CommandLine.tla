---------------------------- MODULE CommandLine ----------------------------
(***************************************************************************)
(* CommandLine::parse (crates/dbshell-core/src/command_line.rs): tokenize, *)
(* an arm of its loop a step, then parse_tokens, parse_pipeline and        *)
(* parse_stage over the tokens.  A text is a sequence of symbols, as in    *)
(* VfsPath; letters come in chunks, a tool's name is one of them.          *)
(***************************************************************************)
EXTENDS Naturals, SequencesExt, Kept, Splits, VfsPath, Option

CONSTANTS
    Inputs,        \* the texts it may be given
    Value,         \* symbol -> what it is as a u64, for those that are one
    DefaultCount   \* 10 in the code

Symbols == UNION { Range(t) : t \in Inputs }
Texts == Seq(Symbols)

ASSUME InputsAssumption == Inputs \subseteq Texts
ASSUME ValueAssumption ==
    /\ DOMAIN Value \cap {"+", "-", "/"} = {}
    /\ \A n \in DOMAIN Value : Value[n] \in Nat
ASSUME NoneAssumption ==
    /\ None \notin {"'", "\"", "ParseError", "InvalidPath"} \cup Nat \cup Texts
    /\ None \notin [kind : Kinds, names : Seq(Texts)]

VARIABLES
    input,
    rest,    \* chars: what is still to be consumed
    quote,   \* None, or the quote that is open
    word,    \* current_word
    tokens,
    line     \* None until parse() returns

vars == <<input, rest, quote, word, tokens, line>>

Quotes == {"'", "\""}
Token(op, text) == [op |-> op, text |-> text]
Redirections == {"Append", "Overwrite"}
Operators ==
    [c \in {"|", ";", "&"} |->
        IF c = "|" THEN "Pipe" ELSE IF c = ";" THEN "Sequential" ELSE "Background"]

\* flush_word: no token for an empty word.
SlipFlushed == Append(tokens, Token("Word", word))
Flushed == IF word = <<>> THEN tokens ELSE Append(tokens, Token("Word", word))

-----------------------------------------------------------------------------
(* Parsing: pipelines between ; and &, stages between |.                   *)

\* The pipelines found so far, and the tokens after them.
Start == [pipelines |-> <<>>, open |-> <<>>]
Pipeline(ts, separator) == [tokens |-> ts, separator |-> separator]

\* Nothing between two separators is no pipeline.
SlipEnded(got, separator) ==
    [pipelines |-> Append(got.pipelines, Pipeline(got.open, separator)), open |-> <<>>]
Ended(got, separator) ==
    IF got.open = <<>> THEN got
    ELSE [pipelines |-> Append(got.pipelines, Pipeline(got.open, separator)), open |-> <<>>]

\* A round of parse_tokens' loop.
Separators == {"Sequential", "Background"}
Collected(got, token) ==
    IF token.op \in Separators THEN Ended(got, token.op)
    ELSE [got EXCEPT !.open = Append(@, token)]

Pipelines(ts) == Ended(FoldLeft(Collected, Start, ts), "End").pipelines
Stages(pipeline) == Split(pipeline.tokens, Token("Pipe", <<>>))

\* The indices of s that are in S, in order.
InOrder(s, S) == Kept([i \in DOMAIN s |-> i], S)

\* A redirection is dropped with the word after it.
Words(stage) ==
    LET kept == { i \in DOMAIN stage :
                    /\ stage[i].op = "Word"
                    /\ i > 1 => stage[i - 1].op \notin Redirections }
        at == InOrder(stage, kept)
    IN  [k \in DOMAIN at |-> stage[at[k]].text]

Dashed(w) == Head(w) = "-"
Slashed(w) == Head(w) = "/"

\* Whether the word after a flag is its value.
SlipIsValue(w) == ~Dashed(w)
IsValue(w) == ~Dashed(w) /\ ~Slashed(w)

\* HashMap::insert
Inserted(flags, flag, value) ==
    [f \in DOMAIN flags \cup {flag} |-> IF f = flag THEN value ELSE flags[f]]

\* A round of parse_stage's loop; `flag` is the flag of the round before.
NoArguments == [flags |-> <<>>, path |-> None, positional |-> <<>>, flag |-> None]
Argument(got, w) ==
    LET next == [got EXCEPT !.flag = None]
    IN  CASE got.flag # None /\ IsValue(w) -> [next EXCEPT !.flags = Inserted(@, got.flag, w)]
          [] Dashed(w) /\ Len(w) > 1 ->
                [got EXCEPT !.flags = Inserted(@, w, <<>>), !.flag = w]
          [] Slashed(w) /\ got.path = None -> [next EXCEPT !.path = ParsePath(w)]
          [] OTHER -> [next EXCEPT !.positional = Append(@, w)]
Arguments(words) == FoldLeft(Argument, NoArguments, Tail(words))

\* str::parse::<u64>, which takes a sign.
Number(text) ==
    CASE Len(text) = 1 /\ Head(text) \in DOMAIN Value -> Value[Head(text)]
      [] Len(text) = 2 /\ Head(text) = "+" /\ text[2] \in DOMAIN Value -> Value[text[2]]
      [] OTHER -> None

\* The count of a head, or of a tail, whose value may have a + of its own.
CountFlag == <<"-", "n">>
Count(tool, flags) ==
    LET given == IF CountFlag \in DOMAIN flags THEN flags[CountFlag] ELSE <<>>
        n == Number(IF tool = "tail" /\ given # <<>> /\ Head(given) = "+"
                    THEN Tail(given) ELSE given)
    IN  IF n = None THEN DefaultCount ELSE n

\* ToolKind::from_name, is_transaction_control
ToolNames == {"ls", "cat", "find", "grep", "filter", "head", "tail", "wc", "sort", "echo",
              "rm", "ln", "merge", "begin", "commit", "rollback", "man"}
TransactionControl == {"begin", "commit", "rollback"}

Names(words) == Len(Head(words)) = 1 /\ Head(words)[1] \in ToolNames

StageError(stage) ==
    LET words == Words(stage)
    IN  IF words = <<>> THEN "ParseError"
        ELSE IF ~Names(words) THEN "ParseError"
        ELSE IF Arguments(words).path = Invalid THEN "InvalidPath"
        ELSE None

\* The count or the pattern is what a stage could push down.
ParseStage(stage) ==
    LET words == Words(stage)
        tool == Head(words)[1]
        got == Arguments(words)
    IN  [tool |-> tool, path |-> got.path, flags |-> got.flags,
         positional |-> got.positional,
         pushed |-> CASE tool \in {"head", "tail"} -> Count(tool, got.flags)
                      [] tool = "grep" -> IF got.positional = <<>> THEN <<>>
                                          ELSE Head(got.positional)
                      [] OTHER -> None]

\* begin, commit and rollback stand alone.
Standalone(stages) ==
    Len(stages) = 1 \/ \A j \in DOMAIN stages : stages[j].tool \notin TransactionControl

Failed(error) == [error |-> error, groups |-> <<>>]

\* `?` on one after the other: the first error is the error of all.
FirstOf(errors) ==
    LET failed == { k \in DOMAIN errors : errors[k] # None }
    IN  IF failed = {} THEN None ELSE errors[Min(failed)]

PipelineError(pipeline) ==
    FirstOf([j \in DOMAIN Stages(pipeline) |-> StageError(Stages(pipeline)[j])])
ParsePipeline(pipeline) ==
    [stages |-> [j \in DOMAIN Stages(pipeline) |-> ParseStage(Stages(pipeline)[j])],
     separator |-> pipeline.separator]

ParseTokens(ts) ==
    LET pipelines == Pipelines(ts)
        error == FirstOf([k \in DOMAIN pipelines |-> PipelineError(pipelines[k])])
        groups == [k \in DOMAIN pipelines |-> ParsePipeline(pipelines[k])]
    IN  IF error # None THEN Failed(error)
        ELSE IF \A k \in DOMAIN groups : Standalone(groups[k].stages)
        THEN [error |-> None, groups |-> groups]
        ELSE Failed("ParseError")

-----------------------------------------------------------------------------
(* tokenize()                                                              *)

Init ==
    /\ input \in Inputs
    /\ rest = input
    /\ quote = None
    /\ word = <<>>
    /\ tokens = <<>>
    /\ line = None

Bare(symbols) == quote = None /\ rest # <<>> /\ Head(rest) \in symbols
Consume(n) == rest' = SubSeq(rest, n + 1, Len(rest))

OpenQuote ==
    /\ Bare(Quotes)
    /\ quote' = Head(rest)
    /\ Consume(1)
    /\ UNCHANGED <<input, word, tokens, line>>

SlipCloses(c) == c \in Quotes
Closes(c) == c = quote

InQuote ==
    /\ quote # None
    /\ rest # <<>>
    /\ IF Closes(Head(rest)) THEN quote' = None /\ UNCHANGED word
       ELSE word' = Append(word, Head(rest)) /\ UNCHANGED quote
    /\ Consume(1)
    /\ UNCHANGED <<input, tokens, line>>

Unterminated ==
    /\ line = None
    /\ quote # None
    /\ rest = <<>>
    /\ line' = Failed("ParseError")
    /\ UNCHANGED <<input, rest, quote, word, tokens>>

Operator ==
    /\ Bare(DOMAIN Operators)
    /\ tokens' = Append(Flushed, Token(Operators[Head(rest)], <<>>))
    /\ word' = <<>>
    /\ Consume(1)
    /\ UNCHANGED <<input, quote, line>>

Redirect ==
    LET twice == Len(rest) > 1 /\ rest[2] = ">"
    IN  /\ Bare({">"})
        /\ tokens' = Append(Flushed, Token(IF twice THEN "Append" ELSE "Overwrite", <<>>))
        /\ word' = <<>>
        /\ Consume(IF twice THEN 2 ELSE 1)
        /\ UNCHANGED <<input, quote, line>>

Blank ==
    /\ Bare({" "})
    /\ tokens' = Flushed
    /\ word' = <<>>
    /\ Consume(1)
    /\ UNCHANGED <<input, quote, line>>

Special == Quotes \cup DOMAIN Operators \cup {">", " "}

Letter ==
    /\ quote = None
    /\ rest # <<>>
    /\ Head(rest) \notin Special
    /\ word' = Append(word, Head(rest))
    /\ Consume(1)
    /\ UNCHANGED <<input, quote, tokens, line>>

\* The end of the input: the last word, then parse_tokens.
ParseLine ==
    /\ line = None
    /\ quote = None
    /\ rest = <<>>
    /\ tokens' = Flushed
    /\ word' = <<>>
    /\ line' = IF tokens' = <<>> THEN Failed("ParseError") ELSE ParseTokens(tokens')
    /\ UNCHANGED <<input, rest, quote>>

Next ==
    \/ OpenQuote
    \/ InQuote
    \/ Unterminated
    \/ Operator
    \/ Redirect
    \/ Blank
    \/ Letter
    \/ ParseLine

Spec == Init /\ [][Next]_vars

-----------------------------------------------------------------------------
Ops == {"Word", "Pipe", "Sequential", "Background", "Append", "Overwrite"}

(* Type invariant: no word is empty, every group has a stage, and every    *)
(* path that got through is one.                                           *)
TypeOK ==
    /\ IsSuffix(rest, input)
    /\ quote \in Quotes \cup {None}
    /\ \A i \in DOMAIN tokens :
        tokens[i].op \in Ops /\ (tokens[i].op = "Word" <=> tokens[i].text # <<>>)
    /\ line # None =>
        /\ line.error \in {None, "ParseError", "InvalidPath"}
        /\ \A k \in DOMAIN line.groups :
            /\ line.groups[k].stages # <<>>
            /\ line.groups[k].separator \in {"Sequential", "Background", "End"}
            /\ \A j \in DOMAIN line.groups[k].stages :
                line.groups[k].stages[j].path # Invalid

\* The quote that is open after t.
OpenAfter(t) ==
    FoldLeft(LAMBDA open, c : IF open = None THEN IF c \in Quotes THEN c ELSE None
                              ELSE IF c = open THEN None
                              ELSE open,
             None, t)

\* The tokens of t by position: those at which something splits words, those
\* that are text, and what begins at which.
Tokenized(t) ==
    LET open == [i \in 0..Len(t) |-> OpenAfter(SubSeq(t, 1, i))]
        breaks == { i \in DOMAIN t : open[i - 1] = None /\ t[i] \in Special \ Quotes }
        text == { i \in DOMAIN t : IF open[i - 1] = None THEN t[i] \notin Special
                                   ELSE open[i] # None }
        joined(i, j) == (i..j) \cap breaks = {}
        arrows(i, j) == \A m \in i..j : m \in breaks /\ t[m] = ">"
        before(i) == { j \in 1..(i - 1) : arrows(j, i - 1) }
        begins == { i \in text : \A j \in text : j < i => ~joined(j, i) }
                    \cup { i \in breaks : t[i] \in DOMAIN Operators }
                    \cup { i \in breaks : t[i] = ">" /\ Cardinality(before(i)) % 2 = 0 }
        wordAt(i) == InOrder(t, { j \in text : j >= i /\ joined(i, j) })
        tokenAt(i) ==
            IF i \in text
            THEN Token("Word", [k \in DOMAIN wordAt(i) |-> t[wordAt(i)[k]]])
            ELSE IF t[i] \in DOMAIN Operators THEN Token(Operators[t[i]], <<>>)
            ELSE IF i < Len(t) /\ arrows(i, i + 1) THEN Token("Append", <<>>)
            ELSE Token("Overwrite", <<>>)
        at == InOrder(t, begins)
    IN  [k \in DOMAIN at |-> tokenAt(at[k])]

(* "Tokenize input, respecting single and double quotes"                   *)
(* (command_line.rs:49): what is quoted splits nothing and is kept as it   *)
(* is, what touches it belongs to the same word, a quote of the other kind *)
(* is text, and a line fails when a quote stays open.                      *)
TokensFollowQuoting ==
    line # None =>
        IF OpenAfter(input) # None THEN line = Failed("ParseError")
        ELSE tokens = Tokenized(input)

\* What the whole line is made of when it is cut at a token.
JoinedAtSeparator(before, after) ==
    /\ line.error = None <=> before.error = None /\ after.error = None
    /\ line.error = None => line.groups = before.groups \o after.groups

Piped(a, b) == [stages |-> a.stages \o b.stages, separator |-> b.separator]
JoinedAtPipe(before, after) ==
    line.error = None =>
        /\ before.error = None /\ after.error = None
        /\ before.groups # <<>> /\ after.groups # <<>>
        /\ line.groups = Front(before.groups)
                             \o << Piped(Last(before.groups), Head(after.groups)) >>
                             \o Tail(after.groups)

(* "Pipes bind tighter than ; and &" (command_line.rs:116): a line can be  *)
(* cut at any ; or & and its halves parsed on their own, failing when one  *)
(* of them does; cut at a |, the pipeline at the cut alone falls in two.   *)
HalvesMakeTheLine ==
    line # None /\ tokens # <<>> /\ rest = <<>> /\ quote = None =>
        \A i \in { j \in DOMAIN tokens : tokens[j].op \in Range(Operators) } :
            LET pipe == tokens[i].op = "Pipe"
                halves == [h \in {"before", "after"} |->
                              ParseTokens(IF h = "after" THEN SubSeq(tokens, i + 1, Len(tokens))
                                          ELSE SubSeq(tokens, 1, IF pipe THEN i - 1 ELSE i))]
                joined(both) == IF pipe THEN JoinedAtPipe(both.before, both.after)
                                ELSE JoinedAtSeparator(both.before, both.after)
            IN  joined(halves)

\* The words after the tool's name, for every stage of every pipeline.
WordsOfLine ==
    LET pipelines == Pipelines(tokens)
    IN  [k \in DOMAIN pipelines |->
            [j \in DOMAIN Stages(pipelines[k]) |-> Tail(Words(Stages(pipelines[k])[j]))]]

\* Where in these words a path, a flag, the count's flag is.
SlashedAt(words) == { w \in DOMAIN words : Slashed(words[w]) }
FlagsAt(words) == { w \in DOMAIN words : Dashed(words[w]) /\ Len(words[w]) > 1 }
CountAt(words) == { w \in DOMAIN words : words[w] = CountFlag }

\* The word behind the last -n, if there is one.
CountWritten(words) ==
    { words[w + 1] : w \in { v \in CountAt(words) : v = Max(CountAt(words)) /\ v < Len(words) } }

(* No argument is lost and no path taken for a flag's value: the path is   *)
(* the first word with a slash in front, the count of a head or tail is    *)
(* the number behind its last -n (for a head, with or without the sign     *)
(* parse::<u64> takes; nothing is said of tail -n +N, meant as an offset   *)
(* of N - 1 and read as one of N), and where no flag is repeated every     *)
(* word is a flag, a flag's value, the path, or positional.                *)
KeptIn(words, stage) ==
    LET slashed == SlashedAt(words)
        flagged == FlagsAt(words)
        pathWords == IF slashed = {} THEN {} ELSE {Min(slashed)}
        valued == { f \in DOMAIN stage.flags : stage.flags[f] # <<>> }
    IN  /\ stage.path = IF slashed = {} THEN None ELSE ParsePath(words[Min(slashed)])
        /\ DOMAIN stage.flags = { words[w] : w \in flagged }
        /\ Cardinality(flagged) = Cardinality(DOMAIN stage.flags) =>
               Len(words) = Cardinality(flagged) + Cardinality(valued)
                                + Cardinality(pathWords) + Len(stage.positional)
        /\ \A n \in DOMAIN Value :
               (\/ stage.tool \in {"head", "tail"} /\ <<n>> \in CountWritten(words)
                \/ stage.tool = "head" /\ <<"+", n>> \in CountWritten(words)) =>
                   stage.pushed = Value[n]
ArgumentsKept ==
    line # None /\ line.error = None =>
        \A k \in DOMAIN WordsOfLine : \A j \in DOMAIN WordsOfLine[k] :
            KeptIn(WordsOfLine[k][j], line.groups[k].stages[j])

\* Where the path of a kind is, and how it is written.
Place(kind) ==
    CASE kind = "DbRoot"           -> <<"/", "db">>
      [] kind = "VectorRoot"       -> <<"/", "db", "/", "vectors">>
      [] kind = "Collection"       -> <<"/", "db", "/", "vectors">>
      [] kind = "GraphRoot"        -> <<"/", "db", "/", "graphs">>
      [] kind = "GraphNodeRoot"    -> <<"/", "db", "/", "graphs", "/", "nodes">>
      [] kind = "GraphNode"        -> <<"/", "db", "/", "graphs", "/", "nodes">>
      [] kind = "GraphEdgeRoot"    -> <<"/", "db", "/", "graphs", "/", "edges">>
      [] kind = "GraphEdge"        -> <<"/", "db", "/", "graphs", "/", "edges">>
      [] kind \in {"TableRoot", "Table", "View", "ViewEntry"} -> <<"/", "db", "/", "tables">>
      [] kind \in {"SearchRoot", "SearchCollection", "SearchQuery"} -> <<"/", "search">>
      [] kind = "Result"           -> <<"/", "results">>
      [] kind = "Tmp"              -> <<"/", "tmp">>
      [] kind = "Symlink"          -> <<"/", "links">>
Spelt(base, names) == FoldLeft(LAMBDA t, name : t \o <<"/">> \o name, base, names)
Spelled(p) == Spelt(Place(p.kind), p.names)

(* A path means what is written: its kind and names, written out again,    *)
(* are the text they were read from but for a slash at the end and empty   *)
(* segments, and read the same once more (but for an empty collection, and *)
(* a name that ends in a slash or a blank).                                *)
RoundTrip(words, p) ==
    LET t == Trim(words[Min(SlashedAt(words))])
    IN  /\ (\A n \in 1..(Len(t) - 1) : t[n] # "/" \/ t[n + 1] # "/") =>
               Spelled(p) = StripSlash(t)
        /\ (\A n \in DOMAIN p.names :
                p.names[n] # <<>> /\ Last(p.names[n]) \notin {"/", " "}) =>
               ParsePath(Spelled(p)) = p
PathsRoundTrip ==
    line # None /\ line.error = None =>
        \A k \in DOMAIN WordsOfLine : \A j \in DOMAIN WordsOfLine[k] :
            LET p == line.groups[k].stages[j].path
            IN  p # None => RoundTrip(WordsOfLine[k][j], p)
=============================================================================
