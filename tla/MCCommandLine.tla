--------------------------- MODULE MCCommandLine ---------------------------
(***************************************************************************)
(* Input lines for the run of CommandLine: every text over the few symbols *)
(* that matter to one of its parts.                                        *)
(***************************************************************************)
EXTENDS CommandLine, TLC

UpTo(n, S) == UNION { [1..m -> S] : m \in 0..n }
After(start, ends) == { start \o e : e \in ends }
Lines(n, fragments) ==
    LET made[m \in 0..n] ==
            IF m = 0 THEN {<<>>} ELSE { t \o f : t \in made[m - 1], f \in fragments }
    IN  UNION { made[m] : m \in 0..n }

\* Quotes, what they protect, and what they are part of.
QuotedTexts ==
    UpTo(5, {"'", "\"", ";", " ", "ls"}) \cup UpTo(4, {"'", ">", "&", " ", "ls"})

\* ls | begin ; & > ls no
PipedTexts ==
    Lines(5, { <<"ls", " ">>, <<"begin", " ">>, <<"|">>, <<";">>, <<"&">>,
               <<">", " ", "ls", " ">>, <<"no", " ">> })

\* head, tail and grep: -n 7 +7 -i - ls /tmp/ls /no
ArgumentTexts ==
    UNION { After(<<tool, " ">>,
                  Lines(4, { <<"-", "n", " ">>, <<"7", " ">>, <<"+", "7", " ">>,
                             <<"-", "i", " ">>, <<"-", " ">>, <<"ls", " ">>,
                             <<"/", "tmp", "/", "ls", " ">>, <<"/", "no", " ">> })) :
            tool \in {"head", "tail", "grep"} }

\* Every namespace and what may follow it.
Namespaces == {"db", "search", "results", "tmp", "links", "no"}
PathTexts ==
    After(<<"cat", " ">>,
          UNION { After(<<"/", n>>, UpTo(6, {"/", "a"})) : n \in Namespaces }
              \cup After(<<"/", "db">>,
                         Lines(4, { <<"/", "vectors">>, <<"/", "graphs">>, <<"/", "nodes">>,
                                    <<"/", "edges">>, <<"/", "a">> }))
              \cup After(<<"/", "db", "/", "tables">>, Lines(4, { <<"/">>, <<"/", "a">> })))


\* cat "/search/a/a b "
QuotedPathTexts ==
    { <<"cat", " ", "\"", "/", "search">> \o r \o <<"\"">> : r \in UpTo(5, {"/", "a", " "}) }

AllTexts ==
    QuotedTexts \cup PipedTexts \cup ArgumentTexts \cup PathTexts \cup QuotedPathTexts
Seven == "7" :> 7
=============================================================================
