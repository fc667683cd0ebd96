------------------------------ MODULE VfsPath ------------------------------
(***************************************************************************)
(* VfsPath::parse (crates/dbshell-core/src/vfs_path.rs).  A text is a      *)
(* sequence of symbols: "/", " ", and others that stand for any text       *)
(* without either.                                                         *)
(***************************************************************************)
EXTENDS SequencesExt, Naturals, Kept, Splits

\* trim()
Trim(t) ==
    LET ink == { i \in DOMAIN t : t[i] # " " }
    IN  IF ink = {} THEN <<>> ELSE SubSeq(t, Min(ink), Max(ink))

\* strip_suffix('/').unwrap_or(...)
StripSlash(t) == IF t # <<>> /\ Last(t) = "/" THEN Front(t) ELSE t

\* split('/'); splitn(2, '/') is its first part and what is after the slash.
Segments(t) == Split(t, "/")
First(t) == Head(Segments(t))
Rest(t) == SubSeq(t, Len(First(t)) + 2, Len(t))

\* VfsPathKind: the variant and the texts of its fields, or an InvalidPath.
Kinds == {"DbRoot", "VectorRoot", "Collection", "GraphRoot", "GraphNodeRoot",
          "GraphEdgeRoot", "GraphNode", "GraphEdge", "TableRoot", "Table", "View",
          "ViewEntry", "Symlink", "SearchRoot", "SearchCollection", "SearchQuery",
          "Result", "Tmp", "Invalid"}
Is(kind, names) == [kind |-> kind, names |-> names]
Invalid == Is("Invalid", <<>>)

-----------------------------------------------------------------------------
\* The patterns of parse_db, but for the bare /db.
Form(dir, names, kind) == [dir |-> dir, names |-> names, kind |-> kind]
DbForms ==
    { Form(<<"vectors">>, 0, "VectorRoot"), Form(<<"vectors">>, 1, "Collection"),
      Form(<<"graphs">>, 0, "GraphRoot"),
      Form(<<"graphs", "nodes">>, 0, "GraphNodeRoot"),
      Form(<<"graphs", "edges">>, 0, "GraphEdgeRoot"),
      Form(<<"graphs", "nodes">>, 1, "GraphNode"),
      Form(<<"graphs", "edges">>, 1, "GraphEdge"),
      Form(<<"tables">>, 0, "TableRoot"), Form(<<"tables">>, 1, "Table"),
      Form(<<"tables">>, 2, "View"), Form(<<"tables">>, 3, "ViewEntry") }

\* Empty segments do not count here.
ParseDb(rest) ==
    LET segments == Kept(Segments(rest), Range(Segments(rest)) \ {<<>>})
        fitting == { f \in DbForms :
                        /\ Len(segments) = Len(f.dir) + f.names
                        /\ \A i \in DOMAIN f.dir : segments[i] = <<f.dir[i]>> }
    IN  IF rest = <<>> THEN Is("DbRoot", <<>>)
        ELSE IF fitting = {} THEN Invalid
        ELSE LET f == CHOOSE g \in fitting : TRUE
             IN  Is(f.kind, SubSeq(segments, Len(f.dir) + 1, Len(segments)))

\* The query is the rest as it is written.  The slip ends it at a slash.
SlipParseSearch(rest) ==
    LET t == StripSlash(rest)
    IN  IF rest = <<>> THEN Is("SearchRoot", <<>>)
        ELSE IF Rest(t) = <<>> THEN Is("SearchCollection", <<First(t)>>)
        ELSE Is("SearchQuery", <<First(t), First(Rest(t))>>)
ParseSearch(rest) ==
    LET t == StripSlash(rest)
    IN  IF rest = <<>> THEN Is("SearchRoot", <<>>)
        ELSE IF Rest(t) = <<>> THEN Is("SearchCollection", <<First(t)>>)
        ELSE Is("SearchQuery", <<First(t), Rest(t)>>)

\* parse_results, parse_tmp, parse_links
ParseName(kind, rest) ==
    IF StripSlash(rest) = <<>> THEN Invalid ELSE Is(kind, <<StripSlash(rest)>>)

ParsePath(text) ==
    LET t == Trim(text)
        trimmed == StripSlash(Tail(t))
        namespace == First(trimmed)
        rest == Rest(trimmed)
    IN  IF t = <<>> \/ Head(t) # "/" \/ trimmed = <<>> THEN Invalid
        ELSE CASE namespace = <<"db">>      -> ParseDb(rest)
               [] namespace = <<"search">>  -> ParseSearch(rest)
               [] namespace = <<"results">> -> ParseName("Result", rest)
               [] namespace = <<"tmp">>     -> ParseName("Tmp", rest)
               [] namespace = <<"links">>   -> ParseName("Symlink", rest)
               [] OTHER                     -> Invalid
=============================================================================
