----------------------------- MODULE MCSession -----------------------------
(***************************************************************************)
(* Input lines and tool calls for the runs of Session.                     *)
(***************************************************************************)
EXTENDS Session

Path(kind, name) == [kind |-> kind, name |-> name, raw |-> name]
Users == Path("Table", "users")
Last == Path("Result", "last")

Lead(tool, path) == [tool |-> tool, path |-> path]
G(lead, separator) == [lead |-> lead, counts |-> FALSE, separator |-> separator]
Counted(lead) == [G(lead, "End") EXCEPT !.counts = TRUE]

FindUsers == Lead("find", Users)
LsVectors == Lead("ls", Path("VectorRoot", None))
BadView == Lead("cat", [kind |-> "ViewEntry", name |-> "users", raw |-> "1",
                        view |-> "missing", param |-> "1"])
CatLast == Lead("cat", Last)
CatTmp == Lead("cat", Path("Tmp", "scratch"))

NoPath == Lead("ls", None)

AllPaths == { Users, Last, LsVectors.path, BadView.path, CatTmp.path }
AllTools == {"ls", "cat", "find"}

\* missing; find | wc    find & ls without a path    find; cat; begin; ls
QueryLines ==
    { << G(BadView, "Sequential"), Counted(FindUsers) >>,
      << G(FindUsers, "Background"), G(NoPath, "End") >>,
      << G(FindUsers, "Sequential"), G(CatLast, "Sequential"),
         G(Lead("begin", Last), "Sequential"), G(LsVectors, "End") >> }
ReadCalls == { CatLast, CatTmp, FindUsers }

NoViews == <<>>
NoCasts == [type \in {} |-> {}]
=============================================================================
