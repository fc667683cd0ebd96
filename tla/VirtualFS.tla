------------------------------ MODULE VirtualFS ------------------------------
(***************************************************************************)
(* The virtual file system (crates/dbshell-core/src/vfs.rs): what a path   *)
(* means to a tool, and the symbolic links a path may go through.  A path  *)
(* is a parsed VfsPath, a record [kind, name, view, param] with None for   *)
(* the fields its VfsPathKind does not have.                               *)
(***************************************************************************)
EXTENDS Naturals, Sequences, Operation, Option

CONSTANTS
    Paths,     \* the paths a run uses, links among them
    Tools,     \* ToolKind
    Views,     \* the sequence of ViewMounts: [name, table, column, type]
    Casts      \* ParamType -> the parameters that are of this type

Roots == {"DbRoot", "VectorRoot", "GraphRoot", "GraphNodeRoot", "GraphEdgeRoot",
          "SearchRoot"}
Inspected == {"Collection", "GraphNode", "GraphEdge", "SearchCollection"}
PathKinds ==
    Roots \cup Inspected
        \cup {"TableRoot", "Table", "View", "ViewEntry", "SearchQuery", "Result", "Tmp",
              "Symlink"}

ASSUME PathsAssumption == \A p \in Paths : p.kind \in PathKinds

VARIABLES
    symlinks,  \* HashMap<String, VfsPath>
    reply      \* what the last call returned

vfsVars == <<symlinks, reply>>

LinkNames == { p.name : p \in { q \in Paths : q.kind = "Symlink" } }

Op(kind, on, request) == [kind |-> kind, on |-> on, request |-> request]

\* An Err(_), next to operations.
Error(code) == Op("Error", {}, code)

-----------------------------------------------------------------------------
(* resolve() of a path that is not a link.                                 *)

\* find_view: the first mount of this name on the table.
Mounts(p) == { i \in 1..Len(Views) : Views[i].table = p.name /\ Views[i].name = p.view }
FirstMount(p) == Views[CHOOSE i \in Mounts(p) : \A j \in Mounts(p) : i <= j]

\* ParamType::String takes any text.
CanCast(type, param) == type = "String" \/ param \in Casts[type]

ResolveEntry(p) ==
    CASE Mounts(p) = {} -> Error("NotFound")
      [] Mounts(p) # {} /\ CanCast(FirstMount(p).type, p.param) ->
            Op("QueryTable", {p.name}, <<FirstMount(p).column, p.param>>)
      [] OTHER -> Error("InvalidPath")

ResolveInspected(p, tool) ==
    CASE tool = "ls" -> Op("ListCollections", {}, <<>>)
      [] tool = "find" /\ p.kind = "Collection" -> Op("VectorSearch", {p.name}, <<>>)
      [] OTHER -> Op("InspectCollection", {p.name}, <<>>)

\* The slip gives rm the operation its name suggests.
SlipResolveTable(p, tool) ==
    CASE tool = "find" -> Op("QueryTable", {p.name}, <<>>)
      [] tool = "rm"   -> Op("DeleteRows", {p.name}, <<>>)
      [] OTHER         -> Op("DescribeTable", {p.name}, <<>>)
ResolveTable(p, tool) ==
    CASE tool = "find" -> Op("QueryTable", {p.name}, <<>>)
      [] OTHER         -> Op("DescribeTable", {p.name}, <<>>)

\* The search vector is left empty, for Session to fill.
ResolveTarget(p, tool) ==
    CASE p.kind \in Roots       -> Op("ListCollections", {}, <<>>)
      [] p.kind \in Inspected   -> ResolveInspected(p, tool)
      [] p.kind = "TableRoot"   -> Op("ListTables", {}, <<>>)
      [] p.kind = "Table"       -> ResolveTable(p, tool)
      [] p.kind = "View"        -> Op("DescribeTable", {p.name}, <<>>)
      [] p.kind = "ViewEntry"   -> ResolveEntry(p)
      [] p.kind = "SearchQuery" -> Op("VectorSearch", {p.name}, <<>>)
      [] p.kind \in {"Result", "Tmp"} -> Op("ReadResult", {}, <<>>)

\* resolve(): links first, one level only.
Resolve(p, tool) ==
    CASE p.kind # "Symlink" -> ResolveTarget(p, tool)
      [] p.kind = "Symlink" /\ p.name \notin DOMAIN symlinks -> Error("NotFound")
      [] OTHER -> IF symlinks[p.name].kind = "Symlink" THEN Error("InvalidPath")
                  ELSE ResolveTarget(symlinks[p.name], tool)

-----------------------------------------------------------------------------
InitVfs == symlinks = [n \in {} |-> None] /\ reply = None

\* add_symlink(): a link may be set again, to any path that is not a link.
SlipLinkable(target) == TRUE
Linkable(target) == target.kind # "Symlink"

AddSymlink(name, target) ==
    IF Linkable(target)
    THEN /\ symlinks' = [n \in DOMAIN symlinks \cup {name} |->
                            IF n = name THEN target ELSE symlinks[n]]
         /\ reply' = None
    ELSE /\ reply' = Error("InvalidPath")
         /\ UNCHANGED symlinks

RemoveSymlink(name) ==
    IF name \in DOMAIN symlinks
    THEN /\ symlinks' = [n \in DOMAIN symlinks \ {name} |-> symlinks[n]]
         /\ reply' = None
    ELSE /\ reply' = Error("NotFound")
         /\ UNCHANGED symlinks

Visit(p, tool) ==
    /\ reply' = Resolve(p, tool)
    /\ UNCHANGED symlinks

NextVfs ==
    \/ \E name \in LinkNames, target \in Paths : AddSymlink(name, target)
    \/ \E name \in LinkNames : RemoveSymlink(name)
    \/ \E p \in Paths, tool \in Tools : Visit(p, tool)

VfsSpec == InitVfs /\ [][NextVfs]_vfsVars

-----------------------------------------------------------------------------
(* Type invariant: the link table maps the names of links to paths, none   *)
(* of them a link itself.                                                  *)
VfsTypeOK ==
    /\ DOMAIN symlinks \subseteq LinkNames
    /\ \A n \in DOMAIN symlinks :
        symlinks[n] \in Paths /\ symlinks[n].kind # "Symlink"

(* A link is its target: whatever was linked, relinked and removed before, *)
(* every tool gets the operation the target would give it.  resolve() has  *)
(* its own check against chains; that add_symlink lets none in is why it   *)
(* never has to refuse.                                                    *)
LinksAreTransparent ==
    \A p \in Paths, tool \in Tools :
        p.kind = "Symlink" /\ p.name \in DOMAIN symlinks =>
            Resolve(p, tool) = Resolve(symlinks[p.name], tool)

(* No tool on any path changes the database or lists the results: so the   *)
(* read-only checks of Session never refuse, and its ListResults never     *)
(* answers.                                                                *)
PathsOnlyRead ==
    \A p \in Paths, tool \in Tools :
        ~IsWrite(Resolve(p, tool)) /\ Resolve(p, tool).kind # "ListResults"
=============================================================================
