------------------------------- MODULE MCVfs -------------------------------
(***************************************************************************)
(* The file calls of two processes, in three scenes:                       *)
(*   tree  names: create, mkdir, link, unlink, in two levels of directory, *)
(*         by programs that link only below directories;                   *)
(*   dirs  the root directory is read while names come and go;             *)
(*   file  one file is read and written in every open mode.                *)
(***************************************************************************)
EXTENDS Vfs

CONSTANTS a, b, x, p1, p2

VARIABLE scene

RDONLY == <<TRUE, FALSE>>
WRONLY == <<FALSE, TRUE>>
RDWR == <<TRUE, TRUE>>

Tree == {<<a>>, <<b>>, <<a, b>>}

\* The discipline of the programs: there link has no entry to make.
BelowFile(new) ==
  LET s == Lookup(new) IN Creatable(s, new) /\ Node(s).type = "file"

TreeCall ==
  \/ NameCall(Tree)
  \/ \E new \in Tree : ~BelowFile(new) /\ \E old \in Tree : Link(old, new)
  \/ \E p \in Proc : OpenCall(p, Tree, {RDWR}) \/ FileEnd(p)

DirsCall ==
  \/ NameCall({<<b>>}) \/ LinkCall({<<b>>})
  \/ \E p \in Proc : OpenCall(p, {<<b>>}, {RDWR}) \/ DirCall(p, {<<>>, <<b>>}) \/ FileEnd(p)

FileCall ==
  \E p \in Proc :
    \/ OpenCall(p, {<<a>>}, {RDONLY, WRONLY, RDWR})
    \/ DataCall(p, {<<x>>, <<x, x, x>>})
    \/ FileEnd(p)

MCInit == Init /\ scene \in {"tree", "dirs", "file"}

MCNext ==
  /\ \/ scene = "tree" /\ TreeCall
     \/ scene = "dirs" /\ DirsCall
     \/ scene = "file" /\ FileCall
  /\ UNCHANGED scene

Symmetry == Permutations(Proc)

MCSpec == MCInit /\ [][MCNext]_<<vars, scene>>
=============================================================================
