------------------------------ MODULE VfsClaims ------------------------------
(***************************************************************************)
(* What a comment in the file system says, against programs that link any  *)
(* name to any other.                                                      *)
(***************************************************************************)
EXTENDS MCVfs

ClaimSpec == MCInit /\ [][(TreeCall \/ LinkCall(Tree)) /\ UNCHANGED scene]_<<vars, scene>>

(***************************************************************************)
(* "number of hard links to this file" (kernel/rfs.h:40), of nlinks: a     *)
(* file has as many entries in directories.  A link below a file raises    *)
(* nlinks and makes no entry.                                              *)
(***************************************************************************)
LinksCounted == \A k \in OfType("file") : Current(k).nlinks = Cardinality(EntriesFor(k))
=============================================================================
