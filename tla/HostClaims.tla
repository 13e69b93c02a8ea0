----------------------------- MODULE HostClaims -----------------------------
(***************************************************************************)
(* What a comment says of files of the host, against the model.            *)
(***************************************************************************)
EXTENDS HostFs

\* Two files, one with two names, and a name that the host does not know.
MCIno == [shellrc |-> 1, app |-> 2, alias |-> 2, missing |-> None]

(***************************************************************************)
(* "hostfs needs to conduct actual file open." (kernel/vfs.c:176): an open *)
(* file has an open handle on the host's file.  But hostfs_hook_open opens *)
(* nothing for a file that is cached, while hostfs_hook_close drops a      *)
(* reference of the one handle for every descriptor.                       *)
(***************************************************************************)
HandleOpen ==
  \A n \in Name :
    dref[n] # None /\ dref[n] > 0 => host[kfd[node[n].i_fs_info]] = Ino[n]
=============================================================================
