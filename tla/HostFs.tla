------------------------------- MODULE HostFs -------------------------------
(***************************************************************************)
(* Files of the host (kernel/hostfs.c) and the handles on them             *)
(* (spike_interface/spike_file.c), under vfs_open and vfs_close.  A name   *)
(* is one in the root directory.  The position in a file is the host's:    *)
(* reads, writes and seeks change nothing here.                            *)
(***************************************************************************)
EXTENDS Integers

CONSTANTS
  Name,        \* names that programs open
  Ino,         \* the inode on the host of each, or None
  None,
  MAX_FILES,   \* handles                          (128)
  HostFd,      \* descriptors the host may give, from 0
  MaxOpen      \* open files of a name: the descriptors of all processes

Slot == 0 .. MAX_FILES - 1
INIT_FILE_REF == 3
Std == "std"

VARIABLES
  refcnt, kfd,   \* spike_files[]
  fds,           \* spike_fds[]: the handle, or None
  host,          \* what each descriptor of the host is open on, or None
  dref,          \* d_ref of the cached dentry of a name, or None
  node           \* the vinode a cached dentry has: its i_fs_info and type, or None

vars == <<refcnt, kfd, fds, host, dref, node>>
files == <<refcnt, kfd, fds, host>>

Least(S) == CHOOSE x \in S : \A y \in S : x <= y

\* spike_file_init gives handles 0-2 one more reference, from spike_fds.
Init ==
  /\ refcnt = [s \in Slot |-> IF s \in 0 .. 2 THEN INIT_FILE_REF + 1 ELSE 0]
  /\ kfd = [s \in Slot |-> IF s \in 0 .. 2 THEN s ELSE -1]
  /\ fds = [k \in HostFd |-> IF k \in 0 .. 2 THEN k ELSE None]
  /\ host = [k \in HostFd |-> IF k \in 0 .. 2 THEN Std ELSE None]
  /\ dref = [n \in Name |-> None]
  /\ node = [n \in Name |-> None]

-----------------------------------------------------------------------------
(* Handles *)

spike_file_get_free == {s \in Slot : refcnt[s] = 0}

\* spike_file_openat for a name: a handle, or a negative number (None).  An
\* open that fails has taken a handle and gives back one of its references.
spike_file_open(n, handle) ==
  \/ /\ spike_file_get_free = {} /\ handle = None
     /\ UNCHANGED files
  \/ /\ spike_file_get_free # {} /\ Ino[n] = None /\ handle = None
     /\ refcnt' = [refcnt EXCEPT ![Least(spike_file_get_free)] = INIT_FILE_REF - 1]
     /\ UNCHANGED <<kfd, fds, host>>
  \/ LET k == Least({f \in HostFd : host[f] = None})
     IN
     /\ spike_file_get_free # {} /\ Ino[n] # None
     /\ handle = Least(spike_file_get_free)
     /\ refcnt' = [refcnt EXCEPT ![handle] = INIT_FILE_REF]
     /\ kfd' = [kfd EXCEPT ![handle] = k]
     /\ host' = [host EXCEPT ![k] = Ino[n]]
     /\ UNCHANGED fds

\* spike_file_decref: the host closes its descriptor when 2 become 1.
Decref(c) == IF c = 2 THEN 0 ELSE c - 1

\* spike_file_close takes a second reference from a handle that spike_fds has.
spike_file_close(s) ==
  LET k == kfd[s]
      c == IF fds[k] = s THEN Decref(Decref(refcnt[s])) ELSE Decref(refcnt[s])
      closes == refcnt[s] = 2 \/ (fds[k] = s /\ refcnt[s] = 3)
  IN  /\ refcnt' = [refcnt EXCEPT ![s] = c]
      /\ fds' = [fds EXCEPT ![k] = IF @ = s THEN None ELSE @]
      /\ host' = [host EXCEPT ![k] = IF closes THEN None ELSE @]
      /\ kfd' = kfd

-----------------------------------------------------------------------------
(* vfs_open and vfs_close *)

\* A name that shares its inode with a cached one gets that one's vinode; the
\* vinode that hostfs_lookup made is dropped, and with it the new handle.
Linked(n, handle) ==
  {m \in Name : handle # None /\ node[m] # None /\ node[m].type = "file" /\ Ino[m] = Ino[n]}

\* hostfs_lookup never fails: hostfs_update_vinode makes a directory of what
\* cannot be opened.
Node(handle) == [i_fs_info |-> handle, type |-> IF handle = None THEN "dir" ELSE "file"]
hostfs_lookup(n, handle) ==
  IF Linked(n, handle) # {} THEN node[CHOOSE m \in Linked(n, handle) : TRUE]
  ELSE Node(handle)

\* hostfs_hook_open has nothing to do: i_fs_info is set.
Open(n) ==
  \/ /\ dref[n] = None
     /\ \E handle \in Slot \cup {None} :
          /\ spike_file_open(n, handle)
          /\ node' = [node EXCEPT ![n] = hostfs_lookup(n, handle)]
          /\ dref' = [dref EXCEPT ![n] = IF handle = None THEN 0 ELSE 1]
  \/ /\ dref[n] # None /\ node[n].type = "file" /\ dref[n] < MaxOpen
     /\ dref' = [dref EXCEPT ![n] = @ + 1]
     /\ UNCHANGED <<files, node>>

\* hostfs_hook_close, for every descriptor that is closed.
Close(n) ==
  /\ dref[n] # None /\ dref[n] > 0
  /\ spike_file_close(node[n].i_fs_info)
  /\ dref' = [dref EXCEPT ![n] = IF @ = 1 THEN None ELSE @ - 1]
  /\ node' = IF dref[n] = 1 THEN [node EXCEPT ![n] = None] ELSE node

Next == \E n \in Name : Open(n) \/ Close(n)

Spec == Init /\ [][Next]_vars
=============================================================================
