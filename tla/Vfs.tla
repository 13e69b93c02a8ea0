-------------------------------- MODULE Vfs --------------------------------
(***************************************************************************)
(* The file system calls on the RAM disk: the descriptor tables of the     *)
(* processes (kernel/proc_file.c), the dentry and vinode caches            *)
(* (kernel/vfs.c) and the disk below them (Rfs).  A call runs in the       *)
(* kernel with interrupts off, so each is one step; the processes' calls   *)
(* interleave.                                                             *)
(*                                                                         *)
(* A path is the sequence of names below the mount point /RAMDISK0, whose  *)
(* own path is <<>>.  A cached dentry is identified by its path: it is     *)
(* hashed under its parent and its name, and directories, once cached,     *)
(* stay.  (A file's dentry does not: below one that has been freed, a name *)
(* that was linked there would be lost.)  A cached vinode is identified by *)
(* its inode number, its hash key.                                         *)
(***************************************************************************)
EXTENDS Rfs

CONSTANTS
  Proc,        \* processes that may have files open
  MAX_FILES,   \* entries of a descriptor table     (kernel: 128)
  MaxRef,      \* bound: opens a dentry may collect
  MaxOpens     \* bound: opens a process may have made to call opendir

VARIABLES
  disk,     \* the disk inodes
  blk,      \* the data blocks
  used,     \* the block map in memory (sb->s_fs_info)
  iobuf,    \* the i/o buffer of the device: the last block transferred
  dent,     \* dentry_hash_table: path -> [inum, d_ref]
  vin,      \* vinode_hash_table: inode number -> vinode
  pf,       \* proc_file_management of each process
  machine   \* "on", or why the kernel stopped

store == <<disk, blk, used, iobuf>>
cache == <<dent, vin>>
vars == <<disk, blk, used, iobuf, dent, vin, pf, machine>>

FD == 0 .. MAX_FILES - 1

\* init_proc_file_management
NoFiles == [nfiles |-> 0, file |-> [fd \in FD |-> None]]

\* A block that holds neither data nor entries: inodes, superblock, map.
Other == [c \in 1 .. BLKSIZE |-> Junk]

\* struct vinode is a disk inode with a count of the dentries that refer to
\* it and, for a directory, the copy of its block made by opendir.
Vinode(d, ref) == [type |-> d.type, nlinks |-> d.nlinks, size |-> d.size, addrs |-> d.addrs,
                   ref |-> ref, i_fs_info |-> None]

\* rfs_write_back_vinode
Written(v) == [type |-> v.type, nlinks |-> v.nlinks, size |-> v.size, addrs |-> v.addrs]

\* What rfs_get_superblock reads from the formatted disk: the block map,
\* which is never written back, and the root directory.
rfs_get_superblock ==
  [s_fs_info |-> rfs_format_map, s_root |-> Vinode(rfs_format_disk[0], 1)]

\* vfs_mount of the formatted disk under the root directory.
Init ==
  /\ disk = rfs_format_disk
  /\ blk = rfs_format_blocks
  /\ used = rfs_get_superblock.s_fs_info
  /\ iobuf = Other
  /\ dent = (<<>> :> [inum |-> 0, d_ref |-> 0])
  /\ vin = (0 :> rfs_get_superblock.s_root)
  /\ pf = [p \in Proc |-> NoFiles]
  /\ machine = "on"

\* A panic, a failed assertion, or a use of memory the kernel does not own.
Stop(why) == machine' = why /\ UNCHANGED <<store, cache, pf>>

----------------------------------------------------------------------------
(* Path lookup                                                             *)

\* A new dentry refers to inode k: a vinode that is cached already is
\* shared, otherwise it is read from the disk.
ReferUncounted(v, k) ==
  IF k \in DOMAIN v THEN v ELSE (k :> Vinode(disk[k], 1)) @@ v
Refer(v, k) ==
  IF k \in DOMAIN v THEN [v EXCEPT ![k].ref = @ + 1] ELSE (k :> Vinode(disk[k], 1)) @@ v

\* One token of lookup_final_dentry: the hash table first, then the disk.
WalkStep(s, n) ==
  LET q == Append(s.at, n)
      parent == s.vin[s.dent[s.at].inum]
      k == rfs_lookup(parent, blk, n)
  IN  IF s.miss # None THEN s
      ELSE IF q \in DOMAIN s.dent THEN [s EXCEPT !.at = q]
      ELSE IF k = None
      THEN [s EXCEPT !.miss = n,
                     !.buf = IF parent.size = 0 THEN @ ELSE blk[Last(parent.addrs)]]
      ELSE [at |-> q, miss |-> None, buf |-> Other,
            dent |-> (q :> [inum |-> k, d_ref |-> 0]) @@ s.dent,
            vin |-> Refer(s.vin, k)]

\* Where the walk ended, the name it missed, and the caches and the i/o
\* buffer it leaves.
lookup_final_dentry(path, d, v, buf) ==
  LET walk[i \in 0 .. Len(path)] ==
        IF i = 0 THEN [at |-> <<>>, miss |-> None, buf |-> buf, dent |-> d, vin |-> v]
        ELSE WalkStep(walk[i - 1], path[i])
  IN  walk[Len(path)]

Lookup(path) == lookup_final_dentry(path, dent, vin, iobuf)

Found(s) == s.miss = None
Node(s) == s.vin[s.dent[s.at].inum]
IsFile(s) == Found(s) /\ Node(s).type = "file"

\* A call that fails after its lookup leaves only what the lookup cached.
Fail(s) ==
  /\ dent' = s.dent /\ vin' = s.vin /\ iobuf' = s.buf
  /\ UNCHANGED <<disk, blk, used, pf, machine>>

----------------------------------------------------------------------------
(* Creating names                                                          *)

\* rfs_create, rfs_mkdir: the disk inode and the block taken for it.  A new
\* file has no blocks: the one that rfs_create takes is not counted.
NewInode(type) ==
  [type |-> type, nlinks |-> 1, size |-> 0,
   addrs |-> IF type = "dir" THEN <<rfs_alloc_block(used)>> ELSE <<>>]

\* rfs_create and rfs_mkdir of path q, whose parent is where the walk s
\* ended; the dentry and the vinode are hashed.
Create(s, q, type, opens) ==
  LET k == FreeInode(disk)
      up == s.dent[s.at].inum
      dir == [s.vin[up] EXCEPT !.size = @ + 1]
  IN  /\ disk' = [disk EXCEPT ![k] = NewInode(type), ![up] = Written(dir)]
      /\ blk' = AppendEntry(s.vin[up], blk, Last(q), k)
      /\ used' = used \cup {rfs_alloc_block(used)}
      /\ iobuf' = Other
      /\ dent' = (q :> [inum |-> k, d_ref |-> opens]) @@ s.dent
      /\ vin' = (k :> Vinode(NewInode(type), 1)) @@ [s.vin EXCEPT ![up] = dir]

\* get_base_name is compared with the name the walk missed.
Creatable(s, path) == ~Found(s) /\ s.miss = Last(path)

\* Why a creation below the end of the walk s goes wrong, if it does: no
\* free block (a panic), a parent that is a file (rfs_add_direntry refuses),
\* a parent that is full, an inode number whose vinode is still hashed
\* (hash_put_vinode refuses).
Obstacle(s) ==
  IF used = Block THEN "noblock"
  ELSE IF Node(s).type # "dir" THEN "notdir"
  ELSE IF DirFull(Node(s)) THEN "overrun"
  ELSE IF FreeInode(disk) \in DOMAIN s.vin THEN "twin"
  ELSE None

\* alloc_vfs_file, do_open and do_opendir: the first unused descriptor.
OpenFile(p, q, r, w) ==
  LET fd == Least({i \in FD : pf[p].file[i] = None})
  IN  pf' = [pf EXCEPT ![p].nfiles = @ + 1,
                       ![p].file[fd] = [path |-> q, offset |-> 0, r |-> r, w |-> w]]
OpenedUncounted(d, q) == d
Opened(d, q) == [d EXCEPT ![q].d_ref = @ + 1]

\* do_open counts the opens of the process, not its open files.
TableFullLate(p) == pf[p].nfiles > MAX_FILES
TableFull(p) == pf[p].nfiles >= MAX_FILES

\* do_open -> vfs_open.  The table is looked at after the file is open.
Open(p, path, r, w, creat) ==
  LET s == Lookup(path)
      new == creat /\ Creatable(s, path)
  IN  /\ machine = "on"
      /\ \/ ~IsFile(s) /\ ~new /\ Fail(s)
         \/ /\ IsFile(s) /\ ~TableFull(p)
            /\ s.dent[path].d_ref < MaxRef
            /\ dent' = Opened(s.dent, path) /\ vin' = s.vin /\ iobuf' = s.buf
            /\ OpenFile(p, path, r, w)
            /\ UNCHANGED <<disk, blk, used, machine>>
         \/ /\ new /\ Obstacle(s) = None /\ ~TableFull(p)
            /\ Create(s, Append(s.at, s.miss), "file", 1)
            /\ OpenFile(p, Append(s.at, s.miss), r, w)
            /\ UNCHANGED machine
         \/ new /\ Obstacle(s) # None /\ Stop(Obstacle(s))
         \/ /\ IsFile(s) \/ (new /\ Obstacle(s) = None)
            /\ TableFull(p)
            /\ Stop("nofile")

\* do_mkdir -> vfs_mkdir.  Below a file rfs_mkdir has taken an inode and a
\* block when the entry is refused.
Mkdir(path) ==
  LET s == Lookup(path)
  IN  /\ machine = "on"
      /\ \/ ~Creatable(s, path) /\ Fail(s)
         \/ /\ Creatable(s, path) /\ Obstacle(s) = "notdir"
            /\ disk' = [disk EXCEPT ![FreeInode(disk)] = NewInode("dir")]
            /\ used' = used \cup {rfs_alloc_block(used)}
            /\ dent' = s.dent /\ vin' = s.vin /\ iobuf' = Other
            /\ UNCHANGED <<blk, pf, machine>>
         \/ /\ Creatable(s, path) /\ Obstacle(s) = None
            /\ Create(s, Append(s.at, s.miss), "dir", 0)
            /\ UNCHANGED <<pf, machine>>
         \/ /\ Creatable(s, path) /\ Obstacle(s) \notin {None, "notdir"}
            /\ Stop(Obstacle(s))

----------------------------------------------------------------------------
(* Hard links                                                              *)

\* rfs_link writes the parent back, in rfs_add_direntry, and the file.
LinkParentOnly(up, k, v) == [disk EXCEPT ![up] = Written(v[up])]
LinkDisk(up, k, v) == [disk EXCEPT ![up] = Written(v[up]), ![k] = Written(v[k])]

\* do_link -> vfs_link -> rfs_link.  Below a file rfs_add_direntry refuses the
\* entry, and rfs_link does not look: the link is counted and its name is
\* cached, and the call succeeds.
Link(old, new) ==
  LET o == Lookup(old)
      s == lookup_final_dentry(new, o.dent, o.vin, o.buf)
      k == o.dent[o.at].inum
      up == s.dent[s.at].inum
      below == Node(s).type = "dir"
      overrun == below /\ DirFull(Node(s))
      v == [s.vin EXCEPT ![k].ref = @ + 1, ![k].nlinks = @ + 1,
                         ![up].size = IF below THEN @ + 1 ELSE @]
  IN  /\ machine = "on"
      /\ \/ ~IsFile(o) /\ Fail(o)
         \/ IsFile(o) /\ ~Creatable(s, new) /\ Fail(s)
         \/ /\ IsFile(o) /\ Creatable(s, new) /\ ~overrun
            /\ disk' = IF below THEN LinkDisk(up, k, v) ELSE [disk EXCEPT ![k] = Written(v[k])]
            /\ blk' = IF below THEN AppendEntry(Node(s), blk, s.miss, k) ELSE blk
            /\ dent' = (Append(s.at, s.miss) :> [inum |-> k, d_ref |-> 0]) @@ s.dent
            /\ vin' = v
            /\ iobuf' = Other
            /\ UNCHANGED <<used, pf, machine>>
         \/ IsFile(o) /\ Creatable(s, new) /\ overrun /\ Stop("overrun")

\* hash_erase_dentry, hash_erase_vinode
Still(f, x) == f
Without(f, x) == Restrict(f, DOMAIN f \ {x})

\* The disk after rfs_unlink of the entry for inode k: the last link takes
\* the inode along and the blocks that the disk inode lists.
UnlinkInode(k, nlinks) ==
  IF nlinks = 0 THEN R_FREE ELSE [disk[k] EXCEPT !.nlinks = nlinks]
UnlinkedBlocks(k, nlinks) == IF nlinks = 0 THEN Range(disk[k].addrs) ELSE {}

\* vfs_unlink refuses a name that is open.
Unlinkable(s, path) == IsFile(s) /\ s.dent[path].d_ref = 0

\* rfs_unlink does not find the entry of a name that was linked below a file.
\* If it has not read a block by then, it reads through a pointer that is
\* NULL.
NotFound(s, parent) ==
  IF parent.size = 0 THEN Stop("null") ELSE Fail([s EXCEPT !.buf = blk[Last(parent.addrs)]])

\* do_unlink -> vfs_unlink -> rfs_unlink, with its two assertions: the count
\* in the vinode is the one on disk, and no dentry is left when it gets to 0.
Unlink(path) ==
  LET s == Lookup(path)
      up == s.dent[Front(path)].inum
      k == s.dent[path].inum
      i == rfs_lookup(s.vin[up], blk, Last(path))
      stray == Unlinkable(s, path) /\ i = None
      nlinks == s.vin[k].nlinks - 1
      dir == Shrunk(s.vin[up])
      kept == [s.vin EXCEPT ![up] = dir, ![k].ref = @ - 1, ![k].nlinks = nlinks]
  IN  /\ machine = "on"
      /\ \/ /\ ~Unlinkable(s, path) \/ stray
            /\ IF stray THEN NotFound(s, s.vin[up]) ELSE Fail(s)
         \/ /\ Unlinkable(s, path) /\ ~stray
            /\ disk' = [disk EXCEPT ![i] = UnlinkInode(i, nlinks), ![up] = Written(dir)]
            /\ used' = used \ UnlinkedBlocks(i, nlinks)
            /\ blk' = RemoveEntry(s.vin[up], blk, Last(path))
            /\ dent' = Without(s.dent, path)
            /\ vin' = IF nlinks = 0 THEN Without(kept, k) ELSE kept
            /\ iobuf' = Other
            /\ machine' = IF s.vin[k].nlinks # disk[i].nlinks THEN "assert_nlinks"
                          ELSE IF nlinks = 0 /\ kept[k].ref # 0 THEN "assert_ref"
                          ELSE "on"
            /\ UNCHANGED pf

----------------------------------------------------------------------------
(* Open files.  Programs use the descriptors that open and opendir gave    *)
(* them: get_opened_file does not look whether the entry is in use.        *)

IsOpen(p, fd) == pf[p].file[fd] # None
File(p, fd) == pf[p].file[fd]
Inum(p, fd) == dent[File(p, fd).path].inum
VinodeOf(p, fd) == vin[Inum(p, fd)]
OpenAs(p, fd, type) == machine = "on" /\ IsOpen(p, fd) /\ VinodeOf(p, fd).type = type

\* do_close -> vfs_close: the last close of a dentry frees it, and the last
\* dentry of a vinode writes it back.  nfiles stays.
Close(p, fd) ==
  LET path == File(p, fd).path
      k == Inum(p, fd)
      last == dent[path].d_ref = 1
      gone == last /\ vin[k].ref = 1
  IN  /\ OpenAs(p, fd, "file")
      /\ dent' = IF last THEN Without(dent, path) ELSE [dent EXCEPT ![path].d_ref = @ - 1]
      /\ vin' = IF gone THEN Without(vin, k)
                ELSE IF last THEN [vin EXCEPT ![k].ref = @ - 1] ELSE vin
      /\ disk' = IF gone THEN [disk EXCEPT ![k] = Written(vin[k])] ELSE disk
      /\ iobuf' = IF gone THEN Other ELSE iobuf
      /\ pf' = [pf EXCEPT ![p].file[fd] = None]
      /\ UNCHANGED <<blk, used, machine>>

MoveTo(p, fd, offset) == pf' = [pf EXCEPT ![p].file[fd].offset = offset]

\* do_read -> vfs_read -> rfs_read of `length' cells.  The block at the
\* offset is read even when the file ends there; that may be one past its
\* blocks, at an address that was never assigned.
Read(p, fd, length) ==
  LET v == VinodeOf(p, fd)
      offset == File(p, fd).offset
      readable == File(p, fd).r /\ offset <= v.size
      len == rfs_read(v, blk, offset, length).len
      last == (IF len = 0 THEN offset ELSE offset + len - 1) \div BLKSIZE
  IN  /\ OpenAs(p, fd, "file")
      /\ \/ /\ readable
            /\ MoveTo(p, fd, offset + len)
            /\ iobuf' = IF last < Len(v.addrs) THEN blk[v.addrs[last + 1]] ELSE Other
            /\ UNCHANGED <<disk, blk, used, cache, machine>>
         \/ /\ readable /\ offset > 0 /\ last >= Len(v.addrs)
            /\ Stop("overrun")
         \/ ~readable /\ Stop(IF File(p, fd).r THEN "offset" ELSE "mode")

\* do_write -> vfs_write -> rfs_write.
Write(p, fd, data) ==
  LET v == VinodeOf(p, fd)
      k == Inum(p, fd)
      offset == File(p, fd).offset
      end == offset + Len(data)
      fresh == FreshBlocks(used, Len(v.addrs), end)
      addrs == v.addrs \o fresh
      result == rfs_write(addrs, blk, iobuf, data, offset)
      writable == File(p, fd).w /\ offset <= v.size
      fits == end <= DIRECT_BLKNUM * BLKSIZE
      room == end - BLKSIZE * Len(v.addrs) <= BLKSIZE * (NBLOCKS - Cardinality(used))
  IN  /\ OpenAs(p, fd, "file")
      /\ \/ /\ writable /\ fits /\ room
            /\ blk' = result.blk /\ iobuf' = result.buf
            /\ used' = used \cup Range(fresh)
            /\ vin' = [vin EXCEPT ![k].addrs = addrs,
                                  ![k].size = IF @ < end THEN end ELSE @]
            /\ MoveTo(p, fd, end)
            /\ UNCHANGED <<disk, dent, machine>>
         \/ ~writable /\ Stop(IF File(p, fd).w THEN "offset" ELSE "mode")
         \/ writable /\ ~fits /\ room /\ Stop("overrun")
         \/ writable /\ ~room /\ Stop("noblock")

\* do_lseek -> vfs_lseek -> rfs_lseek; anything else is refused.
Lseek(p, fd, new_offset, whence) ==
  LET to == IF whence = "LSEEK_SET" THEN new_offset ELSE File(p, fd).offset + new_offset
  IN  /\ OpenAs(p, fd, "file")
      /\ 0 <= to /\ to <= VinodeOf(p, fd).size
      /\ MoveTo(p, fd, to)
      /\ UNCHANGED <<store, cache, machine>>

\* do_stat -> vfs_stat answers from the vinode, do_disk_stat ->
\* rfs_disk_stat from the disk inode, which it reads through the buffer.
vfs_stat(k) == Written(vin[k])
rfs_disk_stat(k) == disk[k]
DiskStat(p, fd) ==
  /\ machine = "on" /\ IsOpen(p, fd)
  /\ iobuf' = Other
  /\ UNCHANGED <<disk, blk, used, cache, pf, machine>>

----------------------------------------------------------------------------
(* Directories                                                             *)

\* rfs_hook_opendir copies the directory's block.
DirCopy(v) == blk[Head(v.addrs)]

\* do_opendir -> vfs_opendir: the vinode points to the newest copy.
Opendir(p, path) ==
  LET s == Lookup(path)
      k == s.dent[path].inum
      isdir == Found(s) /\ Node(s).type = "dir"
      full == \A fd \in FD : IsOpen(p, fd)
  IN  /\ machine = "on"
      /\ \/ ~isdir /\ Fail(s)
         \/ /\ isdir /\ ~full
            /\ s.dent[path].d_ref < MaxRef /\ pf[p].nfiles < MaxOpens
            /\ dent' = Opened(s.dent, path)
            /\ vin' = [s.vin EXCEPT ![k].i_fs_info = DirCopy(Node(s))]
            /\ iobuf' = DirCopy(Node(s))
            /\ OpenFile(p, path, TRUE, FALSE)
            /\ UNCHANGED <<disk, blk, used, machine>>
         \/ isdir /\ full /\ Stop("nofile")

\* do_readdir -> rfs_readdir: the size is the directory's, the entry comes
\* from the copy.
Readdir(p, fd) ==
  /\ OpenAs(p, fd, "dir")
  /\ File(p, fd).offset < VinodeOf(p, fd).size
  /\ \/ /\ VinodeOf(p, fd).i_fs_info # Freed
        /\ MoveTo(p, fd, File(p, fd).offset + 1)
        /\ UNCHANGED <<store, cache, machine>>
     \/ VinodeOf(p, fd).i_fs_info = Freed /\ Stop("wild")

\* do_closedir -> vfs_closedir -> rfs_hook_closedir frees the copy that the
\* vinode points to; the dentry stays.
Closedir(p, fd) ==
  /\ OpenAs(p, fd, "dir")
  /\ \/ /\ VinodeOf(p, fd).i_fs_info # Freed
        /\ dent' = [dent EXCEPT ![File(p, fd).path].d_ref = @ - 1]
        /\ vin' = [vin EXCEPT ![Inum(p, fd)].i_fs_info = Freed]
        /\ pf' = [pf EXCEPT ![p].file[fd] = None]
        /\ UNCHANGED <<store, machine>>
     \/ VinodeOf(p, fd).i_fs_info = Freed /\ Stop("dfree")

\* The process ends, or exec gives it the table of a new process: nothing
\* closes what it had open.
Abandon(p) ==
  /\ machine = "on" /\ pf[p] # NoFiles
  /\ pf' = [pf EXCEPT ![p] = NoFiles]
  /\ UNCHANGED <<store, cache, machine>>

----------------------------------------------------------------------------
(* What programs call, on the given paths, in the given open modes, with   *)
(* the given buffers                                                       *)

OpenCall(p, Path, Mode) ==
  \E path \in Path, m \in Mode, creat \in BOOLEAN : Open(p, path, m[1], m[2], creat)

NameCall(Path) == \E path \in Path : Mkdir(path) \/ Unlink(path)

LinkCall(Path) == \E old, new \in Path : Link(old, new)

DirCall(p, Dir) ==
  \/ \E path \in Dir : Opendir(p, path)
  \/ \E fd \in FD : Readdir(p, fd) \/ Closedir(p, fd)

DataCall(p, Buffer) ==
  \E fd \in FD :
    \/ \E n \in 1 .. BLKSIZE + 1 : Read(p, fd, n)
    \/ \E data \in Buffer : Write(p, fd, data)
    \/ \E o \in -1 .. 1, whence \in {"LSEEK_SET", "LSEEK_CUR"} : Lseek(p, fd, o, whence)
    \/ DiskStat(p, fd)

FileEnd(p) == Abandon(p) \/ \E fd \in FD : Close(p, fd)

----------------------------------------------------------------------------
(* Properties                                                              *)

\* An inode as the kernel sees it, and the entries of a directory.
Current(k) == IF k \in DOMAIN vin THEN Written(vin[k]) ELSE disk[k]
OfType(type) == {k \in Inode : Current(k).type = type}
Entries(k) == Contents(Current(k), blk)
EntriesFor(i) ==
  {e \in OfType("dir") \X (1 .. BLKSIZE) :
     e[2] <= Current(e[1]).size /\ Entries(e[1])[e[2]].inum = i}

\* Types: no operation of rfs.c or vfs.c leaves an inode, a descriptor table
\* or a cache entry that its struct cannot hold.
TypeOK ==
  /\ disk \in [Inode -> Dinode]
  /\ blk \in [Block -> [1 .. BLKSIZE -> Cell]]
  /\ used \subseteq Block
  /\ iobuf \in [1 .. BLKSIZE -> Cell]
  /\ \A q \in DOMAIN dent : dent[q].inum \in Inode /\ dent[q].d_ref \in 0 .. MaxRef
  /\ \A k \in DOMAIN vin : Written(vin[k]) \in Dinode /\ vin[k].ref \in Nat
  /\ \A p \in Proc : pf[p].nfiles \in 0 .. MaxOpens

\* The assertions of rfs_unlink and vfs_unlink and the offset checks of
\* rfs_read and rfs_write never fail, and a new inode number is never one
\* that the vinode table still knows.
NoAssert == machine \notin {"assert_nlinks", "assert_ref", "offset", "twin"}

\* What unlink, link, create and mkdir leave on the disk is a tree with
\* counted links: the names in a directory differ, every entry names an
\* inode in use, a file has as many entries as links and a directory at
\* most one.
TreeSound ==
  /\ \A k \in OfType("dir") :
       \A i, j \in 1 .. Current(k).size :
         i # j => Entries(k)[i].name # Entries(k)[j].name
  /\ \A k \in OfType("free") : EntriesFor(k) = {}
  /\ \A k \in OfType("file") : Current(k).nlinks = Cardinality(EntriesFor(k))
  /\ \A k \in OfType("dir") : Cardinality(EntriesFor(k)) <= 1

\* No block belongs to two inodes, and none that belongs to one is free for
\* rfs_alloc_block; a file has just the blocks its size needs.
BlocksOwned ==
  \A k \in Inode \ OfType("free") :
    LET v == Current(k)
    IN  /\ Range(v.addrs) \subseteq used
        /\ Cardinality(Range(v.addrs)) = Len(v.addrs)
        /\ \A j \in Inode \ (OfType("free") \cup {k}) :
             Range(v.addrs) \cap Range(Current(j).addrs) = {}
        /\ Len(v.addrs) = IF v.type = "dir" THEN 1
                          ELSE (v.size + BLKSIZE - 1) \div BLKSIZE

\* The caches agree with the disk: a cached name is the entry of its parent
\* and a cached vinode differs from the disk inode only in what was written
\* since; stat and disk_stat agree on the rest.
CacheAgrees ==
  /\ \A q \in DOMAIN dent \ {<<>>} :
       /\ Front(q) \in DOMAIN dent
       /\ rfs_lookup(vin[dent[Front(q)].inum], blk, Last(q)) = dent[q].inum
  /\ \A k \in DOMAIN vin :
       LET v == vfs_stat(k)
           d == rfs_disk_stat(k)
       IN  v.type = d.type /\ v.nlinks = d.nlinks /\ d.size <= v.size /\ IsPrefix(d.addrs, v.addrs)

\* The counts that decide when a dentry or a vinode is freed: a vinode counts
\* its cached dentries, a dentry at least the open files on it.
RefCounts ==
  /\ \A k \in DOMAIN vin : vin[k].ref = Cardinality({q \in DOMAIN dent : dent[q].inum = k})
  /\ \A p \in Proc, fd \in FD : IsOpen(p, fd) => File(p, fd).path \in DOMAIN dent
  /\ \A q \in DOMAIN dent :
       /\ dent[q].inum \in DOMAIN vin
       /\ Cardinality({s \in Proc \X FD : IsOpen(s[1], s[2]) /\ File(s[1], s[2]).path = q})
            <= dent[q].d_ref

\* A descriptor that open hands out was not in use: while nfiles is below
\* MAX_FILES an entry is free.
OpenFindsSlot == \A p \in Proc : ~TableFull(p) => \E fd \in FD : ~IsOpen(p, fd)

\* rfs_read puts its buffer together from a first part, complete blocks and
\* a rest.  Read returns how many cells there are from the offset, up to what
\* was asked for and the end of the file, and delivers just those cells of the
\* file up to the first zero byte, where strcpy (rfs.c:355, proc_file.c:118)
\* stops.
ReadExact ==
  \A p \in Proc, fd \in FD, n \in 1 .. 2 * BLKSIZE :
    OpenAs(p, fd, "file") =>
      LET v == VinodeOf(p, fd)
          o == File(p, fd).offset
          wanted == SubSeq(Contents(v, blk), o + 1, Min({o + n, v.size}))
          got == rfs_read(v, blk, o, n)
      IN  o <= v.size /\ got.len = Len(wanted) /\ got.r_buf = CString(wanted)
=============================================================================
