-------------------------------- MODULE Rfs --------------------------------
(***************************************************************************)
(* The RAM-disk file system (kernel/rfs.c, on the device of                *)
(* kernel/ramdev.c): what its operations compute on the disk.  The         *)
(* variables that hold the disk and the caches above it are in Vfs.        *)
(*                                                                         *)
(* A block holds BLKSIZE cells.  A cell is the size of a directory entry:  *)
(* it holds an entry of a directory, or file data.  Sizes and offsets      *)
(* count cells.  Block b stands for the data block RFS_BLK_OFFSET_FREE+b.  *)
(***************************************************************************)
EXTENDS Integers, FiniteSets, SequencesExt

CONSTANTS
  Name,           \* file names
  Byte,           \* what a cell of a file may hold: text, or
  Zero,           \* bytes of value 0
  None, Junk,     \* no value; the contents of memory that was never written
  Freed,          \* a pointer to pages that have been freed
  NBLOCKS,        \* data blocks                  (RFS: 100)
  NINODES,        \* disk inodes                  (RFS: 320)
  BLKSIZE,        \* cells of a block             (RFS: 128 entries)
  DIRECT_BLKNUM   \* block addresses of an inode  (RFS: 10)

\* Every inode in use keeps a block of its own, so there is always a free
\* inode when there is a free block: rfs_create relies on it.
ASSUME RfsSizes ==
  /\ {NBLOCKS, NINODES, BLKSIZE, DIRECT_BLKNUM} \subseteq Nat \ {0}
  /\ NINODES >= NBLOCKS
  /\ Zero \in Byte

Block == 0 .. NBLOCKS - 1
Inode == 0 .. NINODES - 1

Direntry == [name : Name, inum : Inode]
Cell == Direntry \cup Byte \cup {Junk}

\* struct rfs_dinode; `blocks' is the length of addrs.
Dinode == [type : {"file", "dir", "free"}, nlinks : Nat, size : Nat,
           addrs : UNION {[1 .. n -> Block] : n \in 0 .. DIRECT_BLKNUM}]

R_FREE == [type |-> "free", nlinks |-> 0, size |-> 0, addrs |-> <<>>]

\* rfs_format_dev: inode 0 is the root directory and has block 0.
rfs_format_disk ==
  [i \in Inode |-> IF i = 0 THEN [type |-> "dir", nlinks |-> 1, size |-> 0, addrs |-> <<0>>]
                            ELSE R_FREE]
rfs_format_map == {0}
rfs_format_blocks == [b \in Block |-> [c \in 1 .. BLKSIZE |-> Junk]]

Least(S) == CHOOSE x \in S : \A y \in S : x <= y

\* rfs_alloc_block scans the map for the first free block.
rfs_alloc_block(used) == Least(Block \ used)

\* The scan of rfs_create and rfs_mkdir for a free disk inode.
FreeInode(disk) == Least({i \in Inode : disk[i].type = "free"})

\* Cell i, from 0, of the file or directory with these block addresses.
CellAt(addrs, blk, i) == blk[addrs[(i \div BLKSIZE) + 1]][(i % BLKSIZE) + 1]

\* All of it: what a file contains, the entries of a directory in order.
Contents(v, blk) == [i \in 1 .. v.size |-> CellAt(v.addrs, blk, i - 1)]

\* rfs_lookup: the first entry with the name.  It does not look whether the
\* parent is a directory; the cells of a file spell no entry.
Hits(v, blk, n) ==
  {i \in 1 .. v.size : LET c == CellAt(v.addrs, blk, i - 1)
                      IN  c \notin Byte \cup {Junk} /\ c.name = n}
rfs_lookup(v, blk, n) ==
  IF Hits(v, blk, n) = {} THEN None ELSE Contents(v, blk)[Least(Hits(v, blk, n))].inum

\* rfs_add_direntry writes the entry at the end of the directory.  A
\* directory never gets a second block: past the first, the address it uses
\* was never assigned.
DirFull(v) == v.size \div BLKSIZE >= Len(v.addrs)
AppendEntry(v, blk, n, i) ==
  [blk EXCEPT ![v.addrs[(v.size \div BLKSIZE) + 1]][(v.size % BLKSIZE) + 1] =
     [name |-> n, inum |-> i]]

\* rfs_unlink moves the entries behind the one with name n forward; the last
\* cell keeps its value.  The blocks of a directory behind the first, which
\* it would move and give back, do not exist: rfs_add_direntry takes none.
RemoveNextEntry(v, blk, n) ==
  LET d == Least(Hits(v, blk, n))
  IN  [blk EXCEPT ![Head(v.addrs)] =
         [c \in 1 .. BLKSIZE |-> IF c <= d \/ c = BLKSIZE THEN @[c] ELSE @[c + 1]]]
RemoveEntry(v, blk, n) ==
  LET d == Least(Hits(v, blk, n))
  IN  [blk EXCEPT ![Head(v.addrs)] =
         [c \in 1 .. BLKSIZE |-> IF c < d \/ c = BLKSIZE THEN @[c] ELSE @[c + 1]]]
Shrunk(v) == [v EXCEPT !.size = @ - 1]

\* What strcpy copies: it stops at the first byte of value 0.  Only text has
\* none.
CString(s) ==
  SubSeq(s, 1, Cardinality({n \in 1 .. Len(s) : \A i \in 1 .. n : s[i] \in Byte \ {Zero}}))

\* rfs_read gathers part of a first block, the complete blocks and what
\* remains, returns their length, by which the offset moves on, and copies
\* them to r_buf as a string.  do_read copies r_buf in the same way.
ReadTimesUnaligned(align, len) == len \div BLKSIZE
ReadTimes(align, len) == (align + len) \div BLKSIZE
rfs_read(v, blk, offset, length) ==
  LET len == IF v.size < offset + length THEN v.size - offset ELSE length
      align == offset % BLKSIZE
      readtimes == ReadTimes(align, len)
      remain == (align + len) % BLKSIZE
      first == IF readtimes = 0 THEN len ELSE BLKSIZE - align
      Piece(j, from, n) ==
        IF n = 0 THEN <<>>
        ELSE SubSeq(blk[v.addrs[(offset \div BLKSIZE) + j + 1]], from + 1, from + n)
      buffer == Piece(0, align, first)
                  \o FlattenSeq([j \in 1 .. readtimes - 1 |-> Piece(j, 0, BLKSIZE)])
                  \o (IF readtimes = 0 THEN <<>> ELSE Piece(readtimes, 0, remain))
  IN  [len |-> len, r_buf |-> CString(buffer)]

\* The blocks rfs_write adds to a file of n blocks to hold `size' cells, in
\* the order in which it finds them free.
FreshBlocksEarly(used, n, size) ==
  LET need == (size \div BLKSIZE) + 1 - n
  IN  IF need <= 0 THEN <<>> ELSE SubSeq(SetToSortSeq(Block \ used, <), 1, need)
FreshBlocks(used, n, size) ==
  LET need == ((size + BLKSIZE - 1) \div BLKSIZE) - n
  IN  IF need <= 0 THEN <<>> ELSE SubSeq(SetToSortSeq(Block \ used, <), 1, need)

\* rfs_write reads a block first only if it starts before the data.
NeverReads(j, offset) == FALSE
ReadsFirst(j, offset) == j * BLKSIZE < offset

\* rfs_write of `data' at `offset', block by block through the i/o buffer
\* buf.  Behind the data, a block that was not read receives what the buffer
\* held.
rfs_write(addrs, blk, buf, data, offset) ==
  LET end == offset + Len(data)
      first == offset \div BLKSIZE
      Block1(s, j) ==
        LET old == IF ReadsFirst(j, offset) THEN s.blk[addrs[j + 1]] ELSE s.buf
            new == [c \in 1 .. BLKSIZE |->
                     LET i == j * BLKSIZE + c - 1
                     IN  IF offset <= i /\ i < end THEN data[i - offset + 1] ELSE old[c]]
        IN  [blk |-> [s.blk EXCEPT ![addrs[j + 1]] = new], buf |-> new]
  IN  FoldLeft(Block1, [blk |-> blk, buf |-> buf],
               [n \in 1 .. ((end - 1) \div BLKSIZE) - first + 1 |-> first + n - 1])
=============================================================================
