------------------------------ MODULE MCFiles ------------------------------
(***************************************************************************)
(* The file calls on two names in one directory implement FileStore.       *)
(***************************************************************************)
EXTENDS Vfs

CONSTANTS a, b, x, y

VARIABLES name, cells, desc   \* the state of FileStore

Path == {<<a>>, <<b>>}
Buffers == {<<x>>, <<y, Zero, y>>}

Call ==
  \/ LinkCall(Path) \/ \E path \in Path : Unlink(path)
  \/ \E p \in Proc :
       \/ OpenCall(p, Path, {<<TRUE, TRUE>>})
       \/ \E fd \in FD :
            \/ Read(p, fd, BLKSIZE) \/ Close(p, fd)
            \/ \E data \in Buffers : Write(p, fd, data)

-----------------------------------------------------------------------------
(* The refinement mapping.  A name is an entry of the root directory.  The *)
(* cells of a file are those of its cached vinode, or of its disk inode if *)
(* none is cached.  Name, cells and desc are functions of the other        *)
(* variables; keeping them in variables of their own saves TLC from        *)
(* evaluating the mapping again for every action of FileStore.             *)

Entry ==
  {e \in {CellAt(disk[0].addrs, blk, i - 1) : i \in 1 .. disk[0].size} :
     disk[e.inum].type = "file"}

NameMap ==
  [path \in {<<e.name>> : e \in Entry} |-> (CHOOSE e \in Entry : e.name = Head(path)).inum]

CellMap == [k \in OfType("file") |-> Contents(Current(k), blk)]

DescMap ==
  [d \in {d \in Proc \X FD : IsOpen(d[1], d[2])} |->
     [name |-> File(d[1], d[2]).path, pos |-> File(d[1], d[2]).offset]]

MCInit == Init /\ name = NameMap /\ cells = CellMap /\ desc = DescMap
MCNext == Call /\ name' = NameMap' /\ cells' = CellMap' /\ desc' = DescMap'
MCSpec == MCInit /\ [][MCNext]_<<vars, name, cells, desc>>

Symmetry == Permutations({a, b})

Store ==
  INSTANCE FileStore WITH
    Name <- Path, Id <- Inode, Desc <- Proc \X FD, Buffer <- Buffers, Slack <- BLKSIZE - 1

(***************************************************************************)
(* To programs the descriptor tables, the two caches and the disk look     *)
(* like a store of files (do_open, do_read, do_write, do_link, do_unlink,  *)
(* do_close): a file keeps what was written to it when it is closed and    *)
(* reopened, its links show the same file, writing one file never changes  *)
(* another or moves another descriptor, and a name that is open stays.     *)
(***************************************************************************)
ImplementsFileStore == Store!Spec
=============================================================================
