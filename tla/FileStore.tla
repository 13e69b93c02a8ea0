----------------------------- MODULE FileStore -----------------------------
(***************************************************************************)
(* What the file calls promise to programs: names stand for files, a file  *)
(* is a sequence of cells, a descriptor is a place in a file.  There are   *)
(* no blocks, inodes, caches or counts here.                               *)
(*                                                                         *)
(* A write is exact up to its end.  Of the cells behind it, the first      *)
(* Slack may change: the rest of a block that rfs_write did not read.      *)
(***************************************************************************)
EXTENDS Integers, Sequences, Functions

CONSTANTS
  Name,     \* what a file may be called
  Id,       \* identities of files
  Desc,     \* descriptors of all processes
  Buffer,   \* what may be written
  Slack

VARIABLES
  name,     \* the names in use -> Id
  cells,    \* the files there are -> their cells
  desc      \* the descriptors in use -> [name, pos]

vars == <<name, cells, desc>>

Init == name = <<>> /\ cells = <<>> /\ desc = <<>>

Extend(f, x, v) == [y \in DOMAIN f \cup {x} |-> IF y = x THEN v ELSE f[y]]

OpenAt(d, n) ==
  d \notin DOMAIN desc /\ desc' = Extend(desc, d, [name |-> n, pos |-> 0])

Open(d, n) ==
  /\ n \in DOMAIN name
  /\ OpenAt(d, n)
  /\ UNCHANGED <<name, cells>>

Create(d, n, id) ==
  /\ n \notin DOMAIN name /\ id \notin DOMAIN cells
  /\ name' = Extend(name, n, id)
  /\ cells' = Extend(cells, id, <<>>)
  /\ OpenAt(d, n)

Link(old, new) ==
  /\ old \in DOMAIN name /\ new \notin DOMAIN name
  /\ name' = Extend(name, new, name[old])
  /\ UNCHANGED <<cells, desc>>

\* The last name takes the file along; an open name stays.
Unlink(n) ==
  /\ n \in DOMAIN name
  /\ \A d \in DOMAIN desc : desc[d].name # n
  /\ name' = Restrict(name, DOMAIN name \ {n})
  /\ cells' = Restrict(cells, Range(name'))
  /\ UNCHANGED desc

\* Reading and seeking move within the file.
Move(d) ==
  /\ d \in DOMAIN desc
  /\ \E to \in 0 .. Len(cells[name[desc[d].name]]) : desc' = [desc EXCEPT ![d].pos = to]
  /\ UNCHANGED <<name, cells>>

Write(d, data) ==
  /\ d \in DOMAIN desc
  /\ LET id == name[desc[d].name]
         old == cells[id]
         new == cells'[id]
         pos == desc[d].pos
         end == pos + Len(data)
     IN  /\ desc' = [desc EXCEPT ![d].pos = end]
         /\ DOMAIN cells' = DOMAIN cells
         /\ \A k \in DOMAIN cells \ {id} : cells'[k] = cells[k]
         /\ Len(new) = IF Len(old) < end THEN end ELSE Len(old)
         /\ \A i \in 1 .. Len(new) :
              /\ i <= pos => new[i] = old[i]
              /\ pos < i /\ i <= end => new[i] = data[i - pos]
              /\ end + Slack < i => new[i] = old[i]
  /\ UNCHANGED name

\* A close, or the end of the process that has them.
Forget(D) ==
  /\ D \cap DOMAIN desc # {}
  /\ desc' = Restrict(desc, DOMAIN desc \ D)
  /\ UNCHANGED <<name, cells>>

Next ==
  \/ \E d \in Desc, n \in Name :
       Open(d, n) \/ \E id \in Id : Create(d, n, id)
  \/ \E old, new \in Name : Link(old, new)
  \/ \E n \in Name : Unlink(n)
  \/ \E d \in Desc : Move(d) \/ \E data \in Buffer : Write(d, data)
  \/ \E D \in SUBSET Desc : Forget(D)

Spec == Init /\ [][Next]_vars
=============================================================================
