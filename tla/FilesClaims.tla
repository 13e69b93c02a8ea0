----------------------------- MODULE FilesClaims -----------------------------
(***************************************************************************)
(* What comments in the file system say, against the model.                *)
(***************************************************************************)
EXTENDS MCFiles

Strict ==
  INSTANCE FileStore WITH
    Name <- Path, Id <- Inode, Desc <- Proc \X FD, Buffer <- Buffers, Slack <- 0

(***************************************************************************)
(* "write the content of "w_buf" (lengthed "len") to a file" (kernel/rfs.c:*)
(* 362): a write changes the cells it covers and no others.  A block that  *)
(* starts inside the data is written whole without being read first, so    *)
(* what is behind the data is lost.                                        *)
(***************************************************************************)
WriteOnlyData == [][Strict!Next]_<<name, cells, desc>>
=============================================================================
