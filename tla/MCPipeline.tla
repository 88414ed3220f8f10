----------------------------- MODULE MCPipeline -----------------------------
(* Two directories whose names differ only in case, one of them with a     *)
(* file; a directory with two files whose names differ only in case, one of *)
(* them too large; and an empty directory with a reserved name.            *)
EXTENDS Pipeline

CONSTANTS x, y, Y, Docs, docs, media, con

MCAbove == [i \in Item |-> CASE i = x -> {Docs} [] i \in {y, Y} -> {media} [] OTHER -> {}]
MCKey == [i \in Item |-> CASE i \in {Docs, docs} -> "docs" [] i \in {y, Y} -> "media/y"
                           [] i = x -> "docs/x" [] i = media -> "media" [] OTHER -> "con"]

(* Each host with volumes it can mount; Linux sees through no FUSE driver.  *)
Mount(host, name, folds) == [host |-> host, volume |-> [name |-> name, folds |-> folds]]
MCMounts ==
  {Mount("macos", "apfs", TRUE), Mount("macos", "apfs", FALSE), Mount("macos", "exfat", TRUE),
   Mount("linux", "ext4", FALSE), Mount("linux", "vfat", TRUE), Mount("linux", "fuse", TRUE),
   Mount("windows", "ntfs", TRUE), Mount("other", "ufs", FALSE)}
=============================================================================
