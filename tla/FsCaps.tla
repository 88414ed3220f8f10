-------------------------------- MODULE FsCaps --------------------------------
(***************************************************************************)
(* profiler/fs_caps: what the probe of a destination says of its volume,    *)
(* by host.  A volume is [name, folds]: the type of its filesystem, and     *)
(* whether it really takes names that differ by case for the same.          *)
(***************************************************************************)

EXTENDS Naturals

FatFamily == {"msdos", "vfat", "fat", "fat16", "fat32"}
Hosts     == {"macos", "linux", "windows", "other"}

(* fstype_name: macOS and Windows say the name; Linux gives a number that   *)
(* is mapped back (vfat and msdos share one, FUSE hides what is below it).  *)
NameOnLinux(name) ==
  CASE name \in {"ext2", "ext3", "ext4"} -> "ext4"
    [] name \in {"msdos", "vfat"} -> "msdos"
    [] name \in {"btrfs", "xfs", "exfat", "ntfs"} -> name
    [] OTHER -> "unknown"

NameOn(host, volume) ==
  CASE host \in {"macos", "windows"} -> volume.name
    [] host = "linux" -> NameOnLinux(volume.name)
    [] OTHER -> "unknown"

(* case_sensitive_by_name.                                                  *)
Folding_AsSupported == FatFamily \cup {"exfat"}
Folding == FatFamily \cup {"exfat", "ntfs"}

(* A query that fails counts as case-sensitive.  Only macOS asks the volume *)
(* itself, Linux looks up its filesystem a second time.                     *)
CaseSensitive(host, volume, fails) ==
  CASE host = "macos" -> fails \/ ~volume.folds
    [] host = "linux" -> fails \/ NameOnLinux(volume.name) \notin Folding
    [] host = "windows" -> volume.name \notin Folding
    [] OTHER -> TRUE

(* Time is counted in half seconds, so that one can be lost by rounding.    *)
Second == 2

(* probe_blocking, with classify_by_name.                                   *)
Probed(host, volume, fails) ==
  LET name == NameOn(host, volume) IN
  [caseSensitive |-> CaseSensitive(host, volume, fails),
   sizeLimit     |-> name \in FatFamily,
   windowsNames  |-> name \in FatFamily \cup {"exfat", "ntfs"},
   granularity   |-> IF name \in FatFamily \cup {"exfat"} THEN 2 * Second ELSE 0,
   integrityRisk |-> name = "exfat" /\ host = "macos"]

(* Does the probe know whether the volume folds case?                       *)
TellsCase(host, volume, fails) ==
  CASE host = "macos" -> ~fails
    [] host = "linux" -> ~fails /\ NameOnLinux(volume.name) # "unknown"
    [] host = "windows" -> volume.name \in FatFamily \cup {"exfat", "ntfs"}
    [] OTHER -> FALSE
=============================================================================
