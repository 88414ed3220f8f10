------------------------------- MODULE MCSync -------------------------------
(* One accented name in both Unicode forms and a plain one, or one name in  *)
(* two cases.  x and y are contents of one size.                           *)
EXTENDS Sync

CONSTANTS nfc, nfd, w, lower, upper, x, y

MCNfc == [n \in Name |-> IF n = nfd THEN nfc ELSE n]
MCKey == [n \in Name |-> IF n = upper THEN lower ELSE MCNfc[n]]
Apart == [n \in Name |-> n]

On(host, name, folds, slots, step) ==
  [host |-> host, volume |-> [name |-> name, folds |-> folds],
   slots |-> slots, resolution |-> step]

(* Volumes that fold the two forms: one that tells case apart, one that     *)
(* rounds to two seconds, and one that rounds to one, which the probe does  *)
(* not know; and a volume that keeps the forms apart.                       *)
MCMounts == {On("macos", "apfs", FALSE, MCNfc, 0), On("macos", "exfat", TRUE, MCNfc, 2 * Second),
             On("macos", "hfs", TRUE, MCNfc, Second), On("linux", "ext4", FALSE, Apart, 0)}

(* A destination that preserves case without distinguishing it.             *)
CaseMounts == {On("macos", "apfs", TRUE, MCKey, 0)}

MCSizeOf == [d \in Data \cup {Partial} |-> IF d = Partial THEN 0 ELSE 1]

Empty == [n \in Name |-> NoFile]
With(files, k, n, d, t) == [i \in Name |-> IF i = k THEN FileOf(n, d, t) ELSE files[i]]

MCSources0 == {With(Empty, nfc, nfc, x, 1)}
MCDests0   == {Empty, With(With(Empty, nfc, nfd, x, 0), w, w, x, 0),
               With(With(Empty, nfd, nfd, y, 0), w, w, x, 0)}

CaseSources0 == {With(Empty, lower, lower, x, 1)}
CaseDests0   == {With(Empty, lower, upper, y, 0), Empty}
=============================================================================
