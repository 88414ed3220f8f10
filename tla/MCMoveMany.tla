----------------------------- MODULE MCMoveMany -----------------------------
(* A single file, a directory of two files and an empty directory.          *)
EXTENDS MoveMany
CONSTANTS f, g, h, first, folder, empty
Three == <<first, folder, empty>>
MCFilesOf == [s \in Source |-> CASE s = first -> {f} [] s = folder -> {g, h} [] OTHER -> {}]
=============================================================================
