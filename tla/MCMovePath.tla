----------------------------- MODULE MCMovePath -----------------------------
(* Moving a file, or a directory of two files.                             *)
EXTENDS MovePath
CONSTANTS f, g
=============================================================================
