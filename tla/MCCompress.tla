----------------------------- MODULE MCCompress -----------------------------
(* A stream, a batch of two, and a second stream.                          *)
EXTENDS Compress

CONSTANTS a, b, c, d

MCUnits == <<<<a>>, <<b, c>>, <<d>>>>
=============================================================================
