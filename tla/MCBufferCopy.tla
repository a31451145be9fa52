---------------------------- MODULE MCBufferCopy ----------------------------
(* Four pages of four bytes and chunks of four, in words of two: a chunk   *)
(* may straddle two pages, the longer data take two chunks, and while two  *)
(* such buffers are compared there is room for a third one, in front,      *)
(* between or behind, that is allocated, freed and merged.                 *)
EXTENDS BufferCopy

\* Data that differ in the last byte, or in length.
MCTexts == {<<>>, <<0, 0, 0, 0, 0>>, <<0, 0, 0, 0, 1>>}
=============================================================================
