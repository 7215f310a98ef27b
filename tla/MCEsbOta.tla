------------------------------ MODULE MCEsbOta ------------------------------
(* EsbOta for TLC: images of two or three pages, one too large to stage.   *)
EXTENDS EsbOta

MCImageSize == [i \in Images |-> CASE i = "a" -> 4 [] i = "b" -> 5 [] OTHER -> 7]
=============================================================================
