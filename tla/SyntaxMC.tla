------------------------------ MODULE SyntaxMC ------------------------------
(***************************************************************************)
(* Instances of SyntaxCoding.  Blocks: one and several coefficient groups  *)
(* of 4x4, the 2x2 groups of blocks with a side of two, and levels on both *)
(* sides of every threshold of the code (0, 1, 2, 4, the escape of the     *)
(* remainder and the largest level).  Vectors: differences that are        *)
(* multiples of each precision and differences that are not.               *)
(***************************************************************************)
EXTENDS SyntaxCoding
MCSizes  == {<<0, 4, 4>>, <<0, 8, 4>>, <<0, 8, 8>>, <<1, 2, 4>>, <<1, 8, 2>>, <<1, 4, 8>>}
MCLevels == {-32768, -5, 0, 1, 4, 20}
MCMvds   == {<<0, 0>>, <<1, 0>>, <<-2, 7>>, <<4, -8>>, <<-48, 16>>}
MCModes  == 0 .. 66
=============================================================================
