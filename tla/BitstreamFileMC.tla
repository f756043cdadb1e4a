-------------------------- MODULE BitstreamFileMC ---------------------------
(***************************************************************************)
(* Instances of BitstreamFile.  Contexts: a fair one, and two whose zero,  *)
(* or one, is so rare that its range is the smallest.  Groups of bypass    *)
(* bins: fewer than, exactly and more than eight, all zero, all one and    *)
(* one alone.  The openings leave bytes 0xff held back, with and without a *)
(* carry still possible, or leave a range of 256.  Payloads are all short  *)
(* strings of the bytes that framing tells apart.                          *)
(***************************************************************************)
EXTENDS BitstreamFile, TLC

MCModels == "fair" :> <<16384, 16384>> @@ "one" :> <<32767, 32700>> @@ "zero" :> <<20, 600>>
MCSymbols ==
  {<<"bin", c, b>> : c \in {"fair", "one", "zero"}, b \in {0, 1}}
  \cup {<<"ep", 0>>, <<"ep", 1>>, <<"trm">>, <<"pcm", <<5, 0>>, 4>>, <<"pcm", <<255>>, 8>>}
  \cup {<<"eps", 0, 3>>, <<"eps", 7, 3>>, <<"eps", 255, 8>>, <<"eps", 128, 8>>, <<"eps", 511, 9>>,
        <<"eps", 1, 16>>, <<"eps", 65535, 16>>, <<"eps", 65536, 17>>}
MCOpenings ==
  {<<>>, <<<<"eps", 32896, 16>>, <<"eps", 32896, 16>>>>, <<<<"eps", 257, 16>>, <<"eps", 257, 16>>>>,
   <<<<"bin", "fair", 1>>, <<"eps", 32767, 16>>, <<"eps", 65535, 16>>>>}
Strings(n) == UNION {[1 .. k -> {0, 1, 3, 128}] : k \in 1 .. n}
MCPayloads == {s \in Strings(5) : Last(s) # 0}
MCCompanions ==
  {[type |-> u[1], rbsp |-> u[2], words |-> 0] :
     u \in {<<0, <<0, 0, 1>>>>, <<34, <<128>>>>, <<39, <<128>>>>, <<40, <<0, 0, 1>>>>}}
=============================================================================
