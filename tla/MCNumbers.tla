----------------------------- MODULE MCNumbers -----------------------------
(***************************************************************************)
(* The number routines on small words, for every operand and every int.    *)
(***************************************************************************)
EXTENDS Numbers

MCCode ==
  ("0" :> 48) @@ ("1" :> 49) @@ ("2" :> 50) @@ ("3" :> 51) @@ ("4" :> 52) @@ ("5" :> 53)
  @@ ("6" :> 54) @@ ("7" :> 55) @@ ("8" :> 56) @@ ("9" :> 57)
  @@ (" " :> 32) @@ ("-" :> 45) @@ ("%" :> 37) @@ ("A" :> 65) @@ ("a" :> 97)
  @@ ("X" :> 88) @@ ("c" :> 99) @@ ("d" :> 100) @@ ("i" :> 105) @@ ("s" :> 115) @@ ("u" :> 117)
  @@ ("x" :> 120)

(* Those of the kernel with their widths scaled, the one of memory.c whose *)
(* 8 stands after the conversion, a width of more digits than one, and one *)
(* that ends too early.                                                    *)
MCFormats ==
  {<<"%", "d">>, <<"%", "0", "3", "d">>, <<"%", "5", "d">>, <<"%", "u">>, <<"%", "1", "2", "u">>,
   <<"%", "x">>, <<"%", "X">>, <<"%", "0", "2", "X">>, <<"%", "0", "X", "8">>, <<"%", "0", "4", "X">>,
   <<"a", "%", "%">>, <<"%", "c", " ">>, <<"%", "4", "s">>, <<"%", "i">>, <<"a", "%", "0", "4">>}

MCStrings == {<<>>, <<97>>, <<97, 97, 97, 97, 97>>}
=============================================================================
