----------------------------- MODULE MCEncoding -----------------------------
(***************************************************************************)
(* Instructions for the model-checking run of Encoding: immediates on both *)
(* sides of every boundary of the encoding, jumps over instructions of     *)
(* every size, and doubles whose bytes look like instructions.             *)
(***************************************************************************)
EXTENDS Encoding

I(number, args) == [op |-> number, arg |-> args]

Boundaries == {-2147483647 - 1, -129, -128, -127, -1, 0, 126, 127, 128, 255, 256, 2147483647}
Doubles == {<<128, 3, 10, 255, 0, 4, 128, 128>>, <<0, 0, 0, 0, 0, 0, 240, 63>>}

Letters ==
  {I(2, <<n>>) : n \in Boundaries}
    \cup {I(3, <<n>>) : n \in {-2, -9, 0, 2, 11, 300}} \cup {I(4, <<3>>), I(5, <<8>>)}
    \cup {I(ConstNum, d) : d \in Doubles}
    \cup {I(ConstMisc, <<2>>), I(8, <<6>>), I(9, <<16>>), I(16, <<>>)}

=============================================================================
