---------------------------- MODULE MCApiSession ----------------------------
(* Versions around 5.5.0, one that would fold into the same number with a      *)
(* smaller factor, one of two numbers.                                         *)
EXTENDS ApiSession, TLC

CONSTANTS a1, a2, a3, a4

MCAuths == {a1, a2, a3, a4}
MCApiVersion == [a \in MCAuths |->
    CASE a = a1 -> <<6, 7, 3>> [] a = a2 -> <<5, 1, 45>> [] a = a3 -> <<6, 5>>
      [] a = a4 -> <<7, 0, 1, 0>>]

CallSymmetry == Permutations(Calls)
=============================================================================
