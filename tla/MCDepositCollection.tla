------------------------ MODULE MCDepositCollection ------------------------
(* An instance for the model checker: the regular split pays two addresses, *)
(* each risk level of the AML check one of them.                            *)
EXTENDS DepositCollection, TLC
CONSTANTS t1, w1, w2, low, high, regular, a, b

MCSplit == [l \in {low, high, regular} |-> 
              IF l = regular THEN {a, b} ELSE IF l = low THEN {a} ELSE {b}]
Alike == Permutations({w1, w2})
=============================================================================
