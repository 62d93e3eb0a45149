----------------------------- MODULE MCDeposit ------------------------------
(* Small instances of Deposit.                                              *)
EXTENDS Deposit

CONSTANTS m, z1, z2, c1, c2

OneManual == {m}
OneOnline == {z1}
TwoOnline == {z1, z2}
Everything == {m, z1, z2}
TwoCallbacks == {c1, c2}

=============================================================================
