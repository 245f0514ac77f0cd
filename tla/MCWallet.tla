------------------------------ MODULE MCWallet ------------------------------
(* Model-checking instance of Wallet.  Sessions are interchangeable, but the *)
(* run checks a liveness property, so no symmetry set is declared.           *)
EXTENDS Wallet
=============================================================================
