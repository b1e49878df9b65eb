-------------------------- MODULE MCClientSession --------------------------
(* Two wallets of one user. *)
EXTENDS ClientSession, TLC

CONSTANTS w1, w2
MCWallets == {w1, w2}
=============================================================================
