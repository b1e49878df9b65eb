------------------------ MODULE MCClientTransactions ------------------------
(***************************************************************************)
(* Two clicks on any two panels: a flow beside another, or a retry after   *)
(* it.  A compliance transaction is a fee without its publication, a       *)
(* backstop withdrawal a deposit's second leg, and the hook's borrow the   *)
(* second leg of its supply.                                               *)
(***************************************************************************)
EXTENDS ClientTransactions, TLC

MCKinds == {"supply", "borrow", "deposit", "fee", "hookSupply",
            "vote", "mainnet"}
=============================================================================
