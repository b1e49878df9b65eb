------------------------------- MODULE Services -------------------------------
(***************************************************************************)
(* The parts that keep a small state of their own: the governance, oracle  *)
(* and token contracts, and of the server and the keepers the proposals,   *)
(* the published price of an asset, the faucet and the flash loan filler.  *)
(*                                                                         *)
(* The routes of server/src/routes/index.ts keep the latter apart, and     *)
(* nothing in the repository calls from one of these contracts into the    *)
(* other: no two parts share a variable, so a behaviour follows one.       *)
(***************************************************************************)
EXTENDS Governance, OracleAggregator, Token, Proposals, PriceService, Faucet, FlashFiller

VARIABLE part      \* the part this behaviour follows

Parts == {"governance", "oracle", "token", "proposals", "prices", "faucet", "filler"}
contractVars == <<governanceVars, oracleVars, tokenVars>>
serverVars == <<proposalVars, priceVars, faucetVars, fillerVars>>
vars == <<part, contractVars, serverVars>>

TypeOK ==
  /\ part \in Parts /\ GovernanceTypeOK /\ OracleTypeOK /\ TokenTypeOK
  /\ ProposalsTypeOK /\ PricesTypeOK /\ FaucetTypeOK /\ FillerTypeOK

\* The initial values of a part that is not followed do not matter.
Init ==
  /\ part \in Parts
  /\ GovernanceInit
  /\ OracleInit
  /\ part # "oracle" => builtIn = Min(BuiltInPrices) /\ \A f \in Feeds : quotes[f].price = 0
  /\ TokenInit
  /\ ProposalsInit /\ (part # "proposals" => ~useDb)
  /\ PricesInit /\ (part # "prices" => feed = 0 /\ seed = Min(SeedPrices))
  /\ FaucetInit /\ FillerInit

GovernanceStep ==
  part = "governance" /\ GovernanceNext /\ UNCHANGED <<part, oracleVars, tokenVars, serverVars>>

OracleStep ==
  part = "oracle" /\ OracleNext /\ UNCHANGED <<part, governanceVars, tokenVars, serverVars>>

TokenStep ==
  part = "token" /\ TokenNext /\ UNCHANGED <<part, governanceVars, oracleVars, serverVars>>

ProposalsStep ==
  /\ part = "proposals" /\ ProposalsNext
  /\ UNCHANGED <<part, contractVars, priceVars, faucetVars, fillerVars>>

PricesStep ==
  /\ part = "prices" /\ PricesNext
  /\ UNCHANGED <<part, contractVars, proposalVars, faucetVars, fillerVars>>

FaucetStep ==
  /\ part = "faucet" /\ FaucetNext
  /\ UNCHANGED <<part, contractVars, proposalVars, priceVars, fillerVars>>

FillerStep ==
  /\ part = "filler" /\ FillerNext
  /\ UNCHANGED <<part, contractVars, proposalVars, priceVars, faucetVars>>

Next ==
  \/ GovernanceStep \/ OracleStep \/ TokenStep
  \/ ProposalsStep \/ PricesStep \/ FaucetStep \/ FillerStep

Spec == Init /\ [][Next]_vars
=============================================================================
