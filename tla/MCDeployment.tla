---------------------------- MODULE MCDeployment ----------------------------
(***************************************************************************)
(* Two issued assets, one of them listed beside xlm.  Each plan repeats a  *)
(* deployment, pays twice, or seeds before deploying; three testnet        *)
(* runs are enough to get through after one fault.                         *)
(***************************************************************************)
EXTENDS Deployment, TLC

MCAssets == <<"usdc", "wbtc">>
MCMarkets == <<"xlm", "usdc">>
MCFeeds == <<"reflector">>
MCEnvFiles == <<"client", "root", "server">>
MCPresent == {"client", "server"}
MCPlans == {<<"testnet", "testnet", "testnet">>, <<"mainnet", "mainnet">>, <<"pay", "pay">>,
            <<"seed", "testnet">>}
=============================================================================
