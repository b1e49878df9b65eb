----------------------------- MODULE Deployment -----------------------------
(***************************************************************************)
(* The operator's scripts: client/deploy-and-setup.js ("testnet"),         *)
(* scripts/deploy-mainnet.js ("mainnet"), scripts/seed-liquidity.ts        *)
(* ("seed") and client/mint_testnet_ergo.js ("pay").                       *)
(*                                                                         *)
(* Each script is a fixed list of steps, each of which sends at most one   *)
(* transaction and waits for it.  The ledger keeps what landed, as a bag   *)
(* of facts; a run keeps only its place and the addresses it made.  A      *)
(* fault loses a transaction, fails a request, kills the process or makes  *)
(* the script give up on a transaction that lands later.  Plans says which *)
(* scripts the operator starts, one after the other.                       *)
(***************************************************************************)
EXTENDS Naturals, Sequences, FiniteSets, Bags, BagsExt, SequencesExt

CONSTANTS
  Assets,          \* the issued assets, in order
  Markets,         \* the markets' assets, in order: "xlm" and some of Assets
  Feeds,           \* the price feeds of deploy-mainnet.js, in order
  EnvFiles,        \* the env files both deployments write, in order
  Present,         \* those that exist before the first run
  Plans,           \* sequences of scripts
  MaxFaults

Roles == {"oracle", "backstop", "compliance", "pool", "engine", "governance", "token"}
Scripts == {"testnet", "mainnet", "seed", "pay"}

ASSUME PlansAssumption == Plans \subseteq Seq(Scripts) /\ MaxFaults \in Nat
\* The lists are literals of the scripts; no market is listed twice.
ASSUME NamesAssumption ==
  /\ \A list \in {Assets, Markets, Feeds, EnvFiles} : list \in Seq(STRING)
  /\ IsInjective(Markets) /\ EnvFiles # <<>>
  /\ Present \subseteq ToSet(EnvFiles) /\ ToSet(Markets) \subseteq ToSet(Assets) \cup {"xlm"}

VARIABLES
  plan,            \* the plan the operator follows
  treasury,        \* TREASURY_SECRET_KEY is set
  run, pc,         \* the run (its place in the plan) and its step (0: none)
  tx,              \* the step's transaction: "none", "sent", "landed", "dead"
  ledger,          \* bag of facts
  orphans,         \* facts of transactions no run waits for any more
  env,             \* env file -> run whose addresses it names (0: none)
  faults

vars == <<plan, treasury, run, pc, tx, ledger, orphans, env, faults>>

Script(r) == plan[r]
-----------------------------------------------------------------------------
(* Contracts are named <<role, run>>: each run salts its own.  What exists *)
(* before is <<role, 0>>.                                                  *)

Ref(role, r) ==
  CASE Script(r) = "mainnet" /\ role \in {"oracle", "compliance", "token"} -> <<role, 0>>
    [] Script(r) = "mainnet" /\ role \in {"backstop", "governance"} -> <<"compliance", 0>>
    [] Script(r) = "mainnet" /\ role \in {"pool", "engine"} -> <<role, r>>
    [] Script(r) = "testnet" /\ role \in Roles -> <<role, r>>
    [] OTHER -> <<role, 0>>

Fact(kind, on, to) == [kind |-> kind, on |-> on, to |-> to]
Has(f) == BagIn(f, ledger)
HasKind(kind, on) == \E f \in BagToSet(ledger) : f.kind = kind /\ f.on = on

\* What a step puts on the ledger.
StepFact(op, x, r) ==
  CASE op \in {"wasm", "account", "trust", "tokens", "sac", "mint", "pay"}
         -> Fact(op, <<x, 0>>, <<>>)
    [] op = "contract" -> Fact(op, Ref(x, r), <<>>)
    [] op = "init" -> Fact(op, Ref(x, r),
         CASE x = "engine" -> <<Ref("pool", r), Ref("backstop", r), <<"usdc", 0>>>>
           [] x = "backstop" -> <<Ref("engine", r), <<"usdc", 0>>>>
           [] OTHER -> <<>>)
    [] op = "dep" -> Fact(op, Ref("pool", r), <<<<x, 0>>, Ref(x, r)>>)
    [] op \in {"market", "approve", "supply"} -> Fact(op, Ref("pool", r), <<<<x, 0>>>>)
    [] op = "issuer" -> Fact(op, Ref("compliance", r), <<<<x, 0>>>>)
    [] op = "feed" -> Fact(op, Ref("oracle", r), <<<<x, 0>>>>)
    [] OTHER -> Fact(op, <<x, 0>>, <<>>)

Step(op, x) == [op |-> op, x |-> x]
ForEach(op, xs) == [i \in DOMAIN xs |-> Step(op, xs[i])]
\* Two steps for each, one after the other.
ForEachBoth(first, second, xs) ==
  [i \in 1..(2 * Len(xs)) |->
     IF i % 2 = 1 THEN Step(first, xs[(i + 1) \div 2]) ELSE Step(second, xs[i \div 2])]

\* deployContract: the wasm, if it is not installed, then the instance.
Deploys(roles) == ForEachBoth("wasm", "contract", roles)

\* seedLiquidity: approve, then supply.
Seeds(ms) == ForEachBoth("approve", "supply", ms)

\* deploy-and-setup.js, main.
TestnetAssets ==
  ForEach("account", Assets) \o ForEach("trust", Assets) \o ForEach("tokens", Assets)
  \o ForEach("sac", Assets)
TestnetListings == ForEach("market", Markets) \o ForEach("issuer", Markets)
TestnetSeeding == Seeds(Markets)
TestnetSteps ==
  Deploys(<<"oracle", "backstop", "compliance", "pool", "engine", "governance">>)
  \o TestnetAssets
  \o ForEach("init", <<"oracle", "compliance", "pool">>)
  \o ForEach("dep", <<"oracle", "backstop", "compliance", "engine">>)
  \o ForEach("init", <<"backstop", "engine", "governance">>)
  \o TestnetListings \o TestnetSeeding \o ForEach("env", EnvFiles)

\* deploy-mainnet.js, main.
MainnetListings == ForEach("feed", Feeds) \o ForEach("market", Markets)
MainnetSeeding == Seeds(Markets)
MainnetSteps ==
  Deploys(<<"engine", "pool">>)
  \o ForEach("init", <<"oracle", "compliance", "token">>) \o <<Step("mint", "treasury")>>
  \o ForEach("init", <<"engine", "pool">>)
  \o ForEach("dep", <<"oracle", "backstop", "compliance", "engine", "governance">>)
  \o MainnetListings \o MainnetSeeding \o ForEach("env", EnvFiles)

\* The other scripts' main.
SeedSteps == Seeds(Markets)
PaySteps == <<Step("pay", "wallet")>>

\* Mutant: the addresses are written as soon as the contracts exist.
StepsEnvFirst(r) ==
  CASE Script(r) = "testnet" -> ForEach("env", EnvFiles) \o TestnetSteps
    [] Script(r) = "mainnet" -> MainnetSteps
    [] OTHER -> <<>>
Steps(r) ==
  CASE Script(r) = "testnet" -> TestnetSteps
    [] Script(r) = "mainnet" -> MainnetSteps
    [] Script(r) = "seed" -> SeedSteps
    [] Script(r) = "pay" -> PaySteps

Current == Steps(run)[pc]
CurrentFact == StepFact(Current.op, Current.x, run)
AtStep == pc # 0 /\ pc <= Len(Steps(run))
-----------------------------------------------------------------------------
(* The ledger: what a transaction needs to succeed. *)

\* initialize of each contract: once.
MayInit(f) == HasKind("contract", f.on) /\ ~HasKind("init", f.on)

Succeeds(f, r) ==
  LET op == f.kind
      to == f.to[1][1]
      SacOf(m) == m = "xlm" \/ Has(Fact("sac", <<m, 0>>, <<>>)) \/ Script(r) = "mainnet"
  IN
    CASE op = "wasm" -> TRUE
      [] op = "contract" -> Has(Fact("wasm", <<f.on[1], 0>>, <<>>))
      [] op = "account" -> ~Has(f)
      [] op = "trust" -> Has(Fact("account", f.on, <<>>))
      [] op = "tokens" -> Has(Fact("trust", f.on, <<>>))
      [] op = "sac" -> ~Has(f)
      [] op = "init" -> MayInit(f)
      [] op = "mint" -> HasKind("init", <<"token", 0>>)
      [] op \in {"dep", "issuer", "feed"} -> HasKind("init", f.on)
      [] op = "market" -> HasKind("init", f.on) /\ ~Has(f)
      [] op = "approve" -> SacOf(to) /\ Script(r) # "seed"
      [] op = "supply" -> Has(Fact("market", f.on, f.to)) /\ SacOf(to)
      [] OTHER -> TRUE

\* The account that signs, whose sequence number the transaction takes.
Source(f, r) ==
  CASE f.kind = "tokens" -> f.on
    [] f.kind \in {"approve", "supply"} /\ Script(r) = "mainnet" -> <<"treasury", 0>>
    [] OTHER -> <<"admin", 0>>

TypeOK ==
  /\ plan \in Plans /\ treasury \in BOOLEAN
  /\ run \in 0..Len(plan) /\ pc \in Nat /\ (pc # 0 => run # 0)
  /\ tx \in {"none", "sent", "landed", "dead"} /\ (tx # "none" => AtStep)
  /\ IsABag(ledger)
  /\ env \in [ToSet(EnvFiles) -> 0..Len(plan)]
  /\ \A o \in orphans : o.run \in 1..run
  /\ faults \in 0..MaxFaults

Init ==
  /\ plan \in Plans /\ treasury \in BOOLEAN
  /\ run = 0 /\ pc = 0 /\ tx = "none"
  /\ ledger = SetToBag({Fact("contract", <<role, 0>>, <<>>) :
                          role \in {"oracle", "compliance", "token", "pool"}})
  /\ orphans = {} /\ env = [f \in ToSet(EnvFiles) |-> 0]
  /\ faults = 0
-----------------------------------------------------------------------------
(* A run. *)

\* The operator starts the next script of the plan.
Begin ==
  /\ pc = 0 /\ run < Len(plan)
  /\ run' = run + 1 /\ pc' = 1
  /\ UNCHANGED <<plan, treasury, tx, ledger, orphans, env, faults>>

NextStep == pc' = pc + 1 /\ tx' = "none"

\* Where an error leads: deploy-mainnet.js gives its seeding up and goes on with
\* the env files; else the run ends.
AfterError ==
  IF Script(run) = "mainnet" /\ Current.op \in {"approve", "supply"}
  THEN CHOOSE i \in DOMAIN Steps(run) : /\ Steps(run)[i].op = "env"
                                        /\ Steps(run)[i - 1].op # "env"
  ELSE 0

Fault == faults < MaxFaults /\ faults' = faults + 1

\* Steps that look before they send, and what they look for.
Checked == {"wasm", "account", "trust", "tokens", "sac"}
DoneUnseen(f) == f.kind = "tokens" /\ Has(f)  \* mutant: only balances are looked up
Done(f) == f.kind \in Checked /\ Has(f)

\* What the step would make is there already.
Skip ==
  /\ AtStep /\ tx = "none" /\ Done(CurrentFact)
  /\ NextStep
  /\ UNCHANGED <<plan, treasury, run, ledger, orphans, env, faults>>

\* Without a treasury key deploy-mainnet.js does not seed.
SkipSeeding ==
  /\ AtStep /\ tx = "none" /\ Script(run) = "mainnet" /\ Current.op = "approve" /\ ~treasury
  /\ pc' = AfterError /\ tx' = tx
  /\ UNCHANGED <<plan, treasury, run, ledger, orphans, env, faults>>

\* The lookup, when it fails, counts as "not there" in each helper but
\* ensureAdminTokens; simulate, sign, send.
Sends ==
  /\ AtStep /\ tx = "none" /\ Current.op # "env"
  /\ (Script(run) = "mainnet" /\ Current.op = "approve" => treasury)
  /\ LET f == CurrentFact IN
       \/ ~Done(f) /\ faults' = faults
       \/ Done(f) /\ f.kind \in Checked \ {"tokens"} /\ Fault

SendTx ==
  /\ Sends /\ Succeeds(CurrentFact, run)
  /\ tx' = "sent"
  /\ UNCHANGED <<plan, treasury, run, pc, ledger, orphans, env>>

Abort == pc' = AfterError /\ tx' = "none"

\* The simulation reports an error.
SimulationFails ==
  /\ Sends /\ ~Succeeds(CurrentFact, run)
  /\ Abort
  /\ UNCHANGED <<plan, treasury, run, ledger, orphans, env>>

\* A transaction of the same source that landed first has used the number.
Lands ==
  /\ tx = "sent" /\ Succeeds(CurrentFact, run)
  /\ ledger' = BagAdd(ledger, CurrentFact)
  /\ orphans' = {o \in orphans : Source(o.fact, o.run) # Source(CurrentFact, run)}
  /\ tx' = "landed"
  /\ UNCHANGED <<plan, treasury, run, pc, env, faults>>

OrphanLands ==
  \E o \in orphans :
    /\ orphans' = orphans \ {o}
    /\ ledger' = IF Succeeds(o.fact, o.run) THEN BagAdd(ledger, o.fact) ELSE ledger
    /\ tx' = IF tx = "sent" /\ Source(CurrentFact, run) = Source(o.fact, o.run)
             THEN "dead" ELSE tx
    /\ UNCHANGED <<plan, treasury, run, pc, env, faults>>

\* The polls see SUCCESS.
Confirm ==
  /\ tx = "landed"
  /\ NextStep
  /\ UNCHANGED <<plan, treasury, run, ledger, orphans, env, faults>>

\* The transaction is lost or another one took its number: its 30 polls of 2 s last as
\* long as its 60 s of validity, so that it cannot land afterwards.
GivesUpResend ==                               \* mutant: sends it again
  /\ tx \in {"sent", "landed"} /\ Fault
  /\ tx' = "sent"
  /\ UNCHANGED <<plan, treasury, run, pc, ledger, orphans, env>>
GivesUp ==
  /\ \/ tx = "dead" /\ faults' = faults
     \/ tx = "sent" /\ Fault
  /\ Abort
  /\ UNCHANGED <<plan, treasury, run, ledger, orphans, env>>

\* A request throws while the script works on a step: nothing was sent yet, or
\* the transaction is on its own from here.
RequestFails ==
  /\ AtStep /\ Current.op # "env" /\ Fault
  /\ Abort
  /\ orphans' = IF tx = "sent" THEN orphans \cup {[fact |-> CurrentFact, run |-> run]}
                ELSE orphans
  /\ UNCHANGED <<plan, treasury, run, ledger, env>>

\* deploy-mainnet.js and, for the server's, deploy-and-setup.js leave out env
\* files that are not there.
Writes(file) ==
  \/ file \in Present \/ env[file] # 0
  \/ Script(run) = "testnet" /\ file # EnvFiles[Len(EnvFiles)]

\* One env file is written.
WriteEnv ==
  /\ AtStep /\ Current.op = "env"
  /\ env' = IF Writes(Current.x) THEN [env EXCEPT ![Current.x] = run] ELSE env
  /\ NextStep
  /\ UNCHANGED <<plan, treasury, run, ledger, orphans, faults>>

\* The process is killed between two env files.
Killed ==
  /\ AtStep /\ Current.op = "env" /\ Fault
  /\ pc' = 0
  /\ UNCHANGED <<plan, treasury, run, tx, ledger, orphans, env>>

\* The script ends.
Ends ==
  /\ pc # 0 /\ ~AtStep
  /\ pc' = 0
  /\ UNCHANGED <<plan, treasury, run, tx, ledger, orphans, env, faults>>
-----------------------------------------------------------------------------
Working == Skip \/ SkipSeeding \/ SendTx \/ SimulationFails \/ Lands \/ Confirm
           \/ GivesUp \/ WriteEnv \/ Ends

Next == Begin \/ Working \/ OrphanLands \/ RequestFails \/ Killed

\* A script runs on by itself, the network applies what it accepts, and the
\* operator goes through the plan.  Faults and orphans have no fairness.
Spec == Init /\ [][Next]_vars /\ WF_vars(Begin) /\ WF_vars(Working)
-----------------------------------------------------------------------------
(* Properties. *)

\* All that the scripts set up of the system a run's env files name.  It is less
\* than the contracts know of: neither script calls the Compliance contract's
\* set_core_pool, so that its clawbacks leave the pool alone, the testnet's oracle
\* gets no feed, and on mainnet the Backstop and Governance are the Compliance
\* contract, which is initialised as such.
SetUp(r) ==
  LET at(role) == Ref(role, r)
      testnet == Script(r) = "testnet"
      wired == {"oracle", "backstop", "compliance", "engine"}
               \cup (IF testnet THEN {} ELSE {"governance"}) IN
    /\ \A role \in Roles : (role = "token" => ~testnet) => HasKind("init", at(role))
    /\ Has(Fact("init", at("engine"), <<at("pool"), at("backstop"), <<"usdc", 0>>>>))
    /\ testnet => Has(Fact("init", at("backstop"), <<at("engine"), <<"usdc", 0>>>>))
    /\ \A role \in wired : Has(Fact("dep", at("pool"), <<<<role, 0>>, at(role)>>))
    /\ \A m \in ToSet(Markets) :
         /\ Has(Fact("market", at("pool"), <<<<m, 0>>>>))
         /\ testnet => Has(Fact("issuer", at("compliance"), <<<<m, 0>>>>))
    /\ ~testnet => \A x \in ToSet(Feeds) : Has(Fact("feed", at("oracle"), <<<<x, 0>>>>))

\* An env file names only contracts that are set up on the ledger as far as the
\* scripts set them up at all: whatever was lost, given up on or killed before,
\* the client and the server are never pointed at contracts of an earlier step
\* (main of both deployments).
EnvNamesASetUpSystem ==
  /\ TypeOK
  /\ \A f \in ToSet(EnvFiles) : env[f] # 0 => SetUp(env[f])

\* No pool is seeded twice in one market and the treasury is minted once over
\* all runs: no script sends again what it gave up on, and a mainnet run
\* that repeats the initialisation stops before the mint (sendTx, main).  Each
\* deployment seeds a pool of its own and "seed" never gets past its first
\* approve; a payment that is asked for again is paid again, as meant.
NothingPaidTwice ==
  \A f \in BagToSet(ledger) : f.kind \in {"supply", "mint"} => ledger[f] = 1

\* A testnet deployment that is started again after failures gets through in
\* the end: each step finds what earlier runs left behind.  A fault may cost two
\* runs, its own and the one its orphan takes the sequence number of.  (A
\* mainnet deployment may not: its fixed contracts cannot be initialised again.)
TestnetGetsThrough ==
  (plan # <<>> /\ \A r \in DOMAIN plan : Script(r) = "testnet")
    ~> (2 * faults >= Len(plan) \/ \A f \in Present : env[f] # 0)
=============================================================================
