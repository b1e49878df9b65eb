----------------------------- MODULE Governance -----------------------------
(***************************************************************************)
(* The governance contract: proposals on whitelisted targets, votes, the   *)
(* quorum and the threshold, the timelock and the execution.               *)
(*                                                                         *)
(* A call that returns an error stores nothing, so an error path is no     *)
(* step; finalize_proposal's Defeated is such a write, and a proposal that *)
(* lost stays Active for good.  distribute_emissions changes no state of   *)
(* this contract.                                                          *)
(***************************************************************************)
EXTENDS Integers, FiniteSets

CONSTANTS
  Voters, Targets,
  Types,           \* the types of proposal that are made
  Weight,          \* of a vote: 100
  TotalPower,      \* 10,000
  VotingPeriod,    \* 86,400 s
  PauseDelay, AllocationDelay, Delay,  \* timelocks in ledgers: 10, 2000, 500
  MaxProposals, MaxSequence            \* bounds

ProposalTypes == {"MarketPauseResume", "OracleCircuitBreakerOverride",
                  "BackstopAllocationDecision", "CompliancePermissioning", "RiskParamUpdate"}

ASSUME TypesAssumption == Types \subseteq ProposalTypes
ASSUME NumbersAssumption ==
  /\ Weight \in Nat /\ TotalPower \in Nat /\ VotingPeriod \in Nat
  /\ PauseDelay \in Nat /\ AllocationDelay \in Nat /\ Delay \in Nat
  /\ MaxProposals \in Nat /\ MaxSequence \in Nat

VARIABLES
  hasAdmin,        \* initialize was called
  whitelist,
  count,           \* ProposalCount
  proposals,
  ballots,         \* the Voted keys, with each voter's choice
  now, sequence,   \* the ledger's clock and its number
  trace            \* history of each proposal: the ledger it was finalized in,
                   \* the number of calls to its target and the ledger of the last

governanceVars == <<hasAdmin, whitelist, count, proposals, ballots, now, sequence, trace>>

ProposalIds == 1..MaxProposals
ProposalRecords ==
  [target : Targets \cup {"none"}, kind : ProposalTypes, status : 0..3, executed : BOOLEAN,
   votesFor : Nat, votesAgainst : Nat, endTime : Nat, eta : Nat]
Ballots == [id : ProposalIds, voter : Voters, support : BOOLEAN]
Traces == [closed : Nat, calls : Nat, at : Nat]
NoProposal ==
  [target |-> "none", kind |-> "RiskParamUpdate", status |-> 0, executed |-> FALSE,
   votesFor |-> 0, votesAgainst |-> 0, endTime |-> 0, eta |-> 0]
NoTrace == [closed |-> 0, calls |-> 0, at |-> 0]

GovernanceTypeOK ==
  /\ hasAdmin \in BOOLEAN /\ whitelist \subseteq Targets
  /\ count \in 0..MaxProposals
  /\ proposals \in [ProposalIds -> ProposalRecords]
  /\ ballots \subseteq Ballots
  /\ now \in Nat /\ sequence \in Nat
  /\ trace \in [ProposalIds -> Traces]

GovernanceInit ==
  /\ hasAdmin = FALSE /\ whitelist = {} /\ count = 0
  /\ proposals = [id \in ProposalIds |-> NoProposal] /\ ballots = {}
  /\ now = 0 /\ sequence = 0
  /\ trace = [id \in ProposalIds |-> NoTrace]
-----------------------------------------------------------------------------
GovernanceInitialize ==
  /\ ~hasAdmin /\ hasAdmin' = TRUE
  /\ UNCHANGED <<whitelist, count, proposals, ballots, now, sequence, trace>>

\* The admin's only.
SetWhitelisted(target, whitelisted) ==
  /\ hasAdmin
  /\ whitelist' = IF whitelisted THEN whitelist \cup {target} ELSE whitelist \ {target}
  /\ UNCHANGED <<hasAdmin, count, proposals, ballots, now, sequence, trace>>

CreateProposal(target, kind) ==
  /\ target \in whitelist /\ count < MaxProposals
  /\ count' = count + 1
  /\ proposals' = [proposals EXCEPT ![count + 1] =
       [NoProposal EXCEPT !.target = target, !.kind = kind, !.endTime = now + VotingPeriod]]
  /\ UNCHANGED <<hasAdmin, whitelist, ballots, now, sequence, trace>>

HasVoted(id, voter) == \E b \in ballots : b.id = id /\ b.voter = voter

Vote(voter, id, support) ==
  /\ id \in 1..count
  /\ now < proposals[id].endTime /\ proposals[id].status = 0
  /\ ~HasVoted(id, voter)
  /\ proposals' = [proposals EXCEPT
       ![id] = IF support
               THEN [proposals[id] EXCEPT !.votesFor = proposals[id].votesFor + Weight]
               ELSE [proposals[id] EXCEPT !.votesAgainst = proposals[id].votesAgainst + Weight]]
  /\ ballots' = ballots \cup {[id |-> id, voter |-> voter, support |-> support]}
  /\ UNCHANGED <<hasAdmin, whitelist, count, now, sequence, trace>>

TimelockForType(kind) ==
  CASE kind = "MarketPauseResume" -> PauseDelay
    [] kind = "BackstopAllocationDecision" -> AllocationDelay
    [] OTHER -> Delay

QuorumMet(p) == (p.votesFor + p.votesAgainst) * 100 >= TotalPower * 15
ThresholdMet(p) ==
  LET total == p.votesFor + p.votesAgainst
  IN total # 0 /\ p.votesFor * 100 >= total * 66

MayFinalizeAgain(p) == now >= p.endTime        \* mutant: in any status
MayFinalize(p) == now >= p.endTime /\ p.status = 0

FinalizeProposal(id) ==
  LET p == proposals[id] IN
  /\ id \in 1..count
  /\ MayFinalize(p) /\ QuorumMet(p) /\ ThresholdMet(p)
  /\ proposals' = [proposals EXCEPT
       ![id] = [p EXCEPT !.status = 1, !.eta = sequence + TimelockForType(p.kind)]]
  /\ trace' = [trace EXCEPT ![id] = [trace[id] EXCEPT !.closed = sequence]]
  /\ UNCHANGED <<hasAdmin, whitelist, count, ballots, now, sequence>>

\* The target's call succeeds; if it fails the whole call is undone.
ExecuteProposal(id) ==
  LET p == proposals[id] IN
  /\ id \in 1..count
  /\ ~p.executed /\ p.status = 1
  /\ p.target \in whitelist /\ sequence >= p.eta
  /\ proposals' = [proposals EXCEPT ![id] = [p EXCEPT !.executed = TRUE, !.status = 2]]
  /\ trace' = [trace EXCEPT
       ![id] = [trace[id] EXCEPT !.calls = trace[id].calls + 1, !.at = sequence]]
  /\ UNCHANGED <<hasAdmin, whitelist, count, ballots, now, sequence>>

LedgerCloses(seconds) ==
  /\ sequence < MaxSequence
  /\ sequence' = sequence + 1 /\ now' = now + seconds
  /\ UNCHANGED <<hasAdmin, whitelist, count, proposals, ballots, trace>>

GovernanceNext ==
  \/ GovernanceInitialize
  \/ \E target \in Targets, b \in BOOLEAN : SetWhitelisted(target, b)
  \/ \E target \in Targets, kind \in Types : CreateProposal(target, kind)
  \/ \E voter \in Voters, id \in ProposalIds, b \in BOOLEAN : Vote(voter, id, b)
  \/ \E id \in ProposalIds : FinalizeProposal(id) \/ ExecuteProposal(id)
  \/ \E seconds \in 1..2 : LedgerCloses(seconds)
-----------------------------------------------------------------------------
Side(id, support) == {b \in ballots : b.id = id /\ b.support = support}
Power(id, support) == Weight * Cardinality(Side(id, support))

\* Governance calls a target once for a proposal, a timelock after the proposal
\* was finalized, and only if the votes of different voters reached the quorum
\* and the threshold: whatever the order of votes, finalizations, executions,
\* and changes of the whitelist (vote, finalize_proposal, execute_proposal).
ExecutedWasDue ==
  \A id \in ProposalIds : trace[id].calls # 0 =>
    LET for == Power(id, TRUE)
        against == Power(id, FALSE)
    IN /\ trace[id].calls = 1
       /\ trace[id].at >= trace[id].closed + TimelockForType(proposals[id].kind)
       /\ (for + against) * 100 >= TotalPower * 15
       /\ for * 100 >= (for + against) * 66
=============================================================================
