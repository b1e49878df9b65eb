---------------------------- MODULE ServicesProofs ----------------------------
(***************************************************************************)
(* The parts of Services, for any values of their constants: each part by  *)
(* itself, with the inductive invariant its property needs, and at the end *)
(* all of them as properties of Services.                                  *)
(***************************************************************************)
EXTENDS Services, TallyProofs

-----------------------------------------------------------------------------
(***************************************************************************)
(* The governance contract: types, and that a target is called only when   *)
(* its proposal was due.                                                   *)
(*                                                                         *)
(* ExecutedWasDue speaks of ballots and calls; the contract decides by the *)
(* tallies and the status.  Due ties them together for each proposal: the  *)
(* tallies are the weights of the ballots, a proposal past Active was      *)
(* carried by them, and each status allows only one number of calls.       *)
(***************************************************************************)
Tallied(id) ==
  /\ proposals[id].votesFor = Power(id, TRUE)
  /\ proposals[id].votesAgainst = Power(id, FALSE)

Carried(p) ==
  /\ (p.votesFor + p.votesAgainst) * 100 >= TotalPower * 15
  /\ p.votesFor * 100 >= (p.votesFor + p.votesAgainst) * 66

Due(p, t) ==
  /\ p.status # 0 => Carried(p) /\ p.eta = t.closed + TimelockForType(p.kind)
  /\ p.status \in {0, 1} => ~p.executed /\ t.calls = 0
  /\ p.status = 2 => p.executed /\ t.calls = 1 /\ t.at >= p.eta
  /\ p.status # 3

Unused(id) == proposals[id] = NoProposal /\ \A b \in ballots : b.id # id

GovernanceInv ==
  /\ IsFiniteSet(ballots)
  /\ \A id \in ProposalIds : Tallied(id) /\ Due(proposals[id], trace[id])
  /\ \A id \in ProposalIds : id > count => Unused(id)
-----------------------------------------------------------------------------
LEMMA TimelockType == ASSUME NEW kind PROVE TimelockForType(kind) \in Nat
BY NumbersAssumption DEF TimelockForType

LEMMA NoProposalType == NoProposal \in ProposalRecords
BY DEF NoProposal, ProposalRecords, ProposalTypes

LEMMA NoProposalFields ==
  /\ NoProposal.votesFor = 0 /\ NoProposal.votesAgainst = 0
  /\ NoProposal.status = 0 /\ NoProposal.executed = FALSE
BY DEF NoProposal

\* The record that a handler stores, first for any values of the fields' types.
LEMMA CreatedRecord ==
  ASSUME NEW p \in ProposalRecords, NEW target \in Targets, NEW kind \in ProposalTypes,
         NEW end \in Nat
  PROVE [p EXCEPT !.target = target, !.kind = kind, !.endTime = end] \in ProposalRecords
<1>1. target \in Targets \cup {"none"} OBVIOUS
<1>2. QED BY <1>1 DEF ProposalRecords

LEMMA FinalizedRecord ==
  ASSUME NEW p \in ProposalRecords, NEW s \in 0..3, NEW eta \in Nat
  PROVE [p EXCEPT !.status = s, !.eta = eta] \in ProposalRecords
BY DEF ProposalRecords

LEMMA ExecutedRecord ==
  ASSUME NEW p \in ProposalRecords, NEW e \in BOOLEAN, NEW s \in 0..3
  PROVE [p EXCEPT !.executed = e, !.status = s] \in ProposalRecords
BY DEF ProposalRecords

LEMMA TraceTypes ==
  ASSUME NEW r \in Traces, NEW c \in Nat, NEW s \in Nat
  PROVE /\ [r EXCEPT !.closed = s] \in Traces
        /\ [r EXCEPT !.calls = c, !.at = s] \in Traces
<1>1. [r EXCEPT !.closed = s] \in Traces BY DEF Traces
<1>2. [r EXCEPT !.calls = c, !.at = s] \in Traces BY DEF Traces
<1>3. QED BY <1>1, <1>2

LEMMA CreatedType ==
  ASSUME NEW target \in Targets, NEW kind \in Types, NEW end \in Nat
  PROVE [NoProposal EXCEPT !.target = target, !.kind = kind, !.endTime = end]
          \in ProposalRecords
<1>1. kind \in ProposalTypes BY TypesAssumption
<1>2. QED BY <1>1, NoProposalType, CreatedRecord

LEMMA VotedType ==
  ASSUME NEW p \in ProposalRecords
  PROVE /\ [p EXCEPT !.votesFor = p.votesFor + Weight] \in ProposalRecords
        /\ [p EXCEPT !.votesAgainst = p.votesAgainst + Weight] \in ProposalRecords
BY NumbersAssumption DEF ProposalRecords

LEMMA FinalizedType ==
  ASSUME NEW p \in ProposalRecords, NEW eta \in Nat
  PROVE [p EXCEPT !.status = 1, !.eta = eta] \in ProposalRecords
<1>1. 1 \in 0..3 OBVIOUS
<1>2. QED BY <1>1, FinalizedRecord

LEMMA ExecutedType ==
  ASSUME NEW p \in ProposalRecords
  PROVE [p EXCEPT !.executed = TRUE, !.status = 2] \in ProposalRecords
<1>1. 2 \in 0..3 /\ TRUE \in BOOLEAN OBVIOUS
<1>2. QED BY <1>1, ExecutedRecord

LEMMA CalledType ==
  ASSUME NEW r \in Traces, NEW s \in Nat
  PROVE [r EXCEPT !.calls = r.calls + 1, !.at = s] \in Traces
<1>1. r.calls + 1 \in Nat BY DEF Traces
<1>2. QED BY <1>1, TraceTypes

LEMMA GovernanceTypesInitially == GovernanceInit => GovernanceTypeOK
<1> SUFFICES ASSUME GovernanceInit PROVE GovernanceTypeOK OBVIOUS
<1>1. NoTrace \in Traces BY DEF NoTrace, Traces
<1>2. 0 \in 0..MaxProposals BY NumbersAssumption
<1>3. proposals \in [ProposalIds -> ProposalRecords]
  BY NoProposalType DEF GovernanceInit
<1>4. trace \in [ProposalIds -> Traces] BY <1>1 DEF GovernanceInit
<1>5. hasAdmin \in BOOLEAN /\ whitelist \subseteq Targets /\ ballots \subseteq Ballots
  BY DEF GovernanceInit
<1>6. count \in 0..MaxProposals /\ now \in Nat /\ sequence \in Nat
  BY <1>2 DEF GovernanceInit
<1>7. QED BY <1>3, <1>4, <1>5, <1>6 DEF GovernanceTypeOK

LEMMA GovernanceTypesKeep ==
  GovernanceTypeOK /\ [GovernanceNext]_governanceVars => GovernanceTypeOK'
<1> SUFFICES ASSUME GovernanceTypeOK, [GovernanceNext]_governanceVars
    PROVE GovernanceTypeOK'
  OBVIOUS
<1> USE NumbersAssumption DEF GovernanceTypeOK
<1>1. CASE GovernanceInitialize BY <1>1 DEF GovernanceInitialize
<1>2. ASSUME NEW target \in Targets, NEW b \in BOOLEAN, SetWhitelisted(target, b)
      PROVE GovernanceTypeOK'
  BY <1>2 DEF SetWhitelisted
<1>3. ASSUME NEW target \in Targets, NEW kind \in Types, CreateProposal(target, kind)
      PROVE GovernanceTypeOK'
  <2>1. now + VotingPeriod \in Nat OBVIOUS
  <2>2. [NoProposal EXCEPT !.target = target, !.kind = kind, !.endTime = now + VotingPeriod]
          \in ProposalRecords
    BY <2>1, CreatedType
  <2>3. proposals' \in [ProposalIds -> ProposalRecords]
    BY <1>3, <2>2 DEF CreateProposal
  <2>4. count' \in 0..MaxProposals BY <1>3 DEF CreateProposal
  <2>5. QED BY <1>3, <2>3, <2>4 DEF CreateProposal
<1>4. ASSUME NEW voter \in Voters, NEW id \in ProposalIds, NEW b \in BOOLEAN,
             Vote(voter, id, b)
      PROVE GovernanceTypeOK'
  <2>1. proposals[id] \in ProposalRecords OBVIOUS
  <2>2. proposals' \in [ProposalIds -> ProposalRecords]
    BY <1>4, <2>1, VotedType DEF Vote
  <2>3. [id |-> id, voter |-> voter, support |-> b] \in Ballots BY DEF Ballots
  <2>4. ballots' \subseteq Ballots BY <1>4, <2>3 DEF Vote
  <2>5. QED BY <1>4, <2>2, <2>4 DEF Vote
<1>5. ASSUME NEW id \in ProposalIds, FinalizeProposal(id) PROVE GovernanceTypeOK'
  <2>1. proposals[id] \in ProposalRecords /\ trace[id] \in Traces OBVIOUS
  <2>2. sequence + TimelockForType(proposals[id].kind) \in Nat BY TimelockType
  <2>3. proposals' \in [ProposalIds -> ProposalRecords]
    BY <1>5, <2>1, <2>2, FinalizedType DEF FinalizeProposal
  <2>4. trace' \in [ProposalIds -> Traces]
    BY <1>5, <2>1, TraceTypes DEF FinalizeProposal
  <2>5. QED BY <1>5, <2>3, <2>4 DEF FinalizeProposal
<1>6. ASSUME NEW id \in ProposalIds, ExecuteProposal(id) PROVE GovernanceTypeOK'
  <2>1. proposals[id] \in ProposalRecords /\ trace[id] \in Traces OBVIOUS
  <2>2. proposals' \in [ProposalIds -> ProposalRecords]
    BY <1>6, <2>1, ExecutedType DEF ExecuteProposal
  <2>3. trace' \in [ProposalIds -> Traces]
    BY <1>6, <2>1, CalledType DEF ExecuteProposal
  <2>4. QED BY <1>6, <2>2, <2>3 DEF ExecuteProposal
<1>7. ASSUME NEW seconds \in 1..2, LedgerCloses(seconds) PROVE GovernanceTypeOK'
  BY <1>7 DEF LedgerCloses
<1>8. CASE UNCHANGED governanceVars BY <1>8 DEF governanceVars
<1>9. QED BY <1>1, <1>2, <1>3, <1>4, <1>5, <1>6, <1>7, <1>8 DEF GovernanceNext
-----------------------------------------------------------------------------
\* A vote adds one ballot, of the voter's side, and the other sides keep theirs.
LEMMA VoteCounts ==
  ASSUME GovernanceTypeOK, IsFiniteSet(ballots),
         NEW voter \in Voters, NEW id \in ProposalIds, NEW b \in BOOLEAN, Vote(voter, id, b)
  PROVE  /\ IsFiniteSet(ballots')
         /\ Power(id, b)' = Power(id, b) + Weight
         /\ \A i, s : (i # id \/ s # b) => Power(i, s)' = Power(i, s)
<1> DEFINE ballot == [id |-> id, voter |-> voter, support |-> b]
<1>1. ballots' = ballots \cup {ballot} BY DEF Vote
<1>2. ballot \notin ballots BY DEF Vote, HasVoted
<1>3. ballot.id = id /\ ballot.support = b OBVIOUS
<1>4. IsFiniteSet(ballots') BY <1>1, FS_AddElement
<1> HIDE DEF ballot
<1>5. Power(id, b)' = Power(id, b) + Weight
  <2>1. Side(id, b)' = Side(id, b) \cup {ballot} BY <1>1, <1>3, Zenon DEF Side
  <2>2. ballot \notin Side(id, b) BY <1>2 DEF Side
  <2>3. IsFiniteSet(Side(id, b)) BY FS_Subset DEF Side
  <2>4. Cardinality(Side(id, b)') = Cardinality(Side(id, b)) + 1
    BY <2>1, <2>2, <2>3, FS_AddElement
  <2>5. Cardinality(Side(id, b)) \in Nat BY <2>3, FS_CardinalityType
  <2>6. Weight * (Cardinality(Side(id, b)) + 1) = Weight * Cardinality(Side(id, b)) + Weight
    BY ONLY <2>5, NumbersAssumption DEF NumbersAssumption
  <2>7. QED BY <2>4, <2>6 DEF Power
<1>6. ASSUME NEW i, NEW s, i # id \/ s # b PROVE Power(i, s)' = Power(i, s)
  <2>1. Side(i, s)' = Side(i, s) BY <1>1, <1>3, <1>6, Zenon DEF Side
  <2>2. QED BY <2>1 DEF Power
<1>7. QED BY <1>4, <1>5, <1>6

LEMMA QuietSteps ==
  ASSUME GovernanceInv, UNCHANGED <<count, proposals, ballots, trace>>
  PROVE  GovernanceInv'
BY DEF GovernanceInv, Tallied, Due, Unused, Power, Side, Carried

LEMMA InvInit == GovernanceInit => GovernanceInv
<1> SUFFICES ASSUME GovernanceInit PROVE GovernanceInv OBVIOUS
<1>1. IsFiniteSet(ballots) BY FS_EmptySet DEF GovernanceInit
<1>2. ASSUME NEW id \in ProposalIds PROVE Tallied(id) /\ Due(proposals[id], trace[id]) /\ Unused(id)
  <2>1. proposals[id] = NoProposal /\ trace[id] = NoTrace BY DEF GovernanceInit
  <2>2. \A s : Side(id, s) = {} BY DEF Side, GovernanceInit
  <2>3. \A s : Power(id, s) = 0
    BY <2>2, FS_EmptySet, NumbersAssumption DEF Power, NumbersAssumption
  <2>4. Tallied(id) BY <2>1, <2>3, NoProposalFields DEF Tallied
  <2>5. Due(proposals[id], trace[id]) BY <2>1 DEF Due, NoProposal, NoTrace
  <2>6. Unused(id) BY <2>1 DEF Unused, GovernanceInit
  <2>7. QED BY <2>4, <2>5, <2>6
<1>3. QED BY <1>1, <1>2 DEF GovernanceInv

LEMMA InvCreate ==
  ASSUME GovernanceTypeOK, GovernanceInv,
         NEW target \in Targets, NEW kind \in Types, CreateProposal(target, kind)
  PROVE  GovernanceInv'
<1> DEFINE new == count + 1
<1>1. new \in ProposalIds /\ new > count /\ count' = new
  BY NumbersAssumption DEF CreateProposal, GovernanceTypeOK, ProposalIds, NumbersAssumption
<1>2. ballots' = ballots /\ trace' = trace BY DEF CreateProposal
<1>3. \A id \in ProposalIds \ {new} : proposals'[id] = proposals[id]
  BY DEF CreateProposal, GovernanceTypeOK
<1>4. /\ proposals'[new].status = 0 /\ proposals'[new].executed = FALSE
      /\ proposals'[new].votesFor = 0 /\ proposals'[new].votesAgainst = 0
  BY <1>1 DEF CreateProposal, GovernanceTypeOK, NoProposal
<1>5. Unused(new) /\ Tallied(new) /\ Due(proposals[new], trace[new])
  BY <1>1 DEF GovernanceInv
<1>6. \A i, s : Power(i, s)' = Power(i, s) BY <1>2 DEF Power, Side
<1>7. ASSUME NEW id \in ProposalIds PROVE Tallied(id)' /\ Due(proposals[id], trace[id])'
  <2>1. CASE id = new
    <3>1. Power(id, TRUE) = 0 /\ Power(id, FALSE) = 0
      BY <1>5, <2>1, NoProposalFields DEF Unused, Tallied
    <3>2. trace[id].calls = 0 BY <1>5, <2>1 DEF Unused, Due, NoProposal
    <3>3. Tallied(id)' BY <1>4, <1>6, <2>1, <3>1 DEF Tallied
    <3>4. Due(proposals[id], trace[id])' BY <1>2, <1>4, <2>1, <3>2 DEF Due
    <3>5. QED BY <3>3, <3>4
  <2>2. CASE id # new
    <3>1. Tallied(id) /\ Due(proposals[id], trace[id]) BY DEF GovernanceInv
    <3>2. QED BY <1>2, <1>3, <1>6, <2>2, <3>1 DEF Tallied, Due, Carried
  <2>3. QED BY <2>1, <2>2
<1>8. ASSUME NEW id \in ProposalIds, id > count' PROVE Unused(id)'
  <2>1. id > count /\ id # new BY <1>1, <1>8 DEF GovernanceTypeOK, ProposalIds
  <2>2. QED BY <1>2, <1>3, <2>1 DEF Unused, GovernanceInv
<1>9. QED BY <1>2, <1>7, <1>8 DEF GovernanceInv

LEMMA InvVote ==
  ASSUME GovernanceTypeOK, GovernanceInv,
         NEW voter \in Voters, NEW id \in ProposalIds, NEW b \in BOOLEAN, Vote(voter, id, b)
  PROVE  GovernanceInv'
<1>1. /\ IsFiniteSet(ballots')
      /\ Power(id, b)' = Power(id, b) + Weight
      /\ \A i, s : (i # id \/ s # b) => Power(i, s)' = Power(i, s)
  BY VoteCounts DEF GovernanceInv
<1>2. trace' = trace /\ count' = count BY DEF Vote
<1>3. \A i \in ProposalIds \ {id} : proposals'[i] = proposals[i]
  BY DEF Vote, GovernanceTypeOK
<1>4. Tallied(id) /\ Due(proposals[id], trace[id]) BY DEF GovernanceInv
<1>5. proposals[id] \in ProposalRecords /\ proposals[id].status = 0 /\ id \in 1..count
  BY DEF Vote, GovernanceTypeOK
<1>6. /\ proposals'[id].status = 0 /\ proposals'[id].executed = proposals[id].executed
  BY <1>5 DEF Vote, GovernanceTypeOK, ProposalRecords
<1>7. Due(proposals[id], trace[id])' BY <1>2, <1>4, <1>5, <1>6 DEF Due
<1>8. Tallied(id)'
  <2>1. CASE b = TRUE
    <3>1. /\ proposals'[id].votesFor = proposals[id].votesFor + Weight
          /\ proposals'[id].votesAgainst = proposals[id].votesAgainst
      BY <1>5, <2>1 DEF Vote, GovernanceTypeOK, ProposalRecords
    <3>2. Power(id, TRUE)' = Power(id, TRUE) + Weight /\ Power(id, FALSE)' = Power(id, FALSE)
      BY <1>1, <2>1
    <3>3. QED BY <1>4, <3>1, <3>2 DEF Tallied
  <2>2. CASE b = FALSE
    <3>1. /\ proposals'[id].votesAgainst = proposals[id].votesAgainst + Weight
          /\ proposals'[id].votesFor = proposals[id].votesFor
      BY <1>5, <2>2 DEF Vote, GovernanceTypeOK, ProposalRecords
    <3>2. Power(id, FALSE)' = Power(id, FALSE) + Weight /\ Power(id, TRUE)' = Power(id, TRUE)
      BY <1>1, <2>2
    <3>3. QED BY <1>4, <3>1, <3>2 DEF Tallied
  <2>3. QED BY <2>1, <2>2
<1>9. ASSUME NEW i \in ProposalIds PROVE Tallied(i)' /\ Due(proposals[i], trace[i])'
  <2>1. CASE i = id BY <1>7, <1>8, <2>1
  <2>2. CASE i # id
    <3>1. Tallied(i) /\ Due(proposals[i], trace[i]) BY DEF GovernanceInv
    <3>2. proposals'[i] = proposals[i] BY <1>3, <2>2
    <3>3. Power(i, TRUE)' = Power(i, TRUE) /\ Power(i, FALSE)' = Power(i, FALSE)
      BY <1>1, <2>2
    <3>4. QED BY <1>2, <3>1, <3>2, <3>3 DEF Tallied, Due, Carried
  <2>3. QED BY <2>1, <2>2
<1>10. ASSUME NEW i \in ProposalIds, i > count PROVE Unused(i)'
  <2>1. i # id BY <1>5, <1>10 DEF GovernanceTypeOK, ProposalIds
  <2>2. Unused(i) BY <1>10 DEF GovernanceInv
  <2>3. proposals'[i] = NoProposal BY <1>3, <2>1, <2>2 DEF Unused
  <2>4. \A x \in ballots' : x.id # i BY <2>1, <2>2 DEF Vote, Unused
  <2>5. QED BY <2>3, <2>4 DEF Unused
<1>11. QED BY <1>1, <1>2, <1>9, <1>10 DEF GovernanceInv

\* Finalizing and executing change one proposal and its trace, and no vote.
LEMMA InvOther ==
  ASSUME GovernanceTypeOK, GovernanceInv, NEW id \in 1..count,
         UNCHANGED <<count, ballots>>,
         \A i \in ProposalIds \ {id} : proposals'[i] = proposals[i] /\ trace'[i] = trace[i],
         proposals'[id].votesFor = proposals[id].votesFor,
         proposals'[id].votesAgainst = proposals[id].votesAgainst,
         Due(proposals[id], trace[id])'
  PROVE  GovernanceInv'
<1>1. \A i, s : Power(i, s)' = Power(i, s) BY DEF Power, Side
<1>2. ASSUME NEW i \in ProposalIds PROVE Tallied(i)' /\ Due(proposals[i], trace[i])'
  <2>1. Tallied(i) /\ Due(proposals[i], trace[i]) BY DEF GovernanceInv
  <2>2. Tallied(i)' BY <1>1, <2>1 DEF Tallied
  <2>3. CASE i = id BY <2>2, <2>3
  <2>4. CASE i # id
    <3>1. Due(proposals[i], trace[i])' BY <2>1, <2>4 DEF Due, Carried
    <3>2. QED BY <2>2, <3>1
  <2>5. QED BY <2>3, <2>4
<1>3. ASSUME NEW i \in ProposalIds, i > count PROVE Unused(i)'
  <2>1. i # id BY <1>3 DEF GovernanceTypeOK, ProposalIds
  <2>2. QED BY <1>3, <2>1 DEF GovernanceInv, Unused
<1>4. QED BY <1>2, <1>3 DEF GovernanceInv

LEMMA InvFinalize ==
  ASSUME GovernanceTypeOK, GovernanceInv, NEW id \in ProposalIds, FinalizeProposal(id)
  PROVE  GovernanceInv'
<1> DEFINE p == proposals[id]
<1>1. id \in 1..count /\ p.status = 0 /\ QuorumMet(p) /\ ThresholdMet(p)
  BY DEF FinalizeProposal, MayFinalize
<1>2. UNCHANGED <<count, ballots>> BY DEF FinalizeProposal
<1>3. \A i \in ProposalIds \ {id} : proposals'[i] = proposals[i] /\ trace'[i] = trace[i]
  BY DEF FinalizeProposal, GovernanceTypeOK
<1>4. p \in ProposalRecords /\ trace[id] \in Traces BY DEF GovernanceTypeOK
<1>5. /\ proposals'[id].status = 1
      /\ proposals'[id].eta = sequence + TimelockForType(p.kind)
      /\ proposals'[id].kind = p.kind /\ proposals'[id].executed = p.executed
      /\ proposals'[id].votesFor = p.votesFor
      /\ proposals'[id].votesAgainst = p.votesAgainst
  BY <1>4 DEF FinalizeProposal, GovernanceTypeOK, ProposalRecords
<1>6. trace'[id].closed = sequence /\ trace'[id].calls = trace[id].calls
  BY <1>4 DEF FinalizeProposal, GovernanceTypeOK, Traces
<1>7. Due(p, trace[id]) BY DEF GovernanceInv
<1>8. Carried(p) BY <1>1 DEF Carried, QuorumMet, ThresholdMet
<1>9. Due(proposals[id], trace[id])'
  BY <1>1, <1>5, <1>6, <1>7, <1>8 DEF Due, Carried, TimelockForType
<1>10. QED BY <1>1, <1>2, <1>3, <1>5, <1>9, InvOther

LEMMA InvExecute ==
  ASSUME GovernanceTypeOK, GovernanceInv, NEW id \in ProposalIds, ExecuteProposal(id)
  PROVE  GovernanceInv'
<1> DEFINE p == proposals[id]
<1>1. id \in 1..count /\ p.status = 1 /\ sequence >= p.eta BY DEF ExecuteProposal
<1>2. UNCHANGED <<count, ballots>> BY DEF ExecuteProposal
<1>3. \A i \in ProposalIds \ {id} : proposals'[i] = proposals[i] /\ trace'[i] = trace[i]
  BY DEF ExecuteProposal, GovernanceTypeOK
<1>4. p \in ProposalRecords /\ trace[id] \in Traces BY DEF GovernanceTypeOK
<1>5. /\ proposals'[id].status = 2 /\ proposals'[id].executed = TRUE
      /\ proposals'[id].eta = p.eta /\ proposals'[id].kind = p.kind
      /\ proposals'[id].votesFor = p.votesFor
      /\ proposals'[id].votesAgainst = p.votesAgainst
  BY <1>4 DEF ExecuteProposal, GovernanceTypeOK, ProposalRecords
<1>6. /\ trace'[id].calls = trace[id].calls + 1 /\ trace'[id].at = sequence
      /\ trace'[id].closed = trace[id].closed
  BY <1>4 DEF ExecuteProposal, GovernanceTypeOK, Traces
<1>7. Due(p, trace[id]) BY DEF GovernanceInv
<1>8. Due(proposals[id], trace[id])'
  BY <1>1, <1>5, <1>6, <1>7 DEF Due, Carried, TimelockForType
<1>9. QED BY <1>1, <1>2, <1>3, <1>5, <1>8, InvOther

LEMMA GovernanceKeeps ==
  GovernanceTypeOK /\ GovernanceInv /\ [GovernanceNext]_governanceVars => GovernanceInv'
<1> SUFFICES ASSUME GovernanceTypeOK, GovernanceInv, [GovernanceNext]_governanceVars
    PROVE GovernanceInv'
  OBVIOUS
<1>1. CASE GovernanceInitialize BY <1>1, QuietSteps DEF GovernanceInitialize
<1>2. ASSUME NEW target \in Targets, NEW b \in BOOLEAN, SetWhitelisted(target, b)
      PROVE GovernanceInv'
  BY <1>2, QuietSteps DEF SetWhitelisted
<1>3. ASSUME NEW seconds \in 1..2, LedgerCloses(seconds) PROVE GovernanceInv'
  BY <1>3, QuietSteps DEF LedgerCloses
<1>4. CASE UNCHANGED governanceVars BY <1>4, QuietSteps DEF governanceVars
<1>5. QED
  BY <1>1, <1>2, <1>3, <1>4, InvCreate, InvVote, InvFinalize, InvExecute DEF GovernanceNext

LEMMA GovernanceInvDue == GovernanceTypeOK /\ GovernanceInv => ExecutedWasDue
<1> SUFFICES ASSUME GovernanceTypeOK, GovernanceInv, NEW id \in ProposalIds,
                    trace[id].calls # 0
    PROVE /\ trace[id].calls = 1
          /\ trace[id].at >= trace[id].closed + TimelockForType(proposals[id].kind)
          /\ (Power(id, TRUE) + Power(id, FALSE)) * 100 >= TotalPower * 15
          /\ Power(id, TRUE) * 100 >= (Power(id, TRUE) + Power(id, FALSE)) * 66
  BY DEF ExecutedWasDue
<1>1. Tallied(id) /\ Due(proposals[id], trace[id]) BY DEF GovernanceInv
<1>2. proposals[id].status \in 0..3 BY DEF GovernanceTypeOK, ProposalRecords
<1>3. proposals[id].status = 2 BY <1>1, <1>2 DEF Due
<1>4. Carried(proposals[id]) BY <1>1, <1>3 DEF Due
<1>5. QED BY <1>1, <1>3, <1>4 DEF Due, Tallied, Carried

-----------------------------------------------------------------------------
(***************************************************************************)
(* The token, for any number of holders: types and TokensConserved are     *)
(* inductive together.  A burn keeps the supply a natural number because a *)
(* balance is at most the sum of all.                                      *)
(***************************************************************************)
TokenInv == TokenTypeOK /\ TokensConserved

\* One balance changes, and the sum of all with it.
LEMMA OneBalance ==
  ASSUME NEW f \in [Holders -> Nat], NEW g \in [Holders -> Nat], NEW h \in Holders,
         \A x \in Holders \ {h} : f[x] = g[x]
  PROVE  /\ Total(g, Holders) = Total(f, Holders) - f[h] + g[h]
         /\ Total(f, Holders) \in Nat /\ f[h] <= Total(f, Holders)
<1>1. \A x \in Holders : f[x] \in Nat /\ g[x] \in Nat OBVIOUS
<1>2. Total(g, Holders) = Total(f, Holders) - f[h] + g[h]
  BY <1>1, HoldersAssumption, TotalChange
<1>3. Total(f, Holders) \in Nat BY <1>1, HoldersAssumption, TotalType
<1>4. f[h] <= Total(f, Holders) BY <1>1, HoldersAssumption, TermUnderTotal
<1>5. QED BY <1>2, <1>3, <1>4

\* What moves stays in the sum, whoever sends to whom.
LEMMA MovedKeepsTotal ==
  ASSUME TokenTypeOK, NEW from \in Holders, NEW to \in Holders, NEW amount \in Nat,
         balance[from] >= amount
  PROVE  /\ Moved(from, to, amount) \in [Holders -> Nat]
         /\ Total(Moved(from, to, amount), Holders) = Total(balance, Holders)
<1> DEFINE left == [balance EXCEPT ![from] = balance[from] - amount]
           moved == [left EXCEPT ![to] = left[to] + amount]
<1>1. balance \in [Holders -> Nat] /\ balance[from] \in Nat BY DEF TokenTypeOK
<1>2. /\ left \in [Holders -> Nat] /\ left[from] = balance[from] - amount
      /\ \A x \in Holders \ {from} : balance[x] = left[x]
  BY <1>1
<1>3. Moved(from, to, amount) = moved BY DEF Moved
<1> HIDE DEF left
<1>4. /\ Total(balance, Holders) \in Nat
      /\ Total(left, Holders) = Total(balance, Holders) - balance[from] + left[from]
  BY <1>1, <1>2, OneBalance
<1>5. left[to] \in Nat BY <1>2
<1>6. /\ moved \in [Holders -> Nat] /\ moved[to] = left[to] + amount
      /\ \A x \in Holders \ {to} : left[x] = moved[x]
  BY <1>2, <1>5
<1> HIDE DEF moved
<1>7. /\ Total(left, Holders) \in Nat
      /\ Total(moved, Holders) = Total(left, Holders) - left[to] + moved[to]
  BY <1>2, <1>6, OneBalance
<1>8. Total(moved, Holders) = Total(balance, Holders)
  BY <1>1, <1>2, <1>4, <1>5, <1>6, <1>7
<1>9. QED BY <1>3, <1>6, <1>8

\* Spending keeps the books of the allowances.
LEMMA SpendingKeeps ==
  ASSUME TokenInv, NEW spender \in Holders, NEW from \in Holders, NEW amount \in Nat,
         SpendAllowance(spender, from, amount), approved' = approved
  PROVE  /\ allowance' \in [Holders -> [Holders -> Nat]]
         /\ spent' \in [Holders -> [Holders -> Nat]]
         /\ \A h \in Holders, s \in Holders :
              spent'[h][s] + allowance'[h][s] <= approved'[h][s]
<1>1. allowance[from][spender] \in Nat /\ spent[from][spender] \in Nat
  BY DEF TokenInv, TokenTypeOK
<1>2. allowance' \in [Holders -> [Holders -> Nat]]
  BY <1>1 DEF TokenInv, TokenTypeOK, SpendAllowance
<1>3. spent' \in [Holders -> [Holders -> Nat]]
  BY <1>1 DEF TokenInv, TokenTypeOK, SpendAllowance
<1>4. ASSUME NEW h \in Holders, NEW s \in Holders
      PROVE spent'[h][s] + allowance'[h][s] = spent[h][s] + allowance[h][s]
  BY <1>1 DEF TokenInv, TokenTypeOK, SpendAllowance
<1>5. QED BY <1>2, <1>3, <1>4 DEF TokenInv, TokensConserved

LEMMA IssueKeeps ==
  ASSUME TokenInv, NEW to \in Holders, NEW amount \in Nat, Issue(to, amount)
  PROVE  TokenInv'
<1>1. balance[to] \in Nat /\ balance \in [Holders -> Nat] /\ totalSupply \in Nat
  BY DEF TokenInv, TokenTypeOK
<1>2. /\ balance' \in [Holders -> Nat] /\ balance'[to] = balance[to] + amount
      /\ \A x \in Holders \ {to} : balance[x] = balance'[x]
  BY <1>1 DEF Issue
<1>3. /\ Total(balance', Holders) = Total(balance, Holders) - balance[to] + balance'[to]
      /\ Total(balance, Holders) \in Nat
  BY <1>1, <1>2, OneBalance
<1>4. totalSupply' = Total(balance', Holders)
  BY <1>1, <1>2, <1>3 DEF Issue, TokenInv, TokensConserved
<1>5. QED BY <1>1, <1>2, <1>4 DEF Issue, TokenInv, TokenTypeOK, TokensConserved

LEMMA DestroyKeeps ==
  ASSUME TokenInv, NEW from \in Holders, NEW amount \in Nat, Destroy(from, amount)
  PROVE  /\ balance' \in [Holders -> Nat] /\ totalSupply' \in Nat
         /\ totalSupply' = Total(balance', Holders)
<1>1. balance[from] \in Nat /\ balance \in [Holders -> Nat] /\ totalSupply \in Nat
  BY DEF TokenInv, TokenTypeOK
<1>2. /\ balance' \in [Holders -> Nat] /\ balance'[from] = balance[from] - amount
      /\ \A x \in Holders \ {from} : balance[x] = balance'[x]
  BY <1>1 DEF Destroy
<1>3. /\ Total(balance', Holders) = Total(balance, Holders) - balance[from] + balance'[from]
      /\ Total(balance, Holders) \in Nat /\ balance[from] <= Total(balance, Holders)
  BY <1>1, <1>2, OneBalance
<1>4. QED BY <1>1, <1>2, <1>3 DEF Destroy, TokenInv, TokensConserved

LEMMA ApproveKeeps ==
  ASSUME TokenInv, NEW from \in Holders, NEW spender \in Holders, NEW amount \in Nat,
         Approve(from, spender, amount)
  PROVE  TokenInv'
<1>1. /\ allowance[from][spender] \in Nat /\ approved[from][spender] \in Nat
      /\ spent[from][spender] \in Nat
  BY DEF TokenInv, TokenTypeOK
<1>2. /\ allowance' \in [Holders -> [Holders -> Nat]]
      /\ approved' \in [Holders -> [Holders -> Nat]]
  BY <1>1 DEF TokenInv, TokenTypeOK, Approve
<1>3. ASSUME NEW h \in Holders, NEW s \in Holders
      PROVE spent'[h][s] + allowance'[h][s] <= approved'[h][s]
  <2>1. spent[h][s] + allowance[h][s] <= approved[h][s] BY DEF TokenInv, TokensConserved
  <2>2. spent[h][s] \in Nat /\ allowance[h][s] \in Nat /\ approved[h][s] \in Nat
    BY DEF TokenInv, TokenTypeOK
  <2>3. spent'[h][s] = spent[h][s] BY DEF Approve
  <2>4. CASE h = from /\ s = spender
    <3>1. allowance'[h][s] = amount /\ approved'[h][s] = approved[h][s] + amount
      BY <2>4 DEF Approve, TokenInv, TokenTypeOK
    <3>2. QED BY <2>1, <2>2, <2>3, <3>1
  <2>5. CASE ~(h = from /\ s = spender)
    <3>1. allowance'[h][s] = allowance[h][s] /\ approved'[h][s] = approved[h][s]
      BY <2>5 DEF Approve, TokenInv, TokenTypeOK
    <3>2. QED BY <2>1, <2>3, <3>1
  <2>6. QED BY <2>4, <2>5
<1>4. QED BY <1>2, <1>3 DEF Approve, TokenInv, TokenTypeOK, TokensConserved

LEMMA TokenKeeps == TokenInv /\ [TokenNext]_tokenVars => TokenInv'
<1> SUFFICES ASSUME TokenInv, [TokenNext]_tokenVars PROVE TokenInv' OBVIOUS
<1>1. Amounts \subseteq Nat BY AmountsAssumption DEF Amounts
<1>2. CASE TokenInitialize
  BY <1>2 DEF TokenInitialize, TokenInv, TokenTypeOK, TokensConserved
<1>3. ASSUME NEW amount \in Amounts, NEW h \in Holders, Mint(h, amount) \/ FaucetMint(h, amount)
      PROVE TokenInv'
  BY <1>1, <1>3, IssueKeeps DEF Mint, FaucetMint
<1>4. ASSUME NEW amount \in Amounts, NEW h \in Holders, Burn(h, amount) PROVE TokenInv'
  <2>1. /\ balance' \in [Holders -> Nat] /\ totalSupply' \in Nat
        /\ totalSupply' = Total(balance', Holders)
    BY <1>1, <1>4, DestroyKeeps DEF Burn
  <2>2. QED BY <1>4, <2>1 DEF Burn, TokenInv, TokenTypeOK, TokensConserved
<1>5. ASSUME NEW amount \in Amounts, NEW from \in Holders, NEW other \in Holders,
             Approve(from, other, amount)
      PROVE TokenInv'
  BY <1>1, <1>5, ApproveKeeps
<1>6. ASSUME NEW amount \in Amounts, NEW from \in Holders, NEW to \in Holders,
             Transfer(from, to, amount)
      PROVE TokenInv'
  <2>1. balance' \in [Holders -> Nat] /\ Total(balance', Holders) = Total(balance, Holders)
    BY <1>1, <1>6, MovedKeepsTotal DEF Transfer, TokenInv
  <2>2. QED BY <1>6, <2>1 DEF Transfer, TokenInv, TokenTypeOK, TokensConserved
<1>7. ASSUME NEW amount \in Amounts, NEW from \in Holders, NEW other \in Holders,
             BurnFrom(other, from, amount)
      PROVE TokenInv'
  <2>1. /\ balance' \in [Holders -> Nat] /\ totalSupply' \in Nat
        /\ totalSupply' = Total(balance', Holders)
    BY <1>1, <1>7, DestroyKeeps DEF BurnFrom
  <2>2. /\ allowance' \in [Holders -> [Holders -> Nat]]
        /\ spent' \in [Holders -> [Holders -> Nat]]
        /\ \A h \in Holders, s \in Holders :
             spent'[h][s] + allowance'[h][s] <= approved'[h][s]
    BY <1>1, <1>7, SpendingKeeps DEF BurnFrom
  <2>3. QED BY <1>7, <2>1, <2>2 DEF BurnFrom, TokenInv, TokenTypeOK, TokensConserved
<1>8. ASSUME NEW amount \in Amounts, NEW from \in Holders, NEW other \in Holders,
             NEW to \in Holders, TransferFrom(other, from, to, amount)
      PROVE TokenInv'
  <2>1. balance' \in [Holders -> Nat] /\ Total(balance', Holders) = Total(balance, Holders)
    BY <1>1, <1>8, MovedKeepsTotal DEF TransferFrom, TokenInv
  <2>2. /\ allowance' \in [Holders -> [Holders -> Nat]]
        /\ spent' \in [Holders -> [Holders -> Nat]]
        /\ \A h \in Holders, s \in Holders :
             spent'[h][s] + allowance'[h][s] <= approved'[h][s]
    BY <1>1, <1>8, SpendingKeeps DEF TransferFrom
  <2>3. QED BY <1>8, <2>1, <2>2 DEF TransferFrom, TokenInv, TokenTypeOK, TokensConserved
<1>9. CASE UNCHANGED tokenVars
  BY <1>9 DEF tokenVars, TokenInv, TokenTypeOK, TokensConserved
<1>10. QED BY <1>2, <1>3, <1>4, <1>5, <1>6, <1>7, <1>8, <1>9 DEF TokenNext

LEMMA TokenInitially == TokenInit => TokenInv
<1> SUFFICES ASSUME TokenInit PROVE TokenInv OBVIOUS
<1>1. TokenTypeOK BY DEF TokenInit, TokenTypeOK, NoAllowances
<1>2. Total(balance, Holders) = 0
  <2>1. \A h \in Holders : balance[h] = 0 BY DEF TokenInit
  <2>2. QED BY <2>1, TotalZero
<1>3. \A h \in Holders, s \in Holders : spent[h][s] + allowance[h][s] <= approved[h][s]
  BY DEF TokenInit, NoAllowances
<1>4. QED BY <1>1, <1>2, <1>3 DEF TokenInv, TokensConserved, TokenInit
-----------------------------------------------------------------------------
(***************************************************************************)
(* The faucet, for any users.  What a user was paid lies between what the  *)
(* page was told and what it was told or left unsure of, where a payment   *)
(* under way counts for the side that does not know of it yet; and a       *)
(* request that nobody came before still carries the next number.          *)
(***************************************************************************)
InState(u, state) == IF request[u].state = state THEN 1 ELSE 0
Waiting(u) == IF u \in queued THEN 1 ELSE 0

PaymentsMatch(u) ==
  /\ told[u] + InState(u, "included") <= paid[u]
  /\ paid[u] + Waiting(u)
       <= told[u] + unsure[u] + InState(u, "included") + InState(u, "submitted")

FaucetInv ==
  /\ FaucetTypeOK
  /\ \A u \in Users : PaymentsMatch(u)
  /\ \A u \in Users : request[u].state = "loaded" /\ u \notin touched => Queues(u)

\* A step that leaves the payments alone, and changes at most one request.
LEMMA RequestTypes ==
  ASSUME NEW r \in [state : States, number : Nat], NEW s \in States, NEW n \in Nat
  PROVE  /\ [r EXCEPT !.state = s] \in [state : States, number : Nat]
         /\ [r EXCEPT !.state = s].state = s /\ [r EXCEPT !.state = s].number = r.number
         /\ [state |-> s, number |-> n] \in [state : States, number : Nat]
         /\ NoRequest \in [state : States, number : Nat] /\ NoRequest.state = "none"
BY DEF NoRequest, States

FaucetRequests == [Users -> [state : States, number : Nat]]
Others(q, u) == \A v \in Users \ {u} : q[v] = request[v]

LEMMA RequestMoves ==
  ASSUME FaucetTypeOK, NEW u \in Users, NEW q, NEW s \in States,
         q = [request EXCEPT ![u].state = s]
  PROVE  /\ q \in FaucetRequests /\ Others(q, u)
         /\ q[u].state = s /\ q[u].number = request[u].number
<1>1. request \in FaucetRequests /\ request[u] \in [state : States, number : Nat]
  BY DEF FaucetTypeOK, FaucetRequests
<1>2. q[u] = [request[u] EXCEPT !.state = s] BY <1>1 DEF FaucetRequests
<1>3. /\ q[u] \in [state : States, number : Nat]
      /\ q[u].state = s /\ q[u].number = request[u].number
  BY <1>1, <1>2, RequestTypes
<1>4. QED BY <1>1, <1>2, <1>3 DEF FaucetRequests, Others

LEMMA RequestLoads ==
  ASSUME FaucetTypeOK, NEW u \in Users, NEW q, NEW n \in Nat,
         q = [request EXCEPT ![u] = [state |-> "loaded", number |-> n]]
  PROVE  q \in FaucetRequests /\ Others(q, u) /\ q[u].state = "loaded" /\ q[u].number = n
<1>1. request \in FaucetRequests BY DEF FaucetTypeOK, FaucetRequests
<1>2. QED BY <1>1 DEF FaucetRequests, Others, States

LEMMA RequestClears ==
  ASSUME FaucetTypeOK, NEW u \in Users, NEW q, q = [request EXCEPT ![u] = NoRequest]
  PROVE  q \in FaucetRequests /\ Others(q, u) /\ q[u].state = "none"
<1>1. request \in FaucetRequests BY DEF FaucetTypeOK, FaucetRequests
<1>2. QED BY <1>1 DEF FaucetRequests, Others, States, NoRequest

LEMMA MishapType ==
  ASSUME FaucetTypeOK, Mishap PROVE mishaps' \in 0..MaxMishaps
BY FaucetAssumption DEF FaucetTypeOK, Mishap

LEMMA FaucetInitially == FaucetInit => FaucetInv
<1> SUFFICES ASSUME FaucetInit PROVE FaucetInv OBVIOUS
<1>1. \A u \in Users : request[u] = NoRequest /\ told[u] = 0 /\ paid[u] = 0 /\ unsure[u] = 0
  BY DEF FaucetInit, Zero
<1>2. NoRequest.state = "none" BY DEF NoRequest
<1>3. FaucetTypeOK
  <2>1. request \in [Users -> [state : States, number : Nat]]
    BY DEF FaucetInit, NoRequest, States
  <2>2. Cardinality(queued) = 0 BY FS_EmptySet DEF FaucetInit
  <2>3. \A u \in Users : request[u].state # "submitted" BY <1>1, <1>2
  <2>4. 0 \in 0..MaxAsks /\ 0 \in 0..MaxMishaps BY FaucetAssumption
  <2>5. QED BY <2>1, <2>2, <2>3, <2>4 DEF FaucetInit, FaucetTypeOK, Zero
<1>4. \A u \in Users : PaymentsMatch(u)
  BY <1>1, <1>2 DEF FaucetInit, PaymentsMatch, InState, Waiting
<1>5. QED BY <1>1, <1>2, <1>3, <1>4 DEF FaucetInv

\* Asking, and what comes before a payment is submitted.
LEMMA BeforeSubmission ==
  ASSUME FaucetInv, NEW u \in Users, Ask(u) \/ TrustlineAnswers(u) \/ LoadAccount(u)
  PROVE  FaucetInv'
<1> USE DEF FaucetInv
<1>1. /\ UNCHANGED <<number, queued, paid, told, unsure>>
      /\ request[u].state \in {"none", "trustline", "asking"}
  BY DEF Ask, TrustlineAnswers, LoadAccount
<1>2. /\ request' \in [Users -> [state : States, number : Nat]]
      /\ request'[u].state \in {"none", "trustline", "asking", "loaded"}
      /\ \A v \in Users \ {u} : request'[v] = request[v]
  <2>1. /\ {"none", "trustline", "asking"} \subseteq States
        /\ NextNumber(number) \in Nat
    BY DEF States, NextNumber, FaucetTypeOK
  <2>2. ASSUME NEW s \in {"none", "trustline", "asking"},
               request' = [request EXCEPT ![u].state = s]
        PROVE  /\ request' \in [Users -> [state : States, number : Nat]]
               /\ request'[u].state \in {"none", "trustline", "asking", "loaded"}
               /\ \A v \in Users \ {u} : request'[v] = request[v]
    <3>1. FaucetTypeOK /\ s \in States BY <2>1
    <3>2. request' \in FaucetRequests /\ Others(request', u) /\ request'[u].state = s
      BY <2>2, <3>1, RequestMoves, Zenon
    <3>3. QED BY <3>2 DEF FaucetRequests, Others
  <2>3. CASE Ask(u) \/ TrustlineAnswers(u) BY <2>2, <2>3 DEF Ask, TrustlineAnswers
  <2>4. CASE LoadAccount(u)
    <3>1. \/ request' = [request EXCEPT ![u] = [state |-> "loaded", number |-> NextNumber(number)]]
          \/ request' = [request EXCEPT ![u] = NoRequest]
      BY <2>4 DEF LoadAccount
    <3>2. /\ request' \in FaucetRequests /\ Others(request', u)
          /\ request'[u].state = "loaded" \/ request'[u].state = "none"
      BY <2>1, <3>1, RequestLoads, RequestClears, Zenon
    <3>3. QED BY <3>2 DEF FaucetRequests, Others
  <2>5. QED BY <2>2, <2>3, <2>4
<1>3. touched' \subseteq Users /\ mishaps' \in 0..MaxMishaps /\ asks' \in [Users -> 0..MaxAsks]
  <2>1. asks[u] \in 0..MaxAsks /\ mishaps \in 0..MaxMishaps BY DEF FaucetTypeOK
  <2>2. asks' \in [Users -> 0..MaxAsks]
    <3>1. CASE Ask(u)
      <4>1. asks[u] + 1 \in 0..MaxAsks BY <2>1, <3>1, FaucetAssumption DEF Ask
      <4>2. QED BY <3>1, <4>1 DEF Ask, FaucetTypeOK
    <3>2. CASE TrustlineAnswers(u) BY <3>2 DEF TrustlineAnswers, FaucetTypeOK
    <3>3. CASE LoadAccount(u) BY <3>3 DEF LoadAccount, FaucetTypeOK
    <3>4. QED BY <3>1, <3>2, <3>3
  <2>3. mishaps' = mishaps \/ Mishap BY DEF Ask, TrustlineAnswers, LoadAccount
  <2>4. touched' \subseteq touched \cup {u} BY DEF Ask, TrustlineAnswers, LoadAccount
  <2>5. QED BY <2>1, <2>2, <2>3, <2>4, MishapType DEF FaucetTypeOK
<1>4. FaucetTypeOK' BY <1>1, <1>2, <1>3 DEF FaucetTypeOK
<1>5. \A v \in Users : PaymentsMatch(v)'
  BY <1>1, <1>2 DEF PaymentsMatch, InState, Waiting
<1>6. ASSUME NEW v \in Users, request'[v].state = "loaded", v \notin touched'
      PROVE  Queues(v)'
  <2>1. CASE v # u
    <3>1. v \notin touched
      BY <1>6, <2>1 DEF Ask, TrustlineAnswers, LoadAccount, FaucetTypeOK
    <3>2. QED BY <1>1, <1>2, <1>6, <2>1, <3>1 DEF Queues
  <2>2. CASE v = u
    <3>1. {"none", "trustline", "asking"} \subseteq States BY DEF States
    <3>2. LoadAccount(u)
      <4>1. ~Ask(u) BY <1>6, <2>2, <3>1, RequestMoves DEF Ask
      <4>2. ASSUME TrustlineAnswers(u) PROVE FALSE
        <5>1. PICK state \in {"asking", "none"} : request' = [request EXCEPT ![u].state = state]
          BY <4>2 DEF TrustlineAnswers
        <5>2. QED BY <1>6, <2>2, <3>1, <5>1, RequestMoves
      <4>3. QED BY <4>1, <4>2
    <3>3. request'[u] = [state |-> "loaded", number |-> NextNumber(number)]
      BY <1>6, <2>2, <3>2 DEF LoadAccount, FaucetTypeOK, NoRequest
    <3>4. queued = {}
      BY <1>6, <2>2, <3>2, <3>3 DEF LoadAccount, FaucetTypeOK, NoRequest
    <3>5. QED BY <1>1, <2>2, <3>3, <3>4 DEF Queues, NextNumber
  <2>3. QED BY <2>1, <2>2
<1>7. QED BY <1>4, <1>5, <1>6

LEMMA Submission ==
  ASSUME FaucetInv, NEW u \in Users, Submit(u)
  PROVE  FaucetInv'
<1> USE DEF FaucetInv
<1>1. /\ UNCHANGED <<number, paid, asks, mishaps, told, unsure>>
      /\ request[u].state = "loaded" /\ request[u] \in [state : States, number : Nat]
  BY DEF Submit, FaucetTypeOK
<1>2. \A v \in Users \ {u} : request'[v] = request[v]
  BY DEF Submit, FaucetTypeOK
<1>3. CASE queued' = {u} /\ Queues(u) /\ request' = [request EXCEPT ![u].state = "submitted"]
           /\ touched' = touched \cup (Users \ {u})
  <2>1. /\ request' \in [Users -> [state : States, number : Nat]]
        /\ request'[u].state = "submitted"
    <3>1. "submitted" \in States BY DEF States
    <3>2. QED BY <1>1, <1>3, <3>1, RequestTypes DEF FaucetTypeOK
  <2>2. queued = {} BY <1>3 DEF Queues
  <2>3. Cardinality(queued') <= 1 /\ queued' \subseteq Users
    <3>1. Cardinality({u}) = 1 BY FS_Singleton
    <3>2. QED BY <1>3, <3>1
  <2>4. \A v \in Users : request'[v].state = "submitted" => queued' = {v}
    BY <1>2, <1>3, <2>2 DEF FaucetTypeOK
  <2>5. FaucetTypeOK' BY <1>1, <1>3, <2>1, <2>3, <2>4 DEF FaucetTypeOK
  <2>6. ASSUME NEW v \in Users PROVE PaymentsMatch(v)'
    <3>1. PaymentsMatch(v) /\ told[v] \in Nat /\ paid[v] \in Nat /\ unsure[v] \in Nat
      BY DEF FaucetTypeOK
    <3>2. CASE v = u
      BY <1>1, <1>3, <2>1, <2>2, <3>1, <3>2 DEF PaymentsMatch, InState, Waiting
    <3>3. CASE v # u
      BY <1>1, <1>2, <1>3, <2>2, <3>1, <3>3 DEF PaymentsMatch, InState, Waiting
    <3>4. QED BY <3>2, <3>3
  <2>7. \A v \in Users : request'[v].state = "loaded" => v \in touched'
    BY <1>3, <2>1
  <2>8. QED BY <2>5, <2>6, <2>7
<1>4. CASE request' = [request EXCEPT ![u] = NoRequest] /\ UNCHANGED <<queued, touched>>
  <2>1. /\ request' \in [Users -> [state : States, number : Nat]]
        /\ request'[u].state = "none"
    BY <1>4, RequestClears, Zenon DEF FaucetRequests
  <2>2. FaucetTypeOK' BY <1>1, <1>2, <1>4, <2>1 DEF FaucetTypeOK
  <2>3. \A v \in Users : PaymentsMatch(v)'
    BY <1>1, <1>2, <1>4, <2>1 DEF PaymentsMatch, InState, Waiting
  <2>4. \A v \in Users : request'[v].state = "loaded" /\ v \notin touched' => Queues(v)'
    BY <1>1, <1>2, <1>4, <2>1 DEF Queues
  <2>5. QED BY <2>2, <2>3, <2>4
<1>5. QED BY <1>3, <1>4 DEF Submit

\* A step that ends the wait of a payment, or a request that was submitted:
\* nobody else is loaded with the next number, or nothing of it changes.
LEMMA AfterSubmission ==
  ASSUME FaucetInv, NEW u \in Users,
         Include(u) \/ Expire(u) \/ Success(u) \/ AnswerLost(u)
  PROVE  FaucetInv'
<1> USE DEF FaucetInv
<1>1. /\ \A v \in Users \ {u} : request'[v] = request[v]
      /\ \A v \in Users \ {u} : told'[v] = told[v] /\ paid'[v] = paid[v] /\ unsure'[v] = unsure[v]
      /\ touched' = touched /\ asks' = asks
  BY DEF Include, Expire, Success, AnswerLost, Forgotten, FaucetTypeOK
<1>2. /\ request' \in [Users -> [state : States, number : Nat]]
      /\ request'[u].state # "submitted"
      /\ request'[u].state = "loaded" => request[u] = request'[u]
  <2>1. /\ request \in FaucetRequests
        /\ "included" \in States
    BY DEF FaucetTypeOK, States, FaucetRequests
  <2>2. \/ request' = [request EXCEPT ![u].state = "included"]
        \/ request' = [request EXCEPT ![u] = NoRequest]
        \/ request[u].state # "submitted" /\ request' = request
    BY DEF Include, Expire, Success, AnswerLost, Forgotten
  <2>3. QED BY <2>1, <2>2, RequestClears DEF FaucetRequests
<1>3. /\ queued' = queued \/ (queued' = {} /\ u \in queued)
      /\ number' = number \/ u \in queued
      /\ mishaps' \in 0..MaxMishaps
  <2>1. queued' = queued \/ (queued' = {} /\ u \in queued)
    BY DEF Include, Expire, Success, AnswerLost
  <2>2. number' = number \/ u \in queued BY DEF Include, Expire, Success, AnswerLost
  <2>3. mishaps' = mishaps \/ Mishap BY DEF Include, Expire, Success, AnswerLost
  <2>4. QED BY <2>1, <2>2, <2>3, MishapType DEF FaucetTypeOK
<1>4. FaucetTypeOK'
  <2>1. /\ told' \in [Users -> Nat] /\ paid' \in [Users -> Nat] /\ unsure' \in [Users -> Nat]
        /\ number' \in Nat
    BY DEF Include, Expire, Success, AnswerLost, FaucetTypeOK
  <2>2. queued' \subseteq Users /\ Cardinality(queued') <= 1
    <3>1. CASE queued' = queued BY <3>1 DEF FaucetTypeOK
    <3>2. CASE queued' = {}
      <4>1. Cardinality(queued') = 0 BY <3>2, FS_EmptySet, Zenon
      <4>2. QED BY <3>2, <4>1
    <3>3. QED BY <1>3, <3>1, <3>2
  <2>3. ASSUME NEW v \in Users, request'[v].state = "submitted" PROVE queued' = {v}
    <3>1. CASE v = u BY <1>2, <2>3, <3>1
    <3>2. CASE v # u
      <4>1. queued = {v} BY <1>1, <2>3, <3>2 DEF FaucetTypeOK
      <4>2. QED BY <1>3, <3>2, <4>1
    <3>3. QED BY <3>1, <3>2
  <2>4. QED BY <1>1, <1>2, <1>3, <2>1, <2>2, <2>3 DEF FaucetTypeOK
<1>5. ASSUME NEW v \in Users PROVE PaymentsMatch(v)'
  <2>1. /\ PaymentsMatch(v) /\ told[v] \in Nat /\ paid[v] \in Nat /\ unsure[v] \in Nat
        /\ request[u] \in [state : States, number : Nat]
    BY DEF FaucetTypeOK
  <2>2. CASE v # u
    <3>1. v \in queued' => v \in queued BY <1>3
    <3>2. QED BY <1>1, <2>1, <2>2, <3>1 DEF PaymentsMatch, InState, Waiting
  <2>3. CASE v = u
    <3>1. request[u].state = "submitted" => u \in queued BY DEF FaucetTypeOK
    <3>2. CASE Include(u)
      <4>1. u \in queued /\ u \notin queued' /\ paid'[u] = paid[u] + 1
            /\ told' = told /\ unsure' = unsure
        BY <3>2 DEF Include, FaucetTypeOK
      <4>2. IF request[u].state = "submitted" THEN request'[u].state = "included"
                                              ELSE request'[u] = request[u]
        BY <2>1, <3>2, RequestTypes DEF Include, FaucetTypeOK, States
      <4>3. QED BY <2>1, <2>3, <4>1, <4>2 DEF PaymentsMatch, InState, Waiting
    <3>3. CASE Expire(u)
      <4>1. u \in queued /\ u \notin queued' /\ UNCHANGED <<paid, told, unsure>>
        BY <3>3 DEF Expire
      <4>2. IF request[u].state = "submitted" THEN request'[u].state = "none"
                                              ELSE request'[u] = request[u]
        BY <3>3 DEF Expire, Forgotten, FaucetTypeOK, NoRequest
      <4>3. QED BY <2>1, <2>3, <4>1, <4>2 DEF PaymentsMatch, InState, Waiting
    <3>4. CASE Success(u)
      <4>1. /\ request[u].state = "included" /\ request'[u].state = "none"
            /\ told'[u] = told[u] + 1 /\ UNCHANGED <<queued, paid, unsure>>
        BY <3>4 DEF Success, Forgotten, FaucetTypeOK, NoRequest
      <4>2. QED BY <2>1, <2>3, <4>1 DEF PaymentsMatch, InState, Waiting
    <3>5. CASE AnswerLost(u)
      <4>1. /\ request[u].state \in {"submitted", "included"} /\ request'[u].state = "none"
            /\ unsure'[u] = unsure[u] + 1 /\ UNCHANGED <<queued, paid, told>>
        BY <3>5 DEF AnswerLost, Forgotten, FaucetTypeOK, NoRequest
      <4>2. QED BY <2>1, <2>3, <4>1 DEF PaymentsMatch, InState, Waiting
    <3>6. QED BY <3>2, <3>3, <3>4, <3>5
  <2>4. QED BY <2>2, <2>3
<1>6. ASSUME NEW v \in Users, request'[v].state = "loaded", v \notin touched'
      PROVE  Queues(v)'
  <2>1. request[v] = request'[v] BY <1>1, <1>2, <1>6
  <2>2. Queues(v) BY <1>1, <1>6, <2>1
  <2>3. queued = {} /\ queued' = {} /\ number' = number BY <1>3, <2>2 DEF Queues
  <2>4. QED BY <2>1, <2>2, <2>3 DEF Queues
<1>7. QED BY <1>4, <1>5, <1>6

LEMMA FaucetKeeps == FaucetInv /\ [FaucetNext]_faucetVars => FaucetInv'
<1> SUFFICES ASSUME FaucetInv, [FaucetNext]_faucetVars PROVE FaucetInv' OBVIOUS
<1>1. CASE FaucetNext
  BY <1>1, BeforeSubmission, Submission, AfterSubmission DEF FaucetNext
<1>2. CASE UNCHANGED faucetVars
  BY <1>2 DEF faucetVars, FaucetInv, FaucetTypeOK, PaymentsMatch, InState, Waiting, Queues
<1>3. QED BY <1>1, <1>2

LEMMA FaucetInvPays == FaucetInv => FaucetPays
<1> SUFFICES ASSUME FaucetInv, NEW u \in Users, request[u].state # "included", u \notin queued
             PROVE  told[u] <= paid[u] /\ paid[u] <= told[u] + unsure[u]
  BY DEF FaucetPays, FaucetInv
<1>1. /\ PaymentsMatch(u) /\ told[u] \in Nat /\ paid[u] \in Nat /\ unsure[u] \in Nat
      /\ request[u].state # "submitted"
  BY DEF FaucetInv, FaucetTypeOK
<1>2. QED BY <1>1 DEF PaymentsMatch, InState, Waiting
-----------------------------------------------------------------------------
(***************************************************************************)
(* The filler, for any auctions and any number of overlapping cycles.  An  *)
(* auction that is not contested is had by one cycle at most, and once its *)
(* row is closed no list has it again.  What a record, a call or the row   *)
(* says is supplied is at least what is left; exactly that, while no       *)
(* position's call failed and one cycle at a time had the position.        *)
(***************************************************************************)
FillShape ==
  \A c \in Cycles :
    /\ fill[c].at = "idle" => fill[c] = NoFill
    /\ fill[c].at # "idle" => fill[c].auction \in Auctions /\ fill[c].auction \notin todo[c]
    /\ fill[c].at = "collateral" => fill[c].auction \in settled

Bounded ==
  /\ dbSupplied >= Remaining(taken)
  /\ \A i \in DOMAIN records : records[i] >= Remaining(taken)
  /\ \A c \in Cycles : fill[c].at \in {"row", "collateral"} => fill[c].supplied >= Remaining(taken)

Past(a) == a \in settled \/ \E c \in Cycles : fill[c].auction = a /\ PositionInHand(c)

Single(a) ==
  /\ \A c, d \in Cycles : Has(c, a) /\ Has(d, a) => c = d
  /\ Past(a) => /\ dbAuctions[a] = "closed" /\ memAuctions[a] # "active"
                /\ \A c \in Cycles : a \notin todo[c]
  /\ \A c \in Cycles : fill[c].auction = a =>
       /\ fill[c].at = "close" => memAuctions[a] = "closed"
       /\ a \in settled => fill[c].at = "collateral"

Exact ==
  /\ \A c, d \in Cycles : PositionInHand(c) /\ PositionInHand(d) => c = d
  /\ memRecord # 0 => records[memRecord] = Remaining(taken)
  /\ \A c \in Cycles :
       /\ fill[c].at \in {"row", "collateral"} => fill[c].supplied = Remaining(taken)
       /\ fill[c].at = "debt" => fill[c].record = memRecord
  /\ (\A c \in Cycles : fill[c].at # "collateral") => dbSupplied = Remaining(taken)
  /\ dbBorrowed = IF taken = 0 THEN 1 ELSE 0
  /\ \A a \in Auctions \ contested : dbAuctions[a] = "closed" => Past(a)

FillerInv ==
  /\ FillerTypeOK /\ FillShape /\ Bounded
  /\ twice \subseteq contested /\ \A a \in Auctions \ contested : Single(a)
  /\ ~spoiled /\ ~crossed => Exact

LEMMA FillFacts ==
  ASSUME FillerTypeOK, NEW c \in Cycles
  PROVE  /\ fill[c] \in Fills /\ fill[c].record \in Nat /\ fill[c].supplied \in 0..MaxCollateral
         /\ NoFill \in Fills /\ NoFill.at = "idle" /\ NoFill.auction = "none"
         /\ "none" \notin Auctions /\ ~(NoFill.at \in {"select", "row", "debt", "collateral"})
BY FillerAssumption DEF FillerTypeOK, Fills, NoFill

LEMMA RemainingFacts ==
  ASSUME NEW n \in Nat, NEW p \in Nat
  PROVE  /\ Remaining(n) \in 0..MaxCollateral /\ Remaining(n + 1) <= Remaining(n)
         /\ p >= Remaining(n) => Left(p) >= Remaining(n + 1)
         /\ p = Remaining(n) => Left(p) = Remaining(n + 1)
         /\ Left(p) \in Nat /\ (p <= MaxCollateral => Left(p) \in 0..MaxCollateral)
BY FillerAssumption DEF Remaining, Left

LEMMA TroubleFacts ==
  ASSUME FillerTypeOK
  PROVE  /\ Counted => troubles' \in 0..MaxTroubles
         /\ Trouble => troubles' \in 0..MaxTroubles /\ spoiled' = TRUE
         /\ NoTrouble => troubles' \in 0..MaxTroubles /\ spoiled' = spoiled
BY FillerAssumption DEF FillerTypeOK, Counted, Trouble, NoTrouble

\* Nothing of a cycle, its position or what was taken changes.
LEMMA RowsChange ==
  ASSUME FillerInv, FillerTypeOK', UNCHANGED <<positionVars, todo, fill, spoiled>>,
         contested \subseteq contested',
         \A a \in Auctions \ contested' :
           /\ Past(a) => dbAuctions'[a] = "closed" /\ memAuctions'[a] # "active"
           /\ memAuctions[a] = "closed" => memAuctions'[a] = "closed"
           /\ dbAuctions'[a] = "closed" => dbAuctions[a] = "closed"
  PROVE  FillerInv'
<1>1. /\ UNCHANGED <<records, memRecord, dbSupplied, dbBorrowed, settled, twice, taken, crossed>>
      /\ UNCHANGED <<todo, fill, spoiled>>
  BY DEF positionVars
<1>2. FillShape' /\ Bounded' BY <1>1 DEF FillerInv, FillShape, Bounded, Remaining
<1>3. \A a \in Auctions : Past(a)' <=> Past(a) BY <1>1 DEF Past, PositionInHand
<1>4. \A a \in Auctions \ contested' : Single(a)'
  <2> SUFFICES ASSUME NEW a \in Auctions \ contested' PROVE Single(a)' OBVIOUS
  <2>1. Single(a) BY DEF FillerInv
  <2>2. QED BY <1>1, <1>3, <2>1 DEF Single, Has
<1>5. ASSUME Exact PROVE Exact'
  <2>1. \A a \in Auctions \ contested' : dbAuctions'[a] = "closed" => Past(a)'
    BY <1>3, <1>5 DEF Exact
  <2>2. QED BY <1>1, <1>5, <2>1 DEF Exact, Remaining, PositionInHand
<1>6. twice' \subseteq contested' BY <1>1 DEF FillerInv
<1>7. ~spoiled' /\ ~crossed' => Exact' BY <1>1, <1>5 DEF FillerInv
<1>8. QED BY <1>2, <1>4, <1>6, <1>7 DEF FillerInv

LEMMA TriggerKeeps == ASSUME FillerInv, NEW a \in Auctions, TriggerAuction(a) PROVE FillerInv'
<1>1. /\ UNCHANGED <<positionVars, todo, fill, dbAuctions, troubles, contested, spoiled>>
      /\ dbAuctions[a] = "none" /\ memAuctions[a] = "none"
      /\ memAuctions' = [memAuctions EXCEPT ![a] = "active"] /\ opening' = opening \cup {a}
  BY DEF TriggerAuction
<1>2. FillerTypeOK BY DEF FillerInv
<1>3. FillerTypeOK'
  <2>1. memAuctions' \in [Auctions -> AuctionRows] BY <1>1, <1>2 DEF FillerTypeOK, AuctionRows
  <2>2. opening' \subseteq Auctions BY <1>1, <1>2 DEF FillerTypeOK
  <2>3. QED BY <1>1, <1>2, <2>1, <2>2 DEF FillerTypeOK, positionVars
<1>4. ASSUME NEW b \in Auctions \ contested'
      PROVE  /\ Past(b) => dbAuctions'[b] = "closed" /\ memAuctions'[b] # "active"
             /\ memAuctions[b] = "closed" => memAuctions'[b] = "closed"
             /\ dbAuctions'[b] = "closed" => dbAuctions[b] = "closed"
  <2>1. Single(b) BY <1>1 DEF FillerInv
  <2>2. Past(b) => b # a BY <1>1, <2>1 DEF Single
  <2>3. b # a => memAuctions'[b] = memAuctions[b] BY <1>1, <1>2 DEF FillerTypeOK
  <2>4. QED BY <1>1, <2>1, <2>2, <2>3 DEF Single
<1>5. QED BY <1>1, <1>3, <1>4, RowsChange

\* A row is written by another than a cycle.
LEMMA OthersWriteKeeps ==
  ASSUME FillerInv, NEW a \in Auctions,
         \/ OpeningSettles(a)
         \/ \E row \in AuctionRows : IndexerWrites(a, row)
  PROVE  FillerInv'
<1>1. FillerTypeOK BY DEF FillerInv
<1>2. /\ UNCHANGED <<positionVars, memAuctions, todo, fill, spoiled>>
      /\ troubles' \in 0..MaxTroubles /\ opening' \subseteq Auctions
      /\ contested \subseteq contested' /\ contested' \subseteq Auctions
      /\ \/ dbAuctions' = dbAuctions
         \/ \E row \in AuctionRows :
              /\ dbAuctions' = [dbAuctions EXCEPT ![a] = row]
              /\ (dbAuctions[a] = "none" /\ row # "closed") \/ a \in contested'
  <2>1. CASE OpeningSettles(a)
    BY <1>1, <2>1, TroubleFacts DEF OpeningSettles, FillerTypeOK, NoTrouble, AuctionRows
  <2>2. ASSUME NEW row \in AuctionRows, IndexerWrites(a, row)
        PROVE  /\ troubles' \in 0..MaxTroubles /\ contested \subseteq contested'
               /\ contested' \subseteq Auctions
               /\ (dbAuctions[a] = "none" /\ row # "closed") \/ a \in contested'
    BY <1>1, <2>2, TroubleFacts DEF IndexerWrites, FillerTypeOK
  <2>3. QED BY <1>1, <2>1, <2>2 DEF IndexerWrites, FillerTypeOK
<1>3. FillerTypeOK'
  <2>1. dbAuctions' \in [Auctions -> AuctionRows] BY <1>1, <1>2 DEF FillerTypeOK
  <2>2. QED BY <1>1, <1>2, <2>1 DEF FillerTypeOK, positionVars
<1>4. ASSUME NEW b \in Auctions \ contested'
      PROVE  /\ Past(b) => dbAuctions'[b] = "closed" /\ memAuctions'[b] # "active"
             /\ memAuctions[b] = "closed" => memAuctions'[b] = "closed"
             /\ dbAuctions'[b] = "closed" => dbAuctions[b] = "closed"
  <2>1. Single(b) BY <1>2 DEF FillerInv
  <2>2. dbAuctions'[b] = dbAuctions[b] \/ (dbAuctions[b] = "none" /\ dbAuctions'[b] # "closed")
    BY <1>1, <1>2 DEF FillerTypeOK
  <2>3. QED BY <1>2, <2>1, <2>2 DEF Single
<1>5. QED BY <1>2, <1>3, <1>4, RowsChange

LEMMA CycleKeeps == ASSUME FillerInv, NEW c \in Cycles, CycleBegins(c) PROVE FillerInv'
<1>1. FillerTypeOK /\ FillShape BY DEF FillerInv
<1>2. PICK list \in SUBSET Auctions :
        /\ list = Active(dbAuctions) \/ list = Active(memAuctions)
        /\ todo' = [todo EXCEPT ![c] = list]
        /\ contested' = contested \cup {a \in list : \E d \in Cycles : Has(d, a)}
        /\ troubles' \in 0..MaxTroubles
  BY <1>1, TroubleFacts DEF CycleBegins
<1>3. /\ UNCHANGED <<records, memRecord, dbSupplied, dbBorrowed, settled, twice, taken, crossed>>
      /\ UNCHANGED <<memAuctions, fill, opening, dbAuctions, spoiled>> /\ fill[c] = NoFill
  BY DEF CycleBegins, positionVars, NoTrouble
<1>4. /\ todo' \in [Cycles -> SUBSET Auctions] /\ todo'[c] = list
      /\ \A d \in Cycles \ {c} : todo'[d] = todo[d]
  BY <1>1, <1>2 DEF FillerTypeOK
<1>5. FillerTypeOK' BY <1>1, <1>2, <1>3, <1>4 DEF FillerTypeOK
<1>6. FillShape' BY <1>1, <1>3, <1>4, FillFacts DEF FillShape
<1>7. Bounded' BY <1>3 DEF FillerInv, Bounded, Remaining
<1>8. \A a \in Auctions : Past(a)' <=> Past(a) BY <1>3 DEF Past, PositionInHand
<1>9. ASSUME NEW a \in Auctions \ contested' PROVE Single(a)'
  <2>1. Single(a) /\ a \notin contested BY <1>2 DEF FillerInv
  <2>2. a \in list => \A d \in Cycles : ~Has(d, a) BY <1>2
  <2>3. \A d \in Cycles \ {c} : Has(d, a)' <=> Has(d, a) BY <1>3, <1>4 DEF Has
  <2>4. Has(c, a)' => a \in list BY <1>1, <1>3, <1>4, FillFacts DEF Has
  <2>5. Past(a) => a \notin list BY <1>2, <2>1 DEF Single, Active
  <2>6. \A d, e \in Cycles : Has(d, a)' /\ Has(e, a)' => d = e
    BY <2>1, <2>2, <2>3, <2>4 DEF Single
  <2>7. Past(a) => \A d \in Cycles : a \notin todo'[d]
    BY <1>4, <2>1, <2>5 DEF Single
  <2>8. QED BY <1>3, <1>8, <2>1, <2>6, <2>7 DEF Single
<1>10. ASSUME Exact PROVE Exact'
  <2>1. \A a \in Auctions \ contested' : dbAuctions'[a] = "closed" => Past(a)'
    BY <1>2, <1>3, <1>8, <1>10 DEF Exact
  <2>2. QED BY <1>3, <1>10, <2>1 DEF Exact, Remaining, PositionInHand
<1>11. twice' \subseteq contested' BY <1>2, <1>3 DEF FillerInv
<1>12. ~spoiled' /\ ~crossed' => Exact' BY <1>3, <1>10 DEF FillerInv
<1>13. QED BY <1>5, <1>6, <1>7, <1>9, <1>11, <1>12 DEF FillerInv

LEMMA CloseKeeps ==
  ASSUME FillerInv, NEW c \in Cycles, NEW a \in Auctions, CloseAuction(c, a) PROVE FillerInv'
<1>1. FillerTypeOK /\ FillShape BY DEF FillerInv
<1>2. /\ UNCHANGED <<records, memRecord, dbSupplied, dbBorrowed, settled, twice, taken, crossed>>
      /\ UNCHANGED <<opening, dbAuctions, troubles, contested, spoiled>>
      /\ fill[c] = NoFill /\ a \in todo[c]
      /\ memAuctions' = [memAuctions EXCEPT ![a] = "closed"]
      /\ todo' = [todo EXCEPT ![c] = @ \ {a}]
      /\ fill' = [fill EXCEPT ![c].at = "close", ![c].auction = a]
  BY DEF CloseAuction, positionVars
<1>3. /\ fill' \in [Cycles -> Fills] /\ \A d \in Cycles \ {c} : fill'[d] = fill[d]
      /\ fill'[c].at = "close" /\ fill'[c].auction = a
  BY <1>1, <1>2, FillFacts DEF FillerTypeOK, Fills
<1>4. /\ todo' \in [Cycles -> SUBSET Auctions] /\ todo'[c] = todo[c] \ {a}
      /\ \A d \in Cycles \ {c} : todo'[d] = todo[d]
      /\ memAuctions' \in [Auctions -> AuctionRows] /\ memAuctions'[a] = "closed"
      /\ \A b \in Auctions \ {a} : memAuctions'[b] = memAuctions[b]
  BY <1>1, <1>2 DEF FillerTypeOK, AuctionRows
<1>5. FillerTypeOK' BY <1>1, <1>2, <1>3, <1>4 DEF FillerTypeOK
<1>6. FillShape' BY <1>1, <1>2, <1>3, <1>4 DEF FillShape
<1>7. Bounded' BY <1>2, <1>3 DEF FillerInv, Bounded, Remaining
<1>8. \A d \in Cycles : PositionInHand(d)' <=> PositionInHand(d)
  BY <1>1, <1>2, <1>3, FillFacts DEF PositionInHand
<1>9. \A b \in Auctions : Past(b)' <=> Past(b)
  BY <1>2, <1>3, <1>8, FillFacts DEF Past, PositionInHand
<1>10. ASSUME NEW b \in Auctions \ contested' PROVE Single(b)'
  <2>1. Single(b) BY <1>2 DEF FillerInv
  <2>2. \A d \in Cycles : Has(d, b)' <=> Has(d, b)
    BY <1>1, <1>2, <1>3, <1>4, FillFacts DEF Has
  <2>3. b = a => ~Past(b) BY <1>2, <2>1 DEF Single
  <2>4. a \in settled => Past(a) BY DEF Past
  <2>5. \A d \in Cycles : fill'[d].auction = b =>
          /\ fill'[d].at = "close" => memAuctions'[b] = "closed"
          /\ b \in settled => fill'[d].at = "collateral"
    BY <1>3, <1>4, <2>1, <2>3, <2>4 DEF Single
  <2>6. Past(b) => /\ dbAuctions[b] = "closed" /\ memAuctions'[b] # "active"
                   /\ \A d \in Cycles : b \notin todo'[d]
    BY <1>4, <2>1 DEF Single
  <2>7. QED BY <1>2, <1>9, <2>1, <2>2, <2>5, <2>6 DEF Single
<1>11. ASSUME Exact PROVE Exact'
  <2>1. \A b \in Auctions \ contested' : dbAuctions'[b] = "closed" => Past(b)'
    BY <1>2, <1>9, <1>11 DEF Exact
  <2>2. \A d \in Cycles : fill[d].at # "collateral" <=> fill'[d].at # "collateral"
    BY <1>1, <1>2, <1>3, FillFacts
  <2>3. QED BY <1>2, <1>3, <1>8, <1>11, <2>1, <2>2 DEF Exact, Remaining
<1>12. twice' \subseteq contested' BY <1>2 DEF FillerInv
<1>13. ~spoiled' /\ ~crossed' => Exact' BY <1>2, <1>11 DEF FillerInv
<1>14. QED BY <1>5, <1>6, <1>7, <1>10, <1>12, <1>13 DEF FillerInv

LEMMA CloseSettlesKeeps ==
  ASSUME FillerInv, NEW c \in Cycles, CloseSettles(c) PROVE FillerInv'
<1> DEFINE a == fill[c].auction
<1>1. FillerTypeOK /\ FillShape BY DEF FillerInv
<1>2. /\ UNCHANGED <<memAuctions, records, memRecord, todo, opening, dbSupplied, dbBorrowed>>
      /\ UNCHANGED <<settled, twice, taken>> /\ fill[c].at = "close"
      /\ fill' = [fill EXCEPT ![c].at = IF memRecord = 0 THEN "select" ELSE "debt",
                              ![c].record = memRecord]
      /\ crossed' = (crossed \/ \E d \in Cycles \ {c} : PositionInHand(d))
  BY DEF CloseSettles
<1>3. a \in Auctions /\ a \notin todo[c] BY <1>1, <1>2 DEF FillShape
<1>4. /\ spoiled' = spoiled /\ troubles' \in 0..MaxTroubles
      /\ \/ dbAuctions' = [dbAuctions EXCEPT ![a] = "closed"] /\ contested' = contested
         \/ dbAuctions' = dbAuctions /\ contested' = contested \cup {a}
  BY <1>1, TroubleFacts DEF CloseSettles, NoTrouble
<1>5. memRecord \in Nat /\ (memRecord # 0 => memRecord \in 1..Len(records))
  BY <1>1 DEF FillerTypeOK
<1>6. /\ fill' \in [Cycles -> Fills] /\ \A d \in Cycles \ {c} : fill'[d] = fill[d]
      /\ fill'[c].at = (IF memRecord = 0 THEN "select" ELSE "debt")
      /\ fill'[c].auction = a /\ fill'[c].record = memRecord
  BY <1>1, <1>2, <1>5, FillFacts DEF FillerTypeOK, Fills
<1> HIDE DEF a
<1>7. /\ dbAuctions' \in [Auctions -> AuctionRows] /\ contested' \subseteq Auctions
      /\ \A b \in Auctions \ {a} : dbAuctions'[b] = dbAuctions[b]
      /\ a \notin contested' => dbAuctions'[a] = "closed"
      /\ contested \subseteq contested'
  BY <1>1, <1>3, <1>4 DEF FillerTypeOK, AuctionRows
<1>8. FillerTypeOK'
  <2>1. crossed' \in BOOLEAN BY <1>1, <1>2, Zenon DEF FillerTypeOK
  <2>2. \A d \in Cycles : fill'[d].at = "debt" => fill'[d].record \in 1..Len(records)
    BY <1>1, <1>5, <1>6 DEF FillerTypeOK
  <2>3. spoiled' \in BOOLEAN BY <1>1, <1>4, Zenon DEF FillerTypeOK
  <2>4. QED BY <1>1, <1>2, <1>4, <1>6, <1>7, <2>1, <2>2, <2>3 DEF FillerTypeOK
<1>9. FillShape' BY <1>1, <1>2, <1>3, <1>6 DEF FillShape
<1>10. Bounded' BY <1>2, <1>6 DEF FillerInv, Bounded, Remaining
<1>11. /\ ~PositionInHand(c) /\ PositionInHand(c)'
       /\ \A d \in Cycles \ {c} : PositionInHand(d)' <=> PositionInHand(d)
  BY <1>2, <1>6 DEF PositionInHand
<1>12. \A b \in Auctions : Past(b)' <=> Past(b) \/ b = a
  BY <1>2, <1>3, <1>6, <1>11 DEF Past, a
<1>13. ASSUME NEW b \in Auctions \ contested' PROVE Single(b)'
  <2>1. Single(b) BY <1>7 DEF FillerInv
  <2>2. \A d \in Cycles : Has(d, b)' <=> Has(d, b) BY <1>2, <1>6 DEF Has, a
  <2>3. b = a => /\ \A d \in Cycles : a \notin todo[d]
                 /\ memAuctions[b] = "closed" /\ b \notin settled
    BY <1>2, <1>3, <2>1 DEF Single, Has, a
  <2>4. Past(b)' => /\ dbAuctions'[b] = "closed" /\ memAuctions[b] # "active"
                    /\ \A d \in Cycles : b \notin todo[d]
    BY <1>7, <1>12, <2>1, <2>3 DEF Single
  <2>5. \A d \in Cycles : fill'[d].auction = b =>
          /\ fill'[d].at = "close" => memAuctions[b] = "closed"
          /\ b \in settled => fill'[d].at = "collateral"
    BY <1>6, <2>1, <2>3 DEF Single
  <2>6. QED BY <1>2, <2>1, <2>2, <2>4, <2>5 DEF Single
<1>14. ASSUME Exact, ~crossed' PROVE Exact'
  <2>1. \A d \in Cycles \ {c} : ~PositionInHand(d) BY <1>2, <1>14
  <2>2. \A d, e \in Cycles : PositionInHand(d)' /\ PositionInHand(e)' => d = e
    BY <1>11, <2>1
  <2>3. \A d \in Cycles : fill[d].at # "collateral" BY <1>2, <2>1 DEF PositionInHand
  <2>4. \A b \in Auctions \ contested' : dbAuctions'[b] = "closed" => Past(b)'
    BY <1>7, <1>12, <1>14 DEF Exact
  <2>5. \A d \in Cycles :
          /\ fill'[d].at \in {"row", "collateral"} => fill'[d].supplied = Remaining(taken)
          /\ fill'[d].at = "debt" => fill'[d].record = memRecord
    BY <1>6, <1>14 DEF Exact
  <2>6. dbSupplied = Remaining(taken) BY <1>14, <2>3 DEF Exact
  <2>7. QED BY <1>2, <1>14, <2>2, <2>4, <2>5, <2>6 DEF Exact, Remaining
<1>15. twice' \subseteq contested' BY <1>2, <1>7 DEF FillerInv
<1>16. ~spoiled' /\ ~crossed' => Exact' BY <1>2, <1>4, <1>14 DEF FillerInv
<1>17. QED BY <1>8, <1>9, <1>10, <1>13, <1>15, <1>16 DEF FillerInv

\* A cycle goes on without its auctions' or the database's rows: its fill ends,
\* or holds the same auction with the position.
LEMMA FillMoves ==
  ASSUME FillerInv, NEW c \in Cycles, PositionInHand(c),
         UNCHANGED <<memAuctions, todo, dbAuctions, settled, contested>>,
         \A d \in Cycles \ {c} : fill'[d] = fill[d],
         \/ fill'[c] = NoFill
         \/ /\ fill'[c].auction = fill[c].auction /\ PositionInHand(c)'
            /\ fill[c].at # "collateral"
  PROVE  /\ \A a \in Auctions : Past(a)' => Past(a)
         /\ PositionInHand(c)' \/ fill[c].auction \in settled =>
              \A a \in Auctions : Past(a) => Past(a)'
         /\ \A a \in Auctions \ contested' : Single(a)'
<1>1. FillerTypeOK /\ FillShape BY DEF FillerInv
<1>2. \A d \in Cycles \ {c} : PositionInHand(d)' <=> PositionInHand(d) BY DEF PositionInHand
<1>3. fill'[c] = NoFill => ~PositionInHand(c)' /\ fill'[c].auction \notin Auctions
  BY <1>1, FillFacts DEF PositionInHand
<1>4. /\ \A a \in Auctions : Past(a)' => Past(a)
      /\ PositionInHand(c)' \/ fill[c].auction \in settled =>
           \A a \in Auctions : Past(a) => Past(a)'
  BY <1>2, <1>3 DEF Past
<1>5. ASSUME NEW a \in Auctions \ contested' PROVE Single(a)'
  <2>1. Single(a) BY DEF FillerInv
  <2>2. \A d \in Cycles : Has(d, a)' => Has(d, a) BY <1>3 DEF Has
  <2>3. \A d \in Cycles : fill'[d].auction = a =>
          /\ fill'[d].at = "close" => memAuctions[a] = "closed"
          /\ a \in settled => fill'[d].at = "collateral"
    BY <1>3, <2>1 DEF Single, PositionInHand
  <2>4. QED BY <1>4, <2>1, <2>2, <2>3 DEF Single
<1>6. QED BY <1>4, <1>5

LEMMA SelectKeeps ==
  ASSUME FillerInv, NEW c \in Cycles, SelectRuns(c) PROVE FillerInv'
<1>1. FillerTypeOK /\ FillShape BY DEF FillerInv
<1>2. /\ UNCHANGED <<records, memRecord, dbSupplied, dbBorrowed, settled, twice, taken, crossed>>
      /\ UNCHANGED <<memAuctions, todo, opening, dbAuctions, contested>>
      /\ fill[c].at = "select" /\ troubles' \in 0..MaxTroubles
      /\ \/ /\ fill' = [fill EXCEPT ![c].at = "row", ![c].supplied = dbSupplied]
            /\ spoiled' = spoiled
         \/ fill' = [fill EXCEPT ![c] = NoFill] /\ spoiled' = TRUE
  BY <1>1, TroubleFacts DEF SelectRuns, positionVars
<1>3. /\ fill' \in [Cycles -> Fills] /\ \A d \in Cycles \ {c} : fill'[d] = fill[d]
      /\ \/ /\ fill'[c].at = "row" /\ fill'[c].auction = fill[c].auction
            /\ fill'[c].supplied = dbSupplied /\ spoiled' = spoiled
         \/ fill'[c] = NoFill /\ spoiled' = TRUE
  <2>1. fill \in [Cycles -> Fills] /\ fill[c] \in Fills /\ NoFill \in Fills
        /\ dbSupplied \in 0..MaxCollateral
    BY <1>1, FillFacts DEF FillerTypeOK
  <2>2. CASE /\ fill' = [fill EXCEPT ![c].at = "row", ![c].supplied = dbSupplied]
             /\ spoiled' = spoiled
    BY <2>1, <2>2 DEF Fills
  <2>3. CASE fill' = [fill EXCEPT ![c] = NoFill] /\ spoiled' = TRUE
    BY <2>1, <2>3
  <2>4. QED BY <1>2, <2>2, <2>3
<1>4. FillerTypeOK'
  <2>1. spoiled' \in BOOLEAN BY <1>1, <1>2, Zenon DEF FillerTypeOK
  <2>2. \A d \in Cycles : fill'[d].at = "debt" => fill'[d].record \in 1..Len(records)
    BY <1>1, <1>3, FillFacts DEF FillerTypeOK
  <2>3. QED BY <1>1, <1>2, <1>3, <2>1, <2>2 DEF FillerTypeOK
<1>5. FillShape' BY <1>1, <1>2, <1>3, FillFacts DEF FillShape
<1>6. Bounded'
  <2>1. fill'[c].at \in {"row", "collateral"} => fill'[c].supplied >= Remaining(taken)
    BY <1>3, FillFacts, <1>1 DEF FillerInv, Bounded
  <2>2. QED BY <1>2, <1>3, <2>1 DEF FillerInv, Bounded, Remaining
<1>7. PositionInHand(c) /\ (fill'[c].at = "row" => PositionInHand(c)')
  BY <1>2 DEF PositionInHand
<1>8. /\ \A a \in Auctions : Past(a)' => Past(a)
      /\ fill'[c].at = "row" => \A a \in Auctions : Past(a) => Past(a)'
      /\ \A a \in Auctions \ contested' : Single(a)'
  BY <1>2, <1>3, <1>7, FillMoves
<1>9. ASSUME Exact, ~spoiled' PROVE Exact'
  <2>1. /\ fill'[c].at = "row" /\ fill'[c].auction = fill[c].auction
        /\ fill'[c].supplied = dbSupplied
    BY <1>3, <1>9
  <2>2. \A d \in Cycles : PositionInHand(d)' <=> PositionInHand(d)
    BY <1>3, <1>7, <2>1 DEF PositionInHand
  <2>3. \A d \in Cycles : fill[d].at = "collateral" => d = c
    BY <1>7, <1>9 DEF Exact, PositionInHand
  <2>4. dbSupplied = Remaining(taken) BY <1>2, <1>9, <2>3 DEF Exact
  <2>5. \A d \in Cycles :
          /\ fill'[d].at \in {"row", "collateral"} => fill'[d].supplied = Remaining(taken)
          /\ fill'[d].at = "debt" => fill'[d].record = memRecord
    BY <1>3, <1>9, <2>1, <2>4 DEF Exact
  <2>6. \A a \in Auctions \ contested' : dbAuctions'[a] = "closed" => Past(a)'
    BY <1>2, <1>8, <1>9, <2>1 DEF Exact
  <2>7. QED BY <1>2, <1>9, <2>2, <2>4, <2>5, <2>6 DEF Exact, Remaining
<1>10. twice' \subseteq contested' BY <1>2 DEF FillerInv
<1>11. ~spoiled' /\ ~crossed' => Exact'
  <2>1. ~spoiled' => ~spoiled BY <1>2
  <2>2. QED BY <1>2, <1>9, <2>1 DEF FillerInv
<1>12. QED BY <1>4, <1>5, <1>6, <1>8, <1>10, <1>11 DEF FillerInv

LEMMA RowKeeps ==
  ASSUME FillerInv, NEW c \in Cycles, RowReturns(c) PROVE FillerInv'
<1>1. FillerTypeOK /\ FillShape BY DEF FillerInv
<1>2. /\ UNCHANGED <<dbSupplied, dbBorrowed, settled, twice, taken, crossed, troubles, spoiled>>
      /\ UNCHANGED <<memAuctions, todo, opening, dbAuctions, contested>>
      /\ fill[c].at = "row" /\ records' = Append(records, fill[c].supplied)
      /\ memRecord' = Len(records) + 1
      /\ fill' = [fill EXCEPT ![c].at = "debt", ![c].record = Len(records) + 1,
                              ![c].supplied = 0]
  BY DEF RowReturns
<1>3. /\ records \in Seq(0..MaxCollateral) /\ fill[c].supplied \in 0..MaxCollateral
      /\ Len(records) + 1 \in Nat /\ 0 \in 0..MaxCollateral /\ memRecord \in 0..Len(records)
  BY <1>1, FillFacts, FillerAssumption DEF FillerTypeOK
<1>4. /\ fill' \in [Cycles -> Fills] /\ \A d \in Cycles \ {c} : fill'[d] = fill[d]
      /\ fill'[c].at = "debt" /\ fill'[c].auction = fill[c].auction
      /\ fill'[c].record = Len(records) + 1
  BY <1>1, <1>2, <1>3, FillFacts DEF FillerTypeOK, Fills
<1>5. /\ records' \in Seq(0..MaxCollateral) /\ Len(records') = Len(records) + 1
      /\ records'[Len(records) + 1] = fill[c].supplied
      /\ \A i \in 1..Len(records) : records'[i] = records[i]
  BY <1>2, <1>3
<1>6. FillerTypeOK'
  <2>1. \A d \in Cycles : fill'[d].at = "debt" => fill'[d].record \in 1..Len(records')
    BY <1>1, <1>3, <1>4, <1>5 DEF FillerTypeOK
  <2>2. memRecord' \in 0..Len(records') BY <1>2, <1>3, <1>5
  <2>3. QED BY <1>1, <1>2, <1>4, <1>5, <2>1, <2>2 DEF FillerTypeOK
<1>7. FillShape' BY <1>1, <1>2, <1>4 DEF FillShape
<1>8. Bounded'
  <2>1. fill[c].supplied >= Remaining(taken) BY <1>2 DEF FillerInv, Bounded
  <2>2. \A i \in 1..Len(records') : records'[i] >= Remaining(taken)
    BY <1>3, <1>5, <2>1 DEF FillerInv, Bounded
  <2>3. QED BY <1>2, <1>4, <1>5, <2>2 DEF FillerInv, Bounded, Remaining
<1>9. PositionInHand(c) /\ PositionInHand(c)' BY <1>2, <1>4 DEF PositionInHand
<1>10. /\ \A a \in Auctions : Past(a) => Past(a)'
       /\ \A a \in Auctions \ contested' : Single(a)'
  BY <1>2, <1>4, <1>9, FillMoves
<1>11. ASSUME Exact PROVE Exact'
  <2>1. \A d \in Cycles : PositionInHand(d)' <=> PositionInHand(d)
    BY <1>4, <1>9 DEF PositionInHand
  <2>2. \A d \in Cycles \ {c} : ~PositionInHand(d) BY <1>9, <1>11 DEF Exact
  <2>3. \A d \in Cycles \ {c} : ~(fill'[d].at \in {"row", "collateral", "debt"})
    BY <1>4, <2>2 DEF PositionInHand
  <2>4. fill[c].supplied = Remaining(taken) BY <1>2, <1>11 DEF Exact
  <2>5. \A d \in Cycles :
          /\ fill'[d].at \in {"row", "collateral"} => fill'[d].supplied = Remaining(taken)
          /\ fill'[d].at = "debt" => fill'[d].record = memRecord'
    BY <1>2, <1>4, <2>3
  <2>6. \A a \in Auctions \ contested' : dbAuctions'[a] = "closed" => Past(a)'
    BY <1>2, <1>10, <1>11 DEF Exact
  <2>7. records'[memRecord'] = Remaining(taken) BY <1>2, <1>5, <2>4
  <2>8. dbSupplied = Remaining(taken)
    <3>1. \A d \in Cycles : fill[d].at # "collateral" BY <1>2, <2>2 DEF PositionInHand
    <3>2. QED BY <1>11, <3>1 DEF Exact
  <2>9. QED BY <1>2, <1>11, <2>1, <2>5, <2>6, <2>7, <2>8 DEF Exact, Remaining
<1>12. twice' \subseteq contested' BY <1>2 DEF FillerInv
<1>13. ~spoiled' /\ ~crossed' => Exact' BY <1>2, <1>11 DEF FillerInv
<1>14. QED BY <1>6, <1>7, <1>8, <1>10, <1>12, <1>13 DEF FillerInv

LEMMA TakeKeeps ==
  ASSUME FillerInv, NEW c \in Cycles, TakeCollateral(c) PROVE FillerInv'
<1> DEFINE held == records[fill[c].record]
           supplied == Left(held)
           kept == [records EXCEPT ![fill[c].record] = supplied]
           a == fill[c].auction
<1>1. FillerTypeOK /\ FillShape BY DEF FillerInv
<1>2. /\ UNCHANGED <<memAuctions, todo, opening, dbAuctions, dbSupplied, contested, crossed>>
      /\ fill[c].at = "debt" /\ memRecord' = Len(records) + 1 /\ taken' = taken + 1
      /\ records' = Append(kept, supplied)
      /\ fill' = [fill EXCEPT ![c].at = "collateral", ![c].record = 0, ![c].supplied = supplied]
      /\ settled' = settled \cup {a} /\ twice' = twice \cup (settled \cap {a})
  BY DEF TakeCollateral
<1>3. /\ troubles' \in 0..MaxTroubles /\ dbBorrowed' \in 0..1
      /\ (dbBorrowed' = 0 /\ spoiled' = spoiled) \/ spoiled' = TRUE
  <2>1. dbBorrowed \in 0..1 BY <1>1 DEF FillerTypeOK
  <2>2. \/ dbBorrowed' = 0 /\ NoTrouble
        \/ dbBorrowed' = dbBorrowed /\ Trouble
    BY DEF TakeCollateral
  <2>3. /\ NoTrouble => troubles' \in 0..MaxTroubles /\ spoiled' = spoiled
        /\ Trouble => troubles' \in 0..MaxTroubles /\ spoiled' = TRUE
    BY <1>1, TroubleFacts
  <2>4. QED BY <2>1, <2>2, <2>3
<1>4. /\ records \in Seq(0..MaxCollateral) /\ fill[c].record \in 1..Len(records)
      /\ held \in 0..MaxCollateral /\ held \in Nat /\ taken \in Nat /\ a \in Auctions
      /\ a \notin todo[c] /\ held >= Remaining(taken)
  <2>1. records \in Seq(0..MaxCollateral) /\ fill[c].record \in 1..Len(records)
    BY <1>1, <1>2 DEF FillerTypeOK
  <2>2. taken \in Nat /\ a \in Auctions /\ a \notin todo[c]
    BY <1>1, <1>2 DEF FillerTypeOK, FillShape
  <2>3. held \in 0..MaxCollateral /\ held >= Remaining(taken)
    <3>1. DOMAIN records = 1..Len(records) BY <2>1
    <3>2. held \in 0..MaxCollateral
      <4>1. \A i \in 1..Len(records) : records[i] \in 0..MaxCollateral BY <2>1, FillerAssumption
      <4>2. QED BY <2>1, <4>1
    <3>3. QED BY <2>1, <3>1, <3>2 DEF FillerInv, Bounded
  <2>4. QED BY <2>1, <2>2, <2>3, FillerAssumption
<1> HIDE DEF held
<1>5. supplied \in 0..MaxCollateral
  <2>1. held <= MaxCollateral BY <1>4, FillerAssumption
  <2>2. QED BY ONLY <1>4, <2>1, RemainingFacts
<1>6. /\ Remaining(taken) \in Nat /\ Remaining(taken + 1) <= Remaining(taken)
      /\ Remaining(taken + 1) \in Nat
      /\ held = Remaining(taken) => supplied = Remaining(taken + 1)
      /\ supplied >= Remaining(taken + 1)
  <2>1. taken + 1 \in Nat BY <1>4
  <2> DEFINE next == taken + 1
  <2>2. Remaining(taken) \in Nat /\ Remaining(next) \in Nat
    <3>1. Remaining(taken) \in 0..MaxCollateral BY <1>4, RemainingFacts
    <3> HIDE DEF next
    <3>2. Remaining(next) \in 0..MaxCollateral BY <2>1, RemainingFacts DEF next
    <3>3. QED BY <3>1, <3>2, FillerAssumption
  <2>3. QED BY ONLY <1>4, <2>2, RemainingFacts
<1> HIDE DEF supplied
<1>7. /\ kept \in Seq(0..MaxCollateral) /\ Len(kept) = Len(records)
      /\ kept[fill[c].record] = supplied
      /\ \A i \in 1..Len(records) : i # fill[c].record => kept[i] = records[i]
  BY <1>4, <1>5
<1> HIDE DEF kept
<1>8. /\ records' \in Seq(0..MaxCollateral) /\ Len(records') = Len(records) + 1
      /\ records'[Len(records) + 1] = supplied
      /\ \A i \in 1..Len(records) : records'[i] = kept[i]
  BY <1>2, <1>5, <1>7
<1>9. /\ fill' \in [Cycles -> Fills] /\ \A d \in Cycles \ {c} : fill'[d] = fill[d]
      /\ fill'[c].at = "collateral" /\ fill'[c].auction = a /\ fill'[c].supplied = supplied
  BY <1>1, <1>2, <1>5, FillFacts DEF FillerTypeOK, Fills
<1> HIDE DEF a
<1>10. FillerTypeOK'
  <2>1. \A d \in Cycles : fill'[d].at = "debt" => fill'[d].record \in 1..Len(records')
    BY <1>1, <1>4, <1>8, <1>9 DEF FillerTypeOK
  <2>2. memRecord' \in 0..Len(records') /\ taken' \in Nat BY <1>2, <1>4, <1>8
  <2>3. spoiled' \in BOOLEAN BY <1>1, <1>3, Zenon DEF FillerTypeOK
  <2>4. settled' \subseteq Auctions /\ twice' \subseteq Auctions
    BY <1>1, <1>2, <1>4 DEF FillerTypeOK
  <2>5. QED BY <1>1, <1>2, <1>3, <1>8, <1>9, <2>1, <2>2, <2>3, <2>4 DEF FillerTypeOK
<1>11. FillShape' BY <1>1, <1>2, <1>4, <1>9 DEF FillShape
<1>12. Bounded'
  <2>1. /\ dbSupplied >= Remaining(taken) /\ dbSupplied \in Nat
        /\ \A i \in 1..Len(records) : records[i] >= Remaining(taken) /\ records[i] \in Nat
        /\ \A d \in Cycles : fill[d].at \in {"row", "collateral"} =>
             fill[d].supplied >= Remaining(taken) /\ fill[d].supplied \in Nat
    <3>1. dbSupplied \in Nat BY <1>1, FillerAssumption DEF FillerTypeOK
    <3>2. \A i \in 1..Len(records) : records[i] \in Nat BY <1>4, FillerAssumption
    <3>3. \A d \in Cycles : fill[d].supplied \in Nat BY <1>1, FillFacts, FillerAssumption
    <3>4. DOMAIN records = 1..Len(records) BY <1>4
    <3>5. QED BY <3>1, <3>2, <3>3, <3>4 DEF FillerInv, Bounded
  <2>2. ASSUME NEW i \in 1..Len(records') PROVE records'[i] >= Remaining(taken + 1)
    <3>1. CASE i = Len(records) + 1 BY <1>6, <1>8, <3>1
    <3>2. CASE i \in 1..Len(records)
      <4>1. records'[i] = supplied \/ records'[i] = records[i] BY <1>7, <1>8, <3>2
      <4>2. QED BY <1>6, <2>1, <3>2, <4>1
    <3>3. QED BY <1>4, <1>8, <3>1, <3>2
  <2>3. ASSUME NEW d \in Cycles, fill'[d].at \in {"row", "collateral"}
        PROVE  fill'[d].supplied >= Remaining(taken + 1)
    BY <1>6, <1>9, <2>1, <2>3
  <2>4. dbSupplied' >= Remaining(taken + 1) BY <1>2, <1>6, <2>1
  <2>5. DOMAIN records' = 1..Len(records') BY <1>8
  <2>6. QED BY <1>2, <2>2, <2>3, <2>4, <2>5 DEF Bounded, Remaining
<1>13. \A d \in Cycles : PositionInHand(d)' <=> PositionInHand(d)
  BY <1>2, <1>9 DEF PositionInHand
<1>14. \A b \in Auctions : Past(b)' <=> Past(b)
  <2>1. Past(a) BY <1>2 DEF Past, PositionInHand, a
  <2>2. QED BY <1>2, <1>9, <1>13, <2>1 DEF Past, a
<1>15. ASSUME NEW b \in Auctions \ contested' PROVE Single(b)'
  <2>1. Single(b) BY <1>2 DEF FillerInv
  <2>2. \A d \in Cycles : Has(d, b)' <=> Has(d, b) BY <1>2, <1>9 DEF Has, a
  <2>3. \A d \in Cycles : fill'[d].auction = b => Has(d, b) BY <1>9 DEF Has, a
  <2>4. b = a => Has(c, b) BY DEF Has, a
  <2>5. \A d \in Cycles : fill'[d].auction = b =>
          /\ fill'[d].at = "close" => memAuctions[b] = "closed"
          /\ b \in settled' => fill'[d].at = "collateral"
    <3> SUFFICES ASSUME NEW d \in Cycles, fill'[d].auction = b
                 PROVE  /\ fill'[d].at = "close" => memAuctions[b] = "closed"
                        /\ b \in settled' => fill'[d].at = "collateral"
      OBVIOUS
    <3>1. CASE d = c BY <1>9, <3>1
    <3>2. CASE d # c
      <4>1. b # a BY <2>1, <2>3, <2>4, <3>2 DEF Single
      <4>2. QED BY <1>2, <1>9, <2>1, <3>2, <4>1 DEF Single
    <3>3. QED BY <3>1, <3>2
  <2>6. QED BY <1>2, <1>14, <2>1, <2>2, <2>5 DEF Single
<1>16. ASSUME Exact, ~spoiled' PROVE Exact'
  <2>1. \A d \in Cycles \ {c} : ~(fill[d].at \in {"row", "collateral", "debt"})
    BY <1>2, <1>16 DEF Exact, PositionInHand
  <2>2. /\ fill[c].record = memRecord /\ memRecord # 0
        /\ held = Remaining(taken)
    BY <1>2, <1>4, <1>16 DEF Exact, held
  <2>3. supplied = Remaining(taken + 1) BY <1>6, <2>2
  <2>4. \A d \in Cycles :
          /\ fill'[d].at \in {"row", "collateral"} => fill'[d].supplied = Remaining(taken + 1)
          /\ fill'[d].at = "debt" => fill'[d].record = memRecord'
    BY <1>9, <2>1, <2>3
  <2>5. records'[memRecord'] = Remaining(taken + 1) BY <1>2, <1>8, <2>3
  <2>6. dbBorrowed' = (IF taken' = 0 THEN 1 ELSE 0) BY <1>2, <1>3, <1>4, <1>16
  <2>7. \A b \in Auctions \ contested' : dbAuctions'[b] = "closed" => Past(b)'
    BY <1>2, <1>14, <1>16 DEF Exact
  <2>8. ~(\A d \in Cycles : fill'[d].at # "collateral") BY <1>9
  <2>9. \A d, e \in Cycles : PositionInHand(d)' /\ PositionInHand(e)' => d = e
    BY <1>13, <1>16 DEF Exact
  <2>10. QED BY <1>2, <2>4, <2>5, <2>6, <2>7, <2>8, <2>9 DEF Exact, Remaining
<1>17. twice' \subseteq contested'
  <2>1. a \in settled => a \in contested BY <1>2, <1>4 DEF FillerInv, Single, a
  <2>2. QED BY <1>2, <2>1 DEF FillerInv
<1>18. ~spoiled' /\ ~crossed' => Exact'
  <2>1. ~spoiled' => ~spoiled BY <1>3
  <2>2. QED BY <1>2, <1>16, <2>1 DEF FillerInv
<1>19. QED BY <1>10, <1>11, <1>12, <1>15, <1>17, <1>18 DEF FillerInv

LEMMA CollateralKeeps ==
  ASSUME FillerInv, NEW c \in Cycles, CollateralSettles(c) PROVE FillerInv'
<1>1. FillerTypeOK /\ FillShape BY DEF FillerInv
<1>2. /\ UNCHANGED <<memAuctions, records, memRecord, todo, opening, dbAuctions, dbBorrowed>>
      /\ UNCHANGED <<settled, twice, taken, contested, crossed>>
      /\ fill[c].at = "collateral" /\ fill' = [fill EXCEPT ![c] = NoFill]
      /\ troubles' \in 0..MaxTroubles
      /\ \/ dbSupplied' = fill[c].supplied /\ spoiled' = spoiled
         \/ dbSupplied' = dbSupplied /\ spoiled' = TRUE
  BY <1>1, TroubleFacts DEF CollateralSettles
<1>3. /\ fill' \in [Cycles -> Fills] /\ \A d \in Cycles \ {c} : fill'[d] = fill[d]
      /\ fill'[c] = NoFill
  BY <1>1, <1>2, FillFacts DEF FillerTypeOK
<1>4. FillerTypeOK'
  <2>1. spoiled' \in BOOLEAN BY <1>1, <1>2, Zenon DEF FillerTypeOK
  <2>2. \A d \in Cycles : fill'[d].at = "debt" => fill'[d].record \in 1..Len(records)
    BY <1>1, <1>3, FillFacts DEF FillerTypeOK
  <2>3. dbSupplied' \in 0..MaxCollateral BY <1>1, <1>2, FillFacts DEF FillerTypeOK
  <2>4. QED BY <1>1, <1>2, <1>3, <2>1, <2>2, <2>3 DEF FillerTypeOK
<1>5. FillShape' BY <1>1, <1>2, <1>3, FillFacts DEF FillShape
<1>6. Bounded'
  <2>1. dbSupplied' >= Remaining(taken) BY <1>2 DEF FillerInv, Bounded
  <2>2. \A d \in Cycles : fill'[d].at \in {"row", "collateral"} =>
          fill'[d].supplied >= Remaining(taken)
    BY <1>1, <1>3, FillFacts DEF FillerInv, Bounded
  <2>3. QED BY <1>2, <2>1, <2>2 DEF FillerInv, Bounded, Remaining
<1>7. PositionInHand(c) /\ fill[c].auction \in settled
  BY <1>1, <1>2 DEF PositionInHand, FillShape
<1>8. /\ \A a \in Auctions : Past(a) => Past(a)'
      /\ \A a \in Auctions \ contested' : Single(a)'
  BY <1>2, <1>3, <1>7, FillMoves
<1>9. ASSUME Exact, ~spoiled' PROVE Exact'
  <2>1. \A d \in Cycles : ~PositionInHand(d)'
    <3>1. \A d \in Cycles \ {c} : ~PositionInHand(d) BY <1>7, <1>9 DEF Exact
    <3>2. QED BY <1>1, <1>3, <3>1, FillFacts DEF PositionInHand
  <2>2. dbSupplied' = Remaining(taken) BY <1>2, <1>9 DEF Exact
  <2>3. \A a \in Auctions \ contested' : dbAuctions'[a] = "closed" => Past(a)'
    BY <1>2, <1>8, <1>9 DEF Exact
  <2>4. \A d \in Cycles : ~(fill'[d].at \in {"row", "collateral", "debt"})
    BY <2>1 DEF PositionInHand
  <2>5. QED BY <1>2, <1>9, <2>1, <2>2, <2>3, <2>4 DEF Exact, Remaining
<1>10. twice' \subseteq contested' BY <1>2 DEF FillerInv
<1>11. ~spoiled' /\ ~crossed' => Exact'
  <2>1. ~spoiled' => ~spoiled BY <1>2
  <2>2. QED BY <1>2, <1>9, <2>1 DEF FillerInv
<1>12. QED BY <1>4, <1>5, <1>6, <1>8, <1>10, <1>11 DEF FillerInv

LEMMA RestartKeeps == ASSUME FillerInv, KeeperRestarts PROVE FillerInv'
<1>1. FillerTypeOK /\ FillShape BY DEF FillerInv
<1> DEFINE Closed(reached) == {fill[c].auction : c \in {d \in reached : fill[d].at = "close"}}
           Supplies(reached) ==
             {fill[c].supplied : c \in {d \in reached : fill[d].at = "collateral"}}
<1>2. PICK opened \in SUBSET opening, reached \in SUBSET Cycles :
        /\ \/ dbAuctions' = [a \in Auctions |-> IF a \in Closed(reached) THEN "closed"
                                                ELSE IF a \in opened THEN "active"
                                                ELSE dbAuctions[a]]
           \/ dbAuctions' = [a \in Auctions |-> IF a \in opened THEN "active"
                                                ELSE IF a \in Closed(reached) THEN "closed"
                                                ELSE dbAuctions[a]]
        /\ contested' = contested \cup
             {a \in opened : dbAuctions[a] # "none" \/ a \in Closed(reached)}
        /\ dbBorrowed' = IF \E c \in reached : fill[c].at = "debt" THEN 0 ELSE dbBorrowed
        /\ dbSupplied' \in Supplies(reached)
                           \cup (IF \E c \in reached : fill[c].at = "collateral" THEN {}
                                 ELSE {dbSupplied})
  BY DEF KeeperRestarts
<1>3. /\ memAuctions' = [a \in Auctions |-> "none"] /\ records' = <<>> /\ memRecord' = 0
      /\ todo' = [c \in Cycles |-> {}] /\ fill' = [c \in Cycles |-> NoFill] /\ opening' = {}
      /\ settled' = settled /\ twice' = twice /\ taken' = taken /\ crossed' = crossed
  BY DEF KeeperRestarts
<1>4. /\ troubles' \in 0..MaxTroubles
      /\ spoiled' = TRUE \/ (spoiled' = spoiled /\ \A c \in Cycles : fill[c] = NoFill)
  <2>1. /\ Counted => troubles' \in 0..MaxTroubles
        /\ Trouble => troubles' \in 0..MaxTroubles /\ spoiled' = TRUE
    BY <1>1, TroubleFacts
  <2>2. IF \A c \in Cycles : fill[c] = NoFill THEN Counted /\ spoiled' = spoiled ELSE Trouble
    BY DEF KeeperRestarts
  <2>3. QED BY <2>1, <2>2
<1>5. \A c \in Cycles : fill'[c] = NoFill /\ todo'[c] = {} BY <1>3
<1>6. /\ dbAuctions' \in [Auctions -> AuctionRows] /\ contested' \subseteq Auctions
      /\ contested \subseteq contested'
      /\ \A a \in Auctions \ contested' :
           /\ dbAuctions[a] = "closed" => dbAuctions'[a] = "closed"
           /\ dbAuctions'[a] = "closed" => dbAuctions[a] = "closed" \/ a \in Closed(reached)
  <2> HIDE DEF Closed
  <2>1. dbAuctions \in [Auctions -> AuctionRows] /\ opening \subseteq Auctions
        /\ contested \subseteq Auctions
    BY <1>1 DEF FillerTypeOK
  <2>2. QED BY <1>2, <2>1 DEF AuctionRows
<1>7. dbSupplied' \in 0..MaxCollateral /\ dbSupplied' >= Remaining(taken)
  <2>1. CASE dbSupplied' = dbSupplied BY <1>1, <2>1 DEF FillerInv, Bounded, FillerTypeOK
  <2>2. CASE dbSupplied' \in Supplies(reached)
    <3>1. PICK c \in Cycles : fill[c].at = "collateral" /\ dbSupplied' = fill[c].supplied
      BY <2>2
    <3>2. QED BY <1>1, <3>1, FillFacts DEF FillerInv, Bounded
  <2>3. QED BY <1>2, <2>1, <2>2
<1>8. FillerTypeOK'
  <2>1. /\ memAuctions' \in [Auctions -> AuctionRows] /\ todo' \in [Cycles -> SUBSET Auctions]
    BY <1>3 DEF AuctionRows
  <2>2. fill' \in [Cycles -> Fills]
        /\ \A c \in Cycles : fill'[c].at = "debt" => fill'[c].record \in 1..Len(records')
    BY <1>1, <1>3, <1>5, FillFacts
  <2>3. records' \in Seq(0..MaxCollateral) /\ memRecord' \in 0..Len(records') BY <1>3
  <2>4. spoiled' \in BOOLEAN BY <1>1, <1>4, Zenon DEF FillerTypeOK
  <2>5. dbBorrowed' \in 0..1 BY <1>1, <1>2 DEF FillerTypeOK
  <2>6. QED BY <1>1, <1>3, <1>4, <1>6, <1>7, <2>1, <2>2, <2>3, <2>4, <2>5 DEF FillerTypeOK
<1>9. FillShape' BY <1>1, <1>5, FillFacts DEF FillShape
<1>10. Bounded' BY <1>1, <1>3, <1>5, <1>7, FillFacts DEF Bounded, Remaining
<1>11. \A a \in Auctions : Past(a)' <=> a \in settled
  BY <1>1, <1>3, <1>5, FillFacts DEF Past, PositionInHand
<1>12. ASSUME NEW a \in Auctions \ contested' PROVE Single(a)'
  <2>1. Single(a) BY <1>6 DEF FillerInv
  <2>2. a \in settled => dbAuctions'[a] = "closed"
    BY <1>6, <2>1 DEF Single, Past
  <2>3. memAuctions'[a] # "active" BY <1>3
  <2>4. \A c \in Cycles : ~Has(c, a)' /\ fill'[c].auction # a
    BY <1>1, <1>5, FillFacts DEF Has
  <2>5. QED BY <1>5, <1>11, <2>2, <2>3, <2>4 DEF Single
<1>13. ASSUME Exact, ~spoiled' PROVE Exact'
  <2>1. \A c \in Cycles : fill[c] = NoFill BY <1>4, <1>13
  <2>2. \A c \in Cycles : ~(fill[c].at \in {"close", "select", "row", "debt", "collateral"})
    BY <1>1, <2>1, FillFacts DEF NoFill
  <2>3. /\ dbSupplied' = dbSupplied /\ dbBorrowed' = dbBorrowed /\ Closed(reached) = {}
    BY <1>2, <2>2
  <2>4. dbSupplied = Remaining(taken) BY <1>13, <2>2 DEF Exact
  <2>5. ASSUME NEW a \in Auctions \ contested', dbAuctions'[a] = "closed" PROVE Past(a)'
    <3>1. Past(a) BY <1>6, <1>13, <2>3, <2>5 DEF Exact
    <3>2. a \in settled BY <2>2, <3>1 DEF Past, PositionInHand
    <3>3. QED BY <1>11, <3>2
  <2>6. \A c \in Cycles : ~PositionInHand(c)' /\ ~(fill'[c].at \in {"row", "debt", "collateral"})
    BY <1>1, <1>5, FillFacts DEF PositionInHand
  <2>7. QED BY <1>3, <1>13, <2>3, <2>4, <2>5, <2>6 DEF Exact, Remaining
<1>14. twice' \subseteq contested' BY <1>3, <1>6 DEF FillerInv
<1>15. ~spoiled' /\ ~crossed' => Exact'
  <2>1. ~spoiled' => ~spoiled BY <1>4
  <2>2. QED BY <1>3, <1>13, <2>1 DEF FillerInv
<1>16. QED BY <1>8, <1>9, <1>10, <1>12, <1>14, <1>15 DEF FillerInv

LEMMA FillerInitially == FillerInit => FillerInv
<1> SUFFICES ASSUME FillerInit PROVE FillerInv OBVIOUS
<1>1. /\ memAuctions = [a \in Auctions |-> "none"] /\ dbAuctions = [a \in Auctions |-> "none"]
      /\ records = <<>> /\ memRecord = 0 /\ opening = {}
      /\ todo = [c \in Cycles |-> {}] /\ fill = [c \in Cycles |-> NoFill]
      /\ dbSupplied = MaxCollateral /\ dbBorrowed = 1
      /\ troubles = 0 /\ taken = 0 /\ settled = {} /\ twice = {} /\ contested = {}
      /\ crossed = FALSE /\ spoiled = FALSE
  BY DEF FillerInit
<1>2. \A c \in Cycles : fill[c] = NoFill /\ todo[c] = {} BY <1>1
<1>3. /\ NoFill \in Fills /\ NoFill.at = "idle" /\ NoFill.auction = "none"
      /\ "none" \notin Auctions /\ MaxCollateral \in Nat
      /\ ~(NoFill.at \in {"close", "select", "row", "debt", "collateral"})
  BY FillerAssumption DEF NoFill, Fills
<1>4. FillerTypeOK
  <2>1. /\ memAuctions \in [Auctions -> AuctionRows] /\ dbAuctions \in [Auctions -> AuctionRows]
    BY <1>1 DEF AuctionRows
  <2>2. records \in Seq(0..MaxCollateral) /\ memRecord \in 0..Len(records) BY <1>1
  <2>3. /\ todo \in [Cycles -> SUBSET Auctions] /\ fill \in [Cycles -> Fills]
        /\ \A c \in Cycles : fill[c].at = "debt" => fill[c].record \in 1..Len(records)
    BY <1>1, <1>2, <1>3
  <2>4. crossed \in BOOLEAN /\ spoiled \in BOOLEAN BY <1>1
  <2>5. QED BY <1>1, <1>3, <2>1, <2>2, <2>3, <2>4, FillerAssumption DEF FillerTypeOK
<1>5. FillShape BY <1>2, <1>3 DEF FillShape
<1>6. Remaining(taken) = MaxCollateral BY <1>1, <1>3 DEF Remaining
<1>7. Bounded BY <1>1, <1>2, <1>3, <1>6 DEF Bounded
<1>8. \A a \in Auctions : ~Past(a) BY <1>1, <1>2, <1>3 DEF Past
<1>9. \A a \in Auctions : Single(a) BY <1>1, <1>2, <1>3, <1>8 DEF Single, Has
<1>10. Exact
  <2>1. \A c \in Cycles : ~PositionInHand(c) /\ ~(fill[c].at \in {"row", "debt", "collateral"})
    BY <1>2, <1>3 DEF PositionInHand
  <2>2. \A a \in Auctions : dbAuctions[a] # "closed" BY <1>1
  <2>3. QED BY <1>1, <1>6, <2>1, <2>2 DEF Exact
<1>11. QED BY <1>1, <1>4, <1>5, <1>7, <1>9, <1>10 DEF FillerInv

LEMMA FillerKeeps == FillerInv /\ [FillerNext]_fillerVars => FillerInv'
<1> SUFFICES ASSUME FillerInv, [FillerNext]_fillerVars PROVE FillerInv' OBVIOUS
<1>1. CASE UNCHANGED fillerVars
  <2>1. UNCHANGED <<positionVars, todo, fill, spoiled>> /\ contested' = contested
    BY <1>1 DEF fillerVars, positionVars
  <2>2. FillerTypeOK' BY <1>1 DEF fillerVars, FillerInv, FillerTypeOK
  <2>3. dbAuctions' = dbAuctions /\ memAuctions' = memAuctions BY <1>1 DEF fillerVars
  <2>4. \A a \in Auctions \ contested' :
          Past(a) => dbAuctions[a] = "closed" /\ memAuctions[a] # "active"
    BY <2>1 DEF FillerInv, Single
  <2>5. QED BY <2>1, <2>2, <2>3, <2>4, RowsChange
<1>2. CASE \E a \in Auctions :
             \/ TriggerAuction(a) \/ OpeningSettles(a)
             \/ \E row \in AuctionRows : IndexerWrites(a, row)
  BY <1>2, TriggerKeeps, OthersWriteKeeps
<1>3. CASE \E c \in Cycles :
             \/ CycleBegins(c) \/ \E a \in Auctions : CloseAuction(c, a)
             \/ CloseSettles(c) \/ SelectRuns(c) \/ RowReturns(c)
             \/ TakeCollateral(c) \/ CollateralSettles(c)
  BY <1>3, CycleKeeps, CloseKeeps, CloseSettlesKeeps, SelectKeeps, RowKeeps, TakeKeeps,
     CollateralKeeps
<1>4. CASE KeeperRestarts BY <1>4, RestartKeeps
<1>5. QED BY <1>1, <1>2, <1>3, <1>4, Zenon DEF FillerNext

LEMMA FillerInvFills == FillerInv => FilledOnce
<1> SUFFICES ASSUME FillerInv, Quiet, ~spoiled, ~crossed
             PROVE  /\ dbSupplied = Remaining(taken)
                    /\ dbBorrowed = IF taken = 0 THEN 1 ELSE 0
                    /\ \A a \in Auctions \ contested : a \in settled <=> dbAuctions[a] = "closed"
  BY DEF FilledOnce, FillerInv, Bounded
<1>1. Exact /\ FillerTypeOK BY DEF FillerInv
<1>2. \A c \in Cycles : ~PositionInHand(c) /\ fill[c].at # "collateral"
  BY <1>1, FillFacts DEF Quiet, PositionInHand
<1>3. \A a \in Auctions : Past(a) <=> a \in settled BY <1>2 DEF Past
<1>4. ASSUME NEW a \in Auctions \ contested PROVE a \in settled <=> dbAuctions[a] = "closed"
  BY <1>1, <1>3 DEF FillerInv, Single, Exact
<1>5. QED BY <1>1, <1>2, <1>4 DEF Exact
-----------------------------------------------------------------------------
(***************************************************************************)
(* The published price, for any feed, seeds and requests: every price the  *)
(* server holds lies between a known one and what the publications so far  *)
(* can make of a known one.                                                *)
(***************************************************************************)
Below(S, q) == \E l \in S : l <= q
Above(S, q, n) == \E h \in S : q <= Ratchet(h, n)
Justified(S, q, n) == q # 0 => Below(S, q) /\ Above(S, q, n)

BuiltInPrice == IF seed = 0 THEN DefaultPrice ELSE seed

KnownPrices ==
  /\ IsFiniteSet(known) /\ known \subseteq Nat \ {0}
  /\ feed # 0 => feed \in known
  /\ BuiltInPrice \in known
  /\ cached = 0 => seed = 0

HeldPrices ==
  /\ Justified(known, cached, published) /\ Justified(known, stored, published)
  /\ \A p \in priceWrites : Justified(known, p, published)

\* A query is only run when memory starts with no price; a price derived from
\* another is 0.2 % above it at most, so one publication ahead.
Sound(k, a, S, n) ==
  /\ a.at \in {"query", "row"} => seed = 0
  /\ a.at = "row" => Justified(S, a.price, n)
  /\ a.at = "there" /\ k = "reflector" => a.price # 0 /\ Justified(S, a.price, n)
  /\ a.at = "there" /\ k = "twap" => Above(S, a.price, n + 1)

AskedPrices == \A r \in Requests, k \in Legs : Sound(k, asked[r][k], known, published)

PricesInv == PricesTypeOK /\ KnownPrices /\ HeldPrices /\ AskedPrices
-----------------------------------------------------------------------------
LEMMA RoundGrows ==
  ASSUME NEW x \in Nat, NEW y \in Nat, x <= y
  PROVE  /\ Round(x * 1002) \in Nat /\ Round(x * 998) \in Nat
         /\ x <= Round(x * 1002) /\ Round(x * 1002) <= Round(y * 1002)
         /\ Round(x * 998) <= Round(x * 1002)
BY DEF Round

\* Ratchet is the recursion it looks like.
LEMMA RatchetSteps ==
  ASSUME NEW p \in Nat
  PROVE  /\ Ratchet(p, 0) = p
         /\ \A n \in Nat : /\ Ratchet(p, n) \in Nat
                           /\ Ratchet(p, n + 1) = Round(Ratchet(p, n) * 1002)
<1> DEFINE F(f) == [i \in Nat |-> IF i = 0 THEN p ELSE Round(f[i - 1] * 1002)]
           ratchet == CHOOSE f : f = F(f)
           step == [n \in Nat |-> [x \in Nat |-> Round(x * 1002)]]
<1>1. \A n \in Nat : Ratchet(p, n) = ratchet[n] BY DEF Ratchet
<1>2. step \in Steps(Nat)
  <2>1. \A x \in Nat : Round(x * 1002) \in Nat BY DEF Round
  <2>2. QED BY <2>1 DEF Steps
<1>3. PICK f : Follows(f, Nat, p, step)
  <2> HIDE DEF step
  <2>1. QED BY <1>2, Recursion, Zenon
<1>4. \A n \in Nat : f[n + 1] = Round(f[n] * 1002)
  <2>1. ASSUME NEW n \in Nat PROVE step[n][f[n]] = Round(f[n] * 1002)
    <3>1. f[n] \in Nat BY <1>3 DEF Follows
    <3>2. QED BY <3>1
  <2> HIDE DEF step
  <2>2. QED BY <1>3, <2>1 DEF Follows
<1>5. f = F(f)
  <2> f \in [Nat -> Nat] /\ f[0] = p BY <1>3 DEF Follows
  <2>1. ASSUME NEW i \in Nat PROVE f[i] = F(f)[i]
    <3>1. CASE i = 0 BY <3>1
    <3>2. CASE i # 0
      <4>1. i - 1 \in Nat /\ (i - 1) + 1 = i BY <3>2
      <4>2. f[i] = Round(f[i - 1] * 1002) BY <1>4, <4>1
      <4>3. QED BY <3>2, <4>2
    <3>3. QED BY <3>1, <3>2
  <2>2. QED BY <2>1
<1>6. ratchet = F(ratchet)
  <2> HIDE DEF F
  <2>1. QED BY <1>5
<1> HIDE DEF ratchet
<1>7. ratchet[0] = p BY <1>6
<1>8. \A n \in Nat : ratchet[n + 1] = Round(ratchet[n] * 1002) BY <1>6
<1> DEFINE T == {n \in Nat : ratchet[n] \in Nat}
<1>9. T = Nat
  <2>1. 0 \in T BY <1>7
  <2>2. \A n \in T : n + 1 \in T BY <1>8, RoundGrows
  <2> HIDE DEF T
  <2>3. T \in SUBSET Nat BY DEF T
  <2>4. QED BY <2>1, <2>2, <2>3, Induction
<1>10. \A n \in Nat : ratchet[n] \in Nat BY <1>9
<1>11. ASSUME NEW n \in Nat
       PROVE Ratchet(p, n) \in Nat /\ Ratchet(p, n + 1) = Round(Ratchet(p, n) * 1002)
  <2>1. n + 1 \in Nat OBVIOUS
  <2>2. Ratchet(p, n) = ratchet[n] /\ Ratchet(p, n + 1) = ratchet[n + 1] BY <1>1, <2>1, Zenon
  <2>3. ratchet[n + 1] = Round(ratchet[n] * 1002) /\ ratchet[n] \in Nat BY <1>8, <1>10
  <2>4. QED BY <2>2, <2>3
<1>12. Ratchet(p, 0) = p BY <1>1, <1>7
<1>13. \A n \in Nat : Ratchet(p, n) \in Nat BY <1>11
<1>14. \A n \in Nat : Ratchet(p, n + 1) = Round(Ratchet(p, n) * 1002) BY <1>11
<1>15. QED BY <1>12, <1>13, <1>14

LEMMA RatchetType == ASSUME NEW p \in Nat, NEW n \in Nat PROVE Ratchet(p, n) \in Nat
BY RatchetSteps

LEMMA RatchetStep ==
  ASSUME NEW p \in Nat, NEW n \in Nat
  PROVE  Ratchet(p, n + 1) = Round(Ratchet(p, n) * 1002)
BY RatchetSteps

\* It grows with the price and with the number of publications.
LEMMA RatchetGrows ==
  ASSUME NEW p \in Nat, NEW q \in Nat, p <= q, NEW n \in Nat
  PROVE  Ratchet(p, n) <= Ratchet(q, n) /\ Ratchet(p, n) <= Ratchet(p, n + 1)
<1> DEFINE T == {i \in Nat : Ratchet(p, i) <= Ratchet(q, i)}
<1>1. 0 \in T BY RatchetSteps
<1>2. ASSUME NEW i \in T PROVE i + 1 \in T
  <2>1. Ratchet(p, i) \in Nat /\ Ratchet(q, i) \in Nat BY RatchetSteps
  <2>2. /\ Ratchet(p, i + 1) = Round(Ratchet(p, i) * 1002)
        /\ Ratchet(q, i + 1) = Round(Ratchet(q, i) * 1002)
    BY RatchetSteps
  <2>3. QED BY <2>1, <2>2, RoundGrows
<1>3. T = Nat
  <2>1. T \in SUBSET Nat OBVIOUS
  <2> HIDE DEF T
  <2>2. QED BY <1>1, <1>2, <2>1, Induction
<1>4. Ratchet(p, n) <= Ratchet(p, n + 1) BY RatchetSteps, RoundGrows
<1>5. QED BY <1>3, <1>4

\* What is justified stays so as prices become known or are published.
LEMMA JustifiedLater ==
  ASSUME NEW S \in SUBSET Nat, NEW R \in SUBSET Nat, S \subseteq R,
         NEW n \in Nat, NEW m \in {n, n + 1}, NEW q \in Nat
  PROVE  /\ Above(S, q, n) => Above(R, q, m)
         /\ Justified(S, q, n) => Justified(R, q, m)
<1>1. ASSUME Above(S, q, n) PROVE Above(R, q, m)
  <2>1. PICK h \in S : q <= Ratchet(h, n) BY <1>1 DEF Above
  <2>2. Ratchet(h, n) \in Nat /\ Ratchet(h, n + 1) \in Nat /\ Ratchet(h, n) <= Ratchet(h, n + 1)
    <3>1. h \in Nat /\ n + 1 \in Nat /\ h <= h OBVIOUS
    <3>2. Ratchet(h, n) \in Nat /\ Ratchet(h, n + 1) \in Nat BY <3>1, RatchetType, Zenon
    <3>3. Ratchet(h, n) <= Ratchet(h, n + 1) BY <3>1, RatchetGrows, Zenon
    <3>4. QED BY <3>2, <3>3
  <2>3. q <= Ratchet(h, m) BY <2>1, <2>2
  <2>4. QED BY <2>3 DEF Above
<1>2. QED BY <1>1 DEF Justified, Below

\* A known price is justified, whatever was published.
LEMMA KnownJustified ==
  ASSUME NEW S \in SUBSET Nat, NEW q \in S, NEW n \in Nat
  PROVE  Justified(S, q, n)
<1> DEFINE T == {i \in Nat : q <= Ratchet(q, i)}
<1>1. 0 \in T BY RatchetSteps
<1>2. ASSUME NEW i \in T PROVE i + 1 \in T
  <2>1. Ratchet(q, i) \in Nat /\ Ratchet(q, i + 1) \in Nat /\ Ratchet(q, i) <= Ratchet(q, i + 1)
    BY RatchetSteps, RatchetGrows
  <2>2. QED BY <2>1
<1>3. T = Nat
  <2>1. T \in SUBSET Nat OBVIOUS
  <2> HIDE DEF T
  <2>2. QED BY <1>1, <1>2, <2>1, Induction
<1>4. q <= Ratchet(q, n) BY <1>3
<1>5. q <= q OBVIOUS
<1>6. QED BY <1>4, <1>5 DEF Justified, Below, Above

LEMMA IdleTypes ==
  /\ Idle \in [Legs -> Asks] /\ Fresh \in [Legs -> Asks]
  /\ \A S, n : \A k \in Legs : Sound(k, Idle[k], S, n) /\ Sound(k, Fresh[k], S, n)
<1>1. 0 \in Nat OBVIOUS
<1>2. [at |-> "idle", price |-> 0] \in Asks /\ [at |-> "feed", price |-> 0] \in Asks
  BY <1>1 DEF Asks
<1>3. Idle \in [Legs -> Asks] /\ Fresh \in [Legs -> Asks] BY <1>2 DEF Idle, Fresh
<1>4. \A k \in Legs : Idle[k].at = "idle" /\ Fresh[k].at = "feed" BY DEF Idle, Fresh
<1>5. QED BY <1>3, <1>4 DEF Sound

LEMMA PricesInitially == PricesInit => PricesInv
<1> SUFFICES ASSUME PricesInit PROVE PricesInv OBVIOUS
<1> USE PricesAssumption
<1>1. seed \in Nat /\ feed \in Nat /\ cached = seed /\ stored = 0 BY DEF PricesInit
<1>2. known = ({feed} \cup {BuiltInPrice}) \ {0} /\ BuiltInPrice \in Nat \ {0}
  BY <1>1 DEF PricesInit, BuiltInPrice
<1>3. IsFiniteSet(known)
  <2>1. IsFiniteSet({feed} \cup {BuiltInPrice}) BY FS_Singleton, FS_Union
  <2>2. QED BY <1>2, <2>1, FS_Subset
<1>4. KnownPrices BY <1>1, <1>2, <1>3 DEF KnownPrices
<1>5. PricesTypeOK
  <2>1. known \subseteq FeedPrices \cup SeedPrices \cup {DefaultPrice}
    BY <1>2 DEF PricesInit, BuiltInPrice
  <2>2. asked \in [Requests -> [Legs -> Asks]] BY IdleTypes DEF PricesInit
  <2>3. QED BY <1>1, <2>1, <2>2 DEF PricesInit, PricesTypeOK
<1>6. HeldPrices
  <2>1. cached # 0 => cached \in known BY <1>1, <1>2 DEF BuiltInPrice
  <2>2. known \in SUBSET Nat /\ published \in Nat /\ published = 0
    BY <1>4 DEF KnownPrices, PricesInit
  <2>3. Justified(known, cached, published)
    BY <2>1, <2>2, KnownJustified DEF Justified
  <2>4. Justified(known, stored, published) BY <1>1 DEF Justified
  <2>5. QED BY <2>3, <2>4 DEF HeldPrices, PricesInit
<1>7. AskedPrices BY IdleTypes DEF AskedPrices, PricesInit
<1>8. QED BY <1>4, <1>5, <1>6, <1>7 DEF PricesInv

LEMMA PricesFacts ==
  ASSUME PricesInv
  PROVE  /\ known \in SUBSET Nat /\ published \in Nat /\ seed \in Nat /\ feed \in Nat
         /\ cached \in Nat /\ stored \in Nat /\ priceWrites \subseteq Nat
         /\ asked \in [Requests -> [Legs -> Asks]]
         /\ KnownPrices /\ HeldPrices /\ AskedPrices /\ PricesTypeOK
         /\ DefaultPrice \in Nat \ {0}
BY PricesAssumption DEF PricesInv, PricesTypeOK, KnownPrices

\* One price of one request changes; the others stay.
LEMMA AskedUpdates ==
  ASSUME asked \in [Requests -> [Legs -> Asks]], NEW r \in Requests, NEW k \in Legs,
         NEW a \in Asks, asked' = [asked EXCEPT ![r][k] = a]
  PROVE  /\ asked' \in [Requests -> [Legs -> Asks]]
         /\ asked'[r][k] = a
         /\ \A x \in Requests, l \in Legs : <<x, l>> # <<r, k>> => asked'[x][l] = asked[x][l]
OBVIOUS

LEMMA AskKeeps ==
  ASSUME PricesInv, NEW r \in Requests, NEW k \in Legs, NEW a \in Asks,
         asked' = [asked EXCEPT ![r][k] = a], Sound(k, a, known, published),
         UNCHANGED <<seed, feed, stored, priceWrites, known, published, feedMoves>>,
         cached' \in Nat, Justified(known, cached', published), cached' = 0 => seed = 0
  PROVE  PricesInv'
<1>1. /\ asked' \in [Requests -> [Legs -> Asks]]
      /\ asked'[r][k] = a
      /\ \A x \in Requests, l \in Legs : <<x, l>> # <<r, k>> => asked'[x][l] = asked[x][l]
  BY PricesFacts, AskedUpdates
<1>2. KnownPrices' BY PricesFacts DEF KnownPrices, BuiltInPrice
<1>3. HeldPrices' BY PricesFacts DEF HeldPrices
<1>4. AskedPrices'
  <2>1. ASSUME NEW x \in Requests, NEW l \in Legs
        PROVE  Sound(l, asked'[x][l], known, published)
    <3>1. CASE <<x, l>> = <<r, k>> BY <1>1, <3>1
    <3>2. CASE <<x, l>> # <<r, k>>
      <4>1. asked'[x][l] = asked[x][l] BY <1>1, <3>2
      <4>2. QED BY <4>1, PricesFacts DEF AskedPrices
    <3>3. QED BY <3>1, <3>2
  <2>2. QED BY <2>1 DEF AskedPrices, Sound
<1>5. PricesTypeOK' BY <1>1, PricesFacts DEF PricesTypeOK
<1>6. QED BY <1>2, <1>3, <1>4, <1>5 DEF PricesInv

\* What a call returns for a price that is justified is sound.
LEMMA ReturnSound ==
  ASSUME NEW S \in SUBSET Nat, NEW n \in Nat, NEW p \in Nat \ {0}, Justified(S, p, n),
         NEW k \in Legs, NEW q \in LegPrices(k, p)
  PROVE  q \in Nat /\ Sound(k, [at |-> "there", price |-> q], S, n)
<1> DEFINE a == [at |-> "there", price |-> q]
<1>1. a.at = "there" /\ a.price = q OBVIOUS
<1>2. CASE k = "twap"
  <2>1. q \in Nat /\ q <= Round(p * 1002)
    <3>1. q \in {Round(p * 998), Round(p * 1002)} BY <1>2 DEF LegPrices, TwapPrices
    <3>2. p \in Nat /\ p <= p OBVIOUS
    <3>3. Round(p * 998) \in Nat /\ Round(p * 1002) \in Nat /\ Round(p * 998) <= Round(p * 1002)
      BY <3>2, RoundGrows
    <3>4. QED BY <3>1, <3>3
  <2>2. PICK h \in S : p <= Ratchet(h, n) BY DEF Justified, Above
  <2>3. h \in Nat OBVIOUS
  <2>4. Ratchet(h, n) \in Nat BY <2>3, RatchetType
  <2>5. Ratchet(h, n + 1) = Round(Ratchet(h, n) * 1002)
    BY ONLY <2>3, n \in Nat, RatchetStep
  <2>6. /\ Round(p * 1002) <= Ratchet(h, n + 1) /\ Round(p * 1002) \in Nat
        /\ Ratchet(h, n + 1) \in Nat
    BY <2>2, <2>4, <2>5, RoundGrows
  <2>7. q <= Ratchet(h, n + 1) BY <2>1, <2>6
  <2>8. Above(S, q, n + 1) BY <2>7 DEF Above
  <2> HIDE DEF a
  <2>9. QED BY <1>1, <1>2, <2>1, <2>8 DEF Sound, a
<1>3. CASE k # "twap"
  <2>1. k = "reflector" /\ q = p BY <1>3 DEF Legs, LegPrices
  <2> HIDE DEF a
  <2>2. QED BY <1>1, <2>1 DEF Sound, a
<1>4. QED BY <1>2, <1>3

\* A call returns a price that was justified.
LEMMA ReturnKeeps ==
  ASSUME PricesInv, NEW r \in Requests, NEW k \in Legs, NEW p \in Nat \ {0},
         Justified(known, p, published), Returns(r, k, p),
         UNCHANGED <<seed, feed, stored, priceWrites, known, published, feedMoves>>,
         cached' \in {cached, p}
  PROVE  PricesInv'
<1>1. PICK q \in LegPrices(k, p) : asked' = [asked EXCEPT ![r][k] = [at |-> "there", price |-> q]]
  BY DEF Returns
<1> DEFINE a == [at |-> "there", price |-> q]
<1>2. known \in SUBSET Nat /\ published \in Nat BY PricesFacts
<1>3. q \in Nat /\ Sound(k, a, known, published)
  BY <1>2, ReturnSound
<1>4. a \in Asks BY <1>3 DEF Asks
<1>5. cached' \in Nat /\ Justified(known, cached', published) /\ (cached' = 0 => seed = 0)
  BY PricesFacts DEF KnownPrices, HeldPrices
<1>6. asked' = [asked EXCEPT ![r][k] = a] BY <1>1
<1> HIDE DEF a
<1>7. QED BY <1>3, <1>4, <1>5, <1>6, AskKeeps

LEMMA FeedAnswersKeeps ==
  ASSUME PricesInv, NEW r \in Requests, NEW k \in Legs, FeedAnswers(r, k) PROVE PricesInv'
<1>1. /\ UNCHANGED <<seed, feed, stored, priceWrites, known, published, feedMoves>>
      /\ cached' = cached
  BY DEF FeedAnswers
<1>2. CASE feed # 0 /\ Returns(r, k, feed)
  <2>1. feed \in known /\ known \in SUBSET Nat /\ published \in Nat /\ feed \in Nat \ {0}
    BY <1>2, PricesFacts DEF KnownPrices
  <2>2. Justified(known, feed, published) BY <2>1, KnownJustified
  <2>3. QED BY <1>1, <1>2, <2>1, <2>2, ReturnKeeps
<1>3. CASE cached # 0 /\ Returns(r, k, cached)
  <2>1. cached \in Nat \ {0} /\ Justified(known, cached, published)
    BY <1>3, PricesFacts DEF HeldPrices
  <2>2. QED BY <1>1, <1>3, <2>1, ReturnKeeps
<1>4. CASE cached = 0 /\ asked' = [asked EXCEPT ![r][k].at = "query"]
  <2> DEFINE a == [asked[r][k] EXCEPT !.at = "query"]
  <2>1. asked[r][k] \in Asks BY PricesFacts
  <2>2. a \in Asks /\ a.at = "query" BY <2>1 DEF Asks
  <2>3. asked' = [asked EXCEPT ![r][k] = a] BY <1>4, PricesFacts
  <2>4. seed = 0 BY <1>4, PricesFacts DEF KnownPrices
  <2> HIDE DEF a
  <2>5. Sound(k, a, known, published) BY <2>2, <2>4 DEF Sound
  <2>6. cached' \in Nat /\ Justified(known, cached', published)
    BY <1>1, PricesFacts DEF HeldPrices
  <2>7. QED BY <1>1, <2>2, <2>3, <2>4, <2>5, <2>6, AskKeeps
<1>5. QED BY <1>2, <1>3, <1>4 DEF FeedAnswers

LEMMA QueryRunsKeeps ==
  ASSUME PricesInv, NEW r \in Requests, NEW k \in Legs, QueryRuns(r, k) PROVE PricesInv'
<1>1. /\ UNCHANGED <<seed, feed, stored, priceWrites, known, published, feedMoves>>
      /\ cached' = cached /\ asked[r][k].at = "query"
  BY DEF QueryRuns
<1>2. PICK price \in {0, stored} : asked' = [asked EXCEPT ![r][k] = [at |-> "row", price |-> price]]
  BY DEF QueryRuns
<1> DEFINE a == [at |-> "row", price |-> price]
<1>3. a \in Asks /\ a.at = "row" /\ a.price = price
  <2>1. price \in Nat BY PricesFacts
  <2>2. QED BY <2>1 DEF Asks
<1>4. asked' = [asked EXCEPT ![r][k] = a] BY <1>2
<1>5. seed = 0
  <2>1. Sound(k, asked[r][k], known, published) BY PricesFacts DEF AskedPrices
  <2>2. QED BY <1>1, <2>1 DEF Sound
<1>6. Justified(known, price, published) BY PricesFacts DEF HeldPrices, Justified
<1> HIDE DEF a
<1>7. Sound(k, a, known, published) BY <1>3, <1>5, <1>6 DEF Sound
<1>8. cached' \in Nat /\ Justified(known, cached', published)
  BY <1>1, PricesFacts DEF HeldPrices
<1>9. QED BY <1>1, <1>3, <1>4, <1>5, <1>7, <1>8, AskKeeps

LEMMA QueryReturnsKeeps ==
  ASSUME PricesInv, NEW r \in Requests, NEW k \in Legs, QueryReturns(r, k) PROVE PricesInv'
<1> DEFINE row == asked[r][k].price
           p == IF row = 0 THEN DefaultPrice ELSE row
<1>1. /\ UNCHANGED <<seed, feed, stored, priceWrites, known, published, feedMoves>>
      /\ asked[r][k].at = "row" /\ Returns(r, k, p)
      /\ cached' = IF row = 0 THEN cached ELSE row
  BY DEF QueryReturns
<1>2. Sound(k, asked[r][k], known, published) /\ asked[r][k] \in Asks
  BY PricesFacts DEF AskedPrices
<1>3. row \in Nat /\ seed = 0 /\ Justified(known, row, published)
  BY <1>1, <1>2 DEF Sound, Asks
<1>4. p \in Nat \ {0} /\ Justified(known, p, published)
  <2>1. CASE row = 0
    <3>1. DefaultPrice \in known /\ known \in SUBSET Nat /\ published \in Nat
      BY <1>3, PricesFacts DEF KnownPrices, BuiltInPrice
    <3>2. QED BY <2>1, <3>1, PricesFacts, KnownJustified
  <2>2. CASE row # 0 BY <1>3, <2>2
  <2>3. QED BY <2>1, <2>2
<1>5. cached' \in {cached, p} BY <1>1
<1> HIDE DEF p, row
<1>6. QED BY <1>1, <1>4, <1>5, ReturnKeeps

\* What is sound stays so as prices become known or are published.
LEMMA SoundLater ==
  ASSUME NEW S \in SUBSET Nat, NEW R \in SUBSET Nat, S \subseteq R,
         NEW n \in Nat, NEW m \in {n, n + 1}, NEW k \in Legs, NEW a \in Asks, Sound(k, a, S, n)
  PROVE  Sound(k, a, R, m)
<1>1. a.price \in Nat /\ n + 1 \in Nat /\ m + 1 \in {n + 1, (n + 1) + 1} BY DEF Asks
<1>2. Justified(S, a.price, n) => Justified(R, a.price, m) BY <1>1, JustifiedLater
<1> DEFINE i == n + 1
           j == m + 1
<1>3. i \in Nat /\ j \in {i, i + 1} BY <1>1
<1> HIDE DEF i, j
<1>4. Above(S, a.price, i) => Above(R, a.price, j) BY <1>1, <1>3, JustifiedLater
<1>5. Above(S, a.price, n + 1) => Above(R, a.price, m + 1) BY <1>4 DEF i, j
<1>6. QED BY <1>2, <1>5 DEF Sound

LEMMA PublishKeeps ==
  ASSUME PricesInv, NEW r \in Requests, Publish(r) PROVE PricesInv'
<1> DEFINE p == asked[r]["reflector"].price
           q == asked[r]["twap"].price
           median == Median(p, q)
<1>1. /\ UNCHANGED <<seed, feed, stored, known, feedMoves>>
      /\ published' = published + 1 /\ published < MaxPublished
      /\ cached' = median /\ priceWrites' = priceWrites \cup {median}
      /\ asked' = [asked EXCEPT ![r] = Idle]
      /\ \A k \in Legs : asked[r][k].at = "there"
  BY DEF Publish
<1>2. /\ known \in SUBSET Nat /\ published \in Nat /\ stored \in Nat /\ priceWrites \subseteq Nat
      /\ asked \in [Requests -> [Legs -> Asks]] /\ AskedPrices
      /\ "reflector" \in Legs /\ "twap" \in Legs
  BY PricesFacts DEF Legs
<1>3. p \in Nat /\ q \in Nat BY <1>2 DEF Asks
<1>4. median \in Nat \ {0} /\ Justified(known, median, published + 1)
  <2>1. p # 0 /\ Justified(known, p, published) /\ Above(known, q, published + 1)
    BY <1>1, <1>2 DEF AskedPrices, Sound
  <2>2. Below(known, p) BY <2>1 DEF Justified
  <2>3. Above(known, p, published + 1)
    <3>1. published + 1 \in {published, published + 1} OBVIOUS
    <3>2. Justified(known, p, published + 1) BY <1>2, <1>3, <2>1, <3>1, JustifiedLater
    <3>3. QED BY <2>1, <3>2 DEF Justified
  <2>4. median \in {p, q} /\ p <= median /\ median \in Nat \ {0}
    BY <1>3, <2>1 DEF Median
  <2>5. Below(known, median)
    <3>1. PICK l \in known : l <= p BY <2>2 DEF Below
    <3>2. l \in Nat BY <1>2
    <3> HIDE DEF p, q, median
    <3>3. l <= median BY <1>3, <2>4, <3>1, <3>2
    <3>4. QED BY <3>3 DEF Below
  <2> HIDE DEF p, q, median
  <2>6. Above(known, median, published + 1) BY <2>1, <2>3, <2>4
  <2>7. QED BY <2>4, <2>5, <2>6 DEF Justified
<1> HIDE DEF median, p, q
<1>5. KnownPrices' BY <1>1, <1>4 DEF PricesInv, KnownPrices, BuiltInPrice
<1>6. HeldPrices'
  <2>1. ASSUME NEW x \in Nat, Justified(known, x, published)
        PROVE  Justified(known, x, published + 1)
    <3>1. known \subseteq known /\ published + 1 \in {published, published + 1} OBVIOUS
    <3>2. QED BY <1>2, <2>1, <3>1, JustifiedLater, Zenon
  <2>2. ASSUME NEW x \in Nat, Justified(known, x, published)
        PROVE  Justified(known, x, published')
    BY <1>1, <2>1, <2>2, Zenon
  <2>3. QED BY <1>1, <1>2, <1>4, <2>2 DEF PricesInv, HeldPrices
<1>7. /\ asked' \in [Requests -> [Legs -> Asks]]
      /\ asked'[r] = Idle /\ \A x \in Requests \ {r} : asked'[x] = asked[x]
  BY <1>1, <1>2, IdleTypes
<1>8. AskedPrices'
  <2>1. ASSUME NEW x \in Requests, NEW k \in Legs
        PROVE  Sound(k, asked'[x][k], known, published + 1)
    <3>1. CASE x = r
      <4>1. asked'[x][k] = Idle[k] BY <1>7, <3>1
      <4>2. QED BY <4>1, IdleTypes
    <3>2. CASE x # r
      <4>1. asked'[x][k] = asked[x][k] /\ asked[x][k] \in Asks BY <1>2, <1>7, <3>2
      <4>2. Sound(k, asked[x][k], known, published) BY <1>2 DEF AskedPrices
      <4>3. known \subseteq known /\ published + 1 \in {published, published + 1} OBVIOUS
      <4>4. Sound(k, asked[x][k], known, published + 1)
        BY <1>2, <4>1, <4>2, <4>3, SoundLater
      <4>5. QED BY <4>1, <4>4
    <3>3. QED BY <3>1, <3>2
  <2>2. ASSUME NEW x \in Requests, NEW k \in Legs
        PROVE  Sound(k, asked'[x][k], known', published')
    BY <1>1, <2>1, Zenon
  <2>3. QED BY <1>1, <2>2 DEF AskedPrices, Sound
<1>9. PricesTypeOK'
  <2>1. published' \in 0..MaxPublished
    BY <1>1, <1>2, PricesAssumption DEF PricesInv, PricesTypeOK
  <2>2. QED BY <1>1, <1>4, <1>7, <2>1 DEF PricesInv, PricesTypeOK
<1>10. QED BY <1>5, <1>6, <1>8, <1>9 DEF PricesInv

\* The rest only asks, settles a write, learns a price or starts again.
LEMMA QuietPricesKeep ==
  ASSUME PricesInv,
         \/ \E r \in Requests : GetPrice(r)
         \/ \E p \in priceWrites : PriceWriteSettles(p)
         \/ FeedMoves \/ PricesRestart
  PROVE  PricesInv'
<1>1. /\ known \in SUBSET Nat /\ published \in Nat /\ published' = published /\ seed' = seed
      /\ cached \in Nat /\ stored \in Nat /\ priceWrites \subseteq Nat /\ seed \in Nat
  BY PricesFacts DEF GetPrice, PriceWriteSettles, FeedMoves, PricesRestart
<1>2. /\ KnownPrices /\ HeldPrices /\ AskedPrices /\ PricesTypeOK
      /\ asked \in [Requests -> [Legs -> Asks]]
  BY DEF PricesInv, PricesTypeOK
<1>3. known \subseteq known' /\ known' \in SUBSET Nat
      /\ known' \subseteq FeedPrices \cup SeedPrices \cup {DefaultPrice}
      /\ IsFiniteSet(known') /\ 0 \notin known' /\ (feed' # 0 => feed' \in known')
      /\ feed' \in FeedPrices \cup {0} /\ feedMoves' \in 0..MaxMoves
  <2>1. CASE FeedMoves
    <3>1. feed' \in FeedPrices \cup {0} /\ known' = (known \cup {feed'}) \ {0}
          /\ feedMoves' \in 0..MaxMoves
      BY <1>2, <2>1, PricesAssumption DEF FeedMoves, PricesTypeOK
    <3>2. IsFiniteSet(known \cup {feed'}) BY <1>2, FS_AddElement DEF KnownPrices
    <3>3. IsFiniteSet(known') BY <3>1, <3>2, FS_Subset
    <3>4. QED BY <1>1, <1>2, <3>1, <3>3, PricesAssumption DEF KnownPrices, PricesTypeOK
  <2>2. CASE ~FeedMoves
    <3>1. known' = known /\ feed' = feed
          /\ \/ feedMoves' = feedMoves
             \/ feedMoves < MaxMoves /\ feedMoves' = feedMoves + 1
      BY <2>2 DEF GetPrice, PriceWriteSettles, PricesRestart
    <3>2. QED BY <1>1, <1>2, <3>1, PricesAssumption DEF KnownPrices, PricesTypeOK
  <2>3. QED BY <2>1, <2>2
<1>4. cached' = cached \/ cached' = seed
  BY DEF GetPrice, PriceWriteSettles, FeedMoves, PricesRestart
<1>5. KnownPrices' BY <1>1, <1>2, <1>3, <1>4 DEF KnownPrices, BuiltInPrice
<1>6. \A q \in Nat : Justified(known, q, published) => Justified(known', q, published)
  BY <1>1, <1>3, JustifiedLater
<1>7. HeldPrices'
  <2>1. Justified(known', cached', published)
    <3>1. CASE cached' = cached BY <1>1, <1>2, <1>6, <3>1 DEF HeldPrices
    <3>2. CASE cached' = seed
      <4>1. seed = 0 \/ seed \in known BY <1>2 DEF KnownPrices, BuiltInPrice
      <4>2. seed = 0 => Justified(known', seed, published) BY DEF Justified
      <4>3. seed \in known => Justified(known', seed, published)
        BY <1>1, <1>3, KnownJustified
      <4>4. QED BY <3>2, <4>1, <4>2, <4>3
    <3>3. QED BY <1>4, <3>1, <3>2
  <2>2. stored' = stored \/ stored' \in priceWrites
    BY DEF GetPrice, PriceWriteSettles, FeedMoves, PricesRestart
  <2>3. priceWrites' \subseteq priceWrites
    BY DEF GetPrice, PriceWriteSettles, FeedMoves, PricesRestart
  <2>4. Justified(known', stored', published) BY <1>1, <1>2, <1>6, <2>2 DEF HeldPrices
  <2>5. \A p \in priceWrites' : Justified(known', p, published)
    BY <1>1, <1>2, <1>6, <2>3 DEF HeldPrices
  <2>6. QED BY <1>1, <2>1, <2>4, <2>5 DEF HeldPrices
<1>8. /\ asked' \in [Requests -> [Legs -> Asks]]
      /\ \A x \in Requests : asked'[x] \in {asked[x], Idle, Fresh}
  <2>1. CASE PricesRestart BY <2>1, IdleTypes DEF PricesRestart
  <2>2. ASSUME NEW r \in Requests, GetPrice(r) PROVE <1>8
    <3>1. asked' = [asked EXCEPT ![r] = Fresh] BY <2>2 DEF GetPrice
    <3>2. QED BY <1>2, <3>1, IdleTypes
  <2>3. CASE asked' = asked BY <1>2, <2>3
  <2>4. QED BY <2>1, <2>2, <2>3 DEF PriceWriteSettles, FeedMoves
<1>9. AskedPrices'
  <2>1. ASSUME NEW x \in Requests, NEW k \in Legs
        PROVE  Sound(k, asked'[x][k], known', published)
    <3>1. CASE asked'[x] = asked[x]
      <4>1. asked[x][k] \in Asks /\ Sound(k, asked[x][k], known, published)
        BY <1>2 DEF AskedPrices
      <4>2. Sound(k, asked[x][k], known', published)
        BY <1>1, <1>3, <4>1, SoundLater
      <4>3. QED BY <3>1, <4>2
    <3>2. CASE asked'[x] \in {Idle, Fresh} BY <3>2, IdleTypes
    <3>3. QED BY <1>8, <3>1, <3>2
  <2>2. ASSUME NEW x \in Requests, NEW k \in Legs
        PROVE  Sound(k, asked'[x][k], known', published')
    BY <1>1, <2>1, Zenon
  <2>3. QED BY <1>1, <2>2 DEF AskedPrices, Sound
<1>10. PricesTypeOK'
  <2>1. cached' \in Nat /\ stored' \in Nat /\ priceWrites' \subseteq Nat
    <3>1. stored' = stored \/ stored' \in priceWrites
      BY DEF GetPrice, PriceWriteSettles, FeedMoves, PricesRestart
    <3>2. priceWrites' \subseteq priceWrites
      BY DEF GetPrice, PriceWriteSettles, FeedMoves, PricesRestart
    <3>3. QED BY <1>1, <1>4, <3>1, <3>2
  <2>2. QED BY <1>1, <1>2, <1>3, <1>8, <2>1 DEF PricesTypeOK
<1>11. QED BY <1>5, <1>7, <1>9, <1>10 DEF PricesInv

LEMMA PricesKeep == PricesInv /\ [PricesNext]_priceVars => PricesInv'
<1> SUFFICES ASSUME PricesInv, [PricesNext]_priceVars PROVE PricesInv' OBVIOUS
<1>1. CASE PricesNext
  BY <1>1, FeedAnswersKeeps, QueryRunsKeeps, QueryReturnsKeeps, PublishKeeps, QuietPricesKeep
  DEF PricesNext
<1>2. CASE UNCHANGED priceVars
  BY <1>2 DEF priceVars, PricesInv, PricesTypeOK, KnownPrices, HeldPrices, AskedPrices,
              BuiltInPrice, Sound
<1>3. QED BY <1>1, <1>2

LEMMA PricesInvDrift == PricesInv => PriceDrift
<1> SUFFICES ASSUME PricesInv, cached # 0
             PROVE  cached >= Min(known) /\ cached <= Ratchet(Max(known), published)
  BY DEF PriceDrift
<1>1. /\ known \in SUBSET Nat /\ published \in Nat /\ cached \in Nat
      /\ IsFiniteSet(known) /\ known # {}
  BY PricesFacts DEF PricesInv, KnownPrices
<1>2. Below(known, cached) /\ Above(known, cached, published)
  BY DEF PricesInv, HeldPrices, Justified
<1>3. Min(known) \in known /\ \A y \in known : Min(known) <= y
  <2>1. \E x \in known : \A y \in known : x <= y BY <1>1, Smallest
  <2>2. QED BY <2>1 DEF Min
<1>4. Max(known) \in known /\ \A y \in known : y <= Max(known)
  <2>1. known \in SUBSET Int BY <1>1
  <2>2. \E x \in known : \A y \in known : y <= x BY <1>1, <2>1, Greatest
  <2>3. \E x \in known : \A y \in known : x >= y BY <1>1, <2>2
  <2>4. Max(known) \in known /\ \A y \in known : Max(known) >= y BY <2>3 DEF Max
  <2>5. QED BY <1>1, <2>4
<1>5. cached >= Min(known)
  <2>1. PICK l \in known : l <= cached BY <1>2 DEF Below
  <2>2. Min(known) <= l /\ Min(known) \in Nat /\ l \in Nat BY <1>1, <1>3, <2>1
  <2>3. QED BY <1>1, <2>1, <2>2
<1>6. cached <= Ratchet(Max(known), published)
  <2>1. PICK h \in known : cached <= Ratchet(h, published) BY <1>2 DEF Above
  <2>2. h \in Nat /\ Max(known) \in Nat /\ h <= Max(known) BY <1>1, <1>4
  <2>3. Ratchet(h, published) <= Ratchet(Max(known), published)
    BY <1>1, <2>2, RatchetGrows
  <2>4. Ratchet(h, published) \in Nat /\ Ratchet(Max(known), published) \in Nat
    <3>1. \A q \in Nat, i \in Nat : Ratchet(q, i) \in Nat BY RatchetType, Zenon
    <3>2. QED BY <1>1, <2>2, <3>1
  <2>5. QED BY <1>1, <2>1, <2>3, <2>4
<1>7. QED BY <1>5, <1>6
-----------------------------------------------------------------------------
(***************************************************************************)
(* The server's proposals, for any titles, seeds and numbers.  A number    *)
(* nobody raced for has its votes in memory, and in the table up to the    *)
(* upserts under way, of which the newest carries them all.  A row has the *)
(* title of a proposal created with its number; a POST under way passes    *)
(* every number that its list shows; and what is not in the table yet is   *)
(* in an upsert that may become its row.                                   *)
(***************************************************************************)
Upserts(id) == {w \in writes : w.id = id}

RowsShaped ==
  /\ \A id \in Ids : table[id].title = "none" => table[id] = NoRow
  /\ \A r \in loads : /\ r.row.title = "none" => r.row = NoRow
                      /\ r.row # NoRow => table[r.id] # NoRow
  /\ \A w \in writes : w.row.title # "none"
  /\ ~useDb => loads = {} /\ posts = {}
  /\ \A id \in Seeds : mem[id] # NoRow

RowUpToDate(id) ==
  /\ \A w \in Upserts(id) : table[id].votes <= w.row.votes /\ w.row.votes <= cast[id]
  /\ table[id].votes = cast[id] \/ \E w \in Upserts(id) : w.row.votes = cast[id]

VotesKept(id) ==
  /\ mem[id] # NoRow => mem[id].votes = cast[id]
  /\ mem[id] = NoRow =>
       /\ Upserts(id) = {} /\ (useDb => id \notin unsaved)
       /\ \A r \in loads : r.id = id => r.row = table[id]
  /\ useDb /\ id \notin unsaved => RowUpToDate(id)

\* A row has the title of a proposal that was created with its number.
Owned(title, id) ==
  /\ title \in Titles => created[title] = id
  /\ title = "seed" => id \in Seeds

RowsOwned ==
  /\ \A id \in Ids : Owned(mem[id].title, id) /\ Owned(table[id].title, id)
  /\ \A r \in loads : Owned(r.row.title, r.id)
  /\ \A w \in writes : Owned(w.row.title, w.id)

\* What was created is in the table or on its way there; a first process still
\* has it in memory.
RowsFound ==
  \A t \in Titles : created[t] # 0 =>
    /\ useDb /\ t \notin lost => table[created[t]] # NoRow \/ \E w \in writes : w.row.title = t
    /\ restarts = 0 => mem[created[t]] # NoRow

PostsApart ==
  \A p, q \in posts : p # q => p.title # q.title /\ {p.title, q.title} \in together

\* A POST under way passes the numbers its list shows.
Passed(p) ==
  /\ created[p.title] = 0
  /\ \A t \in Titles : created[t] # 0 /\ t \notin lost =>
       created[t] <= p.last \/ {t, p.title} \in together \/ p.title \in blind
  /\ {"seed", p.title} \notin together =>
       /\ \A id \in Ids : table[id].title = "seed" => id <= p.last
       /\ \A w \in writes :
            w.row.title = "seed" /\ table[w.id].title \in {"none", "seed"} => w.id <= p.last

Listed(t, id) ==
  \/ table[id].title = t
  \/ /\ table[id] = NoRow /\ \A w \in Upserts(id) : w.row.title = t
     /\ useDb => Upserts(id) # {}

Apart(t) == \A u \in Titles \ {t} : created[u] # created[t]

TitleKept(t) ==
  /\ \A u \in Titles \ {t} : created[u] = created[t] => Excused(t, u)
  /\ ~useDb /\ restarts = 0 => mem[created[t]].title = t
  /\ t \notin lost /\ {t, "seed"} \notin together /\ Apart(t) => Listed(t, created[t])

TitlesKept == \A t \in Titles : created[t] # 0 => TitleKept(t)

VotesInv ==
  /\ ProposalsTypeOK /\ RowsShaped
  /\ \A id \in Ids \ (Seeds \cup raced) : VotesKept(id)

TitlesInv ==
  /\ RowsOwned /\ RowsFound /\ PostsApart /\ TitlesKept
  /\ \A p \in posts : Passed(p)

ProposalsInv == VotesInv /\ TitlesInv
-----------------------------------------------------------------------------
LEMMA RowFacts ==
  /\ NoRow \in Rows /\ NoRow.title = "none" /\ NoRow.votes = 0
  /\ \A t \in Titles \cup {"seed"} :
       /\ Row(t) \in Rows /\ Row(t).title = t /\ Row(t).votes = 0
       /\ t # "none"
BY TitlesAssumption DEF NoRow, Row, Rows

LEMMA WithVoteFacts ==
  ASSUME NEW row \in Rows
  PROVE  /\ WithVote(row) \in Rows /\ WithVote(row).title = row.title
         /\ WithVote(row).votes = row.votes + 1
BY DEF WithVote, Rows

LEMMA MergedFacts ==
  ASSUME NEW old \in Rows, NEW new \in Rows
  PROVE  /\ Merged(old, new) \in Rows /\ Merged(old, new).votes = new.votes
         /\ Merged(old, new).title = IF old = NoRow THEN new.title ELSE old.title
BY DEF Merged, Rows

LEMMA IdsFinite == IsFiniteSet(Ids) /\ 0 \notin Ids /\ Ids \subseteq Nat /\ Seeds \subseteq Ids
<1>1. MaxId \in Nat BY SeedsAssumption
<1>2. 1 \in Int /\ MaxId \in Int BY <1>1
<1>3. QED BY <1>1, <1>2, FS_Interval, SeedsAssumption DEF Ids

LEMMA LastIdFacts ==
  ASSUME NEW S \in SUBSET Ids
  PROVE  LastId(S) \in 0..MaxId /\ \A x \in S : x <= LastId(S)
<1>1. IsFiniteSet(S \cup {0}) BY IdsFinite, FS_Subset, FS_AddElement
<1>2. S \cup {0} \in SUBSET Int /\ S \cup {0} # {} BY IdsFinite
<1>3. \E x \in S \cup {0} : \A y \in S \cup {0} : y <= x BY <1>1, <1>2, Greatest
<1>4. \E x \in S \cup {0} : \A y \in S \cup {0} : x >= y BY <1>2, <1>3
<1>5. LastId(S) \in S \cup {0} /\ \A y \in S \cup {0} : LastId(S) >= y
  BY <1>4 DEF LastId, Max
<1>6. MaxId \in Nat BY SeedsAssumption
<1>7. LastId(S) \in 0..MaxId
  <2>1. LastId(S) = 0 \/ LastId(S) \in Ids BY <1>5
  <2>2. QED BY <1>6, <2>1 DEF Ids
<1>8. QED BY <1>2, <1>5, <1>7

LEMMA CastFits ==
  ASSUME ProposalsTypeOK, Votes < MaxVotes, NEW id \in Ids
  PROVE  cast[id] + 1 \in 0..MaxVotes
<1>1. \A i \in Ids : cast[i] \in Nat BY LimitsAssumption DEF ProposalsTypeOK
<1>2. Total(cast, Ids) \in Nat BY <1>1, IdsFinite, TotalType
<1>3. cast[id] <= Total(cast, Ids) BY <1>1, IdsFinite, TermUnderTotal
<1>4. QED BY <1>1, <1>2, <1>3, LimitsAssumption DEF Votes

\* Memory and the upserts after one was sent.
LEMMA UpsertFacts ==
  ASSUME ProposalsTypeOK, NEW id \in Ids, NEW row \in Rows, row.title # "none",
         Upsert(id, row)
  PROVE  /\ mem' \in [Ids -> Rows] /\ mem'[id] = row
         /\ \A i \in Ids \ {id} : mem'[i] = mem[i]
         /\ \A i \in Ids : mem'[i].title = "none" => mem'[i] = NoRow
         /\ writes' \subseteq [id : Ids, row : Rows]
         /\ \A w \in writes' : w \in writes \/ w.row = row
         /\ \A i \in Ids \ {id} : Upserts(i)' = Upserts(i)
         /\ IF useDb THEN Upserts(id)' = Upserts(id) \cup {[id |-> id, row |-> row]}
                     ELSE Upserts(id)' = Upserts(id)
<1> DEFINE w == [id |-> id, row |-> row]
<1>1. w \in [id : Ids, row : Rows] /\ w.id = id /\ w.row = row OBVIOUS
<1>2. writes' = IF useDb THEN writes \cup {w} ELSE writes BY DEF Upsert
<1>3. /\ mem' \in [Ids -> Rows] /\ mem'[id] = row
      /\ \A i \in Ids \ {id} : mem'[i] = mem[i]
  BY DEF Upsert, ProposalsTypeOK
<1> HIDE DEF w
<1>4. \A i \in Ids : mem'[i].title = "none" => mem'[i] = NoRow
  BY <1>3 DEF ProposalsTypeOK
<1>5. /\ writes' \subseteq [id : Ids, row : Rows]
      /\ \A v \in writes' : v \in writes \/ v.row = row
  BY <1>1, <1>2 DEF ProposalsTypeOK
<1>6. \A i \in Ids \ {id} : Upserts(i)' = Upserts(i) BY <1>1, <1>2 DEF Upserts
<1>7. IF useDb THEN Upserts(id)' = Upserts(id) \cup {w} ELSE Upserts(id)' = Upserts(id)
  BY <1>1, <1>2 DEF Upserts
<1>8. QED BY <1>3, <1>4, <1>5, <1>6, <1>7 DEF w

\* Nothing of a number changes but a load more or less.
LEMMA SameVotes ==
  ASSUME NEW i \in Ids, VotesKept(i), mem'[i] = mem[i], cast'[i] = cast[i],
         Upserts(i)' = Upserts(i), table'[i] = table[i], useDb' = useDb,
         i \in unsaved' <=> i \in unsaved,
         \A r \in loads' : r \in loads \/ r.id # i \/ r.row = table[i]
  PROVE  VotesKept(i)'
BY DEF VotesKept, RowUpToDate

LEMMA CreatedIds ==
  ASSUME ProposalsTypeOK, NEW t \in Titles, created[t] # 0 PROVE created[t] \in Ids
BY SeedsAssumption DEF ProposalsTypeOK, Ids

LEMMA ExcusedStays ==
  ASSUME together \subseteq together', blind \subseteq blind', lost \subseteq lost',
         NEW t, NEW u, Excused(t, u)
  PROVE  Excused(t, u)'
BY DEF Excused

\* Steps that create nothing: rows keep their titles, an upsert leaves by being
\* a row or by being lost, and a new one is of a row or beside what is unlisted.
TitlesMove ==
  /\ UNCHANGED <<useDb, restarts, created>>
  /\ together \subseteq together' /\ blind \subseteq blind' /\ lost \subseteq lost'
  /\ \A id \in Ids : mem[id] # NoRow => mem'[id] # NoRow
  /\ ~useDb => writes' \subseteq writes /\ \A id \in Ids : mem'[id].title = mem[id].title
  /\ \A w \in writes : w \in writes' \/ table'[w.id] # NoRow \/ w.row.title \in lost'
  /\ \A w \in writes' : \/ w \in writes \/ table[w.id] # NoRow
                        \/ \A u \in Unlisted : {w.row.title, u} \in together'
  /\ \A id \in Ids : \/ table'[id] = table[id]
                     \/ \E w \in writes :
                          /\ w.id = id
                          /\ table'[id].title = IF table[id] = NoRow THEN w.row.title
                                                                     ELSE table[id].title

\* Rows that are there stay, with their titles.
LEMMA RowsStay ==
  ASSUME ProposalsTypeOK, RowsShaped, TitlesMove, NEW id \in Ids
  PROVE  table[id] # NoRow => /\ table'[id] # NoRow /\ table'[id].title = table[id].title
                              /\ table[id].title # "none"
<1> SUFFICES ASSUME table[id] # NoRow
             PROVE  /\ table'[id] # NoRow /\ table'[id].title = table[id].title
                    /\ table[id].title # "none"
  OBVIOUS
<1>1. table[id].title # "none" BY DEF RowsShaped
<1>2. table'[id].title = table[id].title BY DEF TitlesMove
<1>3. QED BY <1>1, <1>2, RowFacts

LEMMA FoundStays ==
  ASSUME ProposalsInv, TitlesMove PROVE RowsFound'
<1> SUFFICES ASSUME NEW t \in Titles, created[t] # 0
             PROVE  /\ useDb /\ t \notin lost' =>
                         table'[created[t]] # NoRow \/ \E w \in writes' : w.row.title = t
                    /\ restarts = 0 => mem'[created[t]] # NoRow
  BY DEF RowsFound, TitlesMove
<1>1. ProposalsTypeOK /\ RowsShaped /\ RowsFound /\ RowsOwned
  BY DEF ProposalsInv, VotesInv, TitlesInv
<1>2. PICK i \in Ids : i = created[t] BY <1>1, CreatedIds
<1>3. restarts = 0 => mem'[i] # NoRow BY <1>1, <1>2 DEF RowsFound, TitlesMove
<1>4. ASSUME useDb, t \notin lost'
      PROVE  table'[i] # NoRow \/ \E w \in writes' : w.row.title = t
  <2>1. t \notin lost BY <1>4 DEF TitlesMove
  <2>2. CASE table[i] # NoRow BY <1>1, <2>2, RowsStay
  <2>3. ASSUME NEW w \in writes, w.row.title = t 
        PROVE  table'[i] # NoRow \/ \E v \in writes' : v.row.title = t
    <3>1. w.id = i BY <1>1, <1>2, <2>3 DEF RowsOwned, Owned
    <3>2. QED BY <1>4, <2>3, <3>1 DEF TitlesMove
  <2>4. QED BY <1>1, <1>2, <1>4, <2>1, <2>2, <2>3 DEF RowsFound
<1>5. QED BY <1>2, <1>3, <1>4

LEMMA PassedStays ==
  ASSUME ProposalsInv, TitlesMove, ProposalsTypeOK', NEW p \in posts PROVE Passed(p)'
<1>1. ProposalsTypeOK /\ RowsShaped /\ Passed(p) BY DEF ProposalsInv, VotesInv, TitlesInv
<1>2. /\ created' = created /\ together \subseteq together' /\ blind \subseteq blind'
      /\ lost \subseteq lost'
  BY DEF TitlesMove
<1>3. /\ created'[p.title] = 0
      /\ \A t \in Titles : created'[t] # 0 /\ t \notin lost' =>
           created'[t] <= p.last \/ {t, p.title} \in together' \/ p.title \in blind'
  BY <1>1, <1>2 DEF Passed
<1>4. ASSUME {"seed", p.title} \notin together'
      PROVE  /\ \A id \in Ids : table'[id].title = "seed" => id <= p.last
             /\ \A w \in writes' :
                  w.row.title = "seed" /\ table'[w.id].title \in {"none", "seed"} => w.id <= p.last
  <2>1. /\ \A id \in Ids : table[id].title = "seed" => id <= p.last
        /\ \A w \in writes :
             w.row.title = "seed" /\ table[w.id].title \in {"none", "seed"} => w.id <= p.last
    BY <1>1, <1>2, <1>4 DEF Passed
  <2>2. ASSUME NEW id \in Ids, table'[id].title = "seed" PROVE id <= p.last
    <3>1. CASE table'[id] = table[id] BY <2>1, <2>2, <3>1
    <3>2. ASSUME NEW w \in writes, w.id = id,
                 table'[id].title = IF table[id] = NoRow THEN w.row.title ELSE table[id].title
          PROVE  id <= p.last
      <4>1. CASE table[id] = NoRow BY <2>1, <2>2, <3>2, <4>1, RowFacts
      <4>2. CASE table[id] # NoRow BY <2>1, <2>2, <3>2, <4>2
      <4>3. QED BY <4>1, <4>2
    <3>3. QED BY <3>1, <3>2 DEF TitlesMove
  <2>3. ASSUME NEW w \in writes', w.row.title = "seed", w.id \in Ids,
               table'[w.id].title \in {"none", "seed"}
        PROVE  w.id <= p.last
    <3>1. CASE table'[w.id].title = "seed" BY <2>2, <2>3, <3>1
    <3>2. CASE table'[w.id].title = "none"
      <4>1. table[w.id] = NoRow BY <1>1, <2>3, <3>2, RowsStay
      <4>2. CASE w \in writes BY <2>1, <2>3, <4>1, <4>2, RowFacts
      <4>3. CASE w \notin writes
        <5>1. p.title \in Unlisted BY DEF Unlisted
        <5>2. {"seed", p.title} \in together' BY <2>3, <4>1, <4>3, <5>1 DEF TitlesMove
        <5>3. QED BY <1>4, <5>2
      <4>4. QED BY <4>2, <4>3
    <3>3. QED BY <2>3, <3>1, <3>2
  <2>4. \A w \in writes' : w.id \in Ids
    <3>1. writes' \subseteq [id : Ids, row : Rows] BY DEF ProposalsTypeOK
    <3>2. QED BY <3>1
  <2>5. QED BY <2>2, <2>3, <2>4
<1>5. QED BY <1>3, <1>4 DEF Passed

LEMMA ListedStays ==
  ASSUME ProposalsInv, TitlesMove, ProposalsTypeOK', RowsShaped', RowsOwned',
         NEW t \in Titles, created[t] # 0, NEW id \in Ids, id = created[t],
         t \notin lost', {t, "seed"} \notin together', Apart(t), Listed(t, id)
  PROVE  Listed(t, id)'
<1>1. ProposalsTypeOK /\ RowsShaped /\ RowsOwned BY DEF ProposalsInv, VotesInv, TitlesInv
<1>2. t # "none" BY RowFacts
<1>3. CASE table[id] # NoRow
  <2>1. table[id].title = t BY <1>3 DEF Listed
  <2>2. table'[id].title = t BY <1>1, <1>3, <2>1, RowsStay
  <2>3. QED BY <2>2 DEF Listed
<1>4. CASE table[id] = NoRow
  <2>1. /\ \A w \in Upserts(id) : w.row.title = t
        /\ useDb => Upserts(id) # {}
    BY <1>2, <1>4, RowFacts DEF Listed
  <2>2. CASE table'[id] # NoRow
    <3>1. PICK w \in writes : w.id = id /\ table'[id].title = w.row.title
      BY <1>4, <2>2 DEF TitlesMove
    <3>2. w \in Upserts(id) BY <3>1 DEF Upserts
    <3>3. table'[id].title = t BY <2>1, <3>1, <3>2
    <3>4. QED BY <3>3 DEF Listed
  <2>3. CASE table'[id] = NoRow
    <3>1. ASSUME useDb PROVE Upserts(id)' # {} /\ t \in Unlisted
      <4>1. PICK w \in Upserts(id) : w.row.title = t BY <2>1, <3>1
      <4>2. w \in writes /\ w.id = id BY <4>1 DEF Upserts
      <4>3. w \in writes' BY <2>3, <4>1, <4>2 DEF TitlesMove
      <4>4. w \in Upserts(id)' BY <4>2, <4>3 DEF Upserts
      <4>5. QED BY <1>4, <4>1, <4>2, <4>4 DEF Unlisted
    <3>2. ASSUME NEW w \in Upserts(id)' PROVE w.row.title = t
      <4>1. w \in writes' /\ w.id = id BY <3>2 DEF Upserts
      <4>2. CASE w \in writes
        <5>1. w \in Upserts(id) BY <4>1, <4>2 DEF Upserts
        <5>2. QED BY <2>1, <5>1
      <4>3. CASE w \notin writes
        <5>1. useDb BY <4>1, <4>3, <1>1 DEF TitlesMove, ProposalsTypeOK
        <5>2. {w.row.title, t} \in together' BY <1>4, <3>1, <4>1, <4>3, <5>1 DEF TitlesMove
        <5>3. w.row.title # "seed"
          <6>1. {"seed", t} = {t, "seed"} OBVIOUS
          <6>2. QED BY <5>2, <6>1
        <5>4. w.row.title \in Titles \cup {"seed", "none"}
          <6>1. writes' \subseteq [id : Ids, row : Rows] BY DEF ProposalsTypeOK
          <6>2. w.row \in Rows BY <4>1, <6>1
          <6>3. QED BY <6>2 DEF Rows
        <5>5. w.row.title # "none" BY <4>1 DEF RowsShaped
        <5>6. w.row.title \in Titles BY <5>3, <5>4, <5>5
        <5>7. created'[w.row.title] = id BY <4>1, <5>6 DEF RowsOwned, Owned
        <5>8. created[w.row.title] = created[t] BY <5>7 DEF TitlesMove
        <5>9. QED BY <5>6, <5>8 DEF Apart
      <4>4. QED BY <4>2, <4>3
    <3>3. useDb' = useDb BY DEF TitlesMove
    <3>4. QED BY <2>3, <3>1, <3>2, <3>3 DEF Listed
  <2>4. QED BY <2>2, <2>3
<1>5. QED BY <1>3, <1>4

LEMMA TitlesStay ==
  ASSUME ProposalsInv, TitlesMove, ProposalsTypeOK', RowsShaped', RowsOwned'
  PROVE  RowsFound' /\ TitlesKept' /\ \A p \in posts : Passed(p)'
<1>1. RowsFound' /\ \A p \in posts : Passed(p)' BY FoundStays, PassedStays
<1>2. ProposalsTypeOK /\ TitlesKept BY DEF ProposalsInv, VotesInv, TitlesInv
<1>3. /\ useDb' = useDb /\ restarts' = restarts /\ created' = created
      /\ together \subseteq together' /\ blind \subseteq blind' /\ lost \subseteq lost'
      /\ ~useDb => \A id \in Ids : mem'[id].title = mem[id].title
  BY DEF TitlesMove
<1>4. ASSUME NEW t \in Titles, created[t] # 0 PROVE TitleKept(t)'
  <2>1. TitleKept(t) /\ created[t] \in Ids BY <1>2, <1>4, CreatedIds DEF TitlesKept
  <2>2. PICK id \in Ids : id = created[t] BY <2>1
  <2>3. ASSUME NEW u \in Titles \ {t}, created[u] = created[t] PROVE Excused(t, u)'
    <3>1. Excused(t, u) BY <2>1, <2>3 DEF TitleKept
    <3>2. QED BY <1>3, <3>1, ExcusedStays
  <2>4. ~useDb /\ restarts = 0 => mem'[id].title = t
    BY <1>3, <2>1, <2>2 DEF TitleKept
  <2>5. Apart(t)' <=> Apart(t) BY <1>3 DEF Apart
  <2>6. t \notin lost' /\ {t, "seed"} \notin together' /\ Apart(t) => Listed(t, id)'
    <3>1. ASSUME t \notin lost', {t, "seed"} \notin together', Apart(t) PROVE Listed(t, id)'
      <4>1. t \notin lost /\ {t, "seed"} \notin together BY <1>3, <3>1
      <4>2. Listed(t, id) BY <2>1, <2>2, <3>1, <4>1 DEF TitleKept
      <4>3. QED BY <1>4, <2>2, <3>1, <4>2, ListedStays
    <3>2. QED BY <3>1
  <2>7. created'[t] = id BY <1>3, <2>2
  <2>8. t \notin lost' /\ {t, "seed"} \notin together' /\ Apart(t) => Listed(t, created[t])'
    BY <2>6, <2>7 DEF Listed, Upserts
  <2>9. QED BY <1>3, <2>2, <2>3, <2>4, <2>5, <2>8 DEF TitleKept
<1>5. TitlesKept' BY <1>3, <1>4 DEF TitlesKept
<1>6. QED BY <1>1, <1>5

\* A vote is counted, whether its row came from memory or from the table.
LEMMA CastVotes ==
  ASSUME VotesInv, NEW id \in Ids, NEW row \in Rows, row.title # "none",
         Votes < MaxVotes, Cast(id, row), loads' \subseteq loads, raced \subseteq raced',
         UNCHANGED <<useDb, posts, table, failures, restarts, created, unsaved>>,
         raced' \subseteq Ids, together' \subseteq SUBSET (Titles \cup {"seed"}),
         UNCHANGED <<blind, lost>>,
         \/ mem[id] # NoRow /\ row = mem[id]
         \/ mem[id] = NoRow /\ row = table[id]
         \/ id \in Seeds \cup raced',
         row = mem[id] \/ table[id] # NoRow,
         useDb \/ row = mem[id]
  PROVE  VotesInv'
<1> DEFINE new == WithVote(row)
           w == [id |-> id, row |-> new]
<1>1. ProposalsTypeOK /\ RowsShaped BY DEF VotesInv
<1>2. new \in Rows /\ new.title = row.title /\ new.votes = row.votes + 1 /\ new # NoRow
  BY WithVoteFacts, RowFacts
<1>3. Upsert(id, new) BY DEF Cast
<1> HIDE DEF new
<1>4. /\ mem' \in [Ids -> Rows] /\ mem'[id] = new
      /\ \A i \in Ids \ {id} : mem'[i] = mem[i]
      /\ \A i \in Ids : mem'[i].title = "none" => mem'[i] = NoRow
      /\ writes' \subseteq [id : Ids, row : Rows]
      /\ \A v \in writes' : v \in writes \/ v.row = new
      /\ \A i \in Ids \ {id} : Upserts(i)' = Upserts(i)
      /\ IF useDb THEN Upserts(id)' = Upserts(id) \cup {w} ELSE Upserts(id)' = Upserts(id)
  BY <1>1, <1>2, <1>3, UpsertFacts
<1>5. cast[id] + 1 \in 0..MaxVotes BY <1>1, CastFits
<1>6. /\ cast' \in [Ids -> 0..MaxVotes] /\ cast'[id] = cast[id] + 1
      /\ \A i \in Ids \ {id} : cast'[i] = cast[i]
  BY <1>1, <1>5 DEF Cast, ProposalsTypeOK
<1>7. ProposalsTypeOK' BY <1>1, <1>4, <1>6 DEF ProposalsTypeOK
<1>8. RowsShaped'
  <2>1. \A i \in Seeds : mem'[i] # NoRow BY <1>1, <1>2, <1>4, IdsFinite DEF RowsShaped
  <2>2. QED BY <1>1, <1>2, <1>4, <2>1 DEF RowsShaped
<1>9. ASSUME NEW i \in Ids \ (Seeds \cup raced') PROVE VotesKept(i)'
  <2>1. VotesKept(i) BY <1>9 DEF VotesInv
  <2>2. CASE i # id BY <1>4, <1>6, <1>9, <2>1, <2>2, SameVotes
  <2>3. CASE i = id
    <3>1. row.votes = cast[id]
      <4>1. CASE mem[id] # NoRow /\ row = mem[id] BY <2>1, <2>3, <4>1 DEF VotesKept
      <4>2. CASE mem[id] = NoRow /\ row = table[id]
        <5>1. useDb BY <4>2, RowFacts
        <5>2. Upserts(id) = {} /\ RowUpToDate(id) BY <2>1, <2>3, <4>2, <5>1 DEF VotesKept
        <5>3. QED BY <4>2, <5>2 DEF RowUpToDate
      <4>3. QED BY <1>9, <2>3, <4>1, <4>2
    <3>2. new.votes = cast'[id] BY <1>2, <1>6, <3>1
    <3>3. ASSUME useDb, id \notin unsaved PROVE RowUpToDate(id)'
      <4>1. RowUpToDate(id) BY <2>1, <2>3, <3>3 DEF VotesKept
      <4>2. w \in Upserts(id)' /\ w.row = new BY <1>4, <3>3
      <4>3. table[id] \in Rows /\ \A v \in Upserts(id) : v.row \in Rows
        BY <1>1 DEF ProposalsTypeOK, Upserts
      <4>4. table[id].votes <= cast[id] /\ cast[id] \in Nat /\ table[id].votes \in Nat
        <5>1. cast[id] \in Nat BY <1>1, LimitsAssumption DEF ProposalsTypeOK
        <5>2. \A v \in Upserts(id) : v.row.votes \in Nat BY <4>3 DEF Rows
        <5>3. table[id].votes \in Nat BY <4>3 DEF Rows
        <5>4. QED BY <4>1, <5>1, <5>2, <5>3 DEF RowUpToDate
      <4>5. ASSUME NEW v \in Upserts(id)'
            PROVE  table'[id].votes <= v.row.votes /\ v.row.votes <= cast'[id]
        <5>1. CASE v = w BY <1>6, <3>2, <4>2, <4>4, <5>1
        <5>2. CASE v \in Upserts(id)
          <6>1. v.row.votes \in Nat BY <4>3, <5>2 DEF Rows
          <6>2. QED BY <1>6, <4>1, <4>4, <5>2, <6>1 DEF RowUpToDate
        <5>3. QED BY <1>4, <3>3, <5>1, <5>2
      <4>6. QED BY <3>2, <4>2, <4>5 DEF RowUpToDate
    <3>4. QED BY <1>2, <1>4, <2>3, <3>2, <3>3 DEF VotesKept
  <2>4. QED BY <2>2, <2>3
<1>10. QED BY <1>7, <1>8, <1>9 DEF VotesInv

\* A cast keeps every title; its upsert, of a number without a row, is beside
\* what is unlisted.
LEMMA CastTitles ==
  ASSUME ProposalsInv, VotesInv', NEW id \in Ids, NEW row \in Rows, row.title # "none",
         Owned(row.title, id), Cast(id, row), loads' \subseteq loads,
         UNCHANGED <<useDb, posts, table, restarts, created, blind, lost>>,
         together \subseteq together', row = mem[id] \/ table[id] # NoRow,
         useDb \/ row = mem[id],
         useDb /\ table[id] = NoRow => \A u \in Unlisted : {row.title, u} \in together'
  PROVE  ProposalsInv'
<1> DEFINE new == WithVote(row)
           w == [id |-> id, row |-> new]
<1>1. /\ ProposalsTypeOK /\ RowsShaped /\ RowsOwned /\ PostsApart
      /\ ProposalsTypeOK' /\ RowsShaped'
  BY DEF ProposalsInv, VotesInv, TitlesInv
<1>2. new \in Rows /\ new.title = row.title /\ new # NoRow
  BY WithVoteFacts, RowFacts
<1>3. Upsert(id, new) BY DEF Cast
<1>4. w.id = id /\ w.row = new OBVIOUS
<1> HIDE DEF new
<1>5. writes' = IF useDb THEN writes \cup {w} ELSE writes BY <1>3 DEF Upsert
<1> HIDE DEF w
<1>6. mem'[id] = new /\ \A i \in Ids \ {id} : mem'[i] = mem[i]
  BY <1>1, <1>2, <1>3, UpsertFacts
<1>7. RowsOwned'
  <2>1. Owned(new.title, id) BY <1>2
  <2>2. \A i \in Ids : Owned(mem'[i].title, i) BY <1>1, <1>6, <2>1 DEF RowsOwned
  <2>3. \A v \in writes' : Owned(v.row.title, v.id) BY <1>1, <1>4, <1>5, <2>1 DEF RowsOwned
  <2>4. \A r \in loads' : Owned(r.row.title, r.id) BY <1>1 DEF RowsOwned
  <2>5. QED BY <1>1, <2>2, <2>3, <2>4 DEF RowsOwned, Owned
<1>8. TitlesMove
  <2>1. \A i \in Ids : mem[i] # NoRow => mem'[i] # NoRow BY <1>2, <1>6
  <2>2. ~useDb => writes' \subseteq writes /\ \A i \in Ids : mem'[i].title = mem[i].title
    BY <1>2, <1>5, <1>6
  <2>3. \A v \in writes : v \in writes' BY <1>5
  <2>4. \A v \in writes' : \/ v \in writes \/ table[v.id] # NoRow
                           \/ \A u \in Unlisted : {v.row.title, u} \in together'
    BY <1>2, <1>4, <1>5
  <2>5. QED BY <2>1, <2>2, <2>3, <2>4 DEF TitlesMove
<1>9. PostsApart' BY <1>1 DEF PostsApart
<1>10. TitlesInv' BY <1>1, <1>7, <1>8, <1>9, TitlesStay DEF TitlesInv
<1>11. QED BY <1>10 DEF ProposalsInv

LEMMA BesideTypes ==
  ASSUME ProposalsTypeOK, RowsShaped, NEW title \in Titles \cup {"seed"}
  PROVE  Beside(title) \subseteq SUBSET (Titles \cup {"seed"})
<1>1. \A p \in posts : p.title \in Titles BY DEF ProposalsTypeOK
<1>2. \A w \in writes : w.row.title \in Titles \cup {"seed"}
  <2>1. writes \subseteq [id : Ids, row : Rows] BY DEF ProposalsTypeOK
  <2>2. \A w \in writes : w.row \in Rows /\ w.row.title # "none" BY <2>1 DEF RowsShaped
  <2>3. QED BY <2>2 DEF Rows
<1>3. Unlisted \subseteq Titles \cup {"seed"} BY <1>1, <1>2 DEF Unlisted
<1>4. QED BY <1>3 DEF Beside

LEMMA VoteInMemoryKeeps ==
  ASSUME ProposalsInv, NEW id \in Ids, VoteInMemory(id) PROVE ProposalsInv'
<1>1. VotesInv /\ RowsOwned /\ ProposalsTypeOK /\ RowsShaped
  BY DEF ProposalsInv, VotesInv, TitlesInv
<1>2. mem[id] \in Rows /\ mem[id].title # "none" /\ raced \subseteq Ids
  BY <1>1 DEF ProposalsTypeOK, VoteInMemory, Found
<1>3. Votes < MaxVotes /\ Cast(id, mem[id]) /\ mem[id] # NoRow
      /\ UNCHANGED <<useDb, loads, posts, table, failures, restarts, created, raced, unsaved,
                     blind, lost>>
      /\ together' = IF useDb /\ table[id] = NoRow THEN together \cup Beside(mem[id].title)
                     ELSE together
  BY DEF VoteInMemory, Found
<1>4. mem[id].title \in Titles \cup {"seed"} BY <1>2 DEF Rows
<1>5. together' \subseteq SUBSET (Titles \cup {"seed"})
  <2>1. together \subseteq SUBSET (Titles \cup {"seed"}) BY <1>1 DEF ProposalsTypeOK
  <2>2. Beside(mem[id].title) \subseteq SUBSET (Titles \cup {"seed"})
    BY <1>1, <1>4, BesideTypes
  <2>3. QED BY <1>3, <2>1, <2>2
<1>6. VotesInv' BY <1>1, <1>2, <1>3, <1>5, CastVotes
<1>7. Owned(mem[id].title, id) BY <1>1 DEF RowsOwned
<1>8. useDb /\ table[id] = NoRow => \A u \in Unlisted : {mem[id].title, u} \in together'
  BY <1>3 DEF Beside
<1>9. together \subseteq together' BY <1>3
<1>10. QED BY <1>2, <1>3, <1>6, <1>7, <1>8, <1>9, CastTitles

LEMMA LoadKeeps ==
  ASSUME ProposalsInv, NEW slot \in 1..MaxLoads, NEW id \in Ids, NEW vote \in BOOLEAN,
         Load(slot, id, vote)
  PROVE  ProposalsInv'
<1> DEFINE r == [slot |-> slot, id |-> id, vote |-> vote, row |-> table[id]]
<1>1. /\ UNCHANGED <<useDb, mem, posts, table, writes, restarts, cast, created, raced, unsaved,
                     together, blind, lost>>
      /\ useDb /\ loads' \subseteq loads \cup {r}
      /\ \/ failures' = failures
         \/ failures < MaxFailures /\ failures' = failures + 1
  BY DEF Load
<1>2. /\ VotesInv /\ ProposalsTypeOK /\ RowsShaped /\ RowsOwned /\ PostsApart
      /\ table[id] \in Rows
  BY DEF ProposalsInv, VotesInv, TitlesInv, ProposalsTypeOK
<1>3. /\ r \in [slot : 1..MaxLoads, id : Ids, vote : BOOLEAN, row : Rows]
      /\ r.id = id /\ r.row = table[id]
  BY <1>2
<1> HIDE DEF r
<1>4. ProposalsTypeOK'
  <2>1. loads' \subseteq [slot : 1..MaxLoads, id : Ids, vote : BOOLEAN, row : Rows]
    BY <1>1, <1>2, <1>3 DEF ProposalsTypeOK
  <2>2. failures' \in 0..MaxFailures BY <1>1, <1>2, LimitsAssumption DEF ProposalsTypeOK
  <2>3. QED BY <1>1, <1>2, <2>1, <2>2 DEF ProposalsTypeOK
<1>5. RowsShaped' BY <1>1, <1>2, <1>3 DEF RowsShaped
<1>6. \A i : Upserts(i)' = Upserts(i) BY <1>1 DEF Upserts
<1>7. ASSUME NEW i \in Ids \ (Seeds \cup raced') PROVE VotesKept(i)'
  <2>1. VotesKept(i) BY <1>1, <1>2, <1>7 DEF VotesInv
  <2>2. QED BY <1>1, <1>3, <1>6, <2>1, SameVotes
<1>8. RowsOwned'
  <2>1. \A x \in loads' : Owned(x.row.title, x.id) BY <1>1, <1>2, <1>3 DEF RowsOwned
  <2>2. QED BY <1>1, <1>2, <2>1 DEF RowsOwned, Owned
<1>9. TitlesMove BY <1>1 DEF TitlesMove
<1>10. PostsApart' BY <1>1, <1>2 DEF PostsApart
<1>11. TitlesInv' BY <1>1, <1>4, <1>5, <1>8, <1>9, <1>10, TitlesStay DEF TitlesInv
<1>12. QED BY <1>4, <1>5, <1>7, <1>11 DEF ProposalsInv, VotesInv

LEMMA LoadGoesOnKeeps ==
  ASSUME ProposalsInv, NEW r \in loads, LoadGoesOn(r) PROVE ProposalsInv'
<1>1. UNCHANGED <<useDb, posts, table, failures, restarts, created, unsaved, together, blind, lost>>
      /\ loads' = loads \ {r}
  BY DEF LoadGoesOn
<1>2. /\ VotesInv /\ ProposalsTypeOK /\ RowsShaped /\ RowsOwned /\ PostsApart /\ useDb
      /\ r \in [slot : 1..MaxLoads, id : Ids, vote : BOOLEAN, row : Rows] /\ raced \subseteq Ids
  BY DEF ProposalsInv, VotesInv, TitlesInv, ProposalsTypeOK, RowsShaped
<1>3. r.id \in Ids /\ r.row \in Rows BY <1>2
<1>4. PICK id \in Ids : id = r.id BY <1>3
<1>5. CASE ~Found(r.row) \/ ~r.vote
  <2>1. UNCHANGED <<writes, cast>>
        /\ \/ UNCHANGED <<mem, raced>>
           \/ /\ Found(r.row) /\ mem' = [mem EXCEPT ![id] = r.row]
              /\ raced' = IF mem[id] # NoRow THEN raced \cup {id} ELSE raced
    BY <1>4, <1>5 DEF LoadGoesOn
  <2>2. Found(r.row) => r.row # NoRow /\ r.row.title # "none" /\ table[id] # NoRow
    BY <1>2, <1>4 DEF RowsShaped, Found
  <2>3. mem' \in [Ids -> Rows] /\ \A i \in Ids : mem'[i].title = "none" => mem'[i] = NoRow
        /\ raced' \subseteq Ids
    BY <1>2, <1>3, <2>1, <2>2 DEF ProposalsTypeOK
  <2>4. ProposalsTypeOK' BY <1>1, <1>2, <2>1, <2>3 DEF ProposalsTypeOK
  <2>5. RowsShaped'
    <3>1. mem \in [Ids -> Rows] BY <1>2 DEF ProposalsTypeOK
    <3>2. \A i \in Seeds : mem'[i] # NoRow BY <1>2, <2>1, <2>2, <3>1, IdsFinite DEF RowsShaped
    <3>3. QED BY <1>1, <1>2, <2>1, <3>2 DEF RowsShaped
  <2>6. \A i : Upserts(i)' = Upserts(i) BY <2>1 DEF Upserts
  <2>7. \A i \in Ids : mem'[i] = mem[i] \/ (i = id /\ table[id] # NoRow)
    <3>1. mem \in [Ids -> Rows] BY <1>2 DEF ProposalsTypeOK
    <3>2. CASE mem' = mem BY <3>2
    <3>3. CASE mem' = [mem EXCEPT ![id] = r.row] /\ Found(r.row) BY <2>2, <3>1, <3>3
    <3>4. QED BY <2>1, <3>2, <3>3
  <2>8. RowsOwned' /\ PostsApart'
    <3>1. Owned(r.row.title, id) BY <1>2, <1>4 DEF RowsOwned
    <3>2. mem \in [Ids -> Rows] BY <1>2 DEF ProposalsTypeOK
    <3>3. \A i \in Ids : Owned(mem'[i].title, i) BY <1>2, <2>1, <3>1, <3>2 DEF RowsOwned
    <3>4. QED BY <1>1, <1>2, <2>1, <3>3 DEF RowsOwned, Owned, PostsApart
  <2>9. ASSUME NEW i \in Ids \ (Seeds \cup raced') PROVE VotesKept(i)'
    <3>1. VotesKept(i) BY <1>2, <2>1, <2>9 DEF VotesInv
    <3>2. CASE mem'[i] = mem[i] BY <1>1, <2>1, <2>6, <3>1, <3>2, SameVotes
    <3>3. CASE mem'[i] # mem[i]
      <4>1. i = id /\ mem'[id] = r.row /\ mem[id] = NoRow /\ Found(r.row)
        BY <1>2, <2>1, <2>9, <3>3 DEF ProposalsTypeOK
      <4>2. r.row = table[id] /\ RowUpToDate(id) /\ Upserts(id) = {}
        BY <1>2, <1>4, <3>1, <4>1 DEF VotesKept
      <4>3. mem'[id].votes = cast[id] /\ mem'[id] # NoRow
        BY <2>2, <4>1, <4>2 DEF RowUpToDate
      <4>4. RowUpToDate(id)' BY <1>1, <2>1, <2>6, <4>2 DEF RowUpToDate
      <4>5. QED BY <2>1, <4>1, <4>3, <4>4 DEF VotesKept
    <3>4. QED BY <3>2, <3>3
  <2>10. TitlesMove
    <3>1. mem \in [Ids -> Rows] BY <1>2 DEF ProposalsTypeOK
    <3>2. \A i \in Ids : mem[i] # NoRow => mem'[i] # NoRow BY <2>1, <2>2, <3>1
    <3>3. QED BY <1>1, <1>2, <2>1, <3>2 DEF TitlesMove
  <2>11. TitlesInv' BY <1>1, <2>4, <2>5, <2>8, <2>10, TitlesStay DEF TitlesInv
  <2>12. QED BY <2>4, <2>5, <2>9, <2>11 DEF ProposalsInv, VotesInv
<1>6. CASE Found(r.row) /\ r.vote
  <2>1. /\ Votes < MaxVotes /\ Cast(id, r.row)
        /\ raced' = IF mem[id] # NoRow THEN raced \cup {id} ELSE raced
    BY <1>4, <1>6 DEF LoadGoesOn
  <2>2. r.row.title # "none" /\ table[id] # NoRow
    BY <1>2, <1>4, <1>6 DEF RowsShaped, Found
  <2>3. (mem[id] = NoRow /\ r.row = table[id]) \/ id \in Seeds \cup raced'
    <3>1. ASSUME id \notin Seeds \cup raced' PROVE mem[id] = NoRow /\ r.row = table[id]
      <4>1. mem[id] = NoRow /\ id \notin Seeds \cup raced BY <2>1, <3>1
      <4>2. VotesKept(id) BY <1>2, <4>1 DEF VotesInv
      <4>3. QED BY <1>4, <4>1, <4>2 DEF VotesKept
    <3>2. QED BY <3>1
  <2>4. raced \subseteq raced' /\ raced' \subseteq Ids /\ loads' \subseteq loads
    BY <1>1, <1>2, <2>1
  <2>5. together' \subseteq SUBSET (Titles \cup {"seed"}) BY <1>1, <1>2 DEF ProposalsTypeOK
  <2>6. VotesInv' BY <1>1, <1>2, <1>3, <2>1, <2>2, <2>3, <2>4, <2>5, CastVotes
  <2>7. Owned(r.row.title, id) BY <1>2, <1>4 DEF RowsOwned
  <2>8. QED BY <1>1, <1>2, <1>3, <2>1, <2>2, <2>4, <2>6, <2>7, CastTitles
<1>7. QED BY <1>5, <1>6

LEMMA LastTakenFacts ==
  ASSUME ProposalsTypeOK
  PROVE  /\ LastTaken \in Nat
         /\ \A n \in Ids : n > LastTaken => table[n] = NoRow /\ Upserts(n) = {}
<1> DEFINE S == Present(table) \cup {w.id : w \in writes}
<1>1. S \in SUBSET Ids BY DEF Present, ProposalsTypeOK
<1>2. LastTaken = LastId(S) BY DEF LastTaken
<1>3. ASSUME NEW n \in Ids, n \in Present(table) \/ Upserts(n) # {} PROVE n \in S
  BY <1>3 DEF Upserts
<1> HIDE DEF S
<1>4. LastTaken \in 0..MaxId /\ \A x \in S : x <= LastTaken BY <1>1, <1>2, LastIdFacts
<1>5. ASSUME NEW n \in Ids, n > LastTaken PROVE table[n] = NoRow /\ Upserts(n) = {}
  <2>1. n \in Nat BY IdsFinite
  <2>2. n \notin S BY <1>4, <1>5, <2>1
  <2>3. QED BY <1>3, <2>2 DEF Present
<1>6. LastTaken \in Nat BY <1>4
<1>7. QED BY <1>5, <1>6

LEMMA PresentFacts ==
  ASSUME NEW rows \in [Ids -> Rows]
  PROVE  /\ Present(rows) \in SUBSET Ids /\ LastId(Present(rows)) \in 0..MaxId
         /\ \A n \in Ids : n > LastId(Present(rows)) => rows[n] = NoRow
<1>1. Present(rows) \in SUBSET Ids BY DEF Present
<1>2. /\ LastId(Present(rows)) \in 0..MaxId
      /\ \A x \in Present(rows) : x <= LastId(Present(rows))
  BY <1>1, LastIdFacts
<1>3. ASSUME NEW n \in Ids, n > LastId(Present(rows)) PROVE rows[n] = NoRow
  <2>1. n \in Nat BY IdsFinite
  <2>2. n \notin Present(rows) BY <1>2, <1>3, <2>1
  <2>3. QED BY <2>2 DEF Present
<1>4. QED BY <1>1, <1>2, <1>3

\* A proposal is created with a number: nobody's, unless the list was old.
LEMMA CreateVotes ==
  ASSUME VotesInv, NEW title \in Titles, NEW last \in 0..MaxId, Create(title, last),
         posts' \subseteq posts,
         UNCHANGED <<loads, useDb, table, failures, restarts, unsaved, together, lost>>,
         blind' \subseteq Titles, ~useDb => last = LastId(Present(mem))
  PROVE  VotesInv'
<1> DEFINE n == NextId(last)
           new == Row(title)
           w == [id |-> n, row |-> new]
<1>1. ProposalsTypeOK /\ RowsShaped BY DEF VotesInv
<1>2. /\ n \in Ids /\ n = last + 1 /\ last \in Nat /\ n # 0 /\ Upsert(n, new)
      /\ created' = [created EXCEPT ![title] = n] /\ cast' = [cast EXCEPT ![n] = 0]
      /\ raced' = IF useDb /\ n <= LastTaken THEN raced \cup {n} ELSE raced
  BY SeedsAssumption DEF Create, NextId, Ids
<1>3. new \in Rows /\ new.title = title /\ new.votes = 0 /\ title # "none" /\ new # NoRow
  BY RowFacts
<1> HIDE DEF n, new
<1>4. /\ mem' \in [Ids -> Rows] /\ mem'[n] = new
      /\ \A i \in Ids \ {n} : mem'[i] = mem[i]
      /\ \A i \in Ids : mem'[i].title = "none" => mem'[i] = NoRow
      /\ writes' \subseteq [id : Ids, row : Rows]
      /\ \A v \in writes' : v \in writes \/ v.row = new
      /\ \A i \in Ids \ {n} : Upserts(i)' = Upserts(i)
      /\ IF useDb THEN Upserts(n)' = Upserts(n) \cup {w} ELSE Upserts(n)' = Upserts(n)
  BY <1>1, <1>2, <1>3, UpsertFacts
<1>5. w.row = new OBVIOUS
<1> HIDE DEF w
<1>6. /\ created' \in [Titles -> 0..MaxId] /\ created'[title] = n
      /\ \A t \in Titles \ {title} : created'[t] = created[t]
      /\ cast' \in [Ids -> 0..MaxVotes] /\ cast'[n] = 0
      /\ \A i \in Ids \ {n} : cast'[i] = cast[i]
  <2>1. n \in 0..MaxId /\ 0 \in 0..MaxVotes
    BY <1>2, LimitsAssumption, SeedsAssumption DEF Ids
  <2>2. QED BY <1>1, <1>2, <2>1 DEF ProposalsTypeOK
<1>7. ProposalsTypeOK' BY <1>1, <1>2, <1>4, <1>6 DEF ProposalsTypeOK
<1>8. RowsShaped'
  <2>1. \A i \in Seeds : mem'[i] # NoRow BY <1>1, <1>3, <1>4, IdsFinite DEF RowsShaped
  <2>2. QED BY <1>1, <1>3, <1>4, <2>1 DEF RowsShaped
<1>9. LastTaken \in Nat /\ (n > LastTaken => table[n] = NoRow /\ Upserts(n) = {})
  BY <1>1, <1>2, LastTakenFacts
<1>10. ASSUME NEW i \in Ids \ (Seeds \cup raced') PROVE VotesKept(i)'
  <2>1. VotesKept(i) BY <1>2, <1>10 DEF VotesInv
  <2>2. CASE i # n BY <1>4, <1>6, <1>10, <2>1, <2>2, SameVotes
  <2>3. CASE i = n
    <3>1. mem'[n] # NoRow /\ mem'[n].votes = cast'[n] BY <1>3, <1>4, <1>6
    <3>2. ASSUME useDb PROVE RowUpToDate(n)'
      <4>1. n > LastTaken
        <5>1. ~(n <= LastTaken) BY <1>2, <1>10, <2>3, <3>2
        <5>2. QED BY <1>2, <1>9, <5>1
      <4>2. Upserts(n)' = {w} /\ table'[n].votes = 0 BY <1>4, <1>9, <3>2, <4>1, RowFacts
      <4>3. QED BY <1>3, <1>5, <1>6, <4>2 DEF RowUpToDate
    <3>3. QED BY <2>3, <3>1, <3>2 DEF VotesKept
  <2>4. QED BY <2>2, <2>3
<1>11. QED BY <1>7, <1>8, <1>10 DEF VotesInv

\* The number is past those of the list, so who has it too was posted beside it,
\* or is not in the list for another reason.
Behind(title, last) ==
  /\ created[title] = 0
  /\ \A t \in Titles : created[t] # 0 /\ t \notin lost =>
       created[t] <= last \/ {t, title} \in together \/ title \in blind'
  /\ ~useDb /\ restarts = 0 => \A t \in Titles : created[t] # 0 => created[t] <= last
  /\ {"seed", title} \notin together =>
       /\ table[last + 1].title # "seed"
       /\ table[last + 1] = NoRow => \A w \in Upserts(last + 1) : w.row.title # "seed"

LEMMA CreateTitles ==
  ASSUME ProposalsInv, VotesInv', NEW title \in Titles, NEW last \in 0..MaxId,
         Create(title, last), Behind(title, last),
         posts' \subseteq posts, \A p \in posts' : p.title # title /\ {title, p.title} \in together,
         UNCHANGED <<loads, useDb, table, restarts, together, lost>>, blind \subseteq blind'
  PROVE  ProposalsInv'
<1> DEFINE n == NextId(last)
           new == Row(title)
           w == [id |-> n, row |-> new]
<1>1. /\ ProposalsTypeOK /\ RowsShaped /\ RowsOwned /\ RowsFound /\ PostsApart /\ TitlesKept
      /\ \A p \in posts : Passed(p)
      /\ ProposalsTypeOK' /\ RowsShaped'
  BY DEF ProposalsInv, VotesInv, TitlesInv
<1>2. /\ n \in Ids /\ n = last + 1 /\ last \in Nat /\ n # 0 /\ n \in Nat /\ Upsert(n, new)
      /\ created' = [created EXCEPT ![title] = n]
  BY SeedsAssumption DEF Create, NextId, Ids
<1>3. new \in Rows /\ new.title = title /\ title # "none" /\ title # "seed" /\ new # NoRow
  BY RowFacts, TitlesAssumption
<1>4. w.id = n /\ w.row = new OBVIOUS
<1> HIDE DEF n, new
<1>5. writes' = IF useDb THEN writes \cup {w} ELSE writes BY <1>2 DEF Upsert
<1> HIDE DEF w
<1>6. /\ mem' \in [Ids -> Rows] /\ mem'[n] = new
      /\ \A i \in Ids \ {n} : mem'[i] = mem[i] /\ Upserts(i)' = Upserts(i)
      /\ Upserts(n)' = IF useDb THEN Upserts(n) \cup {w} ELSE Upserts(n)
  <2>1. Upserts(n)' = IF useDb THEN Upserts(n) \cup {w} ELSE Upserts(n)
    BY <1>4, <1>5 DEF Upserts
  <2>2. QED BY <1>1, <1>2, <1>3, <2>1, UpsertFacts
<1>7. /\ created'[title] = n /\ created[title] = 0
      /\ \A t \in Titles \ {title} : created'[t] = created[t]
  BY <1>1, <1>2 DEF ProposalsTypeOK, Behind
<1>8. ASSUME NEW x, NEW i \in Ids, Owned(x, i)
      PROVE  (x \in Titles => created'[x] = i) /\ (x = "seed" => i \in Seeds)
  <2>1. x # title BY <1>7, <1>8, IdsFinite DEF Owned
  <2>2. QED BY <1>7, <1>8, <2>1 DEF Owned
<1>9. RowsOwned'
  <2>1. ASSUME NEW i \in Ids PROVE Owned(table[i].title, i)'
    <3>1. Owned(table[i].title, i) BY <1>1 DEF RowsOwned
    <3>2. QED BY <1>8, <3>1 DEF Owned
  <2>2. ASSUME NEW i \in Ids PROVE Owned(mem[i].title, i)'
    <3>1. CASE i # n
      <4>1. Owned(mem[i].title, i) /\ mem'[i] = mem[i] BY <1>1, <1>6, <3>1 DEF RowsOwned
      <4>2. QED BY <1>8, <4>1 DEF Owned
    <3>2. CASE i = n BY <1>3, <1>6, <1>7, <3>2 DEF Owned
    <3>3. QED BY <3>1, <3>2
  <2>3. ASSUME NEW r \in loads' PROVE Owned(r.row.title, r.id)'
    <3>1. r.id \in Ids /\ Owned(r.row.title, r.id)
      BY <1>1, <2>3 DEF RowsOwned, ProposalsTypeOK
    <3>2. QED BY <1>8, <3>1 DEF Owned
  <2>4. ASSUME NEW v \in writes' PROVE Owned(v.row.title, v.id)'
    <3>1. CASE v = w BY <1>3, <1>4, <1>7, <3>1 DEF Owned
    <3>2. CASE v \in writes
      <4>1. v.id \in Ids /\ Owned(v.row.title, v.id)
        BY <1>1, <3>2 DEF RowsOwned, ProposalsTypeOK
      <4>2. QED BY <1>8, <4>1 DEF Owned
    <3>3. QED BY <1>5, <2>4, <3>1, <3>2
  <2>5. QED BY <2>1, <2>2, <2>3, <2>4 DEF RowsOwned
<1>10. RowsFound'
  <2>1. ASSUME NEW t \in Titles, created'[t] # 0
        PROVE  /\ useDb /\ t \notin lost =>
                    table[created'[t]] # NoRow \/ \E v \in writes' : v.row.title = t
               /\ restarts = 0 => mem'[created'[t]] # NoRow
    <3>1. CASE t = title
      <4>1. created'[t] = n BY <1>7, <3>1
      <4>2. QED BY <1>3, <1>4, <1>5, <1>6, <3>1, <4>1
    <3>2. CASE t # title
      <4>1. created'[t] = created[t] /\ created[t] \in Ids
        BY <1>1, <1>7, <2>1, <3>2, CreatedIds
      <4>2. restarts = 0 => mem'[created[t]] # NoRow
        BY <1>1, <1>3, <1>6, <2>1, <4>1 DEF RowsFound
      <4>3. \A v \in writes : v \in writes' BY <1>5
      <4>4. QED BY <1>1, <2>1, <4>1, <4>2, <4>3 DEF RowsFound
    <3>3. QED BY <3>1, <3>2
  <2>2. QED BY <2>1 DEF RowsFound
<1>11. PostsApart' BY <1>1 DEF PostsApart
<1>12. ASSUME NEW p \in posts' PROVE Passed(p)'
  <2>1. Passed(p) /\ p.title # title /\ {title, p.title} \in together /\ p.title \in Titles
    BY <1>1 DEF ProposalsTypeOK
  <2>2. created'[p.title] = 0 BY <1>7, <2>1 DEF Passed
  <2>3. \A t \in Titles : created'[t] # 0 /\ t \notin lost =>
          created'[t] <= p.last \/ {t, p.title} \in together \/ p.title \in blind'
    BY <1>7, <2>1 DEF Passed
  <2>4. {"seed", p.title} \notin together =>
          \A v \in writes' :
            v.row.title = "seed" /\ table[v.id].title \in {"none", "seed"} => v.id <= p.last
    BY <1>3, <1>4, <1>5, <2>1 DEF Passed
  <2>5. {"seed", p.title} \notin together =>
          \A id \in Ids : table[id].title = "seed" => id <= p.last
    BY <2>1 DEF Passed
  <2>6. QED BY <2>2, <2>3, <2>4, <2>5 DEF Passed
\* What was created before has another number, or an excuse.
<1>13. ASSUME NEW t \in Titles \ {title}, created[t] = n PROVE Excused(t, title)'
  <2>1. created[t] # 0 /\ ~(created[t] <= last) BY <1>2, <1>13
  <2>2. t \in lost \/ {t, title} \in together \/ title \in blind' BY <2>1 DEF Behind
  <2>3. QED BY <2>2 DEF Excused
<1>14. TitleKept(title)'
  <2>1. ASSUME NEW u \in Titles \ {title}, created'[u] = created'[title]
        PROVE  Excused(title, u)'
    <3>1. Excused(u, title)' BY <1>7, <1>13, <2>1
    <3>2. {u, title} = {title, u} OBVIOUS
    <3>3. QED BY <3>1, <3>2 DEF Excused
  <2>2. mem'[n].title = title BY <1>3, <1>6
  <2>3. ASSUME {title, "seed"} \notin together, Apart(title)' PROVE Listed(title, n)'
    <3>1. \A u \in Titles \ {title} : created[u] # n BY <1>7, <2>3 DEF Apart
    <3>2. {"seed", title} = {title, "seed"} OBVIOUS
    <3>3. /\ table[n].title # "seed"
          /\ table[n] = NoRow => \A v \in Upserts(n) : v.row.title # "seed"
      BY <1>2, <2>3, <3>2 DEF Behind
    <3>4. \A x \in Titles : ~Owned(x, n)
      BY <1>2, <1>7, <3>1 DEF Owned
    <3>5. table[n].title = "none"
      <4>1. table[n].title \in Titles \cup {"seed", "none"} BY <1>1, <1>2 DEF ProposalsTypeOK, Rows
      <4>2. Owned(table[n].title, n) BY <1>1, <1>2 DEF RowsOwned
      <4>3. QED BY <3>3, <3>4, <4>1, <4>2
    <3>6. table[n] = NoRow BY <1>1, <1>2, <3>5 DEF RowsShaped
    <3>7. Upserts(n) = {}
      <4>1. ASSUME NEW v \in Upserts(n) PROVE FALSE
        <5>1. v \in writes /\ v.id = n BY DEF Upserts
        <5>2. writes \subseteq [id : Ids, row : Rows] BY <1>1 DEF ProposalsTypeOK
        <5>3. v.row.title \in Titles \cup {"seed", "none"} /\ v.row.title # "none"
          BY <1>1, <5>1, <5>2 DEF Rows, RowsShaped
        <5>4. Owned(v.row.title, n) BY <1>1, <5>1 DEF RowsOwned
        <5>5. QED BY <3>3, <3>4, <3>6, <4>1, <5>3, <5>4
      <4>2. QED BY <4>1
    <3>8. Upserts(n)' = IF useDb THEN {w} ELSE {} BY <1>6, <3>7
    <3>9. QED BY <1>3, <1>4, <3>6, <3>8 DEF Listed
  <2>4. Listed(title, created[title])' <=> Listed(title, n)' BY <1>7 DEF Listed, Upserts
  <2>5. QED BY <1>7, <2>1, <2>2, <2>3, <2>4 DEF TitleKept
<1>15. ASSUME NEW t \in Titles \ {title}, created'[t] # 0 PROVE TitleKept(t)'
  <2>1. TitleKept(t) /\ created'[t] = created[t] /\ created[t] # 0
    BY <1>1, <1>7, <1>15 DEF TitlesKept
  <2>2. PICK id \in Ids : id = created[t] BY <1>1, <2>1, CreatedIds
  <2>3. ASSUME NEW u \in Titles \ {t}, created'[u] = created'[t] PROVE Excused(t, u)'
    <3>1. CASE u = title BY <1>7, <1>13, <2>1, <2>3, <3>1
    <3>2. CASE u # title
      <4>1. Excused(t, u) BY <1>7, <2>1, <2>3, <3>2 DEF TitleKept
      <4>2. QED BY <4>1, ExcusedStays
    <3>3. QED BY <3>1, <3>2
  <2>4. ~useDb /\ restarts = 0 => mem'[id].title = t
    <3>1. ASSUME ~useDb, restarts = 0 PROVE mem'[id].title = t
      <4>1. id <= last BY <2>1, <2>2, <3>1 DEF Behind
      <4>2. id # n BY <1>2, <4>1
      <4>3. QED BY <1>6, <2>1, <2>2, <3>1, <4>2 DEF TitleKept
    <3>2. QED BY <3>1
  <2>5. ASSUME t \notin lost, {t, "seed"} \notin together, Apart(t)' PROVE Listed(t, id)'
    <3>1. Apart(t)
      <4>1. ASSUME NEW u \in Titles \ {t} PROVE created[u] # created[t]
        <5>1. CASE u = title BY <1>7, <2>1, <5>1
        <5>2. CASE u # title BY <1>7, <2>1, <2>5, <5>2 DEF Apart
        <5>3. QED BY <5>1, <5>2
      <4>2. QED BY <4>1 DEF Apart
    <3>2. Listed(t, id) BY <2>1, <2>2, <2>5, <3>1 DEF TitleKept
    <3>3. id # n BY <1>7, <2>1, <2>2, <2>5 DEF Apart
    <3>4. Upserts(id)' = Upserts(id) BY <1>6, <3>3
    <3>5. QED BY <3>2, <3>4 DEF Listed
  <2>6. Listed(t, created[t])' <=> Listed(t, id)' BY <2>1, <2>2 DEF Listed, Upserts
  <2>7. created'[t] = id BY <2>1, <2>2
  <2>8. QED BY <2>3, <2>4, <2>5, <2>6, <2>7 DEF TitleKept
<1>16. TitlesKept' BY <1>14, <1>15 DEF TitlesKept
<1>17. QED BY <1>9, <1>10, <1>11, <1>12, <1>16 DEF ProposalsInv, TitlesInv

LEMMA PostInMemoryKeeps ==
  ASSUME ProposalsInv, NEW title \in Titles, PostInMemory(title) PROVE ProposalsInv'
<1> DEFINE last == LastId(Present(mem))
<1>1. /\ VotesInv /\ ProposalsTypeOK /\ RowsShaped /\ RowsOwned /\ RowsFound
      /\ mem \in [Ids -> Rows] /\ table \in [Ids -> Rows]
  BY DEF ProposalsInv, VotesInv, TitlesInv, ProposalsTypeOK
<1>2. /\ ~useDb /\ created[title] = 0 /\ Create(title, last)
      /\ blind' = IF restarts > 0 THEN blind \cup {title} ELSE blind
      /\ UNCHANGED <<useDb, loads, posts, table, failures, restarts, unsaved, together, lost>>
  BY DEF PostInMemory, Blinded
<1>3. last \in 0..MaxId /\ \A n \in Ids : n > last => mem[n] = NoRow BY <1>1, PresentFacts
<1>4. last = LastId(Present(mem)) OBVIOUS
<1> HIDE DEF last
<1>5. blind' \subseteq Titles /\ blind \subseteq blind' /\ posts = {}
  BY <1>1, <1>2 DEF ProposalsTypeOK, RowsShaped
<1>6. VotesInv' BY <1>1, <1>2, <1>3, <1>4, <1>5, CreateVotes
<1>7. ASSUME NEW t \in Titles, created[t] # 0, restarts = 0 PROVE created[t] <= last
  <2>1. mem[created[t]] # NoRow /\ created[t] \in Ids /\ created[t] \in Nat /\ last \in Nat
    <3>1. created[t] \in Ids BY <1>1, <1>7, CreatedIds
    <3>2. mem[created[t]] # NoRow BY <1>1, <1>7 DEF RowsFound
    <3>3. last \in Nat BY <1>3, SeedsAssumption
    <3>4. QED BY <3>1, <3>2, <3>3, IdsFinite
  <2>2. ~(created[t] > last) BY <1>3, <2>1
  <2>3. QED BY <2>1, <2>2
<1>8. last + 1 \in Ids /\ last + 1 \notin Seeds
  <2>1. last + 1 \in Ids /\ last + 1 > last BY <1>2, <1>3 DEF Create, NextId
  <2>2. mem[last + 1] = NoRow BY <1>3, <2>1
  <2>3. QED BY <1>1, <2>1, <2>2 DEF RowsShaped
<1>9. restarts = 0 \/ title \in blind' BY <1>1, <1>2 DEF ProposalsTypeOK
<1>10. Behind(title, last)
  <2>1. \A w \in Upserts(last + 1) : w.row.title # "seed"
    BY <1>1, <1>8 DEF Upserts, RowsOwned, Owned
  <2>2. table[last + 1].title # "seed" BY <1>1, <1>8 DEF RowsOwned, Owned
  <2>3. QED BY <1>2, <1>7, <1>9, <2>1, <2>2 DEF Behind
<1>11. QED BY <1>2, <1>3, <1>5, <1>6, <1>10, CreateTitles

LEMMA PostGoesOnKeeps ==
  ASSUME ProposalsInv, NEW p \in posts, PostGoesOn(p) PROVE ProposalsInv'
<1>1. /\ VotesInv /\ ProposalsTypeOK /\ RowsShaped /\ PostsApart /\ Passed(p)
      /\ p.title \in Titles /\ p.last \in 0..MaxId /\ useDb /\ blind \subseteq Titles
  BY DEF ProposalsInv, VotesInv, TitlesInv, ProposalsTypeOK, RowsShaped
<1>2. /\ Create(p.title, p.last) /\ posts' = posts \ {p}
      /\ UNCHANGED <<useDb, loads, table, failures, restarts, unsaved, together, blind, lost>>
  BY DEF PostGoesOn
<1>3. VotesInv' BY <1>1, <1>2, CreateVotes
<1>4. p.last + 1 \in Ids /\ ~(p.last + 1 <= p.last) /\ p.last \in Nat
  BY <1>1, <1>2, SeedsAssumption DEF Create, NextId
<1>5. Behind(p.title, p.last)
  <2>1. ASSUME {"seed", p.title} \notin together
        PROVE  /\ table[p.last + 1].title # "seed"
               /\ table[p.last + 1] = NoRow =>
                    \A w \in Upserts(p.last + 1) : w.row.title # "seed"
    <3>1. table[p.last + 1].title # "seed" BY <1>1, <1>4, <2>1 DEF Passed
    <3>2. ASSUME table[p.last + 1] = NoRow, NEW w \in Upserts(p.last + 1)
          PROVE  w.row.title # "seed"
      <4>1. w \in writes /\ w.id = p.last + 1 BY <3>2 DEF Upserts
      <4>2. table[w.id].title = "none" BY <3>2, <4>1, RowFacts
      <4>3. w.row.title = "seed" => w.id <= p.last BY <1>1, <2>1, <4>1, <4>2 DEF Passed
      <4>4. QED BY <1>4, <4>1, <4>3
    <3>3. QED BY <3>1, <3>2
  <2>2. QED BY <1>1, <1>2, <2>1 DEF Behind, Passed
<1>6. \A q \in posts' : q.title # p.title /\ {p.title, q.title} \in together
  BY <1>1, <1>2 DEF PostsApart
<1>7. QED BY <1>1, <1>2, <1>3, <1>5, <1>6, CreateTitles

\* A POST asks: its list shows every number in the table, or in a first
\* process's memory, and it is beside what is on its way.
LEMMA PostKeeps ==
  ASSUME ProposalsInv, NEW title \in Titles, Post(title) PROVE ProposalsInv'
<1>1. /\ VotesInv /\ ProposalsTypeOK /\ RowsShaped /\ RowsOwned /\ RowsFound /\ PostsApart
      /\ mem \in [Ids -> Rows] /\ table \in [Ids -> Rows]
  BY DEF ProposalsInv, VotesInv, TitlesInv, ProposalsTypeOK
<1>2. /\ useDb /\ created[title] = 0 /\ \A p \in posts : p.title # title
      /\ together' = together \cup Beside(title) /\ blind \subseteq blind'
      /\ blind' \subseteq blind \cup {title}
      /\ UNCHANGED <<useDb, mem, loads, table, writes, restarts, cast, created, raced, unsaved,
                     lost>>
      /\ \/ failures' = failures
         \/ failures < MaxFailures /\ failures' = failures + 1
  BY DEF Post, Blinded
<1>3. PICK last \in 0..MaxId :
        /\ posts' = posts \cup {[title |-> title, last |-> last]}
        /\ \/ last = LastId(Present(table))
           \/ last = LastId(Present(mem)) /\ (restarts > 0 => title \in blind')
  <2>1. LastId(Present(mem)) \in 0..MaxId /\ LastId(Present(table)) \in 0..MaxId
    BY <1>1, PresentFacts
  <2>2. QED BY <2>1 DEF Post, Blinded
<1> DEFINE new == [title |-> title, last |-> last]
<1>4. new.title = title /\ new.last = last /\ new \in [title : Titles, last : 0..MaxId]
  OBVIOUS
<1>5. posts' = posts \cup {new} BY <1>3
<1> HIDE DEF new
<1>6. ProposalsTypeOK'
  <2>1. failures' \in 0..MaxFailures BY <1>1, <1>2, LimitsAssumption DEF ProposalsTypeOK
  <2>2. together' \subseteq SUBSET (Titles \cup {"seed"})
    <3>1. Beside(title) \subseteq SUBSET (Titles \cup {"seed"}) BY <1>1, BesideTypes
    <3>2. QED BY <1>1, <1>2, <3>1 DEF ProposalsTypeOK
  <2>3. posts' \subseteq [title : Titles, last : 0..MaxId]
    BY <1>1, <1>4, <1>5 DEF ProposalsTypeOK
  <2>4. blind' \subseteq Titles BY <1>1, <1>2 DEF ProposalsTypeOK
  <2>5. QED BY <1>1, <1>2, <2>1, <2>2, <2>3, <2>4 DEF ProposalsTypeOK
<1>7. RowsShaped' BY <1>1, <1>2 DEF RowsShaped
<1>8. VotesInv'
  <2>1. \A i : Upserts(i)' = Upserts(i) BY <1>2 DEF Upserts
  <2>2. ASSUME NEW i \in Ids \ (Seeds \cup raced') PROVE VotesKept(i)'
    <3>1. VotesKept(i) BY <1>1, <1>2, <2>2 DEF VotesInv
    <3>2. QED BY <1>2, <2>1, <3>1, SameVotes
  <2>3. QED BY <1>6, <1>7, <2>2 DEF VotesInv
<1>9. RowsOwned' BY <1>1, <1>2 DEF RowsOwned, Owned
<1>10. RowsFound' /\ TitlesKept' /\ \A p \in posts : Passed(p)'
  <2>1. TitlesMove BY <1>1, <1>2 DEF TitlesMove
  <2>2. QED BY <1>6, <1>7, <1>9, <2>1, TitlesStay
<1>11. PostsApart'
  <2>1. ASSUME NEW p \in posts
        PROVE  /\ p.title # title /\ {title, p.title} \in together'
               /\ {p.title, title} \in together'
    <3>1. {title, p.title} \in together' BY <1>2 DEF Beside, Unlisted
    <3>2. {p.title, title} = {title, p.title} OBVIOUS
    <3>3. QED BY <1>2, <3>1, <3>2
  <2>2. QED BY <1>1, <1>2, <1>4, <1>5, <2>1 DEF PostsApart
<1>12. \/ \A n \in Ids : n > last => table[n] = NoRow
       \/ (\A n \in Ids : n > last => mem[n] = NoRow) /\ (restarts > 0 => title \in blind')
  BY <1>1, <1>3, PresentFacts
<1>13. last \in Nat BY <1>3, SeedsAssumption
<1>14. Passed(new)'
  <2>1. ASSUME NEW t \in Titles, created[t] # 0, t \notin lost
        PROVE  created[t] <= last \/ {t, title} \in together' \/ title \in blind'
    <3>1. created[t] \in Ids /\ created[t] \in Nat BY <1>1, <2>1, CreatedIds, IdsFinite
    <3>2. \/ table[created[t]] # NoRow
          \/ \E w \in writes : w.row.title = t /\ table[w.id] = NoRow
      <4>1. table[created[t]] # NoRow \/ \E w \in writes : w.row.title = t
        BY <1>1, <1>2, <2>1 DEF RowsFound
      <4>2. \A w \in writes : w.row.title = t => w.id = created[t]
        BY <1>1 DEF RowsOwned, Owned
      <4>3. QED BY <4>1, <4>2
    <3>3. CASE \E w \in writes : w.row.title = t /\ table[w.id] = NoRow
      <4>1. t \in Unlisted BY <3>3 DEF Unlisted
      <4>2. {title, t} \in together' /\ {title, t} = {t, title} BY <1>2, <4>1 DEF Beside
      <4>3. QED BY <4>2
    <3>4. CASE table[created[t]] # NoRow /\ \A n \in Ids : n > last => table[n] = NoRow
      BY <1>13, <3>1, <3>4
    <3>5. CASE (\A n \in Ids : n > last => mem[n] = NoRow) /\ (restarts > 0 => title \in blind')
      <4>1. restarts = 0 => mem[created[t]] # NoRow BY <1>1, <2>1 DEF RowsFound
      <4>2. restarts = 0 \/ restarts > 0 BY <1>1, LimitsAssumption DEF ProposalsTypeOK
      <4>3. QED BY <1>13, <3>1, <3>5, <4>1, <4>2
    <3>6. QED BY <1>12, <3>2, <3>3, <3>4, <3>5
  <2>2. ASSUME {"seed", title} \notin together'
        PROVE  /\ \A id \in Ids : table[id].title = "seed" => id <= last
               /\ \A w \in writes :
                    w.row.title = "seed" /\ table[w.id].title \in {"none", "seed"} => w.id <= last
    <3>1. "seed" \notin Unlisted
      <4>1. {title, "seed"} = {"seed", title} OBVIOUS
      <4>2. QED BY <1>2, <2>2, <4>1 DEF Beside
    <3>2. ASSUME NEW id \in Ids, table[id].title = "seed" PROVE id <= last
      <4>1. id \in Seeds BY <1>1, <3>2 DEF RowsOwned, Owned
      <4>2. mem[id] # NoRow /\ table[id] # NoRow BY <1>1, <3>2, <4>1, RowFacts DEF RowsShaped
      <4>3. ~(id > last) /\ id \in Nat BY <1>12, <3>2, <4>2, IdsFinite
      <4>4. QED BY <1>13, <4>3
    <3>3. ASSUME NEW w \in writes, w.row.title = "seed", table[w.id].title \in {"none", "seed"}
          PROVE  w.id <= last
      <4>1. w.id \in Ids BY <1>1 DEF ProposalsTypeOK
      <4>2. table[w.id] # NoRow BY <3>1, <3>3 DEF Unlisted
      <4>3. table[w.id].title = "seed" BY <1>1, <3>3, <4>1, <4>2 DEF RowsShaped
      <4>4. QED BY <3>2, <4>1, <4>3
    <3>4. QED BY <3>2, <3>3
  <2>3. QED BY <1>2, <1>4, <2>1, <2>2 DEF Passed
<1>15. \A p \in posts' : Passed(p)' BY <1>5, <1>10, <1>14
<1>16. TitlesInv' BY <1>9, <1>10, <1>11, <1>15 DEF TitlesInv
<1>17. QED BY <1>8, <1>16 DEF ProposalsInv

LEMMA WriteLandsKeeps ==
  ASSUME ProposalsInv, NEW w \in writes, WriteLands(w) PROVE ProposalsInv'
<1>1. VotesInv /\ ProposalsTypeOK /\ RowsShaped /\ RowsOwned /\ PostsApart
  BY DEF ProposalsInv, VotesInv, TitlesInv
<1>2. w.id \in Ids /\ w.row \in Rows /\ w.row.title # "none"
  BY <1>1 DEF ProposalsTypeOK, RowsShaped
<1>3. PICK id \in Ids : id = w.id BY <1>2
<1>4. /\ writes' = writes \ {w} /\ table' = [table EXCEPT ![id] = Merged(table[id], w.row)]
      /\ unsaved' = IF Overtakes(w) THEN unsaved \cup {id} ELSE unsaved
      /\ UNCHANGED <<useDb, mem, loads, posts, failures, restarts, cast, created, raced,
                     together, blind, lost>>
  BY <1>3 DEF WriteLands
<1>5. /\ table \in [Ids -> Rows] /\ table[id] \in Rows
      /\ table' \in [Ids -> Rows] /\ table'[id].votes = w.row.votes
      /\ table'[id].title = IF table[id] = NoRow THEN w.row.title ELSE table[id].title
      /\ \A i \in Ids \ {id} : table'[i] = table[i]
  <2>1. table \in [Ids -> Rows] /\ table[id] \in Rows BY <1>1 DEF ProposalsTypeOK
  <2>2. /\ Merged(table[id], w.row) \in Rows /\ Merged(table[id], w.row).votes = w.row.votes
        /\ Merged(table[id], w.row).title = IF table[id] = NoRow THEN w.row.title
                                                                 ELSE table[id].title
    BY <1>2, <2>1, MergedFacts
  <2>3. QED BY <1>4, <2>1, <2>2
<1>6. table'[id].title # "none" /\ table'[id] # NoRow
  BY <1>1, <1>2, <1>5, RowFacts DEF RowsShaped
<1>7. w \in Upserts(id) /\ Upserts(id)' = Upserts(id) \ {w}
      /\ \A i \in Ids \ {id} : Upserts(i)' = Upserts(i)
  BY <1>3, <1>4 DEF Upserts
<1>8. ProposalsTypeOK'
  <2>1. unsaved' \subseteq Ids /\ writes' \subseteq [id : Ids, row : Rows]
    BY <1>1, <1>4 DEF ProposalsTypeOK
  <2>2. QED BY <1>1, <1>4, <1>5, <2>1 DEF ProposalsTypeOK
<1>9. RowsShaped'
  <2>1. \A i \in Ids : table'[i].title = "none" => table'[i] = NoRow
    BY <1>1, <1>5, <1>6 DEF RowsShaped
  <2>2. ASSUME NEW r \in loads, r.row # NoRow PROVE table'[r.id] # NoRow
    <3>1. r.id \in Ids /\ table[r.id] # NoRow
      BY <1>1, <2>2 DEF RowsShaped, ProposalsTypeOK
    <3>2. QED BY <1>5, <1>6, <3>1
  <2>3. QED BY <1>1, <1>4, <2>1, <2>2 DEF RowsShaped
<1>10. TitlesInv'
  <2>1. Owned(w.row.title, id) /\ Owned(table[id].title, id)
    BY <1>1, <1>3 DEF RowsOwned
  <2>2. Owned(table'[id].title, id) BY <1>5, <2>1
  <2>3. \A i \in Ids : Owned(table'[i].title, i) BY <1>1, <1>5, <2>2 DEF RowsOwned
  <2>4. RowsOwned' /\ PostsApart' BY <1>1, <1>4, <2>3 DEF RowsOwned, Owned, PostsApart
  <2>5. TitlesMove
    <3>1. \A v \in writes : v \in writes' \/ table'[v.id] # NoRow BY <1>3, <1>4, <1>6
    <3>2. QED BY <1>3, <1>4, <1>5, <3>1 DEF TitlesMove
  <2>6. QED BY <1>4, <1>8, <1>9, <2>4, <2>5, TitlesStay DEF TitlesInv
<1>11. ASSUME NEW i \in Ids \ (Seeds \cup raced') PROVE VotesKept(i)'
  <2>1. VotesKept(i) BY <1>1, <1>4, <1>11 DEF VotesInv
  <2>2. CASE i # id
    <3>1. i \in unsaved' <=> i \in unsaved BY <1>4, <2>2
    <3>2. QED BY <1>4, <1>5, <1>7, <1>11, <2>1, <2>2, <3>1, SameVotes
  <2>3. CASE i = id
    <3>1. mem[id] # NoRow BY <1>7, <2>1, <2>3 DEF VotesKept
    <3>2. mem[id].votes = cast[id] BY <2>1, <2>3, <3>1 DEF VotesKept
    <3>3. ASSUME useDb, id \notin unsaved' PROVE RowUpToDate(id)'
      <4>1. RowUpToDate(id) /\ ~Overtakes(w) BY <1>4, <2>1, <2>3, <3>3 DEF VotesKept
      <4>2. \A v \in Upserts(id) : v.row.votes \in Nat
        BY <1>1 DEF ProposalsTypeOK, Upserts, Rows
      <4>3. table[id].votes \in Nat /\ cast[id] \in Nat
        <5>1. cast[id] \in Nat BY <1>1, LimitsAssumption DEF ProposalsTypeOK
        <5>2. QED BY <1>5, <5>1 DEF Rows
      <4>4. \A v \in Upserts(id)' : w.row.votes <= v.row.votes
        <5>1. ASSUME NEW v \in Upserts(id)' PROVE w.row.votes <= v.row.votes
          <6>1. v \in writes \ {w} /\ v.id = w.id /\ v \in Upserts(id)
            BY <1>3, <1>7, <5>1 DEF Upserts
          <6>2. ~(v.row.votes < w.row.votes) BY <4>1, <6>1 DEF Overtakes
          <6>3. QED BY <1>7, <4>2, <6>1, <6>2
        <5>2. QED BY <5>1
      <4>5. \A v \in Upserts(id)' : v.row.votes <= cast'[id]
        BY <1>4, <1>7, <4>1 DEF RowUpToDate
      <4>6. table'[id].votes = cast'[id] \/ \E v \in Upserts(id)' : v.row.votes = cast'[id]
        <5>1. CASE table[id].votes = cast[id]
          <6>1. table[id].votes <= w.row.votes /\ w.row.votes <= cast[id]
            BY <1>7, <4>1 DEF RowUpToDate
          <6>2. w.row.votes = cast[id] BY <1>7, <4>2, <4>3, <5>1, <6>1
          <6>3. QED BY <1>4, <1>5, <6>2
        <5>2. CASE \E v \in Upserts(id) : v.row.votes = cast[id]
          <6>1. PICK v \in Upserts(id) : v.row.votes = cast[id] BY <5>2
          <6>2. v = w \/ v \in Upserts(id)' BY <1>7
          <6>3. QED BY <1>4, <1>5, <6>1, <6>2
        <5>3. QED BY <4>1, <5>1, <5>2 DEF RowUpToDate
      <4>7. QED BY <1>5, <4>4, <4>5, <4>6 DEF RowUpToDate
    <3>4. QED BY <1>4, <2>3, <3>1, <3>2, <3>3 DEF VotesKept
  <2>4. QED BY <2>2, <2>3
<1>12. QED BY <1>8, <1>9, <1>10, <1>11 DEF ProposalsInv, VotesInv

LEMMA WriteFailsKeeps ==
  ASSUME ProposalsInv, NEW w \in writes, WriteFails(w) PROVE ProposalsInv'
<1>1. VotesInv /\ ProposalsTypeOK /\ RowsShaped /\ RowsOwned /\ PostsApart
  BY DEF ProposalsInv, VotesInv, TitlesInv
<1>2. PICK id \in Ids : id = w.id BY <1>1 DEF ProposalsTypeOK
<1>3. /\ writes' = writes \ {w} /\ unsaved' = unsaved \cup {id}
      /\ lost' = IF table[id] = NoRow THEN lost \cup {w.row.title} ELSE lost
      /\ failures < MaxFailures /\ failures' = failures + 1
      /\ UNCHANGED <<useDb, mem, loads, posts, table, restarts, cast, created, raced,
                     together, blind>>
  BY <1>2 DEF WriteFails
<1>4. w \in Upserts(id) /\ \A i \in Ids \ {id} : Upserts(i)' = Upserts(i)
  BY <1>2, <1>3 DEF Upserts
<1>5. ProposalsTypeOK'
  <2>1. failures' \in 0..MaxFailures BY <1>1, <1>3, LimitsAssumption DEF ProposalsTypeOK
  <2>2. w.row.title \in Titles \cup {"seed"}
    <3>1. w.row \in Rows /\ w.row.title # "none" BY <1>1 DEF ProposalsTypeOK, RowsShaped
    <3>2. QED BY <3>1 DEF Rows
  <2>3. QED BY <1>1, <1>3, <2>1, <2>2 DEF ProposalsTypeOK
<1>6. RowsShaped' BY <1>1, <1>3 DEF RowsShaped
<1>7. TitlesInv'
  <2>1. RowsOwned' /\ PostsApart' BY <1>1, <1>3 DEF RowsOwned, Owned, PostsApart
  <2>2. TitlesMove
    <3>1. \A v \in writes : v \in writes' \/ table[v.id] # NoRow \/ v.row.title \in lost'
      BY <1>2, <1>3
    <3>2. QED BY <1>3, <3>1 DEF TitlesMove
  <2>3. QED BY <1>3, <1>5, <1>6, <2>1, <2>2, TitlesStay DEF TitlesInv
<1>8. ASSUME NEW i \in Ids \ (Seeds \cup raced') PROVE VotesKept(i)'
  <2>1. VotesKept(i) BY <1>1, <1>3, <1>8 DEF VotesInv
  <2>2. CASE i # id
    <3>1. i \in unsaved' <=> i \in unsaved BY <1>3, <2>2
    <3>2. QED BY <1>3, <1>4, <1>8, <2>1, <2>2, <3>1, SameVotes
  <2>3. CASE i = id
    <3>1. mem[id] # NoRow BY <1>4, <2>1, <2>3 DEF VotesKept
    <3>2. QED BY <1>3, <2>1, <2>3, <3>1 DEF VotesKept
  <2>4. QED BY <2>2, <2>3
<1>9. QED BY <1>5, <1>6, <1>7, <1>8 DEF ProposalsInv, VotesInv

LEMMA SeedRowsFacts ==
  /\ SeedRows \in [Ids -> Rows]
  /\ \A i \in Ids : SeedRows[i].title = "none" => SeedRows[i] = NoRow
  /\ \A i \in Ids \ Seeds : SeedRows[i] = NoRow
  /\ \A i \in Seeds : SeedRows[i] # NoRow
  /\ \A i \in Ids : SeedRows[i].title = IF i \in Seeds THEN "seed" ELSE "none"
BY RowFacts, IdsFinite DEF SeedRows

LEMMA ServerRestartsKeeps ==
  ASSUME ProposalsInv, ServerRestarts PROVE ProposalsInv'
<1>1. /\ VotesInv /\ ProposalsTypeOK /\ RowsShaped /\ RowsOwned /\ TitlesKept
  BY DEF ProposalsInv, VotesInv, TitlesInv
<1>2. /\ restarts < MaxRestarts /\ restarts' = restarts + 1
      /\ mem' = SeedRows /\ loads' = {} /\ posts' = {} /\ writes' \subseteq writes
      /\ raced' = IF useDb /\ useDb' THEN raced \cup unsaved \cup {w.id : w \in writes} ELSE Ids
      /\ UNCHANGED <<table, cast, created, unsaved, together, blind>>
      /\ useDb' \in BOOLEAN
      /\ \/ failures' = failures
         \/ failures < MaxFailures /\ failures' = failures + 1
      /\ lost' = lost \cup {t \in Titles : /\ created[t] # 0 /\ table[created[t]] = NoRow
                                           /\ \A w \in writes' : w.row.title # t}
  BY DEF ServerRestarts
<1>3. ProposalsTypeOK'
  <2>1. failures' \in 0..MaxFailures /\ restarts' \in 0..MaxRestarts
    BY <1>1, <1>2, LimitsAssumption DEF ProposalsTypeOK
  <2>2. raced' \subseteq Ids BY <1>1, <1>2 DEF ProposalsTypeOK
  <2>3. lost' \subseteq Titles \cup {"seed"} BY <1>1, <1>2 DEF ProposalsTypeOK
  <2>4. QED BY <1>1, <1>2, <2>1, <2>2, <2>3, SeedRowsFacts DEF ProposalsTypeOK
<1>4. RowsShaped' BY <1>1, <1>2, SeedRowsFacts DEF RowsShaped
<1>5. ASSUME NEW i \in Ids \ (Seeds \cup raced') PROVE VotesKept(i)'
  <2>1. useDb /\ useDb' /\ i \notin raced \cup unsaved /\ i \notin {w.id : w \in writes}
    BY <1>2, <1>5
  <2>2. VotesKept(i) /\ Upserts(i) = {} /\ Upserts(i)' = {}
    BY <1>1, <1>2, <1>5, <2>1 DEF VotesInv, Upserts
  <2>3. mem'[i] = NoRow BY <1>2, <1>5, SeedRowsFacts
  <2>4. RowUpToDate(i) BY <2>1, <2>2 DEF VotesKept
  <2>5. RowUpToDate(i)' BY <1>2, <2>2, <2>4 DEF RowUpToDate
  <2>6. QED BY <1>2, <2>1, <2>2, <2>3, <2>5 DEF VotesKept
<1>6. RowsOwned'
  <2>1. \A i \in Ids : Owned(mem'[i].title, i)
    BY <1>2, SeedRowsFacts, TitlesAssumption DEF Owned
  <2>2. QED BY <1>1, <1>2, <2>1 DEF RowsOwned, Owned
<1>7. restarts' # 0 BY <1>1, <1>2, LimitsAssumption DEF ProposalsTypeOK
<1>8. \A t \in Titles : created[t] # 0 /\ t \notin lost' =>
        table[created[t]] # NoRow \/ \E w \in writes' : w.row.title = t
  BY <1>2
<1>9. RowsFound' BY <1>2, <1>7, <1>8 DEF RowsFound
<1>10. ASSUME NEW t \in Titles, created[t] # 0 PROVE TitleKept(t)'
  <2>1. TitleKept(t) BY <1>1, <1>10 DEF TitlesKept
  <2>2. PICK id \in Ids : id = created[t] BY <1>1, <1>10, CreatedIds
  <2>3. together \subseteq together' /\ blind \subseteq blind' /\ lost \subseteq lost'
    BY <1>2
  <2>4. ASSUME NEW u \in Titles \ {t}, created[u] = created[t] PROVE Excused(t, u)'
    <3>1. Excused(t, u) BY <2>1, <2>4 DEF TitleKept
    <3>2. QED BY <2>3, <3>1, ExcusedStays
  <2>5. ASSUME t \notin lost', {t, "seed"} \notin together, Apart(t) PROVE Listed(t, id)'
    <3>1. Listed(t, id) BY <2>1, <2>2, <2>3, <2>5 DEF TitleKept
    <3>2. CASE table[id] # NoRow BY <1>2, <3>1, <3>2 DEF Listed
    <3>3. CASE table[id] = NoRow
      <4>1. \A w \in Upserts(id) : w.row.title = t
        <5>1. t # "none" BY RowFacts
        <5>2. QED BY <3>1, <3>3, <5>1, RowFacts DEF Listed
      <4>2. Upserts(id)' \subseteq Upserts(id) BY <1>2 DEF Upserts
      <4>3. PICK w \in writes' : w.row.title = t BY <1>8, <1>10, <2>2, <2>5, <3>3
      <4>4. w.id = id BY <1>6, <1>2, <2>2, <4>3 DEF RowsOwned, Owned
      <4>5. Upserts(id)' # {} BY <4>3, <4>4 DEF Upserts
      <4>6. \A v \in Upserts(id)' : v.row.title = t BY <4>1, <4>2
      <4>7. QED BY <1>2, <3>3, <4>5, <4>6 DEF Listed
    <3>4. QED BY <3>2, <3>3
  <2>6. Apart(t)' <=> Apart(t) BY <1>2 DEF Apart
  <2>7. created'[t] = id BY <1>2, <2>2
  <2>8. Listed(t, created[t])' <=> Listed(t, id)' BY <2>7 DEF Listed, Upserts
  <2>9. QED BY <1>2, <1>7, <2>2, <2>4, <2>5, <2>6, <2>8 DEF TitleKept
<1>11. TitlesKept' BY <1>2, <1>10 DEF TitlesKept
<1>12. PostsApart' /\ \A p \in posts' : Passed(p)' BY <1>2 DEF PostsApart
<1>13. QED BY <1>3, <1>4, <1>5, <1>6, <1>9, <1>11, <1>12
            DEF ProposalsInv, VotesInv, TitlesInv

LEMMA ProposalsInitially == ProposalsInit => ProposalsInv
<1> SUFFICES ASSUME ProposalsInit PROVE ProposalsInv OBVIOUS
<1>1. /\ mem = SeedRows /\ table = [id \in Ids |-> NoRow]
      /\ loads = {} /\ posts = {} /\ writes = {} /\ raced = {} /\ unsaved = {}
      /\ cast = [id \in Ids |-> 0] /\ created = [t \in Titles |-> 0]
      /\ useDb \in BOOLEAN /\ together = {} /\ blind = {} /\ lost = {}
      /\ failures = 0 /\ restarts = 0
  BY DEF ProposalsInit
<1>2. ProposalsTypeOK
  <2>1. 0 \in 0..MaxVotes /\ 0 \in 0..MaxId /\ 0 \in 0..MaxFailures /\ 0 \in 0..MaxRestarts
    BY LimitsAssumption, SeedsAssumption
  <2>2. table \in [Ids -> Rows] BY <1>1, RowFacts
  <2>3. QED BY <1>1, <2>1, <2>2, SeedRowsFacts DEF ProposalsTypeOK
<1>3. RowsShaped BY <1>1, SeedRowsFacts DEF RowsShaped
<1>4. TitlesInv
  <2>1. RowsOwned
    <3>1. \A i \in Ids : Owned(mem[i].title, i)
      BY <1>1, SeedRowsFacts, TitlesAssumption DEF Owned
    <3>2. \A i \in Ids : Owned(table[i].title, i)
      BY <1>1, RowFacts, TitlesAssumption DEF Owned
    <3>3. QED BY <1>1, <3>1, <3>2 DEF RowsOwned
  <2>2. QED BY <1>1, <2>1 DEF TitlesInv, RowsFound, PostsApart, TitlesKept
<1>5. ASSUME NEW i \in Ids \ (Seeds \cup raced) PROVE VotesKept(i)
  <2>1. mem[i] = NoRow /\ table[i] = NoRow /\ cast[i] = 0 /\ Upserts(i) = {}
    BY <1>1, <1>5, SeedRowsFacts DEF Upserts
  <2>2. QED BY <1>1, <2>1, RowFacts DEF VotesKept, RowUpToDate
<1>6. QED BY <1>2, <1>3, <1>4, <1>5 DEF ProposalsInv, VotesInv

LEMMA ProposalsKeep == ProposalsInv /\ [ProposalsNext]_proposalVars => ProposalsInv'
<1> SUFFICES ASSUME ProposalsInv, [ProposalsNext]_proposalVars PROVE ProposalsInv' OBVIOUS
<1>1. CASE ProposalsNext
  BY <1>1, VoteInMemoryKeeps, LoadKeeps, LoadGoesOnKeeps, PostInMemoryKeeps, PostKeeps,
     PostGoesOnKeeps, WriteLandsKeeps, WriteFailsKeeps, ServerRestartsKeeps DEF ProposalsNext
<1>2. CASE UNCHANGED proposalVars
  <2>1. VotesInv'
    BY <1>2 DEF proposalVars, ProposalsInv, VotesInv, ProposalsTypeOK, RowsShaped, VotesKept,
                RowUpToDate, Upserts
  <2>2. TitlesInv'
    BY <1>2 DEF proposalVars, ProposalsInv, TitlesInv, RowsOwned, Owned, RowsFound, PostsApart,
                TitlesKept, TitleKept, Excused, Apart, Listed, Upserts, Passed
  <2>3. QED BY <2>1, <2>2 DEF ProposalsInv
<1>3. QED BY <1>1, <1>2

LEMMA ProposalsInvCounts == ProposalsInv => VotesCount
<1> SUFFICES ASSUME ProposalsInv, NEW id \in Ids \ (Seeds \cup raced)
             PROVE  /\ mem[id] # NoRow => mem[id].votes = cast[id]
                    /\ (useDb /\ id \notin unsaved /\ \A w \in writes : w.id # id)
                         => table[id].votes = cast[id]
  BY DEF VotesCount
<1>1. VotesKept(id) BY DEF ProposalsInv, VotesInv
<1>2. (\A w \in writes : w.id # id) => Upserts(id) = {} BY DEF Upserts
<1>3. QED BY <1>1, <1>2 DEF VotesKept, RowUpToDate

LEMMA ProposalsInvKeeps == ProposalsInv => ProposalsKept
<1> SUFFICES ASSUME ProposalsInv, NEW t \in Titles, created[t] # 0
             PROVE  /\ \A u \in Titles \ {t} : created[u] = created[t] => Excused(t, u)
                    /\ ~useDb /\ restarts = 0 => mem[created[t]].title = t
                    /\ /\ useDb /\ t \notin lost /\ {t, "seed"} \notin together
                       /\ \A u \in Titles \ {t} : created[u] # created[t]
                       /\ \A w \in writes : w.id # created[t]
                       => table[created[t]].title = t
  BY DEF ProposalsKept
<1>1. TitleKept(t) BY DEF ProposalsInv, TitlesInv, TitlesKept
<1>2. (\A w \in writes : w.id # created[t]) => Upserts(created[t]) = {} BY DEF Upserts
<1>3. QED BY <1>1, <1>2 DEF TitleKept, Apart, Listed
-----------------------------------------------------------------------------
(***************************************************************************)
(* The oracle contract: the median of any list of prices is in its middle, *)
(* since the insertion sort permutes the list and orders it; and get_price *)
(* answers by the feeds and the breaker.  The breaker is up only by hand:  *)
(* the ledger forgets what a failed read wrote.                            *)
(***************************************************************************)
Positive == Nat \ {0}

LEMMA AppendedSet ==
  ASSUME NEW S, NEW s \in Seq(S), NEW e \in S
  PROVE  Append(s, e) \in Seq(S) /\ ToSet(Append(s, e)) = ToSet(s) \cup {e}
<1>1. /\ Append(s, e) \in Seq(S) /\ Len(Append(s, e)) = Len(s) + 1 /\ Len(s) \in Nat
      /\ \A i \in 1..Len(s) : Append(s, e)[i] = s[i]
      /\ Append(s, e)[Len(s) + 1] = e
  OBVIOUS
<1>2. DOMAIN s = 1..Len(s) /\ DOMAIN Append(s, e) = 1..(Len(s) + 1) BY <1>1
<1>3. ToSet(Append(s, e)) \subseteq ToSet(s) \cup {e}
  <2>1. ASSUME NEW i \in 1..(Len(s) + 1)
        PROVE Append(s, e)[i] \in {s[j] : j \in 1..Len(s)} \cup {e}
    <3>1. CASE i = Len(s) + 1 BY <1>1, <3>1
    <3>2. CASE i # Len(s) + 1
      <4>1. i \in 1..Len(s) BY <1>1, <3>2
      <4>2. QED BY <1>1, <4>1
    <3>3. QED BY <3>1, <3>2
  <2>2. QED BY <1>2, <2>1 DEF ToSet
<1>4. ToSet(s) \cup {e} \subseteq ToSet(Append(s, e))
  <2>1. \A i \in 1..Len(s) : i \in 1..(Len(s) + 1) BY <1>1
  <2>2. Len(s) + 1 \in 1..(Len(s) + 1) BY <1>1
  <2>3. QED BY <1>1, <1>2, <2>1, <2>2 DEF ToSet
<1>5. QED BY <1>1, <1>3, <1>4

Counts(f) == quotes[f].price > 0 /\ quotes[f].age <= MaxStaleness

\* The prices kept are those of the list that count.
LEMMA FreshFacts ==
  ASSUME OracleTypeOK
  PROVE  FreshPrices \in Seq(Positive) /\ ToSet(FreshPrices) = Said
<1> DEFINE N == Len(feeds)
           F(f) == [i \in 0..N |->
                     IF i = 0 THEN <<>>
                     ELSE LET quote == quotes[feeds[i]]
                          IN  IF quote.price > 0 /\ quote.age <= MaxStaleness
                              THEN Append(f[i - 1], quote.price) ELSE f[i - 1]]
           fresh == CHOOSE f : f = F(f)
           step == [i \in 1..N |-> [s \in Seq(Positive) |->
                     IF Counts(feeds[i]) THEN Append(s, quotes[feeds[i]].price) ELSE s]]
<1>1. /\ N \in Nat /\ DOMAIN feeds = 1..N
      /\ \A i \in 1..N : feeds[i] \in Feeds
                         /\ (Counts(feeds[i]) => quotes[feeds[i]].price \in Positive)
  <2>1. N \in Nat /\ DOMAIN feeds = 1..N /\ \A i \in 1..N : feeds[i] \in Feeds
    BY DEF OracleTypeOK
  <2>2. \A f \in Feeds : quotes[f].price \in Int BY OracleAssumption DEF OracleTypeOK
  <2>3. QED BY <2>1, <2>2 DEF Counts, Positive
<1>2. FreshPrices = fresh[N] BY DEF FreshPrices
<1>3. step \in [1..N -> [Seq(Positive) -> Seq(Positive)]]
  <2>1. ASSUME NEW i \in 1..N, NEW s \in Seq(Positive)
        PROVE (IF Counts(feeds[i]) THEN Append(s, quotes[feeds[i]].price) ELSE s)
                \in Seq(Positive)
    BY <1>1, AppendedSet
  <2> HIDE DEF N
  <2>2. QED BY <2>1
<1>4. \E f \in [0..N -> Seq(Positive)] : BuiltUp(f, N, <<>>, step)
  <2>1. <<>> \in Seq(Positive) OBVIOUS
  <2> HIDE DEF step, N
  <2>2. QED BY <1>1, <1>3, <2>1, RecursionUpTo, Zenon
<1>5. PICK g \in [0..N -> Seq(Positive)] :
        g = [i \in 0..N |-> IF i = 0 THEN <<>> ELSE step[i][g[i - 1]]]
  BY <1>4 DEF BuiltUp
<1>6. g = F(g)
  <2>1. ASSUME NEW i \in 0..N PROVE g[i] = F(g)[i]
    <3>1. CASE i = 0 BY <1>5, <3>1
    <3>2. CASE i # 0
      <4>1. i \in 1..N /\ i - 1 \in 0..N BY <1>1, <3>2
      <4>2. g[i - 1] \in Seq(Positive) BY <1>5, <4>1
      <4>3. g[i] = step[i][g[i - 1]] BY <1>5, <3>2
      <4>4. g[i] = IF Counts(feeds[i]) THEN Append(g[i - 1], quotes[feeds[i]].price)
                                       ELSE g[i - 1]
        BY <4>1, <4>2, <4>3
      <4>5. QED BY <3>2, <4>4 DEF Counts
    <3>3. QED BY <3>1, <3>2
  <2>2. QED BY <1>5, <2>1
<1>7. fresh = F(fresh)
  <2> HIDE DEF F
  <2>1. QED BY <1>6
<1> HIDE DEF fresh, N
<1>8. ASSUME NEW i \in 1..N
       PROVE fresh[i] = IF Counts(feeds[i])
                        THEN Append(fresh[i - 1], quotes[feeds[i]].price) ELSE fresh[i - 1]
  <2>1. i \in 0..N /\ i # 0 BY <1>1
  <2>2. QED BY <1>7, <2>1 DEF Counts
<1> DEFINE said(n) == {quotes[feeds[i]].price : i \in {j \in 1..n : Counts(feeds[j])}}
           T == {n \in Nat : n <= N => fresh[n] \in Seq(Positive) /\ ToSet(fresh[n]) = said(n)}
<1>9. said(0) = {} OBVIOUS
<1>10. ASSUME NEW n \in Nat
      PROVE said(n + 1) = IF Counts(feeds[n + 1])
                          THEN said(n) \cup {quotes[feeds[n + 1]].price} ELSE said(n)
  <2>1. 1..(n + 1) = (1..n) \cup {n + 1} OBVIOUS
  <2>2. QED BY <2>1
<1>11. said(N) = Said BY <1>1 DEF Said, Counts, N
<1> HIDE DEF said
<1>12. 0 \in T
  <2>1. fresh[0] = <<>> BY <1>1, <1>7
  <2>2. ToSet(<<>>) = {} BY DEF ToSet
  <2>3. <<>> \in Seq(Positive) OBVIOUS
  <2>4. fresh[0] \in Seq(Positive) /\ ToSet(fresh[0]) = said(0) BY <1>9, <2>1, <2>2, <2>3
  <2> HIDE DEF fresh
  <2>5. QED BY <2>4
<1>13. ASSUME NEW n \in T PROVE n + 1 \in T
  <2> n \in Nat OBVIOUS
  <2>1. SUFFICES ASSUME n + 1 <= N
                 PROVE fresh[n + 1] \in Seq(Positive) /\ ToSet(fresh[n + 1]) = said(n + 1)
    OBVIOUS
  <2>2. n \in Nat /\ n + 1 \in 1..N /\ n + 1 # 0 /\ (n + 1) - 1 = n BY <1>1, <2>1
  <2>3. fresh[n] \in Seq(Positive) /\ ToSet(fresh[n]) = said(n) BY <1>1, <2>1, <2>2
  <2>4. fresh[n + 1] = IF Counts(feeds[n + 1])
                       THEN Append(fresh[n], quotes[feeds[n + 1]].price) ELSE fresh[n]
    BY <1>8, <2>2
  <2>5. CASE Counts(feeds[n + 1])
    <3>1. quotes[feeds[n + 1]].price \in Positive BY <1>1, <2>2, <2>5
    <3>2. /\ Append(fresh[n], quotes[feeds[n + 1]].price) \in Seq(Positive)
          /\ ToSet(Append(fresh[n], quotes[feeds[n + 1]].price))
               = said(n) \cup {quotes[feeds[n + 1]].price}
      BY <2>3, <3>1, AppendedSet
    <3>3. QED BY <1>10, <2>2, <2>4, <2>5, <3>2
  <2>6. CASE ~Counts(feeds[n + 1]) BY <1>10, <2>2, <2>3, <2>4, <2>6
  <2>7. QED BY <2>5, <2>6
<1>14. T = Nat
  <2>1. T \in SUBSET Nat OBVIOUS
  <2> HIDE DEF T
  <2>2. QED BY <1>12, <1>13, <2>1, Induction
<1>15. fresh[N] \in Seq(Positive) /\ ToSet(fresh[N]) = said(N)
  <2>1. N \in T BY <1>1, <1>14
  <2>2. N <= N BY <1>1
  <2>3. QED BY <2>1, <2>2
<1>16. QED BY <1>2, <1>11, <1>15
\* Where the key of an insertion goes: behind the last entry that is not larger.
Place(s, key) == Max({0} \cup {j \in DOMAIN s : s[j] <= key})

LEMMA PlaceFacts ==
  ASSUME NEW s \in Seq(Positive), NEW key \in Positive
  PROVE  LET n == Len(s)
             k == Place(s, key)
         IN  /\ n \in Nat /\ k \in 0..n
             /\ k # 0 => s[k] <= key
             /\ \A j \in 1..n : j > k => s[j] > key
             /\ Inserted(s, key) \in [1..(n + 1) -> Positive]
             /\ \A j \in 1..k : Inserted(s, key)[j] = s[j]
             /\ Inserted(s, key)[k + 1] = key
             /\ \A j \in (k + 2)..(n + 1) : Inserted(s, key)[j] = s[j - 1]
<1> DEFINE n == Len(s)
           S == {0} \cup {j \in DOMAIN s : s[j] <= key}
           k == Max(S)
           t == [j \in 1..(n + 1) |-> IF j <= k THEN s[j]
                                      ELSE IF j = k + 1 THEN key ELSE s[j - 1]]
<1>1. n \in Nat /\ DOMAIN s = 1..n /\ \A j \in 1..n : s[j] \in Positive OBVIOUS
<1>2. \E x \in S : \A y \in S : y <= x
  <2>1. S \subseteq 0..n BY <1>1
  <2>2. IsFiniteSet(0..n) BY <1>1, FS_Interval
  <2>3. IsFiniteSet(S)
    <3> HIDE DEF S
    <3>1. QED BY <2>1, <2>2, FS_Subset
  <2>4. S \in SUBSET Int /\ S # {} BY <1>1
  <2> HIDE DEF S
  <2>5. QED BY <2>3, <2>4, Greatest
<1>3. k \in S /\ \A y \in S : y <= k
  <2> HIDE DEF S
  <2>1. \E x \in S : \A y \in S : x >= y BY <1>1, <1>2
  <2>2. QED BY <2>1 DEF Max
<1>4. k \in 0..n /\ (k # 0 => s[k] <= key) BY <1>1, <1>3
<1>5. \A j \in 1..n : j > k => s[j] > key
  <2>1. ASSUME NEW j \in 1..n, j > k, s[j] <= key PROVE FALSE
    <3>1. j \in S BY <1>1, <2>1
    <3>2. j <= k BY <1>3, <3>1
    <3>3. QED BY <1>4, <2>1, <3>2
  <2> key \in Int /\ \A j \in 1..n : s[j] \in Int BY <1>1 DEF Positive
  <2>2. QED BY <2>1
<1>6. k = Place(s, key) /\ t = Inserted(s, key)
  BY DEF Place, Inserted
<1> HIDE DEF k
<1>7. t \in [1..(n + 1) -> Positive]
  <2>1. ASSUME NEW j \in 1..(n + 1)
        PROVE (IF j <= k THEN s[j] ELSE IF j = k + 1 THEN key ELSE s[j - 1]) \in Positive
    <3>1. CASE j <= k
      <4>1. j \in 1..n BY <1>1, <1>4, <3>1
      <4>2. QED BY <1>1, <3>1, <4>1
    <3>2. CASE j > k /\ j # k + 1
      <4>1. j - 1 \in 1..n BY <1>1, <1>4, <3>2
      <4>2. ~(j <= k) BY <1>4, <3>2
      <4>3. QED BY <1>1, <3>2, <4>1, <4>2
    <3>3. CASE j = k + 1
      <4>1. ~(j <= k) BY <1>4, <3>3
      <4>2. QED BY <3>3, <4>1
    <3>4. QED BY <1>4, <3>1, <3>2, <3>3
  <2>2. QED BY <2>1
<1>8. /\ \A j \in 1..k : t[j] = s[j]
      /\ t[k + 1] = key
      /\ \A j \in (k + 2)..(n + 1) : t[j] = s[j - 1]
  BY <1>1, <1>4
<1> HIDE DEF t
<1>9. QED BY <1>1, <1>4, <1>5, <1>6, <1>7, <1>8

\* The first n prices, ordered: nothing is lost and nothing is added.
Ordered(s, n, prices) ==
  /\ s \in Seq(Positive) /\ Len(s) = n
  /\ \A i, j \in 1..n : i <= j => s[i] <= s[j]
  /\ \E pi \in Bijection(1..n, 1..n) : \A i \in 1..n : s[i] = prices[pi[i]]

LEMMA InsertedKeeps ==
  ASSUME NEW prices, NEW n \in Nat, NEW s, Ordered(s, n, prices), prices[n + 1] \in Positive
  PROVE  Ordered(Inserted(s, prices[n + 1]), n + 1, prices)
<1> DEFINE key == prices[n + 1]
           k == Place(s, key)
           t == Inserted(s, key)
<1>1. s \in Seq(Positive) /\ Len(s) = n /\ \A i, j \in 1..n : i <= j => s[i] <= s[j]
  BY DEF Ordered
<1>2. /\ k \in 0..n
      /\ k # 0 => s[k] <= key
      /\ \A j \in 1..n : j > k => s[j] > key
      /\ t \in [1..(n + 1) -> Positive]
      /\ \A j \in 1..k : t[j] = s[j]
      /\ t[k + 1] = key
      /\ \A j \in (k + 2)..(n + 1) : t[j] = s[j - 1]
  <2> key \in Positive OBVIOUS
  <2> HIDE DEF key
  <2>1. QED BY <1>1, PlaceFacts
<1>3. PICK pi \in Bijection(1..n, 1..n) : \A i \in 1..n : s[i] = prices[pi[i]]
  BY DEF Ordered
<1>4. /\ pi \in [1..n -> 1..n]
      /\ \A i, j \in 1..n : pi[i] = pi[j] => i = j
      /\ \A i \in 1..n : \E j \in 1..n : pi[j] = i
  BY DEF Bijection, Injection, Surjection, IsInjective
<1> DEFINE rho == [j \in 1..(n + 1) |-> IF j <= k THEN pi[j]
                                        ELSE IF j = k + 1 THEN n + 1 ELSE pi[j - 1]]
<1>5. key \in Nat /\ \A i \in 1..n : s[i] \in Nat
  BY <1>1 DEF Positive
<1> HIDE DEF k, t, key
<1>6. t \in Seq(Positive) /\ Len(t) = n + 1 BY <1>2
<1>7. \A j \in 1..(n + 1) : \/ j \in 1..k /\ j \in 1..n
                            \/ j = k + 1
                            \/ j \in (k + 2)..(n + 1) /\ j - 1 \in 1..n /\ j - 1 > k
  BY <1>2
<1>8. ASSUME NEW i \in 1..(n + 1), NEW j \in 1..(n + 1), i <= j PROVE t[i] <= t[j]
  <2>1. \A m \in 1..n : m <= k => s[m] <= key
    <3>1. ASSUME NEW m \in 1..n, m <= k PROVE s[m] <= key
      <4>1. k \in 1..n /\ k # 0 BY <1>2, <3>1
      <4>2. s[m] <= s[k] BY <1>1, <3>1, <4>1
      <4>3. QED BY <1>2, <1>5, <4>1, <4>2
    <3>2. QED BY <3>1
  <2>2. CASE i \in 1..k
    <3>1. i \in 1..n /\ t[i] = s[i] /\ s[i] <= key BY <1>2, <2>1, <2>2
    <3>2. CASE j \in 1..k
      <4>1. j \in 1..n /\ t[j] = s[j] BY <1>2, <3>2
      <4>2. QED BY <1>1, <1>8, <3>1, <4>1
    <3>3. CASE j = k + 1 BY <1>2, <3>1, <3>3
    <3>4. CASE j \in (k + 2)..(n + 1)
      <4>1. j - 1 \in 1..n /\ j - 1 > k /\ t[j] = s[j - 1] BY <1>2, <3>4
      <4>2. s[j - 1] > key BY <1>2, <4>1
      <4>3. QED BY <1>5, <3>1, <4>1, <4>2
    <3>5. QED BY <1>7, <3>2, <3>3, <3>4
  <2>3. CASE i = k + 1
    <3>1. t[i] = key BY <1>2, <2>3
    <3>2. CASE j = k + 1 BY <1>2, <1>5, <3>1, <3>2
    <3>3. CASE j \in (k + 2)..(n + 1)
      <4>1. j - 1 \in 1..n /\ j - 1 > k /\ t[j] = s[j - 1] BY <1>2, <3>3
      <4>2. s[j - 1] > key BY <1>2, <4>1
      <4>3. QED BY <1>5, <3>1, <4>1, <4>2
    <3>4. ~(j \in 1..k) BY <1>2, <1>8, <2>3
    <3>5. QED BY <1>7, <3>2, <3>3, <3>4
  <2>4. CASE i \in (k + 2)..(n + 1)
    <3>1. i - 1 \in 1..n /\ t[i] = s[i - 1] BY <1>2, <2>4
    <3>2. j - 1 \in 1..n /\ j \in (k + 2)..(n + 1) /\ i - 1 <= j - 1 BY <1>2, <1>8, <2>4
    <3>3. t[j] = s[j - 1] BY <1>2, <3>2
    <3>4. QED BY <1>1, <3>1, <3>2, <3>3
  <2>5. QED BY <1>7, <2>2, <2>3, <2>4
<1>9. /\ \A j \in 1..k : rho[j] = pi[j] /\ rho[j] \in 1..n
      /\ rho[k + 1] = n + 1
      /\ \A j \in (k + 2)..(n + 1) : rho[j] = pi[j - 1] /\ rho[j] \in 1..n
  <2>1. ASSUME NEW j \in 1..k PROVE rho[j] = pi[j] /\ rho[j] \in 1..n
    <3>1. j \in 1..n /\ j \in 1..(n + 1) /\ j <= k BY <1>2
    <3>2. QED BY <1>4, <3>1
  <2>2. rho[k + 1] = n + 1
    <3>1. k + 1 \in 1..(n + 1) /\ ~(k + 1 <= k) BY <1>2
    <3>2. QED BY <3>1
  <2>3. ASSUME NEW j \in (k + 2)..(n + 1) PROVE rho[j] = pi[j - 1] /\ rho[j] \in 1..n
    <3>1. j \in 1..(n + 1) /\ ~(j <= k) /\ j # k + 1 /\ j - 1 \in 1..n BY <1>2
    <3>2. QED BY <1>4, <3>1
  <2> HIDE DEF rho
  <2>4. QED BY <2>1, <2>2, <2>3
<1>10. rho \in [1..(n + 1) -> 1..(n + 1)]
  <2>1. \A j \in 1..(n + 1) : rho[j] \in 1..(n + 1)
    <3> HIDE DEF rho
    <3>1. \A m \in 1..n : m \in 1..(n + 1) OBVIOUS
    <3>2. n + 1 \in 1..(n + 1) OBVIOUS
    <3>3. QED BY <1>7, <1>9, <3>1, <3>2
  <2>2. QED BY <2>1
<1> HIDE DEF rho
<1>11. ASSUME NEW j \in 1..(n + 1) PROVE t[j] = prices[rho[j]]
  <2>1. CASE j \in 1..k BY <1>2, <1>3, <1>7, <1>9, <2>1
  <2>2. CASE j = k + 1 BY <1>2, <1>9, <2>2 DEF key
  <2>3. CASE j \in (k + 2)..(n + 1)
    <3>1. j - 1 \in 1..n BY <1>2, <2>3
    <3>2. QED BY <1>2, <1>3, <1>9, <2>3, <3>1
  <2>4. QED BY <1>7, <2>1, <2>2, <2>3
<1>12. ASSUME NEW i \in 1..(n + 1), NEW j \in 1..(n + 1), rho[i] = rho[j] PROVE i = j
  <2>1. \A m \in 1..n : m # n + 1 OBVIOUS
  <2>2. CASE i = k + 1 \/ j = k + 1 BY <1>7, <1>9, <1>12, <2>1, <2>2
  <2>3. CASE i # k + 1 /\ j # k + 1
    <3> DEFINE from(m) == IF m \in 1..k THEN m ELSE m - 1
    <3>1. \A m \in 1..(n + 1) : m # k + 1 => from(m) \in 1..n /\ rho[m] = pi[from(m)]
      <4>1. ASSUME NEW m \in 1..(n + 1), m # k + 1
            PROVE from(m) \in 1..n /\ rho[m] = pi[from(m)]
        <5>1. CASE m \in 1..k BY <1>2, <1>9, <5>1
        <5>2. CASE m \in (k + 2)..(n + 1)
          <6>1. ~(m \in 1..k) /\ m - 1 \in 1..n BY <1>2, <5>2
          <6>2. QED BY <1>9, <5>2, <6>1
        <5>3. QED BY <1>7, <4>1, <5>1, <5>2
      <4>2. QED BY <4>1
    <3>2. from(i) = from(j)
      <4> HIDE DEF from
      <4>1. from(i) \in 1..n /\ from(j) \in 1..n /\ pi[from(i)] = pi[from(j)]
        BY <1>12, <2>3, <3>1
      <4>2. QED BY <1>4, <4>1
    <3>3. QED BY <1>2, <1>7, <2>3, <3>2
  <2>4. QED BY <2>2, <2>3
<1>13. ASSUME NEW i \in 1..(n + 1) PROVE \E j \in 1..(n + 1) : rho[j] = i
  <2>1. CASE i = n + 1
    <3>1. k + 1 \in 1..(n + 1) BY <1>2
    <3>2. QED BY <1>9, <2>1, <3>1
  <2>2. CASE i \in 1..n
    <3>1. PICK m \in 1..n : pi[m] = i BY <1>4, <2>2
    <3>2. CASE m <= k
      <4>1. m \in 1..k /\ m \in 1..(n + 1) BY <1>2, <3>2
      <4>2. QED BY <1>9, <3>1, <4>1
    <3>3. CASE m > k
      <4>1. m + 1 \in (k + 2)..(n + 1) /\ m + 1 \in 1..(n + 1) /\ (m + 1) - 1 = m
        BY <1>2, <3>3
      <4>2. rho[m + 1] = i BY <1>9, <3>1, <4>1
      <4>3. QED BY <4>1, <4>2
    <3>4. QED BY <1>2, <3>2, <3>3
  <2>3. QED BY <2>1, <2>2
<1>14. rho \in Bijection(1..(n + 1), 1..(n + 1))
  BY <1>10, <1>12, <1>13 DEF Bijection, Injection, Surjection, IsInjective
<1>15. Ordered(t, n + 1, prices)
  BY <1>6, <1>8, <1>11, <1>14 DEF Ordered
<1>16. QED BY <1>15 DEF t, key
\* The insertion sort, and the element the contract takes from it.
LEMMA MedianInTheMiddle ==
  ASSUME NEW prices \in Seq(Positive), prices # <<>>
  PROVE  LowerMedian(prices) \in Positive /\ Middle(LowerMedian(prices), prices)
<1> DEFINE N == Len(prices)
           F(f) == [i \in 0..N |-> IF i = 0 THEN <<>> ELSE Inserted(f[i - 1], prices[i])]
           sorted == CHOOSE f : f = F(f)
           step == [i \in 1..N |-> [s \in Seq(Positive) |-> Inserted(s, prices[i])]]
           m == (N + 1) \div 2
<1>1. N \in Nat /\ N # 0 /\ DOMAIN prices = 1..N /\ \A i \in 1..N : prices[i] \in Positive
  OBVIOUS
<1>2. LowerMedian(prices) = sorted[N][m] BY DEF LowerMedian
<1>3. step \in [1..N -> [Seq(Positive) -> Seq(Positive)]]
  <2>1. ASSUME NEW s \in Seq(Positive), NEW key \in Positive
        PROVE Inserted(s, key) \in Seq(Positive)
    <3>1. Len(s) + 1 \in Nat /\ Inserted(s, key) \in [1..(Len(s) + 1) -> Positive]
      BY PlaceFacts
    <3>2. QED BY <3>1
  <2>2. ASSUME NEW i \in 1..N, NEW s \in Seq(Positive)
        PROVE Inserted(s, prices[i]) \in Seq(Positive)
    BY <1>1, <2>1
  <2> HIDE DEF N
  <2>3. QED BY <2>2
<1>4. \E f \in [0..N -> Seq(Positive)] : BuiltUp(f, N, <<>>, step)
  <2>1. <<>> \in Seq(Positive) OBVIOUS
  <2> HIDE DEF step, N
  <2>2. QED BY <1>1, <1>3, <2>1, RecursionUpTo, Zenon
<1>5. PICK g \in [0..N -> Seq(Positive)] :
        g = [i \in 0..N |-> IF i = 0 THEN <<>> ELSE step[i][g[i - 1]]]
  BY <1>4 DEF BuiltUp
<1>6. g = F(g)
  <2>1. ASSUME NEW i \in 0..N PROVE g[i] = F(g)[i]
    <3>1. CASE i = 0 BY <1>5, <3>1
    <3>2. CASE i # 0
      <4>1. i \in 1..N /\ i - 1 \in 0..N BY <1>1, <3>2
      <4>2. g[i - 1] \in Seq(Positive) BY <1>5, <4>1
      <4>3. g[i] = step[i][g[i - 1]] BY <1>5, <3>2
      <4>4. g[i] = Inserted(g[i - 1], prices[i]) BY <4>1, <4>2, <4>3
      <4>5. QED BY <3>2, <4>4
    <3>3. QED BY <3>1, <3>2
  <2>2. QED BY <1>5, <2>1
<1>7. sorted = F(sorted)
  <2> HIDE DEF F
  <2>1. QED BY <1>6
<1> HIDE DEF sorted, N
<1>8. sorted[0] = <<>> BY <1>1, <1>7
<1>9. ASSUME NEW i \in 1..N PROVE sorted[i] = Inserted(sorted[i - 1], prices[i])
  <2>1. i \in 0..N /\ i # 0 BY <1>1
  <2>2. QED BY <1>7, <2>1
<1> DEFINE T == {n \in Nat : n <= N => Ordered(sorted[n], n, prices)}
<1>10. 0 \in T
  <2>1. <<>> \in Seq(Positive) /\ Len(<<>>) = 0 OBVIOUS
  <2>2. 1..0 = {} OBVIOUS
  <2>3. \E pi \in Bijection(1..0, 1..0) : \A i \in 1..0 : <<>>[i] = prices[pi[i]]
    <3>1. [i \in {} |-> i] \in Bijection({}, {})
      BY DEF Bijection, Injection, Surjection, IsInjective
    <3>2. QED BY <2>2, <3>1
  <2>4. \A i, j \in 1..0 : i <= j => <<>>[i] <= <<>>[j] BY <2>2
  <2>5. Ordered(<<>>, 0, prices) BY <2>1, <2>3, <2>4 DEF Ordered
  <2>6. QED BY <1>8, <2>5
<1>11. ASSUME NEW n \in T PROVE n + 1 \in T
  <2>1. SUFFICES ASSUME n + 1 <= N PROVE Ordered(sorted[n + 1], n + 1, prices) OBVIOUS
  <2>2. n \in Nat /\ n + 1 \in 1..N /\ (n + 1) - 1 = n BY <1>1, <2>1
  <2>3. Ordered(sorted[n], n, prices) BY <1>1, <2>1, <2>2
  <2>4. sorted[n + 1] = Inserted(sorted[n], prices[n + 1]) BY <1>9, <2>2
  <2>5. prices[n + 1] \in Positive BY <1>1, <2>2
  <2>6. Ordered(Inserted(sorted[n], prices[n + 1]), n + 1, prices)
    BY <2>2, <2>3, <2>5, InsertedKeeps
  <2>7. QED BY <2>4, <2>6
<1>12. Ordered(sorted[N], N, prices)
  <2>1. T \in SUBSET Nat OBVIOUS
  <2>2. T = Nat
    <3> HIDE DEF T
    <3>1. QED BY <1>10, <1>11, <2>1, Induction
  <2>3. N \in T
    <3> HIDE DEF T
    <3>1. QED BY <1>1, <2>2
  <2>4. N <= N BY <1>1
  <2>5. QED BY <2>3, <2>4
<1> DEFINE s == sorted[N]
           p == s[m]
<1>13. /\ s \in Seq(Positive) /\ Len(s) = N
       /\ \A i, j \in 1..N : i <= j => s[i] <= s[j]
  BY <1>12 DEF Ordered
<1>14. PICK pi \in Bijection(1..N, 1..N) : \A i \in 1..N : s[i] = prices[pi[i]]
  BY <1>12 DEF Ordered
<1>15. /\ pi \in [1..N -> 1..N]
       /\ \A i, j \in 1..N : pi[i] = pi[j] => i = j
       /\ \A i \in 1..N : \E j \in 1..N : pi[j] = i
  BY DEF Bijection, Injection, Surjection, IsInjective
<1>16. \A i \in 1..N : s[i] \in Nat
  BY <1>13 DEF Positive
<1>17. m \in 1..N /\ 2 * (m - 1) < N /\ 2 * m >= N BY <1>1
<1> HIDE DEF m, s
<1>18. p \in Nat /\ p \in Positive /\ p \in ToSet(prices)
  <2>1. p \in Nat /\ p \in Positive BY <1>13, <1>16, <1>17
  <2>2. pi[m] \in DOMAIN prices /\ p = prices[pi[m]] BY <1>1, <1>14, <1>15, <1>17
  <2>3. QED BY <2>1, <2>2 DEF ToSet
\* A permutation of the list has as many entries of any kind.
<1>19. ASSUME NEW S \in SUBSET (1..N)
       PROVE  /\ IsFiniteSet(S) /\ IsFiniteSet({pi[i] : i \in S})
              /\ Cardinality({pi[i] : i \in S}) = Cardinality(S)
  <2> DEFINE image == {pi[i] : i \in S}
             f == [i \in S |-> pi[i]]
  <2>1. IsFiniteSet(S)
    <3>1. 1 \in Int /\ N \in Int BY <1>1
    <3>2. IsFiniteSet(1..N) BY <3>1, FS_Interval
    <3>3. QED BY <3>2, FS_Subset
  <2>2. f \in Bijection(S, image)
    BY <1>15 DEF Bijection, Injection, Surjection, IsInjective
  <2>3. ExistsBijection(S, image) BY <2>2 DEF ExistsBijection
  <2> HIDE DEF image
  <2>4. IsFiniteSet(image) /\ Cardinality(image) = Cardinality(S) BY <2>1, <2>3, FS_Bijection
  <2>5. QED BY <2>1, <2>4 DEF image
<1> DEFINE below == {i \in 1..N : s[i] < p}
           upTo == {i \in 1..N : s[i] <= p}
<1>20. {i \in DOMAIN prices : prices[i] < p} = {pi[i] : i \in below}
  <2>1. ASSUME NEW i \in DOMAIN prices, prices[i] < p PROVE \E j \in below : i = pi[j]
    <3>1. PICK j \in 1..N : pi[j] = i BY <1>1, <1>15
    <3>2. s[j] < p BY <1>14, <2>1, <3>1
    <3>3. QED BY <3>1, <3>2
  <2>2. ASSUME NEW j \in below PROVE pi[j] \in DOMAIN prices /\ prices[pi[j]] < p
    BY <1>1, <1>14, <1>15
  <2> HIDE DEF below, p
  <2>3. QED BY <2>1, <2>2
<1>21. {i \in DOMAIN prices : prices[i] <= p} = {pi[i] : i \in upTo}
  <2>1. ASSUME NEW i \in DOMAIN prices, prices[i] <= p PROVE \E j \in upTo : i = pi[j]
    <3>1. PICK j \in 1..N : pi[j] = i BY <1>1, <1>15
    <3>2. s[j] <= p BY <1>14, <2>1, <3>1
    <3>3. QED BY <3>1, <3>2
  <2>2. ASSUME NEW j \in upTo PROVE pi[j] \in DOMAIN prices /\ prices[pi[j]] <= p
    BY <1>1, <1>14, <1>15
  <2> HIDE DEF upTo, p
  <2>3. QED BY <2>1, <2>2
<1>22. below \subseteq 1..(m - 1)
  <2>1. ASSUME NEW i \in 1..N, s[i] < p PROVE i \in 1..(m - 1)
    <3>1. ~(m <= i) BY <1>13, <1>16, <1>17, <2>1
    <3>2. QED BY <1>17, <3>1
  <2>2. QED BY <2>1
<1>23. 1..m \subseteq upTo
  BY <1>13, <1>17
<1>24. 2 * Cardinality({i \in DOMAIN prices : prices[i] < p}) < N
  <2> HIDE DEF below, p
  <2>1. below \in SUBSET (1..N) BY DEF below
  <2>2. Cardinality({pi[i] : i \in below}) = Cardinality(below) BY <1>19, <2>1
  <2>3. IsFiniteSet(1..(m - 1)) /\ Cardinality(1..(m - 1)) = m - 1
    <3>1. 1 \in Int /\ m - 1 \in Int /\ (IF 1 > m - 1 THEN 0 ELSE (m - 1) - 1 + 1) = m - 1
      BY <1>17
    <3>2. QED BY <3>1, FS_Interval
  <2>4. Cardinality(below) <= m - 1 /\ Cardinality(below) \in Nat
    <3>1. IsFiniteSet(below) /\ Cardinality(below) <= Cardinality(1..(m - 1))
      BY <1>22, <2>3, FS_Subset
    <3>2. QED BY <2>3, <3>1, FS_CardinalityType
  <2>5. Cardinality({i \in DOMAIN prices : prices[i] < p}) = Cardinality(below)
    BY ONLY <1>20, <2>2, Zenon
  <2>6. QED BY <1>1, <1>17, <2>4, <2>5
<1>25. 2 * Cardinality({i \in DOMAIN prices : prices[i] <= p}) >= N
  <2> HIDE DEF upTo, p
  <2>1. upTo \in SUBSET (1..N) BY DEF upTo
  <2>2. IsFiniteSet(upTo) /\ Cardinality({pi[i] : i \in upTo}) = Cardinality(upTo)
    BY <1>19, <2>1
  <2>3. IsFiniteSet(1..m) /\ Cardinality(1..m) = m
    <3>1. 1 \in Int /\ m \in Int /\ (IF 1 > m THEN 0 ELSE m - 1 + 1) = m BY <1>17
    <3>2. QED BY <3>1, FS_Interval
  <2>4. m <= Cardinality(upTo) /\ Cardinality(upTo) \in Nat
    <3>1. Cardinality(1..m) <= Cardinality(upTo) BY <1>23, <2>2, FS_Subset
    <3>2. QED BY <2>2, <2>3, <3>1, FS_CardinalityType
  <2>5. Cardinality({i \in DOMAIN prices : prices[i] <= p}) = Cardinality(upTo)
    BY ONLY <1>21, <2>2, Zenon
  <2>6. QED BY <1>1, <1>17, <2>4, <2>5
<1>26. Middle(p, prices)
  <2> HIDE DEF p
  <2>1. QED BY <1>18, <1>24, <1>25 DEF Middle, N
<1>27. LowerMedian(prices) = p BY <1>2 DEF s
<1> HIDE DEF p
<1>28. QED BY <1>18, <1>26, <1>27
OracleInv == OracleTypeOK /\ tripped = byHand /\ ReadsAnswer

\* The quiet steps leave no answer to speak of.
LEMMA QuietOracle ==
  ASSUME outcome = NoOutcome PROVE ReadsAnswer
BY DEF NoOutcome, ReadsAnswer

LEMMA OracleInitially == OracleInit => OracleInv
<1> SUFFICES ASSUME OracleInit PROVE OracleInv OBVIOUS
<1>1. OracleTypeOK
  <2>1. quotes \in [Feeds -> [price : QuotePrices, age : 0..(MaxStaleness + 1)]]
    <3>1. 0 \in 0..(MaxStaleness + 1) BY OracleAssumption
    <3>2. QED BY <3>1 DEF OracleInit
  <2>2. feeds \in Seq(Feeds) /\ Len(feeds) <= MaxFeeds BY OracleAssumption DEF OracleInit
  <2>3. outcome \in [kind : {"none", "price", "error"}, price : Nat]
    BY DEF OracleInit, NoOutcome
  <2>4. QED BY <2>1, <2>2, <2>3 DEF OracleInit, OracleTypeOK
<1>2. tripped = byHand /\ ReadsAnswer BY QuietOracle DEF OracleInit
<1>3. QED BY <1>1, <1>2 DEF OracleInv

\* What a read finds and answers.
LEMMA ReadFacts ==
  ASSUME OracleTypeOK, OracleGetPrice
  PROVE  LET prices == FreshPrices
             median == LowerMedian(prices)
             deviate == \E q \in Said : Deviates(q, median)
         IN  /\ tripped' = tripped /\ UNCHANGED <<builtIn, oracleAdmin, feeds, quotes, byHand>>
             /\ prices # <<>> <=> Said # {}
             /\ prices # <<>> => median \in Positive /\ median \in Said /\ Middle(median, prices)
             /\ Said \subseteq Positive
             /\ \/ /\ tripped \/ (prices = <<>> /\ builtIn = 0) \/ (prices # <<>> /\ deviate)
                   /\ outcome' = [kind |-> "error", price |-> 0] /\ lastGood' = lastGood
                \/ /\ ~tripped /\ prices = <<>> /\ builtIn # 0
                   /\ outcome' = [kind |-> "price", price |-> builtIn] /\ lastGood' = builtIn
                \/ /\ ~tripped /\ prices # <<>> /\ ~deviate
                   /\ outcome' = [kind |-> "price", price |-> median] /\ lastGood' = median
<1> DEFINE prices == FreshPrices
           median == LowerMedian(prices)
           deviate == \E q \in Said : Deviates(q, median)
<1>1. prices \in Seq(Positive) /\ ToSet(prices) = Said BY FreshFacts
<1>2. prices # <<>> <=> Said # {}
  <2>1. Len(prices) \in Nat /\ DOMAIN prices = 1..Len(prices)
        /\ (prices # <<>> <=> Len(prices) # 0)
    BY <1>1
  <2>2. QED BY <1>1, <2>1 DEF ToSet
<1>3. Said \subseteq Positive BY <1>1 DEF ToSet
<1>4. prices # <<>> => median \in Positive /\ median \in Said /\ Middle(median, prices)
  BY <1>1, MedianInTheMiddle DEF Middle
<1>5. deviate <=> \E i \in DOMAIN prices : Deviates(prices[i], median)
  BY <1>1 DEF ToSet
<1>6. tripped \in BOOLEAN BY DEF OracleTypeOK
<1>7. /\ tripped' = Kept(GetPriceResult).tripped /\ lastGood' = Kept(GetPriceResult).lastGood
      /\ outcome' = [kind |-> IF GetPriceResult.ok THEN "price" ELSE "error",
                     price |-> GetPriceResult.price]
      /\ UNCHANGED <<builtIn, oracleAdmin, feeds, quotes, byHand>>
  BY DEF OracleGetPrice
<1>8. GetPriceResult =
        CASE tripped -> Error(TRUE)
          [] ~tripped /\ prices = <<>> -> IF builtIn = 0 THEN Error(FALSE) ELSE Price(builtIn)
          [] OTHER -> IF deviate THEN Error(TRUE) ELSE Price(median)
  BY <1>5 DEF GetPriceResult
<1> HIDE DEF prices, median, deviate
<1>9. ASSUME NEW trips \in BOOLEAN, GetPriceResult = Error(trips)
      PROVE  /\ tripped' = tripped /\ lastGood' = lastGood
             /\ outcome' = [kind |-> "error", price |-> 0]
  BY <1>7, <1>9 DEF Error, Kept
<1>10. ASSUME NEW p, GetPriceResult = Price(p)
       PROVE  /\ tripped' = FALSE /\ lastGood' = p
              /\ outcome' = [kind |-> "price", price |-> p]
  BY <1>7, <1>10 DEF Price, Kept
<1> DEFINE Answers ==
             \/ /\ tripped \/ (prices = <<>> /\ builtIn = 0) \/ (prices # <<>> /\ deviate)
                /\ outcome' = [kind |-> "error", price |-> 0] /\ lastGood' = lastGood
             \/ /\ ~tripped /\ prices = <<>> /\ builtIn # 0
                /\ outcome' = [kind |-> "price", price |-> builtIn] /\ lastGood' = builtIn
             \/ /\ ~tripped /\ prices # <<>> /\ ~deviate
                /\ outcome' = [kind |-> "price", price |-> median] /\ lastGood' = median
<1>11. ASSUME tripped \/ (prices = <<>> /\ builtIn = 0) \/ (prices # <<>> /\ deviate)
       PROVE  tripped' = tripped /\ Answers
  <2>1. \E trips \in BOOLEAN : GetPriceResult = Error(trips)
    <3>1. CASE tripped BY <1>8, <3>1
    <3>2. CASE ~tripped /\ prices = <<>> /\ builtIn = 0 BY <1>8, <3>2
    <3>3. CASE ~tripped /\ prices # <<>> /\ deviate BY <1>8, <3>3
    <3>4. QED BY <1>11, <3>1, <3>2, <3>3
  <2>2. tripped' = tripped /\ lastGood' = lastGood /\ outcome' = [kind |-> "error", price |-> 0]
    BY <1>9, <2>1
  <2>3. QED BY <1>11, <2>2
<1>12. ASSUME ~tripped, prices = <<>>, builtIn # 0 PROVE tripped' = tripped /\ Answers
  <2>1. GetPriceResult = Price(builtIn) BY <1>8, <1>12
  <2>2. tripped' = FALSE /\ lastGood' = builtIn
        /\ outcome' = [kind |-> "price", price |-> builtIn]
    BY <1>10, <2>1
  <2>3. tripped' = tripped BY <1>6, <1>12, <2>2
  <2>4. QED BY <1>12, <2>2, <2>3
<1>13. ASSUME ~tripped, prices # <<>>, ~deviate PROVE tripped' = tripped /\ Answers
  <2>1. GetPriceResult = Price(median) BY <1>8, <1>13
  <2>2. tripped' = FALSE /\ lastGood' = median
        /\ outcome' = [kind |-> "price", price |-> median]
    BY <1>10, <2>1
  <2>3. tripped' = tripped BY <1>6, <1>13, <2>2
  <2>4. QED BY <1>13, <2>2, <2>3
<1>14. tripped' = tripped /\ Answers BY <1>11, <1>12, <1>13
<1> HIDE DEF Answers
<1>15. QED BY <1>2, <1>3, <1>4, <1>7, <1>14 DEF Answers, prices, median, deviate
LEMMA QuietRead ==
  ASSUME outcome' = NoOutcome PROVE ReadsAnswer'
BY DEF NoOutcome, ReadsAnswer

LEMMA DeviationRule ==
  ASSUME NEW p \in Positive, NEW q \in Positive
  PROVE  Deviates(q, p) <=> ~(5 * q <= 6 * p /\ 5 * q >= 4 * p)
BY DEF Deviates, MaxDeviationBps, Positive

LEMMA ReadKeepsAnswer ==
  ASSUME OracleInv, OracleGetPrice PROVE OracleInv'
<1> DEFINE prices == FreshPrices
           median == LowerMedian(prices)
           deviate == \E q \in Said : Deviates(q, median)
           middles == {p \in Said : Middle(p, prices)}
           agree(p) == \A q \in Said : 5 * q <= 6 * p /\ 5 * q >= 4 * p
<1>1. OracleTypeOK /\ tripped = byHand BY DEF OracleInv
<1>2. /\ tripped' = tripped /\ UNCHANGED <<builtIn, oracleAdmin, feeds, quotes, byHand>>
      /\ prices # <<>> <=> Said # {}
      /\ prices # <<>> => median \in Positive /\ median \in Said /\ Middle(median, prices)
      /\ Said \subseteq Positive
      /\ \/ /\ tripped \/ (prices = <<>> /\ builtIn = 0) \/ (prices # <<>> /\ deviate)
            /\ outcome' = [kind |-> "error", price |-> 0] /\ lastGood' = lastGood
         \/ /\ ~tripped /\ prices = <<>> /\ builtIn # 0
            /\ outcome' = [kind |-> "price", price |-> builtIn] /\ lastGood' = builtIn
         \/ /\ ~tripped /\ prices # <<>> /\ ~deviate
            /\ outcome' = [kind |-> "price", price |-> median] /\ lastGood' = median
  BY <1>1, ReadFacts
<1>3. prices # <<>> => median \in middles /\ (deviate <=> ~agree(median))
  BY <1>2, DeviationRule
<1>4. FreshPrices' = prices BY <1>2 DEF FreshPrices
<1>5. Said' = Said BY <1>2 DEF Said
<1>6. OracleTypeOK'
  <2> HIDE DEF prices, median, deviate
  <2>1. builtIn \in Nat /\ (prices # <<>> => median \in Nat)
    BY <1>1, <1>2, OracleAssumption DEF Positive, OracleTypeOK
  <2>2. lastGood' \in Nat /\ outcome' \in [kind : {"none", "price", "error"}, price : Nat]
    BY <1>1, <1>2, <2>1 DEF OracleTypeOK
  <2>3. QED BY <1>1, <1>2, <2>2 DEF OracleTypeOK
<1>7. /\ outcome'.kind = "price" =>
           /\ ~byHand' /\ lastGood' = outcome'.price
           /\ IF Said = {} THEN outcome'.price = builtIn /\ builtIn # 0
              ELSE outcome'.price \in middles /\ agree(outcome'.price)
      /\ outcome'.kind = "error" =>
           byHand' \/ (Said = {} /\ builtIn = 0) \/ \E p \in middles : ~agree(p)
  <2> HIDE DEF prices, median, deviate, middles, agree
  <2>1. CASE tripped BY <1>1, <1>2, <2>1
  <2>2. CASE ~tripped /\ prices = <<>> BY <1>1, <1>2, <2>2
  <2>3. CASE ~tripped /\ prices # <<>> /\ deviate BY <1>1, <1>2, <1>3, <2>3
  <2>4. CASE ~tripped /\ prices # <<>> /\ ~deviate BY <1>1, <1>2, <1>3, <2>4
  <2>5. QED BY <2>1, <2>2, <2>3, <2>4
<1>8. ReadsAnswer'
  <2> HIDE DEF prices, median, deviate
  <2>1. builtIn' = builtIn BY <1>2
  <2>2. QED BY <1>4, <1>5, <1>7, <2>1 DEF ReadsAnswer
<1>9. QED BY <1>1, <1>2, <1>6, <1>8 DEF OracleInv

LEMMA OracleKeeps == OracleInv /\ [OracleNext]_oracleVars => OracleInv'
<1> SUFFICES ASSUME OracleInv, [OracleNext]_oracleVars PROVE OracleInv' OBVIOUS
<1>1. OracleTypeOK /\ tripped = byHand BY DEF OracleInv
<1>2. ASSUME outcome' = NoOutcome, OracleTypeOK', tripped' = byHand' PROVE OracleInv'
  BY <1>2, QuietRead DEF OracleInv
<1>3. NoOutcome \in [kind : {"none", "price", "error"}, price : Nat] BY DEF NoOutcome
<1>4. CASE OracleGetPrice BY <1>4, ReadKeepsAnswer
<1>5. CASE OracleInitialize
  BY <1>1, <1>2, <1>3, <1>5 DEF OracleInitialize, OracleTypeOK
<1>6. CASE TripCircuitBreaker
  BY <1>1, <1>2, <1>3, <1>6 DEF TripCircuitBreaker, OracleTypeOK
<1>7. CASE ConfirmPause
  BY <1>1, <1>2, <1>3, <1>7 DEF ConfirmPause, OracleTypeOK
<1>8. ASSUME NEW f \in Feeds, RegisterFeed(f) PROVE OracleInv'
  <2>1. feeds' \in Seq(Feeds) /\ Len(feeds') <= MaxFeeds
    BY <1>1, <1>8, OracleAssumption DEF RegisterFeed, OracleTypeOK
  <2>2. QED BY <1>1, <1>2, <1>3, <1>8, <2>1 DEF RegisterFeed, OracleTypeOK
<1>9. ASSUME NEW list \in BoundedSeq(Feeds, MaxFeeds), OverrideWithNewFeeds(list)
      PROVE OracleInv'
  <2>1. list \in Seq(Feeds) /\ Len(list) <= MaxFeeds
    <3>1. PICK n \in 0..MaxFeeds : list \in [1..n -> Feeds]
      BY OracleAssumption DEF BoundedSeq, SeqOf
    <3>2. n \in Nat /\ n <= MaxFeeds BY OracleAssumption
    <3>3. QED BY <3>1, <3>2
  <2>2. QED BY <1>1, <1>2, <1>3, <1>9, <2>1 DEF OverrideWithNewFeeds, OracleTypeOK
<1>10. ASSUME NEW f \in Feeds, NEW price \in QuotePrices, Quotes(f, price) PROVE OracleInv'
  <2>1. 0 \in 0..(MaxStaleness + 1) BY OracleAssumption
  <2>2. quotes' \in [Feeds -> [price : QuotePrices, age : 0..(MaxStaleness + 1)]]
    BY <1>1, <1>10, <2>1 DEF Quotes, OracleTypeOK
  <2>3. QED BY <1>1, <1>2, <1>3, <1>10, <2>2 DEF Quotes, OracleTypeOK
<1>11. CASE QuotesAge
  <2>1. quotes' \in [Feeds -> [price : QuotePrices, age : 0..(MaxStaleness + 1)]]
    <3>1. ASSUME NEW f \in Feeds
          PROVE [quotes[f] EXCEPT !.age = IF @ > MaxStaleness THEN @ ELSE @ + 1]
                  \in [price : QuotePrices, age : 0..(MaxStaleness + 1)]
      <4>1. quotes[f] \in [price : QuotePrices, age : 0..(MaxStaleness + 1)]
        BY <1>1 DEF OracleTypeOK
      <4>2. (IF quotes[f].age > MaxStaleness THEN quotes[f].age ELSE quotes[f].age + 1)
              \in 0..(MaxStaleness + 1)
        BY <4>1, OracleAssumption
      <4>3. QED BY <4>1, <4>2
    <3>2. QED BY <1>11, <3>1 DEF QuotesAge
  <2>2. QED BY <1>1, <1>2, <1>3, <1>11, <2>1 DEF QuotesAge, OracleTypeOK
<1>12. CASE UNCHANGED oracleVars
  <2>1. UNCHANGED <<builtIn, oracleAdmin, feeds, tripped, lastGood, quotes, outcome, byHand>>
    BY <1>12 DEF oracleVars
  <2>2. FreshPrices' = FreshPrices /\ Said' = Said BY <2>1 DEF FreshPrices, Said
  <2>3. ReadsAnswer' BY <2>1, <2>2 DEF OracleInv, ReadsAnswer
  <2>4. QED BY <1>1, <2>1, <2>3 DEF OracleInv, OracleTypeOK
<1>13. QED
  BY <1>4, <1>5, <1>6, <1>7, <1>8, <1>9, <1>10, <1>11, <1>12 DEF OracleNext
-----------------------------------------------------------------------------
(***************************************************************************)
(* All the parts, as properties of Services.  A behaviour follows one      *)
(* part, so a step of Services is a step of that part or leaves its state  *)
(* alone; the invariants of the parts hold together.                       *)
(***************************************************************************)
ServicesInv ==
  /\ part \in Parts
  /\ GovernanceTypeOK /\ GovernanceInv /\ OracleInv /\ TokenInv
  /\ ProposalsInv /\ PricesInv /\ FaucetInv /\ FillerInv

\* A step of Services, as each part sees it.
LEMMA PartsStep ==
  ASSUME [Next]_vars
  PROVE  /\ [GovernanceNext]_governanceVars /\ [OracleNext]_oracleVars /\ [TokenNext]_tokenVars
         /\ [ProposalsNext]_proposalVars /\ [PricesNext]_priceVars
         /\ [FaucetNext]_faucetVars /\ [FillerNext]_fillerVars
         /\ part' = part
<1>1. CASE GovernanceStep BY <1>1 DEF GovernanceStep, serverVars
<1>2. CASE OracleStep BY <1>2 DEF OracleStep, serverVars
<1>3. CASE TokenStep BY <1>3 DEF TokenStep, serverVars
<1>4. CASE ProposalsStep BY <1>4 DEF ProposalsStep, contractVars
<1>5. CASE PricesStep BY <1>5 DEF PricesStep, contractVars
<1>6. CASE FaucetStep BY <1>6 DEF FaucetStep, contractVars
<1>7. CASE FillerStep BY <1>7 DEF FillerStep, contractVars
<1>8. CASE UNCHANGED vars BY <1>8 DEF vars, contractVars, serverVars
<1>9. QED BY <1>1, <1>2, <1>3, <1>4, <1>5, <1>6, <1>7, <1>8 DEF Next

\* The invariants of all parts hold in every state.
THEOREM ServicesInvariant == Spec => []ServicesInv
<1>1. Init => ServicesInv
  BY GovernanceTypesInitially, InvInit, OracleInitially, TokenInitially, ProposalsInitially,
     PricesInitially, FaucetInitially, FillerInitially
  DEF Init, ServicesInv
<1>2. ServicesInv /\ [Next]_vars => ServicesInv'
  <2> SUFFICES ASSUME ServicesInv, [Next]_vars PROVE ServicesInv' OBVIOUS
  <2>1. GovernanceTypeOK' /\ GovernanceInv'
    BY PartsStep, GovernanceTypesKeep, GovernanceKeeps DEF ServicesInv
  <2>2. OracleInv' BY PartsStep, OracleKeeps DEF ServicesInv
  <2>3. TokenInv' BY PartsStep, TokenKeeps DEF ServicesInv
  <2>4. ProposalsInv' BY PartsStep, ProposalsKeep DEF ServicesInv
  <2>5. PricesInv' BY PartsStep, PricesKeep DEF ServicesInv
  <2>6. FaucetInv' BY PartsStep, FaucetKeeps DEF ServicesInv
  <2>7. FillerInv' BY PartsStep, FillerKeeps DEF ServicesInv
  <2>8. part' \in Parts BY PartsStep DEF ServicesInv
  <2>9. QED BY <2>1, <2>2, <2>3, <2>4, <2>5, <2>6, <2>7, <2>8 DEF ServicesInv
<1>3. QED BY <1>1, <1>2, PTL DEF Spec

\* Every variable of every part keeps its type.
THEOREM ServicesTypes == Spec => []TypeOK
<1>1. ServicesInv => TypeOK
  BY DEF ServicesInv, TypeOK, OracleInv, TokenInv, ProposalsInv, VotesInv, PricesInv, FaucetInv,
         FillerInv
<1>2. QED BY <1>1, ServicesInvariant, PTL

\* Governance calls a target once for a proposal, after its timelock, and only
\* if the votes of different voters reached the quorum and the threshold.
THEOREM GovernanceExecutesWhatIsDue == Spec => []ExecutedWasDue
<1>1. ServicesInv => ExecutedWasDue BY GovernanceInvDue DEF ServicesInv
<1>2. QED BY <1>1, ServicesInvariant, PTL

\* For any feeds, lists, prices and ages, get_price gives a price in the middle
\* of what the fresh feeds say and within 20 % of each, be it one feed; the price
\* built in, with none; and fails only for a breaker tripped by hand, feeds that
\* disagree, or no feed and no built-in price.
THEOREM OracleReadsAnswer == Spec => []ReadsAnswer
<1>1. ServicesInv => ReadsAnswer BY DEF ServicesInv, OracleInv
<1>2. QED BY <1>1, ServicesInvariant, PTL

\* The token's supply is the sum of the balances, and no spender takes more
\* than was approved in all, for any number of holders and any amounts.
THEOREM TokensAlwaysConserved == Spec => []TokensConserved
<1>1. ServicesInv => TokensConserved BY DEF ServicesInv, TokenInv
<1>2. QED BY <1>1, ServicesInvariant, PTL

\* Every vote on a proposal of the server that was answered counts once, in
\* memory and in the table, but for the exceptions VotesCount names.
THEOREM AnsweredVotesCount == Spec => []VotesCount
<1>1. ServicesInv => VotesCount BY ProposalsInvCounts DEF ServicesInv
<1>2. QED BY <1>1, ServicesInvariant, PTL

\* For any titles, requests and restarts, two proposals of the server share a
\* number only if one was posted before the other's row was in the table, or for
\* a row that was lost or a memory that began later; and one that shares its
\* number with none keeps its title.
THEOREM ProposalsAreKept == Spec => []ProposalsKept
<1>1. ServicesInv => ProposalsKept BY ProposalsInvKeeps DEF ServicesInv
<1>2. QED BY <1>1, ServicesInvariant, PTL

\* The price the server keeps stays between the prices there were and 0.2 % for
\* each publication above them, for any prices and requests that overlap at every
\* call of the feed and every query of the database.
THEOREM PublishedPriceDrifts == Spec => []PriceDrift
<1>1. ServicesInv => PriceDrift BY PricesInvDrift DEF ServicesInv
<1>2. QED BY <1>1, ServicesInvariant, PTL

\* The faucet pays the users it tells of success, and of the others only those
\* whose answer was lost, however requests take sequence numbers from each other.
THEOREM FaucetAlwaysPays == Spec => []FaucetPays
<1>1. ServicesInv => FaucetPays BY FaucetInvPays DEF ServicesInv
<1>2. QED BY <1>1, ServicesInvariant, PTL

\* However cycles of the flash loan filler overlap, only an auction that two of
\* them had, or whose row was not closed or written again, is settled twice; and
\* with no call lost and no two cycles in the position at once, the row has lost
\* the collateral of each auction that was settled.
THEOREM AuctionsFilledOnce == Spec => []FilledOnce
<1>1. ServicesInv => FilledOnce BY FillerInvFills DEF ServicesInv
<1>2. QED BY <1>1, ServicesInvariant, PTL
=============================================================================
