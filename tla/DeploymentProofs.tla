--------------------------- MODULE DeploymentProofs ---------------------------
(***************************************************************************)
(* Proofs about the operator's scripts, for every list of assets, markets, *)
(* feeds and env files, every plan and any number of faults.               *)
(***************************************************************************)
EXTENDS Deployment, TLAPS

-----------------------------------------------------------------------------
(* The scripts, as sequences of steps. *)

Early == {"wasm", "contract", "account", "trust", "tokens", "sac", "init", "dep",
          "market", "issuer", "feed", "mint"}
Seeding == {"approve", "supply"}
Ops == Early \cup Seeding \cup {"env", "pay"}
Things == STRING \cup Roles \cup {"treasury", "wallet"}
StepRecords == [op : Ops, x : Things]

OpsIn(s, O) == \A i \in 1..Len(s) : s[i].op \in O
Holds(s, step) == \E i \in 1..Len(s) : s[i] = step

\* A step is of its operation and thing.
LEMMA StepFields ==
  ASSUME NEW op \in Ops, NEW x \in Things
  PROVE  Step(op, x) \in StepRecords /\ Step(op, x).op = op /\ Step(op, x).x = x
BY DEF Step, StepRecords

\* One step for each.
LEMMA ForEachFacts ==
  ASSUME NEW op \in Ops, NEW xs \in Seq(Things)
  PROVE  LET s == ForEach(op, xs) IN
         /\ s \in Seq(StepRecords) /\ Len(s) = Len(xs)
         /\ \A i \in 1..Len(xs) : s[i] = Step(op, xs[i])
         /\ OpsIn(s, {op})
         /\ \A i \in 1..Len(xs) : Holds(s, Step(op, xs[i]))
<1> DEFINE s == ForEach(op, xs)
<1>1. s = [i \in 1..Len(xs) |-> Step(op, xs[i])] /\ Len(xs) \in Nat BY DEF ForEach
<1>2. \A i \in 1..Len(xs) : /\ Step(op, xs[i]) \in StepRecords
                            /\ Step(op, xs[i]).op = op
  BY StepFields
<1> HIDE DEF s
<1>3. s \in Seq(StepRecords) /\ Len(s) = Len(xs) BY <1>1, <1>2
<1>4. \A i \in 1..Len(xs) : s[i] = Step(op, xs[i]) BY <1>1
<1>5. QED BY <1>2, <1>3, <1>4 DEF OpsIn, Holds, s

\* The steps of a pair are each other's neighbours: the second of a thing that is
\* listed once is found at one place.
LEMMA ForEachBothFacts ==
  ASSUME NEW first \in Ops, NEW second \in Ops, first # second, NEW xs \in Seq(Things),
         \A i, j \in 1..Len(xs) : xs[i] = xs[j] => i = j
  PROVE  LET s == ForEachBoth(first, second, xs) IN
         /\ s \in Seq(StepRecords)
         /\ OpsIn(s, {first, second})
         /\ \A i, j \in 1..Len(s) : s[i].op = second /\ s[i] = s[j] => i = j
         /\ s # <<>> => s[1].op = first
<1> DEFINE s == ForEachBoth(first, second, xs)
           N == 2 * Len(xs)
<1>1. s = [i \in 1..N |-> IF i % 2 = 1 THEN Step(first, xs[(i + 1) \div 2])
                                      ELSE Step(second, xs[i \div 2])]
  BY DEF ForEachBoth
<1>2. Len(xs) \in Nat /\ N \in Nat OBVIOUS
<1>3. \A i \in 1..N : /\ i % 2 = 1 => (i + 1) \div 2 \in 1..Len(xs)
                      /\ i % 2 # 1 => i \div 2 \in 1..Len(xs) /\ i = 2 * (i \div 2)
  BY <1>2
<1> HIDE DEF s, N
<1>4. \A i \in 1..N : /\ i % 2 = 1 => s[i] \in StepRecords /\ s[i].op = first
                      /\ i % 2 # 1 => /\ s[i] \in StepRecords /\ s[i].op = second
                                      /\ s[i].x = xs[i \div 2]
  <2>1. TAKE i \in 1..N
  <2>2. CASE i % 2 = 1
    <3>1. xs[(i + 1) \div 2] \in Things BY <1>3, <2>2
    <3>2. s[i] = Step(first, xs[(i + 1) \div 2]) BY <1>1, <2>2
    <3>3. QED BY <2>2, <3>1, <3>2, StepFields
  <2>3. CASE i % 2 # 1
    <3>1. xs[i \div 2] \in Things BY <1>3, <2>3
    <3>2. s[i] = Step(second, xs[i \div 2]) BY <1>1, <2>3
    <3>3. QED BY <2>3, <3>1, <3>2, StepFields
  <2>4. QED BY <2>2, <2>3
<1>5. s \in Seq(StepRecords) /\ Len(s) = N
  <2>1. s = [i \in 1..N |-> s[i]] BY <1>1
  <2>2. \A i \in 1..N : s[i] \in StepRecords BY <1>4
  <2>3. QED BY <1>2, <2>1, <2>2
<1>6. OpsIn(s, {first, second}) BY <1>4, <1>5 DEF OpsIn
<1>7. ASSUME NEW i \in 1..N, NEW j \in 1..N, s[i].op = second, s[i] = s[j] PROVE i = j
  <2>1. i % 2 # 1 /\ j % 2 # 1 BY <1>4, <1>7
  <2>2. xs[i \div 2] = xs[j \div 2] BY <1>4, <1>7, <2>1
  <2>3. i \div 2 = j \div 2 BY <1>3, <2>1, <2>2
  <2>4. QED BY <1>3, <2>1, <2>3
<1>8. ASSUME s # <<>> PROVE s[1].op = first
  <2>1. 1 \in 1..N /\ 1 % 2 = 1 BY <1>5, <1>8
  <2>2. QED BY <1>4, <2>1
<1>9. QED BY <1>5, <1>6, <1>7, <1>8 DEF s

\* Two parts of a script, one after the other.
LEMMA Joined ==
  ASSUME NEW a \in Seq(StepRecords), NEW b \in Seq(StepRecords)
  PROVE  /\ a \o b \in Seq(StepRecords) /\ Len(a \o b) = Len(a) + Len(b)
         /\ \A O : OpsIn(a, O) /\ OpsIn(b, O) => OpsIn(a \o b, O)
         /\ \A step : Holds(a, step) \/ Holds(b, step) => Holds(a \o b, step)
         /\ \A i \in 1..Len(a) : (a \o b)[i] = a[i]
         /\ \A i \in 1..Len(b) : (a \o b)[Len(a) + i] = b[i]
         /\ \A i \in 1..Len(a \o b) :
              i \notin 1..Len(a) => i - Len(a) \in 1..Len(b) /\ (a \o b)[i] = b[i - Len(a)]
<1> DEFINE s == a \o b
<1>1. s \in Seq(StepRecords) /\ Len(s) = Len(a) + Len(b) /\ Len(a) \in Nat /\ Len(b) \in Nat
  OBVIOUS
<1>2. \A i \in 1..Len(a) : s[i] = a[i] OBVIOUS
<1>3. \A i \in 1..Len(s) :
        i \notin 1..Len(a) => i - Len(a) \in 1..Len(b) /\ s[i] = b[i - Len(a)]
  OBVIOUS
<1>4. \A i \in 1..Len(b) : s[Len(a) + i] = b[i] OBVIOUS
<1> HIDE DEF s
<1>5. ASSUME NEW O, OpsIn(a, O), OpsIn(b, O) PROVE OpsIn(s, O)
  BY <1>2, <1>3, <1>5 DEF OpsIn
<1>6. ASSUME NEW step, Holds(a, step) \/ Holds(b, step) PROVE Holds(s, step)
  <2>1. CASE Holds(a, step) BY <1>1, <1>2, <2>1 DEF Holds
  <2>2. CASE Holds(b, step)
    <3>1. PICK i \in 1..Len(b) : b[i] = step BY <2>2 DEF Holds
    <3>2. Len(a) + i \in 1..Len(s) /\ s[Len(a) + i] = step BY <1>1, <1>4, <3>1
    <3>3. QED BY <3>2 DEF Holds
  <2>3. QED BY <1>6, <2>1, <2>2
<1>7. QED BY <1>1, <1>2, <1>3, <1>4, <1>5, <1>6 DEF s

\* A smaller set of operations.
LEMMA OpsWider ==
  ASSUME NEW s, NEW O, NEW P, O \subseteq P, OpsIn(s, O) PROVE OpsIn(s, P)
BY DEF OpsIn

\* What each deployment has to have done: what its script sets up at all.
TestnetRequired ==
  {Step("init", role) : role \in Roles \ {"token"}}
  \cup {Step("dep", role) : role \in {"oracle", "backstop", "compliance", "engine"}}
  \cup {Step("market", m) : m \in ToSet(Markets)}
  \cup {Step("issuer", m) : m \in ToSet(Markets)}
MainnetRequired ==
  {Step("init", role) : role \in {"oracle", "compliance", "token", "engine", "pool"}}
  \cup {Step("dep", role) : role \in {"oracle", "backstop", "compliance", "engine", "governance"}}
  \cup {Step("market", m) : m \in ToSet(Markets)}
  \cup {Step("feed", x) : x \in ToSet(Feeds)}
RequiredOf(script) == IF script = "mainnet" THEN MainnetRequired ELSE TestnetRequired

\* The steps of a deployment before it seeds.
Prefix(s) == s \in Seq(StepRecords) /\ OpsIn(s, Early)
Mintless == Ops \ {"mint"}
Plain(s) == Prefix(s) /\ OpsIn(s, Mintless)

\* A deployment: all of that, then the seeding, then the env files.
Order(s, R) ==
  /\ s \in Seq(StepRecords) /\ OpsIn(s, Early \cup Seeding \cup {"env"})
  /\ \A i, j \in 1..Len(s) : s[i].op \in Early /\ s[j].op \notin Early => i < j
  /\ \A i, j \in 1..Len(s) : s[i].op \in Seeding /\ s[j].op = "env" => i < j
  /\ \A i, j \in 1..Len(s) : s[i].op = "supply" /\ s[i] = s[j] => i = j
  /\ \E i \in 1..Len(s) : s[i].op = "env" /\ s[i - 1].op # "env"
  /\ \A step \in R : Holds(s, step)

\* The scripts' lists.
LEMMA Listed ==
  /\ Assets \in Seq(Things) /\ Markets \in Seq(Things) /\ Feeds \in Seq(Things)
  /\ EnvFiles \in Seq(Things) /\ Len(EnvFiles) > 0
  /\ \A i, j \in 1..Len(Markets) : Markets[i] = Markets[j] => i = j
<1>1. \A list \in Seq(STRING) : list \in Seq(Things)
  <2>1. STRING \subseteq Things BY Zenon DEF Things
  <2>2. ASSUME NEW S, NEW T, S \subseteq T, NEW list \in Seq(S) PROVE list \in Seq(T)
    <3>1. list = [i \in 1..Len(list) |-> list[i]] /\ Len(list) \in Nat OBVIOUS
    <3>2. \A i \in 1..Len(list) : list[i] \in T BY <2>2
    <3>3. QED BY <3>1, <3>2
  <2>3. QED BY <2>1, <2>2, Zenon
<1>2. Len(EnvFiles) > 0 BY NamesAssumption
<1>3. \A i, j \in 1..Len(Markets) : Markets[i] = Markets[j] => i = j
  BY NamesAssumption DEF IsInjective
<1>4. QED BY <1>1, <1>2, <1>3, NamesAssumption

\* A part of the deployment that mints nothing.
LEMMA PlainPart ==
  ASSUME NEW op \in Early \ {"mint"}, NEW xs \in Seq(Things)
  PROVE  Plain(ForEach(op, xs)) /\ \A i \in 1..Len(xs) : Holds(ForEach(op, xs), Step(op, xs[i]))
<1>1. op \in Ops /\ {op} \subseteq Early /\ {op} \subseteq Mintless BY DEF Ops, Mintless
<1>2. /\ ForEach(op, xs) \in Seq(StepRecords) /\ OpsIn(ForEach(op, xs), {op})
      /\ \A i \in 1..Len(xs) : Holds(ForEach(op, xs), Step(op, xs[i]))
  BY <1>1, ForEachFacts
<1>3. OpsIn(ForEach(op, xs), Early) /\ OpsIn(ForEach(op, xs), Mintless)
  BY <1>1, <1>2, OpsWider
<1>4. QED BY <1>2, <1>3 DEF Plain, Prefix

\* So is the creation of the contracts.
LEMMA PlainDeploys ==
  ASSUME NEW xs \in Seq(Things), \A i, j \in 1..Len(xs) : xs[i] = xs[j] => i = j
  PROVE  Plain(Deploys(xs))
<1>1. /\ {"wasm", "contract"} \subseteq Early /\ {"wasm", "contract"} \subseteq Mintless
      /\ "wasm" \in Ops /\ "contract" \in Ops
  BY DEF Early, Ops, Mintless
<1>2. Deploys(xs) \in Seq(StepRecords) /\ OpsIn(Deploys(xs), {"wasm", "contract"})
  BY <1>1, ForEachBothFacts DEF Deploys
<1>3. OpsIn(Deploys(xs), Early) /\ OpsIn(Deploys(xs), Mintless) BY <1>1, <1>2, OpsWider
<1>4. QED BY <1>2, <1>3 DEF Plain, Prefix

\* What comes before the seeding may be put together of parts,
LEMMA PrefixJoined ==
  ASSUME NEW a, NEW b, Prefix(a), Prefix(b)
  PROVE  Prefix(a \o b) /\ \A step : Holds(a, step) \/ Holds(b, step) => Holds(a \o b, step)
BY Joined DEF Prefix

\* also of such that mint nothing.
LEMMA PlainJoined ==
  ASSUME NEW a, NEW b, Plain(a), Plain(b)
  PROVE  Plain(a \o b) /\ \A step : Holds(a, step) \/ Holds(b, step) => Holds(a \o b, step)
BY Joined DEF Plain, Prefix

\* What is done first, the seeding and the env files are in order.
LEMMA Shape ==
  ASSUME NEW a, Prefix(a), NEW R, Step("init", "pool") \in R, \A step \in R : Holds(a, step)
  PROVE  Order((a \o Seeds(Markets)) \o ForEach("env", EnvFiles), R)
<1> DEFINE b == Seeds(Markets)
           c == ForEach("env", EnvFiles)
           ab == a \o b
           s == ab \o c
<1>1. /\ b \in Seq(StepRecords) /\ OpsIn(b, Seeding)
      /\ \A i, j \in 1..Len(b) : b[i].op = "supply" /\ b[i] = b[j] => i = j
  <2>1. "approve" \in Ops /\ "supply" \in Ops BY DEF Ops, Seeding
  <2>2. QED BY <2>1, Listed, ForEachBothFacts DEF Seeds, Seeding
<1>2. c \in Seq(StepRecords) /\ OpsIn(c, {"env"}) /\ Len(c) > 0
  <2>1. "env" \in Ops BY DEF Ops
  <2>2. QED BY <2>1, Listed, ForEachFacts
<1>3. a \in Seq(StepRecords) /\ OpsIn(a, Early) /\ Len(a) > 0
  <2>1. Holds(a, Step("init", "pool")) OBVIOUS
  <2>2. QED BY <2>1 DEF Prefix, Holds
<1> HIDE DEF b, c
<1>4. /\ ab \in Seq(StepRecords) /\ Len(ab) = Len(a) + Len(b)
      /\ \A step : Holds(a, step) => Holds(ab, step)
      /\ \A i \in 1..Len(a) : ab[i] = a[i]
      /\ \A i \in 1..Len(ab) :
           i \notin 1..Len(a) => i - Len(a) \in 1..Len(b) /\ ab[i] = b[i - Len(a)]
  BY <1>1, <1>3, Joined
<1> HIDE DEF ab
<1>5. /\ s \in Seq(StepRecords) /\ Len(s) = Len(ab) + Len(c)
      /\ \A step : Holds(ab, step) => Holds(s, step)
      /\ \A i \in 1..Len(ab) : s[i] = ab[i]
      /\ \A i \in 1..Len(s) :
           i \notin 1..Len(ab) => i - Len(ab) \in 1..Len(c) /\ s[i] = c[i - Len(ab)]
  BY <1>2, <1>4, Joined
<1> HIDE DEF s
<1>6. Len(a) \in Nat /\ Len(b) \in Nat /\ Len(c) \in Nat BY <1>1, <1>2, <1>3
<1>7. \A i \in 1..Len(s) :
        /\ i <= Len(a) => s[i].op \in Early
        /\ i > Len(a) /\ i <= Len(ab) =>
             i - Len(a) \in 1..Len(b) /\ s[i] = b[i - Len(a)] /\ s[i].op \in Seeding
        /\ i > Len(ab) => s[i].op = "env"
  <2>1. TAKE i \in 1..Len(s)
  <2>2. ASSUME i <= Len(a) PROVE s[i].op \in Early
    <3>1. i \in 1..Len(a) /\ i \in 1..Len(ab) BY <1>4, <1>6, <2>2
    <3>2. QED BY <1>3, <1>4, <1>5, <3>1 DEF OpsIn
  <2>3. ASSUME i > Len(a), i <= Len(ab)
        PROVE  i - Len(a) \in 1..Len(b) /\ s[i] = b[i - Len(a)] /\ s[i].op \in Seeding
    <3>1. i \notin 1..Len(a) /\ i \in 1..Len(ab) BY <1>4, <1>6, <2>3
    <3>2. i - Len(a) \in 1..Len(b) /\ s[i] = b[i - Len(a)] BY <1>4, <1>5, <3>1
    <3>3. QED BY <1>1, <3>2 DEF OpsIn
  <2>4. ASSUME i > Len(ab) PROVE s[i].op = "env"
    <3>1. i \notin 1..Len(ab) BY <1>4, <1>6, <2>4
    <3>2. i - Len(ab) \in 1..Len(c) /\ s[i] = c[i - Len(ab)] BY <1>5, <3>1
    <3>3. QED BY <1>2, <3>2 DEF OpsIn
  <2>5. QED BY <2>2, <2>3, <2>4
<1>8. \A i \in 1..Len(s) : /\ s[i].op \in Early <=> i <= Len(a)
                           /\ s[i].op = "env" <=> i > Len(ab)
                           /\ s[i].op \in Early \cup Seeding \cup {"env"}
  <2>1. TAKE i \in 1..Len(s)
  <2>2. "env" \notin Early /\ "env" \notin Seeding /\ \A op \in Seeding : op \notin Early
    BY DEF Early, Seeding
  <2>3. Len(a) <= Len(ab) /\ Len(ab) \in Nat BY <1>4, <1>6
  <2>4. i \in Nat BY <1>4, <1>5, <1>6
  <2>5. CASE i <= Len(a)
    <3>1. s[i].op \in Early BY <1>7, <2>5
    <3>2. QED BY <1>6, <2>2, <2>3, <2>4, <2>5, <3>1
  <2>6. CASE i > Len(a) /\ i <= Len(ab)
    <3>1. s[i].op \in Seeding BY <1>7, <2>6
    <3>2. QED BY <1>6, <2>2, <2>3, <2>4, <2>6, <3>1
  <2>7. CASE i > Len(ab)
    <3>1. s[i].op = "env" BY <1>7, <2>7
    <3>2. QED BY <1>6, <2>2, <2>3, <2>4, <2>7, <3>1
  <2>8. QED BY <1>6, <2>3, <2>4, <2>5, <2>6, <2>7
<1>9. OpsIn(s, Early \cup Seeding \cup {"env"}) BY <1>8 DEF OpsIn
<1>10. \A i, j \in 1..Len(s) : s[i].op \in Early /\ s[j].op \notin Early => i < j
  BY <1>4, <1>5, <1>6, <1>8
<1>11. \A i, j \in 1..Len(s) : s[i].op \in Seeding /\ s[j].op = "env" => i < j
  <2>1. \A op \in Seeding : op # "env" BY DEF Seeding
  <2>2. QED BY <1>4, <1>5, <1>6, <1>8, <2>1
<1>12. ASSUME NEW i \in 1..Len(s), NEW j \in 1..Len(s), s[i].op = "supply", s[i] = s[j]
       PROVE  i = j
  <2>1. "supply" \notin Early /\ "supply" # "env" BY DEF Early
  <2>2. /\ i > Len(a) /\ i <= Len(ab) /\ j > Len(a) /\ j <= Len(ab)
    BY <1>4, <1>5, <1>6, <1>8, <1>12, <2>1
  <2>3. /\ i - Len(a) \in 1..Len(b) /\ s[i] = b[i - Len(a)]
        /\ j - Len(a) \in 1..Len(b) /\ s[j] = b[j - Len(a)]
    BY <1>7, <2>2
  <2>4. i - Len(a) = j - Len(a) BY <1>1, <1>12, <2>3
  <2>5. QED BY <1>4, <1>5, <1>6, <2>4
<1>13. \E i \in 1..Len(s) : s[i].op = "env" /\ s[i - 1].op # "env"
  <2>1. /\ Len(ab) + 1 \in 1..Len(s) /\ Len(ab) \in 1..Len(s) /\ (Len(ab) + 1) - 1 = Len(ab)
    BY <1>2, <1>3, <1>4, <1>5, <1>6
  <2>2. Len(ab) + 1 > Len(ab) /\ ~(Len(ab) > Len(ab)) BY <1>4, <1>6
  <2>3. s[Len(ab) + 1].op = "env" /\ s[Len(ab)].op # "env" BY <1>8, <2>1, <2>2
  <2>4. QED BY <2>1, <2>3
<1>14. \A step \in R : Holds(s, step) BY <1>4, <1>5
<1>15. Order(s, R) BY <1>5, <1>9, <1>10, <1>11, <1>12, <1>13, <1>14 DEF Order
<1>16. QED BY <1>15 DEF s, ab, b, c

\* Constant lists of roles.
LEMMA RoleLists ==
  /\ <<"oracle", "backstop", "compliance", "pool", "engine", "governance">> \in Seq(Things)
  /\ <<"engine", "pool">> \in Seq(Things)
  /\ <<"oracle", "compliance", "pool">> \in Seq(Things)
  /\ <<"oracle", "compliance", "token">> \in Seq(Things)
  /\ <<"oracle", "backstop", "compliance", "engine">> \in Seq(Things)
  /\ <<"oracle", "backstop", "compliance", "engine", "governance">> \in Seq(Things)
  /\ <<"backstop", "engine", "governance">> \in Seq(Things)
BY DEF Things, Roles

\* The steps of a list of roles are there.
LEMMA RoleSteps ==
  ASSUME NEW op \in Early \ {"mint"}, NEW xs \in Seq(Things), NEW x, \E i \in 1..Len(xs) : xs[i] = x
  PROVE  Plain(ForEach(op, xs)) /\ Holds(ForEach(op, xs), Step(op, x))
BY PlainPart

TestnetPrefix ==
  Deploys(<<"oracle", "backstop", "compliance", "pool", "engine", "governance">>)
  \o TestnetAssets
  \o ForEach("init", <<"oracle", "compliance", "pool">>)
  \o ForEach("dep", <<"oracle", "backstop", "compliance", "engine">>)
  \o ForEach("init", <<"backstop", "engine", "governance">>)
  \o TestnetListings

\* The seeding and the env files.
LEMMA EndingMintless ==
  /\ Seeds(Markets) \in Seq(StepRecords) /\ OpsIn(Seeds(Markets), Mintless)
  /\ ForEach("env", EnvFiles) \in Seq(StepRecords)
  /\ OpsIn(ForEach("env", EnvFiles), Mintless)
<1>1. /\ "approve" \in Ops /\ "supply" \in Ops /\ "env" \in Ops
      /\ {"approve", "supply"} \subseteq Mintless /\ {"env"} \subseteq Mintless
  BY DEF Ops, Early, Seeding, Mintless
<1>2. Seeds(Markets) \in Seq(StepRecords) /\ OpsIn(Seeds(Markets), {"approve", "supply"})
  BY <1>1, Listed, ForEachBothFacts DEF Seeds
<1>3. /\ ForEach("env", EnvFiles) \in Seq(StepRecords)
      /\ OpsIn(ForEach("env", EnvFiles), {"env"})
  BY <1>1, Listed, ForEachFacts
<1>4. QED BY <1>1, <1>2, <1>3, OpsWider

\* A step for each of a list's things.
LEMMA ListSteps ==
  ASSUME NEW op \in Early \ {"mint"}, NEW xs \in Seq(Things)
  PROVE  Plain(ForEach(op, xs)) /\ \A x \in ToSet(xs) : Holds(ForEach(op, xs), Step(op, x))
<1>1. \A x \in ToSet(xs) : \E i \in 1..Len(xs) : x = xs[i] BY DEF ToSet
<1>2. QED BY <1>1, PlainPart

\* deploy-and-setup.js.
LEMMA TestnetOrder == Order(TestnetSteps, TestnetRequired) /\ OpsIn(TestnetSteps, Mintless)
<1> DEFINE p1 == Deploys(<<"oracle", "backstop", "compliance", "pool", "engine", "governance">>)
           p2 == TestnetAssets
           p3 == ForEach("init", <<"oracle", "compliance", "pool">>)
           p4 == ForEach("dep", <<"oracle", "backstop", "compliance", "engine">>)
           p5 == ForEach("init", <<"backstop", "engine", "governance">>)
           p6 == TestnetListings
<1>1. Plain(p1)
  <2>1. LET xs == <<"oracle", "backstop", "compliance", "pool", "engine", "governance">>
        IN  \A i, j \in 1..Len(xs) : xs[i] = xs[j] => i = j
    OBVIOUS
  <2>2. QED BY <2>1, RoleLists, PlainDeploys
<1>2. Plain(p2)
  <2>1. /\ Plain(ForEach("account", Assets)) /\ Plain(ForEach("trust", Assets))
        /\ Plain(ForEach("tokens", Assets)) /\ Plain(ForEach("sac", Assets))
    <3>1. {"account", "trust", "tokens", "sac"} \subseteq Early \ {"mint"} BY DEF Early
    <3>2. QED BY <3>1, Listed, PlainPart
  <2>2. QED BY <2>1, PlainJoined DEF TestnetAssets
<1>3. /\ Plain(p3) /\ Holds(p3, Step("init", "oracle"))
      /\ Holds(p3, Step("init", "compliance")) /\ Holds(p3, Step("init", "pool"))
  <2> DEFINE xs == <<"oracle", "compliance", "pool">>
  <2>1. "init" \in Early \ {"mint"} /\ xs \in Seq(Things) BY RoleLists DEF Early
  <2>2. /\ \E i \in 1..Len(xs) : xs[i] = "oracle"
        /\ \E i \in 1..Len(xs) : xs[i] = "compliance"
        /\ \E i \in 1..Len(xs) : xs[i] = "pool"
    <3>1. 1 \in 1..Len(xs) /\ 2 \in 1..Len(xs) /\ 3 \in 1..Len(xs) OBVIOUS
    <3>2. QED BY <3>1
  <2> HIDE DEF xs
  <2>3. QED BY <2>1, <2>2, RoleSteps DEF xs
<1>4. /\ Plain(p4) /\ Holds(p4, Step("dep", "oracle")) /\ Holds(p4, Step("dep", "backstop"))
      /\ Holds(p4, Step("dep", "compliance")) /\ Holds(p4, Step("dep", "engine"))
  <2> DEFINE xs == <<"oracle", "backstop", "compliance", "engine">>
  <2>1. "dep" \in Early \ {"mint"} /\ xs \in Seq(Things) BY RoleLists DEF Early
  <2>2. /\ \E i \in 1..Len(xs) : xs[i] = "oracle"
        /\ \E i \in 1..Len(xs) : xs[i] = "backstop"
        /\ \E i \in 1..Len(xs) : xs[i] = "compliance"
        /\ \E i \in 1..Len(xs) : xs[i] = "engine"
    <3>1. /\ 1 \in 1..Len(xs) /\ 2 \in 1..Len(xs) /\ 3 \in 1..Len(xs) /\ 4 \in 1..Len(xs)
      OBVIOUS
    <3>2. QED BY <3>1
  <2> HIDE DEF xs
  <2>3. QED BY <2>1, <2>2, RoleSteps DEF xs
<1>5. /\ Plain(p5) /\ Holds(p5, Step("init", "backstop"))
      /\ Holds(p5, Step("init", "engine")) /\ Holds(p5, Step("init", "governance"))
  <2> DEFINE xs == <<"backstop", "engine", "governance">>
  <2>1. "init" \in Early \ {"mint"} /\ xs \in Seq(Things) BY RoleLists DEF Early
  <2>2. /\ \E i \in 1..Len(xs) : xs[i] = "backstop"
        /\ \E i \in 1..Len(xs) : xs[i] = "engine"
        /\ \E i \in 1..Len(xs) : xs[i] = "governance"
    <3>1. 1 \in 1..Len(xs) /\ 2 \in 1..Len(xs) /\ 3 \in 1..Len(xs) OBVIOUS
    <3>2. QED BY <3>1
  <2> HIDE DEF xs
  <2>3. QED BY <2>1, <2>2, RoleSteps DEF xs
<1>6. /\ Plain(p6)
      /\ \A m \in ToSet(Markets) : Holds(p6, Step("market", m)) /\ Holds(p6, Step("issuer", m))
  <2>1. "market" \in Early \ {"mint"} /\ "issuer" \in Early \ {"mint"} BY DEF Early
  <2>2. /\ Plain(ForEach("market", Markets)) /\ Plain(ForEach("issuer", Markets))
        /\ \A m \in ToSet(Markets) : /\ Holds(ForEach("market", Markets), Step("market", m))
                                     /\ Holds(ForEach("issuer", Markets), Step("issuer", m))
    BY <2>1, Listed, ListSteps
  <2>3. QED BY <2>2, PlainJoined DEF TestnetListings
<1> DEFINE q2 == p1 \o p2
           q3 == q2 \o p3
           q4 == q3 \o p4
           q5 == q4 \o p5
           q6 == q5 \o p6
<1> HIDE DEF p1, p2, p3, p4, p5, p6
<1>7. Plain(q2) BY <1>1, <1>2, PlainJoined
<1> HIDE DEF q2
<1>8. Plain(q3) /\ \A step : Holds(p3, step) => Holds(q3, step)
  BY <1>3, <1>7, PlainJoined
<1> HIDE DEF q3
<1>9. Plain(q4) /\ \A step : Holds(p3, step) \/ Holds(p4, step) => Holds(q4, step)
  BY <1>4, <1>8, PlainJoined
<1> HIDE DEF q4
<1>10. /\ Plain(q5)
       /\ \A step : Holds(p3, step) \/ Holds(p4, step) \/ Holds(p5, step) => Holds(q5, step)
  BY <1>5, <1>9, PlainJoined
<1> HIDE DEF q5
<1>11. /\ Plain(q6)
       /\ \A step : Holds(p3, step) \/ Holds(p4, step) \/ Holds(p5, step) \/ Holds(p6, step)
                      => Holds(q6, step)
  BY <1>6, <1>10, PlainJoined
<1>12. \A step \in TestnetRequired : Holds(q6, step)
  <2>1. \A role \in Roles \ {"token"} : Holds(q6, Step("init", role))
    BY <1>3, <1>5, <1>11 DEF Roles
  <2>2. \A role \in {"oracle", "backstop", "compliance", "engine"} : Holds(q6, Step("dep", role))
    BY <1>4, <1>11
  <2>3. \A m \in ToSet(Markets) : Holds(q6, Step("market", m)) /\ Holds(q6, Step("issuer", m))
    BY <1>6, <1>11
  <2>4. QED BY <2>1, <2>2, <2>3, Zenon DEF TestnetRequired
<1>13. Order((q6 \o Seeds(Markets)) \o ForEach("env", EnvFiles), TestnetRequired)
  <2>1. Step("init", "pool") \in TestnetRequired BY DEF TestnetRequired, Roles
  <2>2. QED BY <1>11, <1>12, <2>1, Shape DEF Plain
<1>14. OpsIn((q6 \o Seeds(Markets)) \o ForEach("env", EnvFiles), Mintless)
  BY <1>11, EndingMintless, Joined DEF Plain, Prefix
<1>15. TestnetSteps = (q6 \o Seeds(Markets)) \o ForEach("env", EnvFiles)
  BY Zenon DEF TestnetSteps, TestnetSeeding, q6, q5, q4, q3, q2, p1, p2, p3, p4, p5, p6
<1>16. QED BY <1>13, <1>14, <1>15, Zenon

\* A sequence with one mint, after the token is initialised.
OneMint(s) ==
  \E m \in 1..Len(s) :
    /\ s[m] = Step("mint", "treasury")
    /\ \A j \in 1..Len(s) : s[j].op = "mint" => j = m
    /\ \E i \in 1..(m - 1) : s[i] = Step("init", "token")

\* What mints nothing may follow the one mint.
LEMMA MintJoined ==
  ASSUME NEW a \in Seq(StepRecords), NEW b \in Seq(StepRecords), OneMint(a),
         OpsIn(b, Mintless)
  PROVE  OneMint(a \o b)
<1> DEFINE s == a \o b
<1>1. /\ Len(s) = Len(a) + Len(b) /\ Len(a) \in Nat /\ Len(b) \in Nat
      /\ \A i \in 1..Len(a) : s[i] = a[i]
      /\ \A i \in 1..Len(s) :
           i \notin 1..Len(a) => i - Len(a) \in 1..Len(b) /\ s[i] = b[i - Len(a)]
  BY Joined
<1> HIDE DEF s
<1>2. PICK m \in 1..Len(a) : /\ a[m] = Step("mint", "treasury")
                             /\ \A j \in 1..Len(a) : a[j].op = "mint" => j = m
                             /\ \E i \in 1..(m - 1) : a[i] = Step("init", "token")
  BY DEF OneMint
<1>3. PICK i \in 1..(m - 1) : a[i] = Step("init", "token") BY <1>2
<1>4. m \in 1..Len(s) /\ s[m] = a[m] /\ i \in 1..Len(a) BY <1>1, <1>2
<1>5. ASSUME NEW j \in 1..Len(s), s[j].op = "mint" PROVE j = m
  <2>1. j \in 1..Len(a)
    <3>1. ASSUME j \notin 1..Len(a) PROVE FALSE
      <4>1. j - Len(a) \in 1..Len(b) /\ s[j] = b[j - Len(a)] BY <1>1, <3>1
      <4>2. s[j].op \in Mintless BY <4>1 DEF OpsIn
      <4>3. QED BY <1>5, <4>2 DEF Mintless
    <3>2. QED BY <3>1
  <2>2. QED BY <1>1, <1>2, <1>5, <2>1
<1>6. s[i] = Step("init", "token") BY <1>1, <1>3, <1>4
<1>7. OneMint(s) BY <1>2, <1>3, <1>4, <1>5, <1>6 DEF OneMint
<1>8. QED BY <1>7 DEF s

\* deploy-mainnet.js.
LEMMA MainnetOrder == Order(MainnetSteps, MainnetRequired) /\ OneMint(MainnetSteps)
<1> DEFINE p1 == Deploys(<<"engine", "pool">>)
           p2 == ForEach("init", <<"oracle", "compliance", "token">>)
           p3 == <<Step("mint", "treasury")>>
           p4 == ForEach("init", <<"engine", "pool">>)
           p5 == ForEach("dep", <<"oracle", "backstop", "compliance", "engine", "governance">>)
           p6 == MainnetListings
<1>1. Plain(p1)
  <2>1. LET xs == <<"engine", "pool">> IN \A i, j \in 1..Len(xs) : xs[i] = xs[j] => i = j
    OBVIOUS
  <2>2. QED BY <2>1, RoleLists, PlainDeploys
<1>2. /\ Plain(p2) /\ Holds(p2, Step("init", "oracle"))
      /\ Holds(p2, Step("init", "compliance")) /\ Holds(p2, Step("init", "token"))
  <2> DEFINE xs == <<"oracle", "compliance", "token">>
  <2>1. "init" \in Early \ {"mint"} /\ xs \in Seq(Things)
    BY RoleLists DEF Early
  <2>2. /\ \E i \in 1..Len(xs) : xs[i] = "oracle"
        /\ \E i \in 1..Len(xs) : xs[i] = "compliance"
        /\ \E i \in 1..Len(xs) : xs[i] = "token"
    <3>1. 1 \in 1..Len(xs) /\ 2 \in 1..Len(xs) /\ 3 \in 1..Len(xs) OBVIOUS
    <3>2. QED BY <3>1
  <2> HIDE DEF xs
  <2>3. QED BY <2>1, <2>2, RoleSteps DEF xs
<1>3. /\ Prefix(p3) /\ Len(p3) = 1 /\ p3[1] = Step("mint", "treasury")
      /\ p3[1].op = "mint"
  <2>1. "mint" \in Ops /\ "mint" \in Early /\ "treasury" \in Things BY DEF Ops, Early, Things
  <2>2. Step("mint", "treasury") \in StepRecords /\ Step("mint", "treasury").op = "mint"
    BY <2>1, StepFields
  <2>3. QED BY <2>1, <2>2 DEF Prefix, OpsIn
<1>4. /\ Plain(p4)
      /\ Holds(p4, Step("init", "engine")) /\ Holds(p4, Step("init", "pool"))
  <2> DEFINE xs == <<"engine", "pool">>
  <2>1. "init" \in Early \ {"mint"} /\ xs \in Seq(Things)
    BY RoleLists DEF Early
  <2>2. (\E i \in 1..Len(xs) : xs[i] = "engine") /\ (\E i \in 1..Len(xs) : xs[i] = "pool")
    <3>1. 1 \in 1..Len(xs) /\ 2 \in 1..Len(xs) OBVIOUS
    <3>2. QED BY <3>1
  <2> HIDE DEF xs
  <2>3. QED BY <2>1, <2>2, RoleSteps DEF xs
<1>5. /\ Plain(p5)
      /\ Holds(p5, Step("dep", "oracle")) /\ Holds(p5, Step("dep", "backstop"))
      /\ Holds(p5, Step("dep", "compliance")) /\ Holds(p5, Step("dep", "engine"))
      /\ Holds(p5, Step("dep", "governance"))
  <2> DEFINE xs == <<"oracle", "backstop", "compliance", "engine", "governance">>
  <2>1. "dep" \in Early \ {"mint"} /\ xs \in Seq(Things)
    BY RoleLists DEF Early
  <2>2. /\ \E i \in 1..Len(xs) : xs[i] = "oracle"
        /\ \E i \in 1..Len(xs) : xs[i] = "backstop"
        /\ \E i \in 1..Len(xs) : xs[i] = "compliance"
        /\ \E i \in 1..Len(xs) : xs[i] = "engine"
        /\ \E i \in 1..Len(xs) : xs[i] = "governance"
    <3>1. /\ 1 \in 1..Len(xs) /\ 2 \in 1..Len(xs) /\ 3 \in 1..Len(xs) /\ 4 \in 1..Len(xs)
          /\ 5 \in 1..Len(xs)
      OBVIOUS
    <3>2. QED BY <3>1
  <2> HIDE DEF xs
  <2>3. QED BY <2>1, <2>2, RoleSteps DEF xs
<1>6. /\ Plain(p6)
      /\ \A m \in ToSet(Markets) : Holds(p6, Step("market", m))
      /\ \A x \in ToSet(Feeds) : Holds(p6, Step("feed", x))
  <2>1. "market" \in Early \ {"mint"} /\ "feed" \in Early \ {"mint"} BY DEF Early
  <2>2. /\ Plain(ForEach("feed", Feeds)) /\ Plain(ForEach("market", Markets))
        /\ \A m \in ToSet(Markets) : Holds(ForEach("market", Markets), Step("market", m))
        /\ \A x \in ToSet(Feeds) : Holds(ForEach("feed", Feeds), Step("feed", x))
    BY <2>1, Listed, ListSteps
  <2>3. QED BY <2>2, PlainJoined DEF MainnetListings
<1> DEFINE q2 == p1 \o p2
           q3 == q2 \o p3
           q4 == q3 \o p4
           q5 == q4 \o p5
           q6 == q5 \o p6
           b == Seeds(Markets)
           c == ForEach("env", EnvFiles)
<1>7. b \in Seq(StepRecords) /\ OpsIn(b, Mintless) /\ c \in Seq(StepRecords) /\ OpsIn(c, Mintless)
  BY EndingMintless
<1> HIDE DEF p1, p2, p3, p4, p5, p6, b, c
<1>8. Plain(q2) /\ \A step : Holds(p2, step) => Holds(q2, step)
  BY <1>1, <1>2, PlainJoined
<1> HIDE DEF q2
<1>9. Prefix(q3) /\ \A step : Holds(p2, step) => Holds(q3, step)
  BY <1>3, <1>8, PrefixJoined DEF Plain
<1>10. OneMint(q3)
  <2>1. /\ q2 \in Seq(StepRecords) /\ Len(q2) \in Nat /\ p3 \in Seq(StepRecords)
    BY <1>3, <1>8 DEF Prefix, Plain
  <2>2. /\ Len(q3) = Len(q2) + 1 /\ q3[Len(q2) + 1] = p3[1]
        /\ \A i \in 1..Len(q2) : q3[i] = q2[i]
    BY <1>3, <2>1, Joined
  <2>3. PICK i \in 1..Len(q2) : q2[i] = Step("init", "token")
    BY <1>2, <1>8 DEF Holds
  <2> DEFINE m == Len(q2) + 1
  <2>4. m \in 1..Len(q3) /\ i \in 1..(m - 1) BY <2>1, <2>2
  <2>5. ASSUME NEW j \in 1..Len(q3), q3[j].op = "mint" PROVE j = m
    <3>1. ASSUME j \in 1..Len(q2) PROVE FALSE
      BY <1>8, <2>2, <2>5, <3>1 DEF Plain, OpsIn, Mintless
    <3>2. QED BY <2>1, <2>2, <3>1
  <2>6. q3[m] = Step("mint", "treasury") /\ q3[i] = Step("init", "token")
    BY <1>3, <2>2, <2>3
  <2> HIDE DEF m
  <2>7. QED BY <2>4, <2>5, <2>6 DEF OneMint
<1> HIDE DEF q3
<1>11. /\ Prefix(q4) /\ \A step : Holds(p2, step) \/ Holds(p4, step) => Holds(q4, step)
       /\ OneMint(q4)
  BY <1>4, <1>9, <1>10, PrefixJoined, MintJoined DEF Prefix, Plain
<1> HIDE DEF q4
<1>12. /\ Prefix(q5)
       /\ \A step : Holds(p2, step) \/ Holds(p4, step) \/ Holds(p5, step) => Holds(q5, step)
       /\ OneMint(q5)
  BY <1>5, <1>11, PrefixJoined, MintJoined DEF Prefix, Plain
<1> HIDE DEF q5
<1>13. /\ Prefix(q6)
       /\ \A step : Holds(p2, step) \/ Holds(p4, step) \/ Holds(p5, step) \/ Holds(p6, step)
                      => Holds(q6, step)
       /\ OneMint(q6)
  BY <1>6, <1>12, PrefixJoined, MintJoined DEF Prefix, Plain
<1>14. \A step \in MainnetRequired : Holds(q6, step)
  <2>1. \A role \in {"oracle", "compliance", "token", "engine", "pool"} :
          Holds(q6, Step("init", role))
    BY <1>2, <1>4, <1>13
  <2>2. \A role \in {"oracle", "backstop", "compliance", "engine", "governance"} :
          Holds(q6, Step("dep", role))
    BY <1>5, <1>13
  <2>3. /\ \A m \in ToSet(Markets) : Holds(q6, Step("market", m))
        /\ \A x \in ToSet(Feeds) : Holds(q6, Step("feed", x))
    BY <1>6, <1>13
  <2>4. QED BY <2>1, <2>2, <2>3, Zenon DEF MainnetRequired
<1>15. Order((q6 \o Seeds(Markets)) \o ForEach("env", EnvFiles), MainnetRequired)
  <2>1. Step("init", "pool") \in MainnetRequired BY DEF MainnetRequired
  <2>2. QED BY <1>13, <1>14, <2>1, Shape
<1>16. OneMint((q6 \o b) \o c)
  <2>1. q6 \in Seq(StepRecords) BY <1>13 DEF Prefix
  <2>2. q6 \o b \in Seq(StepRecords) /\ OneMint(q6 \o b)
    BY <1>7, <1>13, <2>1, MintJoined, Joined
  <2>3. QED BY <1>7, <2>2, MintJoined
<1>17. MainnetSteps = (q6 \o b) \o c
  BY Zenon DEF MainnetSteps, MainnetSeeding, q6, q5, q4, q3, q2, p1, p2, p3, p4, p5, p6, b, c
<1>18. QED BY <1>15, <1>16, <1>17, Zenon DEF b, c

\* The same in a form that does not depend on the plan.
StepsOf(script) ==
  CASE script = "testnet" -> TestnetSteps
    [] script = "mainnet" -> MainnetSteps
    [] script = "seed" -> SeedSteps
    [] script = "pay" -> PaySteps

\* What is known of a script: its steps are in order, it mints at most once.
LEMMA Scripted ==
  ASSUME NEW script \in Scripts
  PROVE  LET s == StepsOf(script) IN
         /\ s \in Seq(StepRecords)
         /\ script \in {"testnet", "mainnet"} => Order(s, RequiredOf(script))
         /\ script = "mainnet" => OneMint(s)
         /\ script # "mainnet" => \A i \in 1..Len(s) : s[i].op # "mint"
         /\ script = "seed" => OpsIn(s, Seeding) /\ (s # <<>> => s[1].op = "approve")
         /\ script = "pay" => \A i \in 1..Len(s) : s[i].op = "pay"
<1>1. CASE script = "testnet"
  <2>1. StepsOf(script) = TestnetSteps /\ RequiredOf(script) = TestnetRequired
    BY <1>1 DEF StepsOf, RequiredOf
  <2>2. TestnetSteps \in Seq(StepRecords) BY TestnetOrder DEF Order
  <2>3. \A i \in 1..Len(TestnetSteps) : TestnetSteps[i].op # "mint"
    BY TestnetOrder DEF OpsIn, Mintless
  <2>4. QED BY <1>1, <2>1, <2>2, <2>3, TestnetOrder
<1>2. CASE script = "mainnet"
  <2>1. StepsOf(script) = MainnetSteps /\ RequiredOf(script) = MainnetRequired
    BY <1>2 DEF StepsOf, RequiredOf
  <2>2. MainnetSteps \in Seq(StepRecords) BY MainnetOrder DEF Order
  <2>3. QED BY <1>2, <2>1, <2>2, MainnetOrder
<1>3. CASE script = "seed"
  <2>1. StepsOf(script) = Seeds(Markets) BY <1>3 DEF StepsOf, SeedSteps
  <2>2. "approve" \in Ops /\ "supply" \in Ops BY DEF Ops, Seeding
  <2>3. /\ Seeds(Markets) \in Seq(StepRecords) /\ OpsIn(Seeds(Markets), Seeding)
        /\ Seeds(Markets) # <<>> => Seeds(Markets)[1].op = "approve"
    BY <2>2, Listed, ForEachBothFacts DEF Seeds, Seeding
  <2>4. \A i \in 1..Len(Seeds(Markets)) : Seeds(Markets)[i].op # "mint"
    BY <2>3 DEF OpsIn, Seeding
  <2>5. QED BY <1>3, <2>1, <2>3, <2>4
<1>4. CASE script = "pay"
  <2>1. StepsOf(script) = <<Step("pay", "wallet")>> BY <1>4 DEF StepsOf, PaySteps
  <2>2. Step("pay", "wallet") \in StepRecords /\ Step("pay", "wallet").op = "pay"
    BY StepFields DEF Ops, Things
  <2> DEFINE s == <<Step("pay", "wallet")>>
  <2>3. s \in Seq(StepRecords) /\ Len(s) = 1 /\ s[1].op = "pay" BY <2>2
  <2>4. \A i \in 1..Len(s) : s[i].op = "pay" BY <2>3
  <2> HIDE DEF s
  <2>5. QED BY <1>4, <2>1, <2>3, <2>4 DEF s
<1>5. QED BY <1>1, <1>2, <1>3, <1>4 DEF Scripts

-----------------------------------------------------------------------------
(* What a run has done by a step, and what is on the ledger. *)

\* Ref and StepFact for a script that is given.
RefOf(script, role, r) ==
  CASE script = "mainnet" /\ role \in {"oracle", "compliance", "token"} -> <<role, 0>>
    [] script = "mainnet" /\ role \in {"backstop", "governance"} -> <<"compliance", 0>>
    [] script = "mainnet" /\ role \in {"pool", "engine"} -> <<role, r>>
    [] script = "testnet" /\ role \in Roles -> <<role, r>>
    [] OTHER -> <<role, 0>>

FactOf(script, step, r) ==
  LET op == step.op
      x == step.x IN
  CASE op \in {"wasm", "account", "trust", "tokens", "sac", "mint", "pay"}
         -> Fact(op, <<x, 0>>, <<>>)
    [] op = "contract" -> Fact(op, RefOf(script, x, r), <<>>)
    [] op = "init" -> Fact(op, RefOf(script, x, r),
         CASE x = "engine" -> <<RefOf(script, "pool", r), RefOf(script, "backstop", r), <<"usdc", 0>>>>
           [] x = "backstop" -> <<RefOf(script, "engine", r), <<"usdc", 0>>>>
           [] OTHER -> <<>>)
    [] op = "dep" -> Fact(op, RefOf(script, "pool", r), <<<<x, 0>>, RefOf(script, x, r)>>)
    [] op \in {"market", "approve", "supply"} ->
         Fact(op, RefOf(script, "pool", r), <<<<x, 0>>>>)
    [] op = "issuer" -> Fact(op, RefOf(script, "compliance", r), <<<<x, 0>>>>)
    [] op = "feed" -> Fact(op, RefOf(script, "oracle", r), <<<<x, 0>>>>)
    [] OTHER -> Fact(op, <<x, 0>>, <<>>)

\* Both forms agree.
LEMMA RefIs ==
  ASSUME NEW role, NEW r PROVE Ref(role, r) = RefOf(plan[r], role, r)
BY Zenon DEF Ref, RefOf, Script

\* Both forms of a step's fact agree.
LEMMA FactIs ==
  ASSUME NEW step, NEW r PROVE StepFact(step.op, step.x, r) = FactOf(plan[r], step, r)
BY RefIs, Zenon DEF StepFact, FactOf

\* Both forms of a script agree.
LEMMA StepsAre == ASSUME NEW r PROVE Steps(r) = StepsOf(plan[r])
BY Zenon DEF Steps, StepsOf, Script

\* A fact tells which step it is of.
LEMMA FactFields ==
  ASSUME NEW script \in Scripts, NEW r \in Nat, NEW step \in StepRecords
  PROVE  LET f == FactOf(script, step, r) IN
         /\ f.kind = step.op
         /\ step.op = "supply" =>
              /\ f.on = RefOf(script, "pool", r) /\ f.to = <<<<step.x, 0>>>>
         /\ script = "mainnet" /\ step = Step("init", "token") =>
              f.kind = "init" /\ f.on = <<"token", 0>>
<1> DEFINE f == FactOf(script, step, r)
<1>1. \A kind, on, to : Fact(kind, on, to).kind = kind /\ Fact(kind, on, to).on = on
                        /\ Fact(kind, on, to).to = to
  BY DEF Fact
<1>2. step.op \in Ops BY DEF StepRecords
<1>3. f.kind = step.op
  <2>1. CASE step.op \in {"wasm", "account", "trust", "tokens", "sac", "mint", "pay"}
    <3>1. f = Fact(step.op, <<step.x, 0>>, <<>>) BY <2>1, Zenon DEF FactOf
    <3> HIDE DEF f
    <3>2. QED BY <1>1, <3>1
  <2>2. CASE step.op = "contract"
    <3>1. f = Fact(step.op, RefOf(script, step.x, r), <<>>) BY <2>2 DEF FactOf
    <3> HIDE DEF f
    <3>2. QED BY <1>1, <3>1
  <2>3. CASE step.op = "init"
    <3> DEFINE to == CASE step.x = "engine" -> <<RefOf(script, "pool", r), RefOf(script, "backstop", r), <<"usdc", 0>>>>
                       [] step.x = "backstop" -> <<RefOf(script, "engine", r), <<"usdc", 0>>>>
                       [] OTHER -> <<>>
    <3>1. f = Fact(step.op, RefOf(script, step.x, r), to) BY <2>3 DEF FactOf
    <3> HIDE DEF to, f
    <3>2. QED BY <1>1, <3>1
  <2>4. CASE step.op = "dep"
    <3>1. f = Fact(step.op, RefOf(script, "pool", r), <<<<step.x, 0>>, RefOf(script, step.x, r)>>)
      BY <2>4 DEF FactOf
    <3> HIDE DEF f
    <3>2. QED BY <1>1, <3>1
  <2>5. CASE step.op \in {"market", "approve", "supply"}
    <3>1. f = Fact(step.op, RefOf(script, "pool", r), <<<<step.x, 0>>>>) BY <2>5 DEF FactOf
    <3> HIDE DEF f
    <3>2. QED BY <1>1, <3>1
  <2>6. CASE step.op = "issuer"
    <3>1. f = Fact(step.op, RefOf(script, "compliance", r), <<<<step.x, 0>>>>) BY <2>6 DEF FactOf
    <3> HIDE DEF f
    <3>2. QED BY <1>1, <3>1
  <2>7. CASE step.op = "feed"
    <3>1. f = Fact(step.op, RefOf(script, "oracle", r), <<<<step.x, 0>>>>) BY <2>7 DEF FactOf
    <3> HIDE DEF f
    <3>2. QED BY <1>1, <3>1
  <2>8. CASE step.op = "env"
    <3>1. f = Fact(step.op, <<step.x, 0>>, <<>>) BY <2>8 DEF FactOf
    <3> HIDE DEF f
    <3>2. QED BY <1>1, <3>1
  <2> HIDE DEF f
  <2>9. QED BY <1>2, <2>1, <2>2, <2>3, <2>4, <2>5, <2>6, <2>7, <2>8 DEF Ops, Early, Seeding
<1>4. step.op = "supply" => f = Fact("supply", RefOf(script, "pool", r), <<<<step.x, 0>>>>)
  BY DEF FactOf
<1>6. ASSUME script = "mainnet", step = Step("init", "token") PROVE f.on = <<"token", 0>>
  <2>1. step.op = "init" /\ step.x = "token" BY <1>6 DEF Step
  <2>2. f = Fact("init", RefOf(script, "token", r), <<>>)
    <3>1. step.x # "engine" /\ step.x # "backstop" BY <2>1
    <3>2. (CASE step.x = "engine" -> <<RefOf(script, "pool", r), RefOf(script, "backstop", r), <<"usdc", 0>>>>
             [] step.x = "backstop" -> <<RefOf(script, "engine", r), <<"usdc", 0>>>>
             [] OTHER -> <<>>) = <<>>
      BY <3>1
    <3>3. f = Fact("init", RefOf(script, step.x, r),
           CASE step.x = "engine" -> <<RefOf(script, "pool", r), RefOf(script, "backstop", r), <<"usdc", 0>>>>
             [] step.x = "backstop" -> <<RefOf(script, "engine", r), <<"usdc", 0>>>>
             [] OTHER -> <<>>)
      BY <2>1 DEF FactOf
    <3>4. QED BY <2>1, <3>2, <3>3
  <2>3. RefOf(script, "token", r) = <<"token", 0>> BY <1>6 DEF RefOf
  <2> HIDE DEF f
  <2>4. QED BY <1>1, <2>2, <2>3
<1>7. script = "mainnet" /\ step = Step("init", "token") => f.kind = "init"
  <2> HIDE DEF f
  <2>1. QED BY <1>3 DEF Step
<1> HIDE DEF f
<1>8. QED BY <1>1, <1>3, <1>4, <1>6, <1>7 DEF f

Paid == {"supply", "mint"}
Musts == {"init", "dep", "market", "issuer", "feed"}
Phases == {"none", "sent", "landed", "dead"}

\* What is on the ledger or may still get there.
Told(L, O) == DOMAIN L \cup {o.fact : o \in O}

\* The i-th step has succeeded, or was passed.
Did(p, t, i) == i < p \/ (i = p /\ t = "landed")

FactAt(script, r, i) == FactOf(script, StepsOf(script)[i], r)

\* A run of a script that is at step p, with a transaction in phase t.
AtWork(script, p, t) ==
  /\ p \in Nat \ {0} /\ t \in Phases
  /\ t # "none" => p <= Len(StepsOf(script)) /\ StepsOf(script)[p].op # "env"
  /\ script = "seed" => p = 1 /\ t = "none"

\* What a deployment needs is there once its step is done.
Laid(script, r, p, t, L) ==
  \A i \in 1..Len(StepsOf(script)) :
    StepsOf(script)[i].op \in Musts /\ Did(p, t, i) => FactAt(script, r, i) \in DOMAIN L

\* No supply is told of before its step.
Unsupplied(script, r, p, t, told) ==
  \A i \in 1..Len(StepsOf(script)) :
    StepsOf(script)[i].op = "supply" /\ ~Did(p, t, i) => FactAt(script, r, i) \notin told

\* No mint is told of between the token's initialisation and the mint.
Unminted(script, p, t, told) ==
  \A i, j \in 1..Len(StepsOf(script)) :
    /\ StepsOf(script)[i] = Step("init", "token") /\ StepsOf(script)[j].op = "mint"
    /\ Did(p, t, i) /\ ~Did(p, t, j)
    => \A f \in told : f.kind # "mint"

\* The ledger keeps each payment once, and no run sends one again.
PaidOnce(L, O) ==
  /\ \A f \in DOMAIN L : f.kind \in Paid => L[f] = 1 /\ \A o \in O : o.fact # f
  /\ \A o, q \in O : o.fact = q.fact /\ o.fact.kind \in Paid => o = q

\* A pool is supplied by the run it is named for; a mint needs the token.
Sourced(told, L, R) ==
  /\ \A f \in told : f.kind = "supply" => \E n \in 1..R : f.on = <<"pool", n>>
  /\ (\E f \in told : f.kind = "mint") =>
       \E g \in DOMAIN L : g.kind = "init" /\ g.on = <<"token", 0>>

-----------------------------------------------------------------------------
(* A run's walk through its steps. *)

\* What a run has got to.
Walk(script, r, p, t, L, O) ==
  /\ AtWork(script, p, t)
  /\ Laid(script, r, p, t, L)
  /\ Unsupplied(script, r, p, t, Told(L, O))
  /\ Unminted(script, p, t, Told(L, O))

\* From one place to another nothing done is undone, what is done now is there,
\* and of payments only those of steps done now are told of.
Moves(script, r, p, t, L, O, p2, t2, L2, O2) ==
  LET s == StepsOf(script)
      New(i) == i \in 1..Len(s) /\ Did(p2, t2, i) /\ ~Did(p, t, i) IN
  /\ AtWork(script, p2, t2)
  /\ \A i \in 1..Len(s) : Did(p, t, i) => Did(p2, t2, i)
  /\ \A i \in 1..Len(s) : New(i) /\ s[i].op \in Musts => FactAt(script, r, i) \in DOMAIN L2
  /\ \A i \in 1..Len(s) : New(i) /\ script = "mainnet" /\ s[i] = Step("init", "token") =>
       \A f \in Told(L2, O2) : f.kind # "mint"
  /\ DOMAIN L \subseteq DOMAIN L2
  /\ \A f \in Told(L2, O2) :
       \/ f \in Told(L, O)
       \/ f.kind \notin Paid
       \/ f.kind = "supply" /\ \A i \in 1..Len(s) :
            s[i].op = "supply" /\ FactAt(script, r, i) = f => Did(p2, t2, i)
       \/ f.kind = "mint" /\ \A i \in 1..Len(s) : s[i].op = "mint" => Did(p2, t2, i)

\* What is known of a step of a script and of its fact.
LEMMA Kinds ==
  ASSUME NEW script \in Scripts, NEW r \in Nat, NEW i \in 1..Len(StepsOf(script))
  PROVE  LET step == StepsOf(script)[i]
             f == FactAt(script, r, i) IN
         /\ step \in StepRecords
         /\ f.kind = step.op
         /\ step.op = "supply" =>
              /\ f.on = RefOf(script, "pool", r) /\ f.to = <<<<step.x, 0>>>>
         /\ script = "mainnet" /\ step = Step("init", "token") =>
              f.kind = "init" /\ f.on = <<"token", 0>>
<1>1. StepsOf(script)[i] \in StepRecords BY Scripted
<1>2. QED BY <1>1, FactFields DEF FactAt

\* A run that moves keeps what is known of it.
LEMMA MovesOn ==
  ASSUME NEW script \in Scripts, NEW r \in Nat, NEW p, NEW t, NEW L, NEW O,
         NEW p2, NEW t2, NEW L2, NEW O2,
         Walk(script, r, p, t, L, O),
         Moves(script, r, p, t, L, O, p2, t2, L2, O2)
  PROVE  Walk(script, r, p2, t2, L2, O2)
<1> DEFINE s == StepsOf(script)
<1>1. /\ \A i \in 1..Len(s) : Did(p, t, i) => Did(p2, t2, i)
      /\ DOMAIN L \subseteq DOMAIN L2
  BY DEF Moves
<1>2. Laid(script, r, p2, t2, L2) BY <1>1 DEF Laid, Walk, Moves
<1>4. Unsupplied(script, r, p2, t2, Told(L2, O2))
  <2> SUFFICES ASSUME NEW i \in 1..Len(s), s[i].op = "supply", ~Did(p2, t2, i),
                      FactAt(script, r, i) \in Told(L2, O2)
               PROVE  FALSE
    BY DEF Unsupplied
  <2>1. FactAt(script, r, i) \notin Told(L, O) BY <1>1 DEF Walk, Unsupplied
  <2>2. FactAt(script, r, i).kind = "supply" BY Kinds
  <2>3. QED BY <2>1, <2>2 DEF Moves, Paid
<1>5. Unminted(script, p2, t2, Told(L2, O2))
  <2> SUFFICES ASSUME NEW i \in 1..Len(s), NEW j \in 1..Len(s), s[i] = Step("init", "token"),
                      s[j].op = "mint", Did(p2, t2, i), ~Did(p2, t2, j),
                      NEW f \in Told(L2, O2), f.kind = "mint"
               PROVE  FALSE
    BY DEF Unminted
  <2>1. CASE Did(p, t, i)
    <3>1. ~Did(p, t, j) BY <1>1
    <3>2. f \notin Told(L, O) BY <2>1, <3>1 DEF Walk, Unminted
    <3>3. QED BY <3>2 DEF Moves, Paid
  <2>2. CASE ~Did(p, t, i)
    <3>1. script = "mainnet" BY Scripted
    <3>2. QED BY <2>2, <3>1 DEF Moves
  <2>3. QED BY <2>1, <2>2
<1>6. QED BY <1>2, <1>4, <1>5 DEF Walk, Moves

\* A supply's fact is of one step only, and there is one mint.
LEMMA OnePayment ==
  ASSUME NEW script \in Scripts, NEW r \in Nat, NEW i \in 1..Len(StepsOf(script)),
         NEW j \in 1..Len(StepsOf(script))
  PROVE  LET s == StepsOf(script) IN
         /\ s[i].op = "supply" /\ s[j].op = "supply" /\ script # "seed"
              /\ FactAt(script, r, i) = FactAt(script, r, j) => i = j
         /\ s[i].op = "mint" /\ s[j].op = "mint" => i = j /\ script = "mainnet"
<1> DEFINE s == StepsOf(script)
<1>1. s[i] \in StepRecords /\ s[j] \in StepRecords BY Kinds
<1>2. ASSUME s[i].op = "supply", s[j].op = "supply", script # "seed",
             FactAt(script, r, i) = FactAt(script, r, j)
      PROVE  i = j
  <2>1. FactAt(script, r, i).to = <<<<s[i].x, 0>>>> /\ FactAt(script, r, j).to = <<<<s[j].x, 0>>>>
    BY <1>2, Kinds
  <2>2. s[i].x = s[j].x
    <3>1. <<<<s[i].x, 0>>>> = <<<<s[j].x, 0>>>> BY <1>2, <2>1
    <3>2. QED BY <3>1
  <2>3. s[i] = s[j]
    <3>1. s[i] = [op |-> s[i].op, x |-> s[i].x] /\ s[j] = [op |-> s[j].op, x |-> s[j].x]
      BY <1>1 DEF StepRecords
    <3>2. QED BY <1>2, <2>2, <3>1
  <2>4. script \in {"testnet", "mainnet"}
    <3>1. script # "pay" BY <1>2, Scripted
    <3>2. QED BY <1>2, <3>1 DEF Scripts
  <2>5. QED BY <1>2, <2>3, <2>4, Scripted DEF Order
<1>3. ASSUME s[i].op = "mint", s[j].op = "mint" PROVE i = j /\ script = "mainnet"
  <2>1. script = "mainnet" BY <1>3, Scripted
  <2>2. QED BY <1>3, <2>1, Scripted DEF OneMint
<1> HIDE DEF s
<1>4. QED BY <1>2, <1>3 DEF s

\* A payment that is on its way is not told of yet.
LEMMA Fresh ==
  ASSUME NEW script \in Scripts, NEW r \in Nat, NEW p, NEW L, NEW O,
         Walk(script, r, p, "sent", L, O), StepsOf(script)[p].op \in Paid
  PROVE  /\ FactAt(script, r, p) \notin Told(L, O)
         /\ StepsOf(script)[p].op = "mint" =>
              \E g \in DOMAIN L : g.kind = "init" /\ g.on = <<"token", 0>>
<1> DEFINE s == StepsOf(script)
           f == FactAt(script, r, p)
<1>1. p \in 1..Len(s)
  <2>1. Len(s) \in Nat BY Scripted
  <2>2. QED BY <2>1 DEF Walk, AtWork
<1>2. ~Did(p, "sent", p) BY <1>1 DEF Did
<1>3. CASE s[p].op = "supply" BY <1>1, <1>2, <1>3 DEF Walk, Unsupplied
<1>4. CASE s[p].op = "mint"
  <2>1. script = "mainnet" BY <1>1, <1>4, OnePayment
  <2>2. PICK m \in 1..Len(s) : /\ \A j \in 1..Len(s) : s[j].op = "mint" => j = m
                               /\ \E i \in 1..(m - 1) : s[i] = Step("init", "token")
    BY <2>1, Scripted DEF OneMint
  <2>3. m = p BY <1>1, <1>4, <2>2
  <2>4. PICK i \in 1..(p - 1) : s[i] = Step("init", "token") BY <2>2, <2>3
  <2>5. i \in 1..Len(s) /\ Did(p, "sent", i)
    <3>1. Len(s) \in Nat BY Scripted
    <3>2. QED BY <1>1, <3>1 DEF Did
  <2>6. f.kind = "mint" BY <1>1, <1>4, Kinds
  <2>7. f \notin Told(L, O)
    <3>1. \A h \in Told(L, O) : h.kind # "mint" BY <1>1, <1>2, <1>4, <2>4, <2>5 DEF Walk, Unminted
    <3>2. QED BY <2>6, <3>1
  <2>8. s[i].op = "init" BY <2>4 DEF Step
  <2>9. FactAt(script, r, i) \in DOMAIN L BY <2>5, <2>8 DEF Walk, Laid, Musts
  <2>10. FactAt(script, r, i).kind = "init" /\ FactAt(script, r, i).on = <<"token", 0>>
    BY <2>1, <2>4, <2>5, Kinds
  <2>11. QED BY <1>4, <2>7, <2>9, <2>10
<1>5. QED BY <1>3, <1>4 DEF Paid

\* One more copy of a fact.
LEMMA BagAddFacts ==
  ASSUME NEW L, NEW f
  PROVE  /\ DOMAIN BagAdd(L, f) = DOMAIN L \cup {f}
         /\ \A g \in DOMAIN L : g # f => BagAdd(L, f)[g] = L[g]
         /\ f \notin DOMAIN L => BagAdd(L, f)[f] = 1
         /\ IsABag(L) => IsABag(BagAdd(L, f))
<1>1. CASE f \in DOMAIN L
  <2>1. BagAdd(L, f) = [e \in DOMAIN L |-> IF e = f THEN L[e] + 1 ELSE L[e]] BY <1>1 DEF BagAdd
  <2> DEFINE M == [e \in DOMAIN L |-> IF e = f THEN L[e] + 1 ELSE L[e]]
  <2>2. DOMAIN M = DOMAIN L \cup {f} BY <1>1
  <2>3. \A g \in DOMAIN L : g # f => M[g] = L[g] OBVIOUS
  <2>4. IsABag(L) => IsABag(M) BY DEF IsABag
  <2> HIDE DEF M
  <2>5. QED BY <1>1, <2>1, <2>2, <2>3, <2>4 DEF M
<1>2. CASE f \notin DOMAIN L
  <2>1. BagAdd(L, f) = [e \in DOMAIN L \cup {f} |-> IF e = f THEN 1 ELSE L[e]]
    BY <1>2 DEF BagAdd
  <2> DEFINE M == [e \in DOMAIN L \cup {f} |-> IF e = f THEN 1 ELSE L[e]]
  <2>2. DOMAIN M = DOMAIN L \cup {f} /\ M[f] = 1 OBVIOUS
  <2>3. \A g \in DOMAIN L : g # f => M[g] = L[g] OBVIOUS
  <2>4. IsABag(L) => IsABag(M) BY DEF IsABag
  <2> HIDE DEF M
  <2>5. QED BY <1>2, <2>1, <2>2, <2>3, <2>4 DEF M
<1>3. QED BY <1>1, <1>2

\* The run stays where it is, or goes on after its step has landed.
LEMMA Stays ==
  ASSUME NEW script \in Scripts, NEW r \in Nat, NEW p, NEW t, NEW L, NEW O,
         NEW p2, NEW t2, NEW L2, NEW O2,
         Walk(script, r, p, t, L, O), AtWork(script, p2, t2),
         \A i \in 1..Len(StepsOf(script)) : Did(p, t, i) <=> Did(p2, t2, i),
         DOMAIN L \subseteq DOMAIN L2, Told(L2, O2) \subseteq Told(L, O)
  PROVE  Walk(script, r, p2, t2, L2, O2)
<1>1. Moves(script, r, p, t, L, O, p2, t2, L2, O2) BY DEF Moves
<1>2. QED BY <1>1, MovesOn, Zenon

\* A step, or the seeding, is passed without anything landed.
LEMMA Passes ==
  ASSUME NEW script \in Scripts \ {"seed"}, NEW r \in Nat, NEW p, NEW t, NEW L, NEW O,
         NEW p2 \in Nat, NEW O2,
         Walk(script, r, p, t, L, O), p \in 1..Len(StepsOf(script)), p < p2,
         \A i \in 1..Len(StepsOf(script)) : p <= i /\ i < p2 => StepsOf(script)[i].op \notin Musts,
         \A o \in O2 : o.fact \in Told(L, O) \/ o.fact = FactAt(script, r, p),
         StepsOf(script)[p].op # "mint"
  PROVE  Walk(script, r, p2, "none", L, O2)
<1> DEFINE s == StepsOf(script)
<1>1. p \in Nat /\ Len(s) \in Nat BY Scripted
<1>2. AtWork(script, p2, "none") BY <1>1 DEF AtWork, Phases
<1>3. \A i \in 1..Len(s) : Did(p, t, i) => Did(p2, "none", i) BY <1>1 DEF Did
<1>4. ASSUME NEW i \in 1..Len(s), Did(p2, "none", i), ~Did(p, t, i)
      PROVE  /\ p <= i /\ i < p2 /\ s[i].op \notin Musts /\ s[i] # Step("init", "token")
  <2>1. p <= i /\ i < p2 BY <1>1, <1>4 DEF Did
  <2>2. s[i].op \notin Musts BY <2>1
  <2>3. Step("init", "token").op \in Musts BY DEF Step, Musts
  <2>4. s[i] # Step("init", "token") BY <2>2, <2>3
  <2>5. QED BY <2>1, <2>2, <2>4
<1>5. ASSUME NEW f \in Told(L, O2), f \notin Told(L, O)
      PROVE  \/ f.kind \notin Paid
             \/ f.kind = "supply" /\ \A i \in 1..Len(s) :
                  s[i].op = "supply" /\ FactAt(script, r, i) = f => Did(p2, "none", i)
  <2>1. f = FactAt(script, r, p) BY <1>5 DEF Told
  <2>2. f.kind = s[p].op BY <2>1, Kinds
  <2>3. ASSUME s[p].op = "supply", NEW i \in 1..Len(s), s[i].op = "supply",
               FactAt(script, r, i) = f
        PROVE  Did(p2, "none", i)
    <3>1. i = p BY <2>1, <2>3, OnePayment
    <3>2. QED BY <3>1 DEF Did
  <2>4. QED BY <2>2, <2>3 DEF Paid
<1> HIDE DEF s
<1>7. Moves(script, r, p, t, L, O, p2, "none", L, O2)
  BY <1>2, <1>3, <1>4, <1>5 DEF Moves, s
<1>8. QED BY <1>7, MovesOn, Zenon

\* The step's transaction lands.
LEMMA Landing ==
  ASSUME NEW script \in Scripts, NEW r \in Nat, NEW p, NEW L, NEW O, NEW O2,
         Walk(script, r, p, "sent", L, O), O2 \subseteq O,
         script = "mainnet" /\ StepsOf(script)[p] = Step("init", "token") =>
           \A f \in Told(L, O) : f.kind # "mint"
  PROVE  Walk(script, r, p, "landed", BagAdd(L, FactAt(script, r, p)), O2)
<1> DEFINE s == StepsOf(script)
           f == FactAt(script, r, p)
           L2 == BagAdd(L, f)
<1>1. p \in 1..Len(s) /\ Len(s) \in Nat
  <2>1. Len(s) \in Nat BY Scripted
  <2>2. QED BY <2>1 DEF Walk, AtWork
<1>2. AtWork(script, p, "landed") BY DEF Walk, AtWork, Phases
<1>3. \A i \in 1..Len(s) : /\ Did(p, "sent", i) => Did(p, "landed", i)
                           /\ Did(p, "landed", i) /\ ~Did(p, "sent", i) => i = p
  BY DEF Did
<1>4. DOMAIN L2 = DOMAIN L \cup {f} BY BagAddFacts
<1>5. f.kind = s[p].op BY <1>1, Kinds
<1>6. \A g \in Told(L2, O2) : g \in Told(L, O) \/ g = f BY <1>4 DEF Told
<1>7. ASSUME script = "mainnet", s[p] = Step("init", "token"), NEW g \in Told(L2, O2)
      PROVE  g.kind # "mint"
  <2>1. f.kind = "init" BY <1>1, <1>7, Kinds
  <2>2. QED BY <1>6, <1>7, <2>1
<1>8. ASSUME s[p].op = "supply", NEW i \in 1..Len(s), s[i].op = "supply", FactAt(script, r, i) = f
      PROVE  Did(p, "landed", i)
  <2>1. script # "seed" BY DEF Walk, AtWork
  <2>2. i = p BY <1>1, <1>8, <2>1, OnePayment
  <2>3. QED BY <2>2 DEF Did
<1>9. ASSUME s[p].op = "mint", NEW i \in 1..Len(s), s[i].op = "mint"
      PROVE  Did(p, "landed", i)
  <2>1. i = p BY <1>1, <1>9, OnePayment
  <2>2. QED BY <2>1 DEF Did
<1> HIDE DEF s, f, L2
<1>10. \A g \in Told(L2, O2) :
         \/ g \in Told(L, O)
         \/ g.kind \notin Paid
         \/ g.kind = "supply" /\ \A i \in 1..Len(s) :
              s[i].op = "supply" /\ FactAt(script, r, i) = g => Did(p, "landed", i)
         \/ g.kind = "mint" /\ \A i \in 1..Len(s) : s[i].op = "mint" => Did(p, "landed", i)
  BY <1>5, <1>6, <1>8, <1>9 DEF Paid
<1>11. \A i \in 1..Len(s) : Did(p, "landed", i) /\ ~Did(p, "sent", i) =>
         FactAt(script, r, i) \in DOMAIN L2
  BY <1>3, <1>4 DEF f
<1>12. Moves(script, r, p, "sent", L, O, p, "landed", L2, O2)
  BY <1>2, <1>3, <1>4, <1>7, <1>10, <1>11 DEF Moves, s
<1>13. Walk(script, r, p, "landed", L2, O2) BY <1>12, MovesOn, Zenon
<1>14. QED BY <1>13 DEF L2, f

\* A run begins: its pool has not been supplied yet.
LEMMA Begins ==
  ASSUME NEW script \in Scripts, NEW r \in Nat, NEW L, NEW O, Sourced(Told(L, O), L, r)
  PROVE  Walk(script, r + 1, 1, "none", L, O)
<1> DEFINE s == StepsOf(script)
<1>1. \A i \in 1..Len(s) : ~Did(1, "none", i)
  <2>1. "none" # "landed" OBVIOUS
  <2>2. QED BY <2>1 DEF Did
<1>2. AtWork(script, 1, "none") BY DEF AtWork, Phases
<1>3. ASSUME NEW i \in 1..Len(s), s[i].op = "supply" PROVE FactAt(script, r + 1, i) \notin Told(L, O)
  <2>1. /\ FactAt(script, r + 1, i).kind = "supply"
        /\ FactAt(script, r + 1, i).on = RefOf(script, "pool", r + 1)
    <3>1. r + 1 \in Nat OBVIOUS
    <3> DEFINE n == r + 1
    <3> HIDE DEF n
    <3>2. n \in Nat BY <3>1 DEF n
    <3>3. /\ FactAt(script, n, i).kind = "supply"
          /\ FactAt(script, n, i).on = RefOf(script, "pool", n)
      BY <1>3, <3>2, Kinds
    <3>4. QED BY <3>3 DEF n
  <2>2. RefOf(script, "pool", r + 1) \in {<<"pool", r + 1>>, <<"pool", 0>>} BY DEF RefOf, Roles
  <2>3. ASSUME NEW n \in 1..r PROVE <<"pool", n>> \notin {<<"pool", r + 1>>, <<"pool", 0>>}
    OBVIOUS
  <2>4. QED BY <2>1, <2>2, <2>3 DEF Sourced
<1>4. QED BY <1>1, <1>2, <1>3 DEF Walk, Laid, Unsupplied, Unminted

-----------------------------------------------------------------------------
(* The books: each payment once, and named for its run. *)

\* A payment that was not told of lands once.
LEMMA PaidLands ==
  ASSUME NEW L, NEW O, NEW O2, NEW f, PaidOnce(L, O), O2 \subseteq O,
         f.kind \in Paid => f \notin Told(L, O)
  PROVE  PaidOnce(BagAdd(L, f), O2)
<1> DEFINE L2 == BagAdd(L, f)
<1>1. /\ DOMAIN L2 = DOMAIN L \cup {f}
      /\ \A g \in DOMAIN L : g # f => L2[g] = L[g]
      /\ f \notin DOMAIN L => L2[f] = 1
  BY BagAddFacts
<1>2. ASSUME NEW g \in DOMAIN L2, g.kind \in Paid PROVE L2[g] = 1 /\ \A o \in O2 : o.fact # g
  <2>1. CASE g = f
    <3>1. f \notin DOMAIN L /\ \A o \in O : o.fact # f BY <1>2, <2>1 DEF Told
    <3>2. QED BY <1>1, <2>1, <3>1
  <2>2. CASE g # f
    <3>1. g \in DOMAIN L BY <1>1, <2>2
    <3>2. QED BY <1>1, <1>2, <2>2, <3>1 DEF PaidOnce
  <2>3. QED BY <2>1, <2>2
<1> HIDE DEF L2
<1>3. PaidOnce(L2, O2) BY <1>2 DEF PaidOnce
<1>4. QED BY <1>3 DEF L2

\* A payment on its own lands, or is lost.
LEMMA PaidApart ==
  ASSUME NEW L, NEW O, NEW o \in O, PaidOnce(L, O)
  PROVE  PaidOnce(L, O \ {o}) /\ PaidOnce(BagAdd(L, o.fact), O \ {o})
<1>1. PaidOnce(L, O \ {o}) BY DEF PaidOnce
<1>2. o.fact.kind \in Paid => o.fact \notin Told(L, O \ {o}) BY DEF PaidOnce, Told
<1>3. QED BY <1>1, <1>2, PaidLands

\* A payment that was not told of is left on its own.
LEMMA PaidSent ==
  ASSUME NEW L, NEW O, NEW f, NEW r, PaidOnce(L, O), f.kind \in Paid => f \notin Told(L, O)
  PROVE  PaidOnce(L, O \cup {[fact |-> f, run |-> r]})
<1> DEFINE o == [fact |-> f, run |-> r]
<1>1. o.fact = f OBVIOUS
<1> HIDE DEF o
<1>2. f.kind \in Paid => f \notin DOMAIN L /\ \A q \in O : q.fact # f BY DEF Told
<1>3. PaidOnce(L, O \cup {o}) BY <1>1, <1>2 DEF PaidOnce
<1>4. QED BY <1>3 DEF o

\* At most one more fact is told of, and it is sourced.
LEMMA SourcedOn ==
  ASSUME NEW told, NEW L, NEW R \in Nat, NEW told2, NEW L2, NEW R2 \in Nat, NEW f,
         Sourced(told, L, R), told2 \subseteq told \cup {f}, DOMAIN L \subseteq DOMAIN L2, R <= R2,
         f.kind = "supply" => \E n \in 1..R2 : f.on = <<"pool", n>>,
         f.kind = "mint" => \E g \in DOMAIN L : g.kind = "init" /\ g.on = <<"token", 0>>
  PROVE  Sourced(told2, L2, R2)
<1>1. ASSUME NEW g \in told2, g.kind = "supply" PROVE \E n \in 1..R2 : g.on = <<"pool", n>>
  <2>1. CASE g \in told
    <3>1. PICK n \in 1..R : g.on = <<"pool", n>> BY <1>1, <2>1 DEF Sourced
    <3>2. n \in 1..R2 OBVIOUS
    <3>3. QED BY <3>1, <3>2
  <2>2. CASE g = f BY <1>1, <2>2
  <2>3. QED BY <2>1, <2>2
<1>2. ASSUME NEW g \in told2, g.kind = "mint"
      PROVE  \E h \in DOMAIN L2 : h.kind = "init" /\ h.on = <<"token", 0>>
  <2>1. CASE g \in told BY <1>2, <2>1 DEF Sourced
  <2>2. CASE g = f BY <1>2, <2>2
  <2>3. QED BY <2>1, <2>2
<1>3. QED BY <1>1, <1>2 DEF Sourced

-----------------------------------------------------------------------------
(* The inductive invariant. *)

\* The current run has done what its place says.
RunTold == pc # 0 => Walk(plan[run], run, pc, tx, ledger, orphans)

Books == PaidOnce(ledger, orphans) /\ Sourced(Told(ledger, orphans), ledger, run)

\* What an env file names was required and is there.
EnvTold ==
  \A file \in ToSet(EnvFiles) : env[file] # 0 =>
    /\ plan[env[file]] \in {"testnet", "mainnet"}
    /\ \A step \in RequiredOf(plan[env[file]]) :
         FactOf(plan[env[file]], step, env[file]) \in DOMAIN ledger

Inv == TypeOK /\ RunTold /\ Books /\ EnvTold

\* The run's step, where there is one.
LEMMA Now ==
  ASSUME TypeOK, pc # 0
  PROVE  /\ plan \in Seq(Scripts) /\ run \in Nat /\ pc \in Nat /\ run \in 1..Len(plan)
         /\ plan[run] \in Scripts /\ Script(run) = plan[run]
         /\ Steps(run) = StepsOf(plan[run]) /\ Len(StepsOf(plan[run])) \in Nat
         /\ AtStep <=> pc \in 1..Len(StepsOf(plan[run]))
         /\ Current = StepsOf(plan[run])[pc]
         /\ CurrentFact = FactAt(plan[run], run, pc)
         /\ AtStep => CurrentFact.kind = Current.op /\ Current.op \in Ops
<1>1. plan \in Seq(Scripts) /\ run \in Nat /\ pc \in Nat /\ run \in 1..Len(plan)
  BY PlansAssumption DEF TypeOK
<1>2. plan[run] \in Scripts /\ Script(run) = plan[run] BY <1>1 DEF Script
<1>3. Steps(run) = StepsOf(plan[run]) BY StepsAre
<1>4. Len(StepsOf(plan[run])) \in Nat BY <1>2, Scripted
<1>5. AtStep <=> pc \in 1..Len(StepsOf(plan[run])) BY <1>1, <1>3, <1>4 DEF AtStep
<1>6. Current = StepsOf(plan[run])[pc] BY <1>3 DEF Current
<1>7. CurrentFact = FactAt(plan[run], run, pc) BY <1>6, FactIs, Zenon DEF CurrentFact, FactAt
<1>8. ASSUME AtStep PROVE CurrentFact.kind = Current.op /\ Current \in StepRecords
  BY <1>1, <1>2, <1>5, <1>6, <1>7, <1>8, Kinds
<1>9. ASSUME AtStep PROVE Current.op \in Ops BY <1>8, <1>9 DEF StepRecords
<1>10. QED BY <1>1, <1>2, <1>3, <1>4, <1>5, <1>6, <1>7, <1>8, <1>9

\* Where an error leads: on, to the env files, or to the end.
LEMMA ErrorLeads ==
  ASSUME TypeOK, pc # 0, AtStep, Current.op # "env"
  PROVE  \/ /\ plan[run] = "mainnet" /\ Current.op \in Seeding
            /\ AfterError \in Nat /\ pc < AfterError
            /\ \A i \in 1..Len(StepsOf("mainnet")) :
                 pc <= i /\ i < AfterError => StepsOf("mainnet")[i].op \notin Musts
         \/ AfterError = 0
<1>2. CASE plan[run] = "mainnet" /\ Current.op \in Seeding
  <2> DEFINE s == StepsOf("mainnet")
             e == CHOOSE i \in DOMAIN s : s[i].op = "env" /\ s[i - 1].op # "env"
  <2>1. Order(s, MainnetRequired) BY Scripted DEF Scripts, RequiredOf
  <2>2. s \in Seq(StepRecords) BY <2>1 DEF Order
  <2>3. DOMAIN s = 1..Len(s) /\ Len(s) \in Nat BY <2>2
  <2>4. \E i \in DOMAIN s : s[i].op = "env" /\ s[i - 1].op # "env" BY <2>1, <2>3 DEF Order
  <2>5. e \in DOMAIN s /\ s[e].op = "env" BY <2>4
  <2>6. AfterError = e
    <3>1. Steps(run) = s /\ Script(run) = "mainnet" BY <1>2, Now
    <3>2. QED BY <1>2, <3>1, Zenon DEF AfterError, Seeding
  <2> HIDE DEF e
  <2>7. pc \in 1..Len(s) /\ s[pc].op \in Seeding BY <1>2, Now
  <2> HIDE DEF s
  <2>8. e \in Nat /\ pc < e BY <2>1, <2>3, <2>5, <2>7 DEF Order
  <2>9. ASSUME NEW i \in 1..Len(s), pc <= i PROVE s[i].op \notin Musts
    <3>1. s[pc].op \notin Early BY <2>7 DEF Early, Seeding
    <3>2. s[i].op \in Early => i < pc BY <2>1, <2>7, <3>1 DEF Order
    <3>3. s[i].op \notin Early BY <2>3, <2>7, <2>9, <3>2
    <3>4. QED BY <3>3 DEF Early, Musts
  <2>10. QED BY <1>2, <2>6, <2>8, <2>9 DEF s
<1>3. CASE ~(plan[run] = "mainnet" /\ Current.op \in Seeding)
  BY <1>3 DEF AfterError, Script, Seeding
<1>4. QED BY <1>2, <1>3

-----------------------------------------------------------------------------
(* Each step keeps the types. *)

\* At first.
LEMMA TypeInit == Init => TypeOK
<1> SUFFICES ASSUME Init PROVE TypeOK OBVIOUS
<1>1. plan \in Seq(Scripts) BY PlansAssumption DEF Init
<1>2. Len(plan) \in Nat BY <1>1
<1>3. /\ plan \in Plans /\ treasury \in BOOLEAN
      /\ run \in 0..Len(plan) /\ pc \in Nat /\ (pc # 0 => run # 0)
      /\ tx \in {"none", "sent", "landed", "dead"} /\ (tx # "none" => AtStep)
  BY <1>2 DEF Init
<1>4. IsABag(ledger) BY DEF Init, IsABag, SetToBag
<1>5. env \in [ToSet(EnvFiles) -> 0..Len(plan)] BY <1>2 DEF Init
<1>6. /\ \A o \in orphans : o.run \in 1..run
      /\ faults \in 0..MaxFaults
  BY PlansAssumption DEF Init
<1>7. QED BY <1>3, <1>4, <1>5, <1>6 DEF TypeOK

\* An error leads to some step.
LEMMA ErrorLeadsToNat ==
  ASSUME TypeOK, pc # 0, AtStep, Current.op # "env" PROVE AfterError \in Nat
BY ErrorLeads, Now

\* Faults are counted up to their bound.
LEMMA FaultType ==
  ASSUME TypeOK, Fault \/ faults' = faults PROVE faults' \in 0..MaxFaults
BY PlansAssumption DEF TypeOK, Fault

\* A waiting transaction has its step.
LEMMA Waiting ==
  ASSUME TypeOK, RunTold, tx # "none"
  PROVE  /\ pc # 0 /\ AtStep /\ Current.op # "env" /\ plan[run] # "seed"
         /\ pc \in 1..Len(StepsOf(plan[run]))
<1>1. AtStep /\ pc # 0 BY DEF TypeOK, AtStep
<1>2. AtWork(plan[run], pc, tx) BY <1>1 DEF RunTold, Walk
<1>3. QED BY <1>1, <1>2, Now DEF AtWork


\* Every action keeps the types.
LEMMA TypeNext ==
  ASSUME TypeOK, RunTold, Next
  PROVE  TypeOK'
<1>1. plan \in Seq(Scripts) /\ Len(plan) \in Nat BY PlansAssumption DEF TypeOK
<1>2. CASE Begin
  <2>1. tx = "none" BY <1>2 DEF Begin, TypeOK, AtStep
  <2>2. /\ plan' \in Plans /\ treasury' \in BOOLEAN
        /\ run' \in 0..Len(plan') /\ pc' \in Nat /\ (pc' # 0 => run' # 0)
        /\ tx' = "none" /\ IsABag(ledger)'
        /\ env' \in [ToSet(EnvFiles) -> 0..Len(plan')]
        /\ faults' \in 0..MaxFaults
    BY <1>1, <1>2, <2>1 DEF Begin, TypeOK, IsABag
  <2>3. \A o \in orphans' : o.run \in 1..run' BY <1>1, <1>2 DEF Begin, TypeOK
  <2>4. QED BY <2>2, <2>3 DEF TypeOK
<1>3. ASSUME UNCHANGED <<plan, treasury, run, ledger, orphans, env>>,
             pc' \in Nat, pc' # 0 => pc # 0, tx' = "none", Fault \/ faults' = faults
      PROVE  TypeOK'
  <2>1. faults' \in 0..MaxFaults BY <1>3, FaultType
  <2>2. QED BY <1>3, <2>1 DEF TypeOK, IsABag
<1>4. CASE Skip \/ Confirm
  <2>1. pc # 0 /\ pc \in Nat BY <1>4 DEF Skip, Confirm, TypeOK, AtStep
  <2>2. QED BY <1>3, <1>4, <2>1 DEF Skip, Confirm, NextStep
<1>5. CASE SkipSeeding
  <2>1. pc # 0 /\ AtStep /\ Current.op # "env" BY <1>5 DEF SkipSeeding, AtStep
  <2>2. QED BY <1>3, <1>5, <2>1, ErrorLeadsToNat DEF SkipSeeding
<1>6. CASE SimulationFails
  <2>1. pc # 0 /\ AtStep /\ Current.op # "env" BY <1>6 DEF SimulationFails, Sends, AtStep
  <2>2. Fault \/ faults' = faults BY <1>6 DEF SimulationFails, Sends
  <2>3. QED BY <1>3, <1>6, <2>1, <2>2, ErrorLeadsToNat DEF SimulationFails, Abort
<1>7. CASE GivesUp
  <2>1. pc # 0 /\ AtStep /\ Current.op # "env" BY <1>7, Waiting DEF GivesUp
  <2>2. Fault \/ faults' = faults BY <1>7 DEF GivesUp
  <2>3. QED BY <1>3, <1>7, <2>1, <2>2, ErrorLeadsToNat DEF GivesUp, Abort
<1>8. CASE RequestFails
  <2>1. pc # 0 /\ AtStep /\ Current.op # "env" BY <1>8 DEF RequestFails, AtStep
  <2>2. faults' \in 0..MaxFaults BY <1>8, FaultType DEF RequestFails
  <2>3. pc' \in Nat /\ tx' = "none"
    BY <1>8, <2>1, ErrorLeadsToNat DEF RequestFails, Abort
  <2>4. \A o \in orphans' : o.run \in 1..run'
    BY <1>8, <2>1, Now DEF RequestFails, TypeOK
  <2>5. QED BY <1>8, <2>1, <2>2, <2>3, <2>4 DEF RequestFails, TypeOK, IsABag
<1>9. CASE SendTx
  <2>1. pc # 0 /\ AtStep BY <1>9 DEF SendTx, Sends, AtStep
  <2>2. Fault \/ faults' = faults BY <1>9 DEF SendTx, Sends
  <2>3. AtStep'
    <3>1. UNCHANGED <<plan, run, pc>> BY <1>9 DEF SendTx
    <3>2. QED BY <2>1, <3>1 DEF AtStep, Steps, Script
  <2>4. faults' \in 0..MaxFaults BY <2>2, FaultType
  <2>5. QED BY <1>9, <2>3, <2>4 DEF SendTx, TypeOK, IsABag
<1>10. CASE Lands
  <2>1. pc # 0 /\ AtStep BY <1>10, Waiting DEF Lands
  <2>2. AtStep' BY <1>10, <2>1 DEF Lands, AtStep, Steps, Script
  <2>3. IsABag(ledger)' BY <1>10, BagAddFacts DEF Lands, TypeOK
  <2>4. \A o \in orphans' : o.run \in 1..run' BY <1>10 DEF Lands, TypeOK
  <2>5. QED BY <1>10, <2>2, <2>3, <2>4 DEF Lands, TypeOK
<1>11. CASE OrphanLands
  <2>1. PICK o \in orphans :
    /\ orphans' = orphans \ {o}
    /\ ledger' = IF Succeeds(o.fact, o.run) THEN BagAdd(ledger, o.fact) ELSE ledger
    /\ tx' = IF tx = "sent" /\ Source(CurrentFact, run) = Source(o.fact, o.run)
             THEN "dead" ELSE tx
    /\ UNCHANGED <<plan, treasury, run, pc, env, faults>>
    BY <1>11 DEF OrphanLands
  <2>2. tx' \in {"none", "sent", "landed", "dead"} /\ (tx' # "none" => tx # "none")
    BY <2>1 DEF TypeOK
  <2>3. AtStep => AtStep' BY <2>1 DEF AtStep, Steps, Script
  <2>4. IsABag(ledger)' BY <2>1, BagAddFacts DEF TypeOK
  <2>5. \A q \in orphans' : q.run \in 1..run' BY <2>1 DEF TypeOK
  <2>6. QED BY <2>1, <2>2, <2>3, <2>4, <2>5 DEF TypeOK
<1>12. CASE WriteEnv
  <2>1. pc # 0 /\ run \in Nat /\ run \in 1..Len(plan) BY <1>12, Now DEF WriteEnv, AtStep
  <2>2. env' \in [ToSet(EnvFiles) -> 0..Len(plan')]
    BY <1>1, <1>12, <2>1 DEF WriteEnv, TypeOK
  <2>3. QED BY <1>12, <2>1, <2>2 DEF WriteEnv, NextStep, TypeOK, IsABag
<1>13. CASE Killed
  <2>1. pc # 0 BY <1>13 DEF Killed, AtStep
  <2>2. tx = "none" BY <1>13, Waiting DEF Killed, AtStep
  <2>3. QED BY <1>3, <1>13, <2>1, <2>2 DEF Killed
<1>14. CASE Ends
  <2>1. tx = "none" BY <1>14, Waiting DEF Ends
  <2>2. QED BY <1>3, <1>14, <2>1 DEF Ends
<1>15. QED BY <1>2, <1>4, <1>5, <1>6, <1>7, <1>8, <1>9, <1>10, <1>11, <1>12, <1>13, <1>14
           DEF Next, Working

-----------------------------------------------------------------------------
(* Each step keeps what the runs are told. *)

\* seed-liquidity.ts gets no further than its first step.
LEMMA NotSeed ==
  ASSUME TypeOK, RunTold, AtStep, Current.op \notin Seeding PROVE plan[run] # "seed"
<1>1. pc # 0 BY DEF AtStep
<1>2. plan[run] = "seed" => OpsIn(StepsOf(plan[run]), Seeding) BY <1>1, Now, Scripted
<1>3. QED BY <1>1, <1>2, Now DEF OpsIn

\* The current step is passed.
LEMMA PassesOne ==
  ASSUME TypeOK, RunTold, AtStep, Current.op \notin Musts \cup Paid \cup Seeding,
         UNCHANGED <<plan, run, ledger, orphans>>, pc' = pc + 1, tx' = "none"
  PROVE  RunTold'
<1>1. /\ pc # 0 /\ pc \in Nat /\ run \in Nat /\ plan[run] \in Scripts /\ plan[run] # "seed"
      /\ pc \in 1..Len(StepsOf(plan[run])) /\ Current = StepsOf(plan[run])[pc]
      /\ CurrentFact = FactAt(plan[run], run, pc)
  BY NotSeed, Now DEF AtStep
<1>2. Walk(plan[run], run, pc, tx, ledger, orphans) BY <1>1 DEF RunTold
<1>4. \A i \in 1..Len(StepsOf(plan[run])) :
        pc <= i /\ i < pc + 1 => StepsOf(plan[run])[i].op \notin Musts
  <2>1. ASSUME NEW i \in 1..Len(StepsOf(plan[run])), pc <= i, i < pc + 1 PROVE i = pc
    BY <1>1, <2>1
  <2>2. QED BY <1>1, <2>1
<1>5. \A o \in orphans : o.fact \in Told(ledger, orphans) BY DEF Told
<1>6. StepsOf(plan[run])[pc].op # "mint" BY <1>1 DEF Paid
<1>8. Walk(plan[run], run, pc + 1, "none", ledger, orphans)
  <2> DEFINE e == pc + 1
  <2>1. /\ e \in Nat /\ pc < e /\ e = pc + 1
        /\ \A i \in 1..Len(StepsOf(plan[run])) :
             pc <= i /\ i < e => StepsOf(plan[run])[i].op \notin Musts
    BY <1>1, <1>4
  <2> HIDE DEF e
  <2>2. Walk(plan[run], run, e, "none", ledger, orphans)
    BY <1>1, <1>2, <1>5, <1>6, <2>1, Passes
  <2>3. QED BY <2>2 DEF e
<1>9. QED BY <1>8 DEF RunTold

\* An error leads on.
LEMMA PassesError ==
  ASSUME TypeOK, RunTold, AtStep, Current.op # "env", UNCHANGED <<plan, run, ledger>>,
         pc' = AfterError, tx' = "none",
         \A o \in orphans' : o \in orphans \/ o.fact = CurrentFact
  PROVE  RunTold'
<1>1. /\ pc # 0 /\ pc \in Nat /\ run \in Nat /\ plan[run] \in Scripts
      /\ pc \in 1..Len(StepsOf(plan[run])) /\ Current = StepsOf(plan[run])[pc]
      /\ CurrentFact = FactAt(plan[run], run, pc)
  BY Now DEF AtStep
<1>2. Walk(plan[run], run, pc, tx, ledger, orphans) BY <1>1 DEF RunTold
<1>3. \A o \in orphans' : o.fact \in Told(ledger, orphans) \/ o.fact = CurrentFact BY DEF Told
<1>4. CASE AfterError = 0 BY <1>4 DEF RunTold
<1>5. ASSUME plan[run] # "seed", AfterError \in Nat, pc < AfterError,
             \A i \in 1..Len(StepsOf(plan[run])) :
               pc <= i /\ i < AfterError => StepsOf(plan[run])[i].op \notin Musts,
             Current.op # "mint"
      PROVE  RunTold'
  <2> DEFINE e == AfterError
  <2> HIDE DEF e
  <2>1. /\ e \in Nat /\ pc < e
        /\ \A i \in 1..Len(StepsOf(plan[run])) :
             pc <= i /\ i < e => StepsOf(plan[run])[i].op \notin Musts
    BY <1>5 DEF e
  <2>2. Walk(plan[run], run, e, "none", ledger, orphans')
    BY <1>1, <1>2, <1>3, <1>5, <2>1, Passes
  <2>3. QED BY <2>2 DEF RunTold, e
<1>7. CASE /\ plan[run] = "mainnet" /\ Current.op \in Seeding
           /\ AfterError \in Nat /\ pc < AfterError
           /\ \A i \in 1..Len(StepsOf("mainnet")) :
                pc <= i /\ i < AfterError => StepsOf("mainnet")[i].op \notin Musts
  BY <1>5, <1>7 DEF Seeding
<1>8. QED BY <1>1, <1>4, <1>7, ErrorLeads

\* The token is initialised once, before it is minted.
LEMMA NoMintYet ==
  ASSUME TypeOK, RunTold, Books, tx = "sent", Succeeds(CurrentFact, run),
         plan[run] = "mainnet", Current = Step("init", "token")
  PROVE  \A f \in Told(ledger, orphans) : f.kind # "mint"
<1>1. CurrentFact.kind = "init" /\ CurrentFact.on = <<"token", 0>>
  BY Waiting, Now, Kinds
<1>2. MayInit(CurrentFact) BY <1>1, Zenon DEF Succeeds
<1>3. \A g \in DOMAIN ledger : ~(g.kind = "init" /\ g.on = <<"token", 0>>)
  BY <1>1, <1>2 DEF MayInit, HasKind, BagToSet
<1>4. QED BY <1>3 DEF Books, Sourced

\* What an orphan's landing changes.
LEMMA OrphanFields ==
  ASSUME OrphanLands
  PROVE  \E o \in orphans :
           /\ orphans' = orphans \ {o}
           /\ ledger' = ledger \/ ledger' = BagAdd(ledger, o.fact)
           /\ tx' = tx \/ (tx = "sent" /\ tx' = "dead")
           /\ UNCHANGED <<plan, treasury, run, pc, env, faults>>
<1>1. PICK o \in orphans :
    /\ orphans' = orphans \ {o}
    /\ ledger' = IF Succeeds(o.fact, o.run) THEN BagAdd(ledger, o.fact) ELSE ledger
    /\ tx' = IF tx = "sent" /\ Source(CurrentFact, run) = Source(o.fact, o.run)
             THEN "dead" ELSE tx
    /\ UNCHANGED <<plan, treasury, run, pc, env, faults>>
  BY DEF OrphanLands
<1>2. ledger' = ledger \/ ledger' = BagAdd(ledger, o.fact) BY <1>1
<1>3. tx' = tx \/ (tx = "sent" /\ tx' = "dead") BY <1>1
<1>4. QED BY <1>1, <1>2, <1>3

\* What an orphan's landing leaves: the ledger has its fact or not, nothing else
\* is told of.
LEMMA OrphanTold ==
  ASSUME NEW L, NEW O, NEW o \in O, NEW L2, L2 = L \/ L2 = BagAdd(L, o.fact)
  PROVE  DOMAIN L \subseteq DOMAIN L2 /\ Told(L2, O \ {o}) \subseteq Told(L, O)
<1>1. DOMAIN L2 \subseteq DOMAIN L \cup {o.fact} /\ DOMAIN L \subseteq DOMAIN L2
  <2>1. DOMAIN BagAdd(L, o.fact) = DOMAIN L \cup {o.fact} BY BagAddFacts
  <2>2. QED BY <2>1
<1>2. QED BY <1>1 DEF Told

\* Every action keeps what the run is told.
LEMMA RunNext ==
  ASSUME TypeOK, RunTold, Books, Next
  PROVE  RunTold'
<1>1. CASE Begin
  <2>1. run \in Nat /\ plan \in Seq(Scripts) /\ run + 1 \in 1..Len(plan)
    BY <1>1, PlansAssumption DEF Begin, TypeOK
  <2>2. plan[run + 1] \in Scripts BY <2>1
  <2>3. Sourced(Told(ledger, orphans), ledger, run) BY DEF Books
  <2>4. Walk(plan[run + 1], run + 1, 1, "none", ledger, orphans) BY <2>1, <2>2, <2>3, Begins
  <2>5. tx = "none" BY <1>1, Waiting DEF Begin
  <2>6. QED BY <1>1, <2>4, <2>5 DEF Begin, RunTold
<1>2. CASE Skip
  <2>1. AtStep /\ Done(CurrentFact) /\ CurrentFact.kind = Current.op
    BY <1>2, Now DEF Skip, AtStep
  <2>2. Current.op \in Checked BY <2>1 DEF Done, Checked
  <2>4. Current.op \notin Musts \cup Paid \cup Seeding BY <2>2 DEF Checked, Musts, Paid, Seeding
  <2>5. QED BY <1>2, <2>1, <2>4, PassesOne DEF Skip, NextStep
<1>4. CASE WriteEnv
  BY <1>4, PassesOne DEF WriteEnv, NextStep, Musts, Paid, Seeding
<1>5. CASE SkipSeeding
  <2>1. plan[run] = "mainnet" /\ Current.op # "env" /\ AtStep /\ tx' = "none"
    BY <1>5 DEF SkipSeeding, Script
  <2>2. QED BY <1>5, <2>1, PassesError DEF SkipSeeding
<1>6. CASE SimulationFails
  <2>1. AtStep /\ Current.op # "env" BY <1>6 DEF SimulationFails, Sends
  <2>2. QED BY <1>6, <2>1, PassesError DEF SimulationFails, Abort
<1>7. CASE GivesUp
  <2>1. AtStep /\ Current.op # "env" BY <1>7, Waiting DEF GivesUp
  <2>2. QED BY <1>7, <2>1, PassesError DEF GivesUp, Abort
<1>8. CASE RequestFails
  <2>1. AtStep /\ Current.op # "env" BY <1>8 DEF RequestFails
  <2>2. \A o \in orphans' : o \in orphans \/ o.fact = CurrentFact BY <1>8 DEF RequestFails
  <2>3. QED BY <1>8, <2>1, <2>2, PassesError DEF RequestFails, Abort
<1>9. CASE SendTx
  <2>1. pc # 0 /\ AtStep /\ tx = "none" /\ Current.op # "env" BY <1>9 DEF SendTx, Sends, AtStep
  <2>2. /\ run \in Nat /\ plan[run] \in Scripts /\ pc \in 1..Len(StepsOf(plan[run]))
        /\ Len(StepsOf(plan[run])) \in Nat /\ CurrentFact.kind = Current.op
        /\ Current = StepsOf(plan[run])[pc]
    BY <2>1, Now
  <2>3. Walk(plan[run], run, pc, "none", ledger, orphans) BY <2>1 DEF RunTold
  <2>4. plan[run] # "seed"
    <3>1. SUFFICES ASSUME plan[run] = "seed" PROVE FALSE OBVIOUS
    <3>2. pc = 1 BY <2>3, <3>1 DEF Walk, AtWork
    <3>3. Current.op = "approve" BY <2>2, <3>1, <3>2, Scripted
    <3>4. CurrentFact.kind = "approve" /\ Script(run) = "seed" BY <2>2, <3>1, <3>3 DEF Script
    <3>5. ~Succeeds(CurrentFact, run) BY <3>4, Zenon DEF Succeeds
    <3>6. QED BY <1>9, <3>5 DEF SendTx
  <2>5. AtWork(plan[run], pc, "sent") BY <2>1, <2>2, <2>4 DEF AtWork, Phases
  <2>6. \A i \in 1..Len(StepsOf(plan[run])) : Did(pc, "none", i) <=> Did(pc, "sent", i) BY DEF Did
  <2>7. Walk(plan[run], run, pc, "sent", ledger, orphans) BY <2>2, <2>3, <2>5, <2>6, Stays
  <2>8. QED BY <1>9, <2>7 DEF SendTx, RunTold
<1>10. CASE Lands
  <2>1. tx = "sent" /\ Succeeds(CurrentFact, run) BY <1>10 DEF Lands
  <2>2. /\ pc # 0 /\ run \in Nat /\ plan[run] \in Scripts
        /\ Current = StepsOf(plan[run])[pc] /\ CurrentFact = FactAt(plan[run], run, pc)
    BY <2>1, Waiting, Now
  <2>3. Walk(plan[run], run, pc, "sent", ledger, orphans) BY <2>1, <2>2 DEF RunTold
  <2>4. plan[run] = "mainnet" /\ StepsOf(plan[run])[pc] = Step("init", "token") =>
          \A f \in Told(ledger, orphans) : f.kind # "mint"
    BY <2>1, <2>2, NoMintYet
  <2>5. orphans' \subseteq orphans BY <1>10 DEF Lands
  <2>6. Walk(plan[run], run, pc, "landed", BagAdd(ledger, CurrentFact), orphans')
    BY <2>2, <2>3, <2>4, <2>5, Landing
  <2>7. QED BY <1>10, <2>6 DEF Lands, RunTold
<1>11. CASE OrphanLands
  <2>1. PICK o \in orphans :
           /\ orphans' = orphans \ {o}
           /\ ledger' = ledger \/ ledger' = BagAdd(ledger, o.fact)
           /\ tx' = tx \/ (tx = "sent" /\ tx' = "dead")
           /\ UNCHANGED <<plan, treasury, run, pc, env, faults>>
    BY <1>11, OrphanFields
  <2>2. SUFFICES ASSUME pc # 0 PROVE Walk(plan[run], run, pc, tx', ledger', orphans')
    BY <2>1 DEF RunTold
  <2>3. run \in Nat /\ plan[run] \in Scripts BY <2>2, Now
  <2>4. Walk(plan[run], run, pc, tx, ledger, orphans) BY <2>2 DEF RunTold
  <2>5. AtWork(plan[run], pc, tx') BY <2>1, <2>4 DEF Walk, AtWork, Phases
  <2>6. \A i \in 1..Len(StepsOf(plan[run])) : Did(pc, tx, i) <=> Did(pc, tx', i)
    BY <2>1 DEF Did
  <2>7. DOMAIN ledger \subseteq DOMAIN ledger' /\ Told(ledger', orphans') \subseteq Told(ledger, orphans)
    BY <2>1, OrphanTold
  <2>8. QED BY <2>3, <2>4, <2>5, <2>6, <2>7, Stays
<1>12. CASE Confirm
  <2>1. tx = "landed" BY <1>12 DEF Confirm
  <2>2. /\ pc # 0 /\ pc \in Nat /\ run \in Nat /\ plan[run] \in Scripts /\ plan[run] # "seed"
        /\ pc \in 1..Len(StepsOf(plan[run])) /\ Len(StepsOf(plan[run])) \in Nat
    BY <2>1, Waiting, Now
  <2>3. Walk(plan[run], run, pc, "landed", ledger, orphans) BY <2>1, <2>2 DEF RunTold
  <2>4. AtWork(plan[run], pc + 1, "none") BY <2>2 DEF AtWork, Phases
  <2>5. \A i \in 1..Len(StepsOf(plan[run])) : Did(pc, "landed", i) <=> Did(pc + 1, "none", i)
    BY <2>2 DEF Did
  <2>6. Walk(plan[run], run, pc + 1, "none", ledger, orphans)
    BY <2>2, <2>3, <2>4, <2>5, Stays
  <2>7. QED BY <1>12, <2>6 DEF Confirm, NextStep, RunTold
<1>13. CASE Killed \/ Ends BY <1>13 DEF Killed, Ends, RunTold
<1>14. QED BY <1>1, <1>2, <1>4, <1>5, <1>6, <1>7, <1>8, <1>9, <1>10, <1>11, <1>12, <1>13
           DEF Next, Working

\* What the current step's transaction may add to the books.
LEMMA SentFact ==
  ASSUME TypeOK, RunTold, tx = "sent"
  PROVE  LET f == CurrentFact IN
         /\ f.kind \in Paid => f \notin Told(ledger, orphans)
         /\ f.kind = "supply" => \E n \in 1..run : f.on = <<"pool", n>>
         /\ f.kind = "mint" => \E g \in DOMAIN ledger : g.kind = "init" /\ g.on = <<"token", 0>>
<1>1. /\ pc # 0 /\ AtStep /\ run \in Nat /\ run >= 1 /\ plan[run] \in Scripts
      /\ plan[run] # "seed" /\ pc \in 1..Len(StepsOf(plan[run]))
      /\ Current = StepsOf(plan[run])[pc] /\ CurrentFact = FactAt(plan[run], run, pc)
      /\ CurrentFact.kind = Current.op
  BY Waiting, Now
<1>2. Walk(plan[run], run, pc, "sent", ledger, orphans) BY <1>1 DEF RunTold
<1>3. CurrentFact.kind \in Paid =>
        /\ CurrentFact \notin Told(ledger, orphans)
        /\ CurrentFact.kind = "mint" =>
             \E g \in DOMAIN ledger : g.kind = "init" /\ g.on = <<"token", 0>>
  BY <1>1, <1>2, Fresh
<1>4. ASSUME CurrentFact.kind = "supply" PROVE \E n \in 1..run : CurrentFact.on = <<"pool", n>>
  <2>1. CurrentFact.on = RefOf(plan[run], "pool", run) BY <1>1, <1>4, Kinds
  <2>2. plan[run] \in {"testnet", "mainnet"}
    <3>1. plan[run] # "pay" BY <1>1, <1>4, Scripted
    <3>2. QED BY <1>1, <3>1 DEF Scripts
  <2>3. RefOf(plan[run], "pool", run) = <<"pool", run>> BY <2>2 DEF RefOf, Roles
  <2>4. run \in 1..run BY <1>1
  <2>5. QED BY <2>1, <2>3, <2>4
<1>5. QED BY <1>3, <1>4 DEF Paid

\* Every action keeps the books.
LEMMA BooksNext ==
  ASSUME TypeOK, RunTold, Books, Next
  PROVE  Books'
<1>1. run \in Nat BY DEF TypeOK
<1>2. PaidOnce(ledger, orphans) /\ Sourced(Told(ledger, orphans), ledger, run) BY DEF Books
<1>3. CASE Begin
  <2>1. run + 1 \in Nat /\ run <= run + 1 BY <1>1
  <2>2. Sourced(Told(ledger, orphans), ledger, run + 1)
    <3> DEFINE R == run + 1
    <3>1. R \in Nat /\ \A n \in 1..run : n \in 1..R BY <1>1
    <3> HIDE DEF R
    <3>2. Sourced(Told(ledger, orphans), ledger, R) BY <1>2, <3>1 DEF Sourced
    <3>3. QED BY <3>2 DEF R
  <2>3. QED BY <1>2, <1>3, <2>2 DEF Begin, Books
<1>4. CASE UNCHANGED <<run, ledger, orphans>> BY <1>2, <1>4 DEF Books
<1>5. CASE Lands
  <2> DEFINE f == CurrentFact
  <2>1. /\ tx = "sent" /\ ledger' = BagAdd(ledger, f) /\ orphans' \subseteq orphans /\ run' = run
    BY <1>5 DEF Lands
  <2>2. /\ f.kind \in Paid => f \notin Told(ledger, orphans)
        /\ f.kind = "supply" => \E n \in 1..run : f.on = <<"pool", n>>
        /\ f.kind = "mint" => \E g \in DOMAIN ledger : g.kind = "init" /\ g.on = <<"token", 0>>
    BY <2>1, SentFact
  <2>3. DOMAIN BagAdd(ledger, f) = DOMAIN ledger \cup {f} BY BagAddFacts
  <2>4. /\ Told(ledger', orphans') \subseteq Told(ledger, orphans) \cup {f}
        /\ DOMAIN ledger \subseteq DOMAIN ledger'
    BY <2>1, <2>3 DEF Told
  <2> HIDE DEF f
  <2>5. PaidOnce(ledger', orphans') BY <1>2, <2>1, <2>2, PaidLands
  <2>6. Sourced(Told(ledger', orphans'), ledger', run)
    BY <1>1, <1>2, <2>2, <2>4, SourcedOn
  <2>7. QED BY <2>1, <2>5, <2>6 DEF Books
<1>6. CASE OrphanLands
  <2>1. PICK o \in orphans :
           /\ orphans' = orphans \ {o}
           /\ ledger' = ledger \/ ledger' = BagAdd(ledger, o.fact)
           /\ tx' = tx \/ (tx = "sent" /\ tx' = "dead")
           /\ UNCHANGED <<plan, treasury, run, pc, env, faults>>
    BY <1>6, OrphanFields
  <2>2. PaidOnce(ledger', orphans') BY <1>2, <2>1, PaidApart
  <2>3. DOMAIN ledger \subseteq DOMAIN ledger' /\ Told(ledger', orphans') \subseteq Told(ledger, orphans)
    BY <2>1, OrphanTold
  <2>4. Sourced(Told(ledger', orphans'), ledger', run) BY <1>2, <2>3 DEF Sourced
  <2>5. QED BY <2>1, <2>2, <2>4 DEF Books
<1>7. CASE RequestFails /\ tx = "sent"
  <2> DEFINE f == CurrentFact
  <2>1. /\ orphans' = orphans \cup {[fact |-> f, run |-> run]}
        /\ ledger' = ledger /\ run' = run
    BY <1>7 DEF RequestFails
  <2>2. /\ f.kind \in Paid => f \notin Told(ledger, orphans)
        /\ f.kind = "supply" => \E n \in 1..run : f.on = <<"pool", n>>
        /\ f.kind = "mint" => \E g \in DOMAIN ledger : g.kind = "init" /\ g.on = <<"token", 0>>
    BY <1>7, SentFact
  <2> HIDE DEF f
  <2>3. Told(ledger', orphans') \subseteq Told(ledger, orphans) \cup {f} BY <2>1 DEF Told
  <2>4. PaidOnce(ledger', orphans') BY <1>2, <2>1, <2>2, PaidSent
  <2>5. Sourced(Told(ledger', orphans'), ledger', run)
    <3>1. DOMAIN ledger \subseteq DOMAIN ledger' /\ run <= run BY <1>1, <2>1
    <3>2. QED BY <1>1, <1>2, <2>2, <2>3, <3>1, SourcedOn
  <2>6. QED BY <2>1, <2>4, <2>5 DEF Books
<1>8. CASE RequestFails /\ tx # "sent" BY <1>4, <1>8 DEF RequestFails
<1>9. CASE Skip \/ SkipSeeding \/ SendTx \/ SimulationFails \/ Confirm
           \/ GivesUp \/ WriteEnv \/ Ends \/ Killed
  BY <1>4, <1>9 DEF Skip, SkipSeeding, SendTx, SimulationFails, Confirm,
                    GivesUp, WriteEnv, Ends, Killed
<1>10. QED BY <1>3, <1>5, <1>6, <1>7, <1>8, <1>9 DEF Next, Working

\* Nothing leaves the ledger.
LEMMA LedgerGrows ==
  ASSUME Next PROVE DOMAIN ledger \subseteq DOMAIN ledger'
<1>1. CASE Lands
  <2>1. ledger' = BagAdd(ledger, CurrentFact) BY <1>1 DEF Lands
  <2>2. DOMAIN BagAdd(ledger, CurrentFact) = DOMAIN ledger \cup {CurrentFact} BY BagAddFacts
  <2>3. QED BY <2>1, <2>2
<1>2. CASE OrphanLands
  <2>1. PICK o \in orphans : ledger' = ledger \/ ledger' = BagAdd(ledger, o.fact)
    BY <1>2, OrphanFields
  <2>2. DOMAIN BagAdd(ledger, o.fact) = DOMAIN ledger \cup {o.fact} BY BagAddFacts
  <2>3. QED BY <2>1, <2>2
<1>3. CASE ledger' = ledger BY <1>3
<1>4. CASE Begin \/ Skip \/ SkipSeeding \/ SendTx \/ SimulationFails \/ Confirm
           \/ GivesUp \/ WriteEnv \/ Ends \/ Killed \/ RequestFails
  BY <1>3, <1>4 DEF Begin, Skip, SkipSeeding, SendTx, SimulationFails, Confirm,
                    GivesUp, WriteEnv, Ends, Killed, RequestFails
<1>5. QED BY <1>1, <1>2, <1>4 DEF Next, Working

\* A run that writes env files has done all that is required.
LEMMA WritesAll ==
  ASSUME TypeOK, RunTold, AtStep, Current.op = "env"
  PROVE  /\ plan[run] \in {"testnet", "mainnet"}
         /\ \A step \in RequiredOf(plan[run]) : FactOf(plan[run], step, run) \in DOMAIN ledger
<1>1. /\ pc # 0 /\ run \in Nat /\ plan[run] \in Scripts /\ pc \in 1..Len(StepsOf(plan[run]))
      /\ Current = StepsOf(plan[run])[pc] /\ Len(StepsOf(plan[run])) \in Nat
  BY Now DEF AtStep
<1>2. Walk(plan[run], run, pc, tx, ledger, orphans) BY <1>1 DEF RunTold
<1> DEFINE s == StepsOf(plan[run])
<1>3. plan[run] \in {"testnet", "mainnet"}
  <2>1. plan[run] # "pay" BY <1>1, Scripted
  <2>2. plan[run] # "seed" BY NotSeed DEF Seeding
  <2>3. QED BY <1>1, <2>1, <2>2 DEF Scripts
<1>4. Order(s, RequiredOf(plan[run])) BY <1>1, <1>3, Scripted
<1> SUFFICES ASSUME NEW step \in RequiredOf(plan[run])
             PROVE  FactOf(plan[run], step, run) \in DOMAIN ledger
  BY <1>3
<1>5. PICK i \in 1..Len(s) : s[i] = step BY <1>4 DEF Order, Holds
<1>6. step.op \in Musts BY DEF RequiredOf, TestnetRequired, MainnetRequired, Step, Musts
<1>7. step.op \in Early BY <1>6 DEF Musts, Early
<1>8. s[pc].op \notin Early BY <1>1 DEF Early
<1>9. i < pc BY <1>1, <1>4, <1>5, <1>7, <1>8 DEF Order
<1>10. FactAt(plan[run], run, i) \in DOMAIN ledger
  BY <1>2, <1>5, <1>6, <1>9 DEF Walk, Laid, Did
<1>11. QED BY <1>5, <1>10 DEF FactAt

\* Every action keeps what the env files name.
LEMMA EnvNext ==
  ASSUME TypeOK, RunTold, EnvTold, Next
  PROVE  EnvTold'
<1>1. DOMAIN ledger \subseteq DOMAIN ledger' BY LedgerGrows
<1>2. CASE UNCHANGED <<plan, env>>
  <2>1. SUFFICES ASSUME NEW file \in ToSet(EnvFiles), env[file] # 0,
                        NEW step \in RequiredOf(plan[env[file]])
                 PROVE  FactOf(plan[env[file]], step, env[file]) \in DOMAIN ledger'
    BY <1>2 DEF EnvTold
  <2>2. FactOf(plan[env[file]], step, env[file]) \in DOMAIN ledger BY <2>1 DEF EnvTold
  <2>3. QED BY <1>1, <2>2
<1>3. CASE WriteEnv
  <2>1. /\ AtStep /\ Current.op = "env" /\ plan' = plan
        /\ \A file \in ToSet(EnvFiles) : env'[file] = env[file] \/ env'[file] = run
    BY <1>3 DEF WriteEnv, TypeOK
  <2>2. SUFFICES ASSUME NEW file \in ToSet(EnvFiles), env'[file] # 0
                 PROVE  /\ plan[env'[file]] \in {"testnet", "mainnet"}
                        /\ \A step \in RequiredOf(plan[env'[file]]) :
                             FactOf(plan[env'[file]], step, env'[file]) \in DOMAIN ledger'
    BY <2>1 DEF EnvTold
  <2>3. CASE env'[file] = env[file]
    <3>1. /\ plan[env[file]] \in {"testnet", "mainnet"}
          /\ \A step \in RequiredOf(plan[env[file]]) :
               FactOf(plan[env[file]], step, env[file]) \in DOMAIN ledger
      BY <2>2, <2>3 DEF EnvTold
    <3>2. QED BY <1>1, <2>3, <3>1
  <2>4. CASE env'[file] = run
    <3>1. /\ plan[run] \in {"testnet", "mainnet"}
          /\ \A step \in RequiredOf(plan[run]) : FactOf(plan[run], step, run) \in DOMAIN ledger
      BY <2>1, WritesAll
    <3>2. QED BY <1>1, <2>4, <3>1
  <2>5. QED BY <2>1, <2>3, <2>4
<1>4. CASE OrphanLands
  <2>1. UNCHANGED <<plan, env>> BY <1>4, OrphanFields
  <2>2. QED BY <1>2, <2>1
<1>5. CASE Begin \/ Skip \/ SkipSeeding \/ SendTx \/ SimulationFails \/ Confirm
           \/ GivesUp \/ Lands \/ Ends \/ Killed \/ RequestFails
  BY <1>2, <1>5 DEF Begin, Skip, SkipSeeding, SendTx, SimulationFails, Confirm,
                    GivesUp, Lands, Ends, Killed, RequestFails
<1>6. QED BY <1>3, <1>4, <1>5 DEF Next, Working

\* The invariant holds at first.
LEMMA InvInit == Init => Inv
<1> SUFFICES ASSUME Init PROVE Inv OBVIOUS
<1>1. TypeOK BY TypeInit
<1>2. RunTold BY DEF Init, RunTold
<1>3. EnvTold BY DEF Init, EnvTold
<1>4. Books
  <2>1. orphans = {} /\ run = 0 BY DEF Init
  <2>2. \A f \in DOMAIN ledger : f.kind = "contract" BY DEF Init, SetToBag, Fact
  <2>3. \A f \in Told(ledger, orphans) : f.kind = "contract" BY <2>1, <2>2 DEF Told
  <2>4. PaidOnce(ledger, orphans) BY <2>1, <2>2 DEF PaidOnce, Paid
  <2>5. Sourced(Told(ledger, orphans), ledger, run) BY <2>3 DEF Sourced
  <2>6. QED BY <2>4, <2>5 DEF Books
<1>5. QED BY <1>1, <1>2, <1>3, <1>4 DEF Inv

\* Every step keeps the invariant.
LEMMA InvNext == Inv /\ [Next]_vars => Inv'
<1> SUFFICES ASSUME Inv, [Next]_vars PROVE Inv' OBVIOUS
<1>1. CASE Next
  BY <1>1, TypeNext, RunNext, BooksNext, EnvNext, Zenon DEF Inv
<1>2. CASE UNCHANGED vars
  <2>1. UNCHANGED <<plan, treasury, run, pc, tx, ledger, orphans, env, faults>>
    BY <1>2 DEF vars
  <2>2. TypeOK' BY <2>1 DEF Inv, TypeOK, AtStep, Steps, Script, IsABag
  <2>3. RunTold' /\ Books' /\ EnvTold'
    BY <2>1 DEF Inv, RunTold, Books, EnvTold
  <2>4. QED BY <2>2, <2>3 DEF Inv
<1>3. QED BY <1>1, <1>2

\* However the scripts are started and wherever they fail, each run has done
\* what its place in its script says, and the ledger keeps every payment once
\* (deploy-and-setup.js, deploy-mainnet.js, main).
THEOREM DeploymentInvariant == Spec => []Inv
BY InvInit, InvNext, PTL DEF Spec

-----------------------------------------------------------------------------
\* A step that is required has its fact on the ledger.
LEMMA RequiredHas ==
  ASSUME NEW r, NEW R, \A step \in R : FactOf(plan[r], step, r) \in DOMAIN ledger,
         NEW op, NEW x, Step(op, x) \in R
  PROVE  StepFact(op, x, r) \in DOMAIN ledger
<1>1. Step(op, x).op = op /\ Step(op, x).x = x BY DEF Step
<1>2. StepFact(Step(op, x).op, Step(op, x).x, r) = FactOf(plan[r], Step(op, x), r)
  BY FactIs, Zenon
<1>3. StepFact(op, x, r) = FactOf(plan[r], Step(op, x), r) BY <1>1, <1>2, Zenon
<1>4. QED BY <1>3

\* What is required is what a system that is set up consists of.
LEMMA RequiredSetUp ==
  ASSUME NEW r, plan[r] \in {"testnet", "mainnet"},
         \A step \in RequiredOf(plan[r]) : FactOf(plan[r], step, r) \in DOMAIN ledger
  PROVE  SetUp(r)
<1> DEFINE testnet == Script(r) = "testnet"
           R == RequiredOf(plan[r])
<1>1. /\ testnet => R = TestnetRequired
      /\ ~testnet => plan[r] = "mainnet" /\ R = MainnetRequired
  BY DEF RequiredOf, Script
<1>2. \A op, x : Step(op, x) \in R => StepFact(op, x, r) \in DOMAIN ledger
  BY RequiredHas
<1> HIDE DEF R
<1>3. ASSUME NEW role, Step("init", role) \in R PROVE HasKind("init", Ref(role, r))
  <2>1. StepFact("init", role, r) \in DOMAIN ledger BY <1>2, <1>3
  <2> DEFINE to == CASE role = "engine" -> <<Ref("pool", r), Ref("backstop", r), <<"usdc", 0>>>>
                     [] role = "backstop" -> <<Ref("engine", r), <<"usdc", 0>>>>
                     [] OTHER -> <<>>
  <2>2. StepFact("init", role, r) = Fact("init", Ref(role, r), to) BY DEF StepFact
  <2> HIDE DEF to
  <2>3. Fact("init", Ref(role, r), to).kind = "init" /\ Fact("init", Ref(role, r), to).on = Ref(role, r)
    BY DEF Fact
  <2>4. QED BY <2>1, <2>2, <2>3 DEF HasKind, BagToSet
<1>4. ASSUME NEW role \in Roles, role = "token" => ~testnet PROVE HasKind("init", Ref(role, r))
  <2>1. CASE testnet
    <3>1. Step("init", role) \in R BY <1>1, <1>4, <2>1 DEF TestnetRequired
    <3>2. QED BY <1>3, <3>1
  <2>2. CASE ~testnet /\ role \in {"oracle", "compliance", "token", "engine", "pool"}
    <3>1. Step("init", role) \in R BY <1>1, <2>2 DEF MainnetRequired
    <3>2. QED BY <1>3, <3>1
  <2>3. CASE ~testnet /\ role \in {"backstop", "governance"}
    <3>1. Step("init", "compliance") \in R BY <1>1, <2>3 DEF MainnetRequired
    <3>2. HasKind("init", Ref("compliance", r)) BY <1>3, <3>1
    <3>3. Script(r) = "mainnet" BY <1>1, <2>3 DEF Script
    <3>4. Ref(role, r) = <<"compliance", 0>> BY <2>3, <3>3 DEF Ref
    <3>5. Ref("compliance", r) = <<"compliance", 0>> BY <3>3 DEF Ref
    <3>6. QED BY <3>2, <3>4, <3>5
  <2>4. QED BY <2>1, <2>2, <2>3 DEF Roles
<1>5. Has(Fact("init", Ref("engine", r), <<Ref("pool", r), Ref("backstop", r), <<"usdc", 0>>>>))
  <2>1. Step("init", "engine") \in R BY <1>1 DEF TestnetRequired, MainnetRequired, Roles
  <2>2. StepFact("init", "engine", r) \in DOMAIN ledger BY <1>2, <2>1
  <2>3. StepFact("init", "engine", r)
          = Fact("init", Ref("engine", r), <<Ref("pool", r), Ref("backstop", r), <<"usdc", 0>>>>)
    BY DEF StepFact
  <2>4. QED BY <2>2, <2>3 DEF Has, BagIn, BagToSet
<1>6. ASSUME testnet PROVE Has(Fact("init", Ref("backstop", r), <<Ref("engine", r), <<"usdc", 0>>>>))
  <2>1. Step("init", "backstop") \in R BY <1>1, <1>6 DEF TestnetRequired, Roles
  <2>2. StepFact("init", "backstop", r) \in DOMAIN ledger BY <1>2, <2>1
  <2>3. StepFact("init", "backstop", r)
          = Fact("init", Ref("backstop", r), <<Ref("engine", r), <<"usdc", 0>>>>)
    BY DEF StepFact
  <2>4. QED BY <2>2, <2>3 DEF Has, BagIn, BagToSet
<1>7. ASSUME NEW role \in {"oracle", "backstop", "compliance", "engine"}
                          \cup (IF testnet THEN {} ELSE {"governance"})
      PROVE  Has(Fact("dep", Ref("pool", r), <<<<role, 0>>, Ref(role, r)>>))
  <2>1. Step("dep", role) \in R BY <1>1 DEF TestnetRequired, MainnetRequired
  <2>2. StepFact("dep", role, r) \in DOMAIN ledger BY <1>2, <2>1
  <2>3. StepFact("dep", role, r) = Fact("dep", Ref("pool", r), <<<<role, 0>>, Ref(role, r)>>)
    BY DEF StepFact
  <2>4. QED BY <2>2, <2>3 DEF Has, BagIn, BagToSet
<1>8. ASSUME NEW m \in ToSet(Markets)
      PROVE  Has(Fact("market", Ref("pool", r), <<<<m, 0>>>>))
  <2>1. Step("market", m) \in R BY <1>1 DEF TestnetRequired, MainnetRequired
  <2>2. StepFact("market", m, r) \in DOMAIN ledger BY <1>2, <2>1
  <2>3. StepFact("market", m, r) = Fact("market", Ref("pool", r), <<<<m, 0>>>>) BY DEF StepFact
  <2>4. QED BY <2>2, <2>3 DEF Has, BagIn, BagToSet
<1>9. ASSUME testnet, NEW m \in ToSet(Markets)
      PROVE  Has(Fact("issuer", Ref("compliance", r), <<<<m, 0>>>>))
  <2>1. Step("issuer", m) \in R BY <1>1, <1>9 DEF TestnetRequired
  <2>2. StepFact("issuer", m, r) \in DOMAIN ledger BY <1>2, <2>1
  <2>3. StepFact("issuer", m, r) = Fact("issuer", Ref("compliance", r), <<<<m, 0>>>>)
    BY DEF StepFact
  <2>4. QED BY <2>2, <2>3 DEF Has, BagIn, BagToSet
<1>10. ASSUME ~testnet, NEW x \in ToSet(Feeds)
       PROVE  Has(Fact("feed", Ref("oracle", r), <<<<x, 0>>>>))
  <2>1. Step("feed", x) \in R BY <1>1, <1>10 DEF MainnetRequired
  <2>2. StepFact("feed", x, r) \in DOMAIN ledger BY <1>2, <2>1
  <2>3. StepFact("feed", x, r) = Fact("feed", Ref("oracle", r), <<<<x, 0>>>>) BY DEF StepFact
  <2>4. QED BY <2>2, <2>3 DEF Has, BagIn, BagToSet
<1>11. QED BY <1>4, <1>5, <1>6, <1>7, <1>8, <1>9, <1>10 DEF SetUp

\* No env file names contracts that the scripts have set up in part only, for any
\* lists of assets, markets and feeds and any number of faults: every step of the
\* set-up comes before the env files and ends the run when it fails (main of both
\* deployments).
THEOREM EnvSetUp == Spec => []EnvNamesASetUpSystem
<1>1. Inv => EnvNamesASetUpSystem
  <2> SUFFICES ASSUME Inv, NEW file \in ToSet(EnvFiles), env[file] # 0 PROVE SetUp(env[file])
    BY DEF EnvNamesASetUpSystem, Inv
  <2>1. QED BY RequiredSetUp DEF Inv, EnvTold
<1>2. QED BY <1>1, DeploymentInvariant, PTL

\* However often the deployments are started and whatever is given up on, no
\* market of a pool is seeded twice and the treasury is minted once (sendTx and
\* main of deploy-mainnet.js, seedLiquidity of deploy-and-setup.js).
THEOREM PaidOnlyOnce == Spec => []NothingPaidTwice
<1>1. Inv => NothingPaidTwice BY DEF Inv, Books, PaidOnce, Paid, NothingPaidTwice, BagToSet
<1>2. QED BY <1>1, DeploymentInvariant, PTL
=============================================================================
