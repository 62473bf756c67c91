-------------------------- MODULE Orchestrator_proofs --------------------------
(***************************************************************************)
(* The registry and the inbox tell one story for any strategies, ids,      *)
(* proposals, answers and costs, however many cycles there are and         *)
(* wherever they crash.                                                    *)
(*                                                                         *)
(* The invariant ties what a cycle holds in memory to what it has written: *)
(* which candidates are in the registry by now, which have their evidence, *)
(* which verdict is being filed.                                           *)
(***************************************************************************)
EXTENDS Orchestrator, Totals_proofs, SequenceTheorems

ProposedIds == {work.proposal[k].id : k \in DOMAIN work.proposal}

\* The stages in which the critic's verdicts are not recorded yet.
Unjudged == {"upsert", "record", "backtest_agent", "triage", "critic"}
Routing == {"route", "file", "mark"}

\* What the memory of a cycle may hold in which stage.
MemoryOK ==
  /\ stage \in {"idle", "market_context"} => work = Fresh
  /\ stage = "strategy_lab" => work.proposal = << >> /\ work.evidence = << >>
  /\ stage = "upsert" => work.evidence = << >>
  /\ stage # "idle" => cycle \in 1 .. MaxCycles
  /\ stage \in {"upsert", "triage"} => ToSet(work.todo) \subseteq ProposedIds
  /\ stage = "record" => ToSet(work.todo) \subseteq ToSet(work.evidence)
  /\ stage = "triage" => ToSet(work.todo) \subseteq Tested
  /\ stage \in Routing => \A v \in ToSet(work.todo) : v.id \in work.survivors
  /\ ToSet(work.evidence) \subseteq DOMAIN work.proposal
  /\ stage \in {"triage", "critic"} \union Routing => work.survivors \subseteq Tested
  /\ stage \in {"file", "mark"} =>
       work.todo # << >> /\ Head(work.todo).verdict = "survive_for_now"

\* The registry holds an entry of this cycle for each candidate that was
\* upserted, and its evidence once it was recorded; no verdict yet until the
\* critic's are routed, and no authorization while it runs.
RegistryWritten ==
  \A id \in ProposedIds :
    \/ stage = "upsert" /\ id \in ToSet(work.todo)
    \/ LET e == registry[Identity(id)]
       IN  /\ e # None
           /\ e.run = cycle
           /\ e.state \notin AuthorizingStates
           /\ stage \in Unjudged =>
                e.verdict = None /\ e.state \in {"proposed", "backtested", "killed"}
           /\ stage \in {"upsert", "record", "backtest_agent"} => e.state # "killed"

EvidenceWritten ==
  \A k \in ToSet(work.evidence) :
    \/ stage = "record" /\ k \in ToSet(work.todo)
    \/ registry[Identity(work.proposal[k].id)].evidence # None

\* The survivor that is being filed is in the registry, and then in the inbox.
BeingFiled == Identity(Head(work.todo).id)
SurvivorWritten ==
  /\ stage \in {"file", "mark"} => registry[BeingFiled].state = "survived_for_now"
  /\ stage = "mark" =>
       \E k \in DOMAIN queue : queue[k].identity = BeingFiled /\ queue[k].cycle = cycle

FiledOnce ==
  /\ \A j, k \in DOMAIN queue : Matches(queue[j], queue[k]) => j = k
  /\ \A k \in DOMAIN queue : queue[k].cycle \in 1 .. MaxCycles

CycleInv ==
  /\ TypeOK
  /\ MemoryOK
  /\ RegistryWritten
  /\ EvidenceWritten
  /\ SurvivorWritten
  /\ FiledOnce
  /\ TrailComplete
  /\ QueuedHasEntry
  /\ NoSurvivorDropped

-----------------------------------------------------------------------------
(* Numbers and sequences *)

\* The last of a set of positions.
LEMMA LastPosition ==
  ASSUME NEW n \in Nat, NEW S \in SUBSET (1 .. n), S # {}
  PROVE  Max(S) \in S /\ \A k \in S : k <= Max(S)
<1> DEFINE Above == {m \in Nat : \A k \in S : k <= m}
<1>1. PICK m \in Above : \A j \in Above : m <= j
  <2>1. n \in Above
    OBVIOUS
  <2> QED BY <2>1, LeastElement
<1>2. m \in S
  <2>1. ASSUME m \notin S PROVE FALSE
    <3>1. PICK k \in S : TRUE
      OBVIOUS
    <3>2. k \in Nat /\ k >= 1 /\ k <= m
      BY <1>1
    <3>3. m - 1 \in Nat
      BY <3>2
    <3>4. \A j \in S : j <= m - 1
      BY <1>1, <2>1
    <3> QED BY <1>1, <3>3, <3>4
  <2> QED BY <2>1
<1>3. \A k \in S : m >= k
  BY <1>1
<1> QED BY <1>2, <1>3 DEF Max

LEMMA RangeOfAppend ==
  ASSUME NEW T, NEW s \in Seq(T), NEW e \in T
  PROVE  ToSet(Append(s, e)) = ToSet(s) \union {e}
<1>1. DOMAIN Append(s, e) = DOMAIN s \union {Len(s) + 1}
  OBVIOUS
<1>2. \A k \in DOMAIN s : Append(s, e)[k] = s[k]
  OBVIOUS
<1>3. Append(s, e)[Len(s) + 1] = e
  OBVIOUS
<1> QED BY <1>1, <1>2, <1>3 DEF ToSet

\* The loop of InOrder is well defined, and collects the positions in S.
LEMMA OrderedPositions ==
  ASSUME NEW n \in Nat, NEW S
  PROVE  /\ InOrder(n, S) \in Seq(S \intersect (1 .. n))
         /\ ToSet(InOrder(n, S)) = S \intersect (1 .. n)
<1> DEFINE Step(g, k) == IF k = 0 THEN << >>
                         ELSE IF k \in S THEN Append(g[k - 1], k) ELSE g[k - 1]
           IsLoop(g, m) == g = [k \in 0 .. m |-> Step(g, k)]
           Undefined == {m \in Nat : ~ \E g : IsLoop(g, m)}
<1>1. Undefined = {}
  <2>1. ASSUME Undefined # {} PROVE FALSE
    <3>1. PICK m \in Undefined : \A j \in Undefined : m <= j
      BY <2>1, LeastElement
    <3>2. m \in Nat /\ ~ \E g : IsLoop(g, m)
      OBVIOUS
    <3>3. CASE m = 0
      <4>1. IsLoop([k \in 0 .. 0 |-> << >>], 0)
        OBVIOUS
      <4> QED BY <3>2, <3>3, <4>1
    <3>4. CASE m # 0
      <4>1. m - 1 \in Nat /\ m - 1 \notin Undefined
        <5> HIDE DEF Undefined
        <5> QED BY <3>1, <3>2, <3>4
      <4>2. PICK g : IsLoop(g, m - 1)
        BY <4>1
      <4> DEFINE h == [k \in 0 .. m |-> IF k = m THEN Step(g, m) ELSE g[k]]
      <4>3. \A k \in 0 .. m - 1 : h[k] = g[k] /\ g[k] = Step(g, k)
        <5>1. \A k \in 0 .. m - 1 : k \in 0 .. m /\ k # m
          BY <3>2
        <5> QED BY <4>2, <5>1
      <4>4. \A k \in 0 .. m : Step(h, k) = Step(g, k)
        <5>1. \A k \in 0 .. m : k = 0 \/ k - 1 \in 0 .. m - 1
          BY <3>2
        <5> QED BY <4>3, <5>1
      <4>5. \A k \in 0 .. m : h[k] = Step(h, k)
        <5>1. \A k \in 0 .. m : k = m \/ k \in 0 .. m - 1
          BY <3>2
        <5>2. h[m] = Step(g, m)
          BY <3>2
        <5> HIDE DEF Step, h
        <5>3. m \in 0 .. m /\ \A k \in 0 .. m - 1 : k \in 0 .. m
          BY <3>2
        <5> QED BY <4>3, <4>4, <5>1, <5>2, <5>3
      <4>6. IsLoop(h, m)
        <5> HIDE DEF Step
        <5> QED BY <4>5
      <4> QED BY <3>2, <4>6
    <3> QED BY <3>3, <3>4
  <2> QED BY <2>1
<1> DEFINE upTo == CHOOSE g : IsLoop(g, n)
<1>2. IsLoop(upTo, n)
  BY <1>1
<1>3. InOrder(n, S) = upTo[n]
  BY DEF InOrder
<1> HIDE DEF upTo
<1> DEFINE Right(k) == upTo[k] \in Seq(S \intersect (1 .. k))
                       /\ ToSet(upTo[k]) = S \intersect (1 .. k)
           Wrong == {k \in 0 .. n : ~ Right(k)}
<1>4. Wrong = {}
  <2>1. ASSUME Wrong # {} PROVE FALSE
    <3> HIDE DEF Right
    <3>0. Wrong \subseteq Nat
      OBVIOUS
    <3>1. PICK k \in Wrong : \A j \in Wrong : k <= j
      <4> HIDE DEF Wrong
      <4> QED BY <2>1, <3>0, LeastElement
    <3>2. k \in 0 .. n /\ ~ Right(k)
      OBVIOUS
    <3>3. CASE k = 0
      <4>1. upTo[0] = << >>
        BY <1>2
      <4>2. << >> \in Seq(S \intersect (1 .. 0)) /\ ToSet(<< >>) = {} /\ 1 .. 0 = {}
        BY EmptySeq DEF ToSet
      <4> QED BY <3>2, <3>3, <4>1, <4>2 DEF Right
    <3>4. CASE k # 0
      <4>1. k - 1 \in 0 .. n /\ k - 1 \notin Wrong
        BY <3>1, <3>2, <3>4
      <4>2. Right(k - 1)
        BY <4>1
      <4>3. upTo[k] = IF k \in S THEN Append(upTo[k - 1], k) ELSE upTo[k - 1]
        BY <1>2, <3>2, <3>4
      <4>4. 1 .. k = 1 .. k - 1 \union {k}
        BY <3>2, <3>4
      <4>5. CASE k \notin S
        <5>1. S \intersect (1 .. k) = S \intersect (1 .. k - 1)
          BY <4>4, <4>5
        <5> QED BY <3>2, <4>2, <4>3, <4>5, <5>1 DEF Right
      <4>6. CASE k \in S
        <5>1. upTo[k - 1] \in Seq(S \intersect (1 .. k))
          BY <4>2, <4>4, SeqMonotonic DEF Right
        <5>2. upTo[k] = Append(upTo[k - 1], k) /\ k \in S \intersect (1 .. k)
          BY <4>3, <4>4, <4>6
        <5>3. upTo[k] \in Seq(S \intersect (1 .. k))
          BY <5>1, <5>2
        <5>4. ToSet(upTo[k]) = ToSet(upTo[k - 1]) \union {k}
          BY <5>1, <5>2, RangeOfAppend
        <5>5. S \intersect (1 .. k) = (S \intersect (1 .. k - 1)) \union {k}
          BY <4>4, <4>6
        <5> QED BY <3>2, <4>2, <5>3, <5>4, <5>5 DEF Right
      <4> QED BY <4>5, <4>6
    <3> QED BY <3>3, <3>4
  <2> QED BY <2>1
<1>5. Right(n)
  <2> HIDE DEF Right
  <2>1. n \in 0 .. n
    OBVIOUS
  <2> QED BY <1>4, <2>1
<1> QED BY <1>3, <1>5

-----------------------------------------------------------------------------
(* Candidates by id *)

LEMMA CandidateFields ==
  ASSUME NEW p \in Seq(Candidate), NEW k \in DOMAIN p
  PROVE  p[k].id \in Ids /\ p[k].identity \in Identities
<1>1. p[k] \in Candidate
  OBVIOUS
<1> QED BY <1>1 DEF Candidate

\* The keys of a dictionary are the ids of the candidates, each of them.
LEMMA KeysOfProposal ==
  ASSUME NEW p \in Seq(Candidate), NEW S
  PROVE  /\ Keys(p, S) \in Seq(Ids)
         /\ ToSet(Keys(p, S)) = {p[k].id : k \in DOMAIN p} \intersect S
<1> DEFINE first == {k \in DOMAIN p :
                       p[k].id \in S /\ \A j \in 1 .. k - 1 : p[j].id # p[k].id}
           order == InOrder(Len(p), first)
<1>1. Len(p) \in Nat /\ DOMAIN p = 1 .. Len(p) /\ \A k \in DOMAIN p : p[k].id \in Ids
  BY CandidateFields
<1>2. order \in Seq(first) /\ ToSet(order) = first
  <2>1. first \intersect (1 .. Len(p)) = first
    BY <1>1
  <2> HIDE DEF first
  <2> QED BY <1>1, <2>1, OrderedPositions
<1>3. Keys(p, S) = [n \in DOMAIN order |-> p[order[n]].id]
  BY DEF Keys
<1> HIDE DEF order
<1>4. \A n \in DOMAIN order : order[n] \in first
  <2> HIDE DEF first
  <2> QED BY <1>2
<1>5. \A n \in DOMAIN order : p[order[n]].id \in Ids
  BY <1>1, <1>4
<1>6. Keys(p, S) \in Seq(Ids)
  <2>1. DOMAIN order = 1 .. Len(order) /\ Len(order) \in Nat
    <3> HIDE DEF first
    <3> QED BY <1>2
  <2> HIDE DEF first
  <2> QED BY <1>3, <1>5, <2>1
<1>7. ToSet(Keys(p, S)) = {p[k].id : k \in first}
  <2>1. ToSet(Keys(p, S)) = {p[order[n]].id : n \in DOMAIN order}
    BY <1>3 DEF ToSet
  <2>2. first = {order[n] : n \in DOMAIN order}
    BY <1>2 DEF ToSet
  <2> HIDE DEF first
  <2> QED BY <2>1, <2>2
<1>8. ASSUME NEW k \in DOMAIN p, p[k].id \in S
      PROVE  \E j \in first : p[j].id = p[k].id
  <2> DEFINE same == {j \in DOMAIN p : p[j].id = p[k].id}
  <2>1. same \subseteq Nat /\ same # {}
    BY <1>1, <1>8
  <2>2. PICK j \in same : \A n \in same : j <= n
    <3> HIDE DEF same
    <3> QED BY <2>1, LeastElement
  <2>3. \A n \in 1 .. j - 1 : n \in DOMAIN p /\ ~(j <= n)
    BY <1>1, <2>2
  <2>4. j \in first
    BY <1>8, <2>2, <2>3
  <2> QED BY <2>2, <2>4
<1>9. {p[k].id : k \in first} \subseteq {p[k].id : k \in DOMAIN p} \intersect S
  OBVIOUS
<1> HIDE DEF first
<1> QED BY <1>6, <1>7, <1>8, <1>9

\* A candidate id has an identity.
LEMMA IdentityType ==
  ASSUME NEW p \in Seq(Candidate), NEW k \in DOMAIN p
  PROVE  IdentityOf(p, p[k].id) \in Identities
<1> DEFINE same == {j \in DOMAIN p : p[j].id = p[k].id}
<1>1. same \subseteq 1 .. Len(p) /\ same # {} /\ Len(p) \in Nat
  OBVIOUS
<1>2. Max(same) \in same
  <2> HIDE DEF same
  <2> QED BY <1>1, LastPosition
<1>3. p[Max(same)].identity \in Identities
  BY <1>2, CandidateFields
<1> QED BY <1>3 DEF IdentityOf

\* What is tested has evidence.
LEMMA EvidenceType ==
  ASSUME NEW id \in Tested, work.proposal \in Seq(Candidate),
         ToSet(work.evidence) \subseteq DOMAIN work.proposal
  PROVE  EvidenceOf(id) \in Identities
<1> DEFINE mine == {k \in ToSet(work.evidence) : work.proposal[k].id = id}
<1>1. mine # {}
  BY DEF Tested
<1>2. mine \subseteq 1 .. Len(work.proposal) /\ Len(work.proposal) \in Nat
  OBVIOUS
<1>3. Max(mine) \in mine
  <2> HIDE DEF mine
  <2> QED BY <1>1, <1>2, LastPosition
<1>4. work.proposal[Max(mine)].identity \in Identities
  BY <1>3, CandidateFields
<1> QED BY <1>1, <1>4 DEF EvidenceOf

-----------------------------------------------------------------------------
(* What the invariant says of a state *)

LEMMA WorkType ==
  ASSUME TypeOK
  PROVE  /\ work.proposal \in Seq(Candidate)
         /\ work.proposal \in Proposals \union {<< >>}
         /\ work.evidence \in Seq(Nat)
         /\ work.todo \in Seq(Todo(stage))
         /\ work.cost \in Nat
<1>1. work \in Memory(stage)
  BY DEF TypeOK
<1>2. work.proposal \in Proposals \union {<< >>}
  BY <1>1 DEF Memory
<1>3. << >> \in Seq(Candidate) /\ Proposals \subseteq Seq(Candidate)
  BY EmptySeq, OrchestratorAssumption
<1> QED BY <1>1, <1>2, <1>3 DEF Memory

LEMMA ProposedIdentity ==
  ASSUME TypeOK, NEW id \in ProposedIds
  PROVE  Identity(id) \in Identities
BY WorkType, IdentityType DEF ProposedIds, Identity

LEMMA TestedProposed ==
  ASSUME TypeOK, MemoryOK
  PROVE  Tested \subseteq ProposedIds
BY DEF MemoryOK, Tested, ProposedIds

\* The head of a list and what remains of it.
LEMMA HeadAndRest ==
  ASSUME NEW T, NEW s \in Seq(T), s # << >>
  PROVE  /\ Head(s) \in T
         /\ Tail(s) \in Seq(T)
         /\ ToSet(s) = {Head(s)} \union ToSet(Tail(s))
<1>1. Len(s) \in Nat \ {0} /\ DOMAIN s = 1 .. Len(s)
  BY EmptySeq
<1>2. /\ Tail(s) \in Seq(T) /\ Len(Tail(s)) = Len(s) - 1
      /\ DOMAIN Tail(s) = 1 .. Len(s) - 1
      /\ \A k \in 1 .. Len(s) - 1 : Tail(s)[k] = s[k + 1]
  BY <1>1
<1>3. Head(s) = s[1] /\ 1 \in DOMAIN s
  BY <1>1
<1>4. \A k \in DOMAIN s : k = 1 \/ (k - 1 \in DOMAIN Tail(s) /\ Tail(s)[k - 1] = s[k])
  BY <1>1, <1>2
<1>5. \A k \in DOMAIN Tail(s) : k + 1 \in DOMAIN s /\ Tail(s)[k] = s[k + 1]
  BY <1>1, <1>2
<1>6. ToSet(s) \subseteq {Head(s)} \union ToSet(Tail(s))
  BY <1>3, <1>4 DEF ToSet
<1>7. {Head(s)} \union ToSet(Tail(s)) \subseteq ToSet(s)
  BY <1>3, <1>5 DEF ToSet
<1> QED BY <1>2, <1>3, <1>6, <1>7

\* A verdict to be routed is on a candidate that was tested, and whose entry of
\* this cycle has its evidence.
LEMMA VerdictAtHand ==
  ASSUME CycleInv, stage \in Routing, work.todo # << >>
  PROVE  LET v == Head(work.todo)
         IN  /\ v \in [id: Ids, verdict: Verdicts]
             /\ v.id \in Tested
             /\ v.id \in ProposedIds
             /\ Identity(v.id) \in Identities
             /\ registry[Identity(v.id)] \in RegistryEntry
             /\ registry[Identity(v.id)].run = cycle
             /\ registry[Identity(v.id)].evidence # None
             /\ registry[Identity(v.id)].state \notin AuthorizingStates
<1> DEFINE v == Head(work.todo)
           i == Identity(v.id)
<1>1. work.todo \in Seq([id: Ids, verdict: Verdicts])
  BY WorkType DEF CycleInv, Todo, Routing
<1>2. v \in [id: Ids, verdict: Verdicts] /\ v \in ToSet(work.todo)
  BY <1>1, HeadAndRest
<1>3. v.id \in Tested
  BY <1>2 DEF CycleInv, MemoryOK
<1>4. v.id \in ProposedIds
  BY <1>3, TestedProposed DEF CycleInv
<1>5. i \in Identities
  BY <1>4, ProposedIdentity DEF CycleInv
<1>6. stage # "upsert" /\ stage # "record"
  BY DEF Routing
<1>7. /\ registry[i] # None /\ registry[i].run = cycle
      /\ registry[i].state \notin AuthorizingStates
  BY <1>4, <1>6 DEF CycleInv, RegistryWritten
<1>8. registry[i] \in RegistryEntry
  BY <1>5, <1>7 DEF CycleInv, TypeOK, RegistryTypeOK
<1>9. registry[i].evidence # None
  <2>1. PICK k \in ToSet(work.evidence) : work.proposal[k].id = v.id
    BY <1>3 DEF Tested
  <2> QED BY <1>6, <2>1 DEF CycleInv, EvidenceWritten
<1> QED BY <1>2, <1>3, <1>4, <1>5, <1>7, <1>8, <1>9

-----------------------------------------------------------------------------
(* Steps that write nothing *)

LEMMA SameFiles ==
  ASSUME CycleInv, UNCHANGED <<registry, queue>>
  PROVE  /\ RegistryTypeOK' /\ QueueTypeOK'
         /\ TrailComplete' /\ QueuedHasEntry' /\ FiledOnce'
BY DEF CycleInv, TypeOK, RegistryTypeOK, QueueTypeOK, TrailComplete, QueuedHasEntry,
       FiledOnce, Matches, StateOf

\* A survivor that is not filed by the end of its cycle crashed with it.
LEMMA SameSurvivors ==
  ASSUME CycleInv, UNCHANGED registry, crashed \subseteq crashed',
         stage \in {"file", "mark"} => cycle \in crashed'
  PROVE  NoSurvivorDropped'
<1> SUFFICES ASSUME NEW i \in Identities, StateOf(i)' = "survived_for_now"
             PROVE  registry[i].run \in crashed'
  BY DEF NoSurvivorDropped
<1>1. StateOf(i) = "survived_for_now"
  BY DEF StateOf
<1>2. CASE registry[i].run \in crashed
  BY <1>2
<1>3. CASE stage \in {"file", "mark"} /\ Identity(Head(work.todo).id) = i
  <2>1. registry[i].run = cycle
    BY <1>3, VerdictAtHand DEF CycleInv, MemoryOK, Routing
  <2> QED BY <1>3, <2>1
<1> QED BY <1>1, <1>2, <1>3 DEF CycleInv, NoSurvivorDropped

LEMMA RestingKeeps ==
  ASSUME CycleInv, UNCHANGED <<registry, queue>>,
         stage' \in {"idle", "market_context"}, work' = Fresh,
         cycle' \in cycle .. MaxCycles, stage' # "idle" => cycle' # 0,
         crashed \subseteq crashed', crashed' \subseteq 1 .. cycle',
         stage \in {"file", "mark"} => cycle \in crashed',
         \/ result' = None
         \/ result' \in [outcome: Outcomes, cost: Nat, proposed: Nat, killed: Nat,
                          queued: Seq(Identities)]
  PROVE  CycleInv'
<1>1. cycle \in Nat /\ MaxCycles \in Nat /\ cycle' \in 0 .. MaxCycles
  BY OrchestratorAssumption DEF CycleInv, TypeOK
<1>2. TypeOK'
  <2>1. Fresh \in Memory(stage')
    <3>1. << >> \in Seq(Todo(stage')) /\ << >> \in Seq(Nat) /\ << >> \in Seq(Identities)
      BY EmptySeq
    <3> QED BY <3>1 DEF Fresh, Memory
  <2>2. stage' \in Stages
    BY DEF Stages, CallStages
  <2> QED BY <1>1, <2>1, <2>2, SameFiles DEF TypeOK
<1>3. work'.proposal = << >> /\ work'.evidence = << >> /\ work'.todo = << >>
  BY DEF Fresh
<1>4. DOMAIN << >> = {} /\ ToSet(<< >>) = {}
  BY DEF ToSet
<1>5. MemoryOK'
  BY <1>1, <1>3, <1>4 DEF MemoryOK, Routing
<1>6. RegistryWritten' /\ EvidenceWritten' /\ SurvivorWritten'
  BY <1>3, <1>4 DEF RegistryWritten, EvidenceWritten, SurvivorWritten, ProposedIds
<1> QED BY <1>2, <1>5, <1>6, SameFiles, SameSurvivors DEF CycleInv

LEMMA StartCycleKeeps == CycleInv /\ StartCycle => CycleInv'
<1> SUFFICES ASSUME CycleInv, StartCycle PROVE CycleInv'
  OBVIOUS
<1>1. cycle \in Nat /\ cycle < MaxCycles /\ MaxCycles \in Nat /\ crashed \subseteq 1 .. cycle
  BY OrchestratorAssumption DEF CycleInv, TypeOK, StartCycle
<1>2. cycle' \in cycle .. MaxCycles /\ cycle' # 0 /\ crashed \subseteq 1 .. cycle'
  BY <1>1 DEF StartCycle
<1> QED BY <1>2, RestingKeeps DEF StartCycle

LEMMA CrashKeeps == CycleInv /\ Crash => CycleInv'
<1> SUFFICES ASSUME CycleInv, Crash PROVE CycleInv'
  OBVIOUS
<1>1. cycle \in 1 .. MaxCycles /\ crashed \subseteq 1 .. cycle
  BY DEF CycleInv, TypeOK, MemoryOK, Crash
<1>2. crashed' \subseteq 1 .. cycle /\ cycle \in cycle .. MaxCycles
  BY <1>1, OrchestratorAssumption DEF Crash
<1>3. \/ result' = None
      \/ result' \in [outcome: Outcomes, cost: Nat, proposed: Nat, killed: Nat,
                       queued: Seq(Identities)]
  BY DEF CycleInv, TypeOK, Crash
<1> QED BY <1>2, <1>3, RestingKeeps DEF Crash

LEMMA ReturnKeeps ==
  ASSUME CycleInv, stage \notin {"file", "mark"},
         NEW outcome \in Outcomes, NEW cost \in Nat, NEW proposed \in Nat,
         NEW killed \in Nat, NEW queued \in Seq(Identities),
         Return(outcome, cost, proposed, killed, queued)
  PROVE  CycleInv'
<1>1. cycle \in 0 .. MaxCycles /\ crashed \subseteq 1 .. cycle
  BY DEF CycleInv, TypeOK
<1>2. cycle \in cycle .. MaxCycles
  BY <1>1, OrchestratorAssumption
<1>3. result' \in [outcome: Outcomes, cost: Nat, proposed: Nat, killed: Nat,
                    queued: Seq(Identities)]
  BY DEF Return
<1> QED BY <1>1, <1>2, <1>3, RestingKeeps DEF Return

LEMMA CompleteKeeps ==
  ASSUME CycleInv, stage \notin {"file", "mark"}, Complete
  PROVE  CycleInv'
<1>1. work.cost \in Nat /\ work.killed \in Nat /\ work.queued \in Seq(Identities)
  BY DEF CycleInv, TypeOK, Memory
<1>2. Len(Keys(work.proposal, Ids)) \in Nat
  BY WorkType, KeysOfProposal DEF CycleInv
<1>3. "completed" \in Outcomes
  BY DEF Outcomes
<1> QED BY <1>1, <1>2, <1>3, ReturnKeeps DEF Complete

LEMMA AbortKeeps ==
  ASSUME CycleInv, stage \in CallStages, NEW outcome \in Outcomes, NEW cost \in Nat,
         Abort(outcome, cost)
  PROVE  CycleInv'
<1>1. stage \notin {"file", "mark"}
  BY DEF CallStages
<1>2. << >> \in Seq(Identities)
  BY EmptySeq
<1> QED BY <1>1, <1>2, ReturnKeeps DEF Abort

-----------------------------------------------------------------------------
(* Steps from one stage to the next *)

LEMMA AdvanceKeeps ==
  ASSUME CycleInv, GoOnTo(stage', work'), stage \notin {"file", "mark"},
         stage' \in Stages \ {"file", "mark"}, work' \in Memory(stage'),
         MemoryOK', RegistryWritten', EvidenceWritten'
  PROVE  CycleInv'
<1>1. TypeOK'
  BY SameFiles DEF CycleInv, TypeOK, GoOnTo, GoTo
<1>2. SurvivorWritten'
  BY DEF SurvivorWritten
<1>3. NoSurvivorDropped'
  BY SameSurvivors DEF GoOnTo, GoTo
<1> QED BY <1>1, <1>2, <1>3, SameFiles DEF CycleInv, GoOnTo, GoTo

\* A step of a running cycle, by the number of that cycle.
LEMMA Running ==
  ASSUME CycleInv, stage # "idle"
  PROVE  cycle \in 1 .. MaxCycles
BY DEF CycleInv, MemoryOK

LEMMA MarketContextKeeps == CycleInv /\ MarketContext => CycleInv'
<1> SUFFICES ASSUME CycleInv, MarketContext PROVE CycleInv'
  OBVIOUS
<1>1. PICK cost \in CallCosts : GoOnTo("strategy_lab", Paying(work, cost))
  BY DEF MarketContext
<1>2. cost \in Nat /\ work = Fresh /\ stage = "market_context" /\ stage' = "strategy_lab"
  BY <1>1, OrchestratorAssumption
  DEF MarketContext, Calling, CycleInv, MemoryOK, GoOnTo, GoTo
<1>3. work' = [Fresh EXCEPT !.cost = cost]
  BY <1>1, <1>2 DEF GoOnTo, GoTo, Paying, Fresh
<1>4. work' \in Memory(stage')
  <2>1. << >> \in Seq(Todo(stage')) /\ << >> \in Seq(Nat) /\ << >> \in Seq(Identities)
    BY EmptySeq
  <2> QED BY <1>2, <1>3, <2>1 DEF Memory, Fresh
<1>5. work'.proposal = << >> /\ work'.evidence = << >>
  BY <1>3 DEF Fresh
<1>6. DOMAIN << >> = {} /\ ToSet(<< >>) = {}
  BY DEF ToSet
<1>7. cycle' \in 1 .. MaxCycles
  BY <1>1, <1>2, Running DEF GoOnTo, GoTo
<1>8. MemoryOK'
  BY <1>2, <1>5, <1>6, <1>7 DEF MemoryOK, Routing
<1>9. RegistryWritten' /\ EvidenceWritten'
  BY <1>5, <1>6 DEF RegistryWritten, EvidenceWritten, ProposedIds
<1>10. GoOnTo(stage', work') /\ stage' \in Stages \ {"file", "mark"}
  BY <1>1, <1>2 DEF GoOnTo, GoTo, Stages, CallStages
<1> QED BY <1>2, <1>4, <1>8, <1>9, <1>10, AdvanceKeeps

LEMMA StrategyLabKeeps == CycleInv /\ StrategyLab => CycleInv'
<1> SUFFICES ASSUME CycleInv, StrategyLab PROVE CycleInv'
  OBVIOUS
<1>1. PICK cost \in CallCosts, p \in Proposals :
        GoOnTo("upsert", [Paying(work, cost) EXCEPT !.proposal = p, !.todo = Keys(p, Ids)])
  BY DEF StrategyLab
<1>2. stage = "strategy_lab" /\ stage' = "upsert" /\ work.evidence = << >>
  BY <1>1 DEF StrategyLab, Calling, CycleInv, MemoryOK, GoOnTo, GoTo
<1>3. work \in Memory(stage) /\ cost \in Nat
  BY OrchestratorAssumption DEF CycleInv, TypeOK
<1>4. work' = [Paying(work, cost) EXCEPT !.proposal = p, !.todo = Keys(p, Ids)]
  BY <1>1 DEF GoOnTo, GoTo
<1>5. p \in Seq(Candidate)
  BY OrchestratorAssumption
<1>6. /\ Keys(p, Ids) \in Seq(Ids)
      /\ ToSet(Keys(p, Ids)) = {p[k].id : k \in DOMAIN p} \intersect Ids
  BY <1>5, KeysOfProposal
<1>7. \A k \in DOMAIN p : p[k].id \in Ids
  BY <1>5, CandidateFields
<1>8. work'.proposal = p /\ work'.todo = Keys(p, Ids) /\ work'.evidence = << >>
  BY <1>2, <1>3, <1>4 DEF Paying, Memory
<1>9. work' \in Memory(stage')
  <2>1. work.cost + cost \in Nat /\ Keys(p, Ids) \in Seq(Todo(stage')) /\ p \in Proposals
    BY <1>2, <1>3, <1>6 DEF Memory, Todo
  <2> QED BY <1>3, <1>4, <2>1 DEF Paying, Memory
<1>10. ToSet(work'.todo) = ProposedIds'
  BY <1>6, <1>7, <1>8 DEF ProposedIds
<1>11. ToSet(work'.evidence) = {}
  BY <1>8 DEF ToSet
<1>12. cycle' \in 1 .. MaxCycles
  BY <1>1, <1>2, Running DEF GoOnTo, GoTo
<1>13. MemoryOK'
  BY <1>2, <1>8, <1>10, <1>11, <1>12 DEF MemoryOK, Routing
<1>14. RegistryWritten' /\ EvidenceWritten'
  BY <1>2, <1>10, <1>11 DEF RegistryWritten, EvidenceWritten
<1>15. GoOnTo(stage', work') /\ stage' \in Stages \ {"file", "mark"}
  BY <1>1, <1>2 DEF GoOnTo, GoTo, Stages
<1> QED BY <1>2, <1>9, <1>13, <1>14, <1>15, AdvanceKeeps

\* A step that keeps the proposal keeps the identity of each candidate.
LEMMA SameProposal ==
  ASSUME work'.proposal = work.proposal
  PROVE  ProposedIds' = ProposedIds /\ \A id : Identity(id)' = Identity(id)
BY DEF ProposedIds, Identity, IdentityOf

\* The registry of a cycle that leaves it alone.
LEMMA SameRegistryWritten ==
  ASSUME CycleInv, UNCHANGED <<registry, cycle>>, work'.proposal = work.proposal,
         stage = "upsert" => work.todo = << >>,
         stage' \in Unjudged => stage \in Unjudged,
         stage' \in {"upsert", "record", "backtest_agent"} =>
           stage \in {"upsert", "record", "backtest_agent"}
  PROVE  RegistryWritten'
<1>1. ToSet(<< >>) = {}
  BY DEF ToSet
<1> QED BY <1>1, SameProposal DEF CycleInv, RegistryWritten

LEMMA SameEvidenceWritten ==
  ASSUME CycleInv, UNCHANGED registry, work'.proposal = work.proposal,
         work'.evidence = work.evidence, stage = "record" => work.todo = << >>
  PROVE  EvidenceWritten'
<1>1. ToSet(<< >>) = {}
  BY DEF ToSet
<1> QED BY <1>1, SameProposal DEF CycleInv, EvidenceWritten

LEMMA RunBacktestsKeeps == CycleInv /\ RunBacktests => CycleInv'
<1> SUFFICES ASSUME CycleInv, RunBacktests PROVE CycleInv'
  OBVIOUS
<1>1. PICK run \in SUBSET DOMAIN work.proposal :
        GoOnTo("record", [work EXCEPT !.evidence = InOrder(Len(work.proposal), run),
                                      !.todo = InOrder(Len(work.proposal), run)])
  BY DEF RunBacktests
<1> DEFINE positions == InOrder(Len(work.proposal), run)
<1>2. stage = "upsert" /\ work.todo = << >> /\ stage' = "record"
  BY <1>1 DEF RunBacktests, GoOnTo, GoTo
<1>3. work \in Memory(stage) /\ work' = [work EXCEPT !.evidence = positions, !.todo = positions]
  BY <1>1 DEF CycleInv, TypeOK, GoOnTo, GoTo
<1>4. positions \in Seq(Nat) /\ ToSet(positions) \subseteq DOMAIN work.proposal
  <2>1. work.proposal \in Seq(Candidate)
    BY WorkType DEF CycleInv
  <2>2. Len(work.proposal) \in Nat /\ DOMAIN work.proposal = 1 .. Len(work.proposal)
    BY <2>1
  <2>3. /\ positions \in Seq(run \intersect (1 .. Len(work.proposal)))
        /\ ToSet(positions) = run \intersect (1 .. Len(work.proposal))
    BY <2>2, OrderedPositions
  <2>4. run \intersect (1 .. Len(work.proposal)) \subseteq Nat
    BY <2>2
  <2> HIDE DEF positions
  <2>5. positions \in Seq(Nat)
    BY <2>3, <2>4, SeqMonotonic
  <2> QED BY <2>2, <2>3, <2>5
<1> HIDE DEF positions
<1>5. work' \in Memory(stage')
  BY <1>2, <1>3, <1>4 DEF Memory, Todo
<1>6. /\ work'.proposal = work.proposal /\ work'.evidence = positions
      /\ work'.todo = positions
  BY <1>3 DEF Memory
<1>7. cycle' \in 1 .. MaxCycles
  BY <1>1, <1>2, Running DEF GoOnTo, GoTo
<1>8. MemoryOK'
  BY <1>2, <1>4, <1>6, <1>7 DEF MemoryOK, Routing
<1>9. RegistryWritten'
  BY <1>1, <1>2, <1>6, SameRegistryWritten DEF Unjudged, GoOnTo, GoTo
<1>10. EvidenceWritten'
  BY <1>2, <1>6 DEF EvidenceWritten
<1>11. GoOnTo(stage', work') /\ stage' \in Stages \ {"file", "mark"}
  BY <1>1, <1>2 DEF GoOnTo, GoTo, Stages
<1> QED BY <1>2, <1>5, <1>8, <1>9, <1>10, <1>11, AdvanceKeeps

LEMMA EvidenceRecordedKeeps == CycleInv /\ EvidenceRecorded => CycleInv'
<1> SUFFICES ASSUME CycleInv, EvidenceRecorded PROVE CycleInv'
  OBVIOUS
<1>1. stage = "record" /\ stage' = "backtest_agent" /\ work' = work /\ work.todo = << >>
  BY DEF EvidenceRecorded, GoOnTo, GoTo
<1>2. work' \in Memory(stage')
  <2>1. work \in Memory(stage) /\ << >> \in Seq(Todo(stage'))
    BY EmptySeq DEF CycleInv, TypeOK
  <2> QED BY <1>1, <2>1 DEF Memory
<1>3. cycle' \in 1 .. MaxCycles
  BY <1>1, Running DEF EvidenceRecorded, GoOnTo, GoTo
<1>4. MemoryOK'
  BY <1>1, <1>3 DEF CycleInv, MemoryOK, Routing
<1>5. RegistryWritten' /\ EvidenceWritten'
  BY <1>1, SameRegistryWritten, SameEvidenceWritten
  DEF Unjudged, EvidenceRecorded, GoOnTo, GoTo
<1>6. GoOnTo(stage', work') /\ stage' \in Stages \ {"file", "mark"}
  BY <1>1 DEF EvidenceRecorded, GoOnTo, GoTo, Stages, CallStages
<1> QED BY <1>1, <1>2, <1>4, <1>5, <1>6, AdvanceKeeps

LEMMA InterpretKeeps == CycleInv /\ Interpret => CycleInv'
<1> SUFFICES ASSUME CycleInv, Interpret PROVE CycleInv'
  OBVIOUS
<1>1. PICK cost \in CallCosts, rejected \in SUBSET Tested :
        GoOnTo("triage", [Paying(work, cost) EXCEPT !.todo = Keys(work.proposal, rejected),
                                                    !.survivors = Survivors(rejected)])
  BY DEF Interpret
<1> DEFINE killed == Keys(work.proposal, rejected)
<1>2. stage = "backtest_agent" /\ stage' = "triage"
  BY <1>1 DEF Interpret, Calling, GoOnTo, GoTo
<1>3. work \in Memory(stage) /\ cost \in Nat
  BY OrchestratorAssumption DEF CycleInv, TypeOK
<1>4. work' = [Paying(work, cost) EXCEPT !.todo = killed, !.survivors = Survivors(rejected)]
  BY <1>1 DEF GoOnTo, GoTo
<1>5. /\ work.proposal \in Seq(Candidate)
      /\ \A k \in DOMAIN work.proposal : work.proposal[k].id \in Ids
  BY WorkType, CandidateFields DEF CycleInv
<1>6. killed \in Seq(Ids) /\ ToSet(killed) \subseteq ProposedIds \intersect rejected
  BY <1>5, KeysOfProposal DEF ProposedIds
<1>7. Survivors(rejected) \subseteq Tested /\ Tested \subseteq Ids
  <2>1. ProposedIds \subseteq Ids
    BY <1>5 DEF ProposedIds
  <2> QED BY <2>1, TestedProposed DEF CycleInv, Survivors
<1> HIDE DEF killed
<1>8. work' \in Memory(stage')
  <2>1. work.cost + cost \in Nat /\ killed \in Seq(Todo(stage')) /\ Survivors(rejected) \subseteq Ids
    BY <1>2, <1>3, <1>6, <1>7 DEF Memory, Todo
  <2> QED BY <1>3, <1>4, <2>1 DEF Paying, Memory
<1>9. /\ work'.proposal = work.proposal /\ work'.evidence = work.evidence
      /\ work'.todo = killed /\ work'.survivors = Survivors(rejected)
  BY <1>3, <1>4 DEF Memory, Paying
<1>10. ProposedIds' = ProposedIds /\ Tested' = Tested
  BY <1>9 DEF ProposedIds, Tested
<1>11. cycle' \in 1 .. MaxCycles
  BY <1>1, <1>2, Running DEF GoOnTo, GoTo
<1>12. MemoryOK'
  BY <1>2, <1>6, <1>7, <1>9, <1>10, <1>11 DEF CycleInv, MemoryOK, Routing
<1>13. RegistryWritten' /\ EvidenceWritten'
  BY <1>1, <1>2, <1>9, SameRegistryWritten, SameEvidenceWritten DEF Unjudged, GoOnTo, GoTo
<1>14. GoOnTo(stage', work') /\ stage' \in Stages \ {"file", "mark"}
  BY <1>1, <1>2 DEF GoOnTo, GoTo, Stages
<1> QED BY <1>2, <1>8, <1>12, <1>13, <1>14, AdvanceKeeps

LEMMA StressKeeps == CycleInv /\ Stress => CycleInv'
<1> SUFFICES ASSUME CycleInv, Stress PROVE CycleInv'
  OBVIOUS
<1>1. PICK run \in SUBSET work.survivors :
        IF run = {} THEN Complete ELSE GoOnTo("critic", [work EXCEPT !.survivors = run])
  BY DEF Stress
<1>2. stage = "triage" /\ work.todo = << >>
  BY DEF Stress
<1>3. CASE run = {}
  BY <1>1, <1>2, <1>3, CompleteKeeps
<1>4. CASE run # {}
  <2>1. GoOnTo("critic", [work EXCEPT !.survivors = run])
    BY <1>1, <1>4
  <2>2. stage' = "critic" /\ work' = [work EXCEPT !.survivors = run]
    BY <2>1 DEF GoOnTo, GoTo
  <2>3. work \in Memory(stage) /\ << >> \in Seq(Todo(stage'))
    BY EmptySeq DEF CycleInv, TypeOK
  <2>4. work' \in Memory(stage')
    BY <1>2, <2>2, <2>3 DEF Memory
  <2>5. /\ work'.proposal = work.proposal /\ work'.evidence = work.evidence
        /\ work'.todo = << >> /\ work'.survivors = run
    BY <1>2, <2>2, <2>3 DEF Memory
  <2>6. Tested' = Tested
    BY <2>5 DEF Tested
  <2>7. cycle' \in 1 .. MaxCycles
    BY <1>2, <2>1, Running DEF GoOnTo, GoTo
  <2>8. MemoryOK'
    BY <1>2, <2>2, <2>5, <2>6, <2>7 DEF CycleInv, MemoryOK, Routing
  <2>9. RegistryWritten' /\ EvidenceWritten'
    BY <1>2, <2>1, <2>2, <2>5, SameRegistryWritten, SameEvidenceWritten
    DEF Unjudged, GoOnTo, GoTo
  <2>10. GoOnTo(stage', work') /\ stage' \in Stages \ {"file", "mark"}
    BY <2>1, <2>2 DEF GoOnTo, GoTo, Stages, CallStages
  <2> QED BY <1>2, <2>4, <2>8, <2>9, <2>10, AdvanceKeeps
<1> QED BY <1>3, <1>4

LEMMA SeqOfType ==
  ASSUME NEW T, NEW n \in Nat, NEW s \in SeqOf(T, n)
  PROVE  s \in Seq(T)
<1>1. PICK m \in 0 .. n : s \in [1 .. m -> T]
  BY DEF SeqOf
<1> QED BY <1>1

LEMMA CriticiseKeeps == CycleInv /\ Criticise => CycleInv'
<1> SUFFICES ASSUME CycleInv, Criticise PROVE CycleInv'
  OBVIOUS
<1>1. PICK cost \in CallCosts,
           verdicts \in SeqOf([id: work.survivors, verdict: Verdicts], MaxVerdicts) :
        GoOnTo("route", [Paying(work, cost) EXCEPT !.todo = verdicts])
  BY DEF Criticise
<1>2. stage = "critic" /\ stage' = "route"
  BY <1>1 DEF Criticise, Calling, GoOnTo, GoTo
<1>3. work \in Memory(stage) /\ cost \in Nat
  BY OrchestratorAssumption DEF CycleInv, TypeOK
<1>4. work' = [Paying(work, cost) EXCEPT !.todo = verdicts]
  BY <1>1 DEF GoOnTo, GoTo
<1> DEFINE OnSurvivors == [id: work.survivors, verdict: Verdicts]
           OnIds == [id: Ids, verdict: Verdicts]
<1>5. /\ OnSurvivors \subseteq OnIds
      /\ \A v \in OnSurvivors : v.id \in work.survivors
  BY <1>3 DEF Memory
<1>6. verdicts \in SeqOf(OnSurvivors, MaxVerdicts)
  BY <1>1
<1>7. verdicts \in Seq(OnIds) /\ \A v \in ToSet(verdicts) : v.id \in work.survivors
  <2> HIDE DEF OnSurvivors, OnIds
  <2>1. verdicts \in Seq(OnSurvivors)
    BY <1>6, OrchestratorAssumption, SeqOfType
  <2>2. verdicts \in Seq(OnIds)
    BY <1>5, <2>1, SeqMonotonic
  <2>3. \A k \in DOMAIN verdicts : verdicts[k] \in OnSurvivors
    BY <2>1
  <2> QED BY <1>5, <2>2, <2>3 DEF ToSet
<1>8. work' \in Memory(stage')
  <2>1. work.cost + cost \in Nat /\ verdicts \in Seq(Todo(stage'))
    BY <1>2, <1>3, <1>7 DEF Memory, Todo
  <2> QED BY <1>3, <1>4, <2>1 DEF Paying, Memory
<1>9. /\ work'.proposal = work.proposal /\ work'.evidence = work.evidence
      /\ work'.todo = verdicts /\ work'.survivors = work.survivors
  BY <1>3, <1>4 DEF Memory, Paying
<1>10. Tested' = Tested
  BY <1>9 DEF Tested
<1>11. cycle' \in 1 .. MaxCycles
  BY <1>1, <1>2, Running DEF GoOnTo, GoTo
<1>12. MemoryOK'
  BY <1>2, <1>7, <1>9, <1>10, <1>11 DEF CycleInv, MemoryOK, Routing
<1>13. RegistryWritten' /\ EvidenceWritten'
  BY <1>1, <1>2, <1>9, SameRegistryWritten, SameEvidenceWritten DEF Unjudged, GoOnTo, GoTo
<1>14. GoOnTo(stage', work') /\ stage' \in Stages \ {"file", "mark"}
  BY <1>1, <1>2 DEF GoOnTo, GoTo, Stages
<1> QED BY <1>2, <1>8, <1>12, <1>13, <1>14, AdvanceKeeps

\* A call that is not made or fails aborts the cycle, and a stage with nothing
\* to go on with completes it.
LEMMA AbortsKeep == CycleInv /\ (RefuseCall \/ CallFails \/ CallOverAgentBudget) => CycleInv'
<1> SUFFICES ASSUME CycleInv, RefuseCall \/ CallFails \/ CallOverAgentBudget PROVE CycleInv'
  OBVIOUS
<1>1. stage \in CallStages
  BY DEF RefuseCall, CallFails, CallOverAgentBudget
<1>2. work.cost \in Nat /\ \A cost \in {0} \union CallCosts : work.cost + cost \in Nat
  <2>1. work.cost \in Nat
    BY WorkType DEF CycleInv
  <2>2. CallCosts \subseteq Nat
    BY OrchestratorAssumption
  <2> QED BY <2>1, <2>2
<1>3. {"aborted_budget", "aborted_failure"} \subseteq Outcomes
  BY DEF Outcomes
<1> QED BY <1>1, <1>2, <1>3, AbortKeeps DEF RefuseCall, CallFails, CallOverAgentBudget

LEMMA CompletionsKeep ==
  CycleInv /\ (NothingProposed \/ NothingTested \/ NothingSurvives \/ AllRouted) => CycleInv'
BY CompleteKeeps DEF NothingProposed, NothingTested, NothingSurvives, AllRouted

-----------------------------------------------------------------------------
(* Steps that write an entry of the registry *)

\* What an entry must be to be written: typed, backed, and filed if it says so.
LEMMA WriteKeeps ==
  ASSUME CycleInv, NEW i \in Identities, NEW e \in RegistryEntry,
         registry' = [registry EXCEPT ![i] = e], UNCHANGED <<queue, crashed>>,
         Backed(e),
         e.state \in {"queued_for_approval"} \union AuthorizingStates =>
           \E k \in DOMAIN queue : queue[k].identity = i /\ queue[k].cycle = e.run,
         e.state = "survived_for_now" =>
           stage' \in {"file", "mark"} /\ Identity(Head(work.todo).id)' = i,
         stage \in {"file", "mark"} => Identity(Head(work.todo).id) = i
  PROVE  /\ RegistryTypeOK' /\ QueueTypeOK'
         /\ TrailComplete' /\ QueuedHasEntry' /\ FiledOnce' /\ NoSurvivorDropped'
         /\ registry'[i] = e
         /\ \A j \in Identities \ {i} : registry'[j] = registry[j]
<1>1. RegistryTypeOK /\ registry'[i] = e /\ \A j \in Identities \ {i} : registry'[j] = registry[j]
  BY DEF CycleInv, TypeOK, RegistryTypeOK
<1>2. RegistryTypeOK' /\ QueueTypeOK'
  BY <1>1 DEF CycleInv, TypeOK, RegistryTypeOK, QueueTypeOK
<1>3. e # None
  BY OrchestratorAssumption
<1>4. TrailComplete'
  BY <1>1 DEF CycleInv, TrailComplete, Backed
<1>5. FiledOnce'
  BY DEF CycleInv, FiledOnce, Matches
<1>6. QueuedHasEntry'
  <2> SUFFICES ASSUME NEW j \in Identities,
                      StateOf(j)' \in {"queued_for_approval"} \union AuthorizingStates
               PROVE  \E k \in DOMAIN queue : \A n \in DOMAIN queue :
                        n = k <=> queue[n].identity = j /\ queue[n].cycle = registry'[j].run
    BY DEF QueuedHasEntry
  <2>1. CASE j # i
    <3>1. registry'[j] = registry[j] /\ StateOf(j)' = StateOf(j)
      BY <1>1, <2>1 DEF StateOf
    <3> QED BY <3>1 DEF CycleInv, QueuedHasEntry
  <2>2. CASE j = i
    <3>1. StateOf(j)' = e.state
      BY <1>1, <1>3, <2>2 DEF StateOf
    <3>2. PICK k \in DOMAIN queue : queue[k].identity = i /\ queue[k].cycle = e.run
      BY <3>1
    <3>3. \A n \in DOMAIN queue : n = k <=> queue[n].identity = i /\ queue[n].cycle = e.run
      BY <3>2 DEF CycleInv, FiledOnce, Matches
    <3> QED BY <1>1, <2>2, <3>3
  <2> QED BY <2>1, <2>2
<1>7. NoSurvivorDropped'
  <2> SUFFICES ASSUME NEW j \in Identities, StateOf(j)' = "survived_for_now"
               PROVE  \/ registry'[j].run \in crashed
                      \/ stage' \in {"file", "mark"} /\ Identity(Head(work.todo).id)' = j
    BY DEF NoSurvivorDropped
  <2>1. CASE j # i
    <3>1. registry'[j] = registry[j] /\ StateOf(j)' = StateOf(j)
      BY <1>1, <2>1 DEF StateOf
    <3> QED BY <2>1, <3>1 DEF CycleInv, NoSurvivorDropped
  <2>2. CASE j = i
    BY <1>1, <1>3, <2>2 DEF StateOf
  <2> QED BY <2>1, <2>2
<1> QED BY <1>1, <1>2, <1>4, <1>5, <1>6, <1>7

\* A write that is one pass of a loop, once the memory is accounted for.
LEMMA LoopKeeps ==
  ASSUME CycleInv, NEW i \in Identities, NEW e \in RegistryEntry,
         registry' = [registry EXCEPT ![i] = e], UNCHANGED <<queue, cycle, result, crashed>>,
         Backed(e), e.state \in {"proposed", "backtested", "killed"},
         stage \notin {"file", "mark", "idle"}, stage' = stage,
         work' \in Memory(stage), MemoryOK', RegistryWritten', EvidenceWritten'
  PROVE  CycleInv'
<1>1. /\ RegistryTypeOK' /\ QueueTypeOK'
      /\ TrailComplete' /\ QueuedHasEntry' /\ FiledOnce' /\ NoSurvivorDropped'
  BY WriteKeeps DEF AuthorizingStates
<1>2. TypeOK'
  BY <1>1 DEF CycleInv, TypeOK
<1>3. SurvivorWritten'
  BY DEF SurvivorWritten
<1> QED BY <1>1, <1>2, <1>3 DEF CycleInv

\* The rest of a loop fits in memory.
LEMMA RestFits ==
  ASSUME CycleInv, work.todo # << >>
  PROVE  /\ [work EXCEPT !.todo = Tail(@)] \in Memory(stage)
         /\ [work EXCEPT !.todo = Tail(@), !.killed = @ + 1] \in Memory(stage)
         /\ Head(work.todo) \in Todo(stage)
         /\ ToSet(work.todo) = {Head(work.todo)} \union ToSet(Tail(work.todo))
<1>1. work \in Memory(stage) /\ work.todo \in Seq(Todo(stage))
  BY WorkType DEF CycleInv, TypeOK
<1>2. /\ Head(work.todo) \in Todo(stage) /\ Tail(work.todo) \in Seq(Todo(stage))
      /\ ToSet(work.todo) = {Head(work.todo)} \union ToSet(Tail(work.todo))
  BY <1>1, HeadAndRest
<1>3. work.killed + 1 \in Nat
  BY <1>1 DEF Memory
<1> QED BY <1>1, <1>2, <1>3 DEF Memory

LEMMA UpsertNextKeeps == CycleInv /\ UpsertNext => CycleInv'
<1> SUFFICES ASSUME CycleInv, UpsertNext PROVE CycleInv'
  OBVIOUS
<1> DEFINE id == Head(work.todo)
           i == Identity(id)
           e == [state |-> "proposed", run |-> cycle, evidence |-> None, verdict |-> None]
<1>1. /\ stage = "upsert" /\ stage' = "upsert" /\ work.todo # << >>
      /\ work' = [work EXCEPT !.todo = Tail(@)]
      /\ registry' = [registry EXCEPT ![i] = e]
      /\ UNCHANGED <<queue, cycle, result, crashed>>
  BY DEF UpsertNext, UpsertProposed, GoTo
<1>2. /\ work' \in Memory(stage)
      /\ ToSet(work.todo) = {id} \union ToSet(Tail(work.todo))
  BY <1>1, RestFits
<1>3. id \in ProposedIds /\ ToSet(work.todo) \subseteq ProposedIds /\ work.evidence = << >>
  BY <1>1, <1>2 DEF CycleInv, MemoryOK
<1>4. i \in Identities /\ \A n \in ProposedIds : Identity(n) \in Identities
  BY <1>3, ProposedIdentity DEF CycleInv
<1>5. /\ work'.proposal = work.proposal /\ work'.evidence = << >>
      /\ work'.todo = Tail(work.todo)
  <2>1. work \in Memory(stage)
    BY DEF CycleInv, TypeOK
  <2> QED BY <1>1, <1>3, <2>1 DEF Memory
<1>6. ProposedIds' = ProposedIds /\ \A n : Identity(n)' = Identity(n)
  BY <1>5, SameProposal
<1>7. cycle \in 1 .. MaxCycles /\ cycle \in Nat \ {0}
  BY <1>1, Running, OrchestratorAssumption
<1>8. e \in RegistryEntry /\ Backed(e) /\ e # None
  BY <1>7, OrchestratorAssumption
  DEF RegistryEntry, Backed, WritableStates, AuthorizingStates
<1>9. registry'[i] = e /\ \A j \in Identities \ {i} : registry'[j] = registry[j]
  BY <1>1, <1>4 DEF CycleInv, TypeOK, RegistryTypeOK
<1>10. ToSet(<< >>) = {}
  BY DEF ToSet
<1> HIDE DEF id
<1>11. MemoryOK'
  BY <1>1, <1>2, <1>3, <1>5, <1>6, <1>7, <1>10 DEF MemoryOK, Routing
<1>12. RegistryWritten'
  <2> SUFFICES ASSUME NEW n \in ProposedIds, n \notin ToSet(Tail(work.todo))
               PROVE  LET f == registry'[Identity(n)]
                      IN  /\ f # None
                          /\ f.run = cycle
                          /\ f.verdict = None /\ f.state \in {"proposed", "backtested"}
    BY <1>1, <1>5, <1>6 DEF RegistryWritten, AuthorizingStates
  <2>1. CASE Identity(n) = i
    BY <1>8, <1>9, <2>1
  <2>2. CASE Identity(n) # i
    <3>1. n \notin ToSet(work.todo)
      BY <1>2, <2>2
    <3>2. registry'[Identity(n)] = registry[Identity(n)]
      BY <1>4, <1>9, <2>2
    <3> QED BY <1>1, <3>1, <3>2 DEF CycleInv, RegistryWritten, Unjudged
  <2> QED BY <2>1, <2>2
<1>13. EvidenceWritten'
  BY <1>5, <1>10 DEF EvidenceWritten
<1> HIDE DEF e, i
<1>14. e.state = "proposed"
  BY DEF e
<1> QED BY <1>1, <1>2, <1>4, <1>8, <1>11, <1>12, <1>13, <1>14, LoopKeeps

LEMMA RecordNextKeeps == CycleInv /\ RecordNext => CycleInv'
<1> SUFFICES ASSUME CycleInv, RecordNext PROVE CycleInv'
  OBVIOUS
<1> DEFINE k == Head(work.todo)
           i == Identity(work.proposal[k].id)
           e == [registry[i] EXCEPT !.state = "backtested",
                                    !.evidence = work.proposal[k].identity]
<1>1. /\ stage = "record" /\ stage' = "record" /\ work.todo # << >>
      /\ work' = [work EXCEPT !.todo = Tail(@)]
      /\ registry' = [registry EXCEPT ![i].state = "backtested",
                                      ![i].evidence = work.proposal[k].identity]
      /\ UNCHANGED <<queue, cycle, result, crashed>>
  BY DEF RecordNext, RecordBacktest, GoTo
<1>2. /\ work' \in Memory(stage)
      /\ ToSet(work.todo) = {k} \union ToSet(Tail(work.todo))
  BY <1>1, RestFits
<1>3. /\ k \in DOMAIN work.proposal /\ ToSet(work.todo) \subseteq ToSet(work.evidence)
      /\ ToSet(work.evidence) \subseteq DOMAIN work.proposal
  BY <1>1, <1>2 DEF CycleInv, MemoryOK
<1>4. work.proposal[k].id \in ProposedIds /\ work.proposal[k].identity \in Identities
  BY <1>3, WorkType, CandidateFields DEF CycleInv, ProposedIds
<1>5. i \in Identities /\ \A n \in ProposedIds : Identity(n) \in Identities
  BY <1>4, ProposedIdentity DEF CycleInv
<1>6. /\ work'.proposal = work.proposal /\ work'.evidence = work.evidence
      /\ work'.todo = Tail(work.todo)
  <2>1. work \in Memory(stage)
    BY DEF CycleInv, TypeOK
  <2> QED BY <1>1, <2>1 DEF Memory
<1>7. ProposedIds' = ProposedIds /\ \A n : Identity(n)' = Identity(n)
  BY <1>6, SameProposal
<1>8. cycle \in 1 .. MaxCycles
  BY <1>1, Running
<1>9. /\ registry[i] # None /\ registry[i].run = cycle /\ registry[i].verdict = None
      /\ registry[i] \in RegistryEntry
  <2>1. registry[i] # None /\ registry[i].run = cycle /\ registry[i].verdict = None
    BY <1>1, <1>4 DEF CycleInv, RegistryWritten, Unjudged
  <2> QED BY <1>5, <2>1 DEF CycleInv, TypeOK, RegistryTypeOK
<1>10. /\ e \in RegistryEntry /\ e # None /\ e.run = cycle /\ e.verdict = None
       /\ e.state = "backtested" /\ e.evidence \in Identities
  BY <1>4, <1>9, OrchestratorAssumption DEF RegistryEntry, WritableStates
<1>11. e.evidence # None
  BY <1>10, OrchestratorAssumption
<1>12. Backed(e)
  BY <1>10, <1>11 DEF Backed, AuthorizingStates
<1>13. registry' = [registry EXCEPT ![i] = e]
  BY <1>1, <1>5 DEF CycleInv, TypeOK, RegistryTypeOK
<1>14. registry'[i] = e /\ \A j \in Identities \ {i} : registry'[j] = registry[j]
  BY <1>5, <1>13 DEF CycleInv, TypeOK, RegistryTypeOK
<1> HIDE DEF e
<1>15. MemoryOK'
  BY <1>1, <1>2, <1>3, <1>6, <1>8 DEF MemoryOK, Routing
<1>16. RegistryWritten'
  <2> SUFFICES ASSUME NEW n \in ProposedIds
               PROVE  LET f == registry'[Identity(n)]
                      IN  /\ f # None
                          /\ f.run = cycle
                          /\ f.verdict = None /\ f.state \in {"proposed", "backtested"}
    BY <1>1, <1>7 DEF RegistryWritten, AuthorizingStates
  <2>1. CASE Identity(n) = i
    BY <1>10, <1>14, <2>1
  <2>2. CASE Identity(n) # i
    <3>1. registry'[Identity(n)] = registry[Identity(n)]
      BY <1>5, <1>14, <2>2
    <3> QED BY <1>1, <3>1 DEF CycleInv, RegistryWritten, Unjudged
  <2> QED BY <2>1, <2>2
<1>17. EvidenceWritten'
  <2> SUFFICES ASSUME NEW n \in ToSet(work.evidence), n \notin ToSet(Tail(work.todo))
               PROVE  registry'[Identity(work.proposal[n].id)].evidence # None
    BY <1>1, <1>6, <1>7 DEF EvidenceWritten
  <2> DEFINE j == Identity(work.proposal[n].id)
  <2>1. CASE j = i
    BY <1>11, <1>14, <2>1
  <2>2. CASE j # i
    <3>1. work.proposal[n].id \in ProposedIds
      BY <1>3 DEF ProposedIds
    <3>2. registry'[j] = registry[j]
      BY <1>5, <1>14, <2>2, <3>1
    <3>3. n \notin ToSet(work.todo)
      BY <1>2, <2>2
    <3> QED BY <3>2, <3>3 DEF CycleInv, EvidenceWritten
  <2> QED BY <2>1, <2>2
<1> HIDE DEF i
<1> QED BY <1>1, <1>2, <1>5, <1>10, <1>12, <1>13, <1>15, <1>16, <1>17, LoopKeeps

\* After the evidence, each write keeps the entry of the cycle and its evidence.
LEMMA JudgedWritten ==
  ASSUME CycleInv, NEW i \in Identities, NEW e \in RegistryEntry,
         registry' = [registry EXCEPT ![i] = e], cycle' = cycle,
         e.run = cycle, e.evidence # None, e.state \notin AuthorizingStates,
         stage \in {"triage"} \union Routing, stage' \in {"triage"} \union Routing,
         stage' = "triage" =>
           stage = "triage" /\ e.verdict = None /\ e.state = "killed",
         work'.proposal = work.proposal, work'.evidence = work.evidence
  PROVE  RegistryWritten' /\ EvidenceWritten'
<1>1. ProposedIds' = ProposedIds /\ \A n : Identity(n)' = Identity(n)
  BY SameProposal
<1>2. registry'[i] = e /\ \A j \in Identities \ {i} : registry'[j] = registry[j]
  BY DEF CycleInv, TypeOK, RegistryTypeOK
<1>3. e # None
  BY OrchestratorAssumption
<1>4. \A n \in ProposedIds : Identity(n) \in Identities
  BY ProposedIdentity DEF CycleInv
<1>5. stage \notin {"upsert", "record", "backtest_agent"}
      /\ stage' \notin {"upsert", "record", "backtest_agent"}
      /\ (stage' \in Unjudged => stage' = "triage")
      /\ (stage = "triage" => stage \in Unjudged)
  BY DEF Routing, Unjudged
<1>6. RegistryWritten'
  <2> SUFFICES ASSUME NEW n \in ProposedIds
               PROVE  LET f == registry'[Identity(n)]
                      IN  /\ f # None
                          /\ f.run = cycle
                          /\ f.state \notin AuthorizingStates
                          /\ stage' = "triage" =>
                               f.verdict = None /\ f.state \in {"proposed", "backtested", "killed"}
    BY <1>1, <1>5 DEF RegistryWritten
  <2>1. CASE Identity(n) = i
    BY <1>2, <1>3, <2>1
  <2>2. CASE Identity(n) # i
    <3>1. registry'[Identity(n)] = registry[Identity(n)]
      BY <1>2, <1>4, <2>2
    <3> QED BY <1>5, <3>1 DEF CycleInv, RegistryWritten
  <2> QED BY <2>1, <2>2
<1>7. EvidenceWritten'
  <2> SUFFICES ASSUME NEW n \in ToSet(work.evidence)
               PROVE  registry'[Identity(work.proposal[n].id)].evidence # None
    BY <1>1 DEF EvidenceWritten
  <2> DEFINE j == Identity(work.proposal[n].id)
  <2>1. work.proposal[n].id \in ProposedIds
    BY DEF CycleInv, MemoryOK, ProposedIds
  <2>2. CASE j = i
    BY <1>2, <2>2
  <2>3. CASE j # i
    <3>1. registry'[j] = registry[j]
      BY <1>2, <1>4, <2>1, <2>3
    <3> QED BY <1>5, <3>1 DEF CycleInv, EvidenceWritten
  <2> QED BY <2>2, <2>3
<1> QED BY <1>6, <1>7

LEMMA KillNextKeeps == CycleInv /\ KillNext => CycleInv'
<1> SUFFICES ASSUME CycleInv, KillNext PROVE CycleInv'
  OBVIOUS
<1> DEFINE id == Head(work.todo)
           i == Identity(id)
           e == [registry[i] EXCEPT !.state = "killed"]
<1>1. /\ stage = "triage" /\ stage' = "triage" /\ work.todo # << >>
      /\ work' = [work EXCEPT !.todo = Tail(@), !.killed = @ + 1]
      /\ registry' = [registry EXCEPT ![i].state = "killed"]
      /\ UNCHANGED <<queue, cycle, result, crashed>>
  BY DEF KillNext, SetState, GoTo
<1>2. /\ work' \in Memory(stage)
      /\ ToSet(work.todo) = {id} \union ToSet(Tail(work.todo))
  BY <1>1, RestFits
<1>3. id \in Tested /\ id \in ProposedIds
  BY <1>1, <1>2 DEF CycleInv, MemoryOK
<1>4. i \in Identities
  BY <1>3, ProposedIdentity DEF CycleInv
<1>5. /\ work'.proposal = work.proposal /\ work'.evidence = work.evidence
      /\ work'.todo = Tail(work.todo) /\ work'.survivors = work.survivors
  <2>1. work \in Memory(stage)
    BY DEF CycleInv, TypeOK
  <2> QED BY <1>1, <2>1 DEF Memory
<1>6. ProposedIds' = ProposedIds /\ Tested' = Tested
  BY <1>5 DEF ProposedIds, Tested
<1>7. cycle \in 1 .. MaxCycles
  BY <1>1, Running
<1>8. registry[i] # None /\ registry[i].run = cycle /\ registry[i].verdict = None
  BY <1>1, <1>3 DEF CycleInv, RegistryWritten, Unjudged
<1>9. registry[i].evidence # None
  <2>1. PICK k \in ToSet(work.evidence) : work.proposal[k].id = id
    BY <1>3 DEF Tested
  <2> QED BY <1>1, <2>1 DEF CycleInv, EvidenceWritten
<1>10. registry[i] \in RegistryEntry
  BY <1>4, <1>8 DEF CycleInv, TypeOK, RegistryTypeOK
<1>11. /\ e \in RegistryEntry /\ e.run = cycle /\ e.verdict = None
       /\ e.state = "killed" /\ e.evidence # None
  BY <1>8, <1>9, <1>10 DEF RegistryEntry, WritableStates
<1>12. Backed(e)
  <2>1. None \notin Verdicts
    BY OrchestratorAssumption
  <2> QED BY <1>11, <2>1 DEF Backed, AuthorizingStates, Verdicts
<1>13. registry' = [registry EXCEPT ![i] = e]
  BY <1>1, <1>4 DEF CycleInv, TypeOK, RegistryTypeOK
<1>14. MemoryOK'
  BY <1>1, <1>2, <1>5, <1>6, <1>7 DEF CycleInv, MemoryOK, Routing
<1> HIDE DEF e, i
<1>15. RegistryWritten' /\ EvidenceWritten'
  BY <1>1, <1>4, <1>5, <1>11, <1>13, JudgedWritten DEF AuthorizingStates
<1> QED BY <1>1, <1>2, <1>4, <1>11, <1>12, <1>13, <1>14, <1>15, LoopKeeps

\* The memory of a cycle that routes its verdicts: kept, or without the first.
LEMMA RoutingMemory ==
  ASSUME CycleInv, stage \in Routing, stage' \in Routing, cycle' = cycle,
         work' \in Memory(stage'), work.todo # << >>,
         work'.proposal = work.proposal, work'.evidence = work.evidence,
         work'.survivors = work.survivors,
         work'.todo \in {work.todo, Tail(work.todo)},
         stage' \in {"file", "mark"} =>
           work'.todo = work.todo /\ Head(work.todo).verdict = "survive_for_now"
  PROVE  MemoryOK'
<1>1. Tested' = Tested
  BY DEF Tested
<1>2. ToSet(work'.todo) \subseteq ToSet(work.todo)
  BY RestFits
<1>3. cycle' \in 1 .. MaxCycles
  BY Running DEF Routing
<1> QED BY <1>1, <1>2, <1>3 DEF CycleInv, MemoryOK, Routing

LEMMA RouteKillKeeps == CycleInv /\ RouteKill => CycleInv'
<1> SUFFICES ASSUME CycleInv, RouteKill PROVE CycleInv'
  OBVIOUS
<1> DEFINE i == Identity(Head(work.todo).id)
           e == [registry[i] EXCEPT !.verdict = "kill", !.state = "killed"]
<1>1. /\ stage = "route" /\ stage' = "route" /\ work.todo # << >>
      /\ work' = [work EXCEPT !.todo = Tail(@), !.killed = @ + 1]
      /\ registry' = [registry EXCEPT ![i].verdict = "kill", ![i].state = "killed"]
      /\ UNCHANGED <<queue, cycle, result, crashed>>
  <2>1. work \in Memory(stage)
    BY DEF CycleInv, TypeOK
  <2> QED BY <2>1 DEF RouteKill, RecordCritic, GoTo, Routed, Memory
<1>2. stage \in Routing
  BY <1>1 DEF Routing
<1>3. /\ i \in Identities /\ registry[i] \in RegistryEntry
      /\ registry[i].run = cycle /\ registry[i].evidence # None
  BY <1>1, <1>2, VerdictAtHand
<1>4. work' \in Memory(stage)
  BY <1>1, RestFits
<1>5. /\ work'.proposal = work.proposal /\ work'.evidence = work.evidence
      /\ work'.todo = Tail(work.todo) /\ work'.survivors = work.survivors
  <2>1. work \in Memory(stage)
    BY DEF CycleInv, TypeOK
  <2> QED BY <1>1, <2>1 DEF Memory
<1>6. /\ e \in RegistryEntry /\ e.run = cycle /\ e.verdict = "kill"
      /\ e.state = "killed" /\ e.evidence # None
  BY <1>3 DEF RegistryEntry, WritableStates, Verdicts
<1>7. Backed(e)
  BY <1>6 DEF Backed, AuthorizingStates
<1>8. registry' = [registry EXCEPT ![i] = e]
  BY <1>1, <1>3 DEF CycleInv, TypeOK, RegistryTypeOK
<1>9. MemoryOK'
  BY <1>1, <1>2, <1>4, <1>5, RoutingMemory
<1> HIDE DEF e, i
<1>10. RegistryWritten' /\ EvidenceWritten'
  BY <1>1, <1>2, <1>3, <1>5, <1>6, <1>8, JudgedWritten DEF AuthorizingStates
<1> QED BY <1>1, <1>3, <1>4, <1>6, <1>7, <1>8, <1>9, <1>10, LoopKeeps

LEMMA RouteSurvivorKeeps == CycleInv /\ RouteSurvivor => CycleInv'
<1> SUFFICES ASSUME CycleInv, RouteSurvivor PROVE CycleInv'
  OBVIOUS
<1> DEFINE i == Identity(Head(work.todo).id)
           e == [registry[i] EXCEPT !.verdict = "survive_for_now",
                                    !.state = "survived_for_now"]
<1>1. /\ stage = "route" /\ stage' = "file" /\ work.todo # << >> /\ work' = work
      /\ Head(work.todo).verdict = "survive_for_now"
      /\ registry' = [registry EXCEPT ![i].verdict = "survive_for_now",
                                      ![i].state = "survived_for_now"]
      /\ UNCHANGED <<queue, cycle, result, crashed>>
  BY DEF RouteSurvivor, RecordCritic, GoTo, SurvivorState
<1>2. stage \in Routing /\ stage' \in Routing /\ stage' \in Stages
  BY <1>1 DEF Routing, Stages
<1>3. /\ i \in Identities /\ registry[i] \in RegistryEntry
      /\ registry[i].run = cycle /\ registry[i].evidence # None
  BY <1>1, <1>2, VerdictAtHand
<1>4. work' \in Memory(stage')
  BY <1>1 DEF CycleInv, TypeOK, Memory, Todo
<1>5. /\ e \in RegistryEntry /\ e.run = cycle /\ e.verdict = "survive_for_now"
      /\ e.state = "survived_for_now" /\ e.evidence # None
  BY <1>3 DEF RegistryEntry, WritableStates, Verdicts
<1>6. Backed(e)
  BY <1>5 DEF Backed, AuthorizingStates
<1>7. registry' = [registry EXCEPT ![i] = e]
  BY <1>1, <1>3 DEF CycleInv, TypeOK, RegistryTypeOK
<1>8. MemoryOK'
  BY <1>1, <1>2, <1>4, RoutingMemory
<1>9. Identity(Head(work.todo).id)' = i
  BY <1>1 DEF Identity
<1> HIDE DEF e
<1>10. /\ RegistryTypeOK' /\ QueueTypeOK' /\ registry'[i] = e
       /\ TrailComplete' /\ QueuedHasEntry' /\ FiledOnce' /\ NoSurvivorDropped'
  <2> HIDE DEF i
  <2> QED BY <1>1, <1>3, <1>5, <1>6, <1>7, <1>9, WriteKeeps DEF AuthorizingStates, i
<1>11. RegistryWritten' /\ EvidenceWritten'
  <2> HIDE DEF i
  <2> QED BY <1>1, <1>2, <1>3, <1>5, <1>7, JudgedWritten DEF AuthorizingStates
<1>12. SurvivorWritten'
  BY <1>1, <1>5, <1>9, <1>10 DEF SurvivorWritten, BeingFiled
<1>13. TypeOK'
  BY <1>1, <1>2, <1>4, <1>10 DEF CycleInv, TypeOK
<1> QED BY <1>8, <1>10, <1>11, <1>12, <1>13 DEF CycleInv

LEMMA MarkQueuedKeeps == CycleInv /\ MarkQueued => CycleInv'
<1> SUFFICES ASSUME CycleInv, MarkQueued PROVE CycleInv'
  OBVIOUS
<1> DEFINE i == Identity(Head(work.todo).id)
           e == [registry[i] EXCEPT !.state = "queued_for_approval"]
<1>1. /\ stage = "mark" /\ stage' = "route"
      /\ work' = [work EXCEPT !.todo = Tail(@), !.queued = Append(@, i)]
      /\ registry' = [registry EXCEPT ![i].state = "queued_for_approval"]
      /\ UNCHANGED <<queue, cycle, result, crashed>>
  <2>1. work \in Memory(stage)
    BY DEF CycleInv, TypeOK
  <2> QED BY <2>1 DEF MarkQueued, SetState, GoTo, Routed, Memory
<1>2. /\ stage \in Routing /\ stage' \in Routing /\ stage' \in Stages
      /\ work.todo # << >>
  BY <1>1 DEF Routing, Stages, CycleInv, MemoryOK
<1>3. /\ i \in Identities /\ registry[i] \in RegistryEntry
      /\ registry[i].run = cycle /\ registry[i].evidence # None
  BY <1>2, VerdictAtHand
<1>4. work' \in Memory(stage')
  <2>1. work \in Memory(stage) /\ Tail(work.todo) \in Seq(Todo(stage))
    BY <1>2, WorkType, HeadAndRest DEF CycleInv, TypeOK
  <2>2. Todo(stage') = Todo(stage)
    BY <1>1 DEF Todo
  <2>3. Append(work.queued, i) \in Seq(Identities)
    BY <1>3, <2>1 DEF Memory
  <2> QED BY <1>1, <2>1, <2>2, <2>3 DEF Memory
<1>5. /\ work'.proposal = work.proposal /\ work'.evidence = work.evidence
      /\ work'.todo = Tail(work.todo) /\ work'.survivors = work.survivors
  <2>1. work \in Memory(stage)
    BY DEF CycleInv, TypeOK
  <2> QED BY <1>1, <2>1 DEF Memory
<1>6. registry[i].state = "survived_for_now" /\ registry[i] # None
  BY <1>1, <1>3, OrchestratorAssumption DEF CycleInv, SurvivorWritten, BeingFiled
<1>7. registry[i].verdict = "survive_for_now"
  BY <1>3, <1>6 DEF CycleInv, TrailComplete, Backed
<1>8. /\ e \in RegistryEntry /\ e.run = cycle /\ e.verdict = "survive_for_now"
      /\ e.state = "queued_for_approval" /\ e.evidence # None
  BY <1>3, <1>7 DEF RegistryEntry, WritableStates
<1>9. Backed(e)
  BY <1>8 DEF Backed, AuthorizingStates
<1>10. registry' = [registry EXCEPT ![i] = e]
  BY <1>1, <1>3 DEF CycleInv, TypeOK, RegistryTypeOK
<1>11. MemoryOK'
  BY <1>1, <1>2, <1>4, <1>5, RoutingMemory
<1>12. \E k \in DOMAIN queue : queue[k].identity = i /\ queue[k].cycle = e.run
  BY <1>1, <1>8 DEF CycleInv, SurvivorWritten, BeingFiled
<1> HIDE DEF e
<1>13. /\ RegistryTypeOK' /\ QueueTypeOK'
       /\ TrailComplete' /\ QueuedHasEntry' /\ FiledOnce' /\ NoSurvivorDropped'
  <2> HIDE DEF i
  <2> QED BY <1>1, <1>3, <1>8, <1>9, <1>10, <1>12, WriteKeeps DEF i
<1> HIDE DEF i
<1>14. RegistryWritten' /\ EvidenceWritten'
  BY <1>1, <1>2, <1>3, <1>5, <1>8, <1>10, JudgedWritten DEF AuthorizingStates
<1>15. SurvivorWritten'
  BY <1>1 DEF SurvivorWritten
<1>16. TypeOK'
  BY <1>1, <1>2, <1>4, <1>13 DEF CycleInv, TypeOK
<1> QED BY <1>11, <1>13, <1>14, <1>15, <1>16 DEF CycleInv

-----------------------------------------------------------------------------
(* The entry in the inbox, and the human's decision *)

\* Filing appends the entry unless the cycle has filed the strategy already.
LEMMA Filed ==
  ASSUME CycleInv, NEW entry \in QueueEntry, entry.cycle \in 1 .. MaxCycles, Enqueue(entry)
  PROVE  /\ QueueTypeOK'
         /\ FiledOnce'
         /\ \E k \in DOMAIN queue' :
              queue'[k].identity = entry.identity /\ queue'[k].cycle = entry.cycle
         /\ \A k \in DOMAIN queue : k \in DOMAIN queue' /\ queue'[k] = queue[k]
         /\ \A k \in DOMAIN queue' : k \in DOMAIN queue \/ queue'[k] = entry
<1>1. queue \in Seq(QueueEntry) /\ FiledOnce
  BY DEF CycleInv, TypeOK, QueueTypeOK
<1>2. CASE \E k \in DOMAIN queue : Matches(queue[k], entry)
  <2>1. queue' = queue
    BY <1>2 DEF Enqueue
  <2> QED BY <1>1, <1>2, <2>1 DEF QueueTypeOK, FiledOnce, Matches
<1>3. CASE ~ \E k \in DOMAIN queue : Matches(queue[k], entry)
  <2>1. queue' = Append(queue, entry)
    BY <1>3 DEF Enqueue
  <2> HIDE DEF QueueEntry
  <2>2. /\ queue' \in Seq(QueueEntry) /\ DOMAIN queue' = DOMAIN queue \union {Len(queue) + 1}
        /\ Len(queue) + 1 \notin DOMAIN queue
        /\ queue'[Len(queue) + 1] = entry
        /\ \A k \in DOMAIN queue : queue'[k] = queue[k]
    BY <1>1, <2>1
  <2> QED BY <1>1, <1>3, <2>2 DEF QueueTypeOK, FiledOnce, Matches
<1> QED BY <1>2, <1>3

LEMMA FileSurvivorKeeps == CycleInv /\ FileSurvivor => CycleInv'
<1> SUFFICES ASSUME CycleInv, FileSurvivor PROVE CycleInv'
  OBVIOUS
<1> DEFINE v == Head(work.todo)
           i == Identity(v.id)
           entry == [cycle |-> cycle, identity |-> i,
                     evidence |-> EvidenceOf(v.id), verdict |-> v.verdict]
<1>1. /\ stage = "file" /\ stage' = "mark" /\ work' = work /\ Enqueue(entry)
      /\ UNCHANGED <<registry, cycle, result, crashed>>
  BY DEF FileSurvivor, GoTo
<1>2. /\ stage \in Routing /\ stage' \in Routing /\ stage' \in Stages
      /\ work.todo # << >> /\ v.verdict = "survive_for_now"
  BY <1>1 DEF Routing, Stages, CycleInv, MemoryOK
<1>3. /\ i \in Identities /\ v.id \in Tested /\ v.verdict \in Verdicts
      /\ registry[i].run = cycle /\ registry[i] \in RegistryEntry
  BY <1>2, VerdictAtHand DEF Verdicts
<1>4. EvidenceOf(v.id) \in Identities
  BY <1>3, EvidenceType, WorkType DEF CycleInv, MemoryOK
<1>5. cycle \in Nat \ {0} /\ cycle \in 1 .. MaxCycles
  BY <1>1, Running, OrchestratorAssumption
<1>6. entry \in QueueEntry /\ entry.identity = i /\ entry.cycle = cycle
  BY <1>3, <1>4, <1>5 DEF QueueEntry
<1> HIDE DEF entry
<1>7. /\ QueueTypeOK' /\ FiledOnce'
      /\ \E k \in DOMAIN queue' : queue'[k].identity = i /\ queue'[k].cycle = cycle
      /\ \A k \in DOMAIN queue : k \in DOMAIN queue' /\ queue'[k] = queue[k]
      /\ \A k \in DOMAIN queue' : k \in DOMAIN queue \/ queue'[k] = entry
  BY <1>1, <1>5, <1>6, Filed
<1>8. \A j \in Identities : StateOf(j)' = StateOf(j)
  BY <1>1 DEF StateOf
<1>9. StateOf(i) = "survived_for_now"
  BY <1>1, <1>3, OrchestratorAssumption
  DEF CycleInv, SurvivorWritten, BeingFiled, StateOf
<1>10. QueuedHasEntry'
  <2> SUFFICES ASSUME NEW j \in Identities,
                      StateOf(j) \in {"queued_for_approval"} \union AuthorizingStates
               PROVE  \E k \in DOMAIN queue' : \A n \in DOMAIN queue' :
                        n = k <=> queue'[n].identity = j /\ queue'[n].cycle = registry[j].run
    BY <1>1, <1>8 DEF QueuedHasEntry
  <2>1. j # i
    BY <1>9 DEF AuthorizingStates
  <2>2. PICK k \in DOMAIN queue : \A n \in DOMAIN queue :
          n = k <=> queue[n].identity = j /\ queue[n].cycle = registry[j].run
    BY DEF CycleInv, QueuedHasEntry
  <2>3. k \in DOMAIN queue'
    BY <1>7
  <2>4. ASSUME NEW n \in DOMAIN queue'
        PROVE  n = k <=> queue'[n].identity = j /\ queue'[n].cycle = registry[j].run
    <3>1. CASE n \in DOMAIN queue
      BY <1>7, <2>2, <3>1
    <3>2. CASE n \notin DOMAIN queue
      BY <1>6, <1>7, <2>1, <2>2, <3>2
    <3> QED BY <3>1, <3>2
  <2> QED BY <2>3, <2>4
<1>11. work' \in Memory(stage')
  BY <1>1 DEF CycleInv, TypeOK, Memory, Todo
<1>12. TypeOK'
  BY <1>1, <1>2, <1>7, <1>11 DEF CycleInv, TypeOK, RegistryTypeOK
<1>13. MemoryOK'
  BY <1>1, <1>2, <1>11, RoutingMemory
<1>14. Identity(v.id)' = i /\ \A n : Identity(n)' = Identity(n)
  BY <1>1 DEF Identity
<1>15. TrailComplete'
  BY <1>1 DEF CycleInv, TrailComplete
<1>16. NoSurvivorDropped'
  BY <1>1, <1>8, <1>14 DEF CycleInv, NoSurvivorDropped
<1>17. RegistryWritten' /\ EvidenceWritten'
  <2>1. ProposedIds' = ProposedIds
    BY <1>1 DEF ProposedIds
  <2> QED BY <1>1, <1>14, <2>1
          DEF CycleInv, RegistryWritten, EvidenceWritten, Unjudged
<1>18. SurvivorWritten'
  BY <1>1, <1>7, <1>14 DEF CycleInv, SurvivorWritten, BeingFiled
<1> QED BY <1>7, <1>10, <1>12, <1>13, <1>15, <1>16, <1>17, <1>18 DEF CycleInv

\* The human decides on a queued entry, while no cycle holds anything in memory.
LEMMA HumanAuthorizesKeeps == CycleInv /\ HumanAuthorizes => CycleInv'
<1> SUFFICES ASSUME CycleInv, HumanAuthorizes PROVE CycleInv'
  OBVIOUS
<1>1. PICK i \in Identities, state \in AuthorizingStates :
        /\ StateOf(i) \in {"queued_for_approval"} \union AuthorizingStates
        /\ registry' = [registry EXCEPT ![i].state = state]
  BY DEF HumanAuthorizes, SetState
<1>2. stage = "idle" /\ work = Fresh /\ UNCHANGED <<queue, stage, cycle, work, result, crashed>>
  BY DEF HumanAuthorizes, CycleInv, MemoryOK
<1> DEFINE e == [registry[i] EXCEPT !.state = state]
<1>3. /\ registry[i] # None /\ registry[i] \in RegistryEntry
      /\ registry[i].state \in {"queued_for_approval"} \union AuthorizingStates
  <2>1. None \notin {"queued_for_approval"} \union AuthorizingStates
    BY OrchestratorAssumption DEF WritableStates
  <2>2. registry[i] # None
    BY <1>1, <2>1 DEF StateOf
  <2> QED BY <1>1, <2>2 DEF StateOf, CycleInv, TypeOK, RegistryTypeOK
<1>4. registry[i].verdict = "survive_for_now" /\ registry[i].evidence # None
  BY <1>3 DEF CycleInv, TrailComplete, Backed, AuthorizingStates
<1>5. /\ e \in RegistryEntry /\ e.run = registry[i].run /\ e.verdict = "survive_for_now"
      /\ e.state \in AuthorizingStates /\ e.evidence # None
  BY <1>3, <1>4 DEF RegistryEntry
<1>6. Backed(e) /\ e.state # "survived_for_now"
  BY <1>5 DEF Backed, AuthorizingStates
<1>7. registry' = [registry EXCEPT ![i] = e]
  BY <1>1, <1>3 DEF CycleInv, TypeOK, RegistryTypeOK
<1>8. \E k \in DOMAIN queue : queue[k].identity = i /\ queue[k].cycle = e.run
  BY <1>1, <1>5 DEF CycleInv, QueuedHasEntry
<1> HIDE DEF e
<1>9. /\ RegistryTypeOK' /\ QueueTypeOK'
      /\ TrailComplete' /\ QueuedHasEntry' /\ FiledOnce' /\ NoSurvivorDropped'
  BY <1>2, <1>5, <1>6, <1>7, <1>8, WriteKeeps
<1>10. work'.proposal = << >> /\ work'.evidence = << >> /\ DOMAIN << >> = {} /\ ToSet(<< >>) = {}
  BY <1>2 DEF Fresh, ToSet
<1>11. RegistryWritten' /\ EvidenceWritten' /\ SurvivorWritten'
  BY <1>2, <1>10 DEF RegistryWritten, EvidenceWritten, SurvivorWritten, ProposedIds
<1>12. MemoryOK' /\ TypeOK'
  BY <1>2, <1>9, <1>10 DEF CycleInv, MemoryOK, TypeOK, Routing
<1> QED BY <1>9, <1>11, <1>12 DEF CycleInv

-----------------------------------------------------------------------------
(* The invariant *)

LEMMA CycleInvInit == Init => CycleInv
<1> SUFFICES ASSUME Init PROVE CycleInv
  OBVIOUS
<1>1. /\ \A i \in Identities : registry[i] = None /\ StateOf(i) = None
      /\ registry \in [Identities -> RegistryEntry \union {None}]
      /\ queue = << >> /\ stage = "idle" /\ work = Fresh /\ cycle = 0
      /\ result = None /\ crashed = {}
  BY DEF Init, RegistryInit, QueueInit, StateOf
<1>2. DOMAIN << >> = {} /\ ToSet(<< >>) = {} /\ \A T : << >> \in Seq(T)
  BY EmptySeq DEF ToSet
<1>3. TypeOK
  <2>1. Fresh \in Memory(stage)
    BY <1>2 DEF Fresh, Memory
  <2>2. RegistryTypeOK /\ QueueTypeOK
    BY <1>1, <1>2 DEF RegistryTypeOK, QueueTypeOK
  <2> QED BY <1>1, <2>1, <2>2, OrchestratorAssumption DEF TypeOK, Stages
<1>4. MemoryOK /\ RegistryWritten /\ EvidenceWritten /\ SurvivorWritten
  BY <1>1, <1>2
  DEF MemoryOK, RegistryWritten, EvidenceWritten, SurvivorWritten, ProposedIds, Routing, Fresh
<1>5. None \notin {"queued_for_approval", "survived_for_now"} \union AuthorizingStates
  BY OrchestratorAssumption DEF WritableStates
<1>6. FiledOnce /\ TrailComplete /\ QueuedHasEntry /\ NoSurvivorDropped
  BY <1>1, <1>2, <1>5 DEF FiledOnce, TrailComplete, QueuedHasEntry, NoSurvivorDropped
<1> QED BY <1>3, <1>4, <1>6 DEF CycleInv

LEMMA CycleInvNext == CycleInv /\ [Next]_vars => CycleInv'
<1> SUFFICES ASSUME CycleInv, [Next]_vars PROVE CycleInv'
  OBVIOUS
<1>1. CASE StartCycle
  BY <1>1, StartCycleKeeps
<1>2. CASE Call
  BY <1>2, MarketContextKeeps, StrategyLabKeeps, InterpretKeeps, CriticiseKeeps, AbortsKeep
  DEF Call
<1>3. CASE Write
  BY <1>3, UpsertNextKeeps, RecordNextKeeps, KillNextKeeps, RouteKillKeeps,
     RouteSurvivorKeeps, FileSurvivorKeeps, MarkQueuedKeeps
  DEF Write
<1>4. CASE Decide
  BY <1>4, RunBacktestsKeeps, EvidenceRecordedKeeps, StressKeeps, CompletionsKeep
  DEF Decide
<1>5. CASE Crash
  BY <1>5, CrashKeeps
<1>6. CASE HumanAuthorizes
  BY <1>6, HumanAuthorizesKeeps
<1>7. CASE UNCHANGED vars
  <2>1. UNCHANGED <<registry, queue, stage, cycle, work, result, crashed>>
    BY <1>7 DEF vars
  <2>2. TypeOK' /\ MemoryOK'
    BY <2>1
    DEF CycleInv, TypeOK, RegistryTypeOK, QueueTypeOK, MemoryOK, ProposedIds, Tested
  <2>3. RegistryWritten' /\ EvidenceWritten' /\ SurvivorWritten' /\ NoSurvivorDropped'
    BY <2>1
    DEF CycleInv, RegistryWritten, EvidenceWritten, SurvivorWritten, NoSurvivorDropped,
        ProposedIds, Identity, BeingFiled, StateOf
  <2> QED BY <2>1, <2>2, <2>3, SameFiles DEF CycleInv
<1> QED BY <1>1, <1>2, <1>3, <1>4, <1>5, <1>6, <1>7 DEF Next, CycleStep

\* What the registry, the inbox and the memory of a cycle say agrees at every
\* moment of every sequence of cycles and crashes.
THEOREM CycleConsistent == Spec => []CycleInv
BY CycleInvInit, CycleInvNext, PTL DEF Spec

\* The files and the memory of the cycle have their types.
THEOREM CycleTyped == Spec => []TypeOK
<1>1. CycleInv => TypeOK
  BY DEF CycleInv
<1> QED BY <1>1, CycleConsistent, PTL

\* An entry's state is backed by what it records, whatever crashes and
\* re-proposals came before.
THEOREM TrailAlwaysComplete == Spec => []TrailComplete
<1>1. CycleInv => TrailComplete
  BY DEF CycleInv
<1> QED BY <1>1, CycleConsistent, PTL

\* What waits for the human, or has his decision, is in the inbox once, filed by
\* the run that judged it.
THEOREM QueuedAlwaysHasEntry == Spec => []QueuedHasEntry
<1>1. CycleInv => QueuedHasEntry
  BY DEF CycleInv
<1> QED BY <1>1, CycleConsistent, PTL

\* Only a crash drops a survivor.
THEOREM SurvivorNeverDropped == Spec => []NoSurvivorDropped
<1>1. CycleInv => NoSurvivorDropped
  BY DEF CycleInv
<1> QED BY <1>1, CycleConsistent, PTL

-----------------------------------------------------------------------------
(* What a cycle costs *)

\* A call is made only if its ceiling fits in what is left of the cap.
LEMMA PaidWithinBudget ==
  ASSUME TypeOK, Affordable, NEW cost \in {0} \union CallCosts, WithinBudget(work.cost)
  PROVE  WithinBudget(work.cost + cost)
<1>1. /\ work.cost \in Nat /\ cost \in Nat /\ CostCeiling \in Nat /\ CycleCap \in Nat
      /\ work.cost + CostCeiling <= CycleCap
  <2>1. work.cost \in Nat
    BY WorkType
  <2>2. CallCosts \subseteq Nat /\ CostCeiling \in Nat /\ CycleCap \in Nat
    BY OrchestratorAssumption
  <2> QED BY <2>1, <2>2 DEF Affordable
<1>2. CASE cost \in CallCosts
  <2>1. work.cost + cost <= CycleCap + cost - CostCeiling
    BY <1>1
  <2> QED BY <1>2, <2>1 DEF WithinBudget
<1>3. CASE cost = 0
  BY <1>1, <1>3 DEF WithinBudget
<1> QED BY <1>2, <1>3

LEMMA CostBoundedNext == CycleInv /\ CostBounded /\ [Next]_vars => CostBounded'
<1> SUFFICES ASSUME CycleInv, CostBounded, [Next]_vars PROVE CostBounded'
  OBVIOUS
<1>1. /\ work \in Memory(stage) /\ WithinBudget(work.cost)
      /\ result # None => WithinBudget(result.cost)
      /\ WithinBudget(0)
  <2>1. 0 <= CycleCap
    BY OrchestratorAssumption
  <2> QED BY <2>1 DEF CycleInv, TypeOK, CostBounded, WithinBudget
<1>2. SUFFICES /\ WithinBudget(work'.cost)
               /\ result' # None => WithinBudget(result'.cost)
  BY DEF CostBounded, WithinBudget
<1>3. \A cost \in {0} \union CallCosts : Affordable => WithinBudget(work.cost + cost)
  BY <1>1, PaidWithinBudget DEF CycleInv
<1> HIDE DEF WithinBudget
<1>4. ASSUME NEW outcome, NEW cost, NEW proposed, NEW killed, NEW queued,
             Return(outcome, cost, proposed, killed, queued), WithinBudget(cost)
      PROVE  WithinBudget(work'.cost) /\ WithinBudget(result'.cost)
  BY <1>1, <1>4 DEF Return, Fresh
<1>5. CASE work' = work /\ result' = result
  BY <1>1, <1>5
<1>6. CASE StartCycle \/ Crash
  BY <1>1, <1>6 DEF StartCycle, Crash, Fresh
<1>7. CASE RefuseCall \/ CallFails \/ CallOverAgentBudget
  <2>1. CASE RefuseCall \/ CallOverAgentBudget
    BY <1>1, <1>4, <2>1 DEF RefuseCall, CallOverAgentBudget, Abort
  <2>2. CASE CallFails
    BY <1>3, <1>4, <2>2 DEF CallFails, Abort
  <2> QED BY <1>7, <2>1, <2>2
<1>8. CASE Complete
  BY <1>1, <1>4, <1>8 DEF Complete
<1>9. CASE MarketContext \/ StrategyLab \/ Interpret \/ Criticise
  <2>1. \E cost \in CallCosts : Affordable /\ work'.cost = work.cost + cost
    BY <1>1, <1>9
    DEF MarketContext, StrategyLab, Interpret, Criticise, Calling, Paying, GoOnTo, GoTo, Memory
  <2>2. result' = result
    BY <1>9 DEF MarketContext, StrategyLab, Interpret, Criticise, GoOnTo, GoTo
  <2> QED BY <1>1, <1>3, <2>1, <2>2
<1>10. CASE Write \/ RunBacktests \/ EvidenceRecorded \/ (Stress /\ ~Complete)
  <2>1. work'.cost = work.cost /\ result' = result
    BY <1>1, <1>10
    DEF Write, UpsertNext, RecordNext, KillNext, RouteKill, RouteSurvivor, FileSurvivor,
        MarkQueued, RunBacktests, EvidenceRecorded, Stress, GoOnTo, GoTo, Routed, Memory
  <2> QED BY <1>1, <2>1
<1>11. CASE NothingProposed \/ NothingTested \/ NothingSurvives \/ AllRouted
  BY <1>8, <1>11 DEF NothingProposed, NothingTested, NothingSurvives, AllRouted
<1>12. CASE HumanAuthorizes \/ UNCHANGED vars
  BY <1>5, <1>12 DEF HumanAuthorizes, vars
<1> QED BY <1>6, <1>7, <1>8, <1>9, <1>10, <1>11, <1>12
        DEF Next, CycleStep, Call, Decide

\* A cycle overspends its cap by one call's overrun at most, however it ends.
THEOREM CostAlwaysBounded == Spec => []CostBounded
<1>1. Init => CostBounded
  <2>1. 0 <= CycleCap
    BY OrchestratorAssumption
  <2> QED BY <2>1 DEF Init, CostBounded, WithinBudget, Fresh
<1> QED BY <1>1, CostBoundedNext, CycleConsistent, PTL DEF Spec

-----------------------------------------------------------------------------
(* The slow loop implements the review gate *)

GateStatus == [i \in Identities |-> Status(i)]
Inbox == {<<queue[k].cycle, queue[k].identity>> : k \in DOMAIN queue}

LEMMA StatusOfEntry ==
  ASSUME NEW i \in Identities, registry[i] # None
  PROVE  GateStatus[i] = EntryStatus(registry[i])
BY DEF GateStatus, Status

\* A write moves the strategy whose entry it writes, and no other.
LEMMA EntryMoves ==
  ASSUME CycleInv, NEW i \in Identities, NEW e \in RegistryEntry,
         registry' = [registry EXCEPT ![i] = e]
  PROVE  GateStatus' = [GateStatus EXCEPT ![i] = EntryStatus(e)]
<1>1. registry'[i] = e /\ \A j \in Identities \ {i} : registry'[j] = registry[j]
  BY DEF CycleInv, TypeOK, RegistryTypeOK
<1>2. \A j \in Identities \ {i} : Status(j)' = Status(j)
  BY <1>1 DEF Status
<1>3. Status(i)' = EntryStatus(e)
  BY <1>1, OrchestratorAssumption DEF Status
<1> HIDE DEF Status
<1> QED BY <1>2, <1>3 DEF GateStatus

LEMMA SameFilesStutter ==
  ASSUME UNCHANGED <<registry, queue>>
  PROVE  GateStatus' = GateStatus /\ Inbox' = Inbox
BY DEF GateStatus, Inbox, Status

\* Where each step of the loop leads in the gate: what the action of the gate
\* says, over the state of the files.
LEMMA UpsertProposes ==
  ASSUME CycleInv, UpsertNext
  PROVE  \E i \in Identities :
           GateStatus' = [GateStatus EXCEPT ![i] = "proposed"] /\ Inbox' = Inbox
<1> DEFINE id == Head(work.todo)
           i == Identity(id)
           e == [state |-> "proposed", run |-> cycle, evidence |-> None, verdict |-> None]
<1>1. /\ stage = "upsert" /\ work.todo # << >> /\ registry' = [registry EXCEPT ![i] = e]
      /\ queue' = queue
  BY DEF UpsertNext, UpsertProposed, GoTo
<1>2. id \in ProposedIds
  BY <1>1, RestFits DEF CycleInv, MemoryOK
<1>3. i \in Identities
  BY <1>2, ProposedIdentity DEF CycleInv
<1>4. e \in RegistryEntry
  BY <1>1, Running, OrchestratorAssumption DEF RegistryEntry, WritableStates
<1> HIDE DEF i
<1>5. EntryStatus(e) = "proposed"
  BY DEF EntryStatus, AuthorizingStates
<1> HIDE DEF e
<1>6. GateStatus' = [GateStatus EXCEPT ![i] = "proposed"] /\ Inbox' = Inbox
  BY <1>1, <1>3, <1>4, <1>5, EntryMoves DEF Inbox
<1> QED BY <1>3, <1>6

LEMMA RecordTests ==
  ASSUME CycleInv, RecordNext
  PROVE  \E i \in Identities :
           /\ GateStatus[i] \in {"proposed", "tested"}
           /\ GateStatus' = [GateStatus EXCEPT ![i] = "tested"]
           /\ Inbox' = Inbox
<1> DEFINE k == Head(work.todo)
           i == Identity(work.proposal[k].id)
           e == [registry[i] EXCEPT !.state = "backtested",
                                    !.evidence = work.proposal[k].identity]
<1>1. /\ stage = "record" /\ work.todo # << >> /\ queue' = queue
      /\ registry' = [registry EXCEPT ![i].state = "backtested",
                                      ![i].evidence = work.proposal[k].identity]
  BY DEF RecordNext, RecordBacktest, GoTo
<1>2. k \in DOMAIN work.proposal
  BY <1>1, RestFits DEF CycleInv, MemoryOK
<1>3. work.proposal[k].id \in ProposedIds /\ work.proposal[k].identity \in Identities
  BY <1>2, WorkType, CandidateFields DEF CycleInv, ProposedIds
<1>4. i \in Identities
  BY <1>3, ProposedIdentity DEF CycleInv
<1>5. /\ registry[i] # None /\ registry[i].state \in {"proposed", "backtested"}
      /\ registry[i] \in RegistryEntry
  <2>1. registry[i] # None /\ registry[i].state \in {"proposed", "backtested"}
    BY <1>1, <1>3 DEF CycleInv, RegistryWritten, Unjudged
  <2> QED BY <1>4, <2>1 DEF CycleInv, TypeOK, RegistryTypeOK
<1>6. e \in RegistryEntry /\ e.state = "backtested"
  BY <1>3, <1>5 DEF RegistryEntry, WritableStates
<1>7. registry' = [registry EXCEPT ![i] = e]
  BY <1>1, <1>4 DEF CycleInv, TypeOK, RegistryTypeOK
<1> HIDE DEF e, i
<1>8. EntryStatus(e) = "tested"
  BY <1>6 DEF EntryStatus, AuthorizingStates
<1>9. GateStatus' = [GateStatus EXCEPT ![i] = "tested"]
  BY <1>4, <1>6, <1>7, <1>8, EntryMoves
<1>10. GateStatus[i] \in {"proposed", "tested"}
  BY <1>4, <1>5, StatusOfEntry DEF EntryStatus, AuthorizingStates
<1> QED BY <1>1, <1>4, <1>9, <1>10 DEF Inbox

\* An entry of the cycle that has its evidence can be judged.
LEMMA Judgeable ==
  ASSUME CycleInv, NEW i \in Identities, registry[i] \in RegistryEntry,
         registry[i].evidence # None, registry[i].state \notin AuthorizingStates
  PROVE  GateStatus[i] \in {"tested", "killed", "survived"}
<1>1. registry[i] # None
  BY OrchestratorAssumption
<1>2. registry[i].state # "proposed"
  BY <1>1 DEF CycleInv, TrailComplete, Backed
<1>3. registry[i].state \in {"backtested", "killed", "survived_for_now", "queued_for_approval"}
  BY <1>2 DEF RegistryEntry, WritableStates
<1> QED BY <1>1, <1>3, StatusOfEntry DEF EntryStatus, AuthorizingStates

LEMMA KillJudges ==
  ASSUME CycleInv, KillNext
  PROVE  \E i \in Identities :
           /\ GateStatus[i] \in {"tested", "killed", "survived"}
           /\ GateStatus' = [GateStatus EXCEPT ![i] = "killed"]
           /\ Inbox' = Inbox
<1> DEFINE id == Head(work.todo)
           i == Identity(id)
           e == [registry[i] EXCEPT !.state = "killed"]
<1>1. /\ stage = "triage" /\ work.todo # << >> /\ queue' = queue
      /\ registry' = [registry EXCEPT ![i].state = "killed"]
  BY DEF KillNext, SetState, GoTo
<1>2. id \in Tested /\ id \in ProposedIds
  BY <1>1, RestFits DEF CycleInv, MemoryOK
<1>3. i \in Identities
  BY <1>2, ProposedIdentity DEF CycleInv
<1>4. /\ registry[i] # None /\ registry[i].state \notin AuthorizingStates
      /\ registry[i].evidence # None
  <2>1. PICK k \in ToSet(work.evidence) : work.proposal[k].id = id
    BY <1>2 DEF Tested
  <2> QED BY <1>1, <1>2, <2>1 DEF CycleInv, RegistryWritten, EvidenceWritten
<1>5. registry[i] \in RegistryEntry
  BY <1>3, <1>4 DEF CycleInv, TypeOK, RegistryTypeOK
<1>6. e \in RegistryEntry /\ e.state = "killed"
  BY <1>5 DEF RegistryEntry, WritableStates
<1>7. registry' = [registry EXCEPT ![i] = e]
  BY <1>1, <1>3 DEF CycleInv, TypeOK, RegistryTypeOK
<1> HIDE DEF e, i
<1>8. EntryStatus(e) = "killed"
  BY <1>6 DEF EntryStatus, AuthorizingStates
<1>9. GateStatus' = [GateStatus EXCEPT ![i] = "killed"]
  BY <1>3, <1>6, <1>7, <1>8, EntryMoves
<1>10. GateStatus[i] \in {"tested", "killed", "survived"}
  BY <1>3, <1>4, <1>5, Judgeable
<1> QED BY <1>1, <1>3, <1>9, <1>10 DEF Inbox

LEMMA RouteJudges ==
  ASSUME CycleInv, RouteKill \/ RouteSurvivor
  PROVE  \E i \in Identities, verdict \in {"killed", "survived"} :
           /\ GateStatus[i] \in {"tested", "killed", "survived"}
           /\ GateStatus' = [GateStatus EXCEPT ![i] = verdict]
           /\ Inbox' = Inbox
<1> DEFINE i == Identity(Head(work.todo).id)
<1>1. stage \in Routing /\ work.todo # << >> /\ queue' = queue
  BY DEF RouteKill, RouteSurvivor, Routing
<1>2. PICK verdict \in Verdicts, state \in {"killed", "survived_for_now"} :
        registry' = [registry EXCEPT ![i].verdict = verdict, ![i].state = state]
  BY DEF RouteKill, RouteSurvivor, RecordCritic, SurvivorState, Verdicts
<1> DEFINE e == [registry[i] EXCEPT !.verdict = verdict, !.state = state]
<1>3. /\ i \in Identities /\ registry[i] \in RegistryEntry
      /\ registry[i].evidence # None /\ registry[i].state \notin AuthorizingStates
  BY <1>1, VerdictAtHand
<1>4. e \in RegistryEntry /\ e.state = state
  BY <1>3 DEF RegistryEntry, WritableStates
<1>5. registry' = [registry EXCEPT ![i] = e]
  BY <1>2, <1>3 DEF CycleInv, TypeOK, RegistryTypeOK
<1> HIDE DEF e, i
<1>6. EntryStatus(e) \in {"killed", "survived"}
  BY <1>4 DEF EntryStatus, AuthorizingStates
<1>7. GateStatus' = [GateStatus EXCEPT ![i] = EntryStatus(e)]
  BY <1>3, <1>4, <1>5, EntryMoves
<1>8. GateStatus[i] \in {"tested", "killed", "survived"}
  BY <1>3, Judgeable
<1> QED BY <1>1, <1>3, <1>6, <1>7, <1>8 DEF Inbox

LEMMA FileFiles ==
  ASSUME CycleInv, FileSurvivor
  PROVE  /\ GateStatus' = GateStatus
         /\ \/ Inbox' = Inbox
            \/ \E i \in Identities, c \in 1 .. MaxCycles :
                 /\ GateStatus[i] = "survived"
                 /\ <<c, i>> \notin Inbox
                 /\ Inbox' = Inbox \union {<<c, i>>}
<1> DEFINE v == Head(work.todo)
           i == Identity(v.id)
           entry == [cycle |-> cycle, identity |-> i,
                     evidence |-> EvidenceOf(v.id), verdict |-> v.verdict]
<1>1. stage = "file" /\ Enqueue(entry) /\ UNCHANGED registry
  BY DEF FileSurvivor, GoTo
<1>2. stage \in Routing /\ work.todo # << >> /\ cycle \in 1 .. MaxCycles
  BY <1>1, Running DEF Routing, CycleInv, MemoryOK
<1>3. /\ i \in Identities /\ registry[i] # None /\ registry[i].state = "survived_for_now"
      /\ v.id \in Tested
  BY <1>1, <1>2, VerdictAtHand, OrchestratorAssumption DEF CycleInv, SurvivorWritten, BeingFiled
<1>4. GateStatus[i] = "survived"
  BY <1>3, StatusOfEntry DEF EntryStatus, AuthorizingStates
<1>5. entry.cycle = cycle /\ entry.identity = i
  OBVIOUS
<1> HIDE DEF entry, i
<1>6. GateStatus' = GateStatus
  BY <1>1 DEF GateStatus, Status
<1>7. CASE \E k \in DOMAIN queue : Matches(queue[k], entry)
  <2>1. queue' = queue
    BY <1>1, <1>7 DEF Enqueue
  <2> QED BY <1>6, <2>1 DEF Inbox
<1>8. CASE ~ \E k \in DOMAIN queue : Matches(queue[k], entry)
  <2>1. queue' = Append(queue, entry) /\ queue \in Seq(QueueEntry)
    BY <1>1, <1>8 DEF Enqueue, CycleInv, TypeOK, QueueTypeOK
  <2>2. /\ DOMAIN queue' = DOMAIN queue \union {Len(queue) + 1}
        /\ Len(queue) + 1 \notin DOMAIN queue
        /\ queue'[Len(queue) + 1] = entry
        /\ \A k \in DOMAIN queue : queue'[k] = queue[k]
    <3> HIDE DEF QueueEntry
    <3> QED BY <2>1
  <2>3. Inbox' = Inbox \union {<<cycle, i>>}
    BY <1>5, <2>2 DEF Inbox
  <2>4. <<cycle, i>> \notin Inbox
    BY <1>5, <1>8 DEF Inbox, Matches
  <2> QED BY <1>2, <1>3, <1>4, <1>6, <2>3, <2>4
<1> QED BY <1>7, <1>8

LEMMA MarkStutters ==
  ASSUME CycleInv, MarkQueued
  PROVE  GateStatus' = GateStatus /\ Inbox' = Inbox
<1> DEFINE i == Identity(Head(work.todo).id)
           e == [registry[i] EXCEPT !.state = "queued_for_approval"]
<1>1. /\ stage = "mark" /\ registry' = [registry EXCEPT ![i].state = "queued_for_approval"]
      /\ queue' = queue
  BY DEF MarkQueued, SetState, GoTo
<1>2. stage \in Routing /\ work.todo # << >>
  BY <1>1 DEF Routing, CycleInv, MemoryOK
<1>3. i \in Identities /\ registry[i] \in RegistryEntry /\ registry[i] # None
  BY <1>2, VerdictAtHand, OrchestratorAssumption
<1>4. GateStatus[i] = "survived"
  BY <1>1, <1>3, StatusOfEntry DEF CycleInv, SurvivorWritten, BeingFiled, EntryStatus, AuthorizingStates
<1>5. e \in RegistryEntry /\ e.state = "queued_for_approval"
  BY <1>3 DEF RegistryEntry, WritableStates
<1>6. registry' = [registry EXCEPT ![i] = e]
  BY <1>1, <1>3 DEF CycleInv, TypeOK, RegistryTypeOK
<1> HIDE DEF e, i
<1>7. EntryStatus(e) = "survived"
  BY <1>5 DEF EntryStatus, AuthorizingStates
<1>8. GateStatus' = [GateStatus EXCEPT ![i] = "survived"]
  BY <1>3, <1>5, <1>6, <1>7, EntryMoves
<1>9. GateStatus' = GateStatus
  BY <1>4, <1>8 DEF GateStatus
<1> QED BY <1>1, <1>9 DEF Inbox

LEMMA HumanDecides ==
  ASSUME CycleInv, HumanAuthorizes
  PROVE  /\ Inbox' = Inbox
         /\ \/ GateStatus' = GateStatus
            \/ \E i \in Identities :
                 /\ GateStatus[i] = "survived"
                 /\ \E c \in 1 .. MaxCycles : <<c, i>> \in Inbox
                 /\ GateStatus' = [GateStatus EXCEPT ![i] = "authorized"]
<1>1. PICK i \in Identities, state \in AuthorizingStates :
        /\ StateOf(i) \in {"queued_for_approval"} \union AuthorizingStates
        /\ registry' = [registry EXCEPT ![i].state = state]
  BY DEF HumanAuthorizes, SetState
<1> DEFINE e == [registry[i] EXCEPT !.state = state]
<1>2. Inbox' = Inbox
  BY DEF HumanAuthorizes, Inbox
<1>3. /\ registry[i] # None /\ registry[i] \in RegistryEntry
      /\ registry[i].state \in {"queued_for_approval"} \union AuthorizingStates
  <2>1. None \notin {"queued_for_approval"} \union AuthorizingStates
    BY OrchestratorAssumption DEF WritableStates
  <2>2. registry[i] # None
    BY <1>1, <2>1 DEF StateOf
  <2> QED BY <1>1, <2>2 DEF StateOf, CycleInv, TypeOK, RegistryTypeOK
<1>4. e \in RegistryEntry /\ e.state = state
  BY <1>3 DEF RegistryEntry
<1>5. registry' = [registry EXCEPT ![i] = e]
  BY <1>1, <1>3 DEF CycleInv, TypeOK, RegistryTypeOK
<1> HIDE DEF e
<1>6. EntryStatus(e) = "authorized"
  BY <1>4 DEF EntryStatus, AuthorizingStates
<1>7. GateStatus' = [GateStatus EXCEPT ![i] = "authorized"]
  BY <1>4, <1>5, <1>6, EntryMoves
<1>8. CASE registry[i].state \in AuthorizingStates
  <2>1. GateStatus[i] = "authorized"
    BY <1>3, <1>8, StatusOfEntry DEF EntryStatus, AuthorizingStates
  <2> QED BY <1>2, <1>7, <2>1 DEF GateStatus
<1>9. CASE registry[i].state = "queued_for_approval"
  <2>1. GateStatus[i] = "survived"
    BY <1>3, <1>9, StatusOfEntry DEF EntryStatus, AuthorizingStates
  <2>2. PICK k \in DOMAIN queue : queue[k].identity = i
    BY <1>1 DEF CycleInv, QueuedHasEntry
  <2>3. queue[k].cycle \in 1 .. MaxCycles /\ <<queue[k].cycle, i>> \in Inbox
    BY <2>2 DEF CycleInv, FiledOnce, Inbox
  <2> QED BY <1>2, <1>7, <2>1, <2>3
<1> QED BY <1>3, <1>8, <1>9

\* The other steps leave both files alone.
LEMMA OthersStutter ==
  ASSUME \/ StartCycle \/ Crash \/ Call \/ Decide \/ UNCHANGED vars
  PROVE  UNCHANGED <<registry, queue>>
BY DEF StartCycle, Crash, Call, Decide, vars, MarketContext, StrategyLab, Interpret, Criticise,
       RefuseCall, CallFails, CallOverAgentBudget, NothingProposed, RunBacktests, NothingTested,
       EvidenceRecorded, NothingSurvives, Stress, AllRouted, Complete, Abort, Return, GoOnTo

\* Seen through the registry and the inbox, every sequence of cycles is a run of
\* the review gate: what reaches the human was tested and survived since it was
\* last proposed, and only he authorizes it.
THEOREM ReviewGateImplemented == Spec => ImplementsReviewGate
<1>1. Init => Gate!Init
  <2> SUFFICES ASSUME Init PROVE Gate!Init
    OBVIOUS
  <2>1. \A i \in Identities : Status(i) = None
    BY DEF Init, RegistryInit, Status
  <2>2. DOMAIN queue = {}
    BY DEF Init, QueueInit
  <2> QED BY <2>1, <2>2 DEF Gate!Init
<1>2. CycleInv /\ [Next]_vars => [Gate!Next]_Gate!gate
  <2> SUFFICES ASSUME CycleInv, [Next]_vars PROVE [Gate!Next]_Gate!gate
    OBVIOUS
  <2>1. CASE UpsertNext
    BY <2>1, UpsertProposes DEF GateStatus, Inbox, Gate!Next, Gate!Propose, Gate!Move
  <2>2. CASE RecordNext
    BY <2>2, RecordTests DEF GateStatus, Inbox, Gate!Next, Gate!Test, Gate!Move
  <2>3. CASE KillNext
    BY <2>3, KillJudges DEF GateStatus, Inbox, Gate!Next, Gate!Judge, Gate!Move
  <2>4. CASE RouteKill \/ RouteSurvivor
    BY <2>4, RouteJudges DEF GateStatus, Inbox, Gate!Next, Gate!Judge, Gate!Move
  <2>5. CASE FileSurvivor
    BY <2>5, FileFiles DEF GateStatus, Inbox, Gate!Next, Gate!File, Gate!gate
  <2>6. CASE MarkQueued
    BY <2>6, MarkStutters DEF GateStatus, Inbox, Gate!gate
  <2>7. CASE HumanAuthorizes
    BY <2>7, HumanDecides DEF GateStatus, Inbox, Gate!Next, Gate!Authorize, Gate!Move, Gate!gate
  <2>8. CASE StartCycle \/ Crash \/ Call \/ Decide \/ UNCHANGED vars
    BY <2>8, OthersStutter, SameFilesStutter DEF GateStatus, Inbox, Gate!gate
  <2> QED BY <2>1, <2>2, <2>3, <2>4, <2>5, <2>6, <2>7, <2>8 DEF Next, CycleStep, Write
<1> QED BY <1>1, <1>2, CycleConsistent, PTL DEF Spec, ImplementsReviewGate, Gate!Spec

-----------------------------------------------------------------------------
(***************************************************************************)
(* A cycle comes to its end: what is left of it is its stages, what it has *)
(* to do in the stage, and the steps of the verdict at hand.               *)
(***************************************************************************)
StagesLeft == CASE stage = "market_context" -> 8
                [] stage = "strategy_lab"   -> 7
                [] stage = "upsert"         -> 6
                [] stage = "record"         -> 5
                [] stage = "backtest_agent" -> 4
                [] stage = "triage"         -> 3
                [] stage = "critic"         -> 2
                [] stage \in Routing        -> 1
                [] OTHER                    -> 0
VerdictLeft == CASE stage = "route" -> 2
                 [] stage = "file"  -> 1
                 [] OTHER           -> 0
CycleLeft == <<StagesLeft, Len(work.todo), VerdictLeft>>

LEMMA CycleLeftType ==
  ASSUME CycleInv
  PROVE  /\ StagesLeft \in Nat /\ Len(work.todo) \in Nat /\ VerdictLeft \in Nat
         /\ stage # "idle" => StagesLeft > 0
         /\ CycleLeft \in Triple
<1>1. stage \in Stages /\ work \in Memory(stage)
  BY DEF CycleInv, TypeOK
<1>2. work.todo \in Seq(Todo(stage))
  BY <1>1 DEF Memory
<1>3. Len(work.todo) \in Nat
  BY <1>2, LenProperties
<1>4. StagesLeft \in Nat /\ VerdictLeft \in Nat /\ (stage # "idle" => StagesLeft > 0)
  BY <1>1 DEF StagesLeft, VerdictLeft, Stages, CallStages, Routing
<1> QED BY <1>3, <1>4 DEF CycleLeft, Triple

LEMMA CycleFalls ==
  ASSUME CycleInv, Next, stage # "idle"
  PROVE  Falls(CycleLeft, CycleLeft')
<1>1. /\ CycleLeft[1] = StagesLeft /\ CycleLeft'[1] = StagesLeft'
      /\ CycleLeft[2] = Len(work.todo) /\ CycleLeft'[2] = Len(work'.todo)
      /\ CycleLeft[3] = VerdictLeft /\ CycleLeft'[3] = VerdictLeft'
  BY DEF CycleLeft
<1>2. /\ StagesLeft \in Nat /\ Len(work.todo) \in Nat /\ VerdictLeft \in Nat
      /\ StagesLeft > 0
  BY CycleLeftType
<1>3. ASSUME StagesLeft' < StagesLeft PROVE Falls(CycleLeft, CycleLeft')
  BY <1>1, <1>3 DEF Falls
<1>4. ASSUME stage' = "idle" PROVE Falls(CycleLeft, CycleLeft')
  <2>1. StagesLeft' = 0
    BY <1>4 DEF StagesLeft, Routing
  <2> QED BY <1>2, <1>3, <2>1
<1>5. ASSUME StagesLeft' = StagesLeft, work.todo # << >>, work'.todo = Tail(work.todo)
      PROVE  Falls(CycleLeft, CycleLeft')
  <2>1. PICK S : work.todo \in Seq(S)
    BY DEF CycleInv, TypeOK, Memory
  <2>2. Len(Tail(work.todo)) = Len(work.todo) - 1
    BY <1>5, <2>1
  <2> QED BY <1>1, <1>2, <1>5, <2>2 DEF Falls
<1>6. ~(StartCycle \/ HumanAuthorizes)
  BY DEF StartCycle, HumanAuthorizes
<1>7. CASE Crash
  BY <1>4, <1>7 DEF Crash
<1>8. ASSUME \/ Complete \/ \E outcome, cost : Abort(outcome, cost)
      PROVE  Falls(CycleLeft, CycleLeft')
  BY <1>4, <1>8 DEF Complete, Abort, Return
<1>9. CASE Call
  <2>1. CASE RefuseCall \/ CallFails \/ CallOverAgentBudget
    BY <1>8, <2>1 DEF RefuseCall, CallFails, CallOverAgentBudget
  <2>2. CASE MarketContext \/ StrategyLab \/ Interpret \/ Criticise
    <3>1. \/ stage = "market_context" /\ stage' = "strategy_lab"
          \/ stage = "strategy_lab" /\ stage' = "upsert"
          \/ stage = "backtest_agent" /\ stage' = "triage"
          \/ stage = "critic" /\ stage' = "route"
      BY <2>2 DEF MarketContext, StrategyLab, Interpret, Criticise, Calling, GoOnTo, GoTo
    <3>2. StagesLeft' < StagesLeft
      BY <3>1 DEF StagesLeft, Routing
    <3> QED BY <1>3, <3>2
  <2> QED BY <1>9, <2>1, <2>2 DEF Call
<1>10. CASE Decide
  <2>1. CASE Complete
    BY <1>8, <2>1
  <2>2. CASE ~Complete
    <3>1. RunBacktests \/ EvidenceRecorded \/ Stress
      BY <1>10, <2>2 DEF Decide, NothingProposed, NothingTested, NothingSurvives, AllRouted
    <3>2. \/ stage = "upsert" /\ stage' = "record"
          \/ stage = "record" /\ stage' = "backtest_agent"
          \/ stage = "triage" /\ stage' = "critic"
      BY <2>2, <3>1 DEF RunBacktests, EvidenceRecorded, Stress, GoOnTo, GoTo
    <3>3. StagesLeft' < StagesLeft
      BY <3>2 DEF StagesLeft, Routing
    <3> QED BY <1>3, <3>3
  <2> QED BY <2>1, <2>2
<1>11. CASE UpsertNext \/ RecordNext \/ KillNext
  <2>1. stage' = stage /\ work.todo # << >> /\ work'.todo = Tail(work.todo)
    <3>1. \A memory \in Memory(stage) : \A rest, n :
            /\ [memory EXCEPT !.todo = rest].todo = rest
            /\ [memory EXCEPT !.todo = rest, !.killed = n].todo = rest
      BY DEF Memory
    <3>2. work \in Memory(stage)
      BY DEF CycleInv, TypeOK
    <3>3. CASE UpsertNext
      BY <3>1, <3>2, <3>3 DEF UpsertNext, GoTo
    <3>4. CASE RecordNext
      BY <3>1, <3>2, <3>4 DEF RecordNext, GoTo
    <3>5. CASE KillNext
      BY <3>1, <3>2, <3>5 DEF KillNext, GoTo
    <3> QED BY <1>11, <3>3, <3>4, <3>5
  <2>2. StagesLeft' = StagesLeft
    BY <2>1 DEF StagesLeft
  <2> QED BY <1>5, <2>1, <2>2
<1>12. CASE RouteKill \/ MarkQueued
  <2>1. /\ stage \in Routing /\ stage' = "route" /\ work.todo # << >>
        /\ work'.todo = Tail(work.todo)
    <3>1. work \in Memory(stage)
      BY DEF CycleInv, TypeOK
    <3>2. stage = "mark" => work.todo # << >>
      BY DEF CycleInv, MemoryOK
    <3> QED BY <1>12, <3>1, <3>2 DEF RouteKill, MarkQueued, GoTo, Routed, Memory, Routing
  <2>2. StagesLeft' = StagesLeft
    BY <2>1 DEF StagesLeft, Routing
  <2> QED BY <1>5, <2>1, <2>2
<1>13. CASE RouteSurvivor \/ FileSurvivor
  <2>1. /\ work' = work
        /\ \/ stage = "route" /\ stage' = "file"
           \/ stage = "file" /\ stage' = "mark"
    BY <1>13 DEF RouteSurvivor, FileSurvivor, GoTo
  <2>2. StagesLeft' = StagesLeft /\ VerdictLeft' < VerdictLeft
    BY <2>1 DEF StagesLeft, VerdictLeft, Routing
  <2> QED BY <1>1, <2>1, <2>2 DEF Falls
<1> QED BY <1>6, <1>7, <1>9, <1>10, <1>11, <1>12, <1>13 DEF Next, CycleStep, Write

\* While a cycle runs every step leaves less to do, whatever the agents answer
\* and wherever the process dies: no stage is entered twice and no verdict is
\* routed twice, for any proposals, verdicts and costs (CycleReturns without its
\* scheduling; orchestrator.py, _run_pipeline).
THEOREM CycleCountsDown ==
  Spec => /\ [](CycleLeft \in Triple)
          /\ [][stage # "idle" => Falls(CycleLeft, CycleLeft')]_vars
<1>1. CycleInv => CycleLeft \in Triple
  BY CycleLeftType
<1>2. CycleInv /\ [Next]_vars => [stage # "idle" => Falls(CycleLeft, CycleLeft')]_vars
  BY CycleFalls
<1> QED BY <1>1, <1>2, CycleConsistent, PTL DEF Spec
================================================================================
