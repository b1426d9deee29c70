----------------------- MODULE PolicyExecutionProofs ------------------------
(***************************************************************************)
(* Proofs about PolicyExecution, for every set of policies, plans and UEs, *)
(* every poll budget and every number of executions and read faults.       *)
(***************************************************************************)
EXTENDS PolicyExecution, SequenceTheorems, WellFoundedInduction, TLAPS

(* A nonempty set of naturals has a least element: the walk over the        *)
(* mobility policies always finds the next one.                             *)
LEMMA LeastNatural ==
  ASSUME NEW S \in SUBSET Nat, S # {}
  PROVE  \E m \in S : \A k \in S : m <= k
<1> DEFINE R == OpToRel(<, Nat)
<1>1. IsWellFoundedOn(R, Nat)
  BY NatLessThanWellFounded
<1> HIDE DEF R
<1>2. PICK m \in S : \A k \in S : ~ (<<k, m>> \in R)
  BY <1>1, WFMin
<1>3. \A k \in S : k < m => <<k, m>> \in R
  BY DEF R, OpToRel
<1>4. \A k \in S : ~ (k < m)
  BY <1>2, <1>3
<1>5. \A k \in S : k \in Nat /\ m \in Nat
  OBVIOUS
<1> QED BY <1>4, <1>5

(* NextMobility answers the position of the next AM policy of the plan, or  *)
(* 0 when there is none.                                                    *)
LEMMA NextMobilityIsNext ==
  ASSUME TypeOK, NEW i \in Nat \ {0}
  PROVE  /\ NextMobility(i) = 0
              => \A k \in i .. Len(plan.policies) : KindOf[plan.policies[k]] # "am"
         /\ NextMobility(i) # 0
              => /\ NextMobility(i) \in i .. Len(plan.policies)
                 /\ KindOf[plan.policies[NextMobility(i)]] = "am"
                 /\ \A k \in i .. NextMobility(i) - 1 : KindOf[plan.policies[k]] # "am"
<1> DEFINE S == {j \in i .. Len(plan.policies) : KindOf[plan.policies[j]] = "am"}
           IsNext(j) == /\ KindOf[plan.policies[j]] = "am"
                        /\ \A k \in i .. Len(plan.policies) :
                              KindOf[plan.policies[k]] = "am" => j <= k
<1>1. Len(plan.policies) \in Nat
  BY DEF TypeOK, PlanType
<1>2. CASE S = {}
  BY <1>2 DEF NextMobility
<1>3. CASE S # {}
  <2>1. S \in SUBSET Nat
    BY <1>1
  <2>2. PICK m \in S : \A k \in S : m <= k
    BY <1>3, <2>1, LeastNatural
  <2>3. \E j \in i .. Len(plan.policies) : IsNext(j)
    BY <2>2
  <2>4. NextMobility(i) = CHOOSE j \in i .. Len(plan.policies) : IsNext(j)
    BY <1>3 DEF NextMobility
  <2> HIDE DEF IsNext, S
  <2>5. NextMobility(i) \in i .. Len(plan.policies) /\ IsNext(NextMobility(i))
    BY <2>3, <2>4
  <2> USE DEF IsNext
  <2>6. \A k \in i .. NextMobility(i) - 1 : KindOf[plan.policies[k]] # "am"
    BY <1>1, <2>5
  <2> QED BY <2>5, <2>6
<1> QED BY <1>2, <1>3

LEMMA NextMobilityInPlan ==
  ASSUME TypeOK, NEW i \in Nat \ {0}, NextMobility(i) # 0
  PROVE  NextMobility(i) \in 1 .. Len(plan.policies)
<1>1. NextMobility(i) \in i .. Len(plan.policies)
  BY NextMobilityIsNext
<1>2. Len(plan.policies) \in Nat
  BY DEF TypeOK, PlanType
<1> QED BY <1>1, <1>2

(* The UE a plan is written back under exists.                              *)
LEMMA CommitSupiIsUe ==
  ASSUME TypeOK, plan.policies # << >>
  PROVE  CommitSupi \in Supis
<1>1. Len(plan.policies) \in Nat /\ plan.policies[1] \in Policies
  BY EmptySeq, LenProperties, ElementOfSeq DEF TypeOK, PlanType
<1> QED BY <1>1, PolicyAssumption DEF CommitSupi, TypeOK, PlanType

LEMMA CurrentIsPolicy ==
  ASSUME TypeOK, idx \in 1 .. Len(plan.policies)
  PROVE  Current \in Policies
BY ElementOfSeq DEF TypeOK, PlanType, Current

(* One policy is settled with the receipt r: the cursor moves on and every  *)
(* part of the invariant about the batch survives.                          *)
LEMMA ReceiptKeepsBatch ==
  ASSUME ExecInv, xpc \in {"dispatch", "poll", "assure"},
         NEW r \in Receipt, r.policy = Current, r.ok => Current \in applied,
         NEW f \in Seq(Failure), f = << >> => failures = << >> /\ r.ok,
         receipts' = Append(receipts, r), failures' = f,
         NextPolicy, UNCHANGED <<plan, applied>>
  PROVE  /\ xpc' \in Stages /\ idx' \in Nat \ {0} /\ op' \in OpState
         /\ budget' \in 0 .. PollBudget /\ receipts' \in Seq(Receipt)
         /\ failures' \in Seq(Failure)
         /\ CursorInPlan' /\ EachPolicyOnce' /\ ReceiptsAreTrue' /\ CommitIsWhole'
<1> USE DEF ExecInv
<1>1. /\ Len(plan.policies) \in Nat /\ idx \in 1 .. Len(plan.policies)
      /\ Len(receipts) = idx - 1 /\ receipts \in Seq(Receipt)
  BY DEF TypeOK, PlanType, CursorInPlan, EachPolicyOnce, Dispatched
<1>2. /\ receipts' \in Seq(Receipt) /\ Len(receipts') = idx
      /\ \A i \in 1 .. Len(receipts) : receipts'[i] = receipts[i]
      /\ receipts'[idx] = r
  BY <1>1, AppendProperties
<1>3. /\ xpc' \in {"dispatch", "outcome"} /\ idx' = idx + 1 /\ op' = "none" /\ budget' = 0
      /\ xpc' = "dispatch" <=> idx < Len(plan.policies)
  BY DEF NextPolicy
<1>4. CursorInPlan'
  BY <1>1, <1>3 DEF CursorInPlan, CommitStages
<1>5. EachPolicyOnce'
  BY <1>1, <1>2, <1>3 DEF EachPolicyOnce, Dispatched, Current
<1>6. ReceiptsAreTrue'
  BY <1>1, <1>2 DEF ReceiptsAreTrue
<1>7. CommitIsWhole'
  BY <1>3 DEF CommitIsWhole, CommitStages
<1>8. xpc' \in Stages /\ idx' \in Nat \ {0} /\ op' \in OpState /\ budget' \in 0 .. PollBudget
  BY <1>1, <1>3, BoundAssumption DEF Stages, OpState
<1> QED BY <1>2, <1>4, <1>5, <1>6, <1>7, <1>8

(* The rest of the invariant is about the gateway and the UE store.         *)
LEMMA StoreUntouched ==
  ASSUME ExecInv, applied \subseteq applied', applied' \subseteq Policies, UNCHANGED ueVars
  PROVE  CopyWasApplied' /\ CommittedWasApplied'
BY DEF ExecInv, CopyWasApplied, CommittedWasApplied, ueVars

(* Every way a dispatch can fail.                                           *)
LEMMA FailureKeepsInv ==
  ASSUME ExecInv, xpc \in {"dispatch", "poll", "assure"},
         NEW forbidden \in BOOLEAN, NEW left \in BOOLEAN,
         DispatchFails(forbidden, left), reposted' \subseteq Policies,
         UNCHANGED <<plan, report, applied, ueVars, executions>>
  PROVE  ExecInv'
<1> DEFINE r == [policy |-> Current, ok |-> FALSE, verdict |-> "none"]
           f == Append(failures, [policy |-> Current, phase |-> "dispatch",
                                  forbidden |-> forbidden])
<1>1. Current \in Policies
  BY CurrentIsPolicy DEF ExecInv, CursorInPlan
<1>2. r \in Receipt /\ r.policy = Current /\ ~ r.ok
  BY <1>1 DEF Receipt
<1>3. f \in Seq(Failure) /\ f # << >>
  BY <1>1, AppendProperties DEF Failure, ExecInv, TypeOK
<1>4. receipts' = Append(receipts, r) /\ failures' = f /\ NextPolicy
  BY DEF DispatchFails
<1> HIDE DEF r, f
<1>5. /\ xpc' \in Stages /\ idx' \in Nat \ {0} /\ op' \in OpState
      /\ budget' \in 0 .. PollBudget /\ receipts' \in Seq(Receipt)
      /\ failures' \in Seq(Failure)
      /\ CursorInPlan' /\ EachPolicyOnce' /\ ReceiptsAreTrue' /\ CommitIsWhole'
  BY <1>2, <1>3, <1>4, ReceiptKeepsBatch
<1>6. orphans' \in [Policies -> Nat] /\ expired' \subseteq Policies
  BY <1>1 DEF DispatchFails, ExecInv, TypeOK
<1>7. TypeOK'
  BY <1>5, <1>6 DEF ExecInv, TypeOK, ueVars
<1>8. CopyWasApplied' /\ CommittedWasApplied'
  BY StoreUntouched DEF ExecInv, TypeOK
<1> QED BY <1>5, <1>7, <1>8 DEF ExecInv

(* A report is delivered by a state that has settled its batch or has none. *)
LEMMA DeliverKeepsInv ==
  ASSUME ExecInv, xpc \in {"compile", "outcome"},
         NEW outcome \in ReportType, Deliver(outcome),
         UNCHANGED <<batchVars, gwVars, ueVars, histVars>>
  PROVE  ExecInv'
<1>1. report' \in ReportType /\ xpc' = "done"
  BY DEF Deliver, BuildFeedback, ReportType
<1>2. TypeOK'
  BY <1>1 DEF ExecInv, TypeOK, Stages, batchVars, gwVars, ueVars, histVars
<1>3. CursorInPlan'
  BY <1>1 DEF ExecInv, CursorInPlan, CommitStages, batchVars, gwVars, Current
<1>4. EachPolicyOnce' /\ ReceiptsAreTrue' /\ CommitIsWhole'
  BY <1>1 DEF ExecInv, EachPolicyOnce, Dispatched, ReceiptsAreTrue, CommitIsWhole, CommitStages,
              batchVars, gwVars
<1>5. CopyWasApplied' /\ CommittedWasApplied'
  BY StoreUntouched DEF ExecInv, TypeOK, gwVars
<1> QED BY <1>2, <1>3, <1>4, <1>5 DEF ExecInv

(* A write-back step moves on to the next mobility policy or to "Success".  *)
LEMMA CommitKeepsCursor ==
  ASSUME ExecInv, xpc \in CommitStages \cup {"outcome"}, failures = << >>,
         Len(receipts) = Len(plan.policies),
         NEW i \in Nat \ {0}, CommitMobilityFrom(i),
         UNCHANGED <<plan, op, receipts, failures, applied>>
  PROVE  /\ xpc' \in Stages /\ idx' \in Nat \ {0} /\ report' \in ReportType
         /\ CursorInPlan' /\ EachPolicyOnce' /\ ReceiptsAreTrue' /\ CommitIsWhole'
<1>1. NextMobility(i) # 0 => NextMobility(i) \in 1 .. Len(plan.policies)
  BY NextMobilityInPlan DEF ExecInv
<1>2. \/ xpc' = "done" /\ idx' = idx /\ report' \in ReportType
      \/ xpc' = "assoc" /\ idx' \in 1 .. Len(plan.policies) /\ report' = report
  <2>1. [status |-> "Success", forbidden |-> FALSE, nested |-> FALSE] \in ReportType
    BY DEF ReportType, Statuses
  <2> QED BY <1>1, <2>1 DEF CommitMobilityFrom, Deliver, BuildFeedback
<1>3. op \notin {"inflight", "applied"} /\ Len(plan.policies) \in Nat /\ plan.policies # << >>
  BY DEF ExecInv, CursorInPlan, CommitStages, TypeOK, OpState, PlanType
<1>4. CursorInPlan'
  BY <1>2, <1>3 DEF CursorInPlan, CommitStages
<1>5. EachPolicyOnce' /\ ReceiptsAreTrue' /\ CommitIsWhole'
  BY <1>2 DEF ExecInv, EachPolicyOnce, Dispatched, ReceiptsAreTrue, CommitIsWhole, CommitStages
<1>6. xpc' \in Stages /\ idx' \in Nat \ {0} /\ report' \in ReportType
  BY <1>2, <1>3 DEF ExecInv, TypeOK, Stages
<1> QED BY <1>4, <1>5, <1>6

(* When the write-back begins, and throughout it, every policy of the plan  *)
(* is active at the gateway.                                                *)
LEMMA WholePlanApplied ==
  ASSUME ExecInv, failures = << >>, Len(receipts) = Len(plan.policies)
  PROVE  PolicySet(plan) \subseteq applied
<1> SUFFICES ASSUME NEW i \in 1 .. Len(plan.policies) PROVE plan.policies[i] \in applied
  BY DEF PolicySet
<1> QED BY DEF ExecInv, EachPolicyOnce, ReceiptsAreTrue

(* One step of the write-back, by the transaction it performs.              *)
LEMMA CommitKeepsInv ==
  ASSUME ExecInv, Commit
  PROVE  ExecInv'
<1>a. CASE xpc = "outcome" /\ failures # << >>
  BY <1>a DEF Commit, BeginCommit, CommitAccess, CommitAssociation, CommitMobilityContext,
              CommitBinding, CommitMobilityEvent, CommitRaises
<1>b. CASE ~ (xpc = "outcome" /\ failures # << >>)
  <2>1. /\ failures = << >> /\ Len(receipts) = Len(plan.policies) /\ plan.policies # << >>
        /\ xpc \in CommitStages \cup {"outcome"}
    BY <1>b DEF Commit, BeginCommit, CommitAccess, CommitAssociation, CommitMobilityContext,
              CommitBinding, CommitMobilityEvent, CommitRaises, CommitStages, ExecInv,
              CommitIsWhole, EachPolicyOnce, CursorInPlan
  <2>2. PolicySet(plan) \subseteq applied /\ CommitSupi \in Supis
    BY <2>1, WholePlanApplied, CommitSupiIsUe DEF ExecInv
  <2>3. AccessPolicies \subseteq applied /\ applied \subseteq Policies
    BY <2>2 DEF AccessPolicies, ExecInv, TypeOK
  <2>4. xpc \in CommitStages \ {"access"} => Current \in applied /\ idx \in Nat \ {0}
    BY <2>2 DEF ExecInv, CursorInPlan, Current, PolicySet, TypeOK
  <2>5. ASSUME NEW read \in BOOLEAN, BeginCommit(read) PROVE ExecInv'
    <3>1. existing' \in ContextCopy /\ CopyWasApplied'
      BY <2>2, <2>3, <2>5 DEF BeginCommit, ReadContext, EmptyContext, ContextCopy, CopyWasApplied,
                         ExecInv, CommittedWasApplied, TypeOK, gwVars
    <3>2. /\ xpc' \in Stages /\ idx' \in Nat \ {0} /\ report' \in ReportType
          /\ CursorInPlan' /\ EachPolicyOnce' /\ ReceiptsAreTrue' /\ CommitIsWhole'
      <4>1. CASE AccessPolicies = {}
        BY <4>1, <2>1, <2>5, CommitKeepsCursor DEF BeginCommit, gwVars
      <4>2. CASE AccessPolicies # {}
        BY <4>2, <2>1, <2>5 DEF BeginCommit, gwVars, ExecInv, TypeOK, Stages, CursorInPlan,
             CommitStages, EachPolicyOnce, Dispatched, ReceiptsAreTrue, CommitIsWhole
      <4> QED BY <4>1, <4>2
    <3>3. readFaults' \in 0 .. MaxReadFaults
      BY <2>5, BoundAssumption DEF BeginCommit, ExecInv, TypeOK
    <3>4. TypeOK' /\ CommittedWasApplied'
      BY <2>5, <3>1, <3>2, <3>3 DEF BeginCommit, gwVars, histVars, ExecInv, TypeOK, CommittedWasApplied
    <3> QED BY <3>1, <3>2, <3>4 DEF ExecInv
  <2>6. CASE CommitAccess
    <3>1. /\ xpc' \in Stages /\ idx' \in Nat \ {0} /\ report' \in ReportType
          /\ CursorInPlan' /\ EachPolicyOnce' /\ ReceiptsAreTrue' /\ CommitIsWhole'
      BY <2>1, <2>6, CommitKeepsCursor DEF CommitAccess, gwVars
    <3>2. /\ existing' \in ContextCopy /\ CopyWasApplied'
          /\ existing'.access \subseteq applied
          /\ ueAccess' = [ueAccess EXCEPT ![CommitSupi] = existing'.access]
      BY <2>3, <2>6 DEF CommitAccess, gwVars, ContextCopy, CopyWasApplied, ExecInv, TypeOK
    <3>3. ueAccess' \in [Supis -> SUBSET Policies] /\ CommittedWasApplied'
      BY <2>2, <2>3, <2>6, <3>2 DEF CommitAccess, gwVars, CommittedWasApplied, ExecInv, TypeOK
    <3>4. TypeOK'
      BY <2>6, <3>1, <3>2, <3>3 DEF CommitAccess, gwVars, histVars, ExecInv, TypeOK
    <3> QED BY <3>1, <3>2, <3>3, <3>4 DEF ExecInv
  <2>7. CASE CommitAssociation
    <3>1. ueAssoc' \in [Supis -> SUBSET Policies] /\ CommittedWasApplied'
      BY <2>2, <2>3, <2>4, <2>7 DEF CommitAssociation, gwVars, CommittedWasApplied, ExecInv, TypeOK,
                               CommitStages
    <3>2. TypeOK'
      BY <2>7, <3>1 DEF CommitAssociation, batchVars, gwVars, histVars, ExecInv, TypeOK, Stages
    <3>3. CursorInPlan' /\ EachPolicyOnce' /\ ReceiptsAreTrue' /\ CommitIsWhole' /\ CopyWasApplied'
      BY <2>7 DEF CommitAssociation, batchVars, gwVars, ExecInv, CursorInPlan, CommitStages,
         EachPolicyOnce, Dispatched, ReceiptsAreTrue, CommitIsWhole, CopyWasApplied, Current
    <3> QED BY <3>1, <3>2, <3>3 DEF ExecInv
  <2>8. CASE CommitMobilityContext
    <3>1. /\ existing' \in ContextCopy /\ CopyWasApplied'
          /\ existing'.mobility \subseteq applied
          /\ ueMobility' = [ueMobility EXCEPT ![CommitSupi] = existing'.mobility]
      BY <2>3, <2>4, <2>8 DEF CommitMobilityContext, gwVars, ContextCopy, CopyWasApplied, ExecInv,
                         TypeOK, CommitStages
    <3>2. ueMobility' \in [Supis -> SUBSET Policies] /\ CommittedWasApplied'
      BY <2>2, <2>3, <2>8, <3>1 DEF CommitMobilityContext, gwVars, CommittedWasApplied, ExecInv, TypeOK
    <3>3. TypeOK'
      BY <2>2, <2>8, <3>1, <3>2 DEF CommitMobilityContext, batchVars, gwVars, histVars, ExecInv,
                               TypeOK, Stages
    <3>4. CursorInPlan' /\ EachPolicyOnce' /\ ReceiptsAreTrue' /\ CommitIsWhole'
      BY <2>8 DEF CommitMobilityContext, batchVars, gwVars, ExecInv, CursorInPlan, CommitStages,
         EachPolicyOnce, Dispatched, ReceiptsAreTrue, CommitIsWhole, Current
    <3> QED BY <3>1, <3>2, <3>3, <3>4 DEF ExecInv
  <2>9. CASE CommitBinding
    <3>1. TypeOK' /\ CopyWasApplied' /\ CommittedWasApplied'
      BY <2>2, <2>9 DEF CommitBinding, batchVars, gwVars, histVars, ExecInv, TypeOK, Stages,
                   CopyWasApplied, CommittedWasApplied
    <3>2. CursorInPlan' /\ EachPolicyOnce' /\ ReceiptsAreTrue' /\ CommitIsWhole'
      BY <2>9 DEF CommitBinding, batchVars, gwVars, ExecInv, CursorInPlan, CommitStages,
         EachPolicyOnce, Dispatched, ReceiptsAreTrue, CommitIsWhole, Current
    <3> QED BY <3>1, <3>2 DEF ExecInv
  <2>10. CASE CommitMobilityEvent
    <3>1. /\ xpc' \in Stages /\ idx' \in Nat \ {0} /\ report' \in ReportType
          /\ CursorInPlan' /\ EachPolicyOnce' /\ ReceiptsAreTrue' /\ CommitIsWhole'
      BY <2>1, <2>4, <2>10, CommitKeepsCursor DEF CommitMobilityEvent, gwVars, CommitStages
    <3>2. ueEvents' \in [Supis -> SUBSET Policies] /\ CommittedWasApplied'
      BY <2>2, <2>3, <2>4, <2>10 DEF CommitMobilityEvent, gwVars, CommittedWasApplied, ExecInv,
                                TypeOK, CommitStages
    <3>3. TypeOK' /\ CopyWasApplied'
      BY <2>10, <3>1, <3>2 DEF CommitMobilityEvent, gwVars, histVars, ExecInv, TypeOK, CopyWasApplied
    <3> QED BY <3>1, <3>2, <3>3 DEF ExecInv
  <2>11. CASE CommitRaises
    <3>1. TypeOK' /\ CopyWasApplied' /\ CommittedWasApplied'
      BY <2>11 DEF CommitRaises, batchVars, gwVars, ueVars, histVars, ExecInv, TypeOK, Stages,
                   CopyWasApplied, CommittedWasApplied
    <3>2. CursorInPlan' /\ EachPolicyOnce' /\ ReceiptsAreTrue' /\ CommitIsWhole'
      BY <2>11 DEF CommitRaises, batchVars, gwVars, ExecInv, CursorInPlan, CommitStages,
         EachPolicyOnce, Dispatched, ReceiptsAreTrue, CommitIsWhole, Current
    <3> QED BY <3>1, <3>2 DEF ExecInv
  <2> QED BY <2>5, <2>6, <2>7, <2>8, <2>9, <2>10, <2>11 DEF Commit
<1> QED BY <1>a, <1>b

(* The gateway only ever adds to the policies it has applied.               *)
LEMMA GatewayKeepsInv ==
  ASSUME ExecInv, Gateway
  PROVE  ExecInv'
<1>1. CASE GatewayApplies
  <2>1. Current \in Policies /\ xpc = "poll"
    BY <1>1, CurrentIsPolicy DEF GatewayApplies, ExecInv, CursorInPlan
  <2>2. applied \subseteq applied' /\ applied' \subseteq Policies
    BY <1>1, <2>1 DEF GatewayApplies, ExecInv, TypeOK
  <2>3. TypeOK'
    BY <1>1, <2>2 DEF GatewayApplies, ExecInv, TypeOK, OpState, ueVars, histVars
  <2>4. CursorInPlan' /\ EachPolicyOnce' /\ ReceiptsAreTrue' /\ CommitIsWhole'
    BY <1>1, <2>1, <2>2 DEF GatewayApplies, ExecInv, CursorInPlan, CommitStages, EachPolicyOnce,
       Dispatched, ReceiptsAreTrue, CommitIsWhole, Current
  <2>5. CopyWasApplied' /\ CommittedWasApplied'
    BY <1>1, <2>2, StoreUntouched DEF GatewayApplies
  <2> QED BY <2>3, <2>4, <2>5 DEF ExecInv
<1>2. CASE GatewayRejects
  <2>1. TypeOK'
    BY <1>2 DEF GatewayRejects, ExecInv, TypeOK, OpState, gwVars, ueVars, histVars
  <2>2. CursorInPlan' /\ EachPolicyOnce' /\ ReceiptsAreTrue' /\ CommitIsWhole'
    BY <1>2 DEF GatewayRejects, gwVars, ExecInv, CursorInPlan, CommitStages, EachPolicyOnce,
       Dispatched, ReceiptsAreTrue, CommitIsWhole, Current
  <2>3. CopyWasApplied' /\ CommittedWasApplied'
    BY <1>2, StoreUntouched DEF GatewayRejects, gwVars, ExecInv, TypeOK
  <2> QED BY <2>1, <2>2, <2>3 DEF ExecInv
<1>3. ASSUME NEW p \in Policies, NEW applies \in BOOLEAN, OrphanEnds(p, applies)
      PROVE  ExecInv'
  <2>1. applied \subseteq applied' /\ applied' \subseteq Policies
    BY <1>3 DEF OrphanEnds, ExecInv, TypeOK
  <2>2. orphans' \in [Policies -> Nat]
    BY <1>3 DEF OrphanEnds, ExecInv, TypeOK
  <2>3. TypeOK'
    BY <1>3, <2>1, <2>2 DEF OrphanEnds, ExecInv, TypeOK, batchVars, ueVars, histVars
  <2>4. CursorInPlan' /\ EachPolicyOnce' /\ ReceiptsAreTrue' /\ CommitIsWhole'
    BY <1>3, <2>1 DEF OrphanEnds, batchVars, ExecInv, CursorInPlan, CommitStages, EachPolicyOnce,
       Dispatched, ReceiptsAreTrue, CommitIsWhole, Current
  <2>5. CopyWasApplied' /\ CommittedWasApplied'
    BY <1>3, <2>1, StoreUntouched DEF OrphanEnds
  <2> QED BY <2>3, <2>4, <2>5 DEF ExecInv
<1> QED BY <1>1, <1>2, <1>3 DEF Gateway

(* The request for the current policy is sent.                              *)
LEMMA DispatchKeepsInv ==
  ASSUME ExecInv, Dispatch
  PROVE  ExecInv'
<1>1. xpc = "dispatch" /\ reposted' \subseteq Policies /\ Current \in Policies
      /\ idx \in 1 .. Len(plan.policies)
  <2>1. Posting
    BY DEF Dispatch, PostFails, PostApplied, PostTerminalFailure, PostPending,
           PostPendingWithoutOperation
  <2> QED BY <2>1, CurrentIsPolicy DEF Posting, ExecInv, CursorInPlan, TypeOK
<1>2. ASSUME NEW accepted \in BOOLEAN, PostFails(accepted) PROVE ExecInv'
  BY <1>1, <1>2, FailureKeepsInv DEF PostFails
<1>3. ASSUME NEW ns3Wait \in BOOLEAN, PostTerminalFailure(ns3Wait) PROVE ExecInv'
  BY <1>1, <1>3, FailureKeepsInv DEF PostTerminalFailure
<1>4. CASE PostPendingWithoutOperation
  BY <1>1, <1>4, FailureKeepsInv DEF PostPendingWithoutOperation
<1>5. CASE PostApplied
  <2>1. applied \subseteq applied' /\ applied' \subseteq Policies /\ Current \in applied'
    BY <1>1, <1>5 DEF PostApplied, ExecInv, TypeOK
  <2>2. TypeOK'
    BY <1>1, <1>5, <2>1 DEF PostApplied, ExecInv, TypeOK, Stages, OpState, ueVars
  <2>3. CursorInPlan'
    BY <1>1, <1>5, <2>1 DEF PostApplied, CursorInPlan, CommitStages, Current
  <2>4. EachPolicyOnce' /\ ReceiptsAreTrue' /\ CommitIsWhole'
    BY <1>1, <1>5, <2>1 DEF PostApplied, ExecInv, CommitStages, EachPolicyOnce, Dispatched,
       ReceiptsAreTrue, CommitIsWhole
  <2>5. CopyWasApplied' /\ CommittedWasApplied'
    BY <1>5, <2>1, StoreUntouched DEF PostApplied
  <2> QED BY <2>2, <2>3, <2>4, <2>5 DEF ExecInv
<1>6. CASE PostPending
  <2>1. TypeOK'
    BY <1>1, <1>6, BoundAssumption DEF PostPending, ExecInv, TypeOK, Stages, OpState, gwVars, ueVars
  <2>2. CursorInPlan'
    BY <1>1, <1>6 DEF PostPending, CursorInPlan, CommitStages
  <2>3. EachPolicyOnce' /\ ReceiptsAreTrue' /\ CommitIsWhole'
    BY <1>1, <1>6 DEF PostPending, gwVars, ExecInv, CommitStages, EachPolicyOnce, Dispatched,
       ReceiptsAreTrue, CommitIsWhole
  <2>4. CopyWasApplied' /\ CommittedWasApplied'
    BY <1>6, StoreUntouched DEF PostPending, gwVars, ExecInv, TypeOK
  <2> QED BY <2>1, <2>2, <2>3, <2>4 DEF ExecInv
<1> QED BY <1>2, <1>3, <1>4, <1>5, <1>6 DEF Dispatch

(* The answer of a pending operation is fetched, or waited for in vain.     *)
LEMMA PollKeepsInv ==
  ASSUME ExecInv, Poll
  PROVE  ExecInv'
<1>1. ASSUME NEW ns3Wait \in BOOLEAN, PollRejected(ns3Wait) PROVE ExecInv'
  BY <1>1, FailureKeepsInv DEF PollRejected, Fetching, ExecInv, TypeOK
<1>2. CASE PollBreaks
  BY <1>2, FailureKeepsInv DEF PollBreaks, Fetching, ExecInv, TypeOK
<1>3. CASE PollDeadline
  BY <1>3, FailureKeepsInv DEF PollDeadline, ExecInv, TypeOK
<1>4. CASE PollPending
  <2>1. TypeOK'
    BY <1>4, BoundAssumption DEF PollPending, Fetching, ExecInv, TypeOK, gwVars, ueVars, histVars
  <2>2. CursorInPlan' /\ EachPolicyOnce' /\ ReceiptsAreTrue' /\ CommitIsWhole'
    BY <1>4 DEF PollPending, gwVars, ExecInv, CursorInPlan, CommitStages, EachPolicyOnce,
       Dispatched, ReceiptsAreTrue, CommitIsWhole, Current
  <2>3. CopyWasApplied' /\ CommittedWasApplied'
    BY <1>4, StoreUntouched DEF PollPending, gwVars, ExecInv, TypeOK
  <2> QED BY <2>1, <2>2, <2>3 DEF ExecInv
<1>5. CASE PollApplied
  <2>1. TypeOK'
    BY <1>5 DEF PollApplied, ExecInv, TypeOK, Stages, batchVars, gwVars, ueVars, histVars
  <2>2. CursorInPlan' /\ EachPolicyOnce' /\ ReceiptsAreTrue' /\ CommitIsWhole'
    BY <1>5 DEF PollApplied, Fetching, batchVars, gwVars, ExecInv, CursorInPlan, CommitStages,
       EachPolicyOnce, Dispatched, ReceiptsAreTrue, CommitIsWhole, Current
  <2>3. CopyWasApplied' /\ CommittedWasApplied'
    BY <1>5, StoreUntouched DEF PollApplied, gwVars, ExecInv, TypeOK
  <2> QED BY <2>1, <2>2, <2>3 DEF ExecInv
<1> QED BY <1>1, <1>2, <1>3, <1>4, <1>5 DEF Poll

(* A policy the gateway acknowledged is checked and assured.                *)
LEMMA AssureKeepsInv ==
  ASSUME ExecInv, NEW ev \in Evidence, Assure(ev)
  PROVE  ExecInv'
<1> DEFINE r == [policy |-> Current, ok |-> TRUE, verdict |-> Verdict(Current, ev)]
           f == IF Verdict(Current, ev) \in {"violated", "failed"}
                THEN Append(failures, [policy |-> Current, phase |-> "assurance",
                                       forbidden |-> FALSE])
                ELSE failures
<1>1. xpc = "assure" /\ Current \in Policies /\ Current \in applied
  BY CurrentIsPolicy DEF Assure, ExecInv, CursorInPlan
<1>2. r \in Receipt /\ r.policy = Current /\ r.ok
  BY <1>1 DEF Receipt, Verdicts, Verdict
<1>3. f \in Seq(Failure) /\ (f = << >> => failures = << >>)
  <2>1. [policy |-> Current, phase |-> "assurance", forbidden |-> FALSE] \in Failure
    BY <1>1 DEF Failure
  <2>2. failures \in Seq(Failure)
    BY DEF ExecInv, TypeOK
  <2> QED BY <2>1, <2>2, AppendProperties
<1>4. receipts' = Append(receipts, r) /\ failures' = f /\ NextPolicy
      /\ UNCHANGED <<plan, report, gwVars, ueVars, histVars>>
  BY DEF Assure
<1> HIDE DEF r, f
<1>5. /\ xpc' \in Stages /\ idx' \in Nat \ {0} /\ op' \in OpState
      /\ budget' \in 0 .. PollBudget /\ receipts' \in Seq(Receipt)
      /\ failures' \in Seq(Failure)
      /\ CursorInPlan' /\ EachPolicyOnce' /\ ReceiptsAreTrue' /\ CommitIsWhole'
  BY <1>1, <1>2, <1>3, <1>4, ReceiptKeepsBatch DEF gwVars
<1>6. TypeOK'
  BY <1>4, <1>5 DEF ExecInv, TypeOK, gwVars, ueVars, histVars
<1>7. CopyWasApplied' /\ CommittedWasApplied'
  BY <1>4, StoreUntouched DEF gwVars, ExecInv, TypeOK
<1> QED BY <1>5, <1>6, <1>7 DEF ExecInv

(* A new plan is taken up, or the current one compiles.                     *)
LEMMA BeginKeepsInv ==
  ASSUME ExecInv, NEW pl \in Plans, BeginExecution(pl)
  PROVE  ExecInv'
<1>1. TypeOK'
  BY PlanAssumption, BoundAssumption DEF BeginExecution, ExecInv, TypeOK, Stages, OpState, NoReport, ReportType,
     gwVars, ueVars
<1>2. CursorInPlan'
  BY DEF BeginExecution, CursorInPlan, CommitStages
<1>3. Len(pl.policies) \in Nat
  BY PlanAssumption DEF PlanType
<1>4. EachPolicyOnce' /\ ReceiptsAreTrue' /\ CommitIsWhole'
  BY <1>3 DEF BeginExecution, EachPolicyOnce, Dispatched, ReceiptsAreTrue, CommitIsWhole, CommitStages
<1>5. CopyWasApplied' /\ CommittedWasApplied'
  BY StoreUntouched DEF BeginExecution, gwVars, ExecInv, TypeOK
<1> QED BY <1>1, <1>2, <1>4, <1>5 DEF ExecInv

LEMMA CompileKeepsInv ==
  ASSUME ExecInv, CompilePlan
  PROVE  ExecInv'
<1>1. TypeOK'
  BY DEF CompilePlan, ExecInv, TypeOK, Stages, batchVars, gwVars, ueVars, histVars
<1>2. plan.policies # << >> /\ plan.policies \in Seq(Policies)
  BY DEF CompilePlan, Compilable, ExecInv, TypeOK, PlanType
<1>3. Len(plan.policies) \in Nat \ {0}
  BY <1>2, EmptySeq, LenProperties
<1>4. CursorInPlan'
  BY <1>3 DEF CompilePlan, ExecInv, CursorInPlan, CommitStages, batchVars
<1>5. EachPolicyOnce' /\ ReceiptsAreTrue' /\ CommitIsWhole'
  BY DEF CompilePlan, ExecInv, CursorInPlan, EachPolicyOnce, Dispatched, ReceiptsAreTrue,
         CommitIsWhole, CommitStages, batchVars, gwVars
<1>6. CopyWasApplied' /\ CommittedWasApplied'
  BY StoreUntouched DEF CompilePlan, gwVars, ExecInv, TypeOK
<1> QED BY <1>1, <1>4, <1>5, <1>6 DEF ExecInv

-----------------------------------------------------------------------------
(* The inductive invariant of an execution.                                 *)
THEOREM ExecInvariant == ExecSpec => []ExecInv
<1>1. ExecInit => ExecInv
  <2> SUFFICES ASSUME ExecInit PROVE ExecInv
    OBVIOUS
  <2>1. TypeOK
    BY PolicyAssumption, BoundAssumption
       DEF ExecInit, TypeOK, PlanType, Stages, OpState, NoReport, ReportType, EmptyContext,
           ContextCopy
  <2>2. CursorInPlan /\ EachPolicyOnce /\ ReceiptsAreTrue /\ CommitIsWhole
    BY DEF ExecInit, CursorInPlan, EachPolicyOnce, Dispatched, ReceiptsAreTrue, CommitIsWhole,
           CommitStages
  <2>3. CopyWasApplied /\ CommittedWasApplied
    BY DEF ExecInit, CopyWasApplied, CommittedWasApplied, EmptyContext
  <2> QED BY <2>1, <2>2, <2>3 DEF ExecInv
<1>2. ExecInv /\ [ExecNext]_execVars => ExecInv'
  <2> SUFFICES ASSUME ExecInv, [ExecNext]_execVars PROVE ExecInv'
    OBVIOUS
  <2>1. ASSUME NEW pl \in Plans, BeginExecution(pl) PROVE ExecInv'
    BY <2>1, BeginKeepsInv
  <2>2. CASE CompilePlan
    BY <2>2, CompileKeepsInv
  <2>3. CASE CompileFails
    BY <2>3, DeliverKeepsInv DEF CompileFails, ReportType, Statuses
  <2>4. CASE Dispatch
    BY <2>4, DispatchKeepsInv
  <2>5. CASE Poll
    BY <2>5, PollKeepsInv
  <2>6. ASSUME NEW ev \in Evidence, Assure(ev) PROVE ExecInv'
    BY <2>6, AssureKeepsInv
  <2>7. ASSUME NEW ev \in Evidence, WrongSlice(ev) PROVE ExecInv'
    BY <2>7, FailureKeepsInv DEF WrongSlice, ExecInv, TypeOK
  <2>8. CASE ReportFailures
    <3>1. [status |-> FailedStatus, forbidden |-> RetryForbidden, nested |-> FALSE] \in ReportType
      BY DEF ReportType, Statuses, FailedStatus, RetryForbidden
    <3> QED BY <2>8, <3>1, DeliverKeepsInv DEF ReportFailures
  <2>9. CASE Commit
    BY <2>9, CommitKeepsInv
  <2>10. CASE Gateway
    BY <2>10, GatewayKeepsInv
  <2>11. CASE UNCHANGED execVars
    <3>1. TypeOK' /\ CopyWasApplied' /\ CommittedWasApplied'
      BY <2>11 DEF execVars, batchVars, gwVars, ueVars, histVars, ExecInv, TypeOK,
                   CopyWasApplied, CommittedWasApplied
    <3>2. CursorInPlan' /\ EachPolicyOnce' /\ ReceiptsAreTrue' /\ CommitIsWhole'
      BY <2>11 DEF execVars, batchVars, gwVars, ExecInv, CursorInPlan, CommitStages,
         EachPolicyOnce, Dispatched, ReceiptsAreTrue, CommitIsWhole, Current
    <3> QED BY <3>1, <3>2 DEF ExecInv
  <2> QED BY <2>1, <2>2, <2>3, <2>4, <2>5, <2>6, <2>7, <2>8, <2>9, <2>10, <2>11
          DEF ExecNext, Execute
<1> QED BY <1>1, <1>2, PTL DEF ExecSpec

(* Every variable of an execution keeps its type.                           *)
THEOREM TypeCorrect == ExecSpec => []TypeOK
<1>1. ExecInv => TypeOK
  BY DEF ExecInv
<1> QED BY <1>1, ExecInvariant, PTL

(* The UE store only ever names policies the gateway has applied.           *)
THEOREM CommittedIsApplied == ExecSpec => []CommittedWasApplied
<1>1. ExecInv => CommittedWasApplied
  BY DEF ExecInv
<1> QED BY <1>1, ExecInvariant, PTL

(* The receipts of a batch are the plan's policies, in order, once each.    *)
THEOREM OneReceiptPerPolicy == ExecSpec => []EachPolicyOnce
<1>1. ExecInv => EachPolicyOnce
  BY DEF ExecInv
<1> QED BY <1>1, ExecInvariant, PTL

-----------------------------------------------------------------------------
(* What a write-back has reached.  Its transactions leave their trace one   *)
(* after the other; the copy of the context they write lags behind no row.  *)
AssuredBatch == failures = << >> => \A i \in 1 .. Len(receipts) : Assured(receipts[i])

CopyInOrder == xpc \in CommitStages => existing.mobility \subseteq ueAssoc[CommitSupi]

WrittenTo(p, s) == p \in ueAssoc[s] \cap ueMobility[s] \cap ueEvents[s] \cap existing.mobility

WrittenSoFar ==
    xpc \in CommitStages \ {"access"} =>
        /\ AccessPolicies \subseteq ueAccess[CommitSupi]
        /\ KindOf[Current] = "am"
        /\ \A k \in 1 .. idx - 1 : KindOf[plan.policies[k]] = "am"
                                     => WrittenTo(plan.policies[k], CommitSupi)
        /\ xpc # "assoc" => Current \in ueAssoc[CommitSupi]
        /\ xpc \in {"binding", "event"}
              => Current \in ueMobility[CommitSupi] \cap existing.mobility

WriteBackInv ==
    /\ AssuredBatch
    /\ CopyInOrder
    /\ WrittenSoFar
    /\ MobilityWriteOrder
    /\ SuccessIsWholePlan

(* A step outside the write-back has only its batch to answer for.          *)
LEMMA OutsideWriteBack ==
  ASSUME WriteBackInv, UNCHANGED ueVars, AssuredBatch', xpc' \notin CommitStages,
         xpc' # "done" \/ report'.status # "Success"
  PROVE  WriteBackInv'
BY DEF WriteBackInv, CopyInOrder, WrittenSoFar, MobilityWriteOrder, SuccessIsWholePlan, ueVars

(* The gateway acts beside it.                                              *)
LEMMA BesideWriteBack ==
  ASSUME WriteBackInv, applied \subseteq applied',
         UNCHANGED <<xpc, plan, idx, receipts, failures, report, ueVars>>
  PROVE  WriteBackInv'
<1>1. UNCHANGED <<CommitSupi, AccessPolicies, PolicySet(plan), Current>>
  BY DEF CommitSupi, AccessPolicies, PolicySet, Current
<1>2. AssuredBatch' /\ CopyInOrder' /\ MobilityWriteOrder'
  BY <1>1 DEF WriteBackInv, AssuredBatch, CopyInOrder, MobilityWriteOrder, ueVars
<1>3. WrittenSoFar'
  BY <1>1 DEF WriteBackInv, WrittenSoFar, WrittenTo, ueVars
<1>4. SuccessIsWholePlan'
  BY <1>1 DEF WriteBackInv, SuccessIsWholePlan, ueVars
<1> QED BY <1>2, <1>3, <1>4 DEF WriteBackInv

LEMMA FailureIsNoSuccess ==
  ASSUME ExecInv, WriteBackInv, NEW forbidden \in BOOLEAN, NEW left \in BOOLEAN,
         DispatchFails(forbidden, left), UNCHANGED ueVars
  PROVE  WriteBackInv'
<1>1. failures \in Seq(Failure)
  BY DEF ExecInv, TypeOK
<1>2. failures' # << >>
  BY <1>1, AppendProperties DEF DispatchFails
<1>3. xpc' \in {"dispatch", "outcome"}
  BY DEF DispatchFails, NextPolicy
<1> QED BY <1>2, <1>3, OutsideWriteBack DEF AssuredBatch, CommitStages

LEMMA AssureWriteBack ==
  ASSUME ExecInv, WriteBackInv, NEW ev \in Evidence, Assure(ev)
  PROVE  WriteBackInv'
<1> DEFINE r == [policy |-> Current, ok |-> TRUE, verdict |-> Verdict(Current, ev)]
<1>1. xpc' \in {"dispatch", "outcome"} /\ UNCHANGED ueVars
  BY DEF Assure, NextPolicy
<1>2. Current \in Policies
  BY CurrentIsPolicy DEF Assure, ExecInv, CursorInPlan
<1>3. receipts \in Seq(Receipt) /\ failures \in Seq(Failure) /\ receipts' = Append(receipts, r)
  BY DEF Assure, ExecInv, TypeOK
<1>4. ASSUME failures' = << >> PROVE failures = << >> /\ Assured(r)
  <2>1. Verdict(Current, ev) \notin {"violated", "failed"} /\ failures = << >>
    BY <1>3, <1>4, AppendProperties DEF Assure
  <2>2. Verdict(Current, ev) = IF TargetOf[Current] = "flow" THEN "satisfied" ELSE "skipped"
    BY <2>1 DEF Verdict
  <2> QED BY <2>1, <2>2 DEF Assured
<1>5. r \in Receipt
  BY <1>2 DEF Receipt, Verdicts, Verdict
<1> HIDE DEF r
<1>6. /\ Len(receipts') = Len(receipts) + 1
      /\ \A i \in 1 .. Len(receipts) : receipts'[i] = receipts[i]
      /\ receipts'[Len(receipts) + 1] = r
  BY <1>3, <1>5, AppendProperties
<1>7. AssuredBatch'
  <2> SUFFICES ASSUME failures' = << >>, NEW i \in 1 .. Len(receipts')
               PROVE  Assured(receipts'[i])
    BY DEF AssuredBatch, Assured
  <2>1. Len(receipts) \in Nat
    BY <1>3
  <2>2. i \in 1 .. Len(receipts) \/ i = Len(receipts) + 1
    BY <1>6, <2>1
  <2> QED BY <1>4, <1>6, <2>2 DEF WriteBackInv, AssuredBatch
<1> QED BY <1>1, <1>7, OutsideWriteBack DEF CommitStages

(* The walk over the mobility policies goes on at i, or is over: then all   *)
(* policies of the plan have their rows.                                    *)
LEMMA WalkGoesOn ==
  ASSUME ExecInv, NEW i \in Nat \ {0}, CommitMobilityFrom(i), plan' = plan,
         PolicySet(plan) \subseteq applied', MobilityWriteOrder',
         AccessPolicies \subseteq ueAccess'[CommitSupi],
         \A k \in 1 .. i - 1 :
             k <= Len(plan.policies) /\ KindOf[plan.policies[k]] = "am"
             => WrittenTo(plan.policies[k], CommitSupi)'
  PROVE  WrittenSoFar' /\ SuccessIsWholePlan'
<1>1. UNCHANGED <<CommitSupi, AccessPolicies, PolicySet(plan)>> /\ Len(plan.policies) \in Nat
  BY DEF CommitSupi, AccessPolicies, PolicySet, ExecInv, TypeOK, PlanType
<1>2. CASE NextMobility(i) = 0
  <2>1. xpc' = "done"
    BY <1>2 DEF CommitMobilityFrom, Deliver
  <2>2. ASSUME NEW k \in 1 .. Len(plan.policies), KindOf[plan.policies[k]] = "am"
        PROVE  WrittenTo(plan.policies[k], CommitSupi)'
    <3>1. k \notin i .. Len(plan.policies)
      BY <1>2, <2>2, NextMobilityIsNext DEF ExecInv
    <3> QED BY <1>1, <2>2, <3>1
  <2>3. SuccessIsWholePlan'
    <3> SUFFICES ASSUME NEW p \in PolicySet(plan)
                 PROVE  /\ p \in applied'
                        /\ IF KindOf[p] = "am"
                           THEN p \in ueAssoc'[CommitSupi] \cap ueMobility'[CommitSupi]
                                        \cap ueEvents'[CommitSupi]
                           ELSE p \in ueAccess'[CommitSupi]
      BY <1>1 DEF SuccessIsWholePlan
    <3>1. PICK k \in 1 .. Len(plan.policies) : p = plan.policies[k]
      BY DEF PolicySet
    <3>2. CASE KindOf[p] = "am"
      BY <1>1, <2>2, <3>1, <3>2 DEF WrittenTo
    <3>3. CASE KindOf[p] # "am"
      BY <3>3 DEF AccessPolicies
    <3> QED BY <3>2, <3>3
  <2> QED BY <2>1, <2>3 DEF WrittenSoFar, CommitStages
<1>3. CASE NextMobility(i) # 0
  <2> DEFINE j == NextMobility(i)
  <2>1. xpc' = "assoc" /\ idx' = j
    BY <1>3 DEF CommitMobilityFrom
  <2>2. /\ j \in i .. Len(plan.policies)
        /\ KindOf[plan.policies[j]] = "am"
        /\ \A k \in i .. j - 1 : KindOf[plan.policies[k]] # "am"
    BY <1>3, NextMobilityIsNext DEF ExecInv
  <2> HIDE DEF j
  <2>3. Current' = plan.policies[j]
    BY <2>1 DEF Current
  <2>4. ASSUME NEW k \in 1 .. j - 1, KindOf[plan.policies[k]] = "am"
        PROVE  WrittenTo(plan.policies[k], CommitSupi)'
    <3>1. k \in 1 .. i - 1 /\ k <= Len(plan.policies)
      BY <1>1, <2>2, <2>4
    <3> QED BY <2>4, <3>1
  <2> QED BY <1>1, <2>1, <2>2, <2>3, <2>4 DEF WrittenSoFar, SuccessIsWholePlan
<1> QED BY <1>2, <1>3

LEMMA CommitWriteBack ==
  ASSUME ExecInv, WriteBackInv, Commit
  PROVE  WriteBackInv'
<1>1. /\ UNCHANGED <<plan, receipts, failures, applied>>
      /\ UNCHANGED <<CommitSupi, AccessPolicies, PolicySet(plan)>> /\ AssuredBatch'
  <2>1. UNCHANGED <<plan, receipts, failures, applied>>
    BY DEF Commit, BeginCommit, CommitAccess, CommitAssociation, CommitMobilityContext,
           CommitBinding, CommitMobilityEvent, CommitRaises, batchVars, gwVars
  <2> QED BY <2>1 DEF CommitSupi, AccessPolicies, PolicySet, WriteBackInv, AssuredBatch
<1>2. CASE CommitRaises
  BY <1>1, <1>2, OutsideWriteBack DEF CommitRaises, CommitStages
<1>3. CASE ~ CommitRaises
  <2>1. /\ failures = << >> /\ Len(receipts) = Len(plan.policies) /\ plan.policies # << >>
        /\ xpc \in CommitStages \cup {"outcome"}
    BY <1>3 DEF Commit, BeginCommit, CommitAccess, CommitAssociation, CommitMobilityContext,
              CommitBinding, CommitMobilityEvent, CommitStages, ExecInv,
              CommitIsWhole, EachPolicyOnce, CursorInPlan
  <2>2. PolicySet(plan) \subseteq applied' /\ CommitSupi \in Supis
    BY <1>1, <2>1, WholePlanApplied, CommitSupiIsUe DEF ExecInv
  <2>3. ASSUME NEW read \in BOOLEAN, BeginCommit(read) PROVE WriteBackInv'
    <3>1. UNCHANGED <<ueAccess, ueAssoc, ueMobility, ueEvents>> /\ MobilityWriteOrder'
      BY <2>3 DEF BeginCommit, WriteBackInv, MobilityWriteOrder
    <3>2. CopyInOrder'
      BY <1>1, <2>2, <2>3, <3>1 DEF BeginCommit, ReadContext, EmptyContext, CopyInOrder,
         WriteBackInv, MobilityWriteOrder
    <3>3. CASE AccessPolicies # {}
      BY <1>1, <2>3, <3>1, <3>2, <3>3
         DEF BeginCommit, WriteBackInv, WrittenSoFar, SuccessIsWholePlan
    <3>4. CASE AccessPolicies = {}
      <4>1. CommitMobilityFrom(1)
        BY <2>3, <3>4 DEF BeginCommit
      <4> QED BY <1>1, <2>2, <3>1, <3>2, <3>4, <4>1, WalkGoesOn DEF WriteBackInv
    <3> QED BY <3>3, <3>4
  <2>4. CASE CommitAccess
    <3>1. UNCHANGED <<ueAssoc, ueMobility, ueEvents>> /\ MobilityWriteOrder'
      BY <2>4 DEF CommitAccess, WriteBackInv, MobilityWriteOrder
    <3>2. existing' = [existing EXCEPT !.access = @ \cup AccessPolicies]
          /\ existing \in ContextCopy
      BY <2>4 DEF CommitAccess, ExecInv, TypeOK
    <3>3. existing'.mobility = existing.mobility /\ AccessPolicies \subseteq existing'.access
      BY <3>2 DEF ContextCopy
    <3>4. CopyInOrder'
      BY <1>1, <2>4, <3>1, <3>3 DEF CommitAccess, CopyInOrder, WriteBackInv, CommitStages
    <3>5. AccessPolicies \subseteq ueAccess'[CommitSupi]
      BY <2>2, <2>4, <3>3 DEF CommitAccess, ExecInv, TypeOK
    <3>6. CommitMobilityFrom(1)
      BY <2>4 DEF CommitAccess
    <3> QED BY <1>1, <2>2, <3>1, <3>4, <3>5, <3>6, WalkGoesOn DEF WriteBackInv
  <2>5. CASE CommitAssociation
    <3>1. /\ xpc = "assoc" /\ xpc' = "context" /\ Current' = Current
          /\ ueAssoc' = [ueAssoc EXCEPT ![CommitSupi] = @ \cup {Current}]
          /\ UNCHANGED <<plan, idx, ueAccess, ueMobility, ueEvents, existing>>
      BY <2>5 DEF CommitAssociation, batchVars, Current
    <3>2. \A s \in Supis : ueAssoc[s] \subseteq ueAssoc'[s]
      BY <3>1 DEF ExecInv, TypeOK
    <3>3. Current \in ueAssoc'[CommitSupi]
      BY <2>2, <3>1 DEF ExecInv, TypeOK
    <3>4. MobilityWriteOrder' /\ CopyInOrder'
      BY <1>1, <2>2, <3>1, <3>2 DEF WriteBackInv, MobilityWriteOrder, CopyInOrder, CommitStages
    <3>5. WrittenSoFar'
      BY <1>1, <2>2, <3>1, <3>2, <3>3 DEF WriteBackInv, WrittenSoFar, WrittenTo, CommitStages
    <3> QED BY <1>1, <3>1, <3>4, <3>5 DEF WriteBackInv, SuccessIsWholePlan
  <2>6. CASE CommitMobilityContext
    <3>1. /\ xpc = "context" /\ xpc' \in {"binding", "event"} /\ Current' = Current
          /\ existing' = [existing EXCEPT !.mobility = @ \cup {Current}]
          /\ ueMobility' = [ueMobility EXCEPT ![CommitSupi] = existing'.mobility]
          /\ UNCHANGED <<plan, idx, ueAccess, ueAssoc, ueEvents>>
      BY <2>6 DEF CommitMobilityContext, batchVars, Current
    <3>2. existing'.mobility = existing.mobility \cup {Current}
      BY <3>1 DEF ExecInv, TypeOK, ContextCopy
    <3>3. /\ ueMobility'[CommitSupi] = existing.mobility \cup {Current}
          /\ \A s \in Supis \ {CommitSupi} : ueMobility'[s] = ueMobility[s]
      BY <2>2, <3>1, <3>2 DEF ExecInv, TypeOK
    <3>4. existing.mobility \cup {Current} \subseteq ueAssoc[CommitSupi]
      BY <3>1 DEF WriteBackInv, CopyInOrder, WrittenSoFar, CommitStages
    <3>5. MobilityWriteOrder' /\ CopyInOrder'
      BY <1>1, <2>2, <3>1, <3>2, <3>3, <3>4
         DEF WriteBackInv, MobilityWriteOrder, CopyInOrder, CommitStages
    <3>6. WrittenSoFar'
      BY <1>1, <2>2, <3>1, <3>2, <3>3 DEF WriteBackInv, WrittenSoFar, WrittenTo, CommitStages
    <3> QED BY <1>1, <3>1, <3>5, <3>6 DEF WriteBackInv, SuccessIsWholePlan
  <2>7. CASE CommitBinding
    <3>1. /\ xpc = "binding" /\ xpc' = "event" /\ Current' = Current
          /\ UNCHANGED <<plan, idx, ueAccess, ueAssoc, ueMobility, ueEvents, existing>>
      BY <2>7 DEF CommitBinding, batchVars, Current
    <3>2. WrittenSoFar'
      BY <1>1, <3>1 DEF WriteBackInv, WrittenSoFar, WrittenTo, CommitStages
    <3> QED BY <1>1, <3>1, <3>2
            DEF WriteBackInv, MobilityWriteOrder, CopyInOrder, SuccessIsWholePlan, CommitStages
  <2>8. CASE CommitMobilityEvent
    <3>1. /\ xpc = "event" /\ CommitMobilityFrom(idx + 1) /\ idx \in Nat \ {0}
          /\ ueEvents' = [ueEvents EXCEPT ![CommitSupi] = @ \cup {Current}]
          /\ UNCHANGED <<ueAccess, ueAssoc, ueMobility, existing>>
      BY <2>8 DEF CommitMobilityEvent, ExecInv, TypeOK
    <3>2. /\ \A s \in Supis \ {CommitSupi} : ueEvents'[s] = ueEvents[s]
          /\ ueEvents'[CommitSupi] = ueEvents[CommitSupi] \cup {Current}
      BY <2>2, <3>1 DEF ExecInv, TypeOK
    <3>3. /\ Current \in ueAssoc[CommitSupi] \cap ueMobility[CommitSupi] \cap existing.mobility
          /\ AccessPolicies \subseteq ueAccess[CommitSupi]
      BY <3>1 DEF WriteBackInv, WrittenSoFar, CommitStages
    <3>4. MobilityWriteOrder'
      BY <2>2, <3>1, <3>2, <3>3 DEF WriteBackInv, MobilityWriteOrder
    <3>5. CopyInOrder'
      BY <1>1, <3>1 DEF WriteBackInv, CopyInOrder, CommitStages
    <3>6. ASSUME NEW k \in 1 .. (idx + 1) - 1, KindOf[plan.policies[k]] = "am"
          PROVE  WrittenTo(plan.policies[k], CommitSupi)'
      <4>1. CASE k = idx
        BY <1>1, <3>1, <3>2, <3>3, <4>1 DEF WrittenTo, Current
      <4>2. CASE k # idx
        <5>1. k \in 1 .. idx - 1
          BY <3>1, <4>2
        <5>2. WrittenTo(plan.policies[k], CommitSupi)
          BY <3>1, <3>6, <5>1 DEF WriteBackInv, WrittenSoFar, CommitStages
        <5> QED BY <1>1, <3>1, <3>2, <5>2 DEF WrittenTo
      <4> QED BY <4>1, <4>2
    <3>7. WrittenSoFar' /\ SuccessIsWholePlan'
      BY <1>1, <2>2, <3>1, <3>3, <3>4, <3>6, WalkGoesOn
    <3> QED BY <1>1, <3>4, <3>5, <3>7 DEF WriteBackInv
  <2> QED BY <1>3, <2>3, <2>4, <2>5, <2>6, <2>7, <2>8 DEF Commit
<1> QED BY <1>2, <1>3

(* Every step keeps what a write-back has reached.                          *)
THEOREM WriteBackInvariant == ExecSpec => [](ExecInv /\ WriteBackInv)
<1>1. ExecInit => WriteBackInv
  BY DEF ExecInit, WriteBackInv, AssuredBatch, CopyInOrder, WrittenSoFar, MobilityWriteOrder,
         SuccessIsWholePlan, CommitStages
<1>2. ExecInv /\ WriteBackInv /\ [ExecNext]_execVars => WriteBackInv'
  <2> SUFFICES ASSUME ExecInv, WriteBackInv, [ExecNext]_execVars PROVE WriteBackInv'
    OBVIOUS
  <2>1. ASSUME NEW pl \in Plans, BeginExecution(pl) PROVE WriteBackInv'
    BY <2>1, OutsideWriteBack DEF BeginExecution, AssuredBatch, CommitStages
  <2>2. CASE CompilePlan
    BY <2>2, OutsideWriteBack
       DEF CompilePlan, batchVars, WriteBackInv, AssuredBatch, CommitStages
  <2>3. CASE CompileFails
    BY <2>3, OutsideWriteBack
       DEF CompileFails, Deliver, BuildFeedback, batchVars, WriteBackInv, AssuredBatch, CommitStages
  <2>4. CASE Dispatch
    <3>1. CASE PostApplied \/ PostPending
      BY <3>1, OutsideWriteBack
         DEF PostApplied, PostPending, WriteBackInv, AssuredBatch, CommitStages
    <3>2. CASE ~ (PostApplied \/ PostPending)
      <4>1. PICK forbidden, left \in BOOLEAN : DispatchFails(forbidden, left)
        BY <2>4, <3>2 DEF Dispatch, PostFails, PostTerminalFailure, PostPendingWithoutOperation
      <4>2. UNCHANGED ueVars
        BY <2>4, <3>2 DEF Dispatch, PostFails, PostTerminalFailure, PostPendingWithoutOperation
      <4> QED BY <4>1, <4>2, FailureIsNoSuccess
    <3> QED BY <3>1, <3>2
  <2>5. CASE Poll
    <3>1. CASE PollPending \/ PollApplied
      BY <3>1, OutsideWriteBack
         DEF PollPending, PollApplied, Fetching, batchVars, WriteBackInv, AssuredBatch, CommitStages
    <3>2. CASE ~ (PollPending \/ PollApplied)
      <4>1. PICK forbidden, left \in BOOLEAN : DispatchFails(forbidden, left)
        BY <2>5, <3>2 DEF Poll, PollRejected, PollBreaks, PollDeadline
      <4>2. UNCHANGED ueVars
        BY <2>5, <3>2 DEF Poll, PollRejected, PollBreaks, PollDeadline
      <4> QED BY <4>1, <4>2, FailureIsNoSuccess
    <3> QED BY <3>1, <3>2
  <2>6. ASSUME NEW ev \in Evidence, Assure(ev) PROVE WriteBackInv'
    BY <2>6, AssureWriteBack
  <2>7. ASSUME NEW ev \in Evidence, WrongSlice(ev) PROVE WriteBackInv'
    BY <2>7, FailureIsNoSuccess DEF WrongSlice
  <2>8. CASE ReportFailures
    BY <2>8, OutsideWriteBack
       DEF ReportFailures, Deliver, BuildFeedback, FailedStatus, batchVars, AssuredBatch, CommitStages
  <2>9. CASE Commit
    BY <2>9, CommitWriteBack
  <2>10. CASE Gateway
    <3>1. UNCHANGED <<xpc, plan, idx, receipts, failures, report, ueVars>>
      BY <2>10 DEF Gateway, GatewayApplies, GatewayRejects, OrphanEnds, batchVars
    <3>2. applied \subseteq applied'
      BY <2>10 DEF Gateway, GatewayApplies, GatewayRejects, OrphanEnds, gwVars
    <3> QED BY <3>1, <3>2, BesideWriteBack
  <2>11. CASE UNCHANGED execVars
    BY <2>11, BesideWriteBack DEF execVars, batchVars, gwVars
  <2> QED BY <2>1, <2>2, <2>3, <2>4, <2>5, <2>6, <2>7, <2>8, <2>9, <2>10, <2>11
          DEF ExecNext, Execute
<1> QED BY <1>1, <1>2, ExecInvariant, PTL DEF ExecSpec

(* "Success" is said of a plan of which every policy is active and has all  *)
(* of its rows.                                                             *)
THEOREM SuccessIsWhole == ExecSpec => []SuccessIsWholePlan
<1>1. WriteBackInv => SuccessIsWholePlan
  BY DEF WriteBackInv
<1> QED BY <1>1, WriteBackInvariant, PTL

(* No mobility context and no event without the association row.            *)
THEOREM AssociationRowFirst == ExecSpec => []MobilityWriteOrder
<1>1. WriteBackInv => MobilityWriteOrder
  BY DEF WriteBackInv
<1> QED BY <1>1, WriteBackInvariant, PTL

(* Only a plan that was acknowledged and assured throughout changes the     *)
(* store.                                                                   *)
THEOREM WriteBacksAreAssured == ExecSpec => WriteBackIsAssured
<1>1. ASSUME ExecInv, WriteBackInv, [ExecNext]_execVars,
             <<ueAccess, ueAssoc, ueMobility, ueEvents>>'
                # <<ueAccess, ueAssoc, ueMobility, ueEvents>>
      PROVE  /\ Len(receipts) = Len(plan.policies)
             /\ \A i \in 1 .. Len(receipts) : Assured(receipts[i])
  <2>1. ~ UNCHANGED ueVars
    BY <1>1 DEF ueVars
  <2>2. Commit
    <3>1. CASE Dispatch \/ Poll
      BY <2>1, <3>1 DEF Dispatch, Poll, PostFails, PostApplied, PostTerminalFailure, PostPending,
         PostPendingWithoutOperation, PollPending, PollApplied, PollRejected, PollBreaks, PollDeadline
    <3>2. CASE Gateway
      BY <2>1, <3>2 DEF Gateway, GatewayApplies, GatewayRejects, OrphanEnds
    <3> QED BY <1>1, <2>1, <3>1, <3>2 DEF ExecNext, Execute, BeginExecution, CompilePlan,
            CompileFails, Assure, WrongSlice, ReportFailures, execVars
  <2>3. xpc \in CommitStages
    BY <1>1, <2>2 DEF Commit, BeginCommit, CommitAccess, CommitAssociation, CommitMobilityContext,
       CommitBinding, CommitMobilityEvent, CommitRaises, CommitStages
  <2> QED BY <1>1, <2>3 DEF ExecInv, CommitIsWhole, WriteBackInv, AssuredBatch
<1> QED BY <1>1, WriteBackInvariant, PTL DEF ExecSpec, WriteBackIsAssured

-----------------------------------------------------------------------------
(* While no read of the context has failed, the copy holds all that is      *)
(* stored under the UE it is written back to.                               *)
CopyIsWhole ==
    xpc \in CommitStages /\ readFaults = 0 =>
        /\ ueAccess[CommitSupi] \subseteq existing.access
        /\ ueMobility[CommitSupi] \subseteq existing.mobility

KeptStep ==
    \A s \in Supis : ueAccess[s] \subseteq ueAccess'[s] /\ ueMobility[s] \subseteq ueMobility'[s]

LEMMA CommitKeepsStore ==
  ASSUME ExecInv, CopyIsWhole, Commit
  PROVE  CopyIsWhole' /\ (readFaults' = 0 => KeptStep)
<1>1. UNCHANGED CommitSupi /\ (xpc \in CommitStages => CommitSupi \in Supis)
  BY CommitSupiIsUe DEF ExecInv, CursorInPlan, Commit, BeginCommit, CommitAccess, CommitAssociation, CommitMobilityContext,
         CommitBinding, CommitMobilityEvent, CommitRaises, batchVars, CommitSupi
<1>2. CASE CommitRaises
  BY <1>1, <1>2 DEF CommitRaises, ueVars, CopyIsWhole, KeptStep, CommitStages
<1>3. ASSUME NEW read \in BOOLEAN, BeginCommit(read)
      PROVE  CopyIsWhole' /\ (readFaults' = 0 => KeptStep)
  <2>1. readFaults' = 0 => read
    BY <1>3 DEF BeginCommit, ExecInv, TypeOK
  <2> QED BY <1>1, <1>3, <2>1 DEF BeginCommit, ReadContext, CopyIsWhole, KeptStep
<1>4. CASE CommitAccess
  <2>1. existing'.access = existing.access \cup AccessPolicies
        /\ existing'.mobility = existing.mobility
    BY <1>4 DEF CommitAccess, ExecInv, TypeOK, ContextCopy
  <2>2. ueAccess' = [ueAccess EXCEPT ![CommitSupi] = existing'.access]
        /\ UNCHANGED <<ueMobility, readFaults>> /\ xpc = "access"
    BY <1>4 DEF CommitAccess
  <2>3. ueAccess'[CommitSupi] \subseteq existing'.access
    BY <1>1, <2>2 DEF ExecInv, TypeOK, CommitStages
  <2> QED BY <1>1, <2>1, <2>2, <2>3 DEF CopyIsWhole, KeptStep, CommitStages, ExecInv, TypeOK
<1>5. CASE CommitMobilityContext
  <2>1. existing'.mobility = existing.mobility \cup {Current}
        /\ existing'.access = existing.access
    BY <1>5 DEF CommitMobilityContext, ExecInv, TypeOK, ContextCopy
  <2>2. ueMobility' = [ueMobility EXCEPT ![CommitSupi] = existing'.mobility]
        /\ UNCHANGED <<ueAccess, readFaults>> /\ xpc = "context"
    BY <1>5 DEF CommitMobilityContext
  <2>3. ueMobility'[CommitSupi] \subseteq existing'.mobility
    BY <1>1, <2>2 DEF ExecInv, TypeOK, CommitStages
  <2> QED BY <1>1, <2>1, <2>2, <2>3 DEF CopyIsWhole, KeptStep, CommitStages, ExecInv, TypeOK
<1>6. CASE CommitAssociation \/ CommitBinding \/ CommitMobilityEvent
  BY <1>1, <1>6 DEF CommitAssociation, CommitBinding, CommitMobilityEvent, CopyIsWhole, KeptStep,
     CommitStages
<1> QED BY <1>2, <1>3, <1>4, <1>5, <1>6 DEF Commit

(* Outside of it the store and the copy stay.                               *)
LEMMA OthersKeepStore ==
  ASSUME ExecInv, CopyIsWhole, [ExecNext]_execVars, ~ Commit
  PROVE  CopyIsWhole' /\ KeptStep
<1>1. UNCHANGED ueVars
  <2>1. CASE Dispatch \/ Poll
    BY <2>1 DEF Dispatch, Poll, PostFails, PostApplied, PostTerminalFailure, PostPending,
       PostPendingWithoutOperation, PollPending, PollApplied, PollRejected, PollBreaks, PollDeadline
  <2>2. CASE Gateway
    BY <2>2 DEF Gateway, GatewayApplies, GatewayRejects, OrphanEnds
  <2> QED BY <2>1, <2>2 DEF ExecNext, Execute, BeginExecution, CompilePlan,
          CompileFails, Assure, WrongSlice, ReportFailures, execVars
<1>2. xpc' \in CommitStages => UNCHANGED <<xpc, plan>>
  <2>1. CASE Dispatch \/ Poll
    BY <2>1 DEF Dispatch, Poll, PostFails, PostApplied, PostTerminalFailure, PostPending,
       PostPendingWithoutOperation, PollPending, PollApplied, PollRejected, PollBreaks, PollDeadline,
       DispatchFails, NextPolicy, CommitStages, Fetching
  <2>2. CASE Gateway
    BY <2>2 DEF Gateway, GatewayApplies, GatewayRejects, OrphanEnds, batchVars
  <2> QED BY <2>1, <2>2 DEF ExecNext, Execute, BeginExecution, CompilePlan, Deliver,
          CompileFails, Assure, WrongSlice, ReportFailures, execVars, batchVars,
          DispatchFails, NextPolicy, CommitStages
<1> QED BY <1>1, <1>2 DEF ueVars, CopyIsWhole, KeptStep, CommitSupi

(* Where every read of the context succeeds, no write-back loses what an    *)
(* earlier one has stored (a failed read is taken for an empty context).    *)
THEOREM StoredIsKept ==
  ASSUME MaxReadFaults = 0
  PROVE  ExecSpec => CommittedKept
<1>1. ExecInit => CopyIsWhole
  BY DEF ExecInit, CopyIsWhole, CommitStages
<1>2. ExecInv /\ ExecInv' /\ CopyIsWhole /\ [ExecNext]_execVars
      => /\ CopyIsWhole'
         /\ \A s \in Supis : ueAccess[s] \subseteq ueAccess'[s] /\ ueMobility[s] \subseteq ueMobility'[s]
  <2> SUFFICES ASSUME ExecInv, ExecInv', CopyIsWhole, [ExecNext]_execVars
               PROVE  CopyIsWhole' /\ KeptStep
    BY DEF KeptStep
  <2>1. readFaults' = 0
    BY DEF ExecInv, TypeOK
  <2> QED BY <2>1, CommitKeepsStore, OthersKeepStore
<1> QED BY <1>1, <1>2, ExecInvariant, PTL DEF ExecSpec, CommittedKept
=============================================================================
