--------------------------- MODULE IntentWatchProofs ---------------------------
(***************************************************************************)
(* Proofs about IntentWatch, for any number of flows, metrics, alerts,     *)
(* re-entries, intents and changes of telemetry.                           *)
(***************************************************************************)
EXTENDS IntentWatch, ListsProofs

Life == [bindings : SUBSET Flows, origin : {"user", "monitor"}, status : Statuses]

Distinct(s) == \A i, j \in DOMAIN s : s[i] = s[j] => i = j

(* What every action needs of the state: an alert names a flow once, an     *)
(* action names a lifecycle there is, and the lifecycle whose replan is     *)
(* under way is the one that was set to "replanning".                       *)
WatchShape ==
    /\ level \in [Flows -> Levels]
    /\ alerts \in Seq(Flows) /\ Distinct(alerts)
    /\ lives \in Seq(Life)
    /\ skip \subseteq DOMAIN lives
    /\ actions \in Seq(Nat \X Flows)
    /\ \A k \in DOMAIN actions : actions[k][1] \in DOMAIN lives
    /\ wpc = "replan" =>
          actions # <<>> /\ lives[actions[1][1]].status = "replanning"

WatchInv == WatchShape /\ NoAlertUnderSatisfied

-------------------------------------------------------------------------------
(* The alerts of a snapshot.                                                *)

LEMMA WatchBounds ==
  /\ Flows \subseteq Nat /\ IsFiniteSet(Flows)
  /\ Metrics \in Nat /\ MaxAlerts \in Nat /\ MaxReentries \in Nat
<1>1. {Metrics, MaxAlerts, MaxReentries, MaxIntents, MaxChanges} \subseteq Nat
  BY WatchAssumption
<1> QED BY <1>1, WatchAssumption

(* The alert list names violating flows, each once, and all of them when    *)
(* max_alerts does not cut it.                                              *)
LEMMA AlertsOfSnapshot ==
  ASSUME level \in [Flows -> Levels]
  PROVE  /\ EvaluateSnapshot \in Seq(Flows) /\ Distinct(EvaluateSnapshot)
         /\ MaxAlerts >= Cardinality(Flows) =>
              \A f \in Flows : level[f] > 0 => f \in Range(EvaluateSnapshot)
<1> DEFINE V == {f \in Flows : level[f] > 0}
           a == Arranged(V, Worse)
           m == IF Len(a) < MaxAlerts THEN Len(a) ELSE MaxAlerts
<1>1. IsFiniteSet(V) /\ Cardinality(V) <= Cardinality(Flows) /\ Cardinality(Flows) \in Nat
  BY WatchBounds, FS_Subset, FS_CardinalityType
<1>2. \A f \in Flows : f \in Nat /\ level[f] \in Nat
  BY WatchBounds DEF Levels
<1>3. Orders(Worse, V)
  <2>1. \A f, g \in V : <<f, g>> \in Worse <=> \/ level[f] > level[g]
                                               \/ level[f] = level[g] /\ f < g
    BY DEF Worse
  <2>2. \A f \in V : <<f, f>> \notin Worse
    BY <1>2, <2>1
  <2>3. \A f, g, h \in V : <<f, g>> \in Worse /\ <<g, h>> \in Worse => <<f, h>> \in Worse
    BY <1>2, <2>1
  <2>4. \A f, g \in V : f # g => <<f, g>> \in Worse \/ <<g, f>> \in Worse
    BY <1>2, <2>1
  <2> QED BY <2>2, <2>3, <2>4 DEF Orders
<1>4. /\ a \in Seq(V) /\ Len(a) = Cardinality(V)
      /\ \A f \in V : \E i \in DOMAIN a : a[i] = f
      /\ \A i, j \in DOMAIN a : a[i] = a[j] => i = j
  <2> HIDE DEF V
  <2> QED BY <1>1, <1>3, ArrangedIs
<1>5. a \in Seq(Flows) /\ Len(a) \in Nat /\ DOMAIN a = 1 .. Len(a)
  BY <1>4
<1> HIDE DEF a
<1>6. m \in 0 .. Len(a)
  BY <1>5, WatchBounds
<1>7. EvaluateSnapshot = SubSeq(a, 1, m)
  BY DEF EvaluateSnapshot, Truncated, a
<1> HIDE DEF m
<1>8. /\ SubSeq(a, 1, m) \in Seq(Flows) /\ DOMAIN SubSeq(a, 1, m) = 1 .. m
      /\ \A i \in 1 .. m : SubSeq(a, 1, m)[i] = a[i] /\ i \in DOMAIN a
  BY <1>5, <1>6
<1>9. Distinct(EvaluateSnapshot)
  BY <1>4, <1>7, <1>8 DEF Distinct
<1>10. ASSUME MaxAlerts >= Cardinality(Flows), NEW f \in Flows, level[f] > 0
       PROVE  f \in Range(EvaluateSnapshot)
  <2>1. m = Len(a)
    BY <1>1, <1>4, <1>5, <1>10, WatchBounds DEF m
  <2>2. PICK i \in DOMAIN a : a[i] = f
    BY <1>4, <1>10
  <2>3. i \in DOMAIN EvaluateSnapshot /\ EvaluateSnapshot[i] = f
    BY <1>5, <1>7, <1>8, <2>1, <2>2
  <2> QED BY <2>3 DEF Range
<1> QED BY <1>7, <1>8, <1>9, <1>10

-------------------------------------------------------------------------------
(* Lists of lifecycles.                                                     *)

LEMMA OneLife ==
  ASSUME NEW x \in Life, NEW s \in Statuses
  PROVE  /\ x.bindings \subseteq Flows /\ x.status \in Statuses
         /\ [x EXCEPT !.status = s] \in Life
         /\ [x EXCEPT !.status = s].status = s
         /\ [x EXCEPT !.status = s].bindings = x.bindings
<1>1. x.bindings \subseteq Flows /\ x.status \in Statuses
  BY DEF Life
<1>2. [x EXCEPT !.status = s] \in Life
  BY DEF Life
<1>3. [x EXCEPT !.status = s].status = s /\ [x EXCEPT !.status = s].bindings = x.bindings
  BY DEF Life
<1> QED BY <1>1, <1>2, <1>3

(* _lifecycle_for_binding finds the last of the lifecycles that bind f.     *)
LEMMA NewestBinder ==
  ASSUME NEW ls \in Seq(Life), NEW f, BindersOf(ls, f) # {}
  PROVE  /\ Newest(ls, f) \in BindersOf(ls, f)
         /\ \A j \in BindersOf(ls, f) : j <= Newest(ls, f)
<1>1. DOMAIN ls = 1 .. Len(ls) /\ Len(ls) \in Nat
  OBVIOUS
<1>2. BindersOf(ls, f) \subseteq 0 .. Len(ls)
  BY <1>1 DEF BindersOf
<1>3. \E i \in BindersOf(ls, f) : \A j \in BindersOf(ls, f) : j <= i
  BY <1>1, <1>2, GreatestBelow
<1> QED BY <1>3 DEF Newest

(* ... and there is no other last one.                                      *)
LEMMA NewestIsOne ==
  ASSUME NEW ls \in Seq(Life), NEW f, NEW i \in BindersOf(ls, f),
         \A j \in BindersOf(ls, f) : j <= i
  PROVE  Newest(ls, f) = i
<1>1. DOMAIN ls = 1 .. Len(ls) /\ Len(ls) \in Nat
  OBVIOUS
<1>2. Newest(ls, f) \in BindersOf(ls, f) /\ i <= Newest(ls, f) /\ Newest(ls, f) <= i
  BY NewestBinder
<1>3. Newest(ls, f) \in Nat /\ i \in Nat
  BY <1>1, <1>2 DEF BindersOf
<1> QED BY <1>2, <1>3

-------------------------------------------------------------------------------
(* What observe handles: the alerts the iteration's own intents do not bind. *)

LEMMA HandledIs ==
  ASSUME WatchShape
  PROVE  /\ Handled \in Seq(Flows) /\ Distinct(Handled)
         /\ Range(Handled) \subseteq Flows /\ Range(Handled) \subseteq Alerted
<1>1. alerts \in Seq(Flows) /\ Distinct(alerts)
  BY DEF WatchShape
<1>2. /\ Handled \in Seq(Flows)
      /\ \A k \in DOMAIN Handled : \E i \in DOMAIN alerts : Handled[k] = alerts[i]
      /\ Distinct(Handled)
  <2> DEFINE S == Flows \ SkippedBindings
  <2>1. Handled = Filtered(alerts, S)
    BY DEF Handled
  <2> HIDE DEF S
  <2>2. /\ Filtered(alerts, S) \in Seq(Flows)
        /\ \A k \in DOMAIN Filtered(alerts, S) : \E i \in DOMAIN alerts : Filtered(alerts, S)[k] = alerts[i]
    BY <1>1, FilteredIs
  <2>3. Distinct(Filtered(alerts, S))
    BY <1>1, FilteredIs DEF Distinct
  <2> QED BY <2>1, <2>2, <2>3
<1>3. Range(Handled) \subseteq Flows
  BY <1>2 DEF Range
<1>4. Range(Handled) \subseteq Alerted
  BY <1>2 DEF Range, Alerted
<1> QED BY <1>2, <1>3, <1>4

LEMMA UnboundIs ==
  ASSUME WatchShape
  PROVE  /\ Unbound \in Seq(Flows)
         /\ \A k \in DOMAIN Unbound : BindersOf(lives, Unbound[k]) = {}
         /\ \A f \in Range(Handled) :
               BindersOf(lives, f) = {} => \E k \in DOMAIN Unbound : Unbound[k] = f
<1> DEFINE N == {f \in Flows : BindersOf(lives, f) = {}}
<1>1. Handled \in Seq(Flows) /\ Range(Handled) \subseteq Flows
  BY HandledIs
<1> HIDE DEF N
<1>2. /\ Unbound \in Seq(Flows)
      /\ \A k \in DOMAIN Unbound : Unbound[k] \in N
      /\ \A i \in DOMAIN Handled : Handled[i] \in N =>
            \E k \in DOMAIN Unbound : Unbound[k] = Handled[i]
  BY <1>1, FilteredIs DEF Unbound, N
<1>3. ASSUME NEW f \in Range(Handled), BindersOf(lives, f) = {}
      PROVE  \E k \in DOMAIN Unbound : Unbound[k] = f
  <2>1. PICK i \in DOMAIN Handled : Handled[i] = f
    BY DEF Range
  <2>2. f \in N
    BY <1>1, <1>3 DEF N
  <2> QED BY <1>2, <2>1, <2>2
<1>4. \A k \in DOMAIN Unbound : BindersOf(lives, Unbound[k]) = {}
  BY <1>2 DEF N
<1> QED BY <1>2, <1>3, <1>4

(* What observe makes of the lifecycles: those there were keep their        *)
(* bindings, a failed one stays failed and the newest of a handled flow is  *)
(* degraded; the new ones are degraded and bind a flow that none bound.     *)
LEMMA ObservedIs ==
  ASSUME WatchShape
  PROVE  /\ Observed \in Seq(Life)
         /\ DOMAIN lives \subseteq DOMAIN Observed
         /\ \A i \in DOMAIN lives :
               /\ Observed[i].bindings = lives[i].bindings
               /\ lives[i].status = "failed" => Observed[i].status = "failed"
               /\ Degraded(i) => Observed[i].status = "degraded"
         /\ \A i \in DOMAIN Observed \ DOMAIN lives :
               /\ Observed[i].status = "degraded"
               /\ \E k \in DOMAIN Unbound : Observed[i].bindings = {Unbound[k]}
         /\ \A k \in DOMAIN Unbound : \E i \in DOMAIN Observed \ DOMAIN lives :
               Observed[i].bindings = {Unbound[k]}
<1> DEFINE S(i) == IF Degraded(i) THEN "degraded"
                   ELSE IF Recovered(i) THEN "satisfied" ELSE lives[i].status
           old == [i \in DOMAIN lives |-> [lives[i] EXCEPT !.status = S(i)]]
<1>1. lives \in Seq(Life) /\ DOMAIN lives = 1 .. Len(lives) /\ Len(lives) \in Nat
  BY DEF WatchShape
<1>2. Unbound \in Seq(Flows) /\ DOMAIN Unbound = 1 .. Len(Unbound) /\ Len(Unbound) \in Nat
  BY UnboundIs
<1>3. ASSUME NEW i \in DOMAIN lives
      PROVE  /\ S(i) \in Statuses /\ lives[i] \in Life
             /\ lives[i].status = "failed" => S(i) = "failed"
             /\ Degraded(i) => S(i) = "degraded"
  <2>1. lives[i] \in Life
    BY <1>1
  <2>2. lives[i].status \in Statuses
    BY <2>1 DEF Life
  <2>3. S(i) \in Statuses
    BY <2>2 DEF Statuses
  <2>4. lives[i].status = "failed" => ~Degraded(i) /\ ~Recovered(i)
    BY DEF Degraded, Recovered
  <2> QED BY <2>1, <2>3, <2>4
<1> HIDE DEF S
<1>4. \A i \in DOMAIN lives : /\ old[i] \in Life
                              /\ old[i].status = S(i)
                              /\ old[i].bindings = lives[i].bindings
  BY <1>3, OneLife
<1>5. old \in Seq(Life) /\ Len(old) = Len(lives)
  <2>1. old = [i \in 1 .. Len(lives) |-> old[i]]
    BY <1>1
  <2>2. \A i \in 1 .. Len(lives) : old[i] \in Life
    BY <1>1, <1>4
  <2> HIDE DEF old
  <2>3. old \in [1 .. Len(lives) -> Life]
    BY <2>1, <2>2
  <2> QED BY <1>1, <2>3
<1>6. \A k \in DOMAIN Unbound : /\ Adopted[k] \in Life
                                /\ Adopted[k].bindings = {Unbound[k]}
                                /\ Adopted[k].status = "degraded"
  <2> TAKE k \in DOMAIN Unbound
  <2>1. Unbound[k] \in Flows
    BY <1>2
  <2>2. Adopted[k] = [bindings |-> {Unbound[k]}, status |-> "degraded", origin |-> "monitor"]
    BY DEF Adopted
  <2>3. Adopted[k] \in Life
    BY <2>1, <2>2 DEF Life, Statuses
  <2> QED BY <2>2, <2>3
<1>7. Adopted \in Seq(Life) /\ Len(Adopted) = Len(Unbound)
  <2>1. Adopted = [k \in 1 .. Len(Unbound) |-> Adopted[k]]
    BY <1>2 DEF Adopted
  <2>2. Adopted \in [1 .. Len(Unbound) -> Life]
    BY <1>2, <1>6, <2>1
  <2> QED BY <1>2, <2>2
<1>8. PICK o \in Seq(Life), a \in Seq(Life) :
           /\ Observed = o \o a /\ Len(o) = Len(lives) /\ Len(a) = Len(Unbound)
           /\ \A i \in DOMAIN lives : o[i].status = S(i) /\ o[i].bindings = lives[i].bindings
           /\ \A k \in DOMAIN Unbound : a[k].bindings = {Unbound[k]} /\ a[k].status = "degraded"
  <2>1. Observed = old \o Adopted
    BY DEF Observed, S
  <2> HIDE DEF old
  <2> QED BY <1>4, <1>5, <1>6, <1>7, <2>1
<1>9. /\ Observed \in Seq(Life)
      /\ DOMAIN Observed = 1 .. (Len(lives) + Len(Unbound))
      /\ \A i \in DOMAIN lives : Observed[i] = o[i]
      /\ \A k \in DOMAIN Unbound : Observed[Len(lives) + k] = a[k]
  <2>1. o \o a \in Seq(Life)
    OBVIOUS
  <2>2. DOMAIN (o \o a) = 1 .. (Len(o) + Len(a))
    OBVIOUS
  <2>3. \A i \in 1 .. Len(o) : (o \o a)[i] = o[i]
    OBVIOUS
  <2>4. \A k \in 1 .. Len(a) : (o \o a)[Len(o) + k] = a[k]
    OBVIOUS
  <2>5. DOMAIN lives = 1 .. Len(o) /\ DOMAIN Unbound = 1 .. Len(a)
    BY <1>1, <1>2, <1>8
  <2> QED BY <1>8, <2>1, <2>2, <2>3, <2>4, <2>5
<1>10. ASSUME NEW i \in DOMAIN Observed \ DOMAIN lives
       PROVE  \E k \in DOMAIN Unbound : i = Len(lives) + k
  <2>1. i - Len(lives) \in DOMAIN Unbound /\ i = Len(lives) + (i - Len(lives))
    BY <1>1, <1>2, <1>9, <1>10
  <2> QED BY <2>1
<1>11. ASSUME NEW k \in DOMAIN Unbound
       PROVE  Len(lives) + k \in DOMAIN Observed \ DOMAIN lives
  BY <1>1, <1>2, <1>9
<1>12. DOMAIN lives \subseteq DOMAIN Observed
  BY <1>1, <1>2, <1>9
<1> QED
  <2>1. \A i \in DOMAIN lives : /\ Observed[i].bindings = lives[i].bindings
                                /\ lives[i].status = "failed" => Observed[i].status = "failed"
                                /\ Degraded(i) => Observed[i].status = "degraded"
    BY <1>3, <1>8, <1>9
  <2>2. ASSUME NEW i \in DOMAIN Observed \ DOMAIN lives
        PROVE  /\ Observed[i].status = "degraded"
               /\ \E k \in DOMAIN Unbound : Observed[i].bindings = {Unbound[k]}
    <3>1. PICK k \in DOMAIN Unbound : i = Len(lives) + k
      BY <1>10
    <3>2. Observed[i] = a[k]
      BY <1>9, <3>1
    <3> QED BY <1>8, <3>2
  <2>3. \A k \in DOMAIN Unbound : \E i \in DOMAIN Observed \ DOMAIN lives :
           Observed[i].bindings = {Unbound[k]}
    BY <1>8, <1>9, <1>11
  <2> QED BY <1>9, <1>12, <2>1, <2>2, <2>3

(* The lifecycle recorded last of those that bind a handled flow is failed  *)
(* or degraded after observe.                                               *)
LEMMA ObservedNewest ==
  ASSUME WatchShape, NEW f \in Range(Handled)
  PROVE  /\ BindersOf(Observed, f) # {}
         /\ Observed[Newest(Observed, f)].status \in {"failed", "degraded"}
<1>1. lives \in Seq(Life) /\ DOMAIN lives = 1 .. Len(lives) /\ Len(lives) \in Nat
  BY DEF WatchShape
<1>2. Observed \in Seq(Life) /\ DOMAIN Observed = 1 .. Len(Observed) /\ Len(Observed) \in Nat
  BY ObservedIs
<1>3. CASE BindersOf(lives, f) # {}
  <2> DEFINE n == Newest(lives, f)
  <2>1. n \in BindersOf(lives, f) /\ \A j \in BindersOf(lives, f) : j <= n
    BY <1>1, <1>3, NewestBinder
  <2>2. \A i \in DOMAIN lives : f \in Observed[i].bindings <=> f \in lives[i].bindings
    BY ObservedIs
  <2>3. ASSUME NEW i \in DOMAIN Observed \ DOMAIN lives
        PROVE  f \notin Observed[i].bindings
    <3>1. PICK k \in DOMAIN Unbound : Observed[i].bindings = {Unbound[k]}
      BY <2>3, ObservedIs
    <3>2. Unbound[k] # f
      BY <1>3, UnboundIs
    <3> QED BY <3>1, <3>2
  <2>4. BindersOf(Observed, f) = BindersOf(lives, f)
    BY <2>2, <2>3, ObservedIs DEF BindersOf
  <2>5. Newest(Observed, f) = n
    BY <1>2, <2>1, <2>4, NewestIsOne
  <2>6. n \in DOMAIN lives
    BY <2>1 DEF BindersOf
  <2>7. lives[n].status = "failed" \/ Degraded(n)
    BY <1>3 DEF Degraded
  <2> QED BY <1>3, <2>4, <2>5, <2>6, <2>7, ObservedIs
<1>4. CASE BindersOf(lives, f) = {}
  <2>1. PICK k \in DOMAIN Unbound : Unbound[k] = f
    BY <1>4, UnboundIs
  <2>2. PICK i \in DOMAIN Observed \ DOMAIN lives : Observed[i].bindings = {Unbound[k]}
    BY ObservedIs
  <2>3. i \in BindersOf(Observed, f)
    BY <2>1, <2>2 DEF BindersOf
  <2>4. Newest(Observed, f) \in BindersOf(Observed, f)
    BY <1>2, <2>3, NewestBinder
  <2>5. ASSUME NEW j \in BindersOf(Observed, f)
        PROVE  Observed[j].status = "degraded"
    <3>1. j \notin DOMAIN lives
      BY <1>4, <2>5, ObservedIs DEF BindersOf
    <3> QED BY <2>5, <3>1, ObservedIs DEF BindersOf
  <2> QED BY <2>3, <2>4, <2>5
<1> QED BY <1>3, <1>4

(* What is handled depends on the alerts and on the bindings of the         *)
(* iteration's new intents alone.                                           *)
LEMMA HandledStable ==
  ASSUME alerts' = alerts, skip' = skip, \A i \in skip : lives'[i].bindings = lives[i].bindings
  PROVE  Handled' = Handled
<1>1. SkippedBindings' = SkippedBindings
  BY DEF SkippedBindings
<1> QED BY <1>1 DEF Handled

(* What observe answers: a handled flow each, none twice and none that has  *)
(* been replanned, with a lifecycle there is.                               *)
LEMMA ReentriesIs ==
  ASSUME WatchShape
  PROVE  /\ Reentries(Observed) \in Seq(Nat \X Flows)
         /\ \A k \in DOMAIN Reentries(Observed) :
               /\ Reentries(Observed)[k][1] \in DOMAIN Observed
               /\ Reentries(Observed)[k][2] \in Range(Handled) \ StillAlerted
         /\ \A j, k \in DOMAIN Reentries(Observed) :
               Reentries(Observed)[j][2] = Reentries(Observed)[k][2] => j = k
<1> DEFINE S == {f \in Range(Handled) \ StillAlerted :
                    Observed[Newest(Observed, f)].status # "failed"}
           due == Filtered(Handled, S)
           n(f) == Newest(Observed, f)
<1>1. Handled \in Seq(Flows) /\ Distinct(Handled) /\ Range(Handled) \subseteq Flows
  BY HandledIs
<1>2. due \in Seq(Flows) /\ Distinct(due) /\ \A k \in DOMAIN due : due[k] \in S
  <2> HIDE DEF S
  <2>1. due \in Seq(Flows) /\ \A k \in DOMAIN due : due[k] \in S
    BY <1>1, FilteredIs
  <2>2. Distinct(due)
    BY <1>1, FilteredIs DEF Distinct
  <2> QED BY <2>1, <2>2
<1>3. \A k \in DOMAIN due : due[k] \in Range(Handled) \ StillAlerted
  <2> HIDE DEF due
  <2> QED BY <1>2
<1>4. Reentries(Observed) = [k \in DOMAIN due |-> <<n(due[k]), due[k]>>]
  BY DEF Reentries
<1> HIDE DEF due
<1>5. ASSUME NEW k \in DOMAIN due
      PROVE  n(due[k]) \in DOMAIN Observed
  <2>1. PICK f \in Range(Handled) : f = due[k]
    BY <1>3
  <2>2. BindersOf(Observed, f) # {} /\ Observed \in Seq(Life)
    BY ObservedNewest, ObservedIs
  <2>3. Newest(Observed, f) \in BindersOf(Observed, f)
    BY <2>2, NewestBinder
  <2> QED BY <2>1, <2>3 DEF BindersOf
<1>6. DOMAIN Observed \subseteq Nat
  BY ObservedIs
<1> HIDE DEF n
<1>7. /\ DOMAIN Reentries(Observed) = DOMAIN due
      /\ \A k \in DOMAIN due : /\ Reentries(Observed)[k] = <<n(due[k]), due[k]>>
                               /\ Reentries(Observed)[k][1] = n(due[k])
                               /\ Reentries(Observed)[k][2] = due[k]
  BY <1>4
<1>8. ASSUME NEW k \in DOMAIN due
      PROVE  Reentries(Observed)[k] \in Nat \X Flows
  <2>1. n(due[k]) \in Nat
    BY <1>5, <1>6
  <2>2. due[k] \in Flows
    BY <1>2
  <2>3. Reentries(Observed)[k] = <<n(due[k]), due[k]>>
    BY <1>7
  <2> QED BY <2>1, <2>2, <2>3
<1>9. Reentries(Observed) \in Seq(Nat \X Flows)
  <2>1. DOMAIN due = 1 .. Len(due) /\ Len(due) \in Nat
    BY <1>2
  <2>2. Reentries(Observed) \in [1 .. Len(due) -> Nat \X Flows]
    BY <1>4, <1>8, <2>1
  <2> QED BY <2>1, <2>2
<1>10. \A k \in DOMAIN due : /\ Reentries(Observed)[k][1] \in DOMAIN Observed
                             /\ Reentries(Observed)[k][2] \in Range(Handled) \ StillAlerted
  BY <1>3, <1>5, <1>7
<1>11. \A j, k \in DOMAIN due : Reentries(Observed)[j][2] = Reentries(Observed)[k][2] => j = k
  BY <1>2, <1>7 DEF Distinct
<1> QED BY <1>7, <1>9, <1>10, <1>11

-------------------------------------------------------------------------------
(* The invariant, one step of the loop at a time.                           *)

(* A step that leaves alerts, lifecycles and new intents alone.             *)
LEMMA LivesUntouched ==
  ASSUME WatchInv, UNCHANGED <<alerts, lives, skip>>, level' \in [Flows -> Levels],
         actions' \in Seq(Nat \X Flows), \A k \in DOMAIN actions' : actions'[k][1] \in DOMAIN lives,
         wpc' = "replan" => wpc = "replan" /\ actions' = actions,
         wpc' \in {"act", "replan"} => wpc \in {"act", "replan"}
  PROVE  WatchInv'
<1>1. Handled' = Handled
  BY HandledStable
<1>2. WatchShape'
  BY DEF WatchInv, WatchShape, Distinct
<1>3. NoAlertUnderSatisfied'
  BY <1>1 DEF WatchInv, NoAlertUnderSatisfied, NewestIs, BindersOf
<1> QED BY <1>2, <1>3 DEF WatchInv

(* What is left of the list of actions once its first has been dealt with.  *)
LEMMA ActionsLeft ==
  ASSUME WatchShape, actions # <<>>
  PROVE  /\ 1 \in DOMAIN actions
         /\ actions[1][1] \in DOMAIN lives /\ actions[1][2] \in Flows
         /\ Tail(actions) \in Seq(Nat \X Flows)
         /\ \A k \in DOMAIN Tail(actions) : /\ k + 1 \in DOMAIN actions /\ k + 1 > 1
                                            /\ Tail(actions)[k] = actions[k + 1]
<1>1. actions \in Seq(Nat \X Flows)
  BY DEF WatchShape
<1>2. 1 \in DOMAIN actions
  BY <1>1
<1>3. actions[1][1] \in DOMAIN lives
  BY <1>2 DEF WatchShape
<1>4. actions[1] \in Nat \X Flows
  BY <1>1, <1>2
<1>5. Tail(actions) \in Seq(Nat \X Flows)
  BY <1>1
<1>6. \A k \in DOMAIN Tail(actions) : /\ k + 1 \in DOMAIN actions /\ k + 1 > 1
                                      /\ Tail(actions)[k] = actions[k + 1]
  BY <1>1
<1> QED BY <1>2, <1>3, <1>4, <1>5, <1>6

(* A replan changes the status of one lifecycle and never to "satisfied":   *)
(* who binds what stays, and so does which lifecycle is the newest.         *)
LEMMA StatusMoves ==
  ASSUME WatchInv, wpc \in {"act", "replan"}, UNCHANGED <<alerts, skip>>,
         NEW i \in DOMAIN lives, NEW s \in Statuses \ {"satisfied"},
         lives' = [lives EXCEPT ![i].status = s]
  PROVE  /\ lives' \in Seq(Life) /\ DOMAIN lives' = DOMAIN lives
         /\ lives'[i].status = s
         /\ \A j \in DOMAIN lives : j # i => lives'[j] = lives[j]
         /\ NoAlertUnderSatisfied'
<1>1. lives \in Seq(Life) /\ lives[i] \in Life
  BY DEF WatchInv, WatchShape
<1>2. lives' = [lives EXCEPT ![i] = [lives[i] EXCEPT !.status = s]]
  OBVIOUS
<1>3. PICK x \in Life : x = [lives[i] EXCEPT !.status = s] /\ x.status = s
                        /\ x.bindings = lives[i].bindings
  BY <1>1, OneLife
<1>4. /\ lives' \in Seq(Life) /\ DOMAIN lives' = DOMAIN lives /\ lives'[i] = x
      /\ \A j \in DOMAIN lives : j # i => lives'[j] = lives[j]
  BY <1>1, <1>2, <1>3
<1>5. \A j \in DOMAIN lives : lives'[j].bindings = lives[j].bindings
  BY <1>3, <1>4
<1>6. Handled' = Handled
  BY <1>5, HandledStable DEF WatchInv, WatchShape
<1>7. ASSUME NEW f \in Range(Handled)
      PROVE  NewestIs(f, Statuses \ {"satisfied"})'
  <2>1. PICK n \in BindersOf(lives, f) : /\ \A j \in BindersOf(lives, f) : j <= n
                                         /\ lives[n].status \in Statuses \ {"satisfied"}
    BY DEF WatchInv, NoAlertUnderSatisfied, NewestIs
  <2>2. BindersOf(lives', f) = BindersOf(lives, f)
    BY <1>4, <1>5 DEF BindersOf
  <2>3. lives'[n].status \in Statuses \ {"satisfied"}
    BY <1>3, <1>4, <2>1 DEF BindersOf
  <2> QED BY <2>1, <2>2, <2>3 DEF NewestIs
<1>8. NoAlertUnderSatisfied'
  BY <1>6, <1>7 DEF NoAlertUnderSatisfied
<1> QED BY <1>3, <1>4, <1>8

LEMMA PollKeepsWatchInv ==
  ASSUME WatchInv, NEW typed \in BOOLEAN, Poll(typed)
  PROVE  WatchInv'
<1>1. wpc' \in {"intent", "observe"} /\ alerts' = EvaluateSnapshot /\ skip' = {}
      /\ UNCHANGED <<level, lives, actions>>
  BY DEF Poll
<1>2. level \in [Flows -> Levels]
  BY DEF WatchInv, WatchShape
<1>3. alerts' \in Seq(Flows) /\ Distinct(alerts')
  BY <1>1, <1>2, AlertsOfSnapshot
<1>4. WatchShape'
  BY <1>1, <1>3 DEF WatchInv, WatchShape, Distinct
<1>5. NoAlertUnderSatisfied'
  BY <1>1 DEF NoAlertUnderSatisfied
<1> QED BY <1>4, <1>5 DEF WatchInv

LEMMA RunIntentKeepsWatchInv ==
  ASSUME WatchInv, NEW completed \in BOOLEAN, NEW bindings \in SUBSET Flows,
         RunIntent(completed, bindings)
  PROVE  /\ WatchInv'
         /\ \A i \in DOMAIN lives : lives'[i] = lives[i]
<1> DEFINE new == [bindings |-> bindings, origin |-> "user",
                   status |-> IF completed THEN "active" ELSE "failed"]
<1>1. lives' = Append(lives, new) /\ skip' = {Len(lives) + 1} /\ wpc' = "observe"
      /\ UNCHANGED <<level, alerts, actions>>
  BY DEF RunIntent, worldVars
<1>2. lives \in Seq(Life)
  BY DEF WatchInv, WatchShape
<1>3. new \in Life
  BY DEF Life, Statuses
<1> HIDE DEF new
<1>4. /\ lives' \in Seq(Life) /\ DOMAIN lives \subseteq DOMAIN lives'
      /\ Len(lives) + 1 \in DOMAIN lives'
      /\ \A i \in DOMAIN lives : lives'[i] = lives[i]
  BY <1>1, <1>2, <1>3
<1>5. WatchShape'
  BY <1>1, <1>4 DEF WatchInv, WatchShape, Distinct
<1>6. NoAlertUnderSatisfied'
  BY <1>1 DEF NoAlertUnderSatisfied
<1> QED BY <1>4, <1>5, <1>6 DEF WatchInv

LEMMA ObserveKeepsWatchInv ==
  ASSUME WatchInv, Observe
  PROVE  /\ WatchInv'
         /\ \A i \in DOMAIN lives : lives[i].status = "failed" => lives'[i].status = "failed"
<1>1. lives' = Observed /\ actions' = Reentries(Observed) /\ wpc' = "act"
      /\ UNCHANGED <<level, alerts, skip>>
  BY DEF Observe, worldVars
<1>2. WatchShape
  BY DEF WatchInv
<1>3. skip \subseteq DOMAIN lives /\ \A i \in DOMAIN lives : lives'[i].bindings = lives[i].bindings
  BY <1>1, <1>2, ObservedIs DEF WatchShape
<1>4. Handled' = Handled
  BY <1>1, <1>3, HandledStable
<1>5. lives' \in Seq(Life) /\ DOMAIN lives \subseteq DOMAIN lives'
  BY <1>1, <1>2, ObservedIs
<1>6. /\ actions' \in Seq(Nat \X Flows)
      /\ \A k \in DOMAIN actions' : actions'[k][1] \in DOMAIN lives'
  BY <1>1, <1>2, ReentriesIs
<1>7. WatchShape'
  BY <1>1, <1>2, <1>3, <1>5, <1>6 DEF WatchShape, Distinct
<1>8. ASSUME NEW f \in Range(Handled)
      PROVE  NewestIs(f, Statuses \ {"satisfied"})'
  <2>1. /\ BindersOf(lives', f) # {}
        /\ lives'[Newest(lives', f)].status \in {"failed", "degraded"}
    BY <1>1, <1>2, ObservedNewest
  <2>2. /\ Newest(lives', f) \in BindersOf(lives', f)
        /\ \A j \in BindersOf(lives', f) : j <= Newest(lives', f)
    BY <1>5, <2>1, NewestBinder
  <2> QED BY <2>1, <2>2 DEF NewestIs, Statuses
<1>9. NoAlertUnderSatisfied'
  BY <1>4, <1>8 DEF NoAlertUnderSatisfied
<1>10. \A i \in DOMAIN lives : lives[i].status = "failed" => lives'[i].status = "failed"
  BY <1>1, <1>2, ObservedIs
<1> QED BY <1>7, <1>9, <1>10 DEF WatchInv

LEMMA BeginReplanKeepsWatchInv ==
  ASSUME WatchInv, BeginReplan
  PROVE  /\ WatchInv'
         /\ \A i \in DOMAIN lives : lives[i].status = "failed" => lives'[i].status = "failed"
<1>1. /\ wpc = "act" /\ actions # <<>> /\ wpc' = "replan"
      /\ lives[actions[1][1]].status # "failed"
      /\ lives' = [lives EXCEPT ![actions[1][1]].status = "replanning"]
      /\ UNCHANGED <<level, alerts, skip, actions>>
  BY DEF BeginReplan, Acting, MayReplan, worldVars
<1>2. WatchShape
  BY DEF WatchInv
<1>3. PICK i \in DOMAIN lives : i = actions[1][1]
  BY <1>1, <1>2, ActionsLeft
<1>4. PICK s \in Statuses \ {"satisfied"} : s = "replanning"
  BY DEF Statuses
<1>5. lives' = [lives EXCEPT ![i].status = s]
  BY <1>1, <1>3, <1>4
<1>6. /\ lives' \in Seq(Life) /\ DOMAIN lives' = DOMAIN lives
      /\ lives'[i].status = "replanning"
      /\ \A j \in DOMAIN lives : j # i => lives'[j] = lives[j]
      /\ NoAlertUnderSatisfied'
  BY <1>1, <1>4, <1>5, StatusMoves
<1>7. WatchShape'
  BY <1>1, <1>2, <1>3, <1>6 DEF WatchShape, Distinct
<1> QED BY <1>1, <1>3, <1>6, <1>7 DEF WatchInv

LEMMA FinishReplanKeepsWatchInv ==
  ASSUME WatchInv, NEW completed \in BOOLEAN, FinishReplan(completed)
  PROVE  /\ WatchInv'
         /\ \A i \in DOMAIN lives : lives[i].status = "failed" => lives'[i].status = "failed"
<1> DEFINE s == IF completed THEN "active" ELSE "failed"
<1>1. /\ wpc = "replan" /\ wpc' = "act" /\ actions' = Tail(actions)
      /\ lives' = [lives EXCEPT ![actions[1][1]].status = s]
      /\ UNCHANGED <<level, alerts, skip>>
  BY DEF FinishReplan, worldVars
<1>2. WatchShape
  BY DEF WatchInv
<1>3. actions # <<>> /\ lives[actions[1][1]].status = "replanning"
  BY <1>1, <1>2 DEF WatchShape
<1>4. PICK i \in DOMAIN lives : i = actions[1][1]
  BY <1>2, <1>3, ActionsLeft
<1>5. s \in Statuses \ {"satisfied"}
  BY DEF Statuses
<1> HIDE DEF s
<1>6. /\ lives' \in Seq(Life) /\ DOMAIN lives' = DOMAIN lives
      /\ \A j \in DOMAIN lives : j # i => lives'[j] = lives[j]
      /\ NoAlertUnderSatisfied'
  BY <1>1, <1>4, <1>5, StatusMoves
<1>7. /\ actions' \in Seq(Nat \X Flows)
      /\ \A k \in DOMAIN actions' : actions'[k][1] \in DOMAIN lives'
  BY <1>1, <1>2, <1>3, <1>6, ActionsLeft DEF WatchShape
<1>8. WatchShape'
  BY <1>1, <1>2, <1>6, <1>7 DEF WatchShape, Distinct
<1> QED BY <1>3, <1>4, <1>6, <1>8 DEF WatchInv

LEMMA PassOverKeepsWatchInv ==
  ASSUME WatchInv, PassOver
  PROVE  WatchInv'
<1>1. /\ wpc = "act" /\ actions # <<>> /\ wpc' = wpc /\ actions' = Tail(actions)
      /\ UNCHANGED <<level, alerts, lives, skip>>
  BY DEF PassOver, Acting, worldVars
<1>2. level \in [Flows -> Levels] /\ WatchShape
  BY DEF WatchInv, WatchShape
<1>3. /\ actions' \in Seq(Nat \X Flows)
      /\ \A k \in DOMAIN actions' : actions'[k][1] \in DOMAIN lives
  BY <1>1, <1>2, ActionsLeft DEF WatchShape
<1> QED BY <1>1, <1>2, <1>3, LivesUntouched

(* A step of the watch loop keeps the invariant and lets no failed          *)
(* lifecycle become anything else.                                          *)
LEMMA WatchStepKeepsWatchInv ==
  ASSUME WatchInv, [WatchNext]_watchVars
  PROVE  /\ WatchInv'
         /\ \A i \in DOMAIN lives : lives[i].status = "failed" => lives'[i].status = "failed"
<1>0. /\ level \in [Flows -> Levels] /\ actions \in Seq(Nat \X Flows)
      /\ \A k \in DOMAIN actions : actions[k][1] \in DOMAIN lives
  BY DEF WatchInv, WatchShape
<1>1. CASE \E typed \in BOOLEAN : Poll(typed)
  BY <1>1, PollKeepsWatchInv DEF Poll
<1>2. CASE \E completed \in BOOLEAN, bindings \in SUBSET Flows : RunIntent(completed, bindings)
  BY <1>2, RunIntentKeepsWatchInv
<1>3. CASE Observe
  BY <1>3, ObserveKeepsWatchInv
<1>4. CASE PassOver
  BY <1>4, PassOverKeepsWatchInv DEF PassOver
<1>5. CASE BeginReplan
  BY <1>5, BeginReplanKeepsWatchInv
<1>6. CASE \E completed \in BOOLEAN : FinishReplan(completed)
  BY <1>6, FinishReplanKeepsWatchInv
<1>7. CASE EndIteration
  <2>1. wpc' = "poll" /\ UNCHANGED <<level, alerts, lives, skip, actions>>
    BY <1>7 DEF EndIteration, worldVars
  <2> QED BY <1>0, <2>1, LivesUntouched
<1>8. CASE Raise
  <2>1. wpc' = "stopped" /\ UNCHANGED <<level, alerts, lives, skip, actions>>
    BY <1>8 DEF Raise, worldVars
  <2> QED BY <1>0, <2>1, LivesUntouched
<1>9. CASE \E f \in Flows, l \in Levels : Drift(f, l)
  <2>1. PICK f \in Flows, l \in Levels : Drift(f, l)
    BY <1>9
  <2>2. level' = [level EXCEPT ![f] = l] /\ UNCHANGED <<wpc, alerts, lives, skip, actions>>
    BY <2>1 DEF Drift
  <2>3. level' \in [Flows -> Levels]
    BY <1>0, <2>2
  <2> QED BY <1>0, <2>2, <2>3, LivesUntouched
<1>10. CASE UNCHANGED watchVars
  <2>1. UNCHANGED <<level, wpc, alerts, lives, skip, actions>>
    BY <1>10 DEF watchVars, worldVars
  <2> QED BY <1>0, <2>1, LivesUntouched
<1> QED BY <1>1, <1>2, <1>3, <1>4, <1>5, <1>6, <1>7, <1>8, <1>9, <1>10 DEF WatchNext, WatchStep

LEMMA WatchInitInv == WatchInit => WatchInv
<1> SUFFICES ASSUME WatchInit PROVE WatchInv
  OBVIOUS
<1>1. level \in [Flows -> Levels]
  BY WatchBounds DEF WatchInit, Levels
<1>2. <<>> \in Seq(Flows) /\ <<>> \in Seq(Life) /\ <<>> \in Seq(Nat \X Flows)
  OBVIOUS
<1>3. WatchShape
  BY <1>1, <1>2 DEF WatchInit, WatchShape, Distinct
<1>4. NoAlertUnderSatisfied
  BY DEF WatchInit, NoAlertUnderSatisfied
<1> QED BY <1>3, <1>4 DEF WatchInv

(* The invariant of the loop; it holds the statement a user relies on: what *)
(* observe has marked satisfied hides no alert, for the newest lifecycle of *)
(* every flow with an alert is not "satisfied" while alerts are acted on.   *)
THEOREM WatchInvariant == WatchSpec => [](WatchShape /\ NoAlertUnderSatisfied)
<1>1. WatchInit => WatchInv
  BY WatchInitInv
<1>2. WatchInv /\ [WatchNext]_watchVars => WatchInv'
  BY WatchStepKeepsWatchInv
<1>3. WatchInv <=> WatchShape /\ NoAlertUnderSatisfied
  BY DEF WatchInv
<1> QED BY <1>1, <1>2, <1>3, PTL DEF WatchSpec

(* A failed lifecycle stays failed: the loop decides what to replan before  *)
(* it replans, and what has failed meanwhile is passed over.                *)
THEOREM FailureIsFinal == WatchSpec => FailedIsFinal
<1>1. WatchInit => WatchInv
  BY WatchInitInv
<1>2. WatchInv /\ [WatchNext]_watchVars => WatchInv'
  BY WatchStepKeepsWatchInv
<1>3. WatchInv /\ [WatchNext]_watchVars =>
        [\A i \in DOMAIN lives : lives[i].status = "failed" => lives'[i].status = "failed"]_watchVars
  BY WatchStepKeepsWatchInv
<1> QED BY <1>1, <1>2, <1>3, PTL DEF WatchSpec, FailedIsFinal

-------------------------------------------------------------------------------
(* A flow is replanned once an incident.                                    *)

(* A flow replanned since it was last within its SLA is remembered in       *)
(* _replanned_bindings, and is among the alerts when observe forgets those  *)
(* that are not; no action is for such a flow, and no two are for the same. *)
IncidentInv ==
    /\ replanned \subseteq Flows
    /\ replans \in [Flows -> Nat]
    /\ SuppressedUntilRecovery
    /\ \A f \in Flows : replans[f] > 0 => f \in replanned
    /\ wpc \in {"intent", "observe"} => \A f \in Flows : replans[f] > 0 => f \in Alerted
    /\ wpc \in {"act", "replan"} =>
          \A i, j \in DOMAIN actions : actions[i][2] = actions[j][2] => i = j
    /\ wpc = "act" => \A k \in DOMAIN actions : actions[k][2] \notin replanned
    /\ wpc = "replan" => \A k \in DOMAIN actions : k > 1 => actions[k][2] \notin replanned

LEMMA IncidentUntouched ==
  ASSUME IncidentInv, UNCHANGED <<alerts, replanned, replans, actions>>,
         \/ wpc' = wpc
         \/ wpc' \in {"stopped", "poll"}
         \/ wpc = "intent" /\ wpc' = "observe"
  PROVE  IncidentInv'
<1>1. /\ replanned' \subseteq Flows /\ replans' \in [Flows -> Nat]
      /\ SuppressedUntilRecovery'
      /\ \A f \in Flows : replans'[f] > 0 => f \in replanned'
  BY DEF IncidentInv, SuppressedUntilRecovery
<1>2. wpc' \in {"intent", "observe"} => \A f \in Flows : replans'[f] > 0 => f \in Alerted'
  BY DEF IncidentInv, Alerted
<1>3. /\ wpc' \in {"act", "replan"} =>
             \A i, j \in DOMAIN actions' : actions'[i][2] = actions'[j][2] => i = j
      /\ wpc' = "act" => \A k \in DOMAIN actions' : actions'[k][2] \notin replanned'
      /\ wpc' = "replan" => \A k \in DOMAIN actions' : k > 1 => actions'[k][2] \notin replanned'
  BY DEF IncidentInv
<1> QED BY <1>1, <1>2, <1>3 DEF IncidentInv

(* A snapshot: what is within its SLA starts afresh, and every other flow   *)
(* is among the alerts, which max_alerts does not cut.                      *)
LEMMA PollKeepsIncidentInv ==
  ASSUME MaxAlerts >= Cardinality(Flows), WatchInv, IncidentInv,
         NEW typed \in BOOLEAN, Poll(typed)
  PROVE  IncidentInv'
<1>1. /\ wpc' \in {"intent", "observe"} /\ alerts' = EvaluateSnapshot /\ replanned' = replanned
      /\ replans' = [f \in Flows |-> IF level[f] = 0 THEN 0 ELSE replans[f]]
  BY DEF Poll
<1>2. level \in [Flows -> Levels] /\ replans \in [Flows -> Nat]
  BY DEF WatchInv, WatchShape, IncidentInv
<1>3. /\ replans' \in [Flows -> Nat]
      /\ \A f \in Flows : replans'[f] \in {0, replans[f]}
  BY <1>1, <1>2
<1>4. SuppressedUntilRecovery'
  BY <1>3 DEF IncidentInv, SuppressedUntilRecovery
<1>5. \A f \in Flows : replans'[f] > 0 => f \in replanned'
  BY <1>1, <1>3 DEF IncidentInv
<1>6. ASSUME NEW f \in Flows, replans'[f] > 0
      PROVE  f \in Alerted'
  <2>1. level[f] \in Nat /\ level[f] # 0
    BY <1>1, <1>2, <1>6, WatchBounds DEF Levels
  <2>2. level[f] > 0
    BY <2>1
  <2>3. f \in Range(EvaluateSnapshot)
    BY <1>2, <2>2, AlertsOfSnapshot
  <2> QED BY <1>1, <2>3 DEF Alerted
<1> QED BY <1>1, <1>3, <1>4, <1>5, <1>6 DEF IncidentInv

(* What observe forgets is not among the alerts, so it has not been         *)
(* replanned since it recovered; what it answers it has not replanned.      *)
LEMMA ObserveKeepsIncidentInv ==
  ASSUME WatchInv, IncidentInv, Observe
  PROVE  IncidentInv'
<1>1. /\ wpc = "observe" /\ wpc' = "act" /\ actions' = Reentries(Observed)
      /\ replanned' = StillAlerted /\ UNCHANGED replans
  BY DEF Observe
<1>2. \A f \in Flows : replans[f] > 0 => f \in StillAlerted
  BY <1>1 DEF IncidentInv, StillAlerted
<1>3. StillAlerted \subseteq Flows
  BY DEF IncidentInv, StillAlerted
<1>4. SuppressedUntilRecovery' /\ replans \in [Flows -> Nat]
  BY <1>1 DEF IncidentInv, SuppressedUntilRecovery
<1>5. /\ \A j, k \in DOMAIN actions' : actions'[j][2] = actions'[k][2] => j = k
      /\ \A k \in DOMAIN actions' : actions'[k][2] \notin replanned'
  BY <1>1, ReentriesIs DEF WatchInv
<1> QED BY <1>1, <1>2, <1>3, <1>4, <1>5 DEF IncidentInv

LEMMA PassOverKeepsIncidentInv ==
  ASSUME WatchInv, IncidentInv, PassOver
  PROVE  IncidentInv'
<1>1. /\ wpc = "act" /\ actions # <<>> /\ wpc' = wpc /\ actions' = Tail(actions)
      /\ UNCHANGED <<alerts, replanned, replans>>
  BY DEF PassOver, Acting, worldVars
<1>2. \A k \in DOMAIN actions' : /\ k + 1 \in DOMAIN actions
                                  /\ actions'[k] = actions[k + 1]
  BY <1>1, ActionsLeft DEF WatchInv
<1>3. \A k \in DOMAIN actions' : actions'[k][2] \notin replanned'
  BY <1>1, <1>2 DEF IncidentInv
<1>4. ASSUME NEW j \in DOMAIN actions', NEW k \in DOMAIN actions', actions'[j][2] = actions'[k][2]
      PROVE  j = k
  <2>1. j + 1 = k + 1
    BY <1>1, <1>2, <1>4 DEF IncidentInv
  <2>2. j \in Nat /\ k \in Nat
    BY <1>1 DEF WatchInv, WatchShape
  <2> QED BY <2>1, <2>2
<1>5. /\ replanned' \subseteq Flows /\ replans' \in [Flows -> Nat] /\ SuppressedUntilRecovery'
      /\ \A f \in Flows : replans'[f] > 0 => f \in replanned'
  BY <1>1 DEF IncidentInv, SuppressedUntilRecovery
<1> QED BY <1>1, <1>3, <1>4, <1>5 DEF IncidentInv

(* The flow taken up has not been replanned since it was within its SLA.    *)
LEMMA BeginReplanKeepsIncidentInv ==
  ASSUME WatchInv, IncidentInv, BeginReplan
  PROVE  IncidentInv'
<1>1. /\ wpc = "act" /\ actions # <<>> /\ wpc' = "replan" /\ actions' = actions
      /\ replanned' = replanned \cup {actions[1][2]}
      /\ replans' = [replans EXCEPT ![actions[1][2]] = @ + 1]
  BY DEF BeginReplan, Acting
<1>2. 1 \in DOMAIN actions /\ actions[1][2] \in Flows
  BY <1>1, ActionsLeft DEF WatchInv
<1>3. PICK g \in Flows : g = actions[1][2]
  BY <1>2
<1>4. replans \in [Flows -> Nat] /\ replanned \subseteq Flows
  BY DEF IncidentInv
<1>5. replans[g] = 0
  <2>1. g \notin replanned
    BY <1>1, <1>2, <1>3 DEF IncidentInv
  <2>2. ~(replans[g] > 0) /\ replans[g] \in Nat
    BY <1>4, <2>1 DEF IncidentInv
  <2> QED BY <2>2
<1>6. /\ replans' \in [Flows -> Nat]
      /\ replans'[g] = 1
      /\ \A f \in Flows : f # g => replans'[f] = replans[f]
  BY <1>1, <1>3, <1>4, <1>5
<1>7. SuppressedUntilRecovery'
  BY <1>6 DEF IncidentInv, SuppressedUntilRecovery
<1>8. \A f \in Flows : replans'[f] > 0 => f \in replanned'
  BY <1>1, <1>3, <1>6 DEF IncidentInv
<1>9. \A k \in DOMAIN actions' : k > 1 => actions'[k][2] \notin replanned'
  BY <1>1, <1>2 DEF IncidentInv
<1>10. \A i, j \in DOMAIN actions' : actions'[i][2] = actions'[j][2] => i = j
  BY <1>1 DEF IncidentInv
<1> QED BY <1>1, <1>3, <1>4, <1>6, <1>7, <1>8, <1>9, <1>10 DEF IncidentInv

LEMMA FinishReplanKeepsIncidentInv ==
  ASSUME WatchInv, IncidentInv, NEW completed \in BOOLEAN, FinishReplan(completed)
  PROVE  IncidentInv'
<1>1. /\ wpc = "replan" /\ wpc' = "act" /\ actions' = Tail(actions)
      /\ UNCHANGED <<alerts, replanned, replans>>
  BY DEF FinishReplan, worldVars
<1>2. \A k \in DOMAIN actions' : /\ k + 1 \in DOMAIN actions /\ k + 1 > 1
                                  /\ actions'[k] = actions[k + 1]
  BY <1>1, ActionsLeft DEF WatchInv, WatchShape
<1>3. \A k \in DOMAIN actions' : actions'[k][2] \notin replanned'
  BY <1>1, <1>2 DEF IncidentInv
<1>4. ASSUME NEW j \in DOMAIN actions', NEW k \in DOMAIN actions', actions'[j][2] = actions'[k][2]
      PROVE  j = k
  <2>1. j + 1 = k + 1
    BY <1>1, <1>2, <1>4 DEF IncidentInv
  <2>2. actions \in Seq(Nat \X Flows) /\ actions # <<>>
    BY <1>1 DEF WatchInv, WatchShape
  <2>3. j \in Nat /\ k \in Nat
    BY <1>1, <2>2
  <2> QED BY <2>1, <2>3
<1>5. /\ replanned' \subseteq Flows /\ replans' \in [Flows -> Nat] /\ SuppressedUntilRecovery'
      /\ \A f \in Flows : replans'[f] > 0 => f \in replanned'
  BY <1>1 DEF IncidentInv, SuppressedUntilRecovery
<1> QED BY <1>1, <1>3, <1>4, <1>5 DEF IncidentInv

LEMMA WatchStepKeepsIncidentInv ==
  ASSUME MaxAlerts >= Cardinality(Flows), WatchInv, IncidentInv, [WatchNext]_watchVars
  PROVE  IncidentInv'
<1>1. CASE \E typed \in BOOLEAN : Poll(typed)
  BY <1>1, PollKeepsIncidentInv
<1>2. CASE \E completed \in BOOLEAN, bindings \in SUBSET Flows : RunIntent(completed, bindings)
  BY <1>2, IncidentUntouched DEF RunIntent
<1>3. CASE Observe
  BY <1>3, ObserveKeepsIncidentInv
<1>4. CASE PassOver
  BY <1>4, PassOverKeepsIncidentInv
<1>5. CASE BeginReplan
  BY <1>5, BeginReplanKeepsIncidentInv
<1>6. CASE \E completed \in BOOLEAN : FinishReplan(completed)
  BY <1>6, FinishReplanKeepsIncidentInv
<1>7. CASE EndIteration
  BY <1>7, IncidentUntouched DEF EndIteration
<1>8. CASE Raise
  BY <1>8, IncidentUntouched DEF Raise
<1>9. CASE \E f \in Flows, l \in Levels : Drift(f, l)
  BY <1>9, IncidentUntouched DEF Drift
<1>10. CASE UNCHANGED watchVars
  BY <1>10, IncidentUntouched DEF watchVars, worldVars
<1> QED BY <1>1, <1>2, <1>3, <1>4, <1>5, <1>6, <1>7, <1>8, <1>9, <1>10 DEF WatchNext, WatchStep

(* While max_alerts cuts no alert off, a flow is replanned at most once     *)
(* between two snapshots that show it within its SLA.  The hypothesis is    *)
(* needed: the run watch_truncated shows a second replan without it.        *)
THEOREM OneReplanAnIncident ==
  ASSUME MaxAlerts >= Cardinality(Flows)
  PROVE  WatchSpec => []SuppressedUntilRecovery
<1>1. WatchInit => WatchInv /\ IncidentInv
  <2>1. WatchInit => IncidentInv
    BY DEF WatchInit, IncidentInv, SuppressedUntilRecovery, Alerted
  <2> QED BY <2>1, WatchInitInv
<1>2. WatchInv /\ IncidentInv /\ [WatchNext]_watchVars => WatchInv' /\ IncidentInv'
  BY WatchStepKeepsWatchInv, WatchStepKeepsIncidentInv
<1>3. IncidentInv => SuppressedUntilRecovery
  BY DEF IncidentInv
<1> QED BY <1>1, <1>2, <1>3, PTL DEF WatchSpec
================================================================================
