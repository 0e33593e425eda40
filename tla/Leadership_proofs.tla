------------------------- MODULE Leadership_proofs -------------------------
(***************************************************************************)
(* Theorems about Leadership, for every set of replicas and every value of *)
(* the timing constants, and their proofs.                                 *)
(***************************************************************************)
EXTENDS Leadership, Integers, TLAPS

-----------------------------------------------------------------------------
(***************************************************************************)
(* The constants.                                                          *)
(***************************************************************************)

LEMMA Threshold == ErrorThreshold \in Nat /\ ErrorThreshold >= 2
<1>1. LeaseTTL \div RenewInterval \in Int
  BY LeaseAssumption, SMT
<1> QED
  BY <1>1, SMT DEF ErrorThreshold

\* The time the errors still allowed after n can take.
Rest(n) == (ErrorThreshold - 1 - n) * RenewalCycle

LEMMA CycleType == RenewalCycle \in Nat /\ RenewInterval + MaxLatency = RenewalCycle
BY LeaseAssumption DEF RenewalCycle

\* Products of Nats, stated apart from what they are used for.
LEMMA ProductNat == \A a, b \in Nat : a * b \in Nat
OBVIOUS
LEMMA ProductStep == \A a, b \in Nat : (a + 1) * b = a * b + b
BY SMT

LEMMA BoundType ==
  /\ OverlapBound \in Nat
  /\ OverlapBound = Rest(0) + RenewalCycle + MaxLatency + MaxDrain
<1> DEFINE t == ErrorThreshold - 1
<1>1. t \in Nat /\ ErrorThreshold = t + 1 /\ t - 0 = t
  BY Threshold
<1> HIDE DEF t
<1>2. ErrorThreshold * RenewalCycle = t * RenewalCycle + RenewalCycle
  BY <1>1, CycleType, ProductStep
<1>3. t * RenewalCycle \in Nat
  BY <1>1, CycleType, ProductNat
<1>4. Rest(0) = t * RenewalCycle
  BY <1>1 DEF Rest, t
<1> QED
  BY <1>2, <1>3, <1>4, CycleType, LeaseAssumption DEF OverlapBound

LEMMA RestType ==
  ASSUME NEW n \in 0..(ErrorThreshold - 1)
  PROVE  Rest(n) \in Nat
<1>1. ErrorThreshold - 1 - n \in Nat
  BY Threshold
<1> QED
  BY <1>1, CycleType, ProductNat DEF Rest

\* One more error costs one cycle.
LEMMA RestStep ==
  ASSUME NEW n \in Nat, n + 1 <= ErrorThreshold - 1
  PROVE  Rest(n) = Rest(n + 1) + RenewalCycle
<1> DEFINE t == ErrorThreshold - 1 - (n + 1)
<1>1. t \in Nat /\ ErrorThreshold - 1 - n = t + 1
  BY Threshold
<1> HIDE DEF t
<1>2. (t + 1) * RenewalCycle = t * RenewalCycle + RenewalCycle
  BY <1>1, CycleType, ProductStep
<1> QED
  BY <1>1, <1>2 DEF Rest, t

-----------------------------------------------------------------------------
(***************************************************************************)
(* The inductive invariant: who is not active owes no time, and the time   *)
(* an active replica has spent without the lease, with the most that may   *)
(* still pass before it stops, does not exceed OverlapBound.               *)
(***************************************************************************)

Quiet == \A r \in Replicas : ~Active(r) => overlap[r] = 0

\* The longest r can go on if no renewal succeeds.
Remaining(r) ==
  IF state[r] = "leading" THEN due[r] + Rest(errors[r]) + MaxLatency + MaxDrain
  ELSE IF state[r] = "releasing" THEN due[r] + MaxDrain
  ELSE timer[r]

Covered(r) == Active(r) => overlap[r] + Remaining(r) <= OverlapBound

IInv == TypeOK /\ Quiet /\ \A r \in Replicas : Covered(r)

-----------------------------------------------------------------------------
(***************************************************************************)
(* Type correctness.                                                       *)
(***************************************************************************)

LEMMA TypeOKInit == Init => TypeOK
<1>1. 0 \in 0..(ErrorThreshold - 1) /\ 0 \in 0..RenewalCycle
  BY Threshold, CycleType
<1> QED
  BY <1>1, LeaseAssumption DEF Init, TypeOK, States

\* The lease stays a lease.
LEMMA HeldType ==
  ASSUME TypeOK, NEW r \in Replicas
  PROVE  /\ Held(r) \in [holder : Replicas \cup {NoHolder}, left : 0..LeaseTTL]
         /\ AfterError(r) \subseteq [holder : Replicas \cup {NoHolder}, left : 0..LeaseTTL]
BY LeaseAssumption DEF TypeOK, Held, AfterError

LEMMA SteppedDownType ==
  ASSUME NEW l \in [holder : Replicas \cup {NoHolder}, left : 0..LeaseTTL],
         NEW r \in Replicas
  PROVE  SteppedDown(l, r) \in [holder : Replicas \cup {NoHolder}, left : 0..LeaseTTL]
BY LeaseAssumption DEF SteppedDown

LEMMA BudgetErrors ==
  ASSUME TypeOK, NEW n \in Nat, Fails(n)
  PROVE  budget' \in [errors : 0..MaxErrors, stops : 0..MaxStops]
BY LeaseAssumption DEF TypeOK, Fails

LEMMA BudgetStops ==
  ASSUME TypeOK, budget.stops > 0, budget' = [budget EXCEPT !.stops = @ - 1]
  PROVE  budget' \in [errors : 0..MaxErrors, stops : 0..MaxStops]
BY LeaseAssumption DEF TypeOK

LEMMA NextRenewalType ==
  ASSUME TypeOK, NEW r \in Replicas, NextRenewal(r)
  PROVE  due' \in [Replicas -> 0..RenewalCycle]
<1>1. PICK latency \in 0..MaxLatency : due' = [due EXCEPT ![r] = RenewInterval + latency]
  BY DEF NextRenewal
<1>2. RenewInterval + latency \in 0..RenewalCycle
  BY LeaseAssumption DEF RenewalCycle
<1> QED
  BY <1>1, <1>2 DEF TypeOK

LEMMA CallType ==
  ASSUME TypeOK, NEW r \in Replicas, CallStepDown(r)
  PROVE  state' \in [Replicas -> States] /\ due' \in [Replicas -> 0..RenewalCycle]
<1>1. PICK latency \in 0..MaxLatency : due' = [due EXCEPT ![r] = latency]
  BY DEF CallStepDown
<1>2. latency \in 0..RenewalCycle
  BY LeaseAssumption DEF RenewalCycle
<1>3. due' \in [Replicas -> 0..RenewalCycle]
  BY <1>1, <1>2 DEF TypeOK
<1>4. state' \in [Replicas -> States]
  BY DEF CallStepDown, Become, TypeOK, States
<1> QED
  BY <1>3, <1>4

LEMMA TypeOKStep == TypeOK /\ [Next]_vars => TypeOK'
<1> SUFFICES ASSUME TypeOK, [Next]_vars PROVE TypeOK'
  OBVIOUS
<1> USE LeaseAssumption
<1>1. ASSUME NEW r \in Replicas, Acquire(r) PROVE TypeOK'
  BY <1>1, HeldType DEF Acquire, TypeOK, Become, States
<1>2. ASSUME NEW r \in Replicas, AcquireFails(r) PROVE TypeOK'
  BY <1>2, HeldType, BudgetErrors DEF AcquireFails, TypeOK
<1>3. ASSUME NEW r \in Replicas, InitDone(r) PROVE TypeOK'
  <2>1. 0 \in 0..(ErrorThreshold - 1)
    BY Threshold
  <2> QED
    BY <1>3, <2>1, NextRenewalType DEF InitDone, TypeOK, Become, States
<1>4. ASSUME NEW r \in Replicas, InitFails(r) PROVE TypeOK'
  BY <1>4, BudgetStops DEF InitFails, TypeOK, Become, States
<1>5. ASSUME NEW r \in Replicas, Renew(r) PROVE TypeOK'
  <2>1. 0 \in 0..(ErrorThreshold - 1)
    BY Threshold
  <2> QED
    BY <1>5, <2>1, NextRenewalType, HeldType DEF Renew, TypeOK
<1>6. ASSUME NEW r \in Replicas, RenewFails(r) PROVE TypeOK'
  <2>1. Counted(r) \in 0..(ErrorThreshold - 1)
    BY <1>6, Threshold DEF RenewFails, GivesUp, Counted, TypeOK
  <2> QED
    BY <1>6, <2>1, NextRenewalType, HeldType, BudgetErrors DEF RenewFails, TypeOK
<1>7. ASSUME NEW r \in Replicas, LeaseLost(r) PROVE TypeOK'
  BY <1>7, CallType DEF LeaseLost, TypeOK
<1>8. ASSUME NEW r \in Replicas, GiveUp(r) PROVE TypeOK'
  BY <1>8, HeldType, BudgetErrors, CallType DEF GiveUp, TypeOK
<1>15. ASSUME NEW r \in Replicas, StepDown(r) PROVE TypeOK'
  BY <1>15, SteppedDownType DEF StepDown, TypeOK
<1>16. ASSUME NEW r \in Replicas, Depose(r) PROVE TypeOK'
  <2>1. budget' \in [errors : 0..MaxErrors, stops : 0..MaxStops]
    BY <1>16, BudgetErrors DEF Depose, TypeOK
  <2>2. state' \in [Replicas -> States] /\ timer' \in [Replicas -> Nat]
    BY <1>16 DEF Depose, Become, TypeOK, States
  <2> QED
    BY <1>16, <2>1, <2>2 DEF Depose, TypeOK
<1>9. ASSUME NEW r \in Replicas, Exit(r) PROVE TypeOK'
  <2>1. /\ lease' \in [holder : Replicas \cup {NoHolder}, left : 0..LeaseTTL]
        /\ budget' \in [errors : 0..MaxErrors, stops : 0..MaxStops]
    BY <1>9, SteppedDownType, BudgetErrors DEF Exit, TypeOK
  <2> QED
    BY <1>9, <2>1 DEF Exit, TypeOK, Become, States
<1>10. ASSUME NEW r \in Replicas, Restart(r) PROVE TypeOK'
  BY <1>10 DEF Restart, TypeOK, Become, States
<1>11. ASSUME NEW r \in Replicas, Terminate(r) PROVE TypeOK'
  BY <1>11, BudgetStops DEF Terminate, TypeOK, Become, States
<1>12. ASSUME NEW r \in Replicas, Kill(r) PROVE TypeOK'
  BY <1>12, BudgetStops DEF Kill, TypeOK, Become, States
<1>13. CASE Tick
  <2>1. lease' \in [holder : Replicas \cup {NoHolder}, left : 0..LeaseTTL]
    BY <1>13 DEF Tick, TypeOK
  <2>2. due' \in [Replicas -> 0..RenewalCycle]
    BY <1>13, CycleType DEF Tick, TypeOK, Waiting
  <2>3. timer' \in [Replicas -> Nat]
    BY <1>13 DEF Tick, TypeOK, Timed
  <2>4. overlap' \in [Replicas -> Nat]
    BY <1>13, BoundType DEF Tick, TypeOK
  <2> QED
    BY <1>13, <2>1, <2>2, <2>3, <2>4 DEF Tick, TypeOK
<1>14. CASE UNCHANGED vars
  BY <1>14 DEF vars, TypeOK
<1> QED
  BY <1>1, <1>2, <1>3, <1>4, <1>5, <1>6, <1>7, <1>8, <1>9, <1>10, <1>11, <1>12,
     <1>13, <1>14, <1>15, <1>16 DEF Next, ReplicaStep

\* A replica's timers and counters stay in range however acquire, keep_renewing
\* and main() interleave; consecutive_errors stays below error_threshold.
THEOREM TypeCorrect == Spec => []TypeOK
BY TypeOKInit, TypeOKStep, PTL DEF Spec

-----------------------------------------------------------------------------
(***************************************************************************)
(* The time without the lease.                                             *)
(***************************************************************************)

\* Numbers of which the steps speak.
LEMMA Ranges ==
  ASSUME TypeOK, NEW r \in Replicas
  PROVE  /\ overlap[r] \in Nat /\ timer[r] \in Nat /\ due[r] \in Nat
         /\ due[r] <= RenewalCycle
         /\ errors[r] \in 0..(ErrorThreshold - 1)
         /\ Rest(errors[r]) \in Nat
         /\ Remaining(r) \in Nat
<1>1. Rest(errors[r]) \in Nat
  BY RestType DEF TypeOK
<1> QED
  BY <1>1, CycleType, LeaseAssumption DEF TypeOK, Remaining

\* A replica whose state, timers and counters a step leaves alone.
LEMMA Bystander ==
  ASSUME NEW r \in Replicas, Covered(r), ~Active(r) => overlap[r] = 0,
         state'[r] = state[r], timer'[r] = timer[r], due'[r] = due[r],
         errors'[r] = errors[r], overlap'[r] = overlap[r]
  PROVE  Covered(r)' /\ (~Active(r)' => overlap'[r] = 0)
BY DEF Covered, Active, Remaining, Rest

\* Whoever starts, or renews, with no error counted may go on for OverlapBound.
LEMMA FreshTerm ==
  ASSUME NEW d \in Nat, d <= RenewalCycle
  PROVE  d + Rest(0) + MaxLatency + MaxDrain <= OverlapBound
<1>1. Rest(0) \in Nat
  BY RestType, Threshold
<1> QED
  BY <1>1, BoundType, CycleType, LeaseAssumption

\* Calling step_down leaves no more time than going on did.
LEMMA CallCovered ==
  ASSUME TypeOK, NEW r \in Replicas, Covered(r), state[r] \in Renewing, CallStepDown(r),
         timer' = timer, overlap' = overlap
  PROVE  Covered(r)' /\ Active(r)'
<1>1. state'[r] = IF state[r] = "leading" THEN "releasing" ELSE "yielding"
  BY DEF CallStepDown, Become, TypeOK
<1>2. CASE state[r] = "stopping"
  BY <1>1, <1>2 DEF Covered, Active, Remaining, Renewing, Releasing
<1>3. CASE state[r] = "leading"
  <2>1. due'[r] \in 0..MaxLatency
    BY DEF CallStepDown, TypeOK
  <2>2. overlap[r] + Remaining(r) <= OverlapBound
    BY <1>3 DEF Covered, Active, Renewing
  <2>3. overlap[r] + (due'[r] + MaxDrain) <= OverlapBound
    BY <1>3, <2>1, <2>2, Ranges, BoundType, LeaseAssumption DEF Remaining
  <2> QED
    BY <1>1, <1>3, <2>3 DEF Covered, Active, Remaining, Releasing
<1> QED
  BY <1>2, <1>3 DEF Renewing

\* Nor does beginning to drain.
LEMMA DrainCovered ==
  ASSUME TypeOK, TypeOK', NEW r \in Replicas, Covered(r), overlap' = overlap,
         state[r] \in {"leading", "releasing"}, timer'[r] \in 0..MaxDrain,
         state'[r] \in {"stopping", "yielding", "deposed"}
  PROVE  Covered(r)' /\ Active(r)'
<1>1. overlap[r] + Remaining(r) <= OverlapBound
  BY DEF Covered, Active, Renewing, Releasing
<1>2. MaxDrain <= Remaining(r)
  <2>1. CASE state[r] = "leading"
    BY <2>1, Ranges, LeaseAssumption DEF Remaining
  <2>2. CASE state[r] = "releasing"
    BY <2>2, Ranges, LeaseAssumption DEF Remaining
  <2> QED
    BY <2>1, <2>2
<1>3. overlap[r] + timer'[r] <= OverlapBound
  BY <1>1, <1>2, Ranges, BoundType, LeaseAssumption
<1>4. Remaining(r)' = timer'[r]
  BY DEF Remaining
<1> QED
  BY <1>3, <1>4 DEF Covered, Active, Renewing, Releasing

LEMMA IInvStep == IInv /\ [Next]_vars => IInv'
<1> SUFFICES ASSUME IInv, [Next]_vars
             PROVE  \A q \in Replicas : Covered(q)' /\ (~Active(q)' => overlap'[q] = 0)
  BY TypeOKStep DEF IInv, Quiet
<1>t. TypeOK /\ TypeOK'
  BY TypeOKStep DEF IInv
<1>0. ASSUME NEW q \in Replicas
      PROVE  Covered(q) /\ (~Active(q) => overlap[q] = 0)
  BY DEF IInv, Quiet
<1> DEFINE Kept(q) == Covered(q)' /\ (~Active(q)' => overlap'[q] = 0)
<1>1. ASSUME NEW r \in Replicas, NEW q \in Replicas, q # r,
             ReplicaStep(r) \/ Terminate(r) \/ Kill(r)
      PROVE  Kept(q)
  <2>1. /\ state'[q] = state[q] /\ timer'[q] = timer[q] /\ due'[q] = due[q]
        /\ errors'[q] = errors[q] /\ overlap'[q] = overlap[q]
    BY <1>1, <1>t DEF TypeOK, ReplicaStep, Acquire, AcquireFails, InitDone, InitFails, Renew,
       RenewFails, LeaseLost, GiveUp, StepDown, Depose, Exit, Restart, Terminate, Kill,
       NextRenewal, CallStepDown, Become
  <2> QED
    BY <1>0, <2>1, Bystander
<1>2. ASSUME NEW r \in Replicas, Acquire(r) PROVE Kept(r)
  BY <1>2, <1>0, <1>t DEF Acquire, Become, TypeOK, Covered, Active, Renewing, Releasing
<1>3. ASSUME NEW r \in Replicas, AcquireFails(r) PROVE Kept(r)
  BY <1>3, <1>0, Bystander DEF AcquireFails
<1>4. ASSUME NEW r \in Replicas, InitDone(r) PROVE Kept(r)
  <2>1. state'[r] = "leading" /\ errors'[r] = 0 /\ overlap'[r] = 0
    BY <1>4, <1>0, <1>t DEF InitDone, Become, TypeOK, Active, Renewing, Releasing
  <2>2. due'[r] \in Nat /\ due'[r] <= RenewalCycle
    BY <1>t, CycleType DEF TypeOK
  <2>3. due'[r] + Rest(0) + MaxLatency + MaxDrain \in Nat
    BY <2>2, RestType, Threshold, LeaseAssumption
  <2> QED
    BY <2>1, <2>2, <2>3, FreshTerm DEF Covered, Active, Remaining, Rest, Renewing
<1>5. ASSUME NEW r \in Replicas, InitFails(r) PROVE Kept(r)
  BY <1>5, <1>0, <1>t DEF InitFails, Become, TypeOK, Covered, Active, Renewing, Releasing
<1>6. ASSUME NEW r \in Replicas, Renew(r) PROVE Kept(r)
  <2>1. /\ state'[r] = state[r] /\ timer'[r] = timer[r] /\ errors'[r] = 0 /\ overlap'[r] = 0
        /\ state[r] \in Renewing
    BY <1>6, <1>t DEF Renew, TypeOK
  <2>2. due'[r] \in Nat /\ due'[r] <= RenewalCycle
    BY <1>t, CycleType DEF TypeOK
  <2>3. CASE state[r] = "leading"
    <3>1. due'[r] + Rest(0) + MaxLatency + MaxDrain \in Nat
      BY <2>2, RestType, Threshold, LeaseAssumption
    <3> QED
      BY <2>1, <2>2, <2>3, <3>1, FreshTerm DEF Covered, Active, Remaining, Rest, Renewing
  <2>4. CASE state[r] = "stopping"
    <3>1. overlap[r] + timer[r] <= OverlapBound
      BY <2>4, <1>0 DEF Covered, Active, Remaining, Renewing
    <3>2. 0 + timer[r] <= OverlapBound
      BY <3>1, <1>t, Ranges, BoundType
    <3> QED
      BY <2>1, <2>4, <3>2 DEF Covered, Active, Remaining, Renewing
  <2> QED
    BY <2>1, <2>3, <2>4 DEF Renewing
<1>7. ASSUME NEW r \in Replicas, RenewFails(r) PROVE Kept(r)
  <2>1. /\ state'[r] = state[r] /\ timer'[r] = timer[r] /\ overlap'[r] = overlap[r]
        /\ errors'[r] = errors[r] + 1 /\ due[r] = 0 /\ state[r] \in Renewing
    BY <1>7, <1>t DEF RenewFails, Counted, TypeOK
  <2>2. due'[r] \in Nat /\ due'[r] <= RenewalCycle
    BY <1>t, CycleType DEF TypeOK
  <2>3. CASE state[r] = "stopping"
    BY <1>0, <2>1, <2>3 DEF Covered, Active, Remaining, Renewing
  <2>4. CASE state[r] = "leading"
    <3>1. errors[r] \in Nat /\ errors[r] + 1 <= ErrorThreshold - 1
      BY <1>7, <1>t, Ranges, Threshold DEF RenewFails, GivesUp, Counted
    <3>2. Rest(errors[r]) = Rest(errors[r] + 1) + RenewalCycle
      BY <3>1, RestStep
    <3>3. Rest(errors[r] + 1) \in Nat
      BY <3>1, RestType
    <3>4. overlap[r] + Rest(errors[r]) + MaxLatency + MaxDrain <= OverlapBound
      BY <1>0, <1>t, <2>1, <2>4, Ranges, LeaseAssumption
      DEF Covered, Active, Remaining, Renewing
    <3>5. overlap[r] + (due'[r] + Rest(errors[r] + 1) + MaxLatency + MaxDrain) <= OverlapBound
      BY <1>t, <2>2, <3>2, <3>3, <3>4, Ranges, BoundType, CycleType, LeaseAssumption
    <3> QED
      BY <2>1, <2>4, <3>5 DEF Covered, Active, Remaining, Rest, Renewing
  <2> QED
    BY <2>1, <2>3, <2>4 DEF Renewing
<1>8. ASSUME NEW r \in Replicas, LeaseLost(r) \/ GiveUp(r) PROVE Kept(r)
  <2>1. state[r] \in Renewing /\ CallStepDown(r) /\ timer' = timer /\ overlap' = overlap
    BY <1>8 DEF LeaseLost, GiveUp
  <2> QED
    BY <1>0, <1>t, <2>1, CallCovered
<1>15. ASSUME NEW r \in Replicas, StepDown(r) PROVE Kept(r)
  BY <1>15, <1>0, Bystander DEF StepDown
<1>16. ASSUME NEW r \in Replicas, Depose(r) PROVE Kept(r)
  <2>1. state'[r] = "deposed" /\ overlap' = overlap
    BY <1>16, <1>t DEF Depose, Become, TypeOK
  <2>2. CASE state[r] = "yielding"
    <3>1. timer' = timer
      BY <1>16, <2>2 DEF Depose
    <3> QED
      BY <2>1, <2>2, <3>1, <1>0 DEF Covered, Active, Remaining, Releasing
  <2>3. CASE state[r] = "releasing"
    <3>1. timer'[r] \in 0..MaxDrain
      BY <1>16, <2>3, <1>t DEF Depose, TypeOK
    <3> QED
      BY <2>1, <2>3, <3>1, <1>0, <1>t, DrainCovered
  <2> QED
    BY <1>16, <2>2, <2>3 DEF Depose, Releasing
<1>9. ASSUME NEW r \in Replicas, Terminate(r) PROVE Kept(r)
  <2>1. /\ timer'[r] \in 0..MaxDrain /\ overlap' = overlap
        /\ state[r] \in {"leading", "releasing"} /\ state'[r] \in {"stopping", "yielding"}
    BY <1>9, <1>t DEF TypeOK, Terminate, Become
  <2> QED
    BY <2>1, <1>0, <1>t, DrainCovered
<1>10. ASSUME NEW r \in Replicas, Exit(r) \/ Kill(r) PROVE Kept(r)
  BY <1>10, <1>t DEF Exit, Kill, Become, TypeOK, Covered, Active, Renewing, Releasing
<1>11. ASSUME NEW r \in Replicas, Restart(r) PROVE Kept(r)
  BY <1>11, <1>0, <1>t DEF Restart, Become, TypeOK, Covered, Active, Renewing, Releasing
<1>12. ASSUME Tick, NEW q \in Replicas PROVE Kept(q)
  <2>1. state'[q] = state[q] /\ errors'[q] = errors[q]
    BY <1>12 DEF Tick
  <2>2. CASE ~Active(q)
    BY <1>12, <2>1, <2>2 DEF Tick, Covered, Active
  <2>3. CASE Active(q)
    <3>1. overlap[q] + Remaining(q) <= OverlapBound
      BY <2>3, <1>0 DEF Covered
    <3>2. overlap'[q] \in Nat /\ overlap'[q] <= overlap[q] + 1
      BY <1>12, <1>t, Ranges DEF Tick, TypeOK
    <3>3. Remaining(q)' = Remaining(q) - 1
      <4>1. CASE state[q] = "leading"
        <5>1. due'[q] = due[q] - 1 /\ Rest(errors[q])' = Rest(errors[q])
          BY <1>12, <2>1, <4>1, <1>t DEF Tick, Waiting, Renewing, TypeOK, Rest
        <5> QED
          BY <2>1, <4>1, <5>1, <1>t, Ranges, LeaseAssumption DEF Remaining
      <4>3. CASE state[q] = "releasing"
        <5>1. due'[q] = due[q] - 1
          BY <1>12, <4>3, <1>t DEF Tick, Waiting, Releasing, TypeOK
        <5> QED
          BY <2>1, <4>3, <5>1, <1>t, Ranges, LeaseAssumption DEF Remaining
      <4>2. CASE state[q] \in {"stopping", "yielding", "deposed"}
        <5>1. timer[q] > 0
          BY <1>12, <4>2, <1>t, Ranges DEF Tick, Drained
        <5>2. timer'[q] = timer[q] - 1
          BY <1>12, <4>2, <5>1 DEF Tick, Timed
        <5> QED
          BY <2>1, <4>2, <5>2 DEF Remaining
      <4> QED
        BY <2>3, <4>1, <4>2, <4>3 DEF Active, Renewing, Releasing
    <3>4. overlap'[q] + Remaining(q)' <= OverlapBound
      BY <3>1, <3>2, <3>3, <1>t, Ranges, BoundType
    <3> QED
      BY <2>1, <2>3, <3>4 DEF Covered, Active
  <2> QED
    BY <2>2, <2>3
<1>13. ASSUME UNCHANGED vars, NEW q \in Replicas PROVE Kept(q)
  BY <1>13, <1>0, Bystander DEF vars
<1>14. ASSUME NEW r \in Replicas, ReplicaStep(r) \/ Terminate(r) \/ Kill(r), NEW q \in Replicas
       PROVE  Kept(q)
  <2>1. CASE q = r
    BY <1>14, <2>1, <1>2, <1>3, <1>4, <1>5, <1>6, <1>7, <1>8, <1>9, <1>10, <1>11,
       <1>15, <1>16 DEF ReplicaStep
  <2> QED
    BY <1>14, <2>1, <1>1
<1> QED
  BY <1>12, <1>13, <1>14 DEF Next

LEMMA IInvInit == Init => IInv
BY TypeOKInit DEF Init, IInv, Quiet, Covered, Active, Renewing, Releasing

LEMMA Invariant == Spec => []IInv
BY IInvInit, IInvStep, PTL DEF Spec

\* However renewals, errors, latencies and SIGTERM interleave, no replica runs
\* its controller for more than OverlapBound ticks without holding the lease.
THEOREM OverlapIsBounded == Spec => []OverlapBounded
<1>1. ASSUME IInv, NEW r \in Replicas PROVE overlap[r] <= OverlapBound
  <2>1. CASE Active(r)
    BY <1>1, <2>1, Ranges, BoundType DEF IInv, Covered
  <2>2. CASE ~Active(r)
    BY <1>1, <2>2, BoundType DEF IInv, Quiet
  <2> QED
    BY <2>1, <2>2
<1>2. IInv => OverlapBounded
  BY <1>1 DEF OverlapBounded
<1> QED
  BY <1>2, Invariant, PTL

-----------------------------------------------------------------------------
(***************************************************************************)
(* The refinement of Election.                                             *)
(***************************************************************************)

Roles == [r \in Replicas |-> Role(state[r])]
Lefts == [r \in Replicas |-> OverlapBound - overlap[r]]

\* Restarting the count of a replica resets what it may still spend.
LEMMA ResetLeft ==
  ASSUME TypeOK, NEW r \in Replicas, overlap' = [overlap EXCEPT ![r] = 0]
  PROVE  E!Reset(r)
<1>1. OverlapBound - 0 = OverlapBound
  BY BoundType
<1>2. \A q \in Replicas : overlap'[q] = IF q = r THEN 0 ELSE overlap[q]
  BY DEF TypeOK
<1> DEFINE Left(q) == IF q = r THEN OverlapBound ELSE OverlapBound - overlap[q]
<1>3. \A q \in Replicas : OverlapBound - overlap'[q] = Left(q)
  BY <1>1, <1>2
<1>4. Lefts' = [q \in Replicas |-> Left(q)]
  BY <1>3 DEF Lefts
<1>5. [Lefts EXCEPT ![r] = OverlapBound] = [q \in Replicas |-> Left(q)]
  BY DEF Lefts
<1> QED
  BY <1>4, <1>5 DEF E!Reset, Lefts

LEMMA BecomePlays ==
  ASSUME TypeOK, NEW r \in Replicas, NEW s \in States, Become(r, s)
  PROVE  E!Play(r, Role(s))
BY DEF Become, E!Play, TypeOK

\* A replica that is not active has its count at zero anyway.
LEMMA ResetIdle ==
  ASSUME TypeOK, Quiet, NEW r \in Replicas, ~Active(r), overlap' = overlap
  PROVE  overlap' = [overlap EXCEPT ![r] = 0]
BY DEF TypeOK, Quiet

LEMMA HeldHolder ==
  ASSUME NEW r \in Replicas
  PROVE  /\ Held(r).holder = r
         /\ \A l \in AfterError(r) : l.holder \in {lease.holder, r}
         /\ \A l : SteppedDown(l, r).holder \in {l.holder} \cup {h \in {NoHolder} : l.holder = r}
BY DEF Held, AfterError, SteppedDown

LEMMA ActiveAlike ==
  ASSUME TypeOK, NEW r \in Replicas
  PROVE  E!Active(r) <=> Active(r)
BY DEF E!Active, Active, Renewing, Releasing, Role, TypeOK, States

\* Leaving the loop of keep_renewing changes no role.
LEMMA CallKeepsRoles ==
  ASSUME TypeOK, NEW r \in Replicas, state[r] \in Renewing, CallStepDown(r)
  PROVE  Roles' = Roles
BY DEF CallStepDown, Become, TypeOK, Renewing, Roles, Role

LEMMA ElectionStep == IInv /\ IInv' /\ [Next]_vars => [E!Next]_E!vars
<1> SUFFICES ASSUME IInv, IInv', [Next]_vars PROVE E!Next \/ UNCHANGED E!vars
  OBVIOUS
<1>t. TypeOK /\ Quiet
  BY DEF IInv
<1>1. ASSUME NEW r \in Replicas, Acquire(r) PROVE E!Win(r)
  <2>1. E!Play(r, "won")
    BY <1>1, <1>t, BecomePlays DEF Acquire, States, Role
  <2> QED
    BY <1>1, <2>1, HeldHolder DEF Acquire, E!Win, Role
<1>2. ASSUME NEW r \in Replicas, AcquireFails(r) \/ RenewFails(r) PROVE E!Unanswered(r)
  BY <1>2, HeldHolder DEF AcquireFails, RenewFails, E!Unanswered
<1>3. ASSUME NEW r \in Replicas, InitDone(r) PROVE E!Start(r)
  <2>1. E!Play(r, "running")
    BY <1>3, <1>t, BecomePlays DEF InitDone, States, Role
  <2>2. E!Reset(r)
    BY <1>3, <1>t, ResetIdle, ResetLeft DEF InitDone, Active, Renewing, Releasing
  <2> QED
    BY <1>3, <2>1, <2>2 DEF InitDone, E!Start, Role
<1>4. ASSUME NEW r \in Replicas, InitFails(r) PROVE E!Stop(r)
  <2>1. E!Play(r, "out")
    BY <1>4, <1>t, BecomePlays DEF InitFails, States, Role
  <2>2. E!Reset(r)
    BY <1>4, <1>t, ResetIdle, ResetLeft DEF InitFails, Active, Renewing, Releasing
  <2> QED
    BY <1>4, <2>1, <2>2 DEF InitFails, E!Stop, Role
<1>5. ASSUME NEW r \in Replicas, Renew(r) PROVE E!Renew(r)
  <2>1. E!Active(r)
    BY <1>5, <1>t, ActiveAlike DEF Renew, Active, Renewing
  <2>2. E!Reset(r)
    BY <1>5, <1>t, ResetLeft DEF Renew
  <2> QED
    BY <1>5, <2>1, <2>2, HeldHolder DEF Renew, E!Renew
<1>6. ASSUME NEW r \in Replicas, LeaseLost(r) \/ GiveUp(r) PROVE E!Unanswered(r)
  <2>1. lease'.holder \in {lease.holder, r} /\ overlap' = overlap
    BY <1>6, HeldHolder DEF LeaseLost, GiveUp
  <2>2. Roles' = Roles
    BY <1>6, <1>t, CallKeepsRoles DEF LeaseLost, GiveUp
  <2> QED
    BY <2>1, <2>2 DEF E!Unanswered, Roles
<1>13. ASSUME NEW r \in Replicas, StepDown(r) PROVE E!Release(r)
  <2>1. E!Active(r)
    BY <1>13, <1>t, ActiveAlike DEF StepDown, Active
  <2> QED
    BY <1>13, <2>1 DEF StepDown, SteppedDown, E!Release
<1>14. ASSUME NEW r \in Replicas, Depose(r) PROVE E!Drain(r) \/ UNCHANGED E!vars
  <2>1. CASE state[r] = "releasing"
    <3>1. E!Play(r, "draining")
      BY <1>14, <1>t, BecomePlays DEF Depose, States, Role
    <3> QED
      BY <1>14, <2>1, <3>1 DEF Depose, E!Drain, Role
  <2>2. CASE state[r] = "yielding"
    <3>1. Roles' = Roles
      BY <1>14, <1>t, <2>2 DEF Depose, Become, TypeOK, Roles, Role
    <3> QED
      BY <1>14, <3>1 DEF Depose, E!vars, Roles
  <2> QED
    BY <1>14, <2>1, <2>2 DEF Depose, Releasing
<1>7. ASSUME NEW r \in Replicas, Terminate(r) PROVE E!Drain(r)
  <2>1. E!Play(r, "draining")
    BY <1>7, <1>t, BecomePlays DEF Terminate, States, Role
  <2> QED
    BY <1>7, <2>1 DEF Terminate, E!Drain, Role
<1>8. ASSUME NEW r \in Replicas, Exit(r) PROVE E!Stop(r)
  <2>1. E!Play(r, "out") /\ E!Reset(r)
    BY <1>8, <1>t, BecomePlays, ResetLeft DEF Exit, States, Role
  <2>2. lease'.holder \in {lease.holder} \cup {h \in {NoHolder} : lease.holder = r}
    BY <1>8, HeldHolder DEF Exit
  <2> QED
    BY <1>8, <2>1, <2>2 DEF Exit, Drained, E!Stop, Role
<1>9. ASSUME NEW r \in Replicas, Kill(r) PROVE E!Next \/ UNCHANGED E!vars
  <2>1. E!Play(r, "out") /\ E!Reset(r)
    BY <1>9, <1>t, BecomePlays, ResetLeft DEF Kill, States, Role
  <2>2. CASE state[r] = "standby"
    <3>1. Roles' = Roles /\ overlap' = overlap
      BY <1>9, <1>t, <2>2
      DEF Kill, Become, TypeOK, Quiet, Active, Renewing, Releasing, Roles, Role
    <3> QED
      BY <1>9, <3>1 DEF Kill, E!vars, Roles
  <2>3. CASE state[r] # "standby"
    <3>1. Role(state[r]) # "out"
      BY <1>9, <1>t, <2>3 DEF Kill, Role, TypeOK, States
    <3>2. E!Stop(r)
      BY <1>9, <2>1, <3>1 DEF Kill, E!Stop
    <3> QED
      BY <3>2 DEF E!Next
  <2> QED
    BY <2>2, <2>3
<1>10. ASSUME NEW r \in Replicas, Restart(r) PROVE UNCHANGED E!vars
  <2>1. Roles' = Roles
    BY <1>10, <1>t DEF Restart, Become, TypeOK, Roles, Role
  <2> QED
    BY <1>10, <2>1 DEF Restart, E!vars, Roles
<1>11. ASSUME Tick PROVE E!Tick
  <2>1. \A r \in Replicas : overlap[r] <= OverlapBound /\ overlap[r] \in Nat
    <3> SUFFICES ASSUME NEW r \in Replicas PROVE overlap[r] <= OverlapBound
      BY <1>t, Ranges
    <3> QED
      BY <1>t, Ranges, BoundType DEF IInv, Quiet, Covered
  <2>2. ASSUME NEW r \in Replicas, Active(r), lease.holder # r
        PROVE  overlap[r] < OverlapBound
    <3>1. Remaining(r) > 0
      <4>1. CASE state[r] = "leading"
        BY <1>11, <1>t, <4>1, Ranges, LeaseAssumption DEF Tick, Waiting, Renewing, Remaining
      <4>3. CASE state[r] = "releasing"
        BY <1>11, <1>t, <4>3, Ranges, LeaseAssumption DEF Tick, Waiting, Releasing, Remaining
      <4>2. CASE state[r] \in {"stopping", "yielding", "deposed"}
        BY <1>11, <1>t, <4>2, Ranges DEF Tick, Drained, Remaining
      <4> QED
        BY <2>2, <4>1, <4>2, <4>3 DEF Active, Renewing, Releasing
    <3>2. overlap[r] + Remaining(r) <= OverlapBound
      BY <2>2 DEF IInv, Covered
    <3> QED
      BY <1>t, <3>1, <3>2, Ranges, BoundType
  <2>3. \A r \in Replicas : E!Active(r) /\ lease.holder # r => Lefts[r] > 0
    BY <1>t, <2>1, <2>2, ActiveAlike, BoundType DEF Lefts
  <2>4. Lefts' = [r \in Replicas |->
          IF E!Active(r) /\ lease.holder # r THEN Lefts[r] - 1 ELSE OverlapBound]
    <3> SUFFICES ASSUME NEW r \in Replicas
                 PROVE  OverlapBound - overlap'[r]
                          = IF E!Active(r) /\ lease.holder # r THEN Lefts[r] - 1
                            ELSE OverlapBound
      BY DEF Lefts
    <3>1. CASE Active(r) /\ lease.holder # r
      <4>1. overlap'[r] = overlap[r] + 1
        BY <1>11, <2>1, <3>1, BoundType DEF Tick
      <4> QED
        BY <1>t, <2>1, <3>1, <4>1, ActiveAlike, BoundType DEF Lefts
    <3>2. CASE ~(Active(r) /\ lease.holder # r)
      <4>1. overlap'[r] = 0
        BY <1>11, <3>2 DEF Tick
      <4> QED
        BY <1>t, <3>2, <4>1, ActiveAlike, BoundType
    <3> QED
      BY <3>1, <3>2
  <2>5. lease'.holder = lease.holder /\ Roles' = Roles
    BY <1>11, <1>t DEF Tick, TypeOK, Roles
  <2> QED
    BY <2>3, <2>4, <2>5 DEF E!Tick, Roles, Lefts
<1>12. CASE UNCHANGED vars
  BY <1>12 DEF vars, E!vars
<1> QED
  BY <1>1, <1>2, <1>3, <1>4, <1>5, <1>6, <1>7, <1>8, <1>9, <1>10, <1>11, <1>12,
     <1>13, <1>14 DEF Next, ReplicaStep, E!Next

\* acquire, keep_renewing and main() keep the promise of Election, whatever the
\* number of replicas and the timing constants: the module that composes the
\* election with the reconciler may rely on it.
THEOREM ElectionImplemented == Spec => ImplementsElection
<1>1. Init => E!Init
  BY BoundType DEF Init, E!Init, Role
<1> QED
  BY <1>1, ElectionStep, Invariant, PTL DEF Spec, ImplementsElection, E!Spec

-----------------------------------------------------------------------------
(***************************************************************************)
(* One leader at a time, where the timing permits it.                      *)
(***************************************************************************)

\* A lease outlives the initialisation and every renewal that the errors to
\* come can delay, and they are too few for a replica to give up.
Calm ==
  /\ MaxErrors < ErrorThreshold
  /\ MaxInit + (MaxErrors + 1) * RenewalCycle < LeaseTTL

\* The delay that the errors still to come can cause.
Delay(b) == b.errors * RenewalCycle

\* The lease is with r, and expires only after its next successful renewal.
Secured(r) ==
  /\ state[r] = "init" =>
       lease.holder = r /\ lease.left > timer[r] + RenewalCycle + Delay(budget)
  /\ state[r] \in Renewing =>
       /\ lease.holder = r /\ lease.left > due[r] + Delay(budget)
       /\ errors[r] + budget.errors <= MaxErrors
  /\ state[r] \notin Releasing \cup {"deposed"}

Budgets == [errors : 0..MaxErrors, stops : 0..MaxStops]

LEMMA DelayType ==
  ASSUME NEW b \in Budgets
  PROVE  /\ Delay(b) \in Nat /\ b.errors \in Nat /\ b.errors <= MaxErrors
         /\ Calm => LeaseTTL > MaxInit + RenewalCycle + Delay(b)
<1>1. b.errors \in Nat /\ MaxErrors \in Nat /\ b.errors <= MaxErrors
  BY LeaseAssumption DEF Budgets
<1>2. PICK d \in Nat : MaxErrors = b.errors + d
  <2>1. MaxErrors - b.errors \in Nat /\ MaxErrors = b.errors + (MaxErrors - b.errors)
    BY <1>1
  <2> QED
    BY <2>1
<1>3. \A x, y, z \in Nat : (x + y) * z = x * z + y * z
  BY SMT
<1>4. /\ MaxErrors * RenewalCycle = b.errors * RenewalCycle + d * RenewalCycle
      /\ b.errors * RenewalCycle \in Nat /\ d * RenewalCycle \in Nat
  BY <1>1, <1>2, <1>3, CycleType, ProductNat
<1>5. (MaxErrors + 1) * RenewalCycle = MaxErrors * RenewalCycle + RenewalCycle
  BY <1>1, CycleType, ProductStep
<1> QED
  BY <1>1, <1>4, <1>5, CycleType, LeaseAssumption DEF Delay, Calm

\* An error that is spent is one cycle less of delay to come.
LEMMA DelayStep ==
  ASSUME NEW b \in Budgets, NEW c \in Budgets, NEW n \in {1, 2},
         b.errors >= n, c.errors = b.errors - n
  PROVE  Delay(b) >= Delay(c) + RenewalCycle
<1> DEFINE e == c.errors
<1>1. e \in Nat /\ b.errors = e + n
  BY DEF Budgets
<1>2. /\ (e + 1) * RenewalCycle = e * RenewalCycle + RenewalCycle
      /\ ((e + 1) + 1) * RenewalCycle = (e + 1) * RenewalCycle + RenewalCycle
      /\ e * RenewalCycle \in Nat /\ (e + 1) * RenewalCycle \in Nat
  BY <1>1, CycleType, ProductStep, ProductNat
<1>3. (e + 1) + 1 = e + 2
  BY <1>1
<1> QED
  BY <1>1, <1>2, <1>3, CycleType DEF Delay

\* What a step of a replica may do to the errors that remain.
LEMMA BudgetStep ==
  ASSUME TypeOK, TypeOK', NEW r \in Replicas, ReplicaStep(r) \/ Terminate(r) \/ Kill(r)
  PROVE  budget'.errors <= budget.errors /\ Delay(budget') <= Delay(budget)
<1>1. budget \in Budgets /\ budget' \in Budgets
  BY DEF TypeOK, Budgets
<1>2. CASE \E n \in {1, 2} : Fails(n)
  <2>1. PICK n \in {1, 2} : Fails(n)
    BY <1>2
  <2>2. budget.errors >= n /\ budget'.errors = budget.errors - n
    BY <1>1, <2>1 DEF Fails, Budgets
  <2> QED
    BY <1>1, <2>2, DelayStep, DelayType, CycleType
<1>3. CASE budget'.errors = budget.errors
  BY <1>1, <1>3, DelayType DEF Delay
<1>4. (\E n \in {1, 2} : Fails(n)) \/ budget'.errors = budget.errors
  BY <1>1 DEF Budgets, ReplicaStep, Acquire, AcquireFails, InitDone, InitFails, Renew, RenewFails,
     LeaseLost, GiveUp, StepDown, Depose, Exit, Restart, Terminate, Kill
<1> QED
  BY <1>2, <1>3, <1>4

\* While the lease is secured for q, no other replica changes it.
LEMMA SecuredLease ==
  ASSUME TypeOK, NEW q \in Replicas, Secured(q), state[q] \in Renewing \cup {"init"},
         NEW r \in Replicas, r # q, ReplicaStep(r) \/ Terminate(r) \/ Kill(r)
  PROVE  lease' = lease
<1>1. budget \in Budgets
  BY DEF TypeOK, Budgets
<1>2. lease.holder = q /\ lease.left > 0
  BY <1>1, Ranges, DelayType, CycleType DEF Secured, Renewing, TypeOK
<1>3. ~MayTake(r) /\ AfterError(r) = {lease} /\ SteppedDown(lease, r) = lease
  BY <1>2 DEF MayTake, AfterError, SteppedDown
<1> QED
  BY <1>3 DEF ReplicaStep, Acquire, AcquireFails, InitDone, InitFails, Renew, RenewFails,
     LeaseLost, GiveUp, StepDown, Depose, Exit, Restart, Terminate, Kill

LEMMA SecuredStep ==
  ASSUME Calm, TypeOK, TypeOK', \A q \in Replicas : Secured(q), [Next]_vars
  PROVE  \A q \in Replicas : Secured(q)'
<1>b. budget \in Budgets /\ budget' \in Budgets
  BY DEF TypeOK, Budgets
<1>1. ASSUME NEW r \in Replicas, NEW q \in Replicas, q # r,
             ReplicaStep(r) \/ Terminate(r) \/ Kill(r)
      PROVE  Secured(q)'
  <2>1. /\ state'[q] = state[q] /\ timer'[q] = timer[q] /\ due'[q] = due[q]
        /\ errors'[q] = errors[q]
    BY <1>1 DEF TypeOK, ReplicaStep, Acquire, AcquireFails, InitDone, InitFails, Renew,
       RenewFails, LeaseLost, GiveUp, StepDown, Depose, Exit, Restart, Terminate, Kill,
       NextRenewal, CallStepDown, Become
  <2>2. budget'.errors <= budget.errors /\ Delay(budget') <= Delay(budget)
    BY <1>1, BudgetStep
  <2>3. CASE state[q] \in Renewing \cup {"init"}
    <3>1. lease' = lease
      BY <1>1, <2>3, SecuredLease
    <3> QED
      BY <1>b, <2>1, <2>2, <3>1, DelayType, CycleType, Ranges, LeaseAssumption
      DEF Secured, TypeOK, Delay
  <2>4. CASE state[q] \notin Renewing \cup {"init"}
    BY <2>1, <2>4 DEF Secured, Renewing, Releasing
  <2> QED
    BY <2>3, <2>4
<1>2. ASSUME NEW r \in Replicas, Acquire(r) PROVE Secured(r)'
  <2>1. /\ lease'.holder = r /\ lease'.left = LeaseTTL /\ state'[r] = "init"
        /\ timer'[r] \in 0..MaxInit /\ budget' = budget
    BY <1>2 DEF Acquire, Held, Become, TypeOK
  <2> QED
    BY <1>b, <2>1, DelayType, CycleType, LeaseAssumption DEF Secured, Renewing, Releasing, Delay
<1>3. ASSUME NEW r \in Replicas, InitDone(r) PROVE Secured(r)'
  <2>1. /\ lease' = lease /\ state[r] = "init" /\ timer[r] = 0 /\ state'[r] = "leading"
        /\ errors'[r] = 0 /\ budget' = budget /\ due'[r] \in 0..RenewalCycle
    BY <1>3 DEF InitDone, Become, TypeOK
  <2> QED
    BY <1>b, <2>1, DelayType, CycleType, LeaseAssumption
    DEF Secured, Renewing, Releasing, Delay, TypeOK
<1>4. ASSUME NEW r \in Replicas, Renew(r) PROVE Secured(r)'
  <2>1. /\ lease'.holder = r /\ lease'.left = LeaseTTL /\ state'[r] = state[r]
        /\ state[r] \in Renewing
        /\ errors'[r] = 0 /\ budget' = budget /\ due'[r] \in 0..RenewalCycle
    BY <1>4 DEF Renew, Held, TypeOK
  <2> QED
    BY <1>b, <2>1, DelayType, CycleType, LeaseAssumption DEF Secured, Renewing, Releasing, Delay
<1>5. ASSUME NEW r \in Replicas, RenewFails(r) PROVE Secured(r)'
  <2>1. /\ state'[r] = state[r] /\ state[r] \in Renewing /\ due[r] = 0
        /\ errors'[r] = errors[r] + 1 /\ due'[r] \in 0..RenewalCycle
        /\ budget.errors >= 1 /\ budget'.errors = budget.errors - 1
    BY <1>5, <1>b DEF RenewFails, Fails, Counted, TypeOK, Budgets
  <2>2. Delay(budget) >= Delay(budget') + RenewalCycle
    BY <1>b, <2>1, DelayStep
  <2>3. /\ lease.holder = r /\ lease.left > Delay(budget)
        /\ errors[r] + budget.errors <= MaxErrors
    BY <1>b, <2>1, DelayType DEF Secured
  <2>4. lease'.holder = r /\ lease'.left > Delay(budget') + RenewalCycle
    <3>1. lease' = lease \/ (lease'.holder = r /\ lease'.left = LeaseTTL)
      BY <1>5 DEF RenewFails, AfterError, Held
    <3>2. LeaseTTL > Delay(budget') + RenewalCycle
      BY <1>b, DelayType, CycleType, LeaseAssumption
    <3>3. lease.left > Delay(budget') + RenewalCycle
      BY <1>b, <2>2, <2>3, DelayType, CycleType DEF TypeOK
    <3> QED
      BY <2>3, <3>1, <3>2, <3>3
  <2>5. lease'.left > due'[r] + Delay(budget')
    BY <1>b, <2>1, <2>4, DelayType, CycleType DEF TypeOK
  <2>6. errors'[r] + budget'.errors <= MaxErrors
    BY <1>b, <2>1, <2>3, Ranges, Threshold, DelayType, LeaseAssumption
  <2> QED
    BY <2>1, <2>4, <2>5, <2>6 DEF Secured, Renewing, Releasing, Delay
<1>6. ASSUME NEW r \in Replicas, LeaseLost(r) PROVE FALSE
  BY <1>6 DEF LeaseLost, Secured, MayTake
<1>7. ASSUME NEW r \in Replicas, GiveUp(r) PROVE FALSE
  <2>1. budget.errors >= 1 /\ errors[r] + 1 >= ErrorThreshold /\ state[r] \in Renewing
    BY <1>7, <1>b DEF GiveUp, GivesUp, Counted, Fails, Budgets
  <2> QED
    BY <1>b, <2>1, Ranges, Threshold, DelayType, LeaseAssumption DEF Secured, Calm
<1>13. ASSUME NEW r \in Replicas, StepDown(r) \/ Depose(r) PROVE FALSE
  BY <1>13 DEF StepDown, Depose, Secured
<1>8. ASSUME NEW r \in Replicas,
             AcquireFails(r) \/ InitFails(r) \/ Exit(r) \/ Restart(r) \/ Kill(r)
      PROVE  Secured(r)'
  <2>1. state'[r] \in {"standby", "exited", "gone"}
    BY <1>8 DEF AcquireFails, InitFails, Exit, Restart, Kill, Become, TypeOK
  <2> QED
    BY <2>1 DEF Secured, Renewing, Releasing
<1>9. ASSUME NEW r \in Replicas, Terminate(r) PROVE Secured(r)'
  BY <1>9, <1>b DEF Terminate, Become, TypeOK, Secured, Renewing, Releasing, Delay, Budgets
<1>10. ASSUME Tick, NEW q \in Replicas PROVE Secured(q)'
  <2>1. /\ state'[q] = state[q] /\ errors'[q] = errors[q] /\ budget' = budget
        /\ lease'.holder = lease.holder
        /\ lease'.left = IF lease.left > 0 THEN lease.left - 1 ELSE 0
    BY <1>10 DEF Tick, TypeOK
  <2>2. CASE state[q] = "init"
    <3>1. timer'[q] = timer[q] - 1 /\ timer[q] > 0
      BY <1>10, <2>2, Ranges DEF Tick, Timed
    <3> QED
      BY <1>b, <2>1, <2>2, <3>1, Ranges, DelayType, CycleType
      DEF Secured, Renewing, Releasing, Delay, TypeOK
  <2>3. CASE state[q] \in Renewing
    <3>1. due'[q] = due[q] - 1 /\ due[q] > 0
      BY <1>10, <2>3, Ranges DEF Tick, Waiting
    <3> QED
      BY <1>b, <2>1, <2>3, <3>1, Ranges, DelayType, CycleType
      DEF Secured, Renewing, Releasing, Delay, TypeOK
  <2>4. CASE state[q] \notin Renewing \cup {"init"}
    BY <2>1, <2>4 DEF Secured, Renewing, Releasing
  <2> QED
    BY <2>2, <2>3, <2>4
<1>11. ASSUME UNCHANGED vars, NEW q \in Replicas PROVE Secured(q)'
  BY <1>11 DEF vars, Secured, Delay
<1>12. ASSUME NEW r \in Replicas, ReplicaStep(r) \/ Terminate(r) \/ Kill(r), NEW q \in Replicas
       PROVE  Secured(q)'
  <2>1. CASE q = r
    BY <1>12, <2>1, <1>2, <1>3, <1>4, <1>5, <1>6, <1>7, <1>8, <1>9, <1>13 DEF ReplicaStep
  <2> QED
    BY <1>12, <2>1, <1>1
<1> QED
  BY <1>10, <1>11, <1>12 DEF Next

\* "exactly one replica runs the reconciler" (leader.rs), for any number of
\* replicas, kills, SIGTERMs and restarts: at most one is active, where a lease
\* outlives the initialisation and the errors that can delay its renewal.
THEOREM LeaderIsAlone == Spec => [](Calm => AtMostOneActive)
<1> DEFINE Alone == Calm => \A q \in Replicas : Secured(q)
<1>1. Init => Alone
  BY DEF Init, Secured, Renewing, Releasing
<1>2. TypeOK /\ TypeOK' /\ Alone /\ [Next]_vars => Alone'
  BY SecuredStep DEF Calm
<1>3. Alone => (Calm => AtMostOneActive)
  BY DEF Secured, Active, Renewing, Releasing, AtMostOneActive
<1> QED
  BY <1>1, <1>2, <1>3, TypeCorrect, PTL DEF Spec
=============================================================================
