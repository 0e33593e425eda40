----------------------------- MODULE Leadership -----------------------------
(***************************************************************************)
(* Leader election between the replicas of the operator: acquire and       *)
(* keep_renewing of src/leader.rs, and the life of the process around them *)
(* in main(): acquire the lease, initialise the vault client, run the      *)
(* controller while a task renews the lease, drain, step down, exit.  The   *)
(* controller learns that the lease is lost only when the step_down of     *)
(* keep_renewing has been answered: until then it goes on reconciling.     *)
(*                                                                         *)
(* Time advances in ticks of RENEW_INTERVAL / RenewInterval.  A tick waits *)
(* for every timer that has run out.  A replica is a pod: a process that   *)
(* exits is restarted under the same identity, a pod that is gone is not.  *)
(*                                                                         *)
(* LeaseLock of the crate kube-leader-election is external.  A call takes  *)
(* effect at one instant and may report an error, in vain or not.          *)
(***************************************************************************)
EXTENDS Naturals

CONSTANTS
  Replicas,
  NoHolder,       \* holderIdentity is empty
  LeaseTTL,       \* LEASE_TTL, in ticks
  RenewInterval,  \* RENEW_INTERVAL, in ticks
  MaxLatency,     \* bound: ticks a renewal, or the step_down of keep_renewing, takes
  MaxInit,        \* bound: ticks initialize_vault_client takes
  MaxDrain,       \* bound: ticks the controller takes to finish running reconciles
  MaxErrors,      \* bound: requests to the API server that report an error
  MaxStops        \* bound: processes that are killed, terminated or fail to start

ASSUME LeaseAssumption ==
  /\ NoHolder \notin Replicas
  /\ LeaseTTL \in Nat \ {0} /\ RenewInterval \in Nat \ {0}
  /\ MaxLatency \in Nat /\ MaxInit \in Nat /\ MaxDrain \in Nat
  /\ MaxErrors \in Nat /\ MaxStops \in Nat

\* Three errors in a row, with the constants of the code.
ErrorThreshold == IF LeaseTTL \div RenewInterval > 2 THEN LeaseTTL \div RenewInterval ELSE 2

VARIABLES
  lease,    \* [holder, left]: the Lease object, and the ticks until it expires
  state,    \* of each replica, see States
  timer,    \* ticks until the initialisation or the drain of a replica is over
  due,      \* ticks until the call of keep_renewing under way is answered
  errors,   \* consecutive_errors of keep_renewing
  budget,   \* [errors, stops]: how many more may happen
  overlap   \* history: ticks a replica has been active without holding the lease

vars == <<lease, state, timer, due, errors, budget, overlap>>

\* "stopping" drains on SIGTERM, still renewing.  keep_renewing has left its
\* loop and awaits step_down in "releasing", while the controller runs, and in
\* "yielding", while it drains on SIGTERM; it has returned in "deposed".
States == {"standby", "init", "leading", "stopping", "releasing", "yielding", "deposed",
           "exited", "gone"}
Renewing == {"leading", "stopping"}
Releasing == {"releasing", "yielding"}
Active(r) == state[r] \in Renewing \cup Releasing \cup {"deposed"}

\* The longest a replica can be active without the lease: every renewal is an
\* error, step_down is answered, then the controller drains.
RenewalCycle == RenewInterval + MaxLatency
OverlapBound == ErrorThreshold * RenewalCycle + MaxLatency + MaxDrain

Init ==
  /\ lease = [holder |-> NoHolder, left |-> 0]
  /\ state = [r \in Replicas |-> "standby"]
  /\ timer = [r \in Replicas |-> 0]
  /\ due = [r \in Replicas |-> 0]
  /\ errors = [r \in Replicas |-> 0]
  /\ budget = [errors |-> MaxErrors, stops |-> MaxStops]
  /\ overlap = [r \in Replicas |-> 0]

-----------------------------------------------------------------------------
(***************************************************************************)
(* The lease, as LeaseLock treats it.                                      *)
(***************************************************************************)

\* try_acquire_or_renew succeeds for the holder, and for all once it expired.
MayTake(r) == lease.holder = r \/ lease.left = 0

Held(r) == [holder |-> r, left |-> LeaseTTL]

\* step_down clears the holder and shortens the TTL to 1 s, less than a tick,
\* if this replica holds the lease; otherwise it does nothing.
SteppedDown(l, r) == IF l.holder = r THEN [holder |-> NoHolder, left |-> 0] ELSE l

Fails(n) == budget.errors >= n /\ budget' = [budget EXCEPT !.errors = @ - n]

\* A request that reports an error was not processed, or its answer was lost.
AfterError(r) == {lease} \cup {l \in {Held(r)} : MayTake(r)}

Become(r, s) == state' = [state EXCEPT ![r] = s]

-----------------------------------------------------------------------------
(***************************************************************************)
(* acquire, and the initialisation of the vault client                     *)
(***************************************************************************)

\* The lease is won; initialize_vault_client starts, and nothing renews.
Acquire(r) ==
  /\ state[r] = "standby" /\ MayTake(r)
  /\ lease' = Held(r)
  /\ Become(r, "init")
  /\ \E n \in 0..MaxInit : timer' = [timer EXCEPT ![r] = n]
  /\ UNCHANGED <<due, errors, budget, overlap>>

\* An error: acquire goes on waiting.
AcquireFails(r) ==
  /\ state[r] = "standby"
  /\ Fails(1) /\ lease' \in AfterError(r)
  /\ UNCHANGED <<state, timer, due, errors, overlap>>

\* Faulty variant of NextRenewal: the lease is left to expire before a renewal.
RenewsLate(r) == \E latency \in 0..MaxLatency : due' = [due EXCEPT ![r] = LeaseTTL + latency]
\* The sleep before a renewal, and the time its request takes.
NextRenewal(r) == \E latency \in 0..MaxLatency : due' = [due EXCEPT ![r] = RenewInterval + latency]

\* main() spawns the background tasks and keep_renewing, and runs the controller.
InitDone(r) ==
  /\ state[r] = "init" /\ timer[r] = 0
  /\ Become(r, "leading")
  /\ errors' = [errors EXCEPT ![r] = 0]
  /\ NextRenewal(r)
  /\ UNCHANGED <<lease, timer, budget, overlap>>

\* main() returns the error: the lease is left as it is.
InitFails(r) ==
  /\ state[r] = "init" /\ timer[r] = 0
  /\ budget.stops > 0 /\ budget' = [budget EXCEPT !.stops = @ - 1]
  /\ Become(r, "exited")
  /\ UNCHANGED <<lease, timer, due, errors, overlap>>

-----------------------------------------------------------------------------
(***************************************************************************)
(* keep_renewing                                                           *)
(***************************************************************************)

Renew(r) ==
  /\ state[r] \in Renewing /\ due[r] = 0 /\ MayTake(r)
  /\ lease' = Held(r)
  /\ errors' = [errors EXCEPT ![r] = 0]
  /\ overlap' = [overlap EXCEPT ![r] = 0]
  /\ NextRenewal(r)
  /\ UNCHANGED <<state, timer, budget>>

\* Faulty variant of Counted: the error is not counted.
NotCounted(r) == errors[r]
\* consecutive_errors, with the error at hand
Counted(r) == errors[r] + 1

\* Faulty variant of GivesUp: one error more is tolerated.
GivesUpLate(r) == Counted(r) > ErrorThreshold
\* consecutive_errors >= error_threshold
GivesUp(r) == Counted(r) >= ErrorThreshold

\* An error that is not the last one allowed.
RenewFails(r) ==
  /\ state[r] \in Renewing /\ due[r] = 0
  /\ ~GivesUp(r)
  /\ Fails(1) /\ lease' \in AfterError(r)
  /\ errors' = [errors EXCEPT ![r] = Counted(r)]
  /\ NextRenewal(r)
  /\ UNCHANGED <<state, timer, overlap>>

\* keep_renewing leaves its loop and calls step_down; main() hears nothing yet.
CallStepDown(r) ==
  /\ Become(r, IF state[r] = "leading" THEN "releasing" ELSE "yielding")
  /\ \E latency \in 0..MaxLatency : due' = [due EXCEPT ![r] = latency]

\* Another replica holds the lease.
LeaseLost(r) ==
  /\ state[r] \in Renewing /\ due[r] = 0 /\ ~MayTake(r)
  /\ CallStepDown(r)
  /\ UNCHANGED <<lease, timer, errors, budget, overlap>>

\* The last error allowed.
GiveUp(r) ==
  /\ state[r] \in Renewing /\ due[r] = 0
  /\ GivesUp(r)
  /\ Fails(1) /\ lease' \in AfterError(r)
  /\ CallStepDown(r)
  /\ UNCHANGED <<timer, errors, overlap>>

\* step_down takes effect, some time before its answer arrives.
StepDown(r) ==
  /\ state[r] \in Releasing /\ lease.holder = r
  /\ lease' = SteppedDown(lease, r)
  /\ UNCHANGED <<state, timer, due, errors, budget, overlap>>

\* step_down is answered, in vain only if it is an error: keep_renewing returns
\* and main() shuts the controller down, unless SIGTERM has done so.
Depose(r) ==
  /\ state[r] \in Releasing /\ due[r] = 0
  /\ \/ lease.holder # r /\ UNCHANGED budget
     \/ Fails(1)
  /\ Become(r, "deposed")
  /\ IF state[r] = "yielding" THEN UNCHANGED timer
     ELSE \E n \in 0..MaxDrain : timer' = [timer EXCEPT ![r] = n]
  /\ UNCHANGED <<lease, due, errors, overlap>>

-----------------------------------------------------------------------------
(***************************************************************************)
(* The end of the process                                                  *)
(***************************************************************************)

\* SIGTERM while the controller runs.
Terminate(r) ==
  /\ state[r] \in {"leading", "releasing"}
  /\ budget.stops > 0 /\ budget' = [budget EXCEPT !.stops = @ - 1]
  /\ Become(r, IF state[r] = "leading" THEN "stopping" ELSE "yielding")
  /\ \E n \in 0..MaxDrain : timer' = [timer EXCEPT ![r] = n]
  /\ UNCHANGED <<lease, due, errors, overlap>>

\* Faulty variant of Drained: only SIGTERM shuts the controller down.
DrainedBySignal(r) == state[r] \in {"stopping", "yielding"} /\ timer[r] = 0
\* SIGTERM, or keep_renewing, has shut the controller down, and it has finished.
Drained(r) == state[r] \in {"stopping", "yielding", "deposed"} /\ timer[r] = 0

\* The drain is over: main() stops the tasks, steps down as well as it can and
\* returns.  A pod that was told to stop is not restarted.
Exit(r) ==
  /\ Drained(r)
  /\ \/ lease' = SteppedDown(lease, r) /\ UNCHANGED budget
     \/ lease' = lease /\ Fails(1)
  /\ \E s \in {"exited", "gone"} :
       (state[r] \in {"stopping", "yielding"} => s = "gone") /\ Become(r, s)
  /\ overlap' = [overlap EXCEPT ![r] = 0]
  /\ UNCHANGED <<timer, due, errors>>

\* A crash, a node that is lost, the end of the grace period, or SIGTERM where
\* nobody steps down: in standby, and during the initialisation, when no handler
\* listens.
Kill(r) ==
  /\ state[r] \notin {"exited", "gone"}
  /\ budget.stops > 0 /\ budget' = [budget EXCEPT !.stops = @ - 1]
  /\ \E s \in {"exited", "gone"} : Become(r, s)
  /\ overlap' = [overlap EXCEPT ![r] = 0]
  /\ UNCHANGED <<lease, timer, due, errors>>

\* Kubernetes restarts the container.
Restart(r) ==
  /\ state[r] = "exited"
  /\ Become(r, "standby")
  /\ UNCHANGED <<lease, timer, due, errors, budget, overlap>>

-----------------------------------------------------------------------------
Timed(r) == state[r] \in {"init", "stopping", "yielding", "deposed"} /\ timer[r] > 0
Waiting(r) == state[r] \in Renewing \cup Releasing

\* A tick passes only when no timer has run out.
Tick ==
  /\ \A r \in Replicas : /\ Waiting(r) => due[r] > 0
                         /\ state[r] = "init" => timer[r] > 0
                         /\ ~Drained(r)
  /\ lease' = [lease EXCEPT !.left = IF @ > 0 THEN @ - 1 ELSE 0]
  /\ due' = [r \in Replicas |-> IF Waiting(r) THEN due[r] - 1 ELSE due[r]]
  /\ timer' = [r \in Replicas |-> IF Timed(r) THEN timer[r] - 1 ELSE timer[r]]
  /\ overlap' = [r \in Replicas |->
       IF Active(r) /\ lease.holder # r
       THEN IF overlap[r] > OverlapBound THEN overlap[r] ELSE overlap[r] + 1
       ELSE 0]
  /\ UNCHANGED <<state, errors, budget>>

\* The steps the process of r makes by itself.
ReplicaStep(r) ==
  \/ Acquire(r) \/ AcquireFails(r) \/ InitDone(r) \/ InitFails(r)
  \/ Renew(r) \/ RenewFails(r) \/ LeaseLost(r) \/ GiveUp(r)
  \/ StepDown(r) \/ Depose(r) \/ Exit(r) \/ Restart(r)

Next ==
  \/ \E r \in Replicas : ReplicaStep(r) \/ Terminate(r) \/ Kill(r)
  \/ Tick

Spec == Init /\ [][Next]_vars

\* Every process runs, requests are answered within MaxLatency, the container
\* is restarted, and time passes.  Kills and SIGTERMs need never happen.
Fairness == (\A r \in Replicas : WF_vars(ReplicaStep(r))) /\ WF_vars(Tick)
FairSpec == Spec /\ Fairness

-----------------------------------------------------------------------------
(***************************************************************************)
(* Properties                                                              *)
(***************************************************************************)

TypeOK ==
  /\ lease \in [holder : Replicas \cup {NoHolder}, left : 0..LeaseTTL]
  /\ state \in [Replicas -> States]
  /\ timer \in [Replicas -> Nat]
  /\ due \in [Replicas -> 0..RenewalCycle]
  /\ errors \in [Replicas -> 0..(ErrorThreshold - 1)]
  /\ budget \in [errors : 0..MaxErrors, stops : 0..MaxStops]
  /\ overlap \in [Replicas -> Nat]

\* "exactly one replica runs the reconciler" (leader.rs): at most one replica
\* runs its controller.  It needs renewals to be answered in time, and an
\* initialisation, which renews nothing, shorter than the lease (main.rs:156); a long
\* one refutes it (leader_slow_init).
AtMostOneActive ==
  \A r, q \in Replicas : Active(r) /\ Active(q) => r = q

\* A replica stops within OverlapBound ticks of losing the lease, however its
\* renewals fail: keep_renewing gives up after error_threshold errors in a row,
\* or hears that another replica has the lease; its step_down is answered, and
\* only then does the controller begin to drain.
OverlapBounded == \A r \in Replicas : overlap[r] <= OverlapBound

\* As long as a pod is left some replica leads, again and again: the lease of a
\* leader that is gone without stepping down expires and is taken over.
LeaderEmerges ==
  \/ <>(\A r \in Replicas : state[r] = "gone")
  \/ []<>(\E r \in Replicas : state[r] = "leading")

-----------------------------------------------------------------------------
(***************************************************************************)
(* What it all amounts to                                                  *)
(***************************************************************************)

\* The role a replica plays in an election.
Role(s) ==
  IF s = "init" THEN "won"
  ELSE IF s \in {"leading", "releasing"} THEN "running"
  ELSE IF s \in {"stopping", "yielding", "deposed"} THEN "draining"
  ELSE "out"

E == INSTANCE Election WITH
  holder <- lease.holder,
  role <- [r \in Replicas |-> Role(state[r])],
  left <- [r \in Replicas |-> OverlapBound - overlap[r]],
  Grace <- OverlapBound

\* acquire, keep_renewing and main() implement the abstract election: a
\* controller starts only in a term that was won, never takes up work again in
\* the term it began to drain in, and no tick passes for one that is
\* OverlapBound ticks without the lease.
ImplementsElection == E!Spec
=============================================================================
