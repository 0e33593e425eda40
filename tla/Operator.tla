------------------------------ MODULE Operator ------------------------------
(***************************************************************************)
(* Election and Reconciler together, as main() puts them together          *)
(* (src/main.rs): a process reconciles from the moment its vault client is *)
(* ready until it has drained, and begins every term with what it lists    *)
(* then.  Replicas that overlap reconcile the same resource, each from its *)
(* own copy.                                                               *)
(*                                                                         *)
(* Of the election the ticks are left out: a replica may go on without the *)
(* lease for any time, which allows more overlap than Election does.       *)
(***************************************************************************)
EXTENDS Reconciler

CONSTANT NoHolder   \* nobody holds the lease

VARIABLES
  holder,      \* who holds the lease
  role,        \* of each process, see Election
  overlapped   \* history: a term began while another process could still write

term == <<holder, role, overlapped>>
allVars == <<vars, term>>

\* The time left of each replica never changes.
Election == INSTANCE Election
  WITH Replicas <- Controllers, Grace <- 0, left <- [k \in Controllers |-> 0]

OperatorInit == Init /\ Election!Init /\ overlapped = FALSE

-----------------------------------------------------------------------------
(***************************************************************************)
(* Terms                                                                   *)
(***************************************************************************)

Fault == faults > 0 /\ faults' = faults - 1
NoFault == UNCHANGED faults

\* Faulty variant of Fresh: the watch is not begun anew.
OldWatch(k) ==
  /\ cache' = [cache EXCEPT ![k] = None]
  /\ queued' = [queued EXCEPT ![k] = "no"]
  /\ pc' = [pc EXCEPT ![k] = "idle"]
  /\ local' = [local EXCEPT ![k] = NoLocals]
  /\ UNCHANGED news
\* The state of a controller that has listed nothing yet, or is no more.
Fresh(k) ==
  /\ cache' = [cache EXCEPT ![k] = None]
  /\ news' = [news EXCEPT ![k] = resource # None]
  /\ queued' = [queued EXCEPT ![k] = "no"]
  /\ pc' = [pc EXCEPT ![k] = "idle"]
  /\ local' = [local EXCEPT ![k] = NoLocals]

Idle == UNCHANGED <<cache, news, queued, pc, local>>
Objects == <<resource, secret, vault, now>>

\* Faulty variant of Vacant: a lease that was not released stays held.
Released(k) == holder = NoHolder
\* The lease can be had for the asking, or once that of a dead process expires.
Vacant(k) == \A h \in Controllers \ {k} : holder = h => role[h] = "out"

\* A lease that a live process has not renewed in time is a fault.
Win(k) ==
  /\ Election!Win(k)
  /\ IF Vacant(k) THEN NoFault ELSE Fault
  /\ Idle /\ OutsideCause /\ UNCHANGED <<Objects, overlapped>>

\* It starts reconciles, or is about to make a request of the last one.
MayWrite(k) == role[k] = "running" \/ pc[k] # "idle"

\* The vault client is ready: another term, another controller.
Start(k) ==
  /\ Election!Start(k)
  /\ overlapped' = (overlapped \/ \E j \in Controllers \ {k} : MayWrite(j))
  /\ Fresh(k) /\ NoFault
  /\ OutsideCause /\ UNCHANGED Objects

\* Too many errors: step_down takes effect.  The controller is not told yet, and
\* goes on reconciling, also when the next process takes the lease meanwhile.
StepDown(k) ==
  /\ Election!Release(k)
  /\ Fault /\ Idle /\ UNCHANGED <<Objects, burst, overlapped>>

\* step_down is answered after the lease was released, or taken by another
\* process: keep_renewing returns and the controller is shut down.
Deposed(k) ==
  /\ holder # k
  /\ Election!Drain(k)
  /\ NoFault /\ Idle /\ UNCHANGED <<Objects, burst, overlapped>>

\* The lease is kept for the drain, on SIGTERM or when step_down fails.
Terminate(k) ==
  /\ holder = k
  /\ Election!Drain(k)
  /\ Fault /\ Idle /\ UNCHANGED <<Objects, burst, overlapped>>

\* main() returns after the drain and the step down, which may fail.
Exit(k) ==
  /\ role[k] = "draining" /\ pc[k] = "idle"
  /\ Election!Stop(k)
  /\ NoFault /\ Fresh(k) /\ OutsideCause /\ UNCHANGED <<Objects, overlapped>>

\* The process dies, or cannot initialise its vault client: nobody steps down.
Die(k) ==
  /\ Election!Stop(k) /\ holder' = holder
  /\ Fault /\ Fresh(k) /\ OutsideCause /\ UNCHANGED <<Objects, overlapped>>

-----------------------------------------------------------------------------
(***************************************************************************)
(* Reconciles within a term                                                *)
(***************************************************************************)

\* Faulty variant of MayBegin: a controller goes on until the process ends.
UntilExit(k) == Election!Active(k)
\* graceful_shutdown_on: a controller that drains starts no reconcile.
MayBegin(k) == role[k] = "running"

Work(k) ==
  /\ \/ MayBegin(k) /\ Reconcile(k)
     \/ /\ Election!Active(k)
        /\ \/ AddFinalizer(k) \/ RemoveFinalizer(k)
           \/ FetchSecrets(k) \/ GetSecret(k) \/ WriteSecret(k) \/ PatchStatus(k)
  /\ UNCHANGED term

Hear(k) == Election!Active(k) /\ Deliver(k) /\ UNCHANGED term
Fail(k) == Election!Active(k) /\ (FetchFails(k) \/ RequestFails(k)) /\ UNCHANGED term

\* The vault changes, and Secrets are removed by hand, in Reconciler.
Outside ==
  /\ EditSpec \/ DeleteResource \/ CollectSecret \/ Tick
  /\ UNCHANGED term

TermStep(k) == Start(k) \/ Deposed(k) \/ Exit(k)

OperatorNext ==
  \/ \E k \in Controllers :
       \/ Win(k) \/ TermStep(k) \/ StepDown(k) \/ Terminate(k) \/ Die(k)
       \/ Work(k) \/ Hear(k) \/ Fail(k)
  \/ Outside

OperatorSpec == OperatorInit /\ [][OperatorNext]_allVars

\* As in Reconciler; and a lease that is vacant is taken, a vault client comes
\* up, a loss of the lease is noticed, and a process that has drained ends.
OperatorFairness ==
  /\ \A k \in Controllers :
       /\ WF_allVars(Hear(k)) /\ WF_allVars(Work(k)) /\ WF_allVars(TermStep(k))
       /\ WF_allVars(Vacant(k) /\ Win(k))
  /\ WF_allVars(CollectSecret /\ UNCHANGED term)
FairOperatorSpec == OperatorSpec /\ OperatorFairness

-----------------------------------------------------------------------------
(***************************************************************************)
(* Properties, besides NeverStranded, RestIsKept and StatusConsistent of   *)
(* Reconciler, which hold of two processes as they do of one               *)
(***************************************************************************)

\* What Reconciler has for one process holds for a sequence of terms, in any
\* processes: a Secret is not older than the status says, although a process that
\* has released or lost the lease goes on from its copy of the resource until
\* step_down is answered (leader.rs:185) and then drains.  The exception is a term
\* that begins while another process is in a reconcile, or may start one.
HandoverSafe == ~overlapped => ReadyMeansWritten

\* With the same exception no term takes the Secret back to an older spec: neither
\* the reconcile that an old leader drains nor its copy of the resource outlives it.
HandoverAdvances ==
  [][~overlapped' /\ secret # None /\ secret' # None =>
       secret'.generation >= secret.generation]_allVars

\* Whatever an old leader has overwritten, the last one mends: once users, faults
\* and elections rest, status and Secret reflect the spec and stay so.
SettlesAfterFailover == <>[]Settled
=============================================================================
