-------------------------- MODULE Operator_proofs --------------------------
(***************************************************************************)
(* Theorems about Operator, for any number of processes and faults.        *)
(*                                                                         *)
(* A step is one of Reconciler, of a process that may take it, or begins   *)
(* or ends a term.  The generations are ordered as in Reconciler_proofs,   *)
(* but only for the processes that may write; unless a term began too      *)
(* early there is one such process at most.                                *)
(***************************************************************************)
EXTENDS Operator, Reconciler_proofs

USE ReconcilerAssumption

Roles == {"out", "won", "running", "draining"}

OneWriter == \A j, k \in Controllers : MayWrite(j) /\ MayWrite(k) => j = k

\* Ordered and Covered of Reconciler_proofs, for one process.
OrderedFor(k) == resource # None =>
  /\ cache[k] # None => /\ resource.status.observed <= cache[k].generation
                        /\ cache[k].generation <= resource.generation
  /\ pc[k] # "idle" =>
       /\ resource.status.observed <= local[k].object.generation
       /\ local[k].object.generation <= resource.generation
       /\ cache[k] # None => local[k].object.generation <= cache[k].generation

CoveredFor(k) == pc[k] = "status" /\ local[k].success /\ secret # None =>
  secret.generation >= local[k].object.generation

Handed ==
  /\ OneWriter
  /\ resource # None => resource.status.observed <= resource.generation
  /\ \A k \in Controllers : MayWrite(k) => OrderedFor(k) /\ CoveredFor(k)
  /\ ReadyMeansWritten

OperatorInv ==
  /\ TypeInv /\ StatusConsistent /\ Fetched
  /\ role \in [Controllers -> Roles] /\ overlapped \in BOOLEAN
  /\ ~overlapped => Handed

-----------------------------------------------------------------------------
(***************************************************************************)
(* Steps of Reconciler                                                     *)
(***************************************************************************)

\* Such a step makes nobody a writer: a reconcile begins in a running process.
ReconcilerStep ==
  /\ [Next]_vars /\ UNCHANGED term
  /\ \A k \in Controllers : MayWrite(k)' => MayWrite(k)

LEMMA WorkSteps ==
  ASSUME OperatorInv, NEW k \in Controllers, Work(k) \/ Hear(k) \/ Fail(k)
  PROVE  ReconcilerStep
<1> USE DEF OperatorInv, TypeInv, TypeOK
<1>1. [Next]_vars /\ UNCHANGED term
  BY DEF Work, Hear, Fail, Next, ControllerStep
<1>2. role' = role
  BY <1>1 DEF term
<1>3. ASSUME NEW j \in Controllers, MayWrite(j)' PROVE MayWrite(j)
  <2>1. CASE MayBegin(k) /\ Reconcile(k)
    <3>1. j # k => pc'[j] = pc[j]
      BY <2>1 DEF Reconcile, Ask
    <3> QED
      BY <1>2, <1>3, <2>1, <3>1 DEF MayWrite, MayBegin
  <2>2. CASE AddFinalizer(k) \/ RemoveFinalizer(k) \/ PatchStatus(k) \/ RequestFails(k)
    <3>1. pc' = [pc EXCEPT ![k] = "idle"]
      BY <2>2 DEF AddFinalizer, RemoveFinalizer, PatchStatus, RequestFails, Return
    <3> QED
      BY <1>2, <1>3, <3>1 DEF MayWrite
  <2>3. CASE FetchSecrets(k) \/ GetSecret(k) \/ WriteSecret(k) \/ FetchFails(k)
    <3>1. pc[k] # "idle" /\ (j # k => pc'[j] = pc[j])
      BY <2>3 DEF FetchSecrets, GetSecret, WriteSecret, FetchFails, Return, Ask
    <3> QED
      BY <1>2, <1>3, <3>1 DEF MayWrite
  <2>4. CASE Deliver(k)
    BY <1>2, <1>3, <2>4 DEF Deliver, MayWrite
  <2> QED
    BY <2>1, <2>2, <2>3, <2>4 DEF Work, Hear, Fail
<1> QED
  BY <1>1, <1>3 DEF ReconcilerStep

LEMMA OutsideSteps ==
  ASSUME OperatorInv, Outside PROVE ReconcilerStep
<1>1. [Next]_vars /\ UNCHANGED term
  BY DEF Outside, Next
<1>2. pc' = pc
  BY DEF Outside, EditSpec, DeleteResource, CollectSecret, Tick
<1> QED
  BY <1>1, <1>2 DEF ReconcilerStep, MayWrite, term

\* Generations stay in order for the one writer.
LEMMA OrderedStays ==
  ASSUME OperatorInv, Handed, ReconcilerStep, resource' # None
  PROVE  /\ resource'.status.observed <= resource'.generation
         /\ \A k \in Controllers : MayWrite(k)' => OrderedFor(k)'
<1> USE DEF OperatorInv, Handed, ReconcilerStep
<1>1. /\ resource # None /\ resource'.generation >= resource.generation
      /\ resource.generation \in Nat /\ resource.status.observed \in Nat
  BY ResourceGrows, Numbers
<1>2. /\ resource'.generation \in Nat /\ resource'.status.observed \in Nat
  <2>1. TypeInv'
    BY TypeInvStep
  <2>2. resource' \in Resources
    BY <2>1 DEF TypeInv, TypeOK
  <2> QED
    BY <2>2 DEF Resources, Statuses, Generations
<1>3. CASE resource'.status = resource.status
  <2>1. resource'.status.observed <= resource'.generation
    BY <1>1, <1>2, <1>3
  <2>2. ASSUME NEW k \in Controllers, MayWrite(k)' PROVE OrderedFor(k)'
    <3>1. OrderedFor(k)
      BY <2>2
    <3>2. ASSUME cache'[k] # None
          PROVE  /\ resource'.status.observed <= cache'[k].generation
                 /\ cache'[k].generation <= resource'.generation
      BY <1>1, <1>2, <1>3, <2>1, <3>1, <3>2, CacheSteps, Numbers DEF OrderedFor, TypeInv
    <3>3. ASSUME pc'[k] # "idle"
          PROVE  /\ resource'.status.observed <= local'[k].object.generation
                 /\ local'[k].object.generation <= resource'.generation
                 /\ cache'[k] # None => local'[k].object.generation <= cache'[k].generation
      <4>1. CASE pc[k] # "idle" /\ local'[k].object = local[k].object
        BY <1>1, <1>2, <1>3, <3>1, <4>1, CacheSteps, Numbers DEF OrderedFor, TypeInv
      <4>2. CASE cache[k] # None /\ local'[k].object = cache[k]
        BY <1>1, <1>2, <1>3, <3>1, <4>2, CacheSteps, Numbers DEF OrderedFor, TypeInv
      <4> QED
        BY <3>3, <4>1, <4>2, ObjectSteps DEF TypeInv
    <3> QED
      BY <3>2, <3>3 DEF OrderedFor
  <2> QED
    BY <2>1, <2>2
<1>4. CASE \E k \in Controllers : PatchStatus(k)
  <2>1. PICK k \in Controllers : PatchStatus(k)
    BY <1>4
  <2>2. /\ resource'.generation = resource.generation
        /\ resource'.status.observed = local[k].object.generation
    BY <2>1, PatchObserves
  <2>3. pc[k] # "idle" /\ pc'[k] = "idle" /\ cache' = cache
    BY <2>1 DEF PatchStatus, Return, TypeInv, TypeOK
  <2>4. MayWrite(k) /\ OrderedFor(k)
    BY <2>3 DEF MayWrite
  <2>5. \A j \in Controllers : MayWrite(j)' => j = k
    BY <2>4 DEF OneWriter
  <2>6. OrderedFor(k)'
    BY <1>1, <2>2, <2>3, <2>4 DEF OrderedFor
  <2> QED
    BY <1>1, <2>2, <2>3, <2>4, <2>5, <2>6 DEF OrderedFor
<1> QED
  BY <1>3, <1>4, ResourceGrows

LEMMA HandedStays ==
  ASSUME OperatorInv, Handed, ReconcilerStep PROVE Handed'
<1> USE DEF OperatorInv, Handed, ReconcilerStep
<1>1. OneWriter'
  BY DEF OneWriter
<1>2. ASSUME NEW k \in Controllers, pc[k] # "idle", NEW j \in Controllers, MayWrite(j)
      PROVE  j = k
  BY <1>2 DEF OneWriter, MayWrite
<1>3. resource' # None => resource'.status.observed <= resource'.generation
  BY OrderedStays
<1>4. ASSUME NEW k \in Controllers, MayWrite(k)' PROVE OrderedFor(k)' /\ CoveredFor(k)'
  <2>1. OrderedFor(k)'
    BY <1>4, OrderedStays DEF OrderedFor
  <2>2. CoveredFor(k)'
    <3> SUFFICES ASSUME pc'[k] = "status", local'[k].success, secret' # None
                 PROVE  secret'.generation >= local'[k].object.generation
      BY DEF CoveredFor
    <3>1. MayWrite(k) /\ CoveredFor(k)
      BY <1>4
    <3>2. CASE /\ pc[k] = "status" /\ local'[k] = local[k] /\ secret' \in {secret, None}
      BY <3>1, <3>2 DEF CoveredFor
    <3>3. CASE /\ pc[k] = "writeSecret" /\ local'[k] = local[k]
               /\ secret'.generation = local[k].object.generation
      BY <3>3, Numbers
    <3>4. CASE pc[k] = "status" /\ local'[k] = local[k] /\ secret' \notin {secret, None}
      <4>1. PICK j \in Controllers : pc[j] = "writeSecret"
        BY <3>4, SecretSteps
      <4> QED
        BY <1>2, <3>1, <3>4, <4>1
    <3>5. ~(pc[k] \in {"idle", "fetch"} /\ local'[k].success = local[k].success)
      BY DEF Fetched
    <3> QED
      BY <3>2, <3>3, <3>4, <3>5, ReconcileSteps DEF TypeInv
  <2> QED
    BY <2>1, <2>2
<1>5. ReadyMeansWritten'
  <2> SUFFICES ASSUME resource' # None, secret' # None, resource'.status.ready
               PROVE  secret'.generation >= resource'.status.observed
    BY DEF ReadyMeansWritten
  <2>1. CASE \E k \in Controllers : PatchStatus(k)
    <3>1. PICK k \in Controllers : PatchStatus(k)
      BY <2>1
    <3>2. pc[k] = "status" /\ secret' = secret /\ CoveredFor(k)
      BY <3>1 DEF PatchStatus, MayWrite
    <3> QED
      BY <3>1, <3>2, PatchObserves DEF CoveredFor
  <2>2. CASE resource'.status = resource.status
    <3>1. resource # None
      BY ResourceGrows
    <3>2. CASE secret' = secret
      BY <2>2, <3>1, <3>2 DEF ReadyMeansWritten
    <3>3. CASE \E k \in Controllers : /\ pc[k] = "writeSecret"
                                      /\ secret'.generation = local[k].object.generation
      <4>1. PICK k \in Controllers : /\ pc[k] = "writeSecret"
                                     /\ secret'.generation = local[k].object.generation
        BY <3>3
      <4>2. OrderedFor(k)
        BY <4>1 DEF MayWrite
      <4> QED
        BY <2>2, <3>1, <4>1, <4>2, Numbers DEF OrderedFor
    <3> QED
      BY <3>2, <3>3, SecretSteps
  <2> QED
    BY <2>1, <2>2, ResourceGrows
<1> QED
  BY <1>1, <1>3, <1>4, <1>5

LEMMA ReconcilerStepInv ==
  ASSUME OperatorInv, ReconcilerStep PROVE OperatorInv'
<1> USE DEF OperatorInv, ReconcilerStep
<1>1. TypeInv' /\ StatusConsistent'
  BY TypeInvStep, StatusStep
<1>2. Fetched'
  BY ReconcileSteps DEF Fetched, TypeInv
<1>3. role' \in [Controllers -> Roles] /\ overlapped' \in BOOLEAN
  BY DEF term
<1>4. ~overlapped' => Handed'
  BY HandedStays DEF term
<1> QED
  BY <1>1, <1>2, <1>3, <1>4

-----------------------------------------------------------------------------
(***************************************************************************)
(* Steps of a term                                                         *)
(***************************************************************************)

TermChange(k) == Win(k) \/ TermStep(k) \/ StepDown(k) \/ Terminate(k) \/ Die(k)

\* A term begins alone or is recorded, and begins with nothing listed; every
\* other step of a term takes writers away.
LEMMA TermSteps ==
  ASSUME OperatorInv, NEW k \in Controllers, TermChange(k)
  PROVE  /\ UNCHANGED Objects /\ faults' \in 0..MaxFaults
         /\ burst' \in [Controllers -> 0..BurstLimit]
         /\ Idle \/ Fresh(k)
         /\ role' \in [Controllers -> Roles] /\ overlapped' \in BOOLEAN
         /\ \/ /\ overlapped' = overlapped
               /\ \A j \in Controllers : MayWrite(j)' => MayWrite(j)
            \/ /\ Fresh(k)
               /\ ~overlapped' => /\ ~overlapped
                                  /\ \A j \in Controllers \ {k} : ~MayWrite(j)'
<1> USE DEF OperatorInv, TypeInv, TypeOK
<1> USE DEF Roles, Election!Play
<1>a. UNCHANGED Objects /\ (Idle \/ Fresh(k))
  BY DEF TermChange, TermStep, Win, Start, Deposed, StepDown, Terminate, Exit, Die, Objects
<1>b. faults' \in 0..MaxFaults
  <2>1. (faults > 0 /\ faults' = faults - 1) \/ faults' = faults
    BY DEF TermChange, TermStep, Win, Start, Deposed, StepDown, Terminate, Exit, Die, Fault, NoFault
  <2> QED
    BY <2>1
<1>c. burst' \in [Controllers -> 0..BurstLimit]
  <2>1. burst' = [j \in Controllers |-> 0] \/ burst' = burst
    BY DEF TermChange, TermStep, Win, Start, Deposed, StepDown, Terminate, Exit, Die, OutsideCause
  <2> QED
    BY <2>1
<1>1. CASE Win(k)
  <2>1. role[k] = "out" /\ role' = [role EXCEPT ![k] = "won"] /\ pc' = pc
    BY <1>1 DEF Win, Election!Win, Idle
  <2>2. \A j \in Controllers : MayWrite(j)' => MayWrite(j)
    BY <2>1 DEF MayWrite
  <2> QED
    BY <1>1, <1>a, <1>b, <1>c, <2>1, <2>2 DEF Win
<1>2. CASE Start(k)
  <2>1. /\ role' = [role EXCEPT ![k] = "running"] /\ Fresh(k)
        /\ overlapped' = (overlapped \/ \E j \in Controllers \ {k} : MayWrite(j))
    BY <1>2 DEF Start, Election!Start
  <2>2. \A j \in Controllers \ {k} : MayWrite(j)' => MayWrite(j)
    BY <2>1 DEF MayWrite, Fresh
  <2>3. role' \in [Controllers -> Roles] /\ overlapped' \in BOOLEAN
    BY <2>1
  <2>4. ~overlapped' => ~overlapped /\ \A j \in Controllers \ {k} : ~MayWrite(j)'
    BY <2>1, <2>2
  <2> QED
    BY <1>a, <1>b, <1>c, <2>1, <2>3, <2>4
<1>3. CASE Deposed(k) \/ Terminate(k)
  <2>1. role[k] = "running" /\ role' = [role EXCEPT ![k] = "draining"] /\ Idle
    BY <1>3 DEF Deposed, Terminate, Election!Drain
  <2>2. \A j \in Controllers : MayWrite(j)' => MayWrite(j)
    BY <2>1 DEF MayWrite, Idle
  <2> QED
    BY <1>3, <1>a, <1>b, <1>c, <2>1, <2>2 DEF Deposed, Terminate
<1>5. CASE StepDown(k)
  <2>1. role' = role /\ Idle
    BY <1>5 DEF StepDown, Election!Release
  <2>2. \A j \in Controllers : MayWrite(j)' => MayWrite(j)
    BY <2>1 DEF MayWrite, Idle
  <2> QED
    BY <1>5, <1>a, <1>b, <1>c, <2>1, <2>2 DEF StepDown
<1>4. CASE Exit(k) \/ Die(k)
  <2>1. role' = [role EXCEPT ![k] = "out"] /\ Fresh(k)
    BY <1>4 DEF Exit, Die, Election!Stop
  <2>2. \A j \in Controllers : MayWrite(j)' => MayWrite(j)
    BY <2>1 DEF MayWrite, Fresh
  <2> QED
    BY <1>4, <1>a, <1>b, <1>c, <2>1, <2>2 DEF Exit, Die
<1> QED
  BY <1>1, <1>2, <1>3, <1>4, <1>5 DEF TermChange, TermStep

\* Each process is as before, or as after Fresh.
LEMMA FreshOrSame ==
  ASSUME OperatorInv, NEW k \in Controllers, Idle \/ Fresh(k), NEW j \in Controllers
  PROVE  \/ cache'[j] = cache[j] /\ pc'[j] = pc[j] /\ local'[j] = local[j]
         \/ cache'[j] = None /\ pc'[j] = "idle" /\ local'[j] = NoLocals
BY DEF Idle, Fresh, OperatorInv, TypeInv, TypeOK

LEMMA TermStepInv ==
  ASSUME OperatorInv, NEW k \in Controllers, TermChange(k) PROVE OperatorInv'
<1> USE DEF OperatorInv
<1>0. /\ resource' = resource /\ secret' = secret /\ vault' = vault /\ now' = now
      /\ Idle \/ Fresh(k)
  BY TermSteps DEF Objects
<1>1. TypeOK'
  <2>1. NoLocals \in Locals
    BY DEF NoLocals, Locals
  <2>2. /\ cache' \in [Controllers -> Resources \cup {None}]
        /\ news' \in [Controllers -> BOOLEAN]
        /\ queued' \in [Controllers -> {"no", "timer", "event"}]
        /\ pc' \in [Controllers -> Requests \cup {"idle"}]
        /\ local' \in [Controllers -> Locals]
    <3>1. CASE Idle
      BY <3>1 DEF Idle, TypeInv, TypeOK
    <3>2. CASE Fresh(k)
      BY <2>1, <3>2 DEF Fresh, TypeInv, TypeOK
    <3> QED
      BY <1>0, <3>1, <3>2
  <2> QED
    BY <1>0, <2>2, TermSteps DEF TypeInv, TypeOK
<1>2. TypeInv'
  BY <1>0, <1>1, FreshOrSame DEF TypeInv, DeletedLast, ObjectAtHand
<1>3. StatusConsistent' /\ Fetched'
  BY <1>0, FreshOrSame DEF StatusConsistent, Fetched, NoLocals
<1>4. role' \in [Controllers -> Roles] /\ overlapped' \in BOOLEAN
  BY TermSteps
<1>5. ASSUME ~overlapped' PROVE Handed'
  <2>1. Handed
    BY <1>5, TermSteps
  <2>2. OneWriter'
    BY <1>5, <2>1, TermSteps DEF Handed, OneWriter
  <2>3. ASSUME NEW j \in Controllers, MayWrite(j)' PROVE OrderedFor(j)' /\ CoveredFor(j)'
    <3>1. CASE pc'[j] = "idle" /\ cache'[j] = None
      BY <3>1 DEF OrderedFor, CoveredFor
    <3>2. CASE MayWrite(j) /\ cache'[j] = cache[j] /\ pc'[j] = pc[j] /\ local'[j] = local[j]
      BY <1>0, <2>1, <3>2 DEF Handed, OrderedFor, CoveredFor
    <3>3. MayWrite(j) \/ (j = k /\ Fresh(k))
      BY <1>5, <2>3, TermSteps
    <3> QED
      BY <1>0, <3>1, <3>2, <3>3, FreshOrSame DEF Fresh, TypeInv, TypeOK
  <2> QED
    BY <1>0, <2>1, <2>2, <2>3 DEF Handed, ReadyMeansWritten
<1> QED
  BY <1>2, <1>3, <1>4, <1>5

-----------------------------------------------------------------------------
(***************************************************************************)
(* The theorems                                                            *)
(***************************************************************************)

LEMMA OperatorStepInv == OperatorInv /\ [OperatorNext]_allVars => OperatorInv'
<1> SUFFICES ASSUME OperatorInv, [OperatorNext]_allVars PROVE OperatorInv'
  OBVIOUS
<1>1. CASE UNCHANGED allVars
  <2>1. ReconcilerStep
    BY <1>1 DEF allVars, vars, term, ReconcilerStep, MayWrite
  <2> QED
    BY <2>1, ReconcilerStepInv
<1>2. CASE OperatorNext
  BY <1>2, WorkSteps, OutsideSteps, ReconcilerStepInv, TermStepInv DEF OperatorNext, TermChange
<1> QED
  BY <1>1, <1>2

LEMMA OperatorInitInv == OperatorInit => OperatorInv
<1> SUFFICES ASSUME OperatorInit PROVE OperatorInv
  OBVIOUS
<1>1. TypeInv /\ StatusConsistent /\ Fetched
  <2>1. Init
    BY DEF OperatorInit
  <2>2. TypeOK
    BY <2>1, TypeOKInit
  <2>3. StatusConsistent /\ Fetched
    BY <2>1 DEF Init, StatusConsistent, NoStatus, Fetched, NoLocals
  <2> QED
    BY <2>1, <2>2, <2>3 DEF Init, TypeInv, DeletedLast, ObjectAtHand
<1>2. \A k \in Controllers : ~MayWrite(k)
  BY DEF OperatorInit, Init, Election!Init, MayWrite
<1>3. Handed
  BY <1>2 DEF OperatorInit, Init, Handed, OneWriter, ReadyMeansWritten, NoStatus
<1> QED
  BY <1>1, <1>3 DEF OperatorInit, Election!Init, OperatorInv, Roles

\* However many processes win, drain and die, and whatever their reconciles do
\* then: unless a term begins while another process may still write, a Secret is
\* not older than a status that says ready.
THEOREM HandoverIsSafe == OperatorSpec => []HandoverSafe
<1>1. OperatorInv => HandoverSafe
  BY DEF OperatorInv, Handed, HandoverSafe
<1> QED
  BY <1>1, OperatorInitInv, OperatorStepInv, PTL DEF OperatorSpec

\* A status that several leaders have patched, each from its own copy, does not
\* contradict itself, also when their terms overlap.
THEOREM StatusStaysConsistent == OperatorSpec => []StatusConsistent
<1>1. OperatorInv => StatusConsistent
  BY DEF OperatorInv
<1> QED
  BY <1>1, OperatorInitInv, OperatorStepInv, PTL DEF OperatorSpec

-----------------------------------------------------------------------------
(***************************************************************************)
(* With an election that keeps its leaders apart                           *)
(***************************************************************************)

\* Leadership's AtMostOneActive: the processes that run, or drain, are one at most.
OneLeader == \A j, k \in Controllers : Election!Active(j) /\ Election!Active(k) => j = k

\* Main waits for the controller: what is in a reconcile runs or drains.
AtWork == \A k \in Controllers : pc[k] # "idle" => Election!Active(k)

LEMMA WritersAreActive ==
  ASSUME AtWork, NEW k \in Controllers, MayWrite(k) PROVE Election!Active(k)
BY DEF AtWork, MayWrite, Election!Active

LEMMA AtWorkStep == OperatorInv /\ AtWork /\ [OperatorNext]_allVars => AtWork'
<1> SUFFICES ASSUME OperatorInv, AtWork, [OperatorNext]_allVars,
                    NEW j \in Controllers, pc'[j] # "idle"
             PROVE  Election!Active(j)'
  BY DEF AtWork
<1> USE DEF Election!Active
<1>1. CASE UNCHANGED allVars \/ Outside
  <2>1. pc' = pc /\ role' = role
    BY <1>1 DEF allVars, vars, term, Outside, EditSpec, DeleteResource, CollectSecret, Tick
  <2> QED
    BY <2>1 DEF AtWork
<1>2. ASSUME NEW k \in Controllers, Work(k) \/ Hear(k) \/ Fail(k)
      PROVE  Election!Active(j)'
  <2>1. ReconcilerStep /\ role' = role
    BY <1>2, WorkSteps DEF ReconcilerStep, term
  <2> QED
    BY <2>1, WritersAreActive DEF ReconcilerStep, MayWrite
<1>3. ASSUME NEW k \in Controllers, TermChange(k) PROVE Election!Active(j)'
  <2>1. role' = [role EXCEPT ![k] = role'[k]] /\ role \in [Controllers -> Roles]
    BY <1>3 DEF TermChange, TermStep, Win, Start, Deposed, StepDown, Terminate, Exit, Die,
      Election!Win, Election!Start, Election!Release, Election!Drain, Election!Stop,
      Election!Play, OperatorInv
  <2>2. pc'[j] = pc[j] \/ (j = k /\ pc'[j] = "idle")
    <3>1. pc' = pc \/ pc' = [pc EXCEPT ![k] = "idle"]
      BY <1>3, TermSteps DEF Idle, Fresh
    <3> QED
      BY <3>1 DEF OperatorInv, TypeInv, TypeOK
  <2>3. pc[j] # "idle" /\ Election!Active(j)
    BY <2>2 DEF AtWork
  <2>4. CASE j # k
    BY <2>1, <2>3, <2>4
  <2>5. CASE j = k
    <3>1. ~Fresh(k)
      BY <2>5 DEF Fresh, OperatorInv, TypeInv, TypeOK
    <3>2. Deposed(k) \/ StepDown(k) \/ Terminate(k)
      BY <1>3, <2>3, <2>5, <3>1
      DEF TermChange, TermStep, Win, Start, Exit, Die, Election!Win
    <3> QED
      BY <2>1, <2>3, <2>5, <3>2
      DEF Deposed, StepDown, Terminate, Election!Release, Election!Drain, Election!Play
  <2> QED
    BY <2>4, <2>5
<1> QED
  BY <1>1, <1>2, <1>3 DEF OperatorNext, TermChange

\* A term that begins is then the only one.
LEMMA NeverOverlapped ==
  OperatorInv /\ AtWork /\ ~overlapped /\ [OperatorNext]_allVars /\ OneLeader'
    => ~overlapped'
<1> SUFFICES ASSUME OperatorInv, AtWork, ~overlapped, [OperatorNext]_allVars, OneLeader'
             PROVE  ~overlapped'
  OBVIOUS
<1>1. CASE \E k \in Controllers : Start(k)
  <2>1. PICK k \in Controllers : Start(k)
    BY <1>1
  <2>2. role' = [role EXCEPT ![k] = "running"] /\ role \in [Controllers -> Roles]
    BY <2>1 DEF Start, Election!Start, Election!Play, OperatorInv
  <2>3. ASSUME NEW j \in Controllers \ {k}, MayWrite(j) PROVE FALSE
    <3>1. Election!Active(j)
      BY <2>3, WritersAreActive
    <3>2. Election!Active(j)' /\ Election!Active(k)'
      BY <2>2, <3>1 DEF Election!Active
    <3> QED
      BY <2>3, <3>2 DEF OneLeader
  <2> QED
    BY <2>1, <2>3 DEF Start
<1>2. CASE ~\E k \in Controllers : Start(k)
  BY <1>2 DEF OperatorNext, TermStep, Win, Deposed, StepDown, Terminate, Exit, Die,
    Work, Hear, Fail, Outside, term, allVars
<1> QED
  BY <1>1, <1>2

\* What the election is for.  As long as it lets at most one process run or drain,
\* a Secret is not older than a status that says ready: also after a deletion, a
\* crash in a reconcile, a lease lost or given up before the drain.
THEOREM OneLeaderIsSafe == OperatorSpec /\ []OneLeader => []ReadyMeansWritten
<1> DEFINE Sole == OperatorInv /\ AtWork /\ ~overlapped
<1>1. OperatorInit => Sole
  <2>1. OperatorInit => AtWork /\ ~overlapped
    BY DEF OperatorInit, Init, AtWork
  <2> QED
    BY <2>1, OperatorInitInv
<1>2. Sole /\ [OperatorNext]_allVars /\ OneLeader' => Sole'
  BY OperatorStepInv, AtWorkStep, NeverOverlapped
<1>3. Sole => ReadyMeansWritten
  BY DEF OperatorInv, Handed
<1> QED
  BY <1>1, <1>2, <1>3, PTL DEF OperatorSpec
-----------------------------------------------------------------------------
(***************************************************************************)
(* What Reconciler_proofs has for one term, over any sequence of terms     *)
(***************************************************************************)

\* A step of the operator is one of Reconciler, or leaves resource, Secret and vault
\* alone and each process as it is, or as a term begins and ends.
LEMMA OperatorSteps ==
  ASSUME OperatorInv, [OperatorNext]_allVars
  PROVE  \/ ReconcilerStep
         \/ /\ UNCHANGED <<resource, secret, vault>>
            /\ \E k \in Controllers : TermChange(k) /\ (Idle \/ Fresh(k))
<1>1. CASE UNCHANGED allVars
  BY <1>1 DEF allVars, vars, term, ReconcilerStep, MayWrite
<1>2. CASE OperatorNext
  BY <1>2, WorkSteps, OutsideSteps, TermSteps DEF OperatorNext, TermChange, Objects
<1> QED
  BY <1>1, <1>2

OperatorAwake == OperatorInv /\ AwakeInv

LEMMA TermKeepsAwake ==
  ASSUME OperatorAwake, NEW k \in Controllers, Idle \/ Fresh(k), resource' = resource
  PROVE  Watching' /\ CopiesBehind' /\ NeverStranded'
<1> USE DEF OperatorAwake, AwakeInv, TypeInv, TypeOK
<1>1. CASE Idle
  BY <1>1 DEF Idle, Watching, CopiesBehind, NeverStranded, Awake
<1>2. CASE Fresh(k)
  <2>1. \A j \in Controllers \ {k} :
          /\ cache'[j] = cache[j] /\ news'[j] = news[j]
          /\ queued'[j] = queued[j] /\ pc'[j] = pc[j]
    BY <1>2 DEF Fresh
  <2>2. cache'[k] = None /\ news'[k] = (resource # None)
    BY <1>2 DEF Fresh
  <2>3. Watching'
    BY <2>1, <2>2 DEF Watching
  <2>4. CopiesBehind'
    BY <2>1, <2>2 DEF CopiesBehind
  <2>5. NeverStranded'
    BY <2>1, <2>2 DEF NeverStranded, Awake, Passes
  <2> QED
    BY <2>3, <2>4, <2>5
<1> QED
  BY <1>1, <1>2

\* A handover strands no resource: each term begins with a version on its way.
THEOREM NobodyIsStrandedByTerms == OperatorSpec => []NeverStranded
<1>1. OperatorInit => OperatorAwake
  <2>1. OperatorInit => Init
    BY DEF OperatorInit
  <2>2. Init => Watching /\ CopiesBehind /\ NeverStranded
    BY DEF Init, Watching, CopiesBehind, NeverStranded, Awake, Passes
  <2> QED
    BY <2>1, <2>2, OperatorInitInv DEF OperatorAwake, AwakeInv, OperatorInv
<1>2. OperatorAwake /\ [OperatorNext]_allVars => OperatorAwake'
  <2> SUFFICES ASSUME OperatorAwake, [OperatorNext]_allVars PROVE OperatorAwake'
    OBVIOUS
  <2>1. OperatorInv'
    BY OperatorStepInv DEF OperatorAwake
  <2>2. AwakeInv'
    BY <2>1, OperatorSteps, AwakeInvStep, TermKeepsAwake
    DEF OperatorAwake, AwakeInv, ReconcilerStep, OperatorInv
  <2> QED
    BY <2>1, <2>2 DEF OperatorAwake
<1>3. OperatorAwake => NeverStranded
  BY DEF OperatorAwake, AwakeInv
<1> QED
  BY <1>1, <1>2, <1>3, PTL DEF OperatorSpec

OperatorRest == OperatorInv /\ RestInv

LEMMA TermKeepsRest ==
  ASSUME OperatorRest, NEW k \in Controllers, Idle \/ Fresh(k),
         UNCHANGED <<resource, secret, vault>>
  PROVE  Equipped' /\ (AtRest => AtRest')
<1> USE DEF OperatorRest
<1>1. \A j \in Controllers :
        \/ cache'[j] = cache[j] /\ pc'[j] = pc[j] /\ local'[j] = local[j]
        \/ cache'[j] = None /\ pc'[j] = "idle"
  BY FreshOrSame
<1>2. Equipped'
  BY <1>1 DEF RestInv, Equipped, Writing
<1>3. Settled => Settled'
  BY DEF Settled
<1>4. \A j \in Controllers : Informed(j) => Informed(j)'
  BY <1>1 DEF Informed, Newest
<1> QED
  BY <1>2, <1>3, <1>4 DEF AtRest

\* At rest a failover disturbs nothing either.
THEOREM RestStaysOverTerms == OperatorSpec => RestIsKept
<1>1. OperatorInit => OperatorRest
  BY OperatorInitInv DEF OperatorInit, Init, OperatorRest, OperatorInv, RestInv, Equipped, Writing
<1>2. OperatorRest /\ [OperatorNext]_allVars => OperatorRest'
  <2> SUFFICES ASSUME OperatorRest, [OperatorNext]_allVars PROVE OperatorRest'
    OBVIOUS
  <2>1. OperatorInv'
    BY OperatorStepInv DEF OperatorRest
  <2>2. RestInv'
    BY <2>1, OperatorSteps, RestInvStep, TermKeepsRest
    DEF OperatorRest, RestInv, ReconcilerStep, OperatorInv
  <2> QED
    BY <2>1, <2>2 DEF OperatorRest
<1>3. OperatorRest /\ [OperatorNext]_allVars => [AtRest /\ ~AtRest' => Disturbs]_vars
  BY OperatorSteps, RestStep, TermKeepsRest DEF OperatorRest, ReconcilerStep
<1> QED
  BY <1>1, <1>2, <1>3, PTL DEF OperatorSpec, RestIsKept, Disturbs

\* As in Reconciler_proofs, for the one process that may write.
HandedForward ==
  NotBeyond /\ \A k \in Controllers : MayWrite(k) => InOrder(k) /\ Trails(k)
OperatorForward == OperatorInv /\ (~overlapped => HandedForward)

LEMMA ReconcilerStepForward ==
  ASSUME OperatorForward, ReconcilerStep, ~overlapped'
  PROVE  HandedForward' /\ Forward
<1> USE DEF OperatorForward, OperatorInv
<1>1. [Next]_vars /\ \A k \in Controllers : MayWrite(k)' => MayWrite(k)
  BY DEF ReconcilerStep
<1>2. HandedForward /\ OneWriter
  BY DEF ReconcilerStep, term, Handed
<1>3. \A k \in Controllers : MayWrite(k)' => InOrder(k)'
  BY <1>1, <1>2, InOrderStep DEF HandedForward
<1>4. CASE secret' = secret
  BY <1>1, <1>2, <1>3, <1>4, SameSecretNotBeyond, SameSecretTrails, SameSecretForward
  DEF HandedForward
<1>5. CASE secret' = None
  BY <1>3, <1>5, SameSecretForward DEF HandedForward, NotBeyond, Trails
<1>6. CASE secret' \notin {secret, None}
  <2>1. PICK k \in Controllers : /\ pc[k] = "writeSecret" /\ pc'[k] = "status"
                                 /\ secret'.generation = local[k].object.generation
                                 /\ UNCHANGED <<resource, cache, local>>
    BY <1>1, <1>6, ApplySteps
  <2>2. MayWrite(k)
    BY <2>1 DEF MayWrite
  <2>3. NotBeyond' /\ Trails(k)' /\ Forward
    BY <1>2, <2>1, <2>2, WrittenSecretTrails DEF HandedForward
  <2>4. \A j \in Controllers : MayWrite(j)' => j = k
    BY <1>1, <1>2, <2>2 DEF OneWriter
  <2> QED
    BY <1>3, <2>3, <2>4 DEF HandedForward
<1> QED
  BY <1>4, <1>5, <1>6

LEMMA TermStepForward ==
  ASSUME OperatorForward, NEW k \in Controllers, TermChange(k), ~overlapped'
  PROVE  HandedForward' /\ Forward
<1> USE DEF OperatorForward
<1>1. UNCHANGED <<resource, secret, vault>> /\ (Idle \/ Fresh(k))
  BY TermSteps DEF Objects
<1>2. HandedForward
  BY TermSteps
<1>3. Forward
  BY <1>1, SameSecretForward DEF OperatorInv
<1>4. NotBeyond'
  BY <1>1, <1>2 DEF HandedForward, NotBeyond
<1>5. ASSUME NEW j \in Controllers, MayWrite(j)' PROVE InOrder(j)' /\ Trails(j)'
  <2>1. CASE pc'[j] = "idle" /\ cache'[j] = None
    BY <2>1 DEF InOrder, Trails
  <2>2. CASE MayWrite(j) /\ cache'[j] = cache[j] /\ pc'[j] = pc[j] /\ local'[j] = local[j]
    BY <1>1, <1>2, <2>2 DEF HandedForward, InOrder, Trails
  <2>3. MayWrite(j) \/ (j = k /\ Fresh(k))
    BY <1>5, TermSteps
  <2> QED
    BY <1>1, <2>1, <2>2, <2>3, FreshOrSame DEF Fresh, OperatorInv, TypeInv, TypeOK
<1> QED
  BY <1>3, <1>4, <1>5 DEF HandedForward

\* Unless a term began while another process could still write, no sequence of terms,
\* drains and deaths takes the Secret back to an older spec.
THEOREM HandoverGoesForward == OperatorSpec => HandoverAdvances
<1>1. OperatorInit => OperatorForward
  BY OperatorInitInv
  DEF OperatorInit, Init, Election!Init, OperatorForward, HandedForward, NotBeyond, MayWrite
<1>2. ASSUME OperatorForward, [OperatorNext]_allVars
      PROVE  OperatorForward' /\ (~overlapped' => Forward)
  <2>1. OperatorInv' /\ OperatorInv
    BY <1>2, OperatorStepInv DEF OperatorForward
  <2> QED
    BY <1>2, <2>1, OperatorSteps, ReconcilerStepForward, TermStepForward DEF OperatorForward
<1>3. OperatorForward /\ [OperatorNext]_allVars =>
        [~overlapped' /\ secret # None /\ secret' # None =>
           secret'.generation >= secret.generation]_allVars
  BY <1>2 DEF Forward
<1> QED
  BY <1>1, <1>2, <1>3, PTL DEF OperatorSpec, HandoverAdvances
=============================================================================
