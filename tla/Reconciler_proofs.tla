-------------------------- MODULE Reconciler_proofs --------------------------
(***************************************************************************)
(* Theorems about Reconciler, for any processes, specs and bounds, and     *)
(* their proofs.                                                           *)
(***************************************************************************)
EXTENDS Reconciler, TLAPS

\* Needed to tell an object from its absence.
USE ReconcilerAssumption

-----------------------------------------------------------------------------
(***************************************************************************)
(* Type correctness                                                        *)
(***************************************************************************)

LEMMA TypeOKInit == Init => TypeOK
BY DEF Init, TypeOK, Resources, Generations, NoStatus, NoLocals, Statuses, Times,
       Conditions, Locals

\* The statuses that the two status functions and the merge patch compute.
LEMMA StatusType ==
  ASSUME NEW object \in Resources, NEW old \in Statuses, now \in 1..MaxNow
  PROVE  /\ ReadyStatus(object) \in Statuses
         /\ FailedStatus(object) \in Statuses
         /\ \A new \in Statuses : status_patch(old, new) \in Statuses
<1>1. object.status \in Statuses /\ object.generation \in Generations
  BY DEF Resources
<1>2. ReadyStatus(object) \in Statuses
  BY <1>1 DEF ReadyStatus, Statuses, Times, Conditions, Condition, upsert_condition
<1>3. FailedStatus(object) \in Statuses
  BY <1>1 DEF FailedStatus, Statuses, Times, Conditions, Condition, upsert_condition
<1>4. ASSUME NEW new \in Statuses PROVE status_patch(old, new) \in Statuses
  BY DEF status_patch, Kept, Statuses
<1> QED
  BY <1>2, <1>3, <1>4

\* The parts of the state that several actions rewrite keep their types.
LEMMA ReturnType ==
  ASSUME TypeOK, NEW k \in Controllers, NEW action \in {"no", "timer"}, Return(k, action)
  PROVE  /\ pc' \in [Controllers -> Requests \cup {"idle"}]
         /\ local' \in [Controllers -> Locals]
         /\ queued' \in [Controllers -> {"no", "timer", "event"}]
BY DEF TypeOK, Return, NoLocals, Locals

LEMMA WriteType ==
  ASSUME TypeOK, NEW new \in Resources \cup {None}, Write(new)
  PROVE  resource' \in Resources \cup {None} /\ news' \in [Controllers -> BOOLEAN]
BY DEF TypeOK, Write

LEMMA WriteToSecretType ==
  ASSUME TypeOK, NEW new \in Secrets \cup {None}, WriteToSecret(new)
  PROVE  /\ secret' \in Secrets \cup {None}
         /\ queued' \in [Controllers -> {"no", "timer", "event"}]
BY DEF TypeOK, WriteToSecret

\* A resource keeps its type when a field of it is rewritten.
LEMMA ResourceType ==
  ASSUME NEW r \in Resources
  PROVE  /\ [r EXCEPT !.finalizer = TRUE] \in Resources
         /\ \A s \in Statuses : [r EXCEPT !.status = s] \in Resources
         /\ r.generation + 1 \in Generations =>
              /\ [r EXCEPT !.generation = @ + 1] \in Resources
              /\ [r EXCEPT !.deleting = TRUE, !.generation = @ + 1] \in Resources
BY DEF Resources

\* TypeOK is not inductive.  A deletion makes a generation too, which has to be
\* left when it comes; and a reconcile has an object to work on.
DeletedLast ==
  resource # None /\ ~resource.deleting => resource.generation <= MaxGeneration

ObjectAtHand == \A k \in Controllers : pc[k] # "idle" => local[k].object # None
TypeInv == TypeOK /\ DeletedLast /\ ObjectAtHand

LEMMA LocalsType ==
  ASSUME NEW l \in Locals
  PROVE  /\ \A o \in Resources : [l EXCEPT !.object = o] \in Locals
         /\ \A v \in 0..MaxVault : [l EXCEPT !.values = v, !.success = TRUE] \in Locals
         /\ \A b \in BOOLEAN : [l EXCEPT !.found = b] \in Locals
BY DEF Locals

LEMMA ReconcileType ==
  ASSUME TypeOK, ObjectAtHand, NEW k \in Controllers, ControllerStep(k)
  PROVE  TypeOK'
<1> USE DEF world
<1>0. \A object \in Resources : FirstRequest(object) \in Requests
  BY DEF FirstRequest, Requests
<1>1. CASE Reconcile(k)
  <2>1. /\ queued' \in [Controllers -> {"no", "timer", "event"}]
        /\ burst' \in [Controllers -> 0..BurstLimit]
    BY <1>1 DEF Reconcile, TypeOK
  <2>2. CASE cache[k] = None
    BY <1>1, <2>1, <2>2 DEF Reconcile, TypeOK
  <2>3. CASE cache[k] # None
    <3>1. cache[k] \in Resources
      BY <2>3 DEF TypeOK
    <3>2. local' \in [Controllers -> Locals]
      <4>1. [local[k] EXCEPT !.object = cache[k]] \in Locals
        BY <3>1, LocalsType DEF TypeOK
      <4> QED
        BY <1>1, <2>3, <4>1 DEF Reconcile, TypeOK
    <3>3. pc' \in [Controllers -> Requests \cup {"idle"}]
      BY <1>0, <1>1, <2>3, <3>1 DEF Reconcile, Ask, TypeOK
    <3> QED
      BY <1>1, <2>1, <3>2, <3>3 DEF Reconcile, TypeOK
  <2> QED
    BY <2>2, <2>3
<1>2. CASE AddFinalizer(k)
  <2>1. resource # None => [resource EXCEPT !.finalizer = TRUE] \in Resources
    BY ResourceType DEF TypeOK
  <2>2. /\ resource' \in Resources \cup {None}
        /\ news' \in [Controllers -> BOOLEAN]
    BY <1>2, <2>1, WriteType DEF AddFinalizer, TypeOK
  <2> QED
    BY <1>2, <2>2, ReturnType DEF AddFinalizer, AwaitChange, error_policy, Requeue, TypeOK
<1>3. CASE RemoveFinalizer(k)
  <2>1. /\ resource' \in Resources \cup {None}
        /\ news' \in [Controllers -> BOOLEAN]
    BY <1>3, WriteType DEF RemoveFinalizer, TypeOK
  <2> QED
    BY <1>3, <2>1, ReturnType DEF RemoveFinalizer, AwaitChange, error_policy, Requeue, TypeOK
<1>4. CASE FetchSecrets(k)
  <2>1. local' \in [Controllers -> Locals]
    <3>1. local' = [local EXCEPT ![k] = [@ EXCEPT !.values = vault, !.success = TRUE]]
      BY <1>4 DEF FetchSecrets
    <3>2. [local[k] EXCEPT !.values = vault, !.success = TRUE] \in Locals
      BY LocalsType DEF TypeOK
    <3> QED
      BY <3>1, <3>2 DEF TypeOK
  <2>2. pc' \in [Controllers -> Requests \cup {"idle"}]
    BY <1>4 DEF FetchSecrets, Ask, TypeOK, Requests
  <2> QED
    BY <1>4, <2>1, <2>2 DEF FetchSecrets, TypeOK
<1>5. CASE GetSecret(k)
  <2>1. local' \in [Controllers -> Locals]
    <3>1. local' = [local EXCEPT ![k] = [@ EXCEPT !.found = (secret # None)]]
      BY <1>5 DEF GetSecret
    <3>2. [local[k] EXCEPT !.found = (secret # None)] \in Locals
      BY LocalsType DEF TypeOK
    <3> QED
      BY <3>1, <3>2 DEF TypeOK
  <2>2. pc' \in [Controllers -> Requests \cup {"idle"}]
    BY <1>5 DEF GetSecret, Ask, TypeOK, Requests
  <2> QED
    BY <1>5, <2>1, <2>2 DEF GetSecret, TypeOK
<1>6. CASE WriteSecret(k)
  <2>1. CASE pc' = [pc EXCEPT ![k] = "status"] /\ UNCHANGED local
             /\ \E applied \in BOOLEAN : WriteToSecret(Desired(k, applied))
    <3>1. PICK applied \in BOOLEAN : WriteToSecret(Desired(k, applied))
      BY <2>1
    <3>2. local[k].object \in Resources /\ local[k].values \in 0..MaxVault
      BY <1>6 DEF WriteSecret, ObjectAtHand, TypeOK, Locals
    <3>3. Desired(k, applied) \in Secrets
      BY <3>2 DEF Desired, Secrets, Resources
    <3> QED
      BY <1>6, <2>1, <3>1, <3>3, WriteToSecretType DEF WriteSecret, TypeOK, Requests
  <2>2. CASE Return(k, error_policy) /\ UNCHANGED secret
    BY <1>6, <2>2, ReturnType DEF WriteSecret, error_policy, Requeue, TypeOK
  <2> QED
    BY <1>6, <2>1, <2>2 DEF WriteSecret, Ask
<1>7. CASE PatchStatus(k)
  <2>1. /\ resource' \in Resources \cup {None}
        /\ news' \in [Controllers -> BOOLEAN]
    <3>1. local[k].object \in Resources
      BY <1>7 DEF PatchStatus, ObjectAtHand, TypeOK, Locals
    <3>2. CASE resource = None
      BY <1>7, <3>2 DEF PatchStatus, TypeOK
    <3>3. CASE resource # None
      <4>1. resource \in Resources /\ resource.status \in Statuses
        BY <3>3 DEF TypeOK, Resources
      <4>2. PICK new \in {ReadyStatus(local[k].object), FailedStatus(local[k].object)} :
              Write([resource EXCEPT !.status = status_patch(@, new)])
        BY <1>7, <3>3 DEF PatchStatus
      <4>3. status_patch(resource.status, new) \in Statuses
        BY <3>1, <4>1, StatusType DEF TypeOK
      <4> QED
        BY <4>1, <4>2, <4>3, ResourceType, WriteType
    <3> QED
      BY <3>2, <3>3
  <2> QED
    BY <1>7, <2>1, ReturnType DEF PatchStatus, error_policy, Requeue, TypeOK
<1> QED
  BY <1>1, <1>2, <1>3, <1>4, <1>5, <1>6, <1>7 DEF ControllerStep

LEMMA OutsideType ==
  ASSUME TypeInv,
         \/ EditSpec \/ DeleteResource \/ DropSecret \/ CollectSecret
         \/ ChangeVault \/ Tick
  PROVE  TypeOK'
<1> USE DEF world, OutsideCause, TypeInv
<1>1. CASE EditSpec
  <2>1. resource \in Resources /\ resource.generation + 1 \in Generations
    BY <1>1 DEF EditSpec, TypeOK, Resources, Generations
  <2>2. /\ resource' \in Resources \cup {None}
        /\ news' \in [Controllers -> BOOLEAN]
    BY <1>1, <2>1, ResourceType, WriteType DEF EditSpec
  <2> QED
    BY <1>1, <2>2 DEF EditSpec, TypeOK
<1>2. CASE DeleteResource
  <2>1. resource \in Resources /\ resource.generation + 1 \in Generations
    BY <1>2 DEF DeleteResource, DeletedLast, TypeOK, Resources, Generations
  <2>2. /\ resource' \in Resources \cup {None}
        /\ news' \in [Controllers -> BOOLEAN]
    BY <1>2, <2>1, ResourceType, WriteType DEF DeleteResource
  <2> QED
    BY <1>2, <2>2 DEF DeleteResource, TypeOK
<1>3. CASE DropSecret \/ CollectSecret
  <2>1. faults' \in 0..MaxFaults
    BY <1>3 DEF DropSecret, CollectSecret, TypeOK
  <2> QED
    BY <1>3, <2>1, WriteToSecretType DEF DropSecret, CollectSecret, TypeOK
<1>4. CASE ChangeVault
  <2>1. vault' \in 0..MaxVault /\ faults' \in 0..MaxFaults
    BY <1>4 DEF ChangeVault, TypeOK
  <2> QED
    BY <1>4, <2>1 DEF ChangeVault, TypeOK
<1>5. CASE Tick
  BY <1>5 DEF Tick, TypeOK
<1> QED
  BY <1>1, <1>2, <1>3, <1>4, <1>5

\* The status of the resource is replaced by one computed from the object of k.
Patched(k) ==
  \E new \in {ReadyStatus(local[k].object), FailedStatus(local[k].object)} :
    resource' = [resource EXCEPT !.status = status_patch(@, new)]

\* What a step may do to the resource: it is left alone, goes, or is rewritten in
\* one of five ways.
LEMMA ResourceSteps ==
  ASSUME [Next]_vars
  PROVE  \/ resource' = resource
         \/ resource' = None
         \/ resource # None /\ resource' = [resource EXCEPT !.finalizer = TRUE]
         \/ resource # None /\ \E k \in Controllers : PatchStatus(k) /\ Patched(k)
         \/ /\ resource # None /\ resource.generation < MaxGeneration
            /\ resource' = [resource EXCEPT !.generation = @ + 1]
         \/ /\ resource # None
            /\ resource' = [resource EXCEPT !.deleting = TRUE, !.generation = @ + 1]
<1>1. ASSUME NEW k \in Controllers, PatchStatus(k)
      PROVE  \/ resource' = resource
             \/ resource # None /\ PatchStatus(k) /\ Patched(k)
  BY <1>1 DEF PatchStatus, Write, Patched
<1>2. ASSUME NEW k \in Controllers, ControllerStep(k), ~PatchStatus(k)
      PROVE  \/ resource' = resource
             \/ resource' = None
             \/ resource # None /\ resource' = [resource EXCEPT !.finalizer = TRUE]
  BY <1>2 DEF ControllerStep, Reconcile, AddFinalizer, RemoveFinalizer, FetchSecrets,
              GetSecret, WriteSecret, Write
<1>3. ASSUME NEW k \in Controllers,
             Deliver(k) \/ FetchFails(k) \/ RequestFails(k) \/ Crash(k)
      PROVE  resource' = resource
  BY <1>3 DEF Deliver, FetchFails, RequestFails, Crash
<1>4. ASSUME DropSecret \/ CollectSecret \/ ChangeVault \/ Tick \/ UNCHANGED vars
      PROVE  resource' = resource
  BY <1>4 DEF DropSecret, CollectSecret, ChangeVault, Tick, vars
<1> QED
  BY <1>1, <1>2, <1>3, <1>4 DEF Next, EditSpec, DeleteResource, Write

\* What a step does to the program counter and the object of a process.
LEMMA ObjectSteps ==
  ASSUME TypeOK, [Next]_vars, NEW k \in Controllers
  PROVE  \/ pc'[k] = "idle"
         \/ pc[k] # "idle" /\ local'[k].object = local[k].object
         \/ cache[k] # None /\ local'[k].object = cache[k]
<1> USE DEF TypeOK, Locals
<1>1. ASSUME NEW j \in Controllers, j # k, Deliver(j) \/ ControllerStep(j) \/ FetchFails(j)
                                           \/ RequestFails(j) \/ Crash(j)
      PROVE  pc'[k] = pc[k] /\ local'[k] = local[k]
  BY <1>1 DEF Deliver, ControllerStep, Reconcile, AddFinalizer, RemoveFinalizer, FetchSecrets,
       GetSecret, WriteSecret, PatchStatus, FetchFails, RequestFails, Crash, Return, Ask
<1>2. CASE Deliver(k) \/ FetchSecrets(k) \/ GetSecret(k) \/ FetchFails(k)
  BY <1>2 DEF Deliver, FetchSecrets, GetSecret, FetchFails, Ask
<1>3. CASE Reconcile(k)
  BY <1>3 DEF Reconcile, Ask
<1>4. CASE AddFinalizer(k) \/ RemoveFinalizer(k) \/ PatchStatus(k) \/ RequestFails(k) \/ Crash(k)
  BY <1>4 DEF AddFinalizer, RemoveFinalizer, PatchStatus, RequestFails, Crash, Return
<1>5. CASE WriteSecret(k)
  BY <1>5 DEF WriteSecret, Return, Ask
<1>6. CASE \/ EditSpec \/ DeleteResource \/ DropSecret \/ CollectSecret
           \/ ChangeVault \/ Tick \/ UNCHANGED vars
  BY <1>6 DEF EditSpec, DeleteResource, DropSecret, CollectSecret, ChangeVault, Tick, vars
<1> QED
  BY <1>1, <1>2, <1>3, <1>4, <1>5, <1>6 DEF Next, ControllerStep

LEMMA TypeInvStep == TypeInv /\ [Next]_vars => TypeInv'
<1> SUFFICES ASSUME TypeInv, [Next]_vars PROVE TypeInv'
  OBVIOUS
<1> USE DEF world
<1>1. ASSUME NEW k \in Controllers, Deliver(k) PROVE TypeOK'
  BY <1>1 DEF TypeInv, TypeOK, Deliver
<1>2. ASSUME NEW k \in Controllers, FetchFails(k) \/ RequestFails(k) \/ Crash(k) PROVE TypeOK'
  <2>1. CASE FetchFails(k)
    BY <2>1 DEF TypeInv, TypeOK, FetchFails, Ask, Requests
  <2>2. CASE RequestFails(k)
    BY <2>2, ReturnType DEF TypeInv, TypeOK, RequestFails, error_policy, Requeue
  <2>3. CASE Crash(k)
    <3>1. NoLocals \in Locals
      BY DEF NoLocals, Locals
    <3> QED
      BY <2>3, <3>1 DEF TypeInv, TypeOK, Crash, OutsideCause
  <2> QED
    BY <1>2, <2>1, <2>2, <2>3
<1>3. TypeOK'
  BY <1>1, <1>2, ReconcileType, OutsideType DEF Next, TypeInv, TypeOK, vars
<1>4. DeletedLast'
  <2>1. resource # None =>
          resource \in [generation : Generations, deleting : BOOLEAN,
                        finalizer : BOOLEAN, status : Statuses]
    BY DEF TypeInv, TypeOK, Resources
  <2>2. resource # None => resource.generation \in Nat
    BY <2>1 DEF Generations
  <2>3. CASE resource' = resource \/ resource' = None
    BY <2>3 DEF TypeInv, DeletedLast
  <2>4. CASE resource # None /\ resource' = [resource EXCEPT !.finalizer = TRUE]
    <3>1. resource'.deleting = resource.deleting /\ resource'.generation = resource.generation
      BY <2>1, <2>4
    <3> QED
      BY <2>4, <3>1 DEF TypeInv, DeletedLast
  <2>5. CASE resource # None /\ \E k \in Controllers : PatchStatus(k) /\ Patched(k)
    <3>1. resource'.deleting = resource.deleting /\ resource'.generation = resource.generation
      BY <2>1, <2>5 DEF Patched
    <3> QED
      BY <2>5, <3>1 DEF TypeInv, DeletedLast
  <2>6. CASE /\ resource # None /\ resource.generation < MaxGeneration
             /\ resource' = [resource EXCEPT !.generation = @ + 1]
    <3>1. resource'.generation = resource.generation + 1
      BY <2>1, <2>6
    <3> QED
      BY <2>2, <2>6, <3>1 DEF DeletedLast
  <2>7. CASE /\ resource # None
             /\ resource' = [resource EXCEPT !.deleting = TRUE, !.generation = @ + 1]
    <3>1. resource'.deleting
      BY <2>1, <2>7
    <3> QED
      BY <3>1 DEF DeletedLast
  <2> QED
    BY <2>3, <2>4, <2>5, <2>6, <2>7, ResourceSteps
<1>5. ObjectAtHand'
  BY ObjectSteps DEF TypeInv, ObjectAtHand
<1> QED
  BY <1>3, <1>4, <1>5 DEF TypeInv

\* Whatever users, faults and processes do, every variable keeps its type; in
\* particular no status holds a condition of a generation that never was.
THEOREM TypeCorrect == Spec => []TypeOK
<1>1. Init => TypeInv
  BY TypeOKInit DEF Init, TypeInv, DeletedLast, ObjectAtHand
<1>2. TypeInv => TypeOK
  BY DEF TypeInv
<1> QED
  BY <1>1, <1>2, TypeInvStep, PTL DEF Spec

-----------------------------------------------------------------------------
(***************************************************************************)
(* The status is consistent                                                *)
(***************************************************************************)

LEMMA PatchedConsistent ==
  ASSUME NEW object \in Resources, NEW old \in Statuses,
         NEW new \in {ReadyStatus(object), FailedStatus(object)}
  PROVE  Consistent(status_patch(old, new))
<1>1. /\ object.status \in Statuses
      /\ object.generation \in Generations
      /\ object.status.conditions \in SUBSET Conditions
  BY DEF Resources, Statuses
<1>2. CASE new = ReadyStatus(object)
  <2>1. /\ status_patch(old, new).ready = TRUE
        /\ status_patch(old, new).failure = FALSE
        /\ status_patch(old, new).observed = object.generation
        /\ status_patch(old, new).conditions = ReadyStatus(object).conditions
    BY <1>2 DEF status_patch, ReadyStatus
  <2>2. ReadyStatus(object).conditions = {Condition("Ready", "True", object.generation)}
    BY <1>1 DEF ReadyStatus, upsert_condition, Condition, Conditions
  <2> QED
    BY <2>1, <2>2 DEF Consistent, Condition
<1>3. CASE new = FailedStatus(object)
  <2>1. /\ status_patch(old, new).ready = FALSE
        /\ status_patch(old, new).failure = TRUE
        /\ status_patch(old, new).observed = object.generation
        /\ status_patch(old, new).conditions = FailedStatus(object).conditions
    BY <1>3 DEF status_patch, FailedStatus
  <2>2. FailedStatus(object).conditions =
          {Condition("Ready", "False", object.generation),
           Condition("SyncFailed", "True", object.generation)}
    BY <1>1 DEF FailedStatus, upsert_condition, Condition, Conditions
  <2> QED
    BY <2>1, <2>2 DEF Consistent, Condition
<1> QED
  BY <1>2, <1>3

LEMMA StatusStep ==
  ASSUME TypeInv, StatusConsistent, [Next]_vars PROVE StatusConsistent'
<1>1. resource # None => resource \in Resources /\ resource.status \in Statuses
  BY DEF TypeInv, TypeOK, Resources
<1>2. CASE resource # None /\ \E k \in Controllers : PatchStatus(k) /\ Patched(k)
  <2>1. PICK k \in Controllers : PatchStatus(k) /\ Patched(k)
    BY <1>2
  <2>2. local[k].object \in Resources
    BY <2>1 DEF PatchStatus, TypeInv, ObjectAtHand, TypeOK, Locals
  <2>3. PICK new \in {ReadyStatus(local[k].object), FailedStatus(local[k].object)} :
          resource' = [resource EXCEPT !.status = status_patch(@, new)]
    BY <2>1 DEF Patched
  <2>4. resource'.status = status_patch(resource.status, new)
    BY <1>1, <1>2, <2>3 DEF Resources
  <2> QED
    BY <1>1, <1>2, <2>2, <2>4, PatchedConsistent DEF StatusConsistent
<1>3. CASE resource' = resource \/ resource' = None
  BY <1>3 DEF StatusConsistent
<1>4. CASE /\ resource # None
           /\ \/ resource' = [resource EXCEPT !.finalizer = TRUE]
              \/ resource' = [resource EXCEPT !.generation = @ + 1]
              \/ resource' = [resource EXCEPT !.deleting = TRUE, !.generation = @ + 1]
  <2>1. resource'.status = resource.status
    BY <1>1, <1>4 DEF Resources
  <2> QED
    BY <1>4, <2>1 DEF StatusConsistent
<1> QED
  BY <1>2, <1>3, <1>4, ResourceSteps

\* Patches of any number of processes, each computed from an old copy of the
\* resource, leave a status that does not contradict itself.
THEOREM StatusIsConsistent == Spec => []StatusConsistent
<1> DEFINE Inv == TypeInv /\ StatusConsistent
<1>1. Init => Inv
  BY TypeOKInit DEF Init, TypeInv, DeletedLast, ObjectAtHand, StatusConsistent, NoStatus
<1>2. Inv /\ [Next]_vars => Inv'
  BY TypeInvStep, StatusStep
<1>3. Inv => StatusConsistent
  OBVIOUS
<1> QED
  BY <1>1, <1>2, <1>3, PTL DEF Spec

-----------------------------------------------------------------------------
(***************************************************************************)
(* A ready status has a Secret, when one process reconciles at a time      *)
(*                                                                         *)
(* The generations of the status, of the object at hand, of the copy in    *)
(* the reflector and of the resource are in this order (Ordered), since    *)
(* copies are taken later and later.  So the Secret that the object at     *)
(* hand is written to is never older than the status says (Covered).       *)
(***************************************************************************)

\* A reconcile has values only after it has fetched them.
Fetched == \A k \in Controllers :
  local[k].success => pc[k] \in {"getSecret", "writeSecret", "status"}

Ordered == resource # None =>
  /\ resource.status.observed <= resource.generation
  /\ \A k \in Controllers :
       /\ cache[k] # None => /\ resource.status.observed <= cache[k].generation
                             /\ cache[k].generation <= resource.generation
       /\ pc[k] # "idle" =>
            /\ resource.status.observed <= local[k].object.generation
            /\ local[k].object.generation <= resource.generation
            /\ cache[k] # None => local[k].object.generation <= cache[k].generation

Covered == \A k \in Controllers :
  pc[k] = "status" /\ local[k].success /\ secret # None =>
    secret.generation >= local[k].object.generation

WrittenInv == TypeInv /\ Fetched /\ Ordered /\ Covered /\ ReadyMeansWritten

LEMMA Numbers ==
  ASSUME TypeInv
  PROVE  /\ resource # None => /\ resource \in Resources
                               /\ resource.generation \in Nat
                               /\ resource.status.observed \in Nat
         /\ secret # None => secret.generation \in Nat
         /\ \A k \in Controllers :
              /\ cache[k] # None => cache[k] \in Resources /\ cache[k].generation \in Nat
              /\ pc[k] # "idle" => /\ local[k].object \in Resources
                                   /\ local[k].object.generation \in Nat
<1>1. \A r \in Resources : r.generation \in Nat /\ r.status.observed \in Nat
  BY DEF Resources, Statuses, Generations
<1>2. \A s \in Secrets : s.generation \in Nat
  BY DEF Secrets, Generations
<1>3. \A k \in Controllers : pc[k] # "idle" => local[k].object \in Resources
  BY DEF TypeInv, TypeOK, ObjectAtHand, Locals
<1> QED
  BY <1>1, <1>2, <1>3 DEF TypeInv, TypeOK

\* A step that is no PatchStatus keeps the status, and no step goes back to an
\* earlier generation or brings the resource back.
LEMMA ResourceGrows ==
  ASSUME TypeInv, [Next]_vars, resource' # None
  PROVE  /\ resource # None /\ resource'.generation >= resource.generation
         /\ \/ resource'.status = resource.status
            \/ \E k \in Controllers : PatchStatus(k) /\ Patched(k)
<1>1. resource # None => resource \in Resources /\ resource.generation \in Nat
  BY Numbers
<1>2. CASE resource' = resource
  BY <1>1, <1>2
<1>3. CASE resource # None /\ resource' = [resource EXCEPT !.finalizer = TRUE]
  BY <1>1, <1>3 DEF Resources
<1>4. CASE resource # None /\ \E k \in Controllers : PatchStatus(k) /\ Patched(k)
  BY <1>1, <1>4 DEF Patched, Resources
<1>5. CASE resource # None /\ resource' = [resource EXCEPT !.generation = @ + 1]
  BY <1>1, <1>5 DEF Resources
<1>6. CASE /\ resource # None
           /\ resource' = [resource EXCEPT !.deleting = TRUE, !.generation = @ + 1]
  BY <1>1, <1>6 DEF Resources
<1> QED
  BY <1>2, <1>3, <1>4, <1>5, <1>6, ResourceSteps

\* A patch makes the generation of the object at hand the observed one.
LEMMA PatchObserves ==
  ASSUME TypeInv, NEW k \in Controllers, PatchStatus(k), resource' # None
  PROVE  /\ resource # None /\ resource'.generation = resource.generation
         /\ resource'.status.observed = local[k].object.generation
         /\ resource'.status.ready => local[k].success
<1>1. resource # None
  BY DEF PatchStatus
<1>2. resource \in Resources
  BY <1>1, Numbers
<1>3. PICK new \in {ReadyStatus(local[k].object), FailedStatus(local[k].object)} :
        /\ resource' = [resource EXCEPT !.status = status_patch(@, new)]
        /\ new = ReadyStatus(local[k].object) \/ ~new.ready
        /\ ~local[k].success => new = FailedStatus(local[k].object)
  BY <1>1 DEF PatchStatus, Write, FailedStatus
<1>4. resource'.generation = resource.generation
  BY <1>2, <1>3 DEF Resources
<1>5. resource'.status = status_patch(resource.status, new)
  BY <1>2, <1>3 DEF Resources
<1>6. /\ status_patch(resource.status, new).observed = local[k].object.generation
      /\ status_patch(resource.status, new).ready = new.ready
  BY DEF status_patch, ReadyStatus, FailedStatus
<1>7. ~FailedStatus(local[k].object).ready
  BY DEF FailedStatus
<1>8. resource'.status.observed = local[k].object.generation
  BY <1>5, <1>6
<1>9. ASSUME resource'.status.ready PROVE local[k].success
  <2>1. new.ready
    BY <1>5, <1>6, <1>9
  <2>2. new # FailedStatus(local[k].object)
    BY <1>7, <2>1, Zenon
  <2> QED
    BY <1>3, <2>2, Zenon
<1> QED
  BY <1>1, <1>4, <1>8, <1>9, Zenon

\* What a step may do to the reflector's copy.
LEMMA CacheSteps ==
  ASSUME TypeOK, [Next]_vars, NEW k \in Controllers
  PROVE  \/ cache'[k] = cache[k]
         \/ cache'[k] = None
         \/ cache'[k] = resource /\ UNCHANGED <<resource, secret, pc, local>>
BY DEF TypeOK, Next, Deliver, ControllerStep, Reconcile, AddFinalizer, RemoveFinalizer,
       FetchSecrets, GetSecret, WriteSecret, PatchStatus, FetchFails, RequestFails, Crash,
       EditSpec, DeleteResource, DropSecret, CollectSecret, ChangeVault, Tick, vars

\* What a step may do to the Secret: it goes, or the object at hand is written.
LEMMA SecretSteps ==
  ASSUME [Next]_vars
  PROVE  \/ secret' = secret
         \/ secret' = None
         \/ \E k \in Controllers : /\ pc[k] = "writeSecret"
                                   /\ secret'.generation = local[k].object.generation
                                   /\ UNCHANGED <<resource, local>>
<1>1. ASSUME NEW k \in Controllers, WriteSecret(k), secret' # secret
      PROVE  /\ pc[k] = "writeSecret"
             /\ secret'.generation = local[k].object.generation
             /\ UNCHANGED <<resource, local>>
  BY <1>1 DEF WriteSecret, WriteToSecret, Desired
<1> QED
  BY <1>1 DEF Next, Deliver, ControllerStep, Reconcile, AddFinalizer, RemoveFinalizer,
       FetchSecrets, GetSecret, PatchStatus, FetchFails, RequestFails, Crash, EditSpec,
       DeleteResource, DropSecret, CollectSecret, ChangeVault, Tick, vars, WriteToSecret

\* What a step may do to a reconcile: nothing, or it ends, begins or goes on.
LEMMA ReconcileSteps ==
  ASSUME TypeOK, [Next]_vars, NEW k \in Controllers
  PROVE  \/ pc'[k] = pc[k] /\ local'[k] = local[k] /\ secret' \in {secret, None}
         \/ pc'[k] = pc[k] /\ local'[k] = local[k] /\ \E j \in Controllers : j # k
         \/ pc'[k] = "idle" /\ ~local'[k].success
         \/ pc[k] = "idle" /\ local'[k].success = local[k].success
         \/ pc[k] = "fetch" /\ pc'[k] = "getSecret"
         \/ pc[k] = "fetch" /\ pc'[k] = "status" /\ local'[k].success = local[k].success
         \/ pc[k] = "getSecret" /\ pc'[k] = "writeSecret"
         \/ /\ pc[k] = "writeSecret" /\ pc'[k] = "status" /\ local'[k] = local[k]
            /\ secret'.generation = local[k].object.generation
<1> USE DEF TypeOK, Locals
<1>1. ASSUME NEW j \in Controllers, j # k, Deliver(j) \/ ControllerStep(j) \/ FetchFails(j)
                                           \/ RequestFails(j) \/ Crash(j)
      PROVE  pc'[k] = pc[k] /\ local'[k] = local[k]
  BY <1>1 DEF Deliver, ControllerStep, Reconcile, AddFinalizer, RemoveFinalizer, FetchSecrets,
       GetSecret, WriteSecret, PatchStatus, FetchFails, RequestFails, Crash, Return, Ask
<1>2. CASE FetchSecrets(k) \/ GetSecret(k) \/ FetchFails(k)
  BY <1>2 DEF FetchSecrets, GetSecret, FetchFails, Ask
<1>3. CASE Reconcile(k)
  BY <1>3 DEF Reconcile, Ask
<1>4. CASE AddFinalizer(k) \/ RemoveFinalizer(k) \/ PatchStatus(k) \/ RequestFails(k) \/ Crash(k)
  BY <1>4 DEF AddFinalizer, RemoveFinalizer, PatchStatus, RequestFails, Crash, Return, NoLocals
<1>5. CASE WriteSecret(k)
  BY <1>5 DEF WriteSecret, WriteToSecret, Desired, Return, Ask, NoLocals
<1>6. CASE \/ Deliver(k) \/ EditSpec \/ DeleteResource \/ DropSecret \/ CollectSecret
           \/ ChangeVault \/ Tick \/ UNCHANGED vars
  BY <1>6 DEF Deliver, EditSpec, DeleteResource, DropSecret, CollectSecret, ChangeVault, Tick,
       vars, WriteToSecret
<1> QED
  BY <1>1, <1>2, <1>3, <1>4, <1>5, <1>6 DEF Next, ControllerStep

Alone == \A j, k \in Controllers : j = k

LEMMA OrderedStep ==
  ASSUME Alone, WrittenInv, [Next]_vars PROVE Ordered'
<1> USE DEF WrittenInv
<1> SUFFICES ASSUME resource' # None
             PROVE  Ordered'
  BY DEF Ordered
<1>1. /\ resource # None /\ resource'.generation >= resource.generation
      /\ resource.generation \in Nat /\ resource.status.observed \in Nat
  BY ResourceGrows, Numbers
<1>2. TypeInv' /\ resource'.generation \in Nat /\ resource'.status.observed \in Nat
  <2>1. TypeInv'
    BY TypeInvStep
  <2>2. resource' \in Resources
    BY <2>1 DEF TypeInv, TypeOK
  <2> QED
    BY <2>1, <2>2 DEF Resources, Statuses, Generations
<1>3. CASE resource'.status = resource.status
  <2>1. resource'.status.observed <= resource'.generation
    BY <1>1, <1>2, <1>3 DEF Ordered
  <2>2. ASSUME NEW k \in Controllers, cache'[k] # None
        PROVE  /\ resource'.status.observed <= cache'[k].generation
               /\ cache'[k].generation <= resource'.generation
    BY <1>1, <1>2, <1>3, <2>1, <2>2, CacheSteps, Numbers DEF Ordered, TypeInv
  <2>3. ASSUME NEW k \in Controllers, pc'[k] # "idle"
        PROVE  /\ resource'.status.observed <= local'[k].object.generation
               /\ local'[k].object.generation <= resource'.generation
               /\ cache'[k] # None => local'[k].object.generation <= cache'[k].generation
    <3>1. CASE pc[k] # "idle" /\ local'[k].object = local[k].object
      BY <1>1, <1>2, <1>3, <3>1, CacheSteps, Numbers DEF Ordered, TypeInv
    <3>2. CASE cache[k] # None /\ local'[k].object = cache[k]
      BY <1>1, <1>2, <1>3, <3>2, CacheSteps, Numbers DEF Ordered, TypeInv
    <3> QED
      BY <2>3, <3>1, <3>2, ObjectSteps DEF TypeInv
  <2> QED
    BY <2>1, <2>2, <2>3 DEF Ordered
<1>4. CASE \E k \in Controllers : PatchStatus(k)
  <2>1. PICK k \in Controllers : PatchStatus(k)
    BY <1>4
  <2>2. /\ resource'.generation = resource.generation
        /\ resource'.status.observed = local[k].object.generation
    BY <2>1, PatchObserves
  <2>3. pc[k] # "idle" /\ pc'[k] = "idle" /\ cache' = cache
    BY <2>1 DEF PatchStatus, Return, TypeInv, TypeOK
  <2>4. \A j \in Controllers : j = k
    BY DEF Alone
  <2> QED
    BY <1>1, <2>2, <2>3, <2>4 DEF Ordered
<1> QED
  BY <1>3, <1>4, ResourceGrows

LEMMA WrittenStep ==
  ASSUME Alone, WrittenInv, [Next]_vars PROVE WrittenInv'
<1> USE DEF WrittenInv
<1>1. TypeInv'
  BY TypeInvStep
<1>2. Fetched'
  BY ReconcileSteps DEF Fetched, TypeInv
<1>3. Ordered'
  BY OrderedStep
<1>4. Covered'
  <2> SUFFICES ASSUME NEW k \in Controllers,
                      pc'[k] = "status", local'[k].success, secret' # None
               PROVE  secret'.generation >= local'[k].object.generation
    BY DEF Covered
  <2>1. CASE /\ pc[k] = "status" /\ local'[k] = local[k] /\ secret' \in {secret, None}
    BY <2>1 DEF Covered
  <2>2. CASE /\ pc[k] = "writeSecret" /\ local'[k] = local[k]
             /\ secret'.generation = local[k].object.generation
    BY <2>2, Numbers
  <2>3. ~(pc[k] \in {"idle", "fetch"} /\ local'[k].success = local[k].success)
    BY DEF Fetched
  <2> QED
    BY <2>1, <2>2, <2>3, ReconcileSteps DEF TypeInv, Alone
<1>5. ReadyMeansWritten'
  <2> SUFFICES ASSUME resource' # None, secret' # None, resource'.status.ready
               PROVE  secret'.generation >= resource'.status.observed
    BY DEF ReadyMeansWritten
  <2>1. CASE \E k \in Controllers : PatchStatus(k)
    <3>1. PICK k \in Controllers : PatchStatus(k)
      BY <2>1
    <3>2. pc[k] = "status" /\ secret' = secret
      BY <3>1 DEF PatchStatus
    <3> QED
      BY <3>1, <3>2, PatchObserves DEF Covered
  <2>2. CASE resource'.status = resource.status
    <3>1. resource # None
      BY ResourceGrows
    <3>2. CASE secret' = secret
      BY <2>2, <3>1, <3>2 DEF ReadyMeansWritten
    <3>3. CASE \E k \in Controllers : /\ pc[k] = "writeSecret"
                                      /\ secret'.generation = local[k].object.generation
      BY <2>2, <3>1, <3>3, Numbers DEF Ordered
    <3> QED
      BY <3>2, <3>3, SecretSteps
  <2> QED
    BY <2>1, <2>2, ResourceGrows
<1> QED
  BY <1>1, <1>2, <1>3, <1>4, <1>5

\* As long as one process reconciles at a time, a status that says ready is
\* backed by a Secret written from that generation of the spec or a later one,
\* whatever is edited, deleted, refused or crashes in between.
THEOREM ReadyIsWritten ==
  ASSUME Alone PROVE Spec => []ReadyMeansWritten
<1>1. Init => WrittenInv
  BY TypeOKInit DEF Init, WrittenInv, TypeInv, DeletedLast, ObjectAtHand, Fetched, Ordered,
                    Covered, ReadyMeansWritten, NoStatus, NoLocals
<1>2. WrittenInv /\ [Next]_vars => WrittenInv'
  BY WrittenStep
<1>3. WrittenInv => ReadyMeansWritten
  BY DEF WrittenInv
<1> QED
  BY <1>1, <1>2, <1>3, PTL DEF Spec

-----------------------------------------------------------------------------
(***************************************************************************)
(* The controller does not feed on its own writes                          *)
(*                                                                         *)
(* A measure of the events that are still to come when nobody else acts:   *)
(* the one that is queued, the one of the version that the reflector has   *)
(* yet to see, the one of the finalizer, and one for each time that the    *)
(* Secret will change, on its way over what the reconcile at hand writes   *)
(* and what one on an old copy writes, to what the resource asks for.      *)
(***************************************************************************)

Writing == {"fetch", "getSecret", "writeSecret"}

\* What an apply for an object writes now, and what that of a reconcile will write.
Goal(object) == [generation |-> object.generation, values |-> vault, applied |-> TRUE]
Aim(k) == [generation |-> local[k].object.generation,
           values |-> IF pc[k] = "fetch" THEN vault ELSE local[k].values,
           applied |-> TRUE]

\* A reconcile on this copy would write an old spec.
Behind(k) ==
  cache[k] # None /\ cache[k].finalizer /\ cache[k].generation # resource.generation

Count(condition) == IF condition THEN 1 ELSE 0
ChangesFrom(s, k) ==
  IF Behind(k) THEN Count(s # Goal(cache[k])) + 1 ELSE Count(s # Goal(resource))
\* A Secret that is created is taken over by the next apply.
ChangesLeft(k) ==
  IF secret = None THEN IF Behind(k) THEN 3 ELSE 2
  ELSE IF pc[k] \in Writing THEN Count(secret # Aim(k)) + ChangesFrom(Aim(k), k)
  ELSE ChangesFrom(secret, k)

EventsLeft(k) ==
  Count(queued[k] = "event")
    + (IF resource = None THEN 0
       ELSE Count(Passes(cache[k], resource)) + Count(~resource.finalizer) + ChangesLeft(k))

\* Only a resource with the finalizer has a Secret written for it, and none that
\* is being deleted or gone.
Serviceable(object) == object.finalizer /\ ~object.deleting
FinalizerFirst == \A k \in Controllers :
  /\ pc[k] \in Writing => Serviceable(local[k].object)
  /\ pc[k] = "removeFinalizer" => local[k].object.deleting
  /\ resource # None /\ ~resource.finalizer =>
       pc[k] \notin Writing /\ (cache[k] # None => ~cache[k].finalizer)
\* A deletion is known to whoever works on it, and nobody works on what is gone.
DeletionKnown == \A k \in Controllers :
  LET Gone(object) == object = None \/ object.deleting IN
  /\ cache[k] # None /\ cache[k].deleting => Gone(resource)
  /\ pc[k] # "idle" /\ local[k].object.deleting => Gone(cache[k]) /\ Gone(resource)
  /\ resource = None =>
       pc[k] \notin Writing /\ (cache[k] # None => ~Serviceable(cache[k]))

HotInv ==
  /\ TypeInv /\ FinalizerFirst /\ DeletionKnown
  /\ \A k \in Controllers : burst[k] + EventsLeft(k) <= 5

LEMMA ChangesType ==
  ASSUME NEW k \in Controllers, NEW s
  PROVE  /\ Count(s # Goal(cache[k])) + 1 \in 1..2 /\ Count(s # Goal(resource)) \in 0..1
         /\ ChangesFrom(s, k) \in 0..2 /\ (~Behind(k) => ChangesFrom(s, k) \in 0..1)
         /\ ChangesLeft(k) \in 0..3
BY DEF Count, ChangesFrom, ChangesLeft

\* The reconciles of a burst: the copy is old only when the finalizer is there.
LEMMA Ceiling ==
  ASSUME FinalizerFirst, NEW k \in Controllers PROVE EventsLeft(k) \in 0..5
<1>1. Count(queued[k] = "event") \in 0..1 /\ Count(Passes(cache[k], resource)) \in 0..1
  BY DEF Count
<1>2. CASE resource = None
  BY <1>1, <1>2 DEF EventsLeft
<1>3. CASE resource # None /\ resource.finalizer
  BY <1>1, <1>3, ChangesType DEF EventsLeft, Count
<1>4. CASE resource # None /\ ~resource.finalizer
  <2>1. pc[k] \notin Writing /\ ~Behind(k)
    BY <1>4 DEF FinalizerFirst, Behind
  <2>2. ChangesLeft(k) \in 0..2
    BY <2>1, ChangesType DEF ChangesLeft
  <2> QED
    BY <1>1, <1>4, <2>2 DEF EventsLeft, Count
<1> QED
  BY <1>2, <1>3, <1>4

\* The finalizer and the deletion timestamp stay as long as the resource does.
LEMMA MarksStay ==
  ASSUME TypeInv, [Next]_vars, resource' # None
  PROVE  /\ resource # None
         /\ resource.finalizer => resource'.finalizer
         /\ resource.deleting => resource'.deleting
<1>1. resource # None => resource \in Resources
  BY Numbers
<1>2. CASE resource' = resource
  BY <1>2
<1>3. CASE resource # None /\ resource' = [resource EXCEPT !.finalizer = TRUE]
  BY <1>1, <1>3 DEF Resources
<1>4. CASE resource # None /\ \E k \in Controllers : PatchStatus(k) /\ Patched(k)
  BY <1>1, <1>4 DEF Patched, Resources
<1>5. CASE resource # None /\ resource' = [resource EXCEPT !.generation = @ + 1]
  BY <1>1, <1>5 DEF Resources
<1>6. CASE /\ resource # None
           /\ resource' = [resource EXCEPT !.deleting = TRUE, !.generation = @ + 1]
  BY <1>1, <1>6 DEF Resources
<1> QED
  BY <1>2, <1>3, <1>4, <1>5, <1>6, ResourceSteps

\* What a step means for the one process there is: it begins a reconcile, ends
\* one, or keeps the object at hand and the kind of the work.
LEMMA WorkAtHand ==
  ASSUME Alone, TypeInv, [Next]_vars, NEW k \in Controllers
  PROVE  \/ pc'[k] = "idle"
         \/ /\ pc[k] = "idle" /\ cache[k] # None /\ UNCHANGED <<resource, cache>>
            /\ local'[k].object = cache[k] /\ pc'[k] = FirstRequest(cache[k])
         \/ /\ pc[k] # "idle" /\ local'[k].object = local[k].object /\ ~RemoveFinalizer(k)
            /\ pc'[k] \in Writing => pc[k] \in Writing
            /\ pc'[k] = "removeFinalizer" => pc[k] = "removeFinalizer"
<1> USE DEF TypeInv, TypeOK, Locals, Writing
<1>1. ASSUME NEW j \in Controllers, Reconcile(j)
      PROVE  \/ pc'[k] = "idle"
             \/ /\ pc[k] = "idle" /\ cache[k] # None /\ UNCHANGED <<resource, cache>>
                /\ local'[k].object = cache[k] /\ pc'[k] = FirstRequest(cache[k])
  BY <1>1 DEF Alone, Reconcile, Ask
<1>2. ASSUME NEW j \in Controllers,
             \/ AddFinalizer(j) \/ RemoveFinalizer(j) \/ PatchStatus(j)
             \/ RequestFails(j) \/ Crash(j)
      PROVE  pc'[k] = "idle"
  BY <1>2 DEF Alone, AddFinalizer, RemoveFinalizer, PatchStatus, RequestFails, Crash, Return
<1>3. ASSUME NEW j \in Controllers,
             Deliver(j) \/ FetchSecrets(j) \/ FetchFails(j) \/ GetSecret(j)
      PROVE  /\ pc'[k] = "idle" \/ (pc[k] # "idle" /\ local'[k].object = local[k].object)
             /\ pc'[k] \in Writing => pc[k] \in Writing
             /\ pc'[k] = "removeFinalizer" => pc[k] = "removeFinalizer"
             /\ resource' = resource
  BY <1>3 DEF Alone, Deliver, FetchSecrets, FetchFails, GetSecret, Ask
<1>4. ASSUME NEW j \in Controllers, WriteSecret(j)
      PROVE  /\ pc'[k] = "idle" \/ (pc[k] # "idle" /\ local'[k].object = local[k].object)
             /\ pc[k] \in Writing /\ pc'[k] \notin Writing /\ pc'[k] # "removeFinalizer"
             /\ resource' = resource
  <2>1. /\ pc[k] = "writeSecret" /\ resource' = resource
        /\ \/ pc' = [pc EXCEPT ![k] = "idle"]
           \/ pc' = [pc EXCEPT ![k] = "status"] /\ local' = local
    BY <1>4 DEF Alone, WriteSecret, Ask, Return
  <2> QED
    BY <2>1
<1>5. ASSUME \/ EditSpec \/ DeleteResource \/ DropSecret \/ CollectSecret
             \/ ChangeVault \/ Tick \/ UNCHANGED vars
      PROVE  pc' = pc /\ local' = local
  BY <1>5 DEF EditSpec, DeleteResource, DropSecret, CollectSecret, ChangeVault, Tick, vars
<1>6. RemoveFinalizer(k) => pc'[k] = "idle"
  BY <1>2
<1> QED
  BY <1>1, <1>2, <1>3, <1>4, <1>5, <1>6 DEF Next, ControllerStep

\* How the resource can go.
LEMMA Disappears ==
  ASSUME Alone, TypeInv, [Next]_vars, resource # None, resource' = None, NEW k \in Controllers
  PROVE  /\ cache' = cache
         /\ \/ pc[k] = "removeFinalizer" /\ pc'[k] = "idle"
            \/ ~resource.finalizer /\ pc' = pc
<1>1. resource \in Resources /\ resource.status \in Statuses
  BY Numbers DEF Resources
<1>2. ASSUME NEW j \in Controllers, Deliver(j) \/ ControllerStep(j) \/ FetchFails(j)
                                    \/ RequestFails(j) \/ Crash(j)
      PROVE  cache' = cache /\ pc[k] = "removeFinalizer" /\ pc'[k] = "idle"
  <2>1. CASE RemoveFinalizer(j)
    BY <2>1 DEF Alone, RemoveFinalizer, Return, TypeInv, TypeOK
  <2>2. CASE AddFinalizer(j)
    <3>1. [resource EXCEPT !.finalizer = TRUE] # None
      BY <1>1, NoneAssumption, ResourceType
    <3> QED
      BY <2>2, <3>1 DEF AddFinalizer, Write
  <2>3. CASE PatchStatus(j)
    <3>1. local[j].object \in Resources
      BY <2>3, Numbers DEF PatchStatus
    <3>2. PICK new \in {ReadyStatus(local[j].object), FailedStatus(local[j].object)} :
            resource' = [resource EXCEPT !.status = status_patch(@, new)]
      BY <2>3 DEF PatchStatus, Write
    <3>3. status_patch(resource.status, new) \in Statuses
      BY <1>1, <3>1, StatusType DEF TypeInv, TypeOK
    <3>4. [resource EXCEPT !.status = status_patch(@, new)] \in Resources
      BY <1>1, <3>3, ResourceType
    <3> HIDE DEF status_patch
    <3>5. resource' # None
      BY <3>2, <3>4, NoneAssumption
    <3> QED
      BY <3>5
  <2> QED
    BY <1>2, <2>1, <2>2, <2>3
       DEF ControllerStep, Deliver, Reconcile, FetchSecrets, GetSecret, WriteSecret,
           FetchFails, RequestFails, Crash
<1>3. ASSUME EditSpec \/ DeleteResource PROVE ~resource.finalizer /\ UNCHANGED <<cache, pc>>
  <2>1. resource.generation + 1 \in Generations
    BY <1>1, <1>3 DEF EditSpec, DeleteResource, TypeInv, DeletedLast, Resources, Generations
  <2>2. /\ [resource EXCEPT !.generation = @ + 1] # None
        /\ [resource EXCEPT !.deleting = TRUE, !.generation = @ + 1] # None
    BY <1>1, <2>1, NoneAssumption, ResourceType
  <2> QED
    BY <1>3, <2>2 DEF EditSpec, DeleteResource, Write
<1> QED
  BY <1>2, <1>3 DEF Next, DropSecret, CollectSecret, ChangeVault, Tick, vars

LEMMA FinalizerFirstStep ==
  ASSUME Alone, TypeInv, FinalizerFirst, [Next]_vars PROVE FinalizerFirst'
<1> SUFFICES ASSUME NEW k \in Controllers
             PROVE  /\ pc'[k] \in Writing => Serviceable(local'[k].object)
                    /\ pc'[k] = "removeFinalizer" => local'[k].object.deleting
                    /\ resource' # None /\ ~resource'.finalizer =>
                         pc'[k] \notin Writing /\ (cache'[k] # None => ~cache'[k].finalizer)
  BY DEF FinalizerFirst, Serviceable, Writing
<1>1. /\ pc'[k] \in Writing => Serviceable(local'[k].object)
      /\ pc'[k] = "removeFinalizer" => local'[k].object.deleting
  BY WorkAtHand DEF FinalizerFirst, Serviceable, Writing, FirstRequest
<1>2. ASSUME resource' # None, ~resource'.finalizer
      PROVE  pc'[k] \notin Writing /\ (cache'[k] # None => ~cache'[k].finalizer)
  <2>1. resource # None /\ ~resource.finalizer
    BY <1>2, MarksStay
  <2>2. cache'[k] # None => ~cache'[k].finalizer
    BY <2>1, CacheSteps DEF TypeInv, FinalizerFirst
  <2>3. pc'[k] \notin Writing
    BY <2>1, WorkAtHand DEF FinalizerFirst, FirstRequest, Writing
  <2> QED
    BY <2>2, <2>3
<1> QED
  BY <1>1, <1>2

LEMMA DeletionKnownStep ==
  ASSUME Alone, TypeInv, FinalizerFirst, DeletionKnown, [Next]_vars PROVE DeletionKnown'
<1> DEFINE Gone(object) == object = None \/ object.deleting
<1> SUFFICES ASSUME NEW k \in Controllers
             PROVE  /\ cache'[k] # None /\ cache'[k].deleting => Gone(resource')
                    /\ pc'[k] # "idle" /\ local'[k].object.deleting =>
                         Gone(cache'[k]) /\ Gone(resource')
                    /\ resource' = None =>
                         /\ pc'[k] \notin Writing
                         /\ cache'[k] # None => ~Serviceable(cache'[k])
  BY DEF DeletionKnown, Serviceable, Writing
<1>1. Gone(resource) => Gone(resource')
  BY MarksStay
<1>2. cache'[k] # None /\ cache'[k].deleting => Gone(resource')
  BY <1>1, CacheSteps DEF TypeInv, DeletionKnown
<1>3. ASSUME pc'[k] # "idle", local'[k].object.deleting
      PROVE  Gone(cache'[k]) /\ Gone(resource')
  <2>1. Gone(cache[k]) /\ Gone(resource)
    BY <1>3, WorkAtHand DEF DeletionKnown
  <2> QED
    BY <1>1, <2>1, CacheSteps DEF TypeInv
<1>4. ASSUME resource' = None
      PROVE  pc'[k] \notin Writing /\ (cache'[k] # None => ~Serviceable(cache'[k]))
  <2>1. CASE resource = None
    <3>1. pc'[k] \notin Writing
      BY <2>1, WorkAtHand DEF DeletionKnown, FirstRequest, Serviceable, Writing
    <3> QED
      BY <2>1, <3>1, CacheSteps DEF TypeInv, DeletionKnown
  <2>2. CASE resource # None
    <3>1. cache' = cache /\ \/ pc[k] = "removeFinalizer" /\ pc'[k] = "idle"
                            \/ ~resource.finalizer /\ pc' = pc
      BY <1>4, <2>2, Disappears
    <3> QED
      BY <2>2, <3>1 DEF DeletionKnown, FinalizerFirst, Serviceable, Writing
  <2> QED
    BY <2>1, <2>2
<1> QED
  BY <1>2, <1>3, <1>4

Calm == \A k \in Controllers : EventsLeft(k) \in 0..5

LEMMA CalmNext == FinalizerFirst' => Calm'
<1>1. FinalizerFirst => Calm
  BY Ceiling DEF Calm
<1> QED
  BY <1>1, PTL

\* Nothing of the measure grows when neither the objects nor the Secret change
\* and the way to them gets no longer.
LEMMA SameObjects ==
  ASSUME NEW k \in Controllers, UNCHANGED <<resource, cache, secret, vault>>,
         Count(queued'[k] = "event") <= Count(queued[k] = "event"),
         ChangesLeft(k)' <= ChangesLeft(k)
  PROVE  EventsLeft(k)' <= EventsLeft(k)
<1>1. ChangesLeft(k) \in 0..3
  BY ChangesType
<1>2. ChangesLeft(k)' \in 0..3
  BY DEF Count, ChangesFrom, ChangesLeft
<1> QED
  BY <1>1, <1>2 DEF EventsLeft, Count, Passes

\* A reconcile that ends, or goes on, without a write.
LEMMA Abandon ==
  ASSUME NEW k \in Controllers, UNCHANGED <<resource, cache, secret, vault>>,
         pc'[k] \notin Writing
  PROVE  ChangesLeft(k)' <= ChangesLeft(k)
<1>1. Behind(k)' = Behind(k)
  BY DEF Behind
<1>2. ChangesFrom(secret, k)' = ChangesFrom(secret, k)
  BY DEF ChangesFrom, Behind, Goal
<1>3. CASE secret = None
  BY <1>1, <1>3 DEF ChangesLeft
<1>4. CASE secret # None /\ pc[k] \notin Writing
  BY <1>2, <1>4, ChangesType DEF ChangesLeft, Writing
<1>5. CASE secret # None /\ pc[k] \in Writing
  <2>1. ChangesLeft(k)' = ChangesFrom(secret, k)
    BY <1>2, <1>5 DEF ChangesLeft, Writing
  <2>2. ChangesFrom(secret, k) <= Count(secret # Aim(k)) + ChangesFrom(Aim(k), k)
    BY DEF ChangesFrom, Count
  <2> QED
    BY <1>5, <2>1, <2>2 DEF ChangesLeft
<1> QED
  BY <1>3, <1>4, <1>5

LEMMA NoEventOfReturn ==
  ASSUME TypeInv, NEW k \in Controllers, NEW action \in {"no", "timer"}, Return(k, action)
  PROVE  Count(queued'[k] = "event") = Count(queued[k] = "event")
BY DEF TypeInv, TypeOK, Return, Count

\* The watch: the event of a version that passes is queued, and no other.
LEMMA DeliverStep ==
  ASSUME TypeInv, NEW k \in Controllers, Deliver(k)
  PROVE  EventsLeft(k)' <= EventsLeft(k)
<1>1. /\ resource' = resource /\ secret' = secret /\ vault' = vault
      /\ pc' = pc /\ local' = local /\ cache'[k] = resource
  BY DEF Deliver, TypeInv, TypeOK, world
<1>2. CASE resource = None
  <2>1. queued'[k] = queued[k]
    BY <1>2 DEF Deliver, TypeInv, TypeOK
  <2> QED
    BY <1>1, <1>2, <2>1 DEF EventsLeft, Count
<1>3. CASE resource # None
  <2>1. Count(queued'[k] = "event") <= Count(queued[k] = "event")
                                         + Count(Passes(cache[k], resource))
    BY <1>3 DEF Deliver, TypeInv, TypeOK, Count
  <2>2. ~Passes(cache[k], resource)'
    BY <1>1, <1>3 DEF Passes
  <2>3. ~Behind(k)'
    BY <1>1 DEF Behind
  <2>4. ASSUME NEW s PROVE Count(s # Goal(resource)) <= ChangesFrom(s, k)
    BY DEF Count, ChangesFrom
  <2>5. Aim(k)' = Aim(k) /\ Goal(resource)' = Goal(resource)
    BY <1>1 DEF Aim, Goal
  <2>6. ChangesLeft(k)' <= ChangesLeft(k)
    <3>1. CASE secret = None
      BY <1>1, <2>3, <3>1 DEF ChangesLeft
    <3>2. CASE secret # None /\ pc[k] \in Writing
      <4>1. ChangesFrom(Aim(k), k)' = Count(Aim(k) # Goal(resource))
        BY <2>3, <2>5 DEF ChangesFrom
      <4>2. ChangesLeft(k)' = Count(secret # Aim(k)) + Count(Aim(k) # Goal(resource))
        BY <1>1, <2>5, <3>2, <4>1 DEF ChangesLeft, Writing
      <4>3. ChangesLeft(k) = Count(secret # Aim(k)) + ChangesFrom(Aim(k), k)
        BY <3>2 DEF ChangesLeft
      <4> QED
        BY <2>4, <4>2, <4>3, ChangesType DEF Count
    <3>3. CASE secret # None /\ pc[k] \notin Writing
      <4>1. ChangesLeft(k)' = Count(secret # Goal(resource))
        BY <1>1, <2>3, <2>5, <3>3 DEF ChangesLeft, ChangesFrom, Writing
      <4> QED
        BY <2>4, <3>3, <4>1 DEF ChangesLeft
    <3> QED
      BY <3>1, <3>2, <3>3
  <2>7. ChangesLeft(k) \in 0..3 /\ ChangesLeft(k)' \in 0..3
    BY ChangesType DEF Count, ChangesFrom, ChangesLeft
  <2> QED
    BY <1>1, <1>3, <2>1, <2>2, <2>6, <2>7 DEF EventsLeft, Count
<1> QED
  BY <1>2, <1>3

\* The finalizer: its event passes, and the copy that lacks it is no older.
LEMMA AddFinalizerStep ==
  ASSUME TypeInv, FinalizerFirst, NEW k \in Controllers, AddFinalizer(k)
  PROVE  EventsLeft(k)' <= EventsLeft(k)
<1>1. /\ secret' = secret /\ vault' = vault /\ cache' = cache
      /\ pc[k] \notin Writing /\ pc'[k] \notin Writing
      /\ Count(queued'[k] = "event") = Count(queued[k] = "event")
  <2>1. PICK action \in {"no", "timer"} : Return(k, action)
    BY DEF AddFinalizer, AwaitChange, error_policy, Requeue
  <2>2. pc'[k] = "idle"
    BY <2>1 DEF Return, TypeInv, TypeOK
  <2> QED
    BY <2>1, <2>2, NoEventOfReturn DEF AddFinalizer, world, Writing
<1>2. CASE resource # None /\ ~resource.finalizer
  <2>1. resource \in Resources
    BY <1>2, Numbers
  <2>2. /\ resource' = [resource EXCEPT !.finalizer = TRUE]
        /\ resource'.finalizer /\ resource'.generation = resource.generation
        /\ resource' # None
    <3>1. resource' = [resource EXCEPT !.finalizer = TRUE]
      BY <1>2 DEF AddFinalizer, Write
    <3>2. resource' \in Resources
      BY <2>1, <3>1, ResourceType
    <3>3. resource'.finalizer /\ resource'.generation = resource.generation
      BY <2>1, <3>1 DEF Resources
    <3> QED
      BY <3>1, <3>2, <3>3, NoneAssumption
  <2>3. ~Behind(k) /\ ~Behind(k)'
    BY <1>1, <1>2 DEF FinalizerFirst, Behind
  <2>4. Goal(resource)' = Goal(resource)
    BY <1>1, <2>2 DEF Goal
  <2>5. ChangesLeft(k)' = ChangesLeft(k)
    BY <1>1, <2>3, <2>4 DEF ChangesLeft, ChangesFrom
  <2> QED
    BY <1>1, <1>2, <2>2, <2>5, ChangesType DEF EventsLeft, Count
<1>3. CASE ~(resource # None /\ ~resource.finalizer)
  <2>1. resource' = resource
    BY <1>3 DEF AddFinalizer
  <2> QED
    BY <1>1, <2>1, SameObjects, Abandon DEF Count
<1> QED
  BY <1>2, <1>3

\* When the resource goes, what is queued is all.
LEMMA RemoveFinalizerStep ==
  ASSUME TypeInv, NEW k \in Controllers, RemoveFinalizer(k)
  PROVE  EventsLeft(k)' <= EventsLeft(k)
<1>1. /\ secret' = secret /\ vault' = vault /\ cache' = cache /\ pc'[k] \notin Writing
      /\ Count(queued'[k] = "event") = Count(queued[k] = "event")
  <2>1. PICK action \in {"no", "timer"} : Return(k, action)
    BY DEF RemoveFinalizer, AwaitChange, error_policy, Requeue
  <2>2. pc'[k] = "idle"
    BY <2>1 DEF Return, TypeInv, TypeOK
  <2> QED
    BY <2>1, <2>2, NoEventOfReturn DEF RemoveFinalizer, world, Writing
<1>2. CASE resource # None
  <2>1. resource' = None
    BY <1>2 DEF RemoveFinalizer, Write
  <2> QED
    BY <1>1, <1>2, <2>1, ChangesType DEF EventsLeft, Count
<1>3. CASE resource = None
  <2>1. resource' = resource
    BY <1>3 DEF RemoveFinalizer
  <2> QED
    BY <1>1, <2>1, SameObjects, Abandon DEF Count
<1> QED
  BY <1>2, <1>3

\* A reconcile begins: the event that brought it is used up, and the Secret takes
\* the way over the copy that was counted as old already.
LEMMA ReconcileStep ==
  ASSUME TypeInv, FinalizerFirst, DeletionKnown, NEW k \in Controllers, Reconcile(k),
         queued[k] # "timer"
  PROVE  EventsLeft(k)' + 1 <= EventsLeft(k)
<1>1. /\ resource' = resource /\ secret' = secret /\ vault' = vault /\ cache' = cache
      /\ queued[k] = "event" /\ queued'[k] = "no"
  BY DEF Reconcile, world, TypeInv, TypeOK
<1>2. pc[k] = "idle"
  BY DEF Reconcile
<1>3. ChangesFrom(secret, k)' = ChangesFrom(secret, k) /\ Behind(k)' = Behind(k)
  BY <1>1 DEF ChangesFrom, Behind, Goal
<1>4. resource # None => ChangesLeft(k)' <= ChangesLeft(k)
  <2>1. CASE pc'[k] \notin Writing
    BY <1>1, <2>1, Abandon
  <2>2. CASE secret = None
    BY <1>1, <1>3, <2>2, ChangesType DEF ChangesLeft
  <2>3. CASE resource # None /\ secret # None /\ pc'[k] \in Writing
    <3>1. cache[k] # None
      BY <1>2, <2>3 DEF Reconcile, Writing
    <3>2. pc'[k] = FirstRequest(cache[k]) /\ local'[k].object = cache[k]
      BY <3>1 DEF Reconcile, Ask, TypeInv, TypeOK, Locals
    <3>3. pc'[k] = "fetch" /\ cache[k].finalizer
      BY <2>3, <3>2 DEF FirstRequest, Writing
    <3>4. Aim(k)' = Goal(cache[k])
      BY <1>1, <3>2, <3>3 DEF Aim, Goal
    <3>5. ChangesLeft(k)' = Count(secret # Goal(cache[k])) + ChangesFrom(Goal(cache[k]), k)
      <4>1. ChangesFrom(Aim(k), k)' = ChangesFrom(Goal(cache[k]), k)
        BY <1>1, <3>4 DEF ChangesFrom, Behind, Goal
      <4> QED
        BY <1>1, <2>3, <3>4, <4>1 DEF ChangesLeft
    <3>6. ChangesLeft(k) = ChangesFrom(secret, k)
      BY <1>2, <2>3 DEF ChangesLeft, Writing
    <3>7. CASE Behind(k)
      BY <3>5, <3>6, <3>7 DEF ChangesFrom, Count
    <3>8. CASE ~Behind(k)
      <4>1. Goal(cache[k]) = Goal(resource)
        BY <3>1, <3>3, <3>8 DEF Behind, Goal
      <4> QED
        BY <3>5, <3>6, <3>8, <4>1 DEF ChangesFrom, Count
    <3> QED
      BY <3>7, <3>8
  <2> QED
    BY <2>1, <2>2, <2>3
<1>5. ChangesLeft(k) \in 0..3 /\ ChangesLeft(k)' \in 0..3
  BY ChangesType DEF Count, ChangesFrom, ChangesLeft
<1> QED
  BY <1>1, <1>4, <1>5 DEF EventsLeft, Count, Passes

\* Requests that write nothing and go on.
LEMMA FetchStep ==
  ASSUME TypeInv, NEW k \in Controllers, FetchSecrets(k) \/ GetSecret(k)
  PROVE  EventsLeft(k)' <= EventsLeft(k)
<1>1. /\ UNCHANGED <<resource, cache, secret, vault, queued>>
      /\ pc[k] \in Writing /\ pc'[k] \in Writing
  BY DEF FetchSecrets, GetSecret, Ask, world, TypeInv, TypeOK, Writing
<1>2. Aim(k)' = Aim(k)
  <2>1. local \in [Controllers -> Locals] /\ pc \in [Controllers -> Requests \cup {"idle"}]
    BY DEF TypeInv, TypeOK
  <2>2. CASE FetchSecrets(k)
    <3>1. pc[k] = "fetch" /\ pc'[k] = "getSecret"
      BY <2>1, <2>2 DEF FetchSecrets, Ask
    <3>2. local'[k].object = local[k].object /\ local'[k].values = vault
      BY <2>1, <2>2 DEF FetchSecrets, Locals
    <3> QED
      BY <1>1, <3>1, <3>2 DEF Aim
  <2>3. CASE GetSecret(k)
    <3>1. pc[k] = "getSecret" /\ pc'[k] = "writeSecret"
      BY <2>1, <2>3 DEF GetSecret, Ask
    <3>2. local'[k].object = local[k].object /\ local'[k].values = local[k].values
      BY <2>1, <2>3 DEF GetSecret, Locals
    <3> QED
      BY <3>1, <3>2 DEF Aim
  <2> QED
    BY <2>2, <2>3
<1>3. Behind(k)' = Behind(k) /\ ChangesFrom(Aim(k), k)' = ChangesFrom(Aim(k), k)
  BY <1>1, <1>2 DEF Behind, ChangesFrom, Goal
<1>4. ChangesLeft(k)' = ChangesLeft(k)
  BY <1>1, <1>2, <1>3 DEF ChangesLeft
<1> QED
  BY <1>1, <1>4, SameObjects, ChangesType DEF Count

LEMMA FaultStep ==
  ASSUME TypeInv, NEW k \in Controllers, FetchFails(k) \/ RequestFails(k)
  PROVE  EventsLeft(k)' <= EventsLeft(k)
<1>1. UNCHANGED <<resource, cache, secret, vault>> /\ pc'[k] \notin Writing
  BY DEF FetchFails, RequestFails, Return, Ask, TypeInv, TypeOK, Writing
<1>2. Count(queued'[k] = "event") = Count(queued[k] = "event")
  <2>1. RequestFails(k) => Return(k, "timer")
    BY DEF RequestFails, error_policy, Requeue
  <2> QED
    BY <2>1, NoEventOfReturn DEF FetchFails
<1> QED
  BY <1>1, <1>2, SameObjects, Abandon DEF Count

\* A change of the Secret is one that was still to come.
LEMMA WriteSecretStep ==
  ASSUME TypeInv, DeletionKnown, NEW k \in Controllers, WriteSecret(k)
  PROVE  EventsLeft(k)' <= EventsLeft(k)
<1>1. /\ UNCHANGED <<resource, cache, vault>> /\ resource # None
      /\ pc[k] = "writeSecret" /\ pc'[k] \notin Writing
  BY DEF WriteSecret, world, DeletionKnown, Return, Ask, TypeInv, TypeOK, Writing
<1>2. CASE Return(k, error_policy) /\ secret' = secret
  <2>1. Count(queued'[k] = "event") = Count(queued[k] = "event")
    BY <1>2, NoEventOfReturn DEF error_policy, Requeue
  <2> QED
    BY <1>1, <1>2, <2>1, SameObjects, Abandon DEF Count
<1>3. ASSUME NEW applied \in BOOLEAN, WriteToSecret(Desired(k, applied)),
             applied \/ secret = None
      PROVE  EventsLeft(k)' <= EventsLeft(k)
  <2>1. Desired(k, applied) # None
    <3>1. Desired(k, applied) \in Secrets
      BY <1>1, Numbers DEF Desired, Secrets, Resources, TypeInv, TypeOK, Locals
    <3> QED
      BY <3>1, NoneAssumption
  <2>2. /\ secret' = Desired(k, applied)
        /\ queued'[k] = IF secret' = secret THEN queued[k] ELSE "event"
    BY <1>3 DEF WriteToSecret
  <2>3. Count(queued'[k] = "event") <= Count(queued[k] = "event") + Count(secret' # secret)
    BY <2>2 DEF Count
  <2>4. Behind(k)' = Behind(k) /\ ChangesLeft(k)' = ChangesFrom(Desired(k, applied), k)
    BY <1>1, <2>1, <2>2 DEF Behind, ChangesLeft, ChangesFrom, Goal
  <2>5. Count(secret' # secret) + ChangesLeft(k)' <= ChangesLeft(k)
    <3>1. CASE secret = None
      BY <2>1, <2>2, <2>4, <3>1 DEF ChangesLeft, ChangesFrom, Count
    <3>2. CASE secret # None
      <4>1. Desired(k, applied) = Aim(k)
        BY <1>1, <1>3, <3>2 DEF Desired, Aim
      <4>2. ChangesLeft(k) = Count(secret # Aim(k)) + ChangesFrom(Aim(k), k)
        BY <1>1, <3>2 DEF ChangesLeft, Writing
      <4>3. Count(secret' # secret) = Count(secret # Aim(k))
        BY <2>2, <4>1 DEF Count
      <4> QED
        BY <2>4, <4>1, <4>2, <4>3, ChangesType DEF Count
    <3> QED
      BY <3>1, <3>2
  <2>6. ChangesLeft(k) \in 0..3 /\ ChangesLeft(k)' \in 0..3
    BY ChangesType DEF Count, ChangesFrom, ChangesLeft
  <2>7. Count(Passes(cache[k], resource))' = Count(Passes(cache[k], resource))
    BY <1>1 DEF Passes, Count
  <2> QED
    BY <1>1, <2>3, <2>5, <2>6, <2>7 DEF EventsLeft, Count
<1> QED
  BY <1>2, <1>3 DEF WriteSecret

\* A status write changes nothing that the filter lets pass.
LEMMA PatchStatusStep ==
  ASSUME TypeInv, NEW k \in Controllers, PatchStatus(k)
  PROVE  EventsLeft(k)' <= EventsLeft(k)
<1>1. /\ UNCHANGED <<cache, secret, vault>>
      /\ pc[k] \notin Writing /\ pc'[k] \notin Writing
      /\ Count(queued'[k] = "event") = Count(queued[k] = "event")
  <2>1. Return(k, "timer")
    BY DEF PatchStatus, error_policy, Requeue
  <2>2. pc'[k] = "idle"
    BY <2>1 DEF Return, TypeInv, TypeOK
  <2> QED
    BY <2>1, <2>2, NoEventOfReturn DEF PatchStatus, world, Writing
<1>2. CASE resource # None
  <2>1. resource \in Resources
    BY <1>2, Numbers
  <2>2. PICK status : resource' = [resource EXCEPT !.status = status]
    BY <1>2 DEF PatchStatus, Write
  <2>3. resource'.finalizer = resource.finalizer /\ resource'.generation = resource.generation
    BY <2>1, <2>2 DEF Resources
  <2>4. /\ Passes(cache[k], resource)' <=> Passes(cache[k], resource)
        /\ Behind(k)' <=> Behind(k)
        /\ Goal(resource)' = Goal(resource) /\ Goal(cache[k])' = Goal(cache[k])
    BY <1>1, <2>3 DEF Passes, Behind, Goal
  <2>5. ChangesLeft(k)' = ChangesLeft(k)
    BY <1>1, <2>4 DEF ChangesLeft, ChangesFrom
  <2>6. ChangesLeft(k) \in 0..3
    BY ChangesType
  <2> QED
    BY <1>1, <1>2, <2>3, <2>4, <2>5, <2>6 DEF EventsLeft, Count
<1>3. CASE resource = None
  <2>1. resource' = resource
    BY <1>3 DEF PatchStatus
  <2> QED
    BY <1>1, <2>1, SameObjects, Abandon DEF Count
<1> QED
  BY <1>2, <1>3

LEMMA HotInvStep ==
  ASSUME Alone, HotInv, [Next]_vars PROVE HotInv'
<1> USE DEF HotInv
<1>1. TypeInv' /\ FinalizerFirst' /\ DeletionKnown'
  BY TypeInvStep, FinalizerFirstStep, DeletionKnownStep
<1>2. ASSUME NEW k \in Controllers
      PROVE  burst'[k] + EventsLeft(k)' <= 5
  <2>1. EventsLeft(k) \in 0..5 /\ EventsLeft(k)' \in 0..5
    BY <1>1, Ceiling, CalmNext DEF Calm
  <2>2. burst \in [Controllers -> 0..BurstLimit] /\ burst[k] + EventsLeft(k) <= 5
    BY DEF TypeInv, TypeOK
  <2>3. ASSUME burst' = burst, EventsLeft(k)' <= EventsLeft(k)
        PROVE  burst'[k] + EventsLeft(k)' <= 5
    BY <2>1, <2>2, <2>3
  <2>4. ASSUME burst'[k] = 0
        PROVE  burst'[k] + EventsLeft(k)' <= 5
    BY <2>1, <2>4
  <2>5. CASE Deliver(k)
    BY <2>3, <2>5, DeliverStep DEF Deliver
  <2>6. CASE Reconcile(k)
    <3>1. CASE queued[k] = "timer"
      BY <2>2, <2>4, <2>6, <3>1 DEF Reconcile
    <3>2. CASE queued[k] # "timer"
      <4>1. EventsLeft(k)' + 1 <= EventsLeft(k)
        BY <2>6, <3>2, ReconcileStep
      <4>2. burst'[k] <= burst[k] + 1 /\ burst'[k] \in Nat
        BY <2>2, <2>6, <3>2 DEF Reconcile
      <4> QED
        BY <2>1, <2>2, <4>1, <4>2
    <3> QED
      BY <3>1, <3>2
  <2>7. CASE AddFinalizer(k)
    BY <2>3, <2>7, AddFinalizerStep DEF AddFinalizer
  <2>8. CASE RemoveFinalizer(k)
    BY <2>3, <2>8, RemoveFinalizerStep DEF RemoveFinalizer
  <2>9. CASE FetchSecrets(k) \/ GetSecret(k)
    BY <2>3, <2>9, FetchStep DEF FetchSecrets, GetSecret
  <2>10. CASE FetchFails(k) \/ RequestFails(k)
    BY <2>3, <2>10, FaultStep DEF FetchFails, RequestFails
  <2>11. CASE WriteSecret(k)
    BY <2>3, <2>11, WriteSecretStep DEF WriteSecret
  <2>12. CASE PatchStatus(k)
    BY <2>3, <2>12, PatchStatusStep DEF PatchStatus
  <2>13. CASE \/ Crash(k) \/ EditSpec \/ DeleteResource \/ DropSecret \/ CollectSecret
              \/ ChangeVault
    BY <2>4, <2>13
       DEF Crash, EditSpec, DeleteResource, DropSecret, CollectSecret, ChangeVault,
           OutsideCause
  <2>14. CASE Tick \/ UNCHANGED vars
    <3>1. UNCHANGED <<resource, secret, vault, cache, queued, pc, local, burst>>
      BY <2>14 DEF Tick, vars, world
    <3>2. ChangesLeft(k)' = ChangesLeft(k)
      BY <3>1 DEF ChangesLeft, ChangesFrom, Behind, Aim, Goal
    <3>3. EventsLeft(k)' = EventsLeft(k)
      BY <3>1, <3>2 DEF EventsLeft, Passes
    <3> QED
      BY <2>2, <3>1, <3>3
  <2>15. \A j \in Controllers : j = k
    BY DEF Alone
  <2> QED
    BY <2>5, <2>6, <2>7, <2>8, <2>9, <2>10, <2>11, <2>12, <2>13, <2>14, <2>15
       DEF Next, ControllerStep
<1> QED
  BY <1>1, <1>2

\* The one process that reconciles does not feed on its own writes: between two
\* causes from outside, events bring five reconciles at most, with the watch
\* delivering, requests failing and the reconciler's copy being old in any order.
THEOREM QuietAfterFive ==
  ASSUME Alone, BurstLimit > 5 PROVE Spec => []NoHotLoop
<1>1. Init => HotInv
  <2> SUFFICES ASSUME Init PROVE HotInv
    OBVIOUS
  <2>1. TypeInv
    BY TypeOKInit DEF Init, TypeInv, DeletedLast, ObjectAtHand
  <2>2. FinalizerFirst /\ DeletionKnown
    BY DEF Init, FinalizerFirst, DeletionKnown, Writing, Serviceable
  <2>3. \A k \in Controllers : burst[k] = 0
    BY DEF Init
  <2> QED
    BY <2>1, <2>2, <2>3, Ceiling DEF HotInv
<1>2. HotInv /\ [Next]_vars => HotInv'
  BY HotInvStep
<1>3. HotInv => NoHotLoop
  <2> SUFFICES ASSUME HotInv, NEW k \in Controllers PROVE burst[k] < BurstLimit
    BY DEF NoHotLoop
  <2>1. burst[k] \in Nat /\ EventsLeft(k) \in 0..5 /\ burst[k] + EventsLeft(k) <= 5
    BY Ceiling DEF HotInv, TypeInv, TypeOK
  <2> QED
    BY <2>1
<1> QED
  BY <1>1, <1>2, <1>3, PTL DEF Spec
-----------------------------------------------------------------------------
(***************************************************************************)
(* No resource is stranded                                                 *)
(*                                                                         *)
(* A watch with nothing to deliver has delivered the newest version        *)
(* (Watching), and no copy is ahead of the resource (CopiesBehind): so a   *)
(* version that the predicate lets pass is not passed over when a newer    *)
(* one takes its place.                                                    *)
(***************************************************************************)

Watching == \A k \in Controllers : ~news[k] => cache[k] = resource

CopiesBehind == resource # None => \A k \in Controllers : cache[k] # None =>
  /\ cache[k].generation <= resource.generation
  /\ cache[k].finalizer => resource.finalizer

AwakeInv == TypeInv /\ Watching /\ CopiesBehind /\ NeverStranded

LEMMA FinalizerStays ==
  ASSUME TypeInv, [Next]_vars, resource' # None
  PROVE  resource.finalizer => resource'.finalizer
<1>1. resource # None /\ resource \in Resources
  BY ResourceGrows, Numbers
<1>2. CASE \E k \in Controllers : PatchStatus(k) /\ Patched(k)
  BY <1>1, <1>2 DEF Patched, Resources
<1>3. CASE ~\E k \in Controllers : PatchStatus(k) /\ Patched(k)
  BY <1>1, <1>3, ResourceSteps DEF Resources
<1> QED
  BY <1>2, <1>3

LEMMA WatchingStep ==
  ASSUME TypeInv, Watching, [Next]_vars PROVE Watching'
<1> SUFFICES ASSUME NEW k \in Controllers
             PROVE  \/ news'[k]
                    \/ news'[k] = news[k] /\ cache'[k] = cache[k] /\ resource' = resource
                    \/ cache'[k] = resource'
  BY DEF Watching
<1> USE DEF TypeInv, TypeOK
<1>1. ASSUME NEW j \in Controllers, Deliver(j) \/ Crash(j)
      PROVE  \/ news'[k]
             \/ news'[k] = news[k] /\ cache'[k] = cache[k] /\ resource' = resource
             \/ cache'[k] = resource'
  <2>1. CASE j # k
    BY <1>1, <2>1 DEF Deliver, Crash
  <2>2. CASE Deliver(k)
    BY <2>2 DEF Deliver
  <2>3. CASE Crash(k)
    <3>1. cache'[k] = None /\ news'[k] = (resource # None) /\ resource' = resource
      BY <2>3 DEF Crash
    <3> QED
      BY <3>1
  <2> QED
    BY <1>1, <2>1, <2>2, <2>3
<1>2. ASSUME NEW j \in Controllers, ControllerStep(j) \/ FetchFails(j) \/ RequestFails(j)
      PROVE  news'[k] \/ UNCHANGED <<news, cache, resource>>
  BY <1>2 DEF ControllerStep, Reconcile, AddFinalizer, RemoveFinalizer, FetchSecrets,
       GetSecret, WriteSecret, PatchStatus, FetchFails, RequestFails, Write
<1>3. ASSUME \/ EditSpec \/ DeleteResource \/ DropSecret \/ CollectSecret
             \/ ChangeVault \/ Tick \/ UNCHANGED vars
      PROVE  news'[k] \/ UNCHANGED <<news, cache, resource>>
  BY <1>3 DEF EditSpec, DeleteResource, DropSecret, CollectSecret, ChangeVault, Tick, vars, Write
<1> QED
  BY <1>1, <1>2, <1>3 DEF Next

LEMMA CopiesBehindStep ==
  ASSUME TypeInv, CopiesBehind, [Next]_vars PROVE CopiesBehind'
<1> SUFFICES ASSUME resource' # None, NEW k \in Controllers, cache'[k] # None
             PROVE  /\ cache'[k].generation <= resource'.generation
                    /\ cache'[k].finalizer => resource'.finalizer
  BY DEF CopiesBehind
<1>1. /\ resource # None /\ resource.generation \in Nat
      /\ resource'.generation >= resource.generation
      /\ resource.finalizer => resource'.finalizer
  BY ResourceGrows, Numbers, FinalizerStays
<1>2. resource'.generation \in Nat
  BY TypeInvStep DEF TypeInv, TypeOK, Resources, Generations
<1>3. CASE cache'[k] = cache[k]
  <2>1. cache[k].generation \in Nat
    BY <1>3, Numbers
  <2> QED
    BY <1>1, <1>2, <1>3, <2>1 DEF CopiesBehind
<1>4. CASE cache'[k] = resource
  BY <1>1, <1>2, <1>4
<1> QED
  BY <1>3, <1>4, CacheSteps DEF TypeInv

\* A version that passes is not outdated by one that does not.
LEMMA StillPasses ==
  ASSUME TypeInv, CopiesBehind, [Next]_vars, resource' # None, NEW k \in Controllers,
         Passes(cache[k], resource)
  PROVE  Passes(cache[k], resource')
<1> SUFFICES ASSUME cache[k] # None
             PROVE  \/ cache[k].generation # resource'.generation
                    \/ cache[k].finalizer # resource'.finalizer
  BY DEF Passes
<1>1. /\ resource # None /\ resource \in Resources /\ resource.generation \in Nat
      /\ resource'.generation >= resource.generation
      /\ resource.finalizer => resource'.finalizer
  BY ResourceGrows, Numbers, FinalizerStays
<1>2. resource' \in Resources /\ resource'.generation \in Nat
  BY TypeInvStep DEF TypeInv, TypeOK, Resources, Generations
<1>3. cache[k] \in Resources /\ cache[k].generation \in Nat
  BY Numbers
<1>4. /\ cache[k].generation <= resource.generation
      /\ cache[k].finalizer => resource.finalizer
  BY <1>1 DEF CopiesBehind
<1>5. CASE cache[k].generation # resource.generation
  BY <1>1, <1>2, <1>3, <1>4, <1>5
<1>6. CASE cache[k].finalizer # resource.finalizer
  BY <1>1, <1>2, <1>3, <1>4, <1>6 DEF Resources
<1> QED
  BY <1>5, <1>6 DEF Passes

\* What others do leaves a process awake.
LEMMA OthersLeaveAwake ==
  ASSUME TypeInv, CopiesBehind, [Next]_vars, resource' # None, NEW k \in Controllers, Awake(k),
         ~(Deliver(k) \/ ControllerStep(k) \/ FetchFails(k) \/ RequestFails(k) \/ Crash(k))
  PROVE  Awake(k)'
<1> USE DEF TypeInv, TypeOK
<1> DEFINE Aside == /\ pc'[k] = pc[k] /\ cache'[k] = cache[k] /\ (news[k] => news'[k])
                    /\ queued'[k] \in {queued[k], "event"}
<1>1. ASSUME NEW j \in Controllers, j # k, Deliver(j) \/ FetchFails(j) \/ RequestFails(j) \/ Crash(j)
      PROVE  Aside
  BY <1>1 DEF Deliver, FetchFails, RequestFails, Crash, Return, Ask
<1>2. ASSUME NEW j \in Controllers, j # k, ControllerStep(j)
      PROVE  Aside
  <2>1. CASE Reconcile(j) \/ FetchSecrets(j) \/ GetSecret(j)
    BY <1>2, <2>1 DEF Reconcile, FetchSecrets, GetSecret, Ask
  <2>2. CASE AddFinalizer(j) \/ RemoveFinalizer(j)
    BY <1>2, <2>2 DEF AddFinalizer, RemoveFinalizer, Return, Write
  <2>3. CASE WriteSecret(j)
    BY <1>2, <2>3 DEF WriteSecret, Return, Ask, WriteToSecret
  <2>4. CASE PatchStatus(j)
    BY <1>2, <2>4 DEF PatchStatus, Return, Write
  <2> QED
    BY <1>2, <2>1, <2>2, <2>3, <2>4 DEF ControllerStep
<1>3. ASSUME \/ EditSpec \/ DeleteResource \/ DropSecret \/ CollectSecret
             \/ ChangeVault \/ Tick \/ UNCHANGED vars
      PROVE  Aside
  BY <1>3 DEF EditSpec, DeleteResource, DropSecret, CollectSecret, ChangeVault, Tick, vars,
       Write, WriteToSecret
<1>4. Aside
  BY <1>1, <1>2, <1>3 DEF Next
<1>5. Passes(cache[k], resource) => Passes(cache[k], resource')
  BY StillPasses
<1> QED
  BY <1>4, <1>5 DEF Awake

\* A process stays awake through its own steps: what ends a reconcile without a
\* timer is a patch that brings an event.
LEMMA OwnStepsKeepAwake ==
  ASSUME AwakeInv, [Next]_vars, resource' # None, NEW k \in Controllers,
         Deliver(k) \/ ControllerStep(k) \/ FetchFails(k) \/ RequestFails(k) \/ Crash(k)
  PROVE  Awake(k)'
<1> USE DEF AwakeInv, TypeInv, TypeOK
<1>0. resource # None /\ Awake(k)
  BY ResourceGrows DEF NeverStranded
<1>1. CASE Deliver(k)
  <2>1. CASE Passes(cache[k], resource)
    BY <1>0, <1>1, <2>1 DEF Deliver, Awake
  <2>2. CASE ~Passes(cache[k], resource)
    BY <1>0, <1>1, <2>2 DEF Deliver, Awake
  <2> QED
    BY <2>1, <2>2
<1>2. CASE Crash(k)
  BY <1>0, <1>2 DEF Crash, Awake, Passes
<1>3. CASE Reconcile(k)
  <2>1. CASE cache[k] = None
    <3>1. news[k]
      BY <1>0, <2>1 DEF Watching
    <3> QED
      BY <1>3, <2>1, <3>1 DEF Reconcile, Awake, Passes
  <2>2. CASE cache[k] # None
    <3>1. FirstRequest(cache[k]) # "idle"
      BY DEF FirstRequest
    <3> QED
      BY <1>3, <2>2, <3>1 DEF Reconcile, Ask, Awake
  <2> QED
    BY <2>1, <2>2
<1>4. CASE AddFinalizer(k)
  <2>1. CASE ~resource.finalizer
    <3>1. news'[k] /\ cache'[k] = cache[k]
      BY <1>0, <1>4, <2>1 DEF AddFinalizer, Write
    <3>2. resource'.finalizer = TRUE
      BY <1>0, <1>4, <2>1, Numbers DEF AddFinalizer, Write, Resources
    <3>3. cache[k] = None \/ ~cache[k].finalizer
      BY <1>0, <2>1 DEF CopiesBehind
    <3> QED
      BY <3>1, <3>2, <3>3 DEF Awake, Passes
  <2>2. CASE resource.finalizer
    BY <1>4, <2>2 DEF AddFinalizer, Return, error_policy, Requeue, Awake
  <2> QED
    BY <2>1, <2>2
<1>5. CASE RemoveFinalizer(k)
  BY <1>0, <1>5 DEF RemoveFinalizer, Write
<1>6. CASE FetchSecrets(k) \/ GetSecret(k) \/ FetchFails(k)
  BY <1>6 DEF FetchSecrets, GetSecret, FetchFails, Ask, Awake
<1>7. CASE WriteSecret(k)
  BY <1>7 DEF WriteSecret, Return, Ask, error_policy, Requeue, Awake
<1>8. CASE PatchStatus(k) \/ RequestFails(k)
  BY <1>8 DEF PatchStatus, RequestFails, Return, error_policy, Requeue, Awake
<1> QED
  BY <1>1, <1>2, <1>3, <1>4, <1>5, <1>6, <1>7, <1>8 DEF ControllerStep

LEMMA AwakeInvStep == AwakeInv /\ [Next]_vars => AwakeInv'
<1> SUFFICES ASSUME AwakeInv, [Next]_vars PROVE AwakeInv'
  OBVIOUS
<1>1. TypeInv' /\ Watching' /\ CopiesBehind'
  BY TypeInvStep, WatchingStep, CopiesBehindStep DEF AwakeInv
<1>2. ASSUME resource' # None, NEW k \in Controllers PROVE Awake(k)'
  <2>1. Awake(k)
    BY <1>2, ResourceGrows DEF AwakeInv, NeverStranded
  <2> QED
    BY <1>2, <2>1, OthersLeaveAwake, OwnStepsKeepAwake DEF AwakeInv
<1> QED
  BY <1>1, <1>2 DEF AwakeInv, NeverStranded

\* Whichever events the predicate drops, in whatever order watches deliver,
\* requests fail, processes crash and users edit: as long as the resource exists,
\* every process has a reconcile of it before it.
THEOREM NobodyIsStranded == Spec => []NeverStranded
<1>1. Init => AwakeInv
  BY TypeOKInit DEF Init, AwakeInv, TypeInv, DeletedLast, ObjectAtHand, Watching, CopiesBehind,
                    NeverStranded, Awake, Passes
<1>2. AwakeInv => NeverStranded
  BY DEF AwakeInv
<1> QED
  BY <1>1, <1>2, AwakeInvStep, PTL DEF Spec
-----------------------------------------------------------------------------
(***************************************************************************)
(* A settled resource stays settled                                        *)
(***************************************************************************)

\* What a reconcile of a valid spec has found out on its way.
Equipped == \A k \in Controllers :
  /\ pc[k] \in Writing => local[k].object.generation \in ValidSpecs
  /\ pc[k] \in {"getSecret", "writeSecret"} => local[k].success

RestInv == TypeInv /\ Fetched /\ Equipped

LEMMA OthersLeaveReconcile ==
  ASSUME TypeOK, [Next]_vars, NEW k \in Controllers,
         ~(ControllerStep(k) \/ FetchFails(k) \/ RequestFails(k) \/ Crash(k))
  PROVE  pc'[k] = pc[k] /\ local'[k] = local[k]
<1> USE DEF TypeOK
<1>1. ASSUME NEW j \in Controllers, j # k, ControllerStep(j) \/ FetchFails(j)
                                           \/ RequestFails(j) \/ Crash(j)
      PROVE  pc'[k] = pc[k] /\ local'[k] = local[k]
  BY <1>1 DEF ControllerStep, Reconcile, AddFinalizer, RemoveFinalizer, FetchSecrets,
       GetSecret, WriteSecret, PatchStatus, FetchFails, RequestFails, Crash, Return, Ask
<1>2. ASSUME \/ \E j \in Controllers : Deliver(j)
             \/ EditSpec \/ DeleteResource \/ DropSecret \/ CollectSecret
             \/ ChangeVault \/ Tick \/ UNCHANGED vars
      PROVE  pc'[k] = pc[k] /\ local'[k] = local[k]
  BY <1>2 DEF Deliver, EditSpec, DeleteResource, DropSecret, CollectSecret, ChangeVault, Tick,
       vars
<1> QED
  BY <1>1, <1>2 DEF Next

LEMMA EquippedStep ==
  ASSUME RestInv, [Next]_vars PROVE Equipped'
<1> USE DEF RestInv, TypeInv
<1> DEFINE Ready(k) == /\ pc[k] \in Writing => local[k].object.generation \in ValidSpecs
                       /\ pc[k] \in {"getSecret", "writeSecret"} => local[k].success
<1> SUFFICES ASSUME NEW k \in Controllers PROVE Ready(k)'
  BY DEF Equipped
<1>0. Ready(k)
  BY DEF Equipped
<1>1. CASE Reconcile(k)
  <2>1. CASE cache[k] = None
    BY <1>0, <1>1, <2>1 DEF Reconcile
  <2>2. CASE cache[k] # None
    <3>1. pc'[k] = FirstRequest(cache[k]) /\ local'[k].object = cache[k]
      BY <1>1, <2>2 DEF Reconcile, Ask, TypeOK, Locals
    <3>2. FirstRequest(cache[k]) \notin {"getSecret", "writeSecret"}
      BY DEF FirstRequest
    <3>3. FirstRequest(cache[k]) = "fetch" => cache[k].generation \in ValidSpecs
      BY DEF FirstRequest
    <3> QED
      BY <3>1, <3>2, <3>3 DEF Writing
  <2> QED
    BY <2>1, <2>2
<1>2. CASE FetchSecrets(k)
  <2>1. /\ pc[k] = "fetch" /\ local'[k].object = local[k].object
        /\ local'[k].success = TRUE
    BY <1>2 DEF FetchSecrets, TypeOK, Locals
  <2> QED
    BY <1>0, <2>1 DEF Writing
<1>3. CASE GetSecret(k)
  <2>1. /\ pc[k] = "getSecret" /\ local'[k].object = local[k].object
        /\ local'[k].success = local[k].success
    BY <1>3 DEF GetSecret, TypeOK, Locals
  <2> QED
    BY <1>0, <2>1 DEF Writing
<1>4. CASE WriteSecret(k) \/ FetchFails(k)
  <2>1. pc'[k] \in {"status", "idle"}
    BY <1>4 DEF WriteSecret, FetchFails, Return, Ask, TypeOK
  <2> QED
    BY <2>1 DEF Writing
<1>5. CASE AddFinalizer(k) \/ RemoveFinalizer(k) \/ PatchStatus(k) \/ RequestFails(k) \/ Crash(k)
  <2>1. pc'[k] = "idle"
    BY <1>5 DEF AddFinalizer, RemoveFinalizer, PatchStatus, RequestFails, Crash, Return, TypeOK
  <2> QED
    BY <2>1 DEF Writing
<1>6. CASE pc'[k] = pc[k] /\ local'[k] = local[k]
  BY <1>0, <1>6
<1> QED
  BY <1>1, <1>2, <1>3, <1>4, <1>5, <1>6, OthersLeaveReconcile DEF ControllerStep

LEMMA RestInvStep == RestInv /\ [Next]_vars => RestInv'
<1> SUFFICES ASSUME RestInv, [Next]_vars PROVE RestInv'
  OBVIOUS
<1>1. TypeInv'
  BY TypeInvStep DEF RestInv
<1>2. Fetched'
  BY ReconcileSteps DEF Fetched, RestInv, TypeInv
<1> QED
  BY <1>1, <1>2, EquippedStep DEF RestInv

\* At rest a patch of the status writes what is there, but for the time.
LEMMA PatchAtRest ==
  ASSUME RestInv, AtRest, [Next]_vars, resource' # None, NEW k \in Controllers, PatchStatus(k)
  PROVE  Settled'
<1> USE DEF RestInv
<1>1. resource # None /\ Settled /\ Informed(k) /\ pc[k] = "status"
  BY ResourceGrows DEF AtRest, PatchStatus
<1>2. /\ resource'.generation = resource.generation
      /\ resource'.status.observed = local[k].object.generation
      /\ resource'.status.ready => local[k].success
  BY PatchObserves
<1>3. local[k].object.generation = resource.generation
  BY <1>1 DEF Informed, Newest
<1>4. local[k].success <=> resource.generation \in ValidSpecs
  BY <1>1 DEF Informed
<1>5. local[k].success => resource'.status.ready
  <2> SUFFICES ASSUME local[k].success PROVE resource'.status.ready
    OBVIOUS
  <2>1. resource' = [resource EXCEPT !.status = status_patch(@, ReadyStatus(local[k].object))]
    BY <1>1 DEF PatchStatus, Write
  <2>2. resource'.status = status_patch(resource.status, ReadyStatus(local[k].object))
    BY <1>1, <2>1, Numbers DEF Resources
  <2>3. status_patch(resource.status, ReadyStatus(local[k].object)).ready = TRUE
    BY DEF status_patch, ReadyStatus
  <2> QED
    BY <2>2, <2>3
<1>6. secret' = secret /\ vault' = vault
  BY DEF PatchStatus, world
<1>7. resource.status.ready <=> resource.generation \in ValidSpecs
  BY <1>1 DEF Settled
<1>8. resource.status.ready => /\ secret # None /\ secret.generation = resource.generation
                               /\ secret.values = vault
  BY <1>1 DEF Settled
<1>9. resource'.status.ready <=> resource'.generation \in ValidSpecs
  BY <1>2, <1>4, <1>5
<1> QED
  BY <1>2, <1>3, <1>6, <1>7, <1>8, <1>9 DEF Settled

\* The steps that may disturb it, and those that leave it alone.
Disturbs == \/ EditSpec \/ DeleteResource \/ DropSecret \/ ChangeVault
            \/ \E k \in Controllers : FetchFails(k)

LEMMA SettledStays ==
  ASSUME RestInv, AtRest, [Next]_vars, ~Disturbs, resource' # None
  PROVE  /\ Settled' /\ vault' = vault /\ resource # None
         /\ resource'.generation = resource.generation
         /\ resource'.deleting = resource.deleting
<1> USE DEF RestInv, TypeInv
<1>1. resource # None /\ resource \in Resources /\ Settled
  BY ResourceGrows, Numbers DEF AtRest
<1>2. vault' = vault
  BY DEF Next, Deliver, ControllerStep, Reconcile, AddFinalizer, RemoveFinalizer, FetchSecrets,
       GetSecret, WriteSecret, PatchStatus, FetchFails, RequestFails, Crash, CollectSecret, Tick,
       vars, world, Disturbs
<1>3. ASSUME NEW k \in Controllers, PatchStatus(k)
      PROVE  resource'.generation = resource.generation /\ resource'.deleting = resource.deleting
  <2>1. Write([resource EXCEPT !.status = status_patch(@,
           IF local[k].success THEN ReadyStatus(local[k].object)
                               ELSE FailedStatus(local[k].object))])
    BY <1>1, <1>3 DEF PatchStatus
  <2> QED
    BY <1>1, <2>1 DEF Write, Resources
<1>4. ASSUME NEW k \in Controllers, WriteSecret(k)
      PROVE  /\ resource' = resource
             /\ \/ secret' = secret
                \/ /\ secret' # None /\ secret'.generation = resource.generation
                   /\ secret'.values = vault
  <2>1. resource' = resource
    BY <1>4 DEF WriteSecret
  <2>2. CASE \E applied \in BOOLEAN : secret' = Desired(k, applied)
    <3>1. PICK applied \in BOOLEAN : secret' = Desired(k, applied)
      BY <2>2
    <3>2. Informed(k) /\ pc[k] = "writeSecret"
      BY <1>1, <1>4 DEF AtRest, WriteSecret
    <3>3. local[k].object.generation = resource.generation /\ local[k].values = vault
      BY <3>2 DEF Informed, Newest
    <3>4. /\ secret'.generation = local[k].object.generation
          /\ secret'.values = local[k].values
      BY <3>1 DEF Desired
    <3>5. TypeOK'
      BY TypeInvStep
    <3>6. local[k].object \in Resources /\ local[k].values \in 0..MaxVault
      BY <3>2, Numbers DEF TypeOK, Locals
    <3>7. Desired(k, applied) \in Secrets
      BY <3>6 DEF Desired, Secrets, Resources
    <3>8. secret' # None
      BY <3>1, <3>7, NoneAssumption
    <3> QED
      BY <2>1, <3>3, <3>4, <3>8
  <2>3. CASE secret' = secret
    BY <2>1, <2>3
  <2> QED
    BY <1>4, <2>2, <2>3 DEF WriteSecret, WriteToSecret
<1>5. ASSUME NEW k \in Controllers, AddFinalizer(k)
      PROVE  /\ resource'.generation = resource.generation
             /\ resource'.deleting = resource.deleting
             /\ resource'.status = resource.status
             /\ secret' = secret
  BY <1>1, <1>5 DEF AddFinalizer, Write, Resources
<1>6. \/ resource' = resource /\ secret' = secret
      \/ \E k \in Controllers : AddFinalizer(k) \/ WriteSecret(k) \/ PatchStatus(k)
  BY <1>1 DEF Next, Deliver, ControllerStep, Reconcile, RemoveFinalizer, FetchSecrets,
       GetSecret, FetchFails, RequestFails, Crash, CollectSecret, Tick, vars, Disturbs, Write
<1>7. CASE resource' = resource /\ secret' = secret
  BY <1>1, <1>2, <1>7 DEF Settled
<1>8. CASE \E k \in Controllers : AddFinalizer(k)
  BY <1>1, <1>2, <1>5, <1>8 DEF Settled
<1>9. CASE \E k \in Controllers : WriteSecret(k)
  BY <1>1, <1>2, <1>4, <1>9 DEF Settled
<1>10. CASE \E k \in Controllers : PatchStatus(k)
  BY <1>1, <1>2, <1>3, <1>10, PatchAtRest
<1> QED
  BY <1>6, <1>7, <1>8, <1>9, <1>10

LEMMA InformedStays ==
  ASSUME RestInv, AtRest, [Next]_vars, ~Disturbs, resource' # None, NEW k \in Controllers
  PROVE  Informed(k)'
<1> USE DEF RestInv, TypeInv
<1>1. /\ resource # None /\ vault' = vault
      /\ resource'.generation = resource.generation
      /\ resource'.deleting = resource.deleting
  BY SettledStays
<1>2. Informed(k)
  BY <1>1 DEF AtRest
<1>3. cache'[k] # None => cache'[k].generation = resource'.generation
                          /\ cache'[k].deleting = resource'.deleting
  BY <1>1, <1>2, CacheSteps DEF Informed, Newest
<1> DEFINE Work == /\ pc[k] # "idle" => Newest(local[k].object)
                   /\ pc[k] \in {"getSecret", "writeSecret"} => local[k].values = vault
                   /\ pc[k] = "status" => (local[k].success <=> resource.generation \in ValidSpecs)
<1>4. Work
  BY <1>2 DEF Informed
<1>5. ASSUME Reconcile(k) PROVE Work'
  <2>1. CASE cache[k] = None
    BY <1>1, <1>4, <1>5, <2>1 DEF Reconcile, Newest
  <2>2. CASE cache[k] # None
    <3>1. /\ pc'[k] = FirstRequest(cache[k]) /\ local'[k].object = cache[k]
          /\ local'[k].success = local[k].success
      BY <1>5, <2>2 DEF Reconcile, Ask, TypeOK, Locals
    <3>2. cache[k].generation = resource.generation /\ cache[k].deleting = resource.deleting
      BY <1>2, <2>2 DEF Informed, Newest
    <3>3. ~local[k].success
      BY <1>5 DEF Reconcile, Fetched
    <3>4. FirstRequest(cache[k]) \notin {"getSecret", "writeSecret"}
      BY DEF FirstRequest
    <3>5. FirstRequest(cache[k]) = "status" => cache[k].generation \notin ValidSpecs
      BY DEF FirstRequest
    <3> QED
      BY <1>1, <3>1, <3>2, <3>3, <3>4, <3>5 DEF Newest
  <2> QED
    BY <2>1, <2>2
<1>6. ASSUME FetchSecrets(k) PROVE Work'
  <2>1. /\ pc[k] = "fetch" /\ pc'[k] = "getSecret" /\ local'[k].object = local[k].object
        /\ local'[k].values = vault
    BY <1>6 DEF FetchSecrets, Ask, TypeOK, Locals
  <2> QED
    BY <1>1, <1>4, <2>1 DEF Newest
<1>7. ASSUME GetSecret(k) PROVE Work'
  <2>1. /\ pc[k] = "getSecret" /\ pc'[k] = "writeSecret" /\ local'[k].object = local[k].object
        /\ local'[k].values = local[k].values
    BY <1>7 DEF GetSecret, Ask, TypeOK, Locals
  <2> QED
    BY <1>1, <1>4, <2>1 DEF Newest
<1>8. ASSUME WriteSecret(k) PROVE Work'
  <2>1. \/ pc'[k] = "idle"
        \/ pc[k] = "writeSecret" /\ pc'[k] = "status" /\ local'[k] = local[k]
    BY <1>8 DEF WriteSecret, Return, Ask, TypeOK
  <2>2. pc[k] = "writeSecret" => local[k].success /\ local[k].object.generation \in ValidSpecs
    BY DEF Equipped, Writing
  <2> QED
    BY <1>1, <1>4, <2>1, <2>2 DEF Newest
<1>9. ASSUME AddFinalizer(k) \/ RemoveFinalizer(k) \/ PatchStatus(k) \/ RequestFails(k) \/ Crash(k)
      PROVE  Work'
  <2>1. pc'[k] = "idle"
    BY <1>9 DEF AddFinalizer, RemoveFinalizer, PatchStatus, RequestFails, Crash, Return, TypeOK
  <2> QED
    BY <2>1
<1>10. ASSUME pc'[k] = pc[k] /\ local'[k] = local[k] PROVE Work'
  BY <1>1, <1>4, <1>10 DEF Newest
<1>11. Work'
  <2> HIDE DEF Work
  <2> QED
    BY <1>5, <1>6, <1>7, <1>8, <1>9, <1>10, OthersLeaveReconcile DEF ControllerStep, Disturbs
<1> QED
  BY <1>3, <1>11 DEF Informed, Newest

LEMMA RestStep ==
  RestInv /\ [Next]_vars => [AtRest /\ ~AtRest' => Disturbs]_vars
<1> SUFFICES ASSUME RestInv, [Next]_vars, AtRest, ~Disturbs PROVE AtRest'
  OBVIOUS
<1>1. CASE resource' = None
  BY <1>1 DEF AtRest, Settled
<1>2. CASE resource' # None
  BY <1>2, SettledStays, InformedStays DEF AtRest
<1> QED
  BY <1>1, <1>2

\* Once status and Secret reflect the spec and every copy at hand is new enough,
\* no reconcile, periodic or repeated after an error, no late watch and no crash of
\* any process disturbs them: it takes an edit, a deletion, a Secret removed by
\* hand, new values in the vault, or a vault that fails to answer.
THEOREM RestStays == Spec => RestIsKept
<1>1. Init => RestInv
  BY TypeOKInit DEF Init, RestInv, TypeInv, DeletedLast, ObjectAtHand, Fetched, Equipped,
                    Writing, NoLocals
<1>2. RestInv /\ [Next]_vars => [AtRest /\ ~AtRest' => Disturbs]_vars
  BY RestStep
<1> QED
  BY <1>1, <1>2, RestInvStep, PTL DEF Spec, RestIsKept, Disturbs
-----------------------------------------------------------------------------
(***************************************************************************)
(* The generations of resource, copies and Secret                          *)
(*                                                                         *)
(* The object at hand is no newer than the copy in the reflector, and that *)
(* no newer than the resource (InOrder); the Secret is no newer than any   *)
(* of the three (NotBeyond, Trails), if one process writes at a time.      *)
(***************************************************************************)

InOrder(k) ==
  /\ cache[k] # None /\ resource # None => cache[k].generation <= resource.generation
  /\ pc[k] # "idle" /\ resource # None => local[k].object.generation <= resource.generation
  /\ pc[k] # "idle" /\ cache[k] # None => local[k].object.generation <= cache[k].generation

Trails(k) == secret # None =>
  /\ cache[k] # None => secret.generation <= cache[k].generation
  /\ pc[k] # "idle" => secret.generation <= local[k].object.generation

NotBeyond == secret # None /\ resource # None => secret.generation <= resource.generation

Forward == secret # None /\ secret' # None => secret'.generation >= secret.generation

LEMMA ForwardNumbers ==
  ASSUME TypeInv
  PROVE  /\ secret # None => secret.generation \in Nat
         /\ resource # None => resource.generation \in Nat
         /\ \A k \in Controllers :
              /\ cache[k] # None => cache[k].generation \in Nat
              /\ pc[k] # "idle" => local[k].object.generation \in Nat
BY Numbers DEF TypeInv, TypeOK, Locals, Secrets

LEMMA GenerationGrows ==
  ASSUME TypeInv, [Next]_vars, resource' # None
  PROVE  /\ resource # None /\ resource'.generation >= resource.generation
         /\ resource.generation \in Nat /\ resource'.generation \in Nat
<1>1. resource' \in Resources
  BY TypeInvStep DEF TypeInv, TypeOK
<1> QED
  BY <1>1, ResourceGrows, Numbers DEF Resources, Generations

\* No step has a process work on an object, or know a copy, that is newer than the
\* next in the order.
LEMMA InOrderStep ==
  ASSUME TypeInv, [Next]_vars, NEW k \in Controllers, InOrder(k) PROVE InOrder(k)'
<1>1. TypeOK
  BY DEF TypeInv
<1>2. /\ resource # None => resource.generation \in Nat
      /\ cache[k] # None => cache[k].generation \in Nat
      /\ pc[k] # "idle" => local[k].object.generation \in Nat
  BY ForwardNumbers
<1>3. cache'[k] # None /\ resource' # None => cache'[k].generation <= resource'.generation
  BY <1>1, <1>2, GenerationGrows, CacheSteps DEF InOrder
<1>4. ASSUME pc'[k] # "idle"
      PROVE  /\ resource' # None => local'[k].object.generation <= resource'.generation
             /\ cache'[k] # None => local'[k].object.generation <= cache'[k].generation
  <2>1. CASE cache'[k] = resource /\ UNCHANGED <<resource, secret, pc, local>>
    BY <1>2, <1>4, <2>1 DEF InOrder
  <2>2. CASE cache'[k] \in {cache[k], None}
    <3>1. CASE pc[k] # "idle" /\ local'[k].object = local[k].object
      BY <1>2, <2>2, <3>1, GenerationGrows DEF InOrder
    <3>2. CASE cache[k] # None /\ local'[k].object = cache[k]
      BY <1>2, <2>2, <3>2, GenerationGrows DEF InOrder
    <3> QED
      BY <1>1, <1>4, <3>1, <3>2, ObjectSteps
  <2> QED
    BY <1>1, <2>1, <2>2, CacheSteps
<1> QED
  BY <1>3, <1>4 DEF InOrder

\* A Secret that is not written stays behind whatever there is.
LEMMA SameSecretNotBeyond ==
  ASSUME TypeInv, NotBeyond, [Next]_vars, secret' = secret PROVE NotBeyond'
BY GenerationGrows, ForwardNumbers DEF NotBeyond

LEMMA SameSecretTrails ==
  ASSUME TypeInv, NotBeyond, [Next]_vars, secret' = secret, NEW k \in Controllers, Trails(k)
  PROVE  Trails(k)'
<1> SUFFICES ASSUME secret # None PROVE Trails(k)'
  BY DEF Trails
<1>1. TypeOK
  BY DEF TypeInv
<1>2. ASSUME cache'[k] # None PROVE secret.generation <= cache'[k].generation
  BY <1>1, <1>2, CacheSteps DEF Trails, NotBeyond
<1>3. ASSUME pc'[k] # "idle" PROVE secret.generation <= local'[k].object.generation
  BY <1>1, <1>3, ObjectSteps DEF Trails
<1> QED
  BY <1>2, <1>3 DEF Trails

\* What the Secret is after a step.
LEMMA ApplySteps ==
  ASSUME TypeInv, [Next]_vars
  PROVE  \/ secret' = secret
         \/ secret' = None
         \/ \E k \in Controllers : /\ pc[k] = "writeSecret" /\ pc'[k] = "status"
                                   /\ secret'.generation = local[k].object.generation
                                   /\ UNCHANGED <<resource, cache, local>>
<1>1. ASSUME NEW k \in Controllers, WriteSecret(k), secret' # secret
      PROVE  /\ pc[k] = "writeSecret" /\ pc'[k] = "status"
             /\ secret'.generation = local[k].object.generation
             /\ UNCHANGED <<resource, cache, local>>
  BY <1>1 DEF WriteSecret, WriteToSecret, Desired, Ask, TypeInv, TypeOK, world
<1> QED
  BY <1>1 DEF Next, Deliver, ControllerStep, Reconcile, AddFinalizer, RemoveFinalizer,
       FetchSecrets, GetSecret, PatchStatus, FetchFails, RequestFails, Crash, EditSpec,
       DeleteResource, DropSecret, CollectSecret, ChangeVault, Tick, vars, WriteToSecret

\* A Secret that is written is as old as the object at hand, and the values.
LEMMA WrittenSecretTrails ==
  ASSUME TypeInv, NEW k \in Controllers, InOrder(k), Trails(k),
         pc[k] = "writeSecret", pc'[k] = "status",
         secret'.generation = local[k].object.generation,
         UNCHANGED <<resource, cache, local>>
  PROVE  NotBeyond' /\ Trails(k)' /\ Forward
<1>1. /\ resource # None => local[k].object.generation <= resource.generation
      /\ cache[k] # None => local[k].object.generation <= cache[k].generation
      /\ local[k].object.generation \in Nat
  BY ForwardNumbers DEF InOrder
<1>2. local[k].object.generation <= local[k].object.generation
  BY <1>1
<1>3. NotBeyond' /\ Trails(k)'
  BY <1>1, <1>2 DEF NotBeyond, Trails
<1>4. Forward
  BY DEF Forward, Trails
<1> QED
  BY <1>3, <1>4

LEMMA SameSecretForward ==
  ASSUME TypeInv, secret' \in {secret, None} PROVE Forward
BY ForwardNumbers DEF Forward

-----------------------------------------------------------------------------
(***************************************************************************)
(* A deletion is final, when one process reconciles at a time              *)
(***************************************************************************)

\* The finalizer is removed by the one process that could write, and from a copy
\* that is being deleted; no later one is served.
THEOREM NothingWrittenForTheGone ==
  ASSUME Alone PROVE Spec => DeletionIsFinal
<1> DEFINE Inv == TypeInv /\ FinalizerFirst /\ DeletionKnown
<1>1. Init => Inv
  BY TypeOKInit DEF Init, TypeInv, DeletedLast, ObjectAtHand, FinalizerFirst, DeletionKnown,
                    Writing, Serviceable
<1>2. Inv /\ [Next]_vars => Inv'
  BY TypeInvStep, FinalizerFirstStep, DeletionKnownStep
<1>3. Inv /\ [Next]_vars => [resource = None => secret' \in {secret, None}]_vars
  BY ApplySteps DEF DeletionKnown, Writing
<1> QED
  BY <1>1, <1>2, <1>3, PTL DEF Spec, DeletionIsFinal
=============================================================================
