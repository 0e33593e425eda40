----------------------------- MODULE Reconciler -----------------------------
(***************************************************************************)
(* The controller of src/controller.rs and its wiring in main(): one       *)
(* VaultwardenSecret, the Secret it owns, and the processes that reconcile *)
(* it, each from its own copy of the resource, kept up to date by a watch. *)
(*                                                                         *)
(* A reconcile is a sequence of requests to the API server and one to the  *)
(* vault client; every one is a step.  A process runs one reconcile of a   *)
(* resource at a time, and queues the next one for an event or a timer.    *)
(*                                                                         *)
(* External: the API server, its garbage collector, and the controller and *)
(* finalizer of kube-runtime.  A watch skips to the newest version.        *)
(***************************************************************************)
EXTENDS Naturals

CONSTANTS
  Controllers,    \* processes that run the controller: one, but for an overlap of leaders
  None,           \* no such object
  ValidSpecs,     \* generations whose spec parse_sync_interval and build_requests accept
  MaxGeneration,  \* bound: generations of the spec, by creation and edits
  MaxVault,       \* bound: versions of the values in the vault
  MaxNow,         \* bound: the clock
  MaxFaults,      \* bound: errors, crashes, Secrets deleted by hand, caches that go back
  BurstLimit      \* bound: reconciles in a row are counted up to this, see NoHotLoop

ASSUME ReconcilerAssumption ==
  /\ MaxGeneration \in Nat \ {0} /\ MaxNow \in Nat \ {0}
  /\ MaxVault \in Nat /\ MaxFaults \in Nat /\ BurstLimit \in Nat
  /\ ValidSpecs \subseteq 1..MaxGeneration

VARIABLES
  resource,   \* the VaultwardenSecret on the API server, or None
  secret,     \* the Secret on the API server, or None
  vault,      \* version of the values in the cache the vault client answers from
  now,        \* the clock
  faults,     \* faults that may still happen
  cache,      \* the reflector's copy of the resource, of each process
  news,       \* the watch of each process has an event to deliver
  queued,     \* the next reconcile of each process: "no", "timer", "event"
  pc,         \* the request each process is about to make
  local,      \* the local variables of each reconcile
  burst       \* history: reconciles queued by events since the last outside cause

world == <<vault, now, faults>>
vars == <<resource, secret, world, cache, news, queued, pc, local, burst>>

\* Setting the deletion timestamp is a generation of its own.
Generations == 1..(MaxGeneration + 1)
Times == 0..MaxNow                 \* 0: no lastSyncTime
Conditions == [type : {"Ready", "SyncFailed"}, status : {"True", "False"},
               generation : Generations]
Statuses == [ready : BOOLEAN, failure : BOOLEAN,     \* failure: lastSyncError is not empty
             observed : Generations \cup {0}, conditions : SUBSET Conditions,
             lastSync : Times]
Resources == [generation : Generations, deleting : BOOLEAN, finalizer : BOOLEAN,
              status : Statuses]
\* The spec and the values a Secret was written from, and whether the field
\* manager of the patch owns it yet.
Secrets == [generation : Generations, values : 0..MaxVault, applied : BOOLEAN]
Locals == [object : Resources \cup {None}, values : 0..MaxVault,
           found : BOOLEAN, success : BOOLEAN]
Requests == {"addFinalizer", "removeFinalizer", "fetch", "getSecret", "writeSecret", "status"}

ASSUME NoneAssumption == None \notin Resources \cup Secrets

NoStatus == [ready |-> FALSE, failure |-> FALSE, observed |-> 0, conditions |-> {}, lastSync |-> 0]
NoLocals == [object |-> None, values |-> 0, found |-> FALSE, success |-> FALSE]

Init ==
  /\ resource = [generation |-> 1, deleting |-> FALSE, finalizer |-> FALSE, status |-> NoStatus]
  /\ secret = None
  /\ vault = 0 /\ now = 1 /\ faults = MaxFaults
  /\ cache = [k \in Controllers |-> None]
  /\ news = [k \in Controllers |-> TRUE]
  /\ queued = [k \in Controllers |-> "no"]
  /\ pc = [k \in Controllers |-> "idle"]
  /\ local = [k \in Controllers |-> NoLocals]
  /\ burst = [k \in Controllers |-> 0]

-----------------------------------------------------------------------------
(***************************************************************************)
(* The watches and the queue                                               *)
(***************************************************************************)

\* Faulty variant of Passes: only the generation is compared.
GenerationOnly(old, new) == old = None \/ old.generation # new.generation
\* Faulty variant of Passes: there is no filter.
EveryEvent(old, new) == TRUE
\* The predicate generation.combine(finalizers): status writes do not pass.
Passes(old, new) ==
  old = None \/ old.generation # new.generation \/ old.finalizer # new.finalizer

Write(new) ==
  /\ resource' = new
  /\ news' = [k \in Controllers |-> TRUE]

\* The reflector stores every version; a deletion is stored, and not passed on.
Deliver(k) ==
  /\ news[k]
  /\ news' = [news EXCEPT ![k] = FALSE]
  /\ cache' = [cache EXCEPT ![k] = resource]
  /\ queued' = [queued EXCEPT ![k] =
       IF resource # None /\ Passes(cache[k], resource) THEN "event" ELSE @]
  /\ UNCHANGED <<resource, secret, world, pc, local, burst>>

\* owns(): a change of the Secret queues a reconcile of its owner.
WriteToSecret(new) ==
  /\ secret' = new
  /\ queued' = [k \in Controllers |-> IF new = secret THEN queued[k] ELSE "event"]

\* The reconcile returns.  An event that came meanwhile goes before the action.
Return(k, action) ==
  /\ pc' = [pc EXCEPT ![k] = "idle"]
  /\ local' = [local EXCEPT ![k] = NoLocals]
  /\ queued' = [queued EXCEPT ![k] = IF @ = "no" THEN action ELSE @]

Ask(k, request) == pc' = [pc EXCEPT ![k] = request]

AwaitChange == "no"
Requeue == "timer"

\* Faulty variant of error_policy: nothing is queued.
ErrorAwaitsChange == AwaitChange
error_policy == Requeue

-----------------------------------------------------------------------------
(***************************************************************************)
(* reconcile, finalizer() and the validation of the spec                   *)
(***************************************************************************)

\* Something outside the controller causes the reconciles that follow.
OutsideCause == burst' = [k \in Controllers |-> 0]

\* Faulty variant of FirstRequest: the finalizer is not added before the apply.
ApplyFirst(object) ==
  IF object.deleting THEN "removeFinalizer"
  ELSE IF object.generation \in ValidSpecs THEN "fetch" ELSE "status"
FirstRequest(object) ==
  IF object.deleting THEN "removeFinalizer"
  ELSE IF ~object.finalizer THEN "addFinalizer"
  ELSE IF object.generation \in ValidSpecs THEN "fetch" ELSE "status"

\* The reconcile works on the copy of this moment.  Without one it ends at once.
Reconcile(k) ==
  /\ pc[k] = "idle" /\ queued[k] # "no"
  /\ queued' = [queued EXCEPT ![k] = "no"]
  /\ IF cache[k] = None THEN UNCHANGED <<pc, local>>
     ELSE /\ local' = [local EXCEPT ![k].object = cache[k]]
          /\ Ask(k, FirstRequest(cache[k]))
  /\ burst' = [burst EXCEPT ![k] =
       IF queued[k] = "timer" THEN 0 ELSE IF @ = BurstLimit THEN @ ELSE @ + 1]
  /\ UNCHANGED <<resource, secret, world, cache, news>>

\* A test in the patch fails when the resource is gone or has the finalizer.
\* The event of the patch, not the action, brings the next reconcile.
AddFinalizer(k) ==
  /\ pc[k] = "addFinalizer"
  /\ IF resource # None /\ ~resource.finalizer
     THEN Write([resource EXCEPT !.finalizer = TRUE]) /\ Return(k, AwaitChange)
     ELSE UNCHANGED <<resource, news>> /\ Return(k, error_policy)
  /\ UNCHANGED <<secret, world, cache, burst>>

\* The cleanup does nothing; without the finalizer the resource goes.
RemoveFinalizer(k) ==
  /\ pc[k] = "removeFinalizer"
  /\ IF resource # None
     THEN Write(None) /\ Return(k, AwaitChange)
     ELSE UNCHANGED <<resource, news>> /\ Return(k, error_policy)
  /\ UNCHANGED <<secret, world, cache, burst>>

-----------------------------------------------------------------------------
(***************************************************************************)
(* reconcile_apply                                                         *)
(***************************************************************************)

\* fetch_secrets answers with all values or with an error, which is reported.
FetchSecrets(k) ==
  /\ pc[k] = "fetch"
  /\ local' = [local EXCEPT ![k].values = vault, ![k].success = TRUE]
  /\ Ask(k, "getSecret")
  /\ UNCHANGED <<resource, secret, world, cache, news, queued, burst>>

FetchFails(k) ==
  /\ pc[k] = "fetch"
  /\ faults > 0 /\ faults' = faults - 1
  /\ Ask(k, "status")
  /\ UNCHANGED <<resource, secret, vault, now, cache, news, queued, local, burst>>

GetSecret(k) ==
  /\ pc[k] = "getSecret"
  /\ local' = [local EXCEPT ![k].found = secret # None]
  /\ Ask(k, "writeSecret")
  /\ UNCHANGED <<resource, secret, world, cache, news, queued, burst>>

\* The Secret built from the spec at hand and the values fetched for it.
Desired(k, applied) ==
  [generation |-> local[k].object.generation, values |-> local[k].values, applied |-> applied]

\* A Secret that has appeared since makes the create fail.  A forced apply
\* creates the Secret if need be, and is no event when it changes nothing.
WriteSecret(k) ==
  /\ pc[k] = "writeSecret"
  /\ IF local[k].found
     THEN WriteToSecret(Desired(k, TRUE)) /\ Ask(k, "status") /\ UNCHANGED local
     ELSE IF secret = None
     THEN WriteToSecret(Desired(k, FALSE)) /\ Ask(k, "status") /\ UNCHANGED local
     ELSE Return(k, error_policy) /\ UNCHANGED secret
  /\ UNCHANGED <<resource, world, cache, news, burst>>

-----------------------------------------------------------------------------
(***************************************************************************)
(* set_ready_status, set_failed_status, patch_status                       *)
(***************************************************************************)

upsert_condition(conditions, new) ==
  {c \in conditions : c.type # new.type} \cup {new}

\* Faulty variant of Condition: the generation is missing, which reads as 0.
Unobserved(type, status, generation) ==
  [type |-> type, status |-> status, generation |-> 0]
Condition(type, status, generation) ==
  [type |-> type, status |-> status, generation |-> generation]

\* Faulty variant of ReadyStatus: the generation is read when the status is.
ObservedNewest(object) ==
  [ready |-> TRUE, failure |-> FALSE, observed |-> resource.generation,
   conditions |-> upsert_condition(
     {c \in object.status.conditions : c.type # "SyncFailed"},
     Condition("Ready", "True", resource.generation)),
   lastSync |-> now]
\* Both are computed from the reconciler's copy of the resource.
ReadyStatus(object) ==
  [ready |-> TRUE, failure |-> FALSE, observed |-> object.generation,
   conditions |-> upsert_condition(
     {c \in object.status.conditions : c.type # "SyncFailed"},
     Condition("Ready", "True", object.generation)),
   lastSync |-> now]

FailedStatus(object) ==
  [ready |-> FALSE, failure |-> TRUE, observed |-> object.generation,
   conditions |-> upsert_condition(
     upsert_condition(object.status.conditions,
                      Condition("Ready", "False", object.generation)),
     Condition("SyncFailed", "True", object.generation)),
   lastSync |-> object.status.lastSync]

\* A merge patch leaves a field alone that the new status does not have.
Kept(field, old) == IF field = 0 THEN old ELSE field

\* Faulty variant of status_patch: an empty lastSyncError is left out.
ErrorLeftOut(old, new) ==
  [new EXCEPT !.lastSync = Kept(@, old.lastSync), !.failure = @ \/ old.failure]
\* status_patch sends null for an empty lastSyncError, which removes it.
status_patch(old, new) == [new EXCEPT !.lastSync = Kept(@, old.lastSync)]

PatchStatus(k) ==
  /\ pc[k] = "status"
  /\ LET object == local[k].object
         new == IF local[k].success THEN ReadyStatus(object) ELSE FailedStatus(object)
     IN  IF resource # None
         THEN Write([resource EXCEPT !.status = status_patch(@, new)]) /\ Return(k, Requeue)
         ELSE UNCHANGED <<resource, news>> /\ Return(k, error_policy)
  /\ UNCHANGED <<secret, world, cache, burst>>

-----------------------------------------------------------------------------
(***************************************************************************)
(* Failures                                                                *)
(***************************************************************************)

\* Faulty variant of RequestFails: a failed sync is reported, as for fetch_secrets.
ReportsFailure(k) ==
  /\ pc[k] \in {"getSecret", "writeSecret"}
  /\ faults > 0 /\ faults' = faults - 1
  /\ local' = [local EXCEPT ![k].success = FALSE]
  /\ Ask(k, "status")
  /\ UNCHANGED <<resource, secret, vault, now, cache, news, queued, burst>>
\* A request that is not processed.
RequestFails(k) ==
  /\ pc[k] \in Requests \ {"fetch"}
  /\ faults > 0 /\ faults' = faults - 1
  /\ Return(k, error_policy)
  /\ UNCHANGED <<resource, secret, vault, now, cache, news, burst>>

\* The process dies, and starts again with what it lists then.
Crash(k) ==
  /\ faults > 0 /\ faults' = faults - 1
  /\ cache' = [cache EXCEPT ![k] = None]
  /\ news' = [news EXCEPT ![k] = resource # None]
  /\ queued' = [queued EXCEPT ![k] = "no"]
  /\ pc' = [pc EXCEPT ![k] = "idle"]
  /\ local' = [local EXCEPT ![k] = NoLocals]
  /\ OutsideCause
  /\ UNCHANGED <<resource, secret, vault, now>>

-----------------------------------------------------------------------------
(***************************************************************************)
(* Users, the garbage collector, the vault client and the clock            *)
(***************************************************************************)

EditSpec ==
  /\ resource # None /\ ~resource.deleting /\ resource.generation < MaxGeneration
  /\ Write([resource EXCEPT !.generation = @ + 1])
  /\ OutsideCause
  /\ UNCHANGED <<secret, world, cache, queued, pc, local>>

\* A resource without the finalizer goes at once.
DeleteResource ==
  /\ resource # None /\ ~resource.deleting
  /\ IF resource.finalizer
     THEN Write([resource EXCEPT !.deleting = TRUE, !.generation = @ + 1])
     ELSE Write(None)
  /\ OutsideCause
  /\ UNCHANGED <<secret, world, cache, queued, pc, local>>

DropSecret ==
  /\ secret # None
  /\ faults > 0 /\ faults' = faults - 1
  /\ WriteToSecret(None)
  /\ OutsideCause
  /\ UNCHANGED <<resource, vault, now, cache, news, pc, local>>

\* The owner reference of the Secret points to nothing.
CollectSecret ==
  /\ secret # None /\ resource = None
  /\ WriteToSecret(None)
  /\ OutsideCause
  /\ UNCHANGED <<resource, world, cache, news, pc, local>>

\* The vault client installs another response: a newer one, or, when one of the
\* background task arrives late, an older one.
ChangeVault ==
  /\ \/ vault < MaxVault /\ vault' = vault + 1 /\ UNCHANGED faults
     \/ vault > 0 /\ vault' = vault - 1 /\ faults > 0 /\ faults' = faults - 1
  /\ OutsideCause
  /\ UNCHANGED <<resource, secret, now, cache, news, queued, pc, local>>

Tick ==
  /\ now' = IF now < MaxNow THEN now + 1 ELSE now
  /\ UNCHANGED <<resource, secret, vault, faults, cache, news, queued, pc, local, burst>>

-----------------------------------------------------------------------------
\* What the process does when nothing fails.
ControllerStep(k) ==
  \/ Reconcile(k) \/ AddFinalizer(k) \/ RemoveFinalizer(k)
  \/ FetchSecrets(k) \/ GetSecret(k) \/ WriteSecret(k) \/ PatchStatus(k)

Next ==
  \/ \E k \in Controllers :
       Deliver(k) \/ ControllerStep(k) \/ FetchFails(k) \/ RequestFails(k) \/ Crash(k)
  \/ EditSpec \/ DeleteResource \/ DropSecret \/ CollectSecret \/ ChangeVault \/ Tick

Spec == Init /\ [][Next]_vars

\* Watches deliver, timers run out, requests have a timeout, the garbage
\* collector collects.  Users and faults need do nothing.
Fairness ==
  /\ \A k \in Controllers : WF_vars(Deliver(k)) /\ WF_vars(ControllerStep(k))
  /\ WF_vars(CollectSecret)
FairSpec == Spec /\ Fairness

-----------------------------------------------------------------------------
(***************************************************************************)
(* Properties                                                              *)
(***************************************************************************)

TypeOK ==
  /\ resource \in Resources \cup {None}
  /\ secret \in Secrets \cup {None}
  /\ vault \in 0..MaxVault /\ now \in 1..MaxNow /\ faults \in 0..MaxFaults
  /\ cache \in [Controllers -> Resources \cup {None}]
  /\ news \in [Controllers -> BOOLEAN]
  /\ queued \in [Controllers -> {"no", "timer", "event"}]
  /\ pc \in [Controllers -> Requests \cup {"idle"}]
  /\ local \in [Controllers -> Locals]
  /\ burst \in [Controllers -> 0..BurstLimit]

\* A status that says ready for a generation was preceded by a Secret of that
\* generation or a later one, which is there unless somebody has removed it:
\* across crashes between the two writes, and edits in the middle of a
\* reconcile.  It relies on one process reconciling at a time.
ReadyMeansWritten ==
  resource # None /\ secret # None /\ resource.status.ready =>
    secret.generation >= resource.status.observed

\* The five parts of the status never contradict each other, although each
\* patch is computed from an old copy of the resource and merged into a newer
\* status: ready, the error, both conditions and the observed generation.
Consistent(status) ==
  LET Has(type, value) == Condition(type, value, status.observed) \in status.conditions IN
  /\ status.ready <=> ~status.failure
  /\ status.ready <=> Has("Ready", "True")
  /\ ~status.ready <=> Has("Ready", "False") /\ Has("SyncFailed", "True")
  /\ \A c \in status.conditions : c.generation = status.observed
StatusConsistent ==
  resource # None /\ resource.status.observed > 0 => Consistent(resource.status)

\* The controller does not feed on its own writes: after a cause from outside,
\* or a timer, events bring fewer than BurstLimit reconciles (the finalizer is
\* added, a test on an old copy fails, the Secret is created, then taken over by
\* the apply patch, then left as it is).
NoHotLoop == \A k \in Controllers : burst[k] < BurstLimit

\* No resource is stranded: a process that has none of it queued or running has a
\* version on its way that the predicate lets pass, whatever events were dropped or
\* were merged, whichever requests failed or found an old copy.
Awake(k) ==
  queued[k] # "no" \/ pc[k] # "idle" \/ (news[k] /\ Passes(cache[k], resource))
NeverStranded == resource # None => \A k \in Controllers : Awake(k)

\* Once users and faults rest, status and Secret come to reflect the spec and
\* what the vault client has in its cache, and stay so: an event that the
\* predicate drops, or a reconcile that ends in an error, strands no resource.
Settled ==
  \/ resource = None
  \/ /\ resource.status.observed = resource.generation
     /\ resource.status.ready <=> resource.generation \in ValidSpecs
     /\ resource.status.ready =>
          secret # None /\ secret.generation = resource.generation /\ secret.values = vault
Converges == <>[](Settled)

\* A settled resource of which every copy is new enough stays settled: neither the
\* periodic reconcile with its writes, nor a late watch, a request that fails or a
\* crash at any point disturbs it; only the outside and a vault that fails to answer do.
Newest(object) ==
  object.generation = resource.generation /\ object.deleting = resource.deleting
Informed(k) ==
  /\ cache[k] # None => Newest(cache[k])
  /\ pc[k] # "idle" => Newest(local[k].object)
  /\ pc[k] \in {"getSecret", "writeSecret"} => local[k].values = vault
  /\ pc[k] = "status" => (local[k].success <=> resource.generation \in ValidSpecs)
AtRest == Settled /\ (resource # None => \A k \in Controllers : Informed(k))
RestIsKept ==
  [][AtRest /\ ~AtRest' =>
       \/ EditSpec \/ DeleteResource \/ DropSecret \/ ChangeVault
       \/ \E k \in Controllers : FetchFails(k)]_vars

\* A resource that is being deleted goes, and its Secret with it: the finalizer
\* is removed whatever reconcile was running, and no late write brings the
\* Secret back for good.
DeletionCompletes ==
  resource # None /\ resource.deleting ~> resource = None /\ secret = None

\* Once the resource is gone nothing is written for it: the finalizer makes the
\* deletion wait for the reconcile at hand, and a copy of the resource that is left
\* begins none that writes.  It relies on one process reconciling at a time.
DeletionIsFinal == [][resource = None => secret' \in {secret, None}]_vars

\* lastSyncTime is the "Timestamp of the last successful sync" (crd.rs): it does
\* not go back.
LastSyncKept ==
  [][resource # None /\ resource' # None =>
       resource'.status.lastSync >= resource.status.lastSync]_vars
=============================================================================
