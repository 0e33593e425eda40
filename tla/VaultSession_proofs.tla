------------------------ MODULE VaultSession_proofs ------------------------
(***************************************************************************)
(* Theorems about VaultSession, for every set of tasks and every value of  *)
(* the bounds, and their proofs.                                           *)
(***************************************************************************)
EXTENDS VaultSession, TLAPS

-----------------------------------------------------------------------------
(***************************************************************************)
(* Type correctness is inductive as it stands.                             *)
(***************************************************************************)

LEMMA TypeOKInit == Init => TypeOK
<1> USE TasksAssumption, BoundsAssumption
<1> SUFFICES ASSUME Init PROVE TypeOK
  OBVIOUS
<1>1. session \in Sessions
  BY DEF Init, NoSession, Sessions, Credential
<1>2. local \in [Tasks -> Locals]
  BY DEF Init, FreshLocals, Locals, NoResponse, Credential, Versions, Epochs
<1>3. pc \in [Tasks -> Points]
  BY DEF Init, Points, RefreshPoints
<1> QED
  BY <1>1, <1>2, <1>3 DEF Init, TypeOK, Versions, Epochs, Results

\* The parts of the state that a step of task t may rewrite keep their types.
LEMMA GotoType ==
  ASSUME pc \in [Tasks -> Points], NEW t \in Tasks, NEW point \in Points, Goto(t, point)
  PROVE  pc' \in [Tasks -> Points]
BY DEF Goto

\* The records of the session and of the locals, field by field.
LEMMA SessionInstall ==
  ASSUME NEW s \in Sessions, NEW v \in Snapshots \cup {NoVault}, NEW a \in 0..MinRefresh
  PROVE  [s EXCEPT !.vault = v, !.age = a] \in Sessions
BY DEF Sessions

LEMMA SessionTick ==
  ASSUME NEW s \in Sessions, NEW n \in 0..TokenLife, NEW a \in 0..MinRefresh
  PROVE  [s EXCEPT !.ttl = n, !.age = a] \in Sessions
BY DEF Sessions

LEMMA SessionRefreshed ==
  ASSUME NEW s \in Sessions, NEW at \in Credential, NEW rt \in Credential,
         NEW n \in 0..TokenLife
  PROVE  [s EXCEPT !.access_token = at, !.refresh_token = rt, !.ttl = n] \in Sessions
BY DEF Sessions

LEMMA SessionAuthenticated ==
  ASSUME NEW s \in Sessions, NEW at \in Credential, NEW rt \in Credential,
         NEW n \in 0..TokenLife, NEW k \in Credential
  PROVE  [s EXCEPT !.access_token = at, !.refresh_token = rt,
                   !.ttl = n, !.sym_key = k] \in Sessions
BY DEF Sessions

LEMMA LocalTokenKey ==
  ASSUME local \in [Tasks -> Locals], NEW t \in Tasks,
         NEW token \in Credential, NEW k \in Credential,
         local' = [local EXCEPT ![t].token = token, ![t].newKey = k]
  PROVE  local' \in [Tasks -> Locals]
BY DEF Locals

LEMMA LocalToken ==
  ASSUME local \in [Tasks -> Locals], NEW t \in Tasks, NEW token \in Credential,
         local' = [local EXCEPT ![t].token = token]
  PROVE  local' \in [Tasks -> Locals]
BY DEF Locals

LEMMA LocalRetried ==
  ASSUME local \in [Tasks -> Locals], NEW t \in Tasks,
         local' = [local EXCEPT ![t].retried = TRUE]
  PROVE  local' \in [Tasks -> Locals]
BY DEF Locals

LEMMA LocalNewKey ==
  ASSUME local \in [Tasks -> Locals], NEW t \in Tasks, NEW k \in Credential,
         local' = [local EXCEPT ![t].newKey = k]
  PROVE  local' \in [Tasks -> Locals]
BY DEF Locals

LEMMA ForgetType ==
  ASSUME local \in [Tasks -> Locals], NEW t \in Tasks, Forget(t)
  PROVE  local' \in [Tasks -> Locals]
<1>1. FreshLocals \in Locals
  BY BoundsAssumption DEF FreshLocals, Locals, NoResponse, Credential, Versions, Epochs
<1> QED
  BY <1>1 DEF Forget

LEMMA NoSessionType == NoSession \in Sessions
BY BoundsAssumption DEF NoSession, Sessions, Credential

LEMMA OutcomeType ==
  ASSUME NEW c, NEW vault PROVE Outcome(c, vault) \in Results
BY DEF Outcome, Results

LEMMA PointsFacts ==
  /\ RefreshPoints \subseteq Points
  /\ {"idle", "lock", "retry"} \subseteq Points
  /\ \A t : AfterRenewal(t) \in {"idle", "readToken"}
BY DEF RefreshPoints, Points, AfterRenewal

LEMMA TypeOKStep == TypeOK /\ [Next]_vars => TypeOK'
<1> SUFFICES ASSUME TypeOK, [Next]_vars PROVE TypeOK'
  OBVIOUS
<1> USE TasksAssumption, BoundsAssumption, PointsFacts
<1> USE DEF TypeOK, server, history
<1>1. ASSUME NEW c \in Callers, FetchSecrets(c) \/ EnterRefresh(c) \/ RetryFetch(c)
      PROVE  TypeOK'
  <2>1. c \in Tasks
    BY DEF Tasks
  <2>2. CASE FetchSecrets(c)
    BY <2>1, <2>2, OutcomeType DEF FetchSecrets, Goto, Points
  <2>3. CASE EnterRefresh(c)
    BY <1>1, <2>1, <2>3 DEF EnterRefresh, SkipWithinCooldown, BeginOnDemandRefresh,
                           MayEnter, Goto, Points, RefreshPoints, Results
  <2>4. CASE RetryFetch(c)
    BY <2>1, <2>4, OutcomeType DEF RetryFetch, Goto, Points
  <2> QED
    BY <1>1, <2>2, <2>3, <2>4
<1>2. ASSUME NEW t \in Tasks, RenewToken(t) PROVE TypeOK'
  <2>1. CASE EnsureValidToken(t)
    BY <2>1 DEF EnsureValidToken, Goto, Points, RefreshPoints
  <2>2. CASE ReadRefreshToken(t)
    BY <2>2 DEF ReadRefreshToken, Goto, Points, RefreshPoints, Locals, Sessions
  <2>3. CASE RefreshGranted(t)
    <3>1. local' \in [Tasks -> Locals]
      BY <2>3, LocalToken DEF RefreshGranted, Credential
    <3>2. pc' \in [Tasks -> Points]
      BY <2>3 DEF RefreshGranted, Goto, Points, RefreshPoints
    <3> QED
      BY <2>3, <3>1, <3>2 DEF RefreshGranted
  <2>4. CASE RefreshDenied(t)
    BY <2>4 DEF RefreshDenied, Goto, Points, RefreshPoints
  <2>5. CASE WriteRefreshedToken(t)
    <3>1. /\ local[t].token \in Credential /\ session.refresh_token \in Credential
          /\ TokenLife \in 0..TokenLife
      BY DEF Locals, Sessions
    <3>2. PICK rotated \in {local[t].token, session.refresh_token} :
            session' = [session EXCEPT !.access_token = local[t].token,
                                       !.refresh_token = rotated,
                                       !.ttl = TokenLife]
      BY <2>5 DEF WriteRefreshedToken
    <3>3. session' \in Sessions
      <4>1. rotated \in Credential
        BY <3>1
      <4> QED
        BY <3>1, <3>2, <4>1, SessionRefreshed
    <3> QED
      BY <2>5, <3>3 DEF WriteRefreshedToken, Goto, Points, RefreshPoints
  <2>6. CASE Login(t)
    <3>1. local' \in [Tasks -> Locals]
      BY <2>6, LocalTokenKey DEF Login, Credential
    <3> QED
      BY <2>6, <3>1 DEF Login, Goto, Points, RefreshPoints
  <2>7. CASE FetchProfileKey(t)
    <3>1. local' \in [Tasks -> Locals]
      BY <2>7, LocalNewKey DEF FetchProfileKey, Credential
    <3> QED
      BY <2>7, <3>1 DEF FetchProfileKey, Goto, Points, RefreshPoints
  <2>8. CASE StoreAuthentication(t)
    <3>1. /\ local[t].token \in Credential /\ local[t].newKey \in Credential
          /\ NoToken \in Credential /\ TokenLife \in 0..TokenLife
      BY DEF Locals, Credential
    <3>2. NewSession(t) \in Sessions
      BY <3>1 DEF NewSession, Sessions
    <3>3. Authenticated(t) \in Sessions
      BY <3>1, SessionAuthenticated DEF Authenticated
    <3>4. local' \in [Tasks -> Locals]
      BY <2>8, <3>1, LocalNewKey DEF StoreAuthentication
    <3> QED
      BY <2>8, <3>2, <3>3, <3>4 DEF StoreAuthentication, Goto, Points, RefreshPoints
  <2> QED
    BY <1>2, <2>1, <2>2, <2>3, <2>4, <2>5, <2>6, <2>7, <2>8 DEF RenewToken
<1>3. ASSUME NEW t \in Tasks, RefreshVaultCache(t) PROVE TypeOK'
  <2>1. CASE ReadAccessToken(t)
    BY <2>1 DEF ReadAccessToken, Goto, Points, RefreshPoints, Locals, Sessions
  <2>2. CASE ReadKey(t)
    BY <2>2 DEF ReadKey, Goto, Points, RefreshPoints, Locals, Sessions
  <2>3. CASE FetchSync(t)
    BY <2>3 DEF FetchSync, Goto, Points, RefreshPoints, Locals
  <2>4. CASE FetchUnauthorized(t)
    <3>1. local' \in [Tasks -> Locals]
      BY <2>4, LocalRetried DEF FetchUnauthorized
    <3> QED
      BY <2>4, <3>1 DEF FetchUnauthorized, Goto, Points, RefreshPoints
  <2>5. CASE FetchFails(t)
    BY <2>5 DEF FetchFails, Goto, Points, RefreshPoints
  <2> QED
    BY <1>3, <2>1, <2>2, <2>3, <2>4, <2>5 DEF RefreshVaultCache
<1>4. ASSUME NEW t \in Tasks, Install(t) PROVE session' \in Sessions
  <2>1. Decrypted(t) \in Snapshots \cup {NoVault}
    BY DEF Decrypted, Snapshots, Locals
  <2>2. session' = [session EXCEPT !.vault = Decrypted(t), !.age = 0]
    BY <1>4 DEF Install, Installed
  <2>3. 0 \in 0..MinRefresh
    OBVIOUS
  <2> QED
    BY <2>1, <2>2, <2>3, SessionInstall
<1>5. ASSUME NEW c \in Callers, InstallOnDemand(c) \/ OnDemandFails(c)
      PROVE  TypeOK'
  <2>1. c \in Tasks
    BY DEF Tasks
  <2>2. CASE InstallOnDemand(c)
    BY <2>1, <2>2, <1>4, ForgetType DEF InstallOnDemand, Install, Goto, Points
  <2>3. CASE OnDemandFails(c)
    BY <2>1, <2>3, ForgetType DEF OnDemandFails, HolderAfterError, Goto, Points, Results
  <2> QED
    BY <1>5, <2>2, <2>3
<1>6. ASSUME NEW t \in Tasks,
             InstallInBackground(t) \/ BackgroundFails(t)
               \/ WakeCacheTask(t) \/ WakeTokenTask(t)
      PROVE  TypeOK'
  <2>1. CASE InstallInBackground(t)
    BY <2>1, <1>4, ForgetType DEF InstallInBackground, Install, Goto, Points
  <2>2. CASE BackgroundFails(t)
    BY <2>2, ForgetType DEF BackgroundFails, Goto, Points
  <2>3. CASE WakeCacheTask(t) \/ WakeTokenTask(t)
    BY <2>3 DEF WakeCacheTask, WakeTokenTask, Goto, Points, RefreshPoints
  <2> QED
    BY <1>6, <2>1, <2>2, <2>3
<1>7. CASE InstallAtStartup \/ StartupFails
  <2>1. Main \in Tasks
    BY DEF Tasks
  <2>2. CASE InstallAtStartup
    BY <2>1, <2>2, <1>4, ForgetType DEF InstallAtStartup, Install, Goto, Points
  <2>3. CASE StartupFails
    BY <2>1, <2>3, ForgetType, NoSessionType
    DEF StartupFails, MayRetryStartup, Goto, Points, RefreshPoints
  <2> QED
    BY <1>7, <2>2, <2>3
<1>8. CASE EditVault \/ RotateKey
  BY <1>8 DEF EditVault, RotateKey, Versions, Epochs
<1>9. CASE Tick
  <2>1. session.ttl \in 0..TokenLife /\ session.age \in 0..MinRefresh
    BY DEF Sessions
  <2>2. \A n \in 0..MinRefresh : Older(n) \in 0..MinRefresh
    BY DEF Older
  <2> DEFINE ttl == IF session.ttl > 0 THEN session.ttl - 1 ELSE 0
  <2>3. ttl \in 0..TokenLife /\ Older(session.age) \in 0..MinRefresh
    BY <2>1, <2>2
  <2>4. session' = [session EXCEPT !.ttl = ttl, !.age = Older(session.age)]
    BY <1>9 DEF Tick
  <2>5. session' \in Sessions
    BY <2>3, <2>4, SessionTick
  <2> QED
    BY <1>9, <2>2, <2>5 DEF Tick
<1>10. CASE UNCHANGED vars
  BY <1>10 DEF vars
<1> HIDE DEF TypeOK, server, history
<1> QED
  BY <1>1, <1>2, <1>3, <1>5, <1>6, <1>7, <1>8, <1>9, <1>10
  DEF Next, CallerStep, CacheTaskStep, TokenTaskStep, MainStep, Tasks

\* Every reachable state is well typed; in particular initialize_vault_client
\* makes at most MaxRetries attempts.
THEOREM TypeCorrect == Spec => []TypeOK
<1>1. TypeOK /\ [Next]_vars => TypeOK'
  BY TypeOKStep
<1> QED
  BY TypeOKInit, <1>1, PTL DEF Spec

-----------------------------------------------------------------------------
(***************************************************************************)
(* The spacing of on-demand refreshes.  OnDemandSpaced is not inductive:   *)
(* it needs the mutex (LockHeld), and that the age the cooldown is checked *)
(* against is never more than the time since an on-demand refresh, because *)
(* background refreshes only make the cache younger.                       *)
(***************************************************************************)
LockHeld == \A c \in Callers : pc[c] \in RefreshPoints <=> refresh_lock = c
AgeBounded == session.age <= sinceOnDemand
SpacedInv == TypeOK /\ LockHeld /\ AgeBounded /\ OnDemandSpaced

LEMMA SpacedInit == Init => SpacedInv
<1> SUFFICES ASSUME Init PROVE SpacedInv
  OBVIOUS
<1>1. TypeOK
  BY TypeOKInit
<1>2. LockHeld
  BY TasksAssumption DEF Init, LockHeld, RefreshPoints, Tasks
<1>3. AgeBounded
  BY BoundsAssumption DEF Init, AgeBounded, NoSession
<1>4. OnDemandSpaced
  BY BoundsAssumption DEF Init, OnDemandSpaced
<1> QED
  BY <1>1, <1>2, <1>3, <1>4 DEF SpacedInv

\* What most steps do to the parts of the state that SpacedInv speaks of: no
\* caller crosses the border that the mutex guards, and the cache at most
\* becomes younger.
Contained ==
  /\ \A c \in Callers : pc'[c] \in RefreshPoints <=> pc[c] \in RefreshPoints
  /\ session'.age \in {session.age, 0}
  /\ UNCHANGED <<refresh_lock, sinceOnDemand>>

LEMMA ContainedKeepsSpaced ==
  ASSUME SpacedInv, TypeOK', Contained PROVE SpacedInv'
<1>1. session.age \in Nat /\ sinceOnDemand \in Nat
  BY BoundsAssumption DEF SpacedInv, TypeOK, Sessions
<1>2. LockHeld' /\ OnDemandSpaced'
  BY DEF SpacedInv, Contained, LockHeld, OnDemandSpaced
<1>3. AgeBounded'
  BY <1>1 DEF SpacedInv, Contained, AgeBounded
<1> QED
  BY <1>2, <1>3 DEF SpacedInv

LEMMA RenewTokenContained ==
  ASSUME TypeOK, NEW t \in Tasks, RenewToken(t) PROVE Contained
<1> USE DEF history, Goto, Contained, RefreshPoints
<1>1. pc \in [Tasks -> Points] /\ Callers \subseteq Tasks
  BY DEF TypeOK, Tasks
<1>2. t \in Callers => AfterRenewal(t) = "readToken"
  BY TasksAssumption DEF AfterRenewal
<1>3. session \in Sessions
  BY DEF TypeOK
<1>4. CASE EnsureValidToken(t)
  BY <1>1, <1>2, <1>4 DEF EnsureValidToken
<1>5. CASE ReadRefreshToken(t)
  BY <1>1, <1>5 DEF ReadRefreshToken
<1>6. CASE RefreshGranted(t) \/ RefreshDenied(t)
  BY <1>1, <1>6 DEF RefreshGranted, RefreshDenied
<1>7. CASE WriteRefreshedToken(t)
  <2>1. session'.age = session.age
    BY <1>3, <1>7 DEF WriteRefreshedToken, Sessions
  <2> QED
    BY <1>1, <1>2, <1>7, <2>1 DEF WriteRefreshedToken
<1>8. CASE Login(t) \/ FetchProfileKey(t)
  BY <1>1, <1>8 DEF Login, FetchProfileKey
<1>9. CASE StoreAuthentication(t)
  <2>1. session'.age \in {session.age, 0}
    <3>1. NewSession(t).age = 0
      BY DEF NewSession
    <3>2. Authenticated(t).age = session.age
      BY <1>3 DEF Authenticated, Sessions
    <3> QED
      BY <1>9, <3>1, <3>2 DEF StoreAuthentication
  <2> QED
    BY <1>1, <1>2, <1>9, <2>1 DEF StoreAuthentication
<1> QED
  BY <1>4, <1>5, <1>6, <1>7, <1>8, <1>9 DEF RenewToken

LEMMA RefreshVaultCacheContained ==
  ASSUME TypeOK, NEW t \in Tasks, RefreshVaultCache(t) PROVE Contained
BY DEF TypeOK, Tasks, RefreshVaultCache, ReadAccessToken, ReadKey, FetchSync,
       FetchUnauthorized, FetchFails, history, Goto, Contained, RefreshPoints

\* A background task or Main is no caller, wherever it goes.
LEMMA OthersContained ==
  ASSUME TypeOK, NEW t \in Tasks \ Callers,
         \/ InstallInBackground(t) \/ BackgroundFails(t)
         \/ WakeCacheTask(t) \/ WakeTokenTask(t)
         \/ t = Main /\ (InstallAtStartup \/ StartupFails)
  PROVE  Contained
<1>1. session'.age \in {session.age, 0}
  <2>1. Installed(t).age = 0
    BY DEF TypeOK, Sessions, Installed
  <2>2. NoSession.age = 0
    BY DEF NoSession
  <2> QED
    BY <2>1, <2>2 DEF InstallInBackground, InstallAtStartup, Install,
         BackgroundFails, StartupFails, WakeCacheTask, WakeTokenTask
<1>2. \A c \in Callers : pc'[c] = pc[c]
  BY DEF TypeOK, Tasks, InstallInBackground, InstallAtStartup, BackgroundFails,
         StartupFails, WakeCacheTask, WakeTokenTask, Goto
<1>3. UNCHANGED <<refresh_lock, sinceOnDemand>>
  BY DEF InstallInBackground, InstallAtStartup, BackgroundFails, StartupFails,
         WakeCacheTask, WakeTokenTask, history
<1> QED
  BY <1>1, <1>2, <1>3 DEF Contained

LEMMA SpacedStep == SpacedInv /\ [Next]_vars => SpacedInv'
<1> SUFFICES ASSUME SpacedInv, [Next]_vars PROVE SpacedInv'
  OBVIOUS
<1>1. TypeOK /\ TypeOK'
  BY TypeOKStep DEF SpacedInv
<1>2. /\ pc \in [Tasks -> Points] /\ Callers \subseteq Tasks
      /\ session.age \in 0..MinRefresh /\ sinceOnDemand \in 0..MinRefresh
      /\ NoTask \notin Callers
  BY <1>1, TasksAssumption DEF TypeOK, Tasks, Sessions
<1>3. ASSUME NEW c \in Callers,
             FetchSecrets(c) \/ SkipWithinCooldown(c) \/ RetryFetch(c)
      PROVE  Contained
  BY <1>2, <1>3 DEF FetchSecrets, SkipWithinCooldown, RetryFetch, Goto, Contained,
                    RefreshPoints, history
<1>4. ASSUME NEW c \in Callers, BeginOnDemandRefresh(c) PROVE SpacedInv'
  <2>1. refresh_lock = NoTask /\ refresh_lock' = c /\ pc' = [pc EXCEPT ![c] = "ensure"]
    BY <1>4 DEF BeginOnDemandRefresh, MayEnter, Goto
  <2>2. session.age >= MinRefresh /\ UNCHANGED <<session, sinceOnDemand>>
    BY <1>4 DEF BeginOnDemandRefresh, CooledDown
  <2>3. LockHeld'
    BY <1>2, <2>1 DEF SpacedInv, LockHeld, RefreshPoints
  <2>4. AgeBounded'
    BY <2>2 DEF SpacedInv, AgeBounded
  <2>5. OnDemandSpaced'
    BY <1>2, <2>2, BoundsAssumption DEF SpacedInv, AgeBounded, OnDemandSpaced
  <2> QED
    BY <1>1, <2>3, <2>4, <2>5 DEF SpacedInv
<1>5. ASSUME NEW c \in Callers, InstallOnDemand(c) \/ OnDemandFails(c)
      PROVE  SpacedInv'
  <2>1. refresh_lock = c
    BY <1>5 DEF SpacedInv, LockHeld, InstallOnDemand, Install, OnDemandFails, RefreshPoints
  <2>2. refresh_lock' = NoTask /\ \E x \in {"retry", "idle"} : pc' = [pc EXCEPT ![c] = x]
    BY <1>5, <2>1 DEF InstallOnDemand, OnDemandFails, HolderAfterError, Goto
  <2>3. \A d \in Callers : pc'[d] \notin RefreshPoints
    BY <1>2, <2>1, <2>2 DEF SpacedInv, LockHeld, RefreshPoints
  <2>4. LockHeld' /\ OnDemandSpaced'
    BY <1>2, <2>2, <2>3 DEF LockHeld, OnDemandSpaced
  <2>5. AgeBounded'
    <3>1. CASE InstallOnDemand(c)
      BY <1>1, <3>1 DEF InstallOnDemand, Install, Installed, AgeBounded, TypeOK, Sessions
    <3>2. CASE OnDemandFails(c)
      BY <3>2 DEF OnDemandFails, SpacedInv, AgeBounded, history
    <3> QED
      BY <1>5, <3>1, <3>2
  <2> QED
    BY <1>1, <2>4, <2>5 DEF SpacedInv
<1>6. ASSUME EditVault \/ RotateKey \/ UNCHANGED vars PROVE Contained
  BY <1>6 DEF EditVault, RotateKey, vars, Contained, history
<1>7. CASE Tick
  <2>1. /\ session'.age = Older(session.age)
        /\ sinceOnDemand' = Older(sinceOnDemand)
        /\ UNCHANGED <<pc, refresh_lock>>
    BY <1>1, <1>7 DEF Tick, TypeOK, Sessions
  <2>2. sinceOnDemand' >= sinceOnDemand /\ session'.age <= sinceOnDemand'
    BY <1>2, <2>1, BoundsAssumption DEF Older, SpacedInv, AgeBounded
  <2>3. LockHeld' /\ AgeBounded'
    BY <2>1, <2>2 DEF SpacedInv, LockHeld, AgeBounded
  <2>4. OnDemandSpaced'
    BY <1>2, <2>1, <2>2, BoundsAssumption DEF SpacedInv, OnDemandSpaced, Older
  <2> QED
    BY <1>1, <2>3, <2>4 DEF SpacedInv
<1>8. CASE \E c \in Callers : FetchSecrets(c) \/ EnterRefresh(c) \/ CallerStep(c)
  BY <1>1, <1>2, <1>3, <1>4, <1>5, <1>8, ContainedKeepsSpaced, RenewTokenContained,
     RefreshVaultCacheContained DEF EnterRefresh, CallerStep
<1>9. CacheTasks \cup TokenTasks \cup {Main} \subseteq Tasks \ Callers
  BY TasksAssumption DEF Tasks
<1>10. ASSUME NEW t \in CacheTasks \cup TokenTasks, CacheTaskStep(t) \/ TokenTaskStep(t)
       PROVE  SpacedInv'
  BY <1>1, <1>9, <1>10, ContainedKeepsSpaced, RenewTokenContained,
     RefreshVaultCacheContained, OthersContained DEF CacheTaskStep, TokenTaskStep
<1>11. CASE \E t \in CacheTasks \cup TokenTasks : CacheTaskStep(t) \/ TokenTaskStep(t)
  BY <1>10, <1>11
<1>12. CASE MainStep
  BY <1>1, <1>9, <1>12, ContainedKeepsSpaced, RenewTokenContained,
     RefreshVaultCacheContained, OthersContained DEF MainStep
<1>13. CASE EditVault \/ RotateKey \/ UNCHANGED vars
  BY <1>1, <1>6, <1>13, ContainedKeepsSpaced
<1> QED
  BY <1>7, <1>8, <1>11, <1>12, <1>13 DEF Next

\* On-demand refreshes are min_refresh_interval apart, whatever the callers,
\* the background tasks and the failures.
THEOREM OnDemandRefreshesSpaced == Spec => []OnDemandSpaced
<1>1. SpacedInv => OnDemandSpaced
  BY DEF SpacedInv
<1> QED
  BY SpacedInit, SpacedStep, <1>1, PTL DEF Spec

\* The mutex of refresh_if_due is held by the caller that is inside the refresh, and
\* by nobody when none is: a caller that waits never waits for one that has failed
\* or returned.
THEOREM MutexHeldInside == Spec => []LockHeld
<1>1. SpacedInv => LockHeld
  BY DEF SpacedInv
<1> QED
  BY SpacedInit, SpacedStep, <1>1, PTL DEF Spec

-----------------------------------------------------------------------------
(***************************************************************************)
(* The refinement of Limiter.                                              *)
(***************************************************************************)

LEMMA ContainedStutters == Contained => UNCHANGED L!vars
BY DEF Contained, L!vars

LEMMA LimiterStep == SpacedInv /\ [Next]_vars => [L!Next]_L!vars
<1> SUFFICES ASSUME SpacedInv, [Next]_vars PROVE L!Next \/ UNCHANGED L!vars
  OBVIOUS
<1>1. TypeOK
  BY DEF SpacedInv
<1>2. /\ pc \in [Tasks -> Points] /\ Callers \subseteq Tasks
      /\ sinceOnDemand \in 0..MinRefresh /\ NoTask \notin Callers
  BY <1>1, TasksAssumption DEF TypeOK, Tasks
<1>3. ASSUME NEW c \in Callers,
             FetchSecrets(c) \/ SkipWithinCooldown(c) \/ RetryFetch(c)
      PROVE  UNCHANGED L!vars
  BY <1>3 DEF FetchSecrets, SkipWithinCooldown, RetryFetch, history, L!vars
<1>4. ASSUME NEW c \in Callers, BeginOnDemandRefresh(c) PROVE L!Begin
  <2>1. session.age >= MinRefresh /\ session.age <= sinceOnDemand
    BY <1>4 DEF BeginOnDemandRefresh, CooledDown, SpacedInv, AgeBounded
  <2>2. session.age \in Nat /\ sinceOnDemand \in Nat
    BY <1>1, BoundsAssumption DEF TypeOK, Sessions
  <2>3. sinceOnDemand >= MinRefresh
    BY <2>1, <2>2, BoundsAssumption
  <2> QED
    BY <1>2, <1>4, <2>3 DEF BeginOnDemandRefresh, MayEnter, L!Begin
<1>5. ASSUME NEW c \in Callers, InstallOnDemand(c) \/ OnDemandFails(c)
      PROVE  L!Succeed \/ L!Fail
  <2>1. refresh_lock = c
    BY <1>5 DEF SpacedInv, LockHeld, InstallOnDemand, Install, OnDemandFails, RefreshPoints
  <2> QED
    BY <1>2, <1>5, <2>1 DEF InstallOnDemand, OnDemandFails, HolderAfterError, history,
       L!Succeed, L!Fail
<1>6. CASE Tick
  <2>1. sinceOnDemand' = Older(sinceOnDemand) /\ refresh_lock' = refresh_lock
    BY <1>6 DEF Tick
  <2> QED
    BY <1>2, <2>1 DEF Older, L!Next, L!Tick, L!vars
<1>7. CASE EditVault \/ RotateKey \/ UNCHANGED vars
  BY <1>7 DEF EditVault, RotateKey, vars, history, L!vars
<1>8. CASE \E c \in Callers : FetchSecrets(c) \/ EnterRefresh(c) \/ CallerStep(c)
  BY <1>1, <1>2, <1>3, <1>4, <1>5, <1>8, ContainedStutters, RenewTokenContained,
     RefreshVaultCacheContained DEF EnterRefresh, CallerStep, L!Next
<1>9. CacheTasks \cup TokenTasks \cup {Main} \subseteq Tasks \ Callers
  BY TasksAssumption DEF Tasks
<1>10. ASSUME NEW t \in CacheTasks \cup TokenTasks, CacheTaskStep(t) \/ TokenTaskStep(t)
       PROVE  UNCHANGED L!vars
  BY <1>1, <1>9, <1>10, ContainedStutters, RenewTokenContained,
     RefreshVaultCacheContained, OthersContained DEF CacheTaskStep, TokenTaskStep
<1>11. CASE MainStep
  BY <1>1, <1>9, <1>11, ContainedStutters, RenewTokenContained,
     RefreshVaultCacheContained, OthersContained DEF MainStep
<1> QED
  BY <1>6, <1>7, <1>8, <1>10, <1>11 DEF Next

\* refresh_if_due keeps the promise of Limiter for every number of callers and
\* background tasks.
THEOREM LimiterImplemented == Spec => ImplementsLimiter
<1>1. Init => L!Init
  BY DEF Init, L!Init
<1> QED
  BY <1>1, SpacedInit, SpacedStep, LimiterStep, PTL DEF Spec, ImplementsLimiter, L!Spec

-----------------------------------------------------------------------------
(***************************************************************************)
(* What a retry sees.  The invariant follows a call from the version it    *)
(* starts at, through the response that answers it, to the cache it        *)
(* leaves, and says who else may be about to write the cache: the mutex    *)
(* keeps the other callers from it, and nothing the background refresh.    *)
(***************************************************************************)

\* The points of a refresh that a renewal of the token does not pass.
Fetching == {"readToken", "readKey", "fetch", "install"}

\* The tasks that main() spawns once the initial sync is done, the controller's among
\* them.
Spawned == Callers \cup CacheTasks \cup TokenTasks

\* Who runs in which phase of the process, and how far.
Phases ==
  /\ \A t \in Spawned : pc[t] # "idle" => phase = "ready"
  /\ pc[Main] # "idle" => phase = "starting"
  /\ \A t \in TokenTasks : pc[t] \notin Fetching

\* A token once there is only ever replaced, so that no session is built anew
\* and the cache of a process that is ready is never None again.
Authenticating == {"login", "profileKey", "authWrite", "failed", "idle"}
Sessioned ==
  /\ \A t \in Tasks : pc[t] \in {"refreshWrite", "profileKey", "authWrite"} =>
                        local[t].token # NoToken
  /\ phase = "ready" => session.access_token # NoToken /\ session.vault # NoVault
  /\ pc[Main] \notin Authenticating => session.access_token # NoToken

\* The versions a call has to do with, in their order.
Recent ==
  /\ \A c \in Callers : versionAtCall[c] <= version
  /\ \A c \in Callers : pc[c] = "install" => local[c].response.version >= versionAtCall[c]
  /\ \A c, d \in Callers :
       pc[c] = "retry" /\ pc[d] \in RefreshPoints => versionAtCall[d] >= versionAtCall[c]
  /\ RetrySeesTheCall

RetryInv == SpacedInv /\ Phases /\ Sessioned /\ Recent

LEMMA RetryInit == Init => RetryInv
<1> SUFFICES ASSUME Init PROVE RetryInv
  OBVIOUS
<1>1. SpacedInv
  BY SpacedInit
<1>a. /\ pc[Main] = "login" /\ phase = "starting"
      /\ \A t \in Tasks : pc[t] \in {"login", "idle"}
      /\ \A t \in Spawned : pc[t] = "idle"
  <2>1. pc = [t \in Tasks |-> IF t = Main THEN "login" ELSE "idle"] /\ phase = "starting"
    BY DEF Init
  <2>2. Main \in Tasks /\ Spawned \subseteq Tasks \ {Main}
    BY TasksAssumption DEF Tasks, Spawned
  <2>3. pc[Main] = "login" /\ \A t \in Tasks \ {Main} : pc[t] = "idle"
    BY <2>1, <2>2
  <2> QED
    BY <2>1, <2>2, <2>3
<1>2. Phases
  BY <1>a DEF Phases, Fetching, Spawned
<1>3. Sessioned
  BY <1>a DEF Sessioned, Authenticating
<1>4. Recent
  BY TasksAssumption DEF Init, Recent, RetrySeesTheCall, RefreshPoints, Tasks
<1> QED
  BY <1>1, <1>2, <1>3, <1>4 DEF RetryInv

\* What a step inside a refresh does to the parts of the state that RetryInv speaks
\* of: it goes on to another point, with no older response than there is.
Moves(t) ==
  /\ pc[t] \in RefreshPoints
  /\ pc' = [pc EXCEPT ![t] = pc'[t]]
  /\ pc'[t] \in RefreshPoints \/ (pc'[t] = "idle" /\ t \in TokenTasks)
  /\ t \in TokenTasks => pc'[t] \notin Fetching
  /\ \A s \in Tasks \ {t} : local'[s] = local[s]
  /\ pc'[t] = "install" => local'[t].response.version = version
  /\ session.access_token # NoToken => session'.vault = session.vault
  /\ session'.vault \in {session.vault, NoVault}
  /\ UNCHANGED <<phase, version, versionAtCall, installer>>

LEMMA RenewTokenMoves ==
  ASSUME TypeOK, NEW t \in Tasks, RenewToken(t) PROVE Moves(t)
<1> USE DEF server, history, Goto, Moves, RefreshPoints, Fetching
<1>1. pc \in [Tasks -> Points] /\ local \in [Tasks -> Locals] /\ session \in Sessions
  BY DEF TypeOK
<1>2. IF t \in TokenTasks THEN AfterRenewal(t) = "idle" ELSE AfterRenewal(t) = "readToken"
  BY DEF AfterRenewal
<1>3. CASE EnsureValidToken(t)
  BY <1>1, <1>2, <1>3 DEF EnsureValidToken
<1>4. CASE ReadRefreshToken(t)
  BY <1>1, <1>4 DEF ReadRefreshToken
<1>5. CASE RefreshGranted(t) \/ RefreshDenied(t)
  BY <1>1, <1>5 DEF RefreshGranted, RefreshDenied
<1>6. CASE WriteRefreshedToken(t)
  <2>1. session'.vault = session.vault
    BY <1>1, <1>6 DEF WriteRefreshedToken, Sessions
  <2> QED
    BY <1>1, <1>2, <1>6, <2>1 DEF WriteRefreshedToken
<1>7. CASE Login(t) \/ FetchProfileKey(t)
  BY <1>1, <1>7 DEF Login, FetchProfileKey
<1>8. CASE StoreAuthentication(t)
  <2>1. session.access_token # NoToken => session'.vault = session.vault
    BY <1>1, <1>8 DEF StoreAuthentication, Authenticated, Sessions
  <2>2. session'.vault \in {session.vault, NoVault}
    BY <1>1, <1>8, <2>1 DEF StoreAuthentication, NewSession
  <2> QED
    BY <1>1, <1>2, <1>8, <2>1, <2>2 DEF StoreAuthentication
<1> QED
  BY <1>3, <1>4, <1>5, <1>6, <1>7, <1>8 DEF RenewToken

LEMMA RefreshVaultCacheMoves ==
  ASSUME TypeOK, Phases, NEW t \in Tasks, RefreshVaultCache(t) PROVE Moves(t)
<1> USE DEF server, history, Goto, Moves, RefreshPoints, Fetching
<1>1. pc \in [Tasks -> Points] /\ local \in [Tasks -> Locals]
  BY DEF TypeOK
<1>2. pc[t] \in Fetching => t \notin TokenTasks
  BY DEF Phases
<1>3. CASE ReadAccessToken(t) \/ ReadKey(t)
  BY <1>1, <1>2, <1>3 DEF ReadAccessToken, ReadKey
<1>4. CASE FetchSync(t)
  <2>1. local'[t].response.version = version
    BY <1>1, <1>4 DEF FetchSync, Locals
  <2> QED
    BY <1>1, <1>2, <1>4, <2>1 DEF FetchSync
<1>5. CASE FetchUnauthorized(t) \/ FetchFails(t)
  BY <1>1, <1>2, <1>5 DEF FetchUnauthorized, FetchFails
<1> QED
  BY <1>3, <1>4, <1>5 DEF RefreshVaultCache

LEMMA MovesKeepsPhases ==
  ASSUME TypeOK, Phases, NEW t \in Tasks, Moves(t) PROVE Phases'
<1>1. pc \in [Tasks -> Points] /\ Spawned \cup {Main} = Tasks
  BY DEF TypeOK, Tasks, Spawned
<1>2. pc[t] # "idle"
  BY DEF Moves, RefreshPoints
<1>3. \A s \in Tasks \ {t} : pc'[s] = pc[s]
  BY <1>1 DEF Moves
<1>4. TokenTasks \subseteq Tasks
  BY DEF Tasks
<1> QED
  BY <1>1, <1>2, <1>3, <1>4 DEF Moves, Phases

LEMMA MovesKeepsRecent ==
  ASSUME RetryInv, NEW t \in Tasks, Moves(t) PROVE Recent'
<1>1. pc \in [Tasks -> Points] /\ Callers \subseteq Tasks
  BY DEF RetryInv, SpacedInv, TypeOK, Tasks
<1>2. \A s \in Tasks \ {t} : pc'[s] = pc[s] /\ local'[s] = local[s]
  BY <1>1 DEF Moves
<1>3. \A c \in Callers : pc'[c] = "retry" => c # t /\ pc[c] = "retry"
  BY <1>1, <1>2, TasksAssumption DEF Moves, RefreshPoints
<1>4. \A c \in Callers : pc'[c] \in RefreshPoints => pc[c] \in RefreshPoints
  BY <1>1, <1>2 DEF Moves
<1>5. ASSUME NEW c \in Callers, pc'[c] = "install"
      PROVE  local'[c].response.version >= versionAtCall[c]
  <2>1. CASE c = t
    BY <1>5, <2>1 DEF Moves, RetryInv, Recent
  <2>2. CASE c # t
    BY <1>1, <1>2, <1>5, <2>2 DEF RetryInv, Recent
  <2> QED
    BY <2>1, <2>2
<1>6. ASSUME NEW c \in Callers, pc'[c] = "retry"
      PROVE  session'.vault.version >= versionAtCall[c] \/ installer' = "background"
  <2>1. phase = "ready"
    BY <1>3, <1>6 DEF RetryInv, Phases, Spawned
  <2>2. session'.vault = session.vault
    BY <2>1 DEF RetryInv, Sessioned, Moves
  <2> QED
    BY <1>3, <1>6, <2>2 DEF RetryInv, Recent, RetrySeesTheCall, Moves
<1>7. UNCHANGED <<version, versionAtCall, installer>>
  BY DEF Moves
<1> QED
  BY <1>3, <1>4, <1>5, <1>6, <1>7 DEF RetryInv, Recent, RetrySeesTheCall

LEMMA RenewTokenKeepsSessioned ==
  ASSUME RetryInv, NEW t \in Tasks, RenewToken(t) PROVE Sessioned'
<1> USE DEF server, history, Goto
<1>1. /\ pc \in [Tasks -> Points] /\ local \in [Tasks -> Locals] /\ session \in Sessions
      /\ epoch # NoToken
  BY TokenAssumption, BoundsAssumption DEF RetryInv, SpacedInv, TypeOK, Epochs
<1>2. Moves(t)
  BY RenewTokenMoves DEF RetryInv, SpacedInv
<1>3. \A s \in Tasks \ {t} : pc'[s] = pc[s] /\ local'[s] = local[s]
  BY <1>1, <1>2 DEF Moves
<1>4. ASSUME pc'[t] \in {"refreshWrite", "profileKey", "authWrite"}
      PROVE  local'[t].token # NoToken
  <2>1. CASE RefreshGranted(t)
    BY <1>1, <2>1 DEF RefreshGranted, Locals
  <2>2. CASE Login(t)
    BY <1>1, <1>4, <2>2 DEF Login, Locals
  <2>3. CASE FetchProfileKey(t)
    BY <1>1, <1>4, <2>3 DEF FetchProfileKey, Locals, RetryInv, Sessioned
  <2> QED
    BY <1>1, <1>4, <2>1, <2>2, <2>3 DEF RenewToken, EnsureValidToken, ReadRefreshToken,
       RefreshDenied, WriteRefreshedToken, StoreAuthentication, AfterRenewal
<1>5. /\ session.access_token # NoToken => session'.access_token # NoToken
      /\ pc[t] \in {"refreshWrite", "authWrite"} => session'.access_token # NoToken
  <2>1. CASE WriteRefreshedToken(t)
    BY <1>1, <2>1 DEF WriteRefreshedToken, Sessions, RetryInv, Sessioned
  <2>2. CASE StoreAuthentication(t)
    <3>1. local[t].token # NoToken
      BY <2>2 DEF StoreAuthentication, RetryInv, Sessioned
    <3>2. /\ NewSession(t).access_token = local[t].token
          /\ Authenticated(t).access_token = local[t].token
      BY <1>1 DEF NewSession, Authenticated, Sessions
    <3> QED
      BY <2>2, <3>1, <3>2 DEF StoreAuthentication
  <2>3. CASE ~(WriteRefreshedToken(t) \/ StoreAuthentication(t))
    BY <2>3 DEF RenewToken, EnsureValidToken, ReadRefreshToken, RefreshGranted,
       RefreshDenied, Login, FetchProfileKey
  <2> QED
    BY <2>1, <2>2, <2>3
<1>6. phase' = "ready" => session'.access_token # NoToken /\ session'.vault # NoVault
  BY <1>2, <1>5 DEF Moves, RetryInv, Sessioned
<1>7. pc'[Main] \notin Authenticating => session'.access_token # NoToken
  <2>1. CASE t # Main
    <3>1. pc'[Main] = pc[Main]
      BY <1>3, <2>1 DEF Tasks
    <3> QED
      BY <1>5, <3>1 DEF RetryInv, Sessioned
  <2>2. CASE t = Main /\ pc[t] \notin Authenticating
    BY <1>5, <2>2 DEF RetryInv, Sessioned
  <2>3. CASE t = Main /\ pc[t] \in Authenticating
    <3>1. pc'[t] \notin Authenticating => pc[t] = "authWrite"
      BY <1>1, <2>3 DEF Authenticating, RenewToken, EnsureValidToken, ReadRefreshToken,
         RefreshGranted, RefreshDenied, WriteRefreshedToken, Login, FetchProfileKey,
         StoreAuthentication
    <3> QED
      BY <1>5, <2>3, <3>1
  <2> QED
    BY <2>1, <2>2, <2>3
<1>8. \A s \in Tasks : pc'[s] \in {"refreshWrite", "profileKey", "authWrite"} =>
                       local'[s].token # NoToken
  BY <1>3, <1>4 DEF RetryInv, Sessioned
<1> QED
  BY <1>6, <1>7, <1>8 DEF Sessioned

LEMMA RefreshVaultCacheKeepsSessioned ==
  ASSUME RetryInv, NEW t \in Tasks, RefreshVaultCache(t) PROVE Sessioned'
<1> USE DEF server, history, Goto
<1>1. pc \in [Tasks -> Points] /\ local \in [Tasks -> Locals] /\ Main \in Tasks
  BY DEF RetryInv, SpacedInv, TypeOK, Tasks
<1>2. UNCHANGED <<phase, session>>
  BY DEF RefreshVaultCache, ReadAccessToken, ReadKey, FetchSync, FetchUnauthorized, FetchFails
<1>3. /\ pc[t] \notin Authenticating
      /\ pc'[t] \notin {"refreshWrite", "profileKey", "authWrite"}
      /\ \A s \in Tasks \ {t} : pc'[s] = pc[s] /\ local'[s] = local[s]
  BY <1>1 DEF Authenticating, RefreshVaultCache, ReadAccessToken, ReadKey, FetchSync,
     FetchUnauthorized, FetchFails
<1> QED
  BY <1>1, <1>2, <1>3 DEF RetryInv, Sessioned

\* What the other steps of a task do, but for the writes of the cache and the start
\* of an on-demand refresh: at most the task itself leaves the refresh, or wakes.
Rests(t) ==
  /\ pc' = [pc EXCEPT ![t] = pc'[t]]
  /\ pc'[t] \in {"idle", "lock"} \/ (t \notin Callers /\ pc'[t] = "ensure")
  /\ pc'[t] # "idle" => phase = "ready"
  /\ \A s \in Tasks \ {t} : local'[s] = local[s]
  /\ UNCHANGED <<phase, session, version, versionAtCall, installer>>

LEMMA RestsKeepsRetry ==
  ASSUME RetryInv, SpacedInv', NEW t \in Spawned, Rests(t)
  PROVE  RetryInv'
<1>1. /\ pc \in [Tasks -> Points] /\ t \in Tasks /\ t # Main /\ Main \in Tasks
      /\ Spawned \subseteq Tasks /\ Callers \cup TokenTasks \subseteq Tasks
      /\ Callers \cap TokenTasks = {}
  BY TasksAssumption DEF RetryInv, SpacedInv, TypeOK, Tasks, Spawned
<1>2. \A s \in Tasks \ {t} : pc'[s] = pc[s] /\ local'[s] = local[s]
  BY <1>1 DEF Rests
<1>3. Phases'
  BY <1>1, <1>2 DEF Rests, RetryInv, Phases, Fetching
<1>4. Sessioned'
  BY <1>1, <1>2 DEF Rests, RetryInv, Sessioned, Authenticating
<1>5. \A c \in Callers : /\ pc'[c] = "retry" => pc[c] = "retry"
                         /\ pc'[c] = "install" => c # t
                         /\ pc'[c] \in RefreshPoints => pc[c] \in RefreshPoints
  BY <1>1, <1>2 DEF Rests, RefreshPoints
<1>6. Recent'
  BY <1>1, <1>2, <1>5 DEF Rests, RetryInv, Recent, RetrySeesTheCall
<1> QED
  BY <1>3, <1>4, <1>6 DEF RetryInv

LEMMA BeginKeepsRetry ==
  ASSUME RetryInv, SpacedInv', NEW c \in Callers, BeginOnDemandRefresh(c)
  PROVE  RetryInv'
<1>1. /\ pc \in [Tasks -> Points] /\ c \in Tasks /\ c # Main /\ Main \in Tasks
      /\ Spawned \subseteq Tasks /\ Callers \cup TokenTasks \subseteq Tasks
      /\ c \notin TokenTasks
      /\ versionAtCall \in [Callers -> Versions] /\ version \in Nat
      /\ NoTask \notin Callers
  BY TasksAssumption, BoundsAssumption
     DEF RetryInv, SpacedInv, TypeOK, Tasks, Spawned, Versions
<1>2. /\ pc[c] = "lock" /\ refresh_lock = NoTask
      /\ pc' = [pc EXCEPT ![c] = "ensure"]
      /\ versionAtCall' = [versionAtCall EXCEPT ![c] = version]
      /\ UNCHANGED <<phase, version, session, local, installer>>
  BY DEF BeginOnDemandRefresh, MayEnter, Goto, server
<1>3. Phases' /\ Sessioned'
  <2>1. c \in Spawned
    BY DEF Spawned
  <2> QED
    BY <1>1, <1>2, <2>1 DEF RetryInv, Phases, Sessioned, Authenticating, Fetching
<1>4. \A d \in Callers : pc[d] \notin RefreshPoints
  BY <1>1, <1>2 DEF RetryInv, SpacedInv, LockHeld
<1>5. \A d \in Callers : /\ pc'[d] # "install"
                         /\ pc'[d] \in RefreshPoints => d = c
                         /\ pc'[d] = "retry" => d # c /\ pc[d] = "retry"
  BY <1>1, <1>2, <1>4 DEF RefreshPoints
<1>6. \A d \in Callers : versionAtCall[d] \in Nat /\ versionAtCall[d] <= version
  BY <1>1 DEF RetryInv, Recent, Versions
<1>7. /\ versionAtCall'[c] = version
      /\ \A d \in Callers \ {c} : versionAtCall'[d] = versionAtCall[d]
  BY <1>1, <1>2
<1>8. Recent'
  BY <1>1, <1>2, <1>5, <1>6, <1>7 DEF RetryInv, Recent, RetrySeesTheCall
<1> QED
  BY <1>3, <1>8 DEF RetryInv

\* Where the mutex is needed: no other caller is between its request and its write.
LEMMA InstallKeepsRetry ==
  ASSUME RetryInv, SpacedInv', NEW c \in Callers, InstallOnDemand(c)
  PROVE  RetryInv'
<1>1. /\ pc \in [Tasks -> Points] /\ local \in [Tasks -> Locals] /\ session \in Sessions
      /\ c \in Tasks /\ c # Main /\ Main \in Tasks
      /\ Spawned \subseteq Tasks /\ Callers \cup TokenTasks \subseteq Tasks
      /\ c \in Spawned /\ c \notin TokenTasks
      /\ versionAtCall \in [Callers -> Versions]
      /\ NoTask \notin Callers
  BY TasksAssumption DEF RetryInv, SpacedInv, TypeOK, Tasks, Spawned
<1>2. /\ pc[c] = "install" /\ pc' = [pc EXCEPT ![c] = "retry"]
      /\ session' = [session EXCEPT !.vault = Decrypted(c), !.age = 0]
      /\ local' = [local EXCEPT ![c] = FreshLocals]
      /\ refresh_lock' = NoTask
      /\ UNCHANGED <<phase, version, versionAtCall>>
  BY DEF InstallOnDemand, Install, Installed, Forget, Goto, server
<1>3. /\ session'.access_token = session.access_token
      /\ session'.vault = Decrypted(c) /\ Decrypted(c) \in Snapshots
      /\ Decrypted(c).version = local[c].response.version
  BY <1>1, <1>2 DEF Sessions, Decrypted, Snapshots, Locals
<1>4. Phases'
  BY <1>1, <1>2 DEF RetryInv, Phases, Fetching
<1>5. Sessioned'
  <2>1. session'.vault # NoVault
    BY <1>3, VaultAssumption DEF Snapshots
  <2> QED
    BY <1>1, <1>2, <1>3, <2>1 DEF RetryInv, Sessioned, Authenticating
<1>6. \A d \in Callers : pc'[d] \notin RefreshPoints
  BY <1>1, <1>2 DEF SpacedInv, LockHeld
<1>7. local[c].response.version >= versionAtCall[c]
  BY <1>2 DEF RetryInv, Recent
<1>8. ASSUME NEW d \in Callers, pc'[d] = "retry"
      PROVE  session'.vault.version >= versionAtCall[d]
  <2>1. CASE d = c
    BY <1>3, <1>7, <2>1
  <2>2. CASE d # c
    <3>1. pc[d] = "retry" /\ pc[c] \in RefreshPoints
      BY <1>1, <1>2, <1>8, <2>2 DEF RefreshPoints
    <3>2. versionAtCall[c] >= versionAtCall[d]
      BY <3>1 DEF RetryInv, Recent
    <3>3. /\ versionAtCall[c] \in Nat /\ versionAtCall[d] \in Nat
          /\ local[c].response.version \in Nat
      BY <1>1, BoundsAssumption DEF Versions, Locals
    <3> QED
      BY <1>3, <1>7, <3>2, <3>3
  <2> QED
    BY <2>1, <2>2
<1>9. Recent'
  BY <1>2, <1>6, <1>8 DEF RetryInv, Recent, RetrySeesTheCall, RefreshPoints
<1> QED
  BY <1>4, <1>5, <1>9 DEF RetryInv

\* The background refresh writes whatever it fetched.
LEMMA BackgroundKeepsRetry ==
  ASSUME RetryInv, SpacedInv', NEW t \in CacheTasks, InstallInBackground(t)
  PROVE  RetryInv'
<1>1. /\ pc \in [Tasks -> Points] /\ local \in [Tasks -> Locals] /\ session \in Sessions
      /\ t \in Tasks /\ t # Main /\ Main \in Tasks
      /\ Spawned \subseteq Tasks /\ Callers \cup TokenTasks \subseteq Tasks \ {t}
  BY TasksAssumption DEF RetryInv, SpacedInv, TypeOK, Tasks, Spawned
<1>2. /\ pc[t] = "install" /\ pc' = [pc EXCEPT ![t] = "idle"]
      /\ session' = [session EXCEPT !.vault = Decrypted(t), !.age = 0]
      /\ local' = [local EXCEPT ![t] = FreshLocals]
      /\ installer' = "background"
      /\ UNCHANGED <<phase, version, versionAtCall>>
  BY DEF InstallInBackground, Install, Installed, Forget, Goto, server
<1>3. /\ session'.access_token = session.access_token
      /\ session'.vault = Decrypted(t) /\ Decrypted(t) \in Snapshots
  BY <1>1, <1>2 DEF Sessions, Decrypted, Snapshots, Locals
<1>4. \A s \in Tasks \ {t} : pc'[s] = pc[s] /\ local'[s] = local[s]
  BY <1>1, <1>2
<1>5. pc'[t] = "idle"
  BY <1>1, <1>2
<1>6. Phases'
  BY <1>1, <1>2, <1>4, <1>5 DEF RetryInv, Phases
<1>7. Sessioned'
  <2>1. session'.vault # NoVault
    BY <1>3, VaultAssumption DEF Snapshots
  <2> QED
    BY <1>1, <1>2, <1>3, <1>4, <1>5, <2>1 DEF RetryInv, Sessioned
<1>8. \A c \in Callers : pc'[c] = pc[c] /\ local'[c] = local[c]
  BY <1>1, <1>4
<1>9. Recent'
  BY <1>2, <1>8 DEF RetryInv, Recent, RetrySeesTheCall
<1> QED
  BY <1>6, <1>7, <1>9 DEF RetryInv

LEMMA StartupKeepsRetry ==
  ASSUME RetryInv, SpacedInv', InstallAtStartup \/ StartupFails
  PROVE  RetryInv'
<1>1. /\ pc \in [Tasks -> Points] /\ local \in [Tasks -> Locals] /\ session \in Sessions
      /\ Main \in Tasks /\ Tasks = Spawned \cup {Main}
      /\ Main \notin Spawned /\ Callers \cup TokenTasks \subseteq Spawned
  BY TasksAssumption DEF RetryInv, SpacedInv, TypeOK, Tasks, Spawned
<1>2. pc[Main] \in {"install", "failed"} /\ UNCHANGED <<version, versionAtCall, installer>>
  BY DEF InstallAtStartup, Install, StartupFails, server, history
<1>3. phase = "starting" /\ \A t \in Spawned : pc[t] = "idle"
  BY <1>2 DEF RetryInv, Phases
<1>4. \A t \in Spawned : pc'[t] = "idle"
  BY <1>1, <1>3 DEF InstallAtStartup, StartupFails, Goto
<1>5. ASSUME InstallAtStartup PROVE Phases' /\ Sessioned'
  <2>1. session' = [session EXCEPT !.vault = Decrypted(Main), !.age = 0]
    BY <1>5 DEF InstallAtStartup, Install, Installed
  <2>2. /\ session'.access_token = session.access_token
        /\ session'.vault = Decrypted(Main) /\ Decrypted(Main) \in Snapshots
    BY <1>1, <2>1 DEF Sessions, Decrypted, Snapshots, Locals
  <2>3. session'.access_token # NoToken /\ session'.vault # NoVault
    BY <1>5, <2>2, VaultAssumption
    DEF InstallAtStartup, Install, RetryInv, Sessioned, Authenticating, Snapshots
  <2>4. pc'[Main] = "idle"
    BY <1>1, <1>5 DEF InstallAtStartup, Goto
  <2>5. \A t \in Tasks : pc'[t] = "idle"
    BY <1>1, <1>4, <2>4
  <2>6. Phases'
    BY <1>1, <2>5 DEF Phases, Fetching
  <2>7. Sessioned'
    BY <1>1, <2>3, <2>5 DEF Sessioned
  <2> QED
    BY <2>6, <2>7
<1>6. ASSUME StartupFails PROVE Phases' /\ Sessioned'
  <2>1. /\ pc'[Main] \in {"login", "idle"} /\ phase' \in {"starting", "exited"}
        /\ pc'[Main] = "login" => phase' = "starting"
    BY <1>1, <1>3, <1>6 DEF StartupFails, Goto
  <2>2. \A t \in Tasks : pc'[t] \in {"login", "idle"}
    BY <1>1, <1>4, <2>1
  <2>3. Phases'
    BY <1>1, <1>4, <2>1 DEF Phases, Fetching
  <2>4. Sessioned'
    BY <1>1, <2>1, <2>2 DEF Sessioned, Authenticating
  <2> QED
    BY <2>3, <2>4
<1>7. Phases' /\ Sessioned'
  BY <1>5, <1>6, InstallAtStartup \/ StartupFails
<1>8. Recent'
  BY <1>1, <1>2, <1>4 DEF RetryInv, Recent, RetrySeesTheCall, RefreshPoints
<1> QED
  BY <1>7, <1>8 DEF RetryInv

LEMMA SurroundingsKeepRetry ==
  ASSUME RetryInv, SpacedInv', EditVault \/ RotateKey \/ Tick \/ UNCHANGED vars
  PROVE  RetryInv'
<1>1. session \in Sessions /\ version \in Nat /\ versionAtCall \in [Callers -> Versions]
  BY BoundsAssumption DEF RetryInv, SpacedInv, TypeOK, Versions
<1>2. /\ UNCHANGED <<phase, pc, local, versionAtCall, installer>>
      /\ session'.access_token = session.access_token
      /\ session'.vault = session.vault
  BY <1>1 DEF EditVault, RotateKey, Tick, vars, history, Sessions
<1>3. version' \in {version, version + 1}
  BY DEF EditVault, RotateKey, Tick, vars, server
<1>4. \A c \in Callers : versionAtCall[c] <= version'
  <2>1. \A c \in Callers : versionAtCall[c] \in Nat /\ versionAtCall[c] <= version
    BY <1>1 DEF RetryInv, Recent, Versions
  <2> QED
    BY <1>1, <1>3, <2>1
<1>5. Phases' /\ Sessioned' /\ Recent'
  BY <1>2, <1>4 DEF RetryInv, Phases, Sessioned, Recent, RetrySeesTheCall
<1> QED
  BY <1>5 DEF RetryInv

\* The kinds of steps there are.
InRefresh(t) == (RenewToken(t) \/ RefreshVaultCache(t)) /\ Moves(t)
Surroundings == EditVault \/ RotateKey \/ Tick \/ UNCHANGED vars

LEMMA StepsOfAll ==
  ASSUME TypeOK, Phases, [Next]_vars
  PROVE  \/ \E t \in Tasks : InRefresh(t)
         \/ \E t \in Spawned : Rests(t)
         \/ \E c \in Callers : BeginOnDemandRefresh(c) \/ InstallOnDemand(c)
         \/ \E t \in CacheTasks : InstallInBackground(t)
         \/ InstallAtStartup \/ StartupFails
         \/ Surroundings
<1>1. /\ Spawned = Callers \cup CacheTasks \cup TokenTasks
      /\ Spawned \cup {Main} = Tasks
      /\ Callers \cap (CacheTasks \cup TokenTasks) = {}
  BY TasksAssumption DEF Tasks, Spawned
<1>2. ASSUME NEW t \in Tasks, RenewToken(t) \/ RefreshVaultCache(t)
      PROVE  InRefresh(t)
  BY <1>2, RenewTokenMoves, RefreshVaultCacheMoves DEF InRefresh
<1>3. pc \in [Tasks -> Points] /\ local \in [Tasks -> Locals]
  BY DEF TypeOK
<1>4. ASSUME NEW c \in Callers,
             FetchSecrets(c) \/ SkipWithinCooldown(c) \/ RetryFetch(c) \/ OnDemandFails(c)
      PROVE  Rests(c)
  <2>1. c \in Tasks
    BY <1>1
  <2>2. pc[c] # "idle" => phase = "ready"
    BY <1>1 DEF Phases
  <2> QED
    BY <1>3, <1>4, <2>1, <2>2 DEF FetchSecrets, SkipWithinCooldown, RetryFetch, OnDemandFails,
       Rests, Goto, Forget, server, history
<1>5. ASSUME NEW t \in CacheTasks \cup TokenTasks,
             WakeCacheTask(t) \/ WakeTokenTask(t) \/ BackgroundFails(t)
      PROVE  Rests(t)
  <2>1. t \in Tasks /\ t \notin Callers
    BY <1>1
  <2> QED
    BY <1>3, <1>5, <2>1 DEF WakeCacheTask, WakeTokenTask, BackgroundFails, Rests, Goto, Forget,
       server, history
<1>6. CASE \E c \in Callers : FetchSecrets(c) \/ EnterRefresh(c) \/ CallerStep(c)
  BY <1>1, <1>2, <1>4, <1>6 DEF EnterRefresh, CallerStep
<1>7. CASE \E t \in TokenTasks : TokenTaskStep(t)
  BY <1>1, <1>2, <1>5, <1>7 DEF TokenTaskStep
<1>8. CASE \E t \in CacheTasks : CacheTaskStep(t)
  BY <1>1, <1>2, <1>5, <1>8 DEF CacheTaskStep
<1>9. CASE MainStep
  BY <1>1, <1>2, <1>9 DEF MainStep
<1> QED
  BY <1>6, <1>7, <1>8, <1>9 DEF Next, Surroundings

LEMMA RetryStep == RetryInv /\ [Next]_vars => RetryInv'
<1> SUFFICES ASSUME RetryInv, [Next]_vars PROVE RetryInv'
  OBVIOUS
<1>1. SpacedInv' /\ TypeOK /\ Phases
  BY SpacedStep DEF RetryInv, SpacedInv
<1>2. ASSUME NEW t \in Tasks, InRefresh(t)
      PROVE  RetryInv'
  <2>1. Phases' /\ Recent'
    BY <1>1, <1>2, MovesKeepsPhases, MovesKeepsRecent DEF InRefresh
  <2>2. Sessioned'
    BY <1>2, RenewTokenKeepsSessioned, RefreshVaultCacheKeepsSessioned DEF InRefresh
  <2> QED
    BY <1>1, <2>1, <2>2 DEF RetryInv
<1> QED
  BY <1>1, <1>2, StepsOfAll, RestsKeepsRetry, BeginKeepsRetry, InstallKeepsRetry,
     BackgroundKeepsRetry, StartupKeepsRetry, SurroundingsKeepRetry DEF Surroundings

\* A caller that retries after its own refresh never sees a vault older than its
\* call, whatever the number of callers, the rotations and the faults, unless the
\* background refresh wrote the cache after it: among callers the mutex is all it
\* takes.
THEOREM RetriesAreRecent == Spec => []RetrySeesTheCall
<1>1. RetryInv => RetrySeesTheCall
  BY DEF RetryInv, Recent
<1> QED
  BY RetryInit, RetryStep, <1>1, PTL DEF Spec

\* No cache is newer than the server, nor than the response that is about to replace
\* it, unless a refresh of the other kind wrote it.
NotBeyond ==
  /\ session.vault # NoVault =>
       /\ phase = "ready" /\ session.vault.version <= version
       /\ \A c \in Callers : pc[c] = "install" /\ installer # "background" =>
            session.vault.version <= local[c].response.version
       /\ \A t \in CacheTasks : pc[t] = "install" /\ installer # "demand" =>
            session.vault.version <= local[t].response.version
  /\ \A t \in Tasks : pc[t] = "install" => local[t].response.version <= version

Advances == session.vault # NoVault =>
  /\ session'.vault # NoVault
  /\ \/ session'.vault.version >= session.vault.version
     \/ {installer, installer'} = {"demand", "background"}

AdvanceInv == RetryInv /\ NotBeyond

LEMMA AdvanceNumbers ==
  ASSUME RetryInv
  PROVE  /\ version \in Nat
         /\ session.vault # NoVault => session.vault.version \in Nat
         /\ \A t \in Tasks : local[t].response.version \in Nat
<1>1. Versions \subseteq Nat
  BY BoundsAssumption DEF Versions
<1> QED
  BY <1>1 DEF RetryInv, SpacedInv, TypeOK, Sessions, Snapshots, Locals

\* A step that keeps the cache and brings no response but of the newest version.
LEMMA SameCacheAdvances ==
  ASSUME AdvanceInv, session'.vault = session.vault,
         phase' = phase, installer' = installer,
         version' \in {version, version + 1},
         \A t \in Tasks : \/ pc'[t] # "install"
                          \/ pc'[t] = pc[t] /\ local'[t] = local[t]
                          \/ local'[t].response.version = version'
  PROVE  Advances /\ NotBeyond'
<1> USE DEF AdvanceInv
<1>1. /\ version \in Nat /\ version' \in Nat /\ version <= version'
      /\ session.vault # NoVault => session.vault.version \in Nat
      /\ \A t \in Tasks : local[t].response.version \in Nat
  BY AdvanceNumbers
<1>2. ASSUME NEW t \in Tasks, pc'[t] = "install" PROVE local'[t].response.version <= version'
  BY <1>1, <1>2 DEF NotBeyond
<1>3. ASSUME session.vault # NoVault, NEW t \in Tasks, pc'[t] = "install",
             pc[t] = "install" => session.vault.version <= local[t].response.version
      PROVE  session.vault.version <= local'[t].response.version
  BY <1>1, <1>3 DEF NotBeyond
<1>4. Advances
  BY <1>1 DEF Advances
<1>5. session.vault # NoVault => phase = "ready" /\ session.vault.version <= version'
  BY <1>1 DEF NotBeyond
<1>6. Callers \cup CacheTasks \subseteq Tasks
  BY DEF Tasks
<1> QED
  BY <1>2, <1>3, <1>4, <1>5, <1>6 DEF NotBeyond

LEMMA MovesAdvances ==
  ASSUME AdvanceInv, NEW t \in Tasks, Moves(t) PROVE Advances /\ NotBeyond'
<1> USE DEF AdvanceInv
<1>1. session'.vault = session.vault
  BY DEF Moves, NotBeyond, RetryInv, Sessioned
<1>2. pc \in [Tasks -> Points]
  BY DEF RetryInv, SpacedInv, TypeOK
<1>3. \A s \in Tasks : \/ pc'[s] # "install"
                       \/ pc'[s] = pc[s] /\ local'[s] = local[s]
                       \/ local'[s].response.version = version'
  BY <1>2 DEF Moves
<1>4. UNCHANGED <<version, phase, installer>>
  BY DEF Moves
<1> QED
  BY <1>1, <1>3, <1>4, SameCacheAdvances

LEMMA RestsAdvances ==
  ASSUME AdvanceInv, NEW t \in Spawned, Rests(t) PROVE Advances /\ NotBeyond'
<1>1. pc \in [Tasks -> Points] /\ t \in Tasks
  BY DEF AdvanceInv, RetryInv, SpacedInv, TypeOK, Tasks, Spawned
<1>2. \A s \in Tasks : pc'[s] # "install" \/ (pc'[s] = pc[s] /\ local'[s] = local[s])
  BY <1>1 DEF Rests
<1>3. UNCHANGED <<version, phase, session, installer>>
  BY DEF Rests
<1> QED
  BY <1>2, <1>3, SameCacheAdvances

\* Where the mutex is needed again, and that there is one periodic refresh: who
\* writes was alone among its kind, so that the cache is older than its response, or
\* the other kind's.
LEMMA InstallAdvances ==
  ASSUME AdvanceInv, NEW t \in Callers \cup CacheTasks,
         \/ t \in Callers /\ InstallOnDemand(t)
         \/ t \in CacheTasks /\ InstallInBackground(t)
  PROVE  Advances /\ NotBeyond'
<1> USE DEF AdvanceInv
<1>1. /\ pc \in [Tasks -> Points] /\ local \in [Tasks -> Locals] /\ session \in Sessions
      /\ t \in Tasks /\ Callers \cup CacheTasks \subseteq Tasks
  BY DEF RetryInv, SpacedInv, TypeOK, Tasks
<1>2. /\ pc[t] = "install" /\ pc'[t] \in {"retry", "idle"}
      /\ session' = [session EXCEPT !.vault = Decrypted(t), !.age = 0]
      /\ \A u \in Tasks \ {t} : pc'[u] = pc[u] /\ local'[u] = local[u]
      /\ UNCHANGED <<phase, version>>
  BY <1>1 DEF InstallOnDemand, InstallInBackground, Install, Installed, Forget, Goto, server
<1>3. /\ session'.vault = Decrypted(t)
      /\ Decrypted(t).version = local[t].response.version
      /\ Decrypted(t) \in Snapshots
  BY <1>1, <1>2 DEF Sessions, Decrypted, Snapshots, Locals
<1>4. session'.vault # NoVault
  BY <1>3, VaultAssumption DEF Snapshots
<1>5. phase = "ready"
  BY <1>2 DEF RetryInv, Phases, Spawned
<1>6. \/ t \in Callers /\ installer' = "demand"
      \/ t \in CacheTasks /\ installer' = "background"
  BY DEF InstallOnDemand, InstallInBackground
<1>7. \/ t \in Callers /\ \A c \in Callers : pc'[c] # "install"
      \/ t \in CacheTasks /\ \A u \in CacheTasks : pc'[u] # "install"
  <2>1. CASE t \in Callers
    <3>1. \A c \in Callers \ {t} : pc[c] # "install"
      BY <1>2, <2>1 DEF RetryInv, SpacedInv, LockHeld, RefreshPoints
    <3> QED
      BY <1>1, <1>2, <2>1, <3>1
  <2>2. CASE t \in CacheTasks
    BY <1>2, <2>2, TasksAssumption
  <2> QED
    BY <2>1, <2>2
<1>8. local[t].response.version <= version
  BY <1>1, <1>2 DEF NotBeyond
<1>9. \A u \in Tasks : pc'[u] = "install" => local'[u].response.version <= version'
  BY <1>2 DEF NotBeyond
<1>10. Advances
  <2>1. CASE t \in Callers /\ installer' = "demand"
    BY <1>2, <1>3, <1>4, <2>1, AdvanceNumbers DEF Advances, NotBeyond
  <2>2. CASE t \in CacheTasks /\ installer' = "background"
    BY <1>2, <1>3, <1>4, <2>2, AdvanceNumbers DEF Advances, NotBeyond
  <2> QED
    BY <1>6, <2>1, <2>2
<1>11. session'.vault.version <= version'
  BY <1>2, <1>3, <1>8
<1>12. /\ \A c \in Callers : pc'[c] = "install" => installer' = "background"
       /\ \A u \in CacheTasks : pc'[u] = "install" => installer' = "demand"
  BY <1>6, <1>7, TasksAssumption
<1> QED
  BY <1>2, <1>5, <1>9, <1>10, <1>11, <1>12 DEF NotBeyond

LEMMA StartupAdvances ==
  ASSUME AdvanceInv, InstallAtStartup \/ StartupFails
  PROVE  Advances /\ NotBeyond'
<1> USE DEF AdvanceInv
<1>1. /\ pc \in [Tasks -> Points] /\ local \in [Tasks -> Locals] /\ session \in Sessions
      /\ Main \in Tasks /\ Tasks = Spawned \cup {Main}
      /\ Main \notin Spawned /\ Callers \cup TokenTasks \subseteq Spawned
  BY TasksAssumption DEF RetryInv, SpacedInv, TypeOK, Tasks, Spawned
<1>2. pc[Main] \in {"install", "failed"} /\ version' = version
  BY DEF InstallAtStartup, Install, StartupFails, server
<1>3. phase = "starting" /\ \A t \in Spawned : pc[t] = "idle"
  BY <1>2 DEF RetryInv, Phases
<1>4. session.vault = NoVault
  BY <1>3 DEF NotBeyond
<1>5. \A t \in Tasks : pc'[t] # "install"
  BY <1>1, <1>3 DEF InstallAtStartup, StartupFails, Goto
<1>6. CASE InstallAtStartup
  <2>1. session'.vault = Decrypted(Main)
    BY <1>1, <1>6 DEF InstallAtStartup, Install, Installed, Sessions
  <2>2. session'.vault.version = local[Main].response.version
    BY <2>1 DEF Decrypted
  <2>3. phase' = "ready" /\ local[Main].response.version <= version'
    BY <1>1, <1>2, <1>6 DEF InstallAtStartup, Install, NotBeyond
  <2>4. Callers \cup CacheTasks \subseteq Tasks
    BY DEF Tasks
  <2> QED
    BY <1>4, <1>5, <2>2, <2>3, <2>4 DEF Advances, NotBeyond
<1>7. CASE StartupFails
  <2>1. session'.vault = NoVault
    BY <1>7 DEF StartupFails, NoSession
  <2> QED
    BY <1>4, <1>5, <2>1 DEF Advances, NotBeyond
<1> QED
  BY <1>6, <1>7

LEMMA AdvanceStep ==
  ASSUME AdvanceInv, [Next]_vars PROVE Advances /\ NotBeyond'
<1> USE DEF AdvanceInv
<1>1. TypeOK /\ Phases
  BY DEF RetryInv, SpacedInv
<1>2. ASSUME NEW c \in Callers, BeginOnDemandRefresh(c) PROVE Advances /\ NotBeyond'
  <2>1. /\ pc' = [pc EXCEPT ![c] = "ensure"]
        /\ UNCHANGED <<version, phase, session, local, installer>>
    BY <1>2 DEF BeginOnDemandRefresh, Goto, server
  <2>2. pc \in [Tasks -> Points] /\ c \in Tasks
    BY <1>1 DEF TypeOK, Tasks
  <2>3. \A t \in Tasks : pc'[t] # "install" \/ (pc'[t] = pc[t] /\ local'[t] = local[t])
    BY <2>1, <2>2
  <2> QED
    BY <2>1, <2>3, SameCacheAdvances
<1>3. ASSUME Surroundings PROVE Advances /\ NotBeyond'
  <2>1. session \in Sessions
    BY <1>1 DEF TypeOK
  <2>2. UNCHANGED <<phase, pc, local, installer>> /\ session'.vault = session.vault
    BY <1>3, <2>1 DEF Surroundings, EditVault, RotateKey, Tick, vars, history, Sessions
  <2>3. version' \in {version, version + 1}
    BY <1>3 DEF Surroundings, EditVault, RotateKey, Tick, vars, server
  <2> QED
    BY <2>2, <2>3, SameCacheAdvances
<1> QED
  BY <1>1, <1>2, <1>3, StepsOfAll, MovesAdvances, RestsAdvances, InstallAdvances, StartupAdvances
  DEF InRefresh

\* The cache, once there, is never emptied, and goes back to an older version of the
\* vault only from a periodic refresh to one on demand, or the other way.
THEOREM CacheAdvances == Spec => CacheGoesBackOnlyAcross
<1>1. Init => AdvanceInv
  <2>1. ASSUME Init PROVE NotBeyond
    <3>1. session.vault = NoVault
      BY <2>1 DEF Init, NoSession
    <3>2. \A t \in Tasks : pc[t] # "install"
      BY <2>1 DEF Init
    <3> QED
      BY <3>1, <3>2 DEF NotBeyond
  <2> QED
    BY <2>1, RetryInit DEF AdvanceInv
<1>2. AdvanceInv /\ [Next]_vars => AdvanceInv'
  BY RetryStep, AdvanceStep DEF AdvanceInv
<1>3. AdvanceInv /\ [Next]_vars =>
        [session.vault # NoVault =>
           /\ session'.vault # NoVault
           /\ \/ session'.vault.version >= session.vault.version
              \/ {installer, installer'} = {"demand", "background"}]_vars
  BY AdvanceStep DEF Advances
<1> QED
  BY <1>1, <1>2, <1>3, PTL DEF Spec, CacheGoesBackOnlyAcross

-----------------------------------------------------------------------------
(***************************************************************************)
(* With an API key the session's key fits its token                        *)
(*                                                                         *)
(* The grant returns no refresh token, so that every renewal is denied and *)
(* logs in; and the key of a login is fetched with its token, which the    *)
(* server answers only while the token is of the epoch of the key.         *)
(***************************************************************************)

Fits == ApiKey =>
  /\ session.refresh_token = NoToken
  /\ session.sym_key = session.access_token
  /\ \A t \in Tasks : /\ pc[t] = "refreshCall" => local[t].token = NoToken
                      /\ pc[t] # "refreshWrite"
                      /\ pc[t] = "authWrite" => local[t].newKey = local[t].token
FitInv == TypeOK /\ Fits

Renewed == {"refreshCall", "refreshWrite", "authWrite"}

\* What most steps do to the parts of the state that Fits speaks of: a task leaves
\* its tokens behind, and the credentials of the session stay.
SameCredentials ==
  /\ session'.access_token = session.access_token
  /\ session'.refresh_token = session.refresh_token
  /\ session'.sym_key = session.sym_key

Quiet(t) ==
  /\ \A s \in Tasks \ {t} : pc'[s] = pc[s] /\ local'[s] = local[s]
  /\ pc'[t] \notin Renewed
  /\ SameCredentials

LEMMA QuietKeepsFits ==
  ASSUME Fits, NEW t \in Tasks, Quiet(t) PROVE Fits'
<1>1. \A s \in Tasks : pc'[s] \in Renewed => pc'[s] = pc[s] /\ local'[s] = local[s]
  BY DEF Quiet
<1> QED
  BY <1>1 DEF Quiet, SameCredentials, Fits, Renewed

\* What a step of a task does besides renewing.
LEMMA TaskQuiet ==
  ASSUME TypeOK, NEW t \in Tasks,
         \/ EnsureValidToken(t) \/ RefreshDenied(t) \/ RefreshVaultCache(t)
         \/ Install(t) /\ pc' = [pc EXCEPT ![t] = pc'[t]] /\ pc'[t] \in {"idle", "retry"}
         \/ pc[t] = "failed" /\ Goto(t, "idle") /\ Forget(t) /\ session' = session
         \/ /\ \E point \in {"idle", "lock", "ensure"} : Goto(t, point)
            /\ UNCHANGED <<session, local>>
  PROVE  Quiet(t)
<1> USE DEF Quiet, Renewed, SameCredentials, Goto, server, history
<1>1. pc \in [Tasks -> Points] /\ local \in [Tasks -> Locals] /\ session \in Sessions
  BY DEF TypeOK
<1>2. CASE EnsureValidToken(t) \/ RefreshDenied(t)
  BY <1>1, <1>2 DEF EnsureValidToken, RefreshDenied, AfterRenewal
<1>3. CASE RefreshVaultCache(t)
  BY <1>1, <1>3 DEF RefreshVaultCache, ReadAccessToken, ReadKey, FetchSync, FetchUnauthorized,
                    FetchFails
<1>4. CASE Install(t) /\ pc' = [pc EXCEPT ![t] = pc'[t]] /\ pc'[t] \in {"idle", "retry"}
  BY <1>1, <1>4 DEF Install, Installed, Forget, Sessions
<1>5. CASE pc[t] = "failed" /\ Goto(t, "idle") /\ Forget(t) /\ session' = session
  BY <1>1, <1>5 DEF Forget
<1>6. CASE /\ \E point \in {"idle", "lock", "ensure"} : Goto(t, point)
           /\ UNCHANGED <<session, local>>
  BY <1>1, <1>6
<1> QED
  BY <1>2, <1>3, <1>4, <1>5, <1>6

LEMMA RenewKeepsFits ==
  ASSUME FitInv, NEW t \in Tasks, RenewToken(t) PROVE Fits'
<1> USE DEF FitInv, Goto, server
<1> SUFFICES ASSUME ApiKey PROVE Fits'
  BY DEF Fits
<1>1. /\ pc \in [Tasks -> Points] /\ local \in [Tasks -> Locals] /\ session \in Sessions
      /\ epoch # NoToken
  BY BoundsAssumption, TokenAssumption DEF TypeOK, Epochs
<1>2. \A s \in Tasks \ {t} : pc'[s] = pc[s] /\ local'[s] = local[s]
  BY <1>1 DEF RenewToken, EnsureValidToken, ReadRefreshToken, RefreshGranted, RefreshDenied,
              WriteRefreshedToken, Login, FetchProfileKey, StoreAuthentication
<1>3. CASE EnsureValidToken(t) \/ RefreshDenied(t)
  BY <1>3, TaskQuiet, QuietKeepsFits
<1>4. CASE ReadRefreshToken(t)
  <2>1. /\ pc'[t] = "refreshCall" /\ local'[t].token = session.refresh_token
        /\ session' = session
    BY <1>1, <1>4 DEF ReadRefreshToken, Locals
  <2> QED
    BY <1>2, <2>1 DEF Fits
<1>5. CASE RefreshGranted(t) \/ WriteRefreshedToken(t)
  BY <1>1, <1>5 DEF RefreshGranted, WriteRefreshedToken, Accepted, Fits
<1>6. CASE Login(t)
  <2>1. pc'[t] \in {"profileKey", "failed"} /\ session' = session
    BY <1>1, <1>6 DEF Login
  <2> QED
    BY <1>2, <2>1 DEF Fits
<1>7. CASE FetchProfileKey(t)
  <2>1. pc'[t] \in {"authWrite", "failed"} /\ session' = session
    BY <1>1, <1>7 DEF FetchProfileKey
  <2>2. pc'[t] = "authWrite" => local'[t].newKey = local'[t].token
    BY <1>1, <1>7 DEF FetchProfileKey, Accepted, Locals
  <2> QED
    BY <1>2, <2>1, <2>2 DEF Fits
<1>8. CASE StoreAuthentication(t)
  <2>1. pc[t] = "authWrite" /\ pc'[t] \in {"ensure", "idle", "readToken"}
    BY <1>1, <1>8 DEF StoreAuthentication, AfterRenewal
  <2>2. /\ session'.access_token = local[t].token
        /\ session'.refresh_token = NoToken
        /\ session'.sym_key = local[t].newKey
    <3>1. /\ NewSession(t).access_token = local[t].token
          /\ NewSession(t).refresh_token = NoToken
          /\ NewSession(t).sym_key = local[t].newKey
      BY DEF NewSession
    <3>2. /\ Authenticated(t).access_token = local[t].token
          /\ Authenticated(t).refresh_token = NoToken
          /\ Authenticated(t).sym_key = local[t].newKey
      BY <1>1 DEF Authenticated, Sessions
    <3> QED
      BY <1>8, <3>1, <3>2 DEF StoreAuthentication
  <2> QED
    BY <1>2, <2>1, <2>2 DEF Fits
<1> QED
  BY <1>3, <1>4, <1>5, <1>6, <1>7, <1>8 DEF RenewToken

LEMMA FitStep == FitInv /\ [Next]_vars => Fits'
<1> SUFFICES ASSUME FitInv, [Next]_vars PROVE Fits'
  OBVIOUS
<1> USE DEF FitInv, server, history
<1>1. /\ pc \in [Tasks -> Points] /\ session \in Sessions
      /\ Callers \cup CacheTasks \cup TokenTasks \cup {Main} = Tasks
  BY DEF TypeOK, Tasks
<1>2. ASSUME NEW t \in Tasks, Quiet(t) PROVE Fits'
  BY <1>2, QuietKeepsFits
<1>3. ASSUME NEW t \in Tasks,
             \/ RefreshVaultCache(t) \/ InstallOnDemand(t) \/ InstallInBackground(t)
             \/ t = Main /\ InstallAtStartup
      PROVE  Quiet(t)
  <2>1. RefreshVaultCache(t) => Quiet(t)
    BY TaskQuiet
  <2>2. InstallOnDemand(t) \/ InstallInBackground(t) \/ (t = Main /\ InstallAtStartup) =>
          /\ Install(t) /\ pc' = [pc EXCEPT ![t] = pc'[t]]
          /\ pc'[t] \in {"idle", "retry"}
    BY <1>1 DEF InstallOnDemand, InstallInBackground, InstallAtStartup, Goto
  <2> QED
    BY <1>3, <2>1, <2>2, TaskQuiet
<1>4. ASSUME NEW t \in Tasks,
             \/ FetchSecrets(t) \/ EnterRefresh(t) \/ RetryFetch(t) \/ OnDemandFails(t)
             \/ WakeCacheTask(t) \/ WakeTokenTask(t) \/ BackgroundFails(t)
      PROVE  Quiet(t)
  <2>1. CASE OnDemandFails(t) \/ BackgroundFails(t)
    BY <2>1, TaskQuiet DEF OnDemandFails, BackgroundFails
  <2>2. CASE EnterRefresh(t) \/ RetryFetch(t) \/ WakeCacheTask(t) \/ WakeTokenTask(t)
    BY <2>2, TaskQuiet DEF EnterRefresh, SkipWithinCooldown, BeginOnDemandRefresh, RetryFetch,
       WakeCacheTask, WakeTokenTask
  <2>3. CASE FetchSecrets(t)
    <3>1. pc[t] = "idle" /\ pc'[t] \in {"idle", "lock"} /\ UNCHANGED <<session, local>>
          /\ \A s \in Tasks \ {t} : pc'[s] = pc[s]
      BY <1>1, <2>3 DEF FetchSecrets, Goto
    <3> QED
      BY <3>1 DEF Quiet, SameCredentials, Renewed
  <2> QED
    BY <1>4, <2>1, <2>2, <2>3
<1>5. CASE StartupFails
  <2>1. /\ session' = NoSession /\ pc'[Main] \in {"login", "idle"}
        /\ \A t \in Tasks \ {Main} : pc'[t] = pc[t] /\ local'[t] = local[t]
    BY <1>1, <1>5 DEF StartupFails, Goto, Forget, TypeOK
  <2> QED
    BY <2>1 DEF Fits, NoSession
<1>6. CASE EditVault \/ RotateKey \/ Tick \/ UNCHANGED vars
  <2>1. UNCHANGED <<pc, local>> /\ SameCredentials
    BY <1>1, <1>6 DEF EditVault, RotateKey, Tick, vars, SameCredentials, Sessions
  <2> QED
    BY <2>1 DEF SameCredentials, Fits
<1>7. ASSUME NEW t \in Tasks, RenewToken(t) PROVE Fits'
  BY <1>7, RenewKeepsFits
<1> QED
  BY <1>1, <1>2, <1>3, <1>4, <1>5, <1>6, <1>7
     DEF Next, CallerStep, CacheTaskStep, TokenTaskStep, MainStep

\* With an API key, do_refresh_or_reauth of any number of tasks, in any order and
\* with any rotations and faults, leaves the session the key of its access token:
\* nothing but re_authenticate writes either, and it writes both.
THEOREM KeyFitsTokenWithApiKey == Spec => []KeyFitsToken
<1>1. Init => FitInv
  <2> SUFFICES ASSUME Init PROVE FitInv
    OBVIOUS
  <2>1. session = NoSession /\ \A t \in Tasks : pc[t] \in {"login", "idle"}
    BY DEF Init
  <2> QED
    BY <2>1, TypeOKInit DEF FitInv, Fits, NoSession
<1>2. FitInv /\ [Next]_vars => FitInv'
  BY FitStep, TypeOKStep DEF FitInv
<1>3. FitInv => KeyFitsToken
  BY DEF FitInv, Fits, KeyFitsToken
<1> QED
  BY <1>1, <1>2, <1>3, PTL DEF Spec
=============================================================================
