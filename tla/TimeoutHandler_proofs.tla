----------------------- MODULE TimeoutHandler_proofs -----------------------
(***************************************************************************)
(* However many processes run the timeout handler and however many entries *)
(* expire: one callback per entry, with the lock, or with a single process *)
(* without it.                                                             *)
(***************************************************************************)
EXTENDS TimeoutHandler, TLAPS

\* The deployments the results are about.
Sound == LockEnabled \/ \A i, j \in Instance : i = j

\* The invariant holds when the processes start.
LEMMA CallbackInvInit == Init => CallbackInv
<1> SUFFICES ASSUME Init PROVE CallbackInv
  OBVIOUS
<1>1. TypeOK
  <2>1. Idle \in [Entry -> {"none", "found", "called"}]
    BY DEF Idle
  <2>2. 0 \in 0..2
    OBVIOUS
  <2> QED
    BY <2>1, <2>2 DEF Init, TypeOK
<1>2. OneTickPerProcess
  BY DEF Init, OneTickPerProcess, Idle
<1>3. LockHeldAtWork
  BY DEF Init, LockHeldAtWork
<1>4. CallIsPending
  BY DEF Init, CallIsPending, Idle
<1> QED
  BY <1>1, <1>2, <1>3, <1>4 DEF CallbackInv

\* Two ticks at work share the lock, or the only process, and so isRunning.
LEMMA AtWorkAlone ==
  ASSUME Sound, CallbackInv, ~disturbed, NEW t \in Tick, NEW u \in Tick,
         pc[t] \in {"locked", "processing"}, pc[u] \in {"locked", "processing"}
  PROVE  t = u
<1>1. HostOf[t] = HostOf[u]
  BY HostAssumption DEF Sound, CallbackInv, LockHeldAtWork
<1> QED
  BY <1>1 DEF CallbackInv, OneTickPerProcess

\* One cell of work changes.
LEMMA WorkUpdate ==
  ASSUME NEW t \in Tick, NEW e \in Entry, NEW v \in {"none", "found", "called"},
         work \in [Tick -> [Entry -> {"none", "found", "called"}]],
         work' = [work EXCEPT ![t][e] = v]
  PROVE  /\ work' \in [Tick -> [Entry -> {"none", "found", "called"}]]
         /\ \A u \in Tick, f \in Entry :
              work'[u][f] = IF u = t /\ f = e THEN v ELSE work[u][f]
OBVIOUS

\* Every step keeps the variables typed, with or without the lock.
LEMMA TypeNext ==
  ASSUME TypeOK, [Next]_vars
  PROVE  TypeOK'
<1> USE HostAssumption
<1>1. ASSUME NEW e \in Entry, Expire(e) \/ CloseEntry(e) PROVE TypeOK'
  BY <1>1 DEF Expire, CloseEntry, TypeOK
<1>2. ASSUME NEW t \in Tick, StartTick(t) PROVE TypeOK'
  BY <1>2 DEF StartTick, TypeOK
<1>3. ASSUME NEW t \in Tick, AcquireLock(t) PROVE TypeOK'
  <2>1. CASE Acquired(t)
    BY <1>3, <2>1 DEF AcquireLock, Acquired, TypeOK
  <2>2. CASE NotAcquired(t)
    BY <1>3, <2>2 DEF AcquireLock, NotAcquired, TypeOK
  <2> QED
    BY <1>3, <2>1, <2>2 DEF AcquireLock
<1>4. ASSUME NEW t \in Tick, FindExpired(t) PROVE TypeOK'
  <2> DEFINE found == [e \in Entry |-> IF entry[e] = "expired" THEN "found" ELSE "none"]
  <2>1. found \in [Entry -> {"none", "found", "called"}]
    OBVIOUS
  <2>2. work' = [work EXCEPT ![t] = found] \/ UNCHANGED work
    BY <1>4 DEF FindExpired
  <2> HIDE DEF found
  <2>3. work' \in [Tick -> [Entry -> {"none", "found", "called"}]]
    BY <2>1, <2>2 DEF TypeOK
  <2> QED
    BY <1>4, <2>3 DEF FindExpired, TypeOK
<1>5. ASSUME NEW t \in Tick, NEW e \in Entry,
             SendTimeoutCallback(t, e) \/ RemoveEntry(t, e)
      PROVE  TypeOK'
  <2>1. work' \in [Tick -> [Entry -> {"none", "found", "called"}]]
    BY <1>5, WorkUpdate DEF SendTimeoutCallback, RemoveEntry, TypeOK
  <2>2. CASE SendTimeoutCallback(t, e)
    BY <2>1, <2>2 DEF SendTimeoutCallback, TypeOK
  <2>3. CASE RemoveEntry(t, e)
    BY <2>1, <2>3 DEF RemoveEntry, TypeOK
  <2> QED
    BY <1>5, <2>2, <2>3
<1>6. ASSUME NEW t \in Tick, FinishProcessing(t) \/ ReleaseLock(t) PROVE TypeOK'
  BY <1>6 DEF FinishProcessing, ReleaseLock, Release, TypeOK
<1>7. ASSUME NEW i \in Instance, StopJob(i) \/ StopReleasesLock(i) PROVE TypeOK'
  BY <1>7 DEF StopJob, StopReleasesLock, Release, AtWork, TypeOK
<1>8. ASSUME NEW i \in Instance, Crash(i) PROVE TypeOK'
  BY <1>8 DEF Crash, TypeOK, Idle
<1>9. ASSUME LockExpires PROVE TypeOK'
  BY <1>9 DEF LockExpires, AtWork, TypeOK
<1>10. CASE UNCHANGED vars
  BY <1>10 DEF vars, TypeOK
<1> QED
  BY <1>1, <1>2, <1>3, <1>4, <1>5, <1>6, <1>7, <1>8, <1>9, <1>10 DEF Next, TickStep

\* The variables have their types in every deployment.
THEOREM TypeCorrect == Spec => []TypeOK
<1>1. Init => TypeOK
  BY CallbackInvInit DEF CallbackInv
<1> QED
  BY <1>1, TypeNext, PTL DEF Spec

\* Every step of a tick, of the cron, of stop() and of a crash keeps it.
LEMMA CallbackInvNext ==
  ASSUME Sound, CallbackInv, [Next]_vars
  PROVE  CallbackInv'
<1> USE HostAssumption DEF CallbackInv
<1>1. ASSUME NEW e \in Entry, Expire(e) \/ CloseEntry(e)
      PROVE  CallbackInv'
  <2>1. TypeOK'
    BY TypeNext
  <2>2. OneTickPerProcess'
    BY <1>1 DEF Expire, CloseEntry, OneTickPerProcess
  <2>3. ASSUME ~disturbed' PROVE LockHeldAtWork'
    BY <1>1, <2>3 DEF Expire, CloseEntry, LockHeldAtWork
  <2>4. ASSUME ~disturbed' PROVE CallIsPending'
    BY <1>1, <2>4 DEF Expire, CloseEntry, TypeOK, CallIsPending
  <2> QED
    BY <2>1, <2>2, <2>3, <2>4
<1>2. ASSUME NEW t \in Tick, StartTick(t)
      PROVE  CallbackInv'
  <2>1. TypeOK'
    BY TypeNext
  <2>2. OneTickPerProcess'
    BY <1>2 DEF StartTick, TypeOK, OneTickPerProcess
  <2>3. ASSUME ~disturbed' PROVE LockHeldAtWork'
    BY <1>2, <2>3 DEF StartTick, TypeOK, OneTickPerProcess, LockHeldAtWork
  <2>4. ASSUME ~disturbed' PROVE CallIsPending'
    BY <1>2, <2>4 DEF StartTick, TypeOK, CallIsPending
  <2> QED
    BY <2>1, <2>2, <2>3, <2>4
<1>3. ASSUME NEW t \in Tick, AcquireLock(t)
      PROVE  CallbackInv'
  <2>1. pc[t] = "acquiring" /\ UNCHANGED <<job, work, entry, calls, disturbed>>
    BY <1>3 DEF AcquireLock
  <2>2. CASE (LockEnabled => lock = None) /\ Acquired(t)
    <3>1. TypeOK'
      BY TypeNext
    <3>2. OneTickPerProcess'
      BY <2>1, <2>2 DEF Acquired, TypeOK, OneTickPerProcess
    <3>3. \A u \in Tick : pc'[u] = IF u = t THEN "locked" ELSE pc[u]
      BY <2>2 DEF Acquired, TypeOK
    <3>4. ASSUME ~disturbed' PROVE LockHeldAtWork'
      BY <2>1, <2>2, <3>3, <3>4, NoneAssumption DEF Acquired, LockHeldAtWork
    <3> QED
      BY <2>1, <3>1, <3>2, <3>4 DEF CallIsPending
  <2>3. CASE NotAcquired(t)
    <3>1. TypeOK'
      BY TypeNext
    <3>2. \A u \in Tick : pc'[u] = IF u = t THEN "idle" ELSE pc[u]
      BY <2>3 DEF NotAcquired, TypeOK
    <3>3. \A i \in Instance : i # HostOf[t] => isRunning'[i] = isRunning[i]
      BY <2>3 DEF NotAcquired, TypeOK
    <3>4. OneTickPerProcess'
      BY <2>1, <3>2, <3>3 DEF OneTickPerProcess
    <3>5. ASSUME ~disturbed' PROVE LockHeldAtWork'
      <4>1. CASE UNCHANGED lock
        BY <2>1, <3>2, <3>5, <4>1 DEF LockHeldAtWork
      <4>2. CASE lock = None
        BY <2>1, <3>2, <3>5, <4>2, NoneAssumption DEF LockHeldAtWork
      <4> QED
        BY <2>3, <4>1, <4>2 DEF NotAcquired
    <3> QED
      BY <2>1, <3>1, <3>4, <3>5 DEF CallIsPending
  <2> QED
    BY <1>3, <2>2, <2>3 DEF AcquireLock
<1>4. ASSUME NEW t \in Tick, FindExpired(t)
      PROVE  CallbackInv'
  <2> DEFINE found == [e \in Entry |-> IF entry[e] = "expired" THEN "found" ELSE "none"]
  <2>1. UNCHANGED <<job, isRunning, lock, entry, calls, disturbed>> /\ pc[t] = "locked"
    BY <1>4 DEF FindExpired
  <2>2. CASE /\ pc' = [pc EXCEPT ![t] = "processing"]
             /\ work' = [work EXCEPT ![t] = found]
    <3>1. /\ work'[t] = found /\ pc'[t] = "processing"
          /\ \A u \in Tick : u # t => work'[u] = work[u] /\ pc'[u] = pc[u]
      BY <2>2 DEF TypeOK
    <3>2. TypeOK'
      BY TypeNext
    <3>3. OneTickPerProcess'
      BY <2>1, <3>1 DEF OneTickPerProcess
    <3>4. ~disturbed' => LockHeldAtWork'
      BY <2>1, <3>1 DEF LockHeldAtWork
    <3>5. ASSUME ~disturbed' PROVE CallIsPending'
      <4>1. \A e \in Entry : work[t][e] = "none"
        BY <2>1 DEF OneTickPerProcess, TypeOK
      <4>2. \A u \in Tick, e \in Entry : work[u][e] = "called" => work'[u][e] = "called"
        BY <3>1, <4>1
      <4>3. \A u \in Tick, e \in Entry : u # t => work[u][e] = "none"
        BY <2>1, <3>5, AtWorkAlone DEF OneTickPerProcess
      <4>4. \A e \in Entry : entry[e] = "expired" => calls[e] = 0
        BY <2>1, <3>5, <4>1, <4>3 DEF CallIsPending
      <4> QED
        BY <2>1, <3>1, <3>5, <4>2, <4>3, <4>4 DEF CallIsPending
    <3> QED
      BY <3>2, <3>3, <3>4, <3>5
  <2>3. CASE pc' = [pc EXCEPT ![t] = "releasing"] /\ UNCHANGED work
    <3>1. /\ pc'[t] = "releasing"
          /\ \A u \in Tick : u # t => pc'[u] = pc[u]
      BY <2>3 DEF TypeOK
    <3>2. TypeOK'
      BY TypeNext
    <3>3. OneTickPerProcess'
      BY <2>1, <2>3, <3>1 DEF OneTickPerProcess
    <3>4. ~disturbed' => LockHeldAtWork' /\ CallIsPending'
      BY <2>1, <2>3, <3>1 DEF LockHeldAtWork, CallIsPending
    <3> QED
      BY <3>2, <3>3, <3>4
  <2> QED
    BY <1>4, <2>2, <2>3 DEF FindExpired
<1>5. ASSUME NEW t \in Tick, NEW e \in Entry, SendTimeoutCallback(t, e)
      PROVE  CallbackInv'
  <2>1. /\ work[t][e] = "found"
        /\ work' \in [Tick -> [Entry -> {"none", "found", "called"}]]
        /\ \A u \in Tick, f \in Entry :
             work'[u][f] = IF u = t /\ f = e THEN "called" ELSE work[u][f]
    BY <1>5, WorkUpdate DEF SendTimeoutCallback, TypeOK
  <2>2. UNCHANGED <<job, isRunning, pc, lock, entry, disturbed>>
    BY <1>5 DEF SendTimeoutCallback
  <2>3. /\ calls' \in [Entry -> 0..2]
        /\ \A f \in Entry : f # e => calls'[f] = calls[f]
        /\ calls'[e] = calls[e] \/ calls'[e] = IF calls[e] = 0 THEN 1 ELSE 2
    BY <1>5 DEF SendTimeoutCallback, TypeOK
  <2>4. TypeOK'
    BY TypeNext
  <2>5. OneTickPerProcess' /\ (~disturbed' => LockHeldAtWork')
    BY <2>1, <2>2 DEF OneTickPerProcess, LockHeldAtWork
  <2>6. ASSUME ~disturbed' PROVE CallIsPending'
    <3>1. \A u \in Tick : work[u][e] # "called"
      BY <2>1, <2>2, <2>6, AtWorkAlone DEF OneTickPerProcess
    <3>2. calls[e] = 0 /\ entry[e] # "live"
      BY <2>1, <2>2, <2>6 DEF CallIsPending
    <3>3. \A u \in Tick : u # t => work[u][e] = "none"
      BY <2>1, <2>2, <2>6, AtWorkAlone DEF OneTickPerProcess
    <3>4. \A u \in Tick, f \in Entry : work'[u][f] # "none" => entry'[f] # "live"
      BY <2>1, <2>2, <2>6, <3>2 DEF CallIsPending
    <3>5. \A u \in Tick, f \in Entry : work'[u][f] = "found" => calls'[f] = 0
      <4> SUFFICES ASSUME NEW u \in Tick, NEW f \in Entry, work'[u][f] = "found"
                   PROVE  calls'[f] = 0
        OBVIOUS
      <4>1. work[u][f] = "found" /\ f # e
        BY <2>1, <3>3
      <4> QED
        BY <2>2, <2>3, <2>6, <4>1 DEF CallIsPending
    <3>6. ASSUME NEW f \in Entry
          PROVE  \/ calls'[f] = 0
                 \/ /\ calls'[f] = 1
                    /\ entry'[f] = "gone" \/ \E u \in Tick : work'[u][f] = "called"
      <4>1. CASE f = e
        <5>1. work'[t][e] = "called" /\ calls'[e] \in {0, 1}
          BY <2>1, <2>3, <3>2
        <5> QED
          BY <4>1, <5>1
      <4>2. CASE f # e
        <5>1. \A u \in Tick : work'[u][f] = work[u][f]
          BY <2>1, <4>2
        <5>2. calls'[f] = calls[f] /\ entry'[f] = entry[f]
          BY <2>2, <2>3, <4>2
        <5> QED
          BY <2>2, <2>6, <5>1, <5>2 DEF CallIsPending
      <4> QED
        BY <4>1, <4>2
    <3> QED
      BY <3>4, <3>5, <3>6 DEF CallIsPending
  <2> QED
    BY <2>4, <2>5, <2>6
<1>6. ASSUME NEW t \in Tick, NEW e \in Entry, RemoveEntry(t, e)
      PROVE  CallbackInv'
  <2>1. /\ work[t][e] = "called"
        /\ work' \in [Tick -> [Entry -> {"none", "found", "called"}]]
        /\ \A u \in Tick, f \in Entry :
             work'[u][f] = IF u = t /\ f = e THEN "none" ELSE work[u][f]
    BY <1>6, WorkUpdate DEF RemoveEntry, TypeOK
  <2>2. UNCHANGED <<job, isRunning, pc, lock, calls, disturbed>>
    BY <1>6 DEF RemoveEntry
  <2>3. /\ entry' \in [Entry -> {"live", "expired", "gone"}]
        /\ entry'[e] = "gone" /\ \A f \in Entry : f # e => entry'[f] = entry[f]
    BY <1>6 DEF RemoveEntry, TypeOK
  <2>4. TypeOK'
    BY TypeNext
  <2>5. OneTickPerProcess' /\ (~disturbed' => LockHeldAtWork')
    BY <2>1, <2>2 DEF OneTickPerProcess, LockHeldAtWork
  <2>6. ASSUME ~disturbed' PROVE CallIsPending'
    <3>1. \A u \in Tick : work'[u][e] = "none"
      BY <2>1, <2>2, <2>6, AtWorkAlone DEF OneTickPerProcess
    <3>2. \A u \in Tick, f \in Entry : work'[u][f] # "none" => f # e /\ work'[u][f] = work[u][f]
      BY <2>1, <3>1
    <3>3. \A u \in Tick, f \in Entry : f # e => work'[u][f] = work[u][f]
      BY <2>1
    <3> QED
      BY <2>2, <2>3, <2>6, <3>2, <3>3 DEF CallIsPending
  <2> QED
    BY <2>4, <2>5, <2>6
<1>7. ASSUME NEW t \in Tick, FinishProcessing(t)
      PROVE  CallbackInv'
  <2>1. TypeOK'
    BY TypeNext
  <2>2. OneTickPerProcess'
    BY <1>7 DEF FinishProcessing, Idle, TypeOK, OneTickPerProcess
  <2>3. ASSUME ~disturbed' PROVE LockHeldAtWork'
    BY <1>7, <2>3 DEF FinishProcessing, Idle, TypeOK, OneTickPerProcess, LockHeldAtWork
  <2>4. ASSUME ~disturbed' PROVE CallIsPending'
    BY <1>7, <2>4 DEF FinishProcessing, Idle, TypeOK, CallIsPending
  <2> QED
    BY <2>1, <2>2, <2>3, <2>4
<1>8. ASSUME NEW t \in Tick, ReleaseLock(t)
      PROVE  CallbackInv'
  <2>1. TypeOK'
    BY TypeNext
  <2>2. OneTickPerProcess'
    BY <1>8 DEF ReleaseLock, Release, TypeOK, OneTickPerProcess
  <2>3. ASSUME ~disturbed' PROVE LockHeldAtWork'
    BY <1>8, <2>3 DEF ReleaseLock, Release, TypeOK, OneTickPerProcess, LockHeldAtWork
  <2>4. ASSUME ~disturbed' PROVE CallIsPending'
    BY <1>8, <2>4 DEF ReleaseLock, Release, TypeOK, CallIsPending
  <2> QED
    BY <2>1, <2>2, <2>3, <2>4
<1>9. ASSUME NEW i \in Instance, StopJob(i)
      PROVE  CallbackInv'
  <2>1. TypeOK'
    BY TypeNext
  <2>2. OneTickPerProcess'
    BY <1>9 DEF StopJob, TypeOK, OneTickPerProcess
  <2>3. ASSUME ~disturbed' PROVE LockHeldAtWork'
    BY <1>9, <2>3 DEF StopJob, TypeOK, OneTickPerProcess, LockHeldAtWork
  <2>4. ASSUME ~disturbed' PROVE CallIsPending'
    BY <1>9, <2>4 DEF StopJob, TypeOK, CallIsPending
  <2> QED
    BY <2>1, <2>2, <2>3, <2>4
<1>10. ASSUME NEW i \in Instance, StopReleasesLock(i)
      PROVE  CallbackInv'
  <2>1. TypeOK'
    BY TypeNext
  <2>2. OneTickPerProcess'
    BY <1>10 DEF StopReleasesLock, Release, AtWork, TypeOK, OneTickPerProcess
  <2>3. ASSUME ~disturbed' PROVE LockHeldAtWork'
    BY <1>10, <2>3 DEF StopReleasesLock, Release, AtWork, TypeOK, OneTickPerProcess, LockHeldAtWork
  <2>4. ASSUME ~disturbed' PROVE CallIsPending'
    BY <1>10, <2>4 DEF StopReleasesLock, Release, AtWork, TypeOK, CallIsPending
  <2> QED
    BY <2>1, <2>2, <2>3, <2>4
<1>11. ASSUME NEW i \in Instance, Crash(i)
      PROVE  CallbackInv'
  <2>1. /\ \A t \in Tick : pc'[t] = IF HostOf[t] = i THEN "idle" ELSE pc[t]
        /\ \A t \in Tick : work'[t] = IF HostOf[t] = i THEN Idle ELSE work[t]
        /\ UNCHANGED <<isRunning, lock, entry, calls>>
        /\ ~disturbed' => /\ ~disturbed
                          /\ \A t \in Tick, e \in Entry : HostOf[t] = i => work[t][e] # "called"
    BY <1>11 DEF Crash
  <2>2. TypeOK'
    BY TypeNext
  <2>3. OneTickPerProcess'
    BY <2>1 DEF OneTickPerProcess, Idle
  <2>4. ~disturbed' => LockHeldAtWork'
    BY <2>1 DEF LockHeldAtWork
  <2>5. ASSUME ~disturbed' PROVE CallIsPending'
    <3>1. \A t \in Tick, e \in Entry : work[t][e] = "called" => work'[t][e] = "called"
      BY <2>1, <2>5
    <3>2. \A t \in Tick, e \in Entry : work'[t][e] # "none" => work'[t][e] = work[t][e]
      BY <2>1 DEF Idle
    <3>3. \A t \in Tick, e \in Entry : work'[t][e] # "none" => entry'[e] # "live"
      BY <2>1, <2>5, <3>2 DEF CallIsPending
    <3>4. \A t \in Tick, e \in Entry : work'[t][e] = "found" => calls'[e] = 0
      BY <2>1, <2>5, <3>2 DEF CallIsPending
    <3> QED
      BY <2>1, <2>5, <3>1, <3>3, <3>4 DEF CallIsPending
  <2> QED
    BY <2>2, <2>3, <2>4, <2>5
<1>12. ASSUME LockExpires
      PROVE  CallbackInv'
  <2>1. TypeOK'
    BY TypeNext
  <2>2. OneTickPerProcess'
    BY <1>12 DEF LockExpires, AtWork, TypeOK, OneTickPerProcess
  <2>3. ASSUME ~disturbed' PROVE LockHeldAtWork'
    BY <1>12, <2>3 DEF LockExpires, AtWork, TypeOK, OneTickPerProcess, LockHeldAtWork
  <2>4. ASSUME ~disturbed' PROVE CallIsPending'
    BY <1>12, <2>4 DEF LockExpires, AtWork, TypeOK, CallIsPending
  <2> QED
    BY <2>1, <2>2, <2>3, <2>4
<1>13. CASE UNCHANGED vars
  BY <1>13 DEF vars, TypeOK, OneTickPerProcess, LockHeldAtWork, CallIsPending
<1> QED
  BY <1>1, <1>2, <1>3, <1>4, <1>5, <1>6, <1>7, <1>8, <1>9, <1>10, <1>11, <1>12, <1>13
  DEF Next, TickStep

\* With the lock, or with a single process without it, the ticks keep the
\* invariant whatever else happens.
THEOREM CallbackInvariant == ASSUME Sound PROVE Spec => []CallbackInv
<1>1. Init => CallbackInv
  BY CallbackInvInit
<1>2. CallbackInv /\ [Next]_vars => CallbackInv'
  BY CallbackInvNext
<1> QED
  BY <1>1, <1>2, PTL DEF Spec

\* A requester is called back once about an expired lookup, unless a tick lost
\* its lock at work or its process died right after the callback.
THEOREM OneCallback == ASSUME Sound PROVE Spec => []OneCallbackPerEntry
<1>1. CallbackInv => OneCallbackPerEntry
  BY DEF CallbackInv, CallIsPending, OneCallbackPerEntry, TypeOK
<1> QED
  BY <1>1, CallbackInvariant, PTL

\* No two ticks work on the expired keys at once before a lock was lost.
THEOREM TicksAreAlone == ASSUME Sound PROVE Spec => []OneTickAtWork
<1>1. CallbackInv => OneTickAtWork
  BY AtWorkAlone DEF OneTickAtWork
<1> QED
  BY <1>1, CallbackInvariant, PTL

-----------------------------------------------------------------------------
(***************************************************************************)
(* isRunning is never left set, in any deployment and whatever goes wrong. *)
(***************************************************************************)
\* Every step keeps a tick under way in each process that is running.
LEMMA RunningHasTickNext ==
  ASSUME TypeOK, RunningHasTick, [Next]_vars
  PROVE  RunningHasTick'
<1> USE HostAssumption
<1>1. ASSUME UNCHANGED <<job, isRunning, pc>> PROVE RunningHasTick'
  BY <1>1 DEF RunningHasTick
<1>2. ASSUME NEW e \in Entry, Expire(e) \/ CloseEntry(e) PROVE RunningHasTick'
  BY <1>1, <1>2 DEF Expire, CloseEntry
<1>3. ASSUME NEW t \in Tick, StartTick(t) PROVE RunningHasTick'
  BY <1>3 DEF StartTick, TypeOK, RunningHasTick
<1>4. ASSUME NEW t \in Tick, NEW v \in {"locked", "processing", "releasing"},
             pc' = [pc EXCEPT ![t] = v], UNCHANGED <<job, isRunning>>
      PROVE  RunningHasTick'
  <2>1. \A u \in Tick : pc[u] # "idle" => pc'[u] # "idle"
    BY <1>4 DEF TypeOK
  <2> QED
    BY <1>4, <2>1 DEF RunningHasTick
<1>5. ASSUME NEW t \in Tick, pc' = [pc EXCEPT ![t] = "idle"], UNCHANGED job,
             isRunning' = [isRunning EXCEPT ![HostOf[t]] = FALSE]
      PROVE  RunningHasTick'
  <2>1. /\ ~isRunning'[HostOf[t]]
        /\ \A i \in Instance : i # HostOf[t] => isRunning'[i] = isRunning[i]
        /\ \A u \in Tick : u # t => pc'[u] = pc[u]
    BY <1>5 DEF TypeOK
  <2> QED
    BY <1>5, <2>1 DEF RunningHasTick
<1>6. ASSUME NEW t \in Tick, AcquireLock(t) PROVE RunningHasTick'
  BY <1>4, <1>5, <1>6 DEF AcquireLock, Acquired, NotAcquired
<1>7. ASSUME NEW t \in Tick, FindExpired(t) PROVE RunningHasTick'
  BY <1>4, <1>7 DEF FindExpired
<1>8. ASSUME NEW t \in Tick, NEW e \in Entry, SendTimeoutCallback(t, e) \/ RemoveEntry(t, e)
      PROVE  RunningHasTick'
  BY <1>1, <1>8 DEF SendTimeoutCallback, RemoveEntry
<1>9. ASSUME NEW t \in Tick, FinishProcessing(t) PROVE RunningHasTick'
  BY <1>4, <1>9 DEF FinishProcessing
<1>10. ASSUME NEW t \in Tick, ReleaseLock(t) PROVE RunningHasTick'
  BY <1>5, <1>10 DEF ReleaseLock
<1>11. ASSUME NEW i \in Instance, StopJob(i) \/ StopReleasesLock(i) PROVE RunningHasTick'
  BY <1>11 DEF StopJob, StopReleasesLock, TypeOK, RunningHasTick
<1>12. ASSUME NEW i \in Instance, Crash(i) PROVE RunningHasTick'
  BY <1>12 DEF Crash, TypeOK, RunningHasTick
<1>13. ASSUME LockExpires PROVE RunningHasTick'
  BY <1>1, <1>13 DEF LockExpires
<1>14. CASE UNCHANGED vars
  BY <1>1, <1>14 DEF vars
<1> QED
  BY <1>2, <1>3, <1>6, <1>7, <1>8, <1>9, <1>10, <1>11, <1>12, <1>13, <1>14
     DEF Next, TickStep

\* Whenever isRunning is set a tick of the process is under way, and every end
\* of timeout() resets it: the job of a live process is never stuck.
THEOREM RunningIsReset == Spec => []RunningHasTick
<1>1. Init => RunningHasTick
  BY DEF Init, RunningHasTick
<1>2. TypeOK /\ RunningHasTick /\ [Next]_vars => RunningHasTick'
  BY RunningHasTickNext
<1> QED
  BY <1>1, <1>2, TypeCorrect, PTL DEF Spec

-----------------------------------------------------------------------------
(***************************************************************************)
(* All ticks together are one worker.                                      *)
(***************************************************************************)
WorkerStep == [Worker!Next]_(Worker!wvars)

hand == [e \in Entry |-> HandOf(e)]

\* Of an undisturbed worker, the tick at work has everything in hand.
LEMMA HandOfTick ==
  ASSUME Sound, CallbackInv, ~disturbed, NEW t \in Tick, pc[t] \in {"locked", "processing"},
         NEW e \in Entry
  PROVE  /\ \A u \in Tick : u # t => work[u][e] = "none"
         /\ HandOf(e) = work[t][e]
<1>1. \A u \in Tick : u # t => work[u][e] = "none"
  BY AtWorkAlone DEF CallbackInv, OneTickPerProcess
<1>2. work[t][e] \in {"none", "found", "called"}
  BY DEF CallbackInv, TypeOK
<1> QED
  BY <1>1, <1>2 DEF HandOf

\* A step that moves no work and sets nothing but the lock, the job or pc.
LEMMA WorkerIdles ==
  ASSUME UNCHANGED <<work, entry, calls, disturbed>>
  PROVE  WorkerStep
<1>1. hand' = hand
  BY DEF hand, HandOf
<1> QED
  BY <1>1 DEF hand, WorkerStep, Worker!wvars

\* A step under or into a disturbance that spares the live entries.
LEMMA WorkerOverlaps ==
  ASSUME disturbed',
         \A e \in Entry :
           /\ entry'[e] # entry[e] => entry[e] # "live" /\ entry'[e] = "gone"
           /\ calls'[e] # calls[e] => entry[e] # "live" /\ calls'[e] \in {1, 2}
  PROVE  WorkerStep
BY DEF WorkerStep, Worker!Next, Worker!Overlap

\* What is found is expired, before and after a disturbance.
FoundExpired == \A t \in Tick, e \in Entry : work[t][e] # "none" => entry[e] # "live"

LEMMA FoundExpiredNext ==
  ASSUME TypeOK, FoundExpired, [Next]_vars
  PROVE  FoundExpired'
<1>1. ASSUME NEW e \in Entry, Expire(e) \/ CloseEntry(e) PROVE FoundExpired'
  BY <1>1 DEF Expire, CloseEntry, TypeOK, FoundExpired
<1>2. ASSUME NEW t \in Tick, FindExpired(t) PROVE FoundExpired'
  <2>1. UNCHANGED entry
    BY <1>2 DEF FindExpired
  <2>2. CASE UNCHANGED work
    BY <2>1, <2>2 DEF FoundExpired
  <2>3. CASE work' = [work EXCEPT ![t] =
                        [e \in Entry |-> IF entry[e] = "expired" THEN "found" ELSE "none"]]
    <3>1. /\ \A e \in Entry : work'[t][e] = IF entry[e] = "expired" THEN "found" ELSE "none"
          /\ \A u \in Tick : u # t => work'[u] = work[u]
      BY <2>3 DEF TypeOK
    <3> QED
      BY <2>1, <3>1 DEF FoundExpired
  <2> QED
    BY <1>2, <2>2, <2>3 DEF FindExpired
<1>3. ASSUME NEW t \in Tick, NEW e \in Entry, SendTimeoutCallback(t, e) PROVE FoundExpired'
  BY <1>3, WorkUpdate DEF SendTimeoutCallback, TypeOK, FoundExpired
<1>4. ASSUME NEW t \in Tick, NEW e \in Entry, RemoveEntry(t, e) PROVE FoundExpired'
  BY <1>4, WorkUpdate DEF RemoveEntry, TypeOK, FoundExpired
<1>5. ASSUME NEW i \in Instance, Crash(i) PROVE FoundExpired'
  BY <1>5 DEF Crash, Idle, FoundExpired
<1>6. CASE UNCHANGED <<work, entry>>
  BY <1>6 DEF FoundExpired
<1>7. ASSUME NEW t \in Tick,
             StartTick(t) \/ AcquireLock(t) \/ FinishProcessing(t) \/ ReleaseLock(t)
      PROVE  FoundExpired'
  BY <1>6, <1>7 DEF StartTick, AcquireLock, FinishProcessing, ReleaseLock
<1>8. ASSUME NEW i \in Instance, StopJob(i) \/ StopReleasesLock(i) PROVE FoundExpired'
  BY <1>6, <1>8 DEF StopJob, StopReleasesLock
<1>9. ASSUME LockExpires PROVE FoundExpired'
  BY <1>6, <1>9 DEF LockExpires
<1> QED
  BY <1>1, <1>2, <1>3, <1>4, <1>5, <1>6, <1>7, <1>8, <1>9 DEF Next, TickStep, vars

\* The tick at work finds, calls or removes: so does the worker.
LEMMA TickIsWorker ==
  ASSUME Sound, CallbackInv, ~disturbed, NEW t \in Tick,
         FindExpired(t) \/ \E e \in Entry : SendTimeoutCallback(t, e) \/ RemoveEntry(t, e)
  PROVE  WorkerStep
<1>1. pc[t] \in {"locked", "processing"} /\ UNCHANGED disturbed
  BY DEF FindExpired, SendTimeoutCallback, RemoveEntry, CallbackInv, OneTickPerProcess
<1>2. /\ \A u \in Tick, e \in Entry : u # t => work[u][e] = "none"
      /\ \A e \in Entry : HandOf(e) = work[t][e]
  BY <1>1, HandOfTick
<1>3. ASSUME NEW f \in Entry, \A u \in Tick : u # t => work'[u][f] = "none",
             work'[t][f] \in {"none", "found", "called"}
      PROVE  HandOf(f)' = work'[t][f]
  BY <1>3 DEF HandOf
<1>4. CASE FindExpired(t)
  <2> DEFINE found == [e \in Entry |-> IF entry[e] = "expired" THEN "found" ELSE "none"]
  <2>1. pc[t] = "locked" /\ UNCHANGED <<entry, calls, disturbed>>
    BY <1>4 DEF FindExpired
  <2>2. CASE UNCHANGED work
    BY <2>1, <2>2, WorkerIdles
  <2>3. CASE work' = [work EXCEPT ![t] = found]
    <3>1. work'[t] = found /\ \A u \in Tick : u # t => work'[u] = work[u]
      BY <2>3 DEF CallbackInv, TypeOK
    <3>2. \A e \in Entry : HandOf(e)' = found[e]
      BY <1>2, <1>3, <3>1
    <3>3. \A e \in Entry : HandOf(e) = "none"
      BY <1>2, <2>1 DEF CallbackInv, OneTickPerProcess
    <3>4. hand' = found /\ hand = [e \in Entry |-> "none"]
      BY <3>2, <3>3 DEF hand
    <3> QED
      BY <2>1, <3>4 DEF hand, WorkerStep, Worker!Next, Worker!Find, Worker!Empty
  <2> QED
    BY <1>4, <2>2, <2>3 DEF FindExpired
<1>5. ASSUME NEW e \in Entry, NEW v \in {"none", "called"},
             work' = [work EXCEPT ![t][e] = v]
      PROVE  hand' = [hand EXCEPT ![e] = v] /\ hand[e] = work[t][e]
  <2>1. /\ work' \in [Tick -> [Entry -> {"none", "found", "called"}]]
        /\ \A u \in Tick, f \in Entry :
             work'[u][f] = IF u = t /\ f = e THEN v ELSE work[u][f]
    BY <1>5, WorkUpdate DEF CallbackInv, TypeOK
  <2>2. \A f \in Entry : HandOf(f)' = IF f = e THEN v ELSE HandOf(f)
    BY <1>2, <1>3, <2>1
  <2> QED
    BY <1>2, <2>2 DEF hand
<1>6. ASSUME NEW e \in Entry, SendTimeoutCallback(t, e) PROVE WorkerStep
  <2>1. hand[e] = "found" /\ hand' = [hand EXCEPT ![e] = "called"]
    BY <1>5, <1>6 DEF SendTimeoutCallback
  <2>2. calls[e] = 0
    BY <1>6 DEF SendTimeoutCallback, CallbackInv, CallIsPending
  <2>3. calls' \in {calls, [calls EXCEPT ![e] = 1]} /\ UNCHANGED <<entry, disturbed>>
    BY <1>6, <2>2 DEF SendTimeoutCallback
  <2>4. Worker!Notify(e)
    BY <2>1, <2>2, <2>3 DEF hand, Worker!Notify
  <2> QED
    BY <2>4 DEF WorkerStep, Worker!Next
<1>7. ASSUME NEW e \in Entry, RemoveEntry(t, e) PROVE WorkerStep
  <2>1. hand[e] = "called" /\ hand' = [hand EXCEPT ![e] = "none"]
    BY <1>5, <1>7 DEF RemoveEntry
  <2>2. Worker!Remove(e)
    BY <1>7, <2>1 DEF hand, RemoveEntry, Worker!Remove
  <2> QED
    BY <2>2 DEF WorkerStep, Worker!Next
<1> QED
  BY <1>4, <1>6, <1>7

\* A process that dies undisturbed has nothing in hand, or only found it.
LEMMA CrashIsWorker ==
  ASSUME Sound, CallbackInv, NEW i \in Instance, Crash(i), ~disturbed'
  PROVE  WorkerStep
<1>1. /\ ~disturbed /\ UNCHANGED <<entry, calls, disturbed>>
      /\ \A t \in Tick : work'[t] = IF HostOf[t] = i THEN Idle ELSE work[t]
      /\ \A t \in Tick, e \in Entry : HostOf[t] = i => work[t][e] # "called"
  BY DEF Crash, CallbackInv, TypeOK
<1>2. CASE \A t \in Tick, e \in Entry : HostOf[t] = i => work[t][e] = "none"
  <2>1. \A t \in Tick, e \in Entry : work'[t][e] = work[t][e]
    BY <1>1, <1>2 DEF Idle
  <2>2. hand' = hand
    BY <2>1 DEF hand, HandOf
  <2> QED
    BY <1>1, <2>2 DEF hand, WorkerStep, Worker!wvars
<1>3. ASSUME NEW t \in Tick, NEW f \in Entry, HostOf[t] = i, work[t][f] # "none"
      PROVE  WorkerStep
  <2>1. pc[t] \in {"locked", "processing"}
    BY <1>3 DEF CallbackInv, OneTickPerProcess
  <2>2. \A e \in Entry : /\ HandOf(e) = work[t][e]
                         /\ \A u \in Tick : u # t => work[u][e] = "none"
    BY <1>1, <2>1, HandOfTick
  <2>3. \A u \in Tick, e \in Entry : work'[u][e] = "none"
    BY <1>1, <1>3, <2>2 DEF Idle
  <2>4. hand' = [e \in Entry |-> "none"] /\ \A e \in Entry : hand[e] # "called"
    BY <1>1, <1>3, <2>2, <2>3 DEF hand, HandOf
  <2> QED
    BY <1>1, <2>4 DEF hand, WorkerStep, Worker!Next, Worker!Abandon, Worker!Empty
<1> QED
  BY <1>2, <1>3

\* Every step of the processes is one of the worker or a stutter.
LEMMA WorkerSimulation ==
  ASSUME Sound, CallbackInv, FoundExpired, [Next]_vars
  PROVE  WorkerStep
<1>1. ASSUME NEW e \in Entry, Expire(e) \/ CloseEntry(e) PROVE WorkerStep
  <2>1. hand' = hand /\ UNCHANGED <<calls, disturbed>>
    BY <1>1 DEF Expire, CloseEntry, hand, HandOf
  <2>2. Worker!Move(e, {"live"}, "expired") \/ Worker!Move(e, {"live", "expired"}, "gone")
    BY <1>1, <2>1 DEF Expire, CloseEntry, CallbackInv, TypeOK, hand, Worker!Move
  <2> QED
    BY <2>2 DEF WorkerStep, Worker!Next
<1>2. ASSUME NEW t \in Tick,
             \/ FindExpired(t)
             \/ \E e \in Entry : SendTimeoutCallback(t, e) \/ RemoveEntry(t, e)
      PROVE  WorkerStep
  <2>1. CASE ~disturbed
    BY <1>2, <2>1, TickIsWorker
  <2>2. CASE disturbed
    <3>1. disturbed'
      BY <1>2, <2>2 DEF FindExpired, SendTimeoutCallback, RemoveEntry
    <3>2. ASSUME NEW e \in Entry
          PROVE  /\ entry'[e] # entry[e] => entry[e] # "live" /\ entry'[e] = "gone"
                 /\ calls'[e] # calls[e] => entry[e] # "live" /\ calls'[e] \in {1, 2}
      BY <1>2 DEF FindExpired, SendTimeoutCallback, RemoveEntry, FoundExpired,
                  CallbackInv, TypeOK
    <3> QED
      BY <3>1, <3>2, WorkerOverlaps
  <2> QED
    BY <2>1, <2>2
<1>3. ASSUME NEW t \in Tick,
             StartTick(t) \/ AcquireLock(t) \/ FinishProcessing(t) \/ ReleaseLock(t)
      PROVE  WorkerStep
  BY <1>3, WorkerIdles DEF StartTick, AcquireLock, FinishProcessing, ReleaseLock
<1>4. ASSUME NEW i \in Instance, StopJob(i) PROVE WorkerStep
  BY <1>4, WorkerIdles DEF StopJob
<1>5. ASSUME NEW i \in Instance, StopReleasesLock(i) PROVE WorkerStep
  <2>1. UNCHANGED <<work, entry, calls>> /\ (disturbed' \/ UNCHANGED disturbed)
    BY <1>5 DEF StopReleasesLock, AtWork, CallbackInv, TypeOK
  <2> QED
    BY <2>1, WorkerIdles, WorkerOverlaps
<1>6. ASSUME NEW i \in Instance, Crash(i) PROVE WorkerStep
  <2>1. UNCHANGED <<entry, calls>>
    BY <1>6 DEF Crash
  <2> QED
    BY <1>6, <2>1, CrashIsWorker, WorkerOverlaps
<1>7. ASSUME LockExpires PROVE WorkerStep
  <2>1. UNCHANGED <<work, entry, calls>> /\ (disturbed' \/ UNCHANGED disturbed)
    BY <1>7 DEF LockExpires, AtWork, CallbackInv, TypeOK
  <2> QED
    BY <2>1, WorkerIdles, WorkerOverlaps
<1>8. CASE UNCHANGED vars
  BY <1>8, WorkerIdles DEF vars
<1> QED
  BY <1>1, <1>2, <1>3, <1>4, <1>5, <1>6, <1>7, <1>8 DEF Next, TickStep

\* Any number of processes with the lock, or one without it, work off the
\* expired entries like a single worker until they are disturbed.
THEOREM TicksImplementWorker == ASSUME Sound PROVE Spec => KeepsWorker
<1>1. Init => Worker!Init /\ FoundExpired
  BY DEF Init, Idle, Worker!Init, Worker!Empty, HandOf, FoundExpired
<1>2. CallbackInv /\ FoundExpired /\ [Next]_vars => FoundExpired'
  BY FoundExpiredNext DEF CallbackInv
<1>3. CallbackInv /\ FoundExpired /\ [Next]_vars => [Worker!Next]_(Worker!wvars)
  BY WorkerSimulation DEF WorkerStep
<1> QED
  BY <1>1, <1>2, <1>3, CallbackInvariant, PTL DEF Spec, KeepsWorker, Worker!Spec
=============================================================================
