--------------------------- MODULE TimeoutHandler ---------------------------
(***************************************************************************)
(* The job that calls requesters back about expired cache entries, run by  *)
(* the cron of every instance of the timeout handler.  A tick is skipped   *)
(* while the previous one of the same process is running (isRunning), and  *)
(* across processes a lock with a time to live is meant to keep the ticks  *)
(* apart (createDistLock), when it is enabled.                             *)
(***************************************************************************)
EXTENDS Naturals

CONSTANTS
  Instance,     \* processes running the timeout handler
  Tick,         \* ticks that may be under way at the same time
  HostOf,       \* the process of each tick
  Entry,        \* entries of the proxy cache
  LockEnabled,  \* HANDLERS_TIMEOUT.DIST_LOCK.enabled
  Disturbances, \* what may go wrong
  None          \* no holder

ASSUME HostAssumption == HostOf \in [Tick -> Instance]
ASSUME LockAssumption == LockEnabled \in BOOLEAN
ASSUME DisturbanceAssumption ==
  Disturbances \subseteq {"ttl", "stop", "crash", "callback", "lock", "cache"}
ASSUME NoneAssumption == None \notin Instance

VARIABLES
  job,        \* job[i]: the cron job is on, being stopped, off, or has crashed
  isRunning,  \* isRunning[i]: the variable of the module in process i
  pc,         \* pc[t]: where timeout() of tick t stands
  work,       \* work[t][e]: what tick t has done about expired entry e
  lock,       \* the process that holds mutex:als-timeout-handler
  entry,      \* entry[e]: not yet expired, expired, or removed by job or answer
  calls,      \* calls[e]: timeout callbacks about e, 2 standing for more
  disturbed   \* history: a tick lost its lock or died over a called entry

vars == <<job, isRunning, pc, work, lock, entry, calls, disturbed>>

TypeOK ==
  /\ job \in [Instance -> {"on", "stopping", "off", "crashed"}]
  /\ isRunning \in [Instance -> BOOLEAN]
  /\ pc \in [Tick -> {"idle", "acquiring", "locked", "processing", "releasing"}]
  /\ work \in [Tick -> [Entry -> {"none", "found", "called"}]]
  /\ lock \in Instance \cup {None}
  /\ entry \in [Entry -> {"live", "expired", "gone"}]
  /\ calls \in [Entry -> 0..2]
  /\ disturbed \in BOOLEAN

Idle == [e \in Entry |-> "none"]

Init ==
  /\ job = [i \in Instance |-> "on"]
  /\ isRunning = [i \in Instance |-> FALSE]
  /\ pc = [t \in Tick |-> "idle"]
  /\ work = [t \in Tick |-> Idle]
  /\ lock = None
  /\ entry = [e \in Entry |-> "live"]
  /\ calls = [e \in Entry |-> 0]
  /\ disturbed = FALSE

\* Instance i is at work on expired entries.
AtWork(i) == \E t \in Tick : HostOf[t] = i /\ pc[t] \in {"locked", "processing"}

-----------------------------------------------------------------------------
\* PROXY_CACHE_EXPIRES_IN_SEC passes for an entry.
Expire(e) ==
  /\ entry[e] = "live"
  /\ entry' = [entry EXCEPT ![e] = "expired"]
  /\ UNCHANGED <<job, isRunning, pc, work, lock, calls, disturbed>>

\* The last answer to a lookup removes its entry, whatever the job is doing.
CloseEntry(e) ==
  /\ entry[e] # "gone"
  /\ entry' = [entry EXCEPT ![e] = "gone"]
  /\ UNCHANGED <<job, isRunning, pc, work, lock, calls, disturbed>>

\* Mutant: the tick does not look at isRunning.
StartTickAlways(t) ==
  /\ pc[t] = "idle" /\ job[HostOf[t]] = "on"
  /\ isRunning' = [isRunning EXCEPT ![HostOf[t]] = TRUE]
  /\ pc' = [pc EXCEPT ![t] = "acquiring"]
  /\ UNCHANGED <<job, work, lock, entry, calls, disturbed>>

\* The cron fires; timeout() returns at once if isRunning.
StartTick(t) ==
  /\ pc[t] = "idle" /\ job[HostOf[t]] = "on"
  /\ ~isRunning[HostOf[t]]
  /\ isRunning' = [isRunning EXCEPT ![HostOf[t]] = TRUE]
  /\ pc' = [pc EXCEPT ![t] = "acquiring"]
  /\ UNCHANGED <<job, work, lock, entry, calls, disturbed>>

\* Mutant: the lock names the tick instead of the process that holds it.
AcquiredByTick(t) ==
  /\ pc' = [pc EXCEPT ![t] = "locked"]
  /\ lock' = IF LockEnabled THEN t ELSE lock
  /\ UNCHANGED isRunning

Acquired(t) ==
  /\ pc' = [pc EXCEPT ![t] = "locked"]
  /\ lock' = IF LockEnabled THEN HostOf[t] ELSE lock
  /\ UNCHANGED isRunning

\* Not acquired: timeout() returns through finally, which resets isRunning and
\* releases nothing, also when the lock was taken but the answer was lost.
NotAcquired(t) ==
  /\ pc' = [pc EXCEPT ![t] = "idle"]
  /\ isRunning' = [isRunning EXCEPT ![HostOf[t]] = FALSE]
  /\ \/ UNCHANGED lock
     \/ "lock" \in Disturbances /\ lock = None /\ lock' = HostOf[t]

\* Mutants: an acquisition that fails counts as success; a tick that did not
\* get the lock returns without the reset.
AcquireRegardless(t) ==
  /\ pc[t] = "acquiring" /\ job[HostOf[t]] # "crashed"
  /\ Acquired(t)
  /\ UNCHANGED <<job, work, entry, calls, disturbed>>
AcquireWithoutReset(t) ==
  /\ pc[t] = "acquiring" /\ job[HostOf[t]] # "crashed"
  /\ \/ (LockEnabled => lock = None) /\ Acquired(t)
     \/ /\ LockEnabled /\ lock # None
        /\ pc' = [pc EXCEPT ![t] = "idle"]
        /\ UNCHANGED <<isRunning, lock>>
  /\ UNCHANGED <<job, work, entry, calls, disturbed>>

\* acquireLock: true without a lock; false when the lock is held elsewhere
\* until the acquire timeout, or when acquiring it fails.
AcquireLock(t) ==
  /\ pc[t] = "acquiring" /\ job[HostOf[t]] # "crashed"
  /\ \/ (LockEnabled => lock = None) /\ Acquired(t)
     \/ LockEnabled /\ (lock # None \/ "lock" \in Disturbances) /\ NotAcquired(t)
  /\ UNCHANGED <<job, work, entry, calls, disturbed>>

\* processExpiredAlsKeys reads the keys whose expiry time has passed, or fails:
\* the catch-branch of timeout() leads to finally as well.
FindExpired(t) ==
  /\ pc[t] = "locked" /\ job[HostOf[t]] # "crashed"
  /\ \/ /\ pc' = [pc EXCEPT ![t] = "processing"]
        /\ work' = [work EXCEPT ![t] =
             [e \in Entry |-> IF entry[e] = "expired" THEN "found" ELSE "none"]]
     \/ /\ "cache" \in Disturbances
        /\ pc' = [pc EXCEPT ![t] = "releasing"]
        /\ UNCHANGED work
  /\ UNCHANGED <<job, isRunning, lock, entry, calls, disturbed>>

\* sendTimeoutCallback for one key.
SendTimeoutCallback(t, e) ==
  /\ work[t][e] = "found" /\ job[HostOf[t]] # "crashed"
  /\ work' = [work EXCEPT ![t][e] = "called"]
  /\ \/ calls' = [calls EXCEPT ![e] = IF @ = 0 THEN 1 ELSE 2]
     \/ "callback" \in Disturbances /\ UNCHANGED calls
  /\ UNCHANGED <<job, isRunning, pc, lock, entry, disturbed>>

\* The key and its expiry record are deleted once its callback has settled.
RemoveEntry(t, e) ==
  /\ work[t][e] = "called" /\ job[HostOf[t]] # "crashed"
  /\ work' = [work EXCEPT ![t][e] = "none"]
  /\ entry' = [entry EXCEPT ![e] = "gone"]
  /\ UNCHANGED <<job, isRunning, pc, lock, calls, disturbed>>

FinishProcessing(t) ==
  /\ pc[t] = "processing" /\ work[t] = Idle /\ job[HostOf[t]] # "crashed"
  /\ pc' = [pc EXCEPT ![t] = "releasing"]
  /\ UNCHANGED <<job, isRunning, work, lock, entry, calls, disturbed>>

\* releaseLock deletes the lock only if this process still holds it.
Release(i) == lock' = IF lock = i THEN None ELSE lock

\* Mutant: the lock is released but isRunning stays set.
KeepRunning(t) ==
  /\ pc[t] = "releasing" /\ job[HostOf[t]] # "crashed"
  /\ Release(HostOf[t])
  /\ pc' = [pc EXCEPT ![t] = "idle"]
  /\ UNCHANGED <<job, isRunning, work, entry, calls, disturbed>>

\* The finally-branch of timeout(); an error in releasing is only logged.
ReleaseLock(t) ==
  /\ pc[t] = "releasing" /\ job[HostOf[t]] # "crashed"
  /\ \/ Release(HostOf[t])
     \/ "lock" \in Disturbances /\ UNCHANGED lock
  /\ isRunning' = [isRunning EXCEPT ![HostOf[t]] = FALSE]
  /\ pc' = [pc EXCEPT ![t] = "idle"]
  /\ UNCHANGED <<job, work, entry, calls, disturbed>>

-----------------------------------------------------------------------------
OthersOn(i) == \E j \in Instance \ {i} : job[j] = "on"

\* stop(): the cron job first, which does not wait for a tick under way.
StopJob(i) ==
  /\ "stop" \in Disturbances /\ OthersOn(i)
  /\ job[i] = "on"
  /\ job' = [job EXCEPT ![i] = "stopping"]
  /\ UNCHANGED <<isRunning, pc, work, lock, entry, calls, disturbed>>

\* stop(): then the lock, even under a tick that is still at work; an error in
\* releasing is only logged here as well.
StopReleasesLock(i) ==
  /\ job[i] = "stopping"
  /\ job' = [job EXCEPT ![i] = "off"]
  /\ \/ Release(i) /\ disturbed' = (disturbed \/ (lock = i /\ AtWork(i)))
     \/ "lock" \in Disturbances /\ UNCHANGED <<lock, disturbed>>
  /\ UNCHANGED <<isRunning, pc, work, entry, calls>>

\* The process dies; its lock stays until its time to live ends.
Crash(i) ==
  /\ "crash" \in Disturbances /\ OthersOn(i)
  /\ job[i] # "crashed"
  /\ job' = [job EXCEPT ![i] = "crashed"]
  /\ pc' = [t \in Tick |-> IF HostOf[t] = i THEN "idle" ELSE pc[t]]
  /\ work' = [t \in Tick |-> IF HostOf[t] = i THEN Idle ELSE work[t]]
  /\ disturbed' = (disturbed \/ \E t \in Tick, e \in Entry :
                                  HostOf[t] = i /\ work[t][e] = "called")
  /\ UNCHANGED <<isRunning, lock, entry, calls>>

\* lockTimeout passes, for a dead holder, for one that takes longer and for a
\* lock that could not be released.
LockExpires ==
  /\ lock # None
  /\ {"ttl", "lock"} \cap Disturbances # {} \/ job[lock] = "crashed"
  /\ lock' = None
  /\ disturbed' = (disturbed \/ AtWork(lock))
  /\ UNCHANGED <<job, isRunning, pc, work, entry, calls>>

-----------------------------------------------------------------------------
TickStep(t) ==
  \/ AcquireLock(t) \/ FindExpired(t) \/ FinishProcessing(t) \/ ReleaseLock(t)
  \/ \E e \in Entry : SendTimeoutCallback(t, e) \/ RemoveEntry(t, e)

Next ==
  \/ \E e \in Entry : Expire(e) \/ CloseEntry(e)
  \/ \E t \in Tick : StartTick(t) \/ TickStep(t)
  \/ \E i \in Instance : StopJob(i) \/ StopReleasesLock(i) \/ Crash(i)
  \/ LockExpires

Spec == Init /\ [][Next]_vars

\* The cron fires again and again in every process whose job is on, what a
\* tick awaits settles, and a lock whose holder died runs out.  The lock and
\* the cache do not fail every time they are asked.
Fairness ==
  /\ \A t \in Tick : WF_vars(StartTick(t)) /\ WF_vars(TickStep(t))
  /\ SF_vars(\E t \in Tick : AcquireLock(t) /\ pc'[t] = "locked")
  /\ SF_vars(\E t \in Tick : FindExpired(t) /\ pc'[t] = "processing")
  /\ \A i \in Instance : WF_vars(StopReleasesLock(i))
  /\ WF_vars(LockExpires)

FairSpec == Spec /\ Fairness
-----------------------------------------------------------------------------
\* An expired lookup is reported to its requester once, however many ticks
\* and processes there are, unless a tick lost its lock at work or died
\* between the callback and the removal of the entry.
OneCallbackPerEntry == ~disturbed => \A e \in Entry : calls[e] <= 1

\* Two ticks are at work at once only after a tick lost its lock.
OneTickAtWork ==
  ~disturbed => \A t, u \in Tick :
    pc[t] \in {"locked", "processing"} /\ pc[u] \in {"locked", "processing"} => t = u

(***************************************************************************)
(* The inductive invariant behind the two.                                 *)
(***************************************************************************)
\* isRunning admits one tick per process; only a tick at work has keys.
OneTickPerProcess ==
  /\ \A t \in Tick : pc[t] # "idle" => isRunning[HostOf[t]]
  /\ \A t, u \in Tick : pc[t] # "idle" /\ pc[u] # "idle" /\ HostOf[t] = HostOf[u] => t = u
  /\ \A t \in Tick, e \in Entry : work[t][e] # "none" => pc[t] = "processing"

LockHeldAtWork == LockEnabled =>
  \A t \in Tick : pc[t] \in {"locked", "processing"} => lock = HostOf[t]

\* A tick has only expired entries in hand, those it has found uncalled, and a
\* callback is followed by removal.
CallIsPending ==
  /\ \A t \in Tick, e \in Entry : work[t][e] # "none" => entry[e] # "live"
  /\ \A t \in Tick, e \in Entry : work[t][e] = "found" => calls[e] = 0
  /\ \A e \in Entry :
       \/ calls[e] = 0
       \/ calls[e] = 1 /\ (entry[e] = "gone" \/ \E t \in Tick : work[t][e] = "called")

\* While isRunning is set, a tick is on its way to reset it: no path through
\* timeout() leaves it set, which would stop the job of the process for good.
RunningHasTick == \A i \in Instance : isRunning[i] /\ job[i] # "crashed" =>
  \E t \in Tick : HostOf[t] = i /\ pc[t] # "idle"

CallbackInv == /\ TypeOK /\ OneTickPerProcess
               /\ ~disturbed => LockHeldAtWork /\ CallIsPending

\* Every expired entry is removed, whatever happens to all processes but one.
ExpiredIsRemoved == \A e \in Entry : entry[e] = "expired" ~> entry[e] = "gone"

\* Nothing a tick waits for keeps isRunning set for ever.
IsRunningIsReset ==
  \A i \in Instance : isRunning[i] ~> ~isRunning[i] \/ job[i] = "crashed"
-----------------------------------------------------------------------------
\* All ticks of all processes taken for one worker: what it has in hand.
HandOf(e) ==
  CASE \E t \in Tick : work[t][e] = "called" -> "called"
    [] \E t \in Tick : work[t][e] # "none" /\ \A u \in Tick : work[u][e] # "called" -> "found"
    [] OTHER -> "none"

Worker == INSTANCE ExpiryWorker WITH hand <- [e \in Entry |-> HandOf(e)]

\* However many processes tick, they do what a single worker would, until one
\* loses its lock or dies over an entry it has just called back about.
KeepsWorker == Worker!Spec
=============================================================================
