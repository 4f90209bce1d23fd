------------------------ MODULE LookupVerdict_proofs ------------------------
(***************************************************************************)
(* InterSchemeDiscovery implements LookupVerdict for requesters with one   *)
(* lookup of the party at a time, whatever the sets of requesters, proxies *)
(* and lookups and whatever fails.                                         *)
(*                                                                         *)
(* Every step of a handler changes the phase of one lookup (PhaseMoves),   *)
(* the timeout of one lookup (TimeoutMoves) or the outcome of one proxy    *)
(* (OutcomeMoves), or is a stutter.                                        *)
(***************************************************************************)
EXTENDS InterSchemeDiscovery_proofs

SamePhases   == \A m \in Lookup : PhaseOf(m)' = PhaseOf(m)
SameTimeouts == \A m \in Lookup : TimeoutOf(m)' = TimeoutOf(m)
SameOutcomes == \A m \in Lookup, q \in Proxy : OutcomeOf(m, q)' = OutcomeOf(m, q)

VerdictStep == [Verdict!Next]_(Verdict!vvars)

\* A step that changes no phase, timeout or outcome is a stutter.
LEMMA Stutters ==
  ASSUME SamePhases, SameTimeouts, SameOutcomes
  PROVE  VerdictStep
<1>1. [l \in Lookup |-> PhaseOf(l)]' = [l \in Lookup |-> PhaseOf(l)]
  BY DEF SamePhases
<1>2. [l \in Lookup |-> TimeoutOf(l)]' = [l \in Lookup |-> TimeoutOf(l)]
  BY DEF SameTimeouts
<1>3. [l \in Lookup |-> [p \in Proxy |-> OutcomeOf(l, p)]]'
        = [l \in Lookup |-> [p \in Proxy |-> OutcomeOf(l, p)]]
  BY DEF SameOutcomes
<1> QED
  BY <1>1, <1>2, <1>3 DEF VerdictStep, Verdict!vvars

\* The phases a lookup goes through, from one to the next.
PhaseMove(l) ==
  \/ PhaseOf(l) = "idle" /\ PhaseOf(l)' = "local"
  \/ PhaseOf(l) = "local" /\ PhaseOf(l)' \in {"asking", "failed"}
  \/ PhaseOf(l) = "asking" /\ PhaseOf(l)' = "failed"

\* A step that moves one lookup on to its next phase.
LEMMA PhaseMoves ==
  ASSUME NEW l \in Lookup, PhaseMove(l) \/ PhaseOf(l)' = PhaseOf(l),
         \A m \in Lookup \ {l} : PhaseOf(m)' = PhaseOf(m), SameTimeouts, SameOutcomes
  PROVE  VerdictStep
<1> DEFINE phase == [m \in Lookup |-> PhaseOf(m)]
           timeout == [m \in Lookup |-> TimeoutOf(m)]
           outcome == [m \in Lookup |-> [p \in Proxy |-> OutcomeOf(m, p)]]
<1>1. CASE PhaseOf(l)' = PhaseOf(l)
  BY <1>1, Stutters DEF SamePhases
<1>2. CASE PhaseMove(l)
  <2>1. outcome' = outcome /\ timeout' = timeout
    BY DEF SameOutcomes, SameTimeouts
  <2>2. phase' = [phase EXCEPT ![l] = PhaseOf(l)'] /\ phase[l] = PhaseOf(l)
    OBVIOUS
  <2>3. Verdict!Progress(l)
    BY <1>2, <2>1, <2>2 DEF PhaseMove, Verdict!Progress, Verdict!Advance
  <2> QED
    BY <2>3 DEF VerdictStep, Verdict!Next
<1> QED
  BY <1>1, <1>2

\* The time of a lookup runs out, and the timeout is dealt with.
TimeoutMove(l) ==
  \/ /\ TimeoutOf(l) = "none" /\ TimeoutOf(l)' = "due" /\ PhaseOf(l) = "asking"
     /\ \A p \in Proxy : OutcomeOf(l, p) # "final"
     /\ \E p \in Proxy : OutcomeOf(l, p) \in {"open", "lost"}
  \/ TimeoutOf(l) = "due" /\ TimeoutOf(l)' = "given"

\* A step that moves the timeout of one lookup.
LEMMA TimeoutMoves ==
  ASSUME NEW l \in Lookup, TimeoutMove(l) \/ TimeoutOf(l)' = TimeoutOf(l),
         \A m \in Lookup \ {l} : TimeoutOf(m)' = TimeoutOf(m), SamePhases, SameOutcomes
  PROVE  VerdictStep
<1> DEFINE phase == [m \in Lookup |-> PhaseOf(m)]
           timeout == [m \in Lookup |-> TimeoutOf(m)]
           outcome == [m \in Lookup |-> [p \in Proxy |-> OutcomeOf(m, p)]]
<1>1. CASE TimeoutOf(l)' = TimeoutOf(l)
  BY <1>1, Stutters DEF SameTimeouts
<1>2. CASE TimeoutMove(l)
  <2>1. outcome' = outcome /\ phase' = phase /\ phase[l] = PhaseOf(l)
    BY DEF SameOutcomes, SamePhases
  <2>2. /\ timeout' = [timeout EXCEPT ![l] = TimeoutOf(l)'] /\ timeout[l] = TimeoutOf(l)
        /\ \A p \in Proxy : outcome[l][p] = OutcomeOf(l, p)
    OBVIOUS
  <2>3. Verdict!FallDue(l) \/ Verdict!TimeOut(l)
    BY <1>2, <2>1, <2>2 DEF TimeoutMove, Verdict!FallDue, Verdict!TimeOut
  <2> QED
    BY <2>3 DEF VerdictStep, Verdict!Next
<1> QED
  BY <1>1, <1>2

\* What a proxy can contribute, given what the others have.
OutcomeMove(l, p) ==
  \/ /\ OutcomeOf(l, p)' = "found" /\ OutcomeOf(l, p) = "open"
     /\ PhaseOf(l) = "asking"
  \/ OutcomeOf(l, p)' = "missed" /\ OutcomeOf(l, p) = "open"
  \/ /\ OutcomeOf(l, p)' = "final" /\ OutcomeOf(l, p) \in {"open", "missed"}
     /\ PhaseOf(l) = "asking"
     /\ \A q \in Proxy \ {p} : OutcomeOf(l, q) \notin {"open", "found", "final"}
  \/ /\ OutcomeOf(l, p)' = "lateError" /\ OutcomeOf(l, p) \in {"open", "missed"}
     /\ OutcomeOf(l, p) = "open" => PhaseOf(l) # "asking" \/ TimeoutOf(l) = "given"
  \/ OutcomeOf(l, p)' = "lateFound" /\ OutcomeOf(l, p) \in {"open", "missed"}
  \/ /\ OutcomeOf(l, p)' = "lost"
     /\ OutcomeOf(l, p) \in {"open", "found", "missed", "final", "lateFound", "lateError"}

\* A step that settles the outcome of one proxy.
LEMMA OutcomeMoves ==
  ASSUME NEW l \in Lookup, NEW p \in Proxy,
         OutcomeMove(l, p) \/ OutcomeOf(l, p)' = OutcomeOf(l, p),
         SamePhases, SameTimeouts,
         \A m \in Lookup, q \in Proxy :
           m # l \/ q # p => OutcomeOf(m, q)' = OutcomeOf(m, q)
  PROVE  VerdictStep
<1> DEFINE phase == [m \in Lookup |-> PhaseOf(m)]
           timeout == [m \in Lookup |-> TimeoutOf(m)]
           outcome == [m \in Lookup |-> [q \in Proxy |-> OutcomeOf(m, q)]]
<1>1. CASE OutcomeOf(l, p)' = OutcomeOf(l, p)
  BY <1>1, Stutters DEF SameOutcomes
<1>2. CASE OutcomeMove(l, p)
  <2>1. /\ phase' = phase /\ phase[l] = PhaseOf(l)
        /\ timeout' = timeout /\ timeout[l] = TimeoutOf(l)
    BY DEF SamePhases, SameTimeouts
  <2>2. /\ outcome' = [outcome EXCEPT ![l][p] = OutcomeOf(l, p)']
        /\ \A q \in Proxy : outcome[l][q] = OutcomeOf(l, q)
    OBVIOUS
  <2>3. Verdict!Contribute(l, p)
    BY <1>2, <2>1, <2>2
    DEF OutcomeMove, Verdict!Contribute, Verdict!Find, Verdict!Finalize, Verdict!BeLate,
        Verdict!Settle, Verdict!Outcome
  <2> QED
    BY <2>3 DEF VerdictStep, Verdict!Next
<1> QED
  BY <1>1, <1>2

-----------------------------------------------------------------------------
(***************************************************************************)
(* The steps of the handlers.                                              *)
(***************************************************************************)
\* The outcome of a proxy depends on its answer and on a send written off.
LEMMA OutcomesFromState ==
  ASSUME NEW m \in Lookup, NEW q \in Proxy, put'[m][q] = put[m][q],
         send'[m][q] = "dropped" <=> send[m][q] = "dropped"
  PROVE  OutcomeOf(m, q)' = OutcomeOf(m, q)
BY DEF OutcomeOf

\* The phase of a lookup depends on its handler and on the entry it stored.
LEMMA PhasesFromState ==
  ASSUME NEW m \in Lookup, get'[m] = get[m], discovery'[m] = discovery[m]
  PROVE  PhaseOf(m)' = PhaseOf(m)
BY DEF PhaseOf

\* The timeout of a lookup depends on the job and on what became of the entry.
LEMMA TimeoutsFromState ==
  ASSUME UNCHANGED <<discovery, expiring>>
  PROVE  SameTimeouts
BY DEF SameTimeouts, TimeoutOf

\* The handler of a GET goes on without storing an entry.
LEMMA GetMoves ==
  ASSUME TypeInv, NEW l \in Lookup, NEW v \in GetPc, get' = [get EXCEPT ![l] = v],
         v # "idle", get[l] \notin Failed \/ v \in Failed,
         get[l] = "idle" => discovery[l] = "none" /\ v \notin Failed,
         UNCHANGED <<put, discovery, expiring>>,
         \A m \in Lookup, q \in Proxy :
           send'[m][q] = "dropped" <=> send[m][q] = "dropped"
  PROVE  VerdictStep
<1>1. SameOutcomes
  BY OutcomesFromState DEF SameOutcomes
<1>2. \A m \in Lookup \ {l} : PhaseOf(m)' = PhaseOf(m)
  BY PhasesFromState DEF TypeInv, TypeOK
<1>3. get'[l] = v /\ discovery'[l] = discovery[l]
  BY DEF TypeInv, TypeOK
<1>4. discovery[l] \in {"none", "stored", "timedOut", "untold"}
  BY DEF TypeInv, TypeOK
<1>5. PhaseMove(l) \/ PhaseOf(l)' = PhaseOf(l)
  BY <1>3, <1>4 DEF PhaseMove, PhaseOf
<1> QED
  BY <1>1, <1>2, <1>5, PhaseMoves, TimeoutsFromState

\* The send to one proxy goes on.
LEMMA SendMoves ==
  ASSUME TypeInv, NEW l \in Lookup, NEW p \in Proxy, NEW v \in SendPc,
         send' = [send EXCEPT ![l][p] = v], send[l][p] # "dropped",
         UNCHANGED <<get, put, discovery, expiring>>
  PROVE  VerdictStep
<1>1. \A m \in Lookup, q \in Proxy :
        send'[m][q] = IF m = l /\ q = p THEN v ELSE send[m][q]
  BY CellUpdate DEF TypeInv, TypeOK
<1>2. SamePhases
  BY PhasesFromState DEF SamePhases
<1>3. \A m \in Lookup, q \in Proxy :
        m # l \/ q # p => OutcomeOf(m, q)' = OutcomeOf(m, q)
  BY <1>1, OutcomesFromState
<1>4. OutcomeMove(l, p) \/ OutcomeOf(l, p)' = OutcomeOf(l, p)
  BY <1>1 DEF OutcomeMove, OutcomeOf, Counted, Stray, Uncounted
<1> QED
  BY <1>2, <1>3, <1>4, OutcomeMoves, TimeoutsFromState

\* The handling of one answer goes on.
LEMMA AnswerMoves ==
  ASSUME TypeInv, NEW l \in Lookup, NEW p \in Proxy, NEW v \in AnswerPc,
         put' = [put EXCEPT ![l][p] = v], UNCHANGED <<get, send, discovery, expiring>>,
         (put'[l][p] = v /\ send'[l][p] = send[l][p]) =>
           OutcomeMove(l, p) \/ OutcomeOf(l, p)' = OutcomeOf(l, p)
  PROVE  VerdictStep
<1>1. \A m \in Lookup, q \in Proxy :
        put'[m][q] = IF m = l /\ q = p THEN v ELSE put[m][q]
  BY CellUpdate DEF TypeInv, TypeOK
<1>2. SamePhases
  BY PhasesFromState DEF SamePhases
<1>3. \A m \in Lookup, q \in Proxy :
        m # l \/ q # p => OutcomeOf(m, q)' = OutcomeOf(m, q)
  BY <1>1, OutcomesFromState
<1>4. OutcomeMove(l, p) \/ OutcomeOf(l, p)' = OutcomeOf(l, p)
  BY <1>1
<1> QED
  BY <1>2, <1>3, <1>4, OutcomeMoves, TimeoutsFromState

\* Storing the entry begins to ask the proxies, who have contributed nothing.
LEMMA DiscoverMoves ==
  ASSUME OneLookupPerSource, TypeInv, JobOK, WaitingInv, NEW l \in Lookup, Discover(l)
  PROVE  VerdictStep
<1>1. CASE Proxy = {} \/ expiry[SourceOf[l]] # "none"
  <2>1. "failing" \in GetPc
    BY DEF GetPc
  <2>2. /\ get[l] = "discover" /\ get' = [get EXCEPT ![l] = "failing"]
        /\ UNCHANGED <<send, put, discovery, expiring>>
    BY <1>1 DEF Discover
  <2> QED
    BY <2>1, <2>2, GetMoves DEF Failed
<1>2. CASE ~(Proxy = {} \/ expiry[SourceOf[l]] # "none")
  <2>1. /\ get[l] = "discover" /\ get' = [get EXCEPT ![l] = "sending"]
        /\ send' = [send EXCEPT ![l] = [p \in Proxy |-> "flying"]]
        /\ discovery' = [discovery EXCEPT ![l] = "stored"]
        /\ UNCHANGED <<put, expiring>>
    BY <1>2 DEF Discover
  <2>2. discovery[l] = "none" /\ \A p \in Proxy : send[l][p] = "none"
    BY <2>1 DEF WaitingInv, LookupInv, NothingSent, Undecided
  <2>3. \A m \in Lookup, q \in Proxy :
          send'[m][q] = "dropped" <=> send[m][q] = "dropped"
    BY <2>1, <2>2 DEF TypeInv, TypeOK
  <2>4. SameOutcomes
    BY <2>1, <2>3, OutcomesFromState DEF SameOutcomes
  <2>5. \A m \in Lookup \ {l} : PhaseOf(m)' = PhaseOf(m)
    BY <2>1, PhasesFromState DEF TypeInv, TypeOK
  <2>6. get'[l] = "sending" /\ discovery'[l] = "stored"
    BY <2>1 DEF TypeInv, TypeOK
  <2>7. PhaseMove(l)
    BY <2>1, <2>2, <2>6 DEF PhaseMove, PhaseOf, Failed
  <2>8. expiring[SourceOf[l]] # l
    BY <2>2, LookupAssumption, NoneAssumption DEF JobOK
  <2>9. SameTimeouts
    BY <2>1, <2>2, <2>6, <2>8 DEF SameTimeouts, TimeoutOf, TypeInv, TypeOK
  <2> QED
    BY <2>4, <2>5, <2>7, <2>9, PhaseMoves
<1> QED
  BY <1>1, <1>2

-----------------------------------------------------------------------------
(***************************************************************************)
(* The answers of the proxies.                                             *)
(***************************************************************************)
\* A lookup whose entry waits for a proxy is asking it, and the proxy has
\* contributed nothing.
LEMMA ListedIsOpen ==
  ASSUME OneLookupPerSource, Inv, NEW l \in Lookup, NEW p \in Proxy,
         p \in pending[SourceOf[l]]
  PROVE  /\ PhaseOf(l) = "asking" /\ EntryOf(l)
         /\ send[l][p] # "dropped" /\ put[l][p] \in Awaited
<1>1. EntryOf(l) /\ send[l][p] # "dropped" /\ put[l][p] \in Awaited
  BY ListedIsOwn DEF Inv
<1>2. get[l] \in {"sending", "done"} /\ discovery[l] # "none"
  BY <1>1 DEF Inv, WaitingInv, LookupInv, EntryAlive
<1>3. PhaseOf(l) = "asking"
  BY <1>2 DEF PhaseOf, Failed
<1> QED
  BY <1>1, <1>3

\* A success is taken off the list, or it is late, or its sender is unknown.
LEMMA CountSuccessMoves ==
  ASSUME OneLookupPerSource, Inv, NEW l \in Lookup, NEW p \in Proxy,
         CountSuccess(l, p)
  PROVE  VerdictStep
<1>1. put[l][p] = "okIn" /\ UNCHANGED <<get, send, discovery, expiring>>
  BY DEF CountSuccess, getVars
<1>2. CASE p \in pending[SourceOf[l]] /\ put' = [put EXCEPT ![l][p] = "okCounted"]
  <2>1. PhaseOf(l) = "asking" /\ send[l][p] # "dropped"
    BY <1>2, ListedIsOpen
  <2>2. "okCounted" \in AnswerPc
    BY DEF AnswerPc
  <2>3. ASSUME put'[l][p] = "okCounted" PROVE OutcomeMove(l, p)
    BY <1>1, <2>1, <2>3 DEF OutcomeMove, OutcomeOf, Counted, Stray, Uncounted
  <2> QED
    BY <1>1, <1>2, <2>2, <2>3, AnswerMoves DEF Inv
<1>3. CASE \E v \in {"okLate", "returned"} : put' = [put EXCEPT ![l][p] = v]
  <2>1. PICK v \in {"okLate", "returned"} : put' = [put EXCEPT ![l][p] = v]
    BY <1>3
  <2>2. v \in AnswerPc
    BY DEF AnswerPc
  <2>3. ASSUME put'[l][p] = v PROVE OutcomeMove(l, p)
    BY <1>1, <2>3 DEF OutcomeMove, OutcomeOf, Counted, Stray, Uncounted
  <2> QED
    BY <1>1, <2>1, <2>2, <2>3, AnswerMoves DEF Inv
<1> QED
  BY <1>2, <1>3 DEF CountSuccess

\* An error that is not awaited is late: a proxy still open is not asked.
LEMMA CheckPendingMoves ==
  ASSUME OneLookupPerSource, Inv, NEW l \in Lookup, NEW p \in Proxy,
         CheckPending(l, p)
  PROVE  VerdictStep
<1>1. put[l][p] = "errIn" /\ UNCHANGED <<get, send, discovery, expiring>>
  BY DEF CheckPending, getVars
<1>2. CASE p \in pending[SourceOf[l]]
  <2>1. put' = [put EXCEPT ![l][p] = "errPending"] /\ "errPending" \in AnswerPc
    BY <1>2 DEF CheckPending, AnswerPc
  <2>2. ASSUME put'[l][p] = "errPending", send'[l][p] = send[l][p]
        PROVE  OutcomeOf(l, p)' = OutcomeOf(l, p)
    BY <1>1, <2>2 DEF OutcomeOf, Counted, Stray, Uncounted
  <2> QED
    BY <1>1, <2>1, <2>2, AnswerMoves DEF Inv
<1>3. CASE p \notin pending[SourceOf[l]]
  <2>1. put' = [put EXCEPT ![l][p] = "errStray"] /\ "errStray" \in AnswerPc
    BY <1>3 DEF CheckPending, AnswerPc
  <2>2. discovery[l] = "stored" => send[l][p] = "dropped"
    BY <1>1, <1>3 DEF Inv, Verdicts, VerdictInv, UncountedDropped, Uncounted, Expecting
  <2>3. PhaseOf(l) = "asking" /\ TimeoutOf(l) # "given" => discovery[l] = "stored"
    BY DEF PhaseOf, TimeoutOf, Inv, TypeInv, TypeOK
  <2>4. ASSUME put'[l][p] = "errStray" PROVE OutcomeMove(l, p)
    BY <1>1, <2>2, <2>3, <2>4 DEF OutcomeMove, OutcomeOf, Counted, Stray, Uncounted
  <2> QED
    BY <1>1, <2>1, <2>4, AnswerMoves DEF Inv
<1> QED
  BY <1>2, <1>3

\* The error of the last proxy is the verdict only when no other proxy may
\* still find the party; any other error is kept back.
LEMMA CountErrorMoves ==
  ASSUME OneLookupPerSource, Inv, NEW l \in Lookup, NEW p \in Proxy,
         CountError(l, p)
  PROVE  VerdictStep
<1>1. put[l][p] = "errPending" /\ UNCHANGED <<get, send, discovery, expiring>>
  BY DEF CountError, getVars
<1>2. CASE IsLastWithoutSuccess(SourceOf[l], p)
  <2>1. put' = [put EXCEPT ![l][p] = "errLast"] /\ "errLast" \in AnswerPc
    BY <1>2 DEF CountError, AnswerPc
  <2>2. pending[SourceOf[l]] = {p} /\ ~hasSuccess[SourceOf[l]]
    BY <1>2 DEF IsLastWithoutSuccess
  <2>3. /\ PhaseOf(l) = "asking" /\ EntryOf(l)
        /\ send[l][p] # "dropped"
    BY <2>2, ListedIsOpen
  <2>4. ASSUME NEW q \in Proxy \ {p}
        PROVE  OutcomeOf(l, q) \notin {"open", "found", "final"}
    <3>1. Spent(l, q)
      BY <2>2, <2>3 DEF Inv, Verdicts, VerdictInv, RestSpent
    <3>2. ~Spent(l, p)
      BY <1>1, <2>3 DEF Spent
    <3>3. put[l][q] \notin {"errLast", "lastErr"}
      BY <3>2 DEF Inv, Verdicts, VerdictInv, LastErrorFinal
    <3>4. put[l][q] \in AnswerPc
      BY DEF Inv, TypeInv, TypeOK
    <3> QED
      BY <3>1, <3>3, <3>4 DEF Spent, OutcomeOf, AnswerPc, Counted, Stray, Uncounted
  <2>5. ASSUME put'[l][p] = "errLast" PROVE OutcomeMove(l, p)
    BY <1>1, <2>3, <2>4, <2>5 DEF OutcomeMove, OutcomeOf, Counted, Stray, Uncounted
  <2> QED
    BY <1>1, <2>1, <2>5, AnswerMoves DEF Inv
<1>3. CASE ~IsLastWithoutSuccess(SourceOf[l], p)
  <2>1. put' = [put EXCEPT ![l][p] = "absorbed"] /\ "absorbed" \in AnswerPc
    BY <1>3 DEF CountError, AnswerPc
  <2>2. ASSUME put'[l][p] = "absorbed"
        PROVE  OutcomeMove(l, p) \/ OutcomeOf(l, p)' = OutcomeOf(l, p)
    BY <1>1, <2>2 DEF OutcomeMove, OutcomeOf, Counted, Stray, Uncounted
  <2> QED
    BY <1>1, <2>1, <2>2, AnswerMoves DEF Inv
<1> QED
  BY <1>2, <1>3

\* The rest of the handling of an answer, which keeps its outcome or loses it.
LEMMA ForwardMoves ==
  ASSUME TypeInv, NEW l \in Lookup, NEW p \in Proxy,
         \/ ReachProxy(l, p) \/ Answer(l, p) \/ PostMapping(l, p)
         \/ ForwardSuccess(l, p) \/ CheckOracle(l, p) \/ CleanupOracle(l, p)
         \/ ForwardError(l, p)
  PROVE  VerdictStep
<1>1. UNCHANGED <<get, send, discovery, expiring>>
  BY DEF ReachProxy, Answer, PostMapping, ForwardSuccess, CheckOracle, CleanupOracle,
         ForwardError, getVars
<1>2. PICK v \in AnswerPc :
        /\ put' = [put EXCEPT ![l][p] = v]
        /\ \/ <<put[l][p], v>> \in
                {<<"none", "asked">>, <<"asked", "okIn">>, <<"asked", "errIn">>,
                 <<"okCounted", "okMapped">>, <<"okMapped", "found">>,
                 <<"okLate", "lateOk">>, <<"errStray", "errLate">>,
                 <<"errStray", "errClean">>, <<"errClean", "errCleaned">>,
                 <<"errLast", "lastErr">>, <<"errLate", "lateErr">>,
                 <<"errCleaned", "lateErr">>}
           \/ /\ v = "returned"
              /\ put[l][p] \in {"okCounted", "okMapped", "okLate", "errStray",
                                "errClean", "errLast", "errLate", "errCleaned"}
  BY DEF ReachProxy, Answer, PostMapping, ForwardSuccess, CheckOracle, CleanupOracle,
         ForwardError, AnswerPc
<1>3. ASSUME put'[l][p] = v, send'[l][p] = send[l][p]
      PROVE  OutcomeMove(l, p) \/ OutcomeOf(l, p)' = OutcomeOf(l, p)
  BY <1>2, <1>3 DEF OutcomeMove, OutcomeOf, Counted, Stray, Uncounted
<1> QED
  BY <1>1, <1>2, <1>3, AnswerMoves

(***************************************************************************)
(* The expiry job.                                                         *)
(***************************************************************************)
\* The job finds the entry of a lookup that still waits for a proxy: its time
\* has run out.
LEMMA FindExpiredMoves ==
  ASSUME OneLookupPerSource, Inv, NEW s \in Dfsp, FindExpired(s)
  PROVE  VerdictStep
<1>1. /\ UNCHANGED <<get, send, put, discovery>>
      /\ expiry[s] # "none" /\ expiring[s] = None
      /\ expiring' = [expiring EXCEPT ![s] = owner[s]]
  BY DEF FindExpired, getVars
<1>2. PICK l \in Lookup : l = owner[s] /\ SourceOf[l] = s /\ EntryOf(l)
  BY <1>1 DEF Inv, TypeInv, OwnerOK, EntryOf
<1>3. PhaseOf(l) = "asking" /\ discovery[l] # "none"
  BY <1>2 DEF Inv, WaitingInv, LookupInv, EntryAlive, PhaseOf, Failed
<1>4. PICK p \in Proxy : p \in pending[s]
  BY <1>1 DEF Inv, TypeInv, TypeOK, WaitingInv, EntryWaits
<1>5. OutcomeOf(l, p) \in {"open", "lost"}
  BY <1>2, <1>4, ListedIsOwn
     DEF Inv, OutcomeOf, Awaited, Uncounted, Counted, Stray
<1>6. \A q \in Proxy : OutcomeOf(l, q) # "final"
  BY <1>2, EntryHoldsErrors DEF OutcomeOf, LastError
<1>7. expiring[SourceOf[l]] # l /\ expiring'[SourceOf[l]] = l
  BY <1>1, <1>2, NoneAssumption DEF Inv, TypeInv, TypeOK
<1>8. discovery[l] \in {"stored", "timedOut", "untold"}
  BY <1>3 DEF Inv, TypeInv, TypeOK
<1>9. TimeoutMove(l) \/ TimeoutOf(l)' = TimeoutOf(l)
  BY <1>1, <1>3, <1>5, <1>6, <1>7, <1>8 DEF TimeoutMove, TimeoutOf
<1>10. \A m \in Lookup \ {l} : TimeoutOf(m)' = TimeoutOf(m)
  BY <1>1, <1>2, LookupAssumption DEF TimeoutOf, OneLookupPerSource, Inv, TypeInv, TypeOK
<1>11. SamePhases /\ SameOutcomes
  BY <1>1, PhasesFromState, OutcomesFromState DEF SamePhases, SameOutcomes
<1> QED
  BY <1>9, <1>10, <1>11, TimeoutMoves

\* The timeout callback is sent, or fails, for the lookup whose time is due.
LEMMA TimeoutCallbackMoves ==
  ASSUME OneLookupPerSource, Inv, NEW s \in Dfsp, SendTimeoutCallback(s)
  PROVE  VerdictStep
<1>1. /\ UNCHANGED <<get, send, put, expiring>>
      /\ expiring[s] # None /\ discovery[expiring[s]] = "stored"
      /\ \E v \in {"timedOut", "untold"} :
           discovery' = [discovery EXCEPT ![expiring[s]] = v]
  BY DEF SendTimeoutCallback, getVars
<1>2. PICK l \in Lookup : l = expiring[s] /\ SourceOf[l] = s
  BY <1>1 DEF Inv, JobOK
<1>3. /\ discovery[l] = "stored" /\ discovery'[l] \in {"timedOut", "untold"}
      /\ \A m \in Lookup \ {l} : discovery'[m] = discovery[m]
  BY <1>1, <1>2 DEF Inv, TypeInv, TypeOK
<1>4. TimeoutMove(l)
  BY <1>2, <1>3 DEF TimeoutMove, TimeoutOf
<1>5. \A m \in Lookup \ {l} : TimeoutOf(m)' = TimeoutOf(m)
  BY <1>1, <1>3 DEF TimeoutOf
<1>6. SamePhases
  BY <1>1, <1>3 DEF SamePhases, PhaseOf
<1>7. SameOutcomes
  BY <1>1, OutcomesFromState DEF SameOutcomes
<1> QED
  BY <1>2, <1>4, <1>5, <1>6, <1>7, TimeoutMoves

\* The job leaves an entry only when the timeout was dealt with.
LEMMA RemoveExpiredMoves ==
  ASSUME OneLookupPerSource, Inv, NEW s \in Dfsp, RemoveExpired(s)
  PROVE  VerdictStep
<1>1. /\ UNCHANGED <<get, send, put, discovery>>
      /\ expiring[s] # None /\ discovery[expiring[s]] # "stored"
      /\ expiring' = [expiring EXCEPT ![s] = None]
  BY DEF RemoveExpired, getVars
<1>2. SameTimeouts
  BY <1>1, LookupAssumption, NoneAssumption
     DEF SameTimeouts, TimeoutOf, Inv, TypeInv, TypeOK
<1>3. SamePhases /\ SameOutcomes
  BY <1>1, PhasesFromState, OutcomesFromState DEF SamePhases, SameOutcomes
<1> QED
  BY <1>2, <1>3, Stutters

\* Every step of InterSchemeDiscovery is one of LookupVerdict or a stutter.
LEMMA StepSimulation ==
  ASSUME OneLookupPerSource, Inv, [Next]_vars
  PROVE  VerdictStep
<1>0. ASSUME UNCHANGED <<get, send, put, discovery, expiring>> PROVE VerdictStep
  <2>1. SamePhases
    BY <1>0, PhasesFromState DEF SamePhases
  <2>2. SameOutcomes
    BY <1>0, OutcomesFromState DEF SameOutcomes
  <2> QED
    BY <1>0, <2>1, <2>2, Stutters, TimeoutsFromState
<1>1. ASSUME NEW l \in Lookup,
             \/ ReceiveLookup(l) \/ ConsultOracle(l) \/ DropReference(l)
             \/ ConcludeDiscovery(l) \/ ReportFailure(l)
             \/ \E p \in Proxy : ConcludeDirect(l, p)
      PROVE  VerdictStep
  <2>1. /\ \E v \in GetPc :
             /\ get' = [get EXCEPT ![l] = v] /\ v # "idle"
             /\ get[l] \notin Failed \/ v \in Failed
             /\ get[l] = "idle" => v \notin Failed
        /\ UNCHANGED <<put, discovery, expiring>>
    BY <1>1 DEF ReceiveLookup, ConsultOracle, DropReference, ConcludeDiscovery,
                ReportFailure, ConcludeDirect, GetPc, Failed
  <2>2. get[l] = "idle" => discovery[l] = "none"
    BY DEF Inv, WaitingInv, LookupInv, NothingSent, Undecided
  <2>3. UNCHANGED send \/ ConsultOracle(l)
    BY <1>1 DEF ReceiveLookup, DropReference, ConcludeDiscovery, ReportFailure,
                ConcludeDirect
  <2>4. \A m \in Lookup, q \in Proxy :
          send'[m][q] = "dropped" <=> send[m][q] = "dropped"
    <3>1. CASE ConsultOracle(l)
      <4>1. \A q \in Proxy : send[l][q] = "none"
        BY <3>1 DEF ConsultOracle, Inv, WaitingInv, LookupInv, NothingSent, Undecided
      <4>2. CASE mapping # None /\ send' = [send EXCEPT ![l][mapping] = "flying"]
        <5>1. mapping \in Proxy
          BY <4>2 DEF Inv, TypeInv, TypeOK
        <5>2. \A m \in Lookup, q \in Proxy :
                send'[m][q] = IF m = l /\ q = mapping THEN "flying" ELSE send[m][q]
          BY <4>2, <5>1, CellUpdate DEF Inv, TypeInv, TypeOK, SendPc
        <5> QED
          BY <4>1, <5>1, <5>2
      <4> QED
        BY <3>1, <4>2 DEF ConsultOracle
    <3> QED
      BY <2>3, <3>1
  <2> QED
    BY <2>1, <2>2, <2>4, GetMoves DEF Inv
<1>2. ASSUME NEW l \in Lookup, NEW p \in Proxy,
             SendSucceeds(l, p) \/ SendFails(l, p) \/ RemoveFailedProxy(l, p)
      PROVE  VerdictStep
  <2>1. /\ UNCHANGED <<get, put, discovery, expiring>> /\ send[l][p] # "dropped"
        /\ \E v \in SendPc : send' = [send EXCEPT ![l][p] = v]
    BY <1>2 DEF SendSucceeds, SendFails, RemoveFailedProxy, SendPc
  <2> QED
    BY <2>1, SendMoves DEF Inv
<1>3. ASSUME NEW s \in Dfsp, Expire(s) PROVE VerdictStep
  BY <1>3, <1>0 DEF Expire, getVars
<1>4. CASE UNCHANGED vars
  BY <1>4, <1>0 DEF vars
<1>5. ASSUME NEW l \in Lookup, NEW p \in Proxy,
             \/ ReachProxy(l, p) \/ Answer(l, p) \/ PostMapping(l, p)
             \/ ForwardSuccess(l, p) \/ CheckOracle(l, p) \/ CleanupOracle(l, p)
             \/ ForwardError(l, p)
      PROVE  VerdictStep
  BY <1>5, ForwardMoves DEF Inv
<1>6. ASSUME NEW l \in Lookup, Discover(l) PROVE VerdictStep
  BY <1>6, DiscoverMoves DEF Inv
<1>7. ASSUME NEW l \in Lookup, NEW p \in Proxy,
             CountSuccess(l, p) \/ CheckPending(l, p) \/ CountError(l, p)
      PROVE  VerdictStep
  BY <1>7, CountSuccessMoves, CheckPendingMoves, CountErrorMoves
<1>8. ASSUME NEW s \in Dfsp,
             FindExpired(s) \/ SendTimeoutCallback(s) \/ RemoveExpired(s)
      PROVE  VerdictStep
  BY <1>8, FindExpiredMoves, TimeoutCallbackMoves, RemoveExpiredMoves
<1> QED
  BY <1>1, <1>2, <1>3, <1>4, <1>5, <1>6, <1>7, <1>8, StepOfAHandler

\* The initial states of InterSchemeDiscovery are initial in LookupVerdict.
LEMMA InitSimulation == Init => Verdict!Init
BY DEF Init, Verdict!Init, PhaseOf, TimeoutOf, Failed, OutcomeOf, Counted, Stray, Uncounted

\* The handlers, the proxy cache and the expiry job together give a requester
\* with one lookup of the party at a time the verdicts of LookupVerdict.
THEOREM DiscoveryImplementsVerdict ==
  ASSUME OneLookupPerSource PROVE Spec => KeepsVerdict
<1>1. Inv /\ [Next]_vars => [Verdict!Next]_(Verdict!vvars)
  BY StepSimulation DEF VerdictStep
<1> QED
  BY <1>1, InitSimulation, SoleLookupInvariant, PTL DEF Spec, KeepsVerdict, Verdict!Spec
=============================================================================
