------------------------ MODULE PartyRouting_proofs -------------------------
(***************************************************************************)
(* What PartyRouting guarantees for every number of participants, proxies  *)
(* and requests, whatever fails and whatever others do to the oracle and   *)
(* to the proxy cache meanwhile.                                           *)
(***************************************************************************)
EXTENDS PartyRouting, TLAPS

-----------------------------------------------------------------------------
(***************************************************************************)
(* The inductive invariant, request by request.                            *)
(***************************************************************************)
GetPc == {"requester", "dest", "validate", "oracle", "branches", "discover",
          "resolution", "deny", "discovery"}
PutPc == {"source", "count", "post", "pending", "external", "cleanup",
          "identify", "reply", "absorbed"}

\* The request a step works on.
Called(r) ==
  /\ pc[r] = "idle" => lost[r] = {}
  /\ pc[r] # "idle" =>
       /\ call[r] \in Call
       /\ call[r].op # "GET" => call[r].dest \in Dfsp
       /\ call[r].op = "GET" /\ pc[r] # "refused" => call[r].source \in Local
  /\ pc[r] \in GetPc => call[r].op = "GET"
  /\ pc[r] \in PutPc => call[r].op # "GET"
  /\ pc[r] \in {"dest", "validate"} => call[r].dest \in Dfsp

\* In whose name a lookup proceeds, and to whom a callback goes.
ForSource == {"dest", "validate", "oracle", "branches", "discover", "report", "deny"}

Named(r) ==
  /\ pc[r] \in ForSource \cup {"reply"} => requester[r] \in Actor
  /\ "ledger" \notin lost[r] =>
       /\ pc[r] \in ForSource /\ call[r].source \in Local => requester[r] = call[r].source
       /\ pc[r] = "reply" /\ call[r].dest \in Local => requester[r] = call[r].dest

\* Before a lookup has owners to deal with, nothing is done about any, and
\* nobody is called back.
Opening == {"idle", "requester", "dest", "validate", "oracle"}
Early == {"idle", "refused", "requester", "dest", "validate", "oracle"} \cup PutPc

Untouched(r) ==
  /\ pc[r] \in Early => \A f \in Dfsp : task[r][f] = "none"
  /\ pc[r] \in Opening => ToldOf(r) = {}

\* A lookup that is not served, or was answered, has dealt with all owners
\* and sent nothing, or one of its calls failed.
Unserved == {"discover", "discovery", "deny", "resolution", "failing", "report", "mute"}

Settled(r) ==
  pc[r] \in Unserved \/ ToldOf(r) # {}
  => \/ \E f \in Dfsp : task[r][f] = "failed"
     \/ \A f \in Dfsp : task[r][f] \in {"none", "skipped"}

\* Why the lookup may be forwarded to sendTo[r][f]: the oracle named f as an
\* owner, or f is the destination and nothing else is under way.
Behalf(r, f) ==
  \/ f \in read[r]
  \/ /\ pc[r] = "branches"
     /\ \A g \in Dfsp \ {f} : task[r][g] = "none"
     /\ sendTo[r][f] \in Local => requester[r] = call[r].source

Forwarding(r) == \A f \in Dfsp :
  /\ task[r][f] = "check" => f \in read[r]
  /\ task[r][f] = "forward" =>
       /\ sendTo[r][f] \in {f} \cup Proxy
       /\ "ledger" \notin lost[r] /\ f \in Local => sendTo[r][f] = f
       /\ Behalf(r, f)

\* What the tasks say about the lookups that reached somebody.
Reached(r) ==
  /\ SentOf(r) # {} => \E f \in Dfsp : task[r][f] \in {"sent", "failed"}
  /\ (\E f \in Dfsp : task[r][f] = "sent") => SentOf(r) # {}

Promises(r) == Heard(r) /\ OwnerNamedTo(r) /\ Direct(r)

RequestInv(r) ==
  /\ Called(r) /\ Named(r) /\ Untouched(r) /\ Settled(r)
  /\ Forwarding(r) /\ Reached(r) /\ Promises(r)

PartyInv == TypeOK /\ (\A r \in Request : RequestInv(r)) /\ OnlyExternalsMapped

-----------------------------------------------------------------------------
(***************************************************************************)
(* Steps of one request leave the others alone.                            *)
(***************************************************************************)
Same(s) ==
  /\ pc'[s] = pc[s] /\ call'[s] = call[s] /\ requester'[s] = requester[s]
  /\ task'[s] = task[s] /\ sendTo'[s] = sendTo[s] /\ read'[s] = read[s]
  /\ lost'[s] = lost[s] /\ SentOf(s)' = SentOf(s) /\ ToldOf(s)' = ToldOf(s)

\* What a step of r does to everybody else, and to the proxy cache.
Only(r) ==
  /\ \A s \in Request \ {r} : Same(s)
  /\ lost[r] \subseteq lost'[r]
  /\ pc[r] = "idle" \/ call'[r] = call[r]
  /\ \A l \in Local : via'[l] = via[l] \/ ("ledger" \in lost'[r] /\ call'[r].source = l)

\* A request nothing happens to keeps its invariant.
LEMMA SameKeeps ==
  ASSUME NEW s \in Request, RequestInv(s), Same(s)
  PROVE  RequestInv(s)'
<1> USE DEF Same
<1>1. Called(s)' /\ Named(s)'
  BY DEF RequestInv, Called, Named
<1>2. Untouched(s)' /\ Settled(s)' /\ Reached(s)'
  BY DEF RequestInv, Untouched, Settled, Reached
<1>3. Forwarding(s)'
  BY DEF RequestInv, Forwarding, Behalf
<1>4. Promises(s)'
  BY DEF RequestInv, Promises, Heard, OwnerNamedTo, Direct
<1> QED
  BY <1>1, <1>2, <1>3, <1>4 DEF RequestInv

\* So it is enough to look at the request that moves.
LEMMA OnlyKeeps ==
  ASSUME PartyInv, NEW r \in Request, Only(r), TypeOK', RequestInv(r)'
  PROVE  PartyInv'
<1>1. \A s \in Request : RequestInv(s)'
  BY SameKeeps DEF PartyInv, Only
<1>2. OnlyExternalsMapped'
  <2> SUFFICES ASSUME NEW l \in Local, via'[l] # None
               PROVE  \E s \in Request : "ledger" \in lost'[s] /\ call'[s].source = l
    BY DEF OnlyExternalsMapped
  <2>1. CASE via'[l] = via[l]
    <3>1. PICK s \in Request : "ledger" \in lost[s] /\ call[s].source = l
      BY <2>1 DEF PartyInv, OnlyExternalsMapped
    <3>2. s = r => pc[r] # "idle"
      BY <3>1 DEF PartyInv, RequestInv, Called
    <3> QED
      BY <3>1, <3>2 DEF Only, Same
  <2> QED
    BY <2>1 DEF Only
<1> QED
  BY <1>1, <1>2 DEF PartyInv

\* Every initial state satisfies the invariant.
LEMMA PartyInit == Init => PartyInv
<1> SUFFICES ASSUME Init PROVE PartyInv
  OBVIOUS
<1>1. TypeOK
  BY DEF Init, TypeOK, Pc, Task
<1>2. ASSUME NEW r \in Request PROVE RequestInv(r)
  <2>1. /\ pc[r] = "idle" /\ lost[r] = {} /\ \A f \in Dfsp : task[r][f] = "none"
        /\ SentOf(r) = {} /\ ToldOf(r) = {}
    BY DEF Init, SentOf, ToldOf
  <2>2. Called(r) /\ Named(r) /\ Untouched(r) /\ Settled(r) /\ Forwarding(r) /\ Reached(r)
    BY <2>1 DEF Called, Named, Untouched, Settled, Forwarding, Reached,
                GetPc, PutPc, ForSource, Unserved
  <2>3. Promises(r)
    BY <2>1 DEF Promises, Heard, OwnerNamedTo, Direct
  <2> QED
    BY <2>2, <2>3 DEF RequestInv
<1>3. OnlyExternalsMapped
  BY DEF Init, OnlyExternalsMapped, Dfsp
<1> QED
  BY <1>1, <1>2, <1>3 DEF PartyInv

\* The ledger: a participant of the scheme is denied by a failure only.
LEMMA LedgerFacts ==
  ASSUME TypeOK, NEW r \in Request, NEW f, NEW known \in BOOLEAN,
         LedgerSays(r, f, known)
  PROVE  /\ lost' \in [Request -> SUBSET {"ledger", "callback"}]
         /\ \A s \in Request \ {r} : lost'[s] = lost[s]
         /\ lost[r] \subseteq lost'[r]
         /\ known => InScheme(f)
         /\ ~known /\ InScheme(f) => "ledger" \in lost'[r]
BY DEF LedgerSays, TypeOK

\* Moving on keeps the program counters typed.
LEMMA GotoFacts ==
  ASSUME TypeOK, NEW r \in Request, NEW step \in Pc, Goto(r, step)
  PROVE  /\ pc' \in [Request -> Pc] /\ pc'[r] = step
         /\ \A s \in Request \ {r} : pc'[s] = pc[s]
BY DEF TypeOK, Goto

\* A request that is accepted keeps the invariant.
LEMMA AcceptKeeps ==
  ASSUME PartyInv, NEW r \in Request, Accept(r)
  PROVE  PartyInv'
<1> USE DEF PartyInv
<1>1. PICK c \in Call, step \in {"requester", "source", "identify", "pending", "failing", "refused"} :
        /\ Begin(r, c) /\ Goto(r, step)
        /\ c.op # "GET" => c.dest \in Dfsp
        /\ step = "requester" => c.op = "GET"
        /\ step \in {"source", "identify", "pending"} => c.op # "GET"
        /\ \/ UNCHANGED lost /\ c.op # "GET"
           \/ LedgerSays(r, c.source, TRUE) /\ c.op = "GET"
           \/ LedgerSays(r, c.source, FALSE) /\ c.op = "GET" /\ step = "refused"
  <2>1. CASE \E n \in Part : Lookup(r, n)
    <3>1. PICK s \in Dfsp, d \in Dfsp \cup {None}, p \in Proxy \cup {None}, n \in Part :
            /\ Begin(r, [op |-> "GET", source |-> s, dest |-> d, proxy |-> p, sub |-> n])
            /\ \/ LedgerSays(r, s, TRUE) /\ Start(r, "requester")
               \/ LedgerSays(r, s, FALSE) /\ Goto(r, "refused")
      BY <2>1 DEF Lookup, ValidateSourceFspHeader
    <3> DEFINE c == [op |-> "GET", source |-> s, dest |-> d, proxy |-> p, sub |-> n]
    <3>2. c \in Call
      BY <3>1 DEF Call
    <3> QED
      BY <3>1, <3>2 DEF Start
  <2>2. CASE \E n \in Part : Found(r, n)
    <3>1. PICK s \in Dfsp, d \in Dfsp, p \in Proxy \cup {None}, n \in Part :
            /\ Begin(r, [op |-> "PUT", source |-> s, dest |-> d, proxy |-> p, sub |-> n])
            /\ Start(r, "source") /\ UNCHANGED lost
      BY <2>2 DEF Found
    <3> DEFINE c == [op |-> "PUT", source |-> s, dest |-> d, proxy |-> p, sub |-> n]
    <3>2. c \in Call
      BY <3>1 DEF Call
    <3> QED
      BY <3>1, <3>2 DEF Start
  <2>3. CASE AcceptError(r)
    <3>1. PICK s \in Dfsp, d \in Dfsp, p \in Proxy \cup {None}, n \in Part :
            /\ Begin(r, [op |-> "ERROR", source |-> s, dest |-> d, proxy |-> p, sub |-> n])
            /\ Start(r, IF p = None THEN "identify" ELSE "pending") /\ UNCHANGED lost
      BY <2>3 DEF AcceptError
    <3> DEFINE c == [op |-> "ERROR", source |-> s, dest |-> d, proxy |-> p, sub |-> n]
    <3>2. c \in Call
      BY <3>1 DEF Call
    <3> QED
      BY <3>1, <3>2 DEF Start
  <2> QED
    BY <2>1, <2>2, <2>3 DEF Accept, AcceptGet, AcceptPut, AcceptSubId, Part
<1>2. /\ lost' \in [Request -> SUBSET {"ledger", "callback"}]
      /\ \A s \in Request \ {r} : lost'[s] = lost[s]
      /\ lost[r] \subseteq lost'[r]
      /\ c.op = "GET" /\ step # "refused" => InScheme(c.source)
  BY <1>1, LedgerFacts DEF TypeOK
<1>3. /\ pc[r] = "idle" /\ call'[r] = c /\ call' \in [Request -> Call \cup {None}]
      /\ UNCHANGED <<refs, via, requester, task, sendTo, read, sent, told>>
      /\ \A s \in Request \ {r} : call'[s] = call[s]
  BY <1>1 DEF Begin, world, TypeOK
<1>4. /\ pc' \in [Request -> Pc] /\ pc'[r] = step
      /\ \A s \in Request \ {r} : pc'[s] = pc[s]
  BY <1>1, GotoFacts DEF Pc, Ends
<1>5. TypeOK'
  BY <1>2, <1>3, <1>4 DEF TypeOK
<1>6. SentOf(r)' = SentOf(r) /\ ToldOf(r)' = ToldOf(r) /\ Only(r)
  BY <1>2, <1>3, <1>4 DEF Only, Same, SentOf, ToldOf
<1>7. /\ \A f \in Dfsp : task[r][f] = "none"
      /\ SentOf(r) = {} /\ c.source \in Dfsp
  BY <1>3, <1>1 DEF RequestInv, Untouched, Early, Reached, Call
<1>8. RequestInv(r)'
  <2>1. Called(r)'
    BY <1>1, <1>2, <1>3, <1>4, <1>7, ActorAssumption
       DEF Called, InScheme, GetPc, PutPc, Dfsp
  <2>2. Named(r)' /\ Untouched(r)' /\ Settled(r)' /\ Forwarding(r)'
    BY <1>1, <1>3, <1>4, <1>6, <1>7
       DEF RequestInv, Named, Untouched, Settled, Forwarding, ForSource, Opening
  <2>3. Reached(r)' /\ Heard(r)' /\ OwnerNamedTo(r)'
    BY <1>3, <1>4, <1>6, <1>7 DEF Reached, Heard, OwnerNamedTo
  <2>4. Direct(r)'
    BY <1>2, <1>6 DEF RequestInv, Promises, Direct
  <2> QED
    BY <2>1, <2>2, <2>3, <2>4 DEF RequestInv, Promises
<1> QED
  BY <1>5, <1>6, <1>8, OnlyKeeps

-----------------------------------------------------------------------------
\* Where a handler may go without touching its data.
Moves(r) ==
  \/ pc[r] \in PutPc /\ pc'[r] \in (PutPc \ {"reply"}) \cup {"failing"}
  \/ pc[r] = "branches" /\ pc'[r] = "failing" /\ \E f \in Dfsp : task[r][f] = "failed"
  \/ /\ pc[r] = "branches" /\ pc'[r] \in {"done", "discover"}
     /\ \A f \in Dfsp : task[r][f] \in {"none", "sent", "skipped"}
     /\ pc'[r] = "done" <=> \E f \in Dfsp : task[r][f] = "sent"
  \/ pc[r] = "discover" /\ pc'[r] \in {"deny", "discovery", "failing"}

\* A handler that moves so keeps the invariant.
LEMMA MoveKeeps ==
  ASSUME PartyInv, NEW r \in Request, Moves(r), NEW step \in Pc, Goto(r, step),
         UNCHANGED <<handler, sent, told>>,
         lost' \in [Request -> SUBSET {"ledger", "callback"}],
         \A s \in Request \ {r} : lost'[s] = lost[s],
         lost[r] \subseteq lost'[r],
         refs' \subseteq Ref, via' \in [Dfsp -> Proxy \cup {None}],
         \A l \in Local : via'[l] = via[l] \/ ("ledger" \in lost'[r] /\ call[r].source = l)
  PROVE  PartyInv'
<1> USE DEF PartyInv
<1>1. /\ UNCHANGED <<call, requester, task, sendTo, read, sent, told>>
      /\ pc' \in [Request -> Pc] /\ \A s \in Request \ {r} : pc'[s] = pc[s]
  BY GotoFacts DEF handler
<1>2. TypeOK'
  BY <1>1 DEF TypeOK
<1>3. /\ \A s \in Request : SentOf(s)' = SentOf(s) /\ ToldOf(s)' = ToldOf(s)
      /\ Only(r)
  BY <1>1 DEF Only, Same, SentOf, ToldOf
<1>4. RequestInv(r)
  OBVIOUS
<1>5. Called(r)'
  BY <1>1, <1>4 DEF RequestInv, Called, Moves, PutPc, GetPc
<1>6. Named(r)'
  BY <1>1, <1>4 DEF RequestInv, Named, Moves, PutPc, ForSource
<1>7. Untouched(r)'
  BY <1>1, <1>3, <1>4 DEF RequestInv, Untouched, Moves, Early, Opening, PutPc
<1>8. Settled(r)'
  <2>1. pc[r] \in PutPc => \A f \in Dfsp : task[r][f] = "none"
    BY <1>4 DEF RequestInv, Untouched, Early
  <2> QED
    BY <1>1, <1>3, <1>4, <2>1 DEF RequestInv, Settled, Moves, Unserved, PutPc
<1>9. Forwarding(r)'
  <2>1. pc[r] \in PutPc => \A f \in Dfsp : task[r][f] = "none"
    BY <1>4 DEF RequestInv, Untouched, Early
  <2>2. ASSUME NEW f \in Dfsp, task[r][f] = "forward" PROVE Behalf(r, f)'
    <3>1. Behalf(r, f)
      BY <1>4, <2>2 DEF RequestInv, Forwarding
    <3>2. CASE f \in read[r]
      BY <1>1, <3>2 DEF Behalf
    <3>3. CASE f \notin read[r]
      BY <2>1, <2>2, <3>1, <3>3 DEF Behalf, Moves
    <3> QED
      BY <3>2, <3>3
  <2> QED
    BY <1>1, <1>4, <2>2 DEF RequestInv, Forwarding
<1>10. Reached(r)' /\ OwnerNamedTo(r)'
  BY <1>1, <1>3, <1>4 DEF RequestInv, Reached, Promises, OwnerNamedTo
<1>11. Heard(r)'
  BY <1>1, <1>3, <1>4 DEF RequestInv, Reached, Heard, Moves, PutPc
<1>12. Direct(r)'
  BY <1>3, <1>4 DEF RequestInv, Promises, Direct
<1>13. RequestInv(r)'
  BY <1>5, <1>6, <1>7, <1>8, <1>9, <1>10, <1>11, <1>12 DEF RequestInv, Promises
<1> QED
  BY <1>2, <1>3, <1>13, OnlyKeeps

\* The end of a lookup's owners, and the search for proxies to ask.
LEMMA ConcludeKeeps ==
  ASSUME PartyInv, NEW r \in Request, Conclude(r) \/ Discover(r)
  PROVE  PartyInv'
<1>1. /\ UNCHANGED <<refs, via, handler, sent, told, lost>>
      /\ Moves(r)
  <2>1. CASE Conclude(r)
    BY <2>1 DEF Conclude, Moves, Goto, world, history, PartyInv, TypeOK
  <2>2. CASE Discover(r)
    BY <2>2 DEF Discover, Moves, Goto, world, history, PartyInv, TypeOK
  <2> QED
    BY <2>1, <2>2
<1>2. PICK step \in Pc : Goto(r, step)
  BY DEF Conclude, Discover, Pc, Ends
<1> QED
  BY <1>1, <1>2, MoveKeeps DEF PartyInv, TypeOK

\* The answers of participants, up to their callback.
LEMMA PutKeeps ==
  ASSUME PartyInv, NEW r \in Request, PutStep(r)
  PROVE  PartyInv'
<1> USE DEF PartyInv
<1>1. /\ UNCHANGED <<handler, sent, told>>
      /\ pc[r] \in PutPc \ {"identify", "reply", "absorbed"}
      /\ \E step \in {"count", "identify", "failing", "post", "absorbed", "external",
                      "cleanup"} : Goto(r, step)
  BY DEF PutStep, ValidateSource, CountSuccess, PostMapping, CountError, CheckExternal,
         CleanupOracle, PutPc, history
<1>2. PICK step \in (PutPc \ {"reply"}) \cup {"failing"} : Goto(r, step)
  BY <1>1 DEF PutPc
<1>3. step \in Pc /\ Moves(r)
  BY <1>1, <1>2 DEF Pc, Ends, PutPc, Moves, Goto, TypeOK
<1>4. call[r] \in Call /\ call[r].op # "GET" /\ call[r].source \in Dfsp /\ call[r].dest \in Dfsp
  BY <1>1 DEF RequestInv, Called, PutPc, Call
<1>5. /\ lost' \in [Request -> SUBSET {"ledger", "callback"}]
      /\ \A s \in Request \ {r} : lost'[s] = lost[s]
      /\ lost[r] \subseteq lost'[r]
  BY LedgerFacts DEF PutStep, ValidateSource, CountSuccess, PostMapping, CountError,
     CheckExternal, CleanupOracle, history, TypeOK
<1>6. refs' \subseteq Ref
  <2>1. CASE PostMapping(r)
    BY <1>4, <2>1 DEF PostMapping, TypeOK, Ref, Call, history
  <2>2. CASE CleanupOracle(r)
    BY <2>2 DEF CleanupOracle, Deleted, DeletionFails, TypeOK
  <2> QED
    BY <2>1, <2>2 DEF PutStep, ValidateSource, CountSuccess, CountError, CheckExternal,
       world, TypeOK
<1>7. /\ via' \in [Dfsp -> Proxy \cup {None}]
      /\ \A l \in Local : via'[l] = via[l] \/ ("ledger" \in lost'[r] /\ call[r].source = l)
  <2>1. CASE ValidateSource(r) /\ via' # via
    <3>1. /\ LedgerSays(r, call[r].source, FALSE) /\ MapTo(call[r].source, call[r].proxy)
          /\ call[r].proxy # None
      BY <2>1 DEF ValidateSource
    <3>2. InScheme(call[r].source) => "ledger" \in lost'[r]
      BY <3>1, LedgerFacts
    <3> QED
      BY <1>4, <3>1, <3>2 DEF MapTo, InScheme, TypeOK, Call, Dfsp
  <2>2. CASE via' = via
    BY <2>2 DEF TypeOK
  <2> QED
    BY <2>1, <2>2 DEF PutStep, ValidateSource, CountSuccess, PostMapping, CountError,
       CheckExternal, CleanupOracle, world
<1> QED
  BY <1>1, <1>2, <1>3, <1>5, <1>6, <1>7, MoveKeeps

-----------------------------------------------------------------------------
\* The name a lookup proceeds in.
LEMMA RequesterKeeps ==
  ASSUME PartyInv, NEW r \in Request, ValidateRequester(r)
  PROVE  PartyInv'
<1> USE DEF PartyInv
<1>1. /\ UNCHANGED <<refs, call, task, sendTo, read, sent, told>>
      /\ pc[r] = "requester"
  BY DEF ValidateRequester
<1>2. /\ call[r] \in Call /\ call[r].op = "GET" /\ call[r].source \in Local
      /\ \A f \in Dfsp : task[r][f] = "none"
  BY <1>1 DEF RequestInv, Called, Untouched, Early, GetPc
<1>3. /\ lost' \in [Request -> SUBSET {"ledger", "callback"}]
      /\ \A s \in Request \ {r} : lost'[s] = lost[s]
      /\ lost[r] \subseteq lost'[r]
  BY LedgerFacts DEF ValidateRequester
<1>4. PICK step \in {"oracle", "dest", "failing"} :
        Goto(r, step) /\ (step = "dest" => call[r].dest # None)
  BY DEF ValidateRequester, ProceedAs
<1>5. /\ pc' \in [Request -> Pc] /\ pc'[r] = step
      /\ \A s \in Request \ {r} : pc'[s] = pc[s]
  BY <1>4, GotoFacts DEF Pc
<1>6. \/ requester' = [requester EXCEPT ![r] = call[r].source] /\ UNCHANGED via
      \/ /\ requester' = [requester EXCEPT ![r] = call[r].proxy]
         /\ MapTo(call[r].source, call[r].proxy)
         /\ call[r].proxy # None /\ "ledger" \in lost'[r]
      \/ UNCHANGED <<requester, via>> /\ step = "failing"
  BY <1>2, <1>4, <1>5, LedgerFacts DEF ValidateRequester, ProceedAs, InScheme, Goto, TypeOK
<1>7. /\ requester' \in [Request -> Actor \cup {None}]
      /\ \A s \in Request \ {r} : requester'[s] = requester[s]
      /\ step # "failing" => /\ requester'[r] \in Actor
                             /\ requester'[r] = call[r].source \/ "ledger" \in lost'[r]
  BY <1>2, <1>6 DEF TypeOK, Actor, Dfsp, Call
<1>8. /\ via' \in [Dfsp -> Proxy \cup {None}]
      /\ \A l \in Local : via'[l] = via[l] \/ ("ledger" \in lost'[r] /\ call[r].source = l)
  BY <1>2, <1>6 DEF MapTo, TypeOK, Dfsp, Call
<1>9. TypeOK'
  BY <1>1, <1>3, <1>5, <1>7, <1>8 DEF TypeOK
<1>10. SentOf(r)' = SentOf(r) /\ ToldOf(r)' = ToldOf(r) /\ Only(r)
  BY <1>1, <1>3, <1>5, <1>7, <1>8 DEF Only, Same, SentOf, ToldOf
<1>11. RequestInv(r)'
  <2>1. Called(r)' /\ Named(r)'
    BY <1>1, <1>2, <1>4, <1>5, <1>7 DEF Called, Named, GetPc, PutPc, ForSource, Call
  <2>2. Untouched(r)' /\ Settled(r)' /\ Forwarding(r)' /\ Reached(r)'
    BY <1>1, <1>2, <1>10 DEF RequestInv, Untouched, Settled, Forwarding, Reached, Opening
  <2>3. Heard(r)' /\ OwnerNamedTo(r)'
    BY <1>1, <1>5, <1>10 DEF RequestInv, Promises, Heard, OwnerNamedTo
  <2>4. Direct(r)'
    BY <1>3, <1>10 DEF RequestInv, Promises, Direct
  <2> QED
    BY <2>1, <2>2, <2>3, <2>4 DEF RequestInv, Promises
<1> QED
  BY <1>9, <1>10, <1>11, OnlyKeeps

\* The callbacks about to be made.
Callback == {"reply", "report", "deny"}

\* A request the receiver f of whose callback was looked up.
LEMMA IdentifiedKeeps ==
  ASSUME PartyInv, NEW r \in Request, NEW f, NEW step, Goto(r, step),
         UNCHANGED <<refs, via, call, task, sendTo, read, sent, told>>,
         \/ pc[r] = "identify" /\ f = call[r].dest /\ step \in {"reply", "failing"}
         \/ pc[r] = "failing" /\ f = call[r].source /\ step \in {"report", "mute"}
         \/ pc[r] = "resolution" /\ f = call[r].source /\ step \in {"deny", "failing"},
         \/ /\ step \in Callback
            /\ \E x \in Actor : ReachedAs(r, f, x) /\ requester' = [requester EXCEPT ![r] = x]
         \/ step \notin Callback /\ Unreachable(r, f) /\ UNCHANGED requester
  PROVE  PartyInv'
<1> USE DEF PartyInv, Callback
<1>1. pc[r] \in {"identify", "failing", "resolution"}
  OBVIOUS
<1>2. /\ call[r] \in Call /\ f \in Dfsp
      /\ pc[r] = "identify" => /\ call[r].op # "GET"
                               /\ \A g \in Dfsp : task[r][g] = "none"
      /\ pc[r] = "resolution" => call[r].op = "GET"
      /\ call[r].op = "GET" => call[r].source \in Local
  BY <1>1 DEF RequestInv, Called, Untouched, Early, PutPc, GetPc, Call
<1>4. step \in {"reply", "report", "deny", "mute", "failing"}
  OBVIOUS
<1>5. /\ pc' \in [Request -> Pc] /\ pc'[r] = step
      /\ \A s \in Request \ {r} : pc'[s] = pc[s]
  BY <1>4, GotoFacts DEF Pc, Ends
<1>6. /\ lost' \in [Request -> SUBSET {"ledger", "callback"}]
      /\ \A s \in Request \ {r} : lost'[s] = lost[s]
      /\ lost[r] \subseteq lost'[r]
  <2>1. CASE \E known \in BOOLEAN : LedgerSays(r, f, known)
    BY <2>1, LedgerFacts
  <2>2. CASE lost' = [lost EXCEPT ![r] = @ \cup {"callback"}]
    BY <2>2 DEF TypeOK
  <2> QED
    BY <2>1, <2>2 DEF ReachedAs, Unreachable
<1>7. /\ requester' \in [Request -> Actor \cup {None}]
      /\ \A s \in Request \ {r} : requester'[s] = requester[s]
      /\ step \in Callback =>
           /\ requester'[r] \in Actor
           /\ f \in Local /\ "ledger" \notin lost'[r] => requester'[r] = f
  <2>1. CASE step \in Callback
    <3>1. PICK x \in Actor :
            ReachedAs(r, f, x) /\ requester' = [requester EXCEPT ![r] = x]
      BY <2>1
    <3>2. f \in Local /\ "ledger" \notin lost'[r] => x = f
      BY <3>1, LedgerFacts DEF ReachedAs, InScheme
    <3> QED
      BY <3>1, <3>2 DEF TypeOK
  <2>2. CASE step \notin Callback
    BY <2>2 DEF TypeOK
  <2> QED
    BY <2>1, <2>2
<1>8. step = "mute" => lost'[r] # {} \/ f \in External
  BY <1>2, LedgerFacts DEF Unreachable, InScheme, Dfsp, TypeOK
<1>9. TypeOK'
  BY <1>1, <1>5, <1>6, <1>7 DEF TypeOK
<1>10. SentOf(r)' = SentOf(r) /\ ToldOf(r)' = ToldOf(r) /\ Only(r)
  BY <1>1, <1>5, <1>6, <1>7 DEF Only, Same, SentOf, ToldOf
<1>11. RequestInv(r)'
  <2>1. Called(r)' /\ Named(r)'
    BY <1>1, <1>2, <1>4, <1>5, <1>6, <1>7 DEF RequestInv, Called, Named, GetPc, PutPc, ForSource
  <2>2. Untouched(r)' /\ Reached(r)' /\ OwnerNamedTo(r)'
    BY <1>1, <1>2, <1>4, <1>5, <1>10
       DEF RequestInv, Promises, Untouched, Early, Opening, PutPc, Reached, OwnerNamedTo
  <2>3. Settled(r)'
    BY <1>1, <1>2, <1>4, <1>5, <1>10 DEF RequestInv, Settled, Unserved
  <2>4. Forwarding(r)'
    BY <1>1, <1>5, <1>6 DEF RequestInv, Forwarding, Behalf
  <2>5. Heard(r)'
    BY <1>1, <1>2, <1>4, <1>5, <1>8, ActorAssumption DEF Heard
  <2>6. Direct(r)'
    BY <1>6, <1>10 DEF RequestInv, Promises, Direct
  <2> QED
    BY <2>1, <2>2, <2>3, <2>4, <2>5, <2>6 DEF RequestInv, Promises
<1> QED
  BY <1>9, <1>10, <1>11, OnlyKeeps

\* Looking up whom a callback is for.
LEMMA IdentifyKeeps ==
  ASSUME PartyInv, NEW r \in Request,
         IdentifyDestination(r) \/ HandleError(r) \/ DenyDestination(r)
  PROVE  PartyInv'
<1>1. UNCHANGED <<refs, via, call, task, sendTo, read, sent, told>>
  BY DEF IdentifyDestination, HandleError, DenyDestination, IdentifySource, world
<1>2. CASE IdentifyDestination(r)
  BY <1>1, <1>2, IdentifiedKeeps DEF IdentifyDestination, Callback
<1>3. CASE HandleError(r)
  BY <1>1, <1>3, IdentifiedKeeps DEF HandleError, IdentifySource, Callback
<1>4. CASE DenyDestination(r)
  BY <1>1, <1>4, IdentifiedKeeps DEF DenyDestination, IdentifySource, Callback
<1> QED
  BY <1>2, <1>3, <1>4

-----------------------------------------------------------------------------
\* A callback that reached somebody or not.
LEMMA CallbackKeeps ==
  ASSUME PartyInv, NEW r \in Request, Reply(r) \/ ReportFailure(r)
  PROVE  PartyInv'
<1> USE DEF PartyInv
<1>1. UNCHANGED <<refs, via, call, requester, task, sendTo, read, sent>>
  BY DEF Reply, ReportFailure, world, handler
<1> DEFINE f == IF pc[r] = "reply" THEN call[r].dest ELSE call[r].source
           fails == IF pc[r] = "report" THEN "mute" ELSE "failing"
           verdict == IF pc[r] # "reply" THEN "failed"
                      ELSE IF call[r].op = "PUT" THEN "success" ELSE "error"
           m == [of |-> r, to |-> requester[r], dest |-> f, verdict |-> verdict]
<1>2. /\ pc[r] \in {"reply", "report", "deny"}
      /\ \/ /\ told' = told \cup {m} /\ pc' = [pc EXCEPT ![r] = "done"]
            /\ UNCHANGED lost
         \/ /\ told' \in {told, told \cup {m}} /\ pc' = [pc EXCEPT ![r] = fails]
            /\ lost' = [lost EXCEPT ![r] = @ \cup {"callback"}]
  <2>1. CASE Reply(r)
    BY <2>1 DEF Reply, Deliver, Goto
  <2>2. CASE ReportFailure(r)
    BY <2>2 DEF ReportFailure, Deliver, Goto
  <2> QED
    BY <2>1, <2>2
<1>3. /\ call[r] \in Call /\ f \in Dfsp
      /\ pc[r] = "reply" => call[r].op # "GET" /\ \A g \in Dfsp : task[r][g] = "none"
      /\ call[r].op = "GET" => call[r].source \in Local
      /\ requester[r] \in Actor
      /\ "ledger" \notin lost[r] /\ f \in Local => requester[r] = f
  BY <1>2 DEF RequestInv, Called, Named, Untouched, Early, PutPc, ForSource, Call
<1>4. PICK step \in {"done", fails} :
        /\ Goto(r, step)
        /\ step = "done" => told' = told \cup {m}
        /\ step # "done" => "callback" \in lost'[r]
        /\ told' \in {told, told \cup {m}}
        /\ lost' \in {lost, [lost EXCEPT ![r] = @ \cup {"callback"}]}
  BY <1>2 DEF Goto, TypeOK
<1>5. /\ pc' \in [Request -> Pc] /\ pc'[r] = step
      /\ \A s \in Request \ {r} : pc'[s] = pc[s]
  BY <1>4, GotoFacts DEF Pc, Ends
<1>6. /\ lost' \in [Request -> SUBSET {"ledger", "callback"}]
      /\ \A s \in Request \ {r} : lost'[s] = lost[s]
      /\ lost[r] \subseteq lost'[r] /\ lost'[r] \subseteq lost[r] \cup {"callback"}
  BY <1>4 DEF TypeOK
<1>7. TypeOK'
  <2>1. m \in [of : Request, to : Actor, dest : Dfsp, verdict : {"success", "error", "failed"}]
    BY <1>3
  <2> QED
    BY <1>1, <1>4, <1>5, <1>6, <2>1 DEF TypeOK
<1>8. /\ \A s \in Request : SentOf(s)' = SentOf(s)
      /\ \A s \in Request \ {r} : ToldOf(s)' = ToldOf(s)
      /\ ToldOf(r) \subseteq ToldOf(r)' /\ ToldOf(r)' \subseteq ToldOf(r) \cup {m}
      /\ step = "done" => ToldOf(r)' # {}
  <2>1. m.of = r
    OBVIOUS
  <2>2. CASE told' = told
    BY <1>1, <1>4, <2>1, <2>2 DEF SentOf, ToldOf
  <2>3. CASE told' = told \cup {m}
    <3>1. m \in told'
      BY <2>3
    <3> HIDE DEF m
    <3> QED
      BY <1>1, <2>1, <2>3, <3>1 DEF SentOf, ToldOf
  <2> QED
    BY <1>4, <2>2, <2>3
<1>9. Only(r)
  BY <1>1, <1>5, <1>6, <1>8 DEF Only, Same
<1>10. RequestInv(r)'
  <2>1. Called(r)' /\ Named(r)'
    BY <1>1, <1>2, <1>3, <1>5 DEF RequestInv, Called, Named, GetPc, PutPc, ForSource
  <2>2. Untouched(r)' /\ Reached(r)' /\ OwnerNamedTo(r)'
    BY <1>1, <1>2, <1>5, <1>8
       DEF RequestInv, Promises, Untouched, Early, Opening, PutPc, Reached, OwnerNamedTo
  <2>3. Settled(r)'
    BY <1>1, <1>2, <1>3 DEF RequestInv, Settled, Unserved
  <2>4. Forwarding(r)'
    BY <1>1, <1>2, <1>6 DEF RequestInv, Forwarding, Behalf
  <2>5. Heard(r)'
    BY <1>2, <1>4, <1>5, <1>8 DEF Heard
  <2>6. Direct(r)'
    <3>1. m.dest \in Local /\ "ledger" \notin lost'[r] => m.to = m.dest
      BY <1>3, <1>6
    <3> QED
      BY <1>6, <1>8, <3>1 DEF RequestInv, Promises, Direct
  <2> QED
    BY <2>1, <2>2, <2>3, <2>4, <2>5, <2>6 DEF RequestInv, Promises
<1> QED
  BY <1>7, <1>9, <1>10, OnlyKeeps

-----------------------------------------------------------------------------
\* A lookup that is to deal with its destination or with the owners listed.
LEMMA OwnersKeep ==
  ASSUME PartyInv, NEW r \in Request, pc[r] \in {"dest", "validate", "oracle"},
         NEW step \in {"branches", "validate", "resolution", "failing", "discover"},
         Goto(r, step), UNCHANGED <<refs, via, call, requester, sent, told>>,
         task' \in [Request -> [Dfsp -> Task]],
         sendTo' \in [Request -> [Dfsp -> Actor \cup {None}]],
         read' \in [Request -> SUBSET Dfsp],
         lost' \in [Request -> SUBSET {"ledger", "callback"}],
         lost[r] \subseteq lost'[r],
         \A s \in Request \ {r} : /\ task'[s] = task[s] /\ sendTo'[s] = sendTo[s]
                                  /\ read'[s] = read[s] /\ lost'[s] = lost[s],
         step = "validate" => pc[r] = "dest",
         step = "branches" \/ \A f \in Dfsp : task'[r][f] = "none",
         \A f \in Dfsp : task'[r][f] \in {"none", "check", "drop", "forward"},
         Forwarding(r)'
  PROVE  PartyInv'
<1> USE DEF PartyInv
<1>1. /\ call[r] \in Call /\ call[r].op = "GET" /\ call[r].source \in Local
      /\ \A f \in Dfsp : task[r][f] = "none"
      /\ pc[r] \in {"dest", "validate"} => call[r].dest \in Dfsp
      /\ requester[r] \in Actor
      /\ "ledger" \notin lost[r] => requester[r] = call[r].source
  BY DEF RequestInv, Called, Named, Untouched, Early, GetPc, ForSource
<1>2. SentOf(r) = {}
  BY <1>1 DEF RequestInv, Reached
<1>3. /\ pc' \in [Request -> Pc] /\ pc'[r] = step
      /\ \A s \in Request \ {r} : pc'[s] = pc[s]
  BY GotoFacts DEF Pc, Ends
<1>4. TypeOK'
  BY <1>3 DEF TypeOK
<1>5. SentOf(r)' = SentOf(r) /\ ToldOf(r)' = ToldOf(r) /\ Only(r)
  BY <1>3 DEF Only, Same, SentOf, ToldOf
<1>6. Called(r)' /\ Named(r)'
  BY <1>1, <1>3 DEF Called, Named, GetPc, PutPc, ForSource
<1>7. ToldOf(r) = {}
  BY DEF RequestInv, Untouched, Opening
<1>8. Untouched(r)' /\ Reached(r)' /\ OwnerNamedTo(r)'
  BY <1>1, <1>2, <1>3, <1>5, <1>7
     DEF Untouched, Early, Opening, PutPc, Reached, OwnerNamedTo
<1>9. Settled(r)'
  BY <1>3, <1>5, <1>7 DEF Settled, Unserved
<1>10. Heard(r)' /\ Direct(r)'
  BY <1>3, <1>5 DEF RequestInv, Promises, Heard, Direct
<1>11. RequestInv(r)'
  BY <1>6, <1>8, <1>9, <1>10 DEF RequestInv, Promises
<1> QED
  BY <1>4, <1>5, <1>11, OnlyKeeps

\* A lookup that is forwarded to x for its destination d.
LEMMA ForwardKeeps ==
  ASSUME PartyInv, NEW r \in Request, pc[r] \in {"dest", "validate"},
         NEW x \in Actor, ForwardTo(r, call[r].dest, x),
         UNCHANGED <<refs, via, call, requester, sent, told>>,
         x \in {call[r].dest} \cup Proxy,
         call[r].dest \in Local /\ "ledger" \notin lost'[r] => x = call[r].dest,
         read' \in [Request -> SUBSET Dfsp],
         \A s \in Request \ {r} : read'[s] = read[s],
         \/ call[r].dest \in read'[r]
         \/ x \in Local => requester[r] = call[r].source,
         lost' \in [Request -> SUBSET {"ledger", "callback"}],
         \A s \in Request \ {r} : lost'[s] = lost[s],
         lost[r] \subseteq lost'[r]
  PROVE  PartyInv'
<1> USE DEF PartyInv
<1> DEFINE d == call[r].dest
<1>1. /\ d \in Dfsp /\ \A f \in Dfsp : task[r][f] = "none"
  BY DEF RequestInv, Called, Untouched, Early, GetPc
<1>2. /\ task' = [task EXCEPT ![r][d] = "forward"]
      /\ sendTo' = [sendTo EXCEPT ![r][d] = x] /\ Goto(r, "branches")
  BY DEF ForwardTo
<1>3. /\ task' \in [Request -> [Dfsp -> Task]] /\ task'[r][d] = "forward"
      /\ \A f \in Dfsp \ {d} : task'[r][f] = "none"
      /\ \A s \in Request \ {r} : task'[s] = task[s]
  BY <1>1, <1>2 DEF TypeOK, Task
<1>4. /\ sendTo' \in [Request -> [Dfsp -> Actor \cup {None}]] /\ sendTo'[r][d] = x
      /\ \A s \in Request \ {r} : sendTo'[s] = sendTo[s]
  BY <1>1, <1>2 DEF TypeOK
<1>5. pc'[r] = "branches"
  BY <1>2 DEF Goto, TypeOK
<1>6. Forwarding(r)'
  BY <1>1, <1>3, <1>4, <1>5 DEF Forwarding, Behalf
<1>7. \A f \in Dfsp : task'[r][f] \in {"none", "check", "drop", "forward"}
  BY <1>3
<1> HIDE DEF PartyInv, d
<1> QED
  BY <1>2, <1>3, <1>4, <1>6, <1>7, OwnersKeep

\* A lookup that goes elsewhere before anything is done about an owner.
LEMMA DetourKeeps ==
  ASSUME PartyInv, NEW r \in Request, pc[r] \in {"dest", "validate", "oracle"},
         NEW step \in {"validate", "resolution", "failing", "discover"},
         Goto(r, step), step = "validate" => pc[r] = "dest",
         UNCHANGED <<refs, via, call, requester, task, sendTo, sent, told>>,
         read' \in [Request -> SUBSET Dfsp],
         \A s \in Request \ {r} : read'[s] = read[s],
         lost' \in [Request -> SUBSET {"ledger", "callback"}],
         \A s \in Request \ {r} : lost'[s] = lost[s],
         lost[r] \subseteq lost'[r]
  PROVE  PartyInv'
<1>1. \A f \in Dfsp : task'[r][f] = "none"
  BY DEF PartyInv, RequestInv, Untouched, Early
<1>2. Forwarding(r)'
  BY <1>1 DEF Forwarding
<1>3. /\ task' \in [Request -> [Dfsp -> Task]]
      /\ sendTo' \in [Request -> [Dfsp -> Actor \cup {None}]]
      /\ \A f \in Dfsp : task'[r][f] \in {"none", "check", "drop", "forward"}
  BY <1>1 DEF PartyInv, TypeOK
<1> QED
  BY <1>1, <1>2, <1>3, OwnersKeep

\* A lookup with a destination.
LEMMA DestinationKeeps ==
  ASSUME PartyInv, NEW r \in Request, ToDestination(r)
  PROVE  PartyInv'
<1> DEFINE d == call[r].dest
<1>1. /\ UNCHANGED <<refs, via, call, requester, read, sent, told>> /\ pc[r] = "dest"
  BY DEF ToDestination, world
<1>2. /\ d \in Dfsp /\ \A f \in Dfsp : task[r][f] = "none"
  BY <1>1 DEF PartyInv, RequestInv, Called, Untouched, Early, GetPc
<1>3. PICK known \in BOOLEAN : LedgerSays(r, d, known)
  BY DEF ToDestination
<1>4. /\ lost' \in [Request -> SUBSET {"ledger", "callback"}]
      /\ \A s \in Request \ {r} : lost'[s] = lost[s]
      /\ lost[r] \subseteq lost'[r]
  BY <1>3, LedgerFacts DEF PartyInv
<1>5. read' \in [Request -> SUBSET Dfsp] /\ \A s \in Request \ {r} : read'[s] = read[s]
  BY <1>1 DEF PartyInv, TypeOK
<1>6. CASE LedgerSays(r, d, TRUE) /\ requester[r] = call[r].source /\ ForwardTo(r, d, d)
  BY <1>1, <1>2, <1>4, <1>5, <1>6, ForwardKeeps DEF Actor
<1>7. CASE LedgerSays(r, d, FALSE) /\ via[d] # None /\ ForwardTo(r, d, via[d])
  <2>1. via[d] \in Proxy /\ via[d] \notin Local /\ (d \in Local => "ledger" \in lost'[r])
    <3>1. via[d] \in Proxy
      BY <1>2, <1>7 DEF PartyInv, TypeOK
    <3>2. d \in Local => "ledger" \in lost'[r]
      BY <1>7, LedgerFacts DEF PartyInv, InScheme
    <3> QED
      BY <3>1, <3>2, ActorAssumption DEF Dfsp
  <2> QED
    BY <1>1, <1>4, <1>5, <1>7, <2>1, ForwardKeeps DEF Actor
<1>8. CASE /\ task' = [task EXCEPT ![r][d] = "drop"]
           /\ Goto(r, "branches") /\ UNCHANGED sendTo
  <2>1. /\ task' \in [Request -> [Dfsp -> Task]]
        /\ \A f \in Dfsp : task'[r][f] \in {"none", "drop"}
        /\ \A s \in Request \ {r} : task'[s] = task[s]
    BY <1>2, <1>8 DEF PartyInv, TypeOK, Task
  <2>2. Forwarding(r)'
    BY <2>1 DEF Forwarding
  <2>3. sendTo' \in [Request -> [Dfsp -> Actor \cup {None}]]
    BY <1>8 DEF PartyInv, TypeOK
  <2> QED
    BY <1>1, <1>4, <1>5, <1>8, <2>1, <2>2, <2>3, OwnersKeep
<1>9. CASE /\ Goto(r, "validate") \/ Goto(r, "failing")
           /\ UNCHANGED <<task, sendTo>>
  BY <1>1, <1>4, <1>5, <1>9, DetourKeeps
<1> QED
  BY <1>6, <1>7, <1>8, <1>9 DEF ToDestination

\* The look at the oracle for a destination of the scheme.
LEMMA ValidateKeeps ==
  ASSUME PartyInv, NEW r \in Request, ValidateDestination(r)
  PROVE  PartyInv'
<1> DEFINE d == call[r].dest
<1>1. /\ UNCHANGED <<refs, via, call, requester, sent, told, lost>> /\ pc[r] = "validate"
  BY DEF ValidateDestination, world, history
<1>2. d \in Dfsp
  BY <1>1 DEF PartyInv, RequestInv, Called
<1>3. /\ read' \in [Request -> SUBSET Dfsp]
      /\ \A s \in Request \ {r} : read'[s] = read[s]
  <2>1. \A parties \in PartyLists(r) : {x.fsp : x \in parties} \subseteq Dfsp
    BY DEF PartyLists, Listed, PartyInv, TypeOK, Ref
  <2> QED
    BY <2>1 DEF ValidateDestination, PartyInv, TypeOK
<1>4. lost' \in [Request -> SUBSET {"ledger", "callback"}]
  BY <1>1 DEF PartyInv, TypeOK
<1>5. CASE d \in read'[r] /\ ForwardTo(r, d, d)
  BY <1>1, <1>2, <1>3, <1>4, <1>5, ForwardKeeps DEF Actor
<1>6. CASE /\ Goto(r, "resolution") \/ Goto(r, "failing")
           /\ UNCHANGED <<task, sendTo>>
  BY <1>1, <1>3, <1>4, <1>6, DetourKeeps
<1> QED
  BY <1>5, <1>6 DEF ValidateDestination

\* The owners the oracle lists.
LEMMA OracleKeeps ==
  ASSUME PartyInv, NEW r \in Request, AskOracle(r)
  PROVE  PartyInv'
<1> DEFINE ownersIn(parties) == {x.fsp : x \in {y \in parties : y.sub = call[r].sub}}
<1>1. /\ UNCHANGED <<refs, via, call, requester, sendTo, sent, told, lost>>
      /\ pc[r] = "oracle"
  BY DEF AskOracle, world, history
<1>2. /\ lost' \in [Request -> SUBSET {"ledger", "callback"}]
      /\ sendTo' \in [Request -> [Dfsp -> Actor \cup {None}]]
  BY <1>1 DEF PartyInv, TypeOK
<1>3. CASE /\ Goto(r, "discover") \/ Goto(r, "failing")
           /\ UNCHANGED <<task, read>>
  <2>1. read' \in [Request -> SUBSET Dfsp]
    BY <1>3 DEF PartyInv, TypeOK
  <2> QED
    BY <1>1, <1>2, <1>3, <2>1, DetourKeeps
<1>4. ASSUME NEW parties \in PartyLists(r),
             task' = [task EXCEPT ![r] =
               [f \in Dfsp |-> IF f \in ownersIn(parties) THEN "check" ELSE "none"]],
             read' = [read EXCEPT ![r] = ownersIn(parties)],
             Goto(r, "branches")
      PROVE  PartyInv'
  <2> DEFINE owners == ownersIn(parties)
  <2>1. owners \subseteq Dfsp
    BY DEF PartyLists, Listed, PartyInv, TypeOK, Ref
  <2> HIDE DEF owners
  <2>2. /\ read' \in [Request -> SUBSET Dfsp] /\ read'[r] = owners
        /\ \A s \in Request \ {r} : read'[s] = read[s]
    BY <1>4, <2>1 DEF owners, PartyInv, TypeOK
  <2>3. /\ task' \in [Request -> [Dfsp -> Task]]
        /\ \A f \in Dfsp : task'[r][f] = IF f \in owners THEN "check" ELSE "none"
        /\ \A s \in Request \ {r} : task'[s] = task[s]
    BY <1>4 DEF owners, PartyInv, TypeOK, Task
  <2>4. Forwarding(r)' /\ \A f \in Dfsp : task'[r][f] \in {"none", "check", "drop", "forward"}
    BY <2>2, <2>3 DEF Forwarding
  <2> QED
    BY <1>1, <1>2, <1>4, <2>2, <2>3, <2>4, OwnersKeep
<1> QED
  BY <1>3, <1>4 DEF AskOracle

-----------------------------------------------------------------------------
\* One owner of a lookup that is dealt with.
LEMMA TaskKeeps ==
  ASSUME PartyInv, NEW r \in Request, NEW f \in Dfsp,
         task[r][f] \in {"check", "drop", "forward"}, NEW step \in Task,
         step \in {"drop", "forward", "sent", "skipped", "failed"},
         task' = [task EXCEPT ![r][f] = step],
         UNCHANGED <<via, call, pc, requester, read, told>>, refs' \subseteq Ref,
         NEW x \in Actor \cup {None}, sendTo' = [sendTo EXCEPT ![r][f] = x],
         lost' \in [Request -> SUBSET {"ledger", "callback"}],
         \A s \in Request \ {r} : lost'[s] = lost[s],
         lost[r] \subseteq lost'[r],
         NEW m \in [of : {r}, to : Actor, dest : Dfsp, by : Actor \cup {None}],
         sent' \in {sent, sent \cup {m}},
         step = "sent" => sent' = sent \cup {m},
         sent' # sent => step \in {"sent", "failed"},
         step = "forward" => /\ x \in {f} \cup Proxy /\ f \in read[r]
                             /\ "ledger" \notin lost'[r] /\ f \in Local => x = f,
         sent' # sent => /\ m.to \in Local /\ m.by # call[r].source => m.to \in read[r]
                         /\ "ledger" \notin lost'[r] /\ m.dest \in Local => m.to = m.dest
  PROVE  PartyInv'
<1> USE DEF PartyInv
<1>1. /\ task' \in [Request -> [Dfsp -> Task]] /\ task'[r][f] = step
      /\ \A g \in Dfsp \ {f} : task'[r][g] = task[r][g]
      /\ \A s \in Request \ {r} : task'[s] = task[s]
  BY DEF TypeOK
<1>2. /\ sendTo' \in [Request -> [Dfsp -> Actor \cup {None}]] /\ sendTo'[r][f] = x
      /\ \A g \in Dfsp \ {f} : sendTo'[r][g] = sendTo[r][g]
      /\ \A s \in Request \ {r} : sendTo'[s] = sendTo[s]
  BY DEF TypeOK
<1>3. sent' \subseteq [of : Request, to : Actor, dest : Dfsp, by : Actor \cup {None}]
  BY DEF TypeOK
<1>4. TypeOK'
  BY <1>1, <1>2, <1>3 DEF TypeOK
<1>5. \A s \in Request : ToldOf(s)' = ToldOf(s)
  BY DEF ToldOf
<1>6. /\ \A s \in Request \ {r} : SentOf(s)' = SentOf(s)
      /\ SentOf(r) \subseteq SentOf(r)' /\ SentOf(r)' \subseteq SentOf(r) \cup {m}
      /\ sent' = sent => SentOf(r)' = SentOf(r)
      /\ step = "sent" => SentOf(r)' # {}
  <2>1. m.of = r
    OBVIOUS
  <2>2. CASE sent' = sent
    <3>1. step = "sent" => m \in sent
      BY <2>2
    <3> QED
      BY <2>1, <2>2, <3>1 DEF SentOf
  <2>3. CASE sent' = sent \cup {m}
    <3>1. m \in sent'
      BY <2>3
    <3> QED
      BY <2>1, <2>3, <3>1 DEF SentOf
  <2> QED
    BY <2>2, <2>3
<1>7. Only(r)
  BY <1>1, <1>2, <1>5, <1>6 DEF Only, Same
<1>8. Called(r)' /\ Named(r)'
  BY DEF RequestInv, Called, Named, Untouched, Early
<1>9. Untouched(r)'
  BY <1>5 DEF RequestInv, Untouched
<1>10. Settled(r)'
  BY <1>1, <1>5 DEF RequestInv, Settled
<1>11. Forwarding(r)'
  <2>1. ASSUME NEW g \in Dfsp \ {f}, task[r][g] = "forward" PROVE g \in read[r]
    BY <2>1 DEF RequestInv, Forwarding, Behalf
  <2> QED
    BY <1>1, <1>2, <2>1 DEF RequestInv, Forwarding, Behalf
<1>12. Reached(r)'
  BY <1>1, <1>6 DEF RequestInv, Reached
<1>13. Heard(r)'
  BY <1>5, <1>6 DEF RequestInv, Promises, Heard
<1>14. OwnerNamedTo(r)' /\ Direct(r)'
  BY <1>5, <1>6 DEF RequestInv, Promises, OwnerNamedTo, Direct
<1>15. RequestInv(r)'
  BY <1>8, <1>9, <1>10, <1>11, <1>12, <1>13, <1>14 DEF RequestInv, Promises
<1> QED
  BY <1>4, <1>7, <1>15, OnlyKeeps

\* The three steps of #processSingleOracleParty and of the direct forward.
LEMMA CheckOwnerKeeps ==
  ASSUME PartyInv, NEW r \in Request, NEW f \in Dfsp, CheckOwner(r, f)
  PROVE  PartyInv'
<1>1. /\ UNCHANGED <<refs, via, call, pc, requester, read, sent, told>>
      /\ task[r][f] = "check"
  BY DEF CheckOwner, world
<1>2. PICK known \in BOOLEAN : LedgerSays(r, f, known)
  BY DEF CheckOwner
<1>3. /\ lost' \in [Request -> SUBSET {"ledger", "callback"}]
      /\ \A s \in Request \ {r} : lost'[s] = lost[s]
      /\ lost[r] \subseteq lost'[r]
  BY <1>2, LedgerFacts DEF PartyInv
<1>4. PICK step \in {"drop", "forward", "skipped", "failed"}, x \in Actor \cup {None} :
        /\ task' = [task EXCEPT ![r][f] = step]
        /\ sendTo' = [sendTo EXCEPT ![r][f] = x]
        /\ step = "forward" => \/ x = f
                               \/ LedgerSays(r, f, FALSE) /\ x = via[f] /\ via[f] # None
  <2>1. CASE LedgerSays(r, f, TRUE)
             /\ task' = [task EXCEPT ![r][f] = "forward"]
             /\ sendTo' = [sendTo EXCEPT ![r][f] = f]
    BY <2>1 DEF Actor
  <2>2. CASE LedgerSays(r, f, FALSE) /\ via[f] # None
             /\ task' = [task EXCEPT ![r][f] = "forward"]
             /\ sendTo' = [sendTo EXCEPT ![r][f] = via[f]]
    BY <2>2 DEF PartyInv, TypeOK, Actor
  <2>3. CASE \E step \in {"drop", "skipped", "failed"} :
               /\ task' = [task EXCEPT ![r][f] = step]
               /\ sendTo' = [sendTo EXCEPT ![r][f] = None]
    BY <2>3
  <2> QED
    BY <2>1, <2>2, <2>3 DEF CheckOwner
<1>5. f \in read[r]
  BY <1>1 DEF PartyInv, RequestInv, Forwarding
<1>6. step = "forward" => /\ x \in {f} \cup Proxy
                          /\ "ledger" \notin lost'[r] /\ f \in Local => x = f
  BY <1>4, LedgerFacts DEF PartyInv, TypeOK, InScheme
\* Nothing is sent, so any record stands for what is.
<1>7. PICK m \in [of : {r}, to : Actor, dest : Dfsp, by : Actor \cup {None}] : TRUE
  <2>1. [of |-> r, to |-> f, dest |-> f, by |-> None]
          \in [of : {r}, to : Actor, dest : Dfsp, by : Actor \cup {None}]
    BY DEF Actor
  <2> QED
    BY <2>1
<1>8. step \in Task /\ refs' \subseteq Ref
  BY <1>1 DEF Task, PartyInv, TypeOK
<1> QED
  BY <1>1, <1>3, <1>4, <1>5, <1>6, <1>7, <1>8, TaskKeeps

LEMMA DropReferenceKeeps ==
  ASSUME PartyInv, NEW r \in Request, NEW f \in Dfsp, DropReference(r, f)
  PROVE  PartyInv'
<1>1. /\ UNCHANGED <<via, call, pc, requester, sendTo, read, sent, told, lost>>
      /\ task[r][f] = "drop" /\ refs' \subseteq Ref
  BY DEF DropReference, Deleted, DeletionFails, history, PartyInv, TypeOK
<1>2. PICK step \in {"skipped", "failed"} : task' = [task EXCEPT ![r][f] = step]
  BY DEF DropReference
<1>3. /\ sendTo[r][f] \in Actor \cup {None}
      /\ sendTo' = [sendTo EXCEPT ![r][f] = sendTo[r][f]]
      /\ lost' \in [Request -> SUBSET {"ledger", "callback"}]
  BY <1>1 DEF PartyInv, TypeOK
\* Nothing is sent, so any record stands for what is.
<1>4. PICK m \in [of : {r}, to : Actor, dest : Dfsp, by : Actor \cup {None}] : TRUE
  <2>1. [of |-> r, to |-> f, dest |-> f, by |-> None]
          \in [of : {r}, to : Actor, dest : Dfsp, by : Actor \cup {None}]
    BY DEF Actor
  <2> QED
    BY <2>1
<1>5. step \in Task
  BY DEF Task
<1> QED
  BY <1>1, <1>2, <1>3, <1>4, <1>5, TaskKeeps

LEMMA ForwardLookupKeeps ==
  ASSUME PartyInv, NEW r \in Request, NEW f \in Dfsp, ForwardLookup(r, f)
  PROVE  PartyInv'
<1> DEFINE m == [of |-> r, to |-> sendTo[r][f], dest |-> f, by |-> requester[r]]
<1>1. /\ UNCHANGED <<refs, via, call, pc, requester, sendTo, read, told, lost>>
      /\ task[r][f] = "forward"
  BY DEF ForwardLookup, world
<1>2. PICK step \in {"sent", "failed"} :
        /\ task' = [task EXCEPT ![r][f] = step]
        /\ sent' \in {sent, sent \cup {m}}
        /\ step = "sent" => sent' = sent \cup {m}
  BY DEF ForwardLookup
<1>3. /\ sendTo[r][f] \in {f} \cup Proxy
      /\ "ledger" \notin lost[r] /\ f \in Local => sendTo[r][f] = f
      /\ Behalf(r, f)
  BY <1>1 DEF PartyInv, RequestInv, Forwarding
<1>4. m \in [of : {r}, to : Actor, dest : Dfsp, by : Actor \cup {None}]
  BY <1>3 DEF Actor, PartyInv, TypeOK
<1>5. /\ m.to \in Local /\ m.by # call[r].source => m.to \in read[r]
      /\ "ledger" \notin lost'[r] /\ m.dest \in Local => m.to = m.dest
  BY <1>1, <1>3, ActorAssumption DEF Behalf, Dfsp
<1>6. /\ sendTo' = [sendTo EXCEPT ![r][f] = sendTo[r][f]]
      /\ lost' \in [Request -> SUBSET {"ledger", "callback"}] /\ refs' \subseteq Ref
      /\ sendTo[r][f] \in Actor \cup {None}
  BY <1>1 DEF PartyInv, TypeOK
<1>7. step \in Task
  BY DEF Task
<1> HIDE DEF m
<1> QED
  BY <1>1, <1>2, <1>4, <1>5, <1>6, <1>7, TaskKeeps

-----------------------------------------------------------------------------
\* What others do to the oracle and to the proxy cache.
LEMMA ElsewhereKeeps ==
  ASSUME PartyInv, Elsewhere
  PROVE  PartyInv'
<1>1. /\ UNCHANGED <<call, pc, requester, task, sendTo, read, sent, told, lost>>
      /\ refs' \subseteq Ref
  BY DEF Elsewhere, RegisterElsewhere, DeleteElsewhere, MapElsewhere, handler, history,
         PartyInv, TypeOK
<1>2. via' \in [Dfsp -> Proxy \cup {None}] /\ \A l \in Local : via'[l] = via[l]
  BY ActorAssumption DEF Elsewhere, RegisterElsewhere, DeleteElsewhere, MapElsewhere, MapTo,
     Dfsp, PartyInv, TypeOK
<1>3. TypeOK'
  BY <1>1, <1>2 DEF PartyInv, TypeOK
<1>4. \A s \in Request : Same(s)
  BY <1>1 DEF Same, SentOf, ToldOf
<1>5. OnlyExternalsMapped'
  BY <1>1, <1>2 DEF PartyInv, OnlyExternalsMapped
<1> QED
  BY <1>3, <1>4, <1>5, SameKeeps DEF PartyInv

\* Every step keeps the invariant.
LEMMA PartyNext == PartyInv /\ [Next]_vars => PartyInv'
<1> SUFFICES ASSUME PartyInv, [Next]_vars PROVE PartyInv'
  OBVIOUS
<1>1. CASE Elsewhere
  BY <1>1, ElsewhereKeeps
<1>2. ASSUME NEW r \in Request, Accept(r) PROVE PartyInv'
  BY <1>2, AcceptKeeps
<1>3. ASSUME NEW r \in Request, GetStep(r) PROVE PartyInv'
  BY <1>3, RequesterKeeps, DestinationKeeps, ValidateKeeps, OracleKeeps, ConcludeKeeps,
     CheckOwnerKeeps, DropReferenceKeeps, ForwardLookupKeeps DEF GetStep
<1>4. ASSUME NEW r \in Request, PutStep(r) PROVE PartyInv'
  BY <1>4, PutKeeps
<1>5. ASSUME NEW r \in Request, CallBack(r) PROVE PartyInv'
  BY <1>5, IdentifyKeeps, CallbackKeeps DEF CallBack
<1>6. CASE UNCHANGED vars
  <2>1. TypeOK' /\ OnlyExternalsMapped'
    BY <1>6 DEF vars, PartyInv, TypeOK, OnlyExternalsMapped
  <2>2. \A s \in Request : Same(s)
    BY <1>6 DEF vars, Same, SentOf, ToldOf
  <2> QED
    BY <2>1, <2>2, SameKeeps DEF PartyInv
<1> QED
  BY <1>1, <1>2, <1>3, <1>4, <1>5, <1>6 DEF Next

-----------------------------------------------------------------------------
\* The invariant holds whatever fails and whatever others do meanwhile.
THEOREM PartyInvariant == Spec => []PartyInv
BY PartyInit, PartyNext, PTL DEF Spec

\* The requests, the oracle and the proxy cache have their types.
THEOREM TypeCorrect == Spec => []TypeOK
<1>1. PartyInv => TypeOK
  BY DEF PartyInv
<1> QED
  BY <1>1, PartyInvariant, PTL

\* A lookup that reached a participant is reported as failed, or sent to all
\* proxies, only if another of its calls failed.
THEOREM ForwardedLookupsCount == Spec => []ForwardedIsServed
<1>1. PartyInv => ForwardedIsServed
  BY DEF PartyInv, RequestInv, Settled, Reached, Unserved, ForwardedIsServed, Served
<1> QED
  BY <1>1, PartyInvariant, PTL

\* A request that is finished with has reached somebody, or there is a reason.
THEOREM NobodyIsForgotten == Spec => []NoneVanishes
<1>1. PartyInv => NoneVanishes
  BY DEF PartyInv, RequestInv, Promises, NoneVanishes
<1> QED
  BY <1>1, PartyInvariant, PTL

\* A lookup in the name of a proxy reaches no participant of the scheme that the
\* oracle did not name.
THEOREM OwnersAreNamed == Spec => []OwnerIsNamed
<1>1. PartyInv => OwnerIsNamed
  BY DEF PartyInv, RequestInv, Promises, OwnerIsNamed
<1> QED
  BY <1>1, PartyInvariant, PTL

\* Nothing for a participant of the scheme goes through a proxy while the ledger
\* answers.
THEOREM NoDetours == Spec => []LocalsAreDirect
<1>1. PartyInv => LocalsAreDirect
  BY DEF PartyInv, RequestInv, Promises, LocalsAreDirect
<1> QED
  BY <1>1, PartyInvariant, PTL

\* Only a failure of the ledger puts a participant of the scheme behind a proxy.
THEOREM MappingsAreExternal == Spec => []OnlyExternalsMapped
<1>1. PartyInv => OnlyExternalsMapped
  BY DEF PartyInv
<1> QED
  BY <1>1, PartyInvariant, PTL
=============================================================================
