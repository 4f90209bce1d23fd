--------------------- MODULE InterSchemeDiscovery_proofs ---------------------
(***************************************************************************)
(* What InterSchemeDiscovery guarantees for every set of requesters,       *)
(* proxies and lookups and every combination of faults.                    *)
(***************************************************************************)
EXTENDS InterSchemeDiscovery, TLAPS

\* A step of the system is a step of one of the handlers.
LEMMA StepOfAHandler ==
  ASSUME Next
  PROVE  \/ \E l \in Lookup :
              \/ ReceiveLookup(l) \/ ConsultOracle(l) \/ DropReference(l)
              \/ Discover(l) \/ ConcludeDiscovery(l) \/ ReportFailure(l)
         \/ \E l \in Lookup, p \in Proxy :
              \/ ConcludeDirect(l, p)
              \/ ReachProxy(l, p) \/ SendSucceeds(l, p) \/ SendFails(l, p)
              \/ RemoveFailedProxy(l, p)
              \/ Answer(l, p)
              \/ CountSuccess(l, p) \/ PostMapping(l, p) \/ ForwardSuccess(l, p)
              \/ CheckPending(l, p) \/ CountError(l, p) \/ CheckOracle(l, p)
              \/ CleanupOracle(l, p) \/ ForwardError(l, p)
         \/ \E s \in Dfsp : \/ Expire(s) \/ FindExpired(s)
                            \/ SendTimeoutCallback(s) \/ RemoveExpired(s)
BY DEF Next, GetStep, SendStep, PutStep, ExpiryStep

(***************************************************************************)
(* An update of one cell of a table indexed by lookup and proxy, such as   *)
(* send and put, keeps its type and every other cell.                      *)
(***************************************************************************)
LEMMA CellUpdate ==
  ASSUME NEW T, NEW f \in [Lookup -> [Proxy -> T]], NEW l \in Lookup,
         NEW p \in Proxy, NEW v \in T
  PROVE  /\ [f EXCEPT ![l][p] = v] \in [Lookup -> [Proxy -> T]]
         /\ \A m \in Lookup, q \in Proxy :
              [f EXCEPT ![l][p] = v][m][q] = IF m = l /\ q = p THEN v ELSE f[m][q]
OBVIOUS

-----------------------------------------------------------------------------
(***************************************************************************)
(* Types, with what the expiry job needs of the entry it calls back for:   *)
(* an entry has an owner, a lookup of the requester it belongs to.         *)
(***************************************************************************)
TypeInv == TypeOK /\ OwnerOK

\* The initial states are typed.
LEMMA TypeInvInit == Init => TypeInv
BY LookupAssumption DEF Init, TypeInv, TypeOK, OwnerOK, GetPc, SendPc, AnswerPc

\* The steps of the cache: what they keep, whoever takes them.
CacheTyped == /\ pending \in [Dfsp -> SUBSET Proxy]
              /\ hasSuccess \in [Dfsp -> BOOLEAN]
              /\ expiry \in [Dfsp -> {"none", "armed", "expired"}]
              /\ owner \in [Dfsp -> Lookup \cup {None}]
              /\ OwnerOK

\* The part of the type invariant that speaks of the proxy cache.
LEMMA TypeInvHasCacheTyped == TypeInv => CacheTyped
BY DEF TypeInv, TypeOK, CacheTyped

\* A step that leaves the cache alone leaves it typed.
LEMMA CacheUntouchedTyped == CacheTyped /\ UNCHANGED cacheVars => CacheTyped'
BY DEF CacheTyped, cacheVars, OwnerOK

\* Storing the entry of a lookup names that lookup as its owner.
LEMMA SetSendToProxiesListTyped ==
  ASSUME CacheTyped, NEW l \in Lookup, SetSendToProxiesList(SourceOf[l], l)
  PROVE  CacheTyped'
BY LookupAssumption DEF CacheTyped, OwnerOK, SetSendToProxiesList

\* Counting an answer leaves the cache typed and the owner in place.
LEMMA ReceivedResponseTyped ==
  ASSUME CacheTyped, NEW s \in Dfsp, NEW p \in Proxy, NEW b \in BOOLEAN,
         ReceivedResponse(s, p, b)
  PROVE  CacheTyped'
<1> DEFINE left == pending[s] \ {p}
<1>1. /\ pending' \in [Dfsp -> SUBSET Proxy]
      /\ owner' \in [Dfsp -> Lookup \cup {None}]
  BY DEF CacheTyped, ReceivedResponse
<1>2. hasSuccess' \in [Dfsp -> BOOLEAN]
  <2>1. (left # {} /\ (hasSuccess[s] \/ b)) \in BOOLEAN
    OBVIOUS
  <2> QED
    BY <2>1 DEF CacheTyped, ReceivedResponse
<1>3. expiry' \in [Dfsp -> {"none", "armed", "expired"}]
  BY DEF CacheTyped, ReceivedResponse
<1>4. OwnerOK'
  BY DEF CacheTyped, ReceivedResponse, OwnerOK
<1> QED
  BY <1>1, <1>2, <1>3, <1>4 DEF CacheTyped

\* Removing an entry leaves the cache typed.
LEMMA RemoveEntryTyped ==
  ASSUME CacheTyped, NEW s \in Dfsp, RemoveEntry(s)
  PROVE  CacheTyped'
BY DEF CacheTyped, OwnerOK, RemoveEntry

\* The local state of the GET handlers and of the answers.
LocalTyped == /\ get \in [Lookup -> GetPc]
              /\ send \in [Lookup -> [Proxy -> SendPc]]
              /\ wasLast \in [Lookup -> BOOLEAN]
              /\ put \in [Lookup -> [Proxy -> AnswerPc]]

RestTyped == /\ expiring \in [Dfsp -> Lookup \cup {None}]
             /\ discovery \in [Lookup -> {"none", "stored", "timedOut", "untold"}]
             /\ mapping \in Proxy \cup {None}

\* A step of the handler of an answer moves that answer on.
LEMMA AnswerTyped ==
  ASSUME LocalTyped, NEW l \in Lookup, NEW p \in Proxy,
         \E v \in AnswerPc : put' = [put EXCEPT ![l][p] = v],
         UNCHANGED getVars
  PROVE  LocalTyped'
BY CellUpdate DEF LocalTyped, getVars

\* A step of a send moves that send on.
LEMMA SendTyped ==
  ASSUME LocalTyped, NEW l \in Lookup, NEW p \in Proxy,
         \E v \in SendPc : send' = [send EXCEPT ![l][p] = v],
         get' \in [Lookup -> GetPc], wasLast' \in [Lookup -> BOOLEAN],
         UNCHANGED put
  PROVE  LocalTyped'
<1>1. send' \in [Lookup -> [Proxy -> SendPc]]
  BY CellUpdate DEF LocalTyped
<1> QED
  BY <1>1 DEF LocalTyped

\* A step of the GET handler that sends nothing moves that handler on.
LEMMA GetTyped ==
  ASSUME LocalTyped, NEW l \in Lookup,
         \E v \in GetPc : get' = [get EXCEPT ![l] = v],
         UNCHANGED <<send, wasLast, put>>
  PROVE  LocalTyped'
BY DEF LocalTyped

\* Every step keeps the variables typed and the owners right.
LEMMA TypeInvNext == TypeInv /\ [Next]_vars => TypeInv'
<1> DEFINE Typed == LocalTyped /\ CacheTyped /\ RestTyped
<1> SUFFICES ASSUME Typed, [Next]_vars
             PROVE  Typed'
  BY DEF TypeInv, TypeOK, LocalTyped, CacheTyped, RestTyped
<1>1. ASSUME NEW l \in Lookup, ReceiveLookup(l)
      PROVE  Typed'
  <2>1. \E v \in GetPc : get' = [get EXCEPT ![l] = v]
    BY <1>1 DEF ReceiveLookup, GetPc
  <2> QED
    BY <1>1, <2>1, GetTyped, CacheUntouchedTyped DEF ReceiveLookup, RestTyped
<1>2. ASSUME NEW l \in Lookup, ConsultOracle(l)
      PROVE  Typed'
  <2>1. \E v \in GetPc : get' = [get EXCEPT ![l] = v]
    BY <1>2 DEF ConsultOracle, GetPc
  <2>2. CASE UNCHANGED send
    BY <1>2, <2>1, <2>2, GetTyped, CacheUntouchedTyped DEF ConsultOracle, RestTyped
  <2>3. CASE mapping # None /\ send' = [send EXCEPT ![l][mapping] = "flying"]
    <3>1. mapping \in Proxy /\ "flying" \in SendPc /\ get' \in [Lookup -> GetPc]
      BY <2>1, <2>3 DEF LocalTyped, RestTyped, SendPc
    <3> QED
      BY <1>2, <2>3, <3>1, SendTyped, CacheUntouchedTyped
      DEF ConsultOracle, LocalTyped, RestTyped
  <2> QED
    BY <1>2, <2>2, <2>3 DEF ConsultOracle
<1>3. ASSUME NEW l \in Lookup, DropReference(l)
      PROVE  Typed'
  <2>1. \E v \in GetPc : get' = [get EXCEPT ![l] = v]
    BY <1>3 DEF DropReference, GetPc
  <2> QED
    BY <1>3, <2>1, GetTyped, CacheUntouchedTyped DEF DropReference, RestTyped
<1>4. ASSUME NEW l \in Lookup, Discover(l)
      PROVE  Typed'
  <2>1. CASE Proxy = {} \/ expiry[SourceOf[l]] # "none"
    <3>1. \E v \in GetPc : get' = [get EXCEPT ![l] = v]
      BY <1>4, <2>1 DEF Discover, GetPc
    <3> QED
      BY <1>4, <2>1, <3>1, GetTyped, CacheUntouchedTyped DEF Discover, RestTyped
  <2>2. CASE ~(Proxy = {} \/ expiry[SourceOf[l]] # "none")
    <3>1. LocalTyped'
      <4>1. [p \in Proxy |-> "flying"] \in [Proxy -> SendPc]
        BY DEF SendPc
      <4>2. send' \in [Lookup -> [Proxy -> SendPc]]
        BY <1>4, <2>2, <4>1 DEF Discover, LocalTyped
      <4> QED
        BY <1>4, <2>2, <4>2 DEF Discover, LocalTyped, GetPc
    <3>2. CacheTyped'
      BY <1>4, <2>2, SetSendToProxiesListTyped DEF Discover
    <3>3. RestTyped'
      BY <1>4, <2>2 DEF Discover, RestTyped
    <3> QED
      BY <3>1, <3>2, <3>3
  <2> QED
    BY <2>1, <2>2
<1>5. ASSUME NEW l \in Lookup, ConcludeDiscovery(l)
      PROVE  Typed'
  <2>1. \E v \in GetPc : get' = [get EXCEPT ![l] = v]
    BY <1>5 DEF ConcludeDiscovery, GetPc
  <2> QED
    BY <1>5, <2>1, GetTyped, CacheUntouchedTyped DEF ConcludeDiscovery, RestTyped
<1>6. ASSUME NEW l \in Lookup, ReportFailure(l)
      PROVE  Typed'
  <2>1. \E v \in GetPc : get' = [get EXCEPT ![l] = v]
    BY <1>6 DEF ReportFailure, GetPc
  <2> QED
    BY <1>6, <2>1, GetTyped, CacheUntouchedTyped DEF ReportFailure, RestTyped
<1>7. ASSUME NEW l \in Lookup, NEW p \in Proxy, ConcludeDirect(l, p)
      PROVE  Typed'
  <2>1. \E v \in GetPc : get' = [get EXCEPT ![l] = v]
    BY <1>7 DEF ConcludeDirect, GetPc
  <2> QED
    BY <1>7, <2>1, GetTyped, CacheUntouchedTyped DEF ConcludeDirect, RestTyped
<1>8. ASSUME NEW l \in Lookup, NEW p \in Proxy, ReachProxy(l, p)
      PROVE  Typed'
  <2>1. \E v \in AnswerPc : put' = [put EXCEPT ![l][p] = v]
    BY <1>8 DEF ReachProxy, AnswerPc
  <2> QED
    BY <1>8, <2>1, AnswerTyped, CacheUntouchedTyped DEF ReachProxy, RestTyped
<1>9. ASSUME NEW l \in Lookup, NEW p \in Proxy, SendSucceeds(l, p)
      PROVE  Typed'
  <2>1. \E v \in SendPc : send' = [send EXCEPT ![l][p] = v]
    BY <1>9 DEF SendSucceeds, SendPc
  <2> QED
    BY <1>9, <2>1, SendTyped, CacheUntouchedTyped DEF SendSucceeds, LocalTyped, RestTyped
<1>10. ASSUME NEW l \in Lookup, NEW p \in Proxy, SendFails(l, p)
      PROVE  Typed'
  <2>1. \E v \in SendPc : send' = [send EXCEPT ![l][p] = v]
    BY <1>10 DEF SendFails, SendPc
  <2> QED
    BY <1>10, <2>1, SendTyped, CacheUntouchedTyped DEF SendFails, LocalTyped, RestTyped
<1>11. ASSUME NEW l \in Lookup, NEW p \in Proxy, RemoveFailedProxy(l, p)
      PROVE  Typed'
  <2>1. \E v \in SendPc : send' = [send EXCEPT ![l][p] = v]
    BY <1>11 DEF RemoveFailedProxy, SendPc
  <2>2. IsLastWithoutSuccess(SourceOf[l], p) \in BOOLEAN
    BY DEF IsLastWithoutSuccess
  <2>3. wasLast' \in [Lookup -> BOOLEAN]
    BY <1>11, <2>2 DEF RemoveFailedProxy, LocalTyped
  <2>4. CacheTyped'
    BY <1>11, LookupAssumption, ReceivedResponseTyped DEF RemoveFailedProxy
  <2> QED
    BY <1>11, <2>1, <2>3, <2>4, SendTyped DEF RemoveFailedProxy, LocalTyped, RestTyped
<1>12. ASSUME NEW l \in Lookup, NEW p \in Proxy, Answer(l, p)
      PROVE  Typed'
  <2>1. \E v \in AnswerPc : put' = [put EXCEPT ![l][p] = v]
    BY <1>12 DEF Answer, AnswerPc
  <2> QED
    BY <1>12, <2>1, AnswerTyped, CacheUntouchedTyped DEF Answer, RestTyped
<1>13. ASSUME NEW l \in Lookup, NEW p \in Proxy, CountSuccess(l, p)
      PROVE  Typed'
  <2>1. \E v \in AnswerPc : put' = [put EXCEPT ![l][p] = v]
    BY <1>13 DEF CountSuccess, AnswerPc
  <2>2. CacheTyped'
    BY <1>13, LookupAssumption, ReceivedResponseTyped, CacheUntouchedTyped DEF CountSuccess
  <2> QED
    BY <1>13, <2>1, <2>2, AnswerTyped DEF CountSuccess, RestTyped
<1>14. ASSUME NEW l \in Lookup, NEW p \in Proxy, PostMapping(l, p)
      PROVE  Typed'
  <2>1. \E v \in AnswerPc : put' = [put EXCEPT ![l][p] = v]
    BY <1>14 DEF PostMapping, AnswerPc
  <2> QED
    BY <1>14, <2>1, AnswerTyped, CacheUntouchedTyped DEF PostMapping, RestTyped
<1>15. ASSUME NEW l \in Lookup, NEW p \in Proxy, ForwardSuccess(l, p)
      PROVE  Typed'
  <2>1. \E v \in AnswerPc : put' = [put EXCEPT ![l][p] = v]
    BY <1>15 DEF ForwardSuccess, AnswerPc
  <2> QED
    BY <1>15, <2>1, AnswerTyped, CacheUntouchedTyped DEF ForwardSuccess, RestTyped
<1>16. ASSUME NEW l \in Lookup, NEW p \in Proxy, CheckPending(l, p)
      PROVE  Typed'
  <2>1. \E v \in AnswerPc : put' = [put EXCEPT ![l][p] = v]
    BY <1>16 DEF CheckPending, AnswerPc
  <2> QED
    BY <1>16, <2>1, AnswerTyped, CacheUntouchedTyped DEF CheckPending, RestTyped
<1>17. ASSUME NEW l \in Lookup, NEW p \in Proxy, CountError(l, p)
      PROVE  Typed'
  <2>1. \E v \in AnswerPc : put' = [put EXCEPT ![l][p] = v]
    BY <1>17 DEF CountError, AnswerPc
  <2>2. CacheTyped'
    BY <1>17, LookupAssumption, ReceivedResponseTyped, CacheUntouchedTyped DEF CountError
  <2> QED
    BY <1>17, <2>1, <2>2, AnswerTyped DEF CountError, RestTyped
<1>18. ASSUME NEW l \in Lookup, NEW p \in Proxy, CheckOracle(l, p)
      PROVE  Typed'
  <2>1. \E v \in AnswerPc : put' = [put EXCEPT ![l][p] = v]
    BY <1>18 DEF CheckOracle, AnswerPc
  <2> QED
    BY <1>18, <2>1, AnswerTyped, CacheUntouchedTyped DEF CheckOracle, RestTyped
<1>19. ASSUME NEW l \in Lookup, NEW p \in Proxy, CleanupOracle(l, p)
      PROVE  Typed'
  <2>1. \E v \in AnswerPc : put' = [put EXCEPT ![l][p] = v]
    BY <1>19 DEF CleanupOracle, AnswerPc
  <2> QED
    BY <1>19, <2>1, AnswerTyped, CacheUntouchedTyped DEF CleanupOracle, RestTyped
<1>20. ASSUME NEW l \in Lookup, NEW p \in Proxy, ForwardError(l, p)
      PROVE  Typed'
  <2>1. \E v \in AnswerPc : put' = [put EXCEPT ![l][p] = v]
    BY <1>20 DEF ForwardError, AnswerPc
  <2> QED
    BY <1>20, <2>1, AnswerTyped, CacheUntouchedTyped DEF ForwardError, RestTyped
<1>21. ASSUME NEW s \in Dfsp, Expire(s)
      PROVE  Typed'
  <2>1. CacheTyped'
    BY <1>21 DEF Expire, CacheTyped, OwnerOK
  <2> QED
    BY <1>21, <2>1 DEF Expire, getVars, LocalTyped, RestTyped
<1>22. ASSUME NEW s \in Dfsp, SendTimeoutCallback(s)
      PROVE  Typed'
  <2>1. CacheTyped'
    BY <1>22, CacheUntouchedTyped DEF SendTimeoutCallback
  <2> QED
    BY <1>22, <2>1 DEF SendTimeoutCallback, getVars, LocalTyped, RestTyped
<1>23. ASSUME NEW s \in Dfsp, RemoveExpired(s)
      PROVE  Typed'
  <2> QED
    BY <1>23, RemoveEntryTyped DEF RemoveExpired, getVars, LocalTyped, RestTyped
<1>24. CASE UNCHANGED vars
  BY <1>24, CacheUntouchedTyped DEF vars, cacheVars, LocalTyped, RestTyped
<1>25. ASSUME NEW s \in Dfsp, FindExpired(s)
      PROVE  Typed'
  BY <1>25, CacheUntouchedTyped
  DEF FindExpired, CacheTyped, getVars, LocalTyped, RestTyped
<1> QED
  BY <1>1, <1>2, <1>3, <1>4, <1>5, <1>6, <1>7, <1>8, <1>9, <1>10, <1>11, <1>12,
     <1>13, <1>14, <1>15, <1>16, <1>17, <1>18, <1>19, <1>20, <1>21, <1>22, <1>23,
     <1>24, <1>25, StepOfAHandler

\* Every handler keeps the state it shares with the others well formed.
THEOREM TypeCorrect == Spec => []TypeOK
<1>1. Init => TypeInv
  BY TypeInvInit
<1>2. TypeInv /\ [Next]_vars => TypeInv'
  BY TypeInvNext
<1>3. TypeInv => TypeOK
  BY DEF TypeInv
<1> QED
  BY <1>1, <1>2, <1>3, PTL DEF Spec

-----------------------------------------------------------------------------
(***************************************************************************)
(* The entry of the proxy cache and the lookup that stored it.             *)
(*                                                                         *)
(* A step of one handler touches one lookup.  Another lookup m keeps its   *)
(* part of the invariant because its own handlers stand still and the      *)
(* entry, if it is the one of m, can only lose proxies (EntryKept).        *)
(***************************************************************************)
WaitingInv == EntryWaits /\ \A l \in Lookup : LookupInv(l)

Still(m) == /\ get'[m] = get[m] /\ wasLast'[m] = wasLast[m]
            /\ discovery'[m] = discovery[m]
            /\ \A q \in Proxy : send'[m][q] = send[m][q] /\ put'[m][q] = put[m][q]

EntryKept(m) == EntryOf(m)' =>
  /\ EntryOf(m)
  /\ pending'[SourceOf[m]] \subseteq pending[SourceOf[m]]

\* A lookup whose own state a step leaves alone, and whose entry only shrinks
\* or goes away, keeps its part of the invariant.
LEMMA StillLookup ==
  ASSUME CacheTyped, NEW m \in Lookup, LookupInv(m), Still(m), EntryKept(m)
  PROVE  LookupInv(m)'
<1>1. NothingSent(m)'
  BY DEF LookupInv, NothingSent, Still, Undecided
<1>2. EntryAlive(m)'
  BY DEF LookupInv, EntryAlive, Still, EntryKept
<1>3. Outstanding(m)'
  BY LookupAssumption DEF LookupInv, Outstanding, Still, EntryKept, CacheTyped
<1> QED
  BY <1>1, <1>2, <1>3 DEF LookupInv

\* A step that leaves the cache alone keeps every entry.
LEMMA CacheUntouchedKeeps ==
  ASSUME UNCHANGED cacheVars
  PROVE  (EntryWaits => EntryWaits') /\ \A m \in Lookup : EntryKept(m)
BY DEF cacheVars, EntryWaits, EntryKept, EntryOf

\* Counting the answer of p takes p off the list of one source, and the entry
\* away with the last proxy; every other entry stays.
LEMMA ReceivedResponseKeeps ==
  ASSUME CacheTyped, EntryWaits, NEW s \in Dfsp, NEW p \in Proxy, NEW b \in BOOLEAN,
         ReceivedResponse(s, p, b)
  PROVE  /\ EntryWaits'
         /\ \A m \in Lookup : EntryKept(m)
         /\ \A m \in Lookup : SourceOf[m] = s /\ EntryOf(m)' => p \notin pending'[s]
<1>1. \A r \in Dfsp : /\ r # s => pending'[r] = pending[r] /\ expiry'[r] = expiry[r]
                      /\ owner'[r] = owner[r]
  BY DEF CacheTyped, ReceivedResponse
<1>2. /\ pending'[s] = pending[s] \ {p}
      /\ expiry'[s] = IF pending[s] \ {p} = {} THEN "none" ELSE expiry[s]
  BY DEF CacheTyped, ReceivedResponse
<1>3. EntryWaits'
  BY <1>1, <1>2 DEF EntryWaits
<1>4. \A m \in Lookup : EntryKept(m)
  BY <1>1, <1>2, LookupAssumption DEF EntryKept, EntryOf
<1> QED
  BY <1>2, <1>3, <1>4

\* Removing an entry creates none and adds no proxy to another.
LEMMA RemoveEntryKeeps ==
  ASSUME CacheTyped, EntryWaits, NEW s \in Dfsp, RemoveEntry(s)
  PROVE  EntryWaits' /\ \A m \in Lookup : EntryKept(m)
<1>1. \A r \in Dfsp : /\ r # s => pending'[r] = pending[r] /\ expiry'[r] = expiry[r]
                      /\ owner'[r] = owner[r]
  BY DEF CacheTyped, RemoveEntry
<1>2. pending'[s] = {} /\ expiry'[s] = "none"
  BY DEF CacheTyped, RemoveEntry
<1>3. EntryWaits'
  BY <1>1, <1>2 DEF EntryWaits
<1>4. \A m \in Lookup : EntryKept(m)
  BY <1>1, <1>2, LookupAssumption DEF EntryKept, EntryOf
<1> QED
  BY <1>3, <1>4

(***************************************************************************)
(* The steps by their effect on the lookup they are about.                 *)
(***************************************************************************)
\* The values of put that an entry may still wait for.
Awaited == Uncounted \cup {"returned"}

\* An answer moves on.  It has been sent for, and if the entry still waits for
\* it afterwards then it has not been dealt with.
LEMMA AnswerStep ==
  ASSUME TypeInv, WaitingInv, NEW l \in Lookup, NEW p \in Proxy, NEW v \in AnswerPc,
         put' = [put EXCEPT ![l][p] = v],
         UNCHANGED <<get, send, wasLast, discovery>>,
         send[l][p] # "none" \/ put[l][p] # "none",
         EntryWaits', \A m \in Lookup : EntryKept(m),
         EntryOf(l)' /\ p \in pending'[SourceOf[l]] => v \in Awaited
  PROVE  WaitingInv'
<1>1. \A m \in Lookup, q \in Proxy :
        put'[m][q] = IF m = l /\ q = p THEN v ELSE put[m][q]
  BY CellUpdate DEF TypeInv, TypeOK
<1>2. ASSUME NEW m \in Lookup, m # l PROVE LookupInv(m)'
  <2>1. Still(m)
    BY <1>1, <1>2 DEF Still
  <2> QED
    BY <2>1, StillLookup, TypeInvHasCacheTyped DEF WaitingInv
<1>3. NothingSent(l)'
  BY <1>1 DEF WaitingInv, LookupInv, NothingSent
<1>4. EntryAlive(l)'
  BY DEF WaitingInv, LookupInv, EntryAlive, EntryKept
<1>5. Outstanding(l)'
  BY <1>1 DEF WaitingInv, LookupInv, Outstanding, EntryKept, Awaited
<1> QED
  BY <1>2, <1>3, <1>4, <1>5 DEF WaitingInv, LookupInv

\* A send settles, without being written off yet.
LEMMA SendStepKeeps ==
  ASSUME TypeInv, WaitingInv, NEW l \in Lookup, NEW p \in Proxy,
         NEW v \in SendPc \ {"none", "dropped"},
         send' = [send EXCEPT ![l][p] = v],
         wasLast' \in {wasLast, [wasLast EXCEPT ![l] = FALSE]},
         UNCHANGED <<get, put, cacheVars, discovery>>,
         send[l][p] # "none"
  PROVE  WaitingInv'
<1>1. \A m \in Lookup, q \in Proxy :
        send'[m][q] = IF m = l /\ q = p THEN v ELSE send[m][q]
  BY CellUpdate DEF TypeInv, TypeOK
<1>2. \A m \in Lookup : wasLast'[m] = wasLast[m] \/ (m = l /\ ~wasLast'[m])
  BY DEF TypeInv, TypeOK
<1>3. EntryWaits' /\ \A m \in Lookup : EntryKept(m)
  BY CacheUntouchedKeeps DEF WaitingInv, cacheVars
<1>4. ASSUME NEW m \in Lookup, m # l PROVE LookupInv(m)'
  <2>1. Still(m)
    BY <1>1, <1>2, <1>4 DEF Still
  <2> QED
    BY <1>3, <2>1, StillLookup, TypeInvHasCacheTyped DEF WaitingInv
<1>5. NothingSent(l)'
  BY <1>1 DEF WaitingInv, LookupInv, NothingSent
<1>6. EntryAlive(l)'
  BY <1>2, <1>3 DEF WaitingInv, LookupInv, EntryAlive, EntryKept
<1>7. Outstanding(l)'
  BY <1>1, <1>3 DEF WaitingInv, LookupInv, Outstanding, EntryKept
<1> QED
  BY <1>3, <1>4, <1>5, <1>6, <1>7 DEF WaitingInv, LookupInv

\* The GET handler moves on without sending.  A lookup with an entry does not
\* fail, and a handler that has decided does not go back.
LEMMA GetStepKeeps ==
  ASSUME TypeInv, WaitingInv, NEW l \in Lookup, NEW v \in GetPc,
         get' = [get EXCEPT ![l] = v],
         UNCHANGED <<send, wasLast, put, cacheVars, discovery>>,
         v \in Undecided => get[l] \in Undecided,
         EntryOf(l) => v \in {"sending", "done"}
  PROVE  WaitingInv'
<1>1. \A m \in Lookup : get'[m] = IF m = l THEN v ELSE get[m]
  BY DEF TypeInv, TypeOK
<1>2. EntryWaits' /\ \A m \in Lookup : EntryKept(m)
  BY CacheUntouchedKeeps DEF WaitingInv, cacheVars
<1>3. ASSUME NEW m \in Lookup, m # l PROVE LookupInv(m)'
  <2>1. Still(m)
    BY <1>1, <1>3 DEF Still
  <2> QED
    BY <1>2, <2>1, StillLookup, TypeInvHasCacheTyped DEF WaitingInv
<1>4. NothingSent(l)'
  BY <1>1 DEF WaitingInv, LookupInv, NothingSent
<1>5. EntryAlive(l)'
  BY <1>1, <1>2 DEF WaitingInv, LookupInv, EntryAlive, EntryKept
<1>6. Outstanding(l)'
  BY <1>2 DEF WaitingInv, LookupInv, Outstanding, EntryKept
<1> QED
  BY <1>2, <1>3, <1>4, <1>5, <1>6 DEF WaitingInv, LookupInv

(***************************************************************************)
(* Each action preserves the invariant.                                    *)
(***************************************************************************)
LEMMA WaitingInvInit == Init => WaitingInv
BY LookupAssumption
DEF Init, WaitingInv, EntryWaits, LookupInv, NothingSent, EntryAlive, Outstanding, EntryOf

\* The party of the requester's lookup is still being looked up elsewhere.
LEMMA DiscoverKeeps ==
  ASSUME TypeInv, WaitingInv, NEW l \in Lookup, Discover(l),
         Proxy # {}, expiry[SourceOf[l]] = "none"
  PROVE  WaitingInv'
<1> DEFINE s == SourceOf[l]
<1>1. /\ pending' = [pending EXCEPT ![s] = Proxy]
      /\ expiry' = [expiry EXCEPT ![s] = "armed"]
      /\ owner' = [owner EXCEPT ![s] = l]
      /\ get' = [get EXCEPT ![l] = "sending"]
      /\ send' = [send EXCEPT ![l] = [p \in Proxy |-> "flying"]]
      /\ discovery' = [discovery EXCEPT ![l] = "stored"]
      /\ UNCHANGED <<wasLast, put>>
      /\ get[l] = "discover"
  BY DEF Discover, SetSendToProxiesList
<1>2. s \in Dfsp
  BY LookupAssumption
<1>3. EntryWaits'
  BY <1>1, <1>2 DEF TypeInv, TypeOK, WaitingInv, EntryWaits
<1>4. ASSUME NEW m \in Lookup, m # l PROVE LookupInv(m)'
  <2>1. Still(m)
    BY <1>1, <1>4 DEF Still, TypeInv, TypeOK
  <2>2. EntryKept(m)
    <3>1. CASE SourceOf[m] = s
      BY <1>1, <1>2, <1>4, <3>1 DEF EntryKept, EntryOf, TypeInv, TypeOK
    <3>2. CASE SourceOf[m] # s
      BY <1>1, <1>2, <3>2 DEF EntryKept, EntryOf, TypeInv, TypeOK
    <3> QED
      BY <3>1, <3>2
  <2> QED
    BY <2>1, <2>2, StillLookup, TypeInvHasCacheTyped DEF WaitingInv
<1>5. /\ get'[l] = "sending" /\ discovery'[l] = "stored"
      /\ \A p \in Proxy : send'[l][p] = "flying"
  BY <1>1, <1>2 DEF TypeInv, TypeOK
<1>6. ~wasLast'[l] /\ \A p \in Proxy : put'[l][p] = "none"
  BY <1>1 DEF WaitingInv, LookupInv, NothingSent, Undecided
<1>7. pending'[s] = Proxy
  BY <1>1, <1>2 DEF TypeInv, TypeOK
<1>8. NothingSent(l)' /\ EntryAlive(l)'
  BY <1>5, <1>6 DEF NothingSent, EntryAlive, Undecided
<1>9. Outstanding(l)'
  BY <1>5, <1>6, <1>7 DEF Outstanding, Uncounted
<1> QED
  BY <1>3, <1>4, <1>8, <1>9 DEF WaitingInv, LookupInv

\* The failed proxy leaves the list; if it was the last, so does the entry.
LEMMA RemoveFailedProxyKeeps ==
  ASSUME TypeInv, WaitingInv, NEW l \in Lookup, NEW p \in Proxy,
         RemoveFailedProxy(l, p)
  PROVE  WaitingInv'
<1> DEFINE s == SourceOf[l]
<1>1. /\ ReceivedResponse(s, p, FALSE)
      /\ send' = [send EXCEPT ![l][p] = "dropped"]
      /\ wasLast' = [wasLast EXCEPT ![l] = IsLastWithoutSuccess(s, p)]
      /\ UNCHANGED <<get, put, discovery>>
      /\ get[l] = "sending"
      /\ s \in Dfsp
  BY LookupAssumption DEF RemoveFailedProxy
<1>2. /\ EntryWaits' /\ \A m \in Lookup : EntryKept(m)
      /\ EntryOf(l)' => p \notin pending'[s]
  BY <1>1, ReceivedResponseKeeps, TypeInvHasCacheTyped DEF WaitingInv
<1>3. \A m \in Lookup, q \in Proxy :
        send'[m][q] = IF m = l /\ q = p THEN "dropped" ELSE send[m][q]
  BY <1>1, CellUpdate DEF TypeInv, TypeOK, SendPc
<1>4. ASSUME NEW m \in Lookup, m # l PROVE LookupInv(m)'
  <2>1. Still(m)
    BY <1>1, <1>3, <1>4 DEF Still, TypeInv, TypeOK
  <2> QED
    BY <1>2, <2>1, StillLookup, TypeInvHasCacheTyped DEF WaitingInv
<1>5. EntryOf(l)' => ~wasLast'[l]
  <2>1. pending[s] = {p} => expiry'[s] = "none"
    BY <1>1 DEF ReceivedResponse, TypeInv, TypeOK
  <2>2. wasLast'[l] = IsLastWithoutSuccess(s, p)
    BY <1>1 DEF TypeInv, TypeOK
  <2> QED
    BY <2>1, <2>2 DEF EntryOf, IsLastWithoutSuccess
<1>6. NothingSent(l)' /\ EntryAlive(l)'
  BY <1>1, <1>2, <1>5
  DEF NothingSent, EntryAlive, Undecided, WaitingInv, LookupInv, EntryKept
<1>7. Outstanding(l)'
  BY <1>1, <1>2, <1>3 DEF Outstanding, WaitingInv, LookupInv, EntryKept
<1> QED
  BY <1>2, <1>4, <1>6, <1>7 DEF WaitingInv, LookupInv

\* The expiry job marks the lookup it is at as called back.
LEMMA SendTimeoutCallbackKeeps ==
  ASSUME TypeInv, JobOK, WaitingInv, NEW s \in Dfsp, SendTimeoutCallback(s)
  PROVE  WaitingInv'
<1>0. PICK l \in Lookup : l = expiring[s] /\ discovery[l] # "none"
  BY DEF SendTimeoutCallback, JobOK
<1>1. UNCHANGED <<get, send, wasLast, put>> /\ UNCHANGED cacheVars
  BY DEF SendTimeoutCallback, getVars
<1>2. \A m \in Lookup : IF m = l THEN discovery'[m] \in {"timedOut", "untold"}
                                 ELSE discovery'[m] = discovery[m]
  BY <1>0 DEF SendTimeoutCallback, TypeInv, TypeOK
<1>3. EntryWaits' /\ \A m \in Lookup : EntryKept(m)
  BY <1>1, CacheUntouchedKeeps DEF WaitingInv
<1>4. ASSUME NEW m \in Lookup, m # l PROVE LookupInv(m)'
  <2>1. Still(m)
    BY <1>1, <1>2, <1>4 DEF Still
  <2> QED
    BY <1>3, <2>1, StillLookup, TypeInvHasCacheTyped DEF WaitingInv
<1>5. NothingSent(l)'
  BY <1>0, <1>1 DEF WaitingInv, LookupInv, NothingSent
<1>6. EntryAlive(l)'
  BY <1>1, <1>2, <1>3 DEF WaitingInv, LookupInv, EntryAlive, EntryKept
<1>7. Outstanding(l)'
  BY <1>1, <1>3 DEF WaitingInv, LookupInv, Outstanding, EntryKept
<1> QED
  BY <1>3, <1>4, <1>5, <1>6, <1>7 DEF WaitingInv, LookupInv

\* A lookup with an entry waits for a proxy whose send was not written off.
LEMMA EntryHasLiveSend ==
  ASSUME TypeInv, WaitingInv, NEW l \in Lookup, EntryOf(l)
  PROVE  ~wasLast[l] /\ \E p \in Proxy : send[l][p] # "dropped"
<1>1. pending[SourceOf[l]] # {} /\ pending[SourceOf[l]] \subseteq Proxy
  BY LookupAssumption DEF EntryOf, WaitingInv, EntryWaits, TypeInv, TypeOK
<1> QED
  BY <1>1 DEF WaitingInv, LookupInv, EntryAlive, Outstanding

\* Every step keeps the entries in step with the handlers that serve them.
LEMMA WaitingInvNext == TypeInv /\ JobOK /\ WaitingInv /\ [Next]_vars => WaitingInv'
<1> SUFFICES ASSUME TypeInv, JobOK, WaitingInv, [Next]_vars
             PROVE  WaitingInv'
  OBVIOUS
<1>1. ASSUME NEW l \in Lookup, ReceiveLookup(l) PROVE WaitingInv'
  <2>1. PICK v \in GetPc : get' = [get EXCEPT ![l] = v]
    BY <1>1 DEF ReceiveLookup, GetPc
  <2>2. get'[l] = v
    BY <2>1 DEF TypeInv, TypeOK
  <2>3. v \in Undecided => get[l] \in Undecided
    BY <1>1, <2>2 DEF ReceiveLookup, Undecided, TypeInv, TypeOK
  <2>4. EntryOf(l) => v \in {"sending", "done"}
    BY <1>1, <2>2 DEF ReceiveLookup, WaitingInv, LookupInv, EntryAlive, TypeInv, TypeOK
  <2> QED
    BY <1>1, <2>1, <2>3, <2>4, GetStepKeeps DEF ReceiveLookup
<1>2. ASSUME NEW l \in Lookup, ConsultOracle(l) PROVE WaitingInv'
  <2>1. CASE UNCHANGED send
    <3>1. PICK v \in GetPc : get' = [get EXCEPT ![l] = v]
      BY <1>2 DEF ConsultOracle, GetPc
    <3>2. get[l] = "oracle" /\ ~EntryOf(l)
      BY <1>2 DEF ConsultOracle, WaitingInv, LookupInv, EntryAlive
    <3> QED
      BY <1>2, <2>1, <3>1, <3>2, GetStepKeeps DEF ConsultOracle, Undecided
  <2>2. CASE /\ mapping # None /\ get' = [get EXCEPT ![l] = "direct"]
             /\ send' = [send EXCEPT ![l][mapping] = "flying"]
    <3>1. mapping \in Proxy
      BY <2>2 DEF TypeInv, TypeOK
    <3>2. UNCHANGED <<wasLast, put, cacheVars, discovery>> /\ get[l] = "oracle"
      BY <1>2 DEF ConsultOracle
    <3>3. EntryWaits' /\ \A m \in Lookup : EntryKept(m)
      BY <3>2, CacheUntouchedKeeps DEF WaitingInv
    <3>4. \A m \in Lookup, q \in Proxy :
            send'[m][q] = IF m = l /\ q = mapping THEN "flying" ELSE send[m][q]
      BY <2>2, <3>1, CellUpdate DEF TypeInv, TypeOK, SendPc
    <3>5. ASSUME NEW m \in Lookup, m # l PROVE LookupInv(m)'
      <4>1. Still(m)
        BY <2>2, <3>2, <3>4, <3>5 DEF Still, TypeInv, TypeOK
      <4> QED
        BY <3>3, <4>1, StillLookup, TypeInvHasCacheTyped DEF WaitingInv
    <3>6. get'[l] = "direct"
      BY <2>2 DEF TypeInv, TypeOK
    <3>7. ~EntryOf(l)'
      BY <3>2, <3>3 DEF EntryKept, WaitingInv, LookupInv, EntryAlive
    <3>8. LookupInv(l)'
      BY <3>6, <3>7 DEF LookupInv, NothingSent, EntryAlive, Outstanding, Undecided
    <3> QED
      BY <3>3, <3>5, <3>8 DEF WaitingInv
  <2> QED
    BY <1>2, <2>1, <2>2 DEF ConsultOracle
<1>3. ASSUME NEW l \in Lookup, DropReference(l) PROVE WaitingInv'
  <2>1. PICK v \in GetPc : get' = [get EXCEPT ![l] = v]
    BY <1>3 DEF DropReference, GetPc
  <2>2. get'[l] = v
    BY <2>1 DEF TypeInv, TypeOK
  <2>3. v \in Undecided => get[l] \in Undecided
    BY <1>3, <2>2 DEF DropReference, Undecided, TypeInv, TypeOK
  <2>4. EntryOf(l) => v \in {"sending", "done"}
    BY <1>3, <2>2 DEF DropReference, WaitingInv, LookupInv, EntryAlive, TypeInv, TypeOK
  <2> QED
    BY <1>3, <2>1, <2>3, <2>4, GetStepKeeps DEF DropReference
<1>4. ASSUME NEW l \in Lookup, Discover(l) PROVE WaitingInv'
  <2>1. CASE Proxy = {} \/ expiry[SourceOf[l]] # "none"
    <3>1. get' = [get EXCEPT ![l] = "failing"] /\ get[l] = "discover"
      BY <1>4, <2>1 DEF Discover
    <3>2. "failing" \in GetPc /\ "failing" \notin Undecided /\ ~EntryOf(l)
      BY <3>1 DEF GetPc, Undecided, WaitingInv, LookupInv, EntryAlive
    <3> QED
      BY <1>4, <2>1, <3>1, <3>2, GetStepKeeps DEF Discover
  <2>2. CASE ~(Proxy = {} \/ expiry[SourceOf[l]] # "none")
    BY <1>4, <2>2, DiscoverKeeps
  <2> QED
    BY <2>1, <2>2
<1>5. ASSUME NEW l \in Lookup, ConcludeDiscovery(l) PROVE WaitingInv'
  <2>1. PICK v \in GetPc : get' = [get EXCEPT ![l] = v]
    BY <1>5 DEF ConcludeDiscovery, GetPc
  <2>2. get'[l] = v
    BY <2>1 DEF TypeInv, TypeOK
  <2>3. v \in Undecided => get[l] \in Undecided
    BY <1>5, <2>2 DEF ConcludeDiscovery, Undecided, TypeInv, TypeOK
  <2>4. EntryOf(l) => v \in {"sending", "done"}
    BY <1>5, <2>2, EntryHasLiveSend DEF ConcludeDiscovery, WaitingInv, LookupInv, EntryAlive, TypeInv, TypeOK
  <2> QED
    BY <1>5, <2>1, <2>3, <2>4, GetStepKeeps DEF ConcludeDiscovery
<1>6. ASSUME NEW l \in Lookup, ReportFailure(l) PROVE WaitingInv'
  <2>1. PICK v \in GetPc : get' = [get EXCEPT ![l] = v]
    BY <1>6 DEF ReportFailure, GetPc
  <2>2. get'[l] = v
    BY <2>1 DEF TypeInv, TypeOK
  <2>3. v \in Undecided => get[l] \in Undecided
    BY <1>6, <2>2 DEF ReportFailure, Undecided, TypeInv, TypeOK
  <2>4. EntryOf(l) => v \in {"sending", "done"}
    BY <1>6, <2>2 DEF ReportFailure, WaitingInv, LookupInv, EntryAlive, TypeInv, TypeOK
  <2> QED
    BY <1>6, <2>1, <2>3, <2>4, GetStepKeeps DEF ReportFailure
<1>7. ASSUME NEW l \in Lookup, NEW p \in Proxy, ConcludeDirect(l, p) PROVE WaitingInv'
  <2>1. PICK v \in GetPc : get' = [get EXCEPT ![l] = v]
    BY <1>7 DEF ConcludeDirect, GetPc
  <2>2. get'[l] = v
    BY <2>1 DEF TypeInv, TypeOK
  <2>3. v \in Undecided => get[l] \in Undecided
    BY <1>7, <2>2 DEF ConcludeDirect, Undecided, TypeInv, TypeOK
  <2>4. EntryOf(l) => v \in {"sending", "done"}
    BY <1>7, <2>2 DEF ConcludeDirect, WaitingInv, LookupInv, EntryAlive, TypeInv, TypeOK
  <2> QED
    BY <1>7, <2>1, <2>3, <2>4, GetStepKeeps DEF ConcludeDirect
<1>8. ASSUME NEW l \in Lookup, NEW p \in Proxy, ReachProxy(l, p) PROVE WaitingInv'
  <2>1. PICK v \in AnswerPc : put' = [put EXCEPT ![l][p] = v]
    BY <1>8 DEF ReachProxy, AnswerPc
  <2>2. v = put'[l][p]
    BY <2>1, CellUpdate DEF TypeInv, TypeOK
  <2>3. EntryOf(l)' /\ p \in pending'[SourceOf[l]] => v \in Awaited
    BY <1>8, <2>1, <2>2, CacheUntouchedKeeps
    DEF ReachProxy, WaitingInv, LookupInv, Outstanding, EntryKept, Awaited, Uncounted, TypeInv, TypeOK
  <2> QED
    BY <1>8, <2>1, <2>3, AnswerStep, CacheUntouchedKeeps DEF ReachProxy, getVars, WaitingInv
<1>9. ASSUME NEW l \in Lookup, NEW p \in Proxy, SendSucceeds(l, p) PROVE WaitingInv'
  <2>1. "sent" \in SendPc \ {"none", "dropped"}
    BY DEF SendPc
  <2> QED
    BY <1>9, <2>1, SendStepKeeps DEF SendSucceeds
<1>10. ASSUME NEW l \in Lookup, NEW p \in Proxy, SendFails(l, p) PROVE WaitingInv'
  <2>1. "failed" \in SendPc \ {"none", "dropped"}
    BY DEF SendPc
  <2> QED
    BY <1>10, <2>1, SendStepKeeps DEF SendFails
<1>11. ASSUME NEW l \in Lookup, NEW p \in Proxy, RemoveFailedProxy(l, p) PROVE WaitingInv'
  BY <1>11, RemoveFailedProxyKeeps
<1>12. ASSUME NEW l \in Lookup, NEW p \in Proxy, Answer(l, p) PROVE WaitingInv'
  <2>1. PICK v \in AnswerPc : /\ put' = [put EXCEPT ![l][p] = v]
                             /\ v \in {"okIn", "errIn"}
    BY <1>12 DEF Answer, AnswerPc
  <2>2. v \in Awaited
    BY <2>1 DEF Awaited, Uncounted
  <2>3. /\ UNCHANGED <<get, send, wasLast, discovery>> /\ put[l][p] # "none"
        /\ EntryWaits' /\ \A m \in Lookup : EntryKept(m)
    BY <1>12, CacheUntouchedKeeps DEF Answer, getVars, WaitingInv
  <2> QED
    BY <2>1, <2>2, <2>3, AnswerStep
<1>13. ASSUME NEW l \in Lookup, NEW p \in Proxy, CountSuccess(l, p) PROVE WaitingInv'
  <2>1. PICK v \in AnswerPc :
          /\ put' = [put EXCEPT ![l][p] = v]
          /\ \/ ReceivedResponse(SourceOf[l], p, TRUE)
             \/ UNCHANGED cacheVars /\ (p \notin pending[SourceOf[l]] \/ v = "returned")
    BY <1>13 DEF CountSuccess, AnswerPc
  <2>3. UNCHANGED <<get, send, wasLast, discovery>> /\ put[l][p] # "none"
    BY <1>13 DEF CountSuccess, getVars
  <2>4. CASE ReceivedResponse(SourceOf[l], p, TRUE)
    <3>1. /\ EntryWaits' /\ \A m \in Lookup : EntryKept(m)
          /\ EntryOf(l)' => p \notin pending'[SourceOf[l]]
      BY <2>4, LookupAssumption, ReceivedResponseKeeps, TypeInvHasCacheTyped
      DEF WaitingInv
    <3> QED
      BY <2>1, <2>3, <3>1, AnswerStep
  <2>5. CASE UNCHANGED cacheVars /\ (p \notin pending[SourceOf[l]] \/ v = "returned")
    <3>1. EntryWaits' /\ \A m \in Lookup : EntryKept(m)
      BY <2>5, CacheUntouchedKeeps DEF WaitingInv
    <3>2. p \in pending'[SourceOf[l]] => v \in Awaited
      BY <2>5 DEF cacheVars, Awaited
    <3> QED
      BY <2>1, <2>3, <3>1, <3>2, AnswerStep
  <2> QED
    BY <2>1, <2>4, <2>5
<1>14. ASSUME NEW l \in Lookup, NEW p \in Proxy, PostMapping(l, p) PROVE WaitingInv'
  <2>1. PICK v \in AnswerPc : put' = [put EXCEPT ![l][p] = v]
    BY <1>14 DEF PostMapping, AnswerPc
  <2>2. v = put'[l][p]
    BY <2>1, CellUpdate DEF TypeInv, TypeOK
  <2>3. EntryOf(l)' /\ p \in pending'[SourceOf[l]] => v \in Awaited
    BY <1>14, <2>1, <2>2, CacheUntouchedKeeps
    DEF PostMapping, WaitingInv, LookupInv, Outstanding, EntryKept, Awaited, Uncounted, TypeInv, TypeOK
  <2> QED
    BY <1>14, <2>1, <2>3, AnswerStep, CacheUntouchedKeeps DEF PostMapping, getVars, WaitingInv
<1>15. ASSUME NEW l \in Lookup, NEW p \in Proxy, ForwardSuccess(l, p) PROVE WaitingInv'
  <2>1. PICK v \in AnswerPc : put' = [put EXCEPT ![l][p] = v]
    BY <1>15 DEF ForwardSuccess, AnswerPc
  <2>2. v = put'[l][p]
    BY <2>1, CellUpdate DEF TypeInv, TypeOK
  <2>3. EntryOf(l)' /\ p \in pending'[SourceOf[l]] => v \in Awaited
    BY <1>15, <2>1, <2>2, CacheUntouchedKeeps
    DEF ForwardSuccess, WaitingInv, LookupInv, Outstanding, EntryKept, Awaited, Uncounted, TypeInv, TypeOK
  <2> QED
    BY <1>15, <2>1, <2>3, AnswerStep, CacheUntouchedKeeps DEF ForwardSuccess, getVars, WaitingInv
<1>16. ASSUME NEW l \in Lookup, NEW p \in Proxy, CheckPending(l, p) PROVE WaitingInv'
  <2>1. PICK v \in AnswerPc : put' = [put EXCEPT ![l][p] = v]
    BY <1>16 DEF CheckPending, AnswerPc
  <2>2. v = put'[l][p]
    BY <2>1, CellUpdate DEF TypeInv, TypeOK
  <2>3. EntryOf(l)' /\ p \in pending'[SourceOf[l]] => v \in Awaited
    BY <1>16, <2>1, <2>2, CacheUntouchedKeeps
    DEF CheckPending, WaitingInv, LookupInv, Outstanding, EntryKept, Awaited, Uncounted, TypeInv, TypeOK
  <2> QED
    BY <1>16, <2>1, <2>3, AnswerStep, CacheUntouchedKeeps DEF CheckPending, getVars, WaitingInv
<1>17. ASSUME NEW l \in Lookup, NEW p \in Proxy, CountError(l, p) PROVE WaitingInv'
  <2>1. PICK v \in AnswerPc : put' = [put EXCEPT ![l][p] = v]
    BY <1>17 DEF CountError, AnswerPc
  <2>2. UNCHANGED <<get, send, wasLast, discovery>> /\ put[l][p] # "none"
    BY <1>17 DEF CountError, getVars
  <2>3. /\ EntryWaits' /\ \A m \in Lookup : EntryKept(m)
        /\ EntryOf(l)' => p \notin pending'[SourceOf[l]]
    BY <1>17, LookupAssumption, ReceivedResponseKeeps, TypeInvHasCacheTyped
    DEF CountError, WaitingInv
  <2> QED
    BY <2>1, <2>2, <2>3, AnswerStep
<1>18. ASSUME NEW l \in Lookup, NEW p \in Proxy, CheckOracle(l, p) PROVE WaitingInv'
  <2>1. PICK v \in AnswerPc : put' = [put EXCEPT ![l][p] = v]
    BY <1>18 DEF CheckOracle, AnswerPc
  <2>2. v = put'[l][p]
    BY <2>1, CellUpdate DEF TypeInv, TypeOK
  <2>3. EntryOf(l)' /\ p \in pending'[SourceOf[l]] => v \in Awaited
    BY <1>18, <2>1, <2>2, CacheUntouchedKeeps
    DEF CheckOracle, WaitingInv, LookupInv, Outstanding, EntryKept, Awaited, Uncounted, TypeInv, TypeOK
  <2> QED
    BY <1>18, <2>1, <2>3, AnswerStep, CacheUntouchedKeeps DEF CheckOracle, getVars, WaitingInv
<1>19. ASSUME NEW l \in Lookup, NEW p \in Proxy, CleanupOracle(l, p) PROVE WaitingInv'
  <2>1. PICK v \in AnswerPc : put' = [put EXCEPT ![l][p] = v]
    BY <1>19 DEF CleanupOracle, AnswerPc
  <2>2. v = put'[l][p]
    BY <2>1, CellUpdate DEF TypeInv, TypeOK
  <2>3. EntryOf(l)' /\ p \in pending'[SourceOf[l]] => v \in Awaited
    BY <1>19, <2>1, <2>2, CacheUntouchedKeeps
    DEF CleanupOracle, WaitingInv, LookupInv, Outstanding, EntryKept, Awaited, Uncounted, TypeInv, TypeOK
  <2> QED
    BY <1>19, <2>1, <2>3, AnswerStep, CacheUntouchedKeeps DEF CleanupOracle, getVars, WaitingInv
<1>20. ASSUME NEW l \in Lookup, NEW p \in Proxy, ForwardError(l, p) PROVE WaitingInv'
  <2>1. PICK v \in AnswerPc : put' = [put EXCEPT ![l][p] = v]
    BY <1>20 DEF ForwardError, AnswerPc
  <2>2. v = put'[l][p]
    BY <2>1, CellUpdate DEF TypeInv, TypeOK
  <2>3. EntryOf(l)' /\ p \in pending'[SourceOf[l]] => v \in Awaited
    BY <1>20, <2>1, <2>2, CacheUntouchedKeeps
    DEF ForwardError, WaitingInv, LookupInv, Outstanding, EntryKept, Awaited, Uncounted, TypeInv, TypeOK
  <2> QED
    BY <1>20, <2>1, <2>3, AnswerStep, CacheUntouchedKeeps DEF ForwardError, getVars, WaitingInv
<1>21. ASSUME NEW s \in Dfsp, Expire(s) PROVE WaitingInv'
  <2>1. UNCHANGED <<get, send, wasLast, put, pending, owner, discovery>>
    BY <1>21 DEF Expire, getVars
  <2>2. expiry[s] = "armed" /\ expiry' = [expiry EXCEPT ![s] = "expired"]
    BY <1>21 DEF Expire
  <2>3. EntryWaits'
    BY <2>1, <2>2 DEF TypeInv, TypeOK, WaitingInv, EntryWaits
  <2>4. ASSUME NEW m \in Lookup PROVE LookupInv(m)'
    <3>1. Still(m) /\ EntryKept(m)
      BY <2>1, <2>2 DEF Still, EntryKept, EntryOf, TypeInv, TypeOK
    <3> QED
      BY <3>1, StillLookup, TypeInvHasCacheTyped DEF WaitingInv
  <2> QED
    BY <2>3, <2>4 DEF WaitingInv
<1>22. ASSUME NEW s \in Dfsp, SendTimeoutCallback(s) PROVE WaitingInv'
  BY <1>22, SendTimeoutCallbackKeeps
<1>23. ASSUME NEW s \in Dfsp, RemoveExpired(s) PROVE WaitingInv'
  <2>1. UNCHANGED <<get, send, wasLast, put, discovery>>
    BY <1>23 DEF RemoveExpired, getVars
  <2>2. EntryWaits' /\ \A m \in Lookup : EntryKept(m)
    BY <1>23, RemoveEntryKeeps, TypeInvHasCacheTyped DEF RemoveExpired, WaitingInv
  <2>3. ASSUME NEW m \in Lookup PROVE LookupInv(m)'
    <3>1. Still(m)
      BY <2>1 DEF Still
    <3> QED
      BY <2>2, <3>1, StillLookup, TypeInvHasCacheTyped DEF WaitingInv
  <2> QED
    BY <2>2, <2>3 DEF WaitingInv
<1>24. CASE UNCHANGED vars
  <2>1. EntryWaits' /\ \A m \in Lookup : EntryKept(m) /\ Still(m)
    BY <1>24, CacheUntouchedKeeps DEF vars, cacheVars, WaitingInv, Still
  <2> QED
    BY <2>1, StillLookup, TypeInvHasCacheTyped DEF WaitingInv
<1>25. ASSUME NEW s \in Dfsp, FindExpired(s) PROVE WaitingInv'
  <2>1. EntryWaits' /\ \A m \in Lookup : EntryKept(m) /\ Still(m)
    BY <1>25, CacheUntouchedKeeps DEF FindExpired, getVars, WaitingInv, Still
  <2> QED
    BY <2>1, StillLookup, TypeInvHasCacheTyped DEF WaitingInv
<1> QED
  BY <1>1, <1>2, <1>3, <1>4, <1>5, <1>6, <1>7, <1>8, <1>9, <1>10, <1>11, <1>12,
     <1>13, <1>14, <1>15, <1>16, <1>17, <1>18, <1>19, <1>20, <1>21, <1>22, <1>23,
     <1>24, <1>25, StepOfAHandler

\* Only the start of a discovery and the expiry job touch what the job knows.
LEMMA JobStepsOnly ==
  ASSUME [Next]_vars
  PROVE  \/ \E l \in Lookup : Discover(l)
         \/ \E s \in Dfsp : FindExpired(s) \/ SendTimeoutCallback(s) \/ RemoveExpired(s)
         \/ UNCHANGED <<expiring, discovery>>
<1>1. ASSUME NEW l \in Lookup,
             \/ ReceiveLookup(l) \/ ConsultOracle(l) \/ DropReference(l)
             \/ ConcludeDiscovery(l) \/ ReportFailure(l)
      PROVE  UNCHANGED <<expiring, discovery>>
  BY <1>1 DEF ReceiveLookup, ConsultOracle, DropReference, ConcludeDiscovery, ReportFailure
<1>2. ASSUME NEW l \in Lookup, NEW p \in Proxy,
             \/ ConcludeDirect(l, p) \/ ReachProxy(l, p) \/ SendSucceeds(l, p)
             \/ SendFails(l, p) \/ RemoveFailedProxy(l, p) \/ Answer(l, p)
      PROVE  UNCHANGED <<expiring, discovery>>
  BY <1>2 DEF ConcludeDirect, ReachProxy, SendSucceeds, SendFails, RemoveFailedProxy, Answer
<1>3. ASSUME NEW l \in Lookup, NEW p \in Proxy,
             \/ CountSuccess(l, p) \/ PostMapping(l, p) \/ ForwardSuccess(l, p)
             \/ CheckPending(l, p) \/ CountError(l, p) \/ CheckOracle(l, p)
             \/ CleanupOracle(l, p) \/ ForwardError(l, p)
      PROVE  UNCHANGED <<expiring, discovery>>
  BY <1>3 DEF CountSuccess, PostMapping, ForwardSuccess, CheckPending, CountError,
              CheckOracle, CleanupOracle, ForwardError
<1>4. ASSUME NEW s \in Dfsp, Expire(s) PROVE UNCHANGED <<expiring, discovery>>
  BY <1>4 DEF Expire
<1>5. CASE UNCHANGED vars
  BY <1>5 DEF vars
<1> QED
  BY <1>1, <1>2, <1>3, <1>4, <1>5, StepOfAHandler

\* The expiry job finds lookups that were sent to the proxies, and such a
\* lookup stays one.
LEMMA JobOKNext == TypeInv /\ JobOK /\ WaitingInv /\ [Next]_vars => JobOK'
<1> SUFFICES ASSUME TypeInv, JobOK, WaitingInv, [Next]_vars
             PROVE  JobOK'
  OBVIOUS
<1>1. ASSUME NEW s \in Dfsp, FindExpired(s) PROVE JobOK'
  <2>1. EntryOf(owner[s]) /\ owner[s] \in Lookup /\ SourceOf[owner[s]] = s
    BY <1>1 DEF FindExpired, TypeInv, OwnerOK, EntryOf
  <2>2. discovery[owner[s]] # "none"
    BY <2>1 DEF WaitingInv, LookupInv, EntryAlive
  <2> QED
    BY <1>1, <2>1, <2>2 DEF FindExpired, JobOK, TypeInv, TypeOK
<1>2. ASSUME NEW s \in Dfsp, SendTimeoutCallback(s) PROVE JobOK'
  BY <1>2 DEF SendTimeoutCallback, JobOK, TypeInv, TypeOK
<1>3. ASSUME NEW s \in Dfsp, RemoveExpired(s) PROVE JobOK'
  BY <1>3 DEF RemoveExpired, JobOK, TypeInv, TypeOK
<1>4. ASSUME NEW l \in Lookup, Discover(l) PROVE JobOK'
  BY <1>4 DEF Discover, JobOK, TypeInv, TypeOK
<1>5. CASE UNCHANGED <<expiring, discovery>>
  BY <1>5 DEF JobOK
<1> QED
  BY <1>1, <1>2, <1>3, <1>4, <1>5, JobStepsOnly

\* The invariant of the entries, for every set of lookups, concurrent or not.
THEOREM DiscoveryInvariant == Spec => []DiscoveryInv
<1>1. Init => TypeInv /\ JobOK /\ WaitingInv
  BY TypeInvInit, WaitingInvInit DEF Init, JobOK
<1>2. TypeInv /\ JobOK /\ WaitingInv /\ [Next]_vars => (TypeInv /\ JobOK /\ WaitingInv)'
  BY TypeInvNext, JobOKNext, WaitingInvNext
<1>3. TypeInv /\ JobOK /\ WaitingInv => DiscoveryInv
  BY DEF TypeInv, WaitingInv, DiscoveryInv
<1> QED
  BY <1>1, <1>2, <1>3, PTL DEF Spec

\* No entry waits for a proxy whose answer was consumed or whose send was
\* written off: the list only ever runs empty because all have answered.
THEOREM PendingOutstanding == Spec => []PendingIsOutstanding
<1>1. DiscoveryInv => PendingIsOutstanding
  BY DEF DiscoveryInv, LookupInv, PendingIsOutstanding
<1> QED
  BY <1>1, DiscoveryInvariant, PTL

\* A lookup GetPartiesService reports as failed has no entry that would expire
\* and report it again.
THEOREM FailureClosesEntry == Spec => []FailureLeavesNoEntry
<1>1. DiscoveryInv => FailureLeavesNoEntry
  BY DEF DiscoveryInv, LookupInv, EntryAlive, FailureLeavesNoEntry
<1> QED
  BY <1>1, DiscoveryInvariant, PTL

-----------------------------------------------------------------------------
(***************************************************************************)
(* The verdict of a discovery, when no requester has two lookups of the    *)
(* party under way.  Then an entry belongs to one lookup for good, and a   *)
(* step about one lookup leaves the entries of all others alone.           *)
(***************************************************************************)
Verdicts == \A l \in Lookup : VerdictInv(l)

Inv == TypeInv /\ JobOK /\ WaitingInv /\ Verdicts

EntrySame(m) == /\ expiry'[SourceOf[m]] = expiry[SourceOf[m]]
                /\ owner'[SourceOf[m]] = owner[SourceOf[m]]
                /\ pending'[SourceOf[m]] = pending[SourceOf[m]]
                /\ hasSuccess'[SourceOf[m]] = hasSuccess[SourceOf[m]]

\* A lookup that a step leaves alone, entry included, keeps its verdict.
LEMMA StillVerdict ==
  ASSUME NEW m \in Lookup, VerdictInv(m), Still(m), EntrySame(m)
  PROVE  VerdictInv(m)'
<1>1. \A q \in Proxy : Spent(m, q) => Spent(m, q)'
  BY DEF Still, Spent
<1>2. EntryOf(m)' <=> EntryOf(m)
  BY DEF EntrySame, EntryOf
<1>3. RestSpent(m)'
  BY <1>1, <1>2 DEF EntrySame, RestSpent, VerdictInv
<1>4. UncountedDropped(m)'
  BY <1>2 DEF EntrySame, Still, Expecting, UncountedDropped, VerdictInv
<1>5. LastErrorFinal(m)'
  BY <1>1 DEF Still, LastErrorFinal, VerdictInv
<1>6. StrayCaused(m)'
  BY <1>2 DEF Still, Expecting, StrayCaused, VerdictInv
<1> QED
  BY <1>3, <1>4, <1>5, <1>6 DEF VerdictInv

\* A step about lookup l: the others stand still.
LEMMA OnlyOne ==
  ASSUME Verdicts, NEW l \in Lookup, VerdictInv(l)',
         \A m \in Lookup : m # l => Still(m) /\ EntrySame(m)
  PROVE  Verdicts'
BY StillVerdict DEF Verdicts

\* A proxy in the list belongs to an entry, and that is the lookup's own.
LEMMA ListedIsOwn ==
  ASSUME OneLookupPerSource, TypeInv, WaitingInv, NEW l \in Lookup
  PROVE  /\ expiry[SourceOf[l]] # "none" => EntryOf(l)
         /\ \A p \in Proxy : p \in pending[SourceOf[l]] =>
              EntryOf(l) /\ send[l][p] # "dropped" /\ put[l][p] \in Awaited
<1>1. expiry[SourceOf[l]] # "none" => EntryOf(l)
  BY LookupAssumption DEF TypeInv, OwnerOK, OneLookupPerSource, EntryOf
<1>2. ASSUME NEW p \in Proxy, p \in pending[SourceOf[l]] PROVE EntryOf(l)
  BY <1>1, <1>2, LookupAssumption DEF WaitingInv, EntryWaits
<1> QED
  BY <1>1, <1>2 DEF WaitingInv, LookupInv, Outstanding, Awaited

\* What receivedSuccessResponse and receivedErrorResponse do to the entries.
LEMMA ReceivedResponseEffect ==
  ASSUME OneLookupPerSource, TypeInv, NEW l \in Lookup, NEW p \in Proxy,
         NEW b \in BOOLEAN, ReceivedResponse(SourceOf[l], p, b)
  PROVE  /\ \A m \in Lookup : m # l => EntrySame(m)
         /\ pending'[SourceOf[l]] = pending[SourceOf[l]] \ {p}
         /\ EntryOf(l)' => /\ EntryOf(l) /\ pending[SourceOf[l]] # {p}
                           /\ b => hasSuccess'[SourceOf[l]]
                           /\ hasSuccess[SourceOf[l]] => hasSuccess'[SourceOf[l]]
<1> DEFINE s == SourceOf[l]
           left == pending[s] \ {p}
<1>1. s \in Dfsp
  BY LookupAssumption
<1>2. \A m \in Lookup : m # l => SourceOf[m] \in Dfsp /\ SourceOf[m] # s
  BY LookupAssumption DEF OneLookupPerSource
<1>3. \A m \in Lookup : m # l => EntrySame(m)
  BY <1>2 DEF ReceivedResponse, EntrySame, TypeInv, TypeOK
<1>4. /\ pending'[s] = left /\ owner'[s] = owner[s]
      /\ expiry'[s] = IF left = {} THEN "none" ELSE expiry[s]
  BY <1>1 DEF ReceivedResponse, TypeInv, TypeOK
<1>5. hasSuccess'[s] = (left # {} /\ (hasSuccess[s] \/ b))
  BY <1>1 DEF ReceivedResponse, TypeInv, TypeOK
<1> QED
  BY <1>3, <1>4, <1>5 DEF EntryOf

\* The answer of p moves on without touching the cache.
LEMMA AnswerVerdict ==
  ASSUME OneLookupPerSource, Inv, NEW l \in Lookup, NEW p \in Proxy,
         NEW v \in AnswerPc, put' = [put EXCEPT ![l][p] = v],
         UNCHANGED <<get, send, wasLast, discovery, cacheVars>>,
         put[l][p] # "absorbed", v \in Counted => put[l][p] \in Counted,
         v \in {"errLast", "lastErr"} => put[l][p] \in {"errLast", "lastErr"},
         v \in Uncounted => put[l][p] \in Uncounted,
         v \in Stray => \/ put[l][p] \in Stray
                        \/ p \notin pending[SourceOf[l]] /\ put[l][p] \in Uncounted
  PROVE  Verdicts'
<1>1. \A m \in Lookup, q \in Proxy :
        put'[m][q] = IF m = l /\ q = p THEN v ELSE put[m][q]
  BY CellUpdate DEF Inv, TypeInv, TypeOK
<1>2. \A m \in Lookup : EntrySame(m) /\ (m # l => Still(m))
  BY <1>1 DEF EntrySame, Still, cacheVars
<1>3. VerdictInv(l)
  BY DEF Inv, Verdicts
<1>4. \A q \in Proxy : Spent(l, q) => Spent(l, q)'
  BY <1>1 DEF Spent
<1>5. EntryOf(l)' <=> EntryOf(l)
  BY <1>2 DEF EntrySame, EntryOf
<1>6. RestSpent(l)'
  BY <1>2, <1>3, <1>4, <1>5 DEF EntrySame, RestSpent, VerdictInv
<1>7. UncountedDropped(l)'
  BY <1>1, <1>2, <1>3, <1>5 DEF EntrySame, Expecting, UncountedDropped, VerdictInv
<1>8. LastErrorFinal(l)'
  BY <1>1, <1>3, <1>4 DEF LastErrorFinal, VerdictInv
<1>9. StrayCaused(l)'
  BY <1>1, <1>3, <1>5 DEF Expecting, StrayCaused, UncountedDropped, VerdictInv
<1>10. VerdictInv(l)'
  BY <1>6, <1>7, <1>8, <1>9 DEF VerdictInv
<1> QED
  BY <1>2, <1>10, OnlyOne DEF Inv

\* The answer of p is counted: as a success, or as an error that is the
\* verdict when the list holds p alone and has seen no success.
LEMMA CountVerdict ==
  ASSUME OneLookupPerSource, Inv, NEW l \in Lookup, NEW p \in Proxy, NEW b \in BOOLEAN,
         NEW v \in AnswerPc, put' = [put EXCEPT ![l][p] = v],
         UNCHANGED <<get, send, wasLast, discovery>>,
         ReceivedResponse(SourceOf[l], p, b),
         \/ b /\ p \in pending[SourceOf[l]] /\ v = "okCounted"
         \/ ~b /\ IsLastWithoutSuccess(SourceOf[l], p) /\ v = "errLast"
         \/ ~b /\ ~IsLastWithoutSuccess(SourceOf[l], p) /\ v = "absorbed",
         put[l][p] \in {"okIn", "errPending"}
  PROVE  Verdicts'
<1> DEFINE s == SourceOf[l]
<1>1. \A m \in Lookup, q \in Proxy :
        put'[m][q] = IF m = l /\ q = p THEN v ELSE put[m][q]
  BY CellUpdate DEF Inv, TypeInv, TypeOK
<1>2. /\ \A m \in Lookup : m # l => EntrySame(m)
      /\ pending'[s] = pending[s] \ {p}
      /\ EntryOf(l)' => /\ EntryOf(l) /\ pending[s] # {p}
                        /\ b => hasSuccess'[s]
                        /\ hasSuccess[s] => hasSuccess'[s]
  BY ReceivedResponseEffect DEF Inv
<1>3. VerdictInv(l)
  BY DEF Inv, Verdicts
<1>4. p \in pending[s] => EntryOf(l) /\ send[l][p] # "dropped"
  BY ListedIsOwn DEF Inv
<1>5. \A q \in Proxy : q # p /\ Spent(l, q) => Spent(l, q)'
  BY <1>1 DEF Spent
<1>6. v = "absorbed" => Spent(l, p)'
  BY <1>1 DEF Spent
<1>7. Spent(l, p) => p \notin pending[s]
  BY <1>4 DEF Spent
<1>8. RestSpent(l)'
  BY <1>2, <1>3, <1>5, <1>6 DEF RestSpent, VerdictInv, IsLastWithoutSuccess
<1>9. UncountedDropped(l)'
  BY <1>1, <1>2, <1>3 DEF Expecting, UncountedDropped, VerdictInv, Uncounted
<1>10. LastErrorFinal(l)'
  <2>1. CASE v = "errLast"
    <3>1. pending[s] = {p} /\ ~hasSuccess[s] /\ EntryOf(l)
      BY <1>4, <2>1 DEF IsLastWithoutSuccess
    <3>2. \A q \in Proxy : q # p => Spent(l, q)
      BY <1>3, <3>1 DEF VerdictInv, RestSpent
    <3>3. \A e \in Proxy : e # p => put[l][e] \notin {"errLast", "lastErr"}
      BY <1>3, <1>7, <3>1 DEF VerdictInv, LastErrorFinal
    <3> QED
      BY <1>1, <1>5, <3>2, <3>3 DEF LastErrorFinal
  <2>2. CASE v = "absorbed"
    BY <1>1, <1>3, <1>5, <1>6, <2>2 DEF VerdictInv, LastErrorFinal
  <2>3. CASE v = "okCounted"
    <3>1. \A e \in Proxy : e # p => put[l][e] \notin {"errLast", "lastErr"}
      BY <1>3, <1>7, <2>3 DEF VerdictInv, LastErrorFinal
    <3> QED
      BY <1>1, <2>3, <3>1 DEF LastErrorFinal
  <2> QED
    BY <2>1, <2>2, <2>3
<1>11. StrayCaused(l)'
  BY <1>1, <1>2, <1>3 DEF Expecting, StrayCaused, VerdictInv, Stray
<1>12. VerdictInv(l)'
  BY <1>8, <1>9, <1>10, <1>11 DEF VerdictInv
<1>13. \A m \in Lookup : m # l => Still(m)
  BY <1>1 DEF Still
<1> QED
  BY <1>2, <1>12, <1>13, OnlyOne DEF Inv

\* A send that settles was not written off, and is not by settling.
LEMMA SendVerdict ==
  ASSUME OneLookupPerSource, Inv, NEW l \in Lookup, NEW p \in Proxy,
         NEW v \in SendPc, send' = [send EXCEPT ![l][p] = v],
         wasLast' \in {wasLast, [wasLast EXCEPT ![l] = FALSE]},
         UNCHANGED <<get, put, cacheVars, discovery>>,
         send[l][p] = "flying"
  PROVE  Verdicts'
<1>1. \A m \in Lookup, q \in Proxy :
        send'[m][q] = IF m = l /\ q = p THEN v ELSE send[m][q]
  BY CellUpdate DEF Inv, TypeInv, TypeOK
<1>2. \A m \in Lookup : EntrySame(m) /\ (m # l => Still(m))
  BY <1>1 DEF EntrySame, Still, cacheVars, Inv, TypeInv, TypeOK
<1>3. VerdictInv(l)
  BY DEF Inv, Verdicts
<1>4. \A q \in Proxy : Spent(l, q) => Spent(l, q)'
  BY <1>1 DEF Spent
<1>5. EntryOf(l)' <=> EntryOf(l)
  BY <1>2 DEF EntrySame, EntryOf
<1>6. RestSpent(l)'
  BY <1>2, <1>3, <1>4, <1>5 DEF EntrySame, RestSpent, VerdictInv
<1>7. UncountedDropped(l)' /\ StrayCaused(l)'
  BY <1>1, <1>2, <1>3, <1>5 DEF EntrySame, Expecting, UncountedDropped, StrayCaused, VerdictInv
<1>8. LastErrorFinal(l)'
  BY <1>3, <1>4 DEF LastErrorFinal, VerdictInv
<1>9. VerdictInv(l)'
  BY <1>6, <1>7, <1>8 DEF VerdictInv
<1> QED
  BY <1>2, <1>9, OnlyOne DEF Inv

\* The failed proxy is taken off the list: it has not found the party.
LEMMA RemoveFailedVerdict ==
  ASSUME OneLookupPerSource, Inv, NEW l \in Lookup, NEW p \in Proxy,
         RemoveFailedProxy(l, p)
  PROVE  Verdicts'
<1> DEFINE s == SourceOf[l]
<1>1. /\ ReceivedResponse(s, p, FALSE)
      /\ send' = [send EXCEPT ![l][p] = "dropped"]
      /\ UNCHANGED <<get, put, discovery>>
      /\ send[l][p] = "failed"
      /\ \A m \in Lookup : m # l => wasLast'[m] = wasLast[m]
  BY DEF RemoveFailedProxy, Inv, TypeInv, TypeOK
<1>2. /\ \A m \in Lookup : m # l => EntrySame(m)
      /\ pending'[s] = pending[s] \ {p}
      /\ EntryOf(l)' => EntryOf(l) /\ (hasSuccess[s] => hasSuccess'[s])
  BY <1>1, ReceivedResponseEffect DEF Inv
<1>3. \A m \in Lookup, q \in Proxy :
        send'[m][q] = IF m = l /\ q = p THEN "dropped" ELSE send[m][q]
  BY <1>1, CellUpdate DEF Inv, TypeInv, TypeOK, SendPc
<1>4. VerdictInv(l)
  BY DEF Inv, Verdicts
<1>5. \A q \in Proxy : Spent(l, q) => Spent(l, q)'
  BY <1>1, <1>3 DEF Spent
<1>6. p \in pending[s] => Spent(l, p)'
  <2>1. p \in pending[s] => put[l][p] \in Awaited
    BY ListedIsOwn DEF Inv
  <2> QED
    BY <1>1, <1>3, <2>1 DEF Spent, Awaited, Uncounted, Counted
<1>7. RestSpent(l)'
  BY <1>2, <1>4, <1>5, <1>6 DEF RestSpent, VerdictInv
<1>8. UncountedDropped(l)' /\ StrayCaused(l)'
  BY <1>1, <1>2, <1>3, <1>4 DEF Expecting, UncountedDropped, StrayCaused, VerdictInv
<1>9. LastErrorFinal(l)'
  BY <1>1, <1>4, <1>5 DEF LastErrorFinal, VerdictInv
<1>10. VerdictInv(l)'
  BY <1>7, <1>8, <1>9 DEF VerdictInv
<1>11. \A m \in Lookup : m # l => Still(m)
  BY <1>1, <1>3 DEF Still
<1> QED
  BY <1>2, <1>10, <1>11, OnlyOne DEF Inv

\* The GET handler moves on without touching sends, answers or the cache.
LEMMA GetVerdict ==
  ASSUME Inv, UNCHANGED <<send, put, cacheVars, discovery>>
  PROVE  Verdicts'
<1>1. ASSUME NEW m \in Lookup PROVE VerdictInv(m)'
  <2>1. VerdictInv(m)
    BY DEF Inv, Verdicts
  <2>2. (EntryOf(m)' <=> EntryOf(m)) /\ \A q \in Proxy : Spent(m, q)' <=> Spent(m, q)
    BY DEF EntryOf, Spent, cacheVars
  <2> QED
    BY <2>1, <2>2 DEF Expecting, cacheVars, VerdictInv, RestSpent, UncountedDropped,
                      LastErrorFinal, StrayCaused
<1> QED
  BY <1>1 DEF Verdicts

\* Before the first send nothing can be the verdict, afterwards every proxy
\* is on the list.
LEMMA FreshVerdict ==
  ASSUME NEW l \in Lookup,
         \A p \in Proxy : put'[l][p] = "none",
         \/ ~EntryOf(l)' /\ discovery'[l] = "none"
         \/ pending'[SourceOf[l]] = Proxy
  PROVE  VerdictInv(l)'
<1>1. RestSpent(l)' /\ UncountedDropped(l)'
  BY DEF Expecting, RestSpent, UncountedDropped
<1>2. LastErrorFinal(l)' /\ StrayCaused(l)'
  BY DEF LastErrorFinal, StrayCaused, Stray
<1> QED
  BY <1>1, <1>2 DEF VerdictInv

\* A fresh entry waits for every proxy: nothing has to be spent yet.
LEMMA DiscoverVerdict ==
  ASSUME OneLookupPerSource, Inv, NEW l \in Lookup, Discover(l),
         Proxy # {}, expiry[SourceOf[l]] = "none"
  PROVE  Verdicts'
<1> DEFINE s == SourceOf[l]
<1>1. /\ pending' = [pending EXCEPT ![s] = Proxy]
      /\ hasSuccess' = [hasSuccess EXCEPT ![s] = FALSE]
      /\ expiry' = [expiry EXCEPT ![s] = "armed"]
      /\ owner' = [owner EXCEPT ![s] = l]
      /\ get' = [get EXCEPT ![l] = "sending"]
      /\ send' = [send EXCEPT ![l] = [p \in Proxy |-> "flying"]]
      /\ discovery' = [discovery EXCEPT ![l] = "stored"]
      /\ UNCHANGED <<wasLast, put>>
      /\ get[l] = "discover"
  BY DEF Discover, SetSendToProxiesList
<1>2. s \in Dfsp /\ \A m \in Lookup : m # l => SourceOf[m] # s
  BY LookupAssumption DEF OneLookupPerSource
<1>3. ASSUME NEW m \in Lookup, m # l PROVE Still(m) /\ EntrySame(m)
  <2>1. Still(m)
    BY <1>1, <1>3 DEF Still, Inv, TypeInv, TypeOK
  <2>2. SourceOf[m] \in Dfsp /\ SourceOf[m] # s
    BY <1>2, <1>3, LookupAssumption
  <2>3. EntrySame(m)
    BY <1>1, <2>2 DEF EntrySame, Inv, TypeInv, TypeOK
  <2> QED
    BY <2>1, <2>3
<1>4. \A p \in Proxy : put'[l][p] = "none"
  BY <1>1 DEF Inv, WaitingInv, LookupInv, NothingSent, Undecided
<1>5. pending'[s] = Proxy
  BY <1>1, <1>2 DEF Inv, TypeInv, TypeOK
<1>6. VerdictInv(l)'
  BY <1>4, <1>5, FreshVerdict
<1> QED
  BY <1>3, <1>6, OnlyOne DEF Inv

\* Before the first lookup there is no verdict.
LEMMA VerdictsInit == Init => Verdicts
BY LookupAssumption DEF Init, Expecting, Verdicts, VerdictInv, RestSpent, UncountedDropped,
   LastErrorFinal, StrayCaused, EntryOf, Stray

\* Every step keeps the verdicts, when no requester repeats a lookup.
LEMMA VerdictsNext ==
  ASSUME OneLookupPerSource, Inv, [Next]_vars
  PROVE  Verdicts'
<1>1. ASSUME NEW l \in Lookup, ReceiveLookup(l) PROVE Verdicts'
  BY <1>1, GetVerdict DEF ReceiveLookup
<1>2. ASSUME NEW l \in Lookup, ConsultOracle(l) PROVE Verdicts'
  <2>1. UNCHANGED <<put, wasLast, cacheVars, discovery>> /\ get[l] = "oracle"
    BY <1>2 DEF ConsultOracle
  <2>2. CASE UNCHANGED send
    BY <2>1, <2>2, GetVerdict
  <2>3. CASE /\ mapping # None /\ get' = [get EXCEPT ![l] = "direct"]
             /\ send' = [send EXCEPT ![l][mapping] = "flying"]
    <3>1. mapping \in Proxy
      BY <2>3 DEF Inv, TypeInv, TypeOK
    <3>2. \A m \in Lookup, q \in Proxy :
            send'[m][q] = IF m = l /\ q = mapping THEN "flying" ELSE send[m][q]
      BY <2>3, <3>1, CellUpdate DEF Inv, TypeInv, TypeOK, SendPc
    <3>3. \A m \in Lookup : EntrySame(m) /\ (m # l => Still(m))
      BY <2>1, <2>3, <3>2 DEF EntrySame, Still, cacheVars, Inv, TypeInv, TypeOK
    <3>4. discovery[l] = "none" /\ ~EntryOf(l) /\ \A q \in Proxy : put[l][q] = "none"
      BY <2>1 DEF Inv, WaitingInv, LookupInv, NothingSent, EntryAlive, Undecided
    <3>5. ~EntryOf(l)'
      BY <3>3, <3>4 DEF EntrySame, EntryOf
    <3>6. VerdictInv(l)'
      BY <2>1, <3>4, <3>5, FreshVerdict
    <3> QED
      BY <3>3, <3>6, OnlyOne DEF Inv
  <2> QED
    BY <1>2, <2>2, <2>3 DEF ConsultOracle
<1>3. ASSUME NEW l \in Lookup, DropReference(l) PROVE Verdicts'
  BY <1>3, GetVerdict DEF DropReference
<1>4. ASSUME NEW l \in Lookup, Discover(l) PROVE Verdicts'
  <2>1. CASE Proxy = {} \/ expiry[SourceOf[l]] # "none"
    BY <1>4, <2>1, GetVerdict DEF Discover
  <2>2. CASE ~(Proxy = {} \/ expiry[SourceOf[l]] # "none")
    BY <1>4, <2>2, DiscoverVerdict
  <2> QED
    BY <2>1, <2>2
<1>5. ASSUME NEW l \in Lookup, ConcludeDiscovery(l) PROVE Verdicts'
  BY <1>5, GetVerdict DEF ConcludeDiscovery
<1>6. ASSUME NEW l \in Lookup, ReportFailure(l) PROVE Verdicts'
  BY <1>6, GetVerdict DEF ReportFailure
<1>7. ASSUME NEW l \in Lookup, NEW p \in Proxy, ConcludeDirect(l, p) PROVE Verdicts'
  BY <1>7, GetVerdict DEF ConcludeDirect
<1>8. ASSUME NEW l \in Lookup, NEW p \in Proxy, ReachProxy(l, p) PROVE Verdicts'
  <2>1. PICK v \in AnswerPc :
          /\ put' = [put EXCEPT ![l][p] = v]
          /\ put[l][p] # "absorbed" /\ (v \in Counted => put[l][p] \in Counted)
          /\ v \in {"errLast", "lastErr"} => put[l][p] \in {"errLast", "lastErr"}
          /\ v \in Uncounted => put[l][p] \in Uncounted
          /\ v \in Stray => \/ put[l][p] \in Stray
                            \/ p \notin pending[SourceOf[l]] /\ put[l][p] \in Uncounted
    BY <1>8 DEF ReachProxy, AnswerPc, Counted, Uncounted, Stray
  <2>2. UNCHANGED <<get, send, wasLast, discovery, cacheVars>>
    BY <1>8 DEF ReachProxy, getVars
  <2> QED
    BY <2>1, <2>2, AnswerVerdict
<1>9. ASSUME NEW l \in Lookup, NEW p \in Proxy, SendSucceeds(l, p) PROVE Verdicts'
  <2>1. "sent" \in SendPc
    BY DEF SendPc
  <2> QED
    BY <1>9, <2>1, SendVerdict DEF SendSucceeds
<1>10. ASSUME NEW l \in Lookup, NEW p \in Proxy, SendFails(l, p) PROVE Verdicts'
  <2>1. "failed" \in SendPc
    BY DEF SendPc
  <2> QED
    BY <1>10, <2>1, SendVerdict DEF SendFails
<1>11. ASSUME NEW l \in Lookup, NEW p \in Proxy, RemoveFailedProxy(l, p) PROVE Verdicts'
  BY <1>11, RemoveFailedVerdict
<1>12. ASSUME NEW l \in Lookup, NEW p \in Proxy, Answer(l, p) PROVE Verdicts'
  <2>1. PICK v \in AnswerPc :
          /\ put' = [put EXCEPT ![l][p] = v]
          /\ put[l][p] # "absorbed" /\ (v \in Counted => put[l][p] \in Counted)
          /\ v \in {"errLast", "lastErr"} => put[l][p] \in {"errLast", "lastErr"}
          /\ v \in Uncounted => put[l][p] \in Uncounted
          /\ v \in Stray => \/ put[l][p] \in Stray
                            \/ p \notin pending[SourceOf[l]] /\ put[l][p] \in Uncounted
    BY <1>12 DEF Answer, AnswerPc, Counted, Uncounted, Stray
  <2>2. UNCHANGED <<get, send, wasLast, discovery, cacheVars>>
    BY <1>12 DEF Answer, getVars
  <2> QED
    BY <2>1, <2>2, AnswerVerdict
<1>13. ASSUME NEW l \in Lookup, NEW p \in Proxy, CountSuccess(l, p) PROVE Verdicts'
  <2>1. UNCHANGED <<get, send, wasLast, discovery>> /\ put[l][p] = "okIn"
    BY <1>13 DEF CountSuccess, getVars
  <2>2. CASE /\ p \in pending[SourceOf[l]]
             /\ put' = [put EXCEPT ![l][p] = "okCounted"]
             /\ ReceivedResponse(SourceOf[l], p, TRUE)
    <3>1. "okCounted" \in AnswerPc
      BY DEF AnswerPc
    <3> QED
      BY <2>1, <2>2, <3>1, CountVerdict
  <2>3. CASE /\ UNCHANGED cacheVars
             /\ \E v \in {"okLate", "returned"} : put' = [put EXCEPT ![l][p] = v]
    <3>1. PICK v \in AnswerPc : put' = [put EXCEPT ![l][p] = v] /\ v \in {"okLate", "returned"}
      BY <2>3 DEF AnswerPc
    <3>2. v \notin Counted \cup Uncounted \cup Stray \cup {"errLast", "lastErr"}
      BY <3>1 DEF Counted, Uncounted, Stray
    <3> QED
      BY <2>1, <2>3, <3>1, <3>2, AnswerVerdict
  <2> QED
    BY <1>13, <2>2, <2>3 DEF CountSuccess
<1>14. ASSUME NEW l \in Lookup, NEW p \in Proxy, PostMapping(l, p) PROVE Verdicts'
  <2>1. PICK v \in AnswerPc :
          /\ put' = [put EXCEPT ![l][p] = v]
          /\ put[l][p] # "absorbed" /\ (v \in Counted => put[l][p] \in Counted)
          /\ v \in {"errLast", "lastErr"} => put[l][p] \in {"errLast", "lastErr"}
          /\ v \in Uncounted => put[l][p] \in Uncounted
          /\ v \in Stray => \/ put[l][p] \in Stray
                            \/ p \notin pending[SourceOf[l]] /\ put[l][p] \in Uncounted
    BY <1>14 DEF PostMapping, AnswerPc, Counted, Uncounted, Stray
  <2>2. UNCHANGED <<get, send, wasLast, discovery, cacheVars>>
    BY <1>14 DEF PostMapping, getVars
  <2> QED
    BY <2>1, <2>2, AnswerVerdict
<1>15. ASSUME NEW l \in Lookup, NEW p \in Proxy, ForwardSuccess(l, p) PROVE Verdicts'
  <2>1. PICK v \in AnswerPc :
          /\ put' = [put EXCEPT ![l][p] = v]
          /\ put[l][p] # "absorbed" /\ (v \in Counted => put[l][p] \in Counted)
          /\ v \in {"errLast", "lastErr"} => put[l][p] \in {"errLast", "lastErr"}
          /\ v \in Uncounted => put[l][p] \in Uncounted
          /\ v \in Stray => \/ put[l][p] \in Stray
                            \/ p \notin pending[SourceOf[l]] /\ put[l][p] \in Uncounted
    BY <1>15 DEF ForwardSuccess, AnswerPc, Counted, Uncounted, Stray
  <2>2. UNCHANGED <<get, send, wasLast, discovery, cacheVars>>
    BY <1>15 DEF ForwardSuccess, getVars
  <2> QED
    BY <2>1, <2>2, AnswerVerdict
<1>16. ASSUME NEW l \in Lookup, NEW p \in Proxy, CheckPending(l, p) PROVE Verdicts'
  <2>1. PICK v \in AnswerPc :
          /\ put' = [put EXCEPT ![l][p] = v]
          /\ put[l][p] # "absorbed" /\ (v \in Counted => put[l][p] \in Counted)
          /\ v \in {"errLast", "lastErr"} => put[l][p] \in {"errLast", "lastErr"}
          /\ v \in Uncounted => put[l][p] \in Uncounted
          /\ v \in Stray => \/ put[l][p] \in Stray
                            \/ p \notin pending[SourceOf[l]] /\ put[l][p] \in Uncounted
    BY <1>16 DEF CheckPending, AnswerPc, Counted, Uncounted, Stray
  <2>2. UNCHANGED <<get, send, wasLast, discovery, cacheVars>>
    BY <1>16 DEF CheckPending, getVars
  <2> QED
    BY <2>1, <2>2, AnswerVerdict
<1>17. ASSUME NEW l \in Lookup, NEW p \in Proxy, CountError(l, p) PROVE Verdicts'
  <2>1. PICK v \in {"errLast", "absorbed"} :
          /\ put' = [put EXCEPT ![l][p] = v]
          /\ (v = "errLast") <=> IsLastWithoutSuccess(SourceOf[l], p)
    BY <1>17 DEF CountError
  <2>2. /\ UNCHANGED <<get, send, wasLast, discovery>>
        /\ ReceivedResponse(SourceOf[l], p, FALSE) /\ put[l][p] = "errPending"
    BY <1>17 DEF CountError, getVars
  <2>3. v \in AnswerPc
    BY DEF AnswerPc
  <2> QED
    BY <2>1, <2>2, <2>3, CountVerdict
<1>18. ASSUME NEW l \in Lookup, NEW p \in Proxy, CheckOracle(l, p) PROVE Verdicts'
  <2>1. PICK v \in AnswerPc :
          /\ put' = [put EXCEPT ![l][p] = v]
          /\ put[l][p] # "absorbed" /\ (v \in Counted => put[l][p] \in Counted)
          /\ v \in {"errLast", "lastErr"} => put[l][p] \in {"errLast", "lastErr"}
          /\ v \in Uncounted => put[l][p] \in Uncounted
          /\ v \in Stray => \/ put[l][p] \in Stray
                            \/ p \notin pending[SourceOf[l]] /\ put[l][p] \in Uncounted
    BY <1>18 DEF CheckOracle, AnswerPc, Counted, Uncounted, Stray
  <2>2. UNCHANGED <<get, send, wasLast, discovery, cacheVars>>
    BY <1>18 DEF CheckOracle, getVars
  <2> QED
    BY <2>1, <2>2, AnswerVerdict
<1>19. ASSUME NEW l \in Lookup, NEW p \in Proxy, CleanupOracle(l, p) PROVE Verdicts'
  <2>1. PICK v \in AnswerPc :
          /\ put' = [put EXCEPT ![l][p] = v]
          /\ put[l][p] # "absorbed" /\ (v \in Counted => put[l][p] \in Counted)
          /\ v \in {"errLast", "lastErr"} => put[l][p] \in {"errLast", "lastErr"}
          /\ v \in Uncounted => put[l][p] \in Uncounted
          /\ v \in Stray => \/ put[l][p] \in Stray
                            \/ p \notin pending[SourceOf[l]] /\ put[l][p] \in Uncounted
    BY <1>19 DEF CleanupOracle, AnswerPc, Counted, Uncounted, Stray
  <2>2. UNCHANGED <<get, send, wasLast, discovery, cacheVars>>
    BY <1>19 DEF CleanupOracle, getVars
  <2> QED
    BY <2>1, <2>2, AnswerVerdict
<1>20. ASSUME NEW l \in Lookup, NEW p \in Proxy, ForwardError(l, p) PROVE Verdicts'
  <2>1. PICK v \in AnswerPc :
          /\ put' = [put EXCEPT ![l][p] = v]
          /\ put[l][p] # "absorbed" /\ (v \in Counted => put[l][p] \in Counted)
          /\ v \in {"errLast", "lastErr"} => put[l][p] \in {"errLast", "lastErr"}
          /\ v \in Uncounted => put[l][p] \in Uncounted
          /\ v \in Stray => \/ put[l][p] \in Stray
                            \/ p \notin pending[SourceOf[l]] /\ put[l][p] \in Uncounted
    BY <1>20 DEF ForwardError, AnswerPc, Counted, Uncounted, Stray
  <2>2. UNCHANGED <<get, send, wasLast, discovery, cacheVars>>
    BY <1>20 DEF ForwardError, getVars
  <2> QED
    BY <2>1, <2>2, AnswerVerdict
<1>21. ASSUME NEW s \in Dfsp, Expire(s) PROVE Verdicts'
  <2>1. /\ UNCHANGED <<get, send, wasLast, put, pending, hasSuccess, owner, discovery>>
        /\ expiry[s] = "armed" /\ expiry' = [expiry EXCEPT ![s] = "expired"]
    BY <1>21 DEF Expire, getVars
  <2>2. ASSUME NEW m \in Lookup PROVE VerdictInv(m)'
    <3>1. (EntryOf(m)' <=> EntryOf(m)) /\ \A q \in Proxy : Spent(m, q)' <=> Spent(m, q)
      BY <2>1 DEF EntryOf, Spent, Inv, TypeInv, TypeOK
    <3> QED
      BY <2>1, <3>1 DEF Expecting, Inv, Verdicts, VerdictInv, RestSpent, UncountedDropped,
                        LastErrorFinal, StrayCaused
  <2> QED
    BY <2>2 DEF Verdicts
<1>22. ASSUME NEW s \in Dfsp, SendTimeoutCallback(s) PROVE Verdicts'
  <2>1. /\ UNCHANGED <<get, send, wasLast, put, cacheVars>>
        /\ expiring[s] # None
    BY <1>22 DEF SendTimeoutCallback, getVars
  <2>2. expiring[s] \in Lookup
    BY <2>1 DEF Inv, JobOK
  <2>3. \A m \in Lookup : discovery'[m] = "stored" => discovery[m] = "stored"
    BY <1>22, <2>2 DEF SendTimeoutCallback, Inv, TypeInv, TypeOK
  <2>4. ASSUME NEW m \in Lookup PROVE VerdictInv(m)'
    <3>1. (EntryOf(m)' <=> EntryOf(m)) /\ \A q \in Proxy : Spent(m, q)' <=> Spent(m, q)
      BY <2>1 DEF EntryOf, Spent, cacheVars
    <3> QED
      BY <2>1, <2>3, <3>1 DEF Expecting, cacheVars, Inv, Verdicts, VerdictInv, RestSpent,
                              UncountedDropped, LastErrorFinal, StrayCaused
  <2> QED
    BY <2>4 DEF Verdicts
<1>23. ASSUME NEW s \in Dfsp, RemoveExpired(s) PROVE Verdicts'
  <2>1. /\ UNCHANGED <<get, send, wasLast, put, discovery>>
        /\ expiring[s] # None /\ discovery[expiring[s]] # "stored" /\ RemoveEntry(s)
    BY <1>23 DEF RemoveExpired, getVars
  <2>2. ASSUME NEW m \in Lookup, SourceOf[m] = s PROVE VerdictInv(m)'
    <3>1. expiring[s] = m /\ discovery[m] # "stored"
      BY <2>1, <2>2 DEF Inv, JobOK, OneLookupPerSource
    <3>2. ~EntryOf(m)' /\ \A q \in Proxy : Spent(m, q)' <=> Spent(m, q)
      BY <2>1, <2>2 DEF RemoveEntry, EntryOf, Spent, Inv, TypeInv, TypeOK
    <3> QED
      BY <2>1, <3>1, <3>2 DEF Expecting, Inv, Verdicts, VerdictInv, RestSpent, UncountedDropped,
                              LastErrorFinal, StrayCaused
  <2>3. ASSUME NEW m \in Lookup, SourceOf[m] # s PROVE VerdictInv(m)'
    <3>1. Still(m) /\ EntrySame(m)
      BY <2>1, <2>3, LookupAssumption
      DEF RemoveEntry, EntrySame, Still, Inv, TypeInv, TypeOK
    <3> QED
      BY <3>1, StillVerdict DEF Inv, Verdicts
  <2> QED
    BY <2>2, <2>3 DEF Verdicts
<1>24. ASSUME NEW s \in Dfsp, FindExpired(s) PROVE Verdicts'
  BY <1>24, GetVerdict DEF FindExpired, getVars
<1>25. CASE UNCHANGED vars
  BY <1>25, GetVerdict DEF vars, cacheVars
<1> QED
  BY <1>1, <1>2, <1>3, <1>4, <1>5, <1>6, <1>7, <1>8, <1>9, <1>10, <1>11, <1>12,
     <1>13, <1>14, <1>15, <1>16, <1>17, <1>18, <1>19, <1>20, <1>21, <1>22, <1>23,
     <1>24, <1>25, StepOfAHandler

\* The inductive invariant of requesters that have one lookup of the party
\* under way at a time: how the list, the sends and the answers relate.
THEOREM SoleLookupInvariant ==
  ASSUME OneLookupPerSource PROVE Spec => []Inv
<1>1. Init => Inv
  BY TypeInvInit, WaitingInvInit, VerdictsInit DEF Inv, Init, JobOK
<1>2. Inv /\ [Next]_vars => Inv'
  BY TypeInvNext, JobOKNext, WaitingInvNext, VerdictsNext DEF Inv
<1> QED
  BY <1>1, <1>2, PTL DEF Spec

\* The error a discovery passes on as its verdict comes after every other
\* proxy has failed, as long as no requester repeats a lookup under way.
THEOREM LastErrorVerdict ==
  ASSUME OneLookupPerSource PROVE Spec => []LastErrorIsFinal
<1>1. Inv => LastErrorIsFinal
  BY DEF Inv, Verdicts, VerdictInv, LastErrorIsFinal
<1> QED
  BY <1>1, SoleLookupInvariant, PTL

\* Under the same condition no error to a discovery is mistaken for a stray
\* one while its entry lives and the send to its proxy was not written off.
THEOREM StrayErrorCause ==
  ASSUME OneLookupPerSource PROVE Spec => []StrayErrorHasCause
<1>1. Inv => StrayErrorHasCause
  BY DEF Inv, Verdicts, VerdictInv, StrayErrorHasCause
<1> QED
  BY <1>1, SoleLookupInvariant, PTL

\* The same, stated of the specification alone: the invariant SoleLookupInv,
\* which speaks only of such requesters.
THEOREM SoleLookupVerdicts == Spec => []SoleLookupInv
<1>1. CASE OneLookupPerSource
  <2>1. Inv => SoleLookupInv
    BY DEF Inv, Verdicts, SoleLookupInv
  <2> QED
    BY <1>1, <2>1, SoleLookupInvariant, PTL
<1>2. CASE ~OneLookupPerSource
  <2>1. SoleLookupInv
    BY <1>2 DEF SoleLookupInv
  <2> QED
    BY <2>1, PTL
<1> QED
  BY <1>1, <1>2

-----------------------------------------------------------------------------
(***************************************************************************)
(* "SentToProxies is empty": an error that was the last one, or strayed in *)
(* from a proxy that was not written off, means that the entry is gone.    *)
(***************************************************************************)
LastError == {"errLast", "lastErr"}

\* While the entry of a lookup lives, no error of it is about to be forwarded.
LEMMA EntryHoldsErrors ==
  ASSUME Inv, NEW l \in Lookup, EntryOf(l), NEW p \in Proxy
  PROVE  /\ put[l][p] \notin LastError
         /\ put[l][p] \in Stray => send[l][p] = "dropped"
<1>1. PICK q \in Proxy : q \in pending[SourceOf[l]]
  BY LookupAssumption DEF Inv, TypeInv, TypeOK, WaitingInv, EntryWaits, EntryOf
<1>2. send[l][q] # "dropped" /\ put[l][q] \in Awaited
  BY <1>1 DEF Inv, WaitingInv, LookupInv, Outstanding, Awaited
<1>3. ~Spent(l, q) /\ put[l][q] \notin LastError
  BY <1>2 DEF Spent, Awaited, Uncounted, LastError
<1>4. put[l][p] \notin LastError
  BY <1>3 DEF Inv, Verdicts, VerdictInv, LastErrorFinal, LastError
<1>5. put[l][p] \in Stray => send[l][p] = "dropped"
  BY DEF Inv, Verdicts, VerdictInv, StrayCaused, Expecting
<1> QED
  BY <1>4, <1>5

\* Only ForwardError makes an answer a forwarded error.
LEMMA ErrorsAreForwarded ==
  ASSUME TypeInv, [Next]_vars, NEW l \in Lookup, NEW p \in Proxy,
         put[l][p] # put'[l][p], put'[l][p] \in {"lastErr", "lateErr"}
  PROVE  put[l][p] \in LastError \cup Stray
<1> DEFINE Moves(m, q, V) == \E v \in V : put' = [put EXCEPT ![m][q] = v]
           Quiet == AnswerPc \ {"lastErr", "lateErr"}
<1>1. ASSUME NEW m \in Lookup, NEW q \in Proxy, Moves(m, q, Quiet) PROVE FALSE
  <2>1. PICK v \in Quiet : put' = [put EXCEPT ![m][q] = v]
    BY <1>1
  <2>2. put'[l][p] = IF l = m /\ p = q THEN v ELSE put[l][p]
    BY <2>1, CellUpdate DEF TypeInv, TypeOK
  <2> QED
    BY <2>1, <2>2
<1>2. ASSUME NEW m \in Lookup, NEW q \in Proxy, ForwardError(m, q)
      PROVE  put[l][p] \in LastError \cup Stray
  <2>1. PICK v \in AnswerPc : put' = [put EXCEPT ![m][q] = v]
    BY <1>2 DEF ForwardError, AnswerPc
  <2>2. l = m /\ p = q
    BY <2>1, CellUpdate DEF TypeInv, TypeOK
  <2> QED
    BY <1>2, <2>2 DEF ForwardError, LastError, Stray
<1>3. ASSUME NEW m \in Lookup, NEW q \in Proxy,
             \/ ReachProxy(m, q) \/ Answer(m, q) \/ CountSuccess(m, q) \/ PostMapping(m, q)
             \/ ForwardSuccess(m, q) \/ CheckPending(m, q) \/ CountError(m, q)
             \/ CheckOracle(m, q) \/ CleanupOracle(m, q)
      PROVE  Moves(m, q, Quiet)
  BY <1>3 DEF ReachProxy, Answer, CountSuccess, PostMapping, ForwardSuccess, CheckPending,
              CountError, CheckOracle, CleanupOracle, AnswerPc
<1>4. ASSUME NEW m \in Lookup,
             \/ ReceiveLookup(m) \/ ConsultOracle(m) \/ DropReference(m) \/ Discover(m)
             \/ ConcludeDiscovery(m) \/ ReportFailure(m)
      PROVE  UNCHANGED put
  BY <1>4 DEF ReceiveLookup, ConsultOracle, DropReference, Discover, ConcludeDiscovery,
              ReportFailure
<1>5. ASSUME NEW m \in Lookup, NEW q \in Proxy,
             \/ ConcludeDirect(m, q) \/ SendSucceeds(m, q) \/ SendFails(m, q)
             \/ RemoveFailedProxy(m, q)
      PROVE  UNCHANGED put
  BY <1>5 DEF ConcludeDirect, SendSucceeds, SendFails, RemoveFailedProxy
<1>6. ASSUME NEW s \in Dfsp,
             Expire(s) \/ FindExpired(s) \/ SendTimeoutCallback(s) \/ RemoveExpired(s)
      PROVE  UNCHANGED put
  BY <1>6 DEF Expire, FindExpired, SendTimeoutCallback, RemoveExpired
<1>7. CASE UNCHANGED vars
  BY <1>7 DEF vars
<1> HIDE DEF Moves
<1> QED
  BY <1>1, <1>2, <1>3, <1>4, <1>5, <1>6, <1>7, StepOfAHandler

\* An error of a proxy is passed on to the requester only when the list of
\* proxies to wait for is empty, unless the send to that very proxy had been
\* written off; for requesters that have one lookup of the party at a time.
THEOREM ErrorsPassedOnLast ==
  ASSUME OneLookupPerSource PROVE Spec => ErrorMeansListEmpty
<1>1. ASSUME Inv, [Next]_vars, NEW l \in Lookup, NEW p \in Proxy,
             put[l][p] # put'[l][p], put'[l][p] \in {"lastErr", "lateErr"},
             send[l][p] # "dropped"
      PROVE  pending[SourceOf[l]] = {}
  <2>1. put[l][p] \in LastError \cup Stray
    BY <1>1, ErrorsAreForwarded DEF Inv
  <2>2. ~EntryOf(l)
    BY <1>1, <2>1, EntryHoldsErrors
  <2>3. expiry[SourceOf[l]] = "none"
    BY <1>1, <2>2, ListedIsOwn DEF Inv
  <2> QED
    BY <1>1, <2>3, LookupAssumption DEF Inv, WaitingInv, EntryWaits
<1>2. Inv /\ [Next]_vars =>
        [\A l \in Lookup, p \in Proxy :
           /\ put[l][p] # put'[l][p]
           /\ put'[l][p] \in {"lastErr", "lateErr"}
           /\ discovery[l] # "none" /\ send[l][p] # "dropped"
           => pending[SourceOf[l]] = {}]_vars
  BY <1>1
<1> QED
  BY <1>2, SoleLookupInvariant, PTL DEF Spec, ErrorMeansListEmpty

-----------------------------------------------------------------------------
(***************************************************************************)
(* One error callback.  What GetPartiesService reports and what the answers *)
(* report exclude each other: a discovery fails only after the last proxy  *)
(* was written off, and then no answer is the last one; a lookup that went *)
(* to one proxy directly fails only if that send did.                      *)
(***************************************************************************)
Reported(l) ==
  /\ wasLast[l] => \A p \in Proxy : put[l][p] \notin LastError
  /\ \A p \in Proxy : put[l][p] # "none" => send[l][p] # "none"
  /\ get[l] = "sending" => discovery[l] # "none"

\* A lookup that asked all proxies and has not timed out.
DiscoveryReported(l) == discovery[l] = "stored" =>
  /\ get[l] # "direct"
  /\ get[l] # "sending" => \A p \in Proxy : send[l][p] \in {"sent", "dropped"}
  /\ get[l] \in Failed => wasLast[l] \/ \A p \in Proxy : send[l][p] = "dropped"

\* A lookup that asked the proxy of the owner, or nobody.
DirectReported(l) == discovery[l] = "none" =>
  /\ \A p, q \in Proxy : send[l][p] # "none" /\ send[l][q] # "none" => p = q
  /\ get[l] \in Failed => \A p \in Proxy : send[l][p] \in {"none", "failed"}

ErrorInv(l) == Reported(l) /\ DiscoveryReported(l) /\ DirectReported(l)

Errors == \A l \in Lookup : ErrorInv(l)

\* A step about lookup l: the others stand still.
LEMMA OnlyOneErrs ==
  ASSUME Errors, NEW l \in Lookup, ErrorInv(l)', \A m \in Lookup : m # l => Still(m)
  PROVE  Errors'
<1>1. ASSUME NEW m \in Lookup, m # l PROVE ErrorInv(m)'
  BY <1>1 DEF Errors, ErrorInv, Reported, DiscoveryReported, DirectReported, Still
<1> QED
  BY <1>1 DEF Errors

\* Nothing is reported at first.
LEMMA ErrorsInit == Init => Errors
BY DEF Init, Errors, ErrorInv, Reported, DiscoveryReported, DirectReported, Failed

\* GetPartiesService moves on, without a send.
LEMMA GetErrs ==
  ASSUME Inv, Errors, NEW l \in Lookup, UNCHANGED <<put, wasLast, send, discovery>>,
         NEW v \in GetPc, get' = [get EXCEPT ![l] = v],
         \/ get[l] \in Undecided /\ v \notin {"sending", "direct"}
         \/ /\ get[l] = "sending" /\ \A p \in Proxy : send[l][p] \in {"sent", "dropped"}
            /\ v \in {"done", "failing"}
            /\ v = "failing" => wasLast[l] \/ \A p \in Proxy : send[l][p] = "dropped"
         \/ /\ get[l] = "direct" /\ v \in {"done", "failing"}
            /\ \E p \in Proxy : /\ send[l][p] \in {"sent", "failed"}
                                /\ v = "failing" => send[l][p] = "failed"
         \/ get[l] \in Failed /\ v \in Failed
  PROVE  Errors'
<1>1. get'[l] = v /\ \A m \in Lookup : m # l => Still(m)
  BY DEF Still, Inv, TypeInv, TypeOK
<1>2. ErrorInv(l) /\ NothingSent(l)
  BY DEF Errors, Inv, WaitingInv, LookupInv
<1>3. Reported(l)'
  BY <1>1, <1>2 DEF ErrorInv, Reported, Undecided, Failed
<1>4. DiscoveryReported(l)'
  BY <1>1, <1>2 DEF ErrorInv, DiscoveryReported, NothingSent, Undecided, Failed
<1>5. DirectReported(l)'
  BY <1>1, <1>2 DEF ErrorInv, Reported, DirectReported, NothingSent, Undecided, Failed
<1> QED
  BY <1>1, <1>3, <1>4, <1>5, OnlyOneErrs DEF ErrorInv

\* An answer moves on; it is not the last one unless it was, or nothing says
\* that a failed send was.
LEMMA AnswerErrs ==
  ASSUME Inv, Errors, NEW l \in Lookup, NEW p \in Proxy,
         UNCHANGED <<get, wasLast, send, discovery>>,
         NEW v \in AnswerPc, put' = [put EXCEPT ![l][p] = v],
         v # "none" => send[l][p] # "none",
         v \in LastError => put[l][p] \in LastError \/ ~wasLast[l]
  PROVE  Errors'
<1>1. \A m \in Lookup, q \in Proxy :
        put'[m][q] = IF m = l /\ q = p THEN v ELSE put[m][q]
  BY CellUpdate DEF Inv, TypeInv, TypeOK
<1>2. \A m \in Lookup : m # l => Still(m)
  BY <1>1 DEF Still
<1>3. ErrorInv(l)
  BY DEF Errors
<1>4. ErrorInv(l)'
  BY <1>1, <1>3 DEF ErrorInv, Reported, DiscoveryReported, DirectReported
<1> QED
  BY <1>2, <1>4, OnlyOneErrs

\* A send settles, or its failure is dealt with.
LEMMA SendErrs ==
  ASSUME Inv, Errors, NEW l \in Lookup, NEW p \in Proxy, UNCHANGED <<get, put, discovery>>,
         NEW v \in SendPc, send' = [send EXCEPT ![l][p] = v],
         v # "none", v = "sent" \/ v = "failed" \/ get[l] = "sending",
         send[l][p] \in {"flying", "failed"}, send[l][p] = "failed" => get[l] = "sending",
         NEW b \in BOOLEAN, wasLast' = [wasLast EXCEPT ![l] = b] \/ UNCHANGED wasLast,
         wasLast'[l] /\ ~wasLast[l] => \A q \in Proxy : put[l][q] \notin LastError,
         v = "sent" => ~wasLast'[l]
  PROVE  Errors'
<1>1. \A m \in Lookup, q \in Proxy :
        send'[m][q] = IF m = l /\ q = p THEN v ELSE send[m][q]
  BY CellUpdate DEF Inv, TypeInv, TypeOK
<1>2. \A m \in Lookup : m # l => Still(m)
  BY <1>1 DEF Still, Inv, TypeInv, TypeOK
<1>3. ErrorInv(l)
  BY DEF Errors
<1>4. Reported(l)'
  BY <1>1, <1>3 DEF ErrorInv, Reported
<1>5. DiscoveryReported(l)'
  BY <1>1, <1>3 DEF ErrorInv, DiscoveryReported, Failed
<1>6. DirectReported(l)'
  BY <1>1, <1>3 DEF ErrorInv, Reported, DirectReported, Failed
<1> QED
  BY <1>2, <1>4, <1>5, <1>6, OnlyOneErrs DEF ErrorInv

\* An error that is the last answer, or a failed send that is the last one:
\* the entry is the lookup's own, and the other side has not been last.
LEMMA LastOne ==
  ASSUME OneLookupPerSource, Inv, NEW l \in Lookup, NEW p \in Proxy,
         IsLastWithoutSuccess(SourceOf[l], p)
  PROVE  ~wasLast[l] /\ \A q \in Proxy : put[l][q] \notin LastError
<1>1. /\ p \in pending[SourceOf[l]] /\ ~hasSuccess[SourceOf[l]]
      /\ pending[SourceOf[l]] = {p}
  BY DEF IsLastWithoutSuccess
<1>2. EntryOf(l) /\ send[l][p] # "dropped" /\ put[l][p] \in Awaited
  BY <1>1, ListedIsOwn DEF Inv
<1>3. ~wasLast[l]
  BY <1>2 DEF Inv, WaitingInv, LookupInv, EntryAlive
<1>4. ASSUME NEW q \in Proxy, put[l][q] \in LastError PROVE FALSE
  <2>1. q # p
    BY <1>2, <1>4 DEF Awaited, Uncounted, LastError
  <2>2. Spent(l, p)
    BY <1>4, <2>1 DEF Inv, Verdicts, VerdictInv, LastErrorFinal, LastError
  <2> QED
    BY <1>2, <2>2 DEF Spent, Awaited, Uncounted
<1> QED
  BY <1>3, <1>4

\* Every step keeps what is reported, when no requester repeats a lookup.
LEMMA ErrorsNext ==
  ASSUME OneLookupPerSource, Inv, Errors, [Next]_vars
  PROVE  Errors'
<1>1. ASSUME NEW l \in Lookup, ReceiveLookup(l) PROVE Errors'
  BY <1>1, GetErrs DEF ReceiveLookup, Undecided, GetPc
<1>2. ASSUME NEW l \in Lookup, ConsultOracle(l) PROVE Errors'
  <2>1. UNCHANGED <<put, wasLast, discovery>> /\ get[l] = "oracle"
    BY <1>2 DEF ConsultOracle
  <2>2. ASSUME UNCHANGED send, NEW v \in {"discover", "dropRef", "failing"},
               get' = [get EXCEPT ![l] = v]
        PROVE  Errors'
    <3>1. get[l] \in Undecided /\ v \in GetPc /\ v \notin {"sending", "direct"}
      BY <2>1, <2>2 DEF Undecided, GetPc
    <3> QED
      BY <2>1, <2>2, <3>1, GetErrs
  <2>3. CASE /\ mapping # None /\ get' = [get EXCEPT ![l] = "direct"]
             /\ send' = [send EXCEPT ![l][mapping] = "flying"]
    <3>1. mapping \in Proxy
      BY <2>3 DEF Inv, TypeInv, TypeOK
    <3>2. \A m \in Lookup, q \in Proxy :
            send'[m][q] = IF m = l /\ q = mapping THEN "flying" ELSE send[m][q]
      BY <2>3, <3>1, CellUpdate DEF Inv, TypeInv, TypeOK, SendPc
    <3>3. get'[l] = "direct" /\ \A m \in Lookup : m # l => Still(m)
      BY <2>1, <2>3, <3>2 DEF Still, Inv, TypeInv, TypeOK
    <3>4. /\ discovery[l] = "none" /\ ~wasLast[l]
          /\ \A q \in Proxy : put[l][q] = "none" /\ send[l][q] = "none"
      BY <2>1 DEF Inv, WaitingInv, LookupInv, NothingSent, Undecided
    <3>5. ErrorInv(l)'
      BY <2>1, <3>2, <3>3, <3>4
         DEF ErrorInv, Reported, DiscoveryReported, DirectReported, Failed
    <3> QED
      BY <3>3, <3>5, OnlyOneErrs
  <2> QED
    BY <1>2, <2>2, <2>3 DEF ConsultOracle
<1>3. ASSUME NEW l \in Lookup, DropReference(l) PROVE Errors'
  BY <1>3, GetErrs DEF DropReference, Undecided, GetPc
<1>4. ASSUME NEW l \in Lookup, Discover(l) PROVE Errors'
  <2>1. CASE Proxy = {} \/ expiry[SourceOf[l]] # "none"
    BY <1>4, <2>1, GetErrs DEF Discover, Undecided, GetPc
  <2>2. CASE ~(Proxy = {} \/ expiry[SourceOf[l]] # "none")
    <3>1. /\ get' = [get EXCEPT ![l] = "sending"] /\ UNCHANGED <<wasLast, put>>
          /\ send' = [send EXCEPT ![l] = [q \in Proxy |-> "flying"]]
          /\ discovery' = [discovery EXCEPT ![l] = "stored"] /\ get[l] = "discover"
      BY <1>4, <2>2 DEF Discover
    <3>2. /\ get'[l] = "sending" /\ discovery'[l] = "stored"
          /\ \A q \in Proxy : send'[l][q] = "flying"
          /\ \A m \in Lookup : m # l => Still(m)
      BY <3>1 DEF Still, Inv, TypeInv, TypeOK
    <3>3. ~wasLast[l] /\ \A q \in Proxy : put[l][q] = "none"
      BY <3>1 DEF Inv, WaitingInv, LookupInv, NothingSent, Undecided
    <3>4. ErrorInv(l)'
      BY <3>1, <3>2, <3>3 DEF ErrorInv, Reported, DiscoveryReported, DirectReported, Failed
    <3> QED
      BY <3>2, <3>4, OnlyOneErrs
  <2> QED
    BY <2>1, <2>2
<1>5. ASSUME NEW l \in Lookup, ConcludeDiscovery(l) PROVE Errors'
  <2>1. CASE wasLast[l] \/ \A p \in Proxy : send[l][p] = "dropped"
    BY <1>5, <2>1, GetErrs DEF ConcludeDiscovery, GetPc
  <2>2. CASE ~(wasLast[l] \/ \A p \in Proxy : send[l][p] = "dropped")
    BY <1>5, <2>2, GetErrs DEF ConcludeDiscovery, GetPc
  <2> QED
    BY <2>1, <2>2
<1>6. ASSUME NEW l \in Lookup, ReportFailure(l) PROVE Errors'
  BY <1>6, GetErrs DEF ReportFailure, Failed, GetPc
<1>7. ASSUME NEW l \in Lookup, NEW p \in Proxy, ConcludeDirect(l, p) PROVE Errors'
  <2>1. CASE send[l][p] = "sent"
    BY <1>7, <2>1, GetErrs DEF ConcludeDirect, GetPc
  <2>2. CASE send[l][p] = "failed"
    BY <1>7, <2>2, GetErrs DEF ConcludeDirect, GetPc
  <2> QED
    BY <1>7, <2>1, <2>2 DEF ConcludeDirect
<1>8. ASSUME NEW l \in Lookup, NEW p \in Proxy, ReachProxy(l, p) PROVE Errors'
  BY <1>8, AnswerErrs DEF ReachProxy, getVars, AnswerPc, LastError
<1>9. ASSUME NEW l \in Lookup, NEW p \in Proxy, SendSucceeds(l, p) PROVE Errors'
  <2>1. wasLast'[l] = FALSE
    BY <1>9 DEF SendSucceeds, Inv, TypeInv, TypeOK
  <2> QED
    BY <1>9, <2>1, SendErrs DEF SendSucceeds, SendPc
<1>10. ASSUME NEW l \in Lookup, NEW p \in Proxy, SendFails(l, p) PROVE Errors'
  BY <1>10, SendErrs DEF SendFails, SendPc
<1>11. ASSUME NEW l \in Lookup, NEW p \in Proxy, RemoveFailedProxy(l, p) PROVE Errors'
  <2> DEFINE b == IsLastWithoutSuccess(SourceOf[l], p)
  <2>1. b \in BOOLEAN /\ (b => \A q \in Proxy : put[l][q] \notin LastError)
    <3>1. b \in BOOLEAN
      BY DEF IsLastWithoutSuccess
    <3>2. CASE b
      BY <3>1, <3>2, LastOne
    <3> QED
      BY <3>1, <3>2
  <2>2. /\ get[l] = "sending" /\ send[l][p] = "failed" /\ UNCHANGED <<get, put, discovery>>
        /\ send' = [send EXCEPT ![l][p] = "dropped"]
        /\ wasLast' = [wasLast EXCEPT ![l] = b]
    BY <1>11 DEF RemoveFailedProxy
  <2> HIDE DEF b
  <2>3. wasLast'[l] = b
    BY <2>2 DEF Inv, TypeInv, TypeOK
  <2> QED
    BY <2>1, <2>2, <2>3, SendErrs DEF SendPc
<1>12. ASSUME NEW l \in Lookup, NEW p \in Proxy, NEW v \in AnswerPc \ {"none"},
              put' = [put EXCEPT ![l][p] = v], put[l][p] # "none",
              UNCHANGED <<get, wasLast, send, discovery>>,
              v \in LastError => put[l][p] \in LastError \/ ~wasLast[l]
       PROVE  Errors'
  <2>1. send[l][p] # "none"
    BY <1>12 DEF Errors, ErrorInv, Reported
  <2> QED
    BY <1>12, <2>1, AnswerErrs
<1>13. ASSUME NEW l \in Lookup, NEW p \in Proxy,
              \/ Answer(l, p) \/ CountSuccess(l, p) \/ PostMapping(l, p)
              \/ CheckOracle(l, p) \/ CleanupOracle(l, p)
       PROVE  Errors'
  <2>1. /\ \E v \in AnswerPc \ ({"none"} \cup LastError) : put' = [put EXCEPT ![l][p] = v]
        /\ put[l][p] # "none" /\ UNCHANGED <<get, wasLast, send, discovery>>
    BY <1>13 DEF Answer, CountSuccess, PostMapping, CheckOracle, CleanupOracle, getVars,
                 AnswerPc, LastError
  <2> QED
    BY <2>1, <1>12
<1>14. ASSUME NEW l \in Lookup, NEW p \in Proxy, CheckPending(l, p) PROVE Errors'
  BY <1>14, <1>12 DEF CheckPending, getVars, AnswerPc, LastError
<1>15. ASSUME NEW l \in Lookup, NEW p \in Proxy, CountError(l, p) PROVE Errors'
  <2>1. CASE IsLastWithoutSuccess(SourceOf[l], p)
    <3>1. ~wasLast[l]
      BY <2>1, LastOne
    <3> QED
      BY <1>15, <2>1, <3>1, <1>12 DEF CountError, getVars, AnswerPc, LastError
  <2>2. CASE ~IsLastWithoutSuccess(SourceOf[l], p)
    BY <1>15, <2>2, <1>12 DEF CountError, getVars, AnswerPc, LastError
  <2> QED
    BY <2>1, <2>2
<1>16. ASSUME NEW l \in Lookup, NEW p \in Proxy, ForwardSuccess(l, p) PROVE Errors'
  BY <1>16, <1>12 DEF ForwardSuccess, getVars, AnswerPc, LastError
<1>17. ASSUME NEW l \in Lookup, NEW p \in Proxy, ForwardError(l, p) PROVE Errors'
  BY <1>17, <1>12 DEF ForwardError, getVars, AnswerPc, LastError
<1>18. ASSUME NEW s \in Dfsp, SendTimeoutCallback(s) PROVE Errors'
  <2> expiring[s] \in Lookup
    BY <1>18 DEF SendTimeoutCallback, Inv, JobOK
  <2>1. /\ UNCHANGED <<get, send, wasLast, put>>
        /\ \A m \in Lookup : \/ discovery'[m] = discovery[m]
                             \/ discovery'[m] \in {"timedOut", "untold"}
    BY <1>18 DEF SendTimeoutCallback, getVars, Inv, TypeInv, TypeOK
  <2> QED
    BY <2>1 DEF Errors, ErrorInv, Reported, DiscoveryReported, DirectReported
<1>19. CASE UNCHANGED <<get, send, wasLast, put, discovery>>
  BY <1>19 DEF Errors, ErrorInv, Reported, DiscoveryReported, DirectReported
<1>20. ASSUME NEW s \in Dfsp, Expire(s) \/ FindExpired(s) \/ RemoveExpired(s)
       PROVE  Errors'
  BY <1>19, <1>20 DEF Expire, FindExpired, RemoveExpired, getVars
<1>21. CASE UNCHANGED vars
  BY <1>19, <1>21 DEF vars
<1> QED
  BY <1>1, <1>2, <1>3, <1>4, <1>5, <1>6, <1>7, <1>8, <1>9, <1>10, <1>11, <1>13, <1>14,
     <1>15, <1>16, <1>17, <1>18, <1>20, <1>21, StepOfAHandler

\* A requester with one lookup of the party at a time gets one error callback
\* at most, unless the entry times out or a request that seemed to fail had
\* reached its proxy.
THEOREM OneErrorIsReported ==
  ASSUME OneLookupPerSource PROVE Spec => []OneErrorCallback
<1>1. Errors /\ Inv => OneErrorCallback
  <2> SUFFICES ASSUME Errors, Inv, NEW l \in Lookup, discovery[l] \in {"none", "stored"},
                      \A p \in Proxy : put[l][p] # "none" => send[l][p] \notin {"failed", "dropped"}
               PROVE  \A x, y \in ErrorsFor(l) : x = y
    BY DEF OneErrorCallback
  <2>1. ErrorInv(l) /\ LastErrorFinal(l) /\ StrayCaused(l)
    BY DEF Errors, Inv, Verdicts, VerdictInv
  <2> DEFINE Told == {p \in Proxy : put[l][p] \in {"lastErr", "lateErr"}}
  <2>2. \A p, q \in Told : p = q
    <3>1. CASE discovery[l] = "none"
      BY <2>1, <3>1 DEF ErrorInv, Reported, DirectReported
    <3>2. CASE discovery[l] = "stored"
      <4>1. \A p \in Told : put[l][p] = "lastErr"
        BY <2>1, <3>2 DEF Expecting, StrayCaused, Stray
      <4> QED
        BY <2>1, <4>1 DEF LastErrorFinal, Spent
    <3> QED
      BY <3>1, <3>2
  <2>3. get[l] = "told" => Told = {}
    <3> SUFFICES ASSUME get[l] = "told", NEW p \in Told PROVE FALSE
      OBVIOUS
    <3>1. put[l][p] # "none" /\ send[l][p] \notin {"none", "failed", "dropped"}
      BY <2>1 DEF ErrorInv, Reported
    <3>2. CASE discovery[l] = "none"
      BY <2>1, <3>1, <3>2 DEF ErrorInv, DirectReported, Failed
    <3>3. CASE discovery[l] = "stored"
      <4>1. put[l][p] = "lastErr"
        BY <2>1, <3>1, <3>3 DEF Expecting, StrayCaused, Stray
      <4> QED
        BY <2>1, <3>1, <3>3, <4>1
           DEF ErrorInv, Reported, DiscoveryReported, Failed, LastError
    <3> QED
      BY <3>2, <3>3
  <2>4. \A x \in ErrorsFor(l) :
          \/ get[l] = "told" /\ x = <<"get", l>>
          \/ \E p \in Told : x = <<"put", p>>
    BY DEF ErrorsFor
  <2> QED
    BY <2>2, <2>3, <2>4
<1>2. Init => Errors
  BY ErrorsInit
<1>3. Errors /\ Inv /\ [Next]_vars => Errors'
  BY ErrorsNext
<1> QED
  BY <1>1, <1>2, <1>3, SoleLookupInvariant, PTL DEF Spec

-----------------------------------------------------------------------------
(***************************************************************************)
(* Nobody is forgotten.  The entry of a discovery goes away when the list  *)
(* runs empty or after the timeout.  A list runs empty by a success, by an *)
(* error that is the verdict, by an error after a success, or by a send    *)
(* that is written off: only the last leaves nobody to call the requester. *)
(***************************************************************************)
Delivered == Counted \cup {"returned"}

\* A success the cache remembers was given by a proxy.
SuccessGiven(l) == EntryOf(l) /\ hasSuccess[SourceOf[l]] =>
  \E p \in Proxy : put[l][p] \in Delivered

Pursuit == \A l \in Lookup : Pursued(l) /\ SuccessGiven(l)

\* The entry of lookup m or the timeout of it outlast the step.
Outlasts(m) == EntryOf(m) \/ expiring[SourceOf[m]] = m =>
                 EntryOf(m)' \/ expiring'[SourceOf[m]] = m

\* No send of m that was written off is taken up, no verdict taken back.
Onwards(m) == \A q \in Proxy :
  /\ send[m][q] = "dropped" => send'[m][q] = "dropped"
  /\ put[m][q] \in Delivered => put'[m][q] \in Delivered
  /\ put[m][q] \in LastError => put'[m][q] \in LastError \cup Delivered

\* A lookup whose entry and verdicts stay, or whose requester was told.
LEMMA StaysPursued ==
  ASSUME NEW m \in Lookup, Pursued(m), SuccessGiven(m), Onwards(m),
         discovery'[m] = "stored" => discovery[m] = "stored" /\ Outlasts(m),
         EntryOf(m)' /\ hasSuccess'[SourceOf[m]] => EntryOf(m) /\ hasSuccess[SourceOf[m]]
  PROVE  (Pursued(m) /\ SuccessGiven(m))'
<1>1. Pursued(m)'
  BY DEF Pursued, Onwards, Outlasts, Delivered, LastError
<1>2. SuccessGiven(m)'
  BY DEF SuccessGiven, Onwards
<1> QED
  BY <1>1, <1>2

\* A step that leaves the cache, the expiry job and the discoveries alone.
LEMMA CacheUntouchedPursued ==
  ASSUME Pursuit, UNCHANGED <<cacheVars, expiring, discovery>>,
         \A m \in Lookup : Onwards(m)
  PROVE  Pursuit'
<1>1. ASSUME NEW m \in Lookup PROVE (Pursued(m) /\ SuccessGiven(m))'
  BY StaysPursued DEF Pursuit, cacheVars, Outlasts, EntryOf
<1> QED
  BY <1>1 DEF Pursuit

\* A step about lookup l and its entry: the other lookups stay as they are.
LEMMA OnlyOnePursued ==
  ASSUME Pursuit, NEW l \in Lookup, (Pursued(l) /\ SuccessGiven(l))',
         UNCHANGED expiring, \A m \in Lookup : m # l => Still(m) /\ EntrySame(m)
  PROVE  Pursuit'
<1>1. ASSUME NEW m \in Lookup, m # l PROVE (Pursued(m) /\ SuccessGiven(m))'
  BY <1>1, StaysPursued DEF Pursuit, Still, EntrySame, Outlasts, EntryOf, Onwards
<1> QED
  BY <1>1 DEF Pursuit

\* An answer is counted.  If it empties the list it is a success, or the last
\* error, or an error after a success.
LEMMA CountPursued ==
  ASSUME OneLookupPerSource, Inv, Pursuit, NEW l \in Lookup, NEW p \in Proxy,
         NEW b \in BOOLEAN, NEW v \in AnswerPc, put' = [put EXCEPT ![l][p] = v],
         UNCHANGED <<get, send, wasLast, discovery, expiring>>,
         ReceivedResponse(SourceOf[l], p, b), p \in pending[SourceOf[l]] \/ ~b,
         IF b THEN v = "okCounted"
         ELSE v = IF IsLastWithoutSuccess(SourceOf[l], p) THEN "errLast" ELSE "absorbed",
         put[l][p] \in Uncounted
  PROVE  Pursuit'
<1> DEFINE s == SourceOf[l]
<1>1. \A m \in Lookup, q \in Proxy :
        put'[m][q] = IF m = l /\ q = p THEN v ELSE put[m][q]
  BY CellUpdate DEF Inv, TypeInv, TypeOK
<1>2. \A m \in Lookup : m # l => EntrySame(m)
  BY ReceivedResponseEffect DEF Inv
<1>3. /\ pending'[s] = pending[s] \ {p} /\ owner'[s] = owner[s]
      /\ expiry'[s] = IF pending[s] \ {p} = {} THEN "none" ELSE expiry[s]
      /\ hasSuccess'[s] = (pending[s] \ {p} # {} /\ (hasSuccess[s] \/ b))
  BY LookupAssumption DEF ReceivedResponse, Inv, TypeInv, TypeOK
<1>4. Pursued(l) /\ SuccessGiven(l)
  BY DEF Pursuit
<1>5. Onwards(l)
  BY <1>1 DEF Onwards, Uncounted, Delivered, Counted, LastError
<1>6. b => v \in Counted
  BY DEF Counted
<1>7. SuccessGiven(l)'
  BY <1>1, <1>3, <1>4, <1>5, <1>6 DEF SuccessGiven, EntryOf, Onwards, Delivered
<1>8. Pursued(l)'
  <2>1. CASE v \in Counted \cup {"errLast"}
    BY <1>1, <2>1 DEF Pursued
  <2>2. CASE pending[s] \ {p} # {}
    BY <1>3, <1>4, <1>5, <2>2 DEF Pursued, EntryOf, Onwards, Delivered, LastError
  <2>3. CASE pending[s] = {p} /\ hasSuccess[s]
    <3>1. EntryOf(l)
      BY <2>3, ListedIsOwn DEF Inv
    <3>2. \E q \in Proxy : put[l][q] \in Delivered
      BY <1>4, <2>3, <3>1 DEF SuccessGiven
    <3> QED
      BY <1>5, <3>2 DEF Pursued, Onwards, Delivered
  <2>4. CASE pending[s] = {}
    <3>1. ~EntryOf(l) /\ ~EntryOf(l)'
      BY <1>3, <2>4, LookupAssumption DEF EntryOf, Inv, WaitingInv, EntryWaits
    <3> QED
      BY <1>4, <1>5, <3>1 DEF Pursued, Onwards, Delivered, LastError
  <2> QED
    BY <1>6, <2>1, <2>2, <2>3, <2>4 DEF IsLastWithoutSuccess
<1>9. \A m \in Lookup : m # l => Still(m)
  BY <1>1 DEF Still
<1> QED
  BY <1>2, <1>7, <1>8, <1>9, OnlyOnePursued

\* Every step pursues the discoveries, when no requester repeats a lookup.
LEMMA PursuitNext ==
  ASSUME OneLookupPerSource, Inv, Pursuit, [Next]_vars
  PROVE  Pursuit'
<1>1. ASSUME UNCHANGED <<send, put, cacheVars, expiring, discovery>> PROVE Pursuit'
  BY <1>1, CacheUntouchedPursued DEF Onwards
<1>2. ASSUME NEW l \in Lookup, NEW p \in Proxy, NEW v \in SendPc,
             send' = [send EXCEPT ![l][p] = v], send[l][p] # "dropped",
             UNCHANGED <<put, cacheVars, expiring, discovery>>
      PROVE  Pursuit'
  <2>1. \A m \in Lookup, q \in Proxy :
          send'[m][q] = IF m = l /\ q = p THEN v ELSE send[m][q]
    BY <1>2, CellUpdate DEF Inv, TypeInv, TypeOK
  <2>2. \A m \in Lookup : Onwards(m)
    BY <1>2, <2>1 DEF Onwards
  <2> QED
    BY <1>2, <2>2, CacheUntouchedPursued
<1>3. ASSUME NEW l \in Lookup, NEW p \in Proxy, NEW v \in AnswerPc,
             put' = [put EXCEPT ![l][p] = v],
             put[l][p] \in Delivered => v \in Delivered,
             put[l][p] \in LastError => v \in LastError \cup Delivered,
             UNCHANGED <<send, cacheVars, expiring, discovery>>
      PROVE  Pursuit'
  <2>1. \A m \in Lookup, q \in Proxy :
          put'[m][q] = IF m = l /\ q = p THEN v ELSE put[m][q]
    BY <1>3, CellUpdate DEF Inv, TypeInv, TypeOK
  <2>2. \A m \in Lookup : Onwards(m)
    BY <1>3, <2>1 DEF Onwards
  <2> QED
    BY <1>3, <2>2, CacheUntouchedPursued
<1>4. ASSUME NEW l \in Lookup,
             \/ ReceiveLookup(l) \/ DropReference(l) \/ ConcludeDiscovery(l)
             \/ ReportFailure(l) \/ \E p \in Proxy : ConcludeDirect(l, p)
      PROVE  Pursuit'
  BY <1>1, <1>4
     DEF ReceiveLookup, DropReference, ConcludeDiscovery, ReportFailure, ConcludeDirect
<1>5. ASSUME NEW l \in Lookup, ConsultOracle(l) PROVE Pursuit'
  <2>1. UNCHANGED <<put, cacheVars, expiring, discovery>> /\ get[l] = "oracle"
    BY <1>5 DEF ConsultOracle
  <2>2. CASE mapping # None /\ send' = [send EXCEPT ![l][mapping] = "flying"]
    <3>1. mapping \in Proxy
      BY <2>2 DEF Inv, TypeInv, TypeOK
    <3>2. send[l][mapping] # "dropped"
      BY <2>1, <3>1 DEF Inv, WaitingInv, LookupInv, NothingSent, Undecided
    <3>3. "flying" \in SendPc
      BY DEF SendPc
    <3> QED
      BY <1>2, <2>1, <2>2, <3>1, <3>2, <3>3
  <2>3. CASE UNCHANGED send
    BY <1>1, <2>1, <2>3
  <2> QED
    BY <1>5, <2>2, <2>3 DEF ConsultOracle
<1>6. ASSUME NEW l \in Lookup, Discover(l) PROVE Pursuit'
  <2>1. CASE Proxy = {} \/ expiry[SourceOf[l]] # "none"
    BY <1>1, <1>6, <2>1 DEF Discover
  <2>2. CASE ~(Proxy = {} \/ expiry[SourceOf[l]] # "none")
    <3> DEFINE s == SourceOf[l]
    <3>1. /\ pending' = [pending EXCEPT ![s] = Proxy]
          /\ hasSuccess' = [hasSuccess EXCEPT ![s] = FALSE]
          /\ expiry' = [expiry EXCEPT ![s] = "armed"]
          /\ owner' = [owner EXCEPT ![s] = l]
          /\ get' = [get EXCEPT ![l] = "sending"]
          /\ send' = [send EXCEPT ![l] = [p \in Proxy |-> "flying"]]
          /\ discovery' = [discovery EXCEPT ![l] = "stored"]
          /\ UNCHANGED <<wasLast, put, expiring>>
      BY <1>6, <2>2 DEF Discover, SetSendToProxiesList
    <3>2. s \in Dfsp /\ \A m \in Lookup : m # l => SourceOf[m] # s /\ SourceOf[m] \in Dfsp
      BY LookupAssumption DEF OneLookupPerSource
    <3>3. EntryOf(l)' /\ ~hasSuccess'[s]
      BY <3>1, <3>2 DEF EntryOf, Inv, TypeInv, TypeOK
    <3>4. (Pursued(l) /\ SuccessGiven(l))'
      BY <3>3 DEF Pursued, SuccessGiven
    <3>5. ASSUME NEW m \in Lookup, m # l PROVE Still(m) /\ EntrySame(m)
      BY <3>1, <3>2, <3>5 DEF Still, EntrySame, Inv, TypeInv, TypeOK
    <3> QED
      BY <3>1, <3>4, <3>5, OnlyOnePursued
  <2> QED
    BY <2>1, <2>2
<1>7. ASSUME NEW l \in Lookup, NEW p \in Proxy,
             ReachProxy(l, p) \/ Answer(l, p) \/ PostMapping(l, p) \/ ForwardSuccess(l, p)
      PROVE  Pursuit'
  <2>1. /\ \E v \in AnswerPc : /\ put' = [put EXCEPT ![l][p] = v]
                               /\ put[l][p] \in Delivered => v \in Delivered
        /\ put[l][p] \notin LastError
        /\ UNCHANGED <<send, cacheVars, expiring, discovery>>
    BY <1>7 DEF ReachProxy, Answer, PostMapping, ForwardSuccess, getVars, AnswerPc,
                Delivered, Counted, LastError
  <2> QED
    BY <1>3, <2>1
<1>8. ASSUME NEW l \in Lookup, NEW p \in Proxy,
             \/ CheckPending(l, p) \/ CheckOracle(l, p) \/ CleanupOracle(l, p)
             \/ ForwardError(l, p)
      PROVE  Pursuit'
  <2>1. /\ \E v \in AnswerPc : /\ put' = [put EXCEPT ![l][p] = v]
                               /\ put[l][p] \in LastError => v \in LastError \cup Delivered
        /\ put[l][p] \notin Delivered
        /\ UNCHANGED <<send, cacheVars, expiring, discovery>>
    BY <1>8 DEF CheckPending, CheckOracle, CleanupOracle, ForwardError, getVars, AnswerPc,
                Delivered, Counted, LastError
  <2> QED
    BY <1>3, <2>1
<1>9. ASSUME NEW l \in Lookup, NEW p \in Proxy, CountSuccess(l, p) PROVE Pursuit'
  <2>1. /\ UNCHANGED <<get, send, wasLast, discovery, expiring>>
        /\ put[l][p] \in Uncounted /\ put[l][p] \notin Delivered \cup LastError
    BY <1>9 DEF CountSuccess, getVars, Uncounted, Delivered, Counted, LastError
  <2>2. {"okCounted", "okLate", "returned"} \subseteq AnswerPc
    BY DEF AnswerPc
  <2>3. CASE /\ p \in pending[SourceOf[l]] /\ put' = [put EXCEPT ![l][p] = "okCounted"]
             /\ ReceivedResponse(SourceOf[l], p, TRUE)
    BY <2>1, <2>2, <2>3, CountPursued
  <2>4. CASE /\ UNCHANGED cacheVars
             /\ \E v \in {"okLate", "returned"} : put' = [put EXCEPT ![l][p] = v]
    BY <1>3, <2>1, <2>2, <2>4
  <2> QED
    BY <1>9, <2>3, <2>4 DEF CountSuccess
<1>10. ASSUME NEW l \in Lookup, NEW p \in Proxy, CountError(l, p) PROVE Pursuit'
  <2>1. /\ UNCHANGED <<get, send, wasLast, discovery, expiring>>
        /\ put[l][p] \in Uncounted /\ ReceivedResponse(SourceOf[l], p, FALSE)
    BY <1>10 DEF CountError, getVars, Uncounted
  <2>2. PICK v \in AnswerPc :
          /\ v = IF IsLastWithoutSuccess(SourceOf[l], p) THEN "errLast" ELSE "absorbed"
          /\ put' = [put EXCEPT ![l][p] = v]
    BY <1>10 DEF CountError, AnswerPc
  <2> QED
    BY <2>1, <2>2, CountPursued
<1>11. ASSUME NEW l \in Lookup, NEW p \in Proxy, SendSucceeds(l, p) \/ SendFails(l, p)
       PROVE  Pursuit'
  BY <1>2, <1>11 DEF SendSucceeds, SendFails, SendPc
<1>12. ASSUME NEW l \in Lookup, NEW p \in Proxy, RemoveFailedProxy(l, p) PROVE Pursuit'
  <2>1. /\ ReceivedResponse(SourceOf[l], p, FALSE)
        /\ send' = [send EXCEPT ![l][p] = "dropped"]
        /\ UNCHANGED <<get, put, discovery, expiring>>
        /\ \A m \in Lookup : m # l => wasLast'[m] = wasLast[m]
    BY <1>12 DEF RemoveFailedProxy, Inv, TypeInv, TypeOK
  <2>2. \A m \in Lookup, q \in Proxy :
          send'[m][q] = IF m = l /\ q = p THEN "dropped" ELSE send[m][q]
    BY <2>1, CellUpdate DEF Inv, TypeInv, TypeOK, SendPc
  <2>3. \A m \in Lookup : m # l => Still(m) /\ EntrySame(m)
    <3>1. \A m \in Lookup : m # l => EntrySame(m)
      BY <2>1, ReceivedResponseEffect DEF Inv
    <3>2. \A m \in Lookup : m # l => Still(m)
      BY <2>1, <2>2 DEF Still
    <3> QED
      BY <3>1, <3>2
  <2>4. EntryOf(l)' /\ hasSuccess'[SourceOf[l]] => EntryOf(l) /\ hasSuccess[SourceOf[l]]
    BY <2>1, LookupAssumption DEF ReceivedResponse, EntryOf, Inv, TypeInv, TypeOK
  <2>5. (Pursued(l) /\ SuccessGiven(l))'
    BY <2>1, <2>2, <2>4 DEF Pursuit, Pursued, SuccessGiven
  <2> QED
    BY <2>1, <2>3, <2>5, OnlyOnePursued
<1>13. ASSUME NEW s \in Dfsp, Expire(s) PROVE Pursuit'
  <2>1. \A m \in Lookup : (EntryOf(m)' <=> EntryOf(m)) /\ Onwards(m)
    BY <1>13 DEF Expire, getVars, EntryOf, Onwards, Inv, TypeInv, TypeOK
  <2>2. UNCHANGED <<hasSuccess, expiring, discovery>>
    BY <1>13 DEF Expire
  <2> QED
    BY <2>1, <2>2, StaysPursued DEF Pursuit, Outlasts
<1>14. ASSUME NEW s \in Dfsp, FindExpired(s) PROVE Pursuit'
  <2>1. /\ UNCHANGED <<send, put, cacheVars, discovery>> /\ expiring[s] = None
        /\ \A t \in Dfsp : t # s => expiring'[t] = expiring[t]
    BY <1>14 DEF FindExpired, getVars, Inv, TypeInv, TypeOK
  <2>2. \A m \in Lookup : Onwards(m) /\ Outlasts(m)
    BY <2>1, LookupAssumption, NoneAssumption DEF Onwards, Outlasts, EntryOf, cacheVars
  <2>3. \A m \in Lookup : EntryOf(m)' <=> EntryOf(m)
    BY <2>1 DEF EntryOf, cacheVars
  <2> QED
    BY <2>1, <2>2, <2>3, StaysPursued DEF Pursuit, cacheVars
<1>15. ASSUME NEW s \in Dfsp, SendTimeoutCallback(s) PROVE Pursuit'
  <2>1. /\ UNCHANGED <<send, put, cacheVars, expiring>>
        /\ expiring[s] \in Lookup
    BY <1>15 DEF SendTimeoutCallback, getVars, Inv, JobOK
  <2>2. \A m \in Lookup : discovery'[m] = "stored" => discovery[m] = "stored"
    BY <1>15, <2>1 DEF SendTimeoutCallback, Inv, TypeInv, TypeOK
  <2>3. \A m \in Lookup : Onwards(m) /\ Outlasts(m) /\ (EntryOf(m)' <=> EntryOf(m))
    BY <2>1 DEF Onwards, Outlasts, EntryOf, cacheVars
  <2> QED
    BY <2>1, <2>2, <2>3, StaysPursued DEF Pursuit, cacheVars
<1>16. ASSUME NEW s \in Dfsp, RemoveExpired(s) PROVE Pursuit'
  <2>1. /\ UNCHANGED <<send, put, owner, discovery>>
        /\ expiring[s] # None /\ discovery[expiring[s]] # "stored" /\ RemoveEntry(s)
        /\ expiring' = [expiring EXCEPT ![s] = None]
    BY <1>16 DEF RemoveExpired, RemoveEntry, getVars
  <2>2. ASSUME NEW m \in Lookup, SourceOf[m] = s
        PROVE  discovery'[m] # "stored" /\ ~EntryOf(m)'
    BY <2>1, <2>2 DEF Inv, JobOK, OneLookupPerSource, RemoveEntry, EntryOf, TypeInv, TypeOK
  <2>3. ASSUME NEW m \in Lookup, SourceOf[m] # s
        PROVE  /\ Outlasts(m) /\ (EntryOf(m)' <=> EntryOf(m))
               /\ hasSuccess'[SourceOf[m]] = hasSuccess[SourceOf[m]]
    BY <2>1, <2>3, LookupAssumption
       DEF Outlasts, EntryOf, RemoveEntry, Inv, TypeInv, TypeOK
  <2>4. \A m \in Lookup : Onwards(m)
    BY <2>1 DEF Onwards
  <2> QED
    BY <2>1, <2>2, <2>3, <2>4, StaysPursued DEF Pursuit
<1>17. CASE UNCHANGED vars
  BY <1>1, <1>17 DEF vars, cacheVars
<1> QED
  BY <1>4, <1>5, <1>6, <1>7, <1>8, <1>9, <1>10, <1>11, <1>12, <1>13, <1>14, <1>15,
     <1>16, <1>17, StepOfAHandler

\* The requester of a discovery is not forgotten as long as no send of it was
\* written off: its entry will expire, its timeout is under way, or a verdict
\* was taken; for requesters that have one lookup of the party at a time.
THEOREM NobodyForgotten ==
  ASSUME OneLookupPerSource PROVE Spec => []DiscoveryIsPursued
<1>1. Init => Pursuit
  BY LookupAssumption DEF Init, Pursuit, Pursued, SuccessGiven, EntryOf
<1>2. Pursuit /\ Inv /\ [Next]_vars => Pursuit'
  BY PursuitNext
<1>3. Pursuit => DiscoveryIsPursued
  BY DEF Pursuit, DiscoveryIsPursued
<1> QED
  BY <1>1, <1>2, <1>3, SoleLookupInvariant, PTL DEF Spec
=============================================================================
