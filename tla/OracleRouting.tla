---------------------------- MODULE OracleRouting ----------------------------
(***************************************************************************)
(* Which oracle a request about a party goes to.  The registered oracles   *)
(* of the party's identifier type come from the database through a cache,  *)
(* one of them is picked, and what a GET of it answered is cached as well. *)
(* The administration of oracles and other requests go on meanwhile;       *)
(* nothing but time removes an entry from a cache.  A read that finds the  *)
(* same read under way waits for it instead of asking again (catbox).      *)
(***************************************************************************)
EXTENDS Naturals

CONSTANTS
  Oracle,     \* endpoints of oracles
  Currency,   \* currencies
  Request,    \* requests about the party, one each
  MaxWrites,  \* bound: administrative writes
  AnyCurrency, \* no currency given, none registered
  None        \* no row, no cache entry, no oracle

ASSUME WriteAssumption  == MaxWrites \in Nat
ASSUME NoValueAssumption == AnyCurrency \notin Currency /\ None \notin Oracle

Money == Currency \cup {AnyCurrency}

Row   == [currency : Money, isDefault : BOOLEAN]
Table == [Oracle -> Row \cup {None}]
List  == SUBSET [oracle : Oracle, isDefault : BOOLEAN]

(***************************************************************************)
(* "participant" and "party" are the GETs of the two resources, "register" *)
(* a POST or PUT, "batch" a POST of several parties, "list" GET /oracles.  *)
(***************************************************************************)
Kind == {"participant", "party", "register", "batch", "delete", "list"}
Call == [kind : Kind, cur : Money]
Reads  == {"participant", "party"}
Stores == {"register", "batch"}

\* Cache entries: only GET /participants asks for the check of the database
\* pool, and that flag is part of the key.
Key == [cur : Money, check : BOOLEAN]

Pc == {"idle", "list", "keep", "pick", "call", "learn", "done", "failed"}

VARIABLES
  past,    \* past[n]: the active row of each oracle after n writes
  writes,  \* administrative writes so far
  cached,  \* the cache "oracleEndpoints"
  answers, \* the cache "oracleGet": does the answer name an owner
  holds,   \* holds[o]: oracle o knows an owner of the party
  call,    \* call[r]: the request r
  pc,      \* pc[r]: where it stands
  list,    \* list[r]: the oracles it read
  at,      \* at[r]: the oracle it picked
  found,   \* found[r]: a GET was answered with an owner
  newest,  \* newest[k]: writes when the database was last asked for k (history)
  due      \* due[r]: oracles that must find the party if GET r asks (history)

tableVars == <<past, writes>>
cacheVars == <<cached, answers>>
reqVars   == <<call, pc, list, at, found>>
vars == <<past, writes, cached, answers, holds, call, pc, list, at, found, newest, due>>

TypeOK ==
  /\ past \in [0..MaxWrites -> Table]
  /\ writes \in 0..MaxWrites
  /\ cached \in [Key -> List \cup {None}]
  /\ answers \in [Oracle -> [Money -> BOOLEAN \cup {None}]]
  /\ holds \in [Oracle -> BOOLEAN]
  /\ call \in [Request -> Call \cup {None}]
  /\ pc \in [Request -> Pc]
  /\ list \in [Request -> List]
  /\ at \in [Request -> Oracle \cup {None}]
  /\ found \in [Request -> BOOLEAN]
  /\ newest \in [Key -> 0..MaxWrites]
  /\ due \in [Request -> SUBSET Oracle]

Init ==
  /\ \E t \in Table : past = [n \in 0..MaxWrites |-> t]
  /\ writes = 0
  /\ cached = [k \in Key |-> None]
  /\ answers = [o \in Oracle |-> [c \in Money |-> None]]
  /\ holds \in [Oracle -> BOOLEAN]
  /\ call = [r \in Request |-> None]
  /\ pc = [r \in Request |-> "idle"]
  /\ list = [r \in Request |-> {}]
  /\ at = [r \in Request |-> None]
  /\ found = [r \in Request |-> FALSE]
  /\ newest = [k \in Key |-> 0]
  /\ due = [r \in Request |-> {}]

-----------------------------------------------------------------------------
\* getOracleEndpointByType, getOracleEndpointByTypeAndCurrency, after n writes.
Listing(n, c) ==
  {[oracle |-> o, isDefault |-> past[n][o].isDefault] :
     o \in {p \in Oracle : /\ past[n][p] # None
                           /\ c # AnyCurrency => past[n][p].currency = c}}

\* determineOracleEndpoint: only a GET and a batch choose by currency.
Asked(c) == IF c.kind \in {"register", "delete"} THEN AnyCurrency ELSE c.cur

\* Mutant: the lists of a type share one entry.
KeyOfType(c) == [cur |-> AnyCurrency, check |-> c.kind = "participant"]

\* The id getOracleEndpointCached makes of its parameters.
KeyOf(c) == [cur |-> Asked(c), check |-> c.kind = "participant"]

\* Mutant: of several oracles any will do.
PicksAny(L) == L

\* The only oracle listed, or else a default one: single requests take the
\* last of them and a batch the first, in an order the query leaves open.
Picks(L) == IF \A x, y \in L : x = y THEN L ELSE {x \in L : x.isDefault}

\* What is read without asking the database: the entry of the cache, or what
\* another request has read already but not yet put there.
KnownLists(k) ==
  ({cached[k]} \ {None})
    \cup {list[r] : r \in {s \in Request : pc[s] = "keep" /\ KeyOf(call[s]) = k}}

\* The same for the answers of oracle o.
KnownAnswers(o, c) ==
  ({answers[o][c]} \ {None})
    \cup {found[r] : r \in {s \in Request : pc[s] = "learn" /\ at[s] = o /\ call[s].cur = c}}

-----------------------------------------------------------------------------
\* POST, PUT and DELETE /oracles: the caches are left as they are.
Administer(o) ==
  /\ writes < MaxWrites
  /\ writes' = writes + 1
  /\ \E row \in Row \cup {None} :
       /\ row # past[writes][o]
       /\ past' = [past EXCEPT ![writes + 1] = [past[writes] EXCEPT ![o] = row]]
  /\ UNCHANGED <<cacheVars, holds, reqVars, newest, due>>

\* EXPIRES_IN_MS passes for an entry.
ExpireList(k) ==
  /\ cached[k] # None
  /\ cached' = [cached EXCEPT ![k] = None]
  /\ UNCHANGED <<tableVars, answers, holds, reqVars, newest, due>>

ExpireAnswer(o, c) ==
  /\ answers[o][c] # None
  /\ answers' = [answers EXCEPT ![o][c] = None]
  /\ UNCHANGED <<tableVars, cached, holds, reqVars, newest, due>>

-----------------------------------------------------------------------------
Goto(r, step) == pc' = [pc EXCEPT ![r] = step]

\* A GET is due to find the party at every oracle that holds it by now, unless
\* an earlier answer of that oracle to the contrary is cached or under way.
Start(r) ==
  /\ pc[r] = "idle"
  /\ \E c \in Call :
       /\ call' = [call EXCEPT ![r] = c]
       /\ due' = [due EXCEPT ![r] =
            {o \in Oracle : c.kind \in Reads /\ holds[o] /\ FALSE \notin KnownAnswers(o, c.cur)}]
  /\ Goto(r, "list")
  /\ UNCHANGED <<tableVars, cacheVars, holds, list, at, found, newest>>

AfterList(r) == IF call[r].kind = "list" THEN "done" ELSE "pick"

\* getOracleEndpointCached: a list known already, or what the database says by
\* now; the database may fail, or refuse because too many wait for its pool.
ReadList(r) ==
  LET k == KeyOf(call[r]) IN
  /\ pc[r] = "list"
  /\ \/ /\ \E known \in KnownLists(k) : list' = [list EXCEPT ![r] = known]
        /\ Goto(r, AfterList(r))
        /\ UNCHANGED newest
     \/ /\ KnownLists(k) = {}
        /\ list' = [list EXCEPT ![r] = Listing(writes, Asked(call[r]))]
        /\ newest' = [newest EXCEPT ![k] = writes]
        /\ Goto(r, "keep")
     \/ /\ KnownLists(k) = {}
        /\ Goto(r, "failed")
        /\ UNCHANGED <<list, newest>>
  /\ UNCHANGED <<tableVars, cacheVars, holds, call, at, found, due>>

\* What was read enters the cache, though the table may have changed since,
\* or does not, when MAX_BYTE_SIZE is used up.
KeepList(r) ==
  /\ pc[r] = "keep"
  /\ \/ cached' = [cached EXCEPT ![KeyOf(call[r])] = list[r]]
     \/ UNCHANGED cached
  /\ Goto(r, AfterList(r))
  /\ UNCHANGED <<tableVars, answers, holds, call, list, at, found, newest, due>>

\* Mutant: the row is taken for its endpoint.
PickRow(r) ==
  /\ pc[r] = "pick"
  /\ \/ \E x \in Picks(list[r]) : at' = [at EXCEPT ![r] = x] /\ Goto(r, "call")
     \/ Picks(list[r]) = {} /\ Goto(r, "failed") /\ UNCHANGED at
  /\ UNCHANGED <<tableVars, cacheVars, holds, call, list, found, newest, due>>

\* determineOracleEndpoint and the endpoint of oracleBatchRequest: no oracle
\* is an exception, several without a default make a request to nowhere.
PickOracle(r) ==
  /\ pc[r] = "pick"
  /\ \/ \E x \in Picks(list[r]) :
          at' = [at EXCEPT ![r] = x.oracle] /\ Goto(r, "call")
     \/ Picks(list[r]) = {} /\ Goto(r, "failed") /\ UNCHANGED at
  /\ UNCHANGED <<tableVars, cacheVars, holds, call, list, found, newest, due>>

-----------------------------------------------------------------------------
\* sendOracleGetRequest: an answer to the same URL known already, or a new one.
AskOracle(r) ==
  LET known == KnownAnswers(at[r], call[r].cur) IN
  /\ pc[r] = "call" /\ call[r].kind \in Reads
  /\ \/ \E answer \in known : found' = [found EXCEPT ![r] = answer] /\ Goto(r, "done")
     \/ known = {} /\ found' = [found EXCEPT ![r] = holds[at[r]]] /\ Goto(r, "learn")
     \/ known = {} /\ Goto(r, "failed") /\ UNCHANGED found
  /\ UNCHANGED <<tableVars, cacheVars, holds, call, list, at, newest, due>>

\* The answer enters the cache, though the oracle may know better by now.
KeepAnswer(r) ==
  /\ pc[r] = "learn"
  /\ \/ answers' = [answers EXCEPT ![at[r]][call[r].cur] = found[r]]
     \/ UNCHANGED answers
  /\ Goto(r, "done")
  /\ UNCHANGED <<tableVars, cached, holds, call, list, at, found, newest, due>>

Store(r) ==
  /\ pc[r] = "call" /\ call[r].kind \in Stores
  /\ \/ holds' = [holds EXCEPT ![at[r]] = TRUE] /\ Goto(r, "done")
     \/ Goto(r, "failed") /\ UNCHANGED holds
  /\ UNCHANGED <<tableVars, cacheVars, call, list, at, found, newest, due>>

Delete(r) ==
  /\ pc[r] = "call" /\ call[r].kind = "delete"
  /\ \/ /\ holds' = [holds EXCEPT ![at[r]] = FALSE]
        /\ due' = [s \in Request |-> due[s] \ {at[r]}]
        /\ Goto(r, "done")
     \/ Goto(r, "failed") /\ UNCHANGED <<holds, due>>
  /\ UNCHANGED <<tableVars, cacheVars, call, list, at, found, newest>>

-----------------------------------------------------------------------------
Step(r) ==
  \/ ReadList(r) \/ KeepList(r) \/ PickOracle(r)
  \/ AskOracle(r) \/ KeepAnswer(r) \/ Store(r) \/ Delete(r)

Expire ==
  \/ \E k \in Key : ExpireList(k)
  \/ \E o \in Oracle, c \in Money : ExpireAnswer(o, c)

Next ==
  \/ \E o \in Oracle : Administer(o)
  \/ Expire
  \/ \E r \in Request : Start(r) \/ Step(r)

Spec == Init /\ [][Next]_vars
-----------------------------------------------------------------------------
(***************************************************************************)
(* Properties.                                                             *)
(***************************************************************************)
\* A list that leaves no choice but oracle o.
LeadsTo(L, o) ==
  \E x \in L : /\ x.oracle = o
              /\ \A y \in L : y = x \/ (x.isDefault /\ ~y.isDefault)

\* A GET misses a party some oracle has had since before it started, and that
\* nobody deleted, only if its list does not lead to that oracle or an earlier
\* answer of the oracle was still about: outdated lists, those kept for other
\* requests, changes of the table and other oracles do it no other harm.
FoundWhereHeld ==
  \A r \in Request :
    pc[r] \in {"learn", "done"} /\ (\E o \in due[r] : LeadsTo(list[r], o)) => found[r]

\* Lists do not go back in time: what a request is given without asking the
\* database is what the database said when it was last asked for that currency
\* and check, though writes came before, between or after read and entry.
NeverBack ==
  \A k \in Key : \A L \in KnownLists(k) : L = Listing(newest[k], k.cur)
=============================================================================
