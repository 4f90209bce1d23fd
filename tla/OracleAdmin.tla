----------------------------- MODULE OracleAdmin -----------------------------
(***************************************************************************)
(* The table of oracle endpoints and the admin API that changes it: which  *)
(* oracle serves which party id type and currency.  createOracle and       *)
(* updateOracle first look for an active row with the same key and then    *)
(* write, in separate database calls; migration 10 has dropped the unique  *)
(* index, so nothing else keeps the keys apart.                            *)
(***************************************************************************)
CONSTANTS
  Admin,     \* admin requests that may be under way at the same time
  Row,       \* the oracleEndpointIds there will ever be
  IdType,    \* party id types
  Currency,  \* currencies
  None       \* no currency (NULL); no row, no payload

ASSUME NoneAssumption == None \notin IdType \cup Currency \cup Row

\* The key a request names; the currency is optional in OracleInfo.
Key == [idType : IdType, currency : Currency \cup {None}]

VARIABLES
  status,    \* status[r]: is row r there, and its isActive
  key,       \* key[r]: its partyIdTypeId and currencyId
  pc,        \* pc[a]: where the request of a stands
  row,       \* row[a]: the row it updates
  payload,   \* payload[a]: the key it asks for
  seen,      \* seen[a]: the key getOracleEndpointById returned
  unguarded  \* history: two changes for one key or of one row overlapped, or
             \* an update left out the currency, which its check did not see

reqVars == <<pc, row, payload, seen>>
vars == <<status, key, pc, row, payload, seen, unguarded>>

TypeOK ==
  /\ status \in [Row -> {"unused", "active", "inactive"}]
  /\ key \in [Row -> Key \cup {None}]
  /\ pc \in [Admin -> {"idle", "inserting", "matching", "writing"}]
  /\ row \in [Admin -> Row \cup {None}]
  /\ payload \in [Admin -> Key \cup {None}]
  /\ seen \in [Admin -> Key \cup {None}]
  /\ unguarded \in BOOLEAN
  /\ \A r \in Row : status[r] # "unused" => key[r] \in Key
  /\ \A a \in Admin : pc[a] # "idle" => payload[a] \in Key
  /\ \A a \in Admin : pc[a] \in {"matching", "writing"} =>
       /\ seen[a] \in Key
       /\ row[a] \in Row /\ status[row[a]] # "unused"

Init ==
  /\ status = [r \in Row |-> "unused"]
  /\ key = [r \in Row |-> None]
  /\ pc = [a \in Admin |-> "idle"]
  /\ row = [a \in Admin |-> None]
  /\ payload = [a \in Admin |-> None]
  /\ seen = [a \in Admin |-> None]
  /\ unguarded = FALSE

\* Mutant: without a currency in the payload, every currency is compared
\* with undefined and nothing matches.
MatchingCurrencyOnly(p) ==
  {r \in Row : status[r] = "active" /\ key[r] = p /\ p.currency # None}

\* getAllOracleEndpointsByMatchCondition: an absent currency matches NULL.
Matching(p) == {r \in Row : status[r] = "active" /\ key[r] = p}

\* The other requests under way that ask for key p, or update row r.
AskFor(a, p)  == \E b \in Admin \ {a} : pc[b] # "idle" /\ payload[b] = p
Updates(a, r) == \E b \in Admin \ {a} : pc[b] # "idle" /\ row[b] = r

Done(a) ==
  /\ pc' = [pc EXCEPT ![a] = "idle"]
  /\ row' = [row EXCEPT ![a] = None]
  /\ payload' = [payload EXCEPT ![a] = None]
  /\ seen' = [seen EXCEPT ![a] = None]

-----------------------------------------------------------------------------
\* createOracle up to the insert; a match rejects the request.
CheckCreate(a, p) ==
  /\ pc[a] = "idle" /\ Matching(p) = {}
  /\ pc' = [pc EXCEPT ![a] = "inserting"]
  /\ payload' = [payload EXCEPT ![a] = p]
  /\ unguarded' = (unguarded \/ AskFor(a, p))
  /\ UNCHANGED <<status, key, row, seen>>

InsertOracle(a, r) ==
  /\ pc[a] = "inserting" /\ status[r] = "unused"
  /\ status' = [status EXCEPT ![r] = "active"]
  /\ key' = [key EXCEPT ![r] = payload[a]]
  /\ Done(a)
  /\ UNCHANGED unguarded

\* updateOracle: getOracleEndpointById joins the currency, so it finds active
\* rows that have one; any other is "Oracle not found".
FindOracle(a, r, p) ==
  /\ pc[a] = "idle"
  /\ status[r] = "active" /\ key[r].currency # None
  /\ pc' = [pc EXCEPT ![a] = "matching"]
  /\ row' = [row EXCEPT ![a] = r]
  /\ payload' = [payload EXCEPT ![a] = p]
  /\ seen' = [seen EXCEPT ![a] = key[r]]
  /\ unguarded' = (unguarded \/ AskFor(a, p) \/ Updates(a, r))
  /\ UNCHANGED <<status, key>>

\* Mutant: the match is not looked at.
CheckUpdateIgnoringMatch(a) ==
  /\ pc[a] = "matching"
  /\ pc' = [pc EXCEPT ![a] = "writing"]
  /\ UNCHANGED <<status, key, row, payload, seen, unguarded>>

CheckUpdate(a) ==
  /\ pc[a] = "matching"
  /\ \/ /\ Matching(payload[a]) = {}
        /\ pc' = [pc EXCEPT ![a] = "writing"]
        /\ UNCHANGED <<row, payload, seen>>
     \/ /\ Matching(payload[a]) # {}
        /\ Done(a)
  /\ UNCHANGED <<status, key, unguarded>>

\* What updateOracleEndpointById writes: only what differs from the row as it
\* was read, and a currency only if the payload has one.
Written(a) ==
  LET old == key[row[a]]
      p == payload[a]
  IN [idType   |-> IF p.idType # seen[a].idType THEN p.idType ELSE old.idType,
      currency |-> IF p.currency \notin {None, seen[a].currency}
                   THEN p.currency ELSE old.currency]

\* Mutants: the row becomes active again; the type column gets a currency.
WriteUpdateActive(a) ==
  /\ pc[a] = "writing"
  /\ key' = [key EXCEPT ![row[a]] = Written(a)]
  /\ status' = [status EXCEPT ![row[a]] = "active"]
  /\ Done(a)
  /\ unguarded' = (unguarded \/ payload[a].currency = None)
WriteUpdateSwapped(a) ==
  /\ pc[a] = "writing"
  /\ key' = [key EXCEPT ![row[a]] = [Written(a) EXCEPT !.idType = seen[a].currency]]
  /\ Done(a)
  /\ unguarded' = (unguarded \/ payload[a].currency = None)
  /\ UNCHANGED status

WriteUpdate(a) ==
  /\ pc[a] = "writing"
  /\ key' = [key EXCEPT ![row[a]] = Written(a)]
  /\ Done(a)
  /\ unguarded' = (unguarded \/ payload[a].currency = None)
  /\ UNCHANGED status

\* deleteOracle: isActive is cleared, whatever the row was.
DeleteOracle(r) ==
  /\ status[r] # "unused"
  /\ status' = [status EXCEPT ![r] = "inactive"]
  /\ UNCHANGED <<key, reqVars, unguarded>>

-----------------------------------------------------------------------------
Next ==
  \/ \E a \in Admin, p \in Key : CheckCreate(a, p)
  \/ \E a \in Admin, r \in Row : InsertOracle(a, r)
  \/ \E a \in Admin, r \in Row, p \in Key : FindOracle(a, r, p)
  \/ \E a \in Admin : CheckUpdate(a) \/ WriteUpdate(a)
  \/ \E r \in Row : DeleteOracle(r)

Spec == Init /\ [][Next]_vars
-----------------------------------------------------------------------------
\* "Active oracle with matching partyIdTypeId, endpointTypeId, currencyId
\* already exists": two active rows never have the same key.
OneActiveOracle ==
  \A r, s \in Row : status[r] = "active" /\ status[s] = "active" /\ key[r] = key[s]
                    => r = s

\* That holds, however changes overlap, as long as no two that overlap are for
\* one key or of one row and every update names the currency: a check and a
\* write in calls of their own are not disturbed by deletions, nor by changes of
\* other oracles between them, to a key once checked or from it.
OneActiveUnlessUnguarded == ~unguarded => OneActiveOracle

\* A deleted oracle never serves again: not even an update that read the row
\* before its deletion and writes after it brings it back.
DeletedStaysDeleted ==
  [][\A r \in Row : status[r] = "inactive" => status'[r] = "inactive"]_vars

(***************************************************************************)
(* The inductive invariant.                                                *)
(***************************************************************************)
\* Requests at work differ in key and row, what they have checked still holds,
\* and the rows they update are as they were read.
Apart == \A a, b \in Admin :
  a # b /\ pc[a] # "idle" /\ pc[b] # "idle" =>
    /\ payload[a] # payload[b]
    /\ {pc[a], pc[b]} \subseteq {"matching", "writing"} => row[a] # row[b]
CheckedFree == \A a \in Admin :
  pc[a] \in {"inserting", "writing"} => Matching(payload[a]) = {}
ReadStillTrue == \A a \in Admin :
  pc[a] \in {"matching", "writing"} => seen[a] = key[row[a]]

OracleInv ==
  TypeOK /\ (~unguarded => OneActiveOracle /\ Apart /\ CheckedFree /\ ReadStillTrue)
-----------------------------------------------------------------------------
Table == INSTANCE OracleTable

\* Check and write take effect at once, as if each change held the table, until
\* two changes for one key or of one row overlap or an update leaves the currency
\* out.
KeepsTable == Table!Spec
=============================================================================
