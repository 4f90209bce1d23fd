------------------------ MODULE OracleRouting_proofs ------------------------
(***************************************************************************)
(* What OracleRouting guarantees for every set of oracles, currencies and  *)
(* requests, however the administration, the expiry of cache entries and   *)
(* the requests interleave.                                                *)
(***************************************************************************)
EXTENDS OracleRouting, TLAPS

\* A handler that was started has a request, one that calls has an oracle.
Begun == \A r \in Request :
  /\ pc[r] # "idle" => call[r] \in Call
  /\ pc[r] \in {"call", "learn"} => at[r] \in Oracle

Typed == TypeOK /\ Begun

\* A list known is as old as the last read of the database under its key.
AgeIsKnown == \A k \in Key :
  newest[k] <= writes /\ \A L \in KnownLists(k) : L = Listing(newest[k], k.cur)

\* The oracles GET r is due to find the party at have it, and no answer that
\* could be passed on to it says otherwise.
DueOf(r) ==
  /\ pc[r] = "idle" => due[r] = {}
  /\ \A o \in due[r] : /\ call[r].kind \in Reads
                       /\ holds[o] = TRUE
                       /\ FALSE \notin KnownAnswers(o, call[r].cur)

\* The oracle asked is one the list leaves to choose.
PickedOf(r) ==
  pc[r] \in {"call", "learn"} => \E x \in Picks(list[r]) : at[r] = x.oracle

FoundOf(r) ==
  pc[r] \in {"learn", "done"} /\ (\E o \in due[r] : LeadsTo(list[r], o)) => found[r]

DueInv == \A r \in Request : DueOf(r) /\ PickedOf(r) /\ FoundOf(r)

RoutingInv == Typed /\ AgeIsKnown /\ DueInv

-----------------------------------------------------------------------------
\* What the database listed at any time is a list of oracles.
LEMMA ListingTyped ==
  ASSUME TypeOK, NEW n \in 0..MaxWrites, NEW c \in Money
  PROVE  Listing(n, c) \in List
<1>1. past[n] \in [Oracle -> Row \cup {None}]
  BY DEF TypeOK, Table
<1>2. \A o \in Oracle : past[n][o] # None => past[n][o].isDefault \in BOOLEAN
  BY <1>1 DEF Row
<1> QED
  BY <1>2 DEF Listing, List

\* The key under which the list for a request is cached.
LEMMA KeyTyped ==
  ASSUME NEW c \in Call
  PROVE  KeyOf(c) \in Key /\ KeyOf(c).cur = Asked(c) /\ Asked(c) \in Money
BY DEF KeyOf, Asked, Key, Call, Money

\* Lists that are passed on are lists of oracles, answers are yes or no.
LEMMA KnownTyped ==
  ASSUME TypeOK
  PROVE  /\ \A k \in Key : KnownLists(k) \subseteq List
         /\ \A o \in Oracle, c \in Money : KnownAnswers(o, c) \subseteq BOOLEAN
BY DEF TypeOK, KnownLists, KnownAnswers

\* A request that moves on keeps the table of program counters typed.
LEMMA GotoTyped ==
  ASSUME TypeOK, NEW r \in Request, NEW step \in Pc, Goto(r, step)
  PROVE  /\ pc' \in [Request -> Pc] /\ pc'[r] = step
         /\ \A s \in Request \ {r} : pc'[s] = pc[s]
BY DEF TypeOK, Goto

\* A list that leads to an oracle leaves no other to pick.
LEMMA LeadsToPicked ==
  ASSUME NEW L, NEW o, LeadsTo(L, o), NEW x \in Picks(L)
  PROVE  x.oracle = o
BY DEF LeadsTo, Picks

\* Every initial state satisfies the invariant: nothing is known or due yet.
LEMMA RoutingInit == Init => RoutingInv
<1> SUFFICES ASSUME Init PROVE RoutingInv
  OBVIOUS
<1>1. TypeOK
  <2>1. PICK t \in Table : past = [n \in 0..MaxWrites |-> t]
    BY DEF Init
  <2>2. past \in [0..MaxWrites -> Table]
    BY <2>1
  <2> QED
    BY <2>2, WriteAssumption DEF Init, TypeOK, Pc, List
<1>2. Begun
  BY DEF Init, Begun
<1>3. AgeIsKnown
  BY DEF Init, AgeIsKnown, KnownLists
<1>4. DueInv
  BY DEF Init, DueInv, DueOf, PickedOf, FoundOf
<1> QED
  BY <1>1, <1>2, <1>3, <1>4 DEF RoutingInv, Typed

(***************************************************************************)
(* Types.                                                                  *)
(***************************************************************************)
\* The administration and the expiry of cache entries keep the types.
LEMMA WorldTyped ==
  ASSUME Typed, (\E o \in Oracle : Administer(o)) \/ Expire
  PROVE  Typed'
<1>1. ASSUME NEW o \in Oracle, Administer(o) PROVE Typed'
  <2>1. writes \in 0..MaxWrites /\ writes + 1 \in 0..MaxWrites /\ writes' = writes + 1
    BY <1>1, WriteAssumption DEF Administer, Typed, TypeOK
  <2>2. PICK row \in Row \cup {None} :
          past' = [past EXCEPT ![writes + 1] = [past[writes] EXCEPT ![o] = row]]
    BY <1>1 DEF Administer
  <2>3. [past[writes] EXCEPT ![o] = row] \in Table
    BY <2>1, <2>2 DEF Typed, TypeOK, Table
  <2>4. past' \in [0..MaxWrites -> Table]
    BY <2>1, <2>2, <2>3 DEF Typed, TypeOK
  <2>5. UNCHANGED <<cached, answers, holds, call, pc, list, at, found, newest, due>>
    BY <1>1 DEF Administer, cacheVars, reqVars
  <2> QED
    BY <2>1, <2>4, <2>5 DEF Typed, TypeOK, Begun
<1>2. ASSUME NEW k \in Key, ExpireList(k) PROVE Typed'
  <2>1. UNCHANGED <<past, writes, answers, holds, call, pc, list, at, found, newest, due>>
    BY <1>2 DEF ExpireList, reqVars, tableVars
  <2>2. cached' \in [Key -> List \cup {None}]
    BY <1>2 DEF ExpireList, Typed, TypeOK
  <2> QED
    BY <2>1, <2>2 DEF Typed, TypeOK, Begun
<1>3. ASSUME NEW o \in Oracle, NEW c \in Money, ExpireAnswer(o, c) PROVE Typed'
  <2>1. UNCHANGED <<past, writes, cached, holds, call, pc, list, at, found, newest, due>>
    BY <1>3 DEF ExpireAnswer, reqVars, tableVars
  <2>2. answers' \in [Oracle -> [Money -> BOOLEAN \cup {None}]]
    BY <1>3 DEF ExpireAnswer, Typed, TypeOK
  <2> QED
    BY <2>1, <2>2 DEF Typed, TypeOK, Begun
<1> QED
  BY <1>1, <1>2, <1>3 DEF Expire

\* Every step of a request keeps the types.
LEMMA RequestTyped ==
  ASSUME Typed, NEW r \in Request, Start(r) \/ Step(r)
  PROVE  Typed'
<1> USE DEF Typed
<1>1. CASE Start(r)
  <2>1. PICK c \in Call : call' = [call EXCEPT ![r] = c]
    BY <1>1 DEF Start
  <2>2. due' \in [Request -> SUBSET Oracle]
    <3>1. PICK S \in SUBSET Oracle : due' = [due EXCEPT ![r] = S]
      BY <1>1 DEF Start
    <3> QED
      BY <3>1 DEF TypeOK
  <2>3. /\ pc' \in [Request -> Pc] /\ pc'[r] = "list"
        /\ \A s \in Request \ {r} : pc'[s] = pc[s]
    BY <1>1, GotoTyped DEF Start, Pc
  <2>4. UNCHANGED <<past, writes, cached, answers, holds, list, at, found, newest>>
    BY <1>1 DEF Start, cacheVars, tableVars
  <2>5. TypeOK'
    BY <2>1, <2>2, <2>3, <2>4 DEF TypeOK
  <2>6. Begun'
    BY <2>1, <2>3, <2>4 DEF TypeOK, Begun
  <2> QED
    BY <2>5, <2>6
<1>2. CASE ReadList(r)
  <2>1. pc[r] = "list" /\ call[r] \in Call
    BY <1>2 DEF ReadList, Begun
  <2>2. KeyOf(call[r]) \in Key /\ Asked(call[r]) \in Money /\ writes \in 0..MaxWrites
    BY <2>1, KeyTyped DEF TypeOK
  <2>3. list' \in [Request -> List] /\ newest' \in [Key -> 0..MaxWrites]
    <3>1. KnownLists(KeyOf(call[r])) \subseteq List /\ Listing(writes, Asked(call[r])) \in List
      BY <2>2, KnownTyped, ListingTyped
    <3> QED
      BY <1>2, <2>2, <3>1 DEF ReadList, TypeOK
  <2>4. PICK step \in {"pick", "done", "keep", "failed"} : Goto(r, step)
    BY <1>2 DEF ReadList, AfterList
  <2>5. /\ pc' \in [Request -> Pc] /\ pc'[r] = step
        /\ \A s \in Request \ {r} : pc'[s] = pc[s]
    BY <2>4, GotoTyped DEF Pc
  <2>6. UNCHANGED <<past, writes, cached, answers, holds, call, at, found, due>>
    BY <1>2 DEF ReadList, cacheVars, tableVars
  <2>7. TypeOK'
    BY <2>3, <2>5, <2>6 DEF TypeOK
  <2> QED
    BY <2>1, <2>5, <2>6, <2>7 DEF Begun
<1>3. CASE KeepList(r)
  <2>1. pc[r] = "keep" /\ call[r] \in Call
    BY <1>3 DEF KeepList, Begun
  <2>2. cached' \in [Key -> List \cup {None}]
    BY <1>3, <2>1, KeyTyped DEF KeepList, TypeOK
  <2>3. PICK step \in {"pick", "done"} : Goto(r, step)
    BY <1>3 DEF KeepList, AfterList
  <2>4. /\ pc' \in [Request -> Pc] /\ pc'[r] = step
        /\ \A s \in Request \ {r} : pc'[s] = pc[s]
    BY <2>3, GotoTyped DEF Pc
  <2>5. UNCHANGED <<past, writes, answers, holds, call, list, at, found, newest, due>>
    BY <1>3 DEF KeepList, tableVars
  <2>6. TypeOK'
    BY <2>2, <2>4, <2>5 DEF TypeOK
  <2> QED
    BY <2>1, <2>4, <2>5, <2>6 DEF Begun
<1>4. CASE PickOracle(r)
  <2>1. pc[r] = "pick" /\ call[r] \in Call
    BY <1>4 DEF PickOracle, Begun
  <2>2. \A x \in Picks(list[r]) : x.oracle \in Oracle
    BY DEF Picks, TypeOK, List
  <2>3. PICK step \in {"call", "failed"} :
          /\ Goto(r, step)
          /\ step = "call" => \E x \in Picks(list[r]) : at' = [at EXCEPT ![r] = x.oracle]
          /\ step = "failed" => UNCHANGED at
    BY <1>4 DEF PickOracle
  <2>4. /\ at' \in [Request -> Oracle \cup {None}]
        /\ step = "call" => at'[r] \in Oracle
        /\ \A s \in Request \ {r} : at'[s] = at[s]
    BY <2>2, <2>3 DEF TypeOK
  <2>5. /\ pc' \in [Request -> Pc] /\ pc'[r] = step
        /\ \A s \in Request \ {r} : pc'[s] = pc[s]
    BY <2>3, GotoTyped DEF Pc
  <2>6. UNCHANGED <<past, writes, cached, answers, holds, call, list, found, newest, due>>
    BY <1>4 DEF PickOracle, cacheVars, tableVars
  <2>7. TypeOK'
    BY <2>4, <2>5, <2>6 DEF TypeOK
  <2> QED
    BY <2>1, <2>4, <2>5, <2>6, <2>7 DEF Begun
<1>5. CASE AskOracle(r)
  <2>1. pc[r] = "call" /\ call[r] \in Call /\ at[r] \in Oracle
    BY <1>5 DEF AskOracle, Begun
  <2>2. KnownAnswers(at[r], call[r].cur) \subseteq BOOLEAN /\ holds[at[r]] \in BOOLEAN
    BY <2>1, KnownTyped DEF TypeOK, Call
  <2>3. found' \in [Request -> BOOLEAN]
    BY <1>5, <2>2 DEF AskOracle, TypeOK
  <2>4. PICK step \in {"done", "learn", "failed"} : Goto(r, step)
    BY <1>5 DEF AskOracle
  <2>5. /\ pc' \in [Request -> Pc] /\ pc'[r] = step
        /\ \A s \in Request \ {r} : pc'[s] = pc[s]
    BY <2>4, GotoTyped DEF Pc
  <2>6. UNCHANGED <<past, writes, cached, answers, holds, call, list, at, newest, due>>
    BY <1>5 DEF AskOracle, cacheVars, tableVars
  <2>7. TypeOK'
    BY <2>3, <2>5, <2>6 DEF TypeOK
  <2> QED
    BY <2>1, <2>5, <2>6, <2>7 DEF Begun
<1>6. CASE KeepAnswer(r)
  <2>1. pc[r] = "learn" /\ call[r] \in Call /\ at[r] \in Oracle
    BY <1>6 DEF KeepAnswer, Begun
  <2>2. call[r].cur \in Money /\ found[r] \in BOOLEAN
    BY <2>1 DEF Call, TypeOK
  <2>3. answers' \in [Oracle -> [Money -> BOOLEAN \cup {None}]]
    <3>1. [answers EXCEPT ![at[r]][call[r].cur] = found[r]]
            \in [Oracle -> [Money -> BOOLEAN \cup {None}]]
      BY <2>1, <2>2 DEF TypeOK
    <3> QED
      BY <1>6, <3>1 DEF KeepAnswer, TypeOK
  <2>4. /\ pc' \in [Request -> Pc] /\ pc'[r] = "done"
        /\ \A s \in Request \ {r} : pc'[s] = pc[s]
    BY <1>6, GotoTyped DEF KeepAnswer, Pc
  <2>5. UNCHANGED <<past, writes, cached, holds, call, list, at, found, newest, due>>
    BY <1>6 DEF KeepAnswer, tableVars
  <2>6. TypeOK'
    BY <2>3, <2>4, <2>5 DEF TypeOK
  <2> QED
    BY <2>1, <2>4, <2>5, <2>6 DEF Begun
<1>7. CASE Store(r) \/ Delete(r)
  <2>1. pc[r] = "call" /\ call[r] \in Call /\ at[r] \in Oracle
    BY <1>7 DEF Store, Delete, Begun
  <2>2. PICK step \in {"done", "failed"} : Goto(r, step)
    BY <1>7 DEF Store, Delete
  <2>3. /\ pc' \in [Request -> Pc] /\ pc'[r] = step
        /\ \A s \in Request \ {r} : pc'[s] = pc[s]
    BY <2>2, GotoTyped DEF Pc
  <2>4. /\ UNCHANGED <<past, writes, cached, answers, call, list, at, found, newest>>
        /\ holds' \in [Oracle -> BOOLEAN]
        /\ due' \in [Request -> SUBSET Oracle]
    <3>1. CASE Store(r)
      BY <2>1, <3>1 DEF Store, cacheVars, tableVars, TypeOK
    <3>2. CASE Delete(r)
      <4>1. UNCHANGED <<past, writes, cached, answers, call, list, at, found, newest>>
        BY <3>2 DEF Delete, cacheVars, tableVars
      <4>2. holds' \in [Oracle -> BOOLEAN]
        BY <2>1, <3>2 DEF Delete, TypeOK
      <4>3. due' = [s \in Request |-> due[s] \ {at[r]}] \/ due' = due
        BY <3>2 DEF Delete
      <4>4. due' \in [Request -> SUBSET Oracle]
        BY <4>3 DEF TypeOK
      <4> QED
        BY <4>1, <4>2, <4>4
    <3> QED
      BY <1>7, <3>1, <3>2
  <2>5. TypeOK'
    BY <2>3, <2>4 DEF TypeOK
  <2> QED
    BY <2>1, <2>3, <2>4, <2>5 DEF Begun
<1> QED
  BY <1>1, <1>2, <1>3, <1>4, <1>5, <1>6, <1>7 DEF Step

(***************************************************************************)
(* The age of lists.                                                       *)
(***************************************************************************)
\* Lists that were known before stay as old as they were.
LEMMA AgeKept ==
  ASSUME AgeIsKnown, UNCHANGED <<past, writes, newest>>,
         \A k \in Key : KnownLists(k)' \subseteq KnownLists(k)
  PROVE  AgeIsKnown'
BY DEF AgeIsKnown, Listing

\* A write leaves the table as it was before it on record, an entry that
\* expires is known no more.
LEMMA WorldAge ==
  ASSUME Typed, AgeIsKnown, (\E o \in Oracle : Administer(o)) \/ Expire
  PROVE  AgeIsKnown'
<1>1. ASSUME NEW o \in Oracle, Administer(o) PROVE AgeIsKnown'
  <2>1. /\ writes \in 0..MaxWrites /\ writes' = writes + 1
        /\ UNCHANGED <<cached, list, pc, call, newest>>
    BY <1>1 DEF Administer, cacheVars, reqVars, Typed, TypeOK
  <2>2. PICK t : past' = [past EXCEPT ![writes + 1] = t]
    BY <1>1 DEF Administer
  <2>3. \A n \in 0..writes : past'[n] = past[n]
    BY <2>1, <2>2, WriteAssumption DEF Typed, TypeOK
  <2>4. \A k \in Key : newest[k] \in 0..writes
    BY <2>1, WriteAssumption DEF AgeIsKnown, Typed, TypeOK
  <2>5. \A k \in Key : past'[newest'[k]] = past[newest[k]] /\ newest'[k] <= writes'
    BY <2>1, <2>3, <2>4
  <2>6. \A k \in Key : KnownLists(k)' = KnownLists(k)
    BY <2>1 DEF KnownLists
  <2>7. \A k \in Key : Listing(newest[k], k.cur)' = Listing(newest[k], k.cur)
    BY <2>5 DEF Listing
  <2> QED
    BY <2>5, <2>6, <2>7 DEF AgeIsKnown
<1>2. ASSUME Expire PROVE AgeIsKnown'
  <2>1. UNCHANGED <<past, writes, newest, call, pc, list>>
    BY <1>2 DEF Expire, ExpireList, ExpireAnswer, reqVars, tableVars
  <2>2. \A k \in Key : cached'[k] \in {cached[k], None}
    BY <1>2 DEF Expire, ExpireList, ExpireAnswer, Typed, TypeOK
  <2>3. \A k \in Key : KnownLists(k)' \subseteq KnownLists(k)
    BY <2>1, <2>2 DEF KnownLists
  <2> QED
    BY <2>1, <2>3, AgeKept
<1> QED
  BY <1>1, <1>2

\* A request asks the database only for what is not known, and keeps what it
\* was told.
LEMMA RequestAge ==
  ASSUME Typed, AgeIsKnown, NEW r \in Request, Start(r) \/ Step(r)
  PROVE  AgeIsKnown'
<1> USE DEF Typed
<1>1. CASE ReadList(r) /\ Goto(r, "keep")
  <2>0. PICK k0 \in Key : k0 = KeyOf(call[r]) /\ k0.cur = Asked(call[r])
    BY <1>1, KeyTyped DEF ReadList, Begun
  <2>1. pc[r] = "list"
    BY <1>1 DEF ReadList
  <2>2. /\ KnownLists(k0) = {}
        /\ list' = [list EXCEPT ![r] = Listing(writes, k0.cur)]
        /\ newest' = [newest EXCEPT ![k0] = writes]
    <3>1. pc'[r] = "keep"
      BY <1>1, GotoTyped DEF Pc
    <3>2. ~Goto(r, AfterList(r)) /\ ~Goto(r, "failed")
      BY <3>1, GotoTyped DEF AfterList, Pc
    <3> QED
      BY <1>1, <2>0, <3>2 DEF ReadList
  <2>3. /\ UNCHANGED <<past, writes, cached, call>>
        /\ pc'[r] = "keep" /\ \A s \in Request \ {r} : pc'[s] = pc[s]
    BY <1>1, GotoTyped DEF ReadList, cacheVars, tableVars, Pc
  <2>4. list'[r] = Listing(writes, k0.cur) /\ \A s \in Request \ {r} : list'[s] = list[s]
    BY <2>2 DEF TypeOK
  <2>5. KnownLists(k0)' \subseteq {Listing(writes, k0.cur)}
    BY <2>0, <2>2, <2>3, <2>4 DEF KnownLists
  <2>6. \A k \in Key \ {k0} : KnownLists(k)' \subseteq KnownLists(k)
    BY <2>0, <2>3, <2>4 DEF KnownLists
  <2>7. newest'[k0] = writes /\ \A k \in Key \ {k0} : newest'[k] = newest[k]
    BY <2>2 DEF TypeOK
  <2>8. \A k \in Key : newest'[k] <= writes'
    BY <2>3, <2>7, WriteAssumption DEF AgeIsKnown, TypeOK
  <2>9. \A L \in KnownLists(k0)' : L = Listing(newest[k0], k0.cur)'
    BY <2>3, <2>5, <2>7 DEF Listing
  <2>10. \A k \in Key \ {k0} : \A L \in KnownLists(k)' : L = Listing(newest[k], k.cur)'
    BY <2>3, <2>6, <2>7 DEF AgeIsKnown, Listing
  <2> QED
    BY <2>8, <2>9, <2>10 DEF AgeIsKnown
<1>2. CASE ReadList(r) /\ ~Goto(r, "keep")
  <2>1. PICK step \in {"pick", "done", "failed"} : Goto(r, step)
    BY <1>2 DEF ReadList, AfterList
  <2>2. /\ pc'[r] # "keep" /\ \A s \in Request \ {r} : pc'[s] = pc[s]
    BY <2>1, GotoTyped DEF Pc
  <2>3. /\ UNCHANGED <<past, writes, cached, call, newest>>
        /\ \A s \in Request \ {r} : list'[s] = list[s]
    BY <1>2 DEF ReadList, cacheVars, tableVars, TypeOK
  <2>4. \A k \in Key : KnownLists(k)' \subseteq KnownLists(k)
    BY <2>2, <2>3 DEF KnownLists
  <2> QED
    BY <2>3, <2>4, AgeKept
<1>3. CASE KeepList(r)
  <2>1. pc[r] = "keep" /\ KeyOf(call[r]) \in Key
    BY <1>3, KeyTyped DEF KeepList, Begun
  <2>2. PICK step \in {"pick", "done"} : Goto(r, step)
    BY <1>3 DEF KeepList, AfterList
  <2>3. pc'[r] # "keep" /\ \A s \in Request \ {r} : pc'[s] = pc[s]
    BY <2>2, GotoTyped DEF Pc
  <2>4. UNCHANGED <<past, writes, call, list, newest>>
    BY <1>3 DEF KeepList, tableVars
  <2>5. \A k \in Key : \/ cached'[k] = cached[k]
                       \/ k = KeyOf(call[r]) /\ cached'[k] = list[r]
    BY <1>3, <2>1 DEF KeepList, TypeOK
  <2>6. \A k \in Key : KnownLists(k)' \subseteq KnownLists(k)
    BY <2>1, <2>3, <2>4, <2>5 DEF KnownLists
  <2> QED
    BY <2>4, <2>6, AgeKept
<1>4. CASE Start(r)
  <2>1. pc[r] = "idle" /\ pc'[r] = "list" /\ \A s \in Request \ {r} : pc'[s] = pc[s]
    BY <1>4, GotoTyped DEF Start, Pc
  <2>2. /\ UNCHANGED <<past, writes, cached, list, newest>>
        /\ \A s \in Request \ {r} : call'[s] = call[s]
    BY <1>4 DEF Start, cacheVars, tableVars, TypeOK
  <2>3. \A k \in Key : KnownLists(k)' \subseteq KnownLists(k)
    BY <2>1, <2>2 DEF KnownLists
  <2> QED
    BY <2>2, <2>3, AgeKept
<1>5. CASE PickOracle(r) \/ AskOracle(r) \/ KeepAnswer(r) \/ Store(r) \/ Delete(r)
  <2>1. PICK step \in {"call", "learn", "done", "failed"} : Goto(r, step)
    BY <1>5 DEF PickOracle, AskOracle, KeepAnswer, Store, Delete
  <2>2. pc'[r] # "keep" /\ \A s \in Request \ {r} : pc'[s] = pc[s]
    BY <2>1, GotoTyped DEF Pc
  <2>3. UNCHANGED <<past, writes, cached, call, list, newest>>
    BY <1>5 DEF PickOracle, AskOracle, KeepAnswer, Store, Delete, cacheVars, tableVars
  <2>4. \A k \in Key : KnownLists(k)' \subseteq KnownLists(k)
    BY <2>2, <2>3 DEF KnownLists
  <2> QED
    BY <2>3, <2>4, AgeKept
<1> QED
  BY <1>1, <1>2, <1>3, <1>4, <1>5 DEF Step

(***************************************************************************)
(* What GETs are due to find.                                              *)
(***************************************************************************)
\* Nothing is due any more than before, and nobody learns to the contrary.
LEMMA DueKept ==
  ASSUME DueInv, NEW s \in Request, due'[s] \subseteq due[s],
         pc'[s] = "idle" => pc[s] = "idle", call'[s] = call[s],
         \A o \in due'[s] : holds'[o] = TRUE,
         \A o, c : KnownAnswers(o, c)' \subseteq KnownAnswers(o, c) \cup {holds[o]}
  PROVE  DueOf(s)'
BY DEF DueInv, DueOf

\* A request that does not step keeps its oracle and its answer.
LEMMA OthersKept ==
  ASSUME DueInv, NEW s \in Request, due'[s] \subseteq due[s], pc'[s] = pc[s],
         list'[s] = list[s], at'[s] = at[s], found'[s] = found[s]
  PROVE  PickedOf(s)' /\ FoundOf(s)'
BY DEF DueInv, PickedOf, FoundOf

\* Neither the administration nor the expiry of entries touches what is due.
LEMMA WorldDue ==
  ASSUME Typed, DueInv, (\E o \in Oracle : Administer(o)) \/ Expire
  PROVE  DueInv'
<1>1. UNCHANGED <<holds, call, pc, list, at, found, due>>
  BY DEF Administer, Expire, ExpireList, ExpireAnswer, reqVars
<1>2. \A o \in Oracle, c \in Money : answers'[o][c] \in {answers[o][c], None}
  <2>1. CASE UNCHANGED answers
    BY <2>1
  <2>2. ASSUME NEW o \in Oracle, NEW c \in Money, ExpireAnswer(o, c)
        PROVE  \A p \in Oracle, d \in Money : answers'[p][d] \in {answers[p][d], None}
    BY <2>2 DEF ExpireAnswer, Typed, TypeOK
  <2> QED
    BY <2>1, <2>2 DEF Administer, Expire, ExpireList, cacheVars
<1>3. \A o \in Oracle, c \in Money : KnownAnswers(o, c)' \subseteq KnownAnswers(o, c)
  BY <1>1, <1>2 DEF KnownAnswers
<1>4. ASSUME NEW s \in Request PROVE DueOf(s)'
  <2>1. \A o \in due[s] : o \in Oracle /\ pc[s] # "idle" /\ call[s].cur \in Money
    BY DEF DueInv, DueOf, Typed, Begun, TypeOK, Call
  <2> QED
    BY <1>1, <1>3, <2>1 DEF DueInv, DueOf
<1>5. \A s \in Request : PickedOf(s)' /\ FoundOf(s)'
  BY <1>1, OthersKept
<1> QED
  BY <1>4, <1>5 DEF DueInv

\* What is due to a request stays with it through its own steps and those of
\* others: answers come from the oracles or are passed on.
LEMMA RequestDue ==
  ASSUME Typed, DueInv, NEW r \in Request, Start(r) \/ Step(r)
  PROVE  DueInv'
<1> USE DEF Typed
<1>0. DueOf(r) /\ PickedOf(r) /\ FoundOf(r)
  BY DEF DueInv
<1>1. CASE Start(r)
  <2>1. pc[r] = "idle" /\ pc'[r] = "list" /\ \A s \in Request \ {r} : pc'[s] = pc[s]
    BY <1>1, GotoTyped DEF Start, Pc
  <2>2. /\ UNCHANGED <<answers, holds, list, at, found>>
        /\ \A s \in Request \ {r} : call'[s] = call[s] /\ due'[s] = due[s]
    BY <1>1 DEF Start, cacheVars, TypeOK
  <2>3. \A o, c : KnownAnswers(o, c)' \subseteq KnownAnswers(o, c)
    BY <2>1, <2>2 DEF KnownAnswers
  <2>4. PICK c \in Call :
          /\ call'[r] = c
          /\ due'[r] = {o \in Oracle : c.kind \in Reads /\ holds[o]
                                       /\ FALSE \notin KnownAnswers(o, c.cur)}
    BY <1>1 DEF Start, TypeOK
  <2>5. DueOf(r)'
    <3>1. \A o \in due'[r] : c.kind \in Reads /\ holds[o] = TRUE
                             /\ FALSE \notin KnownAnswers(o, c.cur)
      BY <2>4 DEF TypeOK
    <3> QED
      BY <2>1, <2>2, <2>3, <2>4, <3>1 DEF DueOf
  <2>6. PickedOf(r)' /\ FoundOf(r)'
    BY <2>1 DEF PickedOf, FoundOf
  <2>7. ASSUME NEW s \in Request \ {r} PROVE DueOf(s)' /\ PickedOf(s)' /\ FoundOf(s)'
    <3>1. \A o \in due'[s] : holds'[o] = TRUE
      BY <2>2 DEF DueInv, DueOf
    <3>2. DueOf(s)'
      BY <2>1, <2>2, <2>3, <3>1, DueKept
    <3> QED
      BY <2>1, <2>2, <3>2, OthersKept
  <2> QED
    BY <2>5, <2>6, <2>7 DEF DueInv
<1>2. CASE ReadList(r) \/ KeepList(r) \/ PickOracle(r)
  <2>1. PICK step \in {"keep", "pick", "call", "done", "failed"} :
          /\ Goto(r, step)
          /\ step = "done" => call[r].kind = "list"
    BY <1>2 DEF ReadList, KeepList, PickOracle, AfterList
  <2>2. pc[r] \in {"list", "keep", "pick"}
    BY <1>2 DEF ReadList, KeepList, PickOracle
  <2>3. pc'[r] = step /\ \A s \in Request \ {r} : pc'[s] = pc[s]
    BY <2>1, GotoTyped DEF Pc
  <2>4. /\ UNCHANGED <<answers, holds, call, found, due>>
        /\ \A s \in Request \ {r} : list'[s] = list[s] /\ at'[s] = at[s]
    BY <1>2 DEF ReadList, KeepList, PickOracle, cacheVars, TypeOK
  <2>5. \A o, c : KnownAnswers(o, c)' \subseteq KnownAnswers(o, c)
    BY <2>2, <2>3, <2>4 DEF KnownAnswers
  <2>6. ASSUME NEW s \in Request PROVE DueOf(s)'
    <3>1. \A o \in due'[s] : holds'[o] = TRUE
      BY <2>4 DEF DueInv, DueOf
    <3> QED
      BY <2>2, <2>3, <2>4, <2>5, <3>1, DueKept
  <2>7. PickedOf(r)'
    <3>1. CASE step # "call"
      BY <2>1, <2>3, <3>1 DEF PickedOf
    <3>2. CASE step = "call"
      <4>1. PickOracle(r) /\ ~Goto(r, "failed")
        BY <1>2, <2>3, <3>2, GotoTyped DEF ReadList, KeepList, AfterList, Pc
      <4>2. PICK x \in Picks(list[r]) : at' = [at EXCEPT ![r] = x.oracle]
        BY <4>1 DEF PickOracle
      <4>3. at'[r] = x.oracle /\ list' = list
        BY <4>1, <4>2 DEF PickOracle, TypeOK
      <4> QED
        BY <4>2, <4>3 DEF PickedOf
    <3> QED
      BY <3>1, <3>2
  <2>8. FoundOf(r)'
    <3>1. step = "done" => due[r] = {}
      BY <1>0, <2>1 DEF DueOf, Reads
    <3> QED
      BY <2>1, <2>3, <2>4, <3>1 DEF FoundOf
  <2>9. \A s \in Request \ {r} : PickedOf(s)' /\ FoundOf(s)'
    BY <2>3, <2>4, OthersKept
  <2> QED
    BY <2>6, <2>7, <2>8, <2>9 DEF DueInv
<1>3. CASE AskOracle(r)
  <2>1. PICK step \in {"done", "learn", "failed"} :
          /\ Goto(r, step)
          /\ step = "done" =>
               \E answer \in KnownAnswers(at[r], call[r].cur) : found' = [found EXCEPT ![r] = answer]
          /\ step = "learn" => found' = [found EXCEPT ![r] = holds[at[r]]]
    BY <1>3 DEF AskOracle
  <2>2. /\ pc[r] = "call" /\ at[r] \in Oracle /\ call[r].cur \in Money
        /\ UNCHANGED <<answers, holds, call, list, at, due>>
        /\ \A s \in Request \ {r} : found'[s] = found[s]
    BY <1>3 DEF AskOracle, Begun, cacheVars, TypeOK, Call
  <2>3. pc'[r] = step /\ \A s \in Request \ {r} : pc'[s] = pc[s]
    BY <2>1, GotoTyped DEF Pc
  <2>4. step = "learn" => found'[r] = holds[at[r]]
    BY <2>1 DEF TypeOK
  <2>5. \A o, c : KnownAnswers(o, c)' \subseteq KnownAnswers(o, c) \cup {holds[o]}
    BY <2>1, <2>2, <2>3, <2>4 DEF KnownAnswers
  <2>6. ASSUME NEW s \in Request PROVE DueOf(s)'
    <3>1. \A o \in due'[s] : holds'[o] = TRUE
      BY <2>2 DEF DueInv, DueOf
    <3> QED
      BY <2>1, <2>2, <2>3, <2>5, <3>1, DueKept
  <2>7. PickedOf(r)'
    BY <1>0, <2>1, <2>2, <2>3 DEF PickedOf
  <2>8. FoundOf(r)'
    <3> SUFFICES ASSUME step \in {"learn", "done"}, NEW o \in due[r], LeadsTo(list[r], o)
                 PROVE  found'[r]
      BY <2>1, <2>2, <2>3 DEF FoundOf
    <3>1. at[r] = o
      BY <1>0, <2>2, LeadsToPicked DEF PickedOf
    <3>2. holds[o] = TRUE /\ FALSE \notin KnownAnswers(o, call[r].cur)
      BY <1>0 DEF DueOf
    <3>3. KnownAnswers(o, call[r].cur) \subseteq BOOLEAN
      BY <2>2, <3>1, KnownTyped
    <3>4. \A answer \in KnownAnswers(o, call[r].cur) : answer = TRUE
      BY <3>2, <3>3
    <3>5. CASE step = "learn"
      BY <2>4, <3>1, <3>2, <3>5
    <3>6. CASE step = "done"
      <4>1. PICK answer \in KnownAnswers(o, call[r].cur) : found' = [found EXCEPT ![r] = answer]
        BY <2>1, <3>1, <3>6
      <4> QED
        BY <3>4, <4>1 DEF TypeOK
    <3> QED
      BY <3>5, <3>6
  <2>9. \A s \in Request \ {r} : PickedOf(s)' /\ FoundOf(s)'
    BY <2>2, <2>3, OthersKept
  <2> QED
    BY <2>6, <2>7, <2>8, <2>9 DEF DueInv
<1>4. CASE KeepAnswer(r)
  <2>1. /\ pc[r] = "learn" /\ at[r] \in Oracle /\ call[r].cur \in Money
        /\ UNCHANGED <<holds, call, list, at, found, due>>
    BY <1>4 DEF KeepAnswer, Begun, TypeOK, Call
  <2>2. pc'[r] = "done" /\ \A s \in Request \ {r} : pc'[s] = pc[s]
    BY <1>4, GotoTyped DEF KeepAnswer, Pc
  <2>3. \A o \in Oracle, c \in Money :
          answers'[o][c] = answers[o][c] \/ (o = at[r] /\ c = call[r].cur /\ answers'[o][c] = found[r])
    BY <1>4, <2>1 DEF KeepAnswer, TypeOK
  <2>4. \A o \in Oracle, c \in Money : KnownAnswers(o, c)' \subseteq KnownAnswers(o, c)
    BY <2>1, <2>2, <2>3 DEF KnownAnswers
  <2>5. ASSUME NEW s \in Request PROVE DueOf(s)'
    <3>1. \A o \in due[s] : o \in Oracle /\ pc[s] # "idle" /\ call[s].cur \in Money
      BY DEF DueInv, DueOf, Begun, TypeOK, Call
    <3>2. pc'[s] = "idle" => pc[s] = "idle"
      BY <2>2
    <3> QED
      BY <2>1, <2>4, <3>1, <3>2 DEF DueInv, DueOf
  <2>6. PickedOf(r)' /\ FoundOf(r)'
    BY <1>0, <2>1, <2>2 DEF PickedOf, FoundOf
  <2>7. \A s \in Request \ {r} : PickedOf(s)' /\ FoundOf(s)'
    BY <2>1, <2>2, OthersKept
  <2> QED
    BY <2>5, <2>6, <2>7 DEF DueInv
<1>5. CASE Store(r) \/ Delete(r)
  <2>1. PICK step \in {"done", "failed"} : Goto(r, step)
    BY <1>5 DEF Store, Delete
  <2>2. pc'[r] = step /\ \A s \in Request \ {r} : pc'[s] = pc[s]
    BY <2>1, GotoTyped DEF Pc
  <2>3. /\ pc[r] = "call" /\ call[r].kind \notin Reads /\ at[r] \in Oracle
        /\ UNCHANGED <<answers, call, list, at, found>>
    BY <1>5 DEF Store, Delete, Stores, Reads, Begun, cacheVars
  <2>4. \A o, c : KnownAnswers(o, c)' \subseteq KnownAnswers(o, c)
    BY <2>1, <2>2, <2>3 DEF KnownAnswers
  <2>5. ASSUME NEW s \in Request
        PROVE  due'[s] \subseteq due[s] /\ \A o \in due'[s] : holds'[o] = TRUE
    <3>1. due[s] \subseteq Oracle /\ \A o \in due[s] : holds[o] = TRUE
      BY DEF DueInv, DueOf, TypeOK
    <3>2. CASE due' = due /\ (holds' = holds \/ holds' = [holds EXCEPT ![at[r]] = TRUE])
      BY <3>1, <3>2 DEF TypeOK
    <3>3. CASE holds' = [holds EXCEPT ![at[r]] = FALSE]
               /\ due' = [q \in Request |-> due[q] \ {at[r]}]
      BY <3>1, <3>3 DEF TypeOK
    <3> QED
      BY <1>5, <3>2, <3>3 DEF Store, Delete
  <2>6. ASSUME NEW s \in Request PROVE DueOf(s)'
    BY <2>1, <2>2, <2>3, <2>4, <2>5, DueKept
  <2>7. PickedOf(r)' /\ FoundOf(r)'
    <3>1. due'[r] = {}
      BY <1>0, <2>3, <2>5 DEF DueOf
    <3> QED
      BY <2>1, <2>2, <3>1 DEF PickedOf, FoundOf
  <2>8. \A s \in Request \ {r} : PickedOf(s)' /\ FoundOf(s)'
    BY <2>2, <2>3, <2>5, OthersKept
  <2> QED
    BY <2>6, <2>7, <2>8 DEF DueInv
<1> QED
  BY <1>1, <1>2, <1>3, <1>4, <1>5 DEF Step

-----------------------------------------------------------------------------
\* Every step of the system keeps the invariant.
LEMMA RoutingStep == RoutingInv /\ [Next]_vars => RoutingInv'
<1> SUFFICES ASSUME RoutingInv, [Next]_vars PROVE RoutingInv'
  OBVIOUS
<1>1. CASE (\E o \in Oracle : Administer(o)) \/ Expire
  BY <1>1, WorldTyped, WorldAge, WorldDue DEF RoutingInv
<1>2. ASSUME NEW r \in Request, Start(r) \/ Step(r) PROVE RoutingInv'
  BY <1>2, RequestTyped, RequestAge, RequestDue DEF RoutingInv
<1>3. CASE UNCHANGED vars
  <2>1. Typed'
    BY <1>3 DEF vars, RoutingInv, Typed, TypeOK, Begun
  <2>2. AgeIsKnown'
    BY <1>3 DEF vars, RoutingInv, AgeIsKnown, KnownLists, Listing
  <2>3. DueInv'
    <3>1. \A o, c : KnownAnswers(o, c)' = KnownAnswers(o, c)
      BY <1>3 DEF vars, KnownAnswers
    <3>2. \A s \in Request : DueOf(s)'
      BY <1>3, <3>1 DEF vars, RoutingInv, DueInv, DueOf
    <3>3. \A s \in Request : PickedOf(s)' /\ FoundOf(s)'
      BY <1>3, OthersKept DEF vars, RoutingInv
    <3> QED
      BY <3>2, <3>3 DEF DueInv
  <2> QED
    BY <2>1, <2>2, <2>3 DEF RoutingInv
<1> QED
  BY <1>1, <1>2, <1>3 DEF Next

\* The inductive invariant: whatever can be passed on is as old as the last
\* read under its key, and nothing that can be passed on denies what is due.
THEOREM RoutingInvariant == Spec => []RoutingInv
BY RoutingInit, RoutingStep, PTL DEF Spec

\* Type correctness of the oracle requests.
THEOREM TypeCorrect == Spec => []TypeOK
<1>1. RoutingInv => TypeOK
  BY DEF RoutingInv, Typed
<1> QED
  BY <1>1, RoutingInvariant, PTL

\* What is passed on without asking the database is what the database said when
\* it was last asked under that key (oracleEndpointCached.js, lib/cache.js).
THEOREM ListsGoForward == Spec => []NeverBack
<1>1. RoutingInv => NeverBack
  BY DEF RoutingInv, AgeIsKnown, NeverBack
<1> QED
  BY <1>1, RoutingInvariant, PTL

\* A GET finds the party at the oracle its list leads to, if that oracle has
\* had it since before, however old the list is (facade.js).
THEOREM HeldIsFound == Spec => []FoundWhereHeld
<1>1. RoutingInv => FoundWhereHeld
  BY DEF RoutingInv, DueInv, FoundOf, FoundWhereHeld
<1> QED
  BY <1>1, RoutingInvariant, PTL
=============================================================================
