------------------------- MODULE AuditLedgerProofs -------------------------
(***************************************************************************)
(* Proofs about AuditLedger, for any number of processes, of threads in    *)
(* each of them, of events, restarts and outages: which entries the ledger *)
(* loses without a word, and which holes verification cannot find.         *)
(***************************************************************************)
EXTENDS AuditLedger, TLAPS

-----------------------------------------------------------------------------
(* Type correctness.                                                       *)

LEMMA TypeOKInit == Init => TypeOK
<1> SUFFICES ASSUME Init PROVE TypeOK
  OBVIOUS
<1> USE LedgerAssumption DEF Init
<1>1. /\ schema_initialized \in [Processes -> BOOLEAN]
      /\ db_available \in [Processes -> BOOLEAN]
      /\ db_up \in BOOLEAN
  BY Zenon
<1>2. /\ entries \in [Processes -> Seq(Entry)]
      /\ pc \in [Threads -> {"idle", "tail", "make", "append", "insert"}]
      /\ tail \in [Threads -> SUBSET Entry]
  OBVIOUS
<1>3. entry \in [Threads -> Entry]
  BY DEF NoEntry, Entry, GENESIS
<1>4. /\ events \in 0..MaxEvents /\ restarts \in 0..MaxRestarts
      /\ outages \in 0..MaxOutages
  OBVIOUS
<1> QED BY <1>1, <1>2, <1>3, <1>4 DEF TypeOK

LEMMA TypeOKStep == TypeOK /\ [Next]_vars => TypeOK'
<1> SUFFICES ASSUME TypeOK, [Next]_vars PROVE TypeOK'
  OBVIOUS
<1> USE LedgerAssumption DEF TypeOK, local, memory, database, told, lives, vars
<1>1. ASSUME NEW t \in Threads, EnsureSchema(t) PROVE TypeOK'
  <2> DEFINE p == ProcessOf[t]
  <2>1. events' \in 0..MaxEvents
    BY <1>1 DEF EnsureSchema
  <2>2. pc' \in [Threads -> {"idle", "tail", "make", "append", "insert"}]
    BY <1>1 DEF EnsureSchema
  <2>3. entry' \in [Threads -> Entry]
    <3>1. [index |-> 0, hash |-> events', prev |-> GENESIS] \in Entry
      BY <2>1 DEF Entry, GENESIS
    <3>2. entry' = [entry EXCEPT ![t] = [index |-> 0, hash |-> events', prev |-> GENESIS]]
      BY <1>1 DEF EnsureSchema
    <3> QED BY <3>1, <3>2
  <2>4. p \in Processes
    OBVIOUS
  <2>5. CASE schema_initialized[p]
    BY <1>1, <2>1, <2>2, <2>3, <2>5 DEF EnsureSchema
  <2>6. CASE ~schema_initialized[p]
    <3>1. schema_initialized' = [schema_initialized EXCEPT ![p] = TRUE]
      BY <1>1, <2>6 DEF EnsureSchema
    <3>2. db_available' = [db_available EXCEPT ![p] = db_up]
      BY <1>1, <2>6 DEF EnsureSchema
    <3>3. schema_initialized' \in [Processes -> BOOLEAN]
      BY <2>4, <3>1, Zenon
    <3>4. db_available' \in [Processes -> BOOLEAN]
      BY <2>4, <3>2, Zenon
    <3> QED BY <1>1, <2>1, <2>2, <2>3, <3>3, <3>4 DEF EnsureSchema
  <2> QED BY <2>5, <2>6
<1>2. ASSUME NEW t \in Threads, LoadTail(t) PROVE TypeOK'
  <2>1. TailRows \in SUBSET Entry
    BY DEF TailRows
  <2> QED BY <1>2, <2>1 DEF LoadTail
<1>3. ASSUME NEW t \in Threads, MakeEntry(t) PROVE TypeOK'
  <2> DEFINE p == ProcessOf[t]
  <2>1. entries' \in [Processes -> Seq(Entry)]
    <3>1. CASE UNCHANGED entries
      BY <3>1
    <3>2. CASE \E r \in tail[t] : entries' = [entries EXCEPT ![p] = Append(@, r)]
      <4>1. PICK r \in tail[t] : entries' = [entries EXCEPT ![p] = Append(@, r)]
        BY <3>2
      <4>2. r \in Entry /\ p \in Processes /\ entries[p] \in Seq(Entry)
        OBVIOUS
      <4>3. Append(entries[p], r) \in Seq(Entry)
        BY <4>2
      <4> QED BY <4>1, <4>2, <4>3
    <3> QED BY <1>3, <3>1, <3>2 DEF MakeEntry
  <2>2. NextIndex(entries'[p]) \in Nat /\ PrevHash(entries'[p]) \in Nat
    <3>1. entries'[p] \in Seq(Entry)
      BY <2>1
    <3>2. entries'[p] # <<>> => entries'[p][Len(entries'[p])] \in Entry
      BY <3>1
    <3>3. Len(entries'[p]) \in Nat
      BY <3>1
    <3>4. entries'[p] # <<>> => entries'[p][Len(entries'[p])].hash \in Nat
      BY <3>2 DEF Entry
    <3> DEFINE chain == entries'[p]
    <3> HIDE DEF chain
    <3>5. Len(chain) \in Nat /\ (chain # <<>> => chain[Len(chain)].hash \in Nat)
      BY <3>3, <3>4 DEF chain
    <3>6. NextIndex(chain) \in Nat /\ PrevHash(chain) \in Nat
      BY <3>5 DEF NextIndex, PrevHash, GENESIS
    <3> QED BY <3>6 DEF chain
  <2>3. entry[t].hash \in Nat
    BY DEF Entry
  <2>4. entry' \in [Threads -> Entry]
    <3> DEFINE e == [index |-> NextIndex(entries'[p]), hash |-> entry[t].hash,
                     prev |-> PrevHash(entries'[p])]
    <3>1. e \in Entry
      BY <2>2, <2>3 DEF Entry
    <3>2. entry' = [entry EXCEPT ![t] = e]
      BY <1>3 DEF MakeEntry
    <3> QED BY <3>1, <3>2
  <2>5. raced' \subseteq SUBSET Nat
    <3>1. \A u \in Threads : entry[u].hash \in Nat
      BY DEF Entry
    <3>2. /\ \A u \in Threads : {entry[t].hash, entry[u].hash} \in SUBSET Nat
          /\ {entry[t].hash} \in SUBSET Nat
      BY <3>1
    <3>3. \A pair \in raced' : \/ pair \in raced
                               \/ \E u \in Threads : pair = {entry[t].hash, entry[u].hash}
                               \/ pair = {entry[t].hash}
      BY <1>3 DEF MakeEntry, Appending
    <3>4. \A pair \in raced : pair \in SUBSET Nat
      OBVIOUS
    <3>5. ASSUME NEW pair \in raced' PROVE pair \in SUBSET Nat
      <4>1. CASE pair \in raced
        BY <3>4, <4>1
      <4>2. CASE \E u \in Threads : pair = {entry[t].hash, entry[u].hash}
        <5>1. PICK u \in Threads : pair = {entry[t].hash, entry[u].hash}
          BY <4>2
        <5>2. {entry[t].hash, entry[u].hash} \in SUBSET Nat
          BY <3>2
        <5> QED BY <5>1, <5>2, Zenon
      <4>3. CASE pair = {entry[t].hash}
        BY <3>2, <4>3, Zenon
      <4> QED BY <3>3, <4>1, <4>2, <4>3
    <3> QED BY <3>5
  <2>6. /\ pc' \in [Threads -> {"idle", "tail", "make", "append", "insert"}]
        /\ UNCHANGED <<schema_initialized, db_available, tail, database, events,
                       restarts, told, lives>>
    BY <1>3 DEF MakeEntry
  <2> QED BY <2>1, <2>4, <2>5, <2>6
<1>4. ASSUME NEW t \in Threads, AppendEntry(t) PROVE TypeOK'
  <2>1. entries' \in [Processes -> Seq(Entry)]
    BY <1>4 DEF AppendEntry
  <2> QED BY <1>4, <2>1 DEF AppendEntry
<1>5. ASSUME NEW t \in Threads, Insert(t) PROVE TypeOK'
  <2>1. rows' \in SUBSET Entry /\ announced' \in SUBSET Entry
    BY <1>5 DEF Insert, InsertRow
  <2>2. returned' \in SUBSET Entry
        /\ pc' \in [Threads -> {"idle", "tail", "make", "append", "insert"}]
        /\ UNCHANGED <<memory, tail, entry, db_up, outages, events, restarts, lives, raced>>
    BY <1>5 DEF Insert
  <2> QED BY <2>1, <2>2
<1>6. ASSUME NEW p \in Processes, Restart(p) PROVE TypeOK'
  BY <1>6 DEF Restart
<1>7. CASE DatabaseDown
  <2>1. db_up' \in BOOLEAN
    BY <1>7, Zenon DEF DatabaseDown
  <2> QED BY <1>7, <2>1 DEF DatabaseDown
<1>8. CASE DatabaseUp BY <1>8 DEF DatabaseUp
<1>9. CASE UNCHANGED vars BY <1>9
<1> QED
  BY <1>1, <1>2, <1>3, <1>4, <1>5, <1>6, <1>7, <1>8, <1>9 DEF Next, Record

(* Every reachable state has the types of the ledger objects and the table. *)
THEOREM TypeCorrect == Spec => []TypeOK
  BY TypeOKInit, TypeOKStep, PTL DEF Spec

LEMMA AppendFacts ==
  ASSUME NEW s \in Seq(Entry), NEW e \in Entry
  PROVE  /\ Len(Append(s, e)) = Len(s) + 1
         /\ \A i \in 1..Len(s) : Append(s, e)[i] = s[i]
         /\ Append(s, e)[Len(s) + 1] = e
         /\ Append(s, e) # <<>>
  OBVIOUS

-----------------------------------------------------------------------------
(* Every entry names its predecessor by a hash no other entry has, and its *)
(* index follows from its predecessor's unless it is the first one built   *)
(* after a restart, or one of the two was recorded while another was.  In  *)
(* one life of a process, only overlapping recordings share an index.      *)

Chain(t) == entries[ProcessOf[t]]

\* The entries that exist: in the table, in a chain, or built by a thread.
InChains == UNION {{entries[p][i] : i \in 1..Len(entries[p])} : p \in Processes}
Built == {entry[t] : t \in {u \in Threads : pc[u] \in {"append", "insert"}}}
Known == rows \cup InChains \cup Built

\* Threads whose event has a hash and no entry yet.
Fresh == {t \in Threads : pc[t] \in {"tail", "make"}}

\* The entry's recording overlapped with another in its process.
Overlapped(e) == \E pair \in raced : e.hash \in pair

LinkInv ==
  /\ \A e \in Known : e.hash \in 1..events /\ e.prev \in 0..events
  /\ \A d, e \in Known : d.hash = e.hash => d = e
  /\ \A e \in Known : e.prev = GENESIS => e.index = 0
  /\ \A d, e \in Known : e.prev = d.hash =>
       d.index + 1 = e.index \/ e.index = 1 \/ Overlapped(d) \/ Overlapped(e)
  /\ \A d, e \in Known :
       d.index = e.index /\ d # e /\ origin[d.hash] = origin[e.hash] =>
         {d.hash, e.hash} \in raced

FreshInv ==
  /\ \A t \in Fresh : entry[t].hash \in 1..events
  /\ \A t \in Fresh, e \in Known : e.hash # entry[t].hash /\ e.prev # entry[t].hash
  /\ \A t, u \in Fresh : entry[t].hash = entry[u].hash => t = u

\* Nothing of a life yet to come has been recorded; an entry of a life that
\* goes on has an index below the length of the list, or is about to be appended.
LifeInv ==
  /\ \A p \in Processes : boot[p] <= restarts
  /\ \A h \in 1..events : origin[h][2] <= restarts
  /\ \A t \in Threads : pc[t] # "idle" =>
       /\ entry[t].hash \in 1..events
       /\ origin[entry[t].hash] = <<ProcessOf[t], boot[ProcessOf[t]]>>
  /\ \A p \in Processes, d \in Known : origin[d.hash] = <<p, boot[p]>> =>
       \/ d.index < Len(entries[p])
       \/ \E u \in Threads : ProcessOf[u] = p /\ pc[u] = "append" /\ entry[u] = d

\* The end of each list, and the entries about to be put there.
PlaceInv ==
  /\ \A t \in Threads : tail[t] \subseteq rows
  /\ \A p \in Processes : Len(entries[p]) >= 2 =>
       \/ entries[p][Len(entries[p])].index + 1 = Len(entries[p])
       \/ Overlapped(entries[p][Len(entries[p])])
       \/ \E u \in Threads : ProcessOf[u] = p /\ pc[u] = "append"
  /\ \A t \in Threads : pc[t] = "append" =>
       /\ entry[t].index <= Len(Chain(t))
       /\ entry[t].index = Len(Chain(t)) \/ Overlapped(entry[t])
  /\ \A t, u \in Threads :
       t # u /\ ProcessOf[t] = ProcessOf[u] /\ pc[t] = "append" /\ pc[u] = "append" =>
         {entry[t].hash, entry[u].hash} \in raced

LinkedInv == LinkInv /\ FreshInv /\ LifeInv /\ PlaceInv

LEMMA LinkedInit == Init => LinkedInv
<1> SUFFICES ASSUME Init PROVE LinkedInv
  OBVIOUS
<1>1. Known = {} /\ Fresh = {}
  BY DEF Init, Known, InChains, Built, Fresh
<1> QED BY <1>1, LedgerAssumption DEF Init, LinkedInv, LinkInv, FreshInv, LifeInv,
                                      PlaceInv, Chain

LEMMA KnownEntries == ASSUME TypeOK PROVE Known \subseteq Entry
<1>1. InChains \subseteq Entry
  BY DEF InChains, TypeOK
<1>2. Built \subseteq Entry /\ rows \subseteq Entry
  BY DEF Built, TypeOK
<1> QED BY <1>1, <1>2 DEF Known

LEMMA InChainsWithin ==
  ASSUME NEW S,
         \A p \in Processes : \A i \in 1..Len(entries'[p]) : entries'[p][i] \in S
  PROVE  InChains' \subseteq S
  BY DEF InChains

LEMMA OriginsStay ==
  ASSUME TypeOK, NEW h \in 1..events, NEW x, origin' = Append(origin, x) \/ origin' = origin
  PROVE  origin'[h] = origin[h]
<1>1. h \in 1..Len(origin) /\ origin \in Seq(Processes \X (0..MaxRestarts))
  BY DEF TypeOK
<1> QED BY <1>1

\* A step that makes no entry known.
LEMMA NoNewEntry ==
  ASSUME LinkInv, events \in Nat, events' \in Nat, events <= events',
         Known' \subseteq Known, raced' = raced,
         \A h \in 1..events : origin'[h] = origin[h]
  PROVE  LinkInv'
<1>1. \A e \in Known' : /\ e \in Known
                        /\ e.hash \in 1..events /\ e.prev \in 0..events
                        /\ origin'[e.hash] = origin[e.hash]
                        /\ Overlapped(e)' <=> Overlapped(e)
  BY DEF LinkInv, Overlapped
<1>2. \A e \in Known' : e.hash \in 1..events' /\ e.prev \in 0..events'
  BY <1>1
<1>3. \A d, e \in Known' : e.prev = d.hash =>
        d.index + 1 = e.index \/ e.index = 1 \/ Overlapped(d)' \/ Overlapped(e)'
  BY <1>1 DEF LinkInv
<1>4. \A d, e \in Known' :
        d.index = e.index /\ d # e /\ origin'[d.hash] = origin'[e.hash] =>
          {d.hash, e.hash} \in raced'
  BY <1>1 DEF LinkInv
<1>5. (\A d, e \in Known' : d.hash = e.hash => d = e)
      /\ (\A e \in Known' : e.prev = GENESIS => e.index = 0)
  BY <1>1 DEF LinkInv
<1> QED BY <1>2, <1>3, <1>4, <1>5 DEF LinkInv

\* A step that makes no thread fresh and no entry known.
LEMMA NoneFresh ==
  ASSUME FreshInv, events \in Nat, events' = events,
         Known' \subseteq Known, Fresh' \subseteq Fresh,
         \A t \in Fresh' : entry'[t].hash = entry[t].hash
  PROVE  FreshInv'
  BY DEF FreshInv

\* A step that touches neither the lists nor the entries about to be appended.
LEMMA NothingPlaced ==
  ASSUME PlaceInv, entries' = entries, raced' = raced, rows \subseteq rows',
         \A u \in Threads : pc'[u] = "append" <=> pc[u] = "append",
         \A u \in Threads : pc[u] = "append" => entry'[u] = entry[u],
         \A u \in Threads : tail'[u] \subseteq tail[u] \cup rows
  PROVE  PlaceInv'
<1>1. \A u \in Threads : tail'[u] \subseteq rows'
  BY DEF PlaceInv
<1>2. \A p \in Processes : Len(entries'[p]) >= 2 =>
        \/ entries'[p][Len(entries'[p])].index + 1 = Len(entries'[p])
        \/ Overlapped(entries[p][Len(entries[p])])'
        \/ \E u \in Threads : ProcessOf[u] = p /\ pc'[u] = "append"
  BY DEF PlaceInv, Overlapped
<1>3. \A t \in Threads : pc'[t] = "append" =>
        /\ entry'[t].index <= Len(Chain(t)')
        /\ entry'[t].index = Len(Chain(t)') \/ Overlapped(entry[t])'
  BY DEF PlaceInv, Overlapped, Chain
<1>4. \A t, u \in Threads :
        t # u /\ ProcessOf[t] = ProcessOf[u] /\ pc'[t] = "append" /\ pc'[u] = "append" =>
          {entry'[t].hash, entry'[u].hash} \in raced'
  BY DEF PlaceInv
<1> QED BY <1>1, <1>2, <1>3, <1>4 DEF PlaceInv

\* A step in which no process is restarted and no list shrinks.
LEMMA LivesGoOn ==
  ASSUME TypeOK, LinkInv, LifeInv, boot' = boot, restarts' = restarts,
         events' = events, origin' = origin, Known' \subseteq Known,
         \A p \in Processes : Len(entries'[p]) = Len(entries[p]),
         \A u \in Threads : pc'[u] # "idle" =>
           pc[u] # "idle" /\ entry'[u].hash = entry[u].hash,
         \A u \in Threads : pc[u] = "append" => pc'[u] = "append" /\ entry'[u] = entry[u]
  PROVE  LifeInv'
<1>1. \A p \in Processes, d \in Known' : origin'[d.hash] = <<p, boot'[p]>> =>
        \/ d.index < Len(entries'[p])
        \/ \E u \in Threads : ProcessOf[u] = p /\ pc'[u] = "append" /\ entry'[u] = d
  BY DEF LifeInv
<1>2. /\ \A p \in Processes : boot'[p] <= restarts'
      /\ \A h \in 1..events' : origin'[h][2] <= restarts'
  BY DEF LifeInv
<1>3. \A t \in Threads : pc'[t] # "idle" =>
        /\ entry'[t].hash \in 1..events'
        /\ origin'[entry'[t].hash] = <<ProcessOf[t], boot'[ProcessOf[t]]>>
  BY DEF LifeInv
<1> QED BY <1>1, <1>2, <1>3 DEF LifeInv

LEMMA MakeStep ==
  ASSUME TypeOK, LinkedInv, NEW t \in Threads, MakeEntry(t)
  PROVE  LinkedInv'
<1> USE LedgerAssumption
<1> DEFINE p == ProcessOf[t]
           old == entries[p]
           new == entries'[p]
           e == entry'[t]
           last == new[Len(new)]
<1>0. /\ \A u \in Threads : ProcessOf[u] \in Processes /\ entry[u] \in Entry
      /\ \A q \in Processes : entries[q] \in Seq(Entry)
      /\ events \in Nat
      /\ LinkInv /\ FreshInv /\ LifeInv /\ PlaceInv
  BY DEF TypeOK, LinkedInv
<1>1. /\ pc[t] = "make" /\ pc' = [pc EXCEPT ![t] = "append"]
      /\ e = [index |-> Len(new), hash |-> entry[t].hash, prev |-> PrevHash(new)]
      /\ \A u \in Threads : u # t => entry'[u] = entry[u] /\ pc'[u] = pc[u]
      /\ pc'[t] = "append"
      /\ UNCHANGED <<rows, tail, events, restarts, boot, origin>>
  BY DEF MakeEntry, TypeOK, database, lives, NextIndex
<1>2. /\ raced \subseteq raced'
      /\ \A u \in Threads : ProcessOf[u] = p /\ pc[u] = "append" =>
           {e.hash, entry[u].hash} \in raced'
      /\ tail[t] # {} /\ old # <<>> => {e.hash} \in raced'
  BY <1>1 DEF MakeEntry, Appending
<1>3. /\ \A q \in Processes : q # p => entries'[q] = entries[q]
      /\ \/ new = old
         \/ \E r \in rows : tail[t] # {} /\ new = Append(old, r)
  <2>1. \/ UNCHANGED entries
        \/ \E r \in tail[t] : entries' = [entries EXCEPT ![p] = Append(@, r)]
    BY DEF MakeEntry
  <2>2. CASE UNCHANGED entries
    BY <2>2
  <2>3. CASE \E r \in tail[t] : entries' = [entries EXCEPT ![p] = Append(@, r)]
    <3>1. PICK r \in tail[t] : entries' = [entries EXCEPT ![p] = Append(@, r)]
      BY <2>3
    <3>2. r \in rows
      BY <1>0 DEF PlaceInv
    <3> QED BY <1>0, <3>1, <3>2 DEF TypeOK
  <2> QED BY <2>1, <2>2, <2>3
<1>4. /\ old \in Seq(Entry) /\ new \in Seq(Entry)
      /\ Len(old) \in Nat /\ Len(new) \in Nat /\ Len(old) <= Len(new)
      /\ \A i \in 1..Len(new) : new[i] \in Known
      /\ new = old \/ (Len(new) = Len(old) + 1 /\ tail[t] # {})
      /\ old = <<>> => Len(old) = 0
  <2>0. old \in Seq(Entry) /\ Len(old) \in Nat /\ (old = <<>> => Len(old) = 0)
    BY <1>0
  <2>1. \A i \in 1..Len(old) : old[i] \in Known
    BY <1>0 DEF Known, InChains
  <2>2. CASE new = old
    BY <2>0, <2>1, <2>2
  <2>3. CASE \E r \in rows : tail[t] # {} /\ new = Append(old, r)
    <3>1. PICK r \in rows : tail[t] # {} /\ new = Append(old, r)
      BY <2>3
    <3>2. r \in Entry /\ r \in Known
      BY DEF TypeOK, Known
    <3> HIDE DEF new, old
    <3>3. /\ Len(new) = Len(old) + 1
          /\ \A i \in 1..Len(old) : new[i] = old[i]
          /\ new[Len(old) + 1] = r
      BY <2>0, <3>1, <3>2, AppendFacts
    <3> QED BY <2>0, <2>1, <3>1, <3>2, <3>3
  <2> QED BY <1>3, <2>2, <2>3
<1>5. t \in Fresh /\ Fresh' = Fresh \ {t}
  BY <1>1 DEF Fresh, TypeOK
<1>6. Known' \subseteq Known \cup {e}
  <2>1. InChains' \subseteq Known
    <3> SUFFICES ASSUME NEW q \in Processes, NEW i \in 1..Len(entries'[q])
                 PROVE  entries'[q][i] \in Known
      BY InChainsWithin, Zenon
    <3>1. CASE q = p
      BY <1>4, <3>1
    <3>2. CASE q # p
      BY <1>3, <3>2 DEF Known, InChains
    <3> QED BY <3>1, <3>2
  <2>2. Built' \subseteq Built \cup {e}
    BY <1>1 DEF Built
  <2> QED BY <1>1, <2>1, <2>2 DEF Known
<1>7. /\ e.hash = entry[t].hash /\ e.index = Len(new) /\ e.prev = PrevHash(new)
      /\ e.hash \in 1..events
      /\ \A d \in Known : d.hash # e.hash /\ d.prev # e.hash
      /\ origin[e.hash] = <<p, boot[p]>>
  BY <1>0, <1>1, <1>5 DEF FreshInv, LifeInv
<1>8. \/ /\ Len(new) = 0
         /\ e.prev = GENESIS
      \/ /\ Len(new) \in Nat \ {0}
         /\ last \in Known
         /\ e.prev = last.hash
  <2> HIDE DEF new
  <2>1. CASE new = <<>>
    BY <1>4, <1>7, <2>1 DEF PrevHash
  <2>2. CASE new # <<>>
    <3>1. Len(new) \in Nat \ {0} /\ Len(new) \in 1..Len(new)
      BY <1>4, <2>2
    <3> QED BY <1>4, <1>7, <2>2, <3>1 DEF PrevHash
  <2> QED BY <2>1, <2>2
\* Where the predecessor's index is not the one before, a recording overlapped.
<1>9. Len(new) >= 2 => \/ last.index + 1 = Len(new)
                       \/ Overlapped(last)
                       \/ \E pair \in raced' : e.hash \in pair
  <2> SUFFICES ASSUME Len(new) >= 2
               PROVE  \/ last.index + 1 = Len(new)
                      \/ Overlapped(last)
                      \/ \E pair \in raced' : e.hash \in pair
    OBVIOUS
  <2>1. CASE new = old
    <3>1. \/ last.index + 1 = Len(new)
          \/ Overlapped(last)
          \/ \E u \in Threads : ProcessOf[u] = p /\ pc[u] = "append"
      BY <1>0, <2>1 DEF PlaceInv
    <3>2. CASE \E u \in Threads : ProcessOf[u] = p /\ pc[u] = "append"
      <4>1. PICK u \in Threads : ProcessOf[u] = p /\ pc[u] = "append"
        BY <3>2
      <4>2. {e.hash, entry[u].hash} \in raced'
        BY <1>2, <4>1
      <4> QED BY <4>2
    <3> QED BY <3>1, <3>2
  <2>2. CASE Len(new) = Len(old) + 1 /\ tail[t] # {}
    <3>1. old # <<>>
      BY <1>4, <2>2
    <3>2. {e.hash} \in raced'
      BY <1>2, <2>2, <3>1
    <3> QED BY <3>2
  <2> QED BY <1>4, <2>1, <2>2
<1> HIDE DEF new, old, e, last
<1>10. /\ \A d \in Known : /\ d.hash \in 1..events /\ d.prev \in 0..events
                           /\ d.prev = GENESIS => d.index = 0
       /\ \A c, d \in Known : c.hash = d.hash => c = d
       /\ \A d \in Known : Overlapped(d) => Overlapped(d)'
  BY <1>0, <1>2 DEF LinkInv, Overlapped
<1>11. /\ e.prev \in 0..events /\ e.prev # e.hash
       /\ e.prev = GENESIS => e.index = 0
  BY <1>0, <1>7, <1>8, <1>10 DEF GENESIS
<1>12. ASSUME NEW d \in Known, e.prev = d.hash
       PROVE  d.index + 1 = e.index \/ e.index = 1 \/ Overlapped(d)'
              \/ \E pair \in raced' : e.hash \in pair
  <2>1. e.prev # GENESIS
    BY <1>0, <1>10, <1>12 DEF GENESIS
  <2>2. Len(new) \in Nat \ {0} /\ last \in Known /\ e.prev = last.hash
    BY <1>8, <2>1
  <2>3. d = last
    BY <1>10, <1>12, <2>2
  <2>4. Len(new) = 1 \/ Len(new) >= 2
    <3>1. \A n \in Nat \ {0} : n = 1 \/ n >= 2
      OBVIOUS
    <3> QED BY <2>2, <3>1, Zenon
  <2>5. Overlapped(d) => Overlapped(d)'
    BY <1>10
  <2> QED BY <1>7, <1>9, <2>3, <2>4, <2>5
\* An entry of this life with this index is still to be appended.
<1>13. ASSUME NEW d \in Known, d.index = e.index, origin[d.hash] = origin[e.hash]
       PROVE  {d.hash, e.hash} \in raced'
  <2>1. d.index < Len(old)
        \/ \E u \in Threads : ProcessOf[u] = p /\ pc[u] = "append" /\ entry[u] = d
    BY <1>0, <1>7, <1>13 DEF LifeInv, old
  <2>2. ~(d.index < Len(old))
    BY <1>4, <1>7, <1>13
  <2>3. PICK u \in Threads : ProcessOf[u] = p /\ pc[u] = "append" /\ entry[u] = d
    BY <2>1, <2>2
  <2>4. {e.hash, d.hash} \in raced'
    BY <1>2, <2>3
  <2> QED BY <2>4
<1>14. LinkInv'
  <2>1. \A d \in Known' : /\ d.hash \in 1..events' /\ d.prev \in 0..events'
                          /\ d.prev = GENESIS => d.index = 0
    BY <1>1, <1>6, <1>7, <1>10, <1>11
  <2>2. \A c, d \in Known' : c.hash = d.hash => c = d
    BY <1>6, <1>7, <1>10
  <2>3. ASSUME NEW c \in Known', NEW d \in Known', d.prev = c.hash
        PROVE  c.index + 1 = d.index \/ d.index = 1 \/ Overlapped(c)' \/ Overlapped(d)'
    <3>1. CASE c \in Known /\ d \in Known
      BY <1>0, <1>10, <2>3, <3>1 DEF LinkInv
    <3>2. CASE c \in Known /\ d = e
      BY <1>12, <2>3, <3>2 DEF Overlapped
    <3>3. CASE c = e
      BY <1>6, <1>7, <1>11, <2>3, <3>3
    <3> QED BY <1>6, <3>1, <3>2, <3>3
  <2>4. ASSUME NEW c \in Known', NEW d \in Known', c.index = d.index, c # d,
               origin'[c.hash] = origin'[d.hash]
        PROVE  {c.hash, d.hash} \in raced'
    <3>1. CASE c \in Known /\ d \in Known
      BY <1>0, <1>1, <1>2, <2>4, <3>1 DEF LinkInv
    <3>2. CASE c \in Known /\ d = e
      BY <1>1, <1>13, <2>4, <3>2
    <3>3. CASE c = e /\ d \in Known
      <4>1. {d.hash, e.hash} \in raced' /\ {d.hash, e.hash} = {c.hash, d.hash}
        BY <1>1, <1>13, <2>4, <3>3
      <4> QED BY <4>1
    <3> QED BY <1>6, <2>4, <3>1, <3>2, <3>3
  <2> QED BY <2>1, <2>2, <2>3, <2>4 DEF LinkInv
<1>15. FreshInv'
  <2>1. \A u \in Fresh' : u \in Fresh /\ u # t /\ entry'[u] = entry[u]
    BY <1>1, <1>5 DEF Fresh
  <2>2. ASSUME NEW u \in Fresh'
        PROVE  entry[u].hash # e.hash /\ e.prev # entry[u].hash
    <3>1. entry[u].hash # e.hash
      BY <1>0, <1>5, <1>7, <2>1 DEF FreshInv
    <3>2. entry[u].hash \in 1..events /\ \A d \in Known : d.hash # entry[u].hash
      BY <1>0, <2>1 DEF FreshInv
    <3>3. e.prev # entry[u].hash
      BY <1>0, <1>8, <3>2 DEF GENESIS
    <3> QED BY <3>1, <3>3
  <2>3. \A u \in Fresh' : entry'[u].hash \in 1..events'
    BY <1>0, <1>1, <2>1 DEF FreshInv
  <2>4. \A u \in Fresh', d \in Known' : d.hash # entry'[u].hash /\ d.prev # entry'[u].hash
    <3> SUFFICES ASSUME NEW u \in Fresh', NEW d \in Known'
                 PROVE  d.hash # entry[u].hash /\ d.prev # entry[u].hash
      BY <2>1
    <3>1. CASE d \in Known
      BY <1>0, <2>1, <3>1 DEF FreshInv
    <3>2. CASE d = e
      BY <2>2, <3>2
    <3> QED BY <1>6, <3>1, <3>2
  <2>5. \A u, v \in Fresh' : entry'[u].hash = entry'[v].hash => u = v
    BY <1>0, <2>1 DEF FreshInv
  <2> QED BY <2>3, <2>4, <2>5, Zenon DEF FreshInv
<1>16. LifeInv'
  <2>1. /\ \A q \in Processes : boot'[q] <= restarts'
        /\ \A h \in 1..events' : origin'[h][2] <= restarts'
    BY <1>0, <1>1 DEF LifeInv
  <2>2. \A u \in Threads : pc'[u] # "idle" =>
          /\ entry'[u].hash \in 1..events'
          /\ origin'[entry'[u].hash] = <<ProcessOf[u], boot'[ProcessOf[u]]>>
    <3> SUFFICES ASSUME NEW u \in Threads, pc'[u] # "idle"
                 PROVE  /\ entry'[u].hash \in 1..events
                        /\ origin[entry'[u].hash] = <<ProcessOf[u], boot[ProcessOf[u]]>>
      BY <1>1
    <3>1. CASE u = t
      BY <1>7, <3>1 DEF e
    <3>2. CASE u # t
      <4>1. pc[u] # "idle" /\ entry'[u] = entry[u]
        BY <1>1, <3>2
      <4> QED BY <1>0, <4>1 DEF LifeInv
    <3> QED BY <3>1, <3>2
  <2>3. ASSUME NEW q \in Processes, NEW d \in Known', origin'[d.hash] = <<q, boot'[q]>>
        PROVE  \/ d.index < Len(entries'[q])
               \/ \E u \in Threads : ProcessOf[u] = q /\ pc'[u] = "append" /\ entry'[u] = d
    <3>1. CASE d = e
      <4>1. q = p
        BY <1>1, <1>7, <2>3, <3>1
      <4> QED BY <1>1, <3>1, <4>1 DEF e
    <3>2. CASE d \in Known
      <4>1. \/ d.index < Len(entries[q])
            \/ \E u \in Threads : ProcessOf[u] = q /\ pc[u] = "append" /\ entry[u] = d
        BY <1>0, <1>1, <2>3, <3>2 DEF LifeInv
      <4>2. CASE d.index < Len(entries[q])
        <5>1. d.index \in Nat
          BY <3>2, KnownEntries DEF Entry
        <5>2. CASE q = p
          BY <1>4, <4>2, <5>1, <5>2 DEF new, old
        <5>3. CASE q # p
          BY <1>3, <4>2, <5>3
        <5> QED BY <5>2, <5>3
      <4>3. CASE \E u \in Threads : ProcessOf[u] = q /\ pc[u] = "append" /\ entry[u] = d
        BY <1>1, <4>3
      <4> QED BY <4>1, <4>2, <4>3
    <3> QED BY <1>6, <3>1, <3>2
  <2> QED BY <2>1, <2>2, <2>3 DEF LifeInv
<1>17. PlaceInv'
  <2>1. \A u \in Threads : tail'[u] \subseteq rows'
    BY <1>0, <1>1 DEF PlaceInv
  <2>2. ASSUME NEW q \in Processes, Len(entries'[q]) >= 2
        PROVE  \/ entries'[q][Len(entries'[q])].index + 1 = Len(entries'[q])
               \/ Overlapped(entries[q][Len(entries[q])])'
               \/ \E u \in Threads : ProcessOf[u] = q /\ pc'[u] = "append"
    <3>1. CASE q = p
      BY <1>1, <3>1
    <3>2. CASE q # p
      <4>1. entries'[q] = entries[q]
        BY <1>3, <3>2
      <4>2. \/ entries[q][Len(entries[q])].index + 1 = Len(entries[q])
            \/ Overlapped(entries[q][Len(entries[q])])
            \/ \E u \in Threads : ProcessOf[u] = q /\ pc[u] = "append"
        BY <1>0, <2>2, <4>1 DEF PlaceInv
      <4>3. Overlapped(entries[q][Len(entries[q])]) =>
              Overlapped(entries[q][Len(entries[q])])'
        BY <1>2, <4>1 DEF Overlapped
      <4> QED BY <1>1, <4>1, <4>2, <4>3
    <3> QED BY <3>1, <3>2
  <2>3. ASSUME NEW u \in Threads, pc'[u] = "append"
        PROVE  /\ entry'[u].index <= Len(Chain(u)')
               /\ entry'[u].index = Len(Chain(u)') \/ Overlapped(entry[u])'
    <3>1. CASE u = t
      BY <1>4, <1>7, <3>1 DEF Chain, e, new
    <3>2. CASE u # t
      <4>1. /\ pc[u] = "append" /\ entry'[u] = entry[u] /\ entry[u].index \in Nat
            /\ entry[u].index <= Len(Chain(u))
            /\ entry[u].index = Len(Chain(u)) \/ Overlapped(entry[u])
        BY <1>0, <1>1, <2>3, <3>2 DEF PlaceInv, Entry
      <4>2. CASE ProcessOf[u] = p
        <5>1. {e.hash, entry[u].hash} \in raced'
          BY <1>2, <4>1, <4>2
        <5>2. Overlapped(entry[u])'
          BY <4>1, <5>1 DEF Overlapped
        <5> QED BY <1>4, <4>1, <4>2, <5>2 DEF Chain, old, new
      <4>3. CASE ProcessOf[u] # p
        <5>1. Chain(u)' = Chain(u)
          BY <1>0, <1>3, <4>3 DEF Chain
        <5> QED BY <1>2, <4>1, <5>1 DEF Overlapped
      <4> QED BY <4>2, <4>3
    <3> QED BY <3>1, <3>2
  <2>4. ASSUME NEW u \in Threads, NEW v \in Threads, u # v,
               ProcessOf[u] = ProcessOf[v], pc'[u] = "append", pc'[v] = "append"
        PROVE  {entry'[u].hash, entry'[v].hash} \in raced'
    <3>1. CASE u = t
      BY <1>1, <1>2, <2>4, <3>1 DEF e
    <3>2. CASE v = t
      <4>1. {e.hash, entry[u].hash} \in raced'
        BY <1>1, <1>2, <2>4, <3>2
      <4>2. entry'[u] = entry[u] /\ entry'[v].hash = e.hash
        BY <1>1, <2>4, <3>2 DEF e
      <4>3. {e.hash, entry[u].hash} = {entry'[u].hash, entry'[v].hash}
        BY <4>2
      <4> QED BY <4>1, <4>3
    <3>3. CASE u # t /\ v # t
      BY <1>0, <1>1, <1>2, <2>4, <3>3 DEF PlaceInv
    <3> QED BY <3>1, <3>2, <3>3
  <2> QED BY <2>1, <2>2, <2>3, <2>4 DEF PlaceInv
<1> QED BY <1>14, <1>15, <1>16, <1>17 DEF LinkedInv

LEMMA AppendStep ==
  ASSUME TypeOK, LinkedInv, NEW t \in Threads, AppendEntry(t)
  PROVE  LinkedInv'
<1> USE LedgerAssumption
<1> DEFINE p == ProcessOf[t]
           old == entries[p]
           new == entries'[p]
<1>0. /\ \A u \in Threads : ProcessOf[u] \in Processes /\ entry[u] \in Entry
      /\ \A q \in Processes : entries[q] \in Seq(Entry)
      /\ events \in Nat
      /\ LinkInv /\ FreshInv /\ LifeInv /\ PlaceInv
  BY DEF TypeOK, LinkedInv
<1>1. /\ new = Append(old, entry[t])
      /\ \A q \in Processes : q # p => entries'[q] = entries[q]
      /\ pc[t] = "append" /\ pc' = [pc EXCEPT ![t] = "insert"]
      /\ pc'[t] = "insert" /\ \A u \in Threads : u # t => pc'[u] = pc[u]
      /\ UNCHANGED <<tail, entry, rows, events, restarts, boot, origin, raced>>
  BY <1>0 DEF AppendEntry, TypeOK, database, lives
<1>2. /\ Len(new) = Len(old) + 1
      /\ \A i \in 1..Len(old) : new[i] = old[i]
      /\ new[Len(old) + 1] = entry[t]
      /\ Len(old) \in Nat
  BY <1>0, <1>1, AppendFacts
<1>3. /\ entry[t].index \in Nat /\ entry[t].index <= Len(old)
      /\ entry[t].index = Len(old) \/ Overlapped(entry[t])
  BY <1>0, <1>1 DEF PlaceInv, Chain, Entry
<1> HIDE DEF old, new
<1>4. Fresh' = Fresh
  BY <1>1 DEF Fresh
<1>5. entry[t] \in Built /\ Built' = Built
  BY <1>1 DEF Built
<1>6. InChains' \subseteq InChains \cup {entry[t]}
  <2> SUFFICES ASSUME NEW q \in Processes, NEW i \in 1..Len(entries'[q])
               PROVE  entries'[q][i] \in InChains \cup {entry[t]}
    BY InChainsWithin, Zenon
  <2>1. CASE q # p
    BY <1>1, <2>1 DEF InChains
  <2>2. CASE q = p
    <3>1. i \in 1..Len(old) \/ i = Len(old) + 1
      BY <1>2, <2>2 DEF new
    <3>2. CASE i \in 1..Len(old)
      <4>1. new[i] = old[i] /\ old[i] \in InChains
        BY <1>0, <1>2, <3>2 DEF InChains, old
      <4> QED BY <2>2, <4>1 DEF new
    <3> QED BY <1>2, <2>2, <3>1, <3>2 DEF new
  <2> QED BY <2>1, <2>2
<1>7. Known' \subseteq Known
  BY <1>1, <1>5, <1>6 DEF Known
<1>8. LinkInv' /\ FreshInv'
  BY <1>0, <1>1, <1>4, <1>7, NoNewEntry, NoneFresh
<1>9. LifeInv'
  <2>1. ASSUME NEW q \in Processes, NEW d \in Known', origin'[d.hash] = <<q, boot'[q]>>
        PROVE  \/ d.index < Len(entries'[q])
               \/ \E u \in Threads : ProcessOf[u] = q /\ pc'[u] = "append" /\ entry'[u] = d
    <3>1. d \in Known /\ d.index \in Nat
      BY <1>7, KnownEntries DEF Entry
    <3>2. \/ d.index < Len(entries[q])
          \/ \E u \in Threads : ProcessOf[u] = q /\ pc[u] = "append" /\ entry[u] = d
      BY <1>0, <1>1, <2>1, <3>1 DEF LifeInv
    <3>3. CASE d.index < Len(entries[q])
      <4>1. CASE q = p
        BY <1>2, <3>1, <3>3, <4>1 DEF old, new
      <4>2. CASE q # p
        BY <1>1, <3>3, <4>2
      <4> QED BY <4>1, <4>2
    <3>4. CASE \E u \in Threads : ProcessOf[u] = q /\ pc[u] = "append" /\ entry[u] = d
      <4>1. PICK u \in Threads : ProcessOf[u] = q /\ pc[u] = "append" /\ entry[u] = d
        BY <3>4
      <4>2. CASE u = t
        BY <1>2, <1>3, <4>1, <4>2 DEF new, old
      <4>3. CASE u # t
        BY <1>1, <4>1, <4>3
      <4> QED BY <4>2, <4>3
    <3> QED BY <3>2, <3>3, <3>4
  <2>2. /\ \A q \in Processes : boot'[q] <= restarts'
        /\ \A h \in 1..events' : origin'[h][2] <= restarts'
    BY <1>0, <1>1 DEF LifeInv
  <2>3. \A u \in Threads : pc'[u] # "idle" =>
          /\ entry'[u].hash \in 1..events'
          /\ origin'[entry'[u].hash] = <<ProcessOf[u], boot'[ProcessOf[u]]>>
    <3> SUFFICES ASSUME NEW u \in Threads, pc'[u] # "idle"
                 PROVE  /\ entry[u].hash \in 1..events
                        /\ origin[entry[u].hash] = <<ProcessOf[u], boot[ProcessOf[u]]>>
      BY <1>1
    <3>1. pc[u] # "idle"
      BY <1>1
    <3> QED BY <1>0, <3>1 DEF LifeInv
  <2> QED BY <2>1, <2>2, <2>3 DEF LifeInv
<1>10. PlaceInv'
  <2>1. \A u \in Threads : tail'[u] \subseteq rows'
    BY <1>0, <1>1 DEF PlaceInv
  <2>2. ASSUME NEW q \in Processes, Len(entries'[q]) >= 2
        PROVE  \/ entries'[q][Len(entries'[q])].index + 1 = Len(entries'[q])
               \/ Overlapped(entries[q][Len(entries[q])])'
               \/ \E u \in Threads : ProcessOf[u] = q /\ pc'[u] = "append"
    <3>1. CASE q = p
      <4>1. new[Len(new)] = entry[t]
        BY <1>2
      <4>2. new[Len(new)].index + 1 = Len(new) \/ Overlapped(entry[t])
        BY <1>2, <1>3, <4>1
      <4> QED BY <1>1, <3>1, <4>1, <4>2 DEF new, Overlapped
    <3>2. CASE q # p
      <4>1. entries'[q] = entries[q]
        BY <1>1, <3>2
      <4>2. \/ entries[q][Len(entries[q])].index + 1 = Len(entries[q])
            \/ Overlapped(entries[q][Len(entries[q])])
            \/ \E u \in Threads : ProcessOf[u] = q /\ pc[u] = "append"
        BY <1>0, <2>2, <4>1 DEF PlaceInv
      <4>3. \A u \in Threads : ProcessOf[u] = q => u # t
        BY <3>2
      <4> QED BY <1>1, <4>1, <4>2, <4>3 DEF Overlapped
    <3> QED BY <3>1, <3>2
  <2>3. ASSUME NEW u \in Threads, pc'[u] = "append"
        PROVE  /\ entry'[u].index <= Len(Chain(u)')
               /\ entry'[u].index = Len(Chain(u)') \/ Overlapped(entry[u])'
    <3>1. /\ u # t /\ pc[u] = "append" /\ entry'[u] = entry[u] /\ entry[u].index \in Nat
          /\ entry[u].index <= Len(Chain(u))
          /\ entry[u].index = Len(Chain(u)) \/ Overlapped(entry[u])
      BY <1>0, <1>1, <2>3 DEF PlaceInv, Entry
    <3>2. CASE ProcessOf[u] = p
      <4>1. {entry[u].hash, entry[t].hash} \in raced
        BY <1>0, <1>1, <3>1, <3>2 DEF PlaceInv
      <4>2. Overlapped(entry[u])'
        BY <1>1, <4>1 DEF Overlapped
      <4> QED BY <1>2, <3>1, <3>2, <4>2 DEF Chain, old, new
    <3>3. CASE ProcessOf[u] # p
      <4>1. Chain(u)' = Chain(u)
        BY <1>0, <1>1, <3>3 DEF Chain
      <4> QED BY <1>1, <3>1, <4>1 DEF Overlapped
    <3> QED BY <3>2, <3>3
  <2>4. \A u, v \in Threads :
          u # v /\ ProcessOf[u] = ProcessOf[v] /\ pc'[u] = "append" /\ pc'[v] = "append" =>
            {entry'[u].hash, entry'[v].hash} \in raced'
    <3>1. \A u \in Threads : pc'[u] = "append" => pc[u] = "append"
      BY <1>1
    <3> QED BY <1>0, <1>1, <3>1 DEF PlaceInv
  <2> QED BY <2>1, <2>2, <2>3, <2>4 DEF PlaceInv
<1> QED BY <1>8, <1>9, <1>10 DEF LinkedInv

LEMMA RestartStep ==
  ASSUME TypeOK, LinkedInv, NEW p \in Processes, Restart(p)
  PROVE  LinkedInv'
<1> USE LedgerAssumption
<1>0. /\ \A u \in Threads : ProcessOf[u] \in Processes
      /\ events \in Nat /\ restarts \in Nat
      /\ LinkInv /\ FreshInv /\ LifeInv /\ PlaceInv
  BY DEF TypeOK, LinkedInv
<1>1. /\ pc' = [t \in Threads |-> IF ProcessOf[t] = p THEN "idle" ELSE pc[t]]
      /\ restarts' = restarts + 1
      /\ boot' = [boot EXCEPT ![p] = restarts']
      /\ UNCHANGED <<rows, tail, entry, events, origin, raced>>
  BY DEF Restart, database
<1>2. \A q \in Processes : IF q = p THEN entries'[q] = <<>> /\ boot'[q] = restarts'
                           ELSE entries'[q] = entries[q] /\ boot'[q] = boot[q]
  BY <1>1 DEF Restart, TypeOK
<1>3. Fresh' \subseteq Fresh /\ Built' \subseteq Built
  BY <1>1 DEF Fresh, Built
<1>4. InChains' \subseteq InChains
  <2> SUFFICES ASSUME NEW q \in Processes, NEW i \in 1..Len(entries'[q])
               PROVE  entries'[q][i] \in InChains
    BY InChainsWithin, Zenon
  <2>1. q # p
    BY <1>2
  <2> QED BY <1>2, <2>1 DEF InChains
<1>5. Known' \subseteq Known
  BY <1>1, <1>3, <1>4 DEF Known
<1>6. LinkInv' /\ FreshInv'
  BY <1>0, <1>1, <1>3, <1>5, NoNewEntry, NoneFresh
<1>7. \A u \in Threads : pc'[u] # "idle" => ProcessOf[u] # p /\ pc'[u] = pc[u]
  BY <1>1
<1>8. LifeInv'
  <2>1. \A h \in 1..events : origin[h][2] <= restarts /\ origin[h][2] \in Nat
    <3>1. \A h \in 1..events : origin[h] \in Processes \X (0..MaxRestarts)
      BY DEF TypeOK
    <3> QED BY <1>0, <3>1 DEF LifeInv
  <2>2. \A q \in Processes : boot[q] \in Nat /\ boot[q] <= restarts
    BY <1>0 DEF TypeOK, LifeInv
  <2>3. \A q \in Processes : boot'[q] <= restarts'
    BY <1>0, <1>1, <1>2, <2>2
  <2>4. \A h \in 1..events' : origin'[h][2] <= restarts'
    BY <1>0, <1>1, <2>1
  <2>5. \A u \in Threads : pc'[u] # "idle" =>
          /\ entry'[u].hash \in 1..events'
          /\ origin'[entry'[u].hash] = <<ProcessOf[u], boot'[ProcessOf[u]]>>
    <3> SUFFICES ASSUME NEW u \in Threads, pc'[u] # "idle"
                 PROVE  /\ entry[u].hash \in 1..events
                        /\ origin[entry[u].hash] = <<ProcessOf[u], boot'[ProcessOf[u]]>>
      BY <1>1
    <3>1. pc[u] # "idle" /\ boot'[ProcessOf[u]] = boot[ProcessOf[u]]
      BY <1>0, <1>2, <1>7
    <3> QED BY <1>0, <3>1 DEF LifeInv
  <2>6. ASSUME NEW q \in Processes, NEW d \in Known', origin'[d.hash] = <<q, boot'[q]>>
        PROVE  \/ d.index < Len(entries'[q])
               \/ \E u \in Threads : ProcessOf[u] = q /\ pc'[u] = "append" /\ entry'[u] = d
    <3>1. d \in Known /\ d.hash \in 1..events
      BY <1>0, <1>5 DEF LinkInv
    <3>2. q # p
      <4>1. SUFFICES ASSUME q = p PROVE FALSE
        OBVIOUS
      <4>2. origin[d.hash][2] = restarts + 1
        BY <1>1, <1>2, <2>6, <4>1
      <4> QED BY <1>0, <2>1, <3>1, <4>2
    <3>3. \/ d.index < Len(entries[q])
          \/ \E u \in Threads : ProcessOf[u] = q /\ pc[u] = "append" /\ entry[u] = d
      BY <1>0, <1>1, <1>2, <2>6, <3>1, <3>2 DEF LifeInv
    <3>4. \A u \in Threads : ProcessOf[u] = q => pc'[u] = pc[u] /\ entry'[u] = entry[u]
      BY <1>1, <3>2
    <3> QED BY <1>2, <3>2, <3>3, <3>4
  <2> QED BY <2>3, <2>4, <2>5, <2>6 DEF LifeInv
<1>9. PlaceInv'
  <2>1. \A u \in Threads : tail'[u] \subseteq rows'
    BY <1>0, <1>1 DEF PlaceInv
  <2>2. ASSUME NEW q \in Processes, Len(entries'[q]) >= 2
        PROVE  \/ entries'[q][Len(entries'[q])].index + 1 = Len(entries'[q])
               \/ Overlapped(entries[q][Len(entries[q])])'
               \/ \E u \in Threads : ProcessOf[u] = q /\ pc'[u] = "append"
    <3>1. q # p
      BY <1>2, <2>2
    <3>2. \A u \in Threads : ProcessOf[u] = q => pc'[u] = pc[u]
      BY <1>1, <3>1
    <3>3. entries'[q] = entries[q]
      BY <1>2, <3>1
    <3>4. \/ entries[q][Len(entries[q])].index + 1 = Len(entries[q])
          \/ Overlapped(entries[q][Len(entries[q])])
          \/ \E u \in Threads : ProcessOf[u] = q /\ pc[u] = "append"
      BY <1>0, <2>2, <3>3 DEF PlaceInv
    <3> QED BY <1>1, <3>2, <3>3, <3>4 DEF Overlapped
  <2>3. ASSUME NEW u \in Threads, pc'[u] = "append"
        PROVE  /\ entry'[u].index <= Len(Chain(u)')
               /\ entry'[u].index = Len(Chain(u)') \/ Overlapped(entry[u])'
    <3>1. pc[u] = "append" /\ Chain(u)' = Chain(u) /\ entry'[u] = entry[u]
      BY <1>0, <1>1, <1>2, <1>7, <2>3 DEF Chain
    <3> QED BY <1>0, <1>1, <3>1 DEF PlaceInv, Overlapped
  <2>4. \A u, v \in Threads :
          u # v /\ ProcessOf[u] = ProcessOf[v] /\ pc'[u] = "append" /\ pc'[v] = "append" =>
            {entry'[u].hash, entry'[v].hash} \in raced'
    BY <1>0, <1>1, <1>7 DEF PlaceInv
  <2> QED BY <2>1, <2>2, <2>3, <2>4 DEF PlaceInv
<1> QED BY <1>6, <1>8, <1>9 DEF LinkedInv

LEMMA LinkedStep == TypeOK /\ LinkedInv /\ [Next]_vars => LinkedInv'
<1> SUFFICES ASSUME TypeOK, LinkedInv, [Next]_vars PROVE LinkedInv'
  OBVIOUS
<1> USE LedgerAssumption
<1>0. /\ \A u \in Threads : ProcessOf[u] \in Processes
      /\ events \in Nat
      /\ LinkInv /\ FreshInv /\ LifeInv /\ PlaceInv
  BY DEF TypeOK, LinkedInv
<1>1. ASSUME NEW t \in Threads, EnsureSchema(t) PROVE LinkedInv'
  <2> DEFINE life == <<ProcessOf[t], boot[ProcessOf[t]]>>
  <2>1. /\ pc[t] = "idle" /\ pc' = [pc EXCEPT ![t] = "tail"]
        /\ pc'[t] = "tail" /\ \A u \in Threads : u # t => pc'[u] = pc[u]
        /\ events' = events + 1
        /\ entry'[t].hash = events'
        /\ \A u \in Threads : u # t => entry'[u] = entry[u]
        /\ origin' = Append(origin, life)
        /\ UNCHANGED <<entries, rows, tail, restarts, boot, raced>>
    BY <1>1 DEF EnsureSchema, TypeOK, database
  <2>2. /\ \A h \in 1..events : origin'[h] = origin[h]
        /\ origin'[events'] = life
    <3>1. origin \in Seq(Processes \X (0..MaxRestarts)) /\ Len(origin) = events
          /\ life \in Processes \X (0..MaxRestarts)
      BY <1>0 DEF TypeOK
    <3> QED BY <2>1, <3>1, OriginsStay
  <2>3. Known' \subseteq Known
    BY <2>1 DEF Known, InChains, Built
  <2>4. Fresh' = Fresh \cup {t} /\ t \notin Fresh
    BY <2>1 DEF Fresh
  <2>5. LinkInv'
    <3>1. events \in Nat /\ events' \in Nat /\ events <= events' /\ raced' = raced
      BY <1>0, <2>1
    <3> HIDE DEF life
    <3> QED BY <1>0, <2>2, <2>3, <3>1, NoNewEntry
  <2>6. \A e \in Known' : e.hash \in 1..events /\ e.prev \in 0..events
    BY <1>0, <2>3 DEF LinkInv
  <2>7. \A u \in Fresh : entry[u].hash \in 1..events /\ entry'[u].hash = entry[u].hash
    BY <1>0, <2>1, <2>4 DEF FreshInv, Fresh
  <2>8. events' \in 1..events' /\ \A h \in 1..events : h \in 1..events' /\ h # events'
    BY <1>0, <2>1
  <2>9. FreshInv'
    <3>1. \A u \in Fresh' : entry'[u].hash \in 1..events'
      BY <2>1, <2>4, <2>7, <2>8
    <3>2. \A u \in Fresh', e \in Known' :
            e.hash # entry'[u].hash /\ e.prev # entry'[u].hash
      BY <1>0, <2>1, <2>3, <2>4, <2>6, <2>7 DEF FreshInv
    <3>3. \A u, v \in Fresh' : entry'[u].hash = entry'[v].hash => u = v
      BY <1>0, <2>1, <2>4, <2>7 DEF FreshInv
    <3> QED BY <3>1, <3>2, <3>3 DEF FreshInv
  <2>10. LifeInv'
    <3>1. \A p \in Processes : boot'[p] <= restarts'
      BY <1>0, <2>1 DEF LifeInv
    <3>2. \A h \in 1..events' : origin'[h][2] <= restarts'
      <4> SUFFICES ASSUME NEW h \in 1..events' PROVE origin'[h][2] <= restarts
        BY <2>1
      <4>1. CASE h \in 1..events
        BY <1>0, <2>2, <4>1 DEF LifeInv
      <4>2. CASE h = events'
        BY <1>0, <2>2, <4>2 DEF LifeInv
      <4>3. h \in 1..events \/ h = events'
        <5>1. \A n \in Nat : \A k \in 1..(n + 1) : k \in 1..n \/ k = n + 1
          OBVIOUS
        <5> QED BY <1>0, <2>1, <5>1
      <4> QED BY <4>1, <4>2, <4>3
    <3>3. ASSUME NEW u \in Threads, pc'[u] # "idle"
          PROVE  /\ entry'[u].hash \in 1..events'
                 /\ origin'[entry'[u].hash] = <<ProcessOf[u], boot'[ProcessOf[u]]>>
      <4>1. CASE u = t
        BY <2>1, <2>2, <2>8, <4>1
      <4>2. CASE u # t
        <5>1. pc[u] # "idle" /\ entry'[u] = entry[u]
          BY <2>1, <3>3, <4>2
        <5>2. entry[u].hash \in 1..events
              /\ origin[entry[u].hash] = <<ProcessOf[u], boot[ProcessOf[u]]>>
          BY <1>0, <5>1 DEF LifeInv
        <5> QED BY <2>1, <2>2, <2>8, <5>1, <5>2
      <4> QED BY <4>1, <4>2
    <3>4. ASSUME NEW p \in Processes, NEW d \in Known', origin'[d.hash] = <<p, boot'[p]>>
          PROVE  \/ d.index < Len(entries'[p])
                 \/ \E u \in Threads : ProcessOf[u] = p /\ pc'[u] = "append" /\ entry'[u] = d
      <4>1. d \in Known /\ origin[d.hash] = <<p, boot[p]>>
        BY <2>1, <2>2, <2>3, <2>6, <3>4
      <4>2. \/ d.index < Len(entries[p])
            \/ \E u \in Threads : ProcessOf[u] = p /\ pc[u] = "append" /\ entry[u] = d
        BY <1>0, <4>1 DEF LifeInv
      <4> QED BY <2>1, <4>2
    <3> QED BY <3>1, <3>2, <3>3, <3>4 DEF LifeInv
  <2>11. PlaceInv'
    BY <1>0, <2>1, NothingPlaced
  <2> QED BY <2>5, <2>9, <2>10, <2>11 DEF LinkedInv
<1>2. ASSUME NEW t \in Threads, LoadTail(t) PROVE LinkedInv'
  <2>1. /\ pc[t] = "tail" /\ pc' = [pc EXCEPT ![t] = "make"]
        /\ pc'[t] = "make" /\ \A u \in Threads : u # t => pc'[u] = pc[u]
        /\ \A u \in Threads : u # t => tail'[u] = tail[u]
        /\ tail'[t] \subseteq TailRows
        /\ UNCHANGED <<entries, rows, entry, events, restarts, boot, origin, raced>>
    BY <1>2 DEF LoadTail, TypeOK, database, memory, lives
  <2>2. Known' = Known /\ Fresh' = Fresh
    BY <2>1 DEF Known, InChains, Built, Fresh
  <2>3. LinkInv' /\ FreshInv'
    BY <1>0, <2>1, <2>2, NoNewEntry, NoneFresh
  <2>4. LifeInv'
    BY <1>0, <2>1, <2>2, LivesGoOn
  <2>5. \A u \in Threads : tail'[u] \subseteq tail[u] \cup rows
    BY <2>1 DEF TailRows
  <2>6. PlaceInv'
    BY <1>0, <2>1, <2>5, NothingPlaced
  <2> QED BY <2>3, <2>4, <2>6 DEF LinkedInv
<1>3. ASSUME NEW t \in Threads, Insert(t) PROVE LinkedInv'
  <2>1. /\ pc[t] = "insert" /\ pc' = [pc EXCEPT ![t] = "idle"]
        /\ pc'[t] = "idle" /\ \A u \in Threads : u # t => pc'[u] = pc[u]
        /\ rows \subseteq rows' /\ rows' \subseteq rows \cup {entry[t]}
        /\ UNCHANGED <<entries, tail, entry, events, restarts, boot, origin, raced>>
    BY <1>3 DEF Insert, InsertRow, memory, lives, TypeOK
  <2>2. Fresh' = Fresh
    BY <2>1 DEF Fresh
  <2>3. entry[t] \in Built /\ Built' \subseteq Built
    BY <2>1 DEF Built
  <2>4. Known' \subseteq Known
    BY <2>1, <2>3 DEF Known, InChains
  <2>5. LinkInv' /\ FreshInv'
    BY <1>0, <2>1, <2>2, <2>4, NoNewEntry, NoneFresh
  <2>6. LifeInv'
    BY <1>0, <2>1, <2>4, LivesGoOn
  <2>7. PlaceInv'
    BY <1>0, <2>1, NothingPlaced
  <2> QED BY <2>5, <2>6, <2>7 DEF LinkedInv
<1>4. CASE DatabaseDown \/ DatabaseUp \/ UNCHANGED vars
  <2>1. UNCHANGED <<entries, pc, tail, entry, rows, events, restarts, boot, origin, raced>>
    BY <1>4 DEF DatabaseDown, DatabaseUp, vars, database, memory, local, lives
  <2>2. Known' = Known /\ Fresh' = Fresh
    BY <2>1 DEF Known, InChains, Built, Fresh
  <2>3. LinkInv' /\ FreshInv'
    BY <1>0, <2>1, <2>2, NoNewEntry, NoneFresh
  <2>4. LifeInv'
    BY <1>0, <2>1, <2>2, LivesGoOn
  <2>5. PlaceInv'
    BY <1>0, <2>1, NothingPlaced
  <2> QED BY <2>3, <2>4, <2>5 DEF LinkedInv
<1> QED
  BY <1>1, <1>2, <1>3, <1>4, MakeStep, AppendStep, RestartStep DEF Next, Record

-----------------------------------------------------------------------------
(* The theorems.                                                           *)

\* What has been returned keeps its explanation: rows, announcements and
\* overlaps only grow, and an event's origin is never rewritten.
GapInv ==
  /\ SilentGapIsCollision
  /\ \A e \in returned : e.hash \in 1..events

LEMMA GapStep ==
  ASSUME TypeOK, LinkedInv, GapInv, [Next]_vars
  PROVE  GapInv'
<1> USE LedgerAssumption
<1>0. LinkInv /\ LifeInv /\ \A r \in rows : r \in Known /\ r.hash \in 1..events
  BY DEF LinkedInv, LinkInv, Known
<1>1. ASSUME returned' = returned, announced \subseteq announced', rows \subseteq rows',
             raced \subseteq raced', events' \in Nat, events <= events',
             \A h \in 1..events : origin'[h] = origin[h]
      PROVE  GapInv'
  <2>1. \A e \in returned' : e.hash \in 1..events /\ e.hash \in 1..events'
    BY <1>1 DEF GapInv, TypeOK
  <2>2. ASSUME NEW e \in returned' \ (rows' \cup announced')
        PROVE  \E r \in rows' : /\ r.index = e.index
                                /\ \/ origin'[r.hash] # origin'[e.hash]
                                   \/ {r.hash, e.hash} \in raced'
    <3>1. e \in returned \ (rows \cup announced)
      BY <1>1
    <3>2. PICK r \in rows : /\ r.index = e.index
                            /\ \/ origin[r.hash] # origin[e.hash]
                               \/ {r.hash, e.hash} \in raced
      BY <3>1 DEF GapInv, SilentGapIsCollision
    <3>3. origin'[r.hash] = origin[r.hash] /\ origin'[e.hash] = origin[e.hash]
      BY <1>0, <1>1, <2>1
    <3> QED BY <1>1, <3>2, <3>3
  <2> QED BY <2>1, <2>2 DEF GapInv, SilentGapIsCollision
<1>2. ASSUME NEW t \in Threads, EnsureSchema(t) PROVE GapInv'
  <2>1. /\ UNCHANGED <<rows, returned, announced, raced>>
        /\ events' = events + 1
        /\ origin' = Append(origin, <<ProcessOf[t], boot[ProcessOf[t]]>>)
    BY <1>2 DEF EnsureSchema, database, told
  <2>2. \A h \in 1..events : origin'[h] = origin[h]
    BY <2>1, OriginsStay
  <2>3. events' \in Nat /\ events <= events'
    BY <2>1 DEF TypeOK
  <2>4. /\ UNCHANGED returned
        /\ announced \subseteq announced' /\ rows \subseteq rows' /\ raced \subseteq raced'
    BY <2>1
  <2> QED BY <1>1, <2>2, <2>3, <2>4
<1>3. ASSUME NEW t \in Threads, LoadTail(t) \/ MakeEntry(t) \/ AppendEntry(t) PROVE GapInv'
  <2>1. UNCHANGED <<rows, returned, announced, events, origin>> /\ raced \subseteq raced'
    BY <1>3 DEF LoadTail, MakeEntry, AppendEntry, database, told, lives
  <2> QED BY <1>1, <2>1 DEF TypeOK
<1>4. ASSUME NEW t \in Threads, Insert(t) PROVE GapInv'
  <2> DEFINE e == entry[t]
  <2>1. /\ pc[t] = "insert" /\ returned' = returned \cup {e}
        /\ UNCHANGED <<events, origin, raced>>
    BY <1>4 DEF Insert, lives
  <2>2. /\ rows \subseteq rows' /\ announced \subseteq announced'
        /\ \/ e \in rows' \/ e \in announced'
           \/ \E r \in rows : r.index = e.index
    BY <1>4 DEF Insert, InsertRow
  <2>3. e \in Known
    BY <2>1 DEF Known, Built
  <2>4. e.hash \in 1..events
    BY <1>0, <2>3 DEF LinkInv
  <2>5. ASSUME NEW d \in returned' \ (rows' \cup announced')
        PROVE  \E r \in rows' : /\ r.index = d.index
                                /\ \/ origin'[r.hash] # origin'[d.hash]
                                   \/ {r.hash, d.hash} \in raced'
    <3>1. CASE d \in returned
      BY <2>1, <2>2, <3>1 DEF GapInv, SilentGapIsCollision
    <3>2. CASE d = e
      <4>1. PICK r \in rows : r.index = e.index
        BY <2>2, <3>2
      <4>2. r # e
        BY <2>2, <3>2
      <4>3. origin[r.hash] = origin[e.hash] => {r.hash, e.hash} \in raced
        BY <1>0, <2>3, <4>1, <4>2 DEF LinkInv
      <4> QED BY <2>1, <2>2, <3>2, <4>1, <4>3
    <3> QED BY <2>1, <3>1, <3>2
  <2> QED BY <2>1, <2>4, <2>5 DEF GapInv, SilentGapIsCollision
<1>5. ASSUME NEW p \in Processes, Restart(p) PROVE GapInv'
  <2>1. UNCHANGED <<rows, returned, announced, events, origin, raced>>
    BY <1>5 DEF Restart, database, told
  <2> QED BY <1>1, <2>1 DEF TypeOK
<1>6. CASE DatabaseDown \/ DatabaseUp \/ UNCHANGED vars
  <2>1. UNCHANGED <<rows, returned, announced, events, origin, raced>>
    BY <1>6 DEF DatabaseDown, DatabaseUp, vars, database, told, lives
  <2> QED BY <1>1, <2>1 DEF TypeOK
<1> QED BY <1>2, <1>3, <1>4, <1>5, <1>6 DEF Next, Record

(* In every deployment, an entry that recording has returned and that is   *)
(* neither in the table nor announced as missing has lost its index to a   *)
(* row of another process, of an earlier life of its own, or of a thread   *)
(* that recorded at the same time; nothing else is ever lost silently.     *)
THEOREM SilentLossesExplained == Spec => []SilentGapIsCollision
<1>1. Init => TypeOK /\ LinkedInv /\ GapInv
  <2>1. Init => GapInv
    BY DEF Init, GapInv, SilentGapIsCollision
  <2> QED BY <2>1, TypeOKInit, LinkedInit
<1>2. TypeOK /\ LinkedInv /\ GapInv /\ [Next]_vars => TypeOK' /\ LinkedInv' /\ GapInv'
  BY TypeOKStep, LinkedStep, GapStep
<1>3. GapInv => SilentGapIsCollision
  BY DEF GapInv
<1> QED BY <1>1, <1>2, <1>3, PTL DEF Spec

(* With any number of processes, threads, restarts and outages, a durable  *)
(* chain that verifies has no hole but next to an entry whose recording    *)
(* overlapped with another's in its process: what restarts, outages and    *)
(* other processes lose, announced or not, verification finds.             *)
THEOREM VerificationFindsHoles == Spec => []VerifiedHasNoHole
<1>1. Init => TypeOK /\ LinkedInv
  BY TypeOKInit, LinkedInit
<1>2. TypeOK /\ LinkedInv /\ [Next]_vars => TypeOK' /\ LinkedInv'
  BY TypeOKStep, LinkedStep
<1>3. TypeOK /\ LinkedInv => VerifiedHasNoHole
  <2> SUFFICES ASSUME TypeOK, LinkedInv, VerifiesDurable,
                      NEW r \in rows, r.index > 0
               PROVE  \/ \E s \in rows : s.index + 1 = r.index
                      \/ \E pair \in raced : pair \cap {r.hash, r.prev} # {}
    BY DEF VerifiedHasNoHole
  <2>1. r \in Known /\ \A s \in rows : s \in Known /\ s.index \in Nat
    BY DEF Known, TypeOK, Entry
  <2>2. Below(r) # {}
    BY <2>1 DEF LinkedInv, LinkInv, VerifiesDurable
  <2>3. PICK s \in Below(r) : r.prev = s.hash
    BY <2>2 DEF VerifiesDurable
  <2>4. s \in rows /\ s.index < r.index
    BY <2>3 DEF Below
  <2>5. s.index + 1 = r.index \/ r.index = 1 \/ Overlapped(s) \/ Overlapped(r)
    BY <2>1, <2>3, <2>4 DEF LinkedInv, LinkInv
  <2>6. Overlapped(s) \/ Overlapped(r) => \E pair \in raced : pair \cap {r.hash, r.prev} # {}
    BY <2>3 DEF Overlapped
  <2> QED BY <2>1, <2>4, <2>5, <2>6
<1> QED BY <1>1, <1>2, <1>3, PTL DEF Spec
=============================================================================
