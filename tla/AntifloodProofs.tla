----------------------------- MODULE AntifloodProofs -----------------------------
(* Proofs about Antiflood: its types, the bound on lookups, that nobody is         *)
(* punished twice for a message, and that it implements FloodCounter.              *)
EXTENDS Antiflood, FiniteSetTheorems, SequenceTheorems, TLAPS

Inv == TypeOK /\ FloodInvariant

\* The latest n elements of a sequence are its elements, in order, at most n of them.
LEMMA LatestOf ==
    ASSUME NEW s \in Seq(Message), NEW n \in Nat \ {0}
    PROVE  /\ Latest(s, n) \in Seq(Message)
           /\ Len(s) <= n => Latest(s, n) = s
           /\ Len(s) > n => Len(Latest(s, n)) = n
           /\ \A i \in DOMAIN Latest(s, n) : \E j \in DOMAIN s : Latest(s, n)[i] = s[j]
           /\ Distinct(s) => Distinct(Latest(s, n))
<1>1. CASE Len(s) <= n
    BY <1>1 DEF Latest
<1>2. CASE Len(s) > n
    <2> DEFINE k == Len(s) - n
               t == SubSeq(s, k + 1, Len(s))
    <2>1. k \in Nat /\ k >= 1 /\ Len(s) \in Nat /\ Latest(s, n) = t
        BY <1>2 DEF Latest
    <2>2. \A i \in (k + 1)..Len(s) : s[i] \in Message
        BY <2>1
    <2>3. /\ t \in Seq(Message)
          /\ Len(t) = n
          /\ \A i \in 1..n : t[i] = s[k + i]
        <3>1. k + 1 \in Int /\ Len(s) \in Int
            BY <2>1
        <3>2. /\ t \in Seq(Message)
              /\ Len(t) = IF k + 1 <= Len(s) THEN Len(s) - (k + 1) + 1 ELSE 0
              /\ \A i \in 1..(Len(s) - (k + 1) + 1) : t[i] = s[(k + 1) + i - 1]
            BY <3>1, <2>2, SubSeqProperties
        <3>3. k + 1 <= Len(s) /\ Len(s) - (k + 1) + 1 = n
            BY <2>1
        <3>4. \A i \in 1..n : (k + 1) + i - 1 = k + i
            BY <2>1
        <3> QED BY <3>2, <3>3, <3>4
    <2>4. DOMAIN t = 1..n /\ \A i \in 1..n : k + i \in DOMAIN s
        BY <2>1, <2>3
    <2>5. Distinct(s) => Distinct(t)
        <3> SUFFICES ASSUME Distinct(s), NEW i \in 1..n, NEW j \in 1..n, t[i] = t[j]
                     PROVE  i = j
            BY <2>4 DEF Distinct
        <3>1. s[k + i] = s[k + j] /\ k + i \in DOMAIN s /\ k + j \in DOMAIN s
            BY <2>3, <2>4
        <3>2. k + i = k + j
            BY <3>1 DEF Distinct
        <3> QED BY <2>1, <3>2
    <2>6. \A i \in DOMAIN t : \E j \in DOMAIN s : t[i] = s[j]
        BY <2>3, <2>4
    <2> QED BY <1>2, <2>1, <2>3, <2>5, <2>6
<1> QED BY <1>1, <1>2

--------------------------------------------------------------------------------
(* What a message makes of the entry it has loaded *)

LEMMA StoredTypes ==
    ASSUME TypeOK, NEW m \in Message
    PROVE  /\ Base(m) \in Entry /\ Reset(m) \in Entry /\ Counted(m) \in Entry
           /\ told[m] + Slack \in Nat \ {0} /\ Append(Base(m).ids, m) \in Seq(Message)
<1>1. /\ old[m] \in Entry /\ time[m] \in Nat /\ nextPtr \in Nat
      /\ told[m] \in Nat /\ NoEntry \in Entry
    <2>1. old[m] \in Entry /\ time[m] \in Nat /\ nextPtr \in Nat /\ told[m] \in Limits
        BY DEF TypeOK
    <2>2. NoEntry \in Entry
        BY DEF NoEntry, Entry
    <2> QED BY <2>1, <2>2, FloodAssumption
<1>2. told[m] + Slack \in Nat \ {0}
    BY <1>1, FloodAssumption
<1>3. Base(m) \in Entry
    BY <1>1 DEF Base
<1>4. Append(Base(m).ids, m) \in Seq(Message) /\ Base(m).count + 1 \in Nat
    BY <1>3 DEF Entry
<1>5. Latest(Append(Base(m).ids, m), told[m] + Slack) \in Seq(Message)
    BY <1>2, <1>4, LatestOf
<1>6. Counted(m) \in Entry
    BY <1>1, <1>4, <1>5 DEF Counted, Entry
<1>7. Reset(m) \in Entry
    BY <1>1 DEF Reset, Entry
<1> QED BY <1>2, <1>3, <1>4, <1>6, <1>7

LEMMA InitInv == Init => Inv
<1> SUFFICES ASSUME Init PROVE Inv OBVIOUS
<1>1. NoEntry \in Entry /\ IdleCleaner \in [pc : {"idle", "delete"}, found : Entry]
    BY DEF NoEntry, Entry, IdleCleaner
<1>2. TypeOK
    BY <1>1, FloodAssumption DEF Init, TypeOK, PC
<1>3. PointersAgree /\ TimesAgree /\ EntryAgrees
    BY DEF Init, PointersAgree, PointsTo, TimesAgree, EntryAgrees, NoEntry, IdleCleaner, Distinct
<1>4. BurstsAgree /\ PunishmentIsEarned
    BY DEF Init, BurstsAgree, PunishmentIsEarned, Punished
<1>5. SlotsAgree
    <2>1. Running = {}
        BY DEF Init, Running
    <2> QED BY <2>1, FS_EmptySet DEF Init, SlotsAgree
<1> QED BY <1>2, <1>3, <1>4, <1>5 DEF Inv, FloodInvariant

--------------------------------------------------------------------------------
(* Slots *)

LEMMA RunningFinite == IsFiniteSet(Running) /\ Cardinality(Running) \in Nat
<1>1. Running \in SUBSET Message
    BY DEF Running
<1> QED BY <1>1, FS_Subset, FS_CardinalityType, FloodAssumption

\* Lookups start in a free slot and give it back when they end.
LEMMA StartKeepsSlots ==
    ASSUME Inv, NEW m \in Message, StartLookup(m)
    PROVE  SlotsAgree' /\ slots' \in 0..Slots
<1>1. lookup[m] = "none" /\ m \notin Running
    BY DEF Inv, FloodInvariant, SlotsAgree, StartLookup, Go, Running
<1>2. Running' = Running \cup {m}
    BY DEF Running, StartLookup, Inv, TypeOK
<1>3. Cardinality(Running') = slots + 1
    BY <1>1, <1>2, RunningFinite, FS_AddElement DEF Inv, FloodInvariant, SlotsAgree
<1>4. slots' = slots + 1 /\ slots' \in 0..Slots
    BY FloodAssumption DEF StartLookup, Inv, TypeOK
<1>5. \A k \in Message : pc'[k] \in {"unsent", "exempt"} => lookup'[k] = "none"
    BY DEF Inv, FloodInvariant, SlotsAgree, TypeOK, StartLookup, Go
<1> QED BY <1>3, <1>4, <1>5 DEF SlotsAgree

LEMMA EndKeepsSlots ==
    ASSUME Inv, NEW m \in Message, LookupEnds(m)
    PROVE  SlotsAgree' /\ slots' \in 0..Slots
<1>1. m \in Running
    BY DEF LookupEnds, Running
<1>2. Running' = Running \ {m}
    BY DEF Running, LookupEnds, Inv, TypeOK
<1>3. Cardinality(Running') = slots - 1
    BY <1>1, <1>2, RunningFinite, FS_RemoveElement DEF Inv, FloodInvariant, SlotsAgree
<1>4. Cardinality(Running') \in Nat
    BY <1>2, RunningFinite, FS_RemoveElement, FS_CardinalityType
<1>5. slots' = slots - 1 /\ slots' \in 0..Slots
    BY <1>3, <1>4, FloodAssumption DEF LookupEnds, Inv, TypeOK
<1>6. pc[m] \notin {"unsent", "exempt"}
    BY DEF Inv, FloodInvariant, SlotsAgree, LookupEnds
<1>7. \A k \in Message : pc'[k] \in {"unsent", "exempt"} => lookup'[k] = "none"
    BY <1>6 DEF Inv, FloodInvariant, SlotsAgree, TypeOK, LookupEnds, Go
<1> QED BY <1>3, <1>5, <1>7 DEF SlotsAgree

LEMMA OthersKeepSlots ==
    ASSUME Inv, UNCHANGED lookups,
           \A k \in Message : pc'[k] \in {"unsent", "exempt"} => pc[k] \in {"unsent", "exempt"}
    PROVE  SlotsAgree' /\ slots' \in 0..Slots
<1>1. Running' = Running
    BY DEF Running, lookups
<1>2. lookup' = lookup /\ slots' = slots
    BY DEF lookups
<1> QED BY <1>1, <1>2 DEF Inv, FloodInvariant, SlotsAgree, TypeOK

--------------------------------------------------------------------------------
(* Types *)

LEMMA StoreTypes ==
    ASSUME TypeOK, NEW m \in Message, Store(m)
    PROVE  TypeOK'
<1>1. Counted(m) \in Entry /\ Reset(m) \in Entry /\ Counted(m).ids \in Seq(Message)
    BY StoredTypes DEF Entry
<1>2. entry' \in Entry /\ nextPtr' \in Nat
    BY <1>1 DEF Store, TypeOK
<1>4. crc' \in [Message -> Seq(Message)]
    <2>1. crc' = crc \/ crc' = [crc EXCEPT ![m] = Counted(m).ids]
        BY DEF Store
    <2>2. crc \in [Message -> Seq(Message)]
        BY DEF TypeOK
    <2> QED BY <1>1, <2>1, <2>2
<1>3. pc' \in [Message -> PC]
    BY DEF Store, Go, TypeOK, PC
<1> QED BY <1>2, <1>3, <1>4 DEF Store, TypeOK, settings, locals, lookups

LEMMA NextTypes ==
    ASSUME Inv, Next
    PROVE  TypeOK'
<1>0. TypeOK /\ NoEntry \in Entry
    BY DEF Inv, NoEntry, Entry
<1>1. CASE Tick
    BY <1>0, <1>1 DEF Tick, TypeOK, settings, locals, lookups
<1>2. CASE CleanerFinds
    BY <1>0, <1>2 DEF CleanerFinds, TypeOK, shared, settings, locals, lookups
<1>3. CASE CleanerDeletes
    BY <1>0, <1>3 DEF CleanerDeletes, TypeOK, settings, locals, lookups, IdleCleaner
<1>4. CASE DeleteSettingsCache
    BY <1>0, <1>4 DEF DeleteSettingsCache, TypeOK, shared, locals, lookups
<1>5. ASSUME NEW n \in Limits, SetFlood(n) PROVE TypeOK'
    BY <1>0, <1>5 DEF SetFlood, TypeOK, shared, locals, lookups
<1>6. ASSUME NEW m \in Message, Receive(m) PROVE TypeOK'
    BY <1>0, <1>6 DEF Receive, Go, TypeOK, PC, shared, settings, lookups
<1>7. ASSUME NEW m \in Message, StatusKnown(m) \/ NoSlot(m) \/ LookupTimeout(m) \/ Retry(m) \/ Punish(m)
      PROVE  TypeOK'
    BY <1>0, <1>7 DEF StatusKnown, NoSlot, LookupTimeout, Retry, Punish, Go, TypeOK, PC, shared, settings,
                      locals, lookups
<1>8. ASSUME NEW m \in Message, StartLookup(m) PROVE TypeOK'
    BY <1>0, <1>8, StartKeepsSlots DEF StartLookup, Go, TypeOK, PC, shared, settings, locals
<1>9. ASSUME NEW m \in Message, LookupEnds(m) PROVE TypeOK'
    BY <1>0, <1>9, EndKeepsSlots DEF LookupEnds, Go, TypeOK, PC, shared, settings, locals
<1>10. ASSUME NEW m \in Message, ReadClock(m) PROVE TypeOK'
    BY <1>0, <1>10 DEF ReadClock, Go, TypeOK, PC, shared, settings, lookups
<1>11. ASSUME NEW m \in Message, LoadEntry(m) PROVE TypeOK'
    BY <1>0, <1>11 DEF LoadEntry, Go, TypeOK, PC, shared, settings, lookups
<1>12. ASSUME NEW m \in Message, Store(m) PROVE TypeOK'
    BY <1>0, <1>12, StoreTypes
<1> QED BY <1>1, <1>2, <1>3, <1>4, <1>5, <1>6, <1>7, <1>8, <1>9, <1>10, <1>11, <1>12 DEF Next, Handle

--------------------------------------------------------------------------------
(* Every step but Store and CleanerDeletes leaves the entry and all verdicts alone *)

Local ==
    /\ UNCHANGED <<entry, nextPtr, crc>>
    /\ \A m \in Message :
          /\ old'[m] = old[m] \/ old'[m] = entry
          /\ pc'[m] = "passed" <=> pc[m] = "passed"
          /\ Punished(m)' <=> Punished(m)
          /\ pc'[m] \notin {"unsent", "ignored"} => told'[m] # 0
          /\ Punished(m) => told'[m] = told[m]
          /\ pc'[m] \in {"unsent", "exempt"} => pc[m] \in {"unsent", "exempt"}
    /\ cleaner' = cleaner \/ cleaner' = [pc |-> "delete", found |-> entry]

OnTime ==
    /\ now <= now'
    /\ \A m \in Message : time'[m] = time[m] \/ time'[m] = now
    /\ cleaner' = cleaner \/ (cleaner'.found = entry /\ now > entry.at + Retention)

Remote == \/ Tick \/ CleanerFinds \/ DeleteSettingsCache
          \/ \E n \in Limits : SetFlood(n)
          \/ UNCHANGED vars
Walk(m) == \/ Receive(m) \/ StatusKnown(m) \/ NoSlot(m) \/ LookupTimeout(m) \/ Retry(m) \/ Punish(m)
           \/ StartLookup(m) \/ LookupEnds(m) \/ ReadClock(m) \/ LoadEntry(m)

LEMMA RemoteIsLocal == ASSUME Inv, Remote PROVE Local
BY DEF Inv, FloodInvariant, EntryAgrees, Remote, Tick, CleanerFinds, DeleteSettingsCache, SetFlood, vars, Local,
       shared, settings, locals, Punished

LEMMA WalkIsLocal == ASSUME Inv, NEW k \in Message, Walk(k) PROVE Local
<1>0. /\ pc \in [Message -> PC] /\ told \in [Message -> Limits] /\ old \in [Message -> Entry]
      /\ \A m \in Message : pc[m] \notin {"unsent", "ignored"} => told[m] # 0
    BY DEF Inv, TypeOK, FloodInvariant, EntryAgrees
<1>1. CASE Receive(k)
    BY <1>0, <1>1 DEF Receive, Go, Local, Punished, shared
<1>2. CASE StatusKnown(k) \/ NoSlot(k) \/ LookupTimeout(k) \/ StartLookup(k)
    BY <1>0, <1>2 DEF StatusKnown, NoSlot, LookupTimeout, StartLookup, Go, Local, Punished, shared, locals
<1>3. CASE Retry(k) \/ Punish(k)
    BY <1>0, <1>3 DEF Retry, Punish, Go, Local, Punished, shared, locals
<1>4. CASE LookupEnds(k)
    BY <1>0, <1>4 DEF LookupEnds, Go, Local, Punished, shared, locals
<1>5. CASE ReadClock(k)
    BY <1>0, <1>5 DEF ReadClock, Go, Local, Punished, shared
<1>6. CASE LoadEntry(k)
    BY <1>0, <1>6 DEF LoadEntry, Go, Local, Punished, shared
<1> QED BY <1>1, <1>2, <1>3, <1>4, <1>5, <1>6 DEF Walk

LEMMA RemoteIsOnTime == ASSUME Inv, Remote PROVE OnTime
BY DEF Inv, TypeOK, Remote, Tick, CleanerFinds, DeleteSettingsCache, SetFlood, vars, OnTime, shared, settings, locals

LEMMA WalkIsOnTime == ASSUME Inv, NEW k \in Message, Walk(k) PROVE OnTime
BY DEF Inv, TypeOK, Walk, Receive, StatusKnown, NoSlot, LookupTimeout, Retry, Punish, StartLookup, LookupEnds, ReadClock,
       LoadEntry, OnTime, shared, locals

\* The invariant is kept by any step that is local and on time, slots apart.
LEMMA LocalKeepsPointers == ASSUME Inv, Local PROVE PointersAgree'
BY DEF Inv, FloodInvariant, PointersAgree, PointsTo, Local

LEMMA OnTimeKeepsTimes == ASSUME Inv, Local, OnTime, TypeOK' PROVE TimesAgree'
<1>1. entry'.at <= now'
    BY DEF Inv, TypeOK, Entry, FloodInvariant, TimesAgree, Local, OnTime
<1>2. \A m \in Message : time'[m] <= now'
    <2> TAKE m \in Message
    <2>1. now \in Nat /\ now' \in Nat /\ time[m] \in Nat /\ time[m] <= now
        BY DEF Inv, TypeOK, FloodInvariant, TimesAgree
    <2>2. now <= now' /\ (time'[m] = time[m] \/ time'[m] = now)
        BY DEF OnTime
    <2> QED BY <2>1, <2>2
<1>3. cleaner'.pc = "delete" => now' > cleaner'.found.at + Retention
    <2>1. /\ now \in Nat /\ now' \in Nat /\ entry.at \in Nat /\ cleaner.found.at \in Nat
          /\ Retention \in Nat /\ now <= now'
        BY FloodAssumption DEF Inv, TypeOK, Entry, OnTime
    <2>2. CASE cleaner' = cleaner
        BY <2>1, <2>2 DEF Inv, FloodInvariant, TimesAgree
    <2>3. CASE cleaner'.found = entry /\ now > entry.at + Retention
        BY <2>1, <2>3
    <2> QED BY <2>2, <2>3 DEF OnTime
<1> QED BY <1>1, <1>2, <1>3 DEF TimesAgree

LEMMA LocalKeepsEntry == ASSUME Inv, Local PROVE EntryAgrees'
<1>1. \A i \in DOMAIN entry.ids : entry.ids[i] \in Message
    BY DEF Inv, TypeOK, Entry
<1> QED BY <1>1 DEF Inv, FloodInvariant, EntryAgrees, Local

LEMMA LocalKeepsBursts == ASSUME Inv, Local PROVE BurstsAgree' /\ PunishmentIsEarned'
<1>1. \A m \in Message : \A i \in DOMAIN crc[m] : crc[m][i] \in Message
    BY DEF Inv, TypeOK
<1>2. \A m \in Message : Punished(m)' => Punished(m) /\ told'[m] = told[m] /\ crc'[m] = crc[m]
    BY DEF Local
<1>3. BurstsAgree'
    BY <1>1, <1>2 DEF Inv, FloodInvariant, BurstsAgree, Local
<1>4. PunishmentIsEarned'
    <2> SUFFICES ASSUME NEW m \in Message, Punished(m)'
                 PROVE  /\ Len(crc'[m]) > told'[m] /\ Distinct(crc'[m])
                        /\ Elements(crc'[m]) \cap Elements(entry'.ids) = {}
                        /\ \A k \in Message : Punished(k)' /\ k # m =>
                                Elements(crc'[m]) \cap Elements(crc'[k]) = {}
        BY DEF PunishmentIsEarned, Elements, Distinct
    <2>1. /\ Punished(m) /\ told'[m] = told[m] /\ crc'[m] = crc[m] /\ entry'.ids = entry.ids
          /\ \A k \in Message : Punished(k)' => Punished(k) /\ crc'[k] = crc[k]
        BY <1>2 DEF Local
    <2> QED BY <2>1 DEF Inv, FloodInvariant, PunishmentIsEarned
<1> QED BY <1>3, <1>4

--------------------------------------------------------------------------------
(* A successful swap counts on exactly the entry it replaces *)

LEMMA StoreBase ==
    ASSUME Inv, NEW m \in Message, Store(m)
    PROVE  Base(m).ids = entry.ids /\ Base(m).count = Len(entry.ids) /\ entry.ids \in Seq(Message)
<1>1. /\ entry \in Entry /\ old[m] \in Entry /\ Len(entry.ids) = entry.count
      /\ PointsTo(old[m], entry) /\ PointsTo(entry, entry)
    BY DEF Inv, TypeOK, FloodInvariant, PointersAgree, EntryAgrees
<1>2. entry.ids \in Seq(Message) /\ (entry.count = 0 => entry.ids = <<>>)
    BY <1>1 DEF Entry
<1>3. CASE Loaded(m)
    <2>1. old[m] = entry /\ ~Stale(m)
        BY <1>1, <1>3 DEF Store, Swappable, Loaded, PointsTo
    <2> QED BY <1>1, <1>2, <2>1 DEF Base, NoEntry
<1>4. CASE ~Loaded(m)
    <2>1. entry = NoEntry /\ (Stale(m) \/ old[m] = NoEntry)
        BY <1>1, <1>4 DEF Store, Swappable, Loaded, PointsTo
    <2> QED BY <1>1, <2>1 DEF Base, NoEntry
<1> QED BY <1>2, <1>3, <1>4

\* One more message under the limit, or a burst that has outgrown it.
LEMMA StoreCounts ==
    ASSUME Inv, NEW m \in Message, Store(m)
    PROVE  /\ Floods(m) <=> Len(entry.ids) >= told[m]
           /\ ~Floods(m) => Counted(m).ids = Append(entry.ids, m)
           /\ ~Floods(m) => Counted(m).count = Len(entry.ids) + 1
           /\ Floods(m) => Len(Counted(m).ids) > told[m]
           /\ \A i \in DOMAIN Counted(m).ids : Counted(m).ids[i] = m \/ \E j \in DOMAIN entry.ids : Counted(m).ids[i] = entry.ids[j]
           /\ Distinct(Counted(m).ids)
<1> DEFINE s == Append(entry.ids, m)
           n == told[m] + Slack
<1>1. /\ Base(m).ids = entry.ids /\ Base(m).count = Len(entry.ids) /\ entry.ids \in Seq(Message)
    BY StoreBase
<1>2. /\ s \in Seq(Message) /\ Len(s) = Len(entry.ids) + 1
      /\ Counted(m).ids = Latest(s, n) /\ Counted(m).count = Len(entry.ids) + 1
      /\ \A i \in DOMAIN s : s[i] = m \/ (i \in DOMAIN entry.ids /\ s[i] = entry.ids[i])
    BY <1>1 DEF Counted
<1>3. told[m] \in Nat /\ n \in Nat \ {0} /\ n > told[m] /\ Len(entry.ids) \in Nat
    <2>1. told[m] \in Nat /\ Slack \in Nat \ {0}
        BY FloodAssumption DEF Inv, TypeOK
    <2> QED BY <1>1, <2>1
<1>4. Floods(m) <=> Len(entry.ids) + 1 > told[m]
    BY <1>1 DEF Floods
<1>5. Distinct(s)
    <2>1. \A i \in DOMAIN entry.ids : entry.ids[i] # m
        BY DEF Inv, FloodInvariant, EntryAgrees, Store, Go
    <2>2. Distinct(entry.ids)
        BY DEF Inv, FloodInvariant, EntryAgrees
    <2>3. /\ DOMAIN s = 1..(Len(entry.ids) + 1) /\ DOMAIN entry.ids = 1..Len(entry.ids)
          /\ \A i \in 1..Len(entry.ids) : s[i] = entry.ids[i]
          /\ s[Len(entry.ids) + 1] = m
        BY <1>1
    <2> SUFFICES ASSUME NEW i \in DOMAIN s, NEW j \in DOMAIN s, s[i] = s[j] PROVE i = j
        BY DEF Distinct
    <2>4. CASE i \in DOMAIN entry.ids /\ j \in DOMAIN entry.ids
        BY <2>2, <2>3, <2>4 DEF Distinct
    <2>5. CASE i \notin DOMAIN entry.ids \/ j \notin DOMAIN entry.ids
        BY <1>3, <2>1, <2>3, <2>5
    <2> QED BY <2>4, <2>5
<1>6. /\ Len(s) <= n => Latest(s, n) = s
      /\ Len(s) > n => Len(Latest(s, n)) = n
      /\ \A i \in DOMAIN Latest(s, n) : \E j \in DOMAIN s : Latest(s, n)[i] = s[j]
      /\ Distinct(Latest(s, n))
    BY <1>2, <1>3, <1>5, LatestOf
<1>7. Floods(m) => Len(Latest(s, n)) > told[m]
    BY <1>2, <1>3, <1>4, <1>6
<1>8. ~Floods(m) => Latest(s, n) = s
    BY <1>2, <1>3, <1>4, <1>6
<1>9. Floods(m) <=> Len(entry.ids) >= told[m]
    BY <1>3, <1>4
<1>10. \A i \in DOMAIN Latest(s, n) :
          Latest(s, n)[i] = m \/ \E j \in DOMAIN entry.ids : Latest(s, n)[i] = entry.ids[j]
    BY <1>2, <1>6
<1> QED BY <1>2, <1>6, <1>7, <1>8, <1>9, <1>10

LEMMA StoreKeepsPointers == ASSUME Inv, NEW m \in Message, Store(m) PROVE PointersAgree' /\ TimesAgree'
<1>1. /\ entry'.ptr = nextPtr /\ entry'.at = time[m] /\ nextPtr' = nextPtr + 1
    BY DEF Store, Counted, Reset
<1>2. /\ UNCHANGED <<old, cleaner, now, time>>
    BY DEF Store, locals
<1>3. /\ nextPtr \in Nat /\ \A k \in Message : old[k].ptr < nextPtr /\ (old[k].ptr = 0 => old[k] = NoEntry)
      /\ cleaner.found.ptr < nextPtr /\ (cleaner.found.ptr = 0 => cleaner.found = NoEntry)
      /\ entry.ptr < nextPtr
    BY DEF Inv, TypeOK, FloodInvariant, PointersAgree, PointsTo
<1>4. /\ nextPtr # 0 /\ \A k \in Message : old[k].ptr \in Nat
      /\ cleaner.found.ptr \in Nat
    BY <1>3 DEF Inv, TypeOK, Entry
<1>5. PointersAgree'
    BY <1>1, <1>2, <1>3, <1>4 DEF PointersAgree, PointsTo
<1>6. TimesAgree'
    BY <1>1, <1>2 DEF Inv, FloodInvariant, TimesAgree
<1> QED BY <1>5, <1>6

LEMMA StoreKeepsBursts ==
    ASSUME Inv, NEW m \in Message, Store(m)
    PROVE  EntryAgrees' /\ BurstsAgree' /\ PunishmentIsEarned'
<1>1. /\ pc \in [Message -> PC] /\ crc \in [Message -> Seq(Message)] /\ told' = told
      /\ pc[m] = "swap" /\ told[m] # 0
      /\ entry.ids \in Seq(Message)
    BY StoreBase DEF Inv, TypeOK, FloodInvariant, EntryAgrees, Store, Go, locals
<1>2. /\ EntryAgrees /\ BurstsAgree /\ PunishmentIsEarned
    BY DEF Inv, FloodInvariant
<1>3. /\ \A i \in DOMAIN entry.ids : entry.ids[i] \in Message /\ entry.ids[i] # m /\ pc[entry.ids[i]] = "passed"
      /\ \A k \in Message : Punished(k) => \A i \in DOMAIN crc[k] : crc[k][i] \in Message /\ crc[k][i] # m
      /\ ~Punished(m)
    <2>1. ~Punished(m) /\ pc[m] # "passed"
        BY <1>1 DEF Punished
    <2>2. \A i \in DOMAIN entry.ids : entry.ids[i] \in Message /\ pc[entry.ids[i]] = "passed"
        BY <1>1, <1>2 DEF EntryAgrees
    <2>3. ASSUME NEW k \in Message, Punished(k), NEW i \in DOMAIN crc[k]
          PROVE  crc[k][i] \in Message /\ crc[k][i] # m
        <3>1. crc[k][i] \in Message
            BY <1>1
        <3>2. crc[k][i] = k \/ pc[crc[k][i]] = "passed"
            BY <1>2, <2>3 DEF BurstsAgree
        <3> QED BY <2>1, <2>3, <3>1, <3>2
    <2> QED BY <2>1, <2>2, <2>3
<1>4. CASE ~Floods(m)
    <2>1. /\ pc' = [pc EXCEPT ![m] = "passed"] /\ crc' = crc
          /\ entry'.ids = Append(entry.ids, m) /\ entry'.count = Len(entry.ids) + 1
          /\ entry'.ids = Counted(m).ids
        BY <1>4, StoreCounts DEF Store, Go, Counted
    <2>2. /\ Distinct(entry'.ids)
          /\ \A i \in DOMAIN entry'.ids : entry'.ids[i] = m \/ \E j \in DOMAIN entry.ids : entry'.ids[i] = entry.ids[j]
        BY <1>4, <2>1, StoreCounts
    <2>3. EntryAgrees'
        <3>1. Len(entry'.ids) = entry'.count
            <4>1. Len(Append(entry.ids, m)) = Len(entry.ids) + 1
                BY <1>1
            <4> QED BY <2>1, <4>1
        <3>2. \A i \in DOMAIN entry'.ids : pc'[entry'.ids[i]] = "passed"
            BY <1>1, <1>3, <2>1, <2>2
        <3>3. \A k \in Message : pc'[k] \notin {"unsent", "ignored"} => told'[k] # 0
            BY <1>1, <1>2, <2>1 DEF EntryAgrees
        <3> QED BY <2>2, <3>1, <3>2, <3>3 DEF EntryAgrees, Distinct
    <2>4. \A k \in Message : Punished(k)' => Punished(k)
        BY <1>1, <2>1 DEF Punished
    <2>5. BurstsAgree'
        BY <1>1, <1>2, <1>3, <2>1, <2>4 DEF BurstsAgree
    <2>6. \A k \in Message : Punished(k) => Elements(crc[k]) \cap Elements(entry'.ids) = {}
        <3> SUFFICES ASSUME NEW k \in Message, Punished(k), NEW x \in Elements(crc[k]), x \in Elements(entry'.ids)
                     PROVE  FALSE
            OBVIOUS
        <3>1. x # m
            BY <1>3 DEF Elements
        <3>2. x \in Elements(entry.ids)
            BY <2>2, <3>1 DEF Elements
        <3> QED BY <1>2, <3>2 DEF PunishmentIsEarned
    <2>7. PunishmentIsEarned'
        <3> SUFFICES ASSUME NEW k \in Message, Punished(k)'
                     PROVE  /\ Len(crc'[k]) > told'[k] /\ Distinct(crc'[k])
                            /\ Elements(crc'[k]) \cap Elements(entry'.ids) = {}
                            /\ \A j \in Message : Punished(j)' /\ j # k =>
                                   Elements(crc'[k]) \cap Elements(crc'[j]) = {}
            BY DEF PunishmentIsEarned, Elements, Distinct
        <3> QED BY <1>1, <1>2, <2>1, <2>4, <2>6 DEF PunishmentIsEarned
    <2> QED BY <2>3, <2>5, <2>7
<1>5. CASE Floods(m)
    <2>1. /\ pc' = [pc EXCEPT ![m] = "punish"] /\ crc' = [crc EXCEPT ![m] = Counted(m).ids]
          /\ entry'.ids = <<>> /\ entry'.count = 0
        BY <1>5 DEF Store, Go, Reset
    <2> DEFINE b == Counted(m).ids
    <2>2. /\ Len(b) > told[m] /\ Distinct(b)
          /\ \A i \in DOMAIN b : b[i] = m \/ \E j \in DOMAIN entry.ids : b[i] = entry.ids[j]
        BY <1>5, StoreCounts
    <2>3. EntryAgrees'
        BY <1>1, <1>2, <2>1 DEF EntryAgrees, Distinct
    <2>4. /\ \A k \in Message : Punished(k)' <=> (Punished(k) \/ k = m)
          /\ crc'[m] = b /\ \A k \in Message \ {m} : crc'[k] = crc[k]
        BY <1>1, <2>1 DEF Punished
    <2>5. BurstsAgree'
        <3> SUFFICES ASSUME NEW k \in Message, Punished(k)', NEW i \in DOMAIN crc'[k]
                     PROVE  crc'[k][i] = k \/ pc'[crc'[k][i]] = "passed"
            BY DEF BurstsAgree
        <3>1. CASE k = m
            BY <1>1, <1>3, <2>1, <2>2, <2>4, <3>1
        <3>2. CASE k # m
            BY <1>1, <1>2, <1>3, <2>1, <2>4, <3>2 DEF BurstsAgree
        <3> QED BY <3>1, <3>2
    <2>6. \A k \in Message : Punished(k) => Elements(crc[k]) \cap Elements(b) = {}
        <3> SUFFICES ASSUME NEW k \in Message, Punished(k), NEW x \in Elements(crc[k]), x \in Elements(b)
                     PROVE  FALSE
            OBVIOUS
        <3>1. PICK i \in DOMAIN b : x = b[i]
            BY DEF Elements
        <3>2. x # m
            BY <1>3 DEF Elements
        <3>3. x \in Elements(entry.ids)
            BY <2>2, <3>1, <3>2 DEF Elements
        <3> QED BY <1>2, <3>3 DEF PunishmentIsEarned
    <2>7. Elements(entry'.ids) = {}
        BY <2>1 DEF Elements
    <2>8. PunishmentIsEarned'
        <3> SUFFICES ASSUME NEW k \in Message, Punished(k)'
                     PROVE  /\ Len(crc'[k]) > told[k] /\ Distinct(crc'[k])
                            /\ \A j \in Message : Punished(j)' /\ j # k =>
                                   Elements(crc'[k]) \cap Elements(crc'[j]) = {}
            BY <1>1, <2>7 DEF PunishmentIsEarned, Elements, Distinct
        <3>1. CASE k = m
            BY <2>2, <2>4, <2>6, <3>1
        <3>2. CASE k # m
            BY <1>2, <2>4, <2>6, <3>2 DEF PunishmentIsEarned
        <3> QED BY <3>1, <3>2
    <2> QED BY <2>3, <2>5, <2>8
<1> QED BY <1>4, <1>5

\* Only an entry that the cleaner has found idle is removed.
LEMMA DeleteKeeps ==
    ASSUME Inv, CleanerDeletes
    PROVE  PointersAgree' /\ TimesAgree' /\ EntryAgrees' /\ BurstsAgree' /\ PunishmentIsEarned'
<1>1. entry' = entry \/ entry' = NoEntry
    BY DEF CleanerDeletes
<1>2. UNCHANGED <<now, nextPtr, pc, told, time, old, crc>> /\ cleaner' = IdleCleaner
    BY DEF CleanerDeletes, locals
<1>3. PointersAgree /\ TimesAgree /\ EntryAgrees /\ BurstsAgree /\ PunishmentIsEarned
    BY DEF Inv, FloodInvariant
<1>4. PointersAgree'
    <2>1. NoEntry.ptr = 0 /\ nextPtr # 0 /\ IdleCleaner.found = NoEntry /\ nextPtr \in Nat
        BY <1>3 DEF PointersAgree, PointsTo, NoEntry, IdleCleaner, Inv, TypeOK, Entry
    <2>2. \A m \in Message : (old[m].ptr = 0 => old[m] = NoEntry) /\ old[m].ptr < nextPtr
        BY <1>3 DEF PointersAgree, PointsTo
    <2>3. CASE entry' = entry
        BY <1>2, <1>3, <2>1, <2>3 DEF PointersAgree, PointsTo
    <2>4. CASE entry' = NoEntry
        BY <1>2, <2>1, <2>2, <2>4 DEF PointersAgree, PointsTo
    <2> QED BY <1>1, <2>3, <2>4
<1>5. TimesAgree'
    BY <1>1, <1>2, <1>3 DEF TimesAgree, NoEntry, IdleCleaner, Inv, TypeOK
<1>6. EntryAgrees'
    BY <1>1, <1>2, <1>3 DEF EntryAgrees, NoEntry, Distinct
<1>7. BurstsAgree'
    BY <1>2, <1>3 DEF BurstsAgree, Punished
<1>8. PunishmentIsEarned'
    <2>1. Elements(entry'.ids) \subseteq Elements(entry.ids)
        BY <1>1 DEF Elements, NoEntry
    <2>2. \A m \in Message : Punished(m)' <=> Punished(m)
        BY <1>2 DEF Punished
    <2> SUFFICES ASSUME NEW m \in Message, Punished(m)'
                 PROVE  /\ Len(crc'[m]) > told'[m] /\ Distinct(crc'[m])
                        /\ Elements(crc'[m]) \cap Elements(entry'.ids) = {}
                        /\ \A k \in Message : Punished(k)' /\ k # m =>
                                Elements(crc'[m]) \cap Elements(crc'[k]) = {}
        BY DEF PunishmentIsEarned, Elements, Distinct
    <2> QED BY <1>2, <1>3, <2>1, <2>2 DEF PunishmentIsEarned
<1> QED BY <1>4, <1>5, <1>6, <1>7, <1>8

--------------------------------------------------------------------------------
(* The invariant *)

LEMMA OtherSteps == Next <=> \/ CleanerDeletes \/ (\E m \in Message : Store(m))
                             \/ Tick \/ CleanerFinds \/ DeleteSettingsCache
                             \/ (\E n \in Limits : SetFlood(n)) \/ (\E m \in Message : Walk(m))
BY DEF Next, Handle, Walk

LEMMA LocalKeeps ==
    ASSUME Inv, TypeOK', Local, OnTime, SlotsAgree'
    PROVE  Inv'
BY LocalKeepsPointers, OnTimeKeepsTimes, LocalKeepsEntry, LocalKeepsBursts DEF Inv, FloodInvariant

LEMMA StutterTypes == ASSUME TypeOK, UNCHANGED vars PROVE TypeOK'
BY DEF TypeOK, vars, shared, settings, locals, lookups

LEMMA NextInv == ASSUME Inv, [Next]_vars PROVE Inv'
<1>1. TypeOK'
    BY NextTypes, StutterTypes DEF Inv
<1>2. CASE Remote
    <2>1. UNCHANGED <<lookups, pc>>
        BY <1>2 DEF Remote, Tick, CleanerFinds, DeleteSettingsCache, SetFlood, vars
    <2>2. SlotsAgree'
        BY <2>1, OthersKeepSlots
    <2> QED BY <1>1, <1>2, <2>2, RemoteIsLocal, RemoteIsOnTime, LocalKeeps
<1>3. ASSUME NEW m \in Message, Walk(m) PROVE Inv'
    <2>1. Local /\ OnTime
        BY <1>3, WalkIsLocal, WalkIsOnTime
    <2>2. UNCHANGED lookups \/ StartLookup(m) \/ LookupEnds(m)
        BY <1>3 DEF Walk, Receive, StatusKnown, NoSlot, LookupTimeout, Retry, Punish, ReadClock, LoadEntry
    <2>3. UNCHANGED lookups => SlotsAgree'
        BY <2>1, OthersKeepSlots DEF Local
    <2>4. SlotsAgree'
        BY <2>2, <2>3, StartKeepsSlots, EndKeepsSlots
    <2> QED BY <1>1, <2>1, <2>4, LocalKeeps
<1>4. ASSUME NEW m \in Message, Store(m) PROVE Inv'
    <2>1. \A k \in Message : pc'[k] \in {"unsent", "exempt"} => pc[k] \in {"unsent", "exempt"}
        BY <1>4 DEF Store, Go, Inv, TypeOK
    <2>2. SlotsAgree'
        BY <1>4, <2>1, OthersKeepSlots DEF Store
    <2> QED BY <1>1, <1>4, <2>2, StoreKeepsPointers, StoreKeepsBursts DEF Inv, FloodInvariant
<1>5. CASE CleanerDeletes
    <2>1. SlotsAgree'
        BY <1>5, OthersKeepSlots DEF CleanerDeletes
    <2> QED BY <1>1, <1>5, <2>1, DeleteKeeps DEF Inv, FloodInvariant
<1> QED BY <1>2, <1>3, <1>4, <1>5, OtherSteps DEF Remote

\* In every reachable state: the types, and the invariant that relates the entry, the
\* goroutines that loaded it, the bursts and the slots.
THEOREM FloodCorrect == Spec => [](TypeOK /\ FloodInvariant)
<1>1. Init => TypeOK /\ FloodInvariant
    BY InitInv DEF Inv
<1>2. TypeOK /\ FloodInvariant /\ [Next]_vars => (TypeOK /\ FloodInvariant)'
    BY NextInv DEF Inv
<1> QED BY <1>1, <1>2, PTL DEF Spec

\* Whatever goroutines race, a user is punished only for more messages than the limit,
\* and no message is held against them twice (the swap in updateFloodWithSettings).
THEOREM PunishmentEarned == Spec => []PunishmentIsEarned
<1>1. TypeOK /\ FloodInvariant => PunishmentIsEarned
    BY DEF FloodInvariant
<1> QED BY <1>1, FloodCorrect, PTL

\* The lookups that run never outnumber the slots of adminCheckSemaphore, although
\* their callers stop waiting for them after three seconds.
THEOREM LookupsBounded == Spec => []LookupsAreBounded
<1>1. TypeOK /\ FloodInvariant => LookupsAreBounded
    BY FloodAssumption DEF TypeOK, FloodInvariant, SlotsAgree, LookupsAreBounded
<1> QED BY <1>1, FloodCorrect, PTL

--------------------------------------------------------------------------------
(* The refinement *)

Verdicts == [m \in Message |-> Verdict(m)]

LEMMA InitCounts == Init => Counter!Init
<1> SUFFICES ASSUME Init PROVE Counter!Init OBVIOUS
<1>1. entry.ids = <<>> /\ entry.at = 0 /\ now = 0
    BY DEF Init, NoEntry
<1>2. Verdicts = [m \in Message |-> "none"]
    BY DEF Init, Verdicts, Verdict, Punished
<1> QED BY <1>1, <1>2 DEF Counter!Init, Verdicts

\* Steps that change no verdict.
LEMMA SameVerdicts ==
    ASSUME \A m \in Message : Verdict(m)' = Verdict(m)
    PROVE  Verdicts' = Verdicts
BY DEF Verdicts

LEMMA OneVerdict ==
    ASSUME NEW m \in Message, NEW v,
           Verdict(m) = "none", Verdict(m)' = v,
           \A k \in Message \ {m} : Verdict(k)' = Verdict(k)
    PROVE  Verdicts[m] = "none" /\ Verdicts' = [Verdicts EXCEPT ![m] = v]
BY DEF Verdicts

LEMMA WalkCounts ==
    ASSUME Inv, NEW m \in Message, Walk(m)
    PROVE  Counter!Next \/ UNCHANGED Counter!vars
<1>1. UNCHANGED <<entry, now>>
    BY DEF Walk, Receive, StatusKnown, NoSlot, LookupTimeout, Retry, Punish, StartLookup, LookupEnds, ReadClock,
           LoadEntry, shared
<1>2. \/ \A k \in Message : Verdict(k)' = Verdict(k)
      \/ /\ Verdict(m) = "none" /\ Verdict(m)' = "ignored"
         /\ \A k \in Message \ {m} : Verdict(k)' = Verdict(k)
    <2>0. pc \in [Message -> PC]
        BY DEF Inv, TypeOK
    <2>1. CASE Receive(m)
        BY <2>0, <2>1 DEF Receive, Go, Verdict, Punished
    <2>2. CASE StatusKnown(m) \/ NoSlot(m) \/ LookupTimeout(m) \/ LookupEnds(m)
        BY <2>0, <2>2 DEF StatusKnown, NoSlot, LookupTimeout, LookupEnds, Go, Verdict, Punished
    <2>3. CASE Retry(m) \/ Punish(m) \/ StartLookup(m) \/ ReadClock(m) \/ LoadEntry(m)
        BY <2>0, <2>3 DEF Retry, Punish, StartLookup, ReadClock, LoadEntry, Go, Verdict, Punished
    <2> QED BY <2>1, <2>2, <2>3 DEF Walk
<1>3. CASE \A k \in Message : Verdict(k)' = Verdict(k)
    BY <1>1, <1>3, SameVerdicts DEF Counter!vars, Verdicts
<1>4. CASE /\ Verdict(m) = "none" /\ Verdict(m)' = "ignored"
           /\ \A k \in Message \ {m} : Verdict(k)' = Verdict(k)
    <2>1. Verdicts[m] = "none" /\ Verdicts' = [Verdicts EXCEPT ![m] = "ignored"]
        BY <1>4, OneVerdict
    <2>2. Counter!Ignore(m)
        BY <1>1, <2>1 DEF Counter!Ignore, Counter!Judge, Verdicts
    <2> QED BY <2>2 DEF Counter!Next
<1> QED BY <1>2, <1>3, <1>4

LEMMA StoreIsCount ==
    ASSUME Inv, NEW m \in Message, Store(m)
    PROVE  Counter!Count(m)
<1>1. /\ pc \in [Message -> PC] /\ told[m] \in Limits \ {0} /\ pc[m] = "swap"
      /\ now' = now
    BY DEF Inv, TypeOK, FloodInvariant, EntryAgrees, Store, Go
<1>2. entry'.at \in 0..now
    BY DEF Store, Counted, Reset, Inv, TypeOK, FloodInvariant, TimesAgree
<1>3. CASE ~Floods(m)
    <2>1. pc' = [pc EXCEPT ![m] = "passed"] /\ entry'.ids = Append(entry.ids, m)
        BY <1>3, StoreCounts DEF Store, Go
    <2>2. /\ Verdict(m) = "none" /\ Verdict(m)' = "passes"
          /\ \A k \in Message \ {m} : Verdict(k)' = Verdict(k)
        BY <1>1, <2>1 DEF Verdict, Punished
    <2>3. Counter!Judge(m, "passes")
        BY <1>1, <2>2, OneVerdict DEF Counter!Judge, Verdicts
    <2>4. Len(entry.ids) < told[m]
        <3>1. Len(entry.ids) \in Nat /\ told[m] \in Nat
            BY <1>1, StoreBase, FloodAssumption
        <3>2. ~(Len(entry.ids) >= told[m])
            BY <1>3, StoreCounts
        <3> QED BY <3>1, <3>2
    <2>5. Counter!CountIn(entry.ids, m, told[m])
        BY <2>1, <2>3, <2>4 DEF Counter!CountIn, Counter!Pass
    <2> QED BY <1>1, <1>2, <2>5 DEF Counter!Count
<1>4. CASE Floods(m)
    <2>1. pc' = [pc EXCEPT ![m] = "punish"] /\ entry'.ids = <<>>
        BY <1>4 DEF Store, Go, Reset
    <2>2. /\ Verdict(m) = "none" /\ Verdict(m)' = "punished"
          /\ \A k \in Message \ {m} : Verdict(k)' = Verdict(k)
        BY <1>1, <2>1 DEF Verdict, Punished
    <2>3. Counter!Judge(m, "punished")
        BY <1>1, <2>2, OneVerdict DEF Counter!Judge, Verdicts
    <2>4. Len(entry.ids) >= told[m]
        BY <1>4, StoreCounts
    <2>5. Counter!CountIn(entry.ids, m, told[m])
        BY <2>1, <2>3, <2>4 DEF Counter!CountIn, Counter!Punish
    <2> QED BY <1>1, <1>2, <2>5 DEF Counter!Count
<1> QED BY <1>3, <1>4

LEMMA RemoteCounts ==
    ASSUME Inv, Remote
    PROVE  Counter!Next \/ UNCHANGED Counter!vars
<1>1. entry' = entry /\ pc' = pc /\ (now' = now \/ now' = now + 1)
    BY DEF Remote, Tick, CleanerFinds, DeleteSettingsCache, SetFlood, vars, shared
<1>2. Verdicts' = Verdicts
    BY <1>1, SameVerdicts DEF Verdict, Punished
<1>3. CASE now' = now
    BY <1>1, <1>2, <1>3 DEF Counter!vars, Verdicts
<1>4. CASE now' = now + 1
    BY <1>1, <1>2, <1>4 DEF Counter!Next, Counter!Tick, Verdicts
<1> QED BY <1>1, <1>3, <1>4

LEMMA DeleteForgets ==
    ASSUME Inv, CleanerDeletes
    PROVE  Counter!Next \/ UNCHANGED Counter!vars
<1>1. now' = now /\ pc' = pc /\ (entry' = entry \/ (entry' = NoEntry /\ entry.ptr = cleaner.found.ptr))
    BY DEF CleanerDeletes
<1>2. Verdicts' = Verdicts
    BY <1>1, SameVerdicts DEF Verdict, Punished
<1>3. CASE entry' = entry
    BY <1>1, <1>2, <1>3 DEF Counter!vars, Verdicts
<1>4. CASE entry' = NoEntry /\ entry.ptr = cleaner.found.ptr
    <2>1. cleaner.found = entry /\ now > entry.at + Retention
        BY <1>4 DEF Inv, FloodInvariant, PointersAgree, PointsTo, TimesAgree, CleanerDeletes
    <2>2. now > entry.at + Window
        BY <2>1, FloodAssumption DEF Inv, TypeOK, Entry
    <2>3. entry'.ids = <<>> /\ entry'.at = 0
        BY <1>4 DEF NoEntry
    <2> QED BY <1>1, <1>2, <2>2, <2>3 DEF Counter!Next, Counter!Forget, Counter!Pause, Verdicts
<1> QED BY <1>1, <1>3, <1>4

\* Goroutines and cleaner together count messages as if one by one, each once, and
\* forget a burst only after a quiet minute (updateFloodWithSettings and cleanupOnce).
THEOREM Refinement == Spec => ImplementsCounter
<1>1. Init => Counter!Init
    BY InitCounts
<1>2. TypeOK /\ FloodInvariant /\ [Next]_vars => [Counter!Next]_(Counter!vars)
    <2> SUFFICES ASSUME Inv, [Next]_vars PROVE Counter!Next \/ UNCHANGED Counter!vars
        BY DEF Inv
    <2>1. ASSUME NEW m \in Message, Store(m) PROVE Counter!Next
        BY <2>1, StoreIsCount DEF Counter!Next
    <2> QED BY <2>1, OtherSteps, RemoteCounts, DeleteForgets, WalkCounts DEF Remote
<1> QED BY <1>1, <1>2, FloodCorrect, PTL DEF Spec, ImplementsCounter, Counter!Spec
================================================================================
