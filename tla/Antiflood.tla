------------------------------- MODULE Antiflood -------------------------------
(* alita/modules/antiflood.go for one user in one chat: every message is handled  *)
(* by a goroutine of its own, and all of them, and the cleaner, share one entry   *)
(* of syncHelperMap without a lock.  The look-up whether the user is an           *)
(* administrator holds one of a bounded number of slots.                          *)
EXTENDS Naturals, Sequences, FiniteSets

CONSTANTS Message,     \* the user's messages
          Limits,      \* the values antifloods.flood_limit takes; 0 is off
          Slots,       \* maxConcurrentAdminChecks
          Window,      \* the 60 seconds after which a burst is over
          Retention,   \* the 600 seconds after which the cleaner removes an entry
          Slack,       \* messages remembered beyond the limit (5)
          LastSent,    \* bound: the time at which the last message is received and counted
          LastTime,    \* bound on the clock
          Orders       \* bound on /setflood commands

ASSUME FloodAssumption == /\ Limits \subseteq Nat /\ 0 \in Limits
                          /\ IsFiniteSet(Message)
                          /\ Slots \in Nat /\ Slack \in Nat \ {0}
                          /\ Window \in Nat /\ Retention \in Nat /\ Window <= Retention
                          /\ LastSent \in Nat /\ LastTime \in Nat /\ Orders \in Nat

VARIABLES now,
          entry,      \* the user's *floodControl in syncHelperMap
          nextPtr,    \* the pointer the next floodControl gets
          limit,      \* antifloods.flood_limit
          seen,       \* what the settings cache answers for it
          orders,
          pc,         \* checkFlood of each message
          told,       \* the limit it has read
          time,       \* its currentTime
          old,        \* what it has loaded from syncHelperMap
          crc,        \* floodCrc.messageIDs of each message that is to be punished
          lookup,     \* the goroutine that asks whether the user is an administrator
          slots,      \* the length of adminCheckSemaphore
          cleaner     \* cleanupOnce: its time and the entry it holds

settings == <<limit, seen, orders>>
shared   == <<now, entry, nextPtr>>
lookups  == <<lookup, slots>>
locals   == <<told, time, old>>
vars == <<shared, settings, pc, locals, crc, lookups, cleaner>>

Entry   == [ptr : Nat, count : Nat, ids : Seq(Message), at : Nat]
NoEntry == [ptr |-> 0, count |-> 0, ids |-> <<>>, at |-> 0]
IdleCleaner == [pc |-> "idle", found |-> NoEntry]

PC == {"unsent", "exempt", "wait", "clock", "load", "swap", "punish", "ignored", "passed", "punished"}
Over == {"ignored", "passed", "punished"}

TypeOK == /\ now \in Nat /\ entry \in Entry /\ nextPtr \in Nat
          /\ limit \in Limits /\ seen \in Limits /\ orders \in Nat
          /\ pc \in [Message -> PC]
          /\ told \in [Message -> Limits] /\ time \in [Message -> Nat]
          /\ old \in [Message -> Entry] /\ crc \in [Message -> Seq(Message)]
          /\ lookup \in [Message -> {"none", "runs", "ended"}] /\ slots \in 0..Slots
          /\ cleaner \in [pc : {"idle", "delete"}, found : Entry]

Init == /\ now = 0 /\ entry = NoEntry /\ nextPtr = 1
        /\ limit \in Limits /\ seen = limit /\ orders = Orders
        /\ pc = [m \in Message |-> "unsent"]
        /\ told = [m \in Message |-> 0] /\ time = [m \in Message |-> 0]
        /\ old = [m \in Message |-> NoEntry] /\ crc = [m \in Message |-> <<>>]
        /\ lookup = [m \in Message |-> "none"] /\ slots = 0
        /\ cleaner = IdleCleaner

Go(m, from, to) == pc[m] = from /\ pc' = [pc EXCEPT ![m] = to]

\* The bounds: what has been received by LastSent reads the clock before it goes on,
\* and the cleaner has the time up to LastTime.
Tick == /\ now < LastTime
        /\ now = LastSent => \A m \in Message : pc[m] \notin {"exempt", "wait", "clock"}
        /\ now' = now + 1
        /\ UNCHANGED <<entry, nextPtr, settings, pc, locals, crc, lookups, cleaner>>

--------------------------------------------------------------------------------
(* The settings: /setflood *)

\* SetFloodContext compares with the cached row before it writes.
SetFlood(n) == /\ orders > 0 /\ seen # n
               /\ limit' = n /\ orders' = orders - 1
               /\ UNCHANGED <<shared, seen, pc, locals, crc, lookups, cleaner>>

DeleteSettingsCache == /\ seen # limit
                       /\ seen' = limit
                       /\ UNCHANGED <<shared, limit, orders, pc, locals, crc, lookups, cleaner>>

--------------------------------------------------------------------------------
(* checkFlood up to the counter *)

Receive(m) ==
    /\ now <= LastSent
    /\ \E n \in {limit, seen} :
          /\ Go(m, "unsent", IF n = 0 THEN "ignored" ELSE "exempt")
          /\ told' = [told EXCEPT ![m] = n]
    /\ UNCHANGED <<shared, settings, time, old, crc, lookups, cleaner>>

\* The cached administrator list knows the user; the approval is looked up.
StatusKnown(m) ==
    /\ Go(m, "exempt", "ignored") \/ Go(m, "exempt", "clock")
    /\ UNCHANGED <<shared, settings, locals, crc, lookups, cleaner>>

StartLookup(m) ==
    /\ slots < Slots /\ slots' = slots + 1
    /\ Go(m, "exempt", "wait")
    /\ lookup' = [lookup EXCEPT ![m] = "runs"]
    /\ UNCHANGED <<shared, settings, locals, crc, cleaner>>

\* With no slot free the user passes for an administrator.
NoSlot(m) ==
    /\ slots = Slots /\ Go(m, "exempt", "ignored")
    /\ UNCHANGED <<shared, settings, locals, crc, lookups, cleaner>>

\* Telegram answers, or the lookup panics; the answer may come too late.
LookupEnds(m) ==
    /\ lookup[m] = "runs" /\ lookup' = [lookup EXCEPT ![m] = "ended"]
    /\ slots' = slots - 1
    /\ Go(m, "wait", "ignored") \/ Go(m, "wait", "clock") \/ UNCHANGED pc
    /\ UNCHANGED <<shared, settings, locals, crc, cleaner>>

TimeoutWaits(m) ==
    /\ lookup[m] = "ended" /\ Go(m, "wait", "ignored")
    /\ UNCHANGED <<shared, settings, locals, crc, lookups, cleaner>>

TimeoutReleases(m) ==
    /\ Go(m, "wait", "ignored")
    /\ slots' = IF lookup[m] = "runs" THEN slots - 1 ELSE slots
    /\ UNCHANGED <<shared, settings, locals, crc, lookup, cleaner>>

\* After three seconds; the lookup keeps its slot until it ends.
LookupTimeout(m) ==
    /\ Go(m, "wait", "ignored")
    /\ UNCHANGED <<shared, settings, locals, crc, lookups, cleaner>>

--------------------------------------------------------------------------------
(* updateFloodWithSettings *)

ReadClock(m) == /\ Go(m, "clock", "load")
                /\ time' = [time EXCEPT ![m] = now]
                /\ UNCHANGED <<shared, settings, told, old, crc, lookups, cleaner>>

LoadEntry(m) == /\ Go(m, "load", "swap")
                /\ old' = [old EXCEPT ![m] = entry]
                /\ UNCHANGED <<shared, settings, told, time, crc, lookups, cleaner>>

Stale(m) == time[m] > old[m].at + Window

\* cur, before this message: a zero userId (count 0) and a stale entry start afresh.
Base(m) == IF old[m].count = 0 \/ Stale(m) THEN NoEntry ELSE old[m]

Latest(ids, n) == IF Len(ids) > n THEN SubSeq(ids, Len(ids) - n + 1, Len(ids)) ELSE ids

Counted(m) == [ptr |-> nextPtr, count |-> Base(m).count + 1,
               ids |-> Latest(Append(Base(m).ids, m), told[m] + Slack), at |-> time[m]]
Reset(m)   == [ptr |-> nextPtr, count |-> 0, ids |-> <<>>, at |-> time[m]]
Floods(m)  == Base(m).count + 1 > told[m]

\* loaded: a stale entry counts as none.
Loaded(m) == old[m].ptr # 0 /\ ~Stale(m)

\* CompareAndSwap of the loaded pointer, or LoadOrStore when nothing was loaded.
Swappable(m) == IF Loaded(m) THEN entry.ptr = old[m].ptr ELSE entry.ptr = 0

StoreUncompared(m) ==
    /\ \/ Go(m, "swap", "passed") /\ ~Floods(m) /\ entry' = Counted(m) /\ UNCHANGED crc
       \/ /\ Go(m, "swap", "punish") /\ Floods(m) /\ entry' = Reset(m)
          /\ crc' = [crc EXCEPT ![m] = Counted(m).ids]
    /\ nextPtr' = nextPtr + 1
    /\ UNCHANGED <<now, settings, locals, lookups, cleaner>>

Store(m) ==
    /\ Swappable(m)
    /\ \/ Go(m, "swap", "passed") /\ ~Floods(m) /\ entry' = Counted(m) /\ UNCHANGED crc
       \/ /\ Go(m, "swap", "punish") /\ Floods(m) /\ entry' = Reset(m)
          /\ crc' = [crc EXCEPT ![m] = Counted(m).ids]
    /\ nextPtr' = nextPtr + 1
    /\ UNCHANGED <<now, settings, locals, lookups, cleaner>>

Retry(m) ==
    /\ ~Swappable(m) /\ Go(m, "swap", "load")
    /\ UNCHANGED <<shared, settings, locals, crc, lookups, cleaner>>

\* The rest of checkFlood: without the right to restrict nothing more happens, else
\* the burst is deleted and the user muted, kicked or banned.
Punish(m) ==
    /\ Go(m, "punish", "punished")
    /\ UNCHANGED <<shared, settings, locals, crc, lookups, cleaner>>

--------------------------------------------------------------------------------
(* cleanupOnce, for this entry *)

CleanerFinds ==
    /\ cleaner.pc = "idle" /\ entry.ptr # 0 /\ now > entry.at + Retention
    /\ cleaner' = [pc |-> "delete", found |-> entry]
    /\ UNCHANGED <<shared, settings, pc, locals, crc, lookups>>

DeleteUncompared ==
    /\ cleaner.pc = "delete"
    /\ entry' = NoEntry
    /\ cleaner' = IdleCleaner
    /\ UNCHANGED <<now, nextPtr, settings, pc, locals, crc, lookups>>

CleanerDeletes ==
    /\ cleaner.pc = "delete"
    /\ entry' = IF entry.ptr = cleaner.found.ptr THEN NoEntry ELSE entry
    /\ cleaner' = IdleCleaner
    /\ UNCHANGED <<now, nextPtr, settings, pc, locals, crc, lookups>>

--------------------------------------------------------------------------------
Handle(m) == \/ StatusKnown(m) \/ StartLookup(m) \/ NoSlot(m) \/ LookupTimeout(m)
             \/ ReadClock(m) \/ LoadEntry(m) \/ Store(m) \/ Retry(m) \/ Punish(m)

Next == \/ Tick \/ CleanerFinds \/ CleanerDeletes \/ DeleteSettingsCache
        \/ \E n \in Limits : SetFlood(n)
        \/ \E m \in Message : Receive(m) \/ Handle(m) \/ LookupEnds(m)

Spec == Init /\ [][Next]_vars

\* Goroutines run, time passes, and the cleaner's ticker goes off; a lookup has no
\* deadline of its own, and nobody has to write or to give a command.
FairSpec == /\ Spec
            /\ WF_vars(Tick) /\ WF_vars(CleanerFinds) /\ WF_vars(CleanerDeletes)
            /\ \A m \in Message : WF_vars(Handle(m))

--------------------------------------------------------------------------------
(* Properties *)

\* However goroutines and cleaner interleave, messages are counted as if one by one.
Punished(m) == pc[m] \in {"punish", "punished"}
Verdict(m) == IF Punished(m) THEN "punished"
              ELSE IF pc[m] = "passed" THEN "passes"
              ELSE IF pc[m] = "ignored" THEN "ignored" ELSE "none"
Counter == INSTANCE FloodCounter
           WITH burst <- entry.ids, last <- entry.at, clock <- now,
                verdict <- [m \in Message |-> Verdict(m)]
ImplementsCounter == Counter!Spec

\* A user is punished only for more messages than the limit, and no message is held
\* against them twice: neither in two bursts nor in a burst and in the counter.
Elements(s) == {s[i] : i \in DOMAIN s}
Distinct(s) == \A i, j \in DOMAIN s : s[i] = s[j] => i = j
PunishmentIsEarned ==
    \A m \in Message : Punished(m) =>
        /\ Len(crc[m]) > told[m] /\ Distinct(crc[m])
        /\ Elements(crc[m]) \cap Elements(entry.ids) = {}
        /\ \A k \in Message : Punished(k) /\ k # m => Elements(crc[m]) \cap Elements(crc[k]) = {}

\* "Release the slot when the real work finishes, not when the caller times out": at
\* no time more lookups run than there are slots.
Running == {m \in Message : lookup[m] = "runs"}
LookupsAreBounded == Cardinality(Running) <= Slots

\* Every message is dealt with in the end.
MessagesEnd == \A m \in Message : pc[m] # "unsent" ~> pc[m] \in Over

\* "Lock-free RMW on *floodControl": a goroutine goes around the loop again only if
\* another one, or the cleaner, has changed the entry since it loaded it.
RetriesOnlyWhenOvertaken == [][\A m \in Message : pc[m] = "swap" /\ pc'[m] = "load" => entry # old[m]]_vars

\* The inductive invariant of the proofs.  A pointer stands for what it points to, so
\* that a successful swap replaces exactly the entry that was counted on;
PointsTo(p, e) == /\ p.ptr < nextPtr
                  /\ p.ptr = 0 => p = NoEntry
                  /\ p.ptr = e.ptr => p = e
PointersAgree == /\ PointsTo(entry, entry)
                 /\ \A m \in Message : PointsTo(old[m], entry)
                 /\ PointsTo(cleaner.found, entry)
\* no clock runs ahead of the real one;
TimesAgree == /\ entry.at <= now
              /\ \A m \in Message : time[m] <= now
              /\ cleaner.pc = "delete" => now > cleaner.found.at + Retention
\* messages in the counter have passed under a limit, those in a burst are the
\* punished message and others that had passed;
EntryAgrees ==
    /\ Len(entry.ids) = entry.count /\ Distinct(entry.ids)
    /\ \A i \in DOMAIN entry.ids : pc[entry.ids[i]] = "passed"
    /\ \A m \in Message : pc[m] \notin {"unsent", "ignored"} => told[m] # 0
BurstsAgree ==
    \A m \in Message : Punished(m) => \A i \in DOMAIN crc[m] : crc[m][i] = m \/ pc[crc[m][i]] = "passed"
\* every lookup that runs holds one slot.
SlotsAgree == /\ slots = Cardinality(Running)
              /\ \A m \in Message : pc[m] \in {"unsent", "exempt"} => lookup[m] = "none"
FloodInvariant == PointersAgree /\ TimesAgree /\ EntryAgrees /\ BurstsAgree /\ SlotsAgree /\ PunishmentIsEarned
================================================================================
