------------------------------ MODULE CacheLoader ------------------------------
(* alita/db/cache/loader.go for one key: readers share a database load, writers   *)
(* of the row invalidate the key, and a load that began before an invalidation    *)
(* must not leave what it read in Redis.  Keys do not share state (loadsMu        *)
(* protects single statements), so one key stands for all.                        *)
(*                                                                                *)
(* A value is the number of writes the row had seen when it was read.             *)
EXTENDS Naturals, FiniteSets

CONSTANTS Reader,    \* goroutines in GetFromCacheOrLoad
          Writer,    \* goroutines that write the row and then call DeleteCache
          LastLoad,  \* bound on the loads that are started
          LastWrite, \* bound on the writes
          Faults     \* bound on calls to Redis and the database that fail or take too long;
                     \* the retry of one that failed may fail as well

ASSUME LoaderAssumption == /\ LastLoad \in Nat /\ LastWrite \in Nat /\ Faults \in Nat
                           /\ IsFiniteSet(Reader)

VARIABLES version,   \* the row in the database
          settled,   \* history: the newest write whose DeleteCache has returned
          cached,    \* the key in Redis
          gen,       \* cacheGenerations[key]
          current,   \* loads[key], 0 if there is none
          nextLoad,
          load,      \* each cacheLoad with the goroutine that runs it
          reader, writer,
          faults,
          lost       \* history: how often nobody was left to delete a value: DeleteCache gave
                  \* up, or a Set that came too late was reported as failed

vars == <<version, settled, cached, gen, current, nextLoad, load, reader, writer, faults, lost>>

LoadId == 1..LastLoad
Nothing == LastWrite + 1     \* no key, no value yet, or an error
Value  == 0..Nothing

Deleting == {"unlist", "bump", "delete", "retry"}     \* the steps of DeleteCache

LoadRecord ==
    [pc : {"none", "generation", "query", "check", "set", "recheck", "finish", "done"} \cup Deleting,
     gen : Nat, value : Value, ctx : {"alive", "left", "late"}, waiters : Nat]
ReaderRecord == [pc : {"idle", "get", "join", "wait", "leave"}, call : 0..LastLoad, floor : Value, answer : Value]
WriterRecord == [pc : {"idle"} \cup Deleting, wrote : Value]

NoLoad     == [pc |-> "none", gen |-> 0, value |-> Nothing, ctx |-> "alive", waiters |-> 0]
NewLoad    == [pc |-> "generation", gen |-> 0, value |-> Nothing, ctx |-> "alive", waiters |-> 1]
IdleReader == [pc |-> "idle", call |-> 0, floor |-> 0, answer |-> Nothing]
Asking     == [pc |-> "get", call |-> 0, floor |-> settled, answer |-> Nothing]
IdleWriter == [pc |-> "idle", wrote |-> 0]

TypeOK == /\ version \in 0..LastWrite /\ settled \in 0..LastWrite /\ cached \in Value
          /\ gen \in Nat /\ current \in 0..LastLoad /\ nextLoad \in 1..(LastLoad + 1)
          /\ load \in [LoadId -> LoadRecord]
          /\ reader \in [Reader -> ReaderRecord]
          /\ writer \in [Writer -> WriterRecord]
          /\ faults \in Nat /\ lost \in Nat

Init == /\ version = 0 /\ settled = 0 /\ cached = Nothing
        /\ gen = 0 /\ current = 0 /\ nextLoad = 1
        /\ load = [l \in LoadId |-> NoLoad]
        /\ reader = [r \in Reader |-> IdleReader]
        /\ writer = [w \in Writer |-> IdleWriter]
        /\ faults = Faults /\ lost = 0

Fault == faults > 0 /\ faults' = faults - 1

--------------------------------------------------------------------------------
(* GetFromCacheOrLoad *)

StartRead(r) ==
    /\ reader[r].pc = "idle"
    /\ reader' = [reader EXCEPT ![r] = Asking]
    /\ UNCHANGED <<version, settled, cached, gen, current, nextLoad, load, writer, faults, lost>>

Hit(r) ==
    /\ reader[r].pc = "get" /\ cached # Nothing
    /\ reader' = [reader EXCEPT ![r] = IdleReader]
    /\ UNCHANGED <<version, settled, cached, gen, current, nextLoad, load, writer, faults, lost>>

\* No such key, or Redis did not answer within five seconds.
Miss(r) ==
    /\ reader[r].pc = "get"
    /\ (cached = Nothing /\ UNCHANGED faults) \/ Fault
    /\ reader' = [reader EXCEPT ![r].pc = "join"]
    /\ UNCHANGED <<version, settled, cached, gen, current, nextLoad, load, writer, lost>>

JoinLoad(r) ==
    /\ reader[r].pc = "join" /\ current # 0
    /\ reader' = [reader EXCEPT ![r].pc = "wait", ![r].call = current]
    /\ load' = [load EXCEPT ![current].waiters = @ + 1]
    /\ UNCHANGED <<version, settled, cached, gen, current, nextLoad, writer, faults, lost>>

StartLoad(r) ==
    /\ reader[r].pc = "join" /\ current = 0 /\ nextLoad \in LoadId
    /\ reader' = [reader EXCEPT ![r].pc = "wait", ![r].call = nextLoad]
    /\ load' = [load EXCEPT ![nextLoad] = NewLoad]
    /\ current' = nextLoad
    /\ nextLoad' = nextLoad + 1
    /\ UNCHANGED <<version, settled, cached, gen, writer, faults, lost>>

Answered(r) ==
    /\ reader[r].pc = "wait" /\ load[reader[r].call].pc = "done"
    /\ reader' = [reader EXCEPT ![r].pc = "leave",
                                ![r].answer = load[reader[r].call].value]
    /\ UNCHANGED <<version, settled, cached, gen, current, nextLoad, load, writer, faults, lost>>

\* The caller's context ends, or its 30 seconds are over.
GiveUp(r) ==
    /\ reader[r].pc = "wait"
    /\ reader' = [reader EXCEPT ![r].pc = "leave"]
    /\ UNCHANGED <<version, settled, cached, gen, current, nextLoad, load, writer, faults, lost>>

LeaveListed(r) ==
    LET c == reader[r].call IN
    /\ reader[r].pc = "leave"
    /\ load' = [load EXCEPT ![c].waiters = @ - 1,
                            ![c].ctx = IF load[c].waiters = 1 /\ @ = "alive" THEN "left" ELSE @]
    /\ reader' = [reader EXCEPT ![r] = IdleReader]
    /\ UNCHANGED <<version, settled, cached, gen, current, nextLoad, writer, faults, lost>>

\* The last waiter cancels the load, and nobody can join it any more.
LeaveLoad(r) ==
    LET c == reader[r].call IN
    /\ reader[r].pc = "leave"
    /\ load' = [load EXCEPT ![c].waiters = @ - 1,
                            ![c].ctx = IF load[c].waiters = 1 /\ @ = "alive" THEN "left" ELSE @]
    /\ current' = IF load[c].waiters = 1 /\ current = c THEN 0 ELSE current
    /\ reader' = [reader EXCEPT ![r] = IdleReader]
    /\ UNCHANGED <<version, settled, cached, gen, nextLoad, writer, faults, lost>>

--------------------------------------------------------------------------------
(* runCacheLoader, and the goroutine around it *)

Go(l, from, to) == load[l].pc = from /\ load' = [load EXCEPT ![l].pc = to]

ReadGeneration(l) ==
    /\ load[l].pc = "generation"
    /\ load' = [load EXCEPT ![l].pc = "query", ![l].gen = gen]
    /\ UNCHANGED <<version, settled, cached, gen, current, nextLoad, reader, writer, faults, lost>>

QueryPanics(l) ==
    /\ load[l].pc = "query"
    /\ \/ load' = [load EXCEPT ![l].pc = "check", ![l].value = version] /\ UNCHANGED faults
       \/ /\ (load[l].ctx # "alive" /\ UNCHANGED faults) \/ Fault
          /\ load' = [load EXCEPT ![l].pc = "none"]
    /\ UNCHANGED <<version, settled, cached, gen, current, nextLoad, reader, writer, lost>>

\* The loader answers; it fails, or panics; or its context has ended and it notices.
Query(l) ==
    /\ load[l].pc = "query"
    /\ \/ load' = [load EXCEPT ![l].pc = "check", ![l].value = version] /\ UNCHANGED faults
       \/ /\ (load[l].ctx # "alive" /\ UNCHANGED faults) \/ Fault
          /\ Go(l, "query", "finish")
    /\ UNCHANGED <<version, settled, cached, gen, current, nextLoad, reader, writer, lost>>

CheckGeneration(l) ==
    /\ \/ load[l].ctx = "alive" /\ load[l].gen = gen /\ Go(l, "check", "set")
       \/ load[l].ctx = "alive" /\ load[l].gen # gen /\ Go(l, "check", "finish")
       \/ /\ load[l].pc = "check" /\ load[l].ctx # "alive"
          /\ load' = [load EXCEPT ![l].pc = "finish", ![l].value = Nothing]
    /\ UNCHANGED <<version, settled, cached, gen, current, nextLoad, reader, writer, faults, lost>>

\* The Set returns an error: Redis refused, the context ended before it was asked, or
\* the value is stored and the answer did not come.  The generation is not looked at
\* again, and if it has changed nobody will delete the value.
SetFails(l) ==
    /\ Go(l, "set", "finish")
    /\ Fault \/ (load[l].ctx # "alive" /\ UNCHANGED faults)
    /\ \/ UNCHANGED <<cached, lost>>
       \/ /\ cached' = load[l].value
          /\ lost' = IF load[l].gen = gen THEN lost ELSE lost + 1

SetOnly(l) ==
    /\ \/ Go(l, "set", "finish") /\ cached' = load[l].value /\ UNCHANGED <<faults, lost>>
       \/ SetFails(l)
    /\ UNCHANGED <<version, settled, gen, current, nextLoad, reader, writer>>

Set(l) ==
    /\ \/ Go(l, "set", "recheck") /\ cached' = load[l].value /\ UNCHANGED <<faults, lost>>
       \/ SetFails(l)
    /\ UNCHANGED <<version, settled, gen, current, nextLoad, reader, writer>>

RecheckGeneration(l) ==
    /\ \/ load[l].gen = gen /\ Go(l, "recheck", "finish")
       \/ load[l].gen # gen /\ Go(l, "recheck", "unlist")
    /\ UNCHANGED <<version, settled, cached, gen, current, nextLoad, reader, writer, faults, lost>>

FinishLoad(l) ==
    /\ Go(l, "finish", "done")
    /\ current' = IF current = l THEN 0 ELSE current
    /\ UNCHANGED <<version, settled, cached, gen, nextLoad, reader, writer, faults, lost>>

\* The 30 seconds of the load itself are over.
LoadDeadline(l) ==
    /\ load[l].ctx = "alive" /\ load[l].pc \notin {"none", "done"} /\ Fault
    /\ load' = [load EXCEPT ![l].ctx = "late"]
    /\ UNCHANGED <<version, settled, cached, gen, current, nextLoad, reader, writer, lost>>

--------------------------------------------------------------------------------
(* DeleteCache, called by a load that was overtaken or by a writer *)

LeaveListedLoad(from, to) ==
    from = "unlist" /\ to = "bump" /\ UNCHANGED <<current, gen, cached, faults, lost>>
\* What each step does, from any pc to the next.
UnlistLoad(from, to) == from = "unlist" /\ to = "bump" /\ current' = 0 /\ UNCHANGED <<gen, cached, faults, lost>>
BumpGeneration(from, to) ==
    from = "bump" /\ to = "delete" /\ gen' = gen + 1 /\ UNCHANGED <<current, cached, faults, lost>>
\* An error is met by one retry, which fails for the same reason or deletes the key.
DeleteKey(from, to, after) ==
    /\ from \in {"delete", "retry"}
    /\ \/ to = after /\ cached' = Nothing /\ UNCHANGED <<faults, lost>>
       \/ from = "delete" /\ to = "retry" /\ Fault /\ UNCHANGED <<cached, lost>>
       \/ from = "retry" /\ to = after /\ lost' = lost + 1 /\ UNCHANGED <<cached, faults>>
    /\ UNCHANGED <<current, gen>>

DeleteCacheStep(from, to, after) ==
    UnlistLoad(from, to) \/ BumpGeneration(from, to) \/ DeleteKey(from, to, after)

LoadDeletes(l) ==
    /\ \E to \in {"bump", "delete", "retry", "finish"} :
          /\ DeleteCacheStep(load[l].pc, to, "finish")
          /\ load' = [load EXCEPT ![l].pc = to]
    /\ UNCHANGED <<version, settled, nextLoad, reader, writer>>

\* A repository function commits its write,
Write(w) ==
    /\ writer[w].pc = "idle" /\ version < LastWrite
    /\ version' = version + 1
    /\ writer' = [writer EXCEPT ![w] = [pc |-> "unlist", wrote |-> version + 1]]
    /\ UNCHANGED <<settled, cached, gen, current, nextLoad, load, reader, faults, lost>>

\* and calls DeleteCache before it returns.
WriterDeletes(w) ==
    /\ \E to \in {"bump", "delete", "retry", "idle"} :
          /\ DeleteCacheStep(writer[w].pc, to, "idle")
          /\ writer' = [writer EXCEPT ![w].pc = to]
          /\ settled' = IF to = "idle" /\ writer[w].wrote > settled THEN writer[w].wrote ELSE settled
    /\ UNCHANGED <<version, nextLoad, load, reader>>

\* The time to live of the key, or an eviction.
Expire == /\ cached # Nothing
          /\ cached' = Nothing
          /\ UNCHANGED <<version, settled, gen, current, nextLoad, load, reader, writer, faults, lost>>

--------------------------------------------------------------------------------
ReaderStep(r) == Hit(r) \/ Miss(r) \/ JoinLoad(r) \/ StartLoad(r) \/ Answered(r) \/ LeaveLoad(r)
LoadStep(l)   == \/ ReadGeneration(l) \/ Query(l) \/ CheckGeneration(l) \/ Set(l)
                 \/ RecheckGeneration(l) \/ LoadDeletes(l) \/ FinishLoad(l)

Next == \/ \E r \in Reader : StartRead(r) \/ GiveUp(r) \/ ReaderStep(r)
        \/ \E l \in LoadId : LoadDeadline(l) \/ LoadStep(l)
        \/ \E w \in Writer : Write(w) \/ WriterDeletes(w)
        \/ Expire

Spec == Init /\ [][Next]_vars

\* Goroutines run: database and Redis calls end, by their deadlines at the latest.
\* Nobody has to read, write or give up, and no key has to expire.
FairSpec == /\ Spec
            /\ \A r \in Reader : WF_vars(ReaderStep(r))
            /\ \A l \in LoadId : WF_vars(LoadStep(l))
            /\ \A w \in Writer : WF_vars(WriterDeletes(w))

--------------------------------------------------------------------------------
(* Properties *)

Stale == cached # Nothing /\ cached < version

Overtaken(l) == load[l].pc = "recheck" /\ load[l].gen # gen
Cleaning == \/ \E w \in Writer : writer[w].pc \in Deleting
            \/ \E l \in LoadId : load[l].pc \in Deleting \/ Overtaken(l)

\* Redis holds an old value only while somebody who will delete it is at work: the
\* writer itself, or the load that stored the value and has been overtaken
\* ("Invalidation prevents an older load from repopulating a stale value").  The code
\* gives this up in two cases, and in no other: both attempts of a DeleteCache failed, or
\* a Set that an invalidation had overtaken stored its value and returned an error.
StaleIsDoomed == Stale /\ lost = 0 => Cleaning

\* Whoever joins a load, however late, is not answered with a value from before a
\* write that was already settled when he asked ("detaches older pending loads").
LoadAnswersAreFresh ==
    \A r \in Reader : reader[r].answer # Nothing => reader[r].answer >= reader[r].floor

\* A load is cancelled for lack of interest only when nobody waits for it ("canceled
\* when its last waiting caller leaves").
WaitersKeepTheirLoad ==
    \A r \in Reader : reader[r].pc = "wait" => load[reader[r].call].ctx # "left"

\* An old value disappears from Redis without waiting for its time to live, but for the
\* two cases in which nobody is left to delete it.
StaleEnds == Stale ~> (~Stale \/ lost > 0)

\* Every caller is answered or has given up.
ReadsEnd == \A r \in Reader : reader[r].pc \in {"wait", "leave"} ~> reader[r].pc = "idle"

\* The inductive invariant behind the first two: a load whose generation is still the
\* key's can be out of date only with respect to a writer that has not come to bump it,
NotBumped == \E w \in Writer : writer[w].pc \in {"unlist", "bump"}
GenerationsAgree ==
    \A l \in LoadId :
        /\ load[l].gen <= gen
        /\ load[l].pc \in {"check", "set", "recheck"} /\ load[l].gen = gen /\ load[l].value < version => NotBumped
\* and the load that readers may join is at least as new as every write that has
\* passed its unlisting.
ListedLoadIsFresh ==
    /\ current # 0 => current < nextLoad
    /\ current # 0 /\ load[current].value # Nothing =>
          /\ load[current].value >= settled
          /\ \A w \in Writer : writer[w].pc \in {"bump", "delete", "retry"} => load[current].value >= writer[w].wrote
JoinedLoadsAreFresh ==
    \A r \in Reader : reader[r].pc = "wait" /\ load[reader[r].call].value # Nothing =>
                          load[reader[r].call].value >= reader[r].floor
\* The history numbers never run ahead of the database.
WritesAgree ==
    /\ settled <= version
    /\ \A r \in Reader : reader[r].floor <= settled
    /\ \A w \in Writer : writer[w].wrote <= version
UnstartedLoads == \A l \in LoadId : l >= nextLoad => load[l].pc = "none"
\* A load counts its waiters; one that was left has none and gets none.
Waiting(l) == {r \in Reader : reader[r].pc \in {"wait", "leave"} /\ reader[r].call = l}
WaitersCounted ==
    /\ \A l \in LoadId : load[l].waiters = Cardinality(Waiting(l))
    /\ \A l \in LoadId : load[l].ctx = "left" => current # l /\ Waiting(l) = {}
    /\ \A r \in Reader : reader[r].pc \in {"wait", "leave"} => reader[r].call \in 1..(nextLoad - 1)
LoaderInvariant == WritesAgree /\ StaleIsDoomed /\ LoadAnswersAreFresh /\ GenerationsAgree
                   /\ ListedLoadIsFresh /\ JoinedLoadsAreFresh /\ WaitersCounted /\ UnstartedLoads
================================================================================
