------------------------------ MODULE CacheProofs ------------------------------
(* What the caches guarantee for any number of goroutines, of loads and of calls  *)
(* that fail: the inductive invariants of CacheLoader (GetFromCacheOrLoad and     *)
(* DeleteCache) and of AdminCache (LoadAdminCache and ClearAdminCache), each with *)
(* type correctness first.                                                        *)
EXTENDS CacheLoader, AdminCache, FiniteSetTheorems, TLAPS

USE DEF LoadId, Value, Nothing, Deleting

\* A load's record stays one when its goroutine moves on.
LEMMA GoTypes ==
    ASSUME TypeOK, NEW l \in LoadId, NEW from,
           NEW to \in {"generation", "query", "check", "set", "recheck", "finish", "done"} \cup Deleting,
           Go(l, from, to)
    PROVE  load' \in [LoadId -> LoadRecord]
<1>1. load[l] \in LoadRecord /\ load' = [load EXCEPT ![l] = [load[l] EXCEPT !.pc = to]]
  BY DEF Go, TypeOK
<1>2. [load[l] EXCEPT !.pc = to] \in LoadRecord
  BY <1>1 DEF LoadRecord
<1> QED BY <1>1, <1>2 DEF TypeOK

\* The initial state is well-typed.
LEMMA TypeInit == Init => TypeOK
BY LoaderAssumption
DEF Init, TypeOK, LoadRecord, NoLoad, ReaderRecord, IdleReader, WriterRecord, IdleWriter

\* Using up a fault leaves a natural number of them.
LEMMA FaultTypes == ASSUME faults \in Nat, Fault \/ UNCHANGED faults PROVE faults' \in Nat
BY DEF Fault

\* The readers keep the types, given that no load loses a waiter it does not have.
LEMMA ReaderTypes ==
    ASSUME TypeOK, WaitersCounted,
           NEW r \in Reader, StartRead(r) \/ GiveUp(r) \/ ReaderStep(r)
    PROVE  TypeOK'
<1>1. ASSUME StartRead(r) PROVE TypeOK'
  <2>1. Asking \in ReaderRecord
    BY LoaderAssumption DEF TypeOK, ReaderRecord, Asking
  <2> QED BY <1>1, <2>1 DEF StartRead, TypeOK
<1>2. ASSUME GiveUp(r) PROVE TypeOK'
  BY <1>2 DEF GiveUp, TypeOK, ReaderRecord
<1>3. ASSUME Hit(r) PROVE TypeOK'
  BY <1>3, LoaderAssumption DEF Hit, TypeOK, ReaderRecord, IdleReader
<1>4. ASSUME Miss(r) PROVE TypeOK'
  BY <1>4, FaultTypes DEF Miss, TypeOK, ReaderRecord
<1>5. ASSUME JoinLoad(r) PROVE TypeOK'
  <2>1. current \in LoadId /\ load[current] \in LoadRecord
    BY <1>5 DEF JoinLoad, TypeOK
  <2>2. load' \in [LoadId -> LoadRecord]
    BY <1>5, <2>1 DEF JoinLoad, TypeOK, LoadRecord
  <2>3. reader' \in [Reader -> ReaderRecord]
    BY <1>5, <2>1 DEF JoinLoad, TypeOK, ReaderRecord
  <2> QED BY <1>5, <2>2, <2>3 DEF JoinLoad, TypeOK
<1>6. ASSUME StartLoad(r) PROVE TypeOK'
  <2>1. NewLoad \in LoadRecord
    BY LoaderAssumption DEF NewLoad, LoadRecord
  <2>2. nextLoad \in LoadId /\ nextLoad' = nextLoad + 1 /\ current' = nextLoad
    BY <1>6 DEF StartLoad
  <2>3. nextLoad' \in 1..(LastLoad + 1) /\ current' \in 0..LastLoad
    BY <2>2, LoaderAssumption
  <2>4. load' \in [LoadId -> LoadRecord]
    BY <1>6, <2>1 DEF StartLoad, TypeOK
  <2>5. reader' \in [Reader -> ReaderRecord]
    <3>1. reader' = [reader EXCEPT ![r].pc = "wait", ![r].call = nextLoad]
      BY <1>6 DEF StartLoad
    <3>2. nextLoad \in 0..LastLoad
      BY <2>2, LoaderAssumption
    <3> QED BY <3>1, <3>2 DEF TypeOK, ReaderRecord
  <2> QED BY <1>6, <2>3, <2>4, <2>5 DEF StartLoad, TypeOK
<1>7. ASSUME Answered(r) PROVE TypeOK'
  <2>1. reader[r].call \in 1..(nextLoad - 1)
    BY <1>7 DEF Answered, WaitersCounted
  <2>2. reader[r].call \in LoadId
    BY <2>1, LoaderAssumption DEF TypeOK
  <2>3. load[reader[r].call].value \in Value /\ Nothing \in Value
    BY <2>2, LoaderAssumption DEF TypeOK, LoadRecord
  <2>4. PICK v \in Value : reader' = [reader EXCEPT ![r].pc = "leave", ![r].answer = v]
    BY <1>7, <2>3 DEF Answered
  <2>5. reader' \in [Reader -> ReaderRecord]
    BY <2>4 DEF TypeOK, ReaderRecord
  <2> QED BY <1>7, <2>5 DEF Answered, TypeOK
<1>8. ASSUME LeaveLoad(r) PROVE TypeOK'
  <2> DEFINE c == reader[r].call
  <2>1. c \in LoadId
    BY <1>8, LoaderAssumption DEF LeaveLoad, WaitersCounted, TypeOK
  <2>2. load[c].waiters = Cardinality(Waiting(c)) /\ r \in Waiting(c) /\ Waiting(c) \subseteq Reader
    BY <1>8, <2>1 DEF LeaveLoad, WaitersCounted, Waiting
  <2>3. load[c].waiters - 1 \in Nat
    <3>1. IsFiniteSet(Waiting(c))
      BY <2>2, LoaderAssumption, FS_Subset
    <3>2. Cardinality(Waiting(c)) \in Nat /\ Cardinality(Waiting(c)) # 0
      BY <3>1, <2>2, FS_CardinalityType, FS_EmptySet
    <3> QED BY <3>2, <2>2
  <2>4. load' \in [LoadId -> LoadRecord]
    <3>1. PICK x \in {"alive", "left", "late"} :
            load' = [load EXCEPT ![c] = [load[c] EXCEPT !.waiters = load[c].waiters - 1, !.ctx = x]]
      BY <1>8, <2>1 DEF LeaveLoad, TypeOK, LoadRecord
    <3>2. [load[c] EXCEPT !.waiters = load[c].waiters - 1, !.ctx = x] \in LoadRecord
      <4> DEFINE n == load[c].waiters - 1
      <4>1. load[c] \in LoadRecord /\ n \in Nat
        BY <2>1, <2>3 DEF TypeOK
      <4> HIDE DEF n, c
      <4>2. [load[c] EXCEPT !.waiters = n, !.ctx = x] \in LoadRecord
        BY <4>1 DEF LoadRecord
      <4> QED BY <4>2 DEF n
    <3> QED BY <2>1, <3>1, <3>2 DEF TypeOK
  <2>5. reader' \in [Reader -> ReaderRecord]
    <3>1. reader' = [reader EXCEPT ![r] = IdleReader]
      BY <1>8 DEF LeaveLoad
    <3>2. IdleReader \in ReaderRecord
      BY LoaderAssumption DEF IdleReader, ReaderRecord
    <3> QED BY <3>1, <3>2 DEF TypeOK
  <2>6. current' \in 0..LastLoad
    <3>1. current' = 0 \/ current' = current
      BY <1>8 DEF LeaveLoad
    <3> QED BY <3>1, LoaderAssumption DEF TypeOK
  <2> QED BY <1>8, <2>4, <2>5, <2>6 DEF LeaveLoad, TypeOK
<1> QED BY <1>1, <1>2, <1>3, <1>4, <1>5, <1>6, <1>7, <1>8 DEF ReaderStep

\* So do the steps of DeleteCache,
LEMMA DeleteTypes ==
    ASSUME TypeOK, NEW from, NEW to, NEW after, DeleteCacheStep(from, to, after)
    PROVE  current' \in 0..LastLoad /\ gen' \in Nat /\ cached' \in Value /\ faults' \in Nat /\ lost' \in Nat
<1>1. CASE UnlistLoad(from, to)
  BY <1>1, LoaderAssumption DEF UnlistLoad, TypeOK
<1>2. CASE BumpGeneration(from, to)
  BY <1>2 DEF BumpGeneration, TypeOK
<1>3. CASE DeleteKey(from, to, after)
  <2>1. cached' \in Value
    BY <1>3, LoaderAssumption DEF DeleteKey, TypeOK
  <2>2. faults' \in Nat
    BY <1>3, FaultTypes DEF DeleteKey, TypeOK
  <2>3. lost' \in Nat
    BY <1>3 DEF DeleteKey, TypeOK
  <2> QED BY <1>3, <2>1, <2>2, <2>3 DEF DeleteKey, TypeOK
<1> QED BY <1>1, <1>2, <1>3 DEF DeleteCacheStep

\* the loads,
LEMMA LoadTypes ==
    ASSUME TypeOK, NEW l \in LoadId, LoadDeadline(l) \/ LoadStep(l)
    PROVE  TypeOK'
<1> load[l] \in LoadRecord /\ Nothing \in Value /\ version \in Value
  BY LoaderAssumption DEF TypeOK
<1>1. ASSUME LoadDeadline(l) PROVE TypeOK'
  BY <1>1, FaultTypes DEF LoadDeadline, TypeOK, LoadRecord
<1>2. ASSUME ReadGeneration(l) PROVE TypeOK'
  BY <1>2 DEF ReadGeneration, TypeOK, LoadRecord
<1>3. ASSUME Query(l) PROVE TypeOK'
  <2>1. load' \in [LoadId -> LoadRecord]
    <3>1. CASE load' = [load EXCEPT ![l].pc = "check", ![l].value = version]
      BY <3>1 DEF TypeOK, LoadRecord
    <3>2. CASE Go(l, "query", "finish")
      BY <3>2, GoTypes
    <3> QED BY <1>3, <3>1, <3>2 DEF Query
  <2>2. faults' \in Nat
    BY <1>3, FaultTypes DEF Query, TypeOK
  <2> QED BY <1>3, <2>1, <2>2 DEF Query, TypeOK
<1>4. ASSUME CheckGeneration(l) PROVE TypeOK'
  <2>1. load' \in [LoadId -> LoadRecord]
    <3>1. CASE load' = [load EXCEPT ![l].pc = "finish", ![l].value = Nothing]
      BY <3>1 DEF TypeOK, LoadRecord
    <3>2. CASE Go(l, "check", "set") \/ Go(l, "check", "finish")
      BY <3>2, GoTypes
    <3> QED BY <1>4, <3>1, <3>2 DEF CheckGeneration
  <2> QED BY <1>4, <2>1 DEF CheckGeneration, TypeOK
<1>5. ASSUME Set(l) PROVE TypeOK'
  <2>1. cached' \in Value
    BY <1>5 DEF Set, SetFails, TypeOK, LoadRecord
  <2>2. faults' \in Nat /\ lost' \in Nat
    BY <1>5, FaultTypes DEF Set, SetFails, TypeOK
  <2>3. load' \in [LoadId -> LoadRecord]
    <3>1. Go(l, "set", "recheck") \/ Go(l, "set", "finish")
      BY <1>5 DEF Set, SetFails
    <3> QED BY <3>1, GoTypes
  <2> QED BY <1>5, <2>1, <2>2, <2>3 DEF Set, TypeOK
<1>6. ASSUME RecheckGeneration(l) PROVE TypeOK'
  <2>1. load' \in [LoadId -> LoadRecord]
    <3>1. Go(l, "recheck", "finish") \/ Go(l, "recheck", "unlist")
      BY <1>6 DEF RecheckGeneration
    <3> QED BY <3>1, GoTypes
  <2> QED BY <1>6, <2>1 DEF RecheckGeneration, TypeOK
<1>7. ASSUME LoadDeletes(l) PROVE TypeOK'
  <2> PICK to \in {"bump", "delete", "retry", "finish"} :
        DeleteCacheStep(load[l].pc, to, "finish") /\ load' = [load EXCEPT ![l].pc = to]
    BY <1>7 DEF LoadDeletes
  <2>1. load' \in [LoadId -> LoadRecord]
    BY DEF TypeOK, LoadRecord
  <2> QED BY <1>7, <2>1, DeleteTypes DEF LoadDeletes, TypeOK
<1>8. ASSUME FinishLoad(l) PROVE TypeOK'
  <2>1. load' \in [LoadId -> LoadRecord]
    BY <1>8, GoTypes DEF FinishLoad
  <2>2. current' = 0 \/ current' = current
    BY <1>8 DEF FinishLoad
  <2> QED BY <1>8, <2>1, <2>2, LoaderAssumption DEF FinishLoad, TypeOK
<1> QED BY <1>1, <1>2, <1>3, <1>4, <1>5, <1>6, <1>7, <1>8 DEF LoadStep

\* and the writers.
LEMMA WriterTypes ==
    ASSUME TypeOK, WritesAgree, NEW w \in Writer, Write(w) \/ WriterDeletes(w)
    PROVE  TypeOK'
<1>1. ASSUME Write(w) PROVE TypeOK'
  BY <1>1, LoaderAssumption DEF Write, TypeOK, WriterRecord
<1>2. ASSUME WriterDeletes(w) PROVE TypeOK'
  <2> PICK to \in {"bump", "delete", "retry", "idle"} :
        /\ DeleteCacheStep(writer[w].pc, to, "idle")
        /\ writer' = [writer EXCEPT ![w].pc = to]
        /\ settled' = IF to = "idle" /\ writer[w].wrote > settled THEN writer[w].wrote ELSE settled
    BY <1>2 DEF WriterDeletes
  <2>1. writer' \in [Writer -> WriterRecord]
    BY DEF TypeOK, WriterRecord
  <2>2. settled' \in 0..LastWrite
    BY LoaderAssumption DEF WritesAgree, TypeOK, WriterRecord
  <2> QED BY <1>2, <2>1, <2>2, DeleteTypes DEF WriterDeletes, TypeOK
<1> QED BY <1>1, <1>2

--------------------------------------------------------------------------------
(* Frames: what the steps of each actor leave alone *)

\* A reader changes no load but by joining, leaving or starting it,
LEMMA ReaderFrame ==
    ASSUME TypeOK, WaitersCounted, NEW r \in Reader, StartRead(r) \/ GiveUp(r) \/ ReaderStep(r)
    PROVE  /\ UNCHANGED <<version, settled, cached, gen, writer, lost>>
           /\ \A q \in Reader : q # r => reader'[q] = reader[q]
           /\ \/ /\ UNCHANGED nextLoad
                 /\ current' \in {0, current}
                 /\ \A l \in LoadId : /\ load'[l].pc = load[l].pc
                                      /\ load'[l].gen = load[l].gen
                                      /\ load'[l].value = load[l].value
              \/ /\ StartLoad(r)
                 /\ load'[nextLoad] = NewLoad
                 /\ \A l \in LoadId : l # nextLoad => load'[l] = load[l]
<1>1. CASE StartRead(r) \/ GiveUp(r) \/ Hit(r) \/ Miss(r) \/ Answered(r)
  BY <1>1 DEF StartRead, GiveUp, Hit, Miss, Answered, TypeOK
<1>2. CASE JoinLoad(r)
  <2>1. load' = [load EXCEPT ![current].waiters = @ + 1] /\ current \in LoadId
    BY <1>2 DEF JoinLoad, TypeOK
  <2>2. \A l \in LoadId : /\ load'[l].pc = load[l].pc /\ load'[l].gen = load[l].gen
                          /\ load'[l].value = load[l].value
    BY <2>1 DEF TypeOK, LoadRecord
  <2> QED BY <1>2, <2>2 DEF JoinLoad, TypeOK
<1>3. CASE StartLoad(r)
  BY <1>3 DEF StartLoad, TypeOK
<1>4. CASE LeaveLoad(r)
  <2> DEFINE c == reader[r].call
  <2>1. c \in LoadId
    BY <1>4, LoaderAssumption DEF LeaveLoad, WaitersCounted, TypeOK
  <2>2. PICK x, n : load' = [load EXCEPT ![c] = [load[c] EXCEPT !.waiters = n, !.ctx = x]]
    BY <1>4, <2>1 DEF LeaveLoad, TypeOK, LoadRecord
  <2>3. \A l \in LoadId : /\ load'[l].pc = load[l].pc /\ load'[l].gen = load[l].gen
                          /\ load'[l].value = load[l].value
    BY <2>1, <2>2 DEF TypeOK, LoadRecord
  <2>4. current' \in {0, current}
    BY <1>4 DEF LeaveLoad
  <2> QED BY <1>4, <2>3, <2>4 DEF LeaveLoad, TypeOK
<1> QED BY <1>1, <1>2, <1>3, <1>4 DEF ReaderStep

\* a load changes nothing of another load, and what it changes of itself is told by pc,
LEMMA LoadFrame ==
    ASSUME TypeOK, NEW l \in LoadId, LoadDeadline(l) \/ LoadStep(l)
    PROVE  /\ UNCHANGED <<version, settled, nextLoad, reader, writer>>
           /\ current' \in {0, current}
           /\ \A k \in LoadId : k # l => load'[k] = load[k]
           /\ load'[l].waiters = load[l].waiters
           /\ load'[l].ctx \in {load[l].ctx, "late"}
           /\ load'[l].value # load[l].value => \/ load[l].pc = "query" /\ load'[l].value = version
                                               \/ load'[l].value = Nothing
<1>1. CASE LoadDeadline(l)
  BY <1>1 DEF LoadDeadline, TypeOK, LoadRecord
<1>2. CASE ReadGeneration(l)
  BY <1>2 DEF ReadGeneration, TypeOK, LoadRecord
<1>3. CASE Query(l)
  BY <1>3 DEF Query, Go, TypeOK, LoadRecord
<1>4. CASE CheckGeneration(l)
  BY <1>4 DEF CheckGeneration, Go, TypeOK, LoadRecord
<1>5. CASE Set(l)
  BY <1>5 DEF Set, SetFails, Go, TypeOK, LoadRecord
<1>6. CASE RecheckGeneration(l)
  BY <1>6 DEF RecheckGeneration, Go, TypeOK, LoadRecord
<1>7. CASE LoadDeletes(l)
  <2>1. PICK to : DeleteCacheStep(load[l].pc, to, "finish") /\ load' = [load EXCEPT ![l].pc = to]
    BY <1>7 DEF LoadDeletes
  <2>2. current' \in {0, current}
    BY <2>1 DEF DeleteCacheStep, UnlistLoad, BumpGeneration, DeleteKey
  <2> QED BY <1>7, <2>1, <2>2 DEF LoadDeletes, TypeOK, LoadRecord
<1>8. CASE FinishLoad(l)
  BY <1>8 DEF FinishLoad, Go, TypeOK, LoadRecord
<1> QED BY <1>1, <1>2, <1>3, <1>4, <1>5, <1>6, <1>7, <1>8 DEF LoadStep

\* and a writer changes no load at all.
LEMMA WriterFrame ==
    ASSUME TypeOK, NEW w \in Writer, Write(w) \/ WriterDeletes(w)
    PROVE  /\ UNCHANGED <<nextLoad, load, reader>>
           /\ \A v \in Writer : v # w => writer'[v] = writer[v]
           /\ current' \in {0, current}
<1>1. CASE Write(w)
  BY <1>1 DEF Write, TypeOK
<1>2. CASE WriterDeletes(w)
  <2>1. PICK to : DeleteCacheStep(writer[w].pc, to, "idle") /\ writer' = [writer EXCEPT ![w].pc = to]
    BY <1>2 DEF WriterDeletes
  <2>2. current' \in {0, current}
    BY <2>1 DEF DeleteCacheStep, UnlistLoad, BumpGeneration, DeleteKey
  <2> QED BY <1>2, <2>1, <2>2 DEF WriterDeletes, TypeOK
<1> QED BY <1>1, <1>2

--------------------------------------------------------------------------------
(* The conjuncts of the invariant, one by one *)

\* No number of the history overtakes the row.
LEMMA WritesAgreeStep == ASSUME TypeOK, LoaderInvariant, Next PROVE WritesAgree'
<1> USE DEF LoaderInvariant, WritesAgree
<1>1. ASSUME NEW r \in Reader, StartRead(r) \/ GiveUp(r) \/ ReaderStep(r) PROVE WritesAgree'
  <2>1. reader'[r].floor \in {reader[r].floor, 0, settled}
    <3>1. CASE StartRead(r)
      BY <3>1 DEF StartRead, Asking, TypeOK
    <3>2. CASE GiveUp(r) \/ Miss(r) \/ JoinLoad(r) \/ StartLoad(r) \/ Answered(r)
      BY <3>2 DEF GiveUp, Miss, JoinLoad, StartLoad, Answered, TypeOK, ReaderRecord
    <3>3. CASE Hit(r) \/ LeaveLoad(r)
      BY <3>3 DEF Hit, LeaveLoad, IdleReader, TypeOK
    <3> QED BY <1>1, <3>1, <3>2, <3>3 DEF ReaderStep
  <2> QED BY <1>1, <2>1, ReaderFrame, LoaderAssumption DEF TypeOK
<1>2. ASSUME NEW l \in LoadId, LoadDeadline(l) \/ LoadStep(l) PROVE WritesAgree'
  BY <1>2, LoadFrame
<1>3. ASSUME NEW w \in Writer, Write(w) PROVE WritesAgree'
  BY <1>3, LoaderAssumption DEF Write, TypeOK, WriterRecord
<1>4. ASSUME NEW w \in Writer, WriterDeletes(w) PROVE WritesAgree'
  <2>1. PICK to : writer' = [writer EXCEPT ![w].pc = to]
    BY <1>4 DEF WriterDeletes
  <2>2. UNCHANGED <<version, reader>> /\ settled' \in {settled, writer[w].wrote} /\ settled' >= settled
    BY <1>4, LoaderAssumption DEF WriterDeletes, TypeOK, WriterRecord
  <2> QED BY <2>1, <2>2, LoaderAssumption DEF TypeOK, WriterRecord, ReaderRecord
<1>5. ASSUME Expire PROVE WritesAgree'
  BY <1>5 DEF Expire
<1> QED BY <1>1, <1>2, <1>3, <1>4, <1>5 DEF Next

\* The load that is listed stays fresh: its query comes after whatever has been settled,
\* and a writer takes it off the list before it settles anything.
LEMMA ListedStep == ASSUME TypeOK, LoaderInvariant, Next PROVE ListedLoadIsFresh'
<1> USE DEF LoaderInvariant, ListedLoadIsFresh
<1>1. ASSUME NEW r \in Reader, StartRead(r) \/ GiveUp(r) \/ ReaderStep(r) PROVE ListedLoadIsFresh'
  <2>1. CASE StartLoad(r)
    <3>1. current' = nextLoad /\ nextLoad' = nextLoad + 1 /\ nextLoad \in LoadId
      BY <2>1 DEF StartLoad
    <3>2. load'[nextLoad] = NewLoad
      BY <2>1 DEF StartLoad, TypeOK
    <3>3. load'[current'].value = Nothing
      BY <3>1, <3>2 DEF NewLoad
    <3> QED BY <3>1, <3>3, LoaderAssumption
  <2>2. CASE ~StartLoad(r)
    BY <1>1, <2>2, ReaderFrame DEF TypeOK
  <2> QED BY <2>1, <2>2
<1>2. ASSUME NEW l \in LoadId, LoadDeadline(l) \/ LoadStep(l) PROVE ListedLoadIsFresh'
  <2>1. CASE current' = l /\ load'[l].value # load[l].value
    BY <1>2, <2>1, LoadFrame DEF WritesAgree, TypeOK
  <2>2. CASE current' # l \/ load'[l].value = load[l].value
    BY <1>2, <2>2, LoadFrame DEF TypeOK
  <2> QED BY <2>1, <2>2
<1>3. ASSUME NEW w \in Writer, Write(w) PROVE ListedLoadIsFresh'
  <2>1. writer'[w].pc = "unlist" /\ UNCHANGED <<settled, current, nextLoad, load>>
    BY <1>3 DEF Write, TypeOK
  <2> QED BY <1>3, <2>1, WriterFrame
<1>4. ASSUME NEW w \in Writer, WriterDeletes(w) PROVE ListedLoadIsFresh'
  <2>1. PICK to : /\ DeleteCacheStep(writer[w].pc, to, "idle")
                  /\ writer' = [writer EXCEPT ![w].pc = to]
                  /\ settled' = IF to = "idle" /\ writer[w].wrote > settled THEN writer[w].wrote ELSE settled
    BY <1>4 DEF WriterDeletes
  <2>2. CASE writer[w].pc = "unlist"
    <3>1. current' = 0
      BY <2>1, <2>2 DEF DeleteCacheStep, UnlistLoad, BumpGeneration, DeleteKey
    <3> QED BY <3>1
  <2>3. CASE writer[w].pc # "unlist"
    <3>1. writer[w].pc \in {"bump", "delete", "retry"} /\ current' = current
      BY <2>1, <2>3 DEF DeleteCacheStep, UnlistLoad, BumpGeneration, DeleteKey
    <3>2. \A v \in Writer : writer'[v].wrote = writer[v].wrote /\ (v # w => writer'[v].pc = writer[v].pc)
      BY <2>1 DEF TypeOK, WriterRecord
    <3>3. settled' \in {settled, writer[w].wrote}
      BY <2>1
    <3> QED BY <1>4, <3>1, <3>2, <3>3, WriterFrame
  <2> QED BY <2>2, <2>3
<1>5. ASSUME Expire PROVE ListedLoadIsFresh'
  BY <1>5 DEF Expire
<1> QED BY <1>1, <1>2, <1>3, <1>4, <1>5 DEF Next

\* Therefore the load a reader has joined stays as new as what he may expect,
LEMMA JoinedStep == ASSUME TypeOK, LoaderInvariant, Next PROVE JoinedLoadsAreFresh'
<1> USE DEF LoaderInvariant, JoinedLoadsAreFresh
<1>1. ASSUME NEW r \in Reader, StartRead(r) \/ GiveUp(r) \/ ReaderStep(r) PROVE JoinedLoadsAreFresh'
  <2> SUFFICES ASSUME NEW q \in Reader, reader'[q].pc = "wait", load'[reader'[q].call].value # Nothing
               PROVE  load'[reader'[q].call].value >= reader'[q].floor
    BY DEF JoinedLoadsAreFresh
  <2> DEFINE c == reader[q].call
  <2>1. CASE JoinLoad(r) /\ q = r
    <3>1. reader'[q].call = current /\ reader'[q].floor = reader[q].floor /\ current \in LoadId
      BY <2>1 DEF JoinLoad, TypeOK, ReaderRecord
    <3>2. load'[current].value = load[current].value /\ current # 0
      BY <2>1, <3>1 DEF JoinLoad, TypeOK, LoadRecord
    <3>3. load[current].value >= settled /\ settled >= reader[q].floor /\ load[current].value \in Value
      BY <3>1, <3>2 DEF ListedLoadIsFresh, WritesAgree, TypeOK, LoadRecord
    <3>4. reader[q].floor \in Value /\ settled \in Nat
      BY LoaderAssumption DEF TypeOK, ReaderRecord
    <3> QED BY <3>1, <3>2, <3>3, <3>4, LoaderAssumption
  <2>2. CASE StartLoad(r) /\ q = r
    <3>1. reader'[q].call = nextLoad /\ load'[nextLoad] = NewLoad
      BY <2>2 DEF StartLoad, TypeOK, ReaderRecord
    <3> QED BY <3>1 DEF NewLoad
  <2>3. CASE q # r \/ ~(JoinLoad(r) \/ StartLoad(r))
    <3>1. reader[q].pc = "wait" /\ reader'[q] = reader[q]
      <4>1. CASE q # r
        BY <1>1, <4>1, ReaderFrame
      <4>2. CASE q = r
        BY <1>1, <2>3, <4>2
        DEF ReaderStep, StartRead, GiveUp, Hit, Miss, Answered, LeaveLoad, Asking, IdleReader, TypeOK, ReaderRecord
      <4> QED BY <4>1, <4>2
    <3>2. c \in LoadId /\ c # nextLoad
      BY <3>1, LoaderAssumption DEF WaitersCounted, TypeOK
    <3>3. load'[c].value = load[c].value
      BY <1>1, <3>2, ReaderFrame
    <3> QED BY <3>1, <3>3
  <2> QED BY <2>1, <2>2, <2>3
<1>2. ASSUME NEW l \in LoadId, LoadDeadline(l) \/ LoadStep(l) PROVE JoinedLoadsAreFresh'
  <2> SUFFICES ASSUME NEW q \in Reader, reader'[q].pc = "wait", load'[reader'[q].call].value # Nothing
               PROVE  load'[reader'[q].call].value >= reader'[q].floor
    BY DEF JoinedLoadsAreFresh
  <2> DEFINE c == reader[q].call
  <2>1. reader' = reader /\ c \in LoadId
    BY <1>2, LoadFrame, LoaderAssumption DEF WaitersCounted, TypeOK
  <2>2. CASE load'[c].value = load[c].value
    BY <2>1, <2>2
  <2>3. CASE load'[c].value # load[c].value
    <3>1. c = l /\ load'[c].value = version
      BY <1>2, <2>1, <2>3, LoadFrame
    <3>2. reader[q].floor <= settled /\ settled <= version
      BY DEF WritesAgree
    <3>3. reader[q].floor \in Nat /\ settled \in Nat /\ version \in Nat
      BY LoaderAssumption DEF TypeOK, ReaderRecord
    <3> QED BY <2>1, <3>1, <3>2, <3>3
  <2> QED BY <2>2, <2>3
<1>3. ASSUME NEW w \in Writer, Write(w) \/ WriterDeletes(w) PROVE JoinedLoadsAreFresh'
  BY <1>3, WriterFrame
<1>4. ASSUME Expire PROVE JoinedLoadsAreFresh'
  BY <1>4 DEF Expire
<1> QED BY <1>1, <1>2, <1>3, <1>4 DEF Next

\* and so does the answer he takes from it.
LEMMA AnswersStep == ASSUME TypeOK, LoaderInvariant, Next PROVE LoadAnswersAreFresh'
<1> USE DEF LoaderInvariant, LoadAnswersAreFresh
<1>1. ASSUME NEW r \in Reader, StartRead(r) \/ GiveUp(r) \/ ReaderStep(r) PROVE LoadAnswersAreFresh'
  <2>1. \A q \in Reader : q # r => reader'[q] = reader[q]
    BY <1>1, ReaderFrame
  <2>2. reader'[r].answer # Nothing => reader'[r].answer >= reader'[r].floor
    <3>1. CASE StartRead(r) \/ Hit(r) \/ LeaveLoad(r)
      BY <3>1 DEF StartRead, Hit, LeaveLoad, Asking, IdleReader, TypeOK
    <3>2. CASE GiveUp(r) \/ Miss(r) \/ JoinLoad(r) \/ StartLoad(r)
      <4>1. reader'[r].answer = reader[r].answer /\ reader'[r].floor = reader[r].floor
        <5>1. CASE GiveUp(r) \/ Miss(r)
          BY <5>1 DEF GiveUp, Miss, TypeOK, ReaderRecord
        <5>2. CASE JoinLoad(r)
          BY <5>2 DEF JoinLoad, TypeOK, ReaderRecord
        <5>3. CASE StartLoad(r)
          BY <5>3 DEF StartLoad, TypeOK, ReaderRecord
        <5> QED BY <3>2, <5>1, <5>2, <5>3
      <4> QED BY <4>1
    <3>3. CASE Answered(r)
      BY <3>3 DEF Answered, JoinedLoadsAreFresh, TypeOK, ReaderRecord
    <3> QED BY <1>1, <3>1, <3>2, <3>3 DEF ReaderStep
  <2> QED BY <2>1, <2>2
<1>2. ASSUME NEW l \in LoadId, LoadDeadline(l) \/ LoadStep(l) PROVE LoadAnswersAreFresh'
  BY <1>2, LoadFrame
<1>3. ASSUME NEW w \in Writer, Write(w) \/ WriterDeletes(w) PROVE LoadAnswersAreFresh'
  BY <1>3, WriterFrame
<1>4. ASSUME Expire PROVE LoadAnswersAreFresh'
  BY <1>4 DEF Expire
<1> QED BY <1>1, <1>2, <1>3, <1>4 DEF Next

\* A load whose generation is still current saw the row as it is, or the writer that
\* overtook it has yet to bump the generation.
LEMMA GenerationsStep == ASSUME TypeOK, LoaderInvariant, Next PROVE GenerationsAgree'
<1> USE DEF LoaderInvariant, GenerationsAgree, NotBumped
<1>1. ASSUME NEW r \in Reader, StartRead(r) \/ GiveUp(r) \/ ReaderStep(r) PROVE GenerationsAgree'
  <2>1. CASE StartLoad(r)
    BY <1>1, <2>1, ReaderFrame DEF NewLoad, TypeOK
  <2>2. CASE ~StartLoad(r)
    BY <1>1, <2>2, ReaderFrame
  <2> QED BY <2>1, <2>2
<1>2. ASSUME NEW l \in LoadId, LoadDeadline(l) \/ LoadStep(l) PROVE GenerationsAgree'
  <2>1. CASE gen' = gen
    <3>1. load'[l].gen <= gen /\ (load'[l].pc \in {"check", "set", "recheck"} =>
              \/ load'[l].value = version
              \/ /\ load[l].pc \in {"check", "set", "recheck"}
                 /\ load'[l].gen = load[l].gen /\ load'[l].value = load[l].value)
      <4>1. CASE LoadDeadline(l)
        BY <4>1 DEF LoadDeadline, TypeOK, LoadRecord
      <4>2. CASE ReadGeneration(l)
        BY <4>2 DEF ReadGeneration, TypeOK, LoadRecord
      <4>3. CASE Query(l)
        BY <4>3 DEF Query, Go, TypeOK, LoadRecord
      <4>4. CASE CheckGeneration(l)
        <5>1. CASE load' = [load EXCEPT ![l].pc = "finish", ![l].value = Nothing]
          <6>1. load'[l].pc = "finish" /\ load'[l].gen = load[l].gen
            BY <5>1 DEF TypeOK, LoadRecord
          <6> QED BY <6>1
        <5>2. CASE Go(l, "check", "set") \/ Go(l, "check", "finish")
          BY <5>2 DEF Go, TypeOK, LoadRecord
        <5> QED BY <4>4, <5>1, <5>2 DEF CheckGeneration
      <4>5. CASE Set(l)
        BY <4>5 DEF Set, SetFails, Go, TypeOK, LoadRecord
      <4>6. CASE RecheckGeneration(l)
        BY <4>6 DEF RecheckGeneration, Go, TypeOK, LoadRecord
      <4>7. CASE LoadDeletes(l)
        <5>1. PICK to \in {"bump", "delete", "retry", "finish"} : load' = [load EXCEPT ![l].pc = to]
          BY <4>7 DEF LoadDeletes
        <5> QED BY <5>1 DEF TypeOK, LoadRecord
      <4>8. CASE FinishLoad(l)
        BY <4>8 DEF FinishLoad, Go, TypeOK, LoadRecord
      <4> QED BY <1>2, <4>1, <4>2, <4>3, <4>4, <4>5, <4>6, <4>7, <4>8 DEF LoadStep
    <3>2. UNCHANGED <<version, writer>> /\ \A k \in LoadId : k # l => load'[k] = load[k]
      BY <1>2, LoadFrame
    <3> QED BY <2>1, <3>1, <3>2, LoaderAssumption DEF TypeOK
  <2>2. CASE gen' # gen
    <3>1. LoadDeletes(l)
      BY <1>2, <2>2 DEF LoadDeadline, LoadStep, ReadGeneration, Query, CheckGeneration, Set,
                        RecheckGeneration, FinishLoad
    <3>2. PICK to : DeleteCacheStep(load[l].pc, to, "finish") /\ load' = [load EXCEPT ![l].pc = to]
      BY <3>1 DEF LoadDeletes
    <3>3. gen' = gen + 1
      BY <2>2, <3>2 DEF DeleteCacheStep, UnlistLoad, BumpGeneration, DeleteKey
    <3>4. \A k \in LoadId : load'[k].gen = load[k].gen /\ load[k].gen \in Nat
      BY <3>2 DEF TypeOK, LoadRecord
    <3> QED BY <3>3, <3>4 DEF TypeOK
  <2> QED BY <2>1, <2>2
<1>3. ASSUME NEW w \in Writer, Write(w) PROVE GenerationsAgree'
  <2>1. writer'[w].pc = "unlist" /\ UNCHANGED <<gen, load>>
    BY <1>3 DEF Write, TypeOK
  <2> QED BY <2>1
<1>4. ASSUME NEW w \in Writer, WriterDeletes(w) PROVE GenerationsAgree'
  <2>1. PICK to : DeleteCacheStep(writer[w].pc, to, "idle") /\ writer' = [writer EXCEPT ![w].pc = to]
    BY <1>4 DEF WriterDeletes
  <2>2. UNCHANGED <<version, load>>
    BY <1>4 DEF WriterDeletes
  <2>3. CASE writer[w].pc = "bump"
    <3>1. gen' = gen + 1
      BY <2>1, <2>3 DEF DeleteCacheStep, UnlistLoad, BumpGeneration, DeleteKey
    <3>2. \A k \in LoadId : load[k].gen \in Nat
      BY DEF TypeOK, LoadRecord
    <3> QED BY <2>2, <3>1, <3>2 DEF TypeOK
  <2>4. CASE writer[w].pc # "bump"
    <3>1. gen' = gen /\ (writer[w].pc = "unlist" => to = "bump")
      BY <2>1, <2>4 DEF DeleteCacheStep, UnlistLoad, BumpGeneration, DeleteKey
    <3>2. NotBumped => NotBumped'
      BY <2>1, <2>4, <3>1 DEF TypeOK, WriterRecord
    <3> QED BY <2>2, <3>1, <3>2
  <2> QED BY <2>3, <2>4
<1>5. ASSUME Expire PROVE GenerationsAgree'
  BY <1>5 DEF Expire
<1> QED BY <1>1, <1>2, <1>3, <1>4, <1>5 DEF Next

\* An old value in Redis has somebody who will remove it.
LEMMA StaleStep == ASSUME TypeOK, LoaderInvariant, Next PROVE StaleIsDoomed'
<1> USE DEF LoaderInvariant, StaleIsDoomed, Stale, Cleaning, Overtaken
<1>1. ASSUME NEW r \in Reader, StartRead(r) \/ GiveUp(r) \/ ReaderStep(r) PROVE StaleIsDoomed'
  <2>1. \A l \in LoadId : load[l].pc \in Deleting \/ Overtaken(l) =>
                              load'[l].pc = load[l].pc /\ load'[l].gen = load[l].gen
    <3>1. CASE StartLoad(r)
      <4>1. load[nextLoad].pc = "none"
        BY <3>1 DEF StartLoad, UnstartedLoads, TypeOK
      <4> QED BY <1>1, <3>1, <4>1, ReaderFrame
    <3>2. CASE ~StartLoad(r)
      BY <1>1, <3>2, ReaderFrame
    <3> QED BY <3>1, <3>2
  <2> QED BY <1>1, <2>1, ReaderFrame
<1>2. ASSUME NEW l \in LoadId, LoadDeadline(l) \/ LoadStep(l) PROVE StaleIsDoomed'
  <2> SUFFICES ASSUME Stale', lost' = 0 PROVE Cleaning'
    BY DEF StaleIsDoomed
  <2>1. UNCHANGED <<version, writer>> /\ \A k \in LoadId : k # l => load'[k] = load[k]
    BY <1>2, LoadFrame
  <2>2. CASE Set(l) /\ load'[l].pc = "recheck"
    <3>1. cached' = load[l].value /\ load[l].pc = "set" /\ load'[l].gen = load[l].gen /\ gen' = gen
      BY <2>2 DEF Set, SetFails, Go, TypeOK, LoadRecord
    <3>2. CASE load[l].gen = gen
      BY <2>1, <3>1, <3>2 DEF GenerationsAgree, NotBumped
    <3>3. CASE load[l].gen # gen
      BY <2>2, <3>1, <3>3
    <3> QED BY <3>2, <3>3
  <2>3. CASE LoadDeletes(l)
    <3>1. PICK to : DeleteCacheStep(load[l].pc, to, "finish") /\ load' = [load EXCEPT ![l].pc = to]
      BY <2>3 DEF LoadDeletes
    <3>2. load'[l].pc = to
      BY <3>1 DEF TypeOK, LoadRecord
    <3>3. CASE to = "finish"
      <4>1. cached' = Nothing \/ lost' = lost + 1
        BY <3>1, <3>3 DEF DeleteCacheStep, UnlistLoad, BumpGeneration, DeleteKey
      <4> QED BY <4>1 DEF TypeOK
    <3>4. CASE to # "finish"
      BY <3>1, <3>2, <3>4 DEF DeleteCacheStep, UnlistLoad, BumpGeneration, DeleteKey
    <3> QED BY <3>3, <3>4
  <2>4. CASE Set(l) /\ cached' # cached /\ load'[l].pc # "recheck"
    <3>1. SetFails(l) /\ UNCHANGED gen
      <4>1. CASE Go(l, "set", "recheck")
        BY <2>4, <4>1 DEF Go, TypeOK, LoadRecord
      <4> QED BY <2>4, <4>1 DEF Set
    <3>2. cached' = load[l].value /\ load[l].pc = "set" /\ load[l].gen = gen
      BY <2>4, <3>1 DEF SetFails, Go, TypeOK
    <3> QED BY <2>1, <3>1, <3>2 DEF GenerationsAgree, NotBumped
  <2>5. CASE ~(Set(l) /\ (load'[l].pc = "recheck" \/ cached' # cached)) /\ ~LoadDeletes(l)
    <3>1. UNCHANGED <<cached, gen>> /\ lost = 0
      <4>1. CASE Set(l)
        <5>1. cached' = cached /\ load'[l].pc # "recheck"
          BY <2>5, <4>1
        <5>2. SetFails(l) /\ UNCHANGED gen
          <6>1. CASE Go(l, "set", "recheck")
            BY <5>1, <6>1 DEF Go, TypeOK, LoadRecord
          <6> QED BY <4>1, <6>1 DEF Set
        <5> QED BY <5>1, <5>2 DEF SetFails, TypeOK
      <4>2. CASE ~Set(l)
        BY <1>2, <2>5, <4>2 DEF LoadDeadline, LoadStep, ReadGeneration, Query, CheckGeneration,
                                RecheckGeneration, FinishLoad
      <4> QED BY <4>1, <4>2
    <3>2. Cleaning
      BY <2>1, <3>1
    <3>3. load[l].pc \in Deleting => load'[l].pc = load[l].pc
      BY <1>2, <2>5 DEF LoadDeadline, LoadStep, ReadGeneration, Query, CheckGeneration, Set, SetFails, Go,
                        RecheckGeneration, FinishLoad, TypeOK, LoadRecord
    <3>4. Overtaken(l) => load'[l].pc = "unlist" \/ (load'[l].pc = load[l].pc /\ load'[l].gen = load[l].gen)
      BY <1>2, <2>5 DEF LoadDeadline, LoadStep, ReadGeneration, Query, CheckGeneration, Set, SetFails, Go,
                        RecheckGeneration, FinishLoad, TypeOK, LoadRecord
    <3> QED BY <2>1, <3>1, <3>2, <3>3, <3>4
  <2> QED BY <2>2, <2>3, <2>4, <2>5
<1>3. ASSUME NEW w \in Writer, Write(w) PROVE StaleIsDoomed'
  <2>1. writer'[w].pc = "unlist"
    BY <1>3 DEF Write, TypeOK
  <2> QED BY <2>1
<1>4. ASSUME NEW w \in Writer, WriterDeletes(w) PROVE StaleIsDoomed'
  <2> SUFFICES ASSUME Stale', lost' = 0 PROVE Cleaning'
    BY DEF StaleIsDoomed
  <2>1. PICK to : DeleteCacheStep(writer[w].pc, to, "idle") /\ writer' = [writer EXCEPT ![w].pc = to]
    BY <1>4 DEF WriterDeletes
  <2>2. writer'[w].pc = to
    BY <2>1 DEF TypeOK, WriterRecord
  <2>3. CASE to = "idle"
    <3>1. cached' = Nothing \/ lost' = lost + 1
      BY <2>1, <2>3 DEF DeleteCacheStep, UnlistLoad, BumpGeneration, DeleteKey
    <3> QED BY <3>1 DEF TypeOK
  <2>4. CASE to # "idle"
    BY <2>1, <2>2, <2>4 DEF DeleteCacheStep, UnlistLoad, BumpGeneration, DeleteKey
  <2> QED BY <2>3, <2>4
<1>5. ASSUME Expire PROVE StaleIsDoomed'
  BY <1>5 DEF Expire
<1> QED BY <1>1, <1>2, <1>3, <1>4, <1>5 DEF Next

\* The loads that have not been started do nothing.
LEMMA UnstartedStep == ASSUME TypeOK, LoaderInvariant, Next PROVE UnstartedLoads'
<1> USE DEF LoaderInvariant, UnstartedLoads
<1>1. ASSUME NEW r \in Reader, StartRead(r) \/ GiveUp(r) \/ ReaderStep(r) PROVE UnstartedLoads'
  <2>1. CASE StartLoad(r)
    <3>1. nextLoad' = nextLoad + 1
      BY <2>1 DEF StartLoad
    <3> QED BY <1>1, <2>1, <3>1, ReaderFrame DEF TypeOK
  <2>2. CASE ~StartLoad(r)
    BY <1>1, <2>2, ReaderFrame
  <2> QED BY <2>1, <2>2
<1>2. ASSUME NEW l \in LoadId, LoadDeadline(l) \/ LoadStep(l) PROVE UnstartedLoads'
  <2>1. load[l].pc # "none"
    <3>1. CASE LoadDeletes(l)
      BY <3>1 DEF LoadDeletes, DeleteCacheStep, UnlistLoad, BumpGeneration, DeleteKey
    <3>2. CASE ~LoadDeletes(l)
      BY <1>2, <3>2 DEF LoadDeadline, LoadStep, ReadGeneration, Query, CheckGeneration, Set, SetFails, Go,
                        RecheckGeneration, FinishLoad
    <3> QED BY <3>1, <3>2
  <2> QED BY <1>2, <2>1, LoadFrame
<1>3. ASSUME NEW w \in Writer, Write(w) \/ WriterDeletes(w) PROVE UnstartedLoads'
  BY <1>3, WriterFrame
<1>4. ASSUME Expire PROVE UnstartedLoads'
  BY <1>4 DEF Expire
<1> QED BY <1>1, <1>2, <1>3, <1>4 DEF Next

\* Readers are finitely many, so that those who wait for a load can be counted.
LEMMA WaitingFinite ==
    ASSUME NEW l PROVE Waiting(l) \subseteq Reader /\ IsFiniteSet(Waiting(l)) /\ Cardinality(Waiting(l)) \in Nat
<1>1. Waiting(l) \subseteq Reader
  BY DEF Waiting
<1> QED BY <1>1, LoaderAssumption, FS_Subset, FS_CardinalityType

\* Each load counts exactly the readers that wait for it.
LEMMA WaitersStep == ASSUME TypeOK, LoaderInvariant, Next PROVE WaitersCounted'
<1> USE DEF LoaderInvariant, WaitersCounted
<1>1. ASSUME NEW r \in Reader,
             StartRead(r) \/ GiveUp(r) \/ Hit(r) \/ Miss(r) \/ Answered(r)
      PROVE  WaitersCounted'
  <2>1. /\ reader'[r].pc \in {"wait", "leave"} <=> reader[r].pc \in {"wait", "leave"}
        /\ reader'[r].pc \in {"wait", "leave"} => reader'[r].call = reader[r].call
    <3>1. CASE StartRead(r) \/ Hit(r)
      BY <3>1 DEF StartRead, Hit, Asking, IdleReader, TypeOK
    <3>2. CASE GiveUp(r) \/ Miss(r) \/ Answered(r)
      BY <3>2 DEF GiveUp, Miss, Answered, TypeOK, ReaderRecord
    <3> QED BY <1>1, <3>1, <3>2
  <2>2. UNCHANGED <<load, current, nextLoad>> /\ \A q \in Reader : q # r => reader'[q] = reader[q]
    BY <1>1 DEF StartRead, GiveUp, Hit, Miss, Answered, TypeOK
  <2>3. \A l : Waiting(l)' = Waiting(l)
    BY <2>1, <2>2 DEF Waiting
  <2> QED BY <2>1, <2>2, <2>3
<1>2. ASSUME NEW r \in Reader, JoinLoad(r) PROVE WaitersCounted'
  <2>1. /\ current \in LoadId /\ UNCHANGED <<current, nextLoad>>
        /\ load' = [load EXCEPT ![current].waiters = @ + 1]
        /\ reader[r].pc = "join"
        /\ reader' = [reader EXCEPT ![r].pc = "wait", ![r].call = current]
    BY <1>2 DEF JoinLoad, TypeOK
  <2>2. reader'[r].pc = "wait" /\ reader'[r].call = current /\ \A q \in Reader : q # r => reader'[q] = reader[q]
    BY <2>1 DEF TypeOK, ReaderRecord
  <2>3. Waiting(current)' = Waiting(current) \cup {r} /\ r \notin Waiting(current)
    BY <2>1, <2>2 DEF Waiting
  <2>4. \A l : l # current => Waiting(l)' = Waiting(l)
    BY <2>1, <2>2 DEF Waiting
  <2>5. Cardinality(Waiting(current)') = Cardinality(Waiting(current)) + 1
    BY <2>3, WaitingFinite, FS_AddElement
  <2>6. /\ load'[current].waiters = load[current].waiters + 1
        /\ \A l \in LoadId : load'[l].ctx = load[l].ctx /\ (l # current => load'[l].waiters = load[l].waiters)
    BY <2>1 DEF TypeOK, LoadRecord
  <2>7. current \in 1..(nextLoad - 1)
    BY <2>1, LoaderAssumption DEF ListedLoadIsFresh, TypeOK
  <2>8. \A l \in LoadId : load'[l].waiters = Cardinality(Waiting(l)')
    BY <2>1, <2>4, <2>5, <2>6
  <2>9. \A l \in LoadId : load'[l].ctx = "left" => current' # l /\ Waiting(l)' = {}
    BY <2>1, <2>4, <2>6
  <2>10. \A q \in Reader : reader'[q].pc \in {"wait", "leave"} => reader'[q].call \in 1..(nextLoad' - 1)
    BY <2>1, <2>2, <2>7
  <2> QED BY <2>8, <2>9, <2>10
<1>3. ASSUME NEW r \in Reader, StartLoad(r) PROVE WaitersCounted'
  <2> PICK n \in LoadId : n = nextLoad
    BY <1>3 DEF StartLoad
  <2>1. /\ current' = n /\ nextLoad' = n + 1
        /\ load'[n] = NewLoad /\ \A l \in LoadId : l # n => load'[l] = load[l]
        /\ reader[r].pc = "join"
        /\ reader' = [reader EXCEPT ![r].pc = "wait", ![r].call = n]
    BY <1>3 DEF StartLoad, TypeOK
  <2>2. reader'[r].pc = "wait" /\ reader'[r].call = n /\ \A q \in Reader : q # r => reader'[q] = reader[q]
    BY <2>1 DEF TypeOK, ReaderRecord
  <2>3. Waiting(n)' = {r}
    <3>1. \A q \in Reader : reader[q].pc \in {"wait", "leave"} => reader[q].call # n
      BY LoaderAssumption
    <3>2. \A q : q \in Waiting(n)' <=> q = r
      BY <2>2, <3>1 DEF Waiting
    <3> QED BY <3>2
  <2>4. \A l : l # n => Waiting(l)' = Waiting(l)
    <3> SUFFICES ASSUME NEW l, l # n PROVE Waiting(l)' = Waiting(l)
      OBVIOUS
    <3>1. \A q \in Reader : /\ reader'[q].pc \in {"wait", "leave"}
                            /\ reader'[q].call = l
                            <=> /\ reader[q].pc \in {"wait", "leave"}
                                /\ reader[q].call = l
      BY <2>1, <2>2
    <3> QED BY <3>1 DEF Waiting
  <2>5. Cardinality(Waiting(n)') = 1
    BY <2>3, FS_Singleton
  <2>6. load'[n].waiters = 1 /\ load'[n].ctx = "alive"
    BY <2>1 DEF NewLoad
  <2>7. \A q \in Reader : reader'[q].pc \in {"wait", "leave"} => reader'[q].call \in 1..(nextLoad' - 1)
    <3> SUFFICES ASSUME NEW q \in Reader, reader'[q].pc \in {"wait", "leave"} PROVE reader'[q].call \in 1..n
      <4>1. nextLoad' - 1 = n
        BY <2>1, LoaderAssumption
      <4> QED BY <4>1
    <3>1. CASE q = r
      BY <2>2, <3>1, LoaderAssumption
    <3>2. CASE q # r
      BY <2>2, <3>2, LoaderAssumption
    <3> QED BY <3>1, <3>2
  <2>8. \A l \in LoadId : load'[l].waiters = Cardinality(Waiting(l)')
    BY <2>1, <2>4, <2>5, <2>6
  <2>9. \A l \in LoadId : load'[l].ctx = "left" => current' # l /\ Waiting(l)' = {}
    BY <2>1, <2>4, <2>6
  <2> QED BY <2>7, <2>8, <2>9
<1>4. ASSUME NEW r \in Reader, LeaveLoad(r) PROVE WaitersCounted'
  <2> PICK c \in LoadId : c = reader[r].call
    BY <1>4, LoaderAssumption DEF LeaveLoad, TypeOK
  <2>1. reader[r].pc = "leave"
    BY <1>4 DEF LeaveLoad
  <2>2. /\ reader' = [reader EXCEPT ![r] = IdleReader] /\ nextLoad' = nextLoad
        /\ current' = IF load[c].waiters = 1 /\ current = c THEN 0 ELSE current
        /\ load' = [load EXCEPT ![c].waiters = @ - 1,
                                ![c].ctx = IF load[c].waiters = 1 /\ @ = "alive" THEN "left" ELSE @]
    BY <1>4 DEF LeaveLoad
  <2>3. reader'[r].pc = "idle" /\ \A q \in Reader : q # r => reader'[q] = reader[q]
    BY <2>2 DEF IdleReader, TypeOK
  <2>4. Waiting(c)' = Waiting(c) \ {r} /\ r \in Waiting(c)
    BY <2>1, <2>3 DEF Waiting
  <2>5. \A l : l # c => Waiting(l)' = Waiting(l)
    BY <2>1, <2>3 DEF Waiting
  <2>6. Cardinality(Waiting(c)') = Cardinality(Waiting(c)) - 1
    <3>1. IsFiniteSet(Waiting(c))
      BY WaitingFinite
    <3>2. Cardinality(Waiting(c) \ {r}) = Cardinality(Waiting(c)) - 1
      BY <2>4, <3>1, FS_RemoveElement
    <3> QED BY <2>4, <3>2
  <2>7. load[c].ctx # "left"
    BY <2>1, <2>4
  <2>8. load'[c].waiters = load[c].waiters - 1 /\ \A l \in LoadId : l # c => load'[l] = load[l]
    BY <2>1, <2>2 DEF TypeOK, LoadRecord
  <2>9. load'[c].ctx = "left" => load[c].waiters = 1
    BY <2>1, <2>2, <2>7 DEF TypeOK, LoadRecord
  <2>10. load[c].waiters = 1 => Waiting(c)' = {}
    <3>1. SUFFICES ASSUME load[c].waiters = 1 PROVE Waiting(c)' = {}
      OBVIOUS
    <3>2. Cardinality(Waiting(c)') = 0
      BY <2>1, <2>6, <3>1
    <3>3. IsFiniteSet(Waiting(c)')
      BY <2>4, WaitingFinite, FS_RemoveElement
    <3> QED BY <3>2, <3>3, FS_EmptySet
  <2>11. \A l \in LoadId : load'[l].waiters = Cardinality(Waiting(l)')
    BY <2>1, <2>5, <2>6, <2>8
  <2>12. \A l \in LoadId : load'[l].ctx = "left" => current' # l /\ Waiting(l)' = {}
    <3> SUFFICES ASSUME NEW l \in LoadId, load'[l].ctx = "left" PROVE current' # l /\ Waiting(l)' = {}
      OBVIOUS
    <3>1. CASE l = c
      <4>1. load[c].waiters = 1
        BY <2>9, <3>1
      <4> QED BY <2>2, <2>10, <3>1, <4>1, LoaderAssumption
    <3>2. CASE l # c
      <4>1. load[l].ctx = "left"
        BY <2>8, <3>2
      <4> QED BY <2>2, <2>5, <3>2, <4>1, LoaderAssumption
    <3> QED BY <3>1, <3>2
  <2> QED BY <2>2, <2>3, <2>11, <2>12
<1>5. ASSUME NEW l \in LoadId, LoadDeadline(l) \/ LoadStep(l) PROVE WaitersCounted'
  <2>1. \A k : Waiting(k)' = Waiting(k)
    BY <1>5, LoadFrame DEF Waiting
  <2> QED BY <1>5, <2>1, LoadFrame
<1>6. ASSUME NEW w \in Writer, Write(w) \/ WriterDeletes(w) PROVE WaitersCounted'
  <2>1. \A k : Waiting(k)' = Waiting(k)
    BY <1>6, WriterFrame DEF Waiting
  <2> QED BY <1>6, <2>1, WriterFrame
<1>7. ASSUME Expire PROVE WaitersCounted'
  BY <1>7 DEF Expire, Waiting
<1> QED BY <1>1, <1>2, <1>3, <1>4, <1>5, <1>6, <1>7 DEF Next, ReaderStep

--------------------------------------------------------------------------------
(* The theorems *)

\* The invariant holds at the start,
LEMMA InvariantInit == Init => LoaderInvariant
<1> SUFFICES ASSUME Init PROVE LoaderInvariant
  OBVIOUS
<1> USE LoaderAssumption DEF Init, NoLoad, IdleReader, IdleWriter
<1>1. WritesAgree /\ LoadAnswersAreFresh /\ JoinedLoadsAreFresh
  BY DEF WritesAgree, LoadAnswersAreFresh, JoinedLoadsAreFresh
<1>2. StaleIsDoomed /\ GenerationsAgree /\ ListedLoadIsFresh /\ UnstartedLoads
  BY DEF StaleIsDoomed, Stale, GenerationsAgree, ListedLoadIsFresh, UnstartedLoads
<1>3. \A l : Waiting(l) = {}
  BY DEF Waiting
<1>4. WaitersCounted
  BY <1>3, FS_EmptySet DEF WaitersCounted
<1> QED BY <1>1, <1>2, <1>4 DEF LoaderInvariant

\* every step keeps it,
LEMMA InvariantStep == TypeOK /\ LoaderInvariant /\ [Next]_vars => (TypeOK /\ LoaderInvariant)'
<1> SUFFICES ASSUME TypeOK, LoaderInvariant, [Next]_vars PROVE TypeOK' /\ LoaderInvariant'
  OBVIOUS
<1>1. CASE Next
  <2>1. TypeOK'
    <3>1. CASE Expire
      BY <3>1, LoaderAssumption DEF Expire, TypeOK
    <3> QED BY <1>1, <3>1, ReaderTypes, LoadTypes, WriterTypes DEF Next, LoaderInvariant
  <2> QED BY <1>1, <2>1, WritesAgreeStep, StaleStep, AnswersStep, GenerationsStep, ListedStep, JoinedStep,
             WaitersStep, UnstartedStep DEF LoaderInvariant
<1>2. CASE UNCHANGED vars
  BY <1>2 DEF vars, TypeOK, LoaderInvariant, WritesAgree, StaleIsDoomed, Stale, Cleaning, Overtaken,
              LoadAnswersAreFresh, GenerationsAgree, NotBumped, ListedLoadIsFresh, JoinedLoadsAreFresh,
              WaitersCounted, Waiting, UnstartedLoads
<1> QED BY <1>1, <1>2

\* and so it always holds: for any number of concurrent readers, writers and loads.
THEOREM LoaderCorrect == Spec => [](TypeOK /\ LoaderInvariant)
BY TypeInit, InvariantInit, InvariantStep, PTL DEF Spec

\* An old value in Redis has a goroutine at work that will delete it, unless a DeleteCache
\* has given up or a Set that was overtaken stored its value and returned an error.
THEOREM StaleDoomed == Spec => []StaleIsDoomed
<1>1. LoaderInvariant => StaleIsDoomed
  BY DEF LoaderInvariant
<1> QED BY <1>1, LoaderCorrect, PTL

\* A shared load never answers with less than was settled when the caller asked.
THEOREM AnswersFresh == Spec => []LoadAnswersAreFresh
<1>1. LoaderInvariant => LoadAnswersAreFresh
  BY DEF LoaderInvariant
<1> QED BY <1>1, LoaderCorrect, PTL

\* A load that somebody waits for is not cancelled for lack of interest.
THEOREM WaitersServed == Spec => []WaitersKeepTheirLoad
<1>1. TypeOK /\ LoaderInvariant => WaitersKeepTheirLoad
  <2> SUFFICES ASSUME TypeOK, WaitersCounted, NEW r \in Reader, reader[r].pc = "wait"
               PROVE  load[reader[r].call].ctx # "left"
    BY DEF LoaderInvariant, WaitersKeepTheirLoad
  <2>1. reader[r].call \in LoadId /\ r \in Waiting(reader[r].call)
    BY LoaderAssumption DEF WaitersCounted, Waiting, TypeOK
  <2> QED BY <2>1 DEF WaitersCounted
<1> QED BY <1>1, LoaderCorrect, PTL

--------------------------------------------------------------------------------
(* AdminCache: type correctness *)

USE DEF FetchId, Lists, NoList, Clearing

\* The bounds are numbers.
LEMMA AdminBounds == LastFetch \in Nat /\ LastChange \in Nat /\ Clearings \in Nat /\ AdminFaults \in Nat
BY AdminAssumption

\* The initial state is well-typed.
LEMMA AdminTypeInit == AdminInit => AdminTypeOK
<1> SUFFICES ASSUME AdminInit PROVE AdminTypeOK
  OBVIOUS
<1>1. NotFetching \in FetchRecord /\ NotAsking \in AskerRecord
  BY AdminBounds DEF FetchRecord, NotFetching, AskerRecord, NotAsking
<1>2. fetch \in [FetchId -> FetchRecord] /\ asker \in [Asker -> AskerRecord]
  BY <1>1 DEF AdminInit
<1>3. clearer \in [Clearer -> ClearerRecord]
  BY AdminBounds DEF AdminInit, ClearerRecord
<1>4. unsure \in BOOLEAN
  BY Zenon DEF AdminInit
<1>5. flight \in 0..LastFetch /\ nextFetch \in 1..LastFetch + 1 /\ admins \in Lists /\ cleared \in Lists
  BY AdminBounds DEF AdminInit
<1> QED BY <1>2, <1>3, <1>4, <1>5, AdminBounds DEF AdminInit, AdminTypeOK

\* A call that may fail uses up a fault or none.
LEMMA AdminFaultTypes ==
    ASSUME adminFaults \in Nat, CallFails \/ UNCHANGED adminFaults PROVE adminFaults' \in Nat
BY DEF CallFails

\* The fetches stay records when one of them goes on,
LEMMA FetchGoesTypes ==
    ASSUME AdminTypeOK, NEW f \in FetchId, NEW from,
           NEW to \in {"check", "store", "recheck", "finish", "over"} \cup Clearing, FetchGoes(f, from, to)
    PROVE  fetch' \in [FetchId -> FetchRecord]
BY DEF FetchGoes, AdminTypeOK, FetchRecord

\* what it clears has the right types,
LEMMA ClearTypes ==
    ASSUME AdminTypeOK, NEW from, NEW to, NEW after, ClearStep(from, to, after)
    PROVE  /\ adminGen' \in Nat /\ flight' \in 0..LastFetch /\ list' \in Lists \cup {NoList}
           /\ adminFaults' \in Nat /\ unsure' \in BOOLEAN
<1>1. CASE Raise(from, to)
  BY <1>1 DEF Raise, AdminTypeOK
<1>2. CASE Forget(from, to)
  BY <1>2, AdminBounds DEF Forget, AdminTypeOK
<1>3. CASE Delete(from, to, after)
  <2>1. adminFaults' \in Nat
    BY <1>3, AdminFaultTypes DEF Delete, AdminTypeOK
  <2> QED BY <1>3, <2>1, AdminBounds DEF Delete, AdminTypeOK
<1> QED BY <1>1, <1>2, <1>3 DEF ClearStep

\* and so has all that it does.
LEMMA FetchTypes == ASSUME AdminTypeOK, NEW f \in FetchId, FetchStep(f) PROVE AdminTypeOK'
<1>1. CASE NoteGeneration(f)
  <2>1. fetch' = [fetch EXCEPT ![f] = [fetch[f] EXCEPT !.pc = "ask", !.gen = adminGen]]
    BY <1>1 DEF NoteGeneration, AdminTypeOK
  <2>2. [fetch[f] EXCEPT !.pc = "ask", !.gen = adminGen] \in FetchRecord
    BY DEF AdminTypeOK, FetchRecord
  <2>3. fetch' \in [FetchId -> FetchRecord]
    BY <2>1, <2>2 DEF AdminTypeOK
  <2> QED BY <1>1, <2>3 DEF NoteGeneration, AdminTypeOK
<1>2. CASE AskTelegram(f)
  <2>1. CASE \E found \in {admins, NoList} : fetch' = [fetch EXCEPT ![f].pc = "check", ![f].found = found]
    <3>1. PICK found \in Lists \cup {NoList} :
             fetch' = [fetch EXCEPT ![f] = [fetch[f] EXCEPT !.pc = "check", !.found = found]]
      BY <2>1 DEF AdminTypeOK
    <3>2. fetch' \in [FetchId -> FetchRecord]
      BY <3>1 DEF AdminTypeOK, FetchRecord
    <3> QED BY <1>2, <3>2, AdminFaultTypes DEF AskTelegram, AdminTypeOK
  <2>2. CASE FetchGoes(f, "ask", "finish")
    BY <1>2, <2>2, FetchGoesTypes, AdminFaultTypes DEF AskTelegram, AdminTypeOK
  <2> QED BY <1>2, <2>1, <2>2 DEF AskTelegram
<1>3. CASE CompareGeneration(f)
  <2>1. fetch' \in [FetchId -> FetchRecord]
    BY <1>3, FetchGoesTypes DEF CompareGeneration
  <2> QED BY <1>3, <2>1 DEF CompareGeneration, AdminTypeOK
<1>4. CASE StoreList(f)
  <2>1. fetch' \in [FetchId -> FetchRecord]
    BY <1>4, FetchGoesTypes DEF StoreList
  <2>2. list' \in Lists \cup {NoList}
    BY <1>4 DEF StoreList, AdminTypeOK, FetchRecord
  <2> QED BY <1>4, <2>1, <2>2, AdminFaultTypes DEF StoreList, AdminTypeOK
<1>5. CASE CompareAgain(f)
  <2>1. fetch' \in [FetchId -> FetchRecord]
    BY <1>5, FetchGoesTypes DEF CompareAgain
  <2> QED BY <1>5, <2>1 DEF CompareAgain, AdminTypeOK
<1>6. CASE ClearOwn(f)
  <2>1. PICK to \in {"forget", "delete", "finish"} :
           ClearStep(fetch[f].pc, to, "finish") /\ fetch' = [fetch EXCEPT ![f].pc = to]
    BY <1>6 DEF ClearOwn
  <2>2. fetch' \in [FetchId -> FetchRecord]
    BY <2>1 DEF AdminTypeOK, FetchRecord
  <2> QED BY <1>6, <2>1, <2>2, ClearTypes DEF ClearOwn, AdminTypeOK
<1>7. CASE FinishFetch(f)
  <2>1. fetch' \in [FetchId -> FetchRecord]
    BY <1>7, FetchGoesTypes DEF FinishFetch
  <2> QED BY <1>7, <2>1, AdminBounds DEF FinishFetch, AdminTypeOK
<1> QED BY <1>1, <1>2, <1>3, <1>4, <1>5, <1>6, <1>7 DEF FetchStep

\* What a clearing is about is a change there has been.
LEMMA OutdatedTypes ==
    ASSUME AdminTypeOK PROVE Outdated \subseteq Lists /\ Forgetting \subseteq Outdated
BY DEF Outdated, Forgetting, AdminTypeOK, ClearerRecord

\* An asker's record stays one when it waits.
LEMMA WaitTypes ==
    ASSUME AdminTypeOK, NEW a \in Asker, NEW f \in 0..LastFetch
    PROVE  [asker EXCEPT ![a].pc = "wait", ![a].call = f] \in [Asker -> AskerRecord]
<1>1. [asker[a] EXCEPT !.pc = "wait", !.call = f] \in AskerRecord
  BY DEF AdminTypeOK, AskerRecord
<1> QED BY <1>1 DEF AdminTypeOK

\* The askers keep the types, waiting as they do for fetches that have begun;
LEMMA AskerTypes ==
    ASSUME AdminTypeOK, FetchesBegin, AskersKnow, NEW a \in Asker, AskerStep(a)
    PROVE  AdminTypeOK'
<1>1. NotAsking \in AskerRecord
  BY AdminBounds DEF NotAsking, AskerRecord
<1>2. CASE Asks(a)
  <2>1. [NotAsking EXCEPT !.pc = "join", !.gen = adminGen, !.floor = cleared, !.behind = Forgetting] \in AskerRecord
    BY <1>1, OutdatedTypes DEF AskerRecord, AdminTypeOK
  <2> QED BY <1>2, <2>1 DEF Asks, AdminTypeOK
<1>3. CASE JoinFlight(a)
  <2>1. CASE flight # 0 /\ asker' = [asker EXCEPT ![a].pc = "wait", ![a].call = flight]
    <3>1. asker' \in [Asker -> AskerRecord]
      BY <2>1, WaitTypes DEF AdminTypeOK
    <3> QED BY <1>3, <2>1, <3>1 DEF JoinFlight, AdminTypeOK
  <2>2. CASE flight = 0
    <3>1. nextFetch \in FetchId /\ nextFetch' = nextFetch + 1 /\ flight' = nextFetch
      BY <1>3, <2>2 DEF JoinFlight
    <3>2. nextFetch' \in 1..LastFetch + 1 /\ flight' \in 0..LastFetch
      BY <3>1, AdminBounds
    <3>3. fetch' \in [FetchId -> FetchRecord]
      BY <1>3, <2>2, <3>1 DEF JoinFlight, AdminTypeOK, FetchRecord
    <3>4. asker' \in [Asker -> AskerRecord]
      <4>1. asker' = [asker EXCEPT ![a].pc = "wait", ![a].call = nextFetch] /\ nextFetch \in 0..LastFetch
        BY <1>3, <2>2, <3>1, <3>2 DEF JoinFlight
      <4> QED BY <4>1, WaitTypes
    <3> QED BY <1>3, <3>2, <3>3, <3>4 DEF JoinFlight, AdminTypeOK
  <2> QED BY <1>3, <2>1, <2>2 DEF JoinFlight
<1>4. CASE BelieveIfCurrent(a)
  <2>1. asker[a].call \in FetchId
    BY <1>4, AdminBounds DEF BelieveIfCurrent, AskersKnow, AdminTypeOK
  <2>2. Told(a) \in AskerRecord
    <3>1. asker[a] \in AskerRecord /\ fetch[asker[a].call].found \in Lists \cup {NoList} /\ Outdated \in SUBSET Lists
      BY <2>1, OutdatedTypes DEF AdminTypeOK, FetchRecord
    <3> QED BY <3>1 DEF Told, AskerRecord
  <2>3. asker' \in [Asker -> AskerRecord]
    BY <1>1, <1>4, <2>2 DEF BelieveIfCurrent, AdminTypeOK
  <2> QED BY <1>4, <2>3 DEF BelieveIfCurrent, AdminTypeOK
<1> QED BY <1>2, <1>3, <1>4 DEF AskerStep

\* so do those who clear,
LEMMA ClearerTypes == ASSUME AdminTypeOK, NEW c \in Clearer, BeginClear(c) \/ Clear(c) PROVE AdminTypeOK'
<1>1. CASE BeginClear(c)
  BY <1>1 DEF BeginClear, AdminTypeOK, ClearerRecord
<1>2. CASE Clear(c)
  <2>1. PICK to \in {"forget", "delete", "idle"} :
           /\ ClearStep(clearer[c].pc, to, "idle")
           /\ clearer' = [clearer EXCEPT ![c].pc = to]
           /\ cleared' = IF to = "idle" /\ clearer[c].at > cleared THEN clearer[c].at ELSE cleared
    BY <1>2 DEF Clear
  <2>2. clearer' \in [Clearer -> ClearerRecord] /\ cleared' \in Lists
    BY <2>1 DEF AdminTypeOK, ClearerRecord
  <2> QED BY <1>2, <2>1, <2>2, ClearTypes DEF Clear, AdminTypeOK
<1> QED BY <1>1, <1>2

\* and the steps of the others.
LEMMA OutsideTypes == ASSUME AdminTypeOK, ChangeAdmins \/ ClearElsewhere \/ ExpireList PROVE AdminTypeOK'
<1>1. CASE ChangeAdmins
  BY <1>1, AdminBounds DEF ChangeAdmins, AdminTypeOK
<1>2. CASE ClearElsewhere
  BY <1>2 DEF ClearElsewhere, AdminTypeOK
<1>3. CASE ExpireList
  BY <1>3, AdminBounds DEF ExpireList, AdminTypeOK
<1> QED BY <1>1, <1>2, <1>3
--------------------------------------------------------------------------------
(* AdminCache: what a step changes *)

\* A step of a fetch is seen in its own record, in the list, the flight and the generation,
LEMMA FetchFrame ==
    ASSUME AdminTypeOK, NEW f \in FetchId, FetchStep(f)
    PROVE  /\ UNCHANGED <<admins, cleared, nextFetch, asker, clearer>>
           /\ \A g \in FetchId : g # f => fetch'[g] = fetch[g]
           /\ flight' \in {flight, 0}
           /\ fetch[f].pc # "none"
<1>1. CASE NoteGeneration(f)
  BY <1>1 DEF NoteGeneration, AdminTypeOK
<1>2. CASE AskTelegram(f)
  BY <1>2 DEF AskTelegram, FetchGoes, AdminTypeOK
<1>3. CASE CompareGeneration(f)
  BY <1>3 DEF CompareGeneration, FetchGoes, AdminTypeOK
<1>4. CASE StoreList(f)
  BY <1>4 DEF StoreList, FetchGoes, AdminTypeOK
<1>5. CASE CompareAgain(f)
  BY <1>5 DEF CompareAgain, FetchGoes, AdminTypeOK
<1>6. CASE ClearOwn(f)
  BY <1>6 DEF ClearOwn, ClearStep, Raise, Forget, Delete, AdminTypeOK
<1>7. CASE FinishFetch(f)
  BY <1>7 DEF FinishFetch, FetchGoes, AdminTypeOK
<1> QED BY <1>1, <1>2, <1>3, <1>4, <1>5, <1>6, <1>7 DEF FetchStep

\* which only grows.  The fetch notes the generation once, and finds its list once.
LEMMA FetchMoves ==
    ASSUME AdminTypeOK, NEW f \in FetchId, FetchStep(f)
    PROVE  /\ adminGen' \in {adminGen, adminGen + 1}
           /\ \/ fetch'[f].gen = fetch[f].gen
              \/ fetch'[f].pc = "ask" /\ fetch'[f].gen = adminGen'
           /\ \/ fetch'[f].found = fetch[f].found
              \/ fetch'[f].found \in {admins, NoList}
           /\ fetch'[f].pc \in {"check", "store", "recheck"} =>
                 \/ fetch[f].pc \in {"check", "store", "recheck"}
                 \/ fetch'[f].found \in {admins, NoList}
<1>1. CASE NoteGeneration(f)
  BY <1>1 DEF NoteGeneration, AdminTypeOK, FetchRecord
<1>2. CASE AskTelegram(f)
  <2>1. CASE \E found \in {admins, NoList} : fetch' = [fetch EXCEPT ![f].pc = "check", ![f].found = found]
    BY <1>2, <2>1 DEF AskTelegram, AdminTypeOK, FetchRecord
  <2>2. CASE FetchGoes(f, "ask", "finish")
    BY <1>2, <2>2 DEF AskTelegram, FetchGoes, AdminTypeOK, FetchRecord
  <2> QED BY <1>2, <2>1, <2>2 DEF AskTelegram
<1>3. CASE CompareGeneration(f)
  BY <1>3 DEF CompareGeneration, FetchGoes, AdminTypeOK, FetchRecord
<1>4. CASE StoreList(f)
  BY <1>4 DEF StoreList, FetchGoes, AdminTypeOK, FetchRecord
<1>5. CASE CompareAgain(f)
  BY <1>5 DEF CompareAgain, FetchGoes, AdminTypeOK, FetchRecord
<1>6. CASE ClearOwn(f)
  BY <1>6 DEF ClearOwn, ClearStep, Raise, Forget, Delete, AdminTypeOK, FetchRecord
<1>7. CASE FinishFetch(f)
  BY <1>7 DEF FinishFetch, FetchGoes, AdminTypeOK, FetchRecord
<1> QED BY <1>1, <1>2, <1>3, <1>4, <1>5, <1>6, <1>7 DEF FetchStep

\* A step of an asker is seen in its own record and in the flight that it may start.
LEMMA AskerFrame ==
    ASSUME AdminTypeOK, NEW a \in Asker, AskerStep(a)
    PROVE  /\ UNCHANGED <<admins, cleared, list, adminGen, clearer, unsure>>
           /\ \A q \in Asker : q # a => asker'[q] = asker[q]
           /\ \/ UNCHANGED <<flight, nextFetch, fetch>>
              \/ /\ nextFetch \in FetchId /\ flight' = nextFetch /\ nextFetch' = nextFetch + 1
                 /\ fetch' = [fetch EXCEPT ![nextFetch].pc = "start"]
<1>1. CASE Asks(a)
  BY <1>1 DEF Asks, AdminTypeOK
<1>2. CASE JoinFlight(a)
  BY <1>2 DEF JoinFlight, AdminTypeOK
<1>3. CASE BelieveIfCurrent(a)
  BY <1>3 DEF BelieveIfCurrent, AdminTypeOK
<1> QED BY <1>1, <1>2, <1>3 DEF AskerStep

\* That one has not found anything yet.
LEMMA AskerFetches ==
    ASSUME AdminTypeOK, NEW a \in Asker, AskerStep(a), NEW f \in FetchId
    PROVE  /\ fetch'[f].gen = fetch[f].gen /\ fetch'[f].found = fetch[f].found
           /\ fetch'[f].pc \in {fetch[f].pc, "start"}
<1>1. CASE UNCHANGED fetch
  BY <1>1
<1>2. CASE nextFetch \in FetchId /\ fetch' = [fetch EXCEPT ![nextFetch].pc = "start"]
  BY <1>2 DEF AdminTypeOK, FetchRecord
<1> QED BY <1>1, <1>2, AskerFrame

\* Who clears raises the generation, then forgets the flight, then deletes the list.
LEMMA ClearerMoves ==
    ASSUME AdminTypeOK, NEW c \in Clearer, Clear(c)
    PROVE  /\ UNCHANGED <<admins, nextFetch, fetch, asker>>
           /\ \A d \in Clearer : d # c => clearer'[d] = clearer[d]
           /\ clearer'[c].at = clearer[c].at
           /\ \/ /\ clearer[c].pc = "raise" /\ clearer'[c].pc = "forget"
                 /\ adminGen' = adminGen + 1 /\ UNCHANGED <<cleared, flight, list, unsure>>
              \/ /\ clearer[c].pc = "forget" /\ clearer'[c].pc = "delete"
                 /\ flight' = 0 /\ UNCHANGED <<cleared, adminGen, list, unsure>>
              \/ /\ clearer[c].pc = "delete" /\ clearer'[c].pc = "idle"
                 /\ cleared' \in {cleared, clearer[c].at} /\ UNCHANGED <<adminGen, flight>>
                 /\ list' = NoList \/ unsure'
<1>1. PICK to \in {"forget", "delete", "idle"} :
         /\ ClearStep(clearer[c].pc, to, "idle")
         /\ clearer' = [clearer EXCEPT ![c].pc = to]
         /\ cleared' = IF to = "idle" /\ clearer[c].at > cleared THEN clearer[c].at ELSE cleared
  BY DEF Clear
<1>2. UNCHANGED <<admins, nextFetch, fetch, asker>>
  BY DEF Clear
<1>3. clearer'[c].pc = to /\ clearer'[c].at = clearer[c].at /\ \A d \in Clearer : d # c => clearer'[d] = clearer[d]
  BY <1>1 DEF AdminTypeOK, ClearerRecord
<1>4. CASE Raise(clearer[c].pc, to)
  BY <1>1, <1>2, <1>3, <1>4 DEF Raise
<1>5. CASE Forget(clearer[c].pc, to)
  BY <1>1, <1>2, <1>3, <1>5 DEF Forget
<1>6. CASE Delete(clearer[c].pc, to, "idle")
  <2>1. list' = NoList \/ unsure'
    BY <1>6, Zenon DEF Delete
  <2>2. clearer[c].pc = "delete" /\ to = "idle" /\ UNCHANGED <<adminGen, flight>>
    BY <1>6 DEF Delete
  <2> QED BY <1>1, <1>2, <1>3, <2>1, <2>2
<1> QED BY <1>1, <1>4, <1>5, <1>6 DEF ClearStep

\* Before that, it notes what its clearing is about.
LEMMA ClearerBegins ==
    ASSUME AdminTypeOK, NEW c \in Clearer, BeginClear(c)
    PROVE  /\ UNCHANGED <<admins, cleared, list, adminGen, flight, nextFetch, fetch, asker, unsure>>
           /\ \A d \in Clearer : d # c => clearer'[d] = clearer[d]
           /\ clearer[c].pc = "idle" /\ clearer'[c].pc = "raise" /\ clearer'[c].at = admins
BY DEF BeginClear, AdminTypeOK

\* The generation only grows, and no clearing outdates a list without raising it.
LEMMA OutdatedGrows ==
    ASSUME AdminTypeOK, AdminNext
    PROVE  /\ adminGen' \in Nat /\ adminGen' >= adminGen
           /\ adminGen' = adminGen => Outdated' \subseteq Outdated /\ Forgetting' \subseteq Forgetting
<1>1. CASE UNCHANGED <<cleared, clearer>> /\ adminGen' \in {adminGen, adminGen + 1}
  BY <1>1 DEF Outdated, Forgetting, AdminTypeOK
<1>2. ASSUME NEW c \in Clearer, BeginClear(c)
      PROVE  UNCHANGED adminGen /\ Outdated' = Outdated /\ Forgetting' = Forgetting
  <2>1. \A d \in Clearer : clearer[d].pc \in {"forget", "delete"} \/ clearer'[d].pc \in {"forget", "delete"}
                              => clearer'[d] = clearer[d]
    BY <1>2, ClearerBegins
  <2> QED BY <1>2, <2>1, ClearerBegins DEF Outdated, Forgetting
<1>3. ASSUME NEW c \in Clearer, Clear(c), clearer[c].pc # "raise"
      PROVE UNCHANGED adminGen /\ Outdated' \subseteq Outdated /\ Forgetting' \subseteq Forgetting
  <2>1. \A d \in Clearer : clearer'[d].at = clearer[d].at
    BY <1>3, ClearerMoves
  <2>2. \A d \in Clearer : /\ clearer'[d].pc = "forget" => clearer[d].pc = "forget"
                           /\ clearer'[d].pc = "delete" => clearer[d].pc \in {"forget", "delete"}
    BY <1>3, ClearerMoves
  <2>3. cleared' \in Outdated
    BY <1>3, ClearerMoves DEF Outdated
  <2> QED BY <1>3, <2>1, <2>2, <2>3, ClearerMoves DEF Outdated, Forgetting
<1>4. ASSUME NEW c \in Clearer, Clear(c), clearer[c].pc = "raise" PROVE adminGen' = adminGen + 1
  BY <1>4, ClearerMoves
<1>5. CASE ChangeAdmins \/ ClearElsewhere \/ ExpireList
  BY <1>1, <1>5 DEF ChangeAdmins, ClearElsewhere, ExpireList
<1> QED BY <1>1, <1>2, <1>3, <1>4, <1>5, FetchFrame, FetchMoves, AskerFrame DEF AdminNext, AdminTypeOK
--------------------------------------------------------------------------------
(* AdminCache: each part of the invariant *)

\* Fetches begin one after the other.
LEMMA BeginStep == ASSUME AdminTypeOK, FetchesBegin, AdminNext PROVE FetchesBegin'
<1>1. ASSUME NEW a \in Asker, AskerStep(a) PROVE FetchesBegin'
  <2>1. CASE UNCHANGED <<flight, nextFetch, fetch>>
    BY <2>1 DEF FetchesBegin, NotFetching
  <2>2. CASE /\ nextFetch \in FetchId /\ flight' = nextFetch /\ nextFetch' = nextFetch + 1
             /\ fetch' = [fetch EXCEPT ![nextFetch].pc = "start"]
    <3>1. \A f \in FetchId : f # nextFetch => fetch'[f] = fetch[f]
      BY <2>2 DEF AdminTypeOK
    <3>2. flight' < nextFetch' /\ \A f \in FetchId : f >= nextFetch' => f # nextFetch /\ f >= nextFetch
      BY <2>2, AdminBounds
    <3> QED BY <3>1, <3>2 DEF FetchesBegin, NotFetching
  <2> QED BY <1>1, <2>1, <2>2, AskerFrame
<1>2. ASSUME NEW f \in FetchId, FetchStep(f) PROVE FetchesBegin'
  <2>1. f < nextFetch
    BY <1>2, FetchFrame, AdminBounds DEF FetchesBegin, NotFetching, AdminTypeOK
  <2>2. \A g \in FetchId : g >= nextFetch => fetch'[g] = fetch[g]
    BY <1>2, <2>1, FetchFrame, AdminBounds DEF AdminTypeOK
  <2>3. flight' < nextFetch
    BY <1>2, FetchFrame, AdminBounds DEF FetchesBegin, AdminTypeOK
  <2> QED BY <1>2, <2>2, <2>3, FetchFrame DEF FetchesBegin, NotFetching
<1>3. ASSUME NEW c \in Clearer, BeginClear(c) \/ Clear(c) PROVE FetchesBegin'
  <2>1. UNCHANGED <<nextFetch, fetch>> /\ flight' \in {flight, 0}
    BY <1>3, ClearerBegins, ClearerMoves DEF Clear, ClearStep, Raise, Forget, Delete
  <2> QED BY <2>1, AdminBounds DEF FetchesBegin, NotFetching, AdminTypeOK
<1>4. CASE ChangeAdmins \/ ClearElsewhere \/ ExpireList
  BY <1>4 DEF ChangeAdmins, ClearElsewhere, ExpireList, FetchesBegin, NotFetching
<1> QED BY <1>1, <1>2, <1>3, <1>4 DEF AdminNext

\* Nobody gets ahead of the generation or of the changes.
LEMMA AheadStep == ASSUME AdminTypeOK, NothingAhead, AdminNext PROVE NothingAhead'
<1>1. ASSUME NEW a \in Asker, AskerStep(a) PROVE NothingAhead'
  <2>1. asker'[a].gen <= adminGen /\ asker'[a].floor <= cleared
    <3>1. CASE Asks(a)
      BY <3>1 DEF Asks, NotAsking, AdminTypeOK
    <3>2. CASE JoinFlight(a)
      <4>1. asker'[a].gen = asker[a].gen /\ asker'[a].floor = asker[a].floor
        BY <3>2 DEF JoinFlight, AdminTypeOK, AskerRecord
      <4> QED BY <4>1 DEF NothingAhead
    <3>3. CASE BelieveIfCurrent(a)
      BY <3>3, AdminBounds DEF BelieveIfCurrent, Told, NotAsking, NothingAhead, AdminTypeOK, AskerRecord
    <3> QED BY <1>1, <3>1, <3>2, <3>3 DEF AskerStep
  <2>2. \A f \in FetchId : fetch'[f].gen = fetch[f].gen
    BY <1>1, AskerFetches
  <2> QED BY <1>1, <2>1, <2>2, AskerFrame DEF NothingAhead
<1>2. ASSUME NEW f \in FetchId, FetchStep(f) PROVE NothingAhead'
  <2>1. adminGen' \in Nat /\ adminGen' >= adminGen
    BY <1>2, FetchMoves DEF AdminTypeOK
  <2>2. \A g \in FetchId : fetch'[g].gen <= adminGen'
    <3>1. \A g \in FetchId : fetch[g].gen <= adminGen'
      BY <2>1 DEF NothingAhead, AdminTypeOK, FetchRecord
    <3>2. fetch'[f].gen <= adminGen'
      BY <1>2, <2>1, <3>1, FetchMoves
    <3> QED BY <1>2, <3>1, <3>2, FetchFrame
  <2>3. \A a \in Asker : asker[a].gen <= adminGen'
    BY <2>1 DEF NothingAhead, AdminTypeOK, AskerRecord
  <2> QED BY <1>2, <2>2, <2>3, FetchFrame DEF NothingAhead
<1>3. ASSUME NEW c \in Clearer, BeginClear(c) \/ Clear(c) PROVE NothingAhead'
  <2>1. adminGen' \in Nat /\ adminGen' >= adminGen /\ UNCHANGED <<admins, fetch, asker>>
    BY <1>3, ClearerBegins, ClearerMoves DEF AdminTypeOK
  <2>2. cleared' >= cleared /\ cleared' <= admins /\ cleared' \in Nat
    BY <1>3, ClearerBegins, AdminBounds DEF Clear, NothingAhead, AdminTypeOK, ClearerRecord
  <2>3. \A d \in Clearer : clearer'[d].at <= admins
    <3>1. \A d \in Clearer : clearer'[d] = clearer[d] \/ clearer'[d].at \in {clearer[d].at, admins}
      BY <1>3, ClearerBegins, ClearerMoves
    <3>2. admins <= admins
      BY AdminBounds DEF AdminTypeOK
    <3> QED BY <3>1, <3>2 DEF NothingAhead
  <2>4. \A f \in FetchId : fetch[f].gen <= adminGen'
    BY <2>1 DEF NothingAhead, AdminTypeOK, FetchRecord
  <2>5. \A a \in Asker : asker[a].gen <= adminGen'
    BY <2>1 DEF NothingAhead, AdminTypeOK, AskerRecord
  <2>6. \A a \in Asker : asker[a].floor <= cleared'
    BY <2>2, AdminBounds DEF NothingAhead, AdminTypeOK, AskerRecord
  <2> QED BY <2>1, <2>2, <2>3, <2>4, <2>5, <2>6 DEF NothingAhead
<1>4. CASE ChangeAdmins
  BY <1>4, AdminBounds DEF ChangeAdmins, NothingAhead, AdminTypeOK, ClearerRecord
<1>5. CASE ClearElsewhere
  <2>1. adminGen' = adminGen + 1 /\ UNCHANGED <<admins, cleared, fetch, asker, clearer>>
    BY <1>5 DEF ClearElsewhere
  <2>2. \A f \in FetchId : fetch[f].gen <= adminGen + 1
    BY DEF NothingAhead, AdminTypeOK, FetchRecord
  <2>3. \A a \in Asker : asker[a].gen <= adminGen + 1
    BY DEF NothingAhead, AdminTypeOK, AskerRecord
  <2> QED BY <2>1, <2>2, <2>3 DEF NothingAhead
<1>6. CASE ExpireList
  BY <1>6 DEF ExpireList, NothingAhead
<1> QED BY <1>1, <1>2, <1>3, <1>4, <1>5, <1>6 DEF AdminNext

\* What a fetch has found keeps up with what it has kept up with: when it reads the list
\* anew, it has seen everything.
LEMMA FoundKeepsUp ==
    ASSUME AdminTypeOK, NothingAhead, FetchesBegin, AdminNext, NEW f \in FetchId
    PROVE  /\ fetch'[f].found \in {fetch[f].found, admins, NoList}
           /\ \A at \in Lists : at <= admins /\ fetch[f].found >= at => fetch'[f].found >= at
<1>1. fetch'[f].found \in {fetch[f].found, admins, NoList}
  <2>1. ASSUME NEW a \in Asker, AskerStep(a) PROVE fetch'[f].found = fetch[f].found
    BY <2>1, AskerFetches
  <2>2. ASSUME NEW g \in FetchId, FetchStep(g) PROVE fetch'[f].found \in {fetch[f].found, admins, NoList}
    BY <2>2, FetchFrame, FetchMoves
  <2>3. ASSUME NEW c \in Clearer, BeginClear(c) \/ Clear(c) PROVE fetch'[f].found = fetch[f].found
    BY <2>3, ClearerBegins, ClearerMoves
  <2>4. CASE ChangeAdmins \/ ClearElsewhere \/ ExpireList
    BY <2>4 DEF ChangeAdmins, ClearElsewhere, ExpireList
  <2> QED BY <2>1, <2>2, <2>3, <2>4 DEF AdminNext
<1> QED BY <1>1, AdminBounds DEF AdminTypeOK, FetchRecord

\* The clearings are about changes that there have been.
LEMMA OutdatedBounds == ASSUME AdminTypeOK, NothingAhead PROVE \A at \in Outdated : at \in Lists /\ at <= admins
BY DEF Outdated, NothingAhead, AdminTypeOK, ClearerRecord

\* A fetch whose generation is the current one keeps up.
LEMMA KeepUpStep ==
    ASSUME AdminTypeOK, NothingAhead, FetchesBegin, FetchesKeepUp, AdminNext PROVE FetchesKeepUp'
<1> SUFFICES ASSUME NEW f \in FetchId, fetch'[f].pc \in {"check", "store", "recheck"}, fetch'[f].gen = adminGen',
                    NEW at \in Outdated'
             PROVE  fetch'[f].found >= at
  BY DEF FetchesKeepUp
<1>1. fetch'[f].gen = fetch[f].gen
  <2>1. ASSUME NEW a \in Asker, AskerStep(a) PROVE fetch'[f].gen = fetch[f].gen
    BY <2>1, AskerFetches
  <2>2. ASSUME NEW g \in FetchId, FetchStep(g) PROVE fetch'[f].gen = fetch[f].gen
    BY <2>2, FetchFrame, FetchMoves
  <2>3. ASSUME NEW c \in Clearer, BeginClear(c) \/ Clear(c) PROVE fetch'[f].gen = fetch[f].gen
    BY <2>3, ClearerBegins, ClearerMoves
  <2>4. CASE ChangeAdmins \/ ClearElsewhere \/ ExpireList
    BY <2>4 DEF ChangeAdmins, ClearElsewhere, ExpireList
  <2> QED BY <2>1, <2>2, <2>3, <2>4 DEF AdminNext
<1>2. adminGen' = adminGen
  BY <1>1, OutdatedGrows DEF NothingAhead, AdminTypeOK, FetchRecord
<1>3. at \in Outdated /\ at \in Lists /\ at <= admins
  BY <1>2, OutdatedGrows, OutdatedBounds
<1>4. fetch[f].pc \in {"check", "store", "recheck"} \/ fetch'[f].found \in {admins, NoList}
  <2>1. ASSUME NEW a \in Asker, AskerStep(a) PROVE fetch[f].pc \in {"check", "store", "recheck"}
    BY <2>1, AskerFetches
  <2>2. ASSUME NEW g \in FetchId, FetchStep(g)
        PROVE  fetch[f].pc \in {"check", "store", "recheck"} \/ fetch'[f].found \in {admins, NoList}
    BY <2>2, FetchFrame, FetchMoves
  <2>3. ASSUME NEW c \in Clearer, BeginClear(c) \/ Clear(c) PROVE fetch'[f] = fetch[f]
    BY <2>3, ClearerBegins, ClearerMoves
  <2>4. CASE ChangeAdmins \/ ClearElsewhere \/ ExpireList
    BY <2>4 DEF ChangeAdmins, ClearElsewhere, ExpireList
  <2> QED BY <2>1, <2>2, <2>3, <2>4 DEF AdminNext
<1>5. CASE fetch[f].pc \in {"check", "store", "recheck"}
  BY <1>1, <1>2, <1>3, <1>5, FoundKeepsUp DEF FetchesKeepUp
<1>6. CASE fetch'[f].found \in {admins, NoList}
  BY <1>3, <1>6, AdminBounds DEF AdminTypeOK
<1> QED BY <1>4, <1>5, <1>6

\* So does the flight that can be joined: a clearing that has forgotten others has
\* forgotten it, or it began afterwards.
LEMMA FlightStep ==
    ASSUME AdminTypeOK, NothingAhead, FetchesBegin, FlightKeepsUp, AdminNext PROVE FlightKeepsUp'
<1> SUFFICES ASSUME flight' # 0
             PROVE  /\ fetch'[flight'].found >= cleared'
                    /\ \A c \in Clearer : clearer'[c].pc = "delete" => fetch'[flight'].found >= clearer'[c].at
  BY DEF FlightKeepsUp
<1>1. ASSUME flight' = flight,
             cleared' = cleared \/ \E c \in Clearer : clearer[c].pc = "delete" /\ cleared' = clearer[c].at,
             \A c \in Clearer : clearer'[c].pc = "delete" => clearer'[c] = clearer[c]
      PROVE  FlightKeepsUp'
  <2>1. flight \in FetchId
    BY <1>1, AdminBounds DEF AdminTypeOK
  <2>2. \A at \in Lists : at <= admins /\ fetch[flight].found >= at => fetch'[flight].found >= at
    BY <2>1, FoundKeepsUp
  <2>3. cleared' \in Lists /\ cleared' <= admins /\ fetch[flight].found >= cleared'
    BY <1>1 DEF FlightKeepsUp, NothingAhead, AdminTypeOK, ClearerRecord
  <2>4. \A c \in Clearer : clearer'[c].pc = "delete" =>
           clearer'[c].at \in Lists /\ clearer'[c].at <= admins /\ fetch[flight].found >= clearer'[c].at
    BY <1>1 DEF FlightKeepsUp, NothingAhead, AdminTypeOK, ClearerRecord
  <2> QED BY <1>1, <2>2, <2>3, <2>4 DEF FlightKeepsUp
<1>2. ASSUME NEW a \in Asker, AskerStep(a) PROVE FlightKeepsUp'
  <2>1. CASE UNCHANGED <<flight, nextFetch, fetch>>
    BY <1>1, <1>2, <2>1, AskerFrame
  <2>2. CASE nextFetch \in FetchId /\ flight' = nextFetch
    <3>1. fetch[nextFetch] = NotFetching
      BY <2>2, AdminBounds DEF FetchesBegin
    <3>2. fetch'[nextFetch].found = NoList
      BY <1>2, <2>2, <3>1, AskerFetches DEF NotFetching
    <3>3. NoList >= cleared /\ \A c \in Clearer : NoList >= clearer[c].at
      BY AdminBounds DEF AdminTypeOK, ClearerRecord
    <3>4. UNCHANGED <<cleared, clearer>>
      BY <1>2, AskerFrame
    <3> QED BY <2>2, <3>2, <3>3, <3>4 DEF FlightKeepsUp
  <2> QED BY <1>2, <2>1, <2>2, AskerFrame
<1>3. ASSUME NEW f \in FetchId, FetchStep(f) PROVE FlightKeepsUp'
  BY <1>1, <1>3, FetchFrame
<1>4. ASSUME NEW c \in Clearer, BeginClear(c) PROVE FlightKeepsUp'
  BY <1>1, <1>4, ClearerBegins
<1>5. ASSUME NEW c \in Clearer, Clear(c) PROVE FlightKeepsUp'
  <2>1. cleared' = cleared \/ \E d \in Clearer : clearer[d].pc = "delete" /\ cleared' = clearer[d].at
    BY <1>5, ClearerMoves
  <2>2. flight' = flight /\ \A d \in Clearer : clearer'[d].pc = "delete" => clearer'[d] = clearer[d]
    BY <1>5, ClearerMoves
  <2> QED BY <1>1, <2>1, <2>2
<1>6. CASE ChangeAdmins \/ ClearElsewhere \/ ExpireList
  <2>1. UNCHANGED <<flight, cleared, clearer>>
    BY <1>6 DEF ChangeAdmins, ClearElsewhere, ExpireList
  <2> QED BY <1>1, <2>1 DEF FlightKeepsUp
<1> QED BY <1>2, <1>3, <1>4, <1>5, <1>6 DEF AdminNext, FlightKeepsUp
\* A fetch that will delete the key goes on being one until it has,
LEMMA CleansOn ==
    ASSUME AdminTypeOK, FetchesBegin, NothingAhead, AdminNext, NEW f \in FetchId, Cleans(f)
    PROVE  Cleans(f)' \/ list' = NoList \/ unsure'
<1>1. ASSUME fetch'[f] = fetch[f], adminGen' \in Nat, adminGen' >= adminGen PROVE Cleans(f)'
  BY <1>1 DEF Cleans, NothingAhead, AdminTypeOK, FetchRecord
<1>2. adminGen' \in Nat /\ adminGen' >= adminGen
  BY OutdatedGrows
<1>3. ASSUME NEW g \in FetchId, FetchStep(g), g # f PROVE Cleans(f)'
  BY <1>1, <1>2, <1>3, FetchFrame
<1>4. ASSUME FetchStep(f) PROVE Cleans(f)' \/ list' = NoList \/ unsure'
  <2>1. CompareAgain(f) \/ ClearOwn(f)
    BY <1>4 DEF FetchStep, NoteGeneration, AskTelegram, CompareGeneration, StoreList, FinishFetch, FetchGoes, Cleans
  <2>2. CASE CompareAgain(f)
    BY <2>2 DEF CompareAgain, FetchGoes, Cleans, AdminTypeOK, FetchRecord
  <2>3. CASE ClearOwn(f)
    <3>1. PICK to \in {"forget", "delete", "finish"} :
             ClearStep(fetch[f].pc, to, "finish") /\ fetch' = [fetch EXCEPT ![f].pc = to]
      BY <2>3 DEF ClearOwn
    <3>2. fetch'[f].pc = to
      BY <3>1 DEF AdminTypeOK, FetchRecord
    <3>3. CASE Raise(fetch[f].pc, to) \/ Forget(fetch[f].pc, to)
      BY <3>2, <3>3 DEF Raise, Forget, Cleans
    <3>4. CASE Delete(fetch[f].pc, to, "finish")
      BY <3>4, Zenon DEF Delete
    <3> QED BY <3>1, <3>3, <3>4 DEF ClearStep
  <2> QED BY <2>1, <2>2, <2>3
<1>5. ASSUME NEW a \in Asker, AskerStep(a) PROVE Cleans(f)'
  <2>1. CASE UNCHANGED fetch
    BY <1>1, <1>2, <2>1
  <2>2. CASE nextFetch \in FetchId /\ fetch' = [fetch EXCEPT ![nextFetch].pc = "start"]
    <3>1. f # nextFetch
      BY <2>2, AdminBounds DEF FetchesBegin, Cleans, NotFetching
    <3> QED BY <1>1, <1>2, <2>2, <3>1 DEF AdminTypeOK
  <2> QED BY <1>5, <2>1, <2>2, AskerFrame
<1>6. ASSUME NEW c \in Clearer, BeginClear(c) \/ Clear(c) PROVE Cleans(f)'
  BY <1>1, <1>2, <1>6, ClearerBegins, ClearerMoves
<1>7. CASE ChangeAdmins \/ ClearElsewhere \/ ExpireList
  BY <1>1, <1>2, <1>7 DEF ChangeAdmins, ClearElsewhere, ExpireList
<1> QED BY <1>3, <1>4, <1>5, <1>6, <1>7 DEF AdminNext
\* and a list comes only from a fetch.
LEMMA ListMoves ==
    ASSUME AdminTypeOK, AdminNext, unsure' # TRUE
    PROVE  /\ unsure' = unsure
           /\ \/ list' = list /\ cleared' = cleared
              \/ list' = NoList
              \/ \E f \in FetchId :
                    /\ fetch[f].pc = "store" /\ fetch'[f] = [fetch[f] EXCEPT !.pc = "recheck"]
                    /\ list' = fetch[f].found /\ UNCHANGED <<adminGen, cleared>>
<1>1. ASSUME NEW f \in FetchId, StoreList(f)
      PROVE  /\ unsure' = unsure
             /\ \/ list' = list /\ cleared' = cleared
                \/ /\ fetch[f].pc = "store" /\ fetch'[f] = [fetch[f] EXCEPT !.pc = "recheck"]
                   /\ list' = fetch[f].found /\ UNCHANGED <<adminGen, cleared>>
  BY <1>1 DEF StoreList, FetchGoes, AdminTypeOK
<1>2. ASSUME NEW f \in FetchId, ClearOwn(f)
      PROVE  unsure' = unsure /\ ((list' = list /\ cleared' = cleared) \/ list' = NoList)
  BY <1>2 DEF ClearOwn, ClearStep, Raise, Forget, Delete
<1>3. ASSUME NEW f \in FetchId,
             NoteGeneration(f) \/ AskTelegram(f) \/ CompareGeneration(f) \/ CompareAgain(f) \/ FinishFetch(f)
      PROVE  unsure' = unsure /\ list' = list /\ cleared' = cleared
  BY <1>3 DEF NoteGeneration, AskTelegram, CompareGeneration, CompareAgain, FinishFetch
<1>4. ASSUME NEW c \in Clearer, Clear(c)
      PROVE  unsure' = unsure /\ ((list' = list /\ cleared' = cleared) \/ list' = NoList)
  BY <1>4 DEF Clear, ClearStep, Raise, Forget, Delete, AdminTypeOK, ClearerRecord
<1>5. ASSUME NEW c \in Clearer, BeginClear(c) PROVE unsure' = unsure /\ list' = list /\ cleared' = cleared
  BY <1>5 DEF BeginClear
<1>6. ASSUME NEW a \in Asker, AskerStep(a) PROVE unsure' = unsure /\ list' = list /\ cleared' = cleared
  BY <1>6, AskerFrame
<1>7. ASSUME ChangeAdmins \/ ClearElsewhere \/ ExpireList
      PROVE  unsure' = unsure /\ ((list' = list /\ cleared' = cleared) \/ list' = NoList)
  BY <1>7 DEF ChangeAdmins, ClearElsewhere, ExpireList
<1> QED BY <1>1, <1>2, <1>3, <1>4, <1>5, <1>6, <1>7 DEF AdminNext, FetchStep

\* An old list is doomed: whoever stores one has been overtaken and will notice, and
\* whoever clears has deleted what was there.
LEMMA DoomedStep ==
    ASSUME AdminTypeOK, FetchesBegin, NothingAhead, FetchesKeepUp, OldListIsDoomed, AdminNext
    PROVE  OldListIsDoomed'
<1> SUFFICES ASSUME list' # NoList, list' < cleared', ~unsure' PROVE \E f \in FetchId : Cleans(f)'
  BY DEF OldListIsDoomed
<1> unsure' # TRUE
  BY Zenon
<1>1. ~unsure
  <2>1. unsure' = unsure
    BY ListMoves
  <2> QED BY <2>1, Zenon
<1>2. CASE list' = list /\ cleared' = cleared
  <2>1. PICK f \in FetchId : Cleans(f)
    BY <1>1, <1>2 DEF OldListIsDoomed
  <2> QED BY <2>1, CleansOn
<1>3. ASSUME NEW f \in FetchId, fetch[f].pc = "store", fetch'[f] = [fetch[f] EXCEPT !.pc = "recheck"],
             list' = fetch[f].found, UNCHANGED <<adminGen, cleared>>
      PROVE  Cleans(f)'
  <2>1. fetch'[f].pc = "recheck" /\ fetch'[f].gen = fetch[f].gen
    BY <1>3 DEF AdminTypeOK, FetchRecord
  <2>2. fetch[f].gen = adminGen => fetch[f].found >= cleared
    BY <1>3 DEF FetchesKeepUp, Outdated
  <2>3. fetch[f].found \in Nat /\ cleared \in Nat
    BY AdminBounds DEF AdminTypeOK, FetchRecord
  <2> QED BY <1>3, <2>1, <2>2, <2>3 DEF Cleans
<1> QED BY <1>2, <1>3, ListMoves

\* An asker who has seen no clearing begin knows which are about to forget the flight.
LEMMA AskersStep ==
    ASSUME AdminTypeOK, FetchesBegin, NothingAhead, FlightKeepsUp, AskersKnow, AdminNext
    PROVE  AskersKnow'
<1> USE DEF AskersKnow
<1> DEFINE Knows(a) ==
        /\ asker[a].pc \in {"join", "wait"} /\ asker[a].gen = adminGen => Forgetting \subseteq asker[a].behind
        /\ asker[a].pc = "wait" =>
              /\ asker[a].call \in 1..nextFetch - 1
              /\ fetch[asker[a].call].found >= asker[a].floor
              /\ asker[a].gen = adminGen
                    => \A at \in Outdated \ asker[a].behind : fetch[asker[a].call].found >= at
<1>1. ASSUME NEW a \in Asker, asker'[a] = asker[a] PROVE Knows(a)'
  <2>1. asker[a].gen = adminGen' => adminGen' = adminGen
    BY OutdatedGrows DEF NothingAhead, AdminTypeOK, AskerRecord
  <2>2. asker[a].gen = adminGen' => Outdated' \subseteq Outdated /\ Forgetting' \subseteq Forgetting
    BY <2>1, OutdatedGrows
  <2>3. CASE asker[a].pc = "wait"
    <3>1. asker[a].call \in FetchId /\ asker[a].call \in 1..nextFetch - 1
      BY <2>3, AdminBounds DEF AdminTypeOK
    <3>2. nextFetch' \in {nextFetch, nextFetch + 1}
      BY FetchFrame, AskerFrame, ClearerBegins, ClearerMoves DEF AdminNext, ChangeAdmins, ClearElsewhere, ExpireList
    <3>3. asker[a].call \in 1..nextFetch' - 1
      BY <3>1, <3>2 DEF AdminTypeOK
    <3>4. asker[a].floor \in Lists /\ asker[a].floor <= admins
      BY AdminBounds DEF NothingAhead, AdminTypeOK, AskerRecord
    <3>5. fetch'[asker[a].call].found >= asker[a].floor
      BY <2>3, <3>1, <3>4, FoundKeepsUp
    <3>6. ASSUME asker[a].gen = adminGen', NEW at \in Outdated' \ asker[a].behind
          PROVE  fetch'[asker[a].call].found >= at
      BY <2>1, <2>2, <2>3, <3>1, <3>6, FoundKeepsUp, OutdatedBounds
    <3> QED BY <1>1, <2>1, <2>2, <2>3, <3>3, <3>5, <3>6
  <2>4. CASE asker[a].pc # "wait"
    BY <1>1, <2>1, <2>2, <2>4
  <2> QED BY <2>3, <2>4
<1>2. ASSUME NEW a \in Asker, AskerStep(a) PROVE Knows(a)'
  <2>1. UNCHANGED <<adminGen, cleared, clearer>> /\ Outdated' = Outdated /\ Forgetting' = Forgetting
    BY <1>2, AskerFrame DEF Outdated, Forgetting
  <2>2. CASE Asks(a)
    BY <2>1, <2>2 DEF Asks, NotAsking, AdminTypeOK
  <2>3. CASE JoinFlight(a)
    <3> DEFINE f == flight'
    <3>1. /\ f \in FetchId /\ f < nextFetch' /\ flight' = f
          /\ asker' = [asker EXCEPT ![a].pc = "wait", ![a].call = f]
      <4>1. CASE /\ flight # 0 /\ UNCHANGED <<flight, nextFetch>>
                 /\ asker' = [asker EXCEPT ![a].pc = "wait", ![a].call = flight]
        BY <4>1, AdminBounds DEF FetchesBegin, AdminTypeOK
      <4>2. CASE /\ nextFetch \in FetchId /\ flight' = nextFetch /\ nextFetch' = nextFetch + 1
                 /\ asker' = [asker EXCEPT ![a].pc = "wait", ![a].call = nextFetch]
        BY <4>2, AdminBounds
      <4> QED BY <2>3, <4>1, <4>2 DEF JoinFlight
    <3> HIDE DEF f
    <3>2. /\ asker'[a].pc = "wait" /\ asker'[a].call = f /\ asker'[a].gen = asker[a].gen
          /\ asker'[a].floor = asker[a].floor /\ asker'[a].behind = asker[a].behind /\ asker[a].pc = "join"
      BY <2>3, <3>1 DEF JoinFlight, AdminTypeOK, AskerRecord
    <3>3. FlightKeepsUp'
      BY FlightStep
    <3>4. /\ fetch'[f].found >= cleared
          /\ \A c \in Clearer : clearer[c].pc = "delete" => fetch'[f].found >= clearer[c].at
      BY <2>1, <3>1, <3>3 DEF FlightKeepsUp
    <3>5. asker[a].gen = adminGen => \A at \in Outdated \ asker[a].behind : fetch'[f].found >= at
      BY <3>2, <3>4 DEF Outdated, Forgetting
    <3>6. fetch'[f].found >= asker[a].floor
      <4>1. fetch'[f].found \in Nat
        <5>1. fetch[f].found \in Lists \cup {NoList}
          BY <3>1 DEF AdminTypeOK, FetchRecord
        <5>2. fetch'[f].found \in {fetch[f].found, admins, NoList}
          BY <3>1, FoundKeepsUp
        <5> QED BY <5>1, <5>2, AdminBounds DEF AdminTypeOK
      <4> QED BY <3>4, <4>1 DEF NothingAhead, AdminTypeOK, AskerRecord
    <3>7. f \in 1..nextFetch' - 1
      BY <3>1, <1>2, AskerFrame, AdminBounds DEF AdminTypeOK
    <3> QED BY <2>1, <3>2, <3>5, <3>6, <3>7
  <2>4. CASE BelieveIfCurrent(a)
    BY <2>4 DEF BelieveIfCurrent, Told, NotAsking, AdminTypeOK
  <2> QED BY <1>2, <2>2, <2>3, <2>4 DEF AskerStep
<1>3. \A a \in Asker : asker'[a] = asker[a] \/ AskerStep(a)
  BY FetchFrame, AskerFrame, ClearerBegins, ClearerMoves DEF AdminNext, ChangeAdmins, ClearElsewhere, ExpireList
<1> HIDE DEF Knows
<1>4. \A a \in Asker : Knows(a)'
  BY <1>1, <1>2, <1>3
<1> QED BY <1>4 DEF Knows

\* What an asker is told has kept up with what was due.
LEMMA CurrentStep ==
    ASSUME AdminTypeOK, AskersKnow, AnswersAreCurrent, AdminNext PROVE AnswersAreCurrent'
<1> SUFFICES ASSUME NEW a \in Asker, asker'[a].pc = "told"
             PROVE  /\ asker'[a].answer # NoList => asker'[a].answer >= asker'[a].floor
                    /\ asker'[a].answer # NoList =>
                          \A at \in asker'[a].due \ asker'[a].behind : asker'[a].answer >= at
  BY DEF AnswersAreCurrent
<1>1. CASE BelieveIfCurrent(a)
  <2>1. asker'[a] = Told(a) /\ asker[a].pc = "wait" /\ asker[a].gen = adminGen
    BY <1>1 DEF BelieveIfCurrent, NotAsking, AdminTypeOK
  <2>2. /\ asker'[a].answer = fetch[asker[a].call].found /\ asker'[a].due = Outdated
        /\ asker'[a].floor = asker[a].floor /\ asker'[a].behind = asker[a].behind
    BY <2>1 DEF Told, AdminTypeOK, AskerRecord
  <2> QED BY <2>1, <2>2 DEF AskersKnow
<1>2. CASE Asks(a)
  BY <1>2 DEF Asks, NotAsking, AdminTypeOK
<1>3. CASE JoinFlight(a)
  <2>1. asker'[a].pc = "wait"
    BY <1>3 DEF JoinFlight, AdminTypeOK, AskerRecord
  <2> QED BY <2>1
<1>4. CASE asker'[a] = asker[a]
  BY <1>4 DEF AnswersAreCurrent
<1>5. asker'[a] = asker[a] \/ AskerStep(a)
  BY FetchFrame, AskerFrame, ClearerBegins, ClearerMoves DEF AdminNext, ChangeAdmins, ClearElsewhere, ExpireList
<1> QED BY <1>1, <1>2, <1>3, <1>4, <1>5 DEF AskerStep

--------------------------------------------------------------------------------
(* AdminCache: the theorems *)

\* The invariant holds at the start,
LEMMA AdminInvariantInit == AdminInit => AdminInvariant
<1> SUFFICES ASSUME AdminInit PROVE AdminInvariant
  OBVIOUS
<1> USE AdminBounds DEF AdminInit, NotFetching, NotAsking
<1>1. FetchesBegin /\ NothingAhead /\ FetchesKeepUp
  BY DEF FetchesBegin, NothingAhead, FetchesKeepUp
<1>2. FlightKeepsUp /\ OldListIsDoomed /\ AskersKnow /\ AnswersAreCurrent
  BY DEF FlightKeepsUp, OldListIsDoomed, AskersKnow, AnswersAreCurrent
<1> QED BY <1>1, <1>2 DEF AdminInvariant

\* every step keeps it,
LEMMA AdminInvariantStep ==
    AdminTypeOK /\ AdminInvariant /\ [AdminNext]_adminVars => (AdminTypeOK /\ AdminInvariant)'
<1> SUFFICES ASSUME AdminTypeOK, AdminInvariant, [AdminNext]_adminVars PROVE AdminTypeOK' /\ AdminInvariant'
  OBVIOUS
<1>1. CASE AdminNext
  <2>1. AdminTypeOK'
    BY <1>1, FetchTypes, AskerTypes, ClearerTypes, OutsideTypes DEF AdminNext, AdminInvariant
  <2> QED BY <1>1, <2>1, BeginStep, AheadStep, KeepUpStep, FlightStep, DoomedStep, AskersStep, CurrentStep
          DEF AdminInvariant
<1>2. CASE UNCHANGED adminVars
  BY <1>2 DEF adminVars, AdminTypeOK, AdminInvariant, FetchesBegin, NothingAhead, FetchesKeepUp, FlightKeepsUp,
              OldListIsDoomed, AskersKnow, AnswersAreCurrent, Outdated, Forgetting, Cleans
<1> QED BY <1>1, <1>2

\* and so it always holds, for any number of goroutines, of fetches and of clearings.
THEOREM AdminCorrect == AdminSpec => [](AdminTypeOK /\ AdminInvariant)
BY AdminTypeInit, AdminInvariantInit, AdminInvariantStep, PTL DEF AdminSpec

\* A list of administrators from before a clearing that has ended does not stay in Redis.
THEOREM OldListsDoomed == AdminSpec => []OldListIsDoomed
<1>1. AdminInvariant => OldListIsDoomed
  BY DEF AdminInvariant
<1> QED BY <1>1, AdminCorrect, PTL

\* The list a caller of LoadAdminCache believes has seen what every clearing is about
\* that was over when it asked, or that has begun since.
THEOREM AnswersCurrent == AdminSpec => []AnswersAreCurrent
<1>1. AdminInvariant => AnswersAreCurrent
  BY DEF AdminInvariant
<1> QED BY <1>1, AdminCorrect, PTL
================================================================================
