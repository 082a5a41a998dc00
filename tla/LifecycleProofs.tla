---------------------------- MODULE LifecycleProofs ----------------------------
(* Theorems about Shutdown and Migrations, for every number of updates, replicas, *)
(* migration files, workers and every capacity of the queues.  MCLifecycle, which *)
(* runs the two beside each other, keeps the types of both.                       *)
EXTENDS MCLifecycle, FiniteSetTheorems, TLAPS

--------------------------------------------------------------------------------
(* Shutdown: the inductive invariant *)

\* The manager gets to the handlers one after the other, and leaves one behind only
\* when it is over or late.
OneByOne ==
    \A i \in 1..4 :
        /\ i > turn => handler[Stages[i]] = "idle"
        /\ i < turn => handler[Stages[i]] = "over" \/ Stages[i] \in late

Gone(s) == handler[s] = "over" \/ s \in late

\* What a handler has done to the rest of the process as soon as it has begun.
HandlersAct ==
    /\ closed => handler["intake"] # "idle"
    /\ handler["intake"] # "idle" => closed
    /\ cancelled => handler["intake"] = "over"
    /\ db = "closed" => handler["db"] # "idle"
    /\ handler["checks"] = "idle" => ahead = {}

\* A handler in time leaves nothing to do: no update; no check and no write, as long
\* as no update starts another one.
IntakeLeavesNothing ==
    handler["intake"] = "over" /\ ("intake" \notin late \/ mode = "polling") =>
        \A u \in Update : upd[u] \notin Accepted
ChecksLeaveNothing ==
    handler["checks"] = "over" /\ "checks" \notin late /\ "intake" \notin late =>
        \A u \in Update : check[u] \notin Counted
WritesLeaveNothing ==
    handler["writes"] = "over" /\ "writes" \notin late /\ "intake" \notin late =>
        \A u \in Update : write[u] # "running"

\* A check goes to the queue in the goroutine of its update.
CheckInUpdate == \A u \in Update : check[u] \in {"found", "counted", "admitted"} => upd[u] = "tracked"

\* A check that had passed the flag before the drain set it goes on or is over.
AheadGoesOn == \A u \in ahead : check[u] \in {"admitted", "queued", "judging", "shed", "over"}

DownInvariant ==
    /\ DownTypeOK
    /\ OneByOne /\ HandlersAct
    /\ IntakeLeavesNothing /\ ChecksLeaveNothing /\ WritesLeaveNothing
    /\ CheckInUpdate /\ AheadGoesOn /\ DrainWaits /\ AcceptedIsHandled

\* What is known when the process has ended.
ExitKnown ==
    /\ exit = "clean" => turn = 5
    /\ exit = "forced" => late # {}
    /\ exit = "returned" => mode = "polling" /\ handler["intake"] = "over"

LEMMA StageNames ==
    /\ Stage = {"intake", "checks", "writes", "db"} /\ Len(Stages) = 4
    /\ Stages[1] = "intake" /\ Stages[2] = "checks" /\ Stages[3] = "writes" /\ Stages[4] = "db"
<1>1. DOMAIN Stages = 1..4
    BY DEF Stages
<1>2. 1..4 = {1, 2, 3, 4}
    OBVIOUS
<1> QED
    BY <1>1, <1>2 DEF Stage, Stages

\* Whoever comes later has waited for those before, or they were late.
LEMMA InOrder ==
    ASSUME DownInvariant
    PROVE  /\ handler["checks"] # "idle" => Gone("intake")
           /\ handler["writes"] # "idle" => Gone("intake") /\ Gone("checks")
           /\ handler["db"] # "idle" => Gone("intake") /\ Gone("checks") /\ Gone("writes")
<1>1. turn \in 0..5
    BY StageNames DEF DownInvariant, DownTypeOK
<1>2. \A i, j \in 1..4 : j < i /\ handler[Stages[i]] # "idle" =>
          handler[Stages[j]] = "over" \/ Stages[j] \in late
    BY <1>1 DEF DownInvariant, OneByOne
<1> QED
    BY <1>2, StageNames DEF Gone

LEMMA PostKeeps ==
    ASSUME DownInvariant, NEW u \in Update, Post(u)
    PROVE  DownInvariant'
<1>1. DownTypeOK'
    BY DEF DownInvariant, DownTypeOK, Stage, Stages, Accepted, Counted, Post, UpdGoes, spam,
       tail
<1>2. /\ OneByOne' /\ HandlersAct' /\ ChecksLeaveNothing'
      /\ WritesLeaveNothing' /\ AheadGoesOn' /\ DrainWaits'
    BY DEF DownInvariant, OneByOne, HandlersAct, ChecksLeaveNothing, WritesLeaveNothing,
       AheadGoesOn, DrainWaits, Post, UpdGoes, spam, tail
<1>3. IntakeLeavesNothing'
    BY DEF DownInvariant, DownTypeOK, IntakeLeavesNothing, Post, UpdGoes, spam, tail, Accepted
<1>4. CheckInUpdate'
    BY DEF DownInvariant, DownTypeOK, CheckInUpdate, Post, UpdGoes, spam, tail
<1>5. AcceptedIsHandled'
    BY DEF DownInvariant, DownTypeOK, AcceptedIsHandled, Post, UpdGoes, spam, tail
<1> QED
    BY <1>1, <1>2, <1>3, <1>4, <1>5 DEF DownInvariant

LEMMA EnqueueUpdateKeeps ==
    ASSUME DownInvariant, NEW u \in Update, EnqueueUpdate(u)
    PROVE  DownInvariant'
<1>1. queue \in Seq(Update) /\ Len(queue) <= QueueSize /\ QueueSize \in Nat
    BY ShutdownAssumption DEF DownInvariant, DownTypeOK
<1>2. queue' \in Seq(Update) /\ Len(queue') <= QueueSize
    BY <1>1 DEF EnqueueUpdate
<1>3. upd' \in [Update -> Accepted \cup {"new", "request", "refused", "dropped", "handled"}]
    BY DEF DownInvariant, DownTypeOK, Accepted, Counted, EnqueueUpdate, UpdGoes, spam, tail
<1>4. DownTypeOK'
    BY <1>2, <1>3 DEF DownInvariant, DownTypeOK, EnqueueUpdate, UpdGoes, spam, tail
<1>5. /\ OneByOne' /\ HandlersAct' /\ ChecksLeaveNothing'
      /\ WritesLeaveNothing' /\ AheadGoesOn' /\ DrainWaits'
    BY DEF DownInvariant, OneByOne, HandlersAct, ChecksLeaveNothing, WritesLeaveNothing,
       AheadGoesOn, DrainWaits, EnqueueUpdate, UpdGoes, spam, tail
<1>6. IntakeLeavesNothing'
    BY DEF DownInvariant, DownTypeOK, IntakeLeavesNothing, HandlersAct, EnqueueUpdate, UpdGoes,
       spam, tail, Accepted
<1>7. CheckInUpdate'
    BY DEF DownInvariant, DownTypeOK, CheckInUpdate, EnqueueUpdate, UpdGoes, spam, tail
<1>8. AcceptedIsHandled'
    BY DEF DownInvariant, DownTypeOK, AcceptedIsHandled, EnqueueUpdate, UpdGoes, spam, tail
<1> QED
    BY <1>1, <1>2, <1>3, <1>4, <1>5, <1>6, <1>7, <1>8 DEF DownInvariant

LEMMA DispatchKeeps ==
    ASSUME DownInvariant, NEW u \in Update, Dispatch(u)
    PROVE  DownInvariant'
<1>1. queue \in Seq(Update) /\ Len(queue) <= QueueSize /\ QueueSize \in Nat
    BY ShutdownAssumption DEF DownInvariant, DownTypeOK
<1>2. queue' \in Seq(Update) /\ Len(queue') <= QueueSize
    BY <1>1 DEF Dispatch
<1>3. upd' \in [Update -> Accepted \cup {"new", "request", "refused", "dropped", "handled"}]
    BY DEF DownInvariant, DownTypeOK, Accepted, Counted, Dispatch, UpdGoes, spam, tail
<1>4. DownTypeOK'
    BY <1>2, <1>3 DEF DownInvariant, DownTypeOK, Dispatch, UpdGoes, spam, tail
<1>5. /\ OneByOne' /\ HandlersAct' /\ ChecksLeaveNothing'
      /\ WritesLeaveNothing' /\ AheadGoesOn' /\ DrainWaits'
    BY DEF DownInvariant, OneByOne, HandlersAct, ChecksLeaveNothing, WritesLeaveNothing,
       AheadGoesOn, DrainWaits, Dispatch, UpdGoes, spam, tail
<1>6. IntakeLeavesNothing'
    BY DEF DownInvariant, DownTypeOK, IntakeLeavesNothing, Dispatch, UpdGoes, spam, tail,
       Accepted
<1>7. CheckInUpdate'
    BY DEF DownInvariant, DownTypeOK, CheckInUpdate, Dispatch, UpdGoes, spam, tail
<1>8. AcceptedIsHandled'
    BY DEF DownInvariant, DownTypeOK, AcceptedIsHandled, HandlersAct, IntakeLeavesNothing,
       Accepted, Dispatch, UpdGoes, spam, tail
<1> QED
    BY <1>1, <1>2, <1>3, <1>4, <1>5, <1>6, <1>7, <1>8 DEF DownInvariant

LEMMA PollKeeps ==
    ASSUME DownInvariant, NEW u \in Update, Poll(u)
    PROVE  DownInvariant'
<1>1. DownTypeOK'
    BY DEF DownInvariant, DownTypeOK, Stage, Stages, Accepted, Counted, Poll, UpdGoes, spam,
       tail
<1>2. /\ OneByOne' /\ HandlersAct' /\ ChecksLeaveNothing'
      /\ WritesLeaveNothing' /\ AheadGoesOn' /\ DrainWaits'
    BY DEF DownInvariant, OneByOne, HandlersAct, ChecksLeaveNothing, WritesLeaveNothing,
       AheadGoesOn, DrainWaits, Poll, UpdGoes, spam, tail
<1>3. IntakeLeavesNothing'
    BY DEF DownInvariant, DownTypeOK, IntakeLeavesNothing, HandlersAct, Poll, UpdGoes, spam,
       tail, Accepted
<1>4. CheckInUpdate'
    BY DEF DownInvariant, DownTypeOK, CheckInUpdate, Poll, UpdGoes, spam, tail
<1>5. AcceptedIsHandled'
    BY DEF DownInvariant, DownTypeOK, AcceptedIsHandled, Poll, UpdGoes, spam, tail
<1> QED
    BY <1>1, <1>2, <1>3, <1>4, <1>5 DEF DownInvariant

LEMMA LogUsersKeeps ==
    ASSUME DownInvariant, NEW u \in Update, LogUsers(u)
    PROVE  DownInvariant'
<1>1. DownTypeOK'
    BY DEF DownInvariant, DownTypeOK, Stage, Stages, Accepted, Counted, LogUsers, UpdGoes, spam,
       tail
<1>2. OneByOne' /\ HandlersAct' /\ ChecksLeaveNothing' /\ AheadGoesOn' /\ DrainWaits'
    BY DEF DownInvariant, OneByOne, HandlersAct, ChecksLeaveNothing, AheadGoesOn, DrainWaits,
       LogUsers, UpdGoes, spam, tail
<1>3. IntakeLeavesNothing'
    BY DEF DownInvariant, DownTypeOK, IntakeLeavesNothing, LogUsers, UpdGoes, spam, tail,
       Accepted
<1>4. handler["writes"] = "over" => "intake" \in late
    BY InOrder DEF LogUsers, UpdGoes, DownInvariant, IntakeLeavesNothing, Accepted, Gone
<1>5. WritesLeaveNothing'
    BY <1>4 DEF DownInvariant, WritesLeaveNothing, LogUsers, UpdGoes, spam, tail
<1>6. CheckInUpdate'
    BY DEF DownInvariant, DownTypeOK, CheckInUpdate, LogUsers, UpdGoes, spam, tail
<1>7. AcceptedIsHandled'
    BY DEF DownInvariant, DownTypeOK, AcceptedIsHandled, LogUsers, UpdGoes, spam, tail
<1> QED
    BY <1>1, <1>2, <1>3, <1>4, <1>5, <1>6, <1>7 DEF DownInvariant

LEMMA WriteDoneKeeps ==
    ASSUME DownInvariant, NEW u \in Update, WriteDone(u)
    PROVE  DownInvariant'
<1>1. DownTypeOK'
    BY DEF DownInvariant, DownTypeOK, Stage, Stages, Accepted, Counted, WriteDone, inflow, spam,
       tail
<1>2. /\ OneByOne' /\ HandlersAct' /\ IntakeLeavesNothing' /\ ChecksLeaveNothing'
      /\ CheckInUpdate' /\ AheadGoesOn' /\ DrainWaits' /\ AcceptedIsHandled'
    BY DEF DownInvariant, OneByOne, HandlersAct, IntakeLeavesNothing, ChecksLeaveNothing,
       CheckInUpdate, AheadGoesOn, DrainWaits, AcceptedIsHandled, WriteDone, inflow, spam, tail
<1>3. WritesLeaveNothing'
    BY DEF DownInvariant, DownTypeOK, WritesLeaveNothing, WriteDone, inflow, spam, tail,
       Accepted
<1> QED
    BY <1>1, <1>2, <1>3 DEF DownInvariant

LEMMA CheckAISpamKeeps ==
    ASSUME DownInvariant, NEW u \in Update, CheckAISpam(u)
    PROVE  DownInvariant'
<1>1. DownTypeOK'
    BY DEF DownInvariant, DownTypeOK, Stage, Stages, Accepted, Counted, CheckAISpam, CheckGoes,
       inflow, tail
<1>2. /\ OneByOne' /\ HandlersAct' /\ IntakeLeavesNothing'
      /\ WritesLeaveNothing' /\ AcceptedIsHandled'
    BY DEF DownInvariant, OneByOne, HandlersAct, IntakeLeavesNothing, WritesLeaveNothing,
       AcceptedIsHandled, CheckAISpam, CheckGoes, inflow, tail
<1>3. ChecksLeaveNothing'
    BY DEF DownInvariant, DownTypeOK, ChecksLeaveNothing, CheckAISpam, CheckGoes, inflow, tail,
       Counted, Accepted
<1>4. CheckInUpdate'
    BY DEF DownInvariant, DownTypeOK, CheckInUpdate, CheckAISpam, CheckGoes, inflow, tail
<1>5. AheadGoesOn'
    BY DEF DownInvariant, DownTypeOK, AheadGoesOn, CheckAISpam, CheckGoes, inflow, tail
<1>6. DrainWaits'
    BY DEF DownInvariant, DownTypeOK, DrainWaits, CheckAISpam, CheckGoes, inflow, tail, Counted
<1> QED
    BY <1>1, <1>2, <1>3, <1>4, <1>5, <1>6 DEF DownInvariant

LEMMA HandledKeeps ==
    ASSUME DownInvariant, NEW u \in Update, Handled(u)
    PROVE  DownInvariant'
<1>1. DownTypeOK'
    BY DEF DownInvariant, DownTypeOK, Stage, Stages, Accepted, Counted, Handled, UpdGoes, spam,
       tail
<1>2. /\ OneByOne' /\ HandlersAct' /\ ChecksLeaveNothing'
      /\ WritesLeaveNothing' /\ AheadGoesOn' /\ DrainWaits'
    BY DEF DownInvariant, OneByOne, HandlersAct, ChecksLeaveNothing, WritesLeaveNothing,
       AheadGoesOn, DrainWaits, Handled, UpdGoes, spam, tail
<1>3. IntakeLeavesNothing'
    BY DEF DownInvariant, DownTypeOK, IntakeLeavesNothing, Handled, UpdGoes, spam, tail,
       Accepted
<1>4. CheckInUpdate'
    BY DEF DownInvariant, DownTypeOK, CheckInUpdate, Handled, UpdGoes, spam, tail
<1>5. AcceptedIsHandled'
    BY DEF DownInvariant, DownTypeOK, AcceptedIsHandled, Handled, UpdGoes, spam, tail
<1> QED
    BY <1>1, <1>2, <1>3, <1>4, <1>5 DEF DownInvariant

LEMMA CountCheckKeeps ==
    ASSUME DownInvariant, NEW u \in Update, CountCheck(u)
    PROVE  DownInvariant'
<1>1. DownTypeOK'
    BY DEF DownInvariant, DownTypeOK, Stage, Stages, Accepted, Counted, CountCheck, CheckGoes,
       inflow, tail
<1>2. /\ OneByOne' /\ HandlersAct' /\ IntakeLeavesNothing'
      /\ WritesLeaveNothing' /\ AcceptedIsHandled'
    BY DEF DownInvariant, OneByOne, HandlersAct, IntakeLeavesNothing, WritesLeaveNothing,
       AcceptedIsHandled, CountCheck, CheckGoes, inflow, tail
<1>3. ChecksLeaveNothing'
    BY InOrder
       DEF DownInvariant, DownTypeOK, ChecksLeaveNothing, Gone, IntakeLeavesNothing,
           CheckInUpdate, CountCheck, CheckGoes, inflow, spam, tail, Counted, Accepted
<1>4. CheckInUpdate'
    BY DEF DownInvariant, DownTypeOK, CheckInUpdate, CountCheck, CheckGoes, inflow, tail
<1>5. AheadGoesOn'
    BY DEF DownInvariant, DownTypeOK, AheadGoesOn, CountCheck, CheckGoes, inflow, tail
<1>6. DrainWaits'
    BY DEF DownInvariant, DownTypeOK, DrainWaits, CountCheck, CheckGoes, inflow, tail, Counted
<1> QED
    BY <1>1, <1>2, <1>3, <1>4, <1>5, <1>6 DEF DownInvariant

LEMMA ReadFlagKeeps ==
    ASSUME DownInvariant, NEW u \in Update, ReadFlag(u)
    PROVE  DownInvariant'
<1>1. DownTypeOK'
    BY DEF DownInvariant, DownTypeOK, Stage, Stages, Accepted, Counted, ReadFlag, CheckGoes,
       inflow, tail
<1>2. /\ OneByOne' /\ HandlersAct' /\ IntakeLeavesNothing'
      /\ WritesLeaveNothing' /\ AcceptedIsHandled'
    BY DEF DownInvariant, OneByOne, HandlersAct, IntakeLeavesNothing, WritesLeaveNothing,
       AcceptedIsHandled, ReadFlag, CheckGoes, inflow, tail
<1>3. ChecksLeaveNothing'
    BY DEF DownInvariant, DownTypeOK, ChecksLeaveNothing, ReadFlag, CheckGoes, inflow, tail,
       Counted, Accepted
<1>4. CheckInUpdate'
    BY DEF DownInvariant, DownTypeOK, CheckInUpdate, ReadFlag, CheckGoes, inflow, tail
<1>5. AheadGoesOn'
    BY DEF DownInvariant, DownTypeOK, AheadGoesOn, ReadFlag, CheckGoes, inflow, tail
<1>6. DrainWaits'
    BY DEF DownInvariant, DownTypeOK, DrainWaits, ReadFlag, CheckGoes, inflow, tail, Counted
<1> QED
    BY <1>1, <1>2, <1>3, <1>4, <1>5, <1>6 DEF DownInvariant

LEMMA OfferKeeps ==
    ASSUME DownInvariant, NEW u \in Update, Offer(u)
    PROVE  DownInvariant'
<1>1. checks \in Seq(Update) /\ Len(checks) <= CheckQueue /\ CheckQueue \in Nat
    BY ShutdownAssumption DEF DownInvariant, DownTypeOK
<1>2. checks' \in Seq(Update) /\ Len(checks') <= CheckQueue
    BY <1>1 DEF Offer
<1>3. check' \in [Update -> Counted \cup {"none", "found", "shed", "over"}]
    BY DEF DownInvariant, DownTypeOK, Accepted, Counted, Offer, CheckGoes, inflow, tail
<1>4. DownTypeOK'
    BY <1>2, <1>3 DEF DownInvariant, DownTypeOK, Offer, CheckGoes, inflow, tail
<1>5. /\ OneByOne' /\ HandlersAct' /\ IntakeLeavesNothing'
      /\ WritesLeaveNothing' /\ AcceptedIsHandled'
    BY DEF DownInvariant, OneByOne, HandlersAct, IntakeLeavesNothing, WritesLeaveNothing,
       AcceptedIsHandled, Offer, CheckGoes, inflow, tail
<1>6. ChecksLeaveNothing'
    BY DEF DownInvariant, DownTypeOK, ChecksLeaveNothing, Offer, CheckGoes, inflow, tail,
       Counted, Accepted
<1>7. CheckInUpdate'
    BY DEF DownInvariant, DownTypeOK, CheckInUpdate, Offer, CheckGoes, inflow, tail
<1>8. AheadGoesOn'
    BY DEF DownInvariant, DownTypeOK, AheadGoesOn, Offer, CheckGoes, inflow, tail
<1>9. DrainWaits'
    BY DEF DownInvariant, DownTypeOK, DrainWaits, Offer, CheckGoes, inflow, tail, Counted
<1> QED
    BY <1>1, <1>2, <1>3, <1>4, <1>5, <1>6, <1>7, <1>8, <1>9 DEF DownInvariant

LEMMA TakeCheckKeeps ==
    ASSUME DownInvariant, NEW u \in Update, TakeCheck(u)
    PROVE  DownInvariant'
<1>1. checks \in Seq(Update) /\ Len(checks) <= CheckQueue /\ CheckQueue \in Nat
    BY ShutdownAssumption DEF DownInvariant, DownTypeOK
<1>2. checks' \in Seq(Update) /\ Len(checks') <= CheckQueue
    BY <1>1 DEF TakeCheck
<1>3. check' \in [Update -> Counted \cup {"none", "found", "shed", "over"}]
    BY DEF DownInvariant, DownTypeOK, Accepted, Counted, TakeCheck, CheckGoes, inflow, tail
<1>4. DownTypeOK'
    BY <1>2, <1>3 DEF DownInvariant, DownTypeOK, TakeCheck, CheckGoes, inflow, tail
<1>5. /\ OneByOne' /\ HandlersAct' /\ IntakeLeavesNothing'
      /\ WritesLeaveNothing' /\ AcceptedIsHandled'
    BY DEF DownInvariant, OneByOne, HandlersAct, IntakeLeavesNothing, WritesLeaveNothing,
       AcceptedIsHandled, TakeCheck, CheckGoes, inflow, tail
<1>6. ChecksLeaveNothing'
    BY DEF DownInvariant, DownTypeOK, ChecksLeaveNothing, TakeCheck, CheckGoes, inflow, tail,
       Counted, Accepted
<1>7. CheckInUpdate'
    BY DEF DownInvariant, DownTypeOK, CheckInUpdate, TakeCheck, CheckGoes, inflow, tail
<1>8. AheadGoesOn'
    BY DEF DownInvariant, DownTypeOK, AheadGoesOn, TakeCheck, CheckGoes, inflow, tail
<1>9. DrainWaits'
    BY DEF DownInvariant, DownTypeOK, DrainWaits, TakeCheck, CheckGoes, inflow, tail, Counted
<1> QED
    BY <1>1, <1>2, <1>3, <1>4, <1>5, <1>6, <1>7, <1>8, <1>9 DEF DownInvariant

LEMMA CheckDoneKeeps ==
    ASSUME DownInvariant, NEW u \in Update, CheckDone(u)
    PROVE  DownInvariant'
<1>1. DownTypeOK'
    BY DEF DownInvariant, DownTypeOK, Stage, Stages, Accepted, Counted, CheckDone, CheckGoes,
       inflow, tail
<1>2. /\ OneByOne' /\ HandlersAct' /\ IntakeLeavesNothing'
      /\ WritesLeaveNothing' /\ AcceptedIsHandled'
    BY DEF DownInvariant, OneByOne, HandlersAct, IntakeLeavesNothing, WritesLeaveNothing,
       AcceptedIsHandled, CheckDone, CheckGoes, inflow, tail
<1>3. ChecksLeaveNothing'
    BY DEF DownInvariant, DownTypeOK, ChecksLeaveNothing, CheckDone, CheckGoes, inflow, tail,
       Counted, Accepted
<1>4. CheckInUpdate'
    BY DEF DownInvariant, DownTypeOK, CheckInUpdate, CheckDone, CheckGoes, inflow, tail
<1>5. AheadGoesOn'
    BY DEF DownInvariant, DownTypeOK, AheadGoesOn, CheckDone, CheckGoes, inflow, tail
<1>6. DrainWaits'
    BY DEF DownInvariant, DownTypeOK, DrainWaits, CheckDone, CheckGoes, inflow, tail, Counted
<1> QED
    BY <1>1, <1>2, <1>3, <1>4, <1>5, <1>6 DEF DownInvariant

LEMMA StopIntakeKeeps ==
    ASSUME DownInvariant, StopIntake
    PROVE  DownInvariant'
<1>1. DownTypeOK'
    BY DEF DownInvariant, DownTypeOK, Stage, Stages, Accepted, Counted, StopIntake, Begins, spam
<1>2. CheckInUpdate' /\ AheadGoesOn' /\ AcceptedIsHandled'
    BY DEF DownInvariant, CheckInUpdate, AheadGoesOn, AcceptedIsHandled, StopIntake, Begins,
       spam
<1>3. OneByOne'
    BY StageNames
       DEF DownInvariant, DownTypeOK, OneByOne, StopIntake, Begins, spam, Stages, Stage
<1>4. HandlersAct'
    BY StageNames DEF DownInvariant, DownTypeOK, HandlersAct, StopIntake, Begins, spam
<1>5. IntakeLeavesNothing'
    BY StageNames
       DEF DownInvariant, DownTypeOK, IntakeLeavesNothing, StopIntake, Begins, spam, Accepted
<1>6. ChecksLeaveNothing'
    BY StageNames
       DEF DownInvariant, DownTypeOK, ChecksLeaveNothing, StopIntake, Begins, spam, Counted,
           Accepted
<1>7. WritesLeaveNothing'
    BY StageNames
       DEF DownInvariant, DownTypeOK, WritesLeaveNothing, StopIntake, Begins, spam, Accepted
<1>8. DrainWaits'
    BY StageNames DEF DownInvariant, DownTypeOK, DrainWaits, StopIntake, Begins, spam, Counted
<1> QED
    BY <1>1, <1>2, <1>3, <1>4, <1>5, <1>6, <1>7, <1>8 DEF DownInvariant

LEMMA IntakeStoppedKeeps ==
    ASSUME DownInvariant, IntakeStopped
    PROVE  DownInvariant'
<1>1. DownTypeOK'
    BY DEF DownInvariant, DownTypeOK, Stage, Stages, Accepted, Counted, IntakeStopped, Returns,
       spam
<1>2. CheckInUpdate' /\ AheadGoesOn' /\ AcceptedIsHandled'
    BY DEF DownInvariant, CheckInUpdate, AheadGoesOn, AcceptedIsHandled, IntakeStopped, Returns,
       spam
<1>3. OneByOne'
    BY StageNames
       DEF DownInvariant, DownTypeOK, OneByOne, IntakeStopped, Returns, spam, Stages, Stage
<1>4. HandlersAct'
    BY StageNames DEF DownInvariant, DownTypeOK, HandlersAct, IntakeStopped, Returns, spam
<1>5. IntakeLeavesNothing'
    BY StageNames
       DEF DownInvariant, DownTypeOK, IntakeLeavesNothing, IntakeStopped, Returns, spam,
           Accepted
<1>6. ChecksLeaveNothing'
    BY StageNames
       DEF DownInvariant, DownTypeOK, ChecksLeaveNothing, IntakeStopped, Returns, spam, Counted,
           Accepted
<1>7. WritesLeaveNothing'
    BY StageNames
       DEF DownInvariant, DownTypeOK, WritesLeaveNothing, IntakeStopped, Returns, spam, Accepted
<1>8. DrainWaits'
    BY StageNames
       DEF DownInvariant, DownTypeOK, DrainWaits, IntakeStopped, Returns, spam, Counted
<1> QED
    BY <1>1, <1>2, <1>3, <1>4, <1>5, <1>6, <1>7, <1>8 DEF DownInvariant

LEMMA IntakeGivesUpKeeps ==
    ASSUME DownInvariant, IntakeGivesUp
    PROVE  DownInvariant'
<1>1. DownTypeOK'
    BY DEF DownInvariant, DownTypeOK, Stage, Stages, Accepted, Counted, IntakeGivesUp, Returns,
       spam
<1>2. CheckInUpdate' /\ AheadGoesOn'
    BY DEF DownInvariant, CheckInUpdate, AheadGoesOn, IntakeGivesUp, Returns, spam
<1>3. OneByOne'
    BY StageNames
       DEF DownInvariant, DownTypeOK, OneByOne, IntakeGivesUp, Returns, spam, Stages, Stage
<1>4. HandlersAct'
    BY StageNames DEF DownInvariant, DownTypeOK, HandlersAct, IntakeGivesUp, Returns, spam
<1>5. IntakeLeavesNothing'
    BY StageNames
       DEF DownInvariant, DownTypeOK, IntakeLeavesNothing, IntakeGivesUp, Returns, spam,
           Accepted
<1>6. ChecksLeaveNothing'
    BY StageNames
       DEF DownInvariant, DownTypeOK, ChecksLeaveNothing, IntakeGivesUp, Returns, spam, Counted,
           Accepted
<1>7. WritesLeaveNothing'
    BY StageNames
       DEF DownInvariant, DownTypeOK, WritesLeaveNothing, IntakeGivesUp, Returns, spam, Accepted
<1>8. DrainWaits'
    BY StageNames
       DEF DownInvariant, DownTypeOK, DrainWaits, IntakeGivesUp, Returns, spam, Counted
<1>9. AcceptedIsHandled'
    BY StageNames DEF DownInvariant, DownTypeOK, AcceptedIsHandled, IntakeGivesUp, Returns, spam
<1> QED
    BY <1>1, <1>2, <1>3, <1>4, <1>5, <1>6, <1>7, <1>8, <1>9 DEF DownInvariant

LEMMA StartDrainKeeps ==
    ASSUME DownInvariant, StartDrain
    PROVE  DownInvariant'
<1>1. DownTypeOK'
    BY DEF DownInvariant, DownTypeOK, Stage, Stages, Accepted, Counted, StartDrain, Begins,
       inflow
<1>2. CheckInUpdate' /\ AcceptedIsHandled'
    BY DEF DownInvariant, CheckInUpdate, AcceptedIsHandled, StartDrain, Begins, inflow
<1>3. OneByOne'
    BY StageNames
       DEF DownInvariant, DownTypeOK, OneByOne, StartDrain, Begins, inflow, Stages, Stage
<1>4. HandlersAct'
    BY StageNames DEF DownInvariant, DownTypeOK, HandlersAct, StartDrain, Begins, inflow
<1>5. IntakeLeavesNothing'
    BY StageNames
       DEF DownInvariant, DownTypeOK, IntakeLeavesNothing, StartDrain, Begins, inflow, Accepted
<1>6. ChecksLeaveNothing'
    BY StageNames
       DEF DownInvariant, DownTypeOK, ChecksLeaveNothing, StartDrain, Begins, inflow, Counted,
           Accepted
<1>7. WritesLeaveNothing'
    BY StageNames
       DEF DownInvariant, DownTypeOK, WritesLeaveNothing, StartDrain, Begins, inflow, Accepted
<1>8. AheadGoesOn'
    BY StageNames DEF DownInvariant, DownTypeOK, AheadGoesOn, StartDrain, Begins, inflow
<1>9. DrainWaits'
    BY StageNames DEF DownInvariant, DownTypeOK, DrainWaits, StartDrain, Begins, inflow, Counted
<1> QED
    BY <1>1, <1>2, <1>3, <1>4, <1>5, <1>6, <1>7, <1>8, <1>9 DEF DownInvariant

LEMMA DrainedKeeps ==
    ASSUME DownInvariant, Drained
    PROVE  DownInvariant'
<1>1. DownTypeOK'
    BY DEF DownInvariant, DownTypeOK, Stage, Stages, Accepted, Counted, Drained, Returns, inflow
<1>2. CheckInUpdate' /\ AheadGoesOn' /\ AcceptedIsHandled'
    BY DEF DownInvariant, CheckInUpdate, AheadGoesOn, AcceptedIsHandled, Drained, Returns,
       inflow
<1>3. OneByOne'
    BY StageNames
       DEF DownInvariant, DownTypeOK, OneByOne, Drained, Returns, inflow, Stages, Stage
<1>4. HandlersAct'
    BY StageNames DEF DownInvariant, DownTypeOK, HandlersAct, Drained, Returns, inflow
<1>5. IntakeLeavesNothing'
    BY StageNames
       DEF DownInvariant, DownTypeOK, IntakeLeavesNothing, Drained, Returns, inflow, Accepted
<1>6. ChecksLeaveNothing'
    BY StageNames
       DEF DownInvariant, DownTypeOK, ChecksLeaveNothing, Drained, Returns, inflow, Counted,
           Accepted
<1>7. WritesLeaveNothing'
    BY StageNames
       DEF DownInvariant, DownTypeOK, WritesLeaveNothing, Drained, Returns, inflow, Accepted
<1>8. DrainWaits'
    BY StageNames
       DEF DownInvariant, DownTypeOK, DrainWaits, AheadGoesOn, Drained, Returns, inflow, Counted
<1> QED
    BY <1>1, <1>2, <1>3, <1>4, <1>5, <1>6, <1>7, <1>8 DEF DownInvariant

LEMMA DrainGivesUpKeeps ==
    ASSUME DownInvariant, DrainGivesUp
    PROVE  DownInvariant'
<1>1. DownTypeOK'
    BY DEF DownInvariant, DownTypeOK, Stage, Stages, Accepted, Counted, DrainGivesUp, Returns,
       inflow
<1>2. CheckInUpdate' /\ AheadGoesOn' /\ AcceptedIsHandled'
    BY DEF DownInvariant, CheckInUpdate, AheadGoesOn, AcceptedIsHandled, DrainGivesUp, Returns,
       inflow
<1>3. OneByOne'
    BY StageNames
       DEF DownInvariant, DownTypeOK, OneByOne, DrainGivesUp, Returns, inflow, Stages, Stage
<1>4. HandlersAct'
    BY StageNames DEF DownInvariant, DownTypeOK, HandlersAct, DrainGivesUp, Returns, inflow
<1>5. IntakeLeavesNothing'
    BY StageNames
       DEF DownInvariant, DownTypeOK, IntakeLeavesNothing, DrainGivesUp, Returns, inflow,
           Accepted
<1>6. ChecksLeaveNothing'
    BY StageNames
       DEF DownInvariant, DownTypeOK, ChecksLeaveNothing, DrainGivesUp, Returns, inflow,
           Counted, Accepted
<1>7. WritesLeaveNothing'
    BY StageNames
       DEF DownInvariant, DownTypeOK, WritesLeaveNothing, DrainGivesUp, Returns, inflow,
           Accepted
<1>8. DrainWaits'
    BY StageNames
       DEF DownInvariant, DownTypeOK, DrainWaits, DrainGivesUp, Returns, inflow, Counted
<1> QED
    BY <1>1, <1>2, <1>3, <1>4, <1>5, <1>6, <1>7, <1>8 DEF DownInvariant

LEMMA AwaitWritesKeeps ==
    ASSUME DownInvariant, AwaitWrites
    PROVE  DownInvariant'
<1>1. DownTypeOK'
    BY DEF DownInvariant, DownTypeOK, Stage, Stages, Accepted, Counted, AwaitWrites, Begins,
       Returns, inflow, spam
<1>2. CheckInUpdate' /\ AheadGoesOn' /\ AcceptedIsHandled'
    BY DEF DownInvariant, CheckInUpdate, AheadGoesOn, AcceptedIsHandled, AwaitWrites, Begins,
       Returns, inflow, spam
<1>3. OneByOne'
    BY StageNames
       DEF DownInvariant, DownTypeOK, OneByOne, AwaitWrites, Begins, Returns, inflow, spam,
           Stages, Stage
<1>4. HandlersAct'
    BY StageNames
       DEF DownInvariant, DownTypeOK, HandlersAct, AwaitWrites, Begins, Returns, inflow, spam
<1>5. IntakeLeavesNothing'
    BY StageNames
       DEF DownInvariant, DownTypeOK, IntakeLeavesNothing, AwaitWrites, Begins, Returns, inflow,
           spam, Accepted
<1>6. ChecksLeaveNothing'
    BY StageNames
       DEF DownInvariant, DownTypeOK, ChecksLeaveNothing, AwaitWrites, Begins, Returns, inflow,
           spam, Counted, Accepted
<1>7. WritesLeaveNothing'
    BY StageNames
       DEF DownInvariant, DownTypeOK, WritesLeaveNothing, AwaitWrites, Begins, Returns, inflow,
           spam, Accepted
<1>8. DrainWaits'
    BY StageNames
       DEF DownInvariant, DownTypeOK, DrainWaits, AwaitWrites, Begins, Returns, inflow, spam,
           Counted
<1> QED
    BY <1>1, <1>2, <1>3, <1>4, <1>5, <1>6, <1>7, <1>8 DEF DownInvariant

LEMMA CloseDBKeeps ==
    ASSUME DownInvariant, CloseDB
    PROVE  DownInvariant'
<1>1. DownTypeOK'
    BY DEF DownInvariant, DownTypeOK, Stage, Stages, Accepted, Counted, CloseDB, Begins,
       Returns, inflow, spam
<1>2. CheckInUpdate' /\ AheadGoesOn' /\ AcceptedIsHandled'
    BY DEF DownInvariant, CheckInUpdate, AheadGoesOn, AcceptedIsHandled, CloseDB, Begins,
       Returns, inflow, spam
<1>3. OneByOne'
    BY StageNames
       DEF DownInvariant, DownTypeOK, OneByOne, CloseDB, Begins, Returns, inflow, spam, Stages,
           Stage
<1>4. HandlersAct'
    BY StageNames
       DEF DownInvariant, DownTypeOK, HandlersAct, CloseDB, Begins, Returns, inflow, spam
<1>5. IntakeLeavesNothing'
    BY StageNames
       DEF DownInvariant, DownTypeOK, IntakeLeavesNothing, CloseDB, Begins, Returns, inflow,
           spam, Accepted
<1>6. ChecksLeaveNothing'
    BY StageNames
       DEF DownInvariant, DownTypeOK, ChecksLeaveNothing, CloseDB, Begins, Returns, inflow,
           spam, Counted, Accepted
<1>7. WritesLeaveNothing'
    BY StageNames
       DEF DownInvariant, DownTypeOK, WritesLeaveNothing, CloseDB, Begins, Returns, inflow,
           spam, Accepted
<1>8. DrainWaits'
    BY StageNames
       DEF DownInvariant, DownTypeOK, DrainWaits, CloseDB, Begins, Returns, inflow, spam,
           Counted
<1> QED
    BY <1>1, <1>2, <1>3, <1>4, <1>5, <1>6, <1>7, <1>8 DEF DownInvariant

LEMMA SignalKeeps ==
    ASSUME DownInvariant, Signal
    PROVE  DownInvariant'
<1>1. DownTypeOK'
    BY DEF DownInvariant, DownTypeOK, Stage, Stages, Accepted, Counted, Signal, inflow, spam
<1>2. /\ HandlersAct' /\ IntakeLeavesNothing' /\ ChecksLeaveNothing' /\ WritesLeaveNothing'
      /\ CheckInUpdate' /\ AheadGoesOn' /\ DrainWaits' /\ AcceptedIsHandled'
    BY DEF DownInvariant, HandlersAct, IntakeLeavesNothing, ChecksLeaveNothing,
       WritesLeaveNothing, CheckInUpdate, AheadGoesOn, DrainWaits, AcceptedIsHandled, Signal,
       inflow, spam
<1>3. OneByOne'
    BY DEF DownInvariant, DownTypeOK, OneByOne, Signal, inflow, spam, Stages, Stage
<1> QED
    BY <1>1, <1>2, <1>3 DEF DownInvariant

LEMMA NextHandlerKeeps ==
    ASSUME DownInvariant, NextHandler
    PROVE  DownInvariant'
<1>1. DownTypeOK'
    BY DEF DownInvariant, DownTypeOK, Stage, Stages, Accepted, Counted, NextHandler, Waiting,
       inflow, spam
<1>2. /\ HandlersAct' /\ IntakeLeavesNothing' /\ ChecksLeaveNothing' /\ WritesLeaveNothing'
      /\ CheckInUpdate' /\ AheadGoesOn' /\ DrainWaits' /\ AcceptedIsHandled'
    BY DEF DownInvariant, HandlersAct, IntakeLeavesNothing, ChecksLeaveNothing,
       WritesLeaveNothing, CheckInUpdate, AheadGoesOn, DrainWaits, AcceptedIsHandled,
       NextHandler, Waiting, inflow, spam
<1>3. OneByOne'
    BY DEF DownInvariant, DownTypeOK, OneByOne, NextHandler, Waiting, inflow, spam, Stages,
       Stage
<1> QED
    BY <1>1, <1>2, <1>3 DEF DownInvariant

LEMMA SkipHandlerKeeps ==
    ASSUME DownInvariant, SkipHandler
    PROVE  DownInvariant'
<1>1. DownTypeOK'
    BY DEF DownInvariant, DownTypeOK, Stage, Stages, Accepted, Counted, SkipHandler, Waiting,
       inflow, spam
<1>2. HandlersAct' /\ CheckInUpdate' /\ AheadGoesOn'
    BY DEF DownInvariant, HandlersAct, CheckInUpdate, AheadGoesOn, SkipHandler, Waiting, inflow,
       spam
<1>3. OneByOne'
    BY DEF DownInvariant, DownTypeOK, OneByOne, SkipHandler, Waiting, inflow, spam, Stages,
       Stage
<1>4. IntakeLeavesNothing'
    BY DEF DownInvariant, DownTypeOK, IntakeLeavesNothing, SkipHandler, Waiting, inflow, spam,
       Accepted
<1>5. ChecksLeaveNothing'
    BY DEF DownInvariant, DownTypeOK, ChecksLeaveNothing, SkipHandler, Waiting, inflow, spam,
       Counted, Accepted
<1>6. WritesLeaveNothing'
    BY DEF DownInvariant, DownTypeOK, WritesLeaveNothing, SkipHandler, Waiting, inflow, spam,
       Accepted
<1>7. DrainWaits'
    BY DEF DownInvariant, DownTypeOK, DrainWaits, SkipHandler, Waiting, inflow, spam, Counted
<1>8. AcceptedIsHandled'
    BY DEF DownInvariant, DownTypeOK, AcceptedIsHandled, SkipHandler, Waiting, inflow, spam
<1> QED
    BY <1>1, <1>2, <1>3, <1>4, <1>5, <1>6, <1>7, <1>8 DEF DownInvariant

LEMMA ExitKeeps ==
    ASSUME DownInvariant, Exit
    PROVE  DownInvariant'
<1>1. DownTypeOK'
    BY DEF DownInvariant, DownTypeOK, Stage, Stages, Accepted, Counted, Exit, inflow, spam
<1>2. /\ OneByOne' /\ HandlersAct' /\ IntakeLeavesNothing' /\ ChecksLeaveNothing' /\ WritesLeaveNothing'
      /\ CheckInUpdate' /\ AheadGoesOn' /\ DrainWaits' /\ AcceptedIsHandled'
    BY DEF DownInvariant, OneByOne, HandlersAct, IntakeLeavesNothing, ChecksLeaveNothing,
       WritesLeaveNothing, CheckInUpdate, AheadGoesOn, DrainWaits, AcceptedIsHandled, Exit,
       inflow, spam
<1> QED
    BY <1>1, <1>2 DEF DownInvariant

LEMMA MainReturnsKeeps ==
    ASSUME DownInvariant, MainReturns
    PROVE  DownInvariant'
<1>1. DownTypeOK'
    BY DEF DownInvariant, DownTypeOK, Stage, Stages, Accepted, Counted, MainReturns, inflow, spam
<1>2. /\ OneByOne' /\ HandlersAct' /\ IntakeLeavesNothing' /\ ChecksLeaveNothing' /\ WritesLeaveNothing'
      /\ CheckInUpdate' /\ AheadGoesOn' /\ DrainWaits' /\ AcceptedIsHandled'
    BY DEF DownInvariant, OneByOne, HandlersAct, IntakeLeavesNothing, ChecksLeaveNothing,
       WritesLeaveNothing, CheckInUpdate, AheadGoesOn, DrainWaits, AcceptedIsHandled, MainReturns,
       inflow, spam
<1> QED
    BY <1>1, <1>2 DEF DownInvariant

LEMMA UpdateStepKeeps ==
    ASSUME DownInvariant, NEW u \in Update, UpdateStep(u)
    PROVE  DownInvariant'
BY PostKeeps, EnqueueUpdateKeeps, DispatchKeeps, PollKeeps, LogUsersKeeps, WriteDoneKeeps,
   CheckAISpamKeeps, HandledKeeps, CountCheckKeeps, ReadFlagKeeps, OfferKeeps, TakeCheckKeeps,
   CheckDoneKeeps
   DEF UpdateStep

LEMMA HandlerStepKeeps ==
    ASSUME DownInvariant, Begin \/ Finish \/ Simple
    PROVE  DownInvariant'
BY StopIntakeKeeps, StartDrainKeeps, IntakeStoppedKeeps, IntakeGivesUpKeeps, DrainedKeeps,
   DrainGivesUpKeeps, AwaitWritesKeeps, CloseDBKeeps
   DEF Begin, Finish, Simple

LEMMA ManagerStepKeeps ==
    ASSUME DownInvariant, Signal \/ Manager
    PROVE  DownInvariant'
BY SignalKeeps, NextHandlerKeeps, SkipHandlerKeeps, ExitKeeps DEF Manager

LEMMA DownInvariantHolds == DownInit => DownInvariant
<1> SUFFICES ASSUME DownInit
             PROVE  DownInvariant
    OBVIOUS
<1>1. DownTypeOK
    <2>1. queue \in Seq(Update) /\ Len(queue) <= QueueSize /\ checks \in Seq(Update) /\ Len(checks) <= CheckQueue
        BY ShutdownAssumption DEF DownInit
    <2>2. turn \in 0..Len(Stages) + 1
        BY StageNames DEF DownInit
    <2> QED
        BY <2>1, <2>2 DEF DownInit, DownTypeOK
<1>2. OneByOne /\ HandlersAct
    BY StageNames DEF DownInit, OneByOne, HandlersAct
<1>3. IntakeLeavesNothing /\ ChecksLeaveNothing /\ WritesLeaveNothing
    BY StageNames DEF DownInit, IntakeLeavesNothing, ChecksLeaveNothing, WritesLeaveNothing
<1>4. CheckInUpdate /\ AheadGoesOn /\ DrainWaits /\ AcceptedIsHandled
    BY DEF DownInit, CheckInUpdate, AheadGoesOn, DrainWaits, AcceptedIsHandled
<1> QED
    BY <1>1, <1>2, <1>3, <1>4 DEF DownInvariant

LEMMA DownInvariantKept == DownInvariant /\ [DownNext]_downVars => DownInvariant'
<1>1. ASSUME DownInvariant, UNCHANGED downVars
      PROVE  DownInvariant'
    BY <1>1 DEF DownInvariant, DownTypeOK, OneByOne, HandlersAct, IntakeLeavesNothing, 
       ChecksLeaveNothing, WritesLeaveNothing, CheckInUpdate, AheadGoesOn, DrainWaits,
       AcceptedIsHandled, downVars, inflow, spam, tail
<1> QED
    BY <1>1, UpdateStepKeeps, HandlerStepKeeps, ManagerStepKeeps, MainReturnsKeeps DEF DownNext

LEMMA ExitKnownHolds == DownInit => ExitKnown
BY DEF DownInit, ExitKnown

LEMMA ExitKnownKept == DownInvariant /\ ExitKnown /\ [DownNext]_downVars => ExitKnown'
<1> SUFFICES ASSUME DownInvariant, ExitKnown, [DownNext]_downVars
             PROVE  ExitKnown'
    OBVIOUS
<1>1. CASE UNCHANGED downVars
    BY <1>1 DEF ExitKnown, downVars, inflow, tail
<1>2. CASE exit = "no" /\ exit' = exit
    BY <1>2 DEF ExitKnown
<1>3. CASE exit = "no" /\ SkipHandler
    <2>1. late' # {} /\ exit' \in {"no", "forced"}
        BY <1>3 DEF SkipHandler
    <2> QED
        BY <2>1 DEF ExitKnown
<1>4. CASE Exit
    BY <1>4, StageNames DEF ExitKnown, Exit
<1>5. CASE MainReturns
    BY <1>5 DEF ExitKnown, MainReturns, inflow
<1>6. ASSUME NEW u \in Update, UpdateStep(u) PROVE exit' = exit
    BY <1>6 DEF UpdateStep, Post, EnqueueUpdate, Dispatch, Poll, LogUsers, WriteDone, CheckAISpam,
       Handled, CountCheck, ReadFlag, Offer, TakeCheck, CheckDone, tail
<1>7. ASSUME Begin \/ Finish \/ Simple \/ Signal \/ NextHandler PROVE exit' = exit
    BY <1>7 DEF Begin, Finish, Simple, StopIntake, StartDrain, IntakeStopped, IntakeGivesUp, Drained,
       DrainGivesUp, AwaitWrites, CloseDB, Signal, NextHandler
<1> QED
    BY <1>1, <1>2, <1>3, <1>4, <1>5, <1>6, <1>7 DEF DownNext, Manager

LEMMA DownInvariantEnough == DownInvariant /\ ExitKnown => ShutdownLosesNothing
<1> SUFFICES ASSUME DownInvariant, ExitKnown
             PROVE  ShutdownLosesNothing
    OBVIOUS
<1>1. DrainIsFinal
    BY StageNames DEF DownInvariant, DrainIsFinal, ChecksLeaveNothing
<1>2. ClosedLast
    <2> SUFFICES ASSUME handler["db"] # "idle", NEW u \in Update
                 PROVE  /\ upd[u] \in Accepted => "intake" \in late
                        /\ check[u] \in Counted => late \cap {"intake", "checks"} # {}
                        /\ write[u] = "running" => late \cap {"intake", "writes"} # {}
        BY DEF DownInvariant, HandlersAct, ClosedLast
    <2> QED
        BY InOrder
           DEF DownInvariant, Gone, IntakeLeavesNothing, ChecksLeaveNothing, WritesLeaveNothing
<1>3. ExitLosesNothing
    <2>1. CASE exit = "returned"
        BY <2>1 DEF ExitLosesNothing, ExitKnown, DownInvariant, IntakeLeavesNothing
    <2>2. CASE exit = "forced"
        BY <2>2 DEF ExitLosesNothing, ExitKnown
    <2>3. CASE exit = "clean" /\ late = {}
        <3>1. \A s \in Stage : handler[s] = "over"
            BY <2>3, StageNames DEF ExitKnown, DownInvariant, OneByOne
        <3> QED
            BY <2>3, <3>1, StageNames
               DEF ExitLosesNothing, Unfinished, DownInvariant, IntakeLeavesNothing,
                   ChecksLeaveNothing, WritesLeaveNothing
    <2> QED
        BY <2>1, <2>2, <2>3 DEF ExitLosesNothing
<1> QED
    BY <1>1, <1>2, <1>3 DEF DownInvariant, ShutdownLosesNothing

\* Whatever arrives, hangs or is late while the process stops, in queues of any size: a
\* check that had passed the flag is waited for, none runs after the drain, the database
\* is closed after everything else, what was accepted is handled and nothing is cut off
\* by the exit - but for what is behind a handler that was late, and for the checks and
\* writes of a process that polls, which main may end before the manager.
THEOREM StopLosesNothing == DownSpec => []ShutdownLosesNothing
<1>1. DownInvariant /\ ExitKnown => ShutdownLosesNothing
    BY DownInvariantEnough
<1> QED
    BY <1>1, DownInvariantHolds, DownInvariantKept, ExitKnownHolds, ExitKnownKept, PTL DEF DownSpec

--------------------------------------------------------------------------------
(* Migrations: the inductive invariant *)

Walking == {"next", "backfill", "execute", "record"}
Running == Walking \cup {"count", "unlock"}      \* between the attempts to lock and the unlock
Started == {"unlock", "done"}

\* What a replica knows while it walks through its files: those behind it are recorded
\* or empty, and those recorded are as it knows them.
Knows(r) ==
    /\ runner[r].pc \in {"lock", "count"} => runner[r].at = 1
    /\ At(r, "lock") => runner[r].tries > 0
    /\ runner[r].pc \in {"execute", "record"} => Current(r) <= files[r] /\ Current(r) \notin Empty
    /\ At(r, "backfill") => Current(r) <= files[r] /\ Current(r) \in Rows
    /\ runner[r].pc \in Walking => \A f \in File : f < Current(r) =>
           /\ f \in Rows \cup Empty
           /\ f \in Rows /\ ~silent => row[f] = sums[r][f] \/ f \in overwritten
    /\ runner[r].pc \in Started => \A f \in 1..files[r] :
           /\ f \in Rows \cup Empty
           /\ f \in Rows /\ ~silent /\ ~runner[r].brief => row[f] = sums[r][f] \/ f \in overwritten

\* An empty file is never recorded: the count of rows cannot be reached by it.
EmptyUnrecorded == Rows \cap Empty = {}

\* A replica that goes on without the lock has used up its attempts.
Unlocked == \E r \in Runner : runner[r].tries = 0

\* Otherwise it holds the lock, and a row that it has found without a checksum has none
\* until it fills it in.
Alone(r) ==
    /\ runner[r].pc \in Running /\ runner[r].tries > 0 => lock = r
    /\ At(r, "backfill") => row[Current(r)] = Legacy \/ Unlocked

MigInvariant ==
    /\ MigTypeOK
    /\ AppliedOnce /\ AppliedInOrder /\ EmptyUnrecorded
    /\ \A r \in Runner : Knows(r)
    /\ \A r \in Runner : Alone(r)
    /\ OverwrittenUnlocked

\* As many rows as files: the highest of them is the last file or beyond.
LEMMA CountingIsEnough ==
    ASSUME AppliedInOrder, NEW n \in File, Cardinality(Rows) = n
    PROVE  \A f \in 1..n : f \in Rows \cup Empty
<1>1. n \in Nat /\ n - 1 \in Nat /\ n > 0
    BY MigrationsAssumption DEF File
<1>2. PICK m \in Rows : m >= n
    <2> SUFFICES ASSUME \A m \in Rows : ~(m >= n)
                 PROVE  FALSE
        OBVIOUS
    <2>1. Rows \subseteq 1..(n - 1)
        BY <1>1, MigrationsAssumption DEF Rows, File
    <2>2. IsFiniteSet(1..(n - 1)) /\ Cardinality(1..(n - 1)) = n - 1
        BY <1>1, FS_Interval
    <2>3. Cardinality(Rows) <= Cardinality(1..(n - 1))
        BY <2>1, <2>2, FS_Subset
    <2> QED
        BY <2>2, <2>3, <1>1
<1>3. m \in Nat
    BY MigrationsAssumption DEF Rows, File
<1> QED
    BY <1>1, <1>2, <1>3 DEF AppliedInOrder

\* What a step of a replica leaves as it was.
LEMMA RowsOnlyGrow ==
    ASSUME MigInvariant, NEW r \in Runner, Run(r) \/ CrashRunner(r)
    PROVE  /\ UNCHANGED given
           /\ \A q \in Runner : q # r => runner'[q] = runner[q]
           /\ overwritten \subseteq overwritten'
           /\ \A f \in File : row[f] \in Sums => row'[f] = row[f] \/ f \in overwritten'
           /\ \A f \in File : row[f] # NoRow => row'[f] # NoRow
           /\ \A f \in File : row[f] = NoRow /\ row'[f] # NoRow =>
                                 At(r, "record") /\ f = Current(r)
<1>1. CASE Backfill(r)
    <2>1. Current(r) \in File /\ row[Current(r)] # NoRow
        BY <1>1, MigrationsAssumption
           DEF MigInvariant, MigTypeOK, Knows, Backfill, At, Current, File, Rows
    <2>2. sums[r][Current(r)] \in Sums
        BY <2>1 DEF MigInvariant, MigTypeOK
    <2>3. UNCHANGED given /\ \A q \in Runner : q # r => runner'[q] = runner[q]
        BY <1>1 DEF Backfill, FailStart, Advance, To, given, MigInvariant, MigTypeOK
    <2>4. \/ UNCHANGED <<row, overwritten>>
          \/ /\ row' = [row EXCEPT ![Current(r)] = sums[r][Current(r)]]
             /\ overwritten' = IF row[Current(r)] \in {Legacy, sums[r][Current(r)]}
                               THEN overwritten ELSE overwritten \cup {Current(r)}
        BY <1>1 DEF Backfill, Current
    <2> QED
        BY <2>1, <2>2, <2>3, <2>4 DEF MigInvariant, MigTypeOK, Sums, NoRow, Legacy
<1>2. CASE ~Backfill(r)
    BY <1>2
       DEF MigInvariant, MigTypeOK, Run, CrashRunner, TryLock, CountRows, ApplyNext, VerifyChecksum,
           AllSeen, Execute, Record, Unlock, ReadFails, FailStart, Advance, At, To, Current, base,
           given, Sums, NoRow, Legacy
<1> QED
    BY <1>1, <1>2

LEMMA OthersKnow ==
    ASSUME MigInvariant, NEW r \in Runner, Run(r) \/ CrashRunner(r), NEW q \in Runner, q # r
    PROVE  Knows(q)'
<1>1. runner'[q] = runner[q] /\ UNCHANGED given
    BY RowsOnlyGrow
<1>2. Knows(q) /\ Knows(r)
    BY DEF MigInvariant
<1>3. \A f \in File : f \in Rows \cup Empty => f \in Rows' \cup Empty
    BY RowsOnlyGrow DEF Rows
<1>4. \A f \in File : f \in Rows' /\ f \in Rows \cup Empty => f \in Rows
    BY RowsOnlyGrow, <1>2 DEF Rows, Knows, At
<1>5. /\ \A f \in File, sum \in Sums : f \in Rows /\ row[f] = sum => row'[f] = sum \/ f \in overwritten'
      /\ overwritten \subseteq overwritten'
    BY RowsOnlyGrow
<1>6. \A f \in File : sums[q][f] \in Sums
    BY DEF MigInvariant, MigTypeOK
<1>7. files[q] \in File /\ 1..files[q] \subseteq File
    BY MigrationsAssumption DEF MigInvariant, MigTypeOK, File
<1>8. runner[q].pc \in Walking => \A f \in File : f < Current(q) =>
           /\ f \in Rows' \cup Empty
           /\ f \in Rows' /\ ~silent => row'[f] = sums[q][f] \/ f \in overwritten'
    BY <1>2, <1>3, <1>4, <1>5, <1>6 DEF Knows
<1>9. runner[q].pc \in Started => \A f \in 1..files[q] :
           /\ f \in Rows' \cup Empty
           /\ f \in Rows' /\ ~silent /\ ~runner[q].brief => row'[f] = sums[q][f] \/ f \in overwritten'
    BY <1>2, <1>3, <1>4, <1>5, <1>6, <1>7 DEF Knows
<1>10. At(q, "backfill") => Current(q) \in Rows'
    BY <1>2, RowsOnlyGrow DEF Rows, Knows
<1> QED
    BY <1>1, <1>2, <1>8, <1>9, <1>10 DEF Knows, At, Current, given
RunnerState == [pc : RunnerStep, tries : 0..Tries, at : 1..LastFile + 1, brief : BOOLEAN]

\* What becomes of a replica that goes on to another step.
LEMMA GoingOn ==
    ASSUME runner \in [Runner -> RunnerState], NEW r \in Runner,
           NEW step \in RunnerStep,
           To(r, step)
    PROVE  /\ runner' \in [Runner -> RunnerState]
           /\ runner'[r].pc = step /\ runner'[r].at = runner[r].at /\ runner'[r].tries = runner[r].tries
           /\ runner'[r].brief = runner[r].brief
<1>1. runner[r] \in RunnerState
    OBVIOUS
<1>2. [runner[r] EXCEPT !.pc = step] \in RunnerState
    BY <1>1 DEF RunnerStep, RunnerState
<1>3. runner' = [runner EXCEPT ![r] = [runner[r] EXCEPT !.pc = step]]
    BY DEF To
<1> QED
    BY <1>1, <1>2, <1>3 DEF RunnerStep, RunnerState

LEMMA Advancing ==
    ASSUME runner \in [Runner -> RunnerState], NEW r \in Runner, Advance(r),
           runner[r].at + 1 \in 1..LastFile + 1
    PROVE  /\ runner' \in [Runner -> RunnerState]
           /\ runner'[r].pc = "next" /\ runner'[r].at = runner[r].at + 1
<1>1. runner[r] \in RunnerState
    OBVIOUS
<1>2. [runner[r] EXCEPT !.pc = "next", !.at = @ + 1] \in RunnerState
    BY <1>1 DEF RunnerStep, RunnerState
<1>3. runner' = [runner EXCEPT ![r] = [runner[r] EXCEPT !.pc = "next", !.at = @ + 1]]
    BY DEF Advance
<1> QED
    BY <1>1, <1>2, <1>3 DEF RunnerStep, RunnerState
LEMMA TryLockKnows ==
    ASSUME MigInvariant, NEW r \in Runner, TryLock(r)
    PROVE  MigTypeOK' /\ Knows(r)'
<1>1. /\ runner \in [Runner -> RunnerState] /\ Knows(r)
      /\ runner[r].at \in Nat /\ runner[r].tries \in Nat /\ files[r] \in File
    BY MigrationsAssumption DEF MigInvariant, MigTypeOK, RunnerStep, RunnerState, File
<1>2. CASE lock = Free /\ lock' = r /\ To(r, "count")
    <2>1. At(r, "lock") /\ UNCHANGED <<base, given>>
        BY DEF TryLock
    <2> QED
        BY <1>1, <1>2, <2>1, GoingOn
           DEF MigInvariant, MigTypeOK, RunnerStep, RunnerState, base, given, Knows, At, Current, Walking,
               Started
<1> DEFINE step == IF runner[r].tries = 1 THEN "count" ELSE "lock"
           new == [runner[r] EXCEPT !.tries = @ - 1, !.pc = step]
<1>3. CASE runner' = [runner EXCEPT ![r] = new] /\ UNCHANGED lock
    <2>1. At(r, "lock") /\ UNCHANGED <<base, given>>
        BY DEF TryLock
    <2>2. runner[r] \in RunnerState /\ runner[r].tries > 0 /\ runner[r].at = 1
        BY <1>1, <2>1 DEF Knows, At
    <2>3. runner[r].tries - 1 \in 0..Tries /\ (runner[r].tries # 1 => runner[r].tries - 1 > 0)
        BY <2>2, MigrationsAssumption DEF RunnerStep, RunnerState
    <2>4. new \in RunnerState /\ new.pc = step /\ new.at = 1 /\ (step = "lock" => new.tries > 0)
        BY <2>2, <2>3 DEF RunnerStep, RunnerState
    <2>5. runner' \in [Runner -> RunnerState] /\ runner'[r] = new
        BY <1>1, <1>3, <2>4
    <2>6. step \in {"count", "lock"}
        OBVIOUS
    <2> HIDE DEF new, step
    <2> QED
        BY <1>3, <2>1, <2>4, <2>5, <2>6
           DEF MigInvariant, MigTypeOK, RunnerStep, RunnerState, base, given, Knows, At, Current, Walking,
               Started
<1> QED
    BY <1>2, <1>3 DEF TryLock

LEMMA CountRowsKnows ==
    ASSUME MigInvariant, NEW r \in Runner, CountRows(r)
    PROVE  MigTypeOK' /\ Knows(r)'
<1>1. /\ runner \in [Runner -> RunnerState] /\ Knows(r)
      /\ runner[r].at \in Nat /\ runner[r].tries \in Nat /\ files[r] \in File
    BY MigrationsAssumption DEF MigInvariant, MigTypeOK, RunnerStep, RunnerState, File
<1>2. CASE Cardinality(Rows) = files[r]
    <2> DEFINE new == [runner[r] EXCEPT !.pc = "unlock", !.brief = TRUE]
    <2>1. runner' = [runner EXCEPT ![r] = new] /\ UNCHANGED <<base, lock, given>>
        BY <1>2 DEF CountRows
    <2>2. new \in RunnerState /\ new.pc = "unlock" /\ new.brief
        BY <1>1 DEF RunnerStep, RunnerState
    <2>3. runner' \in [Runner -> RunnerState] /\ runner'[r] = new
        BY <1>1, <2>1, <2>2
    <2>4. \A f \in 1..files[r] : f \in Rows \cup Empty
        BY <1>1, <1>2, CountingIsEnough DEF MigInvariant
    <2> HIDE DEF new
    <2> QED
        BY <2>1, <2>2, <2>3, <2>4
           DEF MigInvariant, MigTypeOK, RunnerStep, RunnerState, base, given, Rows, Knows, At, Current,
               Walking, Started
<1>3. CASE Cardinality(Rows) # files[r]
    <2>1. At(r, "count") /\ To(r, "next") /\ UNCHANGED <<base, lock, given>>
        BY <1>3 DEF CountRows
    <2>2. \A f \in File : ~(f < 1)
        BY MigrationsAssumption DEF File
    <2> QED
        BY <1>1, <2>1, <2>2, GoingOn
           DEF MigInvariant, MigTypeOK, RunnerStep, RunnerState, base, given, Knows, At, Current, Walking,
               Started
<1> QED
    BY <1>2, <1>3

LEMMA ApplyNextKnows ==
    ASSUME MigInvariant, NEW r \in Runner, ApplyNext(r)
    PROVE  MigTypeOK' /\ Knows(r)'
<1>1. /\ runner \in [Runner -> RunnerState] /\ Knows(r)
      /\ runner[r].at \in Nat /\ runner[r].tries \in Nat /\ files[r] \in File
    BY MigrationsAssumption DEF MigInvariant, MigTypeOK, RunnerStep, RunnerState, File
<1>2. Current(r) \in File /\ Current(r) <= files[r] /\ Current(r) \notin Rows /\ UNCHANGED <<base, lock, given>>
    BY <1>1, MigrationsAssumption
       DEF ApplyNext, Current, Rows, File, MigInvariant, MigTypeOK, RunnerStep, RunnerState
<1>3. CASE Current(r) \in Empty
    <2>1. At(r, "next") /\ Advance(r)
        BY <1>3 DEF ApplyNext
    <2>2. runner[r].at + 1 \in 1..LastFile + 1
        BY <1>1, <1>2, MigrationsAssumption DEF File, Current
    <2>3. \A f \in File : f < Current(r) + 1 => f = Current(r) \/ f < Current(r)
        BY <1>1, MigrationsAssumption DEF File, Current
    <2> QED
        BY <1>1, <1>2, <1>3, <2>1, <2>2, <2>3, Advancing
           DEF MigInvariant, MigTypeOK, RunnerStep, RunnerState, base, given, Rows, Knows, At, Current,
               Walking, Started
<1>4. CASE Current(r) \notin Empty
    <2>1. At(r, "next") /\ To(r, "execute")
        BY <1>4 DEF ApplyNext
    <2> QED
        BY <1>1, <1>2, <1>4, <2>1, GoingOn
           DEF MigInvariant, MigTypeOK, RunnerStep, RunnerState, base, given, Rows, Knows, At, Current,
               Walking, Started
<1> QED
    BY <1>3, <1>4

LEMMA AllSeenKnows ==
    ASSUME MigInvariant, NEW r \in Runner, AllSeen(r)
    PROVE  MigTypeOK' /\ Knows(r)'
<1>1. /\ runner \in [Runner -> RunnerState] /\ Knows(r)
      /\ runner[r].at \in Nat /\ runner[r].tries \in Nat /\ files[r] \in File
    BY MigrationsAssumption DEF MigInvariant, MigTypeOK, RunnerStep, RunnerState, File
<1>2. At(r, "next") /\ To(r, "unlock") /\ files[r] < Current(r) /\ UNCHANGED <<base, lock, given>>
    BY <1>1, MigrationsAssumption DEF AllSeen, Current, File
<1>3. \A f \in 1..files[r] : f \in File /\ f < Current(r)
    BY <1>1, <1>2, MigrationsAssumption DEF File, Current
<1> QED
    BY <1>1, <1>2, <1>3, GoingOn
       DEF MigInvariant, MigTypeOK, RunnerStep, RunnerState, base, given, Rows, Knows, At, Current, Walking,
           Started

LEMMA FailedKnows ==
    ASSUME MigInvariant, NEW r \in Runner, FailStart(r), UNCHANGED given,
           row' \in [File -> Sums \cup {NoRow, Legacy}], effects' \in [File -> Nat],
           overwritten' \subseteq File
    PROVE  MigTypeOK' /\ Knows(r)'
<1>1. runner \in [Runner -> RunnerState] /\ To(r, "failed")
    BY DEF MigInvariant, MigTypeOK, RunnerStep, RunnerState, FailStart
<1>2. lock' \in Runner \cup {Free}
    BY DEF MigInvariant, MigTypeOK, FailStart, LeaveLock, Released
<1> QED
    BY <1>1, <1>2, GoingOn
       DEF MigInvariant, MigTypeOK, RunnerStep, RunnerState, given, Knows, At, Current, Walking, Started

LEMMA FailingKnows ==
    ASSUME MigInvariant, NEW r \in Runner, FailStart(r), UNCHANGED <<base, given>>
    PROVE  MigTypeOK' /\ Knows(r)'
BY FailedKnows DEF MigInvariant, MigTypeOK, base

LEMMA ExecuteKnows ==
    ASSUME MigInvariant, NEW r \in Runner, Execute(r)
    PROVE  MigTypeOK' /\ Knows(r)'
<1>1. /\ runner \in [Runner -> RunnerState] /\ Knows(r)
      /\ runner[r].at \in Nat /\ runner[r].tries \in Nat /\ files[r] \in File
    BY MigrationsAssumption DEF MigInvariant, MigTypeOK, RunnerStep, RunnerState, File
<1>2. CASE FailStart(r)
    BY <1>2, FailingKnows DEF Execute
<1>3. CASE To(r, "record") /\ UNCHANGED lock
    <2>1. At(r, "execute") /\ UNCHANGED <<base, given>>
        BY DEF Execute
    <2> QED
        BY <1>1, <1>3, <2>1, GoingOn
           DEF MigInvariant, MigTypeOK, RunnerStep, RunnerState, base, given, Rows, Knows, At, Current,
               Walking, Started
<1> QED
    BY <1>2, <1>3 DEF Execute

LEMMA ReadFailsKnows ==
    ASSUME MigInvariant, NEW r \in Runner, ReadFails(r)
    PROVE  MigTypeOK' /\ Knows(r)'
BY FailingKnows DEF ReadFails

LEMMA UnlockKnows ==
    ASSUME MigInvariant, NEW r \in Runner, Unlock(r)
    PROVE  MigTypeOK' /\ Knows(r)'
<1>1. /\ runner \in [Runner -> RunnerState] /\ Knows(r)
      /\ runner[r].at \in Nat /\ runner[r].tries \in Nat /\ files[r] \in File
    BY MigrationsAssumption DEF MigInvariant, MigTypeOK, RunnerStep, RunnerState, File
<1>2. At(r, "unlock") /\ To(r, "done") /\ UNCHANGED <<base, given>>
    BY DEF Unlock
<1>3. lock' \in Runner \cup {Free}
    BY DEF MigInvariant, MigTypeOK, Unlock, LeaveLock, Released
<1> QED
    BY <1>1, <1>2, <1>3, GoingOn
       DEF MigInvariant, MigTypeOK, RunnerStep, RunnerState, base, given, Rows, Knows, At, Current, Walking,
           Started

LEMMA CrashRunnerKnows ==
    ASSUME MigInvariant, NEW r \in Runner, CrashRunner(r)
    PROVE  MigTypeOK' /\ Knows(r)'
<1>1. /\ runner \in [Runner -> RunnerState] /\ Knows(r)
      /\ runner[r].at \in Nat /\ runner[r].tries \in Nat /\ files[r] \in File
    BY MigrationsAssumption DEF MigInvariant, MigTypeOK, RunnerStep, RunnerState, File
<1>2. To(r, "crashed") /\ UNCHANGED <<base, given>>
    BY DEF CrashRunner
<1>3. lock' \in Runner \cup {Free}
    BY DEF MigInvariant, MigTypeOK, CrashRunner, Released
<1> QED
    BY <1>1, <1>2, <1>3, GoingOn
       DEF MigInvariant, MigTypeOK, RunnerStep, RunnerState, base, given, Rows, Knows, At, Current, Walking,
           Started

\* A file that is looked at and found to be recorded, and as its replica has it.
LEMMA AdvancingKnows ==
    ASSUME MigInvariant, NEW r \in Runner, Advance(r), UNCHANGED <<effects, lock, given>>,
           runner[r].pc \in Walking, Current(r) <= files[r],
           row' \in [File -> Sums \cup {NoRow, Legacy}], overwritten' \subseteq File,
           overwritten \subseteq overwritten',
           \A f \in File : f # Current(r) => row'[f] = row[f],
           row'[Current(r)] # NoRow, row'[Current(r)] = sums[r][Current(r)] \/ silent
    PROVE  MigTypeOK' /\ Knows(r)'
<1>1. /\ runner \in [Runner -> RunnerState] /\ Knows(r)
      /\ runner[r].at \in Nat /\ files[r] \in File
    BY MigrationsAssumption DEF MigInvariant, MigTypeOK, RunnerStep, RunnerState, File
<1>2. Current(r) \in File /\ runner[r].at + 1 \in 1..LastFile + 1
    BY <1>1, MigrationsAssumption DEF MigInvariant, MigTypeOK, RunnerStep, RunnerState, File, Current
<1>3. \A f \in File : f < Current(r) + 1 => f = Current(r) \/ (f < Current(r) /\ f # Current(r))
    BY <1>1, MigrationsAssumption DEF File, Current
<1>4. MigTypeOK'
    BY <1>1, <1>2, Advancing DEF MigInvariant, MigTypeOK, RunnerState, given
<1>5. Knows(r)'
    BY <1>1, <1>2, <1>3, Advancing DEF Rows, given, Knows, At, Current, Walking, Started
<1> QED
    BY <1>4, <1>5

LEMMA VerifyChecksumKnows ==
    ASSUME MigInvariant, NEW r \in Runner, VerifyChecksum(r)
    PROVE  MigTypeOK' /\ Knows(r)'
<1>1. /\ runner \in [Runner -> RunnerState] /\ Knows(r)
      /\ runner[r].at \in Nat /\ files[r] \in File
    BY MigrationsAssumption DEF MigInvariant, MigTypeOK, RunnerStep, RunnerState, File
<1>2. /\ At(r, "next") /\ Current(r) <= files[r] /\ row[Current(r)] # NoRow
      /\ Current(r) \in File /\ UNCHANGED <<base, given>>
    BY <1>1, MigrationsAssumption
       DEF VerifyChecksum, Current, File, MigInvariant, MigTypeOK, RunnerStep, RunnerState
<1>3. CASE To(r, "backfill") /\ UNCHANGED lock
    <2>1. Current(r) \in Rows
        BY <1>2 DEF Rows
    <2> QED
        BY <1>1, <1>2, <1>3, <2>1, GoingOn
           DEF MigInvariant, MigTypeOK, RunnerStep, RunnerState, base, given, Rows, Knows, At, Current,
               Walking, Started
<1>4. CASE (row[Current(r)] = sums[r][Current(r)] \/ silent) /\ Advance(r) /\ UNCHANGED lock
    BY <1>2, <1>4, AdvancingKnows DEF MigInvariant, MigTypeOK, base, At, Walking
<1>5. CASE FailStart(r)
    BY <1>2, <1>5, FailingKnows
<1> QED
    BY <1>3, <1>4, <1>5 DEF VerifyChecksum, Current

LEMMA BackfillKnows ==
    ASSUME MigInvariant, NEW r \in Runner, Backfill(r)
    PROVE  MigTypeOK' /\ Knows(r)'
<1>1. /\ Knows(r) /\ At(r, "backfill") /\ Current(r) <= files[r] /\ Current(r) \in Rows
      /\ UNCHANGED <<effects, given>>
    BY DEF MigInvariant, Knows, Backfill
<1>2. Current(r) \in File /\ sums[r][Current(r)] \in Sums
    BY <1>1 DEF Rows, MigInvariant, MigTypeOK
<1>3. CASE UNCHANGED <<row, overwritten>>
    <2>1. FailStart(r) \/ (Advance(r) /\ UNCHANGED lock /\ row' = [row EXCEPT ![Current(r)] = sums[r][Current(r)]])
        BY DEF Backfill, Current
    <2>2. CASE FailStart(r)
        BY <1>1, <1>3, <2>2, FailingKnows DEF base
    <2>3. CASE Advance(r) /\ UNCHANGED lock /\ row' = [row EXCEPT ![Current(r)] = sums[r][Current(r)]]
        <3>1. row'[Current(r)] = sums[r][Current(r)] /\ row'[Current(r)] # NoRow
            BY <1>2, <2>3 DEF MigInvariant, MigTypeOK, Sums, NoRow
        <3> QED
            BY <1>1, <1>3, <2>3, <3>1, AdvancingKnows DEF At, Walking, MigInvariant, MigTypeOK
    <2> QED
        BY <2>1, <2>2, <2>3
<1>4. CASE /\ row' = [row EXCEPT ![Current(r)] = sums[r][Current(r)]]
           /\ overwritten' \in {overwritten, overwritten \cup {Current(r)}}
    <2>1. row' \in [File -> Sums \cup {NoRow, Legacy}] /\ overwritten' \subseteq File
          /\ row'[Current(r)] = sums[r][Current(r)] /\ row'[Current(r)] # NoRow
        BY <1>2, <1>4 DEF MigInvariant, MigTypeOK, Sums, NoRow
    <2>2. CASE Advance(r) /\ UNCHANGED lock
        BY <1>1, <1>2, <1>4, <2>1, <2>2, AdvancingKnows DEF At, Walking, MigInvariant, MigTypeOK
    <2>3. CASE FailStart(r)
        BY <1>1, <2>1, <2>3, FailedKnows DEF MigInvariant, MigTypeOK
    <2> QED
        BY <2>2, <2>3 DEF Backfill
<1> QED
    BY <1>3, <1>4 DEF Backfill, Current

LEMMA RecordKnows ==
    ASSUME MigInvariant, NEW r \in Runner, Record(r)
    PROVE  MigTypeOK' /\ Knows(r)'
<1>1. /\ runner \in [Runner -> RunnerState] /\ Knows(r)
      /\ runner[r].at \in Nat /\ runner[r].tries \in Nat /\ files[r] \in File
    BY MigrationsAssumption DEF MigInvariant, MigTypeOK, RunnerStep, RunnerState, File
<1>2. At(r, "record") /\ Current(r) \in File /\ Current(r) <= files[r] /\ Current(r) \notin Empty
    BY <1>1, MigrationsAssumption DEF Record, Knows, At, Current, File, RunnerStep, RunnerState
<1>3. CASE row[Current(r)] # NoRow
    BY <1>3, FailingKnows DEF Record, Current, base
<1>4. CASE row[Current(r)] = NoRow
    <2>1. /\ row' = [row EXCEPT ![Current(r)] = sums[r][Current(r)]]
          /\ effects' = [effects EXCEPT ![Current(r)] = @ + 1]
          /\ UNCHANGED <<given, overwritten>>
        BY <1>4 DEF Record, Current
    <2>2. row' \in [File -> Sums \cup {NoRow, Legacy}] /\ effects' \in [File -> Nat]
          /\ sums[r][Current(r)] \in Sums
        BY <1>2, <2>1 DEF MigInvariant, MigTypeOK
    <2>3. runner[r].at + 1 \in 1..LastFile + 1
        BY <1>1, <1>2, MigrationsAssumption DEF File, Current
    <2>4. \A f \in File : f < Current(r) + 1 => f = Current(r) \/ (f < Current(r) /\ f # Current(r))
        BY <1>1, MigrationsAssumption DEF File, Current
    <2>5. CASE Advance(r) /\ UNCHANGED lock
        <3>1. MigTypeOK'
            BY <1>1, <2>1, <2>2, <2>3, <2>5, Advancing DEF MigInvariant, MigTypeOK, RunnerStep, RunnerState, given
        <3>2. Knows(r)'
            BY <1>1, <1>2, <2>1, <2>2, <2>3, <2>4, <2>5, Advancing
               DEF MigInvariant, MigTypeOK, Rows, given, Knows, At, Current, Walking, Started, Sums,
                   NoRow, Legacy
        <3> QED
            BY <3>1, <3>2
    <2>6. CASE FailStart(r)
        BY <2>1, <2>2, <2>6, FailedKnows DEF MigInvariant, MigTypeOK
    <2> QED
        BY <1>4, <2>5, <2>6 DEF Record, Current
<1> QED
    BY <1>3, <1>4

LEMMA RunnerStepKnows ==
    ASSUME MigInvariant, NEW r \in Runner, Run(r) \/ CrashRunner(r)
    PROVE  MigTypeOK' /\ \A q \in Runner : Knows(q)'
<1>1. MigTypeOK' /\ Knows(r)'
    BY TryLockKnows, CountRowsKnows, ApplyNextKnows, VerifyChecksumKnows, BackfillKnows, AllSeenKnows,
       ExecuteKnows, RecordKnows, UnlockKnows, ReadFailsKnows, CrashRunnerKnows
       DEF Run
<1> QED
    BY <1>1, OthersKnow

\* Only Record and Backfill write rows, and only Record lets statements take effect.
LEMMA WhatIsWritten ==
    ASSUME MigInvariant, NEW r \in Runner, Run(r) \/ CrashRunner(r)
    PROVE  \/ effects' = effects /\ \A f \in File : (row'[f] = NoRow) <=> (row[f] = NoRow)
           \/ /\ At(r, "record") /\ row[Current(r)] = NoRow /\ row'[Current(r)] # NoRow
              /\ effects' = [effects EXCEPT ![Current(r)] = @ + 1]
              /\ \A f \in File : f # Current(r) => row'[f] = row[f]
<1>1. CASE Record(r) /\ row[Current(r)] = NoRow
    <2>1. Current(r) \in File
        BY <1>1, MigrationsAssumption
           DEF MigInvariant, MigTypeOK, Knows, Record, At, Current, File
    <2>2. sums[r][Current(r)] # NoRow
        BY <2>1 DEF MigInvariant, MigTypeOK, Sums, NoRow
    <2> QED
        BY <1>1, <2>1, <2>2 DEF Record, MigInvariant, MigTypeOK, Current, At
<1>2. CASE Record(r) /\ row[Current(r)] # NoRow
    BY <1>2 DEF Record, Current, base
<1>3. CASE Backfill(r)
    <2>1. \A f \in File : sums[r][f] # NoRow
        BY DEF MigInvariant, MigTypeOK, Sums, NoRow
    <2>2. Current(r) \in File /\ row[Current(r)] # NoRow
        BY <1>3 DEF MigInvariant, Knows, Backfill, Rows
    <2> QED
        BY <1>3, <2>1, <2>2 DEF Backfill, Current, MigInvariant, MigTypeOK, NoRow
<1>4. CASE UNCHANGED base
    BY <1>4 DEF base
<1>5. \/ Record(r) \/ Backfill(r) \/ UNCHANGED base
    BY DEF Run, TryLock, CountRows, ApplyNext, VerifyChecksum, AllSeen, Execute, Unlock, ReadFails, CrashRunner
<1> QED
    BY <1>1, <1>2, <1>3, <1>4, <1>5

\* The attempts to get the lock are not given back, and a step of a replica takes the lock
\* from no other.
LEMMA LockPasses ==
    ASSUME MigInvariant, NEW r \in Runner, Run(r) \/ CrashRunner(r)
    PROVE  /\ Unlocked => Unlocked'
           /\ \A q \in Runner : q # r /\ lock = q => lock' = q
           /\ runner'[r].pc \in Running /\ runner'[r].tries > 0 => lock' = r
<1>1. /\ runner \in [Runner -> RunnerState] /\ Free \notin Runner
      /\ \A q \in Runner : q # r => runner'[q] = runner[q]
    BY RowsOnlyGrow, MigrationsAssumption DEF MigInvariant, MigTypeOK, RunnerState
<1>2. runner[r].tries \in Nat /\ (At(r, "lock") => runner[r].tries > 0) /\ Alone(r)
    BY <1>1, MigrationsAssumption DEF MigInvariant, Knows, RunnerState
<1>3. CASE TryLock(r)
    <2>1. At(r, "lock") /\ runner[r].tries > 0
        BY <1>2, <1>3 DEF TryLock
    <2>2. Unlocked => Unlocked'
        BY <1>1, <2>1 DEF Unlocked
    <2>3. CASE lock = Free /\ lock' = r
        BY <1>1, <2>2, <2>3
    <2>4. CASE /\ runner' = [runner EXCEPT ![r].tries = @ - 1,
                                          ![r].pc = IF runner[r].tries = 1 THEN "count" ELSE "lock"]
               /\ UNCHANGED lock
        <3>1. runner'[r].tries = runner[r].tries - 1
              /\ runner'[r].pc = IF runner[r].tries = 1 THEN "count" ELSE "lock"
            BY <1>1, <2>4 DEF RunnerState
        <3>2. ~(runner'[r].pc \in Running /\ runner'[r].tries > 0)
            BY <1>2, <3>1 DEF Running, Walking
        <3> QED
            BY <2>2, <2>4, <3>2
    <2> QED
        BY <1>3, <2>3, <2>4 DEF TryLock
<1>4. CASE /\ runner'[r].tries = runner[r].tries
           /\ lock' \in {lock, Released(r)}
           /\ runner'[r].pc \in Running => runner[r].pc \in Running /\ lock' = lock
    <2>1. Unlocked => Unlocked'
        BY <1>1, <1>4 DEF Unlocked
    <2>2. \A q \in Runner : q # r /\ lock = q => lock' = q
        BY <1>4 DEF Released
    <2>3. runner'[r].pc \in Running /\ runner'[r].tries > 0 => lock' = r
        BY <1>2, <1>4 DEF Alone
    <2> QED
        BY <2>1, <2>2, <2>3
<1>5. CASE FailStart(r) \/ Unlock(r) \/ CrashRunner(r)
    <2>1. lock' \in {lock, Released(r)}
        BY <1>5 DEF FailStart, Unlock, CrashRunner, LeaveLock
    <2>2. PICK step \in {"failed", "done", "crashed"} : To(r, step)
        BY <1>5 DEF FailStart, Unlock, CrashRunner
    <2>3. runner'[r].tries = runner[r].tries /\ runner'[r].pc = step
        BY <1>1, <2>2, GoingOn DEF RunnerStep
    <2>4. step \notin Running
        BY <2>2 DEF Running, Walking
    <2> QED
        BY <1>4, <2>1, <2>3, <2>4
<1>6. CASE /\ runner[r].pc \in Running /\ UNCHANGED lock
           /\ \/ Advance(r) \/ \E step \in RunnerStep : To(r, step)
              \/ runner' = [runner EXCEPT ![r].pc = "unlock", ![r].brief = TRUE]
    <2>1. runner'[r].tries = runner[r].tries
        BY <1>1, <1>6 DEF Advance, To, RunnerState
    <2> QED
        BY <1>4, <1>6, <2>1
<1>7. ASSUME CountRows(r) \/ ApplyNext(r) \/ VerifyChecksum(r) \/ Backfill(r) \/ AllSeen(r)
             \/ Execute(r) \/ Record(r) \/ ReadFails(r)
      PROVE  FailStart(r) \/ (/\ runner[r].pc \in Running /\ UNCHANGED lock
                              /\ \/ Advance(r) \/ \E step \in RunnerStep : To(r, step)
                                 \/ runner' = [runner EXCEPT ![r].pc = "unlock", ![r].brief = TRUE])
    BY <1>7 DEF CountRows, ApplyNext, VerifyChecksum, Backfill, AllSeen, Execute, Record, ReadFails,
                At, Running, Walking, RunnerStep
<1> QED
    BY <1>3, <1>5, <1>6, <1>7 DEF Run

LEMMA AloneKept ==
    ASSUME MigInvariant, NEW r \in Runner, Run(r) \/ CrashRunner(r)
    PROVE  (\A q \in Runner : Alone(q)') /\ OverwrittenUnlocked'
<1>1. /\ Unlocked => Unlocked'
      /\ \A q \in Runner : q # r /\ lock = q => lock' = q
      /\ runner'[r].pc \in Running /\ runner'[r].tries > 0 => lock' = r
      /\ \A q \in Runner : q # r => runner'[q] = runner[q]
    BY LockPasses, RowsOnlyGrow
<1>2. \A q \in Runner : /\ Alone(q) /\ runner[q].tries \in Nat
                        /\ At(q, "backfill") => Current(q) \in Rows
    BY MigrationsAssumption DEF MigInvariant, MigTypeOK, Knows
<1>3. \/ Backfill(r)
      \/ overwritten' = overwritten /\ \A f \in File : row[f] # NoRow => row'[f] = row[f]
    <2>1. CASE Record(r)
        BY <2>1 DEF Record, MigInvariant, MigTypeOK
    <2>2. CASE UNCHANGED base
        BY <2>2 DEF base
    <2>3. Record(r) \/ Backfill(r) \/ UNCHANGED base
        BY DEF Run, TryLock, CountRows, ApplyNext, VerifyChecksum, AllSeen, Execute, Unlock, ReadFails,
               CrashRunner
    <2> QED
        BY <2>1, <2>2, <2>3
<1>4. ASSUME NEW q \in Runner, q # r
      PROVE  Alone(q)'
    <2>1. runner'[q].pc \in Running /\ runner'[q].tries > 0 => lock' = q
        BY <1>1, <1>2, <1>4 DEF Alone
    <2>2. CASE Unlocked
        BY <1>1, <2>1, <2>2 DEF Alone
    <2>3. CASE ~Unlocked /\ At(q, "backfill")
        <3>1. runner[q].tries > 0 /\ runner[r].tries > 0
            BY <1>2, <2>3 DEF Unlocked
        <3>2. ~At(r, "backfill")
            BY <1>2, <1>4, <2>3, <3>1 DEF Alone, At, Running, Walking
        <3>3. row'[Current(q)] = row[Current(q)]
            BY <1>2, <1>3, <2>3, <3>2 DEF Backfill, Rows
        <3> QED
            BY <1>1, <1>2, <1>4, <2>1, <2>3, <3>3 DEF Alone, Current
    <2>4. CASE ~At(q, "backfill")
        BY <1>1, <1>4, <2>1, <2>4 DEF Alone, At
    <2> QED
        BY <2>2, <2>3, <2>4
<1>5. At(r, "backfill")' => row'[Current(r)'] = Legacy
    <2>1. runner \in [Runner -> RunnerState]
        BY DEF MigInvariant, MigTypeOK, RunnerState
    <2>2. CASE VerifyChecksum(r) /\ To(r, "backfill")
        <3>1. runner'[r].pc = "backfill" /\ Current(r)' = Current(r)
            BY <2>1, <2>2, GoingOn DEF RunnerStep, Current
        <3>2. ~FailStart(r)
            BY <2>1, <3>1, GoingOn DEF RunnerStep, FailStart
        <3>3. ~Advance(r)
            BY <2>1, <3>1 DEF Advance, RunnerState
        <3>4. row[Current(r)] = Legacy /\ row' = row
            BY <2>2, <3>2, <3>3 DEF VerifyChecksum, base
        <3> QED
            BY <3>1, <3>4
    <2>3. ASSUME NEW step \in RunnerStep \ {"backfill"}, To(r, step)
          PROVE  ~At(r, "backfill")'
        BY <2>1, <2>3, GoingOn DEF At
    <2>4. CASE Advance(r)
        BY <2>1, <2>4 DEF Advance, At, RunnerState
    <2> QED
        BY <2>1, <2>2, <2>3, <2>4
           DEF Run, TryLock, CountRows, ApplyNext, VerifyChecksum, Backfill, AllSeen, Execute, Record,
               Unlock, ReadFails, FailStart, CrashRunner, At, RunnerStep, RunnerState
<1>6. Alone(r)'
    BY <1>1, <1>5 DEF Alone
<1>7. OverwrittenUnlocked'
    <2>1. CASE overwritten' = overwritten
        BY <1>1, <2>1 DEF MigInvariant, OverwrittenUnlocked, Unlocked
    <2>2. CASE Backfill(r) /\ row[Current(r)] # Legacy
        BY <1>1, <1>2, <2>2 DEF Backfill, Alone, OverwrittenUnlocked, Unlocked
    <2> QED
        BY <1>3, <2>1, <2>2 DEF Backfill, Current
<1> QED
    BY <1>4, <1>6, <1>7

LEMMA RunnerStepKeeps ==
    ASSUME MigInvariant, NEW r \in Runner, Run(r) \/ CrashRunner(r)
    PROVE  MigInvariant'
<1>1. CASE effects' = effects /\ \A f \in File : (row'[f] = NoRow) <=> (row[f] = NoRow)
    BY <1>1, RunnerStepKnows, AloneKept
       DEF MigInvariant, AppliedOnce, AppliedInOrder, EmptyUnrecorded, Rows
<1>2. CASE /\ At(r, "record") /\ row[Current(r)] = NoRow /\ row'[Current(r)] # NoRow
           /\ effects' = [effects EXCEPT ![Current(r)] = @ + 1]
           /\ \A f \in File : f # Current(r) => row'[f] = row[f]
    <2>1. Current(r) \in File /\ Current(r) \notin Empty
        BY <1>2, MigrationsAssumption DEF MigInvariant, MigTypeOK, Knows, At, Current, File
    <2>2. Rows' = Rows \cup {Current(r)}
        BY <1>2, <2>1 DEF Rows
    <2>3. AppliedOnce'
        BY <1>2, <2>1 DEF MigInvariant, MigTypeOK, AppliedOnce
    <2>4. EmptyUnrecorded'
        BY <2>1, <2>2 DEF MigInvariant, EmptyUnrecorded
    <2>5. \A f \in 1..Current(r) : f \in Rows' \cup Empty
        BY <1>2, <2>1, <2>2, MigrationsAssumption DEF MigInvariant, Knows, At, Walking, File
    <2>6. AppliedInOrder'
        BY <2>2, <2>5 DEF MigInvariant, AppliedInOrder
    <2> QED
        BY <2>3, <2>4, <2>6, RunnerStepKnows, AloneKept DEF MigInvariant
<1> QED
    BY <1>1, <1>2, WhatIsWritten

LEMMA MigInvariantHolds == MigInit => MigInvariant
<1> SUFFICES ASSUME MigInit
             PROVE  MigInvariant
    OBVIOUS
<1>1. runner \in [Runner -> RunnerState]
    BY MigrationsAssumption DEF MigInit, Start, RunnerStep, RunnerState
<1>2. PICK done \in 0..LastFile, sum \in [File -> {"old", Legacy}] :
          /\ row = [f \in File |-> IF f <= done /\ f \notin Empty THEN sum[f] ELSE NoRow]
          /\ effects = [f \in File |-> IF f <= done /\ f \notin Empty THEN 1 ELSE 0]
    BY DEF MigInit
<1>3. MigTypeOK
    BY <1>1, <1>2 DEF MigInit, MigTypeOK, RunnerStep, RunnerState, Sums, Legacy
<1>4. Rows = {f \in File : f <= done /\ f \notin Empty}
    BY <1>2 DEF Rows, NoRow, Legacy
<1>5. AppliedOnce
    BY <1>2 DEF AppliedOnce, NoRow, Legacy
<1>6. AppliedInOrder /\ EmptyUnrecorded
    BY <1>4, MigrationsAssumption DEF AppliedInOrder, EmptyUnrecorded, File
<1>7. \A r \in Runner : Knows(r)
    BY MigrationsAssumption DEF MigInit, Start, Knows, At, Walking, Started
<1>8. (\A r \in Runner : Alone(r)) /\ OverwrittenUnlocked
    BY DEF MigInit, Start, Alone, At, Running, Walking, OverwrittenUnlocked
<1> QED
    BY <1>3, <1>5, <1>6, <1>7, <1>8 DEF MigInvariant

LEMMA MigInvariantKept == MigInvariant /\ [MigNext]_migVars => MigInvariant'
<1>1. ASSUME MigInvariant, UNCHANGED migVars
      PROVE  MigInvariant'
    BY <1>1
       DEF MigInvariant, MigTypeOK, AppliedOnce, AppliedInOrder, EmptyUnrecorded, Rows, Knows,
           Alone, Unlocked, OverwrittenUnlocked, At, Current, migVars, base, given
<1> QED
    BY <1>1, RunnerStepKeeps DEF MigNext

LEMMA MigInvariantEnough == MigInvariant => MigTypeOK /\ SchemaIsWhole
<1> SUFFICES ASSUME MigInvariant
             PROVE  MigTypeOK /\ SchemaIsWhole
    OBVIOUS
<1>1. DoneIsMigrated
    BY DEF MigInvariant, Knows, Started, At, DoneIsMigrated
<1>2. DoneIsVerified
    BY DEF MigInvariant, Knows, Started, At, DoneIsVerified
<1> QED
    BY <1>1, <1>2 DEF MigInvariant, SchemaIsWhole

\* However many replicas, of whatever versions, start together, get the lock or go on
\* without, fail and die: the statements of a file take effect once and in order; a start
\* without an error has the schema of its files, and unless it only counted the rows, each
\* is recorded with the contents it knows.  Only a checksum that two replicas have filled
\* in may be another's, which takes one that had no lock.
THEOREM MigrationsKeepSchemaWhole == MigSpec => []SchemaIsWhole
<1>1. MigInvariant => SchemaIsWhole
    BY MigInvariantEnough
<1> QED
    BY <1>1, MigInvariantHolds, MigInvariantKept, PTL DEF MigSpec

--------------------------------------------------------------------------------
(* Both beside each other *)

\* The run of MCLifecycle keeps the types of both components, whichever of them moves.
THEOREM LifecycleTyped == FairSpec => []LifecycleTypeOK
<1>1. MigRests => MigInvariant
    <2> SUFFICES ASSUME MigRests
                 PROVE  MigInvariant
        OBVIOUS
    <2>1. Rows = {} /\ AppliedOnce /\ AppliedInOrder /\ EmptyUnrecorded
        BY DEF MigRests, Rows, NoRow, AppliedOnce, AppliedInOrder, EmptyUnrecorded
    <2>2. [Start EXCEPT !.pc = "failed"] \in RunnerState
        <3>1. Start \in RunnerState
            BY MigrationsAssumption DEF Start, RunnerStep, RunnerState
        <3>2. \A x \in RunnerState : [x EXCEPT !.pc = "failed"] \in RunnerState
            BY DEF RunnerStep, RunnerState
        <3> QED
            BY <3>1, <3>2
    <2>3. MigTypeOK
        BY <2>2, MigrationsAssumption DEF MigRests, MigTypeOK, RunnerStep, RunnerState, Sums, File
    <2>4. \A r \in Runner : Knows(r)
        BY DEF MigRests, Start, Knows, At, Walking, Started
    <2>5. (\A r \in Runner : Alone(r)) /\ OverwrittenUnlocked
        BY DEF MigRests, Start, Alone, At, Running, Walking, OverwrittenUnlocked
    <2> QED
        BY <2>1, <2>3, <2>4, <2>5 DEF MigInvariant
<1>2. Init => DownInvariant /\ MigInvariant
    BY <1>1, DownInvariantHolds, MigInvariantHolds DEF Init, DownRests, MigStarts
<1>3. [Next]_allVars => [DownNext]_downVars /\ [MigNext]_migVars
    BY DEF Next, allVars, ShutdownPart, MigrationPart, FloodPart, Part
<1>4. DownInvariant /\ MigInvariant => LifecycleTypeOK
    BY MigInvariantEnough DEF LifecycleTypeOK, DownInvariant
<1> QED
    BY <1>2, <1>3, <1>4, DownInvariantKept, MigInvariantKept, PTL DEF FairSpec

================================================================================
