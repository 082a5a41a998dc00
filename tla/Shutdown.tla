-------------------------------- MODULE Shutdown --------------------------------
(* How the process stops: main.go registers the handlers that utils/shutdown      *)
(* runs in reverse order with ten seconds each, while the updates accepted by     *)
(* utils/httpserver (or fetched by the poller) are still handled, each of them    *)
(* with a write of modules/users.go and a check of modules/aispam.go of its own.  *)
EXTENDS Naturals, Sequences, FiniteSets

CONSTANTS Update,      \* the updates that arrive
          Mentioning,  \* those that name a channel, or somebody replied to or forwarded
          Judged,      \* those that the AI spam filter wants to see
          QueueSize,   \* capacity of the server's dispatchQueue
          CheckQueue,  \* capacity of aispamQueue
          Workers,     \* aispamWorkerCount
          Budget       \* how many handlers may take their ten seconds before the sixty are over

ASSUME ShutdownAssumption == /\ {QueueSize, CheckQueue, Workers, Budget} \subseteq Nat \ {0}
                             /\ Mentioning \subseteq Update /\ Judged \subseteq Update

StagesSwapped == <<"intake", "checks", "db", "writes">>

\* The registered handlers, last registered first, without those of the pollers, the
\* tracer and the monitors, which touch nothing modelled here.
Stages == <<"intake", "checks", "writes", "db">>
Stage  == {Stages[i] : i \in DOMAIN Stages}

VARIABLES mode,      \* WorkingMode
          upd,       \* every update
          queue,     \* dispatchQueue
          closed,    \* dispatchStopped, or the poller stopped
          cancelled, \* dispatchContext is cancelled
          check,     \* the AI check of every update
          checks,    \* aispamQueue
          draining,  \* aispamDraining
          write,     \* the asynchronous upsert that an update starts
          db,        \* the connection pool
          turn,      \* the handler the manager waits for; 0: no signal yet
          handler,   \* every handler's goroutine
          late,      \* history: the handlers that did not get done in time
          ahead,     \* history: the checks that had passed the flag when the drain set it
          exit       \* "no", how the manager ends the process, or that main has returned

inflow == <<mode, upd, queue, closed, cancelled>>
spam   == <<check, checks, draining, ahead>>
tail   == <<turn, handler, late, exit>>
downVars == <<inflow, spam, write, db, tail>>

CountedOnSend == {"queued", "judging"}
Accepted == {"queued", "handling", "tracked"}           \* answered 200, and not finished
Counted == {"counted", "admitted", "queued", "judging"} \* in aispamInFlight

DownTypeOK ==
    /\ mode \in {"webhook", "polling"}
    /\ upd \in [Update -> Accepted \cup {"new", "request", "refused", "dropped", "handled"}]
    /\ queue \in Seq(Update) /\ Len(queue) <= QueueSize
    /\ check \in [Update -> Counted \cup {"none", "found", "shed", "over"}]
    /\ checks \in Seq(Update) /\ Len(checks) <= CheckQueue
    /\ write \in [Update -> {"none", "running", "done"}]
    /\ {closed, cancelled, draining} \subseteq BOOLEAN /\ db \in {"open", "closed"}
    /\ turn \in 0..Len(Stages) + 1
    /\ handler \in [Stage -> {"idle", "running", "over"}]
    /\ late \subseteq Stage /\ ahead \subseteq Update
    /\ exit \in {"no", "clean", "forced", "returned"}

\* main: everything is registered and started.
DownInit ==
    /\ mode \in {"webhook", "polling"}
    /\ upd = [u \in Update |-> "new"] /\ queue = <<>>
    /\ closed = FALSE /\ cancelled = FALSE
    /\ check = [u \in Update |-> "none"] /\ checks = <<>>
    /\ draining = FALSE /\ ahead = {}
    /\ write = [u \in Update |-> "none"] /\ db = "open"
    /\ turn = 0 /\ handler = [s \in Stage |-> "idle"] /\ late = {} /\ exit = "no"

UpdGoes(u, from, to)   == upd[u] = from /\ upd' = [upd EXCEPT ![u] = to]
CheckGoes(u, from, to) == check[u] = from /\ check' = [check EXCEPT ![u] = to]

--------------------------------------------------------------------------------
(* Updates *)

\* webhookHandler: the request is read and its secret checked.
Post(u) == /\ mode = "webhook" /\ UpdGoes(u, "new", "request")
           /\ UNCHANGED <<mode, queue, closed, cancelled, spam, write, db, tail>>

EnqueueAfterStop(u) ==
    /\ IF Len(queue) < QueueSize
       THEN UpdGoes(u, "request", "queued") /\ queue' = Append(queue, u)
       ELSE UpdGoes(u, "request", "refused") /\ UNCHANGED queue
    /\ UNCHANGED <<mode, closed, cancelled, spam, write, db, tail>>

\* enqueueUpdate, under dispatchMu: 503 when the server stops or the queue is full.
EnqueueUpdate(u) ==
    /\ IF ~closed /\ Len(queue) < QueueSize
       THEN UpdGoes(u, "request", "queued") /\ queue' = Append(queue, u)
       ELSE UpdGoes(u, "request", "refused") /\ UNCHANGED queue
    /\ UNCHANGED <<mode, closed, cancelled, spam, write, db, tail>>

DispatchUntilStop(u) ==
    /\ queue # <<>> /\ u = Head(queue)
    /\ UpdGoes(u, "queued", IF closed THEN "dropped" ELSE "handling")
    /\ queue' = Tail(queue)
    /\ UNCHANGED <<mode, closed, cancelled, spam, write, db, tail>>

\* A dispatch worker takes the next update; when the context is cancelled it drops it.
Dispatch(u) ==
    /\ queue # <<>> /\ u = Head(queue)
    /\ UpdGoes(u, "queued", IF cancelled THEN "dropped" ELSE "handling")
    /\ queue' = Tail(queue)
    /\ UNCHANGED <<mode, closed, cancelled, spam, write, db, tail>>

\* The updater fetches an update and starts its handlers.
Poll(u) == /\ mode = "polling" /\ ~closed /\ UpdGoes(u, "new", "handling")
           /\ UNCHANGED <<mode, queue, closed, cancelled, spam, write, db, tail>>

\* logUsers: the upsert of a channel, or of somebody replied to or forwarded, runs in a
\* goroutine counted by usersAsyncWG, unless it was done lately.
LogUsers(u) ==
    /\ UpdGoes(u, "handling", "tracked")
    /\ \E w \in {"none"} \cup (IF u \in Mentioning THEN {"running"} ELSE {}) :
           write' = [write EXCEPT ![u] = w]
    /\ UNCHANGED <<mode, queue, closed, cancelled, spam, db, tail>>

WriteDone(u) == /\ write[u] = "running" /\ write' = [write EXCEPT ![u] = "done"]
                /\ UNCHANGED <<inflow, spam, db, tail>>

\* checkAISpam lets the message through or wants it checked.
CheckAISpam(u) == /\ u \in Judged /\ upd[u] = "tracked" /\ CheckGoes(u, "none", "found")
                  /\ UNCHANGED <<inflow, checks, draining, ahead, write, db, tail>>

\* The handlers are through with the update.
Handled(u) == /\ UpdGoes(u, "tracked", "handled")
              /\ check[u] \notin {"found", "counted", "admitted"}
              /\ UNCHANGED <<mode, queue, closed, cancelled, spam, write, db, tail>>

--------------------------------------------------------------------------------
(* aispamEnqueue, in the update's goroutine, and the workers *)

CountCheck(u) == /\ CheckGoes(u, "found", "counted")
                 /\ UNCHANGED <<inflow, checks, draining, ahead, write, db, tail>>

ReadFlag(u) == /\ CheckGoes(u, "counted", IF draining THEN "shed" ELSE "admitted")
               /\ UNCHANGED <<inflow, checks, draining, ahead, write, db, tail>>

\* The select with a default: a full queue sheds the check.
Offer(u) == /\ IF Len(checks) < CheckQueue
               THEN CheckGoes(u, "admitted", "queued") /\ checks' = Append(checks, u)
               ELSE CheckGoes(u, "admitted", "shed") /\ UNCHANGED checks
            /\ UNCHANGED <<inflow, draining, ahead, write, db, tail>>

TakeCheck(u) == /\ checks # <<>> /\ u = Head(checks)
                /\ Cardinality({v \in Update : check[v] = "judging"}) < Workers
                /\ CheckGoes(u, "queued", "judging") /\ checks' = Tail(checks)
                /\ UNCHANGED <<inflow, draining, ahead, write, db, tail>>

CheckDone(u) == /\ CheckGoes(u, "judging", "over")
                /\ UNCHANGED <<inflow, checks, draining, ahead, write, db, tail>>

--------------------------------------------------------------------------------
(* The shutdown handlers: what their goroutine does, and when it returns *)

Begins(s)  == handler[s] = "idle" /\ turn > 0 /\ turn <= Len(Stages) /\ Stages[turn] = s
              /\ handler' = [handler EXCEPT ![s] = "running"]
Returns(s) == handler[s] = "running" /\ handler' = [handler EXCEPT ![s] = "over"]

\* Server.Stop closes the queue; Updater.Stop ends the polling.
StopIntake == /\ Begins("intake") /\ closed' = TRUE
              /\ UNCHANGED <<mode, upd, queue, cancelled, spam, write, db, turn, late, exit>>

\* Server.Shutdown has seen the requests out and dispatchWG the queue.
IntakeStopped ==
    /\ Returns("intake")
    /\ \A u \in Update : upd[u] \notin Accepted \cup {"request"}
    /\ cancelled' = TRUE
    /\ UNCHANGED <<mode, upd, queue, closed, spam, write, db, turn, late, exit>>

\* Stop's own ten seconds are over: it cancels what is left.
IntakeGivesUp ==
    /\ mode = "webhook" /\ Returns("intake")
    /\ cancelled' = TRUE /\ late' = late \cup {"intake"}
    /\ UNCHANGED <<mode, upd, queue, closed, spam, write, db, turn, exit>>

\* DrainAISpamChecks.
StartDrain ==
    /\ Begins("checks") /\ draining' = TRUE
    /\ ahead' = {u \in Update : check[u] \in {"admitted", "queued", "judging"}}
    /\ UNCHANGED <<inflow, check, checks, write, db, turn, late, exit>>

Drained == /\ Returns("checks") /\ \A u \in Update : check[u] \notin Counted
           /\ draining' = FALSE
           /\ UNCHANGED <<inflow, check, checks, ahead, write, db, turn, late, exit>>

\* Its thirty seconds are over, twenty after the manager went on.
DrainGivesUp == /\ Returns("checks") /\ "checks" \in late
                /\ draining' = FALSE
                /\ UNCHANGED <<inflow, check, checks, ahead, write, db, turn, late, exit>>

\* DrainUsersAsyncWrites.
AwaitWrites == /\ \/ Begins("writes")
                  \/ Returns("writes") /\ \A u \in Update : write[u] # "running"
               /\ UNCHANGED <<inflow, spam, write, db, turn, late, exit>>

CloseDB == /\ \/ Begins("db") /\ db' = "closed"
              \/ Returns("db") /\ UNCHANGED db
           /\ UNCHANGED <<inflow, spam, write, turn, late, exit>>

--------------------------------------------------------------------------------
(* Manager *)

Signal == /\ turn = 0 /\ turn' = 1
          /\ UNCHANGED <<inflow, spam, write, db, handler, late, exit>>

Waiting(s) == turn > 0 /\ turn <= Len(Stages) /\ Stages[turn] = s

\* The handler has answered: the next one, in reverse order of registration.
NextHandler == /\ \E s \in Stage : Waiting(s) /\ handler[s] = "over"
               /\ turn' = turn + 1
               /\ UNCHANGED <<inflow, spam, write, db, handler, late, exit>>

NeverSkip == FALSE /\ UNCHANGED downVars

\* Ten seconds: the manager goes on while the handler runs; after sixty it exits.
SkipHandler ==
    \E s \in Stage :
        /\ Waiting(s) /\ handler[s] = "running"
        /\ late' = late \cup {s}
        /\ IF Cardinality(late') < Budget THEN turn' = turn + 1 /\ UNCHANGED exit
                                          ELSE exit' = "forced" /\ UNCHANGED turn
        /\ UNCHANGED <<inflow, spam, write, db, handler>>

Exit == /\ turn = Len(Stages) + 1 /\ exit' = "clean"
        /\ UNCHANGED <<inflow, spam, write, db, turn, handler, late>>

\* Polling, main waits in updater.Idle and not for the manager: Updater.Stop, the first
\* handler, lets it return as soon as it is over, and the process ends.
MainReturns == /\ mode = "polling" /\ handler["intake"] = "over" /\ exit' = "returned"
               /\ UNCHANGED <<inflow, spam, write, db, turn, handler, late>>

--------------------------------------------------------------------------------
UpdateStep(u) == \/ Post(u) \/ EnqueueUpdate(u) \/ Dispatch(u) \/ Poll(u)
                 \/ LogUsers(u) \/ WriteDone(u) \/ CheckAISpam(u) \/ Handled(u)
                 \/ CountCheck(u) \/ ReadFlag(u) \/ Offer(u) \/ TakeCheck(u) \/ CheckDone(u)

Begin == StopIntake \/ StartDrain
Finish == IntakeStopped \/ IntakeGivesUp \/ Drained \/ DrainGivesUp
Simple == AwaitWrites \/ CloseDB
Manager == NextHandler \/ SkipHandler \/ Exit

\* Nothing moves any more once the process has exited.
DownNext == exit = "no" /\ ((\E u \in Update : UpdateStep(u)) \/ Begin \/ Finish \/ Simple \/ Signal
                             \/ Manager \/ MainReturns)

DownSpec == DownInit /\ [][DownNext]_downVars

\* The manager's goroutine starts a handler and its timers fire; a handler, an
\* update or a check may hang.
ManagerRuns == exit = "no" /\ (Manager \/ \E s \in Stage : Waiting(s) /\ handler[s] = "idle" /\ (Begin \/ Simple))
DownFair == WF_downVars(ManagerRuns)

--------------------------------------------------------------------------------
(* Properties *)

DrainWaits == handler["checks"] = "over" /\ "checks" \notin late =>
                  \A u \in ahead : check[u] \in {"over", "shed"}

DrainIsFinal == handler["checks"] = "over" =>
    \A u \in Update : check[u] \in Counted => late \cap {"intake", "checks"} # {}

ClosedLast == db = "closed" =>
    \A u \in Update :
        /\ upd[u] \in Accepted => "intake" \in late
        /\ check[u] \in Counted => late \cap {"intake", "checks"} # {}
        /\ write[u] = "running" => late \cap {"intake", "writes"} # {}

AcceptedIsHandled == \A u \in Update : upd[u] = "dropped" => "intake" \in late

Unfinished(u) == upd[u] \in Accepted \/ check[u] \in Counted \/ write[u] = "running"

ExitLosesNothing ==
    /\ exit \in {"clean", "forced"} /\ (\E u \in Update : Unfinished(u)) => late # {}
    /\ exit = "returned" => \A u \in Update : upd[u] \notin Accepted

\* What the order of the handlers in main and the comments in aispamEnqueue promise, as
\* far as it is true.  Behind a handler that was late, and only there: a check that had
\* passed the flag is not waited for; a check runs after the drain, which takes its flag
\* back; an update, a check or a write finds the database closed; an update that
\* Telegram was told 200 for is dropped; and the manager ends the process before an
\* update, a check or a write.  Polling, main may end it first: then nothing but the
\* handling of the updates themselves is sure to be finished, with no handler late.
ShutdownLosesNothing ==
    DrainWaits /\ DrainIsFinal /\ ClosedLast /\ AcceptedIsHandled /\ ExitLosesNothing

\* Whatever hangs, a signal ends the process.
ShutdownEnds == turn = 1 ~> exit # "no"
================================================================================
