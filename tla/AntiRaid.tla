-------------------------------- MODULE AntiRaid --------------------------------
(* alita/modules/antiraid.go for one chat.  The raid mode and the joins of the    *)
(* last minute live in Redis; join updates, commands, buttons and the poller, of  *)
(* all replicas, work on them without a lock, with scripts that compare the state *)
(* they have read.  Everything between two Redis calls of a task may be           *)
(* interleaved with the others.                                                   *)
EXTENDS Naturals, FiniteSets

CONSTANTS Join,         \* join updates
          Order,        \* administrators' commands and buttons
          Durations,    \* the values of raid_time, and of /antiraid <duration>
          Thresholds,   \* the values of auto_antiraid_threshold; 0 is off
          JoinWindow,   \* antiraidJoinWindowSeconds
          Rounds,       \* of setRaidDuration (5)
          Delay,        \* the calls of enableRaid and setRaidDuration take no longer
          Members,      \* bound: the members one update announces
          Changes,      \* bound on settings commands
          LastClock,    \* bound on the clock
          FaultyCalls,  \* which Redis calls may fail
          Faults        \* bound: how many do

ASSUME RaidAssumption ==
    /\ Durations \subseteq Nat \ {0} /\ Durations # {}
    /\ Thresholds \subseteq Nat /\ 0 \in Thresholds
    /\ Delay \in Nat /\ \A d \in Durations : Delay <= d
    /\ JoinWindow \in Nat /\ Rounds \in Nat \ {0} /\ Members \in Nat \ {0}
    /\ Changes \in Nat /\ LastClock \in Nat /\ Faults \in Nat
    /\ FaultyCalls \subseteq {"read", "script"}
    /\ Join \cap Order = {}

VARIABLES clock,
          raid,      \* the state key, NoRaid if there is none
          joins,     \* the sorted set of joins
          conf,      \* the chat's row in antiraid_settings
          cachedConf, \* what the settings cache answers for it
          changes,
          task,      \* every onJoin, command and callback
          reply,     \* what its caller was answered
          poller,    \* checkExpiredRaids
          faults,
          saw        \* history: the raid mode was on at some time during the task

redis        == <<raid, joins>>
raidSettings == <<conf, cachedConf, changes>>
raidVars == <<clock, redis, raidSettings, task, reply, poller, faults, saw>>

Task == Join \cup Order

Raid     == [started : Nat, expires : Nat]
NoRaid   == [started |-> 0, expires |-> 0]
NewRaid(start, length) == [started |-> start, expires |-> start + length]
Settings == [time : Durations, threshold : Thresholds]

Asking   == {"ask", "expire", "again"}                          \* isRaidActive
Enabling == {"read", "delete", "set", "clear"}                  \* enableRaid
Changing == {"check", "replace"}                                \* setRaidDuration
Joining  == {"next", "track", "ban"}                            \* the loop of onJoin
Ended     == {"idle", "done"}
TaskRecord == [pc : Asking \cup Enabling \cup Changing \cup Joining \cup {"off"} \cup Ended,
               op : {"join", "on", "off", "set", "status"},
               conf : Settings,     \* the settings it has read, or the duration it was given
               time : Nat, found : Raid, rounds : Nat, left : Nat, active : BOOLEAN]

RaidTypeOK == /\ clock \in Nat \ {0} /\ raid \in Raid
              /\ joins \subseteq Join \X Nat \X Nat
              /\ conf \in Settings /\ cachedConf \in Settings /\ changes \in Nat
              /\ task \in [Task -> TaskRecord]
              /\ reply \in [Task -> {"none", "started", "prolonged", "stopped"}]
              /\ poller \in [pc : {"idle", "delete"}, found : Raid]
              /\ faults \in 0..Faults
              /\ saw \in [Task -> BOOLEAN]

On == raid # NoRaid /\ clock <= raid.expires

NewTask(pc, op, c, left) == [pc |-> pc, op |-> op, conf |-> c, time |-> clock, found |-> NoRaid,
                             rounds |-> Rounds, left |-> left, active |-> FALSE]

RaidInit == /\ clock = 1 /\ raid = NoRaid /\ joins = {}
            /\ conf \in {c \in Settings : c.threshold = 0}      \* defaultAntiRaidSettings
            /\ cachedConf = conf /\ changes = Changes
            /\ task = [k \in Task |-> NewTask("idle", "join", conf, 0)]
            /\ reply = [k \in Task |-> "none"]
            /\ poller = [pc |-> "idle", found |-> NoRaid]
            /\ faults = Faults
            /\ saw = [k \in Task |-> FALSE]

Works       == UNCHANGED faults
Fails(call) == call \in FaultyCalls /\ faults > 0 /\ faults' = faults - 1

\* A task that holds a time it has read is not slower than Delay.
RaidTick == /\ clock < LastClock
            /\ \A k \in Task : task[k].pc \in {"read", "delete", "set", "replace"} => clock < task[k].time + Delay
            /\ clock' = clock + 1
            /\ UNCHANGED <<redis, raidSettings, task, reply, poller, faults>>

\* The time to live of the state key lasts one polling interval longer than the raid.
KeyExpires == /\ raid # NoRaid /\ clock > raid.expires
              /\ raid' = NoRaid
              /\ UNCHANGED <<clock, joins, raidSettings, task, reply, poller, faults>>

--------------------------------------------------------------------------------
(* /raidtime and /autoantiraid *)

Save(c) == /\ changes > 0 /\ conf' = c /\ changes' = changes - 1
           /\ UNCHANGED <<clock, redis, cachedConf, task, reply, poller, faults>>

SetRaidTime(d) == (conf.time # d \/ cachedConf.time # d) /\ Save([conf EXCEPT !.time = d])

SetAutoAntiRaidThreshold(n) == Save([conf EXCEPT !.threshold = n])

DropRaidSettings == /\ cachedConf # conf /\ cachedConf' = conf
                    /\ UNCHANGED <<clock, redis, conf, changes, task, reply, poller, faults>>

--------------------------------------------------------------------------------
(* The scripts *)

GoTo(k, pc) == task' = [task EXCEPT ![k].pc = pc]

\* deleteRaidStateIfUnchanged
DeleteIfUnchanged(found) == IF raid = found /\ found # NoRaid
                            THEN raid' = NoRaid /\ joins' = {}
                            ELSE UNCHANGED redis

\* getRaidState: an error reads as an inactive raid.
ReadState(state) == (state = raid /\ Works) \/ (state = NoRaid /\ Fails("read"))

--------------------------------------------------------------------------------
(* A task begins *)

StartJoin(j) ==
    /\ task[j].pc = "idle"
    /\ \E c \in {conf, cachedConf}, n \in 1..Members :
          task' = [task EXCEPT ![j] = NewTask("ask", "join", c, n)]
    /\ UNCHANGED <<clock, redis, raidSettings, reply, poller, faults>>

Begin(k, op, pc, c) ==
    /\ task[k].pc = "idle"
    /\ task' = [task EXCEPT ![k] = NewTask(pc, op, c, 0)]
    /\ UNCHANGED <<clock, redis, raidSettings, reply, poller, faults>>

\* The buttons on and off
Press(k) == (\E c \in {conf, cachedConf} : Begin(k, "on", "read", c)) \/ Begin(k, "off", "off", conf)

\* /antiraid, /antiraid on | off, which do the same, and /antiraid <duration>
GiveOrder(k) == \/ Press(k) \/ Begin(k, "status", "ask", conf)
                \/ \E d \in Durations : Begin(k, "set", "check", [conf EXCEPT !.time = d])

--------------------------------------------------------------------------------
(* isRaidActive *)

\* What the task does with the answer: a join goes through its members.
Answered(k, answer) ==
    task' = [task EXCEPT ![k].pc = IF task[k].op = "join" THEN "next" ELSE "done",
                         ![k].active = answer]

Ask(k) ==
    /\ task[k].pc = "ask"
    /\ \E state \in {raid, NoRaid} :
        /\ ReadState(state)
        /\ \/ state = NoRaid /\ Answered(k, FALSE)
           \/ state # NoRaid /\ clock <= state.expires /\ Answered(k, TRUE)
           \/ /\ state # NoRaid /\ clock > state.expires
              /\ task' = [task EXCEPT ![k].pc = "expire", ![k].found = state]
    /\ UNCHANGED <<clock, redis, raidSettings, reply, poller>>

AssumeExpired(k) ==
    /\ task[k].pc = "expire"
    /\ DeleteIfUnchanged(task[k].found) /\ Works /\ Answered(k, TRUE)
    /\ UNCHANGED <<clock, raidSettings, reply, poller>>

ExpireRaid(k) ==
    /\ task[k].pc = "expire"
    /\ \/ raid = task[k].found /\ DeleteIfUnchanged(raid) /\ Works /\ Answered(k, FALSE)
       \/ raid # task[k].found /\ UNCHANGED redis /\ Works /\ GoTo(k, "again")
       \/ UNCHANGED redis /\ Fails("script") /\ Answered(k, FALSE)
    /\ UNCHANGED <<clock, raidSettings, reply, poller>>

AskAgain(k) ==
    /\ task[k].pc = "again"
    /\ \E state \in {raid, NoRaid} :
          ReadState(state) /\ Answered(k, state # NoRaid /\ clock <= state.expires)
    /\ UNCHANGED <<clock, redis, raidSettings, reply, poller>>

--------------------------------------------------------------------------------
(* enableRaid, whose caller goes on with Enabled or EnableFails *)

Enable(k, from) == task[k].pc = from /\ task' = [task EXCEPT ![k].pc = "read", ![k].time = clock]

\* A join bans the member in any case, a duration that was not set is tried again.
Enabled(k, started) ==
    task' = [task EXCEPT
        ![k].active = (task[k].op = "join"),
        ![k].rounds = IF started \/ @ = 0 THEN @ ELSE @ - 1,
        ![k].pc = IF task[k].op = "join" THEN "ban"
                  ELSE IF task[k].op = "set" /\ ~started /\ task[k].rounds > 1 THEN "check" ELSE "done"]

EnableFails(k) == task' = [task EXCEPT ![k].pc = IF task[k].op = "join" THEN "next" ELSE "done",
                                       ![k].left = IF @ = 0 THEN 0 ELSE @ - 1]

ReadRaid(k) ==
    /\ task[k].pc = "read"
    /\ \E state \in {raid, NoRaid} :
        /\ ReadState(state)
        /\ \/ state.expires > task[k].time /\ Enabled(k, FALSE)
           \/ /\ state.expires <= task[k].time
              /\ task' = [task EXCEPT ![k].pc = "delete", ![k].found = state]
    /\ UNCHANGED <<clock, redis, raidSettings, reply, poller>>

DeleteRaid(k) ==
    /\ task[k].pc = "delete"
    /\ \/ DeleteIfUnchanged(task[k].found) /\ Works /\ GoTo(k, "set")
       \/ UNCHANGED redis /\ Fails("script") /\ EnableFails(k)
    /\ UNCHANGED <<clock, raidSettings, reply, poller>>

\* SET NX
SetRaid(k) ==
    /\ task[k].pc = "set"
    /\ \/ /\ raid = NoRaid /\ Works
          /\ raid' = NewRaid(task[k].time, task[k].conf.time)
          /\ reply' = [reply EXCEPT ![k] = "started"]
          /\ GoTo(k, "clear")
       \/ raid # NoRaid /\ Works /\ Enabled(k, FALSE) /\ UNCHANGED <<raid, reply>>
       \/ Fails("script") /\ EnableFails(k) /\ UNCHANGED <<raid, reply>>
    /\ UNCHANGED <<clock, joins, raidSettings, poller>>

\* clearJoinTracking, whose errors are ignored
ClearJoins(k) ==
    /\ task[k].pc = "clear"
    /\ (joins' = {} /\ Works) \/ (UNCHANGED joins /\ Fails("script"))
    /\ Enabled(k, TRUE)
    /\ UNCHANGED <<clock, raid, raidSettings, reply, poller>>

--------------------------------------------------------------------------------
(* setRaidDuration *)

CheckRaid(k) ==
    /\ task[k].pc = "check"
    /\ \E state \in {raid, NoRaid} :
        /\ ReadState(state)
        /\ \/ /\ state # NoRaid /\ clock <= state.expires
              /\ task' = [task EXCEPT ![k].pc = "replace", ![k].found = state, ![k].time = clock]
           \/ (state = NoRaid \/ clock > state.expires) /\ Enable(k, "check")
    /\ UNCHANGED <<clock, redis, raidSettings, reply, poller>>

Prolonged(k) == [started |-> task[k].found.started, expires |-> task[k].time + task[k].conf.time]

\* replaceRaidStateIfUnchanged
ReplaceRaid(k) ==
    /\ task[k].pc = "replace"
    /\ \/ /\ raid = task[k].found /\ Works
          /\ raid' = Prolonged(k)
          /\ reply' = [reply EXCEPT ![k] = "prolonged"]
          /\ GoTo(k, "done")
       \/ raid # task[k].found /\ Works /\ Enabled(k, FALSE) /\ UNCHANGED <<raid, reply>>
       \/ Fails("script") /\ EnableFails(k) /\ UNCHANGED <<raid, reply>>
    /\ UNCHANGED <<clock, joins, raidSettings, poller>>

--------------------------------------------------------------------------------
(* disableRaid: one script *)

DisableRaid(k) ==
    /\ task[k].pc = "off" /\ GoTo(k, "done")
    /\ \/ /\ Works /\ raid' = NoRaid /\ joins' = {}
          /\ reply' = IF raid = NoRaid THEN reply ELSE [reply EXCEPT ![k] = "stopped"]
       \/ Fails("script") /\ UNCHANGED <<redis, reply>>
    /\ UNCHANGED <<clock, raidSettings, poller>>

--------------------------------------------------------------------------------
(* onJoin, member by member *)

NextMember(k) == task' = [task EXCEPT ![k].pc = "next", ![k].left = @ - 1]

MemberBeyond(k) ==
    /\ task[k].pc = "next"
    /\ NextMember(k) \/ GoTo(k, "done") \/ (task[k].active /\ GoTo(k, "ban"))
    /\ UNCHANGED <<clock, redis, raidSettings, reply, poller, faults>>

Member(k) ==
    /\ task[k].pc = "next"
    /\ \/ task[k].left = 0 /\ GoTo(k, "done")
       \/ task[k].left > 0 /\ NextMember(k)              \* approved, administrator, the bot
       \/ task[k].left > 0 /\ task[k].active /\ GoTo(k, "ban")
       \/ task[k].left > 0 /\ ~task[k].active /\ task[k].conf.threshold > 0 /\ GoTo(k, "track")
    /\ UNCHANGED <<clock, redis, raidSettings, reply, poller, faults>>

\* trackJoin adds the join, drops those of more than a minute ago, and counts.
TrackJoin(k) ==
    LET recent == {j \in joins \cup {<<k, task[k].left, clock>>} : j[3] + JoinWindow > clock} IN
    /\ task[k].pc = "track"
    /\ \/ /\ Works /\ joins' = recent
          /\ IF Cardinality(recent) >= task[k].conf.threshold THEN Enable(k, "track") ELSE NextMember(k)
       \/ Fails("script") /\ UNCHANGED joins /\ NextMember(k)
    /\ UNCHANGED <<clock, raid, raidSettings, reply, poller>>

\* banRaidMember: a call to Telegram
Ban(k) ==
    /\ task[k].pc = "ban" /\ NextMember(k)
    /\ UNCHANGED <<clock, redis, raidSettings, reply, poller, faults>>

--------------------------------------------------------------------------------
(* checkExpiredRaids *)

PollerFinds ==
    /\ poller.pc = "idle" /\ raid # NoRaid /\ clock > raid.expires
    /\ poller' = [pc |-> "delete", found |-> raid]
    /\ UNCHANGED <<clock, redis, raidSettings, task, reply, faults>>

PollerDeletesAny ==
    /\ poller.pc = "delete" /\ poller' = [poller EXCEPT !.pc = "idle"]
    /\ DeleteIfUnchanged(raid) /\ Works
    /\ UNCHANGED <<clock, raidSettings, task, reply>>

PollerDeletesJoins ==
    /\ poller.pc = "delete" /\ poller' = [poller EXCEPT !.pc = "idle"]
    /\ joins' = {} /\ Works
    /\ UNCHANGED <<clock, raid, raidSettings, task, reply>>

PollerDeletes ==
    /\ poller.pc = "delete" /\ poller' = [poller EXCEPT !.pc = "idle"]
    /\ (DeleteIfUnchanged(poller.found) /\ Works) \/ (UNCHANGED redis /\ Fails("script"))
    /\ UNCHANGED <<clock, raidSettings, task, reply>>

--------------------------------------------------------------------------------
Work(k) == \/ Ask(k) \/ ExpireRaid(k) \/ AskAgain(k)
           \/ ReadRaid(k) \/ DeleteRaid(k) \/ SetRaid(k) \/ ClearJoins(k)
           \/ CheckRaid(k) \/ ReplaceRaid(k) \/ DisableRaid(k)

Step == \/ RaidTick \/ KeyExpires \/ PollerFinds \/ PollerDeletes \/ DropRaidSettings
        \/ \E d \in Durations : SetRaidTime(d)
        \/ \E n \in Thresholds : SetAutoAntiRaidThreshold(n)
        \/ \E k \in Order : GiveOrder(k)
        \/ \E k \in Join : StartJoin(k) \/ Member(k) \/ TrackJoin(k) \/ Ban(k)
        \/ \E k \in Task : Work(k)

\* The history of the raid mode, for the tasks under way.
Watch == saw' = [k \in Task |-> saw[k] \/ (task'[k].pc \notin Ended /\ On')]

RaidNext == Step /\ Watch

RaidSpec == RaidInit /\ [][RaidNext]_raidVars

\* The poller runs, and time passes.
FairRaidSpec == RaidSpec /\ WF_raidVars(PollerFinds /\ Watch) /\ WF_raidVars(PollerDeletes /\ Watch)

--------------------------------------------------------------------------------
(* Properties *)

\* Starts, prolongations, ends and expiries, by commands, buttons, joins and the
\* poller, are those of one raid mode ("winners = 1" and "deleted a newer raid" of
\* antiraid_test.go, for every interleaving).
Mode == INSTANCE RaidMode WITH until <- raid.expires, told <- reply
ImplementsRaidMode == Mode!Spec

\* A member is banned only by a task that has had the raid mode on at some time while
\* it ran, whatever the joins, commands and expiries around it.  A state that could
\* not be read is another matter: SET NX then takes a raid that is over for one.
Legible == "read" \notin FaultyCalls \/ faults = Faults
BansAreEarned == Legible => \A k \in Task : task[k].pc = "ban" => saw[k]

\* The poller removes a raid that is over, also when a script has failed it once and
\* without help from the key's time to live.
RaidEnds == raid # NoRaid /\ clock > raid.expires ~> raid = NoRaid \/ clock <= raid.expires

\* What a task knows of the member it works on and of the times it has read.
Working(k) ==
    /\ task[k].pc \in {"track", "ban"} => task[k].left > 0
    /\ task[k].pc \in Enabling /\ task[k].op = "join" => task[k].left > 0
    /\ task[k].pc \in Changing => task[k].op = "set"
    /\ task[k].pc \in {"read", "delete", "set", "replace"} =>
           task[k].time <= clock /\ clock <= task[k].time + Delay
    /\ task[k].pc = "delete" => task[k].found.expires <= task[k].time
    /\ task[k].pc = "expire" => task[k].found.expires < clock
    /\ task[k].pc = "replace" => task[k].found # NoRaid

\* Who has been answered has nothing to ask for any more.
Satisfied(k) == reply[k] # "none" =>
    task[k].pc \in {"clear", "done"} \/ (task[k].active /\ task[k].pc \in {"next", "ban"})

\* Who takes the raid mode for on, or is about to, has had it on.
Earned(k) ==
    /\ task[k].active /\ task[k].pc \notin Ended => saw[k]
    /\ task[k].pc \in {"ban", "clear"} => saw[k]
    /\ task[k].pc = "read" /\ raid.expires > task[k].time => saw[k]
    /\ task[k].pc = "delete" /\ raid \notin {task[k].found, NoRaid} => saw[k]
    /\ task[k].pc = "set" /\ raid # NoRaid => saw[k]

\* What holds of the raid mode and of every task between any two Redis calls; it
\* implies BansAreEarned and makes every step one of RaidMode.
RaidInvariant ==
    /\ RaidTypeOK
    /\ raid = NoRaid \/ raid.expires > 0
    /\ poller.pc = "delete" => poller.found.expires < clock
    /\ \A k \in Task : Working(k) /\ Satisfied(k)
    /\ Legible => \A k \in Task : Earned(k)
================================================================================
