------------------------------ MODULE AntiRaidProofs ------------------------------
(* Proofs about AntiRaid: its types, that bans are earned, and that it implements  *)
(* RaidMode, for any number of tasks, durations and failures.                      *)
EXTENDS AntiRaid, TLAPS

--------------------------------------------------------------------------------
(* What the moves of a task do to its fields *)

Same(k) == /\ task'[k].op = task[k].op /\ task'[k].time = task[k].time
           /\ task'[k].found = task[k].found /\ task'[k].left = task[k].left

LEMMA GoToFields ==
    ASSUME RaidTypeOK, NEW k \in Task, NEW pc, GoTo(k, pc)
    PROVE  Same(k) /\ task'[k].pc = pc /\ task'[k].active = task[k].active
BY DEF RaidTypeOK, TaskRecord, GoTo, Same

LEMMA AnsweredFields ==
    ASSUME RaidTypeOK, NEW k \in Task, NEW answer \in BOOLEAN, Answered(k, answer)
    PROVE  Same(k) /\ task'[k].pc \in {"next", "done"} /\ task'[k].active = answer
BY DEF RaidTypeOK, TaskRecord, Answered, Same

LEMMA EnableFields ==
    ASSUME RaidTypeOK, NEW k \in Task, NEW pc, Enable(k, pc)
    PROVE  /\ task'[k].op = task[k].op /\ task'[k].left = task[k].left
           /\ task'[k].active = task[k].active
           /\ task'[k].pc = "read" /\ task'[k].time = clock /\ task[k].pc = pc
BY DEF RaidTypeOK, TaskRecord, Enable

LEMMA EnabledFields ==
    ASSUME RaidTypeOK, NEW k \in Task, NEW started \in BOOLEAN, Enabled(k, started)
    PROVE  /\ Same(k)
           /\ task'[k].active = (task[k].op = "join")
           /\ task'[k].pc \in {"ban", "check", "done"}
           /\ task'[k].pc = "ban" => task[k].op = "join"
           /\ task[k].op = "join" => task'[k].pc = "ban"
           /\ task'[k].pc = "check" => task[k].op = "set" /\ ~started
<1>1. Same(k) /\ task'[k].active = (task[k].op = "join")
    BY DEF RaidTypeOK, TaskRecord, Enabled, Same
<1>2. task'[k].pc = IF task[k].op = "join" THEN "ban"
                    ELSE IF task[k].op = "set" /\ ~started /\ task[k].rounds > 1 THEN "check" ELSE "done"
    BY DEF RaidTypeOK, TaskRecord, Enabled
<1> QED BY <1>1, <1>2

LEMMA EnableFailsFields ==
    ASSUME RaidTypeOK, NEW k \in Task, EnableFails(k)
    PROVE  task'[k].pc \in {"next", "done"} /\ task'[k].active = task[k].active
BY DEF RaidTypeOK, TaskRecord, EnableFails

LEMMA NextMemberFields ==
    ASSUME RaidTypeOK, NEW k \in Task, NextMember(k)
    PROVE  task'[k].pc = "next" /\ task'[k].active = task[k].active
BY DEF RaidTypeOK, TaskRecord, NextMember

LEMMA Numbers ==
    ASSUME RaidTypeOK, NEW k \in Task
    PROVE  /\ clock \in Nat /\ clock > 0 /\ raid \in Raid /\ raid.expires \in Nat
           /\ task[k].time \in Nat /\ task[k].left \in Nat
           /\ task[k].found \in Raid /\ task[k].found.expires \in Nat /\ task[k].found.started \in Nat
           /\ task[k].conf.time \in Nat /\ task[k].conf.time > 0 /\ task[k].conf.time >= Delay
           /\ Delay \in Nat
<1>1. task[k].conf \in Settings /\ task[k].found \in Raid /\ task[k].time \in Nat /\ task[k].left \in Nat
    BY DEF RaidTypeOK, TaskRecord
<1>2. clock \in Nat \ {0} /\ raid \in Raid
    BY DEF RaidTypeOK
<1>3. raid.expires \in Nat /\ task[k].found.expires \in Nat /\ task[k].found.started \in Nat
    BY <1>1, <1>2 DEF Raid
<1>4. task[k].conf.time \in Durations
    BY <1>1 DEF Settings
<1>5. /\ task[k].conf.time \in Nat \ {0} /\ task[k].conf.time >= Delay /\ Delay \in Nat
    BY <1>4, RaidAssumption
<1> QED BY <1>1, <1>2, <1>3, <1>5

LEMMA RaidTypes == NoRaid \in Raid /\ \A a, b \in Nat : NewRaid(a, b) \in Raid
BY DEF NoRaid, NewRaid, Raid

LEMMA NewRaids ==
    /\ NoRaid \in Raid /\ NoRaid.expires = 0
    /\ \A a, b \in Nat : NewRaid(a, b) \in Raid /\ NewRaid(a, b).expires = a + b
    /\ \A r \in Raid : r.expires \in Nat
BY DEF NoRaid, NewRaid, Raid

LEMMA ProlongedRaids ==
    ASSUME NEW a \in Nat, NEW b \in Nat, NEW r, r = [started |-> a, expires |-> b]
    PROVE  r \in Raid /\ r.expires = b
BY DEF Raid

LEMMA NewRaidIsRaid ==
    ASSUME RaidTypeOK, NEW k \in Task
    PROVE  NewRaid(task[k].time, task[k].conf.time) # NoRaid
<1>1. task[k].time \in Nat /\ task[k].conf.time \in Nat /\ task[k].conf.time > 0
    BY Numbers
<1>2. NewRaid(task[k].time, task[k].conf.time).expires = task[k].time + task[k].conf.time
    BY <1>1, NewRaids
<1>3. NewRaid(task[k].time, task[k].conf.time).expires # 0
    BY <1>1, <1>2
<1> QED BY <1>3, NewRaids


--------------------------------------------------------------------------------
(* The raid mode *)

Known == /\ RaidTypeOK /\ \A k \in Task : Working(k)
         /\ raid = NoRaid \/ raid.expires > 0
         /\ poller.pc = "delete" => poller.found.expires < clock

LEMMA SetRaidRaid ==
    ASSUME Known, NEW k \in Task, SetRaid(k), raid' # raid
    PROVE  /\ raid = NoRaid /\ raid' = NewRaid(task[k].time, task[k].conf.time) /\ raid' \in Raid
           /\ raid' # NoRaid /\ raid'.expires > 0 /\ clock <= raid'.expires /\ clock' = clock
           /\ GoTo(k, "clear") /\ reply' = [reply EXCEPT ![k] = "started"] /\ UNCHANGED joins /\ Works
<1>1. /\ raid = NoRaid /\ raid' = NewRaid(task[k].time, task[k].conf.time) /\ clock' = clock
      /\ GoTo(k, "clear") /\ reply' = [reply EXCEPT ![k] = "started"] /\ UNCHANGED joins /\ Works
    BY DEF SetRaid
<1>2. clock <= task[k].time + Delay
    BY DEF SetRaid, Known, Working
<1>3. raid' \in Raid /\ raid'.expires = task[k].time + task[k].conf.time
    BY <1>1, Numbers, NewRaids DEF Known
<1>4. raid'.expires > 0 /\ clock <= raid'.expires
    BY <1>2, <1>3, Numbers DEF Known
<1> QED BY <1>1, <1>3, <1>4, NewRaids

LEMMA ReplaceRaidRaid ==
    ASSUME Known, NEW k \in Task, ReplaceRaid(k), raid' # raid
    PROVE  /\ raid = task[k].found /\ raid' = Prolonged(k) /\ raid' \in Raid
           /\ raid' # NoRaid /\ raid'.expires > 0 /\ clock <= raid'.expires /\ clock' = clock
           /\ raid # NoRaid /\ GoTo(k, "done") /\ reply' = [reply EXCEPT ![k] = "prolonged"] 
<1>1. /\ raid = task[k].found /\ raid' = Prolonged(k) /\ clock' = clock
      /\ GoTo(k, "done") /\ reply' = [reply EXCEPT ![k] = "prolonged"]
    BY DEF ReplaceRaid
<1>2. clock <= task[k].time + Delay /\ task[k].found # NoRaid
    BY DEF ReplaceRaid, Known, Working
<1>3. raid' \in Raid /\ raid'.expires = task[k].time + task[k].conf.time
    <2>1. task[k].found.started \in Nat /\ task[k].time + task[k].conf.time \in Nat
        BY Numbers DEF Known
    <2> QED BY <1>1, <2>1, ProlongedRaids DEF Prolonged
<1>4. raid'.expires > 0 /\ clock <= raid'.expires
    BY <1>2, <1>3, Numbers DEF Known
<1> QED BY <1>1, <1>2, <1>3, <1>4, NewRaids

\* A step leaves the raid mode as it is, ends it, or sets an end that is still to come.
RaidChanges ==
    /\ raid' \in Raid
    /\ \/ raid' \in {raid, NoRaid}
       \/ raid' # NoRaid /\ raid'.expires > 0 /\ clock' <= raid'.expires

LEMMA RaidStep == ASSUME Known, Step PROVE RaidChanges
<1> USE NewRaids DEF Known, RaidTypeOK, RaidChanges, redis, raidSettings
<1>1. ASSUME RaidTick PROVE RaidChanges
    BY <1>1 DEF RaidTick
<1>2. ASSUME KeyExpires PROVE RaidChanges
    BY <1>2 DEF KeyExpires
<1>3. ASSUME PollerFinds PROVE RaidChanges
    BY <1>3 DEF PollerFinds
<1>4. ASSUME PollerDeletes PROVE RaidChanges
    BY <1>4 DEF PollerDeletes, DeleteIfUnchanged, redis, Works, Fails
<1>5. ASSUME DropRaidSettings PROVE RaidChanges
    BY <1>5 DEF DropRaidSettings
<1>6. ASSUME NEW d \in Durations, SetRaidTime(d) PROVE RaidChanges
    BY <1>6 DEF SetRaidTime, Save, Settings
<1>7. ASSUME NEW n \in Thresholds, SetAutoAntiRaidThreshold(n) PROVE RaidChanges
    BY <1>7 DEF SetAutoAntiRaidThreshold, Save, Settings
<1>8. ASSUME NEW j \in Join, StartJoin(j) PROVE RaidChanges
    BY <1>8 DEF StartJoin
<1>9. ASSUME NEW k \in Order, GiveOrder(k) PROVE RaidChanges
    BY <1>9 DEF GiveOrder, Press, Begin
<1>10. ASSUME NEW k \in Task, Ask(k) PROVE RaidChanges
    BY <1>10 DEF Ask, Answered, ReadState, Works, Fails
<1>11. ASSUME NEW k \in Task, ExpireRaid(k) PROVE RaidChanges
    BY <1>11 DEF ExpireRaid, Answered, DeleteIfUnchanged, Works, Fails, GoTo
<1>12. ASSUME NEW k \in Task, AskAgain(k) PROVE RaidChanges
    BY <1>12 DEF AskAgain, Answered, ReadState, Works, Fails
<1>13. ASSUME NEW k \in Task, ReadRaid(k) PROVE RaidChanges
    BY <1>13 DEF ReadRaid, ReadState, Works, Fails, Enabled
<1>14. ASSUME NEW k \in Task, DeleteRaid(k) PROVE RaidChanges
    BY <1>14 DEF DeleteRaid, DeleteIfUnchanged, Works, Fails, GoTo, EnableFails
<1>15. ASSUME NEW k \in Task, SetRaid(k) PROVE RaidChanges
    BY <1>15, SetRaidRaid DEF SetRaid, Works, Fails
<1>16. ASSUME NEW k \in Task, ClearJoins(k) PROVE RaidChanges
    BY <1>16 DEF ClearJoins, Works, Fails, Enabled
<1>17. ASSUME NEW k \in Task, CheckRaid(k) PROVE RaidChanges
    BY <1>17 DEF CheckRaid, ReadState, Works, Fails, Enable
<1>18. ASSUME NEW k \in Task, ReplaceRaid(k) PROVE RaidChanges
    BY <1>18, ReplaceRaidRaid DEF ReplaceRaid, Works, Fails
<1>19. ASSUME NEW k \in Task, DisableRaid(k) PROVE RaidChanges
    BY <1>19 DEF DisableRaid, Works, Fails, GoTo
<1>20. ASSUME NEW k \in Join, Member(k) PROVE RaidChanges
    BY <1>20 DEF Member, NextMember, GoTo
<1>21. ASSUME NEW k \in Join, TrackJoin(k) PROVE RaidChanges
    BY <1>21 DEF TrackJoin, NextMember, Enable, Works, Fails
<1>22. ASSUME NEW k \in Join, Ban(k) PROVE RaidChanges
    BY <1>22 DEF Ban, NextMember
<1> QED BY <1>1, <1>2, <1>3, <1>4, <1>5, <1>6, <1>7, <1>8, <1>9, <1>10, <1>11, <1>12, <1>13, <1>14, <1>15, <1>16, <1>17, <1>18, <1>19, <1>20, <1>21, <1>22 DEF Step, Work

LEMMA PollerTick ==
    ASSUME Known, RaidTick
    PROVE  clock' \in Nat \ {0} /\ (poller'.pc = "delete" => poller'.found.expires < clock')
<1>1. poller' = poller /\ clock' = clock + 1
    BY DEF RaidTick
<1>2. clock \in Nat /\ poller.found \in Raid
    BY DEF Known, RaidTypeOK
<1>3. poller.found.expires \in Nat
    BY <1>2, NewRaids
<1>4. poller.pc = "delete" => poller.found.expires < clock
    BY DEF Known
<1> QED BY <1>1, <1>2, <1>3, <1>4

\* So does the poller: it holds a raid that is over.
LEMMA PollerStep ==
    ASSUME Known, Step
    PROVE  clock' \in Nat \ {0} /\ (poller.pc = "delete" => poller.found.expires < clock)'
<1> DEFINE Goal == clock' \in Nat \ {0} /\ (poller'.pc = "delete" => poller'.found.expires < clock')
<1> USE NewRaids DEF Known, RaidTypeOK, redis, raidSettings
<1>1. ASSUME RaidTick PROVE Goal
    BY <1>1, PollerTick
<1>2. ASSUME KeyExpires PROVE Goal
    BY <1>2 DEF KeyExpires
<1>3. ASSUME PollerFinds PROVE Goal
    BY <1>3 DEF PollerFinds
<1>4. ASSUME PollerDeletes PROVE Goal
    BY <1>4 DEF PollerDeletes, DeleteIfUnchanged, redis, Works, Fails
<1>5. ASSUME DropRaidSettings PROVE Goal
    BY <1>5 DEF DropRaidSettings
<1>6. ASSUME NEW d \in Durations, SetRaidTime(d) PROVE Goal
    BY <1>6 DEF SetRaidTime, Save, Settings
<1>7. ASSUME NEW n \in Thresholds, SetAutoAntiRaidThreshold(n) PROVE Goal
    BY <1>7 DEF SetAutoAntiRaidThreshold, Save, Settings
<1>8. ASSUME NEW j \in Join, StartJoin(j) PROVE Goal
    BY <1>8 DEF StartJoin
<1>9. ASSUME NEW k \in Order, GiveOrder(k) PROVE Goal
    BY <1>9 DEF GiveOrder, Press, Begin
<1>10. ASSUME NEW k \in Task, Ask(k) PROVE Goal
    BY <1>10 DEF Ask, Answered, ReadState, Works, Fails
<1>11. ASSUME NEW k \in Task, ExpireRaid(k) PROVE Goal
    BY <1>11 DEF ExpireRaid, Answered, DeleteIfUnchanged, Works, Fails, GoTo
<1>12. ASSUME NEW k \in Task, AskAgain(k) PROVE Goal
    BY <1>12 DEF AskAgain, Answered, ReadState, Works, Fails
<1>13. ASSUME NEW k \in Task, ReadRaid(k) PROVE Goal
    BY <1>13 DEF ReadRaid, ReadState, Works, Fails, Enabled
<1>14. ASSUME NEW k \in Task, DeleteRaid(k) PROVE Goal
    BY <1>14 DEF DeleteRaid, DeleteIfUnchanged, Works, Fails, GoTo, EnableFails
<1>15. ASSUME NEW k \in Task, SetRaid(k) PROVE Goal
    BY <1>15 DEF SetRaid, Works, Fails, Enabled, EnableFails, GoTo
<1>16. ASSUME NEW k \in Task, ClearJoins(k) PROVE Goal
    BY <1>16 DEF ClearJoins, Works, Fails, Enabled
<1>17. ASSUME NEW k \in Task, CheckRaid(k) PROVE Goal
    BY <1>17 DEF CheckRaid, ReadState, Works, Fails, Enable
<1>18. ASSUME NEW k \in Task, ReplaceRaid(k) PROVE Goal
    BY <1>18 DEF ReplaceRaid, Works, Fails, Enabled, EnableFails, GoTo, Prolonged
<1>19. ASSUME NEW k \in Task, DisableRaid(k) PROVE Goal
    BY <1>19 DEF DisableRaid, Works, Fails, GoTo
<1>20. ASSUME NEW k \in Join, Member(k) PROVE Goal
    BY <1>20 DEF Member, NextMember, GoTo
<1>21. ASSUME NEW k \in Join, TrackJoin(k) PROVE Goal
    BY <1>21 DEF TrackJoin, NextMember, Enable, Works, Fails
<1>22. ASSUME NEW k \in Join, Ban(k) PROVE Goal
    BY <1>22 DEF Ban, NextMember
<1> QED BY <1>1, <1>2, <1>3, <1>4, <1>5, <1>6, <1>7, <1>8, <1>9, <1>10, <1>11, <1>12, <1>13, <1>14, <1>15, <1>16, <1>17, <1>18, <1>19, <1>20, <1>21, <1>22 DEF Step, Work

--------------------------------------------------------------------------------
(* Types *)

OtherTypes == /\ joins' \subseteq Join \X Nat \X Nat
              /\ conf' \in Settings /\ cachedConf' \in Settings /\ changes' \in Nat
              /\ reply' \in [Task -> {"none", "started", "prolonged", "stopped"}]
              /\ poller' \in [pc : {"idle", "delete"}, found : Raid]
              /\ faults' \in 0..Faults

LEMMA OtherTypesStep ==
    ASSUME RaidTypeOK, \A k \in Task : Working(k), Step
    PROVE  OtherTypes
<1> USE RaidTypes, RaidAssumption DEF RaidTypeOK, OtherTypes, redis, raidSettings
<1>1. ASSUME RaidTick PROVE OtherTypes
    BY <1>1 DEF RaidTick
<1>2. ASSUME KeyExpires PROVE OtherTypes
    BY <1>2 DEF KeyExpires
<1>3. ASSUME PollerFinds PROVE OtherTypes
    BY <1>3 DEF PollerFinds
<1>4. ASSUME PollerDeletes PROVE OtherTypes
    BY <1>4 DEF PollerDeletes, DeleteIfUnchanged, redis, Works, Fails
<1>5. ASSUME DropRaidSettings PROVE OtherTypes
    BY <1>5 DEF DropRaidSettings
<1>6. ASSUME NEW d \in Durations, SetRaidTime(d) PROVE OtherTypes
    BY <1>6 DEF SetRaidTime, Save, Settings
<1>7. ASSUME NEW n \in Thresholds, SetAutoAntiRaidThreshold(n) PROVE OtherTypes
    BY <1>7 DEF SetAutoAntiRaidThreshold, Save, Settings
<1>8. ASSUME NEW j \in Join, StartJoin(j) PROVE OtherTypes
    BY <1>8 DEF StartJoin
<1>9. ASSUME NEW k \in Order, GiveOrder(k) PROVE OtherTypes
    BY <1>9 DEF GiveOrder, Press, Begin
<1>10. ASSUME NEW k \in Task, Ask(k) PROVE OtherTypes
    BY <1>10 DEF Ask, Answered, ReadState, Works, Fails
<1>11. ASSUME NEW k \in Task, ExpireRaid(k) PROVE OtherTypes
    BY <1>11 DEF ExpireRaid, Answered, DeleteIfUnchanged, Works, Fails, GoTo
<1>12. ASSUME NEW k \in Task, AskAgain(k) PROVE OtherTypes
    BY <1>12 DEF AskAgain, Answered, ReadState, Works, Fails
<1>13. ASSUME NEW k \in Task, ReadRaid(k) PROVE OtherTypes
    BY <1>13 DEF ReadRaid, ReadState, Works, Fails, Enabled
<1>14. ASSUME NEW k \in Task, DeleteRaid(k) PROVE OtherTypes
    BY <1>14 DEF DeleteRaid, DeleteIfUnchanged, Works, Fails, GoTo, EnableFails
<1>15. ASSUME NEW k \in Task, SetRaid(k) PROVE OtherTypes
    BY <1>15 DEF SetRaid, Works, Fails, Enabled, EnableFails, GoTo
<1>16. ASSUME NEW k \in Task, ClearJoins(k) PROVE OtherTypes
    BY <1>16 DEF ClearJoins, Works, Fails, Enabled
<1>17. ASSUME NEW k \in Task, CheckRaid(k) PROVE OtherTypes
    BY <1>17 DEF CheckRaid, ReadState, Works, Fails, Enable
<1>18. ASSUME NEW k \in Task, ReplaceRaid(k) PROVE OtherTypes
    BY <1>18 DEF ReplaceRaid, Works, Fails, Enabled, EnableFails, GoTo, Prolonged
<1>19. ASSUME NEW k \in Task, DisableRaid(k) PROVE OtherTypes
    BY <1>19 DEF DisableRaid, Works, Fails, GoTo
<1>20. ASSUME NEW k \in Join, Member(k) PROVE OtherTypes
    BY <1>20 DEF Member, NextMember, GoTo
<1>21. ASSUME NEW k \in Join, TrackJoin(k) PROVE OtherTypes
    <2>1. <<k, task[k].left, clock>> \in Join \X Nat \X Nat
        BY <1>21 DEF TaskRecord, Task
    <2>2. /\ UNCHANGED <<conf, cachedConf, changes, reply, poller>>
          /\ faults' \in 0..Faults
        BY <1>21 DEF TrackJoin, Works, Fails
    <2>3. joins' \subseteq joins \cup {<<k, task[k].left, clock>>}
        BY <1>21 DEF TrackJoin
    <2> QED BY <2>1, <2>2, <2>3
<1>22. ASSUME NEW k \in Join, Ban(k) PROVE OtherTypes
    BY <1>22 DEF Ban, NextMember
<1> QED BY <1>1, <1>2, <1>3, <1>4, <1>5, <1>6, <1>7, <1>8, <1>9, <1>10, <1>11, <1>12, <1>13, <1>14, <1>15, <1>16, <1>17, <1>18, <1>19, <1>20, <1>21, <1>22 DEF Step, Work

LEMMA TaskTypesStep ==
    ASSUME RaidTypeOK, \A k \in Task : Working(k), Step
    PROVE  task' \in [Task -> TaskRecord]
<1> USE RaidTypes, RaidAssumption DEF RaidTypeOK, redis, raidSettings
<1>1. ASSUME RaidTick PROVE task' \in [Task -> TaskRecord]
    BY <1>1 DEF RaidTick, TaskRecord, NewTask, Asking, Enabling, Changing, Joining, Ended, Working, Task
<1>2. ASSUME KeyExpires PROVE task' \in [Task -> TaskRecord]
    BY <1>2 DEF KeyExpires, TaskRecord, NewTask, Asking, Enabling, Changing, Joining, Ended, Working, Task
<1>3. ASSUME PollerFinds PROVE task' \in [Task -> TaskRecord]
    BY <1>3 DEF PollerFinds, TaskRecord, NewTask, Asking, Enabling, Changing, Joining, Ended, Working, Task
<1>4. ASSUME PollerDeletes PROVE task' \in [Task -> TaskRecord]
    BY <1>4 DEF PollerDeletes, DeleteIfUnchanged, redis, Works, Fails, TaskRecord, NewTask, Asking, Enabling, Changing, Joining, Ended, Working, Task
<1>5. ASSUME DropRaidSettings PROVE task' \in [Task -> TaskRecord]
    BY <1>5 DEF DropRaidSettings, TaskRecord, NewTask, Asking, Enabling, Changing, Joining, Ended, Working, Task
<1>6. ASSUME NEW d \in Durations, SetRaidTime(d) PROVE task' \in [Task -> TaskRecord]
    BY <1>6 DEF SetRaidTime, Save, Settings, TaskRecord, NewTask, Asking, Enabling, Changing, Joining, Ended, Working, Task
<1>7. ASSUME NEW n \in Thresholds, SetAutoAntiRaidThreshold(n) PROVE task' \in [Task -> TaskRecord]
    BY <1>7 DEF SetAutoAntiRaidThreshold, Save, Settings, TaskRecord, NewTask, Asking, Enabling, Changing, Joining, Ended, Working, Task
<1>8. ASSUME NEW j \in Join, StartJoin(j) PROVE task' \in [Task -> TaskRecord]
    BY <1>8 DEF StartJoin, TaskRecord, NewTask, Asking, Enabling, Changing, Joining, Ended, Working, Task
<1>9. ASSUME NEW k \in Order, GiveOrder(k) PROVE task' \in [Task -> TaskRecord]
    <2>1. conf \in Settings /\ cachedConf \in Settings /\ \A d \in Durations : [conf EXCEPT !.time = d] \in Settings
        BY DEF Settings
    <2>2. PICK op \in {"on", "off", "set", "status"}, pc \in {"ask", "read", "off", "check"},
               c \in Settings : Begin(k, op, pc, c)
        BY <1>9, <2>1 DEF GiveOrder, Press
    <2>3. NewTask(pc, op, c, 0) \in TaskRecord
        BY DEF NewTask, TaskRecord, Asking, Enabling, Changing, Joining, Ended
    <2> QED BY <2>2, <2>3 DEF Begin
<1>10. ASSUME NEW k \in Task, Ask(k) PROVE task' \in [Task -> TaskRecord]
    BY <1>10 DEF Ask, Answered, ReadState, Works, Fails, TaskRecord, NewTask, Asking, Enabling, Changing, Joining, Ended, Working, Task
<1>11. ASSUME NEW k \in Task, ExpireRaid(k) PROVE task' \in [Task -> TaskRecord]
    BY <1>11 DEF ExpireRaid, Answered, DeleteIfUnchanged, Works, Fails, GoTo, TaskRecord, NewTask, Asking, Enabling, Changing, Joining, Ended, Working, Task
<1>12. ASSUME NEW k \in Task, AskAgain(k) PROVE task' \in [Task -> TaskRecord]
    BY <1>12 DEF AskAgain, Answered, ReadState, Works, Fails, TaskRecord, NewTask, Asking, Enabling, Changing, Joining, Ended, Working, Task
<1>13. ASSUME NEW k \in Task, ReadRaid(k) PROVE task' \in [Task -> TaskRecord]
    BY <1>13 DEF ReadRaid, ReadState, Works, Fails, Enabled, TaskRecord, NewTask, Asking, Enabling, Changing, Joining, Ended, Working, Task
<1>14. ASSUME NEW k \in Task, DeleteRaid(k) PROVE task' \in [Task -> TaskRecord]
    BY <1>14 DEF DeleteRaid, DeleteIfUnchanged, Works, Fails, GoTo, EnableFails, TaskRecord, NewTask, Asking, Enabling, Changing, Joining, Ended, Working, Task
<1>15. ASSUME NEW k \in Task, SetRaid(k) PROVE task' \in [Task -> TaskRecord]
    BY <1>15 DEF SetRaid, Works, Fails, Enabled, EnableFails, GoTo, TaskRecord, NewTask, Asking, Enabling, Changing, Joining, Ended, Working, Task
<1>16. ASSUME NEW k \in Task, ClearJoins(k) PROVE task' \in [Task -> TaskRecord]
    BY <1>16 DEF ClearJoins, Works, Fails, Enabled, TaskRecord, NewTask, Asking, Enabling, Changing, Joining, Ended, Working, Task
<1>17. ASSUME NEW k \in Task, CheckRaid(k) PROVE task' \in [Task -> TaskRecord]
    BY <1>17 DEF CheckRaid, ReadState, Works, Fails, Enable, TaskRecord, NewTask, Asking, Enabling, Changing, Joining, Ended, Working, Task
<1>18. ASSUME NEW k \in Task, ReplaceRaid(k) PROVE task' \in [Task -> TaskRecord]
    BY <1>18 DEF ReplaceRaid, Works, Fails, Enabled, EnableFails, GoTo, Prolonged, TaskRecord, NewTask, Asking, Enabling, Changing, Joining, Ended, Working, Task
<1>19. ASSUME NEW k \in Task, DisableRaid(k) PROVE task' \in [Task -> TaskRecord]
    BY <1>19 DEF DisableRaid, Works, Fails, GoTo, TaskRecord, NewTask, Asking, Enabling, Changing, Joining, Ended, Working, Task
<1>20. ASSUME NEW k \in Join, Member(k) PROVE task' \in [Task -> TaskRecord]
    BY <1>20 DEF Member, NextMember, GoTo, TaskRecord, NewTask, Asking, Enabling, Changing, Joining, Ended, Working, Task
<1>21. ASSUME NEW k \in Join, TrackJoin(k) PROVE task' \in [Task -> TaskRecord]
    BY <1>21 DEF TrackJoin, NextMember, Enable, Works, Fails, TaskRecord, NewTask, Asking, Enabling, Changing, Joining, Ended, Working, Task
<1>22. ASSUME NEW k \in Join, Ban(k) PROVE task' \in [Task -> TaskRecord]
    BY <1>22 DEF Ban, NextMember, TaskRecord, NewTask, Asking, Enabling, Changing, Joining, Ended, Working, Task
<1> QED BY <1>1, <1>2, <1>3, <1>4, <1>5, <1>6, <1>7, <1>8, <1>9, <1>10, <1>11, <1>12, <1>13, <1>14, <1>15, <1>16, <1>17, <1>18, <1>19, <1>20, <1>21, <1>22 DEF Step, Work

--------------------------------------------------------------------------------
(* Who acts *)

Acts(k) == \/ k \in Order /\ GiveOrder(k)
           \/ k \in Join /\ (StartJoin(k) \/ Member(k) \/ TrackJoin(k) \/ Ban(k))
           \/ Work(k)

Surroundings == UNCHANGED <<clock, task, reply>>

LEMMA WhoSteps == ASSUME Step PROVE RaidTick \/ Surroundings \/ \E k \in Task : Acts(k)
<1>1. KeyExpires \/ PollerFinds \/ PollerDeletes \/ DropRaidSettings => Surroundings
    BY DEF KeyExpires, PollerFinds, PollerDeletes, DropRaidSettings, Surroundings
<1>2. ASSUME NEW d, SetRaidTime(d) \/ SetAutoAntiRaidThreshold(d) PROVE Surroundings
    BY <1>2 DEF SetRaidTime, SetAutoAntiRaidThreshold, Save, Surroundings
<1> QED BY <1>1, <1>2 DEF Step, Acts, Task

\* A task changes nothing of the others.
Frame(k) == clock' = clock /\ \A j \in Task \ {k} : task'[j] = task[j] /\ reply'[j] = reply[j]

LEMMA FrameStep == ASSUME RaidTypeOK, NEW k \in Task, Acts(k) PROVE Frame(k)
<1> USE DEF RaidTypeOK, Frame
<1>1. CASE StartJoin(k)
    BY <1>1 DEF StartJoin
<1>2. CASE GiveOrder(k)
    BY <1>2 DEF GiveOrder, Press, Begin
<1>3. CASE Ask(k)
    BY <1>3 DEF Ask, Answered, ReadState, Works, Fails
<1>4. CASE ExpireRaid(k)
    BY <1>4 DEF ExpireRaid, Answered, DeleteIfUnchanged, Works, Fails, GoTo
<1>5. CASE AskAgain(k)
    BY <1>5 DEF AskAgain, Answered, ReadState, Works, Fails
<1>6. CASE ReadRaid(k)
    BY <1>6 DEF ReadRaid, ReadState, Works, Fails, Enabled
<1>7. CASE DeleteRaid(k)
    BY <1>7 DEF DeleteRaid, DeleteIfUnchanged, Works, Fails, GoTo, EnableFails
<1>8. CASE SetRaid(k)
    BY <1>8 DEF SetRaid, Works, Fails, Enabled, EnableFails, GoTo
<1>9. CASE ClearJoins(k)
    BY <1>9 DEF ClearJoins, Works, Fails, Enabled
<1>10. CASE CheckRaid(k)
    BY <1>10 DEF CheckRaid, ReadState, Works, Fails, Enable
<1>11. CASE ReplaceRaid(k)
    BY <1>11 DEF ReplaceRaid, Works, Fails, Enabled, EnableFails, GoTo, Prolonged
<1>12. CASE DisableRaid(k)
    BY <1>12 DEF DisableRaid, Works, Fails, GoTo
<1>13. CASE Member(k)
    BY <1>13 DEF Member, NextMember, GoTo
<1>14. CASE TrackJoin(k)
    BY <1>14 DEF TrackJoin, NextMember, Enable, Works, Fails
<1>15. CASE Ban(k)
    BY <1>15 DEF Ban, NextMember
<1> QED BY <1>1, <1>2, <1>3, <1>4, <1>5, <1>6, <1>7, <1>8, <1>9, <1>10, <1>11, <1>12, <1>13, <1>14, <1>15 DEF Acts, Work

--------------------------------------------------------------------------------
(* What a task knows *)

LEMMA WorkingActs ==
    ASSUME RaidTypeOK, NEW k \in Task, Working(k), Acts(k)
    PROVE  Working(k)'
<1> USE DEF Working
<1>1. CASE StartJoin(k)
    <2>1. PICK c \in {conf, cachedConf}, n \in 1..Members :
              task' = [task EXCEPT ![k] = NewTask("ask", "join", c, n)]
        BY <1>1 DEF StartJoin
    <2>2. task'[k].pc = "ask"
        BY <2>1 DEF RaidTypeOK, NewTask
    <2> QED BY <2>2 DEF Enabling, Changing
<1>2. CASE GiveOrder(k)
    <2>1. PICK op \in {"on", "off", "set", "status"}, pc \in {"ask", "read", "off", "check"} :
              (\E c : Begin(k, op, pc, c)) /\ (pc = "check" => op = "set")
        BY <1>2 DEF GiveOrder, Press
    <2>2. task'[k].pc = pc /\ task'[k].op = op /\ task'[k].time = clock /\ clock' = clock
        BY <2>1 DEF Begin, RaidTypeOK, NewTask
    <2> QED BY <2>1, <2>2, Numbers DEF Enabling, Changing
<1>3. CASE Ask(k)
    <2> USE <1>3 DEF Ask
    <2>1. CASE \E answer \in BOOLEAN : Answered(k, answer)
        BY <2>1, AnsweredFields DEF Enabling, Changing
    <2>2. CASE /\ task' = [task EXCEPT ![k].pc = "expire", ![k].found = raid] /\ clock > raid.expires
        <3>1. task'[k].pc = "expire" /\ task'[k].found = raid /\ clock' = clock
            BY <2>2 DEF RaidTypeOK, TaskRecord
        <3>2. raid.expires \in Nat /\ clock \in Nat
            BY Numbers
        <3> QED BY <2>2, <3>1, <3>2 DEF Enabling, Changing
    <2> QED BY <2>1, <2>2, Numbers, NewRaids DEF ReadState
<1>4. CASE ExpireRaid(k)
    <2>1. CASE \E answer \in BOOLEAN : Answered(k, answer)
        BY <2>1, AnsweredFields DEF Enabling, Changing
    <2>2. CASE GoTo(k, "again")
        BY <2>2, GoToFields DEF Enabling, Changing
    <2> QED BY <1>4, <2>1, <2>2 DEF ExpireRaid
<1>5. CASE AskAgain(k)
    <2>1. PICK answer \in BOOLEAN : Answered(k, answer)
        BY <1>5 DEF AskAgain
    <2> QED BY <2>1, AnsweredFields DEF Enabling, Changing
<1>6. CASE ReadRaid(k)
    <2>1. ASSUME NEW started \in BOOLEAN, Enabled(k, started) PROVE Working(k)'
        BY <1>6, <2>1, EnabledFields, Numbers DEF ReadRaid, Same, Enabling, Changing
    <2>2. ASSUME NEW state \in {raid, NoRaid}, state.expires <= task[k].time,
                 task' = [task EXCEPT ![k].pc = "delete", ![k].found = state]
          PROVE  Working(k)'
        <3>1. task'[k].pc = "delete" /\ task'[k].found = state
            BY <2>2 DEF RaidTypeOK, TaskRecord
        <3>2. task'[k].op = task[k].op /\ task'[k].left = task[k].left /\ task'[k].time = task[k].time
            BY <2>2 DEF RaidTypeOK, TaskRecord
        <3> QED BY <1>6, <2>2, <3>1, <3>2 DEF ReadRaid, Enabling, Changing
    <2> QED BY <1>6, <2>1, <2>2 DEF ReadRaid
<1>7. CASE DeleteRaid(k)
    <2>1. ASSUME GoTo(k, "set") PROVE Working(k)'
        BY <1>7, <2>1, GoToFields DEF DeleteRaid, Same, Enabling, Changing
    <2>2. ASSUME EnableFails(k) PROVE Working(k)'
        BY <2>2, EnableFailsFields DEF Enabling, Changing
    <2> QED BY <1>7, <2>1, <2>2 DEF DeleteRaid
<1>8. CASE SetRaid(k)
    <2>1. ASSUME NEW started \in BOOLEAN, Enabled(k, started) PROVE Working(k)'
        BY <1>8, <2>1, EnabledFields, Numbers DEF SetRaid, Same, Enabling, Changing
    <2>2. ASSUME EnableFails(k) PROVE Working(k)'
        BY <2>2, EnableFailsFields DEF Enabling, Changing
    <2>3. ASSUME GoTo(k, "clear") PROVE Working(k)'
        BY <1>8, <2>3, GoToFields DEF SetRaid, Same, Enabling, Changing
    <2> QED BY <1>8, <2>1, <2>2, <2>3 DEF SetRaid
<1>9. CASE ClearJoins(k)
    <2>1. Enabled(k, TRUE)
        BY <1>9 DEF ClearJoins
    <2> QED BY <1>9, <2>1, EnabledFields DEF ClearJoins, Same, Enabling, Changing
<1>10. CASE CheckRaid(k)
    <2>1. ASSUME Enable(k, "check") PROVE Working(k)'
        BY <1>10, <2>1, EnableFields, Numbers DEF CheckRaid, Enabling, Changing
    <2>2. ASSUME NEW state, state # NoRaid,
                 task' = [task EXCEPT ![k].pc = "replace", ![k].found = state, ![k].time = clock]
          PROVE  Working(k)'
        <3>1. task'[k].pc = "replace" /\ task'[k].found = state /\ task'[k].time = clock /\ task'[k].op = task[k].op
            BY <2>2 DEF RaidTypeOK, TaskRecord
        <3> QED BY <1>10, <2>2, <3>1, Numbers DEF CheckRaid, Enabling, Changing
    <2> QED BY <1>10, <2>1, <2>2 DEF CheckRaid
<1>11. CASE ReplaceRaid(k)
    <2>1. ASSUME NEW started \in BOOLEAN, Enabled(k, started) PROVE Working(k)'
        BY <1>11, <2>1, EnabledFields, Numbers DEF ReplaceRaid, Same, Enabling, Changing
    <2>2. ASSUME EnableFails(k) PROVE Working(k)'
        BY <2>2, EnableFailsFields DEF Enabling, Changing
    <2>3. ASSUME GoTo(k, "done") PROVE Working(k)'
        BY <2>3, GoToFields DEF Enabling, Changing
    <2> QED BY <1>11, <2>1, <2>2, <2>3 DEF ReplaceRaid
<1>12. CASE DisableRaid(k)
    BY <1>12, GoToFields DEF DisableRaid, Enabling, Changing
<1>13. CASE Member(k)
    <2>1. CASE NextMember(k)
        BY <2>1, NextMemberFields DEF Enabling, Changing
    <2>2. CASE GoTo(k, "done")
        BY <2>2, GoToFields DEF Enabling, Changing
    <2>3. ASSUME NEW pc \in {"ban", "track"}, task[k].left > 0, GoTo(k, pc) PROVE Working(k)'
        BY <2>3, GoToFields DEF Same, Enabling, Changing
    <2> QED BY <1>13, <2>1, <2>2, <2>3 DEF Member
<1>14. CASE TrackJoin(k)
    <2>1. CASE NextMember(k)
        BY <2>1, NextMemberFields DEF Enabling, Changing
    <2>2. CASE Enable(k, "track")
        BY <1>14, <2>2, EnableFields, Numbers DEF TrackJoin, Enabling, Changing
    <2> QED BY <1>14, <2>1, <2>2 DEF TrackJoin
<1>15. CASE Ban(k)
    BY <1>15, NextMemberFields DEF Ban, Enabling, Changing
<1> QED BY <1>1, <1>2, <1>3, <1>4, <1>5, <1>6, <1>7, <1>8, <1>9, <1>10, <1>11, <1>12, <1>13, <1>14, <1>15 DEF Acts, Work

LEMMA WorkingStep ==
    ASSUME RaidTypeOK, \A k \in Task : Working(k), Step
    PROVE  (\A k \in Task : Working(k))'
<1>1. CASE RaidTick
    <2> SUFFICES ASSUME NEW k \in Task PROVE Working(k)'
        OBVIOUS
    <2>1. /\ clock' = clock + 1 /\ task' = task
          /\ task[k].pc \in {"read", "delete", "set", "replace"} => clock < task[k].time + Delay
        BY <1>1 DEF RaidTick
    <2>2. clock \in Nat /\ Delay \in Nat /\ task[k].time \in Nat /\ task[k].found.expires \in Nat
        BY Numbers
    <2> QED BY <2>1, <2>2 DEF Working
<1>2. CASE Surroundings
    BY <1>2 DEF Surroundings, Working
<1>3. ASSUME NEW k \in Task, Acts(k) PROVE (\A j \in Task : Working(j))'
    <2>1. Working(k)' /\ Frame(k)
        BY <1>3, WorkingActs, FrameStep
    <2> QED BY <2>1 DEF Frame, Working
<1> QED BY <1>1, <1>2, <1>3, WhoSteps

--------------------------------------------------------------------------------
(* Who has been answered *)

LEMMA SatisfiedActs ==
    ASSUME RaidTypeOK, NEW k \in Task, Satisfied(k), Acts(k)
    PROVE  Satisfied(k)'
<1> USE DEF Satisfied
<1>1. CASE StartJoin(k)
    BY <1>1 DEF StartJoin
<1>2. CASE GiveOrder(k)
    BY <1>2 DEF GiveOrder, Press, Begin
<1>3. CASE Ask(k)
    BY <1>3 DEF Ask
<1>4. CASE ExpireRaid(k)
    BY <1>4 DEF ExpireRaid
<1>5. CASE AskAgain(k)
    BY <1>5 DEF AskAgain
<1>6. CASE ReadRaid(k)
    BY <1>6 DEF ReadRaid
<1>7. CASE DeleteRaid(k)
    BY <1>7 DEF DeleteRaid
<1>8. CASE SetRaid(k)
    <2>1. CASE GoTo(k, "clear")
        BY <2>1, GoToFields
    <2>2. CASE UNCHANGED reply
        BY <1>8, <2>2 DEF SetRaid
    <2> QED BY <1>8, <2>1, <2>2 DEF SetRaid
<1>9. CASE ClearJoins(k)
    <2>1. Enabled(k, TRUE)
        BY <1>9 DEF ClearJoins
    <2> QED BY <2>1, EnabledFields
<1>10. CASE CheckRaid(k)
    BY <1>10 DEF CheckRaid
<1>11. CASE ReplaceRaid(k)
    <2>1. CASE GoTo(k, "done")
        BY <2>1, GoToFields
    <2>2. CASE UNCHANGED reply
        BY <1>11, <2>2 DEF ReplaceRaid
    <2> QED BY <1>11, <2>1, <2>2 DEF ReplaceRaid
<1>12. CASE DisableRaid(k)
    BY <1>12, GoToFields DEF DisableRaid
<1>13. CASE Member(k)
    <2>1. reply' = reply /\ task[k].pc = "next"
        BY <1>13 DEF Member
    <2>2. CASE NextMember(k)
        BY <2>1, <2>2, NextMemberFields
    <2>3. CASE GoTo(k, "done")
        BY <2>3, GoToFields
    <2>4. CASE task[k].active /\ GoTo(k, "ban")
        BY <2>4, GoToFields
    <2>5. CASE ~task[k].active
        BY <2>1, <2>5
    <2> QED BY <1>13, <2>2, <2>3, <2>4, <2>5 DEF Member
<1>14. CASE TrackJoin(k)
    BY <1>14 DEF TrackJoin
<1>15. CASE Ban(k)
    <2>1. reply' = reply /\ task[k].pc = "ban" /\ NextMember(k)
        BY <1>15 DEF Ban
    <2> QED BY <2>1, NextMemberFields
<1> QED BY <1>1, <1>2, <1>3, <1>4, <1>5, <1>6, <1>7, <1>8, <1>9, <1>10, <1>11, <1>12, <1>13, <1>14, <1>15 DEF Acts, Work

LEMMA SatisfiedStep ==
    ASSUME RaidTypeOK, \A k \in Task : Satisfied(k), Step
    PROVE  (\A k \in Task : Satisfied(k))'
<1>1. CASE RaidTick \/ Surroundings
    BY <1>1 DEF RaidTick, Surroundings, Satisfied
<1>2. ASSUME NEW k \in Task, Acts(k) PROVE (\A j \in Task : Satisfied(j))'
    <2>1. Satisfied(k)' /\ Frame(k)
        BY <1>2, SatisfiedActs, FrameStep
    <2> QED BY <2>1 DEF Frame, Satisfied
<1> QED BY <1>1, <1>2, WhoSteps

--------------------------------------------------------------------------------
(* Who has had the raid mode on *)

LEMMA FaultsStep == ASSUME Step PROVE faults' \in {faults, faults - 1}
<1> USE DEF Works, Fails
<1>1. ASSUME RaidTick PROVE faults' \in {faults, faults - 1}
    BY <1>1 DEF RaidTick
<1>2. ASSUME KeyExpires PROVE faults' \in {faults, faults - 1}
    BY <1>2 DEF KeyExpires
<1>3. ASSUME PollerFinds PROVE faults' \in {faults, faults - 1}
    BY <1>3 DEF PollerFinds
<1>4. ASSUME PollerDeletes PROVE faults' \in {faults, faults - 1}
    BY <1>4 DEF PollerDeletes
<1>5. ASSUME DropRaidSettings PROVE faults' \in {faults, faults - 1}
    BY <1>5 DEF DropRaidSettings
<1>6. ASSUME NEW d \in Durations, SetRaidTime(d) PROVE faults' \in {faults, faults - 1}
    BY <1>6 DEF SetRaidTime, Save
<1>7. ASSUME NEW n \in Thresholds, SetAutoAntiRaidThreshold(n) PROVE faults' \in {faults, faults - 1}
    BY <1>7 DEF SetAutoAntiRaidThreshold, Save
<1>8. ASSUME NEW j \in Join, StartJoin(j) PROVE faults' \in {faults, faults - 1}
    BY <1>8 DEF StartJoin
<1>9. ASSUME NEW k \in Order, GiveOrder(k) PROVE faults' \in {faults, faults - 1}
    BY <1>9 DEF GiveOrder, Press, Begin
<1>10. ASSUME NEW k \in Task, Ask(k) PROVE faults' \in {faults, faults - 1}
    BY <1>10 DEF Ask, ReadState
<1>11. ASSUME NEW k \in Task, ExpireRaid(k) PROVE faults' \in {faults, faults - 1}
    BY <1>11 DEF ExpireRaid
<1>12. ASSUME NEW k \in Task, AskAgain(k) PROVE faults' \in {faults, faults - 1}
    BY <1>12 DEF AskAgain, ReadState
<1>13. ASSUME NEW k \in Task, ReadRaid(k) PROVE faults' \in {faults, faults - 1}
    BY <1>13 DEF ReadRaid, ReadState
<1>14. ASSUME NEW k \in Task, DeleteRaid(k) PROVE faults' \in {faults, faults - 1}
    BY <1>14 DEF DeleteRaid
<1>15. ASSUME NEW k \in Task, SetRaid(k) PROVE faults' \in {faults, faults - 1}
    BY <1>15 DEF SetRaid
<1>16. ASSUME NEW k \in Task, ClearJoins(k) PROVE faults' \in {faults, faults - 1}
    BY <1>16 DEF ClearJoins
<1>17. ASSUME NEW k \in Task, CheckRaid(k) PROVE faults' \in {faults, faults - 1}
    BY <1>17 DEF CheckRaid, ReadState
<1>18. ASSUME NEW k \in Task, ReplaceRaid(k) PROVE faults' \in {faults, faults - 1}
    BY <1>18 DEF ReplaceRaid
<1>19. ASSUME NEW k \in Task, DisableRaid(k) PROVE faults' \in {faults, faults - 1}
    BY <1>19 DEF DisableRaid
<1>20. ASSUME NEW k \in Join, Member(k) PROVE faults' \in {faults, faults - 1}
    BY <1>20 DEF Member
<1>21. ASSUME NEW k \in Join, TrackJoin(k) PROVE faults' \in {faults, faults - 1}
    BY <1>21 DEF TrackJoin
<1>22. ASSUME NEW k \in Join, Ban(k) PROVE faults' \in {faults, faults - 1}
    BY <1>22 DEF Ban
<1> QED BY <1>1, <1>2, <1>3, <1>4, <1>5, <1>6, <1>7, <1>8, <1>9, <1>10, <1>11, <1>12, <1>13, <1>14, <1>15, <1>16, <1>17, <1>18, <1>19, <1>20, <1>21, <1>22 DEF Step, Work

LEMMA WasLegible == ASSUME RaidTypeOK, Step, Legible' PROVE Legible
<1>1. faults \in Nat /\ faults <= Faults /\ Faults \in Nat
    BY RaidAssumption DEF RaidTypeOK
<1> QED BY <1>1, FaultsStep DEF Legible

LEMMA ReadsIt ==
    ASSUME RaidTypeOK, Legible', NEW state, ReadState(state)
    PROVE  state = raid
<1>1. faults \in Nat /\ faults <= Faults /\ Faults \in Nat
    BY RaidAssumption DEF RaidTypeOK
<1>2. ~Fails("read")
    BY <1>1 DEF Legible, Fails
<1> QED BY <1>2 DEF ReadState

LEMMA Watches ==
    ASSUME Watch, NEW k \in Task
    PROVE  /\ saw[k] => saw'[k]
           /\ task'[k].pc \notin Ended /\ On' => saw'[k]
BY DEF Watch

\* While the raid mode is on there is nothing to show.
LEMMA EarnedWhileOn ==
    ASSUME Watch, On', NEW k \in Task
    PROVE  Earned(k)'
BY Watches DEF Earned, Ended

LEMMA OnWithRaid ==
    ASSUME RaidTypeOK, RaidChanges, ~On', clock' \in Nat
    PROVE  raid' \in {raid, NoRaid} /\ raid'.expires <= clock'
<1>1. raid' \in {raid, NoRaid}
    BY DEF RaidChanges, On
<1>2. raid' \in Raid /\ raid'.expires \in Nat
    BY NewRaids DEF RaidChanges
<1>3. CASE raid' = NoRaid
    BY <1>1, <1>3, NewRaids
<1>4. CASE raid' # NoRaid
    BY <1>1, <1>2, <1>4 DEF On
<1> QED BY <1>3, <1>4

LEMMA EarnedActs ==
    ASSUME Known, RaidChanges, Watch, Legible', ~On', NEW k \in Task, Earned(k), Acts(k)
    PROVE  Earned(k)'
<1> USE DEF Earned
<1>a. /\ RaidTypeOK /\ Working(k) /\ raid' \in {raid, NoRaid} /\ clock' = clock /\ clock \in Nat
      /\ raid'.expires <= clock
    <2>1. RaidTypeOK /\ Working(k) /\ clock' = clock /\ clock \in Nat
        BY FrameStep, Numbers DEF Known, Frame
    <2> QED BY <2>1, OnWithRaid
<1>b. saw[k] => saw'[k]
    BY Watches
<1>c. ASSUME task'[k].pc = "read", task'[k].time = clock, task'[k].active = FALSE \/ task'[k].active = task[k].active,
             task[k].pc \notin Ended
      PROVE  Earned(k)'
    <2>1. ~(raid'.expires > task'[k].time)
        <3>1. raid'.expires \in Nat
            BY <1>a, NewRaids DEF RaidChanges
        <3> QED BY <1>a, <1>c, <3>1
    <2> QED BY <1>b, <1>c, <2>1
<1>d. ASSUME task'[k].pc \in {"next", "done", "expire", "again", "ask", "off", "check", "replace", "track"},
             task'[k].active = FALSE \/ (task[k].pc \notin Ended /\ task'[k].active = task[k].active)
      PROVE  Earned(k)'
    BY <1>b, <1>d
<1>e. ASSUME saw[k] PROVE Earned(k)'
    BY <1>b, <1>e
<1>1. CASE StartJoin(k)
    <2>1. PICK c \in {conf, cachedConf}, n \in 1..Members :
              task' = [task EXCEPT ![k] = NewTask("ask", "join", c, n)]
        BY <1>1 DEF StartJoin
    <2>2. task'[k].pc = "ask" /\ task'[k].active = FALSE
        BY <1>a, <2>1 DEF RaidTypeOK, NewTask
    <2> QED BY <1>d, <2>2
<1>2. CASE GiveOrder(k)
    <2>1. PICK op \in {"on", "off", "set", "status"}, pc \in {"ask", "read", "off", "check"} :
              \E c : Begin(k, op, pc, c)
        BY <1>2 DEF GiveOrder, Press
    <2>2. task'[k].pc = pc /\ task'[k].active = FALSE /\ task'[k].time = clock
        BY <1>a, <2>1 DEF Begin, RaidTypeOK, NewTask
    <2>3. CASE pc = "read"
        <3>1. task[k].pc = "idle"
            BY <1>2, <2>1 DEF Begin
        <3>2. raid'.expires \in Nat
            BY <1>a, NewRaids DEF RaidChanges
        <3>3. ~(raid'.expires > task'[k].time)
            BY <1>a, <2>2, <3>2
        <3> QED BY <1>b, <2>2, <2>3, <3>3
    <2> QED BY <1>d, <2>2, <2>3
<1>3. CASE Ask(k)
    <2>1. PICK state \in {raid, NoRaid} :
              \/ state = NoRaid /\ Answered(k, FALSE)
              \/ state # NoRaid /\ clock <= state.expires /\ Answered(k, TRUE)
              \/ /\ state # NoRaid /\ clock > state.expires
                 /\ task' = [task EXCEPT ![k].pc = "expire", ![k].found = state]
        BY <1>3 DEF Ask
    <2>2. CASE Answered(k, FALSE)
        BY <1>a, <1>d, <2>2, AnsweredFields
    <2>3. CASE state # NoRaid /\ clock <= state.expires
        <3>1. raid' = raid /\ raid # NoRaid /\ clock <= raid.expires
            BY <1>3, <2>1, <2>3 DEF Ask, redis
        <3> QED BY <1>a, <3>1 DEF On
    <2>4. CASE task' = [task EXCEPT ![k].pc = "expire", ![k].found = state]
        <3>1. task'[k].pc = "expire" /\ task'[k].active = task[k].active
            BY <1>a, <2>4 DEF RaidTypeOK, TaskRecord
        <3> QED BY <1>3, <1>d, <3>1 DEF Ask, Ended
    <2> QED BY <2>1, <2>2, <2>3, <2>4
<1>4. CASE ExpireRaid(k)
    <2>1. CASE Answered(k, FALSE)
        BY <1>a, <1>d, <2>1, AnsweredFields
    <2>2. CASE GoTo(k, "again")
        BY <1>4, <1>a, <1>d, <2>2, GoToFields DEF ExpireRaid, Ended
    <2> QED BY <1>4, <2>1, <2>2 DEF ExpireRaid
<1>5. CASE AskAgain(k)
    <2>1. PICK state \in {raid, NoRaid} : Answered(k, state # NoRaid /\ clock <= state.expires)
        BY <1>5 DEF AskAgain
    <2>2. CASE state # NoRaid /\ clock <= state.expires
        <3>1. raid' = raid /\ raid # NoRaid /\ clock <= raid.expires
            BY <1>5, <2>1, <2>2 DEF AskAgain, redis
        <3> QED BY <1>a, <3>1 DEF On
    <2>3. CASE ~(state # NoRaid /\ clock <= state.expires)
        <3>1. Answered(k, FALSE)
            BY <2>1, <2>3
        <3> QED BY <1>a, <1>d, <3>1, AnsweredFields
    <2> QED BY <2>2, <2>3
<1>6. CASE ReadRaid(k)
    <2>1. PICK state \in {raid, NoRaid} :
              /\ ReadState(state)
              /\ \/ state.expires > task[k].time /\ Enabled(k, FALSE)
                 \/ /\ state.expires <= task[k].time
                    /\ task' = [task EXCEPT ![k].pc = "delete", ![k].found = state]
        BY <1>6 DEF ReadRaid
    <2>2. state = raid /\ raid' = raid /\ task[k].pc = "read"
        <3>1. state = raid
            BY <1>a, <2>1, ReadsIt
        <3> QED BY <1>6, <2>1, <3>1 DEF ReadRaid, redis
    <2>3. CASE state.expires > task[k].time
        BY <1>e, <2>2, <2>3
    <2>4. CASE task' = [task EXCEPT ![k].pc = "delete", ![k].found = state]
        <3>1. task'[k].pc = "delete" /\ task'[k].active = task[k].active /\ task'[k].found = raid'
            BY <1>a, <2>2, <2>4 DEF RaidTypeOK, TaskRecord
        <3> QED BY <1>b, <2>2, <3>1 DEF Ended
    <2> QED BY <2>1, <2>3, <2>4
<1>7. CASE DeleteRaid(k)
    <2>1. CASE EnableFails(k)
        BY <1>7, <1>a, <1>d, <2>1, EnableFailsFields DEF DeleteRaid, Ended
    <2>2. CASE DeleteIfUnchanged(task[k].found) /\ GoTo(k, "set")
        <3>1. task'[k].pc = "set" /\ task'[k].active = task[k].active /\ task[k].pc = "delete"
            BY <1>7, <1>a, <2>2, GoToFields DEF DeleteRaid
        <3>2. raid' # NoRaid => raid \notin {task[k].found, NoRaid}
            BY <2>2 DEF DeleteIfUnchanged, redis
        <3> QED BY <1>b, <3>1, <3>2 DEF Ended
    <2> QED BY <1>7, <2>1, <2>2 DEF DeleteRaid
<1>8. CASE SetRaid(k)
    <2>1. CASE raid' # raid
        BY <1>8, <2>1, SetRaidRaid DEF On
    <2>2. CASE EnableFails(k)
        BY <1>8, <1>a, <1>d, <2>2, EnableFailsFields DEF SetRaid, Ended
    <2>3. CASE raid # NoRaid
        BY <1>8, <1>e, <2>3 DEF SetRaid
    <2>4. CASE raid = NoRaid /\ raid' = NewRaid(task[k].time, task[k].conf.time)
        BY <1>a, <2>1, <2>4, NewRaidIsRaid
    <2> QED BY <1>8, <2>2, <2>3, <2>4 DEF SetRaid
<1>9. CASE ClearJoins(k)
    BY <1>9, <1>e DEF ClearJoins
<1>10. CASE CheckRaid(k)
    <2>1. CASE Enable(k, "check")
        BY <1>10, <1>a, <1>c, <2>1, EnableFields DEF CheckRaid, Ended
    <2>2. ASSUME NEW state, task' = [task EXCEPT ![k].pc = "replace", ![k].found = state, ![k].time = clock]
          PROVE  Earned(k)'
        <3>1. task'[k].pc = "replace" /\ task'[k].active = task[k].active
            BY <1>a, <2>2 DEF RaidTypeOK, TaskRecord
        <3> QED BY <1>10, <1>d, <3>1 DEF CheckRaid, Ended
    <2> QED BY <1>10, <2>1, <2>2 DEF CheckRaid
<1>11. CASE ReplaceRaid(k)
    <2>1. CASE GoTo(k, "done")
        BY <1>11, <1>a, <1>d, <2>1, GoToFields DEF ReplaceRaid, Ended
    <2>2. CASE EnableFails(k)
        BY <1>11, <1>a, <1>d, <2>2, EnableFailsFields DEF ReplaceRaid, Ended
    <2>3. CASE Enabled(k, FALSE)
        <3>1. task[k].op # "join"
            BY <1>11, <1>a DEF ReplaceRaid, Working, Changing
        <3>2. task'[k].pc \in {"check", "done"} /\ task'[k].active = FALSE
            BY <1>a, <2>3, <3>1, EnabledFields
        <3> QED BY <1>d, <3>2
    <2> QED BY <1>11, <2>1, <2>2, <2>3 DEF ReplaceRaid
<1>12. CASE DisableRaid(k)
    BY <1>12, <1>a, <1>d, GoToFields DEF DisableRaid, Ended
<1>13. CASE Member(k)
    <2>1. task[k].pc = "next"
        BY <1>13 DEF Member
    <2>2. CASE NextMember(k)
        BY <1>a, <1>d, <2>1, <2>2, NextMemberFields DEF Ended
    <2>3. ASSUME NEW pc \in {"done", "track"}, GoTo(k, pc) PROVE Earned(k)'
        BY <1>a, <1>d, <2>1, <2>3, GoToFields DEF Ended
    <2>4. CASE task[k].active
        BY <1>e, <2>1, <2>4 DEF Ended
    <2> QED BY <1>13, <2>2, <2>3, <2>4 DEF Member
<1>14. CASE TrackJoin(k)
    <2>1. CASE NextMember(k)
        BY <1>14, <1>a, <1>d, <2>1, NextMemberFields DEF TrackJoin, Ended
    <2>2. CASE Enable(k, "track")
        BY <1>14, <1>a, <1>c, <2>2, EnableFields DEF TrackJoin, Ended
    <2> QED BY <1>14, <2>1, <2>2 DEF TrackJoin
<1>15. CASE Ban(k)
    BY <1>15, <1>e DEF Ban
<1> QED BY <1>1, <1>2, <1>3, <1>4, <1>5, <1>6, <1>7, <1>8, <1>9, <1>10, <1>11, <1>12, <1>13, <1>14, <1>15 DEF Acts, Work

LEMMA EarnedStep ==
    ASSUME Known, Legible => \A k \in Task : Earned(k), Step, Watch
    PROVE  (Legible => \A k \in Task : Earned(k))'
<1> SUFFICES ASSUME Legible', ~On' PROVE \A k \in Task : Earned(k)'
    BY EarnedWhileOn DEF Legible
<1>1. RaidChanges /\ clock' \in Nat /\ RaidTypeOK
    BY RaidStep, PollerStep DEF Known
<1>2. \A k \in Task : Earned(k)
    BY <1>1, WasLegible
<1>3. ASSUME NEW k \in Task, task'[k] = task[k] PROVE Earned(k)'
    <2>1. raid' \in {raid, NoRaid} /\ (saw[k] => saw'[k])
        BY <1>1, OnWithRaid, Watches
    <2>2. CASE raid' = raid
        BY <1>2, <1>3, <2>1, <2>2 DEF Earned
    <2>3. CASE raid' = NoRaid
        <3>1. NoRaid.expires = 0 /\ task[k].time \in Nat
            BY <1>1, NewRaids, Numbers
        <3>2. ~(raid'.expires > task'[k].time)
            BY <1>3, <2>3, <3>1
        <3> QED BY <1>2, <1>3, <2>1, <2>3, <3>2 DEF Earned
    <2> QED BY <2>1, <2>2, <2>3
<1>4. CASE RaidTick \/ Surroundings
    BY <1>3, <1>4 DEF RaidTick, Surroundings
<1>5. ASSUME NEW k \in Task, Acts(k) PROVE \A j \in Task : Earned(j)'
    <2>1. Earned(k)'
        BY <1>1, <1>2, <1>5, EarnedActs
    <2>2. Frame(k)
        BY <1>1, <1>5, FrameStep
    <2> QED BY <1>3, <2>1, <2>2 DEF Frame
<1> QED BY <1>4, <1>5, WhoSteps

--------------------------------------------------------------------------------
(* The invariant *)

LEMMA InitInvariant == RaidInit => RaidInvariant
<1> SUFFICES ASSUME RaidInit PROVE RaidInvariant
    OBVIOUS
<1>1. conf \in Settings /\ NoRaid \in Raid /\ clock = 1 /\ Rounds \in Nat
    BY RaidAssumption, RaidTypes DEF RaidInit
<1>2. NewTask("idle", "join", conf, 0) \in TaskRecord
    BY <1>1 DEF NewTask, TaskRecord, Asking, Enabling, Changing, Joining, Ended
<1>3. \A k \in Task : task[k].pc = "idle" /\ reply[k] = "none"
    BY DEF RaidInit, NewTask
<1>4. RaidTypeOK
    <2>1. task \in [Task -> TaskRecord]
        BY <1>2 DEF RaidInit
    <2>2. joins \subseteq Join \X Nat \X Nat /\ changes \in Nat /\ faults \in 0..Faults
        BY RaidAssumption DEF RaidInit
    <2>3. poller \in [pc : {"idle", "delete"}, found : Raid]
        BY <1>1 DEF RaidInit
    <2> QED BY <1>1, <2>1, <2>2, <2>3 DEF RaidInit, RaidTypeOK
<1>5. raid = NoRaid /\ poller.pc = "idle"
    BY DEF RaidInit
<1>6. \A k \in Task : Working(k) /\ Satisfied(k)
    BY <1>3 DEF Working, Satisfied, Enabling, Changing
<1>7. \A k \in Task : Earned(k)
    BY <1>3 DEF Earned, Ended
<1> QED BY <1>4, <1>5, <1>6, <1>7 DEF RaidInvariant

LEMMA NextInvariant == RaidInvariant /\ [RaidNext]_raidVars => RaidInvariant'
<1>1. CASE UNCHANGED raidVars
    BY <1>1 DEF raidVars, redis, raidSettings, RaidInvariant, RaidTypeOK, Working, Satisfied, Earned, Legible
<1>2. ASSUME RaidInvariant, Step, Watch PROVE RaidInvariant'
    <2>1. Known /\ RaidTypeOK /\ (\A k \in Task : Working(k)) /\ (\A k \in Task : Satisfied(k))
        BY <1>2 DEF RaidInvariant, Known
    <2>2. Legible => \A k \in Task : Earned(k)
        BY <1>2 DEF RaidInvariant
    <2>3. saw' \in [Task -> BOOLEAN]
        BY <1>2, <2>1 DEF Watch, RaidTypeOK
    <2>4. RaidTypeOK'
        <3>1. OtherTypes /\ task' \in [Task -> TaskRecord] /\ raid' \in Raid /\ clock' \in Nat \ {0}
            BY <1>2, <2>1, OtherTypesStep, TaskTypesStep, RaidStep, PollerStep DEF RaidChanges
        <3> QED BY <2>3, <3>1 DEF RaidTypeOK, OtherTypes
    <2>5. (raid = NoRaid \/ raid.expires > 0)'
        BY <1>2, <2>1, RaidStep DEF RaidChanges, Known
    <2>6. (poller.pc = "delete" => poller.found.expires < clock)'
        BY <1>2, <2>1, PollerStep
    <2>7. (\A k \in Task : Working(k) /\ Satisfied(k))'
        BY <1>2, <2>1, WorkingStep, SatisfiedStep
    <2>8. (Legible => \A k \in Task : Earned(k))'
        BY <1>2, <2>1, <2>2, EarnedStep
    <2> QED BY <2>4, <2>5, <2>6, <2>7, <2>8 DEF RaidInvariant
<1> QED BY <1>1, <1>2 DEF RaidNext

\* The types and the inductive invariant hold of every execution.
THEOREM RaidCorrect == RaidSpec => []RaidInvariant
BY InitInvariant, NextInvariant, PTL DEF RaidSpec

\* No join bans anybody unless the raid mode was on while its update was handled
\* (onJoin, enableRaid, isRaidActive), as long as the state could be read.
THEOREM OnlyRaidersAreBanned == RaidSpec => []BansAreEarned
<1>1. RaidInvariant => BansAreEarned
    BY DEF RaidInvariant, Earned, BansAreEarned
<1> QED BY <1>1, RaidCorrect, PTL

--------------------------------------------------------------------------------
(* Refinement *)

\* What each kind of step is to RaidMode.
Quiet == UNCHANGED <<raid, clock, reply>>

LEMMA Ends == ASSUME Known, raid # NoRaid, clock >= raid.expires, raid' = NoRaid, UNCHANGED <<clock, reply>>
              PROVE  Mode!Over
<1>1. raid.expires # 0
    <2>1. raid.expires \in Nat /\ raid.expires > 0
        BY NewRaids DEF Known, RaidTypeOK
    <2> QED BY <2>1
<1> QED BY <1>1, NewRaids DEF Mode!Over

LEMMA Deletes ==
    ASSUME Known, NEW found \in Raid, found # NoRaid => clock >= found.expires, DeleteIfUnchanged(found),
           UNCHANGED <<clock, reply>>
    PROVE  Mode!Over \/ Quiet
BY Ends DEF DeleteIfUnchanged, redis, Quiet

LEMMA Untold ==
    ASSUME NEW k \in Task, Satisfied(k), task[k].pc \notin {"clear", "done", "next", "ban"}
    PROVE  reply[k] = "none"
BY DEF Satisfied

LEMMA StepIsOfMode ==
    ASSUME Known, \A k \in Task : Satisfied(k), Step
    PROVE  Mode!Next \/ Quiet
<1> DEFINE Goal == Mode!Next \/ Quiet
<1>a. RaidTypeOK /\ \A k \in Task : Working(k)
    BY DEF Known
<1>1. ASSUME RaidTick PROVE Goal
    BY <1>1 DEF RaidTick, redis, Mode!Next, Mode!Tick
<1>2. ASSUME KeyExpires PROVE Goal
    <2>1. clock \in Nat /\ raid.expires \in Nat
        BY <1>a, NewRaids DEF RaidTypeOK
    <2> QED BY <1>2, <2>1, Ends DEF KeyExpires, Mode!Next
<1>3. ASSUME PollerFinds PROVE Goal
    BY <1>3 DEF PollerFinds, redis, Quiet
<1>4. ASSUME PollerDeletes PROVE Goal
    <2>1. poller.found \in Raid /\ clock \in Nat /\ poller.found.expires \in Nat
        BY <1>a, NewRaids DEF RaidTypeOK
    <2>2. poller.found.expires < clock
        BY <1>4 DEF PollerDeletes, Known
    <2> QED BY <1>4, <2>1, <2>2, Deletes DEF PollerDeletes, redis, Quiet, Mode!Next
<1>5. ASSUME DropRaidSettings PROVE Goal
    BY <1>5 DEF DropRaidSettings, redis, Quiet
<1>6. ASSUME NEW d \in Durations, SetRaidTime(d) PROVE Goal
    BY <1>6 DEF SetRaidTime, Save, redis, Quiet
<1>7. ASSUME NEW n \in Thresholds, SetAutoAntiRaidThreshold(n) PROVE Goal
    BY <1>7 DEF SetAutoAntiRaidThreshold, Save, redis, Quiet
<1>8. ASSUME NEW j \in Join, StartJoin(j) PROVE Goal
    BY <1>8 DEF StartJoin, redis, Quiet
<1>9. ASSUME NEW k \in Order, GiveOrder(k) PROVE Goal
    BY <1>9 DEF GiveOrder, Press, Begin, redis, Quiet
<1>10. ASSUME NEW k \in Task, Ask(k) PROVE Goal
    BY <1>10 DEF Ask, ReadState, redis, Quiet
<1>11. ASSUME NEW k \in Task, ExpireRaid(k) PROVE Goal
    <2>1. task[k].found.expires < clock /\ task[k].found \in Raid /\ clock \in Nat /\ task[k].found.expires \in Nat
        BY <1>11, <1>a, Numbers DEF ExpireRaid, Working
    <2>2. CASE raid = task[k].found /\ DeleteIfUnchanged(raid)
        BY <1>11, <2>1, <2>2, Deletes DEF ExpireRaid, Mode!Next
    <2> QED BY <1>11, <2>2 DEF ExpireRaid, redis, Quiet
<1>12. ASSUME NEW k \in Task, AskAgain(k) PROVE Goal
    BY <1>12 DEF AskAgain, ReadState, redis, Quiet
<1>13. ASSUME NEW k \in Task, ReadRaid(k) PROVE Goal
    BY <1>13 DEF ReadRaid, ReadState, redis, Quiet
<1>14. ASSUME NEW k \in Task, DeleteRaid(k) PROVE Goal
    <2>1. /\ task[k].found.expires <= task[k].time /\ task[k].time <= clock
          /\ task[k].found \in Raid /\ clock \in Nat /\ task[k].found.expires \in Nat /\ task[k].time \in Nat
        BY <1>14, <1>a, Numbers DEF DeleteRaid, Working
    <2>2. CASE DeleteIfUnchanged(task[k].found)
        BY <1>14, <2>1, <2>2, Deletes DEF DeleteRaid, Mode!Next
    <2> QED BY <1>14, <2>2 DEF DeleteRaid, redis, Quiet
<1>15. ASSUME NEW k \in Task, SetRaid(k) PROVE Goal
    <2>1. CASE raid' # raid
        <3>1. reply[k] = "none"
            BY <1>15, Untold DEF SetRaid
        <3>2. raid = NoRaid /\ raid' \in Raid /\ clock <= raid'.expires /\ clock' = clock /\ reply' = [reply EXCEPT ![k] = "started"]
            BY <1>15, <2>1, SetRaidRaid
        <3>3. raid.expires = 0 /\ raid'.expires \in Nat /\ raid'.expires >= clock
            BY <1>a, <3>2, NewRaids DEF RaidTypeOK
        <3>4. Mode!Start(k)
            BY <3>1, <3>2, <3>3 DEF Mode!Start, Mode!Tell
        <3> QED BY <3>4 DEF Mode!Next
    <2>2. CASE raid = NoRaid /\ raid' = NewRaid(task[k].time, task[k].conf.time)
        BY <1>a, <2>1, <2>2, NewRaidIsRaid
    <2> QED BY <1>15, <2>1, <2>2 DEF SetRaid, Quiet
<1>16. ASSUME NEW k \in Task, ClearJoins(k) PROVE Goal
    BY <1>16 DEF ClearJoins, redis, Quiet
<1>17. ASSUME NEW k \in Task, CheckRaid(k) PROVE Goal
    BY <1>17 DEF CheckRaid, ReadState, redis, Quiet
<1>18. ASSUME NEW k \in Task, ReplaceRaid(k) PROVE Goal
    <2>0. reply[k] = "none"
        BY <1>18, Untold DEF ReplaceRaid
    <2>1. CASE UNCHANGED <<raid, reply>>
        BY <1>18, <2>1 DEF ReplaceRaid, Quiet
    <2>2. CASE raid = task[k].found /\ raid' = Prolonged(k) /\ reply' = [reply EXCEPT ![k] = "prolonged"]
        <3>1. raid # NoRaid /\ clock' = clock
            BY <1>18, <1>a, <2>2 DEF ReplaceRaid, Working
        <3>2. raid'.expires \in Nat /\ raid'.expires >= clock
            <4>1. clock <= task[k].time + Delay
                BY <1>18, <1>a DEF ReplaceRaid, Working
            <4>2. raid' = [started |-> task[k].found.started, expires |-> task[k].time + task[k].conf.time]
                BY <2>2 DEF Prolonged
            <4>3. raid'.expires = task[k].time + task[k].conf.time
                BY <4>2
            <4> QED BY <1>a, <4>1, <4>3, Numbers
        <3>3. raid.expires # 0
            <4>1. raid.expires \in Nat /\ raid.expires > 0
                BY <1>a, <3>1, NewRaids DEF Known, RaidTypeOK
            <4> QED BY <4>1
        <3>4. Mode!Prolong(k)
            BY <2>0, <2>2, <3>1, <3>2, <3>3 DEF Mode!Prolong, Mode!Tell
        <3> QED BY <3>4 DEF Mode!Next
    <2> QED BY <1>18, <2>1, <2>2 DEF ReplaceRaid
<1>19. ASSUME NEW k \in Task, DisableRaid(k) PROVE Goal
    <2>0. reply[k] = "none"
        BY <1>19, Untold DEF DisableRaid
    <2>1. CASE raid # NoRaid /\ raid' = NoRaid /\ reply' = [reply EXCEPT ![k] = "stopped"]
        <3>1. raid.expires # 0
            <4>1. raid.expires \in Nat /\ raid.expires > 0
                BY <1>a, <2>1, NewRaids DEF Known, RaidTypeOK
            <4> QED BY <4>1
        <3>2. Mode!Stop(k)
            BY <1>19, <2>0, <2>1, <3>1, NewRaids DEF DisableRaid, Mode!Stop, Mode!Tell
        <3> QED BY <3>2 DEF Mode!Next
    <2> QED BY <1>19, <2>1 DEF DisableRaid, redis, Quiet
<1>20. ASSUME NEW k \in Join, Member(k) PROVE Goal
    BY <1>20 DEF Member, redis, Quiet
<1>21. ASSUME NEW k \in Join, TrackJoin(k) PROVE Goal
    BY <1>21 DEF TrackJoin, redis, Quiet
<1>22. ASSUME NEW k \in Join, Ban(k) PROVE Goal
    BY <1>22 DEF Ban, redis, Quiet
<1> QED BY <1>1, <1>2, <1>3, <1>4, <1>5, <1>6, <1>7, <1>8, <1>9, <1>10, <1>11, <1>12, <1>13, <1>14, <1>15, <1>16, <1>17, <1>18, <1>19, <1>20, <1>21, <1>22 DEF Step, Work

\* Every start, prolongation, end and expiry is one of RaidMode, answered once per task
\* (enableRaid, setRaidDuration, disableRaid, isRaidActive and checkExpiredRaids).
THEOREM Refinement == RaidSpec => ImplementsRaidMode
<1>1. RaidInit => Mode!Init
    BY DEF RaidInit, Mode!Init, NoRaid
<1>2. RaidInvariant /\ [RaidNext]_raidVars => [Mode!Next]_<<raid.expires, clock, reply>>
    <2>1. CASE UNCHANGED raidVars
        BY <2>1 DEF raidVars, redis
    <2>2. ASSUME RaidInvariant, Step PROVE Mode!Next \/ Quiet
        BY <2>2, StepIsOfMode DEF RaidInvariant, Known
    <2> QED BY <2>1, <2>2 DEF RaidNext, Quiet
<1>3. RaidSpec => [][Mode!Next]_<<raid.expires, clock, reply>>
    BY <1>2, RaidCorrect, PTL DEF RaidSpec
<1> QED BY <1>1, <1>3, PTL DEF RaidSpec, ImplementsRaidMode, Mode!Spec, Mode!vars
================================================================================
