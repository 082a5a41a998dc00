----------------------------- MODULE WarningsProofs -----------------------------
(* Proofs about Warnings, for any number of warnings, users and orders.           *)
EXTENDS Warnings, TLAPS

\* Who holds the mutex of a user, and the lock of the chat.
LocksAgree ==
    /\ \A w \in Warning : task[w].pc \in Holding <=> mutex[task[w].user] = w
    /\ \A w \in Warning : task[w].pc = "save" <=> chatLock = w

\* What a warning remembers of the row is true as long as it relies on it.
TasksAgree ==
    \A w \in Warning :
        /\ task[w].pc = "save" => task[w].num = IF task[w].found THEN count[task[w].user] + 1 ELSE 1
        /\ task[w].pc \in Counted => count[task[w].user] <= task[w].num
        /\ task[w].pc \in Counted \cup {"save"} => conf # Unset

RowsAgree == \A u \in User : ~stored[u] \/ conf = Unset => count[u] = 0

\* Settings that are cached, or held by a warning, are those of the row unless their
\* version says that it was changed, or could not be read because something failed.
SettingsAgree ==
    /\ cached # Unset => /\ cachedOf <= edits
                         /\ cachedOf = Unread => faults < Faults
                         /\ cachedOf = edits => cached = conf
    /\ \A w \in Warning :
        task[w].pc \in Counted \cup {"begin", "save"} =>
            /\ task[w].confOf <= edits
            /\ task[w].confOf = Unread => faults < Faults
            /\ task[w].confOf = edits => task[w].conf = conf

\* The inductive invariant.
WarnInvariant == /\ TypeOK /\ NoWarningLost /\ RowsAgree /\ LocksAgree /\ TasksAgree /\ SettingsAgree
                 /\ LimitIsActedOn

LEMMA SettingsValues == Default \in Settings /\ Default # Unset /\ Unset \notin Settings
BY DEF Default, Settings, Unset

LEMMA WarnKeeps ==
    ASSUME WarnInvariant, NEW w \in Warning, Warn(w)
    PROVE  WarnInvariant'
<1> USE WarningsAssumption DEF WarnInvariant
<1>1. TypeOK'
    BY DEF TypeOK, Warn, Moves, Works, table, confs, desk, Unset, Settings, TaskRecord,
           Counted, Holding, Unlocked
<1>2. NoWarningLost'
    BY DEF TypeOK, NoWarningLost, RowsAgree, TasksAgree, Warn, Moves, Works, table, confs,
           desk, Unset, Settings, TaskRecord, Counted, Holding, Unlocked
<1>3. RowsAgree'
    BY DEF TypeOK, RowsAgree, TasksAgree, Warn, Moves, Works, table, confs, desk, Unset,
           Settings, TaskRecord, Counted, Holding, Unlocked
<1>4. LocksAgree'
    BY DEF TypeOK, LocksAgree, Warn, Moves, Works, table, confs, desk, Unset, Settings,
           TaskRecord, Counted, Holding, Unlocked
<1>5. TasksAgree'
    BY DEF TypeOK, TasksAgree, LocksAgree, RowsAgree, Warn, Moves, Works, table, confs, desk,
           Unset, Settings, TaskRecord, Counted, Holding, Unlocked
<1>6. SettingsAgree'
    BY DEF TypeOK, SettingsAgree, TasksAgree, Warn, Moves, Works, table, confs, desk,
           Unset, Settings, TaskRecord, Counted, Holding, Unlocked
<1>7. LimitIsActedOn'
    BY DEF TypeOK, LimitIsActedOn, TasksAgree, LocksAgree, Warn, Moves, Works, table, confs,
           desk, Unset, Settings, TaskRecord, Counted, Holding, Unlocked
<1> QED BY <1>1, <1>2, <1>3, <1>4, <1>5, <1>6, <1>7

LEMMA RefuseKeeps ==
    ASSUME WarnInvariant, NEW w \in Warning, Refuse(w)
    PROVE  WarnInvariant'
<1> USE WarningsAssumption DEF WarnInvariant
<1>1. TypeOK'
    BY DEF TypeOK, Refuse, Moves, Fails, table, confs, desk, Unset, Settings, TaskRecord,
           Counted, Holding, Unlocked
<1>2. NoWarningLost'
    BY DEF TypeOK, NoWarningLost, RowsAgree, TasksAgree, Refuse, Moves, Fails, table, confs,
           desk, Unset, Settings, TaskRecord, Counted, Holding, Unlocked
<1>3. RowsAgree'
    BY DEF TypeOK, RowsAgree, TasksAgree, Refuse, Moves, Fails, table, confs, desk, Unset,
           Settings, TaskRecord, Counted, Holding, Unlocked
<1>4. LocksAgree'
    BY DEF TypeOK, LocksAgree, Refuse, Moves, Fails, table, confs, desk, Unset, Settings,
           TaskRecord, Counted, Holding, Unlocked
<1>5. TasksAgree'
    BY DEF TypeOK, TasksAgree, LocksAgree, RowsAgree, Refuse, Moves, Fails, table, confs, desk,
           Unset, Settings, TaskRecord, Counted, Holding, Unlocked
<1>6. SettingsAgree'
    BY DEF TypeOK, SettingsAgree, TasksAgree, Refuse, Moves, Fails, table, confs, desk,
           Unset, Settings, TaskRecord, Counted, Holding, Unlocked
<1>7. LimitIsActedOn'
    BY DEF TypeOK, LimitIsActedOn, TasksAgree, LocksAgree, Refuse, Moves, Fails, table, confs,
           desk, Unset, Settings, TaskRecord, Counted, Holding, Unlocked
<1> QED BY <1>1, <1>2, <1>3, <1>4, <1>5, <1>6, <1>7

LEMMA LockKeeps ==
    ASSUME WarnInvariant, NEW w \in Warning, Lock(w)
    PROVE  WarnInvariant'
<1> USE WarningsAssumption DEF WarnInvariant
<1>1. TypeOK'
    <2>1. task' \in [Warning -> TaskRecord]
        BY DEF TypeOK, Lock, Moves, TaskRecord, Holding
    <2>2. mutex' \in [User -> Warning \cup {Unlocked}]
        BY DEF TypeOK, Lock
    <2> QED BY <2>1, <2>2 DEF TypeOK, Lock, table, confs, desk
<1>2. NoWarningLost'
    BY DEF TypeOK, NoWarningLost, RowsAgree, TasksAgree, Lock, Moves, table, confs, desk,
           Unset, Settings, TaskRecord, Counted, Holding, Unlocked
<1>3. RowsAgree'
    BY DEF TypeOK, RowsAgree, TasksAgree, Lock, Moves, table, confs, desk, Unset, Settings,
           TaskRecord, Counted, Holding, Unlocked
<1>4. LocksAgree'
    BY DEF TypeOK, LocksAgree, Lock, Moves, table, confs, desk, Unset, Settings, TaskRecord,
           Counted, Holding, Unlocked
<1>5. TasksAgree'
    BY DEF TypeOK, TasksAgree, LocksAgree, RowsAgree, Lock, Moves, table, confs, desk, Unset,
           Settings, TaskRecord, Counted, Holding, Unlocked
<1>6. SettingsAgree'
    BY DEF TypeOK, SettingsAgree, TasksAgree, Lock, Moves, table, confs, desk, Unset,
           Settings, TaskRecord, Counted, Holding, Unlocked
<1>7. LimitIsActedOn'
    BY DEF TypeOK, LimitIsActedOn, TasksAgree, LocksAgree, Lock, Moves, table, confs, desk,
           Unset, Settings, TaskRecord, Counted, Holding, Unlocked
<1> QED BY <1>1, <1>2, <1>3, <1>4, <1>5, <1>6, <1>7

LEMMA ReadSettingsKeeps ==
    ASSUME WarnInvariant, NEW w \in Warning, ReadSettings(w)
    PROVE  WarnInvariant'
<1> USE WarningsAssumption DEF WarnInvariant
<1>1. TypeOK'
    <2>1. cached' \in Settings /\ conf' \in Settings \cup {Unset}
        BY SettingsValues DEF TypeOK, ReadSettings, Works, Fails
    <2>4. cachedOf' \in Nat
        BY DEF TypeOK, ReadSettings, Unread
    <2>2. task' \in [Warning -> TaskRecord]
        <3>1. task[w] \in TaskRecord
            BY DEF TypeOK
        <3>2. [task[w] EXCEPT !.pc = "begin", !.conf = cached', !.confOf = cachedOf'] \in TaskRecord
            BY <2>1, <2>4, <3>1 DEF TaskRecord, Holding
        <3>3. task' = [task EXCEPT ![w] = [task[w] EXCEPT !.pc = "begin", !.conf = cached',
                                                          !.confOf = cachedOf']]
            BY DEF TypeOK, TaskRecord, ReadSettings
        <3> QED BY <3>2, <3>3 DEF TypeOK
    <2>3. faults' \in 0..Faults
        BY DEF TypeOK, ReadSettings, Works, Fails
    <2> QED BY <2>1, <2>2, <2>3, <2>4 DEF TypeOK, ReadSettings, table, desk
<1>2. NoWarningLost'
    BY DEF TypeOK, NoWarningLost, RowsAgree, TasksAgree, ReadSettings, Works, Fails, table,
           desk, Default, Unset, Settings, TaskRecord, Counted, Holding, Unlocked
<1>3. RowsAgree'
    BY DEF TypeOK, RowsAgree, TasksAgree, ReadSettings, Works, Fails, table, desk, Default,
           Unset, Settings, TaskRecord, Counted, Holding, Unlocked
<1>4. LocksAgree'
    BY DEF TypeOK, LocksAgree, ReadSettings, Works, Fails, table, desk, Default, Unset,
           Settings, TaskRecord, Counted, Holding, Unlocked
<1>5. TasksAgree'
    BY DEF TypeOK, TasksAgree, LocksAgree, RowsAgree, ReadSettings, Works, Fails, table, desk,
           Default, Unset, Settings, TaskRecord, Counted, Holding, Unlocked
<1>6. SettingsAgree'
    <2>1. /\ cachedOf' <= edits /\ (cachedOf' = Unread => faults' < Faults)
          /\ cachedOf' = edits => cached' = conf'
        BY DEF TypeOK, SettingsAgree, ReadSettings, Works, Fails, Unread
    <2>2. task'[w].conf = cached' /\ task'[w].confOf = cachedOf'
        BY DEF TypeOK, TaskRecord, ReadSettings
    <2>3. \A v \in Warning : v # w => task'[v] = task[v]
        BY DEF TypeOK, ReadSettings
    <2>4. edits' = edits /\ (faults < Faults => faults' < Faults) /\ (conf' = conf \/ conf = Unset)
        BY DEF TypeOK, ReadSettings, Works, Fails
    <2>5. \A v \in Warning : task[v].conf # Unset
        BY SettingsValues DEF TypeOK, TaskRecord
    <2> QED BY <2>1, <2>2, <2>3, <2>4, <2>5 DEF SettingsAgree
<1>7. LimitIsActedOn'
    <2>1. \A v \in Warning : /\ task'[v].user = task[v].user
                             /\ task'[v].pc \in Counted <=> task[v].pc \in Counted
        BY DEF TypeOK, ReadSettings, Counted
    <2>2. UNCHANGED <<count, excused, edits>> /\ (faults < Faults => faults' < Faults)
        BY DEF TypeOK, ReadSettings, Works, Fails, table
    <2>3. CASE conf' = conf
        BY <2>1, <2>2, <2>3 DEF LimitIsActedOn
    <2>4. CASE conf = Unset /\ conf' = Default
        BY <2>1, <2>2, <2>4 DEF LimitIsActedOn, RowsAgree, Default
    <2> QED BY <2>3, <2>4 DEF ReadSettings
<1> QED BY <1>1, <1>2, <1>3, <1>4, <1>5, <1>6, <1>7

LEMMA BeginWarnKeeps ==
    ASSUME WarnInvariant, NEW w \in Warning, BeginWarn(w)
    PROVE  WarnInvariant'
<1> USE WarningsAssumption DEF WarnInvariant
<1>1. TypeOK'
    <2>1. conf' \in Settings
        BY SettingsValues DEF TypeOK, BeginWarn
    <2>2. task' \in [Warning -> TaskRecord]
        <3>1. task[w] \in TaskRecord
            BY DEF TypeOK
        <3>2. task[w].user \in User /\ task[w].conf \in Settings /\ task[w].confOf \in Nat
            BY <3>1 DEF TaskRecord
        <3>3. count[task[w].user] + 1 \in Nat /\ stored[task[w].user] \in BOOLEAN
            BY <3>2 DEF TypeOK
        <3> DEFINE begun == [pc |-> "save", user |-> task[w].user, conf |-> task[w].conf,
                             confOf |-> task[w].confOf, found |-> stored[task[w].user], num |-> count[task[w].user] + 1]
        <3>4. begun \in TaskRecord
            BY <3>2, <3>3, Zenon DEF TaskRecord, Holding
        <3>5. task' = [task EXCEPT ![w] = begun]
            BY DEF TypeOK, BeginWarn
        <3> QED BY <3>4, <3>5 DEF TypeOK
    <2> QED BY <2>1, <2>2 DEF TypeOK, BeginWarn, table, desk
<1>2. NoWarningLost'
    BY DEF TypeOK, NoWarningLost, RowsAgree, TasksAgree, BeginWarn, table, desk, Default,
           Unset, Settings, TaskRecord, Counted, Holding, Unlocked
<1>3. RowsAgree'
    BY DEF TypeOK, RowsAgree, TasksAgree, BeginWarn, table, desk, Default, Unset, Settings,
           TaskRecord, Counted, Holding, Unlocked
<1>4. LocksAgree'
    BY DEF TypeOK, LocksAgree, BeginWarn, table, desk, Default, Unset, Settings, TaskRecord,
           Counted, Holding, Unlocked
<1>5. TasksAgree'
    BY DEF TypeOK, TasksAgree, LocksAgree, RowsAgree, BeginWarn, table, desk, Default, Unset,
           Settings, TaskRecord, Counted, Holding, Unlocked
<1>6. SettingsAgree'
    BY DEF TypeOK, SettingsAgree, TasksAgree, BeginWarn, table, desk, Default, Unset,
           Settings, TaskRecord, Counted, Holding, Unlocked
<1>7. LimitIsActedOn'
    <2>1. \A v \in Warning : /\ task'[v].user = task[v].user
                             /\ task'[v].pc \in Counted <=> task[v].pc \in Counted
        BY DEF TypeOK, BeginWarn, Counted
    <2>2. UNCHANGED <<count, excused, edits, faults>>
        BY DEF BeginWarn, table
    <2>3. CASE conf' = conf
        BY <2>1, <2>2, <2>3 DEF LimitIsActedOn
    <2>4. CASE conf = Unset /\ conf' = Default
        BY <2>1, <2>2, <2>4 DEF LimitIsActedOn, RowsAgree, Default
    <2> QED BY <2>3, <2>4 DEF BeginWarn
<1> QED BY <1>1, <1>2, <1>3, <1>4, <1>5, <1>6, <1>7

LEMMA SaveWarnKeeps ==
    ASSUME WarnInvariant, NEW w \in Warning, SaveWarn(w)
    PROVE  WarnInvariant'
<1> USE WarningsAssumption DEF WarnInvariant
<1>1. TypeOK'
    BY DEF TypeOK, SaveWarn, Moves, Write, confs, desk, Unset, Settings, TaskRecord, Counted,
           Holding, Unlocked
<1>2. NoWarningLost'
    BY DEF TypeOK, NoWarningLost, RowsAgree, TasksAgree, SaveWarn, Moves, Write, confs, desk,
           Unset, Settings, TaskRecord, Counted, Holding, Unlocked
<1>3. RowsAgree'
    BY DEF TypeOK, RowsAgree, TasksAgree, SaveWarn, Moves, Write, confs, desk, Unset, Settings,
           TaskRecord, Counted, Holding, Unlocked
<1>4. LocksAgree'
    BY DEF TypeOK, LocksAgree, SaveWarn, Moves, Write, confs, desk, Unset, Settings,
           TaskRecord, Counted, Holding, Unlocked
<1>5. TasksAgree'
    BY DEF TypeOK, TasksAgree, LocksAgree, RowsAgree, SaveWarn, Moves, Write, confs, desk,
           Unset, Settings, TaskRecord, Counted, Holding, Unlocked
<1>6. SettingsAgree'
    BY DEF TypeOK, SettingsAgree, TasksAgree, SaveWarn, Moves, Write, confs, desk,
           Unset, Settings, TaskRecord, Counted, Holding, Unlocked
<1>7. LimitIsActedOn'
    BY DEF TypeOK, LimitIsActedOn, TasksAgree, LocksAgree, SaveWarn, Moves, Write, confs, desk,
           Unset, Settings, TaskRecord, Counted, Holding, Unlocked
<1> QED BY <1>1, <1>2, <1>3, <1>4, <1>5, <1>6, <1>7

LEMMA WarnFailsKeeps ==
    ASSUME WarnInvariant, NEW w \in Warning, WarnFails(w)
    PROVE  WarnInvariant'
<1> USE WarningsAssumption DEF WarnInvariant
<1>1. TypeOK'
    <2>1. task' \in [Warning -> TaskRecord]
        BY DEF TypeOK, WarnFails, Moves, TaskRecord
    <2>2. faults' \in 0..Faults
        BY DEF TypeOK, WarnFails, Works, Fails
    <2> QED BY <2>1, <2>2 DEF TypeOK, WarnFails, Unlock, table, confs, desk
<1>2. NoWarningLost'
    BY DEF TypeOK, NoWarningLost, RowsAgree, TasksAgree, WarnFails, Moves, Unlock, Works,
           Fails, table, confs, desk, Unset, Settings, TaskRecord, Counted, Holding, Unlocked
<1>3. RowsAgree'
    BY DEF TypeOK, RowsAgree, TasksAgree, WarnFails, Moves, Unlock, Works, Fails, table, confs,
           desk, Unset, Settings, TaskRecord, Counted, Holding, Unlocked
<1>4. LocksAgree'
    BY DEF TypeOK, LocksAgree, WarnFails, Moves, Unlock, Works, Fails, table, confs, desk,
           Unset, Settings, TaskRecord, Counted, Holding, Unlocked
<1>5. TasksAgree'
    <2>1. task'[w].pc = "over" /\ \A v \in Warning : v # w => task'[v] = task[v]
        <3>1. Moves(w, "begin", "over") \/ Moves(w, "save", "over")
            BY DEF WarnFails
        <3> QED BY <3>1 DEF TypeOK, TaskRecord, Moves
    <2> QED BY <2>1 DEF TasksAgree, WarnFails, table, confs, Counted
<1>6. SettingsAgree'
    BY DEF TypeOK, SettingsAgree, TasksAgree, WarnFails, Moves, Unlock, Works, Fails,
           table, confs, desk, Unset, Settings, TaskRecord, Counted, Holding, Unlocked
<1>7. LimitIsActedOn'
    <2>1. \A v \in Warning : /\ task'[v].user = task[v].user
                             /\ task'[v].pc \in Counted <=> task[v].pc \in Counted
        <3>1. Moves(w, "begin", "over") \/ Moves(w, "save", "over")
            BY DEF WarnFails
        <3> QED BY <3>1 DEF TypeOK, TaskRecord, Moves, Counted
    <2>2. UNCHANGED <<count, conf, excused, edits>> /\ (faults < Faults => faults' < Faults)
        BY DEF TypeOK, WarnFails, Works, Fails, table, confs
    <2> QED BY <2>1, <2>2 DEF LimitIsActedOn
<1> QED BY <1>1, <1>2, <1>3, <1>4, <1>5, <1>6, <1>7

LEMMA DecideKeeps ==
    ASSUME WarnInvariant, NEW w \in Warning, Decide(w)
    PROVE  WarnInvariant'
<1> USE WarningsAssumption DEF WarnInvariant
<1>1. TypeOK'
    <2>1. task' \in [Warning -> TaskRecord]
        BY DEF TypeOK, Decide, DropCached, Excuse, Excuses, Moves, TaskRecord, Holding, Counted
    <2>2. excused' \in [User -> SUBSET Reasons]
        BY DEF TypeOK, Decide, Excuse, Excuses, Reasons
    <2>3. mutex' \in [User -> Warning \cup {Unlocked}]
        BY DEF TypeOK, Decide, DropCached, Excuse, Excuses, Unlock
    <2> QED BY <2>1, <2>2, <2>3 DEF TypeOK, Decide, DropCached, Unread, table, desk
<1>2. NoWarningLost'
    BY DEF TypeOK, NoWarningLost, RowsAgree, TasksAgree, Decide, DropCached, Excuse, Excuses, Moves, Unlock, Reached, table,
           desk, Unset, Settings, TaskRecord, Counted, Holding, Unlocked
<1>3. RowsAgree'
    BY DEF TypeOK, RowsAgree, TasksAgree, Decide, DropCached, Excuse, Excuses, Moves, Unlock, Reached, table, desk, Unset,
           Settings, TaskRecord, Counted, Holding, Unlocked
<1>4. LocksAgree'
    <2>1. CASE Moves(w, "decide", "punish") /\ UNCHANGED mutex
        BY <2>1 DEF TypeOK, LocksAgree, Decide, DropCached, Excuse, Excuses, Moves, Holding, Counted
    <2>2. CASE Moves(w, "decide", "over") /\ Unlock(w)
        BY <2>2 DEF TypeOK, TaskRecord, LocksAgree, Decide, DropCached, Excuse, Excuses, Moves, Unlock, Holding, Counted
    <2> QED BY <2>1, <2>2 DEF Decide
<1>5. TasksAgree'
    <2>1. \A v \in Warning : v # w => task'[v] = task[v]
        BY DEF TypeOK, Decide, DropCached, Excuse, Excuses, Moves
    <2>2. /\ task'[w].user = task[w].user /\ task'[w].num = task[w].num
          /\ task[w].pc = "decide" /\ task'[w].pc \in {"punish", "over"}
        <3>1. Moves(w, "decide", "punish") \/ Moves(w, "decide", "over")
            BY DEF Decide
        <3> QED BY <3>1 DEF TypeOK, TaskRecord, Moves
    <2>3. UNCHANGED <<count, conf>>
        BY DEF Decide, DropCached, Excuse, Excuses, table
    <2> QED BY <2>1, <2>2, <2>3 DEF TasksAgree, Counted
<1>6. SettingsAgree'
    BY DEF TypeOK, SettingsAgree, TasksAgree, Decide, DropCached, Excuse, Excuses, Moves, Unlock, Reached, table,
           desk, Unset, Settings, TaskRecord, Counted, Holding, Unlocked
<1>7. LimitIsActedOn'
    <2>1. UNCHANGED <<conf, count, edits, faults>>
        BY DEF Decide, table
    <2>2. \A u \in User : /\ excused[u] \subseteq excused'[u]
                          /\ excused'[u] \subseteq excused[u] \cup Excuses(w)
        BY DEF TypeOK, Decide, Excuse
    <2>3. task[w].pc = "decide" /\ task[w] \in TaskRecord /\ edits \in Nat \ {0}
        BY DEF TypeOK, Decide, Moves
    <2>4. /\ Excuses(w) \cap {"failed", "unread"} # {} => faults < Faults
          /\ "changed" \in Excuses(w) => edits > 1
        BY <2>3 DEF SettingsAgree, Excuses, Unread, Counted, TaskRecord
    <2>5. ASSUME NEW u \in User, conf # Unset, count[u] >= conf.limit
          PROVE  excused'[u] # {} \/ \E v \in Warning : task'[v].user = u /\ task'[v].pc \in Counted
        <3>1. CASE \E v \in Warning \ {w} : task[v].user = u /\ task[v].pc \in Counted
            BY <3>1 DEF TypeOK, Decide, Moves
        <3>2. CASE task[w].user = u /\ Reached(w)
            <4>1. Moves(w, "decide", "punish")
                BY <3>2 DEF Decide
            <4> QED BY <3>2, <4>1 DEF TypeOK, Moves, Counted
        <3>3. CASE task[w].user = u /\ ~Reached(w)
            <4>1. count[u] <= task[w].num /\ task[w].num < task[w].conf.limit
                BY <2>3, <3>3 DEF TypeOK, TasksAgree, Counted, Reached, TaskRecord, Settings
            <4>2. ~(task[w].num < conf.limit) /\ conf # task[w].conf
                BY <2>3, <2>5, <4>1 DEF TypeOK, TaskRecord, Settings
            <4>3. Excuses(w) # {}
                BY <2>3, <4>2 DEF SettingsAgree, Excuses, Counted, TaskRecord
            <4>4. excused'[u] = excused[u] \cup Excuses(w)
                BY <3>3, <4>2 DEF TypeOK, Decide, Excuse
            <4> QED BY <4>3, <4>4
        <3> QED BY <2>2, <2>5, <3>1, <3>2, <3>3 DEF LimitIsActedOn
    <2> QED BY <2>1, <2>2, <2>4, <2>5 DEF LimitIsActedOn
<1> QED BY <1>1, <1>2, <1>3, <1>4, <1>5, <1>6, <1>7

LEMMA PunishKeeps ==
    ASSUME WarnInvariant, NEW w \in Warning, Punish(w)
    PROVE  WarnInvariant'
<1> USE WarningsAssumption DEF WarnInvariant
<1>1. TypeOK'
    <2>1. task' \in [Warning -> TaskRecord]
        BY DEF TypeOK, Punish, Excuse, Moves, TaskRecord, Holding, Counted
    <2>2. excused' \in [User -> SUBSET Reasons]
        BY DEF TypeOK, Punish, Excuse, Reasons
    <2>3. mutex' \in [User -> Warning \cup {Unlocked}] /\ faults' \in 0..Faults
        BY DEF TypeOK, Punish, Excuse, Unlock, Works, Fails
    <2> QED BY <2>1, <2>2, <2>3 DEF TypeOK, Punish, Excuse, table, confs, desk
<1>2. NoWarningLost'
    BY DEF TypeOK, NoWarningLost, RowsAgree, TasksAgree, Punish, Excuse, Moves, Unlock, Works, Fails,
           table, confs, desk, Unset, Settings, TaskRecord, Counted, Holding, Punishing,
           Unlocked
<1>3. RowsAgree'
    BY DEF TypeOK, RowsAgree, TasksAgree, Punish, Excuse, Moves, Unlock, Works, Fails, table, confs,
           desk, Unset, Settings, TaskRecord, Counted, Holding, Punishing, Unlocked
<1>4. LocksAgree'
    <2>1. CASE Moves(w, "punish", "reset") /\ UNCHANGED mutex
        BY <2>1 DEF TypeOK, LocksAgree, Punish, Excuse, Moves, Holding, Counted
    <2>2. CASE Moves(w, "punish", "over") /\ Unlock(w)
        BY <2>2 DEF TypeOK, TaskRecord, LocksAgree, Punish, Excuse, Moves, Unlock, Holding, Counted
    <2> QED BY <2>1, <2>2 DEF Punish
<1>5. TasksAgree'
    BY DEF TypeOK, TasksAgree, LocksAgree, RowsAgree, Punish, Excuse, Moves, Unlock, Works, Fails,
           table, confs, desk, Unset, Settings, TaskRecord, Counted, Holding, Punishing,
           Unlocked
<1>6. SettingsAgree'
    <2>1. UNCHANGED <<conf, cached, cachedOf, edits>> /\ (faults < Faults => faults' < Faults)
        BY DEF TypeOK, Punish, Works, Fails, confs
    <2>2. \A v \in Warning :
             /\ task'[v].conf = task[v].conf /\ task'[v].confOf = task[v].confOf
             /\ task'[v].pc \in Counted \cup {"begin", "save"} => task[v].pc \in Counted \cup {"begin", "save"}
        <3>1. Moves(w, "punish", "reset") \/ Moves(w, "punish", "over")
            BY DEF Punish
        <3> QED BY <3>1 DEF TypeOK, TaskRecord, Moves, Counted
    <2> QED BY <2>1, <2>2 DEF SettingsAgree
<1>7. LimitIsActedOn'
    <2>1. UNCHANGED <<conf, count, edits>> /\ (faults < Faults => faults' < Faults)
        BY DEF TypeOK, Punish, Works, Fails, table, confs
    <2>2. \A u \in User : /\ excused[u] \subseteq excused'[u]
                          /\ "changed" \in excused'[u] => "changed" \in excused[u]
                          /\ excused'[u] \cap {"failed", "unread"} # {} =>
                                 excused[u] \cap {"failed", "unread"} # {} \/ faults' < Faults
        BY DEF TypeOK, Punish, Excuse, Fails
    <2>3. \A v \in Warning : task'[v].user = task[v].user /\ (v # w => task'[v].pc = task[v].pc)
        <3>1. Moves(w, "punish", "reset") \/ Moves(w, "punish", "over")
            BY DEF Punish
        <3> QED BY <3>1 DEF TypeOK, TaskRecord, Moves
    <2>4. task'[w].pc = "reset" \/ excused'[task[w].user] # {}
        <3>1. task[w].user \in User
            BY DEF TypeOK, TaskRecord
        <3>2. CASE Moves(w, "punish", "reset")
            BY <3>2 DEF TypeOK, TaskRecord, Moves
        <3>3. ASSUME NEW why, Excuse(task[w].user, {why}) PROVE excused'[task[w].user] # {}
            <4>1. excused'[task[w].user] = excused[task[w].user] \cup {why}
                BY <3>1, <3>3 DEF TypeOK, Excuse
            <4> QED BY <4>1
        <3> QED BY <3>2, <3>3 DEF Punish
    <2> QED BY <2>1, <2>2, <2>3, <2>4 DEF LimitIsActedOn, Counted
<1> QED BY <1>1, <1>2, <1>3, <1>4, <1>5, <1>6, <1>7

LEMMA ResetPunishedKeeps ==
    ASSUME WarnInvariant, NEW w \in Warning, ResetPunished(w)
    PROVE  WarnInvariant'
<1> USE WarningsAssumption DEF WarnInvariant
<1>1. TypeOK'
    <2>1. task' \in [Warning -> TaskRecord]
        BY DEF TypeOK, ResetPunished, DropCached, Excuse, Moves, TaskRecord
    <2>2. excused' \in [User -> SUBSET Reasons] /\ stored' \in [User -> BOOLEAN]
        <3>1. CASE Delete({task[w].user})
            BY <3>1 DEF TypeOK, Delete
        <3>2. CASE Excuse(task[w].user, {"failed"}) /\ UNCHANGED table
            BY <3>2 DEF TypeOK, Excuse, Reasons, table
        <3> QED BY <3>1, <3>2 DEF ResetPunished
    <2>3. count' \in [User -> Nat] /\ tally' \in [User -> Nat]
        BY DEF TypeOK, ResetPunished, DropCached, Excuse, Delete, table
    <2>4. cached' \in Settings \cup {Unset} /\ cachedOf' \in Nat /\ faults' \in 0..Faults
        BY DEF TypeOK, ResetPunished, DropCached, Unread, Works, Fails
    <2> QED BY <2>1, <2>2, <2>3, <2>4 DEF TypeOK, ResetPunished, DropCached, Excuse, Unlock, desk
<1>2. NoWarningLost'
    BY DEF TypeOK, NoWarningLost, RowsAgree, TasksAgree, ResetPunished, DropCached, Excuse, Moves, Unlock, Delete,
           Locked, Works, Fails, table, desk, Unset, Settings, TaskRecord, Counted, Holding,
           Unlocked
<1>3. RowsAgree'
    BY DEF TypeOK, RowsAgree, TasksAgree, ResetPunished, DropCached, Excuse, Moves, Unlock, Delete, Locked, Works,
           Fails, table, desk, Unset, Settings, TaskRecord, Counted, Holding, Unlocked
<1>4. LocksAgree'
    BY DEF TypeOK, LocksAgree, ResetPunished, DropCached, Excuse, Moves, Unlock, Delete, Locked, Works, Fails,
           table, desk, Unset, Settings, TaskRecord, Counted, Holding, Unlocked
<1>5. TasksAgree'
    BY DEF TypeOK, TasksAgree, LocksAgree, RowsAgree, ResetPunished, DropCached, Excuse, Moves, Unlock, Delete,
           Locked, Works, Fails, table, desk, Unset, Settings, TaskRecord, Counted, Holding,
           Unlocked
<1>6. SettingsAgree'
    BY DEF TypeOK, SettingsAgree, TasksAgree, ResetPunished, DropCached, Excuse, Moves, Unlock, Delete,
           Locked, Works, Fails, table, desk, Unset, Settings, TaskRecord, Counted,
           Holding, Unlocked
<1>7. LimitIsActedOn'
    <2>1. UNCHANGED <<conf, edits>> /\ (faults < Faults => faults' < Faults)
        BY DEF TypeOK, ResetPunished, Works, Fails
    <2>2. \A v \in Warning : task'[v].user = task[v].user /\ (v # w => task'[v].pc = task[v].pc)
        BY DEF TypeOK, TaskRecord, ResetPunished, Moves
    <2>3. CASE Delete({task[w].user})
        <3>1. \A u \in User : \/ u # task[w].user /\ count'[u] = count[u] /\ excused'[u] = excused[u]
                              \/ u = task[w].user /\ count'[u] = 0 /\ excused'[u] = {}
            BY <2>3 DEF TypeOK, Delete
        <3>2. conf # Unset => conf.limit \in Nat \ {0}
            BY DEF TypeOK, Settings
        <3> QED BY <2>1, <2>2, <3>1, <3>2 DEF LimitIsActedOn
    <2>4. CASE Fails /\ Excuse(task[w].user, {"failed"}) /\ UNCHANGED table
        <3>1. \A u \in User : /\ excused[u] \subseteq excused'[u]
                              /\ "changed" \in excused'[u] => "changed" \in excused[u]
            BY <2>4 DEF TypeOK, Excuse
        <3>2. count' = count /\ faults' < Faults
            BY <2>4 DEF TypeOK, Fails, table
        <3>3. task[w].user \in User /\ excused'[task[w].user] # {}
            BY <2>4 DEF TypeOK, TaskRecord, Excuse
        <3> QED BY <2>1, <2>2, <3>1, <3>2, <3>3 DEF LimitIsActedOn
    <2> QED BY <2>3, <2>4 DEF ResetPunished
<1> QED BY <1>1, <1>2, <1>3, <1>4, <1>5, <1>6, <1>7

LEMMA RemoveWarnKeeps ==
    ASSUME WarnInvariant, NEW u \in User, RemoveWarn(u)
    PROVE  WarnInvariant'
<1> USE WarningsAssumption DEF WarnInvariant
<1>1. TypeOK'
    <2>1. excused' \in [User -> SUBSET Reasons] /\ stored' \in [User -> BOOLEAN]
        BY DEF TypeOK, RemoveWarn, DropCached, Write
    <2>2. count' \in [User -> Nat] /\ tally' \in [User -> Nat]
        BY DEF TypeOK, RemoveWarn, DropCached, Write, NoWarningLost
    <2> QED BY <2>1, <2>2 DEF TypeOK, RemoveWarn, DropCached, Unread, Order
<1>2. NoWarningLost'
    BY DEF TypeOK, NoWarningLost, RowsAgree, TasksAgree, RemoveWarn, DropCached, Write, Order, Unset,
           Settings, TaskRecord, Counted, Holding, Unlocked
<1>3. RowsAgree'
    BY DEF TypeOK, RowsAgree, TasksAgree, RemoveWarn, DropCached, Write, Order, Unset, Settings,
           TaskRecord, Counted, Holding, Unlocked
<1>4. LocksAgree'
    BY DEF TypeOK, LocksAgree, RemoveWarn, DropCached, Write, Order, Unset, Settings, TaskRecord, Counted,
           Holding, Unlocked
<1>5. TasksAgree'
    BY DEF TypeOK, TasksAgree, LocksAgree, RowsAgree, RemoveWarn, DropCached, Write, Order, Unset,
           Settings, TaskRecord, Counted, Holding, Unlocked
<1>6. SettingsAgree'
    BY DEF TypeOK, SettingsAgree, TasksAgree, RemoveWarn, DropCached, Write, Order, Unset, Settings,
           TaskRecord, Counted, Holding, Unlocked
<1>7. LimitIsActedOn'
    BY DEF TypeOK, LimitIsActedOn, TasksAgree, LocksAgree, RemoveWarn, DropCached, Write, Order, Unset,
           Settings, TaskRecord, Counted, Holding, Unlocked
<1> QED BY <1>1, <1>2, <1>3, <1>4, <1>5, <1>6, <1>7

LEMMA ResetWarnsKeeps ==
    ASSUME WarnInvariant, NEW u \in User, ResetWarns(u)
    PROVE  WarnInvariant'
<1> USE WarningsAssumption DEF WarnInvariant
<1>1. TypeOK'
    BY DEF TypeOK, ResetWarns, DropCached, Unread, Delete, Locked, Order, Unset, Settings, TaskRecord, Counted,
           Holding, Unlocked
<1>2. NoWarningLost'
    BY DEF TypeOK, NoWarningLost, RowsAgree, TasksAgree, ResetWarns, DropCached, Delete, Locked, Order,
           Unset, Settings, TaskRecord, Counted, Holding, Unlocked
<1>3. RowsAgree'
    BY DEF TypeOK, RowsAgree, TasksAgree, ResetWarns, DropCached, Delete, Locked, Order, Unset, Settings,
           TaskRecord, Counted, Holding, Unlocked
<1>4. LocksAgree'
    BY DEF TypeOK, LocksAgree, ResetWarns, DropCached, Delete, Locked, Order, Unset, Settings, TaskRecord,
           Counted, Holding, Unlocked
<1>5. TasksAgree'
    BY DEF TypeOK, TasksAgree, LocksAgree, RowsAgree, ResetWarns, DropCached, Delete, Locked, Order, Unset,
           Settings, TaskRecord, Counted, Holding, Unlocked
<1>6. SettingsAgree'
    BY DEF TypeOK, SettingsAgree, TasksAgree, ResetWarns, DropCached, Delete, Locked, Order, Unset,
           Settings, TaskRecord, Counted, Holding, Unlocked
<1>7. LimitIsActedOn'
    BY DEF TypeOK, LimitIsActedOn, TasksAgree, LocksAgree, ResetWarns, DropCached, Delete, Locked, Order,
           Unset, Settings, TaskRecord, Counted, Holding, Unlocked
<1> QED BY <1>1, <1>2, <1>3, <1>4, <1>5, <1>6, <1>7

LEMMA ReadWarnsKeeps ==
    ASSUME WarnInvariant, NEW u \in User, ReadWarns(u)
    PROVE  WarnInvariant'
<1> USE WarningsAssumption DEF WarnInvariant
<1>1. TypeOK'
    BY DEF TypeOK, ReadWarns, Write, Order, confs, Unset, Settings, TaskRecord, Counted,
           Holding, Unlocked
<1>2. NoWarningLost'
    BY DEF TypeOK, NoWarningLost, RowsAgree, TasksAgree, ReadWarns, Write, Order, confs, Unset,
           Settings, TaskRecord, Counted, Holding, Unlocked
<1>3. RowsAgree'
    BY DEF TypeOK, RowsAgree, TasksAgree, ReadWarns, Write, Order, confs, Unset, Settings,
           TaskRecord, Counted, Holding, Unlocked
<1>4. LocksAgree'
    BY DEF TypeOK, LocksAgree, ReadWarns, Write, Order, confs, Unset, Settings, TaskRecord,
           Counted, Holding, Unlocked
<1>5. TasksAgree'
    BY DEF TypeOK, TasksAgree, LocksAgree, RowsAgree, ReadWarns, Write, Order, confs, Unset,
           Settings, TaskRecord, Counted, Holding, Unlocked
<1>6. SettingsAgree'
    BY DEF TypeOK, SettingsAgree, TasksAgree, ReadWarns, Write, Order, confs, Unset,
           Settings, TaskRecord, Counted, Holding, Unlocked
<1>7. LimitIsActedOn'
    BY DEF TypeOK, LimitIsActedOn, TasksAgree, LocksAgree, ReadWarns, Write, Order, confs,
           Unset, Settings, TaskRecord, Counted, Holding, Unlocked
<1> QED BY <1>1, <1>2, <1>3, <1>4, <1>5, <1>6, <1>7

LEMMA ResetAllWarnsKeeps ==
    ASSUME WarnInvariant, ResetAllWarns
    PROVE  WarnInvariant'
<1> USE WarningsAssumption DEF WarnInvariant
<1>1. TypeOK'
    BY DEF TypeOK, ResetAllWarns, DropCached, Unread, Delete, Locked, Unset, Settings, TaskRecord, Counted,
           Holding, Unlocked
<1>2. NoWarningLost'
    BY DEF TypeOK, NoWarningLost, RowsAgree, TasksAgree, ResetAllWarns, DropCached, Delete, Locked, Unset,
           Settings, TaskRecord, Counted, Holding, Unlocked
<1>3. RowsAgree'
    BY DEF TypeOK, RowsAgree, TasksAgree, ResetAllWarns, DropCached, Delete, Locked, Unset, Settings,
           TaskRecord, Counted, Holding, Unlocked
<1>4. LocksAgree'
    BY DEF TypeOK, LocksAgree, ResetAllWarns, DropCached, Delete, Locked, Unset, Settings, TaskRecord,
           Counted, Holding, Unlocked
<1>5. TasksAgree'
    BY DEF TypeOK, TasksAgree, LocksAgree, RowsAgree, ResetAllWarns, DropCached, Delete, Locked, Unset,
           Settings, TaskRecord, Counted, Holding, Unlocked
<1>6. SettingsAgree'
    BY DEF TypeOK, SettingsAgree, TasksAgree, ResetAllWarns, DropCached, Delete, Locked, Unset,
           Settings, TaskRecord, Counted, Holding, Unlocked
<1>7. LimitIsActedOn'
    BY DEF TypeOK, LimitIsActedOn, TasksAgree, LocksAgree, ResetAllWarns, DropCached, Delete, Locked,
           Unset, Settings, TaskRecord, Counted, Holding, Unlocked
<1> QED BY <1>1, <1>2, <1>3, <1>4, <1>5, <1>6, <1>7

LEMMA DropSettingsKeeps ==
    ASSUME WarnInvariant, DropSettings
    PROVE  WarnInvariant'
<1> USE WarningsAssumption DEF WarnInvariant
<1>1. TypeOK'
    BY DEF TypeOK, DropSettings, DropCached, Unread, table, desk, Unset, Settings, TaskRecord, Counted, Holding,
           Unlocked
<1>2. NoWarningLost'
    BY DEF TypeOK, NoWarningLost, RowsAgree, TasksAgree, DropSettings, DropCached, table, desk, Unset,
           Settings, TaskRecord, Counted, Holding, Unlocked
<1>3. RowsAgree'
    BY DEF TypeOK, RowsAgree, TasksAgree, DropSettings, DropCached, table, desk, Unset, Settings,
           TaskRecord, Counted, Holding, Unlocked
<1>4. LocksAgree'
    BY DEF TypeOK, LocksAgree, DropSettings, DropCached, table, desk, Unset, Settings, TaskRecord, Counted,
           Holding, Unlocked
<1>5. TasksAgree'
    BY DEF TypeOK, TasksAgree, LocksAgree, RowsAgree, DropSettings, DropCached, table, desk, Unset,
           Settings, TaskRecord, Counted, Holding, Unlocked
<1>6. SettingsAgree'
    BY DEF TypeOK, SettingsAgree, TasksAgree, DropSettings, DropCached, table, desk, Unset,
           Settings, TaskRecord, Counted, Holding, Unlocked
<1>7. LimitIsActedOn'
    BY DEF TypeOK, LimitIsActedOn, TasksAgree, LocksAgree, DropSettings, DropCached, table, desk, Unset,
           Settings, TaskRecord, Counted, Holding, Unlocked
<1> QED BY <1>1, <1>2, <1>3, <1>4, <1>5, <1>6, <1>7

LEMMA SetSettingsKeeps ==
    ASSUME WarnInvariant, NEW new \in Settings, SetSettings(new)
    PROVE  WarnInvariant'
<1> USE WarningsAssumption DEF WarnInvariant
<1>1. TypeOK'
    <2>1. excused' \in [User -> SUBSET Reasons]
        BY DEF TypeOK, SetSettings, Reasons
    <2> QED BY <2>1 DEF TypeOK, SetSettings, Order, table
<1>2. NoWarningLost'
    BY DEF TypeOK, NoWarningLost, RowsAgree, TasksAgree, SetSettings, Order,
           table, Unset, Settings, TaskRecord, Counted, Holding, Unlocked
<1>3. RowsAgree'
    BY DEF TypeOK, RowsAgree, TasksAgree, SetSettings, Order, table, Unset,
           Settings, TaskRecord, Counted, Holding, Unlocked
<1>4. LocksAgree'
    BY DEF TypeOK, LocksAgree, SetSettings, Order, table, Unset, Settings,
           TaskRecord, Counted, Holding, Unlocked
<1>5. TasksAgree'
    BY DEF TypeOK, TasksAgree, LocksAgree, RowsAgree, SetSettings, Order, table,
           Unset, Settings, TaskRecord, Counted, Holding, Unlocked
<1>6. SettingsAgree'
    BY DEF TypeOK, SettingsAgree, TasksAgree, SetSettings, Order, table,
           Unset, Settings, TaskRecord, Counted, Holding, Unlocked
<1>7. LimitIsActedOn'
    <2>1. /\ UNCHANGED <<count, task, faults>> /\ conf' = new /\ edits' > 1
          /\ \A u \in User : /\ excused'[u] \in {excused[u], excused[u] \cup {"changed"}}
                             /\ count[u] >= new.limit /\ count[u] < conf.limit => "changed" \in excused'[u]
        BY DEF TypeOK, SetSettings, table
    <2>2. \A u \in User : count[u] \in Nat /\ (conf = Unset => count[u] = 0)
        BY DEF TypeOK, RowsAgree
    <2>3. new.limit \in Nat \ {0} /\ (conf # Unset => conf.limit \in Nat \ {0})
        BY DEF TypeOK, Settings
    <2>4. ASSUME NEW u \in User, count[u] >= new.limit
          PROVE  excused'[u] # {} \/ \E v \in Warning : task[v].user = u /\ task[v].pc \in Counted
        <3>1. conf # Unset
            BY <2>2, <2>3, <2>4
        <3>2. CASE count[u] < conf.limit
            BY <2>1, <2>4, <3>2
        <3>3. CASE count[u] >= conf.limit
            BY <2>1, <3>1, <3>3 DEF LimitIsActedOn
        <3> QED BY <2>2, <2>3, <3>1, <3>2, <3>3
    <2> QED BY <2>1, <2>4 DEF LimitIsActedOn
<1> QED BY <1>1, <1>2, <1>3, <1>4, <1>5, <1>6, <1>7

LEMMA AskResetAllKeeps ==
    ASSUME WarnInvariant, AskResetAll
    PROVE  WarnInvariant'
<1> USE WarningsAssumption DEF WarnInvariant
<1>1. TypeOK'
    BY DEF TypeOK, AskResetAll, table, confs, Unset, Settings, TaskRecord, Counted, Holding,
           Unlocked
<1>2. NoWarningLost'
    BY DEF TypeOK, NoWarningLost, RowsAgree, TasksAgree, AskResetAll, table, confs, Unset,
           Settings, TaskRecord, Counted, Holding, Unlocked
<1>3. RowsAgree'
    BY DEF TypeOK, RowsAgree, TasksAgree, AskResetAll, table, confs, Unset, Settings,
           TaskRecord, Counted, Holding, Unlocked
<1>4. LocksAgree'
    BY DEF TypeOK, LocksAgree, AskResetAll, table, confs, Unset, Settings, TaskRecord, Counted,
           Holding, Unlocked
<1>5. TasksAgree'
    BY DEF TypeOK, TasksAgree, LocksAgree, RowsAgree, AskResetAll, table, confs, Unset,
           Settings, TaskRecord, Counted, Holding, Unlocked
<1>6. SettingsAgree'
    BY DEF TypeOK, SettingsAgree, TasksAgree, AskResetAll, table, confs, Unset,
           Settings, TaskRecord, Counted, Holding, Unlocked
<1>7. LimitIsActedOn'
    BY DEF TypeOK, LimitIsActedOn, TasksAgree, RowsAgree, LocksAgree, AskResetAll, table,
           confs, Unset, Settings, TaskRecord, Counted, Holding, Unlocked
<1> QED BY <1>1, <1>2, <1>3, <1>4, <1>5, <1>6, <1>7

LEMMA CancelResetAllKeeps ==
    ASSUME WarnInvariant, CancelResetAll
    PROVE  WarnInvariant'
<1> USE WarningsAssumption DEF WarnInvariant
<1>1. TypeOK'
    BY DEF TypeOK, CancelResetAll, table, confs, Unset, Settings, TaskRecord, Counted, Holding,
           Unlocked
<1>2. NoWarningLost'
    BY DEF TypeOK, NoWarningLost, RowsAgree, TasksAgree, CancelResetAll, table, confs, Unset,
           Settings, TaskRecord, Counted, Holding, Unlocked
<1>3. RowsAgree'
    BY DEF TypeOK, RowsAgree, TasksAgree, CancelResetAll, table, confs, Unset, Settings,
           TaskRecord, Counted, Holding, Unlocked
<1>4. LocksAgree'
    BY DEF TypeOK, LocksAgree, CancelResetAll, table, confs, Unset, Settings, TaskRecord,
           Counted, Holding, Unlocked
<1>5. TasksAgree'
    BY DEF TypeOK, TasksAgree, LocksAgree, RowsAgree, CancelResetAll, table, confs, Unset,
           Settings, TaskRecord, Counted, Holding, Unlocked
<1>6. SettingsAgree'
    BY DEF TypeOK, SettingsAgree, TasksAgree, CancelResetAll, table, confs, Unset,
           Settings, TaskRecord, Counted, Holding, Unlocked
<1>7. LimitIsActedOn'
    BY DEF TypeOK, LimitIsActedOn, TasksAgree, RowsAgree, LocksAgree, CancelResetAll, table,
           confs, Unset, Settings, TaskRecord, Counted, Holding, Unlocked
<1> QED BY <1>1, <1>2, <1>3, <1>4, <1>5, <1>6, <1>7

LEMMA ReadWarnSettingsKeeps ==
    ASSUME WarnInvariant, ReadWarnSettings
    PROVE  WarnInvariant'
<1> USE WarningsAssumption DEF WarnInvariant
<1>1. TypeOK'
    BY DEF TypeOK, ReadWarnSettings, Order, table, Default, Unset, Settings, TaskRecord,
           Counted, Holding, Unlocked
<1>2. NoWarningLost'
    BY DEF TypeOK, NoWarningLost, RowsAgree, TasksAgree, ReadWarnSettings, Order, table,
           Default, Unset, Settings, TaskRecord, Counted, Holding, Unlocked
<1>3. RowsAgree'
    BY DEF TypeOK, RowsAgree, TasksAgree, ReadWarnSettings, Order, table, Default, Unset,
           Settings, TaskRecord, Counted, Holding, Unlocked
<1>4. LocksAgree'
    BY DEF TypeOK, LocksAgree, ReadWarnSettings, Order, table, Default, Unset, Settings,
           TaskRecord, Counted, Holding, Unlocked
<1>5. TasksAgree'
    BY DEF TypeOK, TasksAgree, LocksAgree, RowsAgree, ReadWarnSettings, Order, table, Default,
           Unset, Settings, TaskRecord, Counted, Holding, Unlocked
<1>6. SettingsAgree'
    BY DEF TypeOK, SettingsAgree, TasksAgree, Unread, ReadWarnSettings, Order, table, Default,
           Unset, Settings, TaskRecord, Counted, Holding, Unlocked
<1>7. LimitIsActedOn'
    BY DEF TypeOK, LimitIsActedOn, TasksAgree, RowsAgree, LocksAgree, ReadWarnSettings, Order,
           table, Default, Unset, Settings, TaskRecord, Counted, Holding, Unlocked
<1> QED BY <1>1, <1>2, <1>3, <1>4, <1>5, <1>6, <1>7

LEMMA CommandSettings ==
    ASSUME TypeOK, WarningsAssumption
    PROVE  /\ \A n \in Limits : [limit |-> n, mode |-> IF conf = Unset THEN "mute" ELSE conf.mode] \in Settings
           /\ \A m \in Modes \cap Punishing :
                [limit |-> IF conf = Unset THEN 3 ELSE conf.limit, mode |-> m] \in Settings
<1>1. conf = Unset \/ (conf.limit \in Nat \ {0} /\ conf.mode \in Modes \cup {"mute"})
    BY DEF TypeOK, Settings
<1> QED BY <1>1 DEF WarningsAssumption, Settings

LEMMA InitHolds == Init => WarnInvariant
<1> SUFFICES ASSUME Init PROVE WarnInvariant
    OBVIOUS
<1> USE WarningsAssumption
<1>1. \A w \in Warning : task[w].pc = "idle" /\ task[w] \in TaskRecord
    <2>1. Default \in Settings
        BY SettingsValues
    <2>2. [pc : {"idle"}, user : User, conf : {Default}, confOf : {Unread}, found : {FALSE}, num : {0}]
          \subseteq TaskRecord
        <3>1. ASSUME NEW P, NEW C, NEW F, NEW N, NEW P2, NEW C2, NEW F2, NEW N2,
                     P \subseteq P2, C \subseteq C2, F \subseteq F2, N \subseteq N2
              PROVE  [pc : P, user : User, conf : C, confOf : N, found : F, num : N]
                     \subseteq [pc : P2, user : User, conf : C2, confOf : N2, found : F2, num : N2]
            BY <3>1
        <3>2. {"idle"} \subseteq {"idle", "lock", "over"} \cup Holding /\ {FALSE} \subseteq BOOLEAN
            OBVIOUS
        <3>3. {Default} \subseteq Settings /\ {0} \subseteq Nat
            BY <2>1
        <3> QED BY <3>1, <3>2, <3>3, Zenon DEF TaskRecord, Unread
    <2> QED BY <2>2 DEF Init
<1>2. TypeOK
    <2>1. task \in [Warning -> TaskRecord]
        BY <1>1 DEF Init
    <2>2. conf \in Settings \cup {Unset}
        <3>1. {3} \cup Limits \subseteq Nat \ {0}
            BY DEF WarningsAssumption
        <3>2. [limit : {3} \cup Limits, mode : Modes] \subseteq Settings
            BY <3>1 DEF Settings
        <3> QED BY <3>2 DEF Init
    <2>3. /\ stored \in [User -> BOOLEAN] /\ excused \in [User -> SUBSET Reasons] /\ setter \in BOOLEAN /\ asked \in BOOLEAN
          /\ cached \in Settings \cup {Unset} /\ chatLock \in Warning \cup {Unlocked}
          /\ mutex \in [User -> Warning \cup {Unlocked}]
        BY DEF Init
    <2>4. /\ count \in [User -> Nat] /\ tally \in [User -> Nat]
          /\ orders \in 0..Orders /\ faults \in 0..Faults
        BY DEF Init, WarningsAssumption
    <2>5. edits \in Nat \ {0} /\ cachedOf \in Nat
        BY DEF Init, Unread
    <2> QED BY <2>1, <2>2, <2>3, <2>4, <2>5 DEF TypeOK
<1>3. NoWarningLost /\ RowsAgree /\ LimitIsActedOn
    <2>1. conf = Unset \/ conf.limit \in Nat \ {0}
        BY <1>2 DEF TypeOK, Settings
    <2> QED BY <2>1 DEF Init, NoWarningLost, RowsAgree, LimitIsActedOn, Unset
<1>4. LocksAgree
    BY <1>1, <1>2 DEF Init, LocksAgree, Holding, Counted, TypeOK, TaskRecord
<1>5. TasksAgree
    BY <1>1 DEF TasksAgree, Counted
<1>6. SettingsAgree
    BY <1>1 DEF Init, SettingsAgree, Counted
<1> QED BY <1>2, <1>3, <1>4, <1>5, <1>6 DEF WarnInvariant

LEMMA StepKeeps == WarnInvariant /\ [Next]_vars => WarnInvariant'
<1> SUFFICES ASSUME WarnInvariant, [Next]_vars PROVE WarnInvariant'
    OBVIOUS
<1>1. ASSUME NEW w \in Warning, WarnStep(w) PROVE WarnInvariant'
    BY <1>1, WarnKeeps, RefuseKeeps, LockKeeps, ReadSettingsKeeps, BeginWarnKeeps, SaveWarnKeeps,
       WarnFailsKeeps, DecideKeeps, PunishKeeps, ResetPunishedKeeps DEF WarnStep
<1>2. CASE Command
    <2>1. ASSUME NEW u \in User, RmWarn(u) \/ RmWarnButton(u) \/ ResetWarns(u) \/ ReadWarns(u)
          PROVE  WarnInvariant'
        BY <2>1, RemoveWarnKeeps, ResetWarnsKeeps, ReadWarnsKeeps DEF RmWarn, RmWarnButton
    <2>2. CASE ResetAllWarns \/ AskResetAll \/ CancelResetAll \/ ReadWarnSettings
        BY <2>2, ResetAllWarnsKeeps, AskResetAllKeeps, CancelResetAllKeeps, ReadWarnSettingsKeeps
    <2>3. ASSUME NEW n \in Limits, SetWarnLimit(n) PROVE WarnInvariant'
        BY <2>3, SetSettingsKeeps, CommandSettings, WarningsAssumption DEF SetWarnLimit, WarnInvariant
    <2>4. ASSUME NEW m \in Modes \cap Punishing, SetWarnMode(m) PROVE WarnInvariant'
        BY <2>4, SetSettingsKeeps, CommandSettings, WarningsAssumption DEF SetWarnMode, WarnInvariant
    <2> QED BY <1>2, <2>1, <2>2, <2>3, <2>4 DEF Command
<1>3. CASE DropSettings
    BY <1>3, DropSettingsKeeps
<1>4. CASE UNCHANGED vars
    BY <1>4 DEF vars, table, confs, desk, WarnInvariant, TypeOK, NoWarningLost, RowsAgree, LocksAgree,
                TasksAgree, SettingsAgree, LimitIsActedOn
<1> QED BY <1>1, <1>2, <1>3, <1>4 DEF Next

\* The types and the inductive invariant of Warnings.
THEOREM WarningsCorrect == Spec => []WarnInvariant
BY InitHolds, StepKeeps, PTL DEF Spec

\* The types, for any warnings, users, modes and orders.
THEOREM WarningsTyped == Spec => []TypeOK
<1>1. WarnInvariant => TypeOK
    BY DEF WarnInvariant
<1> QED BY <1>1, WarningsCorrect, PTL

\* The counts, for any interleaving of warnings, removals, resets and reads: none is lost.
THEOREM CountsAreKept == Spec => []NoWarningLost
<1>1. WarnInvariant => NoWarningLost
    BY DEF WarnInvariant
<1> QED BY <1>1, WarningsCorrect, PTL

\* The mutex of the process is enough for the reset to take only what was punished.
THEOREM ResetsAreEarned == Spec => []ResetSparesFresh
<1>1. WarnInvariant => ResetSparesFresh
    BY DEF WarnInvariant, TasksAgree, ResetSparesFresh, Counted
<1> QED BY <1>1, WarningsCorrect, PTL

\* For any warnings, limits, orders and failures: a count at the limit is being acted on
\* unless the punishment or the reset failed, the mode punishes nobody, the settings were
\* changed after they were read, or could not be read; where nothing fails and nobody
\* changes them, none of that but the mode is left.
THEOREM LimitsAreActedOn == Spec => []LimitIsActedOn
<1>1. WarnInvariant => LimitIsActedOn
    BY DEF WarnInvariant
<1> QED BY <1>1, WarningsCorrect, PTL
================================================================================
