-------------------------------- MODULE Warnings --------------------------------
(* alita/modules/warns.go and alita/db/warns/repository.go for one chat.  A       *)
(* warning holds a mutex of the process while it reads the settings, counts the   *)
(* warning in a transaction, punishes at the limit and clears the count.  The     *)
(* commands that remove or clear warnings do not take that mutex: the database    *)
(* alone orders them.                                                             *)
EXTENDS Naturals, FiniteSets

CONSTANTS Warning,   \* the /warn, /swarn and /dwarn commands that get as far as warnThisUser
          User,      \* the users they warn
          Limits,    \* the values /setwarnlimit is given
          Modes,     \* the values of warn_mode in the table, imported ones among them
          Orders,    \* bound on the other commands and buttons
          Faults     \* bound on the statements and Bot API calls that fail

Unlocked  == "unlocked"             \* a lock that nobody holds

ASSUME WarningsAssumption ==
    /\ Limits \subseteq Nat \ {0}
    /\ Orders \in Nat /\ Faults \in Nat
    /\ Unlocked \notin Warning

Punishing == {"kick", "mute", "ban"}      \* the modes warnThisUser knows
Settings  == [limit : Nat \ {0}, mode : Modes \cup {"mute"}]
Default   == [limit |-> 3, mode |-> "mute"]
Unset     == [limit |-> 0, mode |-> "none"]         \* no row, or nothing cached
Unread    == 0                       \* the version of defaults that stand for a row nobody could read
Reasons   == {"failed", "powerless", "changed", "unread"}

VARIABLES count,     \* num_warns of the user's row in warns_users
          stored,    \* whether there is that row
          conf,      \* the row in warns_settings
          cached,    \* the settings cache
          asked,     \* whether the question of /resetallwarns waits for its button
          setter,    \* whether SetWarnLimit or SetWarnMode has yet to drop the cached settings
          task,      \* every warning
          mutex,     \* who holds the user's warnPunishLock
          chatLock,  \* the transaction that holds the row lock of the chat
          orders, faults,
          tally,     \* history: warnings counted less warnings taken back since the row was last deleted
          edits,     \* history: the version of the settings row, 1 at first
          cachedOf,  \* history: the version the cached settings were read from, or Unread
          excused    \* history: why the count of a user may have stayed at the limit

table == <<count, stored, tally>>
confs == <<conf, cached, setter, edits, cachedOf>>
desk  == <<orders, asked>>
vars  == <<table, confs, task, mutex, chatLock, desk, faults, excused>>

Counted == {"decide", "punish", "reset"}
Holding == {"settings", "begin", "save"} \cup Counted     \* between Lock and the deferred Unlock
TaskRecord == [pc : {"idle", "lock", "over"} \cup Holding, user : User,
               conf : Settings, confOf : Nat, found : BOOLEAN, num : Nat]

TypeOK == /\ count \in [User -> Nat] /\ stored \in [User -> BOOLEAN] /\ tally \in [User -> Nat]
          /\ conf \in Settings \cup {Unset} /\ cached \in Settings \cup {Unset}
          /\ setter \in BOOLEAN /\ asked \in BOOLEAN
          /\ task \in [Warning -> TaskRecord]
          /\ mutex \in [User -> Warning \cup {Unlocked}]
          /\ chatLock \in Warning \cup {Unlocked}
          /\ orders \in 0..Orders /\ faults \in 0..Faults
          /\ edits \in Nat \ {0} /\ cachedOf \in Nat
          /\ excused \in [User -> SUBSET Reasons]

Init == /\ count = [u \in User |-> 0] /\ stored = [u \in User |-> FALSE]
        /\ tally = [u \in User |-> 0]
        /\ conf \in {Unset} \cup [limit : {3} \cup Limits, mode : Modes]
        /\ cached = Unset /\ setter = FALSE /\ asked = FALSE
        /\ edits = 1 /\ cachedOf = Unread
        /\ task \in [Warning -> [pc : {"idle"}, user : User, conf : {Default}, confOf : {Unread},
                                 found : {FALSE}, num : {0}]]
        /\ mutex = [u \in User |-> Unlocked] /\ chatLock = Unlocked
        /\ orders = Orders /\ faults = Faults
        /\ excused = [u \in User |-> {}]

Works == UNCHANGED faults
Fails == faults > 0 /\ faults' = faults - 1

\* DeleteCache of the settings' key.
DropCached == cached' = Unset /\ cachedOf' = Unread

Excuse(u, why) == excused' = [excused EXCEPT ![u] = @ \cup why]

--------------------------------------------------------------------------------
(* The statements on warns_users *)

\* Nobody can delete or change a row that the warning under way has locked.
Locked(u) == chatLock # Unlocked /\ task[chatLock].user = u /\ task[chatLock].found

Write(u, n, t) == /\ stored' = [stored EXCEPT ![u] = TRUE]
                  /\ count' = [count EXCEPT ![u] = n]
                  /\ tally' = [tally EXCEPT ![u] = t]

\* DELETE takes the rows of all the users in us.
Delete(us) == /\ \A u \in us : ~Locked(u)
              /\ stored' = [u \in User |-> u \notin us /\ stored[u]]
              /\ count' = [u \in User |-> IF u \in us THEN 0 ELSE count[u]]
              /\ tally' = [u \in User |-> IF u \in us THEN 0 ELSE tally[u]]
              /\ excused' = [u \in User |-> IF u \in us THEN {} ELSE excused[u]]

--------------------------------------------------------------------------------
(* warnThisUser *)

Moves(w, from, to) == task[w].pc = from /\ task' = [task EXCEPT ![w].pc = to]

\* The deferred Unlock.
Unlock(w) == mutex' = [mutex EXCEPT ![task[w].user] = Unlocked]

\* IsUserAdmin and GetMember have let the command through.
Warn(w) == /\ Moves(w, "idle", "lock") /\ Works
           /\ UNCHANGED <<table, confs, mutex, chatLock, desk, excused>>

\* The target is an administrator or cannot be looked up.
Refuse(w) == /\ Moves(w, "idle", "over") /\ Fails
             /\ UNCHANGED <<table, confs, mutex, chatLock, desk, excused>>

LockNothing(w) == /\ Moves(w, "lock", "settings")
                  /\ mutex' = [mutex EXCEPT ![task[w].user] = w]
                  /\ UNCHANGED <<table, confs, chatLock, desk, faults, excused>>

Lock(w) == /\ Moves(w, "lock", "settings")
           /\ mutex[task[w].user] = Unlocked
           /\ mutex' = [mutex EXCEPT ![task[w].user] = w]
           /\ UNCHANGED <<table, confs, chatLock, desk, faults, excused>>

\* GetWarnSettingContext: the cached settings, or the row, which it creates.  When
\* the database does not answer the defaults are used, and cached, whatever the row says.
ReadSettings(w) ==
    /\ task[w].pc = "settings"
    /\ \/ /\ cached # Unset /\ Works
          /\ UNCHANGED <<conf, cached, cachedOf>>
       \/ /\ Works
          /\ conf' = IF conf = Unset THEN Default ELSE conf
          /\ cached' = conf' /\ cachedOf' = edits
       \/ /\ Fails
          /\ cached' = Default /\ cachedOf' = Unread
          /\ UNCHANGED conf
    /\ task' = [task EXCEPT ![w].pc = "begin", ![w].conf = cached', ![w].confOf = cachedOf']
    /\ UNCHANGED <<table, setter, edits, mutex, chatLock, desk, excused>>

\* WarnUser's transaction up to the read of the user's row: it locks the chat, the
\* settings, which it creates, and the user's row if there is one.
BeginWarn(w) ==
    /\ task[w].pc = "begin" /\ chatLock = Unlocked
    /\ chatLock' = w
    /\ conf' = IF conf = Unset THEN Default ELSE conf
    /\ task' = [task EXCEPT ![w] = [pc |-> "save", user |-> @.user, conf |-> @.conf, confOf |-> @.confOf,
                                    found |-> stored[@.user], num |-> count[@.user] + 1]]
    /\ UNCHANGED <<table, cached, setter, edits, cachedOf, mutex, desk, faults, excused>>

\* Save updates the row it has found; where it found none it inserts one, and the
\* unique index refuses a second row.
SaveWarn(w) ==
    LET u == task[w].user
    IN  /\ task[w].found \/ ~stored[u]
        /\ Moves(w, "save", "decide")
        /\ Write(u, task[w].num, tally[u] + 1)
        /\ chatLock' = Unlocked
        /\ UNCHANGED <<confs, mutex, desk, faults, excused>>

FailLocked(w) ==
    /\ Moves(w, "begin", "over") \/ Moves(w, "save", "over")
    /\ Fails
    /\ chatLock' = IF chatLock = w THEN Unlocked ELSE chatLock
    /\ UNCHANGED <<table, confs, mutex, desk, excused>>

\* The transaction rolls back, and the command ends with an error.
WarnFails(w) ==
    /\ \/ Moves(w, "begin", "over") /\ Fails
       \/ Moves(w, "save", "over") /\ Fails
       \/ Moves(w, "save", "over") /\ Works /\ ~task[w].found /\ stored[task[w].user]
    /\ chatLock' = IF chatLock = w THEN Unlocked ELSE chatLock
    /\ Unlock(w)
    /\ UNCHANGED <<table, confs, desk, excused>>

\* Why a warning may have been judged by other settings than those of the row: they
\* were not read from it, or it has been changed since.
Excuses(w) == IF task[w].confOf = Unread THEN {"unread"}
              ELSE IF task[w].confOf < edits THEN {"changed"} ELSE {}

\* DeleteCache, and numWarns against the limit read before, which is not looked at again.
ReachedOver(w) == task[w].num > task[w].conf.limit

Reached(w) == task[w].num >= task[w].conf.limit

Decide(w) ==
    LET u == task[w].user
    IN  /\ IF Reached(w) THEN Moves(w, "decide", "punish") /\ UNCHANGED mutex
                         ELSE Moves(w, "decide", "over") /\ Unlock(w)
        /\ DropCached
        /\ Excuse(u, IF Reached(w) \/ task[w].num < conf.limit THEN {} ELSE Excuses(w))
        /\ UNCHANGED <<table, conf, setter, edits, chatLock, desk, faults>>

\* The switch over warn_mode.  A mode it does not know punishes nobody.
Punish(w) ==
    LET u == task[w].user
    IN  /\ \/ /\ task[w].conf.mode \in Punishing /\ Works
              /\ Moves(w, "punish", "reset")
              /\ UNCHANGED <<mutex, excused>>
           \/ /\ task[w].conf.mode \in Punishing /\ Fails
              /\ Moves(w, "punish", "over") /\ Unlock(w)
              /\ Excuse(u, {"failed"})
           \/ /\ task[w].conf.mode \notin Punishing /\ Works
              /\ Moves(w, "punish", "over") /\ Unlock(w)
              /\ Excuse(u, {"powerless"})
        /\ UNCHANGED <<table, confs, chatLock, desk>>

\* ResetUserWarns after the punishment.
ResetPunished(w) ==
    LET u == task[w].user
    IN  /\ \/ Delete({u}) /\ Works /\ (IF stored[u] THEN DropCached ELSE UNCHANGED <<cached, cachedOf>>)
           \/ Fails /\ Excuse(u, {"failed"}) /\ UNCHANGED <<table, cached, cachedOf>>
        /\ Moves(w, "reset", "over") /\ Unlock(w)
        /\ UNCHANGED <<conf, setter, edits, chatLock, desk>>

--------------------------------------------------------------------------------
(* The other commands; their statements wait for the locks they need *)

Order == orders > 0 /\ orders' = orders - 1 /\ UNCHANGED asked

RemoveUnlocked(u) ==
    /\ Order
    /\ stored[u] /\ count[u] > 0
    /\ Write(u, count[u] - 1, tally[u] - 1)
    /\ DropCached
    /\ excused' = [excused EXCEPT ![u] = IF count[u] > conf.limit THEN @ ELSE {}]
    /\ UNCHANGED <<conf, setter, edits, task, mutex, chatLock, faults>>

RemoveBelowZero(u) ==
    /\ Order /\ chatLock = Unlocked
    /\ stored[u]
    /\ Write(u, count[u] - 1, tally[u] - 1)
    /\ DropCached
    /\ UNCHANGED <<conf, setter, edits, task, mutex, chatLock, faults, excused>>

\* RemoveWarn: a transaction that waits for the lock of the chat.
RemoveWarn(u) ==
    /\ Order /\ chatLock = Unlocked
    /\ stored[u] /\ count[u] > 0
    /\ Write(u, count[u] - 1, tally[u] - 1)
    /\ DropCached
    /\ excused' = [excused EXCEPT ![u] = IF count[u] > conf.limit THEN @ ELSE {}]
    /\ UNCHANGED <<conf, setter, edits, task, mutex, chatLock, faults>>

\* /rmwarn, and the button under the reply to a warning: it names the user and not
\* the warning, and may be pressed again, or late.
RmWarn(u)       == RemoveWarn(u)
RmWarnButton(u) == (\E w \in Warning : task[w].user = u /\ task[w].pc = "over" /\ task[w].num > 0)
                   /\ RemoveWarn(u)

\* /resetwarns
ResetWarns(u) == /\ Order /\ stored[u] /\ Delete({u}) /\ DropCached
                 /\ UNCHANGED <<conf, setter, edits, task, mutex, chatLock, faults>>

\* /resetallwarns asks the owner, whose answer may come after other warnings.
AskResetAll == /\ orders > 0 /\ orders' = orders - 1
               /\ \E u \in User : stored[u]
               /\ asked' = TRUE
               /\ UNCHANGED <<table, confs, task, mutex, chatLock, faults, excused>>

ResetAllWarns == /\ asked /\ asked' = FALSE
                 /\ Delete(User) /\ DropCached
                 /\ UNCHANGED <<conf, setter, edits, task, mutex, chatLock, orders, faults>>

CancelResetAll == /\ asked /\ asked' = FALSE
                  /\ UNCHANGED <<table, confs, task, mutex, chatLock, orders, faults, excused>>

\* /warns: checkWarns creates the row that it does not find.
ReadWarns(u) == /\ Order /\ ~stored[u]
                /\ Write(u, 0, 0)
                /\ UNCHANGED <<confs, task, mutex, chatLock, faults, excused>>

\* /warnings: checkWarnSettings creates the row that it does not find.
ReadWarnSettings == /\ Order /\ cached = Unset /\ chatLock = Unlocked
                    /\ conf' = IF conf = Unset THEN Default ELSE conf
                    /\ cached' = conf' /\ cachedOf' = edits
                    /\ UNCHANGED <<table, setter, edits, task, mutex, chatLock, faults, excused>>

\* The upserts of SetWarnLimit and SetWarnMode wait for the settings row.  A limit that
\* is lowered to a count or below it is not acted on before the next warning.
SetSettings(new) ==
    /\ Order /\ chatLock = Unlocked /\ ~setter
    /\ conf' = new /\ setter' = TRUE /\ edits' = edits + 1
    /\ excused' = [u \in User |-> IF count[u] >= new.limit /\ count[u] < conf.limit
                                  THEN excused[u] \cup {"changed"} ELSE excused[u]]
    /\ UNCHANGED <<table, cached, cachedOf, task, mutex, chatLock, faults>>

SetWarnLimit(n) == SetSettings([limit |-> n, mode |-> IF conf = Unset THEN "mute" ELSE conf.mode])
SetWarnMode(m)  == SetSettings([limit |-> IF conf = Unset THEN 3 ELSE conf.limit, mode |-> m])

\* Their DeleteCache.
DropSettings == /\ setter /\ setter' = FALSE /\ DropCached
                /\ UNCHANGED <<table, conf, edits, task, mutex, chatLock, desk, faults, excused>>

--------------------------------------------------------------------------------
WarnStep(w) == \/ Warn(w) \/ Refuse(w) \/ Lock(w) \/ ReadSettings(w) \/ BeginWarn(w) \/ SaveWarn(w)
               \/ WarnFails(w) \/ Decide(w) \/ Punish(w) \/ ResetPunished(w)

Command == \/ \E u \in User : RmWarn(u) \/ RmWarnButton(u) \/ ResetWarns(u) \/ ReadWarns(u)
           \/ AskResetAll \/ ResetAllWarns \/ CancelResetAll \/ ReadWarnSettings
           \/ \E n \in Limits : SetWarnLimit(n)
           \/ \E m \in Modes \cap Punishing : SetWarnMode(m)

Next == (\E w \in Warning : WarnStep(w)) \/ Command \/ DropSettings

Spec == Init /\ [][Next]_vars

\* A goroutine that can go on does; administrators need not give orders.
FairSpec == Spec /\ (\A w \in Warning : WF_vars(WarnStep(w))) /\ WF_vars(DropSettings)

--------------------------------------------------------------------------------
(* Properties *)

\* Every warning that was reported as counted is in the row, less those taken back:
\* no warning, removal or read of the same row overwrites another (the locks of the
\* transactions in db/warns/repository.go).
NoWarningLost == \A u \in User : count[u] = tally[u]

\* The comment on warnPunishShards: the reset that follows a punishment takes only
\* warnings that the punishment was for, never one given since.
ResetSparesFresh ==
    \A w \in Warning : task[w].pc \in {"punish", "reset"} => count[task[w].user] <= task[w].num

\* A count at the limit is being acted on by a warning under way, or there is a reason:
\* the punishment or the reset failed, the mode punishes nobody, the row was changed
\* after the settings were read, or it could not be read, so that the default limit of 3
\* was the one that counted (checkWarnSettingsContext only logs the error).  The reasons
\* are real: where nothing has failed there is neither the first nor the last, where
\* nobody has changed the settings not the third.  So a punishment is never missed as
\* long as the statements and calls succeed, the settings stay and the mode is known.
LimitIsActedOn ==
    \A u \in User :
        /\ conf # Unset /\ count[u] >= conf.limit =>
               excused[u] # {} \/ \E w \in Warning : task[w].user = u /\ task[w].pc \in Counted
        /\ excused[u] \cap {"failed", "unread"} # {} => faults < Faults
        /\ "changed" \in excused[u] => edits > 1

\* Whatever fails, a warning ends and gives the mutex back: later ones are not stuck.
WarningsEnd == \A w \in Warning : task[w].pc = "lock" ~> task[w].pc = "over"
================================================================================
