# A formal model of moderation-bot

The bot (`src/alita`, Go) moderates Telegram groups.  Updates arrive by long
polling or a webhook and are handled by concurrent dispatcher goroutines; state
lives in PostgreSQL, in Redis (a cache with a time to live, and some state that
exists only there) and in maps of the process.  This directory holds TLA+
models of the parts whose correctness depends on what happens *between* two
steps of a handler, the TLC runs that check them on small instances, and proofs
that TLAPS checks for all values of their constants.

## 1. Inventory

| component | state it keeps | operations | what is hard |
|---|---|---|---|
| **Captcha** (`modules/captcha.go`, `db/captcha`) | the rows `captcha_attempts`, `captcha_muted_users`, `captcha_settings.enabled`; a timer goroutine per challenge; the user's restriction in Telegram | send a challenge, verify, refresh, time out, recover after a restart, clean up, punish, unmute later, switch on and off | five kinds of goroutine race for one row; a crash between a Telegram call and the row that records it; late updates; retries |
| **Joins and greetings** (`membership.go`, `greetings.go`) | the recent-join claims; welcome settings | claim a join, decide between captcha, welcome and ban, leave | the same join is announced twice, a leave is handled late |
| **Approvals** | approved users | approve, unapprove | releases a pending challenge |
| **Cache loader** (`db/cache/loader.go`) | in-flight loads, a generation per key, Redis | get-or-load, delete | a load that began before a write must not store what it read |
| **Antiflood** | a counter per (chat, user), swapped without locks | count a message, look up admins, clean up | lost updates, a retry loop that cannot succeed |
| **Anti-raid** | raid state in Redis, join counts | start by hand or automatically, end, expire | start, end and expiry race; partial failure of chat permissions |
| **Warnings** | warnings per user, the chat's limit, a mutex per user | warn, remove, reset, set the limit, punish at the limit | a mutex of the process here, row locks there, and a punishment between two transactions |
| **AI spam filter** | a bounded queue, workers, a breaker per chat | enqueue, check, drain at shutdown | a check accepted after the drain; the breaker's half-open state |
| **Shutdown and main loop** | registered handlers, the update source | register, shut down in reverse order under timeouts | a handler slower than its share of the time |
| **Webhook server** | a bounded queue of updates | accept, refuse, hand over | queue limits against redelivery |
| **Migrations** | the table of applied migrations, a lock | run all | a crash, a second replica, a lock that is only of best effort |
| **Permission checks** (`utils/chat_status`, `command_pipeline.go`) | none of their own; they read the admin cache or ask Telegram | some forty checks | the answer is old when it is used |
| **Moderation commands** | none of their own | ban, mute, kick, purge, pin, promote ... | a chain of permission checks, then Telegram calls that fail or lose their answer |
| **Federations** | bans, admins, subscriptions, ownership | ban, subscribe, transfer, delete | limits checked before the write |
| **Admin and restricted-chat caches** | admin lists with a generation, restricted-chat marks with a probe lock | read through, clear, mark, probe, unmark | an old answer must not overwrite a newer one |
| **Backup, import, reset** | rate-limit slots, a transaction over all settings | export, import, reset | two at once; settings written meanwhile |
| Filters, blacklists, notes, locks, rules, reports, connections, log channels, languages | settings rows behind the cache | set, list, remove, match | overwrite confirmations; which cached keys a write outdates |
| Help, formatting, encodings, configuration, monitoring, user tracking | texts and counters | - | little: conversions without a protocol |

Interactions: every settings read goes through the cache loader, every
settings write ends in `DeleteCache`.  A join goes from the membership intake to
anti-raid, antibans, captcha and greetings, in that order; an approval and a leave
reach back into captcha.  Warnings, filters, blacklists, antiflood and the AI
filter all end in the same Telegram calls: mute, kick, ban.  Every command passes
the permission checks before it acts, and at shutdown the manager stops the
intake of updates, the AI checks, the pending writes and the database, in that order.

What makes each component correct is in `PROJECT.json` under `hazards`: the
places where the code can go wrong in a way a test would hardly reach, each at
its line, with the properties that would show it or the reason why none does.
Section 7 lists further places noticed while modelling.

## 2. Plan

The modules were written in this order, most important first, and all of them are
written, checked and, as far as section 5 says, proved:

1. `CaptchaStore`, `Captcha`, `CaptchaChallenge`
2. `CacheLoader`
3. `Antiflood`, `FloodCounter`
4. `AntiRaid`, `RaidMode`
5. `Warnings`
6. `Shutdown` (with the queue and the drain of the AI filter and of the webhook
   server) and `Migrations`
7. `Permissions`, `Commands` and the five modules of handlers: one interpreter for the
   many commands that share a shape, rather than a module for each
8. `AdminCache`: the generations and the shared fetch behind `Commands`' simple list

What could follow: `RestrictedChats` with its probe lock, and the breaker of the AI
filter.

Abstract specifications: a challenge closed once (`CaptchaChallenge`), a counter that
takes one message at a time (`FloodCounter`), one raid mode (`RaidMode`).  Recursive
operators are kept out of all modules.

## 3. The modules

| module | models | builds on |
|---|---|---|
| `CaptchaStore` | the tables `captcha_attempts` and `captcha_muted_users` of one user in one chat; one operator per transaction of `db/captcha/repository.go` | |
| `Captcha` | every goroutine that touches them: joins, `SendCaptcha`, timers, cleanup, recovery, callbacks, leave, approval, `/captcha on\|off`, unmute worker, crash and restart | `CaptchaStore` |
| `CaptchaChallenge` | what the captcha promises: numbered challenges, at most one open, each closed once for a stated reason | |
| `CacheLoader` | `GetFromCacheOrLoad`, `runCacheLoader`, `DeleteCache` for one key | |
| `AdminCache` | `LoadAdminCache`, `loadAdminCacheFromTelegram`, `ClearAdminCache` for one chat | |
| `Antiflood` | `checkFlood`, `updateFloodWithSettings`, the look-up slots and the cleaner for one user in one chat | |
| `FloodCounter` | what antiflood promises: a sequential counter | |
| `AntiRaid` | `onJoin`, `/antiraid` with its buttons, `enableRaid`, `setRaidDuration`, `disableRaid`, `isRaidActive` and the poller on the Redis keys of one chat | |
| `RaidMode` | what anti-raid promises: one raid mode, ended by an order or by time | |
| `Warnings` | `warnThisUser` and every command and button of `warns.go` with the transactions of `db/warns/repository.go`, for one chat | |
| `Shutdown` | the manager of `graceful.go` with its timeouts, the webhook queue or poller, the AI filter's queue and drain, the writes of `users.go`, the connection pool | |
| `Migrations` | `RunMigrations` of several replicas on one database | |
| `Permissions` | the checks of `chat_status` and of the command pipeline, and the notation for handlers | |
| `Commands` | what the steps of a handler do, and what others do meanwhile | `Permissions` |
| `ModerationHandlers`, `ContentHandlers`, `SettingsHandlers`, `ServiceHandlers`, `FederationHandlers` | the handlers: about two hundred commands, buttons and watchers | `Permissions` |
| `MCCaptcha`, `MCWarnings`, `MCCommands` | what TLC instantiates (symmetry, the handlers and where they begin) | the module of that name |
| `MCCacheLoader`, `MCAntiflood`, `MCRedis`, `MCLifecycle` | two or three components in one run that share no state | `CacheLoader` and `AdminCache`; `Antiflood` and `AntiRaid`; `AntiRaid` and `CacheLoader`; `Shutdown`, `Migrations` and `Antiflood` |
| `CaptchaProofs`, `CaptchaMutes`, `CacheProofs`, `AntifloodProofs`, `AntiRaidProofs`, `WarningsProofs`, `LifecycleProofs`, `CommandsProofs` | proofs | the modules they are named for; `CacheProofs` is about `CacheLoader` and `AdminCache`, `LifecycleProofs` about `Shutdown` and `Migrations` |

A handler of the bot is a sequence of database transactions, Redis commands and
Telegram calls with nothing but local variables in between, so an action is one
of these together with the local steps up to the next; everything else may
happen between two actions.  A function's local state is a record with a `pc`.

**Captcha.** `row` is the user's row in `captcha_attempts` (its id, message,
refresh count, wrong answers and whether it has expired), `sched` the row in
`captcha_muted_users`, `member` what Telegram holds about the user.  The arrays
`send`, `timer` and `claim`, indexed by challenge, are the goroutines of
`SendCaptcha`, of `scheduleCaptchaTimeout` and of whoever deleted the row and now
punishes, restores or unmutes; `click` and `refr` are the two kinds of callbacks;
`sweep`, `unmuter`, `left`, `approver` and `admin` are single goroutines.  The
compare-and-swap conditions of the SQL statements are `CaptchaStore!Unchanged`.
Both expirations are nondeterministic (`Clock`); an answer is right or wrong
by choice.  `enabled` is the setting in the table and `seen` what the cache
answers: between the write and `DeleteCache` a read may see either.  A crash
(`Crash`) loses every goroutine and `Restart` runs the recovery pass before
updates are served, as `main.go` does.  `outcome` and `stamp` are history.

**Cache loader.** A value is the number of writes the row had seen when it was
read, so "older" is a comparison.  `gen`, `current` and `load` are
`cacheGenerations`, the pending load and the loads with their waiters; `reader`
and `writer` are callers.  Every `DeleteCache` is three actions: take the load
off the list, raise the generation, delete the key - with the one retry of the
code, after which the value stays (`lost`).  A `Set` that returns an error has stored
nothing, or has stored the value: `runCacheLoader` returns before its second comparison
either way (loader.go:127), and if the load was overtaken nobody will delete the value
(`lost` as well).  `StaleIsDoomed` and `StaleEnds` except these two cases, of which
each needs a call that fails, and no other.  `settled` is history: the newest
write whose `DeleteCache` has returned.  A load may store an old value after its first
comparison of generations and remove it after the second; a reader may see the value
in between, which `StaleIsDoomed` allows although `caching.md:121` speaks of
"preventing" the store.

**Admin cache.**  A list is the number of promotions and demotions Telegram had seen when
it was read; an empty or negative list sends whoever reads it to Telegram and is
`NoList`.  `adminGen` is `adminCacheGeneration`, which all chats share
(`ClearElsewhere`), `flight` what the singleflight group holds under the chat's key, and
`fetch` the goroutines that run `loadAdminCacheFromTelegram`: note the generation, ask
Telegram, compare, store, compare again and clear.  `ClearAdminCache` is three actions -
raise the generation, forget the flight, delete the key - whether a `clearer` calls it or
a fetch that was overtaken.  An `asker` is a call of `LoadAdminCache`: it notes the
generation, joins the flight or begins one, and believes the list if the generation is
still the same.  `cleared` is history, like `settled` above; so are an asker's `floor`
(`cleared` when it asked), `due` (what the clearings are about that have raised the
generation when it is told) and `behind` (the clearings it found between raising the
generation and forgetting the flight).

**Antiflood.** `entry` is the `*floodControl` in the map; each store makes a new
`ptr`, so that comparing pointers is comparing `ptr`.  A message reads the limit,
asks whether its sender is exempt (from the cached list, or by a look-up that
takes a slot and may outlive its caller), reads the clock, loads the entry and
swaps it; these are separate actions, as is each half of the cleaner.  `crc` is
the message list that is to be deleted with the punishment.

**Anti-raid.**  `raid` and `joins` are the two Redis keys; a key that is missing
and a state that cannot be read are both `NoRaid`, as in `getRaidState`.  A task is
an update, a command or a button; its `pc` stands before the next Redis call, and
`found` and `time` are the state and the time it has read by then; `conf` is the
settings row and `cachedConf` what the cache answers.  Each script is one
action, since Redis runs it without interruption; `enableRaid` is four (`ReadRaid`,
`DeleteRaid`, `SetRaid`, `ClearJoins`) and a round of `setRaidDuration` begins with
`CheckRaid`.  Each call may fail, and what its caller does then is a disjunct of the
action.  `reply` and `saw` are history: what a caller was answered, and whether the
raid mode was on while the task ran.

**Warnings.**  `mutex` is the entry of `warnPunishShards` for a user, `chatLock` the
lock that the counting transaction holds on the chat's row, `count` and `stored` the
row in `warns_users`, `conf` and `cached` the settings row and its copy.  A warning
takes the mutex, reads the settings, counts in a transaction, decides, punishes and
clears.  The commands that take warnings back do without the mutex, so they fall
between any two of these steps.  `tally` is history: the warnings reported as counted
less those taken back.  `edits` numbers the versions of the settings row, `cachedOf`
and a warning's `confOf` say which one the settings at hand were read from; they are 0
(`Unread`) for the defaults that `checkWarnSettingsContext` returns, and that are cached,
when the row cannot be read (repository.go:47).  `excused` remembers why a count may stay
at the limit: a call failed, the mode punishes nobody, the row was *changed* after it was
read, or was *unread* and the default of 3 counted.  `Decide` gives no reason where the
warning was judged by the row as it is, and each reason has to be real (`LimitIsActedOn`).

**Shutdown.**  `Stages` is the order in which the manager runs the handlers main has
registered; `turn` and `handler` are the manager's loop and the goroutine it starts
for each, which may go on after the ten seconds (`SkipHandler`, `late`).  `upd`
follows an update through the webhook's queue or the poller, `check` its way through
`aispamEnqueue` - found worth checking, counted, past the flag, queued, judged - and
`write` the upsert it starts.  `ahead` is history: the checks that had passed the flag when
the drain set it.  A process that polls has a second way to end (`MainReturns`): main
waits in `updater.Idle()` (main.go:302), which returns when `Updater.Stop` has, and that
is the first handler the manager runs.  The AI checks, the writes and the closing of the
database are then cut off at whatever point the manager has reached.

**Migrations.**  `row` is `schema_migrations` with checksums, `effects` how often a file's
statements have taken effect, `lock` the advisory lock.  A file's statements and the row
that records them are one transaction; `pg_try_advisory_lock` is tried once a second
and given up; the deferred unlock may run on another connection and release nothing.
`files` and `sums` give every replica its own version of the migrations, as in a
rolling update: it may know fewer files, and other contents of each.  The rows found at
the start have any contents or no checksum (`Legacy`).  An empty checksum is read by one
statement (`VerifyChecksum`) and filled in by another (`Backfill`), so two replicas without
the lock may both do it; `overwritten` is history: the files whose checksum the second of
them replaced.  A statement that returns an error has been carried out or not.  The
session that holds the lock is taken to live as long as the start does.

**Commands.**  A handler is written down once, as the sequence of its steps: a check
(`Gate`: who must have which power, and whether the answer comes from the cached
list, from the list and Telegram, from Telegram alone, from the update, from the
connection, the bot's team or the federation), a Telegram call with the effects it may
have (`act`), a write with its tables (`store`), dropped keys (`drop`), the filling and
dropping of the administrators' list, the weighing of rights in a promotion, a
button, and the reply.  `Commands` runs them one at a time.  `rank` is what everybody
is in Telegram and `list` the cached administrators; `ChangeRank` is somebody else's
change, `HandleUpdate` the update about it that refreshes the list later.  `held` and
`kept` are history: what somebody has been at some time, or all the time, since the
command was given; `done`, `saved`, `told`, `refused` and `stale` record what became of
it.  A failed call has done nothing or has lost its answer.

Besides the operators `Next` uses, the modules define variants of some of them as
a plausible slip would have written them, each placed before the one it varies:
a leave that is delivered twice (`LeftArrivesAgain`), a release without a
schedule (`ReleaseUnscheduled`), a claim by user instead of by challenge
(`TimerClaimsByUser`), a challenge created without the second look at the setting
(`ChallengeUnchecked`), an unmute worker that trusts the schedule it read before
(`UnmuterReloadsNothing`), a `DeleteCache` that leaves the pending load listed
(`LeaveListedLoad`), a fetch of administrators that does not compare after it has stored
(`StoreUnwatched`), a caller who believes it whatever happened meanwhile
(`BelieveFlight`), a swap or a delete without comparison (`StoreUncompared`,
`DeleteUncompared`, `PollerDeletesAny`), a counting transaction without its lock
(`RemoveUnlocked`, `LockNothing`), a check counted only when it is sent
(`CountedOnSend`), a replica that waits for the lock (`WaitForLock`), a handler that
tells before it writes (`setRulesToldFirst`) or asks about the wrong person
(`CheckPurgeOfUser`), and others of the kind.  No specification uses them; put in
the place of the real operator, each makes TLC report a violation of the property
`PROJECT.json` names with it, which shows that the property depends on the code.

## 4. What TLC checks

| run | instance | shows |
|---|---|---|
| `captcha_crash` | 1 challenge, 2 wrong answers, 1 refresh by 2 callbacks, one failing call (unmute, send or mute), 1 crash | `TypeOK`; `MuteIsRecorded`: a user muted by the bot always has a row that leads to an unmute or a decision; `HandlersAgree` |
| `captcha_replace` | 2 challenges from a double join update, failing mute, kick as the failure action | `ImplementsChallenge`: each challenge is closed once and for a reason |
| `captcha_commands` | 1 challenge, 2 orders out of on, off and approve, 24-hour mutes | `DisableIsFinal`, `MuteStands` |
| `captcha_ends` | 1 challenge, 1 refresh, failing unmute, 1 crash, fair | `ChallengeEnds`, `ScheduleEnds` |
| `captcha_strands` | 1 challenge, one `captcha off` | **violation** of `NoOneStranded` |
| `cache_shared` | 2 readers, 1 writer, 2 loads, 2 writes or a failing or late call; or 2 askers, 1 change of administrators, 2 fetches, 2 clearings (one may be another chat's) or a failing call | `StaleIsDoomed`, `LoadAnswersAreFresh`, `WaitersKeepTheirLoad`, `OldListIsDoomed`, `AnswersAreCurrent` |
| `redis_ends` | a raid with 1 command or button, 2 failing calls, and the poller; or 1 reader, 1 writer, 2 loads, 1 failing or late call; fair | `RaidEnds`, `StaleEnds`, `ReadsEnd` |
| `flood_raid` | 3 messages, limits 0 and 1, one `/setflood`, cleaner; or a join of 2 members, 1 command or button, the poller, 2 durations, 1 failing call, 1 changed setting | `PunishmentIsEarned`, `LookupsAreBounded`, `FloodInvariant`, `ImplementsCounter`, `BansAreEarned`, `RaidInvariant`, `ImplementsRaidMode` |
| `flood_spins` | 2 messages, limits 0 and 1 | **violation** of `RetriesOnlyWhenOvertaken` |
| `warnings` | 3 warnings of one user, no settings yet or limit 2, one mode that punishes and one that nobody knows, 2 other commands, 1 failing statement or call, fair | `TypeOK`, `NoWarningLost`, `ResetSparesFresh`, `LimitIsActedOn`, `WarningsEnd` |
| `lifecycle` | 2 updates, queues of 1, 1 worker, 3 late handlers; or 2 replicas of which one is of the newest version, 3 migrations of which one is empty and one has two versions, 1 try for the lock; or 2 flooding messages; fair | `ShutdownLosesNothing`, `SchemaIsWhole`, `ShutdownEnds`, `StartEnds`, `MessagesEnd` |
| `commands` | every handler, for every kind of presser, target and chat, one change of rank or one failing call | `CmdTypeOK`, `Accounted`, `TargetProtected`, `NoRefusal`, `Honest`, `CachesFollow`, `TakesUpDisciplined` |

**The bounds and why they are enough.**  One user in one chat, one key, one
entry: the code shares nothing between pairs except connection pools and mutexes
held for single statements.  *Captcha:* two challenges are enough for one to be
mistaken for the other, two refreshers for a lost update, one click for the last
wrong answer and a second for a right one beside it; one crash at every point
covers recovery, and a second crash during recovery starts from tables the first
can already leave.  `Orders`, `Joins`, `Faults`, `Crashes` count down.  `Prompt`
keeps single calls from taking as long as the timeouts of minutes and of 24 hours
they race with.  *Cache:* two readers share and abandon a load; the writer's two
deletes overlap with it, and a second load may begin while an overtaken one still runs;
the constraint `OneTrouble` has either a second write or a failing call, not both.
*Admin cache:* of two askers one waits for the other's fetch; a second fetch begins when
a clearing has forgotten the first, and the second clearing, or that of another chat, finds
both of them under way; again `OneTrouble` has a second clearing or a failing call.
*Antiflood:* three messages are two punishments
under the limit 1; `Window = 1` and `Retention = 2` stand for 60 and 600
seconds, whose order is all the code relies on.  `Tick` waits, at `LastSent`, for
the messages received by then to read the clock, so that the bounded clock does not
stop short of the cleaner; `Slots = 1` makes "no slot free" frequent.  *Anti-raid:* one
task beside another and the poller is enough to start, prolong and end a raid between
two calls of a third; two members reach the threshold and lead one update through both
halves of its loop; three seconds hold a raid of one second, its end, and the next.
`Delay` says that the calls between reading the clock and setting a raid take less than
the shortest raid.  *Warnings:* with the limit 2, the third warning comes between the punishment
for the first two and its reset, which is the race the mutex is for; a limit below the
default (`LowInit`) is the one that an unread row hides.  *Shutdown:*
two updates fill a queue of one and leave one outside; `Budget` is how many handlers
may use up their ten seconds before the sixty are over.  *Migrations:* one replica
with the lock and one that has given it up, of the same version or not; three files
put an empty one between two others.  `MigStarts` lets one replica be of the newest version,
whose first file was changed, the other know any number of files and either version of the
first, and the rows found be all from before the checksums or none: the first file alone
shows what differing contents do, and the proof covers the rest.  *Commands:* one handler at a time with its button,
since handlers share nothing but rows written by single statements; one trouble of others
or of Telegram at every point.  The proofs of section 5 hold for all values.

`cache_shared`, `flood_raid`, `redis_ends` and `lifecycle` exercise one component per behaviour while the
others rest (`part`), since they share no state.  Symmetry is used in `cache_shared`
(readers, askers) and `flood_raid` (messages): members of the sets differ by name only, no
property singles one out, and no liveness is checked in these runs.  Deadlock is not
checked: when the bounded inputs are used up the bot rightly waits for the next update,
and a replica that has migrated, or a process that has exited, stops.

**Fairness.**  *Captcha:* goroutines that have something to do run (the Go
scheduler, calls with deadlines), the process is restarted by its supervisor,
and time passes; nobody has to join, leave, click or give a command, and no call
has to fail.  *Cache:* readers past their request, loads and writers in
`DeleteCache` go on, since every call ends by its deadline.  *Antiflood:* handlers,
clock and cleaner go on; a look-up is not fair, because it has no deadline of its
own.  *Anti-raid:* only the poller, which runs every 30 seconds, is fair.
*Warnings:* a warning goes on when it can, and so does the setter of a setting;
nobody has to give an order.  *Shutdown:* only the manager's goroutine and its timers
(`ManagerRuns`) - handlers, updates and checks may hang.  *Migrations:* a replica that
does not die goes on.

**What the violations show.**

- `captcha_strands`: `captcha off` can release the row between the transaction
  that creates it and the mute in `SendCaptcha` (captcha.go:1109).  The mute then
  has no row and no schedule, and the rollback that follows finds nothing to
  release: the user stays muted.  A leave update handled after the user's return
  strands them in the same way.
- `flood_spins`: an entry idle for 60 to 600 seconds is treated as absent
  (antiflood.go:191), so the swap is a `LoadOrStore` on a key that is present: it
  fails until the cleaner removes the entry, and the goroutine goes around the loop
  without a pause.

**What the properties of the commands leave out, and why.**  `NotAsking` names the handlers
that do not ask what the bot may do: the buttons under a restriction or `/unbanall`,
the watchers of linked posts, service messages and blacklists, an approved join request,
`/approve`, and the federation bans (`applyActiveFban`, federations.go:763), which
let Telegram refuse.  `NotSparing` names those that do not ask what their target is now: the
buttons of a restriction, of a report and of a join request, whose target may have been promoted
since they were offered, and the federation bans, which are placed on a user
and not on a member.  `TargetProtected` (`shielded`) speaks of targets who were
administrators throughout, in the cache as well as in Telegram, while no call failed: when a
look-up times out the code goes on "assuming non-admin" (chat_status.go:241).
A developer or sudo user of the bot who promotes hands on rights he may lack himself (admin.go:271), which `Authorized` allows.
`Revealed` counts what a watcher shows in the group it is asked in as shown to the group.

## 5. What is proved

Theorems hold for all sets of callbacks, readers, writers, messages, tasks, warnings,
users, updates, replicas, askers, fetches, clearings and handlers, and all bounds.  Each rests on its module's
assumption about the constants:
`StoreAssumption` and `CaptchaAssumption` (numbers are naturals, at least one
challenge and one permitted answer), `LoaderAssumption` (finitely many readers,
since a load counts them), `AdminAssumption` (the bounds are numbers), `FloodAssumption` (finitely many messages, the window
not longer than the retention, at least one remembered message beyond the limit),
`RaidAssumption` (durations are positive and not shorter than the delay),
`WarningsAssumption` (limits are positive), `ShutdownAssumption` (queues and workers
are at least one), `MigrationsAssumption` (at least one file and one try, no replica
called as the free lock) and
`CommandsAssumption` (handlers are sequences of steps that name tables and handlers
there are; whoever begins one is nothing absurd).  Further hypotheses of single theorems
stand in their statements and are explained below.

| theorems | of | state |
|---|---|---|
| `TypeCorrect`, `Agreement`, `Refinement` | `CaptchaProofs` | `TypeOK`, `HandlersAgree`, `ImplementsChallenge` |
| `Basics`, `DisablingIsFinal`, `MutesStand`, `MutesAreRecorded` | `CaptchaMutes` | the common invariant, `DisableIsFinal`, `MuteStands`, `MuteIsRecorded` |
| `LoaderCorrect`, `StaleDoomed`, `AnswersFresh`, `WaitersServed` | `CacheProofs` | `TypeOK` and `LoaderInvariant`, `StaleIsDoomed`, `LoadAnswersAreFresh`, `WaitersKeepTheirLoad` |
| `AdminCorrect`, `OldListsDoomed`, `AnswersCurrent` | `CacheProofs` | `AdminTypeOK` and `AdminInvariant`, `OldListIsDoomed`, `AnswersAreCurrent` |
| `FloodCorrect`, `PunishmentEarned`, `LookupsBounded`, `Refinement` | `AntifloodProofs` | `FloodInvariant`, `PunishmentIsEarned`, `LookupsAreBounded`, `ImplementsCounter` |
| `RaidCorrect`, `OnlyRaidersAreBanned`, `Refinement` | `AntiRaidProofs` | `RaidInvariant`, `BansAreEarned`, `ImplementsRaidMode` |
| `WarningsCorrect`, `WarningsTyped`, `CountsAreKept`, `ResetsAreEarned`, `LimitsAreActedOn` | `WarningsProofs` | `TypeOK`, `NoWarningLost`, `ResetSparesFresh`, `LimitIsActedOn` |
| `StopLosesNothing`, `MigrationsKeepSchemaWhole`, `LifecycleTyped` | `LifecycleProofs` | `ShutdownLosesNothing`, `SchemaIsWhole`, `LifecycleTypeOK` |
| `CommandsCorrect`, `CommandsTyped`, `DisciplinedAccount`, `DisciplinedProtect`, `DisciplinedBot`, `DisciplinedHonest`, `DisciplinedCaches` | `CommandsProofs` | `CmdTypeOK`, `Accounted`, `TargetProtected`, `NoRefusal`, `Honest`, `CachesFollow` |

**Captcha, tables and challenges.**  `TypeCorrect`: types, proved action by action from
what each transaction, each Telegram call and each handler's step returns.  `Agreement`:
`HandlersAgree` is inductive with it.  It is needed because a goroutine decides to
punish or to refresh some steps before it acts: the invariant says that while
*its* challenge is still the row, the verdict is still deserved - expiry and wrong
answers never decrease, a new challenge has a new id, and the swap compares the
refresh count.  `Refinement`: a step of `Captcha` is first reduced to what it does
to `captcha_attempts` (`AttemptStep`: create, count, refresh, expire, close,
nothing), then each of these is shown to be a step of `CaptchaChallenge`.

**Captcha, mutes.**  `Basis`, which all three proofs use, adds to types and agreement
that no goroutine follows a claim on a challenge that is still open (`ClaimsFollow`) and
that schedules are stamped in the order they are written, with the unmute worker never
ahead of the table (`StampsGrow`), so that it can tell its schedule from a newer one.
- `DisablingIsFinal`: `FinalInvariant` says that a row left while captcha is off
  is the very one the command is about to claim.  It asks for no crash so far
  (`crashes = Crashes`): a crash in the middle of `captcha off` leaves rows that
  recovery closes later.
- `MutesStand`: `MuteHeld` says that a 24-hour mute is in force or somebody who has
  taken it back still has to act.  It asks for no crash so far (a crash between the schedule
  and its mute leaves a schedule alone) and for `"mute" \notin FaultyCalls`, since the
  unmute worker mutes again after it has unmuted by an older schedule, and this
  call may fail too.
- `MutesAreRecorded`: `StayInvariant` gives, for every program counter of every
  goroutine, the row, the schedule or the step to come that covers the mute (`Untouched`,
  `Recorded`, `ClaimHolds`, `UnmuterHolds`, `SendsOwn`, and one `...Settled` per
  goroutine).  It holds for any crashes and restarts, timers, workers and callbacks of a
  *first stay* (`FirstStay`: the user has joined once, got at most one challenge, and no
  command was given), if handlers are `Prompt` and, when the failure action is the mute,
  that call does not fail.

The hypotheses of `MutesAreRecorded` are not for the proof's comfort: without each of
them TLC finds a muted user whom no row leads to.  With a double join update, a mute of the
second challenge that fails - or a first mute that arrives after the second challenge was answered -
leaves the user muted with neither row nor schedule.  A leave handled late deletes the
row of the rejoin.  An approval or `captcha off` between the row and the mute strands the user
(`captcha_strands`).  When the 24-hour mute fails, `UndoMute` deletes the schedule before
the permissions are restored (captcha.go:1384): a crash between the two leaves no record, and
even without one the unmute worker that has read the schedule already mutes the
user again after the undo.  And a handler slower than a challenge or a mute lasts acts on rows
that are gone.

**Cache loader.**  `LoaderCorrect` proves `LoaderInvariant`, the conjunction of:
a load whose generation is still current can be out of date only with respect to
a writer that has not come to raise it (`GenerationsAgree`); a load still on the
list that has read is out of date only with respect to a writer that has not taken
it off (`ListedLoadIsFresh`); whoever joined a load gets at least what was settled
when they asked (`JoinedLoadsAreFresh`); a load's counter is the number of its
waiters (`WaitersCounted`, by cardinalities); writes are settled in the past
(`WritesAgree`) and unstarted loads are blank (`UnstartedLoads`).  `StaleDoomed`,
`AnswersFresh` and `WaitersServed` follow.

**Admin cache.**  `AdminCorrect` proves `AdminInvariant`.  A fetch whose generation is the
current one has seen what every clearing is about that has raised it
(`FetchesKeepUp`); the flight that can be joined has seen that of every clearing which has
come to forget others (`FlightKeepsUp`), since a clearing forgets what was there before it
deletes; an asker who has seen no clearing begin knows those that are about to forget
(`AskersKnow`); generations and changes are noted in the past (`NothingAhead`), and fetches
begin one after the other (`FetchesBegin`).  Three lemmas carry the steps: a clearing
outdates a list only by raising the generation (`OutdatedGrows`), what a fetch has found
keeps up with what it has kept up with (`FoundKeepsUp`), and a fetch that will delete the
key goes on being one until it has (`CleansOn`).  The invariant shows why both comparisons
of `storeWithTTL` and both halves of `ClearAdminCache` are needed: the second comparison for
`OldListIsDoomed`, the forgotten flight for the askers who come after the clearing, the
asker's own comparison for those who came before.

**Antiflood.**  `FloodCorrect` proves `FloodInvariant`.  Its core is
`PointersAgree`: a pointer somebody holds that is still the stored one points to
what they loaded, so a successful swap replaces exactly the entry that was counted
on.  To it come the order of times (`TimesAgree`, which makes the cleaner's delete
a pause), that stored messages have passed and are distinct (`EntryAgrees`), that
bursts hold messages of the past (`BurstsAgree`), and that running look-ups hold
slots (`SlotsAgree`, by cardinalities).  Steps are divided into those that leave
entry and verdicts alone, the swap, and the cleaner's delete.  `PunishmentEarned`
and `LookupsBounded` follow, and `Refinement`: the lock-free loop and the cleaner
implement `FloodCounter`.

**Anti-raid.**  `RaidCorrect` proves `RaidInvariant`.  `Working` says how old the
state and the time are that a task acts upon: what it deletes is over, what it sets or
prolongs ends in the future.  `Satisfied` says that who has been answered is done, so
nobody is answered twice.  `Earned` is needed for `OnlyRaidersAreBanned`: `enableRaid`
answers "already active" to a caller who has read an inactive state, and the ban that
follows is right only because a state that appeared in between was a raid that was on.
The proof shows first that every step leaves the raid mode, ends it, or sets an end
that is still to come (`RaidChanges`), then what the acting task knows, then that the
others lose nothing.  `Refinement` reads every step as one of `RaidMode`.

**Warnings.**  `WarnInvariant` is `LocksAgree` (the holder of the mutex is the one warning of
that user between lock and unlock, the holder of the chat's lock is about to save),
`TasksAgree` (what a warning has read under its locks is still so: nobody else can raise the
count), `RowsAgree` (the row, the tally and a missing row belong together) and
`SettingsAgree`: settings of the current version are those of the row, in the cache and in
every warning, and settings of no version are the defaults of a read that failed.  The
last is what `LimitsAreActedOn` needs: who is judged by the row as it is and stays
below its limit leaves the count below the limit.

**Shutdown.**  `DownInvariant`: handlers are run one after the other (`OneByOne`), act when
it is their turn (`HandlersAct`), and each that was in time has left nothing behind
(`IntakeLeavesNothing`, `ChecksLeaveNothing`, `WritesLeaveNothing`); a check belongs to an update
that is being handled until it is queued (`CheckInUpdate`), and those ahead of the
flag go on (`AheadGoesOn`); main returns only after the intake has stopped, so no accepted
update is left (`ExitKnown`).  The order of the stages is what makes it inductive: a
check is counted only by an update, and the intake was stopped before.

**Migrations.**  `MigInvariant` adds to `SchemaIsWhole` what a replica knows of the files it
has walked past, although others write rows meanwhile, and that an empty file is never
recorded.  For once, in order and recorded, the advisory lock plays no part: the primary
key and the transaction suffice.  For the checksums it does (`Alone`): as long as every
replica has the lock while it works, only one stands between the read and the update of an
empty checksum, so `overwritten` stays empty (`OverwrittenUnlocked`).  `LifecycleTyped` carries both type invariants into the combined run.

**Commands.**  The proofs do not enumerate handlers.  `CommandsInvariant`, for *any*
handlers: what is to do is the end of the handler's course; every check before it that
said yes still says so of what its subject has been (`held`) or has been throughout
(`kept`); what was due before has been done by the giver; ranks make sense; the rights to be
handed on are the bot's and the giver's.  Then a *discipline* that can be read off a course -
`AsksGiver`, `AsksKeeper`, `AsksReader` (a check that vouches for the right comes before the
call, write or disclosure that needs it), `AsksBot`, `AsksTarget`, `TellsLast`, `DropsKeys`,
`DropsList` - is proved to be enough for the five properties, for every course, beginning and
number of troubles.  TLC checks that the bot's two hundred handlers keep it
(`TakesUpDisciplined`), and the five properties directly besides.  A new handler has to be checked
against the discipline only.

**Only model-checked:** the liveness properties `ChallengeEnds`, `ScheduleEnds`,
`StaleEnds`, `ReadsEnd`, `RaidEnds`, `WarningsEnd`, `ShutdownEnds`, `StartEnds` and `MessagesEnd`
(liveness under fairness, and `ENABLED`, are out of the prover's reach);
`TakesUpDisciplined`, which is a statement about the two hundred handlers and nothing else; and
the two violations.

**Only proved:** `LoaderInvariant`, `AdminInvariant` and `LifecycleTypeOK`, which no run lists any
more.  TLC agreed with each before it was proved; to see it again, add the name to the
`INVARIANTS` of `cache_shared.cfg` or `lifecycle.cfg`.

## 6. What is not modelled

Within the modelled components:

- *Captcha:* the picture and the answer (right or wrong is a choice), deletion of
  messages, messages stored for a pending user, errors of the database, answers
  lost on their way from Telegram, a change of the failure action or of the limit
  during a challenge, `/unapprove`, and the mode (arithmetic or text).
- *Cache loader:* running without Redis, encoding, a command that Redis carries out only
  after its client has given it up, and a crash between the commit
  of a write and its `DeleteCache` - the model's writer always arrives there, which
  is the assumption behind `StaleIsDoomed`.
- *Admin cache:* running without Redis, a crash between a store and the second comparison
  (the old list then stays for its half hour), Redis answering with an older value than it
  holds, the two questions to Telegram (about the bot and about the administrators) as
  steps of their own, and who is on a list.  An asker whose flight was overtaken takes what
  Redis has, without a further comparison; of that answer `OldListIsDoomed` speaks, and
  `AnswersAreCurrent` does not.
- *Antiflood:* the Telegram calls of a punishment (they change no state of the
  bot), `/setfloodmode`, `/delflood`, and the messages that never reach the counter
  (anonymous administrators, albums, channels).
- *Anti-raid:* the fallback to the memory of one process when there is no Redis
  (serialised by a mutex), `/raidactiontime` (how long a ban lasts), the default row
  an unreadable settings row is replaced by, answers of Redis lost on their way, and
  the limits of a duration (`parseDuration`).
- *Warnings:* the texts of replies, and the statistics that other modules read.
- *Shutdown:* the handlers that only stop a timer or close a client, and the wiring of
  main.  *AI filter:* the breaker of a chat, the request and the reading of the verdict.
- *Migrations:* how a file is split into statements and adapted to PostgreSQL.
- *Commands:* texts, parsing of targets and durations, identities that are channels,
  the ends of temporary punishments (Telegram keeps them), two handlers at the same time,
  roles in a federation that change while a command runs, limits on the number of rows,
  the marks of `/purgefrom`, the format of exported files, the generations of the
  administrators' list (they are in `AdminCache`), and the matching of filters, blacklists
  and locks.  A command
  through a connection is checked once more than the code does when its first look-up has
  verified the giver's administration already.

The components without a module - tracking of users, chats and channels, the keyword matcher,
help and formatting, monitoring, encodings, translations and configuration, error handling and
tracing - keep no state another actor could find in the wrong order; `PROJECT.json` gives
the reason for each.

## 7. Noticed while modelling

Places where the code does something a reader may not expect, found while reading it for the
models and not stated by a property:

- A right captcha answer is accepted between the last permitted wrong answer and its
  punishment: the statement that completes an attempt does not look at the count
  (captcha repository.go:362).
- A replica that finds as many applied rows as it has files verifies no checksum
  (runner.go:87), although the documentation says a changed file stops the start
  (`self-hosting/database.md:75`); `DoneIsVerified` therefore excludes such a start (`brief`).
- The comment that nothing can start after the AI drain returns (aispam.go:413) is true when
  the intake stopped in time only; entries of the breaker are removed by a success alone
  (aispam.go:491), and a redelivered message is observed twice.
- The cache loader does not compare the generations again after a `Set` that returned an
  error, although it may have stored (loader.go:127); `StaleIsDoomed` excepts it (`lost`).
- Polling, the process may end before the AI drain, the writes and the database close
  (main.go:302), although the comment on `usersAsyncWG` says that writes are tracked "so shutdown
  can drain in-flight DB writes before db.Close()" (users.go:65); `ExitLosesNothing` promises
  no more than the updates then.
- Two replicas of different versions that run without the lock may both fill in an empty
  checksum (runner.go:220): the first has then accepted contents the second overwrites.
- `restrictedCache.go:131`: the mark is compared and removed in separate steps.
- `ClearAdminCache` raises the generation before it forgets the flight (adminCache.go:235).  Who
  asks between the two notes the new generation, joins the flight of before, and believes a list
  that predates the change, in spite of "instead of trusting stale" (adminCache.go:41);
  `AnswersAreCurrent` excepts these (`behind`).
- Limits are compared with a cached or earlier count before the row is written: federation
  subscriptions (federations repository.go:599), filters (filters.go:78).  `SetFlood` compares with the
  cached row, `SendWelcomeMessage` (greetings.go:656) and `/purgefrom` (purges.go:319) read and
  store in two steps, and two `/save` of one note (notes.go:110) may overtake each other.
- The button of `/delfed` deletes the federation its presser owns by then (federations.go:1160).
- Import and clearing of warnings collect the users before they delete the rows
  (db/backup/backup.go:835, 1060); import and reset leave pending captcha challenges alone
  (db/backup/backup.go:634, 976).
- `setLogCategories` reports success after a failed save (logchannels.go:182).
- The token of an overwrite button is consumed before its presser is compared (notes.go:523,
  filters.go:514).
- `checkWarnSettings` swallows an error of the database (warns repository.go:47): the default
  limit of 3 is cached and counts, and a chat with a lower limit misses a punishment.
- `/lock`, `/unlock`, `/reports`, `/privnote`, `/welcome on|off` and the overwriting of a note or a
  filter are refused when given through a connection.
