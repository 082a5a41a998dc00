-------------------------------- MODULE Captcha --------------------------------
(* The captcha challenge of one user in one chat: alita/modules/captcha.go, the   *)
(* join and leave handlers of greetings.go and the approval command that touch    *)
(* it, over the tables of CaptchaStore.                                           *)
(*                                                                                *)
(* Telegram delivers updates to concurrent dispatcher goroutines, so a handler    *)
(* is a sequence of actions, one for each database transaction or Telegram call,  *)
(* and everything else may happen between two of them.  The goroutines of the     *)
(* process live in memory: a crash loses them all, and the next start runs the    *)
(* recovery pass over the tables before any update is served.                     *)
EXTENDS CaptchaStore

CONSTANTS Clicker,        \* concurrent captcha_verify callbacks
          Refresher,      \* concurrent captcha_refresh callbacks
          FailureAction,  \* captcha_settings.failure_action
          Commands,       \* the administrator's commands the model includes
          Orders,         \* bound: how many of them are given
          JoinUpdates,    \* updates announcing one join: chat_member, service message
          Joins,          \* bound: how often the user joins
          FaultyCalls,    \* the Telegram calls that may fail
          Faults,         \* bound: how many of them fail
          Crashes,        \* bound: how often the process crashes
          Prompt          \* no handler is slower than the timeouts of minutes and hours

ASSUME CaptchaAssumption ==
    /\ FailureAction \in {"kick", "ban", "mute"}
    /\ Commands \subseteq {"disable", "enable", "approve"}
    /\ FaultyCalls \subseteq {"mute", "unmute", "send", "punish"}
    /\ Prompt \in BOOLEAN
    /\ Orders \in Nat /\ JoinUpdates \in Nat /\ Joins \in Nat /\ Faults \in Nat /\ Crashes \in Nat

VARIABLES
    member,       \* Telegram: the user in the chat
    leftUpdates,  \* Telegram: leave updates not yet handled
    joinUpdates,  \* Telegram: join updates not yet handled
    joinsLeft,    \* bound on member's joins
    faults,       \* bound on failing calls
    crashes,      \* bound on crashes
    orders,       \* bound on commands
    enabled,      \* captcha_settings.enabled
    seen,         \* what the settings cache answers for it
    approved,     \* the user is approved in the chat
    up,           \* the process: down, recovering, serving
    recent,       \* recentJoinProcessing holds the user's claim
    admitting,    \* join handlers past their claim, before they read the settings
    preparing,    \* join handlers that found captcha on and draw the picture
    send,         \* SendCaptcha of each challenge
    timer,        \* scheduleCaptchaTimeout of each challenge
    claim,        \* what the goroutine that deleted a challenge's row still does
    sweep,        \* the recovery pass, later the cleanup worker
    unmuter,      \* the unmute worker
    click, refr,  \* the callbacks
    left,         \* leftMember
    approver,     \* approveUser
    admin,        \* captchaCommand on | off
    cooling       \* the refresh cooldown key is in Redis

telegram == <<member, leftUpdates>>
joining  == <<joinUpdates, joinsLeft, recent, admitting, preparing>>
settings == <<enabled, seen, approved, orders>>
system   == <<up, crashes>>
workers  == <<timer, sweep, unmuter>>
handlers == <<click, refr, left, approver, admin>>
vars == <<store, telegram, joining, faults, settings, system, send, claim, workers, handlers, cooling>>

At(pc)      == [pc |-> pc, id |-> 0, msg |-> 0, ref |-> 0]
AtRow(pc)   == [pc |-> pc, id |-> row.id, msg |-> row.msg, ref |-> row.ref]
Held(job)   == [id |-> job.id, msg |-> job.msg, ref |-> job.ref]
Job(pcs)    == [pc : pcs, id : 0..LastId, msg : Nat, ref : Nat]
Restoring   == {"unmute", "release", "rearm", "clear"}
SendPC      == {"none", "mute", "drop", "post", "rollback", "record", "done"}
ClaimPC     == {"none", "done", "punish", "store mute", "mute", "undo mute"} \cup Restoring
Timer       == [pc : {"off", "armed", "release", "punish"}, ref : Nat]
SweepJob    == Job({"idle", "recover", "release", "punish"})
UnmuterJob  == [pc : {"idle", "unmute", "remove", "gone", "reload", "remute"}, at : Nat]
ClickJob    == Job({"idle", "right", "wrong", "reload", "punish"})
RefreshJob  == Job({"idle", "swap", "cool"})
LeftJob     == Job({"idle", "read", "delete", "clear"})
ApproverJob == Job({"idle", "read", "release"})
AdminPC     == {"idle", "uncache", "list", "list muted", "claim"} \cup Restoring
AdminJob    == [pc : AdminPC, id : 0..LastId, listed : BOOLEAN]

TelegramTypeOK == member \in {"out", "free", "muted", "banned"} /\ leftUpdates \in Nat /\ faults \in Nat
JoiningTypeOK  == /\ joinUpdates \in Nat /\ joinsLeft \in Nat /\ recent \in BOOLEAN
                  /\ admitting \in Nat /\ preparing \in Nat
SettingsTypeOK == enabled \in BOOLEAN /\ seen \in BOOLEAN /\ approved \in BOOLEAN /\ orders \in Nat
SystemTypeOK   == up \in {"down", "recovering", "serving"} /\ crashes \in Nat
WorkersTypeOK  == /\ timer \in [Attempt -> Timer]
                  /\ sweep \in SweepJob
                  /\ unmuter \in UnmuterJob
HandlersTypeOK == /\ click \in [Clicker -> ClickJob]
                  /\ refr \in [Refresher -> RefreshJob]
                  /\ left \in LeftJob
                  /\ approver \in ApproverJob
                  /\ admin \in AdminJob

TypeOK == /\ StoreTypeOK /\ TelegramTypeOK /\ JoiningTypeOK /\ SettingsTypeOK /\ SystemTypeOK
          /\ WorkersTypeOK /\ HandlersTypeOK
          /\ send \in [Attempt -> SendPC]
          /\ claim \in [Attempt -> ClaimPC]
          /\ cooling \in BOOLEAN

Idle       == At("idle")
NoTimer    == [pc |-> "off", ref |-> 0]
NoTask(S)  == [x \in S |-> "none"]
AdminIdle  == [pc |-> "idle", id |-> 0, listed |-> FALSE]
UnmuteIdle == [pc |-> "idle", at |-> 0]

Init == /\ StoreInit
        /\ member = "out" /\ leftUpdates = 0 /\ joinUpdates = 0
        /\ joinsLeft = Joins /\ faults = Faults /\ crashes = Crashes /\ orders = Orders
        /\ enabled = TRUE /\ seen = TRUE /\ approved = FALSE
        /\ up = "serving" /\ cooling = FALSE /\ recent = FALSE /\ admitting = 0 /\ preparing = 0
        /\ send = NoTask(Attempt) /\ claim = NoTask(Attempt)
        /\ timer = [a \in Attempt |-> NoTimer]
        /\ sweep = Idle /\ unmuter = UnmuteIdle
        /\ click = [c \in Clicker |-> Idle] /\ refr = [f \in Refresher |-> Idle]
        /\ left = Idle /\ approver = Idle /\ admin = AdminIdle

--------------------------------------------------------------------------------
(* Telegram *)

InChat      == member \in {"free", "muted"}
Fails(call) == call \in FaultyCalls /\ faults > 0 /\ faults' = faults - 1
Works       == UNCHANGED faults

\* RestrictChatMember with MutedPermissions, answered.
Muted == InChat /\ Works /\ member' = "muted" /\ UNCHANGED leftUpdates

\* unmuteCaptchaUser: done, refused for good (isPermanentUnmuteError), or failed.
Unmuted     == InChat /\ Works /\ member' = "free" /\ UNCHANGED leftUpdates
UnmuteGone  == ~InChat /\ Works /\ UNCHANGED telegram
UnmuteFails == Fails("unmute") /\ UNCHANGED telegram

\* The user is out of the chat, which is an update of its own.
Removed(to) == /\ member' = to
               /\ leftUpdates' = leftUpdates + IF InChat THEN 1 ELSE 0

Join == /\ member = "out" /\ joinsLeft > 0
        /\ member' = "free"
        /\ joinsLeft' = joinsLeft - 1
        /\ joinUpdates' = joinUpdates + JoinUpdates
        /\ UNCHANGED <<store, leftUpdates, recent, admitting, preparing, faults, settings, system, send, claim,
                       workers, handlers, cooling>>

Leave == /\ InChat
         /\ Removed("out")
         /\ UNCHANGED <<store, joining, faults, settings, system, send, claim, workers, handlers, cooling>>

\* Prompt: the calls of one handler take less than the minutes before a challenge
\* expires, and much less than the 24 hours before a mute ends.
Clock == /\ \/ /\ Prompt => \A a \in Attempt : claim[a] \notin {"mute", "undo mute"}
               /\ ScheduleFallsDue
            \/ /\ Prompt => \A a \in Attempt : a = row.id => send[a] \in {"none", "done"}
               /\ ExpireAttempt
         /\ UNCHANGED <<telegram, joining, faults, settings, system, send, claim, workers, handlers, cooling>>

--------------------------------------------------------------------------------
(* Joining: newMember and cleanService of greetings.go *)

\* A read of the cached settings during an administrator's write may see either.
ReadEnabled == {enabled, seen}

\* The second update of a join, within recentJoinProcessTTL of the first.
IgnoreJoin == /\ up = "serving" /\ joinUpdates > 0 /\ recent
              /\ joinUpdates' = joinUpdates - 1
              /\ UNCHANGED <<store, telegram, joinsLeft, recent, admitting, preparing, faults, settings, system,
                             send, claim, workers, handlers, cooling>>

ClaimJoin == /\ up = "serving" /\ joinUpdates > 0 /\ ~recent
             /\ joinUpdates' = joinUpdates - 1
             /\ recent' = TRUE
             /\ admitting' = admitting + IF approved THEN 0 ELSE 1
             /\ UNCHANGED <<store, telegram, joinsLeft, preparing, faults, settings, system, send, claim,
                            workers, handlers, cooling>>

ForgetJoin == /\ recent
              /\ recent' = FALSE
              /\ UNCHANGED <<store, telegram, joinUpdates, joinsLeft, admitting, preparing, faults, settings,
                             system, send, claim, workers, handlers, cooling>>

\* SendCaptcha reads the cached settings: captcha is on, and the handler draws the
\* picture and looks the user up,
ReadSettings == /\ admitting > 0 /\ TRUE \in ReadEnabled
                /\ admitting' = admitting - 1
                /\ preparing' = preparing + 1
                /\ UNCHANGED <<store, telegram, joinUpdates, joinsLeft, recent, faults, settings, system, send, claim,
                               workers, handlers, cooling>>

\* or captcha is off, and the user is let in.
Admit == /\ admitting > 0 /\ FALSE \in ReadEnabled
         /\ admitting' = admitting - 1
         /\ UNCHANGED <<store, telegram, joinUpdates, joinsLeft, recent, preparing, faults, settings, system, send,
                        claim, workers, handlers, cooling>>

\* No challenge: GetChatMember fails, or the transaction finds captcha switched off.
Refuse == /\ preparing > 0
          /\ (~enabled /\ Works) \/ Fails("send")
          /\ preparing' = preparing - 1
          /\ UNCHANGED <<store, telegram, joinUpdates, joinsLeft, recent, admitting, settings, system, send, claim,
                         workers, handlers, cooling>>

ChallengeUnchecked ==
    /\ preparing > 0
    /\ CreateAttempt
    /\ send' = [send EXCEPT ![nextId] = "mute"]
    /\ preparing' = preparing - 1
    /\ UNCHANGED <<telegram, joinUpdates, joinsLeft, recent, admitting, faults, settings, system, claim,
                   workers, handlers, cooling>>

\* CreateCaptchaAttemptPreMessageIfEnabled, whose transaction reads enabled again.
Challenge == /\ preparing > 0 /\ enabled
             /\ CreateAttempt
             /\ send' = [send EXCEPT ![nextId] = "mute"]
             /\ preparing' = preparing - 1
             /\ UNCHANGED <<telegram, joinUpdates, joinsLeft, recent, admitting, faults, settings, system, claim,
                            workers, handlers, cooling>>

--------------------------------------------------------------------------------
(* SendCaptcha, once the row exists *)

StepSend(a, from, to) == send[a] = from /\ send' = [send EXCEPT ![a] = to]

MuteForCaptcha(a) ==
    /\ \/ StepSend(a, "mute", "post") /\ Muted
       \/ /\ StepSend(a, "mute", "drop") /\ UNCHANGED telegram
          /\ Fails("mute") \/ (~InChat /\ Works)
    /\ UNCHANGED <<store, joining, settings, system, claim, workers, handlers, cooling>>

\* The mute failed: the row goes without an unmute being scheduled.
DropCaptcha(a) ==
    /\ StepSend(a, "drop", "done")
    /\ DeleteByID(a) \/ (row.id # a /\ UNCHANGED store)
    /\ UNCHANGED <<telegram, joining, faults, settings, system, claim, workers, handlers, cooling>>

PostCaptcha(a) ==
    /\ \/ StepSend(a, "post", "record") /\ Works
       \/ StepSend(a, "post", "rollback") /\ Fails("send")
    /\ UNCHANGED <<store, telegram, joining, settings, system, claim, workers, handlers, cooling>>

\* UpdateCaptchaAttemptMessageID and scheduleCaptchaTimeout; a challenge taken in
\* the meantime has nothing left to roll back.
RecordCaptcha(a) ==
    /\ StepSend(a, "record", "done")
    /\ \/ /\ UpdateMessageID(a)
          /\ timer' = [timer EXCEPT ![a] = [pc |-> "armed", ref |-> 0]]
       \/ row.id # a /\ UNCHANGED <<store, timer>>
    /\ UNCHANGED <<telegram, joining, faults, settings, system, claim, sweep, unmuter, handlers, cooling>>

\* rollbackCaptchaAttempt: its release, then restoreCaptchaPermissions.
RollbackCaptcha(a) ==
    /\ StepSend(a, "rollback", "done")
    /\ \/ Release(a, "released") /\ claim' = [claim EXCEPT ![a] = "unmute"]
       \/ row.id # a /\ UNCHANGED <<store, claim>>
    /\ UNCHANGED <<telegram, joining, faults, settings, system, workers, handlers, cooling>>

--------------------------------------------------------------------------------
(* expireCaptchaAttempt, from a timer, from recovery or from the cleanup worker *)

\* An approved user, or one in a chat that no longer uses captcha, is released.
Verdict == IF approved THEN {"release"}
           ELSE {IF on THEN "punish" ELSE "release" : on \in ReadEnabled}

\* releaseIncompleteCaptchaAttempt or handleCaptchaTimeout: delete the row, and
\* go on only if this goroutine was the one to delete it.
Claim(a, verdict) ==
    \/ /\ Release(a, IF verdict = "punish" THEN "punished" ELSE "released")
       /\ claim' = [claim EXCEPT ![a] = IF verdict # "punish" THEN "release"
                                        ELSE IF FailureAction = "mute" THEN "store mute" ELSE "punish"]
    \/ row.id # a /\ UNCHANGED <<store, claim>>

SetTimer(a, pc) == timer' = [timer EXCEPT ![a] = IF pc = "off" THEN NoTimer ELSE [@ EXCEPT !.pc = pc]]

\* The timer of scheduleCaptchaTimeout goes off: a challenge refreshed since then
\* is left to the cleanup worker.
TimerFires(a) ==
    /\ timer[a].pc = "armed" /\ (row.id = a => row.expired)
    /\ IF row.id = a /\ row.ref = timer[a].ref
       THEN \E verdict \in Verdict : SetTimer(a, verdict)
       ELSE SetTimer(a, "off")
    /\ UNCHANGED <<store, telegram, joining, faults, settings, system, send, claim, sweep, unmuter,
                   handlers, cooling>>

TimerClaimsByUser(a) ==
    /\ timer[a].pc \in {"release", "punish"} /\ row.id # 0
    /\ Claim(row.id, timer[a].pc) /\ SetTimer(a, "off")
    /\ UNCHANGED <<telegram, joining, faults, settings, system, send, sweep, unmuter, handlers, cooling>>

TimerClaims(a) ==
    /\ timer[a].pc \in {"release", "punish"}
    /\ Claim(a, timer[a].pc) /\ SetTimer(a, "off")
    /\ UNCHANGED <<telegram, joining, faults, settings, system, send, sweep, unmuter, handlers, cooling>>

\* The worker is done with the challenge it claimed last.
SweepFree == sweep.pc = "idle" /\ \A a \in Attempt : a = sweep.id => claim[a] = "done"

SweepPicksUnrefreshed ==
    /\ up = "serving" /\ SweepFree /\ row.expired /\ row.ref = 0
    /\ \E verdict \in IF row.msg > 0 THEN Verdict ELSE {"release"} : sweep' = AtRow(verdict)
    /\ UNCHANGED <<store, telegram, joining, faults, settings, system, send, claim, timer, unmuter,
                   handlers, cooling>>

\* cleanupExpiredCaptchaAttempts picks the expired row ...
SweepPicks ==
    /\ up = "serving" /\ SweepFree /\ row.expired
    /\ \E verdict \in IF row.msg > 0 THEN Verdict ELSE {"release"} : sweep' = AtRow(verdict)
    /\ UNCHANGED <<store, telegram, joining, faults, settings, system, send, claim, timer, unmuter,
                   handlers, cooling>>

SweepClaims ==
    /\ sweep.pc \in {"release", "punish"}
    /\ Claim(sweep.id, sweep.pc)
    /\ sweep' = [Idle EXCEPT !.id = IF row.id = sweep.id THEN row.id ELSE 0]
    /\ UNCHANGED <<telegram, joining, faults, settings, system, send, timer, unmuter, handlers, cooling>>

\* ... and runOrphanedCaptchaRecovery any row: a live challenge gets a timer again.
RecoveryPicks ==
    /\ sweep.pc = "recover"
    /\ IF row.id # 0 /\ row.msg > 0 /\ ~row.expired
       THEN /\ timer' = [timer EXCEPT ![row.id] = [pc |-> "armed", ref |-> row.ref]]
            /\ sweep' = Idle
       ELSE /\ \E verdict \in IF row.id = 0 THEN {"idle"}
                              ELSE IF row.msg > 0 THEN Verdict ELSE {"release"} : sweep' = AtRow(verdict)
            /\ UNCHANGED timer
    /\ UNCHANGED <<store, telegram, joining, faults, settings, system, send, claim, unmuter, handlers, cooling>>

\* StartCaptchaLifecycle returns: the workers start and updates are served.
RecoveryEnds ==
    /\ up = "recovering" /\ SweepFree
    /\ up' = "serving"
    /\ UNCHANGED <<store, telegram, joining, faults, settings, crashes, send, claim, workers, handlers, cooling>>

--------------------------------------------------------------------------------
(* What follows a claim *)

StepClaim(a, from, to) == claim[a] = from /\ claim' = [claim EXCEPT ![a] = to]

\* executeCaptchaFailureAction for kick and ban.  A failed kick is followed by a
\* second unban, which may still remove the user.
Punish(a) ==
    /\ LET gone == IF FailureAction = "ban" THEN "banned" ELSE "out" IN
       \/ StepClaim(a, "punish", "clear") /\ Works /\ Removed(gone)
       \/ /\ StepClaim(a, "punish", "unmute") /\ Fails("punish")
          /\ UNCHANGED telegram \/ (FailureAction = "kick" /\ Removed(gone))
    /\ UNCHANGED <<store, joining, settings, system, send, workers, handlers, cooling>>

\* For mute: the unmute in 24 hours is stored before the user is muted.
StoreMute(a) ==
    /\ StepClaim(a, "store mute", "mute") /\ CreateMutedUser(FALSE)
    /\ UNCHANGED <<attemptTable, telegram, joining, faults, settings, system, send, workers, handlers, cooling>>

CallMute(a) ==
    /\ \/ StepClaim(a, "mute", "done") /\ Muted
       \/ /\ StepClaim(a, "mute", "undo mute") /\ UNCHANGED telegram
          /\ Fails("punish") \/ (~InChat /\ Works)
    /\ UNCHANGED <<store, joining, settings, system, send, workers, handlers, cooling>>

UndoMute(a) ==
    /\ StepClaim(a, "undo mute", "unmute") /\ DeleteMutedUser
    /\ UNCHANGED <<attemptTable, telegram, joining, faults, settings, system, send, workers, handlers, cooling>>

\* restoreCaptchaPermissions: any failure schedules another try.
RestoreClaimed(a) ==
    /\ \/ StepClaim(a, "unmute", "clear") /\ Unmuted
       \/ StepClaim(a, "unmute", "rearm") /\ (UnmuteGone \/ UnmuteFails)
    /\ UNCHANGED <<store, joining, settings, system, send, workers, handlers, cooling>>

RearmClaimed(a) ==
    /\ StepClaim(a, "rearm", "done") /\ CreateMutedUser(TRUE)
    /\ UNCHANGED <<attemptTable, telegram, joining, faults, settings, system, send, workers, handlers, cooling>>

\* releaseIncompleteCaptchaAttempt: after a transient failure the schedule that
\* the claim wrote stays for the unmute worker.
ReleaseClaimed(a) ==
    /\ \/ StepClaim(a, "release", "clear") /\ (Unmuted \/ UnmuteGone)
       \/ StepClaim(a, "release", "done") /\ UnmuteFails
    /\ UNCHANGED <<store, joining, settings, system, send, workers, handlers, cooling>>

ClearClaimed(a) ==
    /\ StepClaim(a, "clear", "done") /\ DeleteMutedUser
    /\ UNCHANGED <<attemptTable, telegram, joining, faults, settings, system, send, workers, handlers, cooling>>

--------------------------------------------------------------------------------
(* captchaVerifyCallback *)

\* A keyboard carries its challenge's id and refresh count; a button is answered
\* only if both are those of the live row.  The message may be in the chat before
\* its id is recorded.
Answerable == /\ up = "serving" /\ row.id # 0 /\ ~row.expired
              /\ send[row.id] \notin {"mute", "drop", "post", "rollback"}

SetClick(c, pc) == click' = [click EXCEPT ![c] = IF pc = "idle" THEN Idle ELSE [@ EXCEPT !.pc = pc]]

PressButton(c) ==
    /\ click[c].pc = "idle" /\ Answerable
    /\ \E answer \in {"right", "wrong"} : click' = [click EXCEPT ![c] = AtRow(answer)]
    /\ UNCHANGED <<store, telegram, joining, faults, settings, system, send, claim, workers, refr, left,
                   approver, admin, cooling>>

RightAnswer(c) ==
    /\ click[c].pc = "right" /\ SetClick(c, "idle")
    /\ \/ /\ Complete(Held(click[c]))
          /\ claim' = [claim EXCEPT ![click[c].id] = "unmute"]
       \/ ~Unchanged(Held(click[c])) /\ UNCHANGED <<store, claim>>
    /\ UNCHANGED <<telegram, joining, faults, settings, system, send, workers, refr, left, approver, admin,
                   cooling>>

WrongAnswer(c) ==
    /\ click[c].pc = "wrong"
    /\ \/ IncrementAttempts(Held(click[c])) /\ SetClick(c, "reload")
       \/ ~Unchanged(Held(click[c])) /\ SetClick(c, "idle") /\ UNCHANGED store
    /\ UNCHANGED <<telegram, joining, faults, settings, system, send, claim, workers, refr, left, approver,
                   admin, cooling>>

CountWrongEarly(c) ==
    /\ click[c].pc = "reload"
    /\ SetClick(c, IF row.id = click[c].id /\ row.wrong + 1 >= MaxWrong THEN "punish" ELSE "idle")
    /\ UNCHANGED <<store, telegram, joining, faults, settings, system, send, claim, workers, refr, left,
                   approver, admin, cooling>>

\* IncrementCaptchaAttempts reads the row again before it is compared with MaxWrong.
CountWrong(c) ==
    /\ click[c].pc = "reload"
    /\ SetClick(c, IF row.id = click[c].id /\ row.wrong >= MaxWrong THEN "punish" ELSE "idle")
    /\ UNCHANGED <<store, telegram, joining, faults, settings, system, send, claim, workers, refr, left,
                   approver, admin, cooling>>

LastWrong(c) ==
    /\ click[c].pc = "punish" /\ SetClick(c, "idle")
    /\ Claim(click[c].id, "punish")
    /\ UNCHANGED <<telegram, joining, faults, settings, system, send, workers, refr, left, approver, admin,
                   cooling>>

--------------------------------------------------------------------------------
(* captchaRefreshCallback *)

SetRefresh(f, pc) == refr' = [refr EXCEPT ![f] = IF pc = "idle" THEN Idle ELSE [@ EXCEPT !.pc = pc]]

PressRefresh(f) ==
    /\ refr[f].pc = "idle" /\ Answerable /\ ~cooling /\ row.ref < MaxRefreshes
    /\ refr' = [refr EXCEPT ![f] = AtRow("swap")]
    /\ UNCHANGED <<store, telegram, joining, faults, settings, system, send, claim, workers, click, left,
                   approver, admin, cooling>>

\* The new picture is in the chat; it counts only if the row is still as read.
SwapCaptcha(f) ==
    /\ refr[f].pc = "swap"
    /\ \/ UpdateOnRefresh(Held(refr[f])) /\ SetRefresh(f, "cool") /\ Works
       \/ /\ UNCHANGED store /\ SetRefresh(f, "idle")
          /\ Fails("send") \/ (~Unchanged(Held(refr[f])) /\ Works)
    /\ UNCHANGED <<telegram, joining, settings, system, send, claim, workers, click, left, approver, admin,
                   cooling>>

StartCooldown(f) ==
    /\ refr[f].pc = "cool" /\ SetRefresh(f, "idle") /\ cooling' = TRUE
    /\ UNCHANGED <<store, telegram, joining, faults, settings, system, send, claim, workers, click, left,
                   approver, admin>>

CooldownEnds ==
    /\ cooling /\ cooling' = FALSE
    /\ UNCHANGED <<store, telegram, joining, faults, settings, system, send, claim, workers, handlers>>

--------------------------------------------------------------------------------
(* leftMember, one at a time *)

LeftArrivesAgain ==
    /\ up = "serving" /\ left.pc = "idle"
    /\ leftUpdates' = leftUpdates - 1
    /\ recent' = FALSE
    /\ left' = At("read")
    /\ UNCHANGED <<store, member, joinUpdates, joinsLeft, admitting, preparing, faults, settings, system, send, claim,
                   workers, click, refr, approver, admin, cooling>>

LeftArrives ==
    /\ up = "serving" /\ leftUpdates > 0 /\ left.pc = "idle"
    /\ leftUpdates' = leftUpdates - 1
    /\ recent' = FALSE
    /\ left' = At("read")
    /\ UNCHANGED <<store, member, joinUpdates, joinsLeft, admitting, preparing, faults, settings, system, send, claim,
                   workers, click, refr, approver, admin, cooling>>

\* GetCaptchaAttemptIncludingExpired: the row may be that of a later join.
LeftReads ==
    /\ left.pc = "read"
    /\ left' = AtRow(IF row.id = 0 THEN "clear" ELSE "delete")
    /\ UNCHANGED <<store, telegram, joining, faults, settings, system, send, claim, workers, click, refr,
                   approver, admin, cooling>>

LeftDeletes ==
    /\ left.pc = "delete"
    /\ DeleteByID(left.id) \/ (row.id # left.id /\ UNCHANGED store)
    /\ left' = At("clear")
    /\ UNCHANGED <<telegram, joining, faults, settings, system, send, claim, workers, click, refr, approver,
                   admin, cooling>>

LeftClears ==
    /\ left.pc = "clear" /\ left' = Idle /\ DeleteMutedUser
    /\ UNCHANGED <<attemptTable, telegram, joining, faults, settings, system, send, claim, workers, click, refr,
                   approver, admin, cooling>>

--------------------------------------------------------------------------------
(* approveUser *)

ApproveUser ==
    /\ "approve" \in Commands /\ up = "serving" /\ ~approved
    /\ orders > 0 /\ orders' = orders - 1
    /\ approved' = TRUE
    /\ approver' = At("read")
    /\ UNCHANGED <<store, telegram, joining, faults, enabled, seen, system, send, claim, workers, click, refr,
                   left, admin, cooling>>

ApproverReads ==
    /\ approver.pc = "read"
    /\ approver' = AtRow(IF row.id = 0 THEN "idle" ELSE "release")
    /\ UNCHANGED <<store, telegram, joining, faults, settings, system, send, claim, workers, click, refr, left,
                   admin, cooling>>

ApproverReleases ==
    /\ approver.pc = "release" /\ approver' = Idle
    /\ Claim(approver.id, "release")
    /\ UNCHANGED <<telegram, joining, faults, settings, system, send, workers, click, refr, left, admin, cooling>>

--------------------------------------------------------------------------------
(* captchaCommand on | off, and disableCaptchaForChat *)

StepAdmin(from, to) ==
    admin.pc = from /\ admin' = IF to \in {"idle", "uncache"} THEN [AdminIdle EXCEPT !.pc = to]
                                ELSE [admin EXCEPT !.pc = to]

SetCaptchaEnabled(on) ==
    /\ (IF on THEN "enable" ELSE "disable") \in Commands
    /\ up = "serving" /\ enabled # on
    /\ orders > 0 /\ orders' = orders - 1
    /\ StepAdmin("idle", "uncache")
    /\ enabled' = on
    /\ UNCHANGED <<store, telegram, joining, faults, seen, approved, system, send, claim, workers, click, refr,
                   left, approver, cooling>>

DeleteSettingsCache ==
    /\ StepAdmin("uncache", IF enabled THEN "idle" ELSE "list")
    /\ seen' = enabled
    /\ UNCHANGED <<store, telegram, joining, faults, enabled, approved, orders, system, send, claim, workers,
                   click, refr, left, approver, cooling>>

DisableLists ==
    /\ \/ /\ admin.pc = "list"
          /\ admin' = [admin EXCEPT !.pc = "list muted", !.id = row.id]
       \/ /\ admin.pc = "list muted"
          /\ admin' = [admin EXCEPT !.pc = "claim", !.listed = (sched.at # 0)]
    /\ UNCHANGED <<store, telegram, joining, faults, settings, system, send, claim, workers, click, refr, left,
                   approver, cooling>>

\* The users to restore are those whose row this handler deleted and those listed.
DisableClaims ==
    /\ admin.pc = "claim"
    /\ \/ /\ admin.id # 0 /\ Release(admin.id, "released")
          /\ claim' = [claim EXCEPT ![admin.id] = "done"]
          /\ StepAdmin("claim", "unmute")
       \/ /\ admin.id = 0 \/ row.id # admin.id
          /\ StepAdmin("claim", IF admin.listed THEN "unmute" ELSE "idle")
          /\ UNCHANGED <<store, claim>>
    /\ UNCHANGED <<telegram, joining, faults, settings, system, send, workers, click, refr, left, approver,
                   cooling>>

DisableUnmutes ==
    /\ \/ StepAdmin("unmute", "clear") /\ Unmuted
       \/ StepAdmin("unmute", "rearm") /\ (UnmuteGone \/ UnmuteFails)
    /\ UNCHANGED <<store, joining, settings, system, send, claim, workers, click, refr, left, approver, cooling>>

DisableStores ==
    /\ \/ StepAdmin("clear", "idle") /\ DeleteMutedUser
       \/ StepAdmin("rearm", "idle") /\ CreateMutedUser(TRUE)
    /\ UNCHANGED <<attemptTable, telegram, joining, faults, settings, system, send, claim, workers, click, refr,
                   left, approver, cooling>>

\* CacheTTLCaptchaSettings ends the life of an entry a crash left behind.
SettingsExpire ==
    /\ seen # enabled /\ seen' = enabled
    /\ UNCHANGED <<store, telegram, joining, faults, enabled, approved, orders, system, send, claim, workers,
                   handlers, cooling>>

--------------------------------------------------------------------------------
(* unmuteExpiredCaptchaUsers *)

StepUnmuter(from, to) ==
    unmuter.pc = from /\ unmuter' = IF to = "idle" THEN UnmuteIdle ELSE [unmuter EXCEPT !.pc = to]

UnmuterPicks ==
    /\ up = "serving" /\ unmuter.pc = "idle" /\ sched.due
    /\ unmuter' = [pc |-> "unmute", at |-> sched.at]
    /\ UNCHANGED <<store, telegram, joining, faults, settings, system, send, claim, timer, sweep, handlers,
                   cooling>>

UnmuterUnmutes ==
    /\ \/ StepUnmuter("unmute", "remove") /\ Unmuted
       \/ StepUnmuter("unmute", "gone") /\ UnmuteGone
       \/ StepUnmuter("unmute", "idle") /\ UnmuteFails
    /\ UNCHANGED <<store, joining, settings, system, send, claim, timer, sweep, handlers, cooling>>

UnmuterKeepsGone ==
    /\ unmuter.pc \in {"remove", "gone"}
    /\ \/ /\ DeleteMutedUserIfUnchanged(unmuter.at) /\ unmuter.pc = "remove"
          /\ unmuter' = UnmuteIdle
       \/ /\ UNCHANGED muteTable
          /\ StepUnmuter("gone", "idle") \/ (sched.at # unmuter.at /\ StepUnmuter("remove", "reload"))
    /\ UNCHANGED <<attemptTable, telegram, joining, faults, settings, system, send, claim, timer, sweep, handlers,
                   cooling>>

\* DeleteMutedUserIfUnchanged
UnmuterRemoves ==
    /\ unmuter.pc \in {"remove", "gone"}
    /\ \/ DeleteMutedUserIfUnchanged(unmuter.at) /\ unmuter' = UnmuteIdle
       \/ /\ sched.at # unmuter.at /\ UNCHANGED muteTable
          /\ StepUnmuter("gone", "idle") \/ StepUnmuter("remove", "reload")
    /\ UNCHANGED <<attemptTable, telegram, joining, faults, settings, system, send, claim, timer, sweep, handlers,
                   cooling>>

UnmuterReloadsNothing ==
    /\ StepUnmuter("reload", "idle")
    /\ UNCHANGED <<store, telegram, joining, faults, settings, system, send, claim, timer, sweep, handlers, cooling>>

\* GetMutedUser: was a later unmute stored meanwhile?
UnmuterReloads ==
    /\ StepUnmuter("reload", IF sched.at > unmuter.at THEN "remute" ELSE "idle")
    /\ UNCHANGED <<store, telegram, joining, faults, settings, system, send, claim, timer, sweep, handlers, cooling>>

\* If so, the user is muted again.
UnmuterRemutes ==
    /\ StepUnmuter("remute", "idle")
    /\ Muted \/ ((Fails("mute") \/ (~InChat /\ Works)) /\ UNCHANGED telegram)
    /\ UNCHANGED <<store, joining, settings, system, send, claim, timer, sweep, handlers, cooling>>

--------------------------------------------------------------------------------
(* The process *)

\* Every goroutine is lost, and with them what they had read.
Crash ==
    /\ up # "down" /\ crashes > 0
    /\ up' = "down" /\ crashes' = crashes - 1
    /\ recent' = FALSE /\ admitting' = 0 /\ preparing' = 0
    /\ send' = NoTask(Attempt) /\ claim' = NoTask(Attempt)
    /\ timer' = [a \in Attempt |-> NoTimer]
    /\ sweep' = Idle /\ unmuter' = UnmuteIdle
    /\ click' = [c \in Clicker |-> Idle] /\ refr' = [f \in Refresher |-> Idle]
    /\ left' = Idle /\ approver' = Idle /\ admin' = AdminIdle
    /\ UNCHANGED <<store, telegram, joinUpdates, joinsLeft, faults, settings, cooling>>

\* postInit: StartCaptchaLifecycle runs the recovery before updates are served.
Restart ==
    /\ up = "down"
    /\ up' = "recovering"
    /\ sweep' = At("recover")
    /\ UNCHANGED <<store, telegram, joining, faults, settings, crashes, send, claim, timer, unmuter, handlers,
                   cooling>>

--------------------------------------------------------------------------------
SendStep(a)  == \/ MuteForCaptcha(a) \/ DropCaptcha(a) \/ PostCaptcha(a)
                \/ RecordCaptcha(a) \/ RollbackCaptcha(a)
TimerStep(a) == TimerFires(a) \/ TimerClaims(a)
SweepStep    == SweepPicks \/ SweepClaims \/ RecoveryPicks \/ RecoveryEnds
ClaimStep(a) == \/ Punish(a) \/ StoreMute(a) \/ CallMute(a) \/ UndoMute(a)
                \/ RestoreClaimed(a) \/ RearmClaimed(a) \/ ReleaseClaimed(a) \/ ClearClaimed(a)
ClickStep(c) == RightAnswer(c) \/ WrongAnswer(c) \/ CountWrong(c) \/ LastWrong(c)
RefreshStep(f) == SwapCaptcha(f) \/ StartCooldown(f)
LeftStep     == LeftArrives \/ LeftReads \/ LeftDeletes \/ LeftClears
ApproverStep == ApproverReads \/ ApproverReleases
AdminStep    == \/ DeleteSettingsCache \/ DisableLists \/ DisableClaims
                \/ DisableUnmutes \/ DisableStores
UnmuterStep  == UnmuterPicks \/ UnmuterUnmutes \/ UnmuterRemoves \/ UnmuterReloads \/ UnmuterRemutes
JoinStep     == IgnoreJoin \/ ClaimJoin \/ ReadSettings \/ Admit \/ Refuse \/ Challenge

Next ==
    \/ Join \/ Leave \/ Clock \/ ForgetJoin \/ CooldownEnds \/ SettingsExpire
    \/ Crash \/ Restart \/ ApproveUser
    \/ JoinStep \/ SweepStep \/ LeftStep \/ ApproverStep \/ AdminStep \/ UnmuterStep
    \/ \E on \in BOOLEAN : SetCaptchaEnabled(on)
    \/ \E a \in Attempt : SendStep(a) \/ TimerStep(a) \/ ClaimStep(a)
    \/ \E c \in Clicker : PressButton(c) \/ ClickStep(c)
    \/ \E f \in Refresher : PressRefresh(f) \/ RefreshStep(f)

Spec == Init /\ [][Next]_vars

\* Goroutines that can run do run, the service manager restarts the process, and
\* time passes; nobody is obliged to join, leave, press a button or give a command.
FairSpec == /\ Spec
            /\ WF_vars(Clock) /\ WF_vars(Restart) /\ WF_vars(JoinStep) /\ WF_vars(SweepStep)
            /\ WF_vars(LeftStep) /\ WF_vars(ApproverStep) /\ WF_vars(AdminStep) /\ WF_vars(UnmuterStep)
            /\ \A a \in Attempt : WF_vars(SendStep(a)) /\ WF_vars(TimerStep(a)) /\ WF_vars(ClaimStep(a))
            /\ \A c \in Clicker : WF_vars(ClickStep(c))
            /\ \A f \in Refresher : WF_vars(RefreshStep(f))

--------------------------------------------------------------------------------
(* Properties *)

\* Whenever the user is muted by the bot, the tables say what is to become of it: a
\* challenge that can be answered or will expire, or a scheduled unmute.  A crash
\* at any moment therefore cannot leave the user muted for ever (the order of the
\* writes around every RestrictChatMember in captcha.go).
MuteIsRecorded == member = "muted" => row.id # 0 \/ sched.at # 0

\* Nothing is under way that could still change the user's fate.
Quiet == /\ up = "serving" /\ leftUpdates = 0 /\ joinUpdates = 0 /\ admitting + preparing = 0
         /\ \A a \in Attempt : /\ send[a] \in {"none", "done"} /\ claim[a] \in {"none", "done"}
                              /\ timer[a].pc = "off"
         /\ {sweep.pc, unmuter.pc, left.pc, approver.pc, admin.pc} = {"idle"}
         /\ \A c \in Clicker : click[c].pc = "idle"
         /\ \A f \in Refresher : refr[f].pc = "idle"

\* The unmute "retry path" of captcha_command_test.go: when all handlers are done,
\* no user is left "permanently muted with no retry path".
NoOneStranded == Quiet => MuteIsRecorded

\* A 24-hour mute that was applied is in force until its time comes, although the
\* row the claim wrote had already let the unmute worker start on the user.
MuteStands ==
    sched.at # 0 /\ ~sched.due /\ Quiet => member # "free"

\* The captcha_attempts table and what the goroutines remember of it agree: the row
\* is the one open challenge, a verdict to punish is only ever held against a row
\* that has expired or has used up its wrong answers, and no refresh under way
\* could exceed captchaMaxRefreshes.  (The inductive invariant of the refinement.)
TableAgrees ==
    /\ row.id = 0 => row = NoRow
    /\ row.id # 0 => row.id < nextId /\ outcome[row.id] = "pending"
    /\ \A a \in Attempt :
        /\ outcome[a] = "pending" => row.id = a
        /\ outcome[a] = "unborn" <=> a >= nextId
    /\ row.ref <= MaxRefreshes
TimersAgree ==
    \A a \in Attempt :
        /\ timer[a].pc # "off" => a < nextId
        /\ timer[a].pc = "punish" /\ row.id = a => row.expired
SweepAgrees ==
    sweep.pc = "punish" =>
        /\ sweep.id \in 1..(nextId - 1)
        /\ row.id = sweep.id => row.expired
ClicksAgree ==
    \A c \in Clicker : click[c].pc = "punish" =>
        /\ click[c].id \in 1..(nextId - 1)
        /\ row.id = click[c].id => row.wrong >= MaxWrong
RefreshesAgree == \A f \in Refresher : refr[f].pc = "swap" => refr[f].ref < MaxRefreshes
HandlersAgree == TableAgrees /\ TimersAgree /\ SweepAgrees /\ ClicksAgree /\ RefreshesAgree

\* Every challenge is issued, answered, refreshed, expired and closed as
\* CaptchaChallenge says, whatever handlers race for its row.
Abstract == INSTANCE CaptchaChallenge
            WITH status <- outcome,
                 open <- [id |-> row.id, ref |-> row.ref, wrong |-> row.wrong, expired |-> row.expired]
ImplementsChallenge == Abstract!Spec

\* Switching captcha off finalizes what is pending: once the command is over, no
\* challenge is left and none that was on its way appears (captchaCommand's off
\* branch against the second look CreateCaptchaAttemptPreMessageIfEnabled takes).
DisableIsFinal == ~enabled /\ admin.pc = "idle" => row.id = 0

\* No challenge stays open: it is answered, or its timer, the cleanup worker or the
\* recovery pass closes it, across crashes and failed calls.
ChallengeEnds == \A a \in Attempt : outcome[a] = "pending" ~> outcome[a] # "pending"

\* No scheduled unmute is forgotten: the unmute worker retries until it is done.
ScheduleEnds == sched.at # 0 ~> sched.at = 0
================================================================================
