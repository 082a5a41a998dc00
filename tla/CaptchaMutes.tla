------------------------------ MODULE CaptchaMutes -----------------------------
(* What becomes of a user the bot has muted, for every value of the constants:    *)
(* that switching captcha off leaves no challenge behind, that a mute of 24 hours *)
(* stands until its time comes, and that the tables record every mute of a first  *)
(* stay, so that no crash and no failing call leaves the user muted for ever.     *)
EXTENDS CaptchaProofs

USE DEF store, attemptTable, muteTable, telegram, joining, settings, system, workers, handlers

--------------------------------------------------------------------------------
(* Who touches what *)

\* What one step may do to captcha_muted_users.
MuteTableStep == \/ UNCHANGED muteTable
                 \/ \E now \in BOOLEAN : CreateMutedUser(now)
                 \/ DeleteMutedUser
                 \/ ScheduleFallsDue

\* What one step may do to the goroutines that follow a claim.
Takes == \E a \in Attempt, how \in {"verified", "punished", "released"}, pc \in ClaimPC :
            Release(a, how) /\ claim' = [claim EXCEPT ![a] = pc]

\* Only a handler that takes the row, the goroutine that follows a claim and a crash
\* touch claim; only the unmute worker and a crash touch unmuter.
LEMMA WhoClaims ==
    ASSUME TypeOK, HandlersAgree, Next
    PROVE  /\ UNCHANGED claim \/ Crash \/ Takes \/ \E a \in Attempt : ClaimStep(a)
           /\ UNCHANGED unmuter \/ Crash \/ UnmuterStep
           /\ MuteTableStep
<1>0. row.id \in 0..LastId /\ (row.id # 0 => row.id \in Attempt) /\ 0 \notin Attempt
  BY DEF TypeOK, StoreTypeOK, Row, Attempt
<1> DEFINE Quietly == UNCHANGED <<claim, unmuter, muteTable>>
<1>a. ASSUME NEW a \in 0..LastId, NEW verdict, Claim(a, verdict)
      PROVE  (UNCHANGED claim \/ Takes) /\ MuteTableStep
  <2>1. CASE UNCHANGED <<store, claim>>
    BY <2>1 DEF MuteTableStep
  <2>2. CASE ~UNCHANGED <<store, claim>>
    <3>1. Release(a, IF verdict = "punish" THEN "punished" ELSE "released") /\ CreateMutedUser(TRUE)
      BY <1>a, <2>2 DEF Claim, Release
    <3>2. CASE a \in Attempt
      <4>1. PICK pc \in {"release", "store mute", "punish"} : claim' = [claim EXCEPT ![a] = pc]
        BY <1>a, <2>2 DEF Claim
      <4> QED BY <3>1, <3>2, <4>1 DEF Takes, MuteTableStep, ClaimPC, Restoring
    <3>3. CASE a \notin Attempt
      <4>1. \A pc : [claim EXCEPT ![a] = pc] = claim
        BY <3>3 DEF TypeOK
      <4>2. claim' = claim
        BY <1>a, <2>2, <4>1 DEF Claim
      <4> QED BY <3>1, <4>2 DEF MuteTableStep
    <3> QED BY <3>2, <3>3
  <2> QED BY <2>1, <2>2
<1>1. CASE Clock
  BY <1>1 DEF Clock, ExpireAttempt, MuteTableStep
<1>2. CASE Join \/ Leave \/ ForgetJoin \/ CooldownEnds \/ SettingsExpire \/ Crash \/ Restart \/ ApproveUser
  BY <1>2 DEF Join, Leave, ForgetJoin, CooldownEnds, SettingsExpire, Crash, Restart, ApproveUser,
              MuteTableStep
<1>3. CASE JoinStep
  BY <1>3 DEF JoinStep, IgnoreJoin, ClaimJoin, ReadSettings, Admit, Refuse, Challenge, CreateAttempt,
              MuteTableStep
<1>4. ASSUME NEW a \in Attempt, SendStep(a)
      PROVE  (UNCHANGED claim \/ Takes) /\ UNCHANGED unmuter /\ MuteTableStep
  <2>1. CASE RollbackCaptcha(a)
    BY <2>1 DEF RollbackCaptcha, Release, Takes, MuteTableStep, ClaimPC, Restoring
  <2>2. CASE ~RollbackCaptcha(a)
    BY <1>4, <2>2 DEF SendStep, MuteForCaptcha, DropCaptcha, DeleteByID, PostCaptcha, RecordCaptcha,
                      UpdateMessageID, MuteTableStep
  <2> QED BY <2>1, <2>2
<1>5. ASSUME NEW a \in Attempt, TimerStep(a)
      PROVE  (UNCHANGED claim \/ Takes) /\ UNCHANGED unmuter /\ MuteTableStep
  <2>1. CASE TimerFires(a)
    BY <2>1 DEF TimerFires, MuteTableStep
  <2>2. CASE TimerClaims(a)
    BY <1>a, <2>2 DEF TimerClaims, Attempt
  <2> QED BY <1>5, <2>1, <2>2 DEF TimerStep
<1>6. CASE SweepStep
  <2>1. CASE SweepClaims
    BY <1>a, <2>1 DEF SweepClaims, TypeOK, WorkersTypeOK, SweepJob, Job
  <2>2. CASE SweepPicks \/ RecoveryPicks \/ RecoveryEnds
    BY <2>2 DEF SweepPicks, RecoveryPicks, RecoveryEnds, MuteTableStep
  <2> QED BY <1>6, <2>1, <2>2 DEF SweepStep
<1>7. ASSUME NEW a \in Attempt, ClaimStep(a) PROVE UNCHANGED unmuter /\ MuteTableStep
  BY <1>7
  DEF ClaimStep, Punish, StoreMute, CallMute, UndoMute, RestoreClaimed, RearmClaimed, ReleaseClaimed,
      ClearClaimed, MuteTableStep
<1>8. ASSUME NEW c \in Clicker, PressButton(c) \/ ClickStep(c)
      PROVE  (UNCHANGED claim \/ Takes) /\ UNCHANGED unmuter /\ MuteTableStep
  <2>0. click[c].id \in 0..LastId
    BY DEF TypeOK, HandlersTypeOK, ClickJob, Job
  <2>1. CASE RightAnswer(c)
    <3>1. click[c].id \in Attempt \/ UNCHANGED <<store, claim>>
      BY <2>0, <2>1 DEF RightAnswer, Complete, Unchanged, Held, Attempt
    <3> QED BY <2>1, <3>1 DEF RightAnswer, Complete, Release, Takes, Held, MuteTableStep, ClaimPC, Restoring
  <2>2. CASE LastWrong(c)
    BY <1>a, <2>0, <2>2 DEF LastWrong
  <2>3. CASE PressButton(c) \/ WrongAnswer(c) \/ CountWrong(c)
    BY <2>3 DEF PressButton, WrongAnswer, IncrementAttempts, CountWrong, MuteTableStep
  <2> QED BY <1>8, <2>1, <2>2, <2>3 DEF ClickStep
<1>9. ASSUME NEW f \in Refresher, PressRefresh(f) \/ RefreshStep(f)
      PROVE  UNCHANGED <<claim, unmuter>> /\ MuteTableStep
  BY <1>9 DEF PressRefresh, RefreshStep, SwapCaptcha, UpdateOnRefresh, StartCooldown, MuteTableStep
<1>10. CASE LeftStep
  BY <1>10 DEF LeftStep, LeftArrives, LeftReads, LeftDeletes, DeleteByID, LeftClears, MuteTableStep
<1>11. CASE ApproverStep
  <2>1. CASE ApproverReleases
    BY <1>a, <2>1 DEF ApproverReleases, TypeOK, HandlersTypeOK, ApproverJob, Job
  <2>2. CASE ApproverReads
    BY <2>2 DEF ApproverReads, MuteTableStep
  <2> QED BY <1>11, <2>1, <2>2 DEF ApproverStep
<1>12. CASE AdminStep
  <2>1. CASE DisableClaims
    <3>1. admin.id # 0 => admin.id \in Attempt
      BY DEF TypeOK, HandlersTypeOK, AdminJob, Attempt
    <3> QED BY <2>1, <3>1 DEF DisableClaims, Release, Takes, MuteTableStep, ClaimPC
  <2>2. CASE DeleteSettingsCache \/ DisableLists \/ DisableUnmutes \/ DisableStores
    BY <2>2 DEF DeleteSettingsCache, DisableLists, DisableUnmutes, DisableStores, MuteTableStep
  <2> QED BY <1>12, <2>1, <2>2 DEF AdminStep
<1>13. CASE UnmuterStep
  BY <1>13
  DEF UnmuterStep, UnmuterPicks, UnmuterUnmutes, UnmuterRemoves, DeleteMutedUserIfUnchanged, UnmuterReloads,
      UnmuterRemutes, MuteTableStep
<1>14. CASE \E on \in BOOLEAN : SetCaptchaEnabled(on)
  BY <1>14 DEF SetCaptchaEnabled, MuteTableStep
<1> QED BY <1>1, <1>2, <1>3, <1>4, <1>5, <1>6, <1>7, <1>8, <1>9, <1>10, <1>11, <1>12, <1>13, <1>14, Zenon
        DEF Next

\* Which actions touch the command, the settings and the bounds.
LEMMA WhoCommands ==
    ASSUME Next
    PROVE  /\ UNCHANGED admin \/ Crash \/ AdminStep \/ \E on \in BOOLEAN : SetCaptchaEnabled(on)
           /\ UNCHANGED enabled \/ \E on \in BOOLEAN : SetCaptchaEnabled(on)
           /\ UNCHANGED crashes \/ Crash
           /\ UNCHANGED joinsLeft \/ Join
           /\ UNCHANGED orders \/ ApproveUser \/ \E on \in BOOLEAN : SetCaptchaEnabled(on)
<1>1. CASE Join \/ Leave \/ Clock \/ ForgetJoin \/ CooldownEnds \/ SettingsExpire \/ Crash \/ Restart
           \/ ApproveUser
  BY <1>1 DEF Join, Leave, Clock, ForgetJoin, CooldownEnds, SettingsExpire, Crash, Restart, ApproveUser
<1>2. CASE JoinStep
  BY <1>2 DEF JoinStep, IgnoreJoin, ClaimJoin, ReadSettings, Admit, Refuse, Challenge
<1>3. CASE SweepStep
  BY <1>3 DEF SweepStep, SweepPicks, SweepClaims, RecoveryPicks, RecoveryEnds
<1>4. CASE LeftStep
  BY <1>4 DEF LeftStep, LeftArrives, LeftReads, LeftDeletes, LeftClears
<1>5. CASE ApproverStep
  BY <1>5 DEF ApproverStep, ApproverReads, ApproverReleases
<1>6. CASE AdminStep
  BY <1>6 DEF AdminStep, DeleteSettingsCache, DisableLists, DisableClaims, DisableUnmutes, DisableStores
<1>7. CASE UnmuterStep
  BY <1>7 DEF UnmuterStep, UnmuterPicks, UnmuterUnmutes, UnmuterRemoves, UnmuterReloads, UnmuterRemutes
<1>8. CASE \E on \in BOOLEAN : SetCaptchaEnabled(on)
  BY <1>8 DEF SetCaptchaEnabled
<1>9. ASSUME NEW a \in Attempt, SendStep(a) PROVE UNCHANGED <<admin, enabled, crashes, joinsLeft, orders>>
  BY <1>9 DEF SendStep, MuteForCaptcha, DropCaptcha, PostCaptcha, RecordCaptcha, RollbackCaptcha
<1>10. ASSUME NEW a \in Attempt, TimerStep(a) PROVE UNCHANGED <<admin, enabled, crashes, joinsLeft, orders>>
  BY <1>10 DEF TimerStep, TimerFires, TimerClaims
<1>11. ASSUME NEW a \in Attempt, ClaimStep(a) PROVE UNCHANGED <<admin, enabled, crashes, joinsLeft, orders>>
  BY <1>11
  DEF ClaimStep, Punish, StoreMute, CallMute, UndoMute, RestoreClaimed, RearmClaimed, ReleaseClaimed,
      ClearClaimed
<1>12. ASSUME NEW c \in Clicker, PressButton(c) \/ ClickStep(c)
       PROVE  UNCHANGED <<admin, enabled, crashes, joinsLeft, orders>>
  BY <1>12 DEF PressButton, ClickStep, RightAnswer, WrongAnswer, CountWrong, LastWrong
<1>13. ASSUME NEW f \in Refresher, PressRefresh(f) \/ RefreshStep(f)
       PROVE  UNCHANGED <<admin, enabled, crashes, joinsLeft, orders>>
  BY <1>13 DEF PressRefresh, RefreshStep, SwapCaptcha, StartCooldown
<1> QED BY <1>1, <1>2, <1>3, <1>4, <1>5, <1>6, <1>7, <1>8, <1>9, <1>10, <1>11, <1>12, <1>13 DEF Next

\* Only a join brings the user back into the chat.
LEMMA WhoEnters ==
    ASSUME Next, ~Join
    PROVE  ~InChat => ~InChat'
<1>1. CASE Leave \/ Clock \/ ForgetJoin \/ CooldownEnds \/ SettingsExpire \/ Crash \/ Restart \/ ApproveUser
  BY <1>1 DEF Leave, Removed, Clock, ForgetJoin, CooldownEnds, SettingsExpire, Crash, Restart, ApproveUser,
              InChat
<1>2. CASE JoinStep
  BY <1>2 DEF JoinStep, IgnoreJoin, ClaimJoin, ReadSettings, Admit, Refuse, Challenge, InChat
<1>3. CASE SweepStep
  BY <1>3 DEF SweepStep, SweepPicks, SweepClaims, RecoveryPicks, RecoveryEnds, InChat
<1>4. CASE LeftStep
  BY <1>4 DEF LeftStep, LeftArrives, LeftReads, LeftDeletes, LeftClears, InChat
<1>5. CASE ApproverStep
  BY <1>5 DEF ApproverStep, ApproverReads, ApproverReleases, InChat
<1>6. CASE AdminStep
  BY <1>6 DEF AdminStep, DeleteSettingsCache, DisableLists, DisableClaims, DisableUnmutes, DisableStores,
              Unmuted, UnmuteGone, UnmuteFails, InChat
<1>7. CASE UnmuterStep
  BY <1>7 DEF UnmuterStep, UnmuterPicks, UnmuterUnmutes, UnmuterRemoves, UnmuterReloads, UnmuterRemutes,
              Unmuted, UnmuteGone, UnmuteFails, Muted, InChat
<1>8. CASE \E on \in BOOLEAN : SetCaptchaEnabled(on)
  BY <1>8 DEF SetCaptchaEnabled, InChat
<1>9. ASSUME NEW a \in Attempt, SendStep(a) PROVE ~InChat => ~InChat'
  BY <1>9 DEF SendStep, MuteForCaptcha, DropCaptcha, PostCaptcha, RecordCaptcha, RollbackCaptcha, Muted,
              InChat
<1>10. ASSUME NEW a \in Attempt, TimerStep(a) PROVE ~InChat => ~InChat'
  BY <1>10 DEF TimerStep, TimerFires, TimerClaims, InChat
<1>11. ASSUME NEW a \in Attempt, ClaimStep(a) PROVE ~InChat => ~InChat'
  BY <1>11 DEF ClaimStep, Punish, StoreMute, CallMute, UndoMute, RestoreClaimed, RearmClaimed, ReleaseClaimed,
               ClearClaimed, Removed, Muted, Unmuted, UnmuteGone, UnmuteFails, InChat
<1>12. ASSUME NEW c \in Clicker, PressButton(c) \/ ClickStep(c) PROVE ~InChat => ~InChat'
  BY <1>12 DEF PressButton, ClickStep, RightAnswer, WrongAnswer, CountWrong, LastWrong, InChat
<1>13. ASSUME NEW f \in Refresher, PressRefresh(f) \/ RefreshStep(f) PROVE ~InChat => ~InChat'
  BY <1>13 DEF PressRefresh, RefreshStep, SwapCaptcha, StartCooldown, InChat
<1> QED BY <1>1, <1>2, <1>3, <1>4, <1>5, <1>6, <1>7, <1>8, <1>9, <1>10, <1>11, <1>12, <1>13 DEF Next

\* A challenge that is closed stays as it was closed.
LEMMA ClosedStays ==
    ASSUME TypeOK, HandlersAgree, Next
    PROVE  \A a \in Attempt : outcome[a] \notin {"unborn", "pending"} => outcome'[a] = outcome[a]
<1>1. AttemptStep
  BY NextIsAttemptStep
<1>2. outcome[nextId] = "unborn" \/ nextId \notin Attempt
  BY DEF HandlersAgree, TableAgrees, TypeOK, StoreTypeOK, Attempt
<1>3. row.id \in Attempt => outcome[row.id] = "pending"
  BY StoreAssumption DEF HandlersAgree, TableAgrees, Attempt
<1>4. CASE CreateAttempt
  BY <1>2, <1>3, <1>4 DEF CreateAttempt
<1>5. ASSUME NEW a \in 0..LastId, NEW how, TakeRow(a, how)
      PROVE  \A b \in Attempt : b # row.id => outcome'[b] = outcome[b]
  BY <1>5 DEF TakeRow, TypeOK, StoreTypeOK
<1>6. CASE UNCHANGED outcome
  BY <1>6
<1> QED BY <1>1, <1>3, <1>4, <1>5, <1>6
        DEF AttemptStep, UpdateMessageID, CountsWrong, Refreshes, ExpireAttempt, Closes

\* A row appears only while captcha is on.
LEMMA NoRowAppears ==
    ASSUME TypeOK, HandlersAgree, Next, ~enabled
    PROVE  row'.id \in {0, row.id}
<1>1. AttemptStep
  BY NextIsAttemptStep
<1>2. CASE \E a \in 0..LastId, how \in {"released", "withdrawn", "verified", "punished"} : Closes(a, how)
  BY <1>2 DEF Closes, TakeRow, NoRow
<1>3. CASE UNCHANGED attemptTable \/ CountsWrong \/ Refreshes \/ ExpireAttempt
           \/ \E a \in Attempt : UpdateMessageID(a)
  BY <1>3 DEF UpdateMessageID, CountsWrong, Refreshes, ExpireAttempt, TypeOK, StoreTypeOK, Row
<1> QED BY <1>1, <1>2, <1>3 DEF AttemptStep

\* After a crash the bound on crashes never again has its first value.
LEMMA CrashesCount ==
    ASSUME TypeOK, Next, crashes <= Crashes
    PROVE  crashes' <= Crashes /\ (Crash => crashes' # Crashes)
<1>1. crashes \in Nat /\ Crashes \in Nat
  BY CaptchaAssumption DEF TypeOK, SystemTypeOK
<1>2. Crash => crashes' = crashes - 1
  BY DEF Crash
<1>3. crashes' = crashes \/ crashes' = crashes - 1
  BY <1>2, WhoCommands
<1> QED BY <1>1, <1>2, <1>3

\* The bounds on joins and commands are only ever used up.
LEMMA BoundsFall ==
    ASSUME TypeOK, Next
    PROVE  joinsLeft' <= joinsLeft /\ orders' <= orders
<1>1. joinsLeft \in Nat /\ orders \in Nat
  BY DEF TypeOK, JoiningTypeOK, SettingsTypeOK
<1>2. joinsLeft' = joinsLeft \/ joinsLeft' = joinsLeft - 1
  BY WhoCommands DEF Join
<1>3. orders' = orders \/ orders' = orders - 1
  BY WhoCommands DEF ApproveUser, SetCaptchaEnabled
<1> QED BY <1>1, <1>2, <1>3

--------------------------------------------------------------------------------
(* What holds whatever fails *)

\* A goroutine works on a challenge only after it has taken its row.
ClaimsFollow == \A a \in Attempt : claim[a] # "none" => outcome[a] \notin {"unborn", "pending"}

\* Stamps tell the schedules apart, and the worker only ever picks one that is due.
StampsGrow == /\ sched.at < stamp
              /\ sched.due => sched.at # 0
              /\ unmuter.pc # "idle" => unmuter.at \in 1..(stamp - 1)
              /\ unmuter.pc # "idle" /\ sched.at # 0 => unmuter.at <= sched.at
              /\ unmuter.pc # "idle" /\ unmuter.at = sched.at => sched.due

\* What holds whatever fails: the types, the agreement of the table with the handlers,
\* and the order of claims, stamps and crashes.
Basis == /\ TypeOK /\ HandlersAgree /\ ClaimsFollow /\ StampsGrow
         /\ crashes <= Crashes /\ orders <= Orders /\ joinsLeft <= Joins

\* No goroutine follows a claim on a challenge that is open.
LEMMA ClaimsFollowStep ==
    ASSUME TypeOK, HandlersAgree, ClaimsFollow, Next
    PROVE  ClaimsFollow'
<1>1. CASE \A a \in Attempt : claim'[a] # "none" => claim[a] # "none"
  BY <1>1, ClosedStays DEF ClaimsFollow
<1>2. CASE Crash
  BY <1>1, <1>2 DEF Crash, NoTask
<1>3. CASE Takes
  <2>1. PICK a \in Attempt, how \in {"verified", "punished", "released"}, pc \in ClaimPC :
          Release(a, how) /\ claim' = [claim EXCEPT ![a] = pc]
    BY <1>3 DEF Takes
  <2>2. outcome'[a] = how
    BY <2>1 DEF Release, TakeRow, TypeOK, StoreTypeOK
  <2>3. \A b \in Attempt : b # a => claim'[b] = claim[b]
    BY <2>1 DEF TypeOK
  <2> QED BY <2>1, <2>2, <2>3, ClosedStays DEF ClaimsFollow
<1>4. ASSUME NEW a \in Attempt, ClaimStep(a) PROVE ClaimsFollow'
  <2>1. claim[a] # "none" /\ \A b \in Attempt : b # a => claim'[b] = claim[b]
    BY <1>4 DEF TypeOK, ClaimStep, Punish, StoreMute, CallMute, UndoMute, RestoreClaimed, RearmClaimed,
                ReleaseClaimed, ClearClaimed, StepClaim
  <2> QED BY <1>1, <2>1
<1> QED BY <1>1, <1>2, <1>3, <1>4, WhoClaims

\* Every schedule written is newer than all that were read before it.
LEMMA StampsGrowStep ==
    ASSUME TypeOK, HandlersAgree, StampsGrow, Next
    PROVE  StampsGrow'
<1>0. /\ sched.at \in Nat /\ sched.due \in BOOLEAN /\ stamp \in Nat \ {0} /\ unmuter.at \in Nat
      /\ sched \in [at : Nat, due : BOOLEAN] /\ unmuter \in UnmuterJob
  BY DEF TypeOK, StoreTypeOK, WorkersTypeOK, UnmuterJob
<1>1. CASE UnmuterStep
  <2>1. CASE UnmuterPicks
    BY <1>0, <2>1 DEF UnmuterPicks, StampsGrow
  <2>2. CASE UnmuterRemoves
    BY <1>0, <2>2 DEF UnmuterRemoves, DeleteMutedUserIfUnchanged, DeleteMutedUser, NoSchedule, StampsGrow,
                      UnmuteIdle, StepUnmuter, UnmuterJob
  <2>3. CASE UnmuterUnmutes \/ UnmuterReloads \/ UnmuterRemutes
    <3>1. UNCHANGED muteTable /\ (unmuter'.pc = "idle" \/ (unmuter'.at = unmuter.at /\ unmuter.pc # "idle"))
      BY <1>0, <2>3 DEF UnmuterUnmutes, UnmuterReloads, UnmuterRemutes, StepUnmuter, UnmuteIdle, UnmuterJob
    <3> QED BY <1>0, <3>1 DEF StampsGrow
  <2> QED BY <1>1, <2>1, <2>2, <2>3 DEF UnmuterStep
<1>2. CASE UNCHANGED unmuter \/ Crash
  <2>1. unmuter' = unmuter \/ unmuter'.pc = "idle"
    BY <1>2 DEF Crash, UnmuteIdle
  <2>2. CASE UNCHANGED muteTable
    BY <1>0, <2>1, <2>2 DEF StampsGrow
  <2>3. CASE \E now \in BOOLEAN : CreateMutedUser(now)
    <3>1. sched'.at = stamp /\ stamp' = stamp + 1
      BY <2>3 DEF CreateMutedUser
    <3> QED BY <1>0, <2>1, <3>1 DEF StampsGrow
  <2>4. CASE DeleteMutedUser
    BY <1>0, <2>1, <2>4 DEF DeleteMutedUser, NoSchedule, StampsGrow
  <2>5. CASE ScheduleFallsDue
    <3>1. sched'.at = sched.at /\ sched'.due = TRUE /\ sched.at # 0 /\ stamp' = stamp
      BY <1>0, <2>5 DEF ScheduleFallsDue
    <3> QED BY <1>0, <2>1, <3>1 DEF StampsGrow
  <2> QED BY <2>2, <2>3, <2>4, <2>5, WhoClaims DEF MuteTableStep
<1> QED BY <1>1, <1>2, WhoClaims

\* No claim, no schedule, and all bounds unused.
LEMMA BasisInit == Init => Basis
<1> SUFFICES ASSUME Init PROVE Basis
  OBVIOUS
<1>1. ClaimsFollow
  BY DEF Init, ClaimsFollow, NoTask
<1>2. StampsGrow
  BY DEF Init, StoreInit, NoSchedule, UnmuteIdle, StampsGrow
<1>3. crashes <= Crashes /\ orders <= Orders /\ joinsLeft <= Joins
  BY CaptchaAssumption DEF Init
<1> QED BY <1>1, <1>2, <1>3, AgreeInit DEF Basis

\* Every part of it is kept by every step.
LEMMA BasisStep == Basis /\ [Next]_vars => Basis'
<1> SUFFICES ASSUME Basis, [Next]_vars PROVE Basis'
  OBVIOUS
<1>1. CASE UNCHANGED vars
  <2>1. UNCHANGED <<claim, outcome, sched, stamp, unmuter, crashes, orders, joinsLeft>>
    BY <1>1 DEF vars
  <2> QED BY <1>1, <2>1, AgreeStep DEF Basis, ClaimsFollow, StampsGrow
<1>2. CASE Next
  <2>1. orders' <= Orders /\ joinsLeft' <= Joins
    BY <1>2, BoundsFall, TypeInvariant, CaptchaAssumption DEF Basis, TypeOK, SettingsTypeOK, JoiningTypeOK
  <2> QED BY <1>2, AgreeStep, ClaimsFollowStep, StampsGrowStep, CrashesCount, <2>1 DEF Basis
<1> QED BY <1>1, <1>2

\* In every run the types are right, the table agrees with the handlers, no goroutine
\* follows a claim on an open challenge, and schedules are stamped in the order in
\* which they are written (the updates of captcha_muted_users by upsert).
THEOREM Basics == Spec => []Basis
BY BasisInit, BasisStep, PTL DEF Spec

--------------------------------------------------------------------------------
(* Switching captcha off *)

\* While the command is under way, the challenge that is left is the one it is about to
\* close; without a crash it closes it.
FinalInvariant ==
    crashes = Crashes /\ ~enabled =>
        \/ admin.pc \in {"uncache", "list"}
        \/ admin.pc \in {"list muted", "claim"} /\ row.id \in {0, admin.id}
        \/ row.id = 0

\* A row that the off branch leaves behind is the one its goroutine is about to claim,
\* and CreateCaptchaAttemptPreMessageIfEnabled writes none after it.
LEMMA FinalStep ==
    ASSUME TypeOK, HandlersAgree, FinalInvariant, Next, crashes <= Crashes
    PROVE  FinalInvariant'
<1>0. admin \in AdminJob /\ crashes \in Nat
  BY DEF TypeOK, HandlersTypeOK, SystemTypeOK
<1>1. CASE Crash
  BY <1>1, CrashesCount DEF FinalInvariant
<1>2. ASSUME NEW on \in BOOLEAN, SetCaptchaEnabled(on) PROVE FinalInvariant'
  BY <1>2 DEF SetCaptchaEnabled, StepAdmin, FinalInvariant
<1>3. CASE AdminStep /\ UNCHANGED <<enabled, crashes>> /\ ~enabled
  <2>1. CASE DeleteSettingsCache
    BY <1>0, <1>3, <2>1 DEF DeleteSettingsCache, StepAdmin, FinalInvariant, AdminJob
  <2>2. CASE DisableLists
    BY <1>0, <1>3, <2>2 DEF DisableLists, FinalInvariant, AdminJob
  <2>3. CASE DisableClaims
    <3>1. row' = NoRow \/ (UNCHANGED row /\ (admin.id = 0 \/ row.id # admin.id))
      BY <2>3, Zenon DEF DisableClaims, Release, TakeRow
    <3>2. crashes = Crashes => row.id \in {0, admin.id}
      BY <1>3, <2>3 DEF DisableClaims, FinalInvariant
    <3>3. NoRow.id = 0
      BY DEF NoRow
    <3>4. crashes' = Crashes => row'.id = 0
      BY <1>3, <3>1, <3>2, <3>3
    <3> QED BY <3>4 DEF FinalInvariant
  <2>4. CASE DisableUnmutes \/ DisableStores
    BY <1>0, <1>3, <2>4 DEF DisableUnmutes, DisableStores, StepAdmin, FinalInvariant
  <2> QED BY <1>3, <2>1, <2>2, <2>3, <2>4 DEF AdminStep
<1>4. CASE UNCHANGED <<admin, enabled, crashes>>
  BY <1>4, NoRowAppears DEF FinalInvariant
<1>5. CASE enabled /\ UNCHANGED enabled
  BY <1>5 DEF FinalInvariant
<1>6. CASE ~Crash /\ ~\E on \in BOOLEAN : SetCaptchaEnabled(on)
  <2>1. UNCHANGED enabled /\ UNCHANGED crashes /\ (UNCHANGED admin \/ AdminStep)
    BY <1>6, WhoCommands, Zenon
  <2> QED BY <1>3, <1>4, <1>5, <2>1
<1> QED BY <1>1, <1>2, <1>6

\* As long as the process has not crashed, switching captcha off is final: whatever
\* joins, answers, timers and other commands race with the command, no challenge is
\* left when it is over and none appears before captcha is switched on again.
THEOREM DisablingIsFinal == Spec => [](crashes = Crashes => DisableIsFinal)
<1>1. Init => FinalInvariant
  BY DEF Init, FinalInvariant
<1>2. Basis /\ FinalInvariant /\ [Next]_vars => FinalInvariant'
  <2> SUFFICES ASSUME Basis, FinalInvariant, [Next]_vars PROVE FinalInvariant'
    OBVIOUS
  <2>1. CASE UNCHANGED vars
    BY <2>1 DEF vars, FinalInvariant
  <2> QED BY <2>1, FinalStep DEF Basis
<1>3. FinalInvariant => (crashes = Crashes => DisableIsFinal)
  BY DEF FinalInvariant, DisableIsFinal
<1> QED BY <1>1, <1>2, <1>3, Basics, PTL DEF Spec

--------------------------------------------------------------------------------
(* The mute of 24 hours *)

\* A 24-hour mute is in force, or whoever took it back still has to say so: the claim
\* that is about to mute, or to forget the schedule, an administrator's command or a
\* leave handler that forgets it, or the unmute worker that is about to mute again.
MuteHeld ==
    crashes = Crashes /\ sched.at # 0 /\ ~sched.due =>
        \/ member = "muted"
        \/ \E a \in Attempt : claim[a] \in {"mute", "undo mute", "clear"}
        \/ admin.pc = "clear" \/ leftUpdates > 0 \/ left.pc # "idle"
        \/ member = "free" /\ unmuter.pc \in {"remove", "reload", "remute"} /\ unmuter.at < sched.at

\* A schedule that is due, or none, leaves nothing to hold.
LEMMA HeldFrame ==
    ASSUME MuteHeld, crashes' # Crashes \/ UNCHANGED crashes
    PROVE  /\ sched'.due \/ sched'.at = 0 => MuteHeld'
           /\ CreateMutedUser(TRUE) => MuteHeld'
           /\ DeleteMutedUser => MuteHeld'
           /\ UNCHANGED <<sched, member, claim, admin, leftUpdates, left, unmuter>> => MuteHeld'
<1>1. sched'.due \/ sched'.at = 0 => MuteHeld'
  BY DEF MuteHeld
<1>2. CreateMutedUser(TRUE) => sched'.due
  BY DEF CreateMutedUser
<1>3. DeleteMutedUser => sched'.at = 0
  BY DEF DeleteMutedUser, NoSchedule
<1>4. UNCHANGED <<sched, member, claim, admin, leftUpdates, left, unmuter>> => MuteHeld'
  BY DEF MuteHeld
<1> QED BY <1>1, <1>2, <1>3, <1>4

\* Who takes the row stores an unmute that is due.
LEMMA TakesHold ==
    ASSUME MuteHeld, UNCHANGED crashes, Takes
    PROVE  MuteHeld'
BY HeldFrame DEF Takes, Release

\* The user joins free of a 24-hour mute, and a leave is an update still to be handled.
LEMMA HeldTelegram ==
    ASSUME TypeOK, MuteHeld, Join \/ Leave \/ Clock
    PROVE  MuteHeld'
<1>1. CASE Join
  BY <1>1 DEF Join, MuteHeld
<1>2. CASE Leave
  <2>1. leftUpdates' > 0
    BY <1>2 DEF Leave, Removed, TypeOK, TelegramTypeOK
  <2> QED BY <2>1 DEF MuteHeld
<1>3. CASE Clock
  BY <1>3, HeldFrame DEF Clock, ScheduleFallsDue, ExpireAttempt, TypeOK, StoreTypeOK
<1> QED BY <1>1, <1>2, <1>3

\* SendCaptcha mutes the user, or leaves the schedule alone.
LEMMA HeldSend ==
    ASSUME TypeOK, MuteHeld, NEW a \in Attempt, SendStep(a)
    PROVE  MuteHeld'
<1>1. CASE MuteForCaptcha(a)
  <2>1. CASE Muted
    BY <1>1, <2>1 DEF MuteForCaptcha, Muted, MuteHeld
  <2>2. CASE UNCHANGED telegram
    BY <1>1, <2>2, HeldFrame DEF MuteForCaptcha
  <2> QED BY <1>1, <2>1, <2>2 DEF MuteForCaptcha
<1>2. CASE RollbackCaptcha(a)
  BY <1>2, HeldFrame DEF RollbackCaptcha, Release
<1>3. CASE DropCaptcha(a) \/ PostCaptcha(a) \/ RecordCaptcha(a)
  BY <1>3, HeldFrame DEF DropCaptcha, DeleteByID, PostCaptcha, RecordCaptcha, UpdateMessageID
<1> QED BY <1>1, <1>2, <1>3 DEF SendStep

\* A claim by whichever handler leaves a schedule that is due.
LEMMA HeldClaim ==
    ASSUME MuteHeld, UNCHANGED <<crashes, member, admin, leftUpdates, left, unmuter>>,
           NEW a, NEW verdict, Claim(a, verdict)
    PROVE  MuteHeld'
BY HeldFrame DEF Claim, Release

\* A goroutine that has stored a 24-hour mute is about to apply it or to take it back.
LEMMA HeldFollow ==
    ASSUME TypeOK, MuteHeld, NEW a \in Attempt, ClaimStep(a)
    PROVE  MuteHeld'
<1>0. \A b \in Attempt : b # a => claim'[b] = claim[b]
  BY DEF TypeOK, ClaimStep, StepClaim, Punish, StoreMute, CallMute, UndoMute, RestoreClaimed, RearmClaimed,
         ReleaseClaimed, ClearClaimed
<1>1. CASE Punish(a)
  <2>1. claim[a] \notin {"mute", "undo mute", "clear"}
    BY <1>1 DEF Punish, StepClaim
  <2>2. \A b \in Attempt : claim[b] \in {"mute", "undo mute", "clear"} => claim'[b] = claim[b]
    BY <1>0, <2>1
  <2>3. CASE UNCHANGED telegram
    BY <1>1, <2>2, <2>3 DEF Punish, MuteHeld
  <2>4. ASSUME NEW gone \in {"banned", "out"}, Removed(gone) PROVE MuteHeld'
    <3>1. CASE InChat
      <4>1. leftUpdates' > 0
        BY <2>4, <3>1 DEF Removed, TypeOK, TelegramTypeOK
      <4> QED BY <4>1 DEF MuteHeld
    <3>2. CASE ~InChat
      <4>1. leftUpdates' = leftUpdates
        BY <2>4, <3>2 DEF Removed, TypeOK, TelegramTypeOK
      <4> QED BY <1>1, <2>2, <3>2, <4>1 DEF Punish, InChat, MuteHeld
    <3> QED BY <3>1, <3>2
  <2> QED BY <1>1, <2>3, <2>4 DEF Punish
<1>2. CASE StoreMute(a)
  <2>1. claim'[a] = "mute"
    BY <1>2 DEF StoreMute, StepClaim, TypeOK
  <2> QED BY <2>1 DEF MuteHeld
<1>3. CASE CallMute(a)
  <2>1. CASE Muted
    BY <2>1 DEF Muted, MuteHeld
  <2>2. CASE ~Muted
    <3>1. claim'[a] = "undo mute"
      BY <1>3, <2>2 DEF CallMute, StepClaim, TypeOK
    <3> QED BY <3>1 DEF MuteHeld
  <2> QED BY <2>1, <2>2
<1>4. CASE UndoMute(a) \/ ClearClaimed(a) \/ RearmClaimed(a)
  BY <1>4, HeldFrame DEF UndoMute, ClearClaimed, RearmClaimed
<1>5. CASE RestoreClaimed(a) \/ ReleaseClaimed(a)
  <2>1. claim[a] \notin {"mute", "undo mute", "clear"}
    BY <1>5 DEF RestoreClaimed, ReleaseClaimed, StepClaim
  <2>2. \A b \in Attempt : claim[b] \in {"mute", "undo mute", "clear"} => claim'[b] = claim[b]
    BY <1>0, <2>1
  <2>3. claim'[a] = "clear" \/ UNCHANGED telegram
    BY <1>5 DEF RestoreClaimed, ReleaseClaimed, StepClaim, UnmuteGone, UnmuteFails, TypeOK
  <2> QED BY <1>5, <2>2, <2>3 DEF RestoreClaimed, ReleaseClaimed, MuteHeld
<1> QED BY <1>1, <1>2, <1>3, <1>4, <1>5 DEF ClaimStep

\* leftMember ends by forgetting the schedule.
LEMMA HeldLeft ==
    ASSUME TypeOK, MuteHeld, LeftStep
    PROVE  MuteHeld'
<1>1. CASE LeftArrives \/ LeftReads \/ LeftDeletes
  <2>1. left'.pc # "idle"
    BY <1>1 DEF LeftArrives, LeftReads, LeftDeletes, At, AtRow
  <2> QED BY <2>1 DEF MuteHeld
<1>2. CASE LeftClears
  BY <1>2, HeldFrame DEF LeftClears
<1> QED BY <1>1, <1>2 DEF LeftStep

\* The off branch frees the user before it forgets the schedule.
LEMMA HeldAdmin ==
    ASSUME TypeOK, MuteHeld, AdminStep
    PROVE  MuteHeld'
<1>1. CASE DisableClaims
  <2>1. CASE UNCHANGED <<store, claim>>
    BY <1>1, <2>1 DEF DisableClaims, MuteHeld
  <2>2. CASE Release(admin.id, "released")
    BY <1>1, <2>2, HeldFrame DEF DisableClaims, Release
  <2> QED BY <1>1, <2>1, <2>2 DEF DisableClaims
<1>2. CASE DisableStores
  BY <1>2, HeldFrame DEF DisableStores
<1>3. CASE DisableUnmutes
  <2>1. admin'.pc = "clear" \/ (UNCHANGED telegram /\ admin.pc # "clear")
    BY <1>3 DEF DisableUnmutes, StepAdmin, UnmuteGone, UnmuteFails, TypeOK, HandlersTypeOK, AdminJob
  <2> QED BY <1>3, <2>1 DEF DisableUnmutes, MuteHeld
<1>4. CASE DeleteSettingsCache \/ DisableLists
  <2>1. admin.pc # "clear"
    BY <1>4 DEF DeleteSettingsCache, DisableLists, StepAdmin
  <2>2. UNCHANGED <<crashes, sched, member, claim, leftUpdates, left, unmuter>>
    BY <1>4 DEF DeleteSettingsCache, DisableLists
  <2> QED BY <2>1, <2>2 DEF MuteHeld
<1> QED BY <1>1, <1>2, <1>3, <1>4 DEF AdminStep

\* The unmute worker came for an older schedule, finds the newer one and mutes again.
LEMMA HeldUnmuter ==
    ASSUME TypeOK, StampsGrow, MuteHeld, UnmuterStep, "mute" \notin FaultyCalls
    PROVE  MuteHeld'
<1>0. unmuter \in UnmuterJob /\ sched.at \in Nat /\ unmuter.at \in Nat
  BY DEF TypeOK, WorkersTypeOK, StoreTypeOK, UnmuterJob
<1>1. CASE UnmuterPicks
  BY <1>1 DEF UnmuterPicks, MuteHeld
<1>2. CASE UnmuterUnmutes
  <2>1. CASE UNCHANGED telegram
    BY <1>2, <2>1 DEF UnmuterUnmutes, StepUnmuter, MuteHeld
  <2>2. CASE Unmuted /\ StepUnmuter("unmute", "remove")
    <3>1. member' = "free" /\ unmuter'.pc = "remove" /\ unmuter'.at = unmuter.at /\ UNCHANGED sched
      BY <1>0, <1>2, <2>2 DEF UnmuterUnmutes, Unmuted, StepUnmuter, UnmuterJob
    <3>2. unmuter.at < sched.at \/ sched.at = 0 \/ sched.due
      BY <1>0, <2>2 DEF StampsGrow, StepUnmuter
    <3> QED BY <3>1, <3>2 DEF MuteHeld
  <2> QED BY <1>2, <2>1, <2>2 DEF UnmuterUnmutes, UnmuteGone, UnmuteFails
<1>3. CASE UnmuterRemoves
  <2>1. CASE DeleteMutedUser
    BY <1>3, <2>1, HeldFrame DEF UnmuterRemoves
  <2>2. CASE UNCHANGED muteTable /\ StepUnmuter("remove", "reload")
    BY <1>0, <1>3, <2>2 DEF UnmuterRemoves, StepUnmuter, UnmuterJob, MuteHeld
  <2>3. CASE UNCHANGED muteTable /\ StepUnmuter("gone", "idle")
    BY <1>3, <2>3 DEF UnmuterRemoves, StepUnmuter, MuteHeld
  <2> QED BY <1>3, <2>1, <2>2, <2>3 DEF UnmuterRemoves, DeleteMutedUserIfUnchanged
<1>4. CASE UnmuterReloads
  BY <1>0, <1>4 DEF UnmuterReloads, StepUnmuter, UnmuterJob, MuteHeld
<1>5. CASE UnmuterRemutes
  BY <1>0, <1>5 DEF UnmuterRemutes, Muted, Fails, InChat, MuteHeld
<1> QED BY <1>1, <1>2, <1>3, <1>4, <1>5 DEF UnmuterStep

\* No step takes a 24-hour mute away from everyone who could apply it again.
LEMMA HeldStep ==
    ASSUME TypeOK, StampsGrow, MuteHeld, Next, crashes <= Crashes, "mute" \notin FaultyCalls
    PROVE  MuteHeld'
<1>1. CASE Crash
  BY <1>1, CrashesCount DEF MuteHeld
<1>2. CASE ForgetJoin \/ CooldownEnds \/ SettingsExpire \/ Restart \/ ApproveUser
  BY <1>2, HeldFrame DEF ForgetJoin, CooldownEnds, SettingsExpire, Restart, ApproveUser
<1>3. CASE JoinStep
  BY <1>3, HeldFrame DEF JoinStep, IgnoreJoin, ClaimJoin, ReadSettings, Admit, Refuse, Challenge,
                         CreateAttempt
<1>4. ASSUME NEW a \in Attempt, TimerStep(a) PROVE MuteHeld'
  BY <1>4, HeldFrame, HeldClaim DEF TimerStep, TimerFires, TimerClaims
<1>5. CASE SweepStep
  BY <1>5, HeldFrame, HeldClaim DEF SweepStep, SweepPicks, SweepClaims, RecoveryPicks, RecoveryEnds
<1>6. ASSUME NEW c \in Clicker, PressButton(c) \/ ClickStep(c) PROVE MuteHeld'
  <2>1. CASE RightAnswer(c)
    BY <2>1, HeldFrame DEF RightAnswer, Complete, Release
  <2>2. CASE LastWrong(c)
    BY <2>2, HeldClaim DEF LastWrong
  <2>3. CASE PressButton(c) \/ WrongAnswer(c) \/ CountWrong(c)
    BY <2>3, HeldFrame DEF PressButton, WrongAnswer, IncrementAttempts, CountWrong
  <2> QED BY <1>6, <2>1, <2>2, <2>3 DEF ClickStep
<1>7. ASSUME NEW f \in Refresher, PressRefresh(f) \/ RefreshStep(f) PROVE MuteHeld'
  BY <1>7, HeldFrame DEF PressRefresh, RefreshStep, SwapCaptcha, UpdateOnRefresh, StartCooldown
<1>8. CASE ApproverStep
  BY <1>8, HeldFrame, HeldClaim DEF ApproverStep, ApproverReads, ApproverReleases
<1>9. ASSUME NEW on \in BOOLEAN, SetCaptchaEnabled(on) PROVE MuteHeld'
  <2>1. admin.pc = "idle" /\ UNCHANGED <<crashes, sched, member, claim, leftUpdates, left, unmuter>>
    BY <1>9 DEF SetCaptchaEnabled, StepAdmin
  <2> QED BY <2>1 DEF MuteHeld
<1> QED BY <1>1, <1>2, <1>3, <1>4, <1>5, <1>6, <1>7, <1>8, <1>9, HeldTelegram, HeldSend, HeldFollow, HeldLeft,
           HeldAdmin, HeldUnmuter, Zenon
        DEF Next

\* As long as the process has not crashed and Telegram does not refuse the mute of a
\* member, a 24-hour mute is in force until its time comes: with any number of
\* challenges, joins and commands, and whatever other calls fail.
THEOREM MutesStand ==
    ASSUME "mute" \notin FaultyCalls
    PROVE  Spec => [](crashes = Crashes => MuteStands)
<1>1. Init => MuteHeld
  <2>1. Init => sched.at = 0
    BY DEF Init, StoreInit, NoSchedule
  <2> QED BY <2>1 DEF MuteHeld
<1>2. Basis /\ MuteHeld /\ [Next]_vars => MuteHeld'
  <2> SUFFICES ASSUME Basis, MuteHeld, [Next]_vars PROVE MuteHeld'
    OBVIOUS
  <2>1. CASE UNCHANGED vars
    BY <2>1, HeldFrame DEF vars
  <2> QED BY <2>1, HeldStep DEF Basis
<1>3. MuteHeld => (crashes = Crashes => MuteStands)
  <2> SUFFICES ASSUME MuteHeld, crashes = Crashes, sched.at # 0, ~sched.due, Quiet
               PROVE  member # "free"
    BY DEF MuteStands
  <2>1. admin.pc = "idle" /\ left.pc = "idle" /\ unmuter.pc = "idle"
    BY DEF Quiet
  <2>2. ~(leftUpdates > 0)
    BY DEF Quiet
  <2>3. \A a \in Attempt : claim[a] \notin {"mute", "undo mute", "clear"}
    BY DEF Quiet
  <2> QED BY <2>1, <2>2, <2>3 DEF MuteHeld
<1> QED BY <1>1, <1>2, <1>3, Basics, PTL DEF Spec

--------------------------------------------------------------------------------
(* The mute of a challenge *)

\* The user has joined once and been given one challenge, and no administrator has
\* switched captcha off or approved the user.
FirstStay == nextId <= 2 /\ joinsLeft + 1 >= Joins /\ orders = Orders

\* The user has left; within the first stay that is for good.
GoneForGood == ~InChat /\ joinsLeft < Joins

\* The challenge was answered, expired or withdrawn by a handler that took its row.
Taken   == outcome[1] \in {"verified", "punished", "released"}

\* There is a challenge, and its SendCaptcha has muted the user and posted the picture.
Settled == nextId = 2 /\ send[1] \in {"none", "record", "done"}

\* Nothing of a stay is left behind, and no command is under way.
LeftIdle     == leftUpdates = 0 /\ left.pc = "idle"
CommandsIdle == admin.pc = "idle" /\ approver.pc = "idle"

\* The user has not joined yet.
NotYet       == member = "out" /\ joinUpdates = 0 /\ admitting = 0 /\ preparing = 0 /\ nextId = 1
HasJoined    == joinsLeft < Joins \/ NotYet

\* A process that serves no updates has no handler that waits for Telegram.
DownIsEmpty == /\ up # "serving" => admitting = 0 /\ preparing = 0 /\ send[1] = "none"
               /\ sweep.pc = "recover" => up # "serving"

\* Whoever may take the row came after SendCaptcha had muted the user and posted.
SendsOwn == /\ \A a \in Attempt : send[a] # "none" => a = 1 /\ nextId = 2
            /\ send[1] \in {"mute", "drop", "post", "rollback"} => row.id = 1
            /\ send[1] \in {"mute", "drop"} => member # "muted"
RowSettled    == row.expired \/ Taken => Settled
TimersSettled == \A a \in Attempt : timer[a].pc # "off" => Settled
SweepSettled  == sweep.pc \in {"release", "punish"} => Settled /\ sweep.id # 0
ClicksSettled == \A c \in Clicker : click[c].pc # "idle" => Settled

\* Until then nothing is scheduled, and the user is muted only while the row is there.
Untouched == ~Taken => /\ sched.at = 0 /\ unmuter.pc = "idle" /\ claim[1] = "none"
                       /\ row.id = 0 => member # "muted"

\* Afterwards the schedule is there as long as the user is muted: the claim forgets it
\* when the user is free, and the unmute worker when it is the one it came for.
Recorded == Taken /\ member = "muted" => sched.at # 0

\* The steps of a claim before which the unmute worker has seen at most its schedule.
Early    == {"punish", "store mute", "unmute", "release", "rearm", "clear"}
ClaimHolds ==
    /\ claim[1] = "clear" => member = "free"
    /\ claim[1] \in Early /\ unmuter.pc # "idle" =>
           unmuter.pc \in {"unmute", "remove"} /\ unmuter.at = sched.at
    /\ claim[1] = "mute" => sched.at # 0 /\ ~sched.due
    /\ claim[1] \in {"store mute", "mute"} => FailureAction = "mute"
    /\ claim[1] # "undo mute"
UnmuterHolds ==
    /\ unmuter.pc = "remove" /\ unmuter.at = sched.at => member # "muted"
    /\ unmuter.pc = "remute" => sched.at # 0
    /\ unmuter.pc # "gone"

\* Within the first stay, and as long as the user is in the chat.
Staying == /\ LeftIdle /\ CommandsIdle /\ HasJoined /\ DownIsEmpty
           /\ SendsOwn /\ RowSettled /\ TimersSettled /\ SweepSettled /\ ClicksSettled
           /\ Untouched /\ Recorded /\ ClaimHolds /\ UnmuterHolds

\* The inductive invariant of the first stay.
StayInvariant == FirstStay => GoneForGood \/ Staying

\* The one challenge of a first stay is number 1.
LEMMA OneChallenge ==
    ASSUME Basis, FirstStay
    PROVE  /\ 1 \in Attempt /\ nextId \in {1, 2} /\ row.id \in {0, 1}
           /\ \A a \in Attempt : outcome[a] # "unborn" => a = 1 /\ nextId = 2
           /\ nextId = 2 => outcome[1] # "unborn"
           /\ row.id = 1 <=> outcome[1] = "pending"
           /\ row.id = 0 => row = NoRow
           /\ \A a \in Attempt : claim[a] # "none" => a = 1 /\ nextId = 2
           /\ \A a \in Attempt : timer[a].pc # "off" => a = 1 /\ nextId = 2
<1>1. 1 \in Attempt /\ nextId \in {1, 2}
  BY StoreAssumption DEF Basis, TypeOK, StoreTypeOK, FirstStay, Attempt
<1>2. \A a \in Attempt : a < nextId => a = 1 /\ nextId = 2
  BY <1>1 DEF Attempt
<1>3. \A a \in Attempt : outcome[a] = "unborn" <=> a >= nextId
  BY DEF Basis, HandlersAgree, TableAgrees
<1>4. \A a \in Attempt : outcome[a] # "unborn" => a = 1 /\ nextId = 2
  BY <1>1, <1>2, <1>3 DEF Attempt
<1>5. nextId = 2 => outcome[1] # "unborn"
  BY <1>1, <1>3
<1>6. row.id # 0 => row.id \in Attempt /\ outcome[row.id] = "pending"
  BY DEF Basis, TypeOK, StoreTypeOK, Row, Attempt, HandlersAgree, TableAgrees
<1>7. row.id \in {0, 1} /\ (row.id = 1 <=> outcome[1] = "pending")
  <2>1. outcome[1] = "pending" => row.id = 1
    BY <1>1 DEF Basis, HandlersAgree, TableAgrees
  <2> QED BY <1>4, <1>6, <2>1
<1>8. row.id = 0 => row = NoRow
  BY DEF Basis, HandlersAgree, TableAgrees
<1>9. \A a \in Attempt : claim[a] # "none" => a = 1 /\ nextId = 2
  BY <1>4 DEF Basis, ClaimsFollow
<1>10. \A a \in Attempt : timer[a].pc # "off" => a = 1 /\ nextId = 2
  BY <1>2 DEF Basis, HandlersAgree, TimersAgree
<1> QED BY <1>1, <1>4, <1>5, <1>7, <1>8, <1>9, <1>10

\* What a step does not touch stays as it is.
LEMMA StayFrame ==
    ASSUME Staying
    PROVE  /\ UNCHANGED <<leftUpdates, left>> => LeftIdle'
           /\ UNCHANGED <<admin, approver>> => CommandsIdle'
           /\ UNCHANGED <<joining, member, nextId>> => HasJoined'
           /\ UNCHANGED <<up, joining, send, sweep>> => DownIsEmpty'
           /\ UNCHANGED <<send, row, nextId, member>> => SendsOwn'
           /\ UNCHANGED <<row, outcome, nextId, send>> => RowSettled'
           /\ UNCHANGED <<timer, nextId, send>> => TimersSettled'
           /\ UNCHANGED <<sweep, nextId, send>> => SweepSettled'
           /\ UNCHANGED <<click, nextId, send>> => ClicksSettled'
           /\ UNCHANGED <<outcome, sched, unmuter, claim, row, member>> => Untouched'
           /\ UNCHANGED <<outcome, member, sched>> => Recorded'
           /\ UNCHANGED <<claim, member, unmuter, sched>> => ClaimHolds'
           /\ UNCHANGED <<unmuter, sched, member>> => UnmuterHolds'
<1> USE DEF Staying
<1>1. /\ UNCHANGED <<leftUpdates, left>> => LeftIdle'
      /\ UNCHANGED <<admin, approver>> => CommandsIdle'
      /\ UNCHANGED <<joining, member, nextId>> => HasJoined'
      /\ UNCHANGED <<up, joining, send, sweep>> => DownIsEmpty'
  BY DEF LeftIdle, CommandsIdle, HasJoined, NotYet, DownIsEmpty
<1>2. UNCHANGED <<send, row, nextId, member>> => SendsOwn'
  BY DEF SendsOwn
<1>3. UNCHANGED <<row, outcome, nextId, send>> => RowSettled'
  BY DEF RowSettled, Settled, Taken
<1>4. /\ UNCHANGED <<timer, nextId, send>> => TimersSettled'
      /\ UNCHANGED <<sweep, nextId, send>> => SweepSettled'
      /\ UNCHANGED <<click, nextId, send>> => ClicksSettled'
  BY DEF TimersSettled, SweepSettled, ClicksSettled, Settled
<1>5. UNCHANGED <<outcome, sched, unmuter, claim, row, member>> => Untouched'
  BY DEF Untouched, Taken
<1>6. UNCHANGED <<outcome, member, sched>> => Recorded'
  BY DEF Recorded, Taken
<1>7. UNCHANGED <<claim, member, unmuter, sched>> => ClaimHolds'
  BY DEF ClaimHolds
<1>8. UNCHANGED <<unmuter, sched, member>> => UnmuterHolds'
  BY DEF UnmuterHolds
<1> QED BY <1>1, <1>2, <1>3, <1>4, <1>5, <1>6, <1>7, <1>8

\* The user joins, or leaves for good; a mute or the challenge runs out.
LEMMA StayTelegram ==
    ASSUME Basis, FirstStay, FirstStay', Staying, Prompt, Join \/ Leave \/ Clock
    PROVE  GoneForGood' \/ Staying'
<1> USE StayFrame, OneChallenge DEF Staying
<1>1. CASE Join
  <2>1. joinsLeft \in Nat /\ joinsLeft' = joinsLeft - 1 /\ Joins \in Nat
    BY <1>1, CaptchaAssumption DEF Join, Basis, TypeOK, JoiningTypeOK
  <2>2. ~(joinsLeft < Joins) /\ joinsLeft' < Joins
    BY <2>1 DEF FirstStay, Basis
  <2>3. nextId = 1
    BY <2>2 DEF HasJoined, NotYet
  <2>4. member' = "free" /\ ~Taken /\ send[1] = "none"
    BY <1>1, <2>3 DEF Join, Taken, SendsOwn
  <2>5. HasJoined' /\ SendsOwn' /\ Untouched' /\ Recorded' /\ ClaimHolds' /\ UnmuterHolds' /\ DownIsEmpty'
    BY <1>1, <2>2, <2>4
    DEF Join, HasJoined, SendsOwn, Untouched, Taken, Recorded, ClaimHolds, UnmuterHolds, DownIsEmpty, Early
  <2> QED BY <1>1, <2>5 DEF Join
<1>2. CASE Leave
  <2>1. joinsLeft' < Joins
    BY <1>2 DEF Leave, InChat, HasJoined, NotYet
  <2> QED BY <1>2, <2>1 DEF Leave, Removed, InChat, GoneForGood
<1>3. CASE Clock
  <2>1. CASE ScheduleFallsDue
    <3>1. sched'.at = sched.at /\ sched.at # 0
      BY <2>1 DEF ScheduleFallsDue, Basis, TypeOK, StoreTypeOK
    <3>2. claim[1] \notin {"mute", "undo mute"}
      <4>1. sched' # sched
        BY <2>1 DEF ScheduleFallsDue, Basis, TypeOK, StoreTypeOK
      <4> QED BY <1>3, <4>1 DEF Clock, ExpireAttempt
    <3>3. UNCHANGED <<telegram, claim, unmuter, row, outcome>>
      BY <1>3, <2>1 DEF Clock, ScheduleFallsDue
    <3>4. Untouched' /\ Recorded' /\ ClaimHolds' /\ UnmuterHolds'
      BY <3>1, <3>2, <3>3 DEF Untouched, Taken, Recorded, ClaimHolds, UnmuterHolds
    <3> QED BY <1>3, <2>1, <3>4 DEF Clock, ScheduleFallsDue
  <2>2. CASE ExpireAttempt
    <3>1. row.id = 1 /\ row'.id = 1 /\ nextId = 2
      BY <2>2 DEF ExpireAttempt, Basis, TypeOK, StoreTypeOK, Row
    <3>2. send[1] \in {"none", "done"}
      <4>1. row' # row
        BY <2>2 DEF ExpireAttempt, Basis, TypeOK, StoreTypeOK, Row
      <4> QED BY <1>3, <3>1, <4>1 DEF Clock, ScheduleFallsDue
    <3>3. RowSettled' /\ SendsOwn' /\ Untouched'
      BY <1>3, <2>2, <3>1, <3>2 DEF Clock, ExpireAttempt, RowSettled, Settled, SendsOwn, Untouched, Taken
    <3> QED BY <1>3, <2>2, <3>3 DEF Clock, ExpireAttempt
  <2> QED BY <1>3, <2>1, <2>2 DEF Clock
<1> QED BY <1>1, <1>2, <1>3

\* The join handlers, up to the row of the challenge.
LEMMA StayJoining ==
    ASSUME Basis, FirstStay, FirstStay', Staying, JoinStep
    PROVE  Staying'
<1> USE StayFrame, OneChallenge DEF Staying
<1>0. admitting \in Nat /\ preparing \in Nat /\ joinUpdates \in Nat
  BY DEF Basis, TypeOK, JoiningTypeOK
<1>1. CASE IgnoreJoin \/ ClaimJoin \/ ReadSettings \/ Admit \/ Refuse
  <2>1. UNCHANGED <<store, telegram, joinsLeft, system, send, claim, workers, handlers>>
    BY <1>1 DEF IgnoreJoin, ClaimJoin, ReadSettings, Admit, Refuse
  <2>0. joinUpdates # 0 \/ admitting # 0 \/ preparing # 0
    <3>1. joinUpdates > 0 \/ admitting > 0 \/ preparing > 0
      BY <1>1, Zenon DEF IgnoreJoin, ClaimJoin, ReadSettings, Admit, Refuse
    <3> QED BY <1>0, <3>1
  <2>2. HasJoined'
    BY <2>0, <2>1 DEF HasJoined, NotYet
  <2>a. up = "serving"
    <3>1. CASE IgnoreJoin \/ ClaimJoin
      BY <3>1 DEF IgnoreJoin, ClaimJoin
    <3>2. CASE ReadSettings \/ Admit \/ Refuse
      <4>1. admitting > 0 \/ preparing > 0
        BY <3>2, Zenon DEF ReadSettings, Admit, Refuse
      <4>2. admitting # 0 \/ preparing # 0
        BY <1>0, <4>1
      <4> QED BY <4>2 DEF DownIsEmpty
    <3> QED BY <1>1, <3>1, <3>2
  <2>3. DownIsEmpty'
    BY <2>1, <2>a DEF DownIsEmpty
  <2> QED BY <2>1, <2>2, <2>3
<1>2. CASE Challenge
  <2>1. nextId = 1 /\ nextId' = 2
    BY <1>2 DEF Challenge, CreateAttempt, FirstStay
  <2>2. row'.id = 1 /\ row'.expired = FALSE /\ outcome'[1] = "pending"
    BY <1>2, <2>1 DEF Challenge, CreateAttempt, NoRow
  <2>3. send'[1] = "mute" /\ \A a \in Attempt : a # 1 => send'[a] = send[a]
    BY <1>2, <2>1 DEF Challenge, Basis, TypeOK
  <2>4. ~Taken /\ row.id = 0 /\ member # "muted"
    BY <2>1 DEF Taken, Untouched
  <2>5. up = "serving" /\ joinsLeft < Joins
    BY <1>0, <1>2 DEF Challenge, DownIsEmpty, HasJoined, NotYet
  <2>6. UNCHANGED <<telegram, joinsLeft, system, muteTable, claim, workers, handlers>>
    BY <1>2 DEF Challenge, CreateAttempt
  <2>7. SendsOwn'
    BY <2>1, <2>2, <2>3, <2>4, <2>6 DEF SendsOwn
  <2>8. RowSettled' /\ TimersSettled' /\ SweepSettled' /\ ClicksSettled'
    BY <2>1, <2>2, <2>6 DEF RowSettled, Taken, TimersSettled, SweepSettled, ClicksSettled, Settled
  <2>9. HasJoined' /\ DownIsEmpty'
    BY <2>5, <2>6 DEF HasJoined, DownIsEmpty
  <2>10. Untouched' /\ Recorded'
    BY <2>2, <2>4, <2>6 DEF Untouched, Recorded, Taken
  <2> QED BY <2>6, <2>7, <2>8, <2>9, <2>10
<1> QED BY <1>1, <1>2 DEF JoinStep

\* Whoever takes the row schedules the unmute with it, and alone goes on.
LEMMA StayTakes ==
    ASSUME Basis, FirstStay, Staying, Settled', UNCHANGED <<telegram, nextId, unmuter>>, row.id = 1,
           NEW how \in {"verified", "punished", "released"}, Release(1, how),
           NEW pc \in {"unmute", "release", "punish", "store mute"}, claim' = [claim EXCEPT ![1] = pc],
           pc = "store mute" => FailureAction = "mute"
    PROVE  RowSettled' /\ Untouched' /\ Recorded' /\ ClaimHolds' /\ UnmuterHolds'
<1> USE OneChallenge DEF Staying
<1>1. row'.id = 0 /\ outcome'[1] = how /\ claim'[1] = pc
  BY DEF Release, TakeRow, NoRow, Basis, TypeOK, StoreTypeOK
<1>2. sched'.at = stamp /\ stamp # 0
  BY DEF Release, CreateMutedUser, Basis, TypeOK, StoreTypeOK
<1>3. ~Taken /\ unmuter.pc = "idle"
  BY DEF Taken, Untouched
<1>4. RowSettled' /\ Untouched' /\ Recorded'
  BY <1>1, <1>2 DEF RowSettled, Untouched, Recorded, Taken
<1>5. ClaimHolds' /\ UnmuterHolds'
  BY <1>1, <1>2, <1>3 DEF ClaimHolds, UnmuterHolds
<1> QED BY <1>4, <1>5

\* SendCaptcha: the row is there until it has muted the user and posted the challenge.
LEMMA StaySending ==
    ASSUME Basis, FirstStay, Staying, NEW a \in Attempt, SendStep(a)
    PROVE  Staying'
<1> USE StayFrame, OneChallenge DEF Staying
<1>0. a = 1 /\ nextId = 2 /\ send \in [Attempt -> SendPC]
  BY DEF SendStep, MuteForCaptcha, DropCaptcha, PostCaptcha, RecordCaptcha, RollbackCaptcha, StepSend,
         SendsOwn, Basis, TypeOK
<1>1. /\ \A b \in Attempt : b # 1 => send'[b] = send[b]
      /\ send[1] \in {"mute", "drop", "post", "rollback", "record"}
      /\ UNCHANGED <<joining, settings, system, nextId, sweep, unmuter, handlers>>
  BY <1>0 DEF SendStep, MuteForCaptcha, DropCaptcha, DeleteByID, TakeRow, PostCaptcha, RecordCaptcha,
              UpdateMessageID, RollbackCaptcha, Release, StepSend
<1>2. up = "serving" /\ sweep.pc # "recover"
  BY <1>1 DEF DownIsEmpty
<1>3. DownIsEmpty'
  BY <1>1, <1>2 DEF DownIsEmpty
<1>4. Settled => send[1] = "record"
  BY <1>1 DEF Settled
<1>5. ~Settled \/ Settled' => SweepSettled' /\ ClicksSettled' /\ (UNCHANGED timer => TimersSettled')
  BY <1>1 DEF TimersSettled, SweepSettled, ClicksSettled
<1>6. CASE send[1] # "record"
  <2>1. ~Settled /\ row.id = 1 /\ ~row.expired /\ ~Taken
    BY <1>1, <1>6 DEF Settled, SendsOwn, RowSettled
  <2>2. CASE MuteForCaptcha(1)
    <3>1. send[1] = "mute" /\ send'[1] \in {"post", "drop"}
          /\ UNCHANGED <<store, claim, workers, handlers, leftUpdates>>
      BY <1>0, <2>2 DEF MuteForCaptcha, StepSend, Muted
    <3>2. send'[1] = "drop" => UNCHANGED member
      BY <1>0, <2>2 DEF MuteForCaptcha, StepSend
    <3>3. UNCHANGED member \/ (member' = "muted" /\ send'[1] = "post")
      BY <1>0, <2>2 DEF MuteForCaptcha, Muted, StepSend
    <3>4. SendsOwn'
      BY <1>0, <1>1, <2>1, <3>1, <3>2 DEF SendsOwn
    <3>5. RowSettled' /\ Untouched' /\ Recorded'
      BY <2>1, <3>1, <3>3 DEF RowSettled, Taken, Untouched, Recorded
    <3>6. claim[1] = "none" /\ unmuter.pc = "idle"
      BY <2>1 DEF Untouched
    <3>7. ClaimHolds' /\ UnmuterHolds'
      BY <3>1, <3>6 DEF ClaimHolds, UnmuterHolds, Early
    <3>8. HasJoined'
      BY <1>0, <1>1 DEF HasJoined, NotYet
    <3> QED BY <1>1, <1>3, <1>5, <2>1, <3>1, <3>4, <3>5, <3>7, <3>8
  <2>3. CASE PostCaptcha(1)
    <3>1. send'[1] \in {"record", "rollback"} /\ UNCHANGED <<store, telegram, claim, workers, handlers>>
      BY <1>0, <2>3 DEF PostCaptcha, StepSend
    <3>2. SendsOwn' /\ RowSettled'
      BY <1>0, <1>1, <2>1, <3>1 DEF SendsOwn, RowSettled, Taken
    <3> QED BY <1>1, <1>3, <1>5, <2>1, <3>1, <3>2
  <2>4. CASE DropCaptcha(1)
    <3>1. send'[1] = "done" /\ send[1] = "drop" /\ UNCHANGED <<muteTable, telegram, claim, workers, handlers>>
      BY <1>0, <2>1, <2>4 DEF DropCaptcha, StepSend, DeleteByID
    <3>2. row'.id = 0 /\ outcome'[1] = "withdrawn"
      BY <2>1, <2>4 DEF DropCaptcha, DeleteByID, TakeRow, NoRow, Basis, TypeOK, StoreTypeOK
    <3>3. SendsOwn' /\ RowSettled' /\ Settled'
      BY <1>0, <1>1, <3>1, <3>2 DEF SendsOwn, RowSettled, Settled
    <3>4. Untouched' /\ Recorded'
      BY <2>1, <3>1, <3>2 DEF Untouched, Recorded, Taken, SendsOwn
    <3> QED BY <1>1, <1>3, <1>5, <3>1, <3>3, <3>4
  <2>5. CASE RollbackCaptcha(1)
    <3>1. send'[1] = "done" /\ UNCHANGED <<telegram, workers, handlers>>
      BY <1>0, <2>5 DEF RollbackCaptcha, StepSend
    <3>2. Release(1, "released") /\ claim' = [claim EXCEPT ![1] = "unmute"]
      BY <2>1, <2>5 DEF RollbackCaptcha
    <3>3. Settled'
      BY <1>0, <1>1, <3>1 DEF Settled
    <3>4. RowSettled' /\ Untouched' /\ Recorded' /\ ClaimHolds' /\ UnmuterHolds'
      BY <1>1, <2>1, <3>1, <3>2, <3>3, StayTakes
    <3>5. SendsOwn'
      BY <1>0, <1>1, <3>1 DEF SendsOwn
    <3> QED BY <1>1, <1>3, <1>5, <3>1, <3>3, <3>4, <3>5
  <2> QED BY <1>0, <1>6, <2>2, <2>3, <2>4, <2>5 DEF SendStep, RecordCaptcha, StepSend
<1>7. CASE send[1] = "record"
  <2>1. RecordCaptcha(1)
    BY <1>0, <1>7 DEF SendStep, MuteForCaptcha, DropCaptcha, PostCaptcha, RollbackCaptcha, StepSend
  <2>2. send'[1] = "done" /\ Settled /\ Settled'
    BY <1>0, <1>1, <2>1 DEF RecordCaptcha, StepSend, Settled
  <2>3. row'.id = row.id /\ row'.expired = row.expired /\ UNCHANGED <<outcome, muteTable, telegram, claim>>
    BY <2>1 DEF RecordCaptcha, UpdateMessageID, Basis, TypeOK, StoreTypeOK, Row
  <2>4. SendsOwn' /\ RowSettled' /\ TimersSettled' /\ SweepSettled' /\ ClicksSettled'
    BY <1>0, <1>1, <2>2 DEF SendsOwn, RowSettled, TimersSettled, SweepSettled, ClicksSettled
  <2>5. Untouched'
    BY <1>1, <2>3 DEF Untouched, Taken
  <2> QED BY <1>1, <1>3, <2>3, <2>4, <2>5
<1> QED BY <1>6, <1>7

\* A claim by any handler that holds a verdict: the row is taken, or was gone.
LEMMA StayClaims ==
    ASSUME Basis, FirstStay, Staying, Settled', UNCHANGED <<telegram, nextId, unmuter, send>>,
           NEW a \in 0..LastId, a # 0, NEW verdict, Claim(a, verdict)
    PROVE  /\ SendsOwn' /\ RowSettled' /\ Untouched' /\ Recorded' /\ ClaimHolds' /\ UnmuterHolds'
           /\ UNCHANGED nextId
<1> USE StayFrame, OneChallenge DEF Staying
<1>1. Settled
  BY DEF Settled
<1>2. CASE UNCHANGED <<store, claim>>
  BY <1>2
<1>3. CASE ~UNCHANGED <<store, claim>>
  <2>1. a = 1 /\ row.id = 1
    BY <1>3 DEF Claim, Release, TakeRow
  <2>2. PICK pc \in {"release", "punish", "store mute"} :
           claim' = [claim EXCEPT ![1] = pc] /\ (pc = "store mute" => FailureAction = "mute")
    BY <1>3, <2>1 DEF Claim
  <2>3. PICK how \in {"punished", "released"} : Release(1, how)
    BY <1>3, <2>1 DEF Claim
  <2>4. RowSettled' /\ Untouched' /\ Recorded' /\ ClaimHolds' /\ UnmuterHolds'
    BY <2>1, <2>2, <2>3, StayTakes
  <2>5. SendsOwn'
    BY <1>1 DEF SendsOwn, Settled
  <2> QED BY <2>4, <2>5
<1> QED BY <1>2, <1>3

\* The timers, the recovery pass and the cleanup worker.
LEMMA StayWorkers ==
    ASSUME Basis, FirstStay, Staying, SweepStep \/ \E a \in Attempt : TimerStep(a)
    PROVE  Staying'
<1> USE StayFrame, OneChallenge DEF Staying
<1>0. timer \in [Attempt -> Timer] /\ sweep.id \in 0..LastId
  BY DEF Basis, TypeOK, WorkersTypeOK, SweepJob, Job
<1>1. ASSUME NEW a \in Attempt, TimerFires(a) PROVE Staying'
  <2>1. timer[a].pc # "off" /\ \A b \in Attempt : b # a => timer'[b] = timer[b]
    BY <1>0, <1>1 DEF TimerFires, SetTimer
  <2>2. TimersSettled'
    BY <1>1, <2>1 DEF TimerFires, TimersSettled, Settled
  <2> QED BY <1>1, <2>2 DEF TimerFires
<1>2. ASSUME NEW a \in Attempt, TimerClaims(a) PROVE Staying'
  <2>1. timer[a].pc # "off" /\ \A b \in Attempt : b # a => timer'[b] = timer[b]
    BY <1>0, <1>2 DEF TimerClaims, SetTimer
  <2>2. UNCHANGED <<telegram, joining, settings, system, send, sweep, unmuter, handlers>>
        /\ Claim(a, timer[a].pc)
    BY <1>2 DEF TimerClaims
  <2>3. UNCHANGED nextId
    BY <2>2 DEF Claim, Release, TakeRow
  <2>4. Settled /\ Settled'
    BY <2>1, <2>2, <2>3 DEF TimersSettled, Settled
  <2>5. SendsOwn' /\ RowSettled' /\ Untouched' /\ Recorded' /\ ClaimHolds' /\ UnmuterHolds'
    BY <2>2, <2>3, <2>4, StayClaims DEF Attempt
  <2>6. TimersSettled'
    BY <2>4 DEF TimersSettled
  <2> QED BY <2>2, <2>3, <2>5, <2>6
<1>3. CASE SweepPicks
  <2>1. row.id = 1 /\ row.expired
    BY <1>3 DEF SweepPicks, NoRow
  <2>2. sweep'.id = 1 /\ sweep'.pc # "recover"
    BY <1>3, <2>1, VerdictTypes DEF SweepPicks, AtRow
  <2>3. UNCHANGED <<up, joining, send, nextId>> /\ Settled
    BY <1>3, <2>1 DEF SweepPicks, RowSettled
  <2>4. SweepSettled' /\ DownIsEmpty'
    BY <2>2, <2>3 DEF SweepSettled, Settled, DownIsEmpty
  <2> QED BY <1>3, <2>4 DEF SweepPicks
<1>4. CASE SweepClaims
  <2>1. UNCHANGED <<telegram, joining, settings, system, send, timer, unmuter, handlers>>
        /\ Claim(sweep.id, sweep.pc)
    BY <1>4 DEF SweepClaims
  <2>2. UNCHANGED nextId
    BY <2>1 DEF Claim, Release, TakeRow
  <2>3. Settled /\ Settled' /\ sweep.id # 0
    BY <1>4, <2>1, <2>2 DEF SweepClaims, SweepSettled, Settled
  <2>4. SendsOwn' /\ RowSettled' /\ Untouched' /\ Recorded' /\ ClaimHolds' /\ UnmuterHolds'
    BY <1>0, <2>1, <2>2, <2>3, StayClaims
  <2>5. sweep'.pc = "idle"
    BY <1>4 DEF SweepClaims, Idle, At
  <2>6. SweepSettled' /\ DownIsEmpty'
    BY <2>1, <2>5 DEF SweepSettled, DownIsEmpty
  <2> QED BY <2>1, <2>2, <2>4, <2>6
<1>5. CASE RecoveryPicks
  <2>1. send[1] = "none" /\ UNCHANGED <<store, telegram, joining, settings, system, send, claim, unmuter,
                                        handlers>>
    BY <1>5 DEF RecoveryPicks, DownIsEmpty
  <2>2. row.id # 0 => Settled /\ Settled'
    BY <2>1 DEF Settled
  <2>3. sweep'.pc # "recover" /\ (sweep'.pc \in {"release", "punish"} => row.id # 0 /\ sweep'.id = row.id)
    BY <1>5 DEF RecoveryPicks, AtRow, Idle, At, Verdict
  <2>4. SweepSettled' /\ DownIsEmpty'
    BY <2>1, <2>2, <2>3 DEF SweepSettled, DownIsEmpty
  <2>5. TimersSettled'
    BY <1>0, <1>5, <2>1, <2>2 DEF RecoveryPicks, TimersSettled, Settled
  <2> QED BY <2>1, <2>4, <2>5
<1>6. CASE RecoveryEnds
  <2>1. sweep.pc = "idle"
    BY <1>6 DEF RecoveryEnds, SweepFree
  <2>2. DownIsEmpty'
    BY <1>6, <2>1 DEF RecoveryEnds, DownIsEmpty
  <2> QED BY <1>6, <2>2 DEF RecoveryEnds
<1> QED BY <1>1, <1>2, <1>3, <1>4, <1>5, <1>6 DEF SweepStep, TimerStep

\* The buttons: right and wrong answers, and refreshes.
LEMMA StayButtons ==
    ASSUME Basis, FirstStay, Staying,
           \/ \E c \in Clicker : PressButton(c) \/ ClickStep(c)
           \/ \E f \in Refresher : PressRefresh(f) \/ RefreshStep(f)
    PROVE  Staying'
<1> USE StayFrame, OneChallenge DEF Staying
<1>0. click \in [Clicker -> ClickJob]
  BY DEF Basis, TypeOK, HandlersTypeOK
<1>1. ASSUME NEW c \in Clicker, PressButton(c) PROVE Staying'
  <2>1. row.id = 1 /\ Settled
    BY <1>1 DEF PressButton, Answerable, Settled, Basis, TypeOK, SendPC
  <2>2. ClicksSettled'
    BY <1>1, <2>1 DEF PressButton, ClicksSettled, Settled
  <2> QED BY <1>1, <2>2 DEF PressButton
<1>2. ASSUME NEW c \in Clicker, ClickStep(c) PROVE Staying'
  <2>1. click[c].pc # "idle" /\ UNCHANGED <<telegram, joining, settings, system, send, workers, refr, left,
                                            approver, admin>>
    BY <1>2 DEF ClickStep, RightAnswer, WrongAnswer, CountWrong, LastWrong
  <2>2. UNCHANGED nextId
    BY <1>2 DEF ClickStep, RightAnswer, Complete, WrongAnswer, IncrementAttempts, CountWrong, LastWrong,
                Claim, Release, TakeRow
  <2>3. Settled /\ Settled'
    BY <2>1, <2>2 DEF ClicksSettled, Settled
  <2>4. TimersSettled' /\ SweepSettled' /\ ClicksSettled'
    BY <2>1, <2>3 DEF TimersSettled, SweepSettled, ClicksSettled
  <2>5. SendsOwn'
    BY <2>1, <2>2, <2>3 DEF SendsOwn, Settled
  <2>6. CASE UNCHANGED <<store, claim>>
    BY <2>1, <2>2, <2>4, <2>6
  <2>7. CASE RightAnswer(c) /\ ~UNCHANGED <<store, claim>>
    <3>1. click[c].id = 1 /\ row.id = 1 /\ Release(1, "verified") /\ claim' = [claim EXCEPT ![1] = "unmute"]
      BY <2>7 DEF RightAnswer, Complete, Unchanged, Held
    <3>2. RowSettled' /\ Untouched' /\ Recorded' /\ ClaimHolds' /\ UnmuterHolds'
      BY <2>1, <2>2, <2>3, <3>1, StayTakes
    <3> QED BY <2>1, <2>2, <2>4, <2>5, <3>2
  <2>8. CASE WrongAnswer(c) /\ ~UNCHANGED <<store, claim>>
    <3>1. row'.id = row.id /\ row'.expired = row.expired /\ UNCHANGED <<outcome, muteTable, claim>>
      BY <2>8 DEF WrongAnswer, IncrementAttempts, Basis, TypeOK, StoreTypeOK, Row
    <3>2. RowSettled' /\ Untouched'
      BY <2>1, <2>3, <3>1 DEF RowSettled, Untouched, Taken
    <3> QED BY <2>1, <2>2, <2>4, <2>5, <3>1, <3>2
  <2>9. CASE LastWrong(c) /\ ~UNCHANGED <<store, claim>>
    <3>1. click[c].id \in 0..LastId /\ click[c].id # 0
      BY <1>0, <2>9 DEF LastWrong, ClickJob, Job, Basis, HandlersAgree, ClicksAgree
    <3>2. RowSettled' /\ Untouched' /\ Recorded' /\ ClaimHolds' /\ UnmuterHolds'
      BY <2>1, <2>2, <2>3, <2>9, <3>1, StayClaims DEF LastWrong
    <3> QED BY <2>1, <2>2, <2>4, <2>5, <3>2
  <2> QED BY <1>2, <2>6, <2>7, <2>8, <2>9 DEF ClickStep, CountWrong
<1>3. ASSUME NEW f \in Refresher, PressRefresh(f) \/ RefreshStep(f) PROVE Staying'
  <2>1. UNCHANGED <<telegram, joining, settings, system, send, claim, workers, click, left, approver,
                    admin, nextId, outcome, muteTable>>
    BY <1>3 DEF PressRefresh, RefreshStep, SwapCaptcha, UpdateOnRefresh, StartCooldown
  <2>2. row'.id = row.id /\ row'.expired = row.expired
    BY <1>3 DEF PressRefresh, RefreshStep, SwapCaptcha, UpdateOnRefresh, StartCooldown, Basis, TypeOK,
                StoreTypeOK, Row
  <2>3. SendsOwn' /\ RowSettled' /\ Untouched'
    BY <2>1, <2>2 DEF SendsOwn, RowSettled, Settled, Untouched, Taken
  <2> QED BY <2>1, <2>3
<1> QED BY <1>1, <1>2, <1>3

\* What follows a claim: the user leaves, is muted under a schedule of a day, or is
\* freed before the schedule is forgotten.
LEMMA StayFollows ==
    ASSUME Basis, FirstStay, Staying, NEW a \in Attempt, ClaimStep(a),
           FailureAction = "mute" => "punish" \notin FaultyCalls
    PROVE  GoneForGood' \/ Staying'
<1> USE StayFrame, OneChallenge DEF Staying
<1>0. a = 1 /\ nextId = 2 /\ claim \in [Attempt -> ClaimPC] /\ claim[1] # "none"
  BY DEF ClaimStep, Punish, StoreMute, CallMute, UndoMute, RestoreClaimed, RearmClaimed, ReleaseClaimed,
         ClearClaimed, StepClaim, Basis, TypeOK
<1>1. /\ UNCHANGED <<joining, settings, system, attemptTable, send, workers, handlers>>
      /\ Taken /\ Settled /\ joinsLeft < Joins /\ row.id = 0
  <2>1. UNCHANGED <<joining, settings, system, attemptTable, send, workers, handlers>>
    BY DEF ClaimStep, Punish, StoreMute, CallMute, UndoMute, RestoreClaimed, RearmClaimed, ReleaseClaimed,
           ClearClaimed
  <2>2. Taken /\ Settled
    BY <1>0 DEF Untouched, RowSettled
  <2> QED BY <1>0, <2>1, <2>2 DEF HasJoined, NotYet, Taken
<1>2. Settled' /\ Taken' /\ HasJoined' /\ SendsOwn' /\ Untouched'
  BY <1>1 DEF Settled, Taken, HasJoined, SendsOwn, Untouched
<1>3. ASSUME UNCHANGED leftUpdates, Recorded', ClaimHolds', UnmuterHolds' PROVE Staying'
  BY <1>1, <1>2, <1>3
<1>4. CASE ~InChat'
  BY <1>1, <1>4 DEF GoneForGood
<1>5. CASE ~InChat /\ UNCHANGED member
  BY <1>4, <1>5 DEF InChat
<1>6. CASE InChat' /\ InChat
  <2>1. CASE Punish(1)
    <3>1. claim[1] = "punish" /\ claim'[1] = "unmute" /\ UNCHANGED <<telegram, muteTable, unmuter>>
      BY <1>0, <1>6, <2>1 DEF Punish, StepClaim, Removed, InChat
    <3>2. ClaimHolds'
      BY <3>1 DEF ClaimHolds, Early
    <3> QED BY <1>1, <1>3, <3>1, <3>2
  <2>2. CASE StoreMute(1)
    <3>1. claim[1] = "store mute" /\ claim'[1] = "mute" /\ UNCHANGED <<telegram, unmuter>>
      BY <1>0, <2>2 DEF StoreMute, StepClaim
    <3>2. sched'.at = stamp /\ sched'.due = FALSE /\ stamp # 0
      BY <2>2 DEF StoreMute, CreateMutedUser, Basis, TypeOK, StoreTypeOK
    <3>3. unmuter.pc # "idle" => unmuter.at # stamp
      BY DEF Basis, TypeOK, StoreTypeOK, StampsGrow
    <3>4. Recorded' /\ ClaimHolds' /\ UnmuterHolds'
      BY <3>1, <3>2, <3>3 DEF Recorded, ClaimHolds, Early, UnmuterHolds
    <3> QED BY <1>3, <3>1, <3>4
  <2>3. CASE CallMute(1)
    <3>1. claim[1] = "mute" /\ claim'[1] = "done" /\ member' = "muted"
          /\ UNCHANGED <<leftUpdates, muteTable, unmuter>>
      BY <1>0, <1>6, <2>3 DEF CallMute, StepClaim, Muted, Fails, ClaimHolds
    <3>2. sched.at # 0 /\ ~sched.due
      BY <3>1 DEF ClaimHolds
    <3>3. unmuter.pc # "idle" => unmuter.at # sched.at
      BY <3>2 DEF Basis, StampsGrow
    <3>4. Recorded' /\ ClaimHolds' /\ UnmuterHolds'
      BY <3>1, <3>2, <3>3 DEF Recorded, ClaimHolds, Early, UnmuterHolds
    <3> QED BY <1>3, <3>1, <3>4
  <2>4. CASE UndoMute(1)
    BY <2>4 DEF UndoMute, StepClaim, ClaimHolds
  <2>5. CASE RestoreClaimed(1) \/ ReleaseClaimed(1)
    <3>1. claim[1] \in {"unmute", "release"} /\ UNCHANGED <<leftUpdates, muteTable, unmuter>>
      BY <2>5 DEF RestoreClaimed, ReleaseClaimed, StepClaim, Unmuted, UnmuteGone, UnmuteFails
    <3>2. \/ claim'[1] = "clear" /\ member' = "free"
          \/ claim'[1] \in {"rearm", "done"} /\ UNCHANGED member
      BY <1>0, <1>6, <2>5 DEF RestoreClaimed, ReleaseClaimed, StepClaim, Unmuted, UnmuteGone, UnmuteFails
    <3>3. Recorded' /\ UnmuterHolds'
      BY <1>1, <3>1, <3>2 DEF Recorded, UnmuterHolds
    <3>4. ClaimHolds'
      BY <3>1, <3>2 DEF ClaimHolds, Early
    <3> QED BY <1>3, <3>1, <3>3, <3>4
  <2>6. CASE RearmClaimed(1)
    <3>1. claim[1] = "rearm" /\ claim'[1] = "done" /\ UNCHANGED <<telegram, unmuter>>
      BY <1>0, <2>6 DEF RearmClaimed, StepClaim
    <3>2. sched'.at = stamp /\ stamp # 0
      BY <2>6 DEF RearmClaimed, CreateMutedUser, Basis, TypeOK, StoreTypeOK
    <3>3. unmuter.pc # "idle" => unmuter.at # stamp
      BY DEF Basis, TypeOK, StoreTypeOK, StampsGrow
    <3>4. Recorded' /\ ClaimHolds' /\ UnmuterHolds'
      BY <3>1, <3>2, <3>3 DEF Recorded, ClaimHolds, Early, UnmuterHolds
    <3> QED BY <1>3, <3>1, <3>4
  <2>7. CASE ClearClaimed(1)
    <3>1. claim[1] = "clear" /\ claim'[1] = "done" /\ member = "free" /\ UNCHANGED <<telegram, unmuter>>
      BY <1>0, <2>7 DEF ClearClaimed, StepClaim, ClaimHolds
    <3>2. unmuter.pc # "idle" => unmuter.pc \in {"unmute", "remove"}
      BY <3>1 DEF ClaimHolds, Early
    <3>3. Recorded' /\ ClaimHolds' /\ UnmuterHolds'
      BY <3>1, <3>2 DEF Recorded, ClaimHolds, Early, UnmuterHolds
    <3> QED BY <1>3, <3>1, <3>3
  <2> QED BY <1>0, <2>1, <2>2, <2>3, <2>4, <2>5, <2>6, <2>7 DEF ClaimStep
<1>7. InChat \/ UNCHANGED member \/ ~InChat'
  BY <1>0 DEF ClaimStep, Punish, StoreMute, CallMute, UndoMute, RestoreClaimed, RearmClaimed,
              ReleaseClaimed, ClearClaimed, Removed, Muted, Unmuted, UnmuteGone, UnmuteFails, InChat
<1> QED BY <1>4, <1>5, <1>6, <1>7

\* The unmute worker: it forgets the schedule it came for, or mutes the user again.
LEMMA StayUnmuter ==
    ASSUME Basis, FirstStay, Staying, UnmuterStep
    PROVE  GoneForGood' \/ Staying'
<1> USE StayFrame, OneChallenge DEF Staying
<1>0. unmuter \in UnmuterJob /\ sched.at \in Nat /\ unmuter.at \in Nat
  BY DEF Basis, TypeOK, WorkersTypeOK, StoreTypeOK, UnmuterJob
<1>1. /\ UNCHANGED <<joining, settings, system, attemptTable, send, claim, timer, sweep, handlers>>
      /\ sched.at # 0 \/ unmuter.pc # "idle"
  BY DEF UnmuterStep, UnmuterPicks, UnmuterUnmutes, UnmuterRemoves, UnmuterReloads, UnmuterRemutes,
         StepUnmuter, Basis, StampsGrow
<1>2. Taken /\ joinsLeft < Joins /\ row.id = 0
  BY <1>1 DEF Untouched, HasJoined, NotYet, Taken
<1>3. HasJoined' /\ Untouched' /\ RowSettled'
  BY <1>1, <1>2 DEF HasJoined, Untouched, RowSettled, Settled, Taken
<1>4. ASSUME UNCHANGED leftUpdates, SendsOwn', Recorded', ClaimHolds', UnmuterHolds' PROVE Staying'
  BY <1>1, <1>3, <1>4
<1>5. CASE ~InChat'
  BY <1>1, <1>2, <1>5 DEF GoneForGood
<1>6. CASE InChat'
  <2>1. CASE UnmuterPicks
    <3>1. unmuter'.pc = "unmute" /\ unmuter'.at = sched.at /\ UNCHANGED <<telegram, sched>>
      BY <2>1 DEF UnmuterPicks
    <3>2. ClaimHolds' /\ UnmuterHolds'
      BY <1>1, <3>1 DEF ClaimHolds, UnmuterHolds
    <3> QED BY <1>1, <1>4, <3>1, <3>2
  <2>2. CASE UnmuterUnmutes
    <3>1. /\ UNCHANGED <<leftUpdates, sched>> /\ unmuter.pc = "unmute"
          /\ \/ unmuter'.pc = "remove" /\ unmuter'.at = unmuter.at /\ member' = "free"
             \/ unmuter'.pc = "idle" /\ UNCHANGED member
      BY <1>0, <1>6, <2>2
      DEF UnmuterUnmutes, StepUnmuter, Unmuted, UnmuteGone, UnmuteFails, InChat, UnmuteIdle, UnmuterJob
    <3>2. SendsOwn' /\ Recorded'
      BY <1>1, <1>2, <3>1 DEF SendsOwn, Recorded
    <3>3. ClaimHolds' /\ UnmuterHolds'
      BY <1>1, <3>1 DEF ClaimHolds, UnmuterHolds
    <3> QED BY <1>4, <3>1, <3>2, <3>3
  <2>3. CASE UnmuterRemoves
    <3>1. UNCHANGED telegram /\ unmuter.pc = "remove"
      BY <2>3 DEF UnmuterRemoves, UnmuterHolds
    <3>2. CASE sched.at = unmuter.at /\ sched' = NoSchedule /\ unmuter' = UnmuteIdle
      <4>1. member # "muted" /\ sched'.at = 0 /\ unmuter'.pc = "idle"
        BY <3>1, <3>2 DEF UnmuterHolds, NoSchedule, UnmuteIdle
      <4>2. claim[1] # "mute"
        BY <3>1, <3>2 DEF ClaimHolds, Basis, StampsGrow
      <4>3. Recorded' /\ ClaimHolds' /\ UnmuterHolds'
        BY <1>1, <3>1, <4>1, <4>2 DEF Recorded, ClaimHolds, UnmuterHolds
      <4> QED BY <1>1, <1>4, <3>1, <4>3
    <3>3. CASE sched.at # unmuter.at /\ UNCHANGED sched /\ StepUnmuter("remove", "reload")
      <4>1. unmuter'.pc = "reload"
        BY <1>0, <3>3 DEF StepUnmuter, UnmuterJob
      <4>2. claim[1] \notin Early
        BY <3>1, <3>3 DEF ClaimHolds
      <4>3. ClaimHolds' /\ UnmuterHolds'
        BY <1>1, <3>1, <3>3, <4>1, <4>2 DEF ClaimHolds, Early, UnmuterHolds
      <4> QED BY <1>1, <1>4, <3>1, <3>3, <4>3
    <3> QED BY <2>3, <3>1, <3>2, <3>3
            DEF UnmuterRemoves, DeleteMutedUserIfUnchanged, DeleteMutedUser, StepUnmuter
  <2>4. CASE UnmuterReloads
    <3>1. UNCHANGED <<telegram, sched>> /\ unmuter.pc = "reload"
      BY <2>4 DEF UnmuterReloads, StepUnmuter
    <3>2. claim[1] \notin Early
      BY <3>1 DEF ClaimHolds
    <3>3. unmuter'.pc = "idle" \/ (unmuter'.pc = "remute" /\ sched.at # 0)
      BY <1>0, <2>4 DEF UnmuterReloads, StepUnmuter, UnmuterJob, UnmuteIdle
    <3>4. ClaimHolds' /\ UnmuterHolds'
      BY <1>1, <3>1, <3>2, <3>3 DEF ClaimHolds, Early, UnmuterHolds
    <3> QED BY <1>1, <1>4, <3>1, <3>4
  <2>5. CASE UnmuterRemutes
    <3>1. UNCHANGED <<leftUpdates, sched>> /\ unmuter.pc = "remute" /\ unmuter'.pc = "idle"
      BY <2>5 DEF UnmuterRemutes, StepUnmuter, UnmuteIdle, Muted
    <3>2. claim[1] \notin Early /\ sched.at # 0
      BY <3>1 DEF ClaimHolds, UnmuterHolds
    <3>3. Recorded' /\ ClaimHolds' /\ UnmuterHolds'
      BY <1>1, <3>1, <3>2 DEF Recorded, ClaimHolds, Early, UnmuterHolds
    <3>4. SendsOwn'
      BY <1>1, <1>2 DEF SendsOwn, RowSettled, Settled
    <3> QED BY <1>4, <3>1, <3>3, <3>4
  <2> QED BY <2>1, <2>2, <2>3, <2>4, <2>5 DEF UnmuterStep
<1> QED BY <1>5, <1>6

\* A crash loses what the goroutines knew, and nothing that is recorded.
LEMMA StayCrash ==
    ASSUME Basis, FirstStay, Staying, Crash \/ Restart
    PROVE  Staying'
<1> USE StayFrame, OneChallenge DEF Staying
<1>1. CASE Crash
  <2>1. /\ \A a \in Attempt : send'[a] = "none" /\ claim'[a] = "none" /\ timer'[a].pc = "off"
        /\ sweep'.pc = "idle" /\ unmuter'.pc = "idle" /\ left'.pc = "idle" /\ approver'.pc = "idle"
        /\ admin'.pc = "idle"
        /\ admitting' = 0 /\ preparing' = 0 /\ \A c \in Clicker : click'[c].pc = "idle"
    BY <1>1 DEF Crash, NoTask, NoTimer, Idle, At, UnmuteIdle, AdminIdle
  <2>2. UNCHANGED <<store, telegram, joinUpdates, joinsLeft>>
    BY <1>1 DEF Crash
  <2>3. LeftIdle' /\ CommandsIdle' /\ DownIsEmpty' /\ SendsOwn' /\ TimersSettled' /\ SweepSettled'
        /\ ClicksSettled'
    BY <2>1, <2>2 DEF LeftIdle, CommandsIdle, DownIsEmpty, SendsOwn, TimersSettled, SweepSettled,
                      ClicksSettled
  <2>4. HasJoined'
    BY <2>1, <2>2 DEF HasJoined, NotYet
  <2>5. RowSettled'
    BY <2>1, <2>2 DEF RowSettled, Settled, Taken, NoRow
  <2>6. Untouched' /\ Recorded' /\ ClaimHolds' /\ UnmuterHolds'
    BY <2>1, <2>2 DEF Untouched, Recorded, Taken, ClaimHolds, Early, UnmuterHolds
  <2> QED BY <2>3, <2>4, <2>5, <2>6
<1>2. CASE Restart
  <2>1. up = "down" /\ up' = "recovering" /\ sweep'.pc = "recover"
    BY <1>2 DEF Restart, At
  <2>2. UNCHANGED <<store, telegram, joining, send, claim, timer, unmuter, handlers>>
    BY <1>2 DEF Restart
  <2>3. DownIsEmpty' /\ SweepSettled'
    BY <2>1, <2>2 DEF DownIsEmpty, SweepSettled
  <2> QED BY <2>2, <2>3
<1> QED BY <1>1, <1>2

\* No command and no leave handler belongs to the first stay.
LEMMA StayStep ==
    ASSUME Basis, FirstStay, FirstStay', GoneForGood \/ Staying, Next, Prompt,
           FailureAction = "mute" => "punish" \notin FaultyCalls
    PROVE  GoneForGood' \/ Staying'
<1>1. CASE GoneForGood
  <2>1. ~Join
    <3>1. joinsLeft \in Nat /\ Joins \in Nat
      BY CaptchaAssumption DEF Basis, TypeOK, JoiningTypeOK
    <3> QED BY <1>1, <3>1 DEF Join, GoneForGood, FirstStay
  <2>2. joinsLeft' < Joins
    BY <1>1, <2>1, WhoCommands DEF GoneForGood
  <2> QED BY <1>1, <2>1, <2>2, WhoEnters DEF GoneForGood
<1>2. CASE Staying
  <2>1. ~LeftStep /\ ~ApproverStep /\ ~AdminStep
    BY <1>2
    DEF Staying, LeftIdle, CommandsIdle, LeftStep, LeftArrives, LeftReads, LeftDeletes, LeftClears,
        ApproverStep, ApproverReads, ApproverReleases,
        AdminStep, DeleteSettingsCache, DisableLists, DisableClaims, DisableUnmutes, DisableStores, StepAdmin
  <2>2. ~ApproveUser /\ \A on \in BOOLEAN : ~SetCaptchaEnabled(on)
    <3>1. orders \in Nat
      BY DEF Basis, TypeOK, SettingsTypeOK
    <3>2. orders' # orders - 1
      BY <3>1 DEF FirstStay
    <3> QED BY <3>2 DEF ApproveUser, SetCaptchaEnabled
  <2>3. CASE ForgetJoin \/ CooldownEnds \/ SettingsExpire
    <3>1. UNCHANGED <<store, telegram, joinUpdates, joinsLeft, admitting, preparing, faults, system, send,
                      claim, workers, handlers>>
      BY <2>3 DEF ForgetJoin, CooldownEnds, SettingsExpire
    <3>2. HasJoined' /\ DownIsEmpty'
      BY <1>2, <3>1 DEF Staying, HasJoined, NotYet, DownIsEmpty
    <3> QED BY <1>2, <3>1, <3>2, StayFrame DEF Staying
  <2> QED BY <1>2, <2>1, <2>2, <2>3, StayTelegram, StayJoining, StaySending, StayWorkers, StayButtons,
             StayFollows, StayUnmuter, StayCrash, Zenon
          DEF Next
<1> QED BY <1>1, <1>2

\* No step leads back into the first stay.
LEMMA StayIsFirst ==
    ASSUME Basis, Next, FirstStay'
    PROVE  FirstStay
<1>1. /\ nextId \in Nat /\ nextId' \in Nat /\ joinsLeft \in Nat /\ joinsLeft' \in Nat
      /\ orders \in Nat /\ orders' \in Nat /\ Joins \in Nat /\ Orders \in Nat
  <2>1. TypeOK /\ TypeOK'
    BY TypeInvariant DEF Basis
  <2> QED BY <2>1, CaptchaAssumption DEF TypeOK, StoreTypeOK, JoiningTypeOK, SettingsTypeOK
<1>2. nextId' >= nextId
  <2>1. nextId' = nextId \/ nextId' = nextId + 1
    BY NextIsAttemptStep DEF Basis, AttemptStep, CreateAttempt, UpdateMessageID, CountsWrong, Refreshes,
                             ExpireAttempt, Closes, TakeRow
  <2> QED BY <1>1, <2>1
<1>3. joinsLeft' <= joinsLeft /\ orders' <= orders /\ orders <= Orders
  BY BoundsFall DEF Basis
<1>4. nextId' <= 2 /\ joinsLeft' + 1 >= Joins /\ orders' = Orders
  BY DEF FirstStay
<1>5. nextId <= 2 /\ joinsLeft + 1 >= Joins /\ orders = Orders
  <2>1. \A m, n, k \in Nat : (m >= n /\ m <= k => n <= k) /\ (m <= n /\ m + 1 >= k => n + 1 >= k)
                           /\ (m <= n /\ n <= k /\ m = k => n = k)
    OBVIOUS
  <2>2. nextId <= 2
    BY <2>1, <1>1, <1>2, <1>4
  <2>3. joinsLeft + 1 >= Joins
    BY <2>1, <1>1, <1>3, <1>4
  <2>4. orders = Orders
    BY <2>1, <1>1, <1>3, <1>4
  <2> QED BY <2>2, <2>3, <2>4
<1> QED BY <1>5 DEF FirstStay

\* As long as the user has joined once and met one challenge, a user the bot has muted
\* has a challenge or a scheduled unmute in the tables: through crashes, restarts and
\* failing calls at any moment.  The hypotheses: the call that applies a 24-hour mute
\* does not fail (its undo forgets the schedule before the user is freed), and no handler
\* takes as long as a challenge or a mute lasts.
THEOREM MutesAreRecorded ==
    ASSUME Prompt, FailureAction = "mute" => "punish" \notin FaultyCalls
    PROVE  Spec => [](FirstStay => MuteIsRecorded)
<1>1. Init => StayInvariant
  <2> SUFFICES ASSUME Init PROVE Staying
    BY DEF StayInvariant
  <2>1. LeftIdle /\ CommandsIdle /\ HasJoined /\ DownIsEmpty
    BY DEF Init, StoreInit, Idle, At, AdminIdle, NoTask, LeftIdle, CommandsIdle, HasJoined, NotYet,
           DownIsEmpty
  <2>0. 1 \in Attempt
    BY StoreAssumption DEF Attempt
  <2>2. SendsOwn /\ TimersSettled /\ SweepSettled /\ ClicksSettled
    BY <2>0 DEF Init, NoTask, NoTimer, Idle, At, SendsOwn, TimersSettled, SweepSettled, ClicksSettled
  <2>3. RowSettled
    BY StoreAssumption DEF Init, StoreInit, NoRow, RowSettled, Taken, Attempt
  <2>4. Untouched /\ Recorded /\ ClaimHolds /\ UnmuterHolds
    BY <2>0 DEF Init, StoreInit, NoSchedule, NoTask, UnmuteIdle, Untouched, Recorded, ClaimHolds, Early,
                UnmuterHolds
  <2> QED BY <2>1, <2>2, <2>3, <2>4 DEF Staying
<1>2. Basis /\ StayInvariant /\ [Next]_vars => StayInvariant'
  <2> SUFFICES ASSUME Basis, StayInvariant, [Next]_vars, FirstStay' PROVE GoneForGood' \/ Staying'
    BY DEF StayInvariant
  <2>1. CASE Next
    <3>1. FirstStay
      BY <2>1, StayIsFirst
    <3> QED BY <2>1, <3>1, StayStep DEF StayInvariant
  <2>2. CASE UNCHANGED vars
    <3>1. UNCHANGED <<store, telegram, joining, faults, settings, system, send, claim, workers, handlers>>
      BY <2>2 DEF vars
    <3>2. FirstStay
      BY <3>1 DEF FirstStay
    <3>3. CASE GoneForGood
      BY <3>1, <3>3 DEF GoneForGood, InChat
    <3>4. CASE Staying
      <4>1. HasJoined' /\ DownIsEmpty'
        BY <3>1, <3>4 DEF Staying, HasJoined, NotYet, DownIsEmpty
      <4> QED BY <3>1, <3>4, <4>1, StayFrame DEF Staying
    <3> QED BY <3>2, <3>3, <3>4 DEF StayInvariant
  <2> QED BY <2>1, <2>2
<1>3. StayInvariant => (FirstStay => MuteIsRecorded)
  BY DEF StayInvariant, GoneForGood, InChat, Staying, Untouched, Recorded, MuteIsRecorded
<1> QED BY <1>1, <1>2, <1>3, Basics, PTL DEF Spec
================================================================================
