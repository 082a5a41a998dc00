----------------------------- MODULE CaptchaProofs -----------------------------
(* Theorems about Captcha, for every value of its constants: the types, what the  *)
(* handlers remember of captcha_attempts, and the refinement of CaptchaChallenge. *)
(*                                                                                *)
(* For the refinement a step of Captcha is first reduced to what it does to       *)
(* captcha_attempts (AttemptStep); each of these transactions is then a step of   *)
(* CaptchaChallenge, given HandlersAgree, which is inductive together with TypeOK.*)
EXTENDS Captcha, TLAPS

--------------------------------------------------------------------------------
(* Type correctness: what the operations of the tables, the Telegram calls and    *)
(* the steps of a handler return, then each action.                               *)

\* Every transaction of CaptchaStore leaves the tables well-typed.
LEMMA StoreTypes ==
    ASSUME StoreTypeOK
    PROVE  /\ UNCHANGED store => StoreTypeOK'
           /\ CreateAttempt => StoreTypeOK'
           /\ \A a \in Attempt : UpdateMessageID(a) => StoreTypeOK'
           /\ \A s : IncrementAttempts(s) => StoreTypeOK'
           /\ \A s : UpdateOnRefresh(s) => StoreTypeOK'
           /\ \A a \in 0..LastId : DeleteByID(a) => StoreTypeOK'
           /\ \A a \in 0..LastId, how \in Outcome : Release(a, how) => StoreTypeOK'
           /\ \A s : Complete(s) => StoreTypeOK'
           /\ \A now \in BOOLEAN : CreateMutedUser(now) /\ UNCHANGED attemptTable => StoreTypeOK'
           /\ DeleteMutedUser /\ UNCHANGED attemptTable => StoreTypeOK'
           /\ ExpireAttempt => StoreTypeOK'
           /\ ScheduleFallsDue => StoreTypeOK'
<1> USE DEF store, attemptTable, muteTable
<1>1. UNCHANGED store => StoreTypeOK'
  BY DEF StoreTypeOK
<1>2. CreateAttempt => StoreTypeOK'
  <2>1. NoRow \in Row
    BY StoreAssumption DEF NoRow, Row
  <2>2. CreateAttempt => row' \in Row
    BY <2>1, StoreAssumption DEF CreateAttempt, Attempt, Row
  <2>3. CreateAttempt => nextId' \in 1..(LastId + 1)
    BY StoreAssumption DEF CreateAttempt, Attempt
  <2>4. CreateAttempt => outcome' \in [Attempt -> Outcome]
    BY DEF CreateAttempt, StoreTypeOK, Outcome
  <2> QED BY <2>2, <2>3, <2>4 DEF StoreTypeOK, CreateAttempt
<1>3. \A a \in Attempt : UpdateMessageID(a) => StoreTypeOK'
  <2>1. [row EXCEPT !.msg = 1] \in Row
    BY DEF StoreTypeOK, Row
  <2> QED BY <2>1 DEF UpdateMessageID, StoreTypeOK
<1>4. \A s : IncrementAttempts(s) => StoreTypeOK'
  BY DEF StoreTypeOK, IncrementAttempts, Row
<1>5. \A s : UpdateOnRefresh(s) => StoreTypeOK'
  <2>1. row.ref + 1 \in Nat /\ row.ref + 2 \in Nat
    BY DEF StoreTypeOK, Row
  <2>2. \A n, m \in Nat : [row EXCEPT !.ref = n, !.msg = m] \in Row
    BY DEF StoreTypeOK, Row
  <2>3. \A s : UpdateOnRefresh(s) => row' \in Row
    BY <2>1, <2>2 DEF UpdateOnRefresh
  <2> QED BY <2>3 DEF UpdateOnRefresh, StoreTypeOK
<1>6. ASSUME NEW a \in 0..LastId, NEW how \in Outcome, TakeRow(a, how)
      PROVE  row' \in Row /\ nextId' \in 1..(LastId + 1) /\ outcome' \in [Attempt -> Outcome]
  <2>1. row' \in Row
    BY <1>6, StoreAssumption DEF TakeRow, Row, NoRow
  <2>2. outcome' \in [Attempt -> Outcome]
    BY <1>6 DEF StoreTypeOK, TakeRow
  <2> QED BY <1>6, <2>1, <2>2 DEF StoreTypeOK, TakeRow
<1>7. \A now \in BOOLEAN : CreateMutedUser(now) => sched' \in [at : Nat, due : BOOLEAN] /\ stamp' \in Nat \ {0}
  BY DEF StoreTypeOK, CreateMutedUser
<1>8. \A a \in 0..LastId : DeleteByID(a) => StoreTypeOK'
  BY <1>6 DEF StoreTypeOK, DeleteByID, Outcome
<1>9. \A a \in 0..LastId, how \in Outcome : Release(a, how) => StoreTypeOK'
  BY <1>6, <1>7 DEF StoreTypeOK, Release
<1>10. \A s : Complete(s) => StoreTypeOK'
  <2> SUFFICES ASSUME NEW s, Complete(s) PROVE StoreTypeOK'
    OBVIOUS
  <2>1. s.id \in Attempt
    BY DEF Complete, Unchanged, StoreTypeOK, Row, Attempt
  <2> QED BY <2>1, <1>9 DEF Complete, Outcome, Attempt
<1>11. \A now \in BOOLEAN : CreateMutedUser(now) /\ UNCHANGED attemptTable => StoreTypeOK'
  BY <1>7 DEF StoreTypeOK
<1>12. DeleteMutedUser /\ UNCHANGED attemptTable => StoreTypeOK'
  BY DEF StoreTypeOK, DeleteMutedUser, NoSchedule
<1>13. ExpireAttempt => StoreTypeOK'
  BY DEF StoreTypeOK, ExpireAttempt, Row
<1>14. ScheduleFallsDue => StoreTypeOK'
  BY DEF StoreTypeOK, ScheduleFallsDue
<1> QED BY <1>1, <1>2, <1>3, <1>4, <1>5, <1>8, <1>9, <1>10, <1>11, <1>12, <1>13, <1>14

\* So does every answer of Telegram to the view of Telegram.
LEMMA TelegramTypes ==
    ASSUME TelegramTypeOK
    PROVE  /\ UNCHANGED <<telegram, faults>> => TelegramTypeOK'
           /\ \A call : Fails(call) /\ UNCHANGED telegram => TelegramTypeOK'
           /\ Works /\ UNCHANGED telegram => TelegramTypeOK'
           /\ Muted => TelegramTypeOK'
           /\ Unmuted => TelegramTypeOK'
           /\ UnmuteGone => TelegramTypeOK'
           /\ UnmuteFails => TelegramTypeOK'
           /\ \A to \in {"out", "banned"} : UNCHANGED faults /\ Removed(to) => TelegramTypeOK'
           /\ \A call : \A to \in {"out", "banned"} : Fails(call) /\ Removed(to) => TelegramTypeOK'
<1> USE DEF TelegramTypeOK, telegram
<1>1. \A call : Fails(call) => faults' \in Nat
  BY DEF Fails
<1>2. \A to \in {"out", "banned"} :
        Removed(to) => member' \in {"out", "free", "muted", "banned"} /\ leftUpdates' \in Nat
  BY DEF Removed
<1>3. /\ Muted => TelegramTypeOK'
      /\ Unmuted => TelegramTypeOK'
  BY DEF Muted, Unmuted, Works
<1>4. /\ UnmuteGone => TelegramTypeOK'
      /\ UnmuteFails => TelegramTypeOK'
  BY <1>1 DEF UnmuteGone, UnmuteFails, Works
<1>5. \A call : \A to \in {"out", "banned"} : Fails(call) /\ Removed(to) => TelegramTypeOK'
  BY <1>1, <1>2
<1> QED BY <1>1, <1>2, <1>3, <1>4, <1>5 DEF Works

\* What a handler remembers of a row, and how it moves on.
LEMMA JobTypes ==
    ASSUME StoreTypeOK, NEW P, NEW pc \in P
    PROVE  /\ At(pc) \in Job(P)
           /\ AtRow(pc) \in Job(P)
           /\ \A job \in Job(P) : [job EXCEPT !.pc = pc] \in Job(P)
           /\ \A job \in Job(P), n \in 0..LastId : [job EXCEPT !.id = n] \in Job(P)
<1>1. At(pc) \in Job(P)
  BY StoreAssumption DEF At, Job
<1>2. AtRow(pc) \in Job(P)
  BY DEF AtRow, Job, StoreTypeOK, Row
<1>3. \A job \in Job(P) : [job EXCEPT !.pc = pc] \in Job(P)
  BY DEF Job
<1>4. \A job \in Job(P), n \in 0..LastId : [job EXCEPT !.id = n] \in Job(P)
  BY DEF Job
<1> QED BY <1>1, <1>2, <1>3, <1>4

\* SendCaptcha moves between its steps only.
LEMMA SendTypes ==
    ASSUME TypeOK
    PROVE  \A a \in Attempt, from \in SendPC, to \in SendPC :
              StepSend(a, from, to) => send' \in [Attempt -> SendPC]
BY DEF TypeOK, StepSend

\* So does what follows a claim, and the claim itself is one typed transaction.
LEMMA ClaimTypes ==
    ASSUME TypeOK
    PROVE  /\ \A a \in Attempt, from \in ClaimPC, to \in ClaimPC :
                 StepClaim(a, from, to) => claim' \in [Attempt -> ClaimPC]
           /\ \A a \in 0..LastId : \A verdict :
                 Claim(a, verdict) => StoreTypeOK' /\ claim' \in [Attempt -> ClaimPC]
<1>1. \A a \in Attempt, from \in ClaimPC, to \in ClaimPC :
         StepClaim(a, from, to) => claim' \in [Attempt -> ClaimPC]
  BY DEF TypeOK, StepClaim
<1>2. ASSUME NEW a \in 0..LastId, NEW verdict, Claim(a, verdict)
      PROVE  StoreTypeOK' /\ claim' \in [Attempt -> ClaimPC]
  <2>1. CASE row.id # a /\ UNCHANGED <<store, claim>>
    BY <2>1, StoreTypes DEF TypeOK
  <2>2. CASE /\ Release(a, IF verdict = "punish" THEN "punished" ELSE "released")
             /\ claim' = [claim EXCEPT ![a] = IF verdict # "punish" THEN "release"
                                              ELSE IF FailureAction = "mute" THEN "store mute" ELSE "punish"]
    <3>1. StoreTypeOK'
      BY <2>2, StoreTypes DEF TypeOK, Outcome
    <3>2. claim' \in [Attempt -> ClaimPC]
      BY <2>2 DEF TypeOK, ClaimPC, Restoring
    <3> QED BY <3>1, <3>2
  <2> QED BY <1>2, <2>1, <2>2 DEF Claim
<1> QED BY <1>1, <1>2

\* There are two verdicts on an expired challenge.
LEMMA VerdictTypes == Verdict \subseteq {"release", "punish"}
BY DEF Verdict

\* How the timers, the recovery pass, the cleanup and the unmute worker move on.
LEMMA WorkerTypes ==
    ASSUME TypeOK
    PROVE  /\ \A a \in Attempt, pc \in {"off", "armed", "release", "punish"} :
                 SetTimer(a, pc) => timer' \in [Attempt -> Timer]
           /\ \A a \in Attempt, n \in Nat :
                 [timer EXCEPT ![a] = [pc |-> "armed", ref |-> n]] \in [Attempt -> Timer]
           /\ \A pc \in {"idle", "recover", "release", "punish"} : At(pc) \in SweepJob /\ AtRow(pc) \in SweepJob
           /\ Idle \in SweepJob
           /\ \A n \in 0..LastId : [Idle EXCEPT !.id = n] \in SweepJob
           /\ \A from, to \in {"idle", "unmute", "remove", "gone", "reload", "remute"} :
                 StepUnmuter(from, to) => unmuter' \in UnmuterJob
           /\ UnmuteIdle \in UnmuterJob
<1>1. ASSUME NEW a \in Attempt, NEW pc \in {"off", "armed", "release", "punish"}, SetTimer(a, pc)
      PROVE  timer' \in [Attempt -> Timer]
  <2>1. timer \in [Attempt -> Timer]
    BY DEF TypeOK, WorkersTypeOK
  <2>2. NoTimer \in Timer
    BY DEF NoTimer, Timer
  <2>3. [timer[a] EXCEPT !.pc = pc] \in Timer
    BY <2>1 DEF Timer
  <2> QED BY <1>1, <2>1, <2>2, <2>3 DEF SetTimer
<1>2. \A a \in Attempt, n \in Nat :
         [timer EXCEPT ![a] = [pc |-> "armed", ref |-> n]] \in [Attempt -> Timer]
  BY DEF TypeOK, WorkersTypeOK, Timer
<1>3. \A pc \in {"idle", "recover", "release", "punish"} : At(pc) \in SweepJob /\ AtRow(pc) \in SweepJob
  BY JobTypes DEF TypeOK, SweepJob
<1>4. Idle \in SweepJob
  BY <1>3 DEF Idle
<1>5. \A n \in 0..LastId : [Idle EXCEPT !.id = n] \in SweepJob
  BY <1>4 DEF SweepJob, Job
<1>6. UnmuteIdle \in UnmuterJob
  BY DEF UnmuteIdle, UnmuterJob
<1>7. \A from, to \in {"idle", "unmute", "remove", "gone", "reload", "remute"} :
         StepUnmuter(from, to) => unmuter' \in UnmuterJob
  BY <1>6 DEF TypeOK, WorkersTypeOK, StepUnmuter, UnmuterJob
<1> QED BY <1>1, <1>2, <1>3, <1>4, <1>5, <1>6, <1>7

\* How the callbacks, leftMember and the commands move on.
LEMMA HandlerTypes ==
    ASSUME TypeOK
    PROVE  /\ \A c \in Clicker, pc \in {"idle", "right", "wrong", "reload", "punish"} :
                 SetClick(c, pc) => click' \in [Clicker -> ClickJob]
           /\ \A c \in Clicker, pc \in {"idle", "right", "wrong", "reload", "punish"} :
                 [click EXCEPT ![c] = AtRow(pc)] \in [Clicker -> ClickJob]
           /\ \A f \in Refresher, pc \in {"idle", "swap", "cool"} :
                 SetRefresh(f, pc) => refr' \in [Refresher -> RefreshJob]
           /\ \A f \in Refresher, pc \in {"idle", "swap", "cool"} :
                 [refr EXCEPT ![f] = AtRow(pc)] \in [Refresher -> RefreshJob]
           /\ \A pc \in {"idle", "read", "delete", "clear"} : At(pc) \in LeftJob /\ AtRow(pc) \in LeftJob
           /\ \A pc \in {"idle", "read", "release"} : At(pc) \in ApproverJob /\ AtRow(pc) \in ApproverJob
           /\ Idle \in LeftJob /\ Idle \in ApproverJob /\ Idle \in ClickJob /\ Idle \in RefreshJob
           /\ AdminIdle \in AdminJob
           /\ \A from, to \in AdminPC : StepAdmin(from, to) => admin' \in AdminJob
<1>1. ASSUME NEW pc \in {"idle", "right", "wrong", "reload", "punish"}
      PROVE  At(pc) \in ClickJob /\ AtRow(pc) \in ClickJob
  BY JobTypes DEF TypeOK, ClickJob
<1>2. ASSUME NEW pc \in {"idle", "swap", "cool"}
      PROVE  At(pc) \in RefreshJob /\ AtRow(pc) \in RefreshJob
  BY JobTypes DEF TypeOK, RefreshJob
<1>3. \A pc \in {"idle", "read", "delete", "clear"} : At(pc) \in LeftJob /\ AtRow(pc) \in LeftJob
  BY JobTypes DEF TypeOK, LeftJob
<1>4. \A pc \in {"idle", "read", "release"} : At(pc) \in ApproverJob /\ AtRow(pc) \in ApproverJob
  BY JobTypes DEF TypeOK, ApproverJob
<1>5. Idle \in LeftJob /\ Idle \in ApproverJob /\ Idle \in ClickJob /\ Idle \in RefreshJob
  BY <1>1, <1>2, <1>3, <1>4 DEF Idle
<1>6. ASSUME NEW c \in Clicker, NEW pc \in {"idle", "right", "wrong", "reload", "punish"}
      PROVE  /\ SetClick(c, pc) => click' \in [Clicker -> ClickJob]
             /\ [click EXCEPT ![c] = AtRow(pc)] \in [Clicker -> ClickJob]
  <2>1. click \in [Clicker -> ClickJob]
    BY DEF TypeOK, HandlersTypeOK
  <2>2. [click[c] EXCEPT !.pc = pc] \in ClickJob
    BY <2>1 DEF ClickJob, Job
  <2> QED BY <1>1, <1>5, <2>1, <2>2 DEF SetClick
<1>7. ASSUME NEW f \in Refresher, NEW pc \in {"idle", "swap", "cool"}
      PROVE  /\ SetRefresh(f, pc) => refr' \in [Refresher -> RefreshJob]
             /\ [refr EXCEPT ![f] = AtRow(pc)] \in [Refresher -> RefreshJob]
  <2>1. refr \in [Refresher -> RefreshJob]
    BY DEF TypeOK, HandlersTypeOK
  <2>2. [refr[f] EXCEPT !.pc = pc] \in RefreshJob
    BY <2>1 DEF RefreshJob, Job
  <2> QED BY <1>2, <1>5, <2>1, <2>2 DEF SetRefresh
<1>8. AdminIdle \in AdminJob
  BY StoreAssumption DEF AdminIdle, AdminJob, AdminPC
<1>9. \A from, to \in AdminPC : StepAdmin(from, to) => admin' \in AdminJob
  <2>1. \A job \in AdminJob, to \in AdminPC : [job EXCEPT !.pc = to] \in AdminJob
    BY DEF AdminJob
  <2> QED BY <1>8, <2>1 DEF StepAdmin, TypeOK, HandlersTypeOK
<1> QED BY <1>3, <1>4, <1>5, <1>6, <1>7, <1>8, <1>9

\* A group of variables that a step leaves alone stays well-typed.
LEMMA FrameTypes ==
    ASSUME TypeOK
    PROVE  /\ UNCHANGED store => StoreTypeOK'
           /\ UNCHANGED <<telegram, faults>> => TelegramTypeOK'
           /\ UNCHANGED joining => JoiningTypeOK'
           /\ UNCHANGED settings => SettingsTypeOK'
           /\ UNCHANGED system => SystemTypeOK'
           /\ UNCHANGED workers => WorkersTypeOK'
           /\ UNCHANGED handlers => HandlersTypeOK'
<1>1. UNCHANGED store => StoreTypeOK'
  BY StoreTypes DEF TypeOK
<1>2. UNCHANGED <<telegram, faults>> => TelegramTypeOK'
  BY TelegramTypes DEF TypeOK
<1>3. UNCHANGED joining => JoiningTypeOK'
  BY DEF TypeOK, joining, JoiningTypeOK
<1>4. UNCHANGED settings => SettingsTypeOK'
  BY DEF TypeOK, settings, SettingsTypeOK
<1>5. UNCHANGED system => SystemTypeOK'
  BY DEF TypeOK, system, SystemTypeOK
<1>6. UNCHANGED workers => WorkersTypeOK'
  BY DEF TypeOK, workers, WorkersTypeOK
<1>7. UNCHANGED handlers => HandlersTypeOK'
  BY DEF TypeOK, handlers, HandlersTypeOK
<1> QED BY <1>1, <1>2, <1>3, <1>4, <1>5, <1>6, <1>7


\* What happens outside the process leaves every variable well-typed.
LEMMA TelegramTypeSteps ==
    ASSUME TypeOK,
           Join \/ Leave \/ Clock
    PROVE  TypeOK'
<1>1. ASSUME Join PROVE TypeOK'
  BY <1>1, FrameTypes, CaptchaAssumption
  DEF TypeOK, Join, TelegramTypeOK, telegram, JoiningTypeOK, joining
<1>2. ASSUME Leave PROVE TypeOK'
  BY <1>2, FrameTypes, TelegramTypes DEF TypeOK, Leave
<1>3. ASSUME Clock PROVE TypeOK'
  BY <1>3, FrameTypes, StoreTypes DEF TypeOK, Clock
<1> QED BY <1>1, <1>2, <1>3

\* So do the join handlers,
LEMMA JoinTypeSteps ==
    ASSUME TypeOK,
           IgnoreJoin \/ ClaimJoin \/ ForgetJoin \/ ReadSettings \/ Admit \/ Refuse \/ Challenge
    PROVE  TypeOK'
<1>1. ASSUME IgnoreJoin PROVE TypeOK'
  BY <1>1, FrameTypes DEF TypeOK, IgnoreJoin, JoiningTypeOK, joining
<1>2. ASSUME ClaimJoin PROVE TypeOK'
  <2>1. admitting' \in Nat
    <3>1. admitting' = admitting \/ admitting' = admitting + 1
      BY <1>2 DEF ClaimJoin, TypeOK, JoiningTypeOK
    <3> QED BY <3>1 DEF TypeOK, JoiningTypeOK
  <2>2. joinUpdates' \in Nat
    <3>1. joinUpdates > 0 /\ joinUpdates' = joinUpdates - 1
      BY <1>2 DEF ClaimJoin
    <3> QED BY <3>1 DEF TypeOK, JoiningTypeOK
  <2> QED BY <1>2, <2>1, <2>2, FrameTypes DEF TypeOK, ClaimJoin, JoiningTypeOK
<1>3. ASSUME ForgetJoin PROVE TypeOK'
  BY <1>3, FrameTypes DEF TypeOK, ForgetJoin, JoiningTypeOK, joining
<1>4. ASSUME ReadSettings PROVE TypeOK'
  <2>1. JoiningTypeOK'
    <3>1. admitting > 0 /\ admitting' = admitting - 1 /\ preparing' = preparing + 1
          /\ UNCHANGED <<joinUpdates, joinsLeft, recent>>
      BY <1>4 DEF ReadSettings
    <3> QED BY <3>1 DEF TypeOK, JoiningTypeOK
  <2> QED BY <1>4, <2>1, FrameTypes DEF TypeOK, ReadSettings
<1>5. ASSUME Admit PROVE TypeOK'
  <2>1. JoiningTypeOK'
    <3>1. admitting > 0 /\ admitting' = admitting - 1 /\ UNCHANGED <<joinUpdates, joinsLeft, recent, preparing>>
      BY <1>5 DEF Admit
    <3> QED BY <3>1 DEF TypeOK, JoiningTypeOK
  <2> QED BY <1>5, <2>1, FrameTypes DEF TypeOK, Admit
<1>6. ASSUME Refuse PROVE TypeOK'
  <2>1. JoiningTypeOK'
    <3>1. preparing > 0 /\ preparing' = preparing - 1 /\ UNCHANGED <<joinUpdates, joinsLeft, recent, admitting>>
      BY <1>6 DEF Refuse
    <3> QED BY <3>1 DEF TypeOK, JoiningTypeOK
  <2>2. TelegramTypeOK'
    <3>1. UNCHANGED telegram /\ (Works \/ Fails("send"))
      BY <1>6 DEF Refuse
    <3> QED BY <3>1, TelegramTypes DEF TypeOK
  <2> QED BY <1>6, <2>1, <2>2, FrameTypes DEF TypeOK, Refuse
<1>7. ASSUME Challenge PROVE TypeOK'
  <2>1. JoiningTypeOK'
    <3>1. preparing > 0 /\ preparing' = preparing - 1 /\ UNCHANGED <<joinUpdates, joinsLeft, recent, admitting>>
      BY <1>7 DEF Challenge
    <3> QED BY <3>1 DEF TypeOK, JoiningTypeOK
  <2>2. StoreTypeOK'
    BY <1>7, StoreTypes DEF TypeOK, Challenge
  <2>3. send' \in [Attempt -> SendPC]
    <3>1. send' = [send EXCEPT ![nextId] = "mute"]
      BY <1>7 DEF Challenge
    <3> QED BY <3>1 DEF TypeOK, SendPC
  <2> QED BY <1>7, <2>1, <2>2, <2>3, FrameTypes DEF TypeOK, Challenge
<1> QED BY <1>1, <1>2, <1>3, <1>4, <1>5, <1>6, <1>7

\* SendCaptcha,
LEMMA SendTypeSteps ==
    ASSUME TypeOK,
           \E a \in Attempt : MuteForCaptcha(a) \/ DropCaptcha(a) \/ PostCaptcha(a)
           \/ RecordCaptcha(a) \/ RollbackCaptcha(a)
    PROVE  TypeOK'
<1>1. ASSUME NEW a \in Attempt, MuteForCaptcha(a) PROVE TypeOK'
  BY <1>1, FrameTypes, TelegramTypes, SendTypes DEF TypeOK, MuteForCaptcha, SendPC
<1>2. ASSUME NEW a \in Attempt, DropCaptcha(a) PROVE TypeOK'
  BY <1>2, FrameTypes, StoreTypes, SendTypes DEF TypeOK, DropCaptcha, SendPC, Attempt
<1>3. ASSUME NEW a \in Attempt, PostCaptcha(a) PROVE TypeOK'
  BY <1>3, FrameTypes, TelegramTypes, SendTypes DEF TypeOK, PostCaptcha, SendPC
<1>4. ASSUME NEW a \in Attempt, RecordCaptcha(a) PROVE TypeOK'
  BY <1>4, FrameTypes, StoreTypes, SendTypes, WorkerTypes
  DEF TypeOK, RecordCaptcha, SendPC, Attempt, WorkersTypeOK, workers
<1>5. ASSUME NEW a \in Attempt, RollbackCaptcha(a) PROVE TypeOK'
  <2>1. send' \in [Attempt -> SendPC]
    BY <1>5, SendTypes DEF RollbackCaptcha, SendPC
  <2>2. StoreTypeOK'
    BY <1>5, StoreTypes DEF TypeOK, RollbackCaptcha, Attempt, Outcome
  <2>3. claim' \in [Attempt -> ClaimPC]
    <3>1. claim' = [claim EXCEPT ![a] = "unmute"] \/ claim' = claim
      BY <1>5 DEF RollbackCaptcha
    <3> QED BY <3>1 DEF TypeOK, ClaimPC, Restoring
  <2> QED BY <1>5, <2>1, <2>2, <2>3, FrameTypes DEF TypeOK, RollbackCaptcha
<1> QED BY <1>1, <1>2, <1>3, <1>4, <1>5

\* the timers, the cleanup worker and the recovery pass,
LEMMA WorkerTypeSteps ==
    ASSUME TypeOK,
           \/ \E a \in Attempt : TimerFires(a) \/ TimerClaims(a)
           \/ SweepPicks \/ SweepClaims \/ RecoveryPicks \/ RecoveryEnds
    PROVE  TypeOK'
<1>1. ASSUME NEW a \in Attempt, TimerFires(a) PROVE TypeOK'
  BY <1>1, FrameTypes, VerdictTypes, WorkerTypes
  DEF TypeOK, TimerFires, WorkersTypeOK, workers
<1>2. ASSUME NEW a \in Attempt, TimerClaims(a) PROVE TypeOK'
  BY <1>2, FrameTypes, ClaimTypes, WorkerTypes
  DEF TypeOK, TimerClaims, Attempt, WorkersTypeOK, workers
<1>3. ASSUME SweepPicks PROVE TypeOK'
  BY <1>3, FrameTypes, VerdictTypes, WorkerTypes
  DEF TypeOK, SweepPicks, WorkersTypeOK, workers
<1>4. ASSUME SweepClaims PROVE TypeOK'
  <2>1. sweep.id \in 0..LastId /\ row.id \in 0..LastId
    BY DEF TypeOK, WorkersTypeOK, SweepJob, Job, StoreTypeOK, Row
  <2>2. StoreTypeOK' /\ claim' \in [Attempt -> ClaimPC]
    BY <1>4, <2>1, ClaimTypes DEF SweepClaims
  <2>3. (IF row.id = sweep.id THEN row.id ELSE 0) \in 0..LastId
    BY <2>1, StoreAssumption
  <2>4. WorkersTypeOK'
    BY <1>4, <2>3, WorkerTypes DEF TypeOK, SweepClaims, WorkersTypeOK
  <2> QED BY <1>4, <2>2, <2>4, FrameTypes DEF TypeOK, SweepClaims
<1>5. ASSUME RecoveryPicks PROVE TypeOK'
  <2>1. sweep' \in SweepJob
    <3>1. sweep' = Idle \/ \E verdict \in {"idle", "release", "punish"} : sweep' = AtRow(verdict)
      BY <1>5, VerdictTypes DEF RecoveryPicks
    <3> QED BY <3>1, WorkerTypes
  <2>2. timer' \in [Attempt -> Timer]
    <3>1. UNCHANGED timer \/ (row.id # 0 /\ timer' = [timer EXCEPT ![row.id] = [pc |-> "armed", ref |-> row.ref]])
      BY <1>5 DEF RecoveryPicks
    <3>2. row.ref \in Nat /\ (row.id # 0 => row.id \in Attempt)
      BY DEF TypeOK, StoreTypeOK, Row, Attempt
    <3> QED BY <3>1, <3>2, WorkerTypes DEF TypeOK, WorkersTypeOK
  <2> QED BY <1>5, <2>1, <2>2, FrameTypes DEF TypeOK, RecoveryPicks, WorkersTypeOK
<1>6. ASSUME RecoveryEnds PROVE TypeOK'
  BY <1>6, FrameTypes DEF TypeOK, RecoveryEnds, SystemTypeOK, system
<1> QED BY <1>1, <1>2, <1>3, <1>4, <1>5, <1>6

\* what follows a claim,
LEMMA ClaimTypeSteps ==
    ASSUME TypeOK,
           \E a \in Attempt : Punish(a) \/ StoreMute(a) \/ CallMute(a) \/ UndoMute(a)
           \/ RestoreClaimed(a) \/ RearmClaimed(a) \/ ReleaseClaimed(a)
           \/ ClearClaimed(a)
    PROVE  TypeOK'
<1>1. ASSUME NEW a \in Attempt, Punish(a) PROVE TypeOK'
  <2>1. claim' \in [Attempt -> ClaimPC]
    BY <1>1, ClaimTypes DEF Punish, ClaimPC, Restoring
  <2>2. TelegramTypeOK'
    <3>1. \E to \in {"out", "banned"} :
             \/ Works /\ Removed(to)
             \/ Fails("punish") /\ (UNCHANGED telegram \/ Removed(to))
      BY <1>1 DEF Punish
    <3> QED BY <3>1, TelegramTypes DEF TypeOK, Works
  <2> QED BY <1>1, <2>1, <2>2, FrameTypes DEF TypeOK, Punish
<1>2. ASSUME NEW a \in Attempt, StoreMute(a) PROVE TypeOK'
  BY <1>2, FrameTypes, StoreTypes, ClaimTypes DEF TypeOK, StoreMute, ClaimPC, Restoring
<1>3. ASSUME NEW a \in Attempt, CallMute(a) PROVE TypeOK'
  BY <1>3, FrameTypes, TelegramTypes, ClaimTypes
  DEF TypeOK, CallMute, ClaimPC, Restoring
<1>4. ASSUME NEW a \in Attempt, UndoMute(a) PROVE TypeOK'
  BY <1>4, FrameTypes, StoreTypes, ClaimTypes DEF TypeOK, UndoMute, ClaimPC, Restoring
<1>5. ASSUME NEW a \in Attempt, RestoreClaimed(a) PROVE TypeOK'
  BY <1>5, FrameTypes, TelegramTypes, ClaimTypes
  DEF TypeOK, RestoreClaimed, ClaimPC, Restoring
<1>6. ASSUME NEW a \in Attempt, RearmClaimed(a) PROVE TypeOK'
  BY <1>6, FrameTypes, StoreTypes, ClaimTypes
  DEF TypeOK, RearmClaimed, ClaimPC, Restoring
<1>7. ASSUME NEW a \in Attempt, ReleaseClaimed(a) PROVE TypeOK'
  BY <1>7, FrameTypes, TelegramTypes, ClaimTypes
  DEF TypeOK, ReleaseClaimed, ClaimPC, Restoring
<1>8. ASSUME NEW a \in Attempt, ClearClaimed(a) PROVE TypeOK'
  BY <1>8, FrameTypes, StoreTypes, ClaimTypes
  DEF TypeOK, ClearClaimed, ClaimPC, Restoring
<1> QED BY <1>1, <1>2, <1>3, <1>4, <1>5, <1>6, <1>7, <1>8

\* the two callbacks,
LEMMA CallbackTypeSteps ==
    ASSUME TypeOK,
           \/ \E c \in Clicker : PressButton(c) \/ RightAnswer(c) \/ WrongAnswer(c)
              \/ CountWrong(c) \/ LastWrong(c)
           \/ \E f \in Refresher : PressRefresh(f) \/ SwapCaptcha(f) \/ StartCooldown(f)
           \/ CooldownEnds
    PROVE  TypeOK'
<1>1. ASSUME NEW c \in Clicker, PressButton(c) PROVE TypeOK'
  BY <1>1, FrameTypes, HandlerTypes DEF TypeOK, PressButton, HandlersTypeOK, handlers
<1>2. ASSUME NEW c \in Clicker, RightAnswer(c) PROVE TypeOK'
  BY <1>2, FrameTypes, StoreTypes, HandlerTypes
  DEF TypeOK, RightAnswer, HandlersTypeOK, handlers, ClaimPC, Restoring
<1>3. ASSUME NEW c \in Clicker, WrongAnswer(c) PROVE TypeOK'
  BY <1>3, FrameTypes, StoreTypes, HandlerTypes
  DEF TypeOK, WrongAnswer, HandlersTypeOK, handlers
<1>4. ASSUME NEW c \in Clicker, CountWrong(c) PROVE TypeOK'
  BY <1>4, FrameTypes, HandlerTypes DEF TypeOK, CountWrong, HandlersTypeOK, handlers
<1>5. ASSUME NEW c \in Clicker, LastWrong(c) PROVE TypeOK'
  BY <1>5, FrameTypes, ClaimTypes, HandlerTypes
  DEF TypeOK, LastWrong, HandlersTypeOK, handlers, ClickJob, Job
<1>6. ASSUME NEW f \in Refresher, PressRefresh(f) PROVE TypeOK'
  BY <1>6, FrameTypes, HandlerTypes DEF TypeOK, PressRefresh, HandlersTypeOK, handlers
<1>7. ASSUME NEW f \in Refresher, SwapCaptcha(f) PROVE TypeOK'
  BY <1>7, FrameTypes, StoreTypes, TelegramTypes, HandlerTypes
  DEF TypeOK, SwapCaptcha, HandlersTypeOK, handlers
<1>8. ASSUME NEW f \in Refresher, StartCooldown(f) PROVE TypeOK'
  BY <1>8, FrameTypes, HandlerTypes DEF TypeOK, StartCooldown, HandlersTypeOK, handlers
<1>9. ASSUME CooldownEnds PROVE TypeOK'
  BY <1>9, FrameTypes DEF TypeOK, CooldownEnds
<1> QED BY <1>1, <1>2, <1>3, <1>4, <1>5, <1>6, <1>7, <1>8, <1>9

\* leftMember,
LEMMA LeftTypeSteps ==
    ASSUME TypeOK,
           LeftArrives \/ LeftReads \/ LeftDeletes \/ LeftClears
    PROVE  TypeOK'
<1>1. ASSUME LeftArrives PROVE TypeOK'
  <2>1. TelegramTypeOK'
    <3>1. leftUpdates > 0 /\ leftUpdates' = leftUpdates - 1 /\ UNCHANGED <<member, faults>>
      BY <1>1 DEF LeftArrives
    <3> QED BY <3>1 DEF TypeOK, TelegramTypeOK
  <2>2. JoiningTypeOK' /\ HandlersTypeOK'
    BY <1>1, HandlerTypes DEF TypeOK, LeftArrives, JoiningTypeOK, HandlersTypeOK
  <2> QED BY <1>1, <2>1, <2>2, FrameTypes DEF TypeOK, LeftArrives
<1>2. ASSUME LeftReads PROVE TypeOK'
  BY <1>2, FrameTypes, HandlerTypes DEF TypeOK, LeftReads, HandlersTypeOK, handlers
<1>3. ASSUME LeftDeletes PROVE TypeOK'
  BY <1>3, FrameTypes, StoreTypes, HandlerTypes
  DEF TypeOK, LeftDeletes, HandlersTypeOK, handlers, LeftJob, Job
<1>4. ASSUME LeftClears PROVE TypeOK'
  BY <1>4, FrameTypes, StoreTypes, HandlerTypes
  DEF TypeOK, LeftClears, HandlersTypeOK, handlers
<1> QED BY <1>1, <1>2, <1>3, <1>4

\* the administrator's commands,
LEMMA CommandTypeSteps ==
    ASSUME TypeOK,
           \/ ApproveUser \/ ApproverReads \/ ApproverReleases \/ DeleteSettingsCache
              \/ DisableLists \/ DisableClaims \/ DisableUnmutes \/ DisableStores
              \/ SettingsExpire
           \/ \E on \in BOOLEAN : SetCaptchaEnabled(on)
    PROVE  TypeOK'
<1>1. ASSUME ApproveUser PROVE TypeOK'
  <2>1. SettingsTypeOK'
    <3>1. orders > 0 /\ orders' = orders - 1
      BY <1>1 DEF ApproveUser
    <3>2. orders' \in Nat
      BY <3>1 DEF TypeOK, SettingsTypeOK
    <3> QED BY <1>1, <3>2 DEF TypeOK, SettingsTypeOK, ApproveUser
  <2>2. HandlersTypeOK'
    BY <1>1, HandlerTypes DEF TypeOK, ApproveUser, HandlersTypeOK
  <2> QED BY <1>1, <2>1, <2>2, FrameTypes DEF TypeOK, ApproveUser
<1>2. ASSUME ApproverReads PROVE TypeOK'
  BY <1>2, FrameTypes, HandlerTypes DEF TypeOK, ApproverReads, HandlersTypeOK, handlers
<1>3. ASSUME ApproverReleases PROVE TypeOK'
  BY <1>3, FrameTypes, ClaimTypes, HandlerTypes
  DEF TypeOK, ApproverReleases, HandlersTypeOK, handlers, ApproverJob, Job
<1>4. ASSUME NEW on \in BOOLEAN, SetCaptchaEnabled(on) PROVE TypeOK'
  <2>1. SettingsTypeOK'
    <3>1. orders > 0 /\ orders' = orders - 1
      BY <1>4 DEF SetCaptchaEnabled
    <3>2. orders' \in Nat
      BY <3>1 DEF TypeOK, SettingsTypeOK
    <3> QED BY <1>4, <3>2 DEF TypeOK, SettingsTypeOK, SetCaptchaEnabled
  <2>2. HandlersTypeOK'
    <3>1. StepAdmin("idle", "uncache") /\ UNCHANGED <<click, refr, left, approver>>
      BY <1>4 DEF SetCaptchaEnabled
    <3> QED BY <3>1, HandlerTypes DEF TypeOK, HandlersTypeOK, AdminPC
  <2> QED BY <1>4, <2>1, <2>2, FrameTypes DEF TypeOK, SetCaptchaEnabled
<1>5. ASSUME DeleteSettingsCache PROVE TypeOK'
  BY <1>5, FrameTypes, HandlerTypes
  DEF TypeOK, DeleteSettingsCache, SettingsTypeOK, settings, HandlersTypeOK, handlers,
       AdminPC
<1>6. ASSUME DisableLists PROVE TypeOK'
  BY <1>6, FrameTypes
  DEF TypeOK, DisableLists, HandlersTypeOK, handlers, AdminJob, AdminPC, StoreTypeOK,
       Row
<1>7. ASSUME DisableClaims PROVE TypeOK'
  BY <1>7, FrameTypes, StoreTypes, HandlerTypes
  DEF TypeOK, DisableClaims, HandlersTypeOK, handlers, AdminJob, AdminPC, Restoring,
       Outcome, ClaimPC
<1>8. ASSUME DisableUnmutes PROVE TypeOK'
  BY <1>8, FrameTypes, TelegramTypes, HandlerTypes
  DEF TypeOK, DisableUnmutes, HandlersTypeOK, handlers, AdminPC, Restoring
<1>9. ASSUME DisableStores PROVE TypeOK'
  BY <1>9, FrameTypes, StoreTypes, HandlerTypes
  DEF TypeOK, DisableStores, HandlersTypeOK, handlers, AdminPC, Restoring
<1>10. ASSUME SettingsExpire PROVE TypeOK'
  BY <1>10, FrameTypes DEF TypeOK, SettingsExpire, SettingsTypeOK, settings
<1> QED BY <1>1, <1>2, <1>3, <1>4, <1>5, <1>6, <1>7, <1>8, <1>9, <1>10

\* the unmute worker,
LEMMA UnmuterTypeSteps ==
    ASSUME TypeOK,
           UnmuterPicks \/ UnmuterUnmutes \/ UnmuterRemoves \/ UnmuterReloads
           \/ UnmuterRemutes
    PROVE  TypeOK'
<1>1. ASSUME UnmuterPicks PROVE TypeOK'
  BY <1>1, FrameTypes
  DEF TypeOK, UnmuterPicks, WorkersTypeOK, workers, UnmuterJob, StoreTypeOK
<1>2. ASSUME UnmuterUnmutes PROVE TypeOK'
  BY <1>2, FrameTypes, TelegramTypes, WorkerTypes
  DEF TypeOK, UnmuterUnmutes, WorkersTypeOK, workers
<1>3. ASSUME UnmuterRemoves PROVE TypeOK'
  BY <1>3, FrameTypes, StoreTypes, WorkerTypes
  DEF TypeOK, UnmuterRemoves, WorkersTypeOK, workers, DeleteMutedUserIfUnchanged,
       attemptTable, muteTable, store
<1>4. ASSUME UnmuterReloads PROVE TypeOK'
  BY <1>4, FrameTypes, WorkerTypes DEF TypeOK, UnmuterReloads, WorkersTypeOK, workers
<1>5. ASSUME UnmuterRemutes PROVE TypeOK'
  BY <1>5, FrameTypes, TelegramTypes, WorkerTypes
  DEF TypeOK, UnmuterRemutes, WorkersTypeOK, workers
<1> QED BY <1>1, <1>2, <1>3, <1>4, <1>5

\* and crash and restart.
LEMMA ProcessTypeSteps ==
    ASSUME TypeOK,
           Crash \/ Restart
    PROVE  TypeOK'
<1>1. ASSUME Crash PROVE TypeOK'
  <2>1. SystemTypeOK'
    <3>1. up' = "down" /\ crashes > 0 /\ crashes' = crashes - 1
      BY <1>1 DEF Crash
    <3> QED BY <3>1 DEF TypeOK, SystemTypeOK
  <2>2. JoiningTypeOK'
    BY <1>1 DEF TypeOK, JoiningTypeOK, Crash
  <2>3. send' \in [Attempt -> SendPC] /\ claim' \in [Attempt -> ClaimPC]
    BY <1>1 DEF Crash, NoTask, SendPC, ClaimPC
  <2>4. WorkersTypeOK'
    <3>1. NoTimer \in Timer
      BY DEF NoTimer, Timer
    <3> QED BY <1>1, <3>1, WorkerTypes DEF Crash, WorkersTypeOK
  <2>5. HandlersTypeOK'
    BY <1>1, HandlerTypes DEF Crash, HandlersTypeOK
  <2> QED BY <1>1, <2>1, <2>2, <2>3, <2>4, <2>5, FrameTypes DEF TypeOK, Crash
<1>2. ASSUME Restart PROVE TypeOK'
  BY <1>2, FrameTypes, WorkerTypes
  DEF TypeOK, Restart, SystemTypeOK, system, WorkersTypeOK, workers
<1> QED BY <1>1, <1>2

\* TypeOK is inductive: one lemma for each group of actions above.
LEMMA TypeInvariant == TypeOK /\ [Next]_vars => TypeOK'
<1> SUFFICES ASSUME TypeOK, [Next]_vars PROVE TypeOK'
  OBVIOUS
<1>1. CASE UNCHANGED vars
  BY <1>1, FrameTypes DEF TypeOK, vars
<1>2. CASE Next
  BY <1>2, TelegramTypeSteps, JoinTypeSteps, SendTypeSteps, WorkerTypeSteps, ClaimTypeSteps,
     CallbackTypeSteps, LeftTypeSteps, CommandTypeSteps, UnmuterTypeSteps, ProcessTypeSteps, Zenon
  DEF Next, JoinStep, SendStep, TimerStep, SweepStep, ClaimStep, ClickStep, RefreshStep,
      LeftStep, ApproverStep, AdminStep, UnmuterStep
<1> QED BY <1>1, <1>2

\* The program starts with empty tables and no handler running.
LEMMA InitTypes == Init => TypeOK
<1> SUFFICES ASSUME Init PROVE TypeOK
  OBVIOUS
<1>1. StoreTypeOK
  BY StoreAssumption
  DEF Init, StoreInit, StoreTypeOK, Row, NoRow, NoSchedule, Outcome, Attempt
<1>2. TelegramTypeOK /\ JoiningTypeOK /\ SettingsTypeOK /\ SystemTypeOK
  BY CaptchaAssumption DEF Init, TelegramTypeOK, JoiningTypeOK, SettingsTypeOK, SystemTypeOK
<1>3. send \in [Attempt -> SendPC] /\ claim \in [Attempt -> ClaimPC]
  BY DEF Init, NoTask, SendPC, ClaimPC
<1>4. \A P : "idle" \in P => Idle \in Job(P)
  BY <1>1, JobTypes DEF Idle
<1>5. WorkersTypeOK
  <2>1. NoTimer \in Timer /\ UnmuteIdle \in UnmuterJob
    BY DEF NoTimer, Timer, UnmuteIdle, UnmuterJob
  <2> QED BY <1>4, <2>1 DEF Init, WorkersTypeOK, SweepJob
<1>6. HandlersTypeOK
  <2>1. AdminIdle \in AdminJob
    BY StoreAssumption DEF AdminIdle, AdminJob, AdminPC
  <2> QED BY <1>4, <2>1 DEF Init, HandlersTypeOK, ClickJob, RefreshJob, LeftJob, ApproverJob
<1> QED BY <1>1, <1>2, <1>3, <1>5, <1>6 DEF Init, TypeOK

\* Whatever handlers, workers, crashes and failed calls do, the tables, the queues
\* and the handlers' snapshots keep their types; in particular no counter of
\* undelivered updates ever becomes negative (leftMember and newMember only run
\* on an update that arrived).
THEOREM TypeCorrect == Spec => []TypeOK
<1> QED BY InitTypes, TypeInvariant, PTL DEF Spec

--------------------------------------------------------------------------------
(* The refinement *)

\* How a challenge may leave the table, by the row it leaves behind.
Deserved(how) == \/ how \in {"released", "withdrawn"}
                 \/ how = "verified" /\ ~row.expired
                 \/ how = "punished" /\ (row.expired \/ row.wrong >= MaxWrong)

CountsWrong == /\ row.id # 0 /\ ~row.expired
               /\ row' = [row EXCEPT !.wrong = @ + 1]
               /\ UNCHANGED <<nextId, outcome>>

Refreshes == /\ row.id # 0 /\ ~row.expired /\ row.ref < MaxRefreshes
             /\ row' = [row EXCEPT !.ref = @ + 1, !.msg = row.ref + 2]
             /\ UNCHANGED <<nextId, outcome>>

Closes(a, how) == TakeRow(a, how) /\ (row.id # 0 => Deserved(how))

\* What one step may do to captcha_attempts.
AttemptStep ==
    \/ UNCHANGED attemptTable
    \/ enabled /\ CreateAttempt
    \/ \E a \in Attempt : UpdateMessageID(a)
    \/ CountsWrong
    \/ Refreshes
    \/ ExpireAttempt
    \/ \E a \in 0..LastId, how \in {"released", "withdrawn", "verified", "punished"} : Closes(a, how)

\* What no step takes back: numbers are never reused, and as long as a challenge is
\* open its expiry and its wrong answers stand.
RowAdvances ==
    /\ nextId' >= nextId
    /\ \A a \in 1..(nextId - 1) : row'.id = a =>
          /\ row.id = a
          /\ row.expired => row'.expired
          /\ row.wrong >= MaxWrong => row'.wrong >= MaxWrong

\* Two facts about the abstract record that the provers need spelt out.
LEMMA OpenNumbered ==
    ASSUME NEW a
    PROVE  [Abstract!Nothing EXCEPT !.id = a] = [id |-> a, ref |-> 0, wrong |-> 0, expired |-> FALSE]
<1>1. ASSUME NEW r, NEW w, NEW x
      PROVE  [[id |-> 0, ref |-> r, wrong |-> w, expired |-> x] EXCEPT !.id = a]
               = [id |-> a, ref |-> r, wrong |-> w, expired |-> x]
  OBVIOUS
<1> QED BY <1>1, Zenon DEF Abstract!Nothing

\* Expiry touches the expired flag of the open challenge only.
LEMMA OpenExpired ==
    ASSUME NEW o \in [id : Nat, ref : Nat, wrong : Nat, expired : BOOLEAN]
    PROVE  [o EXCEPT !.expired = TRUE] = [id |-> o.id, ref |-> o.ref, wrong |-> o.wrong, expired |-> TRUE]
<1> DEFINE Open == [id : Nat, ref : Nat, wrong : Nat, expired : BOOLEAN]
           s == [o EXCEPT !.expired = TRUE]
           t == [id |-> o.id, ref |-> o.ref, wrong |-> o.wrong, expired |-> TRUE]
<1>1. s \in Open /\ s.id = o.id /\ s.ref = o.ref /\ s.wrong = o.wrong /\ s.expired = TRUE
  OBVIOUS
<1>2. t \in Open /\ t.id = o.id /\ t.ref = o.ref /\ t.wrong = o.wrong /\ t.expired = TRUE
  OBVIOUS
<1>3. \A x, y \in Open : /\ x.id = y.id /\ x.ref = y.ref /\ x.wrong = y.wrong /\ x.expired = y.expired
                        => x = y
  OBVIOUS
<1> HIDE DEF s, t, Open
<1>4. s = t
  BY <1>1, <1>2, <1>3
<1> QED BY <1>4 DEF s, t

\* Every transaction keeps the table and its history in agreement, takes back
\* nothing, and is a step of CaptchaChallenge or leaves the challenge as it is.
LEMMA TableStep ==
    ASSUME TypeOK, TableAgrees, AttemptStep
    PROVE  TableAgrees' /\ RowAdvances /\ [Abstract!Next]_(Abstract!vars)
<1> USE StoreAssumption DEF TypeOK, StoreTypeOK
<1>0. /\ row.id \in 0..LastId /\ row.ref \in Nat /\ row.wrong \in Nat /\ row.msg \in Nat /\ row.expired \in BOOLEAN
      /\ nextId \in 1..(LastId + 1)
      /\ row.id # 0 => row.id \in Attempt
  BY DEF Row, Attempt
<1>1. CASE UNCHANGED attemptTable
  <2>1. row' = row /\ nextId' = nextId /\ outcome' = outcome
    BY <1>1 DEF attemptTable
  <2> QED BY <1>0, <2>1 DEF TableAgrees, RowAdvances, Abstract!vars
<1>2. CASE enabled /\ CreateAttempt
  <2>1. nextId \in Attempt /\ nextId' = nextId + 1
    BY <1>2 DEF CreateAttempt
  <2>2. row' = [id |-> nextId, msg |-> 0, ref |-> 0, wrong |-> 0, expired |-> FALSE]
    BY <1>2 DEF CreateAttempt, NoRow
  <2>3. outcome' = [a \in Attempt |-> IF a = nextId THEN "pending"
                                      ELSE IF a = row.id THEN "withdrawn" ELSE outcome[a]]
    BY <1>2 DEF CreateAttempt
  <2>4. TableAgrees'
    BY <1>0, <2>1, <2>2, <2>3 DEF TableAgrees, Attempt
  <2>5. RowAdvances
    BY <1>0, <2>1, <2>2 DEF RowAdvances
  <2>6. Abstract!Issue(nextId)
    <3>1. outcome[nextId] = "unborn" /\ \A b \in Attempt : b < nextId => outcome[b] # "unborn"
      BY <1>0, <2>1 DEF TableAgrees, Attempt
    <3>2. [id |-> row'.id, ref |-> row'.ref, wrong |-> row'.wrong, expired |-> row'.expired]
            = [id |-> nextId, ref |-> 0, wrong |-> 0, expired |-> FALSE]
      BY <2>2
    <3>3. [Abstract!Nothing EXCEPT !.id = nextId] = [id |-> nextId, ref |-> 0, wrong |-> 0, expired |-> FALSE]
      BY OpenNumbered
    <3> QED BY <2>3, <3>1, <3>2, <3>3, Zenon DEF Abstract!Issue, Abstract!Challenges, Attempt
  <2> QED BY <2>1, <2>4, <2>5, <2>6 DEF Abstract!Next, Abstract!Challenges, Attempt
<1>3. CASE \E a \in Attempt : UpdateMessageID(a)
  <2>1. row' = [row EXCEPT !.msg = 1] /\ nextId' = nextId /\ outcome' = outcome
    BY <1>3 DEF UpdateMessageID
  <2>2. row.id # 0
    BY <1>3 DEF UpdateMessageID, Attempt
  <2>3. row'.id = row.id /\ row'.ref = row.ref /\ row'.wrong = row.wrong /\ row'.expired = row.expired
    BY <2>1 DEF Row
  <2> QED BY <1>0, <2>1, <2>2, <2>3 DEF TableAgrees, RowAdvances, Abstract!vars
<1>4. CASE CountsWrong
  <2>1. row' = [row EXCEPT !.wrong = @ + 1] /\ nextId' = nextId /\ outcome' = outcome /\ row.id # 0 /\ ~row.expired
    BY <1>4 DEF CountsWrong
  <2>2. row'.id = row.id /\ row'.ref = row.ref /\ row'.wrong = row.wrong + 1 /\ row'.expired = row.expired
    BY <2>1 DEF Row
  <2>3. TableAgrees' /\ RowAdvances
    BY <1>0, <2>1, <2>2 DEF TableAgrees, RowAdvances
  <2>4. Abstract!WrongAnswer
    BY <2>1, <2>2 DEF Abstract!WrongAnswer
  <2> QED BY <2>3, <2>4 DEF Abstract!Next
<1>5. CASE Refreshes
  <2>1. /\ row' = [row EXCEPT !.ref = @ + 1, !.msg = row.ref + 2] /\ nextId' = nextId /\ outcome' = outcome
        /\ row.id # 0 /\ ~row.expired /\ row.ref < MaxRefreshes
    BY <1>5 DEF Refreshes
  <2>2. row'.id = row.id /\ row'.ref = row.ref + 1 /\ row'.wrong = row.wrong /\ row'.expired = row.expired
    BY <2>1 DEF Row
  <2>3. TableAgrees' /\ RowAdvances
    BY <1>0, <2>1, <2>2 DEF TableAgrees, RowAdvances
  <2>4. Abstract!NewPicture
    BY <2>1, <2>2 DEF Abstract!NewPicture
  <2> QED BY <2>3, <2>4 DEF Abstract!Next
<1>6. CASE ExpireAttempt
  <2>1. row' = [row EXCEPT !.expired = TRUE] /\ nextId' = nextId /\ outcome' = outcome /\ row.id # 0 /\ ~row.expired
    BY <1>6 DEF ExpireAttempt
  <2>2. row'.id = row.id /\ row'.ref = row.ref /\ row'.wrong = row.wrong /\ row'.expired = TRUE
    BY <2>1 DEF Row
  <2>3. TableAgrees' /\ RowAdvances
    BY <1>0, <2>1, <2>2 DEF TableAgrees, RowAdvances
  <2>4. Abstract!Expire
    <3> DEFINE o == [id |-> row.id, ref |-> row.ref, wrong |-> row.wrong, expired |-> row.expired]
    <3>1. o \in [id : Nat, ref : Nat, wrong : Nat, expired : BOOLEAN]
      BY <1>0
    <3>2. [o EXCEPT !.expired = TRUE] = [id |-> row.id, ref |-> row.ref, wrong |-> row.wrong, expired |-> TRUE]
      BY <3>1, OpenExpired
    <3>3. o' = [id |-> row.id, ref |-> row.ref, wrong |-> row.wrong, expired |-> TRUE]
      BY <2>2
    <3> QED BY <2>1, <3>2, <3>3, Zenon DEF Abstract!Expire
  <2> QED BY <2>3, <2>4 DEF Abstract!Next
<1>7. ASSUME NEW a \in 0..LastId, NEW how \in {"released", "withdrawn", "verified", "punished"}, Closes(a, how)
      PROVE  TableAgrees' /\ RowAdvances /\ [Abstract!Next]_(Abstract!vars)
  <2>1. row.id = a /\ row' = NoRow /\ outcome' = [outcome EXCEPT ![a] = how] /\ nextId' = nextId
    BY <1>7 DEF Closes, TakeRow
  <2>2. row'.id = 0 /\ row'.ref = 0 /\ row'.wrong = 0 /\ row'.expired = FALSE
    BY <2>1 DEF NoRow
  <2>3. RowAdvances
    BY <1>0, <2>1, <2>2 DEF RowAdvances
  <2>4. CASE a = 0
    <3>1. row' = row /\ outcome' = outcome
      BY <2>1, <2>4 DEF TableAgrees, Attempt
    <3> QED BY <1>0, <2>1, <2>3, <3>1 DEF TableAgrees, Abstract!vars
  <2>5. CASE a # 0
    <3>1. a \in Attempt /\ outcome[a] = "pending" /\ a < nextId
      BY <1>0, <2>1, <2>5 DEF TableAgrees
    <3>2. TableAgrees'
      BY <1>0, <2>1, <2>2, <3>1 DEF TableAgrees
    <3>3. Abstract!Close(a, how)
      BY <2>1, <2>2, <3>1 DEF Abstract!Close, Abstract!Nothing
    <3>4. Deserved(how)
      BY <1>7, <2>1, <2>5 DEF Closes
    <3>5. Abstract!Verify(a) \/ Abstract!Punish(a) \/ Abstract!Release(a) \/ Abstract!Withdraw(a)
      BY <3>3, <3>4 DEF Deserved, Abstract!Verify, Abstract!Punish, Abstract!Release, Abstract!Withdraw
    <3> QED BY <2>3, <3>1, <3>2, <3>5 DEF Abstract!Next, Abstract!Challenges, Attempt
  <2> QED BY <2>4, <2>5
<1> QED BY <1>1, <1>2, <1>3, <1>4, <1>5, <1>6, <1>7 DEF AttemptStep
--------------------------------------------------------------------------------
(* What each action does to captcha_attempts *)

\* A claim closes the challenge, and a claim to punish one that deserves it.
LEMMA ClaimIsAttemptStep ==
    ASSUME NEW a \in 0..LastId, NEW verdict, Claim(a, verdict),
           verdict = "punish" /\ row.id = a /\ row.id # 0 => row.expired \/ row.wrong >= MaxWrong
    PROVE  AttemptStep
<1>1. CASE UNCHANGED <<store, claim>>
  BY <1>1 DEF store, attemptTable, AttemptStep
<1>2. CASE Release(a, IF verdict = "punish" THEN "punished" ELSE "released")
  BY <1>2 DEF Release, TakeRow, Closes, Deserved, AttemptStep
<1> QED BY <1>1, <1>2 DEF Claim

\* Whatever the step, captcha_attempts sees one transaction of AttemptStep or none.
LEMMA NextIsAttemptStep ==
    ASSUME TypeOK, HandlersAgree, Next
    PROVE  AttemptStep
<1> USE DEF store, attemptTable
<1>0. row.id \in 0..LastId
  BY DEF TypeOK, StoreTypeOK, Row
<1>1. CASE UNCHANGED attemptTable
  BY <1>1 DEF AttemptStep
<1>2. CASE Clock
  BY <1>2 DEF Clock, ScheduleFallsDue, AttemptStep
<1>3. CASE JoinStep
  BY <1>3 DEF JoinStep, IgnoreJoin, ClaimJoin, ReadSettings, Admit, Refuse, Challenge, AttemptStep
<1>4. ASSUME NEW a \in Attempt, SendStep(a) PROVE AttemptStep
  <2>1. a \in 0..LastId
    BY DEF Attempt
  <2>2. CASE DropCaptcha(a)
    BY <2>1, <2>2 DEF DropCaptcha, DeleteByID, Closes, Deserved, AttemptStep
  <2>3. CASE RecordCaptcha(a)
    BY <2>3 DEF RecordCaptcha, AttemptStep
  <2>4. CASE RollbackCaptcha(a)
    BY <2>1, <2>4 DEF RollbackCaptcha, Release, Closes, Deserved, AttemptStep
  <2>5. CASE MuteForCaptcha(a) \/ PostCaptcha(a)
    BY <2>5 DEF MuteForCaptcha, PostCaptcha, AttemptStep
  <2> QED BY <1>4, <2>2, <2>3, <2>4, <2>5 DEF SendStep
<1>5. ASSUME NEW a \in Attempt, TimerStep(a) PROVE AttemptStep
  <2>1. CASE TimerFires(a)
    BY <2>1 DEF TimerFires, AttemptStep
  <2>2. CASE TimerClaims(a)
    BY <2>2, ClaimIsAttemptStep DEF TimerClaims, HandlersAgree, TimersAgree, Attempt
  <2> QED BY <1>5, <2>1, <2>2 DEF TimerStep
<1>6. CASE SweepStep
  <2>1. sweep.id \in 0..LastId
    BY DEF TypeOK, WorkersTypeOK, SweepJob, Job
  <2>2. CASE SweepClaims
    BY <2>1, <2>2, ClaimIsAttemptStep DEF SweepClaims, HandlersAgree, SweepAgrees
  <2>3. CASE SweepPicks \/ RecoveryPicks \/ RecoveryEnds
    BY <2>3 DEF SweepPicks, RecoveryPicks, RecoveryEnds, AttemptStep
  <2> QED BY <1>6, <2>2, <2>3 DEF SweepStep
<1>7. ASSUME NEW a \in Attempt, ClaimStep(a) PROVE AttemptStep
  BY <1>7
  DEF ClaimStep, Punish, StoreMute, CallMute, UndoMute, RestoreClaimed, RearmClaimed,
      ReleaseClaimed, ClearClaimed, AttemptStep
<1>8. ASSUME NEW c \in Clicker, PressButton(c) \/ ClickStep(c) PROVE AttemptStep
  <2>1. click[c].id \in 0..LastId
    BY DEF TypeOK, HandlersTypeOK, ClickJob, Job
  <2>2. CASE RightAnswer(c)
    <3>1. CASE Complete(Held(click[c]))
      BY <2>1, <3>1 DEF Complete, Held, Unchanged, Release, Closes, Deserved, AttemptStep
    <3>2. CASE UNCHANGED store
      BY <3>2 DEF AttemptStep
    <3> QED BY <2>2, <3>1, <3>2 DEF RightAnswer
  <2>3. CASE WrongAnswer(c)
    <3>1. CASE IncrementAttempts(Held(click[c]))
      BY <3>1 DEF IncrementAttempts, Unchanged, CountsWrong, AttemptStep
    <3>2. CASE UNCHANGED store
      BY <3>2 DEF AttemptStep
    <3> QED BY <2>3, <3>1, <3>2 DEF WrongAnswer
  <2>4. CASE LastWrong(c)
    BY <2>1, <2>4, ClaimIsAttemptStep DEF LastWrong, HandlersAgree, ClicksAgree
  <2>5. CASE PressButton(c) \/ CountWrong(c)
    BY <2>5 DEF PressButton, CountWrong, AttemptStep
  <2> QED BY <1>8, <2>2, <2>3, <2>4, <2>5 DEF ClickStep
<1>9. ASSUME NEW f \in Refresher, PressRefresh(f) \/ RefreshStep(f) PROVE AttemptStep
  <2>1. CASE SwapCaptcha(f)
    <3>1. CASE UpdateOnRefresh(Held(refr[f]))
      <4>1. row.ref < MaxRefreshes
        BY <2>1, <3>1
        DEF SwapCaptcha, UpdateOnRefresh, Unchanged, Snapshot, Held, HandlersAgree, RefreshesAgree
      <4> QED BY <3>1, <4>1 DEF UpdateOnRefresh, Unchanged, Refreshes, AttemptStep
    <3>2. CASE UNCHANGED store
      BY <3>2 DEF AttemptStep
    <3> QED BY <2>1, <3>1, <3>2 DEF SwapCaptcha
  <2>2. CASE PressRefresh(f) \/ StartCooldown(f)
    BY <2>2 DEF PressRefresh, StartCooldown, AttemptStep
  <2> QED BY <1>9, <2>1, <2>2 DEF RefreshStep
<1>10. CASE LeftStep
  <2>1. left.id \in 0..LastId
    BY DEF TypeOK, HandlersTypeOK, LeftJob, Job
  <2>2. CASE LeftDeletes
    BY <2>1, <2>2 DEF LeftDeletes, DeleteByID, Closes, Deserved, AttemptStep
  <2>3. CASE LeftArrives \/ LeftReads \/ LeftClears
    BY <2>3 DEF LeftArrives, LeftReads, LeftClears, AttemptStep
  <2> QED BY <1>10, <2>2, <2>3 DEF LeftStep
<1>11. CASE ApproverStep
  <2>1. approver.id \in 0..LastId
    BY DEF TypeOK, HandlersTypeOK, ApproverJob, Job
  <2>2. CASE ApproverReleases
    BY <2>1, <2>2, ClaimIsAttemptStep DEF ApproverReleases
  <2>3. CASE ApproverReads
    BY <2>3 DEF ApproverReads, AttemptStep
  <2> QED BY <1>11, <2>2, <2>3 DEF ApproverStep
<1>12. CASE AdminStep
  <2>1. admin.id \in 0..LastId
    BY DEF TypeOK, HandlersTypeOK, AdminJob
  <2>2. CASE DisableClaims
    BY <2>1, <2>2 DEF DisableClaims, Release, Closes, Deserved, AttemptStep
  <2>3. CASE DeleteSettingsCache \/ DisableLists \/ DisableUnmutes \/ DisableStores
    BY <2>3 DEF DeleteSettingsCache, DisableLists, DisableUnmutes, DisableStores, AttemptStep
  <2> QED BY <1>12, <2>2, <2>3 DEF AdminStep
<1>13. CASE UnmuterStep
  BY <1>13
  DEF UnmuterStep, UnmuterPicks, UnmuterUnmutes, UnmuterRemoves, UnmuterReloads, UnmuterRemutes,
      AttemptStep
<1>14. CASE Join \/ Leave \/ ForgetJoin \/ CooldownEnds \/ SettingsExpire \/ Crash \/ Restart \/ ApproveUser
  BY <1>14
  DEF Join, Leave, ForgetJoin, CooldownEnds, SettingsExpire, Crash, Restart, ApproveUser, AttemptStep
<1>15. CASE \E on \in BOOLEAN : SetCaptchaEnabled(on)
  BY <1>15 DEF SetCaptchaEnabled, AttemptStep
<1> QED BY <1>2, <1>3, <1>4, <1>5, <1>6, <1>7, <1>8, <1>9, <1>10, <1>11, <1>12, <1>13, <1>14, <1>15, Zenon
        DEF Next
--------------------------------------------------------------------------------
(* What the goroutines remember stays true *)

\* The only actions that give a goroutine something new to remember.
LEMMA WhoRemembers ==
    ASSUME Next
    PROVE  /\ \/ UNCHANGED timer \/ Crash \/ RecoveryPicks
              \/ \E a \in Attempt : RecordCaptcha(a) \/ TimerStep(a)
           /\ UNCHANGED sweep \/ Crash \/ Restart \/ SweepStep
           /\ UNCHANGED click \/ Crash \/ \E c \in Clicker : PressButton(c) \/ ClickStep(c)
           /\ UNCHANGED refr \/ Crash \/ \E f \in Refresher : PressRefresh(f) \/ RefreshStep(f)
<1> USE DEF workers, handlers
<1>1. CASE Join \/ Leave \/ Clock \/ ForgetJoin \/ CooldownEnds \/ SettingsExpire \/ Crash \/ Restart \/ ApproveUser
  BY <1>1 DEF Join, Leave, Clock, ForgetJoin, CooldownEnds, SettingsExpire, Restart, ApproveUser
<1>2. CASE JoinStep
  BY <1>2 DEF JoinStep, IgnoreJoin, ClaimJoin, ReadSettings, Admit, Refuse, Challenge
<1>3. CASE SweepStep
  BY <1>3 DEF SweepStep, SweepPicks, SweepClaims, RecoveryPicks, RecoveryEnds
<1>4. CASE LeftStep
  BY <1>4 DEF LeftStep, LeftArrives, LeftReads, LeftDeletes, LeftClears
<1>5. CASE ApproverStep
  BY <1>5 DEF ApproverStep, ApproverReads, ApproverReleases
<1>6. CASE AdminStep
  BY <1>6 DEF AdminStep, DeleteSettingsCache, DisableLists, DisableClaims, DisableUnmutes, DisableStores
<1>7. CASE UnmuterStep
  BY <1>7 DEF UnmuterStep, UnmuterPicks, UnmuterUnmutes, UnmuterRemoves, UnmuterReloads, UnmuterRemutes
<1>8. CASE \E on \in BOOLEAN : SetCaptchaEnabled(on)
  BY <1>8 DEF SetCaptchaEnabled
<1>9. ASSUME NEW a \in Attempt, SendStep(a)
      PROVE  UNCHANGED <<sweep, click, refr>> /\ (UNCHANGED timer \/ RecordCaptcha(a))
  BY <1>9 DEF SendStep, MuteForCaptcha, DropCaptcha, PostCaptcha, RecordCaptcha, RollbackCaptcha
<1>10. ASSUME NEW a \in Attempt, TimerStep(a) PROVE UNCHANGED <<sweep, click, refr>>
  BY <1>10 DEF TimerStep, TimerFires, TimerClaims
<1>11. ASSUME NEW a \in Attempt, ClaimStep(a) PROVE UNCHANGED <<timer, sweep, click, refr>>
  BY <1>11
  DEF ClaimStep, Punish, StoreMute, CallMute, UndoMute, RestoreClaimed, RearmClaimed, ReleaseClaimed,
      ClearClaimed
<1>12. ASSUME NEW c \in Clicker, PressButton(c) \/ ClickStep(c) PROVE UNCHANGED <<timer, sweep, refr>>
  BY <1>12 DEF PressButton, ClickStep, RightAnswer, WrongAnswer, CountWrong, LastWrong
<1>13. ASSUME NEW f \in Refresher, PressRefresh(f) \/ RefreshStep(f) PROVE UNCHANGED <<timer, sweep, click>>
  BY <1>13 DEF PressRefresh, RefreshStep, SwapCaptcha, StartCooldown
<1> QED BY <1>1, <1>2, <1>3, <1>4, <1>5, <1>6, <1>7, <1>8, <1>9, <1>10, <1>11, <1>12, <1>13 DEF Next

\* A timer that has read its verdict may rely on it: expiry is never taken back.
LEMMA TimersStep ==
    ASSUME TypeOK, HandlersAgree, Next, RowAdvances
    PROVE  TimersAgree'
<1>0. /\ nextId \in Nat /\ nextId' \in Nat /\ nextId' >= nextId
      /\ \A a \in Attempt : a \in Nat \ {0}
      /\ timer \in [Attempt -> Timer]
  BY TypeInvariant DEF TypeOK, StoreTypeOK, WorkersTypeOK, RowAdvances, Attempt
<1>1. ASSUME NEW a \in Attempt, timer'[a].pc = timer[a].pc
      PROVE  /\ timer'[a].pc # "off" => a < nextId'
             /\ timer'[a].pc = "punish" /\ row'.id = a => row'.expired
  <2>1. timer[a].pc # "off" => a \in 1..(nextId - 1) /\ a < nextId'
    BY <1>0 DEF HandlersAgree, TimersAgree
  <2>2. timer[a].pc = "punish" /\ row'.id = a => row.id = a /\ (row.expired => row'.expired)
    BY <2>1, Zenon DEF RowAdvances
  <2>3. timer[a].pc = "punish" /\ row.id = a => row.expired
    BY Zenon DEF HandlersAgree, TimersAgree
  <2> QED BY <1>1, <2>1, <2>2, <2>3, Zenon
<1>2. ASSUME NEW a \in Attempt, timer'[a].pc = "off" \/ (timer'[a].pc \in {"armed", "release"} /\ a < nextId)
      PROVE  /\ timer'[a].pc # "off" => a < nextId'
             /\ timer'[a].pc = "punish" /\ row'.id = a => row'.expired
  BY <1>0, <1>2
<1>3. CASE UNCHANGED timer
  BY <1>1, <1>3 DEF TimersAgree
<1>4. CASE Crash
  <2>1. \A a \in Attempt : timer'[a].pc = "off"
    BY <1>4 DEF Crash, NoTimer
  <2> QED BY <1>2, <2>1 DEF TimersAgree
<1>5. CASE RecoveryPicks
  <2>1. ASSUME NEW a \in Attempt
        PROVE  timer'[a].pc = timer[a].pc \/ (timer'[a].pc = "armed" /\ a < nextId)
    BY <1>0, <1>5 DEF RecoveryPicks, HandlersAgree, TableAgrees
  <2> QED BY <1>1, <1>2, <2>1 DEF TimersAgree
<1>6. ASSUME NEW b \in Attempt, RecordCaptcha(b)
      PROVE  TimersAgree'
  <2>1. ASSUME NEW a \in Attempt
        PROVE  timer'[a].pc = timer[a].pc \/ (timer'[a].pc = "armed" /\ a < nextId)
    BY <1>0, <1>6 DEF RecordCaptcha, UpdateMessageID, HandlersAgree, TableAgrees
  <2> QED BY <1>1, <1>2, <2>1 DEF TimersAgree
<1>7. ASSUME NEW b \in Attempt, TimerFires(b)
      PROVE  TimersAgree'
  <2>1. UNCHANGED <<row, nextId>>
    BY <1>7 DEF TimerFires, store
  <2>2. /\ \A a \in Attempt : a # b => timer'[a] = timer[a]
        /\ timer'[b].pc \in {"off", "release", "punish"}
        /\ timer[b].pc = "armed" /\ (row.id = b => row.expired)
    BY <1>0, <1>7, VerdictTypes DEF TimerFires, SetTimer, NoTimer, Timer
  <2>3. b < nextId
    BY <2>2 DEF HandlersAgree, TimersAgree
  <2>4. /\ timer'[b].pc # "off" => b < nextId'
        /\ timer'[b].pc = "punish" /\ row'.id = b => row'.expired
    BY <2>1, <2>2, <2>3
  <2> QED BY <1>1, <2>2, <2>4 DEF TimersAgree
<1>8. ASSUME NEW b \in Attempt, TimerClaims(b)
      PROVE  TimersAgree'
  <2>1. \A a \in Attempt : timer'[a].pc = timer[a].pc \/ timer'[a].pc = "off"
    BY <1>0, <1>8 DEF TimerClaims, SetTimer, NoTimer
  <2> QED BY <1>1, <1>2, <2>1 DEF TimersAgree
<1> QED BY <1>3, <1>4, <1>5, <1>6, <1>7, <1>8, WhoRemembers DEF TimerStep

\* So may the cleanup worker and the recovery pass.
LEMMA SweepAgreesStep ==
    ASSUME TypeOK, HandlersAgree, Next, RowAdvances
    PROVE  SweepAgrees'
<1>0. nextId \in Nat /\ nextId' \in Nat /\ nextId' >= nextId
  BY TypeInvariant DEF TypeOK, StoreTypeOK, RowAdvances
<1>1. CASE UNCHANGED sweep
  <2>1. sweep.pc = "punish" => sweep'.id \in 1..(nextId' - 1)
    BY <1>0, <1>1 DEF HandlersAgree, SweepAgrees
  <2>2. sweep.pc = "punish" /\ row'.id = sweep.id => row'.expired
    BY Zenon DEF HandlersAgree, SweepAgrees, RowAdvances
  <2> QED BY <1>1, <2>1, <2>2 DEF SweepAgrees
<1>2. CASE sweep'.pc # "punish"
  BY <1>2 DEF SweepAgrees
<1>3. CASE SweepPicks \/ RecoveryPicks
  <2>1. UNCHANGED <<row, nextId>>
    BY <1>3 DEF SweepPicks, RecoveryPicks, store
  <2>2. ASSUME sweep'.pc = "punish"
        PROVE  sweep'.id = row.id /\ row.expired /\ row.id # 0
    <3>1. CASE SweepPicks
      BY <3>1 DEF SweepPicks, AtRow, HandlersAgree, TableAgrees, NoRow
    <3>2. CASE RecoveryPicks
      BY <2>2, <3>2 DEF RecoveryPicks, AtRow, Idle, At
    <3> QED BY <1>3, <3>1, <3>2
  <2>3. row.id # 0 => row.id \in 1..(nextId - 1)
    BY <1>0 DEF TypeOK, StoreTypeOK, Row, HandlersAgree, TableAgrees
  <2> QED BY <2>1, <2>2, <2>3 DEF SweepAgrees
<1>4. CASE Crash \/ Restart
  BY <1>2, <1>4 DEF Crash, Restart, Idle, At
<1>5. CASE SweepClaims
  <2>1. sweep'.pc = "idle"
    BY <1>5 DEF SweepClaims, Idle, At
  <2> QED BY <1>2, <2>1
<1>6. CASE RecoveryEnds
  BY <1>1, <1>6 DEF RecoveryEnds, workers
<1> QED BY <1>1, <1>3, <1>4, <1>5, <1>6, WhoRemembers DEF SweepStep

\* The last wrong answer stays the last one while the punishment is on its way.
LEMMA ClicksStep ==
    ASSUME TypeOK, HandlersAgree, Next, RowAdvances
    PROVE  ClicksAgree'
<1>0. /\ nextId \in Nat /\ nextId' \in Nat /\ nextId' >= nextId
      /\ click \in [Clicker -> ClickJob]
  BY TypeInvariant DEF TypeOK, StoreTypeOK, HandlersTypeOK, RowAdvances
<1>1. ASSUME NEW d \in Clicker, click'[d] = click[d], click[d].pc = "punish"
      PROVE  /\ click'[d].id \in 1..(nextId' - 1)
             /\ row'.id = click'[d].id => row'.wrong >= MaxWrong
  <2>1. click[d].id \in 1..(nextId - 1)
    BY <1>1 DEF HandlersAgree, ClicksAgree
  <2>2. click[d].id \in 1..(nextId' - 1)
    BY <1>0, <2>1
  <2>3. row'.id = click[d].id => row.id = click[d].id /\ (row.wrong >= MaxWrong => row'.wrong >= MaxWrong)
    BY <2>1, Zenon DEF RowAdvances
  <2>4. row.id = click[d].id => row.wrong >= MaxWrong
    BY <1>1, Zenon DEF HandlersAgree, ClicksAgree
  <2> QED BY <1>1, <2>2, <2>3, <2>4, Zenon
<1>2. CASE \A d \in Clicker : click'[d] = click[d] \/ click'[d].pc # "punish"
  BY <1>1, <1>2 DEF ClicksAgree
<1>3. CASE Crash
  <2>1. \A d \in Clicker : click'[d].pc # "punish"
    BY <1>3 DEF Crash, Idle, At
  <2> QED BY <1>2, <2>1
<1>4. ASSUME NEW c \in Clicker, PressButton(c) PROVE ClicksAgree'
  <2>1. \A d \in Clicker : click'[d] = click[d] \/ click'[d].pc # "punish"
    BY <1>0, <1>4 DEF PressButton, AtRow
  <2> QED BY <1>2, <2>1
<1>5. ASSUME NEW c \in Clicker, RightAnswer(c) \/ WrongAnswer(c) \/ LastWrong(c) PROVE ClicksAgree'
  <2>1. SetClick(c, "idle") \/ SetClick(c, "reload")
    BY <1>5 DEF RightAnswer, WrongAnswer, LastWrong
  <2>2. \A d \in Clicker : click'[d] = click[d] \/ click'[d].pc # "punish"
    BY <1>0, <2>1 DEF SetClick, Idle, At, ClickJob, Job
  <2> QED BY <1>2, <2>2
<1>6. ASSUME NEW c \in Clicker, CountWrong(c) PROVE ClicksAgree'
  <2>1. UNCHANGED <<row, nextId>>
    BY <1>6 DEF CountWrong, store
  <2>2. \A d \in Clicker : d # c => click'[d] = click[d]
    BY <1>0, <1>6 DEF CountWrong, SetClick
  <2>3. CASE row.id = click[c].id /\ row.wrong >= MaxWrong
    <3>1. row.id # 0
      BY <2>3, StoreAssumption DEF HandlersAgree, TableAgrees, NoRow
    <3>2. row.id \in 1..(nextId - 1)
      BY <1>0, <3>1 DEF TypeOK, StoreTypeOK, Row, HandlersAgree, TableAgrees
    <3>3. click'[c].id = click[c].id
      BY <1>0, <1>6, <2>3 DEF CountWrong, SetClick, ClickJob, Job
    <3>4. click'[c].id \in 1..(nextId' - 1) /\ row'.wrong >= MaxWrong
      BY <2>1, <2>3, <3>2, <3>3
    <3> QED BY <1>1, <2>2, <3>4 DEF ClicksAgree
  <2>4. CASE ~(row.id = click[c].id /\ row.wrong >= MaxWrong)
    <3>1. click'[c].pc = "idle"
      BY <1>0, <1>6, <2>4 DEF CountWrong, SetClick, Idle, At
    <3> QED BY <1>2, <2>2, <3>1
  <2> QED BY <2>3, <2>4
<1>7. CASE UNCHANGED click
  BY <1>2, <1>7
<1> QED BY <1>3, <1>4, <1>5, <1>6, <1>7, WhoRemembers DEF ClickStep

\* A refresh under way was within the limit when it was pressed.
LEMMA RefreshesStep ==
    ASSUME TypeOK, HandlersAgree, Next
    PROVE  RefreshesAgree'
<1>0. refr \in [Refresher -> RefreshJob]
  BY DEF TypeOK, HandlersTypeOK
<1>1. CASE \A f \in Refresher : refr'[f] = refr[f] \/ refr'[f].pc # "swap"
  BY <1>1 DEF HandlersAgree, RefreshesAgree
<1>2. CASE UNCHANGED refr \/ Crash
  BY <1>1, <1>2 DEF Crash, Idle, At
<1>3. ASSUME NEW f \in Refresher, PressRefresh(f) PROVE RefreshesAgree'
  <2>1. \A g \in Refresher : refr'[g] = refr[g] \/ refr'[g].ref = row.ref
    BY <1>0, <1>3 DEF PressRefresh, AtRow
  <2>2. row.ref < MaxRefreshes
    BY <1>3 DEF PressRefresh
  <2> QED BY <2>1, <2>2 DEF HandlersAgree, RefreshesAgree
<1>4. ASSUME NEW f \in Refresher, RefreshStep(f) PROVE RefreshesAgree'
  <2>1. SetRefresh(f, "idle") \/ SetRefresh(f, "cool")
    BY <1>4 DEF RefreshStep, SwapCaptcha, StartCooldown
  <2>2. \A g \in Refresher : refr'[g] = refr[g] \/ refr'[g].pc # "swap"
    BY <1>0, <2>1 DEF SetRefresh, Idle, At, RefreshJob, Job
  <2> QED BY <1>1, <2>2
<1> QED BY <1>2, <1>3, <1>4, WhoRemembers

--------------------------------------------------------------------------------
(* The theorems *)

\* The invariant holds of the empty tables.
LEMMA AgreeInit == Init => TypeOK /\ HandlersAgree
<1> SUFFICES ASSUME Init PROVE TypeOK /\ HandlersAgree
  OBVIOUS
<1>1. TypeOK
  BY InitTypes
<1>2. TableAgrees
  BY StoreAssumption DEF Init, StoreInit, TableAgrees, NoRow, Attempt
<1>3. TimersAgree /\ SweepAgrees /\ ClicksAgree /\ RefreshesAgree
  BY DEF Init, TimersAgree, SweepAgrees, ClicksAgree, RefreshesAgree, NoTimer, Idle, At
<1> QED BY <1>1, <1>2, <1>3 DEF HandlersAgree

\* Every step keeps the invariant and is a step of CaptchaChallenge or a stutter.
LEMMA AgreeStep ==
    ASSUME TypeOK, HandlersAgree, [Next]_vars
    PROVE  TypeOK' /\ HandlersAgree' /\ [Abstract!Next]_(Abstract!vars)
<1>1. TypeOK'
  BY TypeInvariant
<1>2. CASE UNCHANGED vars
  <2>1. UNCHANGED <<row, nextId, outcome, timer, sweep, click, refr>>
    BY <1>2 DEF vars, store, workers, handlers
  <2> QED BY <1>1, <2>1
          DEF HandlersAgree, TableAgrees, TimersAgree, SweepAgrees, ClicksAgree, RefreshesAgree, Abstract!vars
<1>3. CASE Next
  <2>1. AttemptStep
    BY <1>3, NextIsAttemptStep
  <2>2. TableAgrees' /\ RowAdvances /\ [Abstract!Next]_(Abstract!vars)
    BY <2>1, TableStep DEF HandlersAgree
  <2> QED BY <1>1, <1>3, <2>2, TimersStep, SweepAgreesStep, ClicksStep, RefreshesStep DEF HandlersAgree
<1> QED BY <1>2, <1>3

\* At every moment the row is the one open challenge, and whoever is about to punish
\* holds a verdict that is still deserved, however long ago it read the row: the
\* inductive invariant.
THEOREM Agreement == Spec => []HandlersAgree
<1>1. TypeOK /\ HandlersAgree /\ [Next]_vars => (TypeOK /\ HandlersAgree)'
  BY AgreeStep
<1> QED BY <1>1, AgreeInit, PTL DEF Spec

\* The handlers, timers, workers and commands of captcha.go together are the
\* one-challenge-at-a-time game of CaptchaChallenge: each challenge is closed once,
\* nobody is verified after expiry or punished without cause, and no refresh
\* exceeds the limit.
THEOREM Refinement == Spec => ImplementsChallenge
<1>1. Init => Abstract!Init
  BY DEF Init, StoreInit, NoRow, Attempt, Abstract!Init, Abstract!Challenges, Abstract!Nothing
<1>2. TypeOK /\ HandlersAgree /\ [Next]_vars => (TypeOK /\ HandlersAgree)' /\ [Abstract!Next]_(Abstract!vars)
  BY AgreeStep
<1> QED BY <1>1, <1>2, AgreeInit, PTL DEF Spec, ImplementsChallenge, Abstract!Spec
================================================================================
