------------------------------ MODULE CaptchaStore ------------------------------
(* The captcha tables of one (user, chat) pair, and the transactions of           *)
(* alita/db/captcha/repository.go on them.  Both tables are unique on             *)
(* (user_id, chat_id), so each holds at most one row for the pair.                *)
(*                                                                                *)
(* Every operator below is one database transaction: the callers interleave       *)
(* between transactions, never inside one.  Time is abstracted to what the        *)
(* queries compare: whether expires_at has passed, whether unmute_at has passed,  *)
(* and which of two unmute_at values is the later one (the stamp of its write).   *)
EXTENDS Naturals

CONSTANTS LastId,        \* the number of challenges the model may issue
          MaxWrong,      \* captcha_settings.max_attempts
          MaxRefreshes   \* captchaMaxRefreshes

ASSUME StoreAssumption == /\ LastId \in Nat \ {0}
                          /\ MaxWrong \in Nat \ {0}
                          /\ MaxRefreshes \in Nat

VARIABLES row,       \* the captcha_attempts row, NoRow if there is none
          nextId,    \* the value captcha_attempts.id takes next
          sched,     \* the captcha_muted_users row, NoSchedule if there is none
          stamp,     \* the order of the unmute_at values written so far
          outcome    \* history: how each challenge was taken out of the table

attemptTable == <<row, nextId, outcome>>
muteTable    == <<sched, stamp>>
store        == <<row, nextId, outcome, sched, stamp>>

Attempt == 1..LastId

Outcome == {"unborn", "pending", "verified", "punished", "released", "withdrawn"}

\* The columns the WHERE clauses compare.  The answer changes with refresh_count;
\* message_id is 0 until it is recorded, then 1 + the refresh the message shows.
Row == [id : 0..LastId, msg : Nat, ref : Nat, wrong : Nat, expired : BOOLEAN]

NoRow      == [id |-> 0, msg |-> 0, ref |-> 0, wrong |-> 0, expired |-> FALSE]
NoSchedule == [at |-> 0, due |-> FALSE]

StoreTypeOK == /\ row \in Row
               /\ nextId \in 1..(LastId + 1)
               /\ sched \in [at : Nat, due : BOOLEAN]
               /\ stamp \in Nat \ {0}
               /\ outcome \in [Attempt -> Outcome]

StoreInit == /\ row = NoRow
             /\ nextId = 1
             /\ sched = NoSchedule
             /\ stamp = 1
             /\ outcome = [a \in Attempt |-> "unborn"]

\* What a handler remembers of the row it has read.
Snapshot(r) == [id |-> r.id, msg |-> r.msg, ref |-> r.ref]

\* The compare-and-swap condition shared by Complete, Increment and Refresh:
\* id, message_id and refresh_count unchanged, and expires_at still ahead.
Unchanged(s) == row.id = s.id /\ s.id # 0 /\ Snapshot(row) = s /\ ~row.expired

--------------------------------------------------------------------------------
(* captcha_attempts *)

\* CreateCaptchaAttemptPreMessage: whatever challenge the pair still had is
\* deleted in the same transaction.
CreateAttempt ==
    /\ nextId \in Attempt
    /\ row' = [NoRow EXCEPT !.id = nextId]
    /\ nextId' = nextId + 1
    /\ outcome' = [a \in Attempt |-> IF a = nextId THEN "pending"
                                     ELSE IF a = row.id THEN "withdrawn" ELSE outcome[a]]
    /\ UNCHANGED muteTable

UpdateMessageID(a) ==
    /\ row.id = a
    /\ row' = [row EXCEPT !.msg = 1]
    /\ UNCHANGED <<nextId, outcome, muteTable>>

IncrementAttempts(s) ==
    /\ Unchanged(s)
    /\ row' = [row EXCEPT !.wrong = @ + 1]
    /\ UNCHANGED <<nextId, outcome, muteTable>>

UpdateOnRefreshByIDOnly(s) ==
    /\ row.id = s.id /\ ~row.expired
    /\ row' = [row EXCEPT !.ref = @ + 1, !.msg = row.ref + 2]
    /\ UNCHANGED <<nextId, outcome, muteTable>>

UpdateOnRefresh(s) ==
    /\ Unchanged(s)
    /\ row' = [row EXCEPT !.ref = @ + 1, !.msg = row.ref + 2]
    /\ UNCHANGED <<nextId, outcome, muteTable>>

(* captcha_muted_users *)

\* createMutedUser: an upsert that replaces unmute_at.
CreateMutedUser(now) ==
    /\ sched' = [at |-> stamp, due |-> now]
    /\ stamp' = stamp + 1

DeleteMutedUser == sched' = NoSchedule /\ UNCHANGED stamp

DeleteMutedUserIfUnchanged(at) == sched.at = at /\ DeleteMutedUser

(* the claims: whoever deletes the row owns what happens to the user next *)

\* deleteCaptchaAttemptAtomic, when its WHERE clause matched.
TakeRow(a, how) ==
    /\ row.id = a
    /\ row' = NoRow
    /\ outcome' = [outcome EXCEPT ![a] = how]
    /\ UNCHANGED nextId

\* DeleteCaptchaAttemptByIDAtomic: no unmute is scheduled.
DeleteByID(a) == TakeRow(a, "withdrawn") /\ UNCHANGED muteTable

ReleaseUnscheduled(a, how) == TakeRow(a, how) /\ UNCHANGED muteTable

\* ReleaseCaptchaAttemptAtomic: the unmute is scheduled in the same transaction.
Release(a, how) == TakeRow(a, how) /\ CreateMutedUser(TRUE)

\* CompleteCaptchaAttemptAtomic
Complete(s) == Unchanged(s) /\ Release(s.id, "verified")

--------------------------------------------------------------------------------
(* the clock *)

\* expires_at of the pending challenge passes.
ExpireAttempt == /\ row.id # 0 /\ ~row.expired
                 /\ row' = [row EXCEPT !.expired = TRUE]
                 /\ UNCHANGED <<nextId, outcome, muteTable>>

\* unmute_at of a 24-hour mute passes.
ScheduleFallsDue == /\ sched.at # 0 /\ ~sched.due
                    /\ sched' = [sched EXCEPT !.due = TRUE]
                    /\ UNCHANGED <<attemptTable, stamp>>
================================================================================
