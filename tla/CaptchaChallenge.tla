---------------------------- MODULE CaptchaChallenge ----------------------------
(* What the captcha promises about the challenges put to one user in one chat,    *)
(* without databases, goroutines or Telegram: they are issued in order, at most   *)
(* one is open, and each is closed once, by exactly one of a right answer in      *)
(* time, a punishment the user has earned, a release, or a withdrawal.            *)
EXTENDS Naturals

CONSTANTS LastId, MaxWrong, MaxRefreshes

VARIABLES status,    \* of every challenge
          open       \* the open challenge: its number (0: none) and its counts

vars == <<status, open>>

Challenges == 1..LastId
Nothing    == [id |-> 0, ref |-> 0, wrong |-> 0, expired |-> FALSE]

Init == status = [a \in Challenges |-> "unborn"] /\ open = Nothing

\* The next challenge replaces the one the user still has.
Issue(a) ==
    /\ status[a] = "unborn"
    /\ \A b \in Challenges : b < a => status[b] # "unborn"
    /\ status' = [b \in Challenges |-> IF b = a THEN "pending"
                                       ELSE IF b = open.id THEN "withdrawn" ELSE status[b]]
    /\ open' = [Nothing EXCEPT !.id = a]

WrongAnswer == /\ open.id # 0 /\ ~open.expired
               /\ open' = [open EXCEPT !.wrong = @ + 1] /\ UNCHANGED status

NewPicture == /\ open.id # 0 /\ ~open.expired /\ open.ref < MaxRefreshes
              /\ open' = [open EXCEPT !.ref = @ + 1] /\ UNCHANGED status

Expire == /\ open.id # 0 /\ ~open.expired
          /\ open' = [open EXCEPT !.expired = TRUE] /\ UNCHANGED status

Close(a, how) == /\ open.id = a /\ status[a] = "pending"
                 /\ open' = Nothing /\ status' = [status EXCEPT ![a] = how]

Verify(a)   == ~open.expired /\ Close(a, "verified")
Punish(a)   == (open.expired \/ open.wrong >= MaxWrong) /\ Close(a, "punished")
Release(a)  == Close(a, "released")
Withdraw(a) == Close(a, "withdrawn")

Next == \/ WrongAnswer \/ NewPicture \/ Expire
        \/ \E a \in Challenges : Issue(a) \/ Verify(a) \/ Punish(a) \/ Release(a) \/ Withdraw(a)

Spec == Init /\ [][Next]_vars
================================================================================
