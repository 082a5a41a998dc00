------------------------------ MODULE FloodCounter ------------------------------
(* What antiflood promises about the messages of one user in one chat: they are   *)
(* counted one at a time and each once, the message with which a burst outgrows   *)
(* the limit is punished, and a burst is forgotten only after a quiet minute.     *)
EXTENDS Naturals, Sequences

CONSTANTS Message, Limits, Window

VARIABLES burst,     \* the messages counted since the last punishment or pause
          last,      \* when the latest of them was counted
          clock,
          verdict    \* on each message
vars == <<burst, last, clock, verdict>>

Init == /\ burst = <<>> /\ last = 0 /\ clock = 0
        /\ verdict = [m \in Message |-> "none"]

Tick == clock' = clock + 1 /\ UNCHANGED <<burst, last, verdict>>

Pause == clock > last + Window

Judge(m, v) == verdict[m] = "none" /\ verdict' = [verdict EXCEPT ![m] = v] /\ UNCHANGED clock

Pass(m, b)   == Judge(m, "passes") /\ burst' = Append(b, m)
Punish(m)    == Judge(m, "punished") /\ burst' = <<>>
\* Administrators, approved users, and chats without a limit.
Ignore(m)    == Judge(m, "ignored") /\ UNCHANGED <<burst, last>>

CountIn(b, m, limit) == (Len(b) < limit /\ Pass(m, b)) \/ (Len(b) >= limit /\ Punish(m))

\* A message is counted as of some time up to the present, under some limit.
Count(m) == /\ \E limit \in Limits \ {0} :
                  CountIn(burst, m, limit) \/ (Pause /\ CountIn(<<>>, m, limit))
            /\ last' \in 0..clock

Forget == Pause /\ burst' = <<>> /\ last' = 0 /\ UNCHANGED <<clock, verdict>>

Next == Tick \/ Forget \/ \E m \in Message : Ignore(m) \/ Count(m)

Spec == Init /\ [][Next]_vars
================================================================================
