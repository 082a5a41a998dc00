-------------------------------- MODULE RaidMode --------------------------------
(* What anti-raid promises about the raid mode of one chat, whoever calls it from *)
(* whichever replica: it is started by one caller at a time, a new end lies in    *)
(* the future, and before its end it is left only on an administrator's order.    *)
EXTENDS Naturals

CONSTANT Task          \* join updates, commands and buttons

VARIABLES until,       \* the end of the raid, 0 if there is none
          clock,
          told         \* what each task has been answered

vars == <<until, clock, told>>

Init == until = 0 /\ clock = 1 /\ told = [k \in Task |-> "none"]

Tick == clock' = clock + 1 /\ UNCHANGED <<until, told>>

Tell(k, answer) == told[k] = "none" /\ told' = [told EXCEPT ![k] = answer] /\ UNCHANGED clock

Start(k) == until = 0 /\ Tell(k, "started") /\ until' \in Nat /\ until' >= clock

Prolong(k) == until # 0 /\ Tell(k, "prolonged") /\ until' \in Nat /\ until' >= clock

Stop(k) == until # 0 /\ Tell(k, "stopped") /\ until' = 0

Over == until # 0 /\ clock >= until /\ until' = 0 /\ UNCHANGED <<clock, told>>

Next == Tick \/ Over \/ \E k \in Task : Start(k) \/ Prolong(k) \/ Stop(k)

Spec == Init /\ [][Next]_vars
================================================================================
