------------------------------ MODULE MCAntiflood ------------------------------
(* The instances that TLC checks of Antiflood and, in flood_raid, of AntiRaid: the *)
(* two counters of a chat, of messages and of joins.  They share no state, so a    *)
(* behaviour exercises one of them while the other rests.                          *)
EXTENDS Antiflood, AntiRaid, TLC

VARIABLE part

RaidRests == RaidInit /\ \A c \in Settings : conf.time <= c.time /\ conf.threshold <= c.threshold

CountInit == \/ part = "flood" /\ Init /\ RaidRests
             \/ part = "raid" /\ Init /\ limit = 0 /\ RaidInit

FloodPart(A) == part = "flood" /\ A /\ UNCHANGED <<part, raidVars>>
RaidPart(A)  == part = "raid" /\ A /\ UNCHANGED <<part, vars>>

CountNext == FloodPart(Next) \/ RaidPart(RaidNext)

CountSpec == CountInit /\ [][CountNext]_<<part, vars, raidVars>>

\* Messages are interchangeable.
Symmetry == Permutations(Message)
================================================================================
