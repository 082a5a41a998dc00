------------------------------ MODULE MCLifecycle ------------------------------
(* One run for three components that share no state: a behaviour exercises one of *)
(* them and the others rest, so that their interleavings do not multiply.         *)
EXTENDS Shutdown, Migrations

CONSTANTS Message, Limits, Slots, Window, Retention, Slack, LastSent, LastTime, Orders

VARIABLES part, now, entry, nextPtr, limit, seen, orders, pc, told, time, old, crc, lookup, slots, cleaner

Flood == INSTANCE Antiflood

floodVars == <<now, entry, nextPtr, limit, seen, orders, pc, told, time, old, crc, lookup, slots, cleaner>>
allVars   == <<part, downVars, migVars, floodVars>>

DownRests  == DownInit /\ mode = "webhook"
MigRests   == /\ row = [f \in File |-> NoRow] /\ effects = [f \in File |-> 0] /\ lock = Free /\ silent = TRUE
              /\ files = [r \in Runner |-> 1] /\ sums = [r \in Runner |-> [f \in File |-> "old"]]
              /\ runner = [r \in Runner |-> [Start EXCEPT !.pc = "failed"]] /\ overwritten = {}
\* One of the replicas is of the newest version, in which the first file was changed; the
\* others may have it changed too; the database is from before the checksums or it is not.
MigStarts == /\ MigInit
             /\ \E r \in Runner : files[r] = LastFile /\ sums[r][1] = "new"
             /\ \A r \in Runner, f \in File \ {1} : sums[r][f] = "old"
             /\ \A f, g \in Rows : row[f] = row[g]
FloodRests == Flood!Init /\ limit = 0

Init == \/ part = "shutdown" /\ DownInit /\ MigRests /\ FloodRests
        \/ part = "migrations" /\ DownRests /\ MigStarts /\ FloodRests
        \/ part = "flood" /\ DownRests /\ MigRests /\ Flood!Init

Part(p) == part = p /\ part' = p

ShutdownPart(A)  == Part("shutdown") /\ A /\ UNCHANGED <<migVars, floodVars>>
MigrationPart(A) == Part("migrations") /\ A /\ UNCHANGED <<downVars, floodVars>>
FloodPart(A)     == Part("flood") /\ A /\ UNCHANGED <<downVars, migVars>>

Next == ShutdownPart(DownNext) \/ MigrationPart(MigNext) \/ FloodPart(Flood!Next)

FairSpec == /\ Init /\ [][Next]_allVars
            /\ WF_allVars(ShutdownPart(ManagerRuns))
            /\ \A r \in Runner : WF_allVars(MigrationPart(Run(r)))
            /\ WF_allVars(FloodPart(Flood!Tick))
            /\ WF_allVars(FloodPart(Flood!CleanerFinds)) /\ WF_allVars(FloodPart(Flood!CleanerDeletes))
            /\ \A m \in Message : WF_allVars(FloodPart(Flood!Handle(m)))

LifecycleTypeOK == DownTypeOK /\ MigTypeOK

\* In the run, every message is dealt with in the end (Antiflood).
MessagesEnd == Flood!MessagesEnd
================================================================================
