-------------------------------- MODULE MCRedis --------------------------------
(* What is kept in Redis and must end: the raid mode of a chat (AntiRaid) and the *)
(* stale value of a key (CacheLoader).  They share no state, so a behaviour       *)
(* exercises one of them while the other rests; their interleavings would show    *)
(* nothing.                                                                       *)
EXTENDS AntiRaid

CONSTANTS Reader, Writer, LastLoad, LastWrite, CacheFaults

VARIABLES part,      \* which of the two is exercised
          version, settled, cached, gen, current, nextLoad, load, reader, writer, cacheFaults, lost

Cache == INSTANCE CacheLoader WITH faults <- cacheFaults, Faults <- CacheFaults

cacheVars == <<version, settled, cached, gen, current, nextLoad, load, reader, writer, cacheFaults, lost>>
redisVars == <<part, raidVars, cacheVars>>

RaidRests == RaidInit /\ \A c \in Settings : conf.time <= c.time /\ conf.threshold <= c.threshold

RedisInit == \/ part = "raid" /\ RaidInit /\ Cache!Init
             \/ part = "cache" /\ RaidRests /\ Cache!Init

RaidPart(A)  == part = "raid" /\ A /\ UNCHANGED <<part, cacheVars>>
CachePart(A) == part = "cache" /\ A /\ UNCHANGED <<part, raidVars>>

RedisNext == RaidPart(RaidNext) \/ CachePart(Cache!Next)

\* The fairness of the two specifications.
RedisSpec == /\ RedisInit /\ [][RedisNext]_redisVars
             /\ WF_redisVars(RaidPart(PollerFinds /\ Watch))
             /\ WF_redisVars(RaidPart(PollerDeletes /\ Watch))
             /\ \A r \in Reader : WF_redisVars(CachePart(Cache!ReaderStep(r)))
             /\ \A l \in Cache!LoadId : WF_redisVars(CachePart(Cache!LoadStep(l)))
             /\ \A w \in Writer : WF_redisVars(CachePart(Cache!WriterDeletes(w)))

\* The properties of CacheLoader, in this run: an old value disappears from Redis
\* without waiting for its time to live, and every caller of the cache is answered or
\* has given up.
StaleEnds == Cache!StaleEnds
ReadsEnd  == Cache!ReadsEnd
================================================================================
