------------------------------- MODULE AdminCache ------------------------------
(* alita/utils/cache/adminCache.go for one chat: the list of a chat's             *)
(* administrators is fetched from Telegram by one goroutine for all who ask, kept *)
(* in Redis, and cleared when somebody is promoted or demoted.  A fetch that      *)
(* began before a clearing must not leave its list behind, nor be believed.       *)
(*                                                                                *)
(* A list is the number of changes Telegram had made when it was read.  An empty  *)
(* list, which sends whoever reads it to Telegram (IsUserAdmin), is no list.      *)
EXTENDS Naturals, FiniteSets

CONSTANTS Asker,       \* goroutines in IsUserAdmin or LoadAdminCache
          Clearer,     \* goroutines in ClearAdminCache
          LastFetch,   \* bound on the fetches
          LastChange,  \* bound on the changes of the chat's administrators
          Clearings,   \* bound on the clearings, those of other chats among them
          AdminFaults  \* bound on the calls to Telegram and Redis that fail

ASSUME AdminAssumption == {LastFetch, LastChange, Clearings, AdminFaults} \subseteq Nat

VARIABLES admins,    \* the administrators in Telegram
          cleared,   \* history: what was true when the last of the clearings began that have returned
          list,      \* the key in Redis
          adminGen,  \* adminCacheGeneration
          flight,    \* what adminCacheGroup has under the key, 0 if nothing
          nextFetch,
          fetch,     \* each goroutine in loadAdminCacheFromTelegram
          asker, clearer,
          clearings, adminFaults,
          unsure     \* history: Redis has failed to delete, or has stored without saying so

adminVars == <<admins, cleared, list, adminGen, flight, nextFetch, fetch, asker, clearer,
               clearings, adminFaults, unsure>>

FetchId == 1..LastFetch
NoList  == LastChange + 1
Lists   == 0..LastChange
Clearing == {"raise", "forget", "delete"}        \* the steps of ClearAdminCache

FetchRecord ==
    [pc : {"none", "start", "ask", "check", "store", "recheck", "finish", "over"} \cup Clearing,
     gen : Nat, found : Lists \cup {NoList}]
AskerRecord ==
    [pc : {"idle", "join", "wait", "told"}, gen : Nat, call : 0..LastFetch,
     floor : Lists, behind : SUBSET Lists, due : SUBSET Lists, answer : Lists \cup {NoList}]
ClearerRecord == [pc : {"idle"} \cup Clearing, at : Lists]

NotFetching == [pc |-> "none", gen |-> 0, found |-> NoList]
NotAsking == [pc |-> "idle", gen |-> 0, call |-> 0, floor |-> 0, behind |-> {}, due |-> {}, answer |-> NoList]

AdminTypeOK ==
    /\ admins \in Lists /\ cleared \in Lists /\ list \in Lists \cup {NoList}
    /\ adminGen \in Nat /\ flight \in 0..LastFetch /\ nextFetch \in 1..LastFetch + 1
    /\ fetch \in [FetchId -> FetchRecord]
    /\ asker \in [Asker -> AskerRecord]
    /\ clearer \in [Clearer -> ClearerRecord]
    /\ clearings \in Nat /\ adminFaults \in Nat /\ unsure \in BOOLEAN

AdminInit ==
    /\ admins = 0 /\ cleared = 0 /\ list = NoList
    /\ adminGen = 0 /\ flight = 0 /\ nextFetch = 1
    /\ fetch = [f \in FetchId |-> NotFetching]
    /\ asker = [a \in Asker |-> NotAsking]
    /\ clearer = [c \in Clearer |-> [pc |-> "idle", at |-> 0]]
    /\ clearings = Clearings /\ adminFaults = AdminFaults /\ unsure = FALSE

CallFails == adminFaults > 0 /\ adminFaults' = adminFaults - 1

--------------------------------------------------------------------------------
(* ClearAdminCache, after a promotion, an update or a command, or by a fetch that *)
(* was overtaken.  What a clearing has outdated when it has come this far:        *)

Forgetting == {clearer[c].at : c \in {d \in Clearer : clearer[d].pc = "forget"}}
Outdated   == {cleared} \cup {clearer[c].at : c \in {d \in Clearer : clearer[d].pc \in {"forget", "delete"}}}

Raise(from, to)  == from = "raise" /\ to = "forget" /\ adminGen' = adminGen + 1
                    /\ UNCHANGED <<flight, list, adminFaults, unsure>>
Forget(from, to) == from = "forget" /\ to = "delete" /\ flight' = 0
                    /\ UNCHANGED <<adminGen, list, adminFaults, unsure>>
Delete(from, to, after) ==
    /\ from = "delete" /\ to = after
    /\ \/ list' = NoList /\ UNCHANGED <<adminFaults, unsure>>
       \/ CallFails /\ unsure' = TRUE /\ UNCHANGED list
    /\ UNCHANGED <<adminGen, flight>>

ClearStep(from, to, after) == Raise(from, to) \/ Forget(from, to) \/ Delete(from, to, after)

\* A promotion, a demotion, by the bot or by others.
ChangeAdmins ==
    /\ admins < LastChange /\ admins' = admins + 1
    /\ UNCHANGED <<cleared, list, adminGen, flight, nextFetch, fetch, asker, clearer, clearings, adminFaults, unsure>>

\* The bot's own, the update about another's, or /admincache.
BeginClear(c) ==
    /\ clearer[c].pc = "idle" /\ clearings > 0 /\ clearings' = clearings - 1
    /\ clearer' = [clearer EXCEPT ![c] = [pc |-> "raise", at |-> admins]]
    /\ UNCHANGED <<admins, cleared, list, adminGen, flight, nextFetch, fetch, asker, adminFaults, unsure>>

Clear(c) ==
    /\ \E to \in {"forget", "delete", "idle"} :
          /\ ClearStep(clearer[c].pc, to, "idle")
          /\ clearer' = [clearer EXCEPT ![c].pc = to]
          /\ cleared' = IF to = "idle" /\ clearer[c].at > cleared THEN clearer[c].at ELSE cleared
    /\ UNCHANGED <<admins, nextFetch, fetch, asker, clearings>>

\* The generation is that of all chats.
ClearElsewhere ==
    /\ clearings > 0 /\ clearings' = clearings - 1
    /\ adminGen' = adminGen + 1
    /\ UNCHANGED <<admins, cleared, list, flight, nextFetch, fetch, asker, clearer, adminFaults, unsure>>

--------------------------------------------------------------------------------
(* loadAdminCacheFromTelegram *)

FetchGoes(f, from, to) == fetch[f].pc = from /\ fetch' = [fetch EXCEPT ![f].pc = to]

NoteGeneration(f) ==
    /\ fetch[f].pc = "start"
    /\ fetch' = [fetch EXCEPT ![f].pc = "ask", ![f].gen = adminGen]
    /\ UNCHANGED <<admins, cleared, list, adminGen, flight, nextFetch, asker, clearer, clearings, adminFaults, unsure>>

\* Telegram answers; or the bot is no administrator, or cannot find out; or all three
\* attempts have failed, and nothing is to be stored.
AskTelegram(f) ==
    /\ \/ /\ fetch[f].pc = "ask" /\ UNCHANGED adminFaults
          /\ \E found \in {admins, NoList} : fetch' = [fetch EXCEPT ![f].pc = "check", ![f].found = found]
       \/ FetchGoes(f, "ask", "finish") /\ CallFails
    /\ UNCHANGED <<admins, cleared, list, adminGen, flight, nextFetch, asker, clearer, clearings, unsure>>

CompareGeneration(f) ==
    /\ FetchGoes(f, "check", IF fetch[f].gen = adminGen THEN "store" ELSE "finish")
    /\ UNCHANGED <<admins, cleared, list, adminGen, flight, nextFetch, asker, clearer, clearings, adminFaults, unsure>>

StoreUnwatched(f) ==
    /\ FetchGoes(f, "store", "finish") /\ list' = fetch[f].found
    /\ UNCHANGED <<admins, cleared, adminGen, flight, nextFetch, asker, clearer, clearings, adminFaults, unsure>>

\* Redis stores the list, or fails, or stores it and its answer is lost.
StoreList(f) ==
    /\ \/ /\ FetchGoes(f, "store", "recheck") /\ list' = fetch[f].found
          /\ UNCHANGED <<adminFaults, unsure>>
       \/ /\ FetchGoes(f, "store", "finish") /\ CallFails
          /\ \/ list' = fetch[f].found /\ unsure' = TRUE
             \/ UNCHANGED <<list, unsure>>
    /\ UNCHANGED <<admins, cleared, adminGen, flight, nextFetch, asker, clearer, clearings>>

CompareAgain(f) ==
    /\ FetchGoes(f, "recheck", IF fetch[f].gen = adminGen THEN "finish" ELSE "raise")
    /\ UNCHANGED <<admins, cleared, list, adminGen, flight, nextFetch, asker, clearer, clearings, adminFaults, unsure>>

ClearOwn(f) ==
    /\ \E to \in {"forget", "delete", "finish"} :
          /\ ClearStep(fetch[f].pc, to, "finish")
          /\ fetch' = [fetch EXCEPT ![f].pc = to]
    /\ UNCHANGED <<admins, cleared, nextFetch, asker, clearer, clearings>>

FinishFetch(f) ==
    /\ FetchGoes(f, "finish", "over")
    /\ flight' = IF flight = f THEN 0 ELSE flight
    /\ UNCHANGED <<admins, cleared, list, adminGen, nextFetch, asker, clearer, clearings, adminFaults, unsure>>

--------------------------------------------------------------------------------
(* IsUserAdmin, and LoadAdminCache, which others call without a look at Redis. *)

\* GetAdminCacheList has found no list (one that it finds is the answer, OldListIsDoomed),
\* or LoadAdminCache is called without that look.
Asks(a) ==
    /\ asker[a].pc \in {"idle", "told"}
    /\ asker' = [asker EXCEPT ![a] = [NotAsking EXCEPT !.pc = "join", !.gen = adminGen,
                                                      !.floor = cleared, !.behind = Forgetting]]
    /\ UNCHANGED <<admins, cleared, list, adminGen, flight, nextFetch, fetch, clearer, clearings, adminFaults, unsure>>

JoinFlight(a) ==
    /\ asker[a].pc = "join"
    /\ \/ /\ flight # 0 /\ UNCHANGED <<flight, nextFetch, fetch>>
          /\ asker' = [asker EXCEPT ![a].pc = "wait", ![a].call = flight]
       \/ /\ flight = 0 /\ nextFetch \in FetchId
          /\ asker' = [asker EXCEPT ![a].pc = "wait", ![a].call = nextFetch]
          /\ fetch' = [fetch EXCEPT ![nextFetch].pc = "start"]
          /\ flight' = nextFetch /\ nextFetch' = nextFetch + 1
    /\ UNCHANGED <<admins, cleared, list, adminGen, clearer, clearings, adminFaults, unsure>>

Told(a) == [asker[a] EXCEPT !.pc = "told", !.answer = fetch[asker[a].call].found, !.due = Outdated]

BelieveFlight(a) ==
    /\ asker[a].pc = "wait" /\ fetch[asker[a].call].pc = "over"
    /\ asker' = [asker EXCEPT ![a] = Told(a)]
    /\ UNCHANGED <<admins, cleared, list, adminGen, flight, nextFetch, fetch, clearer, clearings, adminFaults, unsure>>

\* The list is believed only if no clearing has raised the generation in the meantime;
\* otherwise what Redis has by then is the answer (OldListIsDoomed), or else Telegram is
\* asked about the one user.
BelieveIfCurrent(a) ==
    /\ asker[a].pc = "wait" /\ fetch[asker[a].call].pc = "over"
    /\ asker' = [asker EXCEPT ![a] = IF @.gen = adminGen THEN Told(a) ELSE NotAsking]
    /\ UNCHANGED <<admins, cleared, list, adminGen, flight, nextFetch, fetch, clearer, clearings, adminFaults, unsure>>

\* The time to live of the key: half an hour, or less for an empty list.
ExpireList ==
    /\ list # NoList /\ list' = NoList
    /\ UNCHANGED <<admins, cleared, adminGen, flight, nextFetch, fetch, asker, clearer, clearings, adminFaults, unsure>>

--------------------------------------------------------------------------------
FetchStep(f) == \/ NoteGeneration(f) \/ AskTelegram(f) \/ CompareGeneration(f) \/ StoreList(f)
                \/ CompareAgain(f) \/ ClearOwn(f) \/ FinishFetch(f)
AskerStep(a) == Asks(a) \/ JoinFlight(a) \/ BelieveIfCurrent(a)

AdminNext == \/ \E a \in Asker : AskerStep(a)
             \/ \E f \in FetchId : FetchStep(f)
             \/ \E c \in Clearer : BeginClear(c) \/ Clear(c)
             \/ ChangeAdmins \/ ClearElsewhere \/ ExpireList

AdminSpec == AdminInit /\ [][AdminNext]_adminVars

--------------------------------------------------------------------------------
(* Properties *)

\* A fetch that has stored its list will delete the key, having been overtaken.
Cleans(f) == \/ fetch[f].pc \in Clearing
             \/ fetch[f].pc = "recheck" /\ fetch[f].gen # adminGen

\* Once a ClearAdminCache has returned, no list from before it began stays in Redis:
\* a fetch that has put it there since is about to delete it (the second comparison in
\* storeWithTTL), unless Redis failed.
OldListIsDoomed ==
    list # NoList /\ list < cleared /\ ~unsure => \E f \in FetchId : Cleans(f)

\* A list that LoadAdminCache takes from the flight is no older than any clearing that had
\* ended when it was called; and it has seen the changes before every clearing that has
\* begun since ("the value predates a demotion/promote"), but for those that were between
\* raising the generation and forgetting the flight.
AnswersAreCurrent ==
    \A a \in Asker : asker[a].pc = "told" /\ asker[a].answer # NoList =>
        /\ asker[a].answer >= asker[a].floor
        /\ \A at \in asker[a].due \ asker[a].behind : asker[a].answer >= at
--------------------------------------------------------------------------------
(* The inductive invariant *)

\* The shared flight has begun; a fetch that has not is blank.
FetchesBegin == /\ flight < nextFetch
                /\ \A f \in FetchId : f >= nextFetch => fetch[f] = NotFetching

\* Nobody has seen a generation that is yet to come, nor a change.
NothingAhead ==
    /\ \A f \in FetchId : fetch[f].gen <= adminGen
    /\ \A a \in Asker : asker[a].gen <= adminGen /\ asker[a].floor <= cleared
    /\ cleared <= admins /\ \A c \in Clearer : clearer[c].at <= admins

\* A fetch whose generation is the current one has seen what every clearing is about
\* that has raised the generation,
FetchesKeepUp ==
    \A f \in FetchId :
        fetch[f].pc \in {"check", "store", "recheck"} /\ fetch[f].gen = adminGen
            => \A at \in Outdated : fetch[f].found >= at

\* and the flight that can be joined, what those are about that have forgotten others.
FlightKeepsUp ==
    flight # 0 => /\ fetch[flight].found >= cleared
                  /\ \A c \in Clearer : clearer[c].pc = "delete" => fetch[flight].found >= clearer[c].at

\* An asker who has seen no clearing begin knows of those that are about to forget the
\* flight, and what it waits for keeps up with the others.
AskersKnow ==
    \A a \in Asker :
        /\ asker[a].pc \in {"join", "wait"} /\ asker[a].gen = adminGen => Forgetting \subseteq asker[a].behind
        /\ asker[a].pc = "wait" =>
              /\ asker[a].call \in 1..nextFetch - 1
              /\ fetch[asker[a].call].found >= asker[a].floor
              /\ asker[a].gen = adminGen
                    => \A at \in Outdated \ asker[a].behind : fetch[asker[a].call].found >= at

AdminInvariant == /\ FetchesBegin /\ NothingAhead /\ FetchesKeepUp /\ FlightKeepsUp
                  /\ OldListIsDoomed /\ AskersKnow /\ AnswersAreCurrent
================================================================================
