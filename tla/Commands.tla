-------------------------------- MODULE Commands -------------------------------
(* The commands of the bot at work.  Somebody gives a command; its handler, a  *)
(* sequence of steps (Permissions), checks what the giver, the bot and the     *)
(* target are, partly from the cached administrators, calls Telegram, writes   *)
(* settings, tells.  Meanwhile others change what everybody is, and the cached *)
(* administrators follow later.                                                *)
EXTENDS Permissions, Naturals, FiniteSets

CONSTANTS Program,      \* the handlers: a function from names to steps
          Anonymous,    \* those of commands given by anonymous administrators
          KeysOf,       \* the cached keys that are read from a table
          Keepers,      \* who may write a table: powers, roles; {} for anybody
          Unchecked,    \* handlers that do not ask what the bot may do
          Unprotecting, \* handlers that do not ask what the target is
          Start,        \* the beginnings: [handler, by, chat, rank]
          MaxTroubles   \* a bound on changes by others and failed calls

Person == {"owner", "user", "target", "bot", "anonymous"}
Power == Rights \cup {"in", "plain", "admin", "creator", "made"}

\* The rights of the bot that Telegram asks for.
Needs(effect) ==
    CASE effect \in {"kick", "ban", "unban", "mute", "unmute", "release",
                     "ban channel", "unban channel"} -> {"restrict"}
      [] effect \in {"delete"} -> {"delete"}
      [] effect \in {"pin", "unpin"} -> {"pin"}
      [] effect \in {"promote", "demote", "title"} -> {"promote"}
      [] effect \in {"set title", "set picture", "set description", "permit"} -> {"info"}
      [] effect \in {"show link", "approve", "decline"} -> {"invite"}
      [] OTHER -> {}
Punishments == {"kick", "ban", "mute"}

\* What makes an administrator or unmakes him; what changes a rank.
Appointments == {"promote", "demote"}
Changing == {"kick", "ban", "unban", "leave", "approve"} \cup Appointments

\* Who may see what is shown; the others see it in the group only.
Audience(what) ==
    CASE what \in {"chats", "stats"} -> {"owner", "dev"}
      [] what = "team" -> {"owner", "dev", "sudo"}
      [] what = "fed bans" -> {"fed owner"}
      [] what \in {"admin notes", "greeting", "approvals", "stored messages", "backup"} -> {"admin"}
      [] OTHER -> {"in", "group"}

VARIABLES chat,      \* what the chat is
          rank,      \* what everybody is
          list,      \* the cached administrators
          task,      \* the handler at work: its giver, steps to go, rights to hand on
          offered,   \* the command given, the buttons offered
          held,      \* whatever somebody has been since the command was given
          kept,      \* what somebody has been all the time since
          done,      \* what has been done: [effect, whom, by, for, rights, shielded]
          saved,     \* the tables written
          told,      \* the success has been told
          refused,   \* the rights Telegram missed when it refused
          stale,     \* keys that may hold what is no longer stored
          changes, faults

cmdVars == <<chat, rank, list, task, offered, held, kept, done, saved, told,
             refused, stale, changes, faults>>

NoList == [p \in Person |-> {}]
Listed(p) == "admin" \in list[p]
Nothing == [handler |-> "none", verified |-> FALSE, by |-> "owner", todo |-> <<>>,
            rights |-> {}]

\* getUserMemberWithCache: the cached administrator, or what Telegram says.
Cached(p) == IF Listed(p) THEN list[p] ELSE rank[p]
\* IsUserAdmin: the cached administrators alone, if there are any.
OnList(p) == "admin" \in IF list = NoList THEN rank[p] ELSE list[p]

--------------------------------------------------------------------------------
(* The course of a handler. *)

\* verifyAnonymousAdmin: an administrator confirms what the stash still holds.
VerifyAnonymousAdmin == <<IsUserAdmin("user"), Ask>>
Course(handler, verified) ==
    IF verified THEN VerifyAnonymousAdmin \o Anonymous[handler] ELSE Program[handler]
Idle == task.todo = <<>>
Step == Head(task.todo)
At(what) == ~Idle /\ Step.do = what
Subject(who) == IF who = "user" THEN task.by ELSE who

End == task' = [task EXCEPT !.todo = <<>>]
Continue == task' = [task EXCEPT !.todo = Tail(@)]

Trouble == changes + faults < MaxTroubles
Fault == Trouble /\ faults' = faults + 1
NoFault == UNCHANGED faults

\* Ranks and list become these: what was seen meanwhile is kept in mind.
Become(newRank) ==
    /\ rank' = newRank
    /\ held' = [p \in Person |-> held[p] \cup newRank[p]]
    /\ kept' = [p \in Person |-> kept[p] \cap newRank[p]]

CmdInit ==
    /\ \E s \in Start :
          /\ chat = s.chat /\ rank = s.rank
          /\ offered = {[handler |-> s.handler, verified |-> FALSE, by |-> s.by]}
    /\ list \in {NoList, rank}
    /\ task = Nothing /\ held = rank /\ kept = rank
    /\ done = {} /\ saved = {} /\ told = FALSE /\ refused = {} /\ stale = {}
    /\ changes = 0 /\ faults = 0

\* The command is taken up, or a button of the handler before is pressed.
Begin(o) ==
    /\ Idle /\ o \in offered
    /\ task' = [handler |-> o.handler, verified |-> o.verified, by |-> o.by,
                todo |-> Course(o.handler, o.verified), rights |-> {}]
    /\ held' = [q \in Person |-> rank[q] \cup list[q]]
    /\ kept' = [q \in Person |-> rank[q] \cap Cached(q)
                                 \cap (IF OnList(q) THEN Power ELSE Power \ {"admin"})]
    /\ offered' = {} /\ done' = {} /\ saved' = {} /\ told' = FALSE /\ refused' = {}
    /\ UNCHANGED <<chat, rank, list, stale, changes, faults>>

--------------------------------------------------------------------------------
(* Checks. *)

AnonymousAllowed == "anonymous administrators" \in chat

\* The team: the owner of the bot, its developers, its sudo users.
Above(role) == CASE role = "owner" -> {"owner"}
                 [] role = "dev" -> {"owner", "dev"}
                 [] role = "sudo" -> {"owner", "dev", "sudo"}

\* A federation: its owner is one of its administrators.
FedAbove(role) == CASE role = "fed owner" -> {"fed owner"}
                    [] role = "fed admin" -> {"fed owner", "fed admin"}

\* What the check finds; a lookup that fails finds nothing (fails = TRUE).
Finds(g, fails) ==
    LET p == Subject(g.who)
        listed == p = "anonymous" \/ (OnList(p) /\ (list # NoList \/ ~fails))
        permitted == IF p = "anonymous" THEN AnonymousAllowed
                     ELSE g.has \in Cached(p) /\ (Listed(p) \/ ~fails)
    IN CASE g.from = "chat" /\ g.has = "enabled" ->
                chat \cap {"enabled", "private"} # {} \/ listed
         [] g.from = "chat" /\ g.has # "enabled" -> g.has \in chat
         [] g.from = "connection" ->
                \/ "group" \in chat
                \/ "connected" \in chat /\ ((g.has = "admin" /\ listed)
                                            \/ ("in" \in rank[p] /\ ~fails))
         [] g.from = "here" /\ g.who = "user" ->
                "group" \in chat /\ IF g.has = "admin" THEN listed ELSE permitted
         [] g.from = "here" /\ g.who = "bot" ->
                "group" \notin chat \/ ("admin" \in Cached(p) /\ (Listed(p) \/ ~fails))
         [] g.from = "list" -> listed
         [] g.from = "cached" -> permitted
         [] g.from = "live" -> g.has \in rank[p] /\ ~fails
         [] g.from = "update" -> g.has \in rank[p]
         [] g.from = "team" -> chat \cap Above(g.has) # {} /\ (~fails \/ "owner" \in chat)
         [] g.from = "federation" -> chat \cap FedAbove(g.has) # {} /\ ~fails

\* checkAnonAdmin: the keyboard goes out with the refusal.
Keyboard ==
    IF Step.from = "cached" /\ Subject(Step.who) = "anonymous"
       /\ task.handler \in DOMAIN Anonymous
    THEN {[handler |-> task.handler, verified |-> TRUE, by |-> "user"]} ELSE {}

Check ==
    /\ At("gate")
    /\ \E fails \in BOOLEAN :
        /\ IF fails THEN Fault ELSE NoFault
        /\ IF Finds(Step, fails) = Step.is
           THEN Continue /\ UNCHANGED offered
           ELSE End /\ offered' = offered \cup Keyboard
        \* IsUserAdmin fills the cache.
        /\ list' \in {list} \cup (IF Step.from \in {"list", "here"} /\ list = NoList /\ ~fails
                                  THEN {rank} ELSE {})
    /\ UNCHANGED <<chat, rank, held, kept, done, saved, told, refused, stale, changes>>

--------------------------------------------------------------------------------
(* Calls to Telegram. *)

\* What Telegram misses before it obeys: rights, or that the target is no
\* administrator of somebody else's.
Misses(effect) ==
    (Needs(effect) \cup (IF effect = "promote" THEN task.rights ELSE {})) \ rank["bot"]
Allows(effect, p) ==
    /\ Misses(effect) = {}
    /\ p \in Person /\ effect \in Punishments \cup {"unban", "promote", "demote", "title"} =>
          "admin" \notin rank[p] \/ "made" \in rank[p]
    /\ effect = "promote" => "in" \in rank[p]
    /\ effect = "title" => "made" \in rank[p]

After(effect, p) ==
    CASE effect \in {"kick", "ban", "unban", "leave"} -> [rank EXCEPT ![p] = Outside]
      [] effect = "promote" -> [rank EXCEPT ![p] = AdminWith(task.rights) \cup {"made"}]
      [] effect \in {"demote", "approve"} -> [rank EXCEPT ![p] = Member]
      [] OTHER -> rank

Happen(effect, p) ==
    /\ done' = done \cup {[effect |-> effect, whom |-> p, by |-> task.by,
                           for |-> Step.for, rights |-> task.rights,
                           shielded |-> p \in Person /\ p # task.by
                                        /\ "admin" \in kept[p] /\ faults = 0]}
    /\ IF p \in Person THEN Become(After(effect, p)) ELSE UNCHANGED <<rank, held, kept>>
Unhappened == UNCHANGED <<rank, held, kept, done>>
GoOn == IF Step.must THEN End ELSE Continue

Obeyed(effect, p) ==
    /\ Allows(effect, p)
    /\ Happen(effect, p)
    /\ \/ NoFault /\ Continue
       \/ Fault /\ GoOn              \* the answer is lost
    /\ UNCHANGED refused

Disobeyed(effect, p) ==
    /\ ~Allows(effect, p)
    /\ refused' = refused \cup Misses(effect)
    /\ Unhappened /\ GoOn /\ NoFault

CallLost == Unhappened /\ GoOn /\ Fault /\ UNCHANGED refused

Call ==
    /\ At("act")
    /\ \E effect \in Step.effects :
          \/ effect = "nothing" /\ Unhappened /\ Continue /\ NoFault /\ UNCHANGED refused
          \/ effect # "nothing"
             /\ \/ Obeyed(effect, Subject(Step.whom))
                \/ Disobeyed(effect, Subject(Step.whom))
                \/ CallLost
    /\ UNCHANGED <<chat, list, offered, saved, told, stale, changes>>

\* A call that changes nothing, and arguments: it goes on or ends.
Look ==
    /\ At("ask") \/ At("parse")
    /\ Continue \/ End
    /\ UNCHANGED <<chat, rank, list, offered, held, kept, done, saved, told, refused,
                   stale, changes, faults>>

\* The rights that the bot has, and the promoter too unless he is the owner of the
\* chat or of the team.
OfSudoTeam == chat \cap {"dev", "sudo"} # {}
canGrantPerm(botHas, promoterHas, bypass) == botHas \cap (promoterHas \cup bypass)

Bypass == IF "creator" \in rank[task.by] \/ OfSudoTeam THEN Rights ELSE {}
buildPromoteOptsWithPromote ==
    canGrantPerm(rank["bot"], rank[task.by], Bypass) \cap Rights
buildPromoteOpts ==
    canGrantPerm(rank["bot"], rank[task.by], Bypass) \cap (Rights \ {"promote"})

WeighRights ==
    /\ At("weigh")
    /\ task' = [task EXCEPT !.todo = Tail(@), !.rights = buildPromoteOpts]
    /\ UNCHANGED <<chat, rank, list, offered, held, kept, done, saved, told, refused,
                   stale, changes, faults>>

--------------------------------------------------------------------------------
(* Caches, tables, replies. *)

LoadAdministrators ==
    /\ At("load")
    /\ \/ Continue /\ NoFault /\ list' = IF list = NoList THEN rank ELSE list
       \/ End /\ Fault /\ UNCHANGED list
    /\ UNCHANGED <<chat, rank, offered, held, kept, done, saved, told, refused, stale, changes>>

ForgetAdministrators ==
    /\ At("forget")
    /\ \/ list' = NoList /\ NoFault
       \/ list' = list /\ Fault
    /\ Continue
    /\ UNCHANGED <<chat, rank, offered, held, kept, done, saved, told, refused, stale, changes>>

Stored ==
    /\ saved' = saved \cup {[table |-> t, by |-> task.by] : t \in Step.tables}
    /\ stale' = stale \cup UNION {KeysOf[t] : t \in Step.tables}

WriteTable ==
    /\ At("store")
    /\ \/ Stored /\ Continue /\ NoFault
       \/ Stored /\ GoOn /\ Fault        \* it commits, the answer is lost
       \/ UNCHANGED <<saved, stale>> /\ GoOn /\ Fault
    /\ UNCHANGED <<chat, rank, list, offered, held, kept, done, told, refused, changes>>

DropKeys ==
    /\ At("drop")
    /\ \/ stale' = stale \ Step.keys /\ NoFault
       \/ stale' = stale /\ Fault
    /\ Continue
    /\ UNCHANGED <<chat, rank, list, offered, held, kept, done, saved, told, refused, changes>>

Tell ==
    /\ At("confirm") \/ At("note")
    /\ told' = TRUE
    /\ Continue
    /\ UNCHANGED <<chat, rank, list, offered, held, kept, done, saved, refused,
                   stale, changes, faults>>

OfferButton ==
    /\ At("offer")
    /\ offered' = offered \cup {[handler |-> Step.handler, verified |-> FALSE, by |-> "user"]}
    /\ Continue
    /\ UNCHANGED <<chat, rank, list, held, kept, done, saved, told, refused,
                   stale, changes, faults>>

--------------------------------------------------------------------------------
(* The others. *)

\* Somebody else makes p something, or p comes or goes.
ChangeRank(p, powers) ==
    /\ Trouble /\ changes' = changes + 1
    /\ powers # rank[p]
    /\ Become([rank EXCEPT ![p] = powers])
    /\ UNCHANGED <<chat, list, task, offered, done, saved, told, refused, stale, faults>>

\* adminCacheAutoUpdate: the update of a change arrives.
HandleUpdate ==
    /\ list # rank
    /\ list' = rank
    /\ UNCHANGED <<chat, rank, task, offered, held, kept, done, saved, told, refused,
                   stale, changes, faults>>

Run == \/ Check \/ Call \/ Look \/ WeighRights \/ LoadAdministrators
       \/ ForgetAdministrators \/ WriteTable \/ DropKeys \/ Tell \/ OfferButton

CmdNext ==
    \/ \E o \in offered : Begin(o)
    \/ Run
    \/ \E p \in {"user", "bot"} : ChangeRank(p, Member)
    \/ \E powers \in {Outside, AdminWith(Rights)} : ChangeRank("target", powers)
    \/ HandleUpdate

CmdSpec == CmdInit /\ [][CmdNext]_cmdVars

--------------------------------------------------------------------------------
(* The discipline of the handlers: the checks come before what needs them, what  *)
(* must be done before success is told, and what outdates a cache before the cache *)
(* is dropped.  TLC compares the handlers with it; that it is enough for the       *)
(* properties below is proved in CommandsProofs.                                   *)

Courses == {o \in (DOMAIN Program) \X BOOLEAN : o[2] => o[1] \in DOMAIN Anonymous}
CourseOf(o) == Course(o[1], o[2])
Steps == UNION {{CourseOf(o)[i] : i \in DOMAIN CourseOf(o)} : o \in Courses}

\* The check says yes to one who has the right.
Vouches(g, who, right) ==
    g.do = "gate" /\ g.is /\ g.who = who /\ g.has = right /\
    (g.from \in {"cached", "live"} \/ (g.from = "here" /\ who = "user"))

\* It says that the target is no administrator.
Spares(g) ==
    g.do = "gate" /\ g.who = "target" /\
    \/ g.from = "list" /\ g.has = "admin" /\ ~g.is
    \/ g.from = "update" /\ g.has = "plain" /\ g.is

\* Who has passed the check is one of these, or they are what the chat is.
Opens(g, these) ==
    g.do = "gate" /\ g.is /\ g.who = "user" /\
    \/ /\ g.from \in {"list", "here", "cached", "live"} /\ "admin" \in these
       /\ g.has \in Rights \cup {"creator", "admin"}
    \/ g.from \in {"here", "connection"} /\ {"group", "in"} \subseteq these
    \/ g.from \in {"live", "chat"} /\ g.has \in these \ {"enabled"}
    \/ g.from = "team" /\ Above(g.has) \subseteq these
    \/ g.from = "federation" /\ FedAbove(g.has) \subseteq these

AsksGiver(steps) ==
    \A i \in DOMAIN steps : LET s == steps[i] IN
        s.do = "act" /\ s.for # "settings" /\ s.whom # "user" =>
            \A e \in s.effects : \A right \in Needs(e) :
                \E j \in 1..(i - 1), has \in {right, "creator"} : Vouches(steps[j], "user", has)
AsksKeeper(steps) ==
    \A i \in DOMAIN steps : steps[i].do = "store" =>
        \A t \in steps[i].tables :
            Keepers[t] = {} \/ \E j \in 1..(i - 1) : Opens(steps[j], Keepers[t])
AsksReader(steps) ==
    \A i \in DOMAIN steps : steps[i].do = "act" /\ steps[i].for = "reader" =>
        \A e \in steps[i].effects : \E j \in 1..(i - 1) : Opens(steps[j], Audience(e))
AsksBot(steps) ==
    \A i \in DOMAIN steps : steps[i].do = "act" =>
        \A e \in steps[i].effects : \A right \in Needs(e) :
            \E j \in 1..(i - 1) : Vouches(steps[j], "bot", right)
AsksTarget(steps) ==
    \A i \in DOMAIN steps : LET s == steps[i] IN
        s.do = "act" /\ s.effects \cap Punishments # {} =>
            \/ s.whom = "user"
            \/ s.whom \notin Person
            \/ s.whom = "target" /\ \E j \in 1..(i - 1) : Spares(steps[j])

\* What must be done, and is not left to a choice.
Due(s) == s.do \in {"act", "store"} /\ s.must /\ (s.do = "act" => "nothing" \notin s.effects)
TellsLast(steps) ==
    \A i, j \in DOMAIN steps : Due(steps[i]) /\ steps[j].do \in {"confirm", "note"} => i < j

\* Steps that end a handler only when a call fails; one of those steps comes after
\* the i-th, and only such steps before it.
Steady(s) == \/ s.do \in {"load", "forget", "weigh", "store", "drop", "confirm", "note", "offer"}
             \/ s.do = "act" /\ ~s.must
Ahead(steps, i, those) ==
    \E j \in those : j > i /\ \A m \in (i + 1)..(j - 1) : Steady(steps[m])
Droppers(steps, k) == {j \in DOMAIN steps : steps[j].do = "drop" /\ k \in steps[j].keys}
Forgetters(steps) == {j \in DOMAIN steps : steps[j].do = "forget"}
DropsKeys(steps) ==
    \A i \in DOMAIN steps : steps[i].do = "store" =>
        \A t \in steps[i].tables : \A k \in KeysOf[t] : Ahead(steps, i, Droppers(steps, k))
DropsList(steps) ==
    (\E i \in DOMAIN steps : steps[i].do = "act" /\ steps[i].effects \cap Appointments # {}) =>
        \A i \in DOMAIN steps : steps[i].do = "act" /\ steps[i].effects \cap Changing # {} =>
            Ahead(steps, i, Forgetters(steps))

\* Every handler asks before it acts: its giver, the keeper of what it writes, the
\* one it shows something to, the bot and the target unless it is excused; it tells
\* what has been done, and drops what it has outdated.
Keeps(o) ==
    LET steps == CourseOf(o) IN
        /\ AsksGiver(steps) /\ AsksKeeper(steps) /\ AsksReader(steps)
        /\ o[1] \in Unchecked \/ AsksBot(steps)
        /\ o[1] \in Unprotecting \/ AsksTarget(steps)
        /\ TellsLast(steps) /\ DropsKeys(steps) /\ DropsList(steps)
Disciplined == \A o \in Courses : Keeps(o)

\* Rights make an administrator, who is a member of the chat; a rank is that, and an
\* administrator is no plain member.
Sound(powers) == /\ powers \cap (Rights \cup {"creator"}) # {} => "admin" \in powers
                 /\ "admin" \in powers => "in" \in powers
Sensible(powers) == Sound(powers) /\ ("admin" \in powers => "plain" \notin powers)

ASSUME CommandsAssumption ==
    /\ \A o \in Courses : CourseOf(o) \in Seq(Steps)
    /\ \A s \in Steps : /\ s.do = "gate" => s.is \in BOOLEAN
                        /\ s.do = "offer" => s.handler \in DOMAIN Program
                        /\ s.do = "store" => s.tables \subseteq DOMAIN Keepers
    /\ \A s \in Start : /\ s.handler \in DOMAIN Program /\ s.by \in {"user", "anonymous"}
                        /\ s.rank \in [Person -> SUBSET Power]
                        /\ \A p \in Person : Sensible(s.rank[p])
    /\ MaxTroubles \in Nat

--------------------------------------------------------------------------------
(* Properties. *)

\* Every handler that is taken up keeps the discipline, from which the properties
\* below follow (CommandsProofs).
TakesUpDisciplined ==
    LET o == <<task.handler, task.verified>> IN
    o \in Courses /\ task.todo = CourseOf(o) => Keeps(o)

CmdTypeOK ==
    /\ rank \in [Person -> SUBSET Power]
    /\ list \in [Person -> SUBSET Power]
    /\ task.handler \in DOMAIN Program \cup {"none"} /\ task.by \in Person
    /\ task.rights \subseteq Rights \ {"promote"}
    /\ offered \subseteq [handler : DOMAIN Program, verified : BOOLEAN, by : {"user", "anonymous"}]
    /\ held \in [Person -> SUBSET Power] /\ kept \in [Person -> SUBSET Power]
    /\ refused \subseteq Power /\ told \in BOOLEAN
    /\ changes \in Nat /\ faults \in Nat /\ changes + faults <= MaxTroubles

\* Whatever is done to somebody else is done for one who, at some time since the
\* command was given, had the right for it (the cached right counts), or for an
\* anonymous administrator whom the settings trust; nobody hands on rights he
\* lacks, the bot's team excepted.
Entitled(p, needs) ==
    \/ needs \subseteq held[p] \/ "creator" \in held[p]
    \/ p = "anonymous" /\ AnonymousAllowed
Authorized ==
    \A d \in done :
        \/ d.for = "settings" \/ d.whom = d.by
        \/ /\ Entitled(d.by, Needs(d.effect))
           /\ d.effect = "promote" => Entitled(d.by, d.rights) \/ OfSudoTeam

\* A table is written only for those who keep it: a setting of the chat for one who
\* was an administrator, the bot's team for the bot's owner, a federation for its owner.
SettingsAuthorized ==
    \A s \in saved :
        \/ s.by = "anonymous" \/ Keepers[s.table] = {}
        \/ Keepers[s.table] \cap (held[s.by] \cup chat) # {}

\* What is kept from others is shown only to whom it is for.
Revealed ==
    \A d \in done : d.for = "reader" =>
        d.by = "anonymous" \/ Audience(d.effect) \cap (held[d.by] \cup chat) # {}

\* One who was an administrator all the time since the command was given, in the
\* cache as well, is not punished, whoever made him one.
TargetProtected ==
    \A d \in done : d.effect \in Punishments /\ d.shielded => task.handler \in Unprotecting

\* Telegram refuses for want of a right only if the bot had it, as far as the bot
\* could know, and lost it: whatever the bot does it has asked for.
NoRefusal == task.handler \notin Unchecked => refused \subseteq held["bot"]

\* Success is told after everything that must be done has been done.
Honest ==
    told => LET steps == Course(task.handler, task.verified) IN \A i \in DOMAIN steps :
        LET step == steps[i] IN
        /\ step.do = "act" /\ step.must /\ "nothing" \notin step.effects =>
              \E d \in done : d.effect \in step.effects
        /\ step.do = "store" /\ step.must =>
              step.tables \subseteq {s.table : s \in saved}

\* A cached key never survives the change of what it was read from.
KeysFollow == Idle /\ faults = 0 => stale = {}

\* A promotion or a demotion is not followed by checks that know nothing of it.
ListFollows ==
    Idle /\ faults + changes = 0 /\ (\E d \in done : d.effect \in Appointments) =>
        list = NoList \/ (Listed("target") <=> "admin" \in rank["target"])

Accounted == Authorized /\ SettingsAuthorized /\ Revealed

\* No cache outlives what it was read from: neither the keys nor the list.
CachesFollow == KeysFollow /\ ListFollows

================================================================================
