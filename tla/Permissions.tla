------------------------------ MODULE Permissions ------------------------------
(* The permission checks of the bot (utils/chat_status, utils/helpers/         *)
(* command_pipeline.go) and the notation in which the handlers of its commands *)
(* are written down: a handler is a sequence of steps, and a check is a step   *)
(* that asks whether somebody has a power.  Module Commands gives the steps    *)
(* their meaning.                                                              *)
EXTENDS Sequences

(* The administrator rights of Telegram that the handlers ask for. *)
Rights == {"restrict", "delete", "pin", "promote", "info", "invite"}

(* What somebody is in a chat: a set of powers.  "made" marks an administrator *)
(* whom the bot itself has promoted, the only kind it may act on.              *)
Outside == {}
Member == {"in", "plain"}
AdminWith(rights) == {"in", "admin"} \cup rights
Creator == AdminWith(Rights) \cup {"creator"}

--------------------------------------------------------------------------------
(* Checks: "list" asks the cached administrators (IsUserAdmin), "cached" asks  *)
(* them and Telegram about the others (getUserMemberWithCache), "live" asks    *)
(* Telegram (GetMember), "here" is about the chat the message is in even when  *)
(* it speaks for a connected one, "update" is what the update itself tells,    *)
(* "chat" about what the chat is, "team" about the bot's owner and developers. *)

Gate(from, who, has) ==
    [do |-> "gate", from |-> from, who |-> who, has |-> has, is |-> TRUE]
Not(gate) == [gate EXCEPT !.is = ~@]

IsUserAdmin(who) == Gate("list", who, "admin")
UserCan(right) == Gate("cached", "user", right)
BotCan(right) == Gate("cached", "bot", right)
IsUserInChat(who) == Gate("live", who, "in")
IsOwner(who) == Gate("live", who, "creator")
HereCan(right) == Gate("here", "user", right)
Joined(who) == Gate("update", who, "plain")
IsBotOwner == Gate("team", "user", "owner")
OfDevelopers == Gate("team", "user", "dev")
OfTeam == Gate("team", "user", "sudo")

CheckDisabled == Gate("chat", "user", "enabled")
RequireGroup == Gate("chat", "user", "group")
RequirePrivate == Gate("chat", "user", "private")
RequireBotAdmin == Gate("here", "bot", "admin")
RequireUserAdmin == Gate("here", "user", "admin")
RequireUserOwner == IsOwner("user")
CanUserPromote == UserCan("promote")
CanBotPromote == BotCan("promote")
CanUserPin == UserCan("pin")
CanBotPin == BotCan("pin")
CanBotInvite == BotCan("invite")
CanUserInvite == UserCan("invite")
CanInvite == <<CanBotInvite, CanUserInvite>>
IsBotAdmin == BotCan("admin")
CanUserChangeInfo == UserCan("info")
CanBotChangeInfo == BotCan("info")
CanUserRestrict == UserCan("restrict")
CanBotRestrict == BotCan("restrict")
CanUserDelete == UserCan("delete")
CanBotDelete == BotCan("delete")

(* IsUserBanProtected, negated: the target is no administrator. *)
Unprotected == Not(IsUserAdmin("target"))

(* IsUserConnected: in private the connected chat is meant, if there is one    *)
(* and the user is still in it; then the bot's and the user's administration.  *)
IsUserConnected(chatAdmin, botAdmin) ==
    <<Gate("connection", "user", IF chatAdmin THEN "admin" ELSE "in")>>
        \o (IF botAdmin THEN <<IsUserAdmin("bot")>> ELSE <<>>)
        \o (IF chatAdmin THEN <<IsUserAdmin("user")>> ELSE <<>>)

--------------------------------------------------------------------------------
(* The other steps of a handler. *)

Parse == [do |-> "parse"]                 \* what does not fit ends it
Unapproved == Parse                       \* IsApproved: a row of the database
Ask == [do |-> "ask"]                     \* a call that changes nothing
Act(effects, whom, must, for) ==
    [do |-> "act", effects |-> effects, whom |-> whom, must |-> must, for |-> for]
Do(effects, whom) == Act(effects, whom, TRUE, "user")   \* a refusal ends it
Try(effects, whom) == Act(effects, whom, FALSE, "user")   \* it goes on
Enforce(effects, whom) == Act(effects, whom, FALSE, "settings")
Show(what) == Act({what}, "chat", FALSE, "reader")   \* told, not done
Answer(what) == Act({what}, "chat", FALSE, "chat")   \* told where it was asked
Confirm == [do |-> "confirm"]             \* the reply that tells of success
Offer(handler) == [do |-> "offer", handler |-> handler]   \* a button for it
Note == [do |-> "note"]                   \* an entry in the log
LoadList == [do |-> "load"]               \* the administrators, or it ends
ForgetList == [do |-> "forget"]           \* InvalidateAdminCache
Weigh == [do |-> "weigh"]                 \* the rights that may be handed on
Store(tables, must) == [do |-> "store", tables |-> tables, must |-> must]
Transaction(tables) == Store(tables, TRUE)   \* an error ends it
Write(table) == Transaction({table})
TryWrite(table) == Store({table}, FALSE)  \* an error is only logged
Drop(keys) == [do |-> "drop", keys |-> keys]

================================================================================
