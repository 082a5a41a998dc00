--------------------------- MODULE SettingsHandlers ----------------------------
(* The handlers of locks, disabling, reactions, log channels, greetings and of *)
(* the settings of the guards (modules/locks.go, disabling.go, reactions.go,   *)
(* logchannels.go, greetings.go, antiflood.go, captcha.go, aispam.go) with the *)
(* writes of their repositories, as sequences of steps.                        *)
EXTENDS Permissions

(* db/locks/repository.go *)
LockKeys == [locks |-> {"locks_map"}]
UpdateLock == <<Write("locks"), Drop({"locks_map"})>>

(* locks.go.  /lock and /unlock ask for an administrator of the chat the       *)
(* message is in: through a connection they end there.                         *)
locks == <<CheckDisabled>> \o IsUserConnected(TRUE, TRUE) \o <<Ask>>
SwitchLocks == IsUserConnected(TRUE, TRUE) \o <<RequireBotAdmin, RequireUserAdmin, Parse>>
                  \o UpdateLock \o <<Confirm>>
lockPerm == SwitchLocks
unlockPerm == SwitchLocks
\* What is locked is removed, unless an administrator or an approved user sent it.
RemoveLocked(more) ==
    <<Parse, Not(IsUserAdmin("user")), Unapproved, CanBotDelete, Parse>> \o more
        \o <<Enforce({"delete"}, "message")>>
restHandler == RemoveLocked(<<>>)
restHandlerComments == RemoveLocked(<<Not(IsUserInChat("user"))>>)
permHandler == RemoveLocked(<<>>)
\* A bot that comes in through somebody who is no administrator.
botLockHandler ==
    <<Joined("target"), Parse, Not(IsUserAdmin("user")), Unapproved, RequireBotAdmin,
      CanBotRestrict, Enforce({"ban"}, "target"), Ask>>

LockCommands ==
    [locks |-> locks, lock |-> lockPerm, unlock |-> unlockPerm, rest_hit |-> restHandler,
     comment_hit |-> restHandlerComments, perm_hit |-> permHandler,
     bot_joins |-> botLockHandler]

--------------------------------------------------------------------------------
(* db/disabling/repository.go *)
DisablingKeys == [disabled |-> {"disabled_cmds"}]
DisableCMD == <<Write("disabled"), Drop({"disabled_cmds"})>>
EnableCMD == <<Write("disabled"), Drop({"disabled_cmds"})>>
ToggleDel == <<Write("disabled_settings")>>

(* disabling.go; of several commands some may fail, the others are told.       *)
toggleCommands(op) == IsUserConnected(TRUE, TRUE) \o <<Parse>> \o op \o <<Confirm>>
disable == toggleCommands(DisableCMD)
enable == toggleCommands(EnableCMD)
disabled == <<CheckDisabled>> \o IsUserConnected(FALSE, TRUE) \o <<Show("disabled")>>
disabledel == IsUserConnected(TRUE, TRUE) \o <<Parse>> \o ToggleDel \o <<Confirm>>

DisablingCommands ==
    [disable |-> disable, enable |-> enable, disabled |-> disabled,
     disabledel |-> disabledel]

--------------------------------------------------------------------------------
(* db/reactions/repository.go *)
ReactionKeys == [reactions |-> {"reactions"}]
AddReaction == <<Write("reactions"), Drop({"reactions"})>>
RemoveReaction == <<Write("reactions"), Drop({"reactions"})>>
ResetReactions == <<Write("reactions"), Drop({"reactions"})>>

(* reactions.go: about the chat the message is in.                             *)
addReaction == <<HereCan("info"), Parse>> \o AddReaction \o <<Confirm>>
removeReaction == <<HereCan("info"), Parse>> \o RemoveReaction \o <<Confirm>>
listReactions == <<RequireGroup, Show("reactions")>>
resetReactions == <<HereCan("info")>> \o ResetReactions \o <<Confirm>>
checkReactions == <<Parse, Ask>>

ReactionCommands ==
    [addreaction |-> addReaction, removereaction |-> removeReaction,
     reactions |-> listReactions, resetreactions |-> resetReactions,
     reaction_hit |-> checkReactions]

--------------------------------------------------------------------------------
(* db/logchannels/repository.go *)
LogChannelKeys == [log_channels |-> {"log_channel"}]
SetLogChannel == <<Write("log_channels"), Drop({"log_channel"})>>
UnsetLogChannel == <<Write("log_channels"), Drop({"log_channel"})>>
SetCategory == <<TryWrite("log_channels"), Drop({"log_channel"})>>

(* logchannels.go.  /setlog in a channel leaves a mark for an hour; forwarding *)
(* that message to a group uses the mark up and makes the channel its log.     *)
unsetLog == <<RequireGroup, RequireUserAdmin>> \o UnsetLogChannel \o <<Confirm>>
logChannel == <<RequireGroup, Ask>>
\* A category that cannot be saved is left out of the answer.
setLogCategories == <<RequireGroup, RequireUserAdmin, Parse>> \o SetCategory \o <<Confirm>>
captureSetLogForward ==
    <<RequireGroup, Parse, RequireUserAdmin, Parse>> \o SetLogChannel \o <<Confirm>>

LogChannelCommands ==
    [unsetlog |-> unsetLog, logchannel |-> logChannel, log |-> setLogCategories,
     log_forward |-> captureSetLogForward]

--------------------------------------------------------------------------------
(* db/greetings/repository.go: every setting goes through one upsert.          *)
upsertGreetingSettings == <<Write("greetings"), Drop({"greetings"})>>

(* greetings.go *)
displayGreeting == IsUserConnected(TRUE, FALSE) \o <<Ask, Show("greeting")>>
\* "on" and "off" ask for an administrator of the chat the message is in.
welcome == IsUserConnected(TRUE, FALSE) \o <<Parse, RequireUserAdmin>>
              \o upsertGreetingSettings \o <<Confirm>>
setWelcome == IsUserConnected(TRUE, FALSE) \o <<CanUserChangeInfo, Parse>>
                 \o upsertGreetingSettings \o <<Confirm>>
resetGreeting == IsUserConnected(TRUE, FALSE) \o <<CanUserChangeInfo>>
                    \o upsertGreetingSettings \o <<Confirm>>
setGoodbye == setWelcome
greetingToggle(botAdmin) == IsUserConnected(TRUE, botAdmin) \o <<CanUserChangeInfo, Parse>>
                               \o upsertGreetingSettings \o <<Confirm>>
cleanWelcome == greetingToggle(FALSE)
delJoined == greetingToggle(TRUE)
\* The service message of a join goes, if the chat wants it.
cleanService == <<Parse, Enforce({"delete"}, "message")>>

(* A request to join is approved at once, or put to the administrators.        *)
pendingJoinsApproved == <<Parse, Parse, Enforce({"approve"}, "target")>>
pendingJoins == <<Parse, Parse, Ask, Offer("join_accept"), Offer("join_decline"),
                  Offer("join_ban")>>
joinRequestHandler(more, answers) ==
    <<RequireUserAdmin, Parse>> \o more \o <<CanUserInvite, CanBotInvite, Ask>>
        \o answers \o <<Confirm, Ask>>
acceptJoin == joinRequestHandler(<<>>, <<Do({"approve"}, "target")>>)
declineJoin == joinRequestHandler(<<>>, <<Do({"decline"}, "target")>>)
banJoin == joinRequestHandler(<<CanUserRestrict, CanBotRestrict>>,
                              <<Do({"ban"}, "target"), Do({"decline"}, "target")>>)

Greeting(handler) == <<CheckDisabled>> \o handler
GreetingCommands ==
    [show_welcome |-> Greeting(displayGreeting), welcome |-> Greeting(welcome),
     setwelcome |-> Greeting(setWelcome), resetwelcome |-> Greeting(resetGreeting),
     setgoodbye |-> Greeting(setGoodbye), cleanwelcome |-> Greeting(cleanWelcome),
     cleanservice |-> Greeting(delJoined), service_message |-> cleanService,
     join_request |-> pendingJoins, join_approved |-> pendingJoinsApproved,
     join_accept |-> acceptJoin, join_decline |-> declineJoin, join_ban |-> banJoin]

--------------------------------------------------------------------------------
(* The settings of antiflood, captcha and the AI spam filter.  What is set     *)
(* already, as the cache has it, is not written again (db/antiflood).          *)
GuardKeys == [antiflood |-> {"antiflood"}, captcha_settings |-> {"captcha_settings"},
              ai_spam |-> {"ai_spam_settings"}]
upsertChatField == <<Write("antiflood"), Drop({"antiflood"})>>
SetFlood == <<Ask>> \o upsertChatField
setFlood == IsUserConnected(TRUE, TRUE) \o <<Parse>> \o SetFlood \o <<Confirm>>
flood == <<CheckDisabled>> \o IsUserConnected(FALSE, TRUE) \o <<Show("flood")>>
setFloodMode == setFlood
setFloodDeleter == setFlood

CaptchaSetting == <<Write("captcha_settings"), Drop({"captcha_settings"})>>
captchaAdminGate(botAdmin) ==
    <<RequireGroup, RequireUserAdmin>> \o (IF botAdmin THEN <<RequireBotAdmin>> ELSE <<>>)
captchaCommand == captchaAdminGate(TRUE) \o <<Parse>> \o CaptchaSetting \o <<Ask, Confirm>>
captchaModeCommand == captchaAdminGate(FALSE) \o <<Parse>> \o CaptchaSetting \o <<Confirm>>
captchaTimeCommand == captchaModeCommand
captchaActionCommand == captchaModeCommand
captchaMaxAttemptsCommand ==
    captchaAdminGate(TRUE) \o <<Parse>> \o CaptchaSetting \o <<Confirm>>
viewPendingMessages == <<RequireUserAdmin, Parse, Show("stored messages")>>
clearPendingMessages == <<RequireUserAdmin, Parse, Write("stored_messages"), Confirm>>

SetAISpamEnabled == <<Write("ai_spam"), Drop({"ai_spam_settings"})>>
aispam == <<CheckDisabled, RequireGroup, RequireUserAdmin, Parse>> \o SetAISpamEnabled
             \o <<Confirm>>

GuardCommands ==
    [setflood |-> setFlood, flood |-> flood, captcha |-> captchaCommand,
     captchamode |-> captchaModeCommand, captchamaxattempts |-> captchaMaxAttemptsCommand,
     captchapending |-> viewPendingMessages, captchaclear |-> clearPendingMessages,
     aispam |-> aispam]

================================================================================
