---------------------------- MODULE ServiceHandlers ----------------------------
(* The handlers of approvals, connections, the bot's team and languages        *)
(* (modules/approvals.go, connections.go, devs.go, language.go) with the       *)
(* writes of their repositories, as sequences of steps.                        *)
EXTENDS Permissions

(* db/approvals/repository.go *)
ApprovalKeys == [approvals |-> {"approvals"}]
AddApprovedUser == <<Write("approvals"), Drop({"approvals"})>>
RemoveApprovedUser == <<Write("approvals"), Drop({"approvals"})>>
RemoveAllApprovedUsers == <<TryWrite("approvals"), Drop({"approvals"})>>

(* approvals.go; an approved user's captcha is over.                           *)
ApprovalGates == IsUserConnected(TRUE, TRUE) \o <<IsUserAdmin("user"), Parse>>
approveUser == ApprovalGates \o AddApprovedUser
                  \o <<Enforce({"unmute", "nothing"}, "target"), Confirm>>
unapproveUser == ApprovalGates \o RemoveApprovedUser \o <<Confirm>>
checkApprovalStatus == ApprovalGates \o <<Show("approvals")>>
listApprovedUsers == IsUserConnected(TRUE, TRUE)
                        \o <<IsUserAdmin("user"), Show("approvals")>>
unapproveAllHandler == <<RequireGroup, RequireUserOwner, Offer("unapproveall_button")>>
\* The answer does not wait for the removal.
unapproveAllCallback == <<RequireUserOwner, Parse, Confirm>> \o RemoveAllApprovedUsers

ApprovalCommands ==
    [approve |-> approveUser, unapprove |-> unapproveUser,
     approval |-> checkApprovalStatus, approved |-> listApprovedUsers,
     unapproveall |-> unapproveAllHandler, unapproveall_button |-> unapproveAllCallback]

--------------------------------------------------------------------------------
(* db/connections/repository.go: one row for a user, read without a cache.     *)
ToggleAllowConnect == <<Write("connection_settings")>>
ConnectId == <<Write("connections")>>
DisconnectId == <<Write("connections")>>

(* connections_auth.go: an administrator may, or a member where it is allowed. *)
canUserConnectToChat == <<IsUserAdmin("user")>>
canMemberConnectToChat == <<Parse, IsUserInChat("user")>>

(* connections.go *)
Connect(allowed) == <<RequirePrivate, Parse>> \o allowed \o ConnectId \o <<Confirm>>
connection == <<RequirePrivate>> \o IsUserConnected(FALSE, FALSE) \o <<Show("connection")>>
allowConnect == <<IsUserAdmin("user"), Parse>> \o ToggleAllowConnect \o <<Confirm>>
connectionButtons == <<Parse>> \o IsUserConnected(FALSE, FALSE) \o <<Show("connection")>>
disconnect == <<RequirePrivate, Parse>> \o DisconnectId \o <<Confirm>>
reconnect(allowed) == <<RequirePrivate, Parse, Ask, IsUserInChat("user")>> \o allowed
                         \o ConnectId \o <<Confirm>>
reconnectElsewhere ==
    <<RequirePrivate, Parse, Ask, Not(IsUserInChat("user"))>> \o DisconnectId

ConnectionCommands ==
    [connection |-> connection, allowconnect |-> allowConnect,
     connect |-> Connect(canUserConnectToChat),
     connect_member |-> Connect(canMemberConnectToChat),
     connection_buttons |-> connectionButtons, disconnect |-> disconnect,
     reconnect |-> reconnect(canUserConnectToChat),
     reconnect_member |-> reconnect(canMemberConnectToChat),
     reconnect_left |-> reconnectElsewhere]

--------------------------------------------------------------------------------
(* devs.go with db/devs/repository.go: about the bot itself, whatever the chat. *)
manageTeamRole == <<IsBotOwner, Parse, Ask, Parse, Write("devs"), Confirm>>
listTeam == <<OfTeam, Show("team")>>
ForTeam(step) == <<OfDevelopers>> \o step
chatInfo == ForTeam(<<Parse, Show("chats")>>)
chatList == ForTeam(<<Ask, Show("chats")>>)
leaveChat == ForTeam(<<Parse, Do({"leave"}, "bot"), Confirm>>)
getStats == ForTeam(<<Ask, Show("stats")>>)

TeamCommands ==
    [addsudo |-> manageTeamRole, teamusers |-> listTeam, chatinfo |-> chatInfo,
     chatlist |-> chatList, leavechat |-> leaveChat, stats |-> getStats]

--------------------------------------------------------------------------------
(* db/lang/repository.go *)
LanguageKeys == [user_language |-> {"user_lang", "user"}, chat_language |-> {"chat_lang", "chat"}]
ChangeUserLanguage == <<Write("user_language"), Drop({"user_lang"}), Drop({"user"})>>
ChangeGroupLanguage == <<Write("chat_language"), Drop({"chat_lang"}),
                         Drop({"chat_settings"}), Drop({"chat"})>>

(* language.go *)
changeLanguage == <<RequireGroup, RequireUserAdmin, Offer("lang_button")>>
changeOwnLanguage == <<RequirePrivate, Offer("own_lang_button")>>
langBtnHandler == <<Parse, RequireGroup, RequireUserAdmin>> \o ChangeGroupLanguage
                     \o <<Confirm>>
ownLangBtnHandler == <<Parse, RequirePrivate>> \o ChangeUserLanguage \o <<Confirm>>

LanguageCommands ==
    [lang |-> changeLanguage, own_lang |-> changeOwnLanguage,
     lang_button |-> langBtnHandler, own_lang_button |-> ownLangBtnHandler]

================================================================================
