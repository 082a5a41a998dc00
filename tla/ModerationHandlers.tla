--------------------------- MODULE ModerationHandlers --------------------------
(* The handlers of the moderation commands (modules/moderation.go, bans.go,    *)
(* mute.go, purges.go, pins.go, reports.go, admin.go) as sequences of steps.   *)
EXTENDS Permissions

(* moderation.go: gates, then the target, its validation, the act, the reply.  *)
StandardModGates ==
    <<RequireGroup, RequireUserAdmin, RequireBotAdmin, CanUserRestrict, CanBotRestrict>>
DeleteModGates == StandardModGates \o <<CanBotDelete, CanUserDelete>>

ExtractFromArgs == <<Parse>>      \* a user, not a channel; otherwise a reply
ExtractFromReply == <<Parse>>     \* the author of the message replied to
ExtractUserOnly == <<Parse>>

ValidateTargetPresent(checkInChat) == IF checkInChat THEN <<IsUserInChat("target")>> ELSE <<>>
ValidateTarget(checkInChat) ==
    IF checkInChat THEN <<IsUserInChat("target"), Unprotected>> ELSE <<Unprotected>>
KickTargetValidation == ValidateTarget(TRUE)
BanTargetValidation == ValidateTarget(FALSE)
MuteTargetValidation == ValidateTarget(TRUE)

Moderate(gates, extract, validate, execute, reply) ==
    gates \o extract \o validate \o execute \o reply \o <<Note>>

KickReply == <<Ask, Confirm>>
BanReplyWithButton == <<Ask, Confirm, Offer("unrestrict_button")>>
MuteReplyWithButton == <<Ask, Confirm, Offer("unrestrict_button")>>

(* The checks of a command's descriptor run before its handler.                *)
RestrictChecks ==
    <<CheckDisabled, RequireGroup, RequireUserAdmin, RequireBotAdmin,
      CanUserRestrict, CanBotRestrict>>
DeleteRestrictChecks == RestrictChecks \o <<CanBotDelete, CanUserDelete>>

--------------------------------------------------------------------------------
(* bans.go *)

Dkick == Moderate(DeleteModGates, ExtractFromReply, KickTargetValidation,
                  <<Do({"delete"}, "message"), Do({"kick"}, "target")>>, KickReply)
Tban == Moderate(StandardModGates, ExtractFromArgs, BanTargetValidation,
                 <<Parse, Do({"ban"}, "target")>>, KickReply)
Ban == Moderate(StandardModGates, <<Parse>>, BanTargetValidation,
                <<Do({"ban"}, "target")>>, BanReplyWithButton)
\* A channel is banned only in answer to one of its messages.
BanOfChannel == Moderate(StandardModGates, <<Parse>>, <<>>,
                         <<Do({"ban channel", "nothing"}, "channel")>>, <<Confirm>>)
Kick == Moderate(StandardModGates, ExtractFromArgs, KickTargetValidation,
                 <<Do({"kick"}, "target")>>, KickReply)
SelfGates == <<RequireGroup, CanBotRestrict>>
Kickme == Moderate(SelfGates, <<>>, <<Not(RequireUserAdmin)>>,
                   <<Do({"kick"}, "user")>>, <<Confirm>>)
Sban == Moderate(DeleteModGates, ExtractUserOnly, BanTargetValidation,
                 <<Do({"ban"}, "target"), Do({"delete"}, "message")>>, <<>>)
Dban == Moderate(DeleteModGates, ExtractFromArgs, BanTargetValidation,
                 <<Do({"delete"}, "message"), Do({"ban"}, "target")>>,
                 BanReplyWithButton)
Unban == Moderate(StandardModGates, <<Parse>>, <<>>,
                  <<Do({"unban"}, "target")>>, KickReply)
UnbanOfChannel == Moderate(StandardModGates, <<Parse>>, <<>>,
                           <<Do({"unban channel", "nothing"}, "channel")>>,
                           <<Confirm>>)
RestrictGates == <<RequireGroup, CanUserRestrict, CanBotRestrict>>
Restrict == RestrictGates \o <<Parse>> \o ValidateTarget(TRUE)
                \o <<Ask, Offer("restrict_button")>>
RestrictButtonUnchecked ==
    <<Parse, Ask, Do({"kick", "mute", "ban"}, "target"), Confirm, Ask>>
RestrictButtonHandler ==
    <<CanUserRestrict, Parse, Ask, Do({"kick", "mute", "ban"}, "target"), Confirm, Ask>>
Unrestrict == RestrictGates \o <<Parse>> \o ValidateTarget(FALSE)
                \o <<Ask, Offer("unrestrict_button")>>
UnrestrictButtonHandler ==
    <<CanUserRestrict, Parse, Ask, Do({"unmute", "release"}, "target"), Confirm, Ask>>
Skick == Moderate(DeleteModGates, ExtractUserOnly, KickTargetValidation,
                  <<Do({"kick"}, "target"), Do({"delete"}, "message")>>, <<>>)
Banme == Moderate(SelfGates, <<>>, <<Not(RequireUserAdmin)>>,
                  <<Do({"ban"}, "user")>>, <<Confirm>>)
UnbanAllHandler ==
    <<RequireGroup, RequireUserOwner, CanBotRestrict, Ask, Offer("unbanall_button")>>
\* Members who cannot be unbanned are skipped.
UnbanAllCallback == <<RequireUserOwner, Parse, Try({"release"}, "target"), Confirm, Ask>>

SelfChecks == <<CheckDisabled>> \o SelfGates
UnbanAllChecks == <<CheckDisabled, RequireGroup, RequireUserOwner, CanBotRestrict>>
BanCommands ==
    [ban |-> RestrictChecks \o Ban, ban_channel |-> RestrictChecks \o BanOfChannel,
     sban |-> DeleteRestrictChecks \o Sban, tban |-> RestrictChecks \o Tban,
     dban |-> DeleteRestrictChecks \o Dban, unban |-> RestrictChecks \o Unban,
     unban_channel |-> RestrictChecks \o UnbanOfChannel,
     banme |-> SelfChecks \o Banme, unbanall |-> UnbanAllChecks \o UnbanAllHandler,
     kick |-> RestrictChecks \o Kick, dkick |-> DeleteRestrictChecks \o Dkick,
     skick |-> DeleteRestrictChecks \o Skick, kickme |-> SelfChecks \o Kickme,
     restrict |-> <<CheckDisabled>> \o RestrictGates \o Restrict,
     unrestrict |-> <<CheckDisabled>> \o RestrictGates \o Unrestrict,
     restrict_button |-> RestrictButtonHandler,
     unrestrict_button |-> UnrestrictButtonHandler,
     unbanall_button |-> UnbanAllCallback]
AnonymousBans ==
    {"ban", "dban", "sban", "tban", "unban", "skick", "restrict", "unrestrict"}

--------------------------------------------------------------------------------
(* mute.go *)

Tmute == Moderate(StandardModGates, ExtractFromArgs, MuteTargetValidation,
                  <<Parse, Do({"mute"}, "target")>>, KickReply)
Mute == Moderate(StandardModGates, ExtractFromArgs, MuteTargetValidation,
                 <<Do({"mute"}, "target")>>, MuteReplyWithButton)
Smute == Moderate(DeleteModGates, ExtractUserOnly, MuteTargetValidation,
                  <<Do({"mute"}, "target")>>, <<Try({"delete"}, "message")>>)
Dmute == Moderate(DeleteModGates, ExtractFromArgs, MuteTargetValidation,
                  <<Do({"delete"}, "message"), Do({"mute"}, "target")>>,
                  MuteReplyWithButton)
Unmute == Moderate(StandardModGates, ExtractUserOnly, <<IsUserInChat("target")>>,
                   <<Ask, Do({"unmute"}, "target")>>, KickReply)

MuteCommands ==
    [silent |-> RestrictChecks \o Mute, smute |-> DeleteRestrictChecks \o Smute,
     tmute |-> RestrictChecks \o Tmute, dmute |-> DeleteRestrictChecks \o Dmute,
     violent |-> RestrictChecks \o Unmute]
AnonymousMutes == {"silent", "smute", "dmute", "tmute", "violent"}

--------------------------------------------------------------------------------
(* purges.go *)

CheckPurgeOfUser == <<RequireGroup, RequireBotAdmin, RequireUserAdmin, CanUserDelete>>
CheckPurgePermissions ==
    <<RequireGroup, RequireBotAdmin, CanBotDelete, RequireUserAdmin, CanUserDelete>>
PurgeChecks == <<CheckDisabled>> \o CheckPurgePermissions

\* Only the first message must go; what else cannot be deleted is counted.
PurgeMsgs(first) ==
    (IF first THEN <<Do({"delete", "nothing"}, "message")>> ELSE <<>>)
        \o <<Try({"delete", "nothing"}, "message")>>
Purge == CheckPurgePermissions \o <<Parse>> \o PurgeMsgs(TRUE)
            \o <<Try({"delete"}, "message"), Confirm>>
DelCmd == CheckPurgePermissions \o <<Parse, Try({"delete"}, "message"),
                                     Try({"delete"}, "message")>>
DeleteButtonHandler ==
    <<Parse, CanUserDelete, CanBotDelete, Do({"delete"}, "message"), Ask>>
PurgeFrom == CheckPurgePermissions \o <<Parse, Do({"delete"}, "message"), Ask>>
PurgeTo == CheckPurgePermissions \o <<Parse>> \o PurgeMsgs(FALSE)
            \o <<Try({"delete"}, "message"), Confirm>>

PurgeCommands ==
    [del |-> PurgeChecks \o DelCmd, purge |-> PurgeChecks \o Purge,
     purgefrom |-> PurgeChecks \o PurgeFrom, purgeto |-> PurgeChecks \o PurgeTo,
     delete_button |-> DeleteButtonHandler]
AnonymousPurges == {"purge", "del"}

--------------------------------------------------------------------------------
(* pins.go *)

PinChecks == <<RequireGroup, RequireUserAdmin, RequireBotAdmin, CanUserPin, CanBotPin>>
EnforcePinChecks == <<RequireBotAdmin, CanUserPin, CanBotPin>>
PinnedChecks == <<RequireGroup, RequireBotAdmin>>

\* What the chat's settings want of a post of the linked channel.
CheckPinned == <<Parse, Enforce({"delete", "unpin"}, "message")>>
Unpin == <<Do({"unpin"}, "message"), Confirm>>
UnpinallCallback == PinChecks \o <<Parse, Do({"unpin"}, "message"), Confirm>>
UnpinAll == <<Ask, Offer("unpinall_button")>>
GetPinType == <<Parse>>
PermaPin == GetPinType \o <<Ask, Do({"pin"}, "message"), Confirm>>
Pin == <<Parse, Do({"pin"}, "message"), Confirm>>
Antichannelpin == IsUserConnected(TRUE, TRUE) \o <<Parse, Write("pins"), Confirm>>
Cleanlinked == IsUserConnected(TRUE, TRUE) \o <<Parse, Write("pins"), Confirm>>
Pinned == <<Ask, Ask>>

PinCommands ==
    [unpin |-> PinChecks \o Unpin, unpinall |-> PinChecks \o UnpinAll,
     pin |-> PinChecks \o Pin, permapin |-> PinChecks \o PermaPin,
     pinned |-> PinnedChecks \o Pinned, antichannelpin |-> Antichannelpin,
     cleanlinked |-> Cleanlinked, unpinall_button |-> UnpinallCallback,
     linked_post |-> CheckPinned]
AnonymousPins ==
    [pin |-> EnforcePinChecks \o Pin, unpin |-> EnforcePinChecks \o Unpin,
     permapin |-> EnforcePinChecks \o PermaPin,
     unpinall |-> EnforcePinChecks \o UnpinAll]

--------------------------------------------------------------------------------
(* reports.go *)

Report ==
    <<CheckDisabled, Parse, Not(IsUserAdmin("user")), Parse, LoadList, Unprotected,
      Ask, Offer("report_punish"), Offer("report_delete"),
      Offer("report_resolved")>>
\* A blocked user's report is removed, if the bot may.
ReportOfBlocked == <<CheckDisabled, Parse, CanBotDelete, Try({"delete"}, "user")>>
MarkResolvedButtonHandler(gates, effects, whom) ==
    <<RequireUserAdmin, Parse>> \o gates \o <<Do(effects, whom), Confirm, Ask>>
ReportPunish == MarkResolvedButtonHandler(<<CanUserRestrict, CanBotRestrict>>,
                                          {"kick", "ban"}, "target")
ReportDelete == MarkResolvedButtonHandler(<<CanUserDelete, CanBotDelete>>,
                                          {"delete"}, "message")
\* The report is only marked as dealt with, by whatever administrator.
ReportResolved == <<RequireUserAdmin, Parse, Ask>>
Reports == IsUserConnected(TRUE, TRUE)
              \o <<RequireUserAdmin, RequireBotAdmin, Parse, Write("reports"), Confirm>>

ReportCommands ==
    [report |-> Report, report_of_blocked |-> ReportOfBlocked, reports |-> Reports,
     report_punish |-> ReportPunish, report_delete |-> ReportDelete,
     report_resolved |-> ReportResolved]

--------------------------------------------------------------------------------
(* admin.go *)

PromoteChecks ==
    <<RequireGroup, RequireBotAdmin, RequireUserAdmin, CanUserPromote, CanBotPromote>>
TitleChecks ==
    <<RequireGroup, RequireUserAdmin, RequireBotAdmin, CanUserPromote, CanBotPromote>>
AnonPromoteChecks == <<CanUserPromote, CanBotPromote>>
InfoChecks ==
    <<RequireGroup, RequireBotAdmin, RequireUserAdmin, CanUserChangeInfo,
      CanBotChangeInfo>>

LoadAdminCacheOrFail == <<LoadList>>
Adminlist == <<LoadList, Ask>>
ValidateDemotionTarget == <<Parse, Not(IsOwner("target")), IsUserAdmin("target")>>
PerformDemotion == <<Do({"demote"}, "target"), ForgetList, Ask, Confirm>>
Demote == LoadAdminCacheOrFail \o ValidateDemotionTarget \o PerformDemotion
ValidatePromotionTarget == <<Parse, Not(IsOwner("target")), Unprotected>>
HandlePromotionSuccess ==
    <<ForgetList, Parse, Do({"title", "nothing"}, "target"), Confirm>>
Promote == LoadAdminCacheOrFail \o ValidatePromotionTarget
              \o <<Ask, Weigh, Do({"promote"}, "target")>> \o HandlePromotionSuccess
Getinvitelink == <<Ask, Do({"show link"}, "chat")>>
SetGTitle == <<Parse, Do({"set title"}, "chat"), Confirm>>
SetGPic == <<Parse, Ask, Do({"set picture"}, "chat"), Confirm>>
SetGDesc == <<Do({"set description"}, "chat"), Confirm>>
SetTitle == <<Parse, Not(IsOwner("target")), IsUserAdmin("target"), Parse,
              Do({"title"}, "target"), Ask, Confirm>>
AnonAdmin == <<Parse, RequireUserOwner, Parse, Write("admin"), Confirm>>
AdminCache == <<Ask, Not(Gate("live", "user", "plain")), RequireBotAdmin,
                RequireGroup, LoadList, Ask>>
ClearAdminCache == <<ForgetList, Ask>>

AdminCommands ==
    [adminlist |-> <<CheckDisabled, RequireBotAdmin, RequireGroup>> \o Adminlist,
     promote |-> PromoteChecks \o Promote, demote |-> PromoteChecks \o Demote,
     title |-> TitleChecks \o SetTitle,
     invitelink |-> <<RequireGroup, RequireBotAdmin>> \o CanInvite \o Getinvitelink,
     clearadmincache |->
        <<RequireGroup, RequireBotAdmin, RequireUserAdmin>> \o ClearAdminCache,
     anonadmin |-> <<RequireGroup, RequireBotAdmin>> \o AnonAdmin,
     setgtitle |-> InfoChecks \o SetGTitle, setgpic |-> InfoChecks \o SetGPic,
     setgdesc |-> InfoChecks \o SetGDesc, admincache |-> AdminCache]
AnonymousAdmin ==
    [promote |-> AnonPromoteChecks \o Promote, demote |-> AnonPromoteChecks \o Demote,
     title |-> AnonPromoteChecks \o SetTitle]

================================================================================
