-------------------------- MODULE FederationHandlers ---------------------------
(* The handlers of federations (modules/federations.go) and of backups         *)
(* (modules/backup.go) with the writes of their repositories, as sequences of  *)
(* steps.                                                                      *)
EXTENDS Permissions

(* The federation in question is owned by the user, or the user is one of its  *)
(* administrators (cached); a lookup that fails finds nothing.                 *)
OwnsFed == Gate("federation", "user", "fed owner")
IsFedAdmin == Gate("federation", "user", "fed admin")

(* db/federations/repository.go *)
FederationKeys ==
    [federations |-> {"fed"}, own_federation |-> {"fed"}, federation_chats |-> {"fed_chat"},
     federation_admins |-> {"fed_admins"}, federation_bans |-> {"fed_ban"},
     federation_subs |-> {"fed_subs"}]
invalidateFed == <<Drop({"fed"}), Drop({"fed_admins"}), Drop({"fed_subs"})>>
invalidateChat == <<Drop({"fed_chat"})>>
invalidateBan == <<Drop({"fed_ban"})>>

CreateFederation == <<Ask, Not(OwnsFed), Write("own_federation")>> \o invalidateFed
RenameFederation == <<Write("federations")>> \o invalidateFed
\* The row is locked, then everything that belongs to it goes in one transaction.
DeleteFederation ==
    <<Transaction({"federations", "federation_chats", "federation_admins",
                   "federation_bans", "federation_subs"})>>
        \o invalidateFed \o invalidateChat \o invalidateBan
JoinFed == <<Ask, Parse, Write("federation_chats")>> \o invalidateChat
LeaveFed == <<Parse, Write("federation_chats")>> \o invalidateChat
SetQuietFed == <<Parse, Write("federation_chats")>> \o invalidateChat
PromoteFedAdmin == <<Parse, Ask, Write("federation_admins"), Drop({"fed_admins"})>>
DemoteFedAdmin == <<Write("federation_admins"), Drop({"fed_admins"})>>
updateFedField == <<Ask, Write("federations")>> \o invalidateFed
Fban == <<Ask, Write("federation_bans")>> \o invalidateBan
Unfban == <<Write("federation_bans")>> \o invalidateBan
SubscribeFed == <<Ask, Parse, Write("federation_subs"), Drop({"fed_subs"})>>
UnsubscribeFed == <<Write("federation_subs"), Drop({"fed_subs"})>>

(* federations.go *)
newFed == <<RequirePrivate, Parse>> \o CreateFederation \o <<Confirm>>
renameFed == <<Parse, OwnsFed>> \o RenameFederation \o <<Confirm>>
delFed == <<RequirePrivate, OwnsFed, Offer("fed_delete")>>
\* The button deletes whatever federation its presser owns.
fedCallback == <<Parse, OwnsFed>> \o DeleteFederation \o <<Confirm>>
joinFed == <<RequireGroup, RequireUserOwner, Parse, Ask>> \o JoinFed \o <<Confirm>>
leaveFed == <<RequireGroup, RequireUserOwner>> \o LeaveFed \o <<Confirm>>
quietFed == <<RequireGroup, RequireUserAdmin, Parse>> \o SetQuietFed \o <<Confirm>>
fedInfo == <<CheckDisabled, Parse, Ask>>
changeFedAdmin(change) == <<OwnsFed, Parse>> \o change \o <<Confirm>>
\* Who has no row among the administrators has none to delete.
fedDemoteMe == <<Parse, Not(OwnsFed), IsFedAdmin>> \o DemoteFedAdmin \o <<Confirm>>
toggleOwnedFed == <<OwnsFed, Parse>> \o updateFedField \o <<Confirm>>
resolveFbanFed(private) ==
    IF private THEN <<RequirePrivate, OwnsFed>> ELSE <<RequireGroup, Parse, IsFedAdmin>>
\* The chats of the federation in which the target has been seen.
applyActiveFban == <<Ask, Enforce({"ban", "nothing"}, "target")>>
applyFban(private) ==
    resolveFbanFed(private) \o <<Parse>> \o Fban \o <<Confirm>> \o applyActiveFban
liftFban(private) == resolveFbanFed(private) \o <<Parse>> \o Unfban \o <<Confirm>>
changeSub(change) == <<OwnsFed, Parse>> \o change \o <<Confirm>>
fedSubs == <<CheckDisabled, OwnsFed, Ask>>
setFedLog == <<RequireGroup, OwnsFed>> \o updateFedField \o <<Confirm>>
unsetFedLog == <<OwnsFed>> \o updateFedField \o <<Confirm>>
fbanList == <<OwnsFed, Parse, Ask, Show("fed bans")>>
importFBans == <<OwnsFed, Parse, Ask>> \o Fban \o <<Confirm>>
enforceFedBan == <<RequireGroup, Parse, Not(IsUserAdmin("user")), Enforce({"ban"}, "user"), Ask>>

FederationCommands ==
    [newfed |-> newFed, renamefed |-> renameFed, delfed |-> delFed, fed_delete |-> fedCallback,
     joinfed |-> joinFed, leavefed |-> leaveFed, quietfed |-> quietFed, fedinfo |-> fedInfo,
     fedpromote |-> changeFedAdmin(PromoteFedAdmin), feddemote |-> changeFedAdmin(DemoteFedAdmin),
     feddemoteme |-> fedDemoteMe, fedreason |-> toggleOwnedFed, fban |-> applyFban(FALSE),
     fban_private |-> applyFban(TRUE), unfban |-> liftFban(FALSE),
     unfban_private |-> liftFban(TRUE), subfed |-> changeSub(SubscribeFed),
     unsubfed |-> changeSub(UnsubscribeFed), fedsubs |-> fedSubs, setfedlog |-> setFedLog,
     unsetfedlog |-> unsetFedLog, fbanlist |-> fbanList, importfbans |-> importFBans,
     fed_hit |-> enforceFedBan]

--------------------------------------------------------------------------------
(* db/backup/backup.go: what a module of a backup replaces or clears, and the  *)
(* cached keys dropped after the commit.                                       *)
Module(tables, keys) == [tables |-> tables, keys |-> keys]

importAdmin == Module({"admin", "antiflood", "captcha_settings", "connection_settings",
                       "blacklists"}, {"antiflood", "captcha_settings", "blacklist"})
importAntiflood == Module({"antiflood"}, {"antiflood"})
importAntiraid == Module({"antiraid"}, {"antiraid"})
importApprovals == Module({"approvals"}, {"approvals"})
importBlacklists == Module({"blacklists"}, {"blacklist"})
importCaptcha == Module({"captcha_settings"}, {"captcha_settings"})
importConnections == Module({"connection_settings"}, {})
importDisabling == Module({"disabled", "disabled_settings"}, {"disabled_cmds"})
importFilters == Module({"filters"}, {"filter_list", "filters_optimized"})
importGreetings == Module({"greetings"}, {"greetings"})
importLocks == Module({"locks"}, {"lock", "locks_map"})
importNotes == Module({"notes", "notes_settings"}, {"notes_settings", "notes_list"})
importPins == Module({"pins"}, {})
importReactions == Module({"reactions"}, {"reactions"})
importReports == Module({"reports"}, {})
importRules == Module({"rules"}, {})
\* The warned users, old and new, have a key each.
importWarns == Module({"warn_settings", "warns"}, {"warn_settings", "warns"})
importFederations == Module({"federation_chats"}, {"fed_chat"})
importLogChannels == Module({"log_channels"}, {"log_channel"})

clearAdmin == Module({"admin", "antiflood", "captcha_settings", "connection_settings",
                      "blacklists"}, {"antiflood", "captcha_settings", "blacklist"})
clearAntiflood == Module({"antiflood"}, {"antiflood"})
clearAntiraid == Module({"antiraid"}, {"antiraid"})
clearApprovals == Module({"approvals"}, {"approvals"})
clearBlacklists == Module({"blacklists"}, {"blacklist"})
clearCaptcha == Module({"captcha_settings"}, {"captcha_settings"})
clearConnections == Module({"connection_settings"}, {})
clearDisabling == Module({"disabled", "disabled_settings"}, {"disabled_cmds"})
clearFilters == Module({"filters"}, {"filter_list", "filters_optimized"})
clearGreetings == Module({"greetings"}, {"greetings"})
clearLocks == Module({"locks"}, {"lock", "locks_map"})
clearNotes == Module({"notes", "notes_settings"}, {"notes_settings", "notes_list"})
clearPins == Module({"pins"}, {})
clearReactions == Module({"reactions"}, {"reactions"})
clearReports == Module({"reports"}, {})
clearSavedRules == Module({"rules"}, {})
clearWarns == Module({"warn_settings", "warns"}, {"warn_settings", "warns"})
clearFederations == Module({"federation_chats"}, {"fed_chat"})
clearLogChannels == Module({"log_channels"}, {"log_channel"})

AntiraidKeys == [antiraid |-> {"antiraid"}]
WarnsKeys == [warns |-> {"warns"}, warn_settings |-> {"warn_settings"}]

(* The modules in one transaction, then the keys.                              *)
withBackupTx(modules) ==
    <<Transaction(UNION {m.tables : m \in modules}), Drop(UNION {m.keys : m \in modules})>>
importModuleData ==
    {importAdmin, importAntiflood, importAntiraid, importApprovals, importBlacklists,
     importCaptcha, importConnections, importDisabling, importFilters, importGreetings,
     importLocks, importNotes, importPins, importReactions, importReports, importRules,
     importWarns, importFederations, importLogChannels}
clearModuleData ==
    {clearAdmin, clearAntiflood, clearAntiraid, clearApprovals, clearBlacklists,
     clearCaptcha, clearConnections, clearDisabling, clearFilters, clearGreetings,
     clearLocks, clearNotes, clearPins, clearReactions, clearReports, clearSavedRules,
     clearWarns, clearFederations, clearLogChannels}
ExportChatData == <<Ask>>
ImportChatData(modules) == <<Parse>> \o withBackupTx(modules)
ClearChatData(modules) == <<Parse>> \o withBackupTx(modules)

(* backup.go; the keyboard's token is used up before the transaction.          *)
acquireOperation == <<Parse>>
validateImportRequest == <<RequireGroup, RequireBotAdmin, RequireUserOwner>>
exportHandler == <<RequireGroup, RequireUserAdmin, RequireBotAdmin, Parse>>
                    \o acquireOperation \o ExportChatData \o <<Show("backup")>>
importHandler == validateImportRequest \o <<Parse, Ask, Parse>> \o acquireOperation
                    \o <<Ask, Offer("import_confirm"), Offer("pending_cancel")>>
resetHandler == <<RequireGroup, RequireBotAdmin, RequireUserOwner, Parse>> \o acquireOperation
                   \o <<Ask, Offer("reset_confirm"), Offer("pending_cancel")>>
backupCallbackHandler == <<RequireUserOwner, Parse>>
consumePendingImport == <<Parse>>
consumePendingReset == <<Parse>>
handleConfirmImport(modules) ==
    backupCallbackHandler \o consumePendingImport \o ImportChatData(modules) \o <<Confirm>>
handleConfirmReset(modules) ==
    backupCallbackHandler \o consumePendingReset \o ClearChatData(modules) \o <<Confirm>>
handleCancelPending == backupCallbackHandler \o <<Parse, Ask>>

BackupCommands ==
    [export |-> exportHandler, import |-> importHandler, reset |-> resetHandler,
     import_confirm |-> handleConfirmImport(importModuleData),
     import_confirm_admin |-> handleConfirmImport({importAdmin}),
     reset_confirm |-> handleConfirmReset(clearModuleData),
     reset_confirm_admin |-> handleConfirmReset({clearAdmin}),
     pending_cancel |-> handleCancelPending]

================================================================================
