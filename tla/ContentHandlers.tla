---------------------------- MODULE ContentHandlers ----------------------------
(* The handlers of notes, filters, blacklists and rules (modules/notes.go,     *)
(* filters.go, blacklists.go, rules.go) with the writes of their repositories, *)
(* as sequences of steps.                                                      *)
EXTENDS Permissions

(* A button that asks whether to overwrite holds a token; it is used up before *)
(* the presser and the chat are compared with the asker's (overwrite.go).      *)
consumeOverwriteCache == <<Parse>>

(* The right is asked of the chat that the user is connected to.               *)
ChangesInfo(botAdmin) == IsUserConnected(TRUE, botAdmin) \o <<CanUserChangeInfo>>

(* /clearall and its like: a question to the owner, who also has to answer it. *)
AskOwner(handler) == <<Ask, RequireUserOwner, Offer(handler)>>
AnsweredByOwner(remove) == <<RequireUserOwner, Parse>> \o remove \o <<Confirm>>

--------------------------------------------------------------------------------
(* db/notes/repository.go; a note that exists already is not added (OnConflict *)
(* DoNothing), which only a concurrent /save can bring about.                  *)
NoteKeys == [notes |-> {"notes_list"}, notes_settings |-> {"notes_settings"}]
AddNote == <<Write("notes"), Drop({"notes_list"})>>
UpdateNoteUndropped == <<Write("notes")>>
UpdateNote == <<Write("notes"), Drop({"notes_list"})>>
RemoveNote == <<Write("notes"), Drop({"notes_list"})>>
RemoveAllNotes == <<Write("notes"), Drop({"notes_list"})>>
TooglePrivateNote == <<Write("notes_settings"), Drop({"notes_settings"})>>

(* notes.go *)
addNote == ChangesInfo(TRUE) \o <<Parse>> \o AddNote \o <<Confirm>>
addNoteAgain == ChangesInfo(TRUE) \o <<Parse, Ask, Offer("note_overwrite")>>
rmNote == IsUserConnected(TRUE, TRUE) \o <<Parse, CanUserChangeInfo, Parse>>
             \o RemoveNote \o <<Confirm>>
privNote == <<RequireUserAdmin, Parse>> \o TooglePrivateNote \o <<Confirm>>
\* The list names the notes of administrators to administrators only.
notesList == <<CheckDisabled>> \o IsUserConnected(FALSE, TRUE) \o <<Show("notes")>>
notesListOfAdmins == <<CheckDisabled>> \o IsUserConnected(FALSE, TRUE)
                        \o <<IsUserAdmin("user"), Show("admin notes")>>
rmAllNotes == <<RequireGroup>> \o AskOwner("notes_clear")
noteOverWriteHandler ==
    <<RequireUserAdmin>> \o consumeOverwriteCache \o <<RequireGroup>>
        \o UpdateNote \o <<Confirm>>
notesButtonHandler == AnsweredByOwner(RemoveAllNotes)
notesWatcher == <<Parse, Answer("notes")>>
notesWatcherOfAdmins == <<Parse, IsUserAdmin("user"), Show("admin notes")>>
getNotes == <<CheckDisabled>> \o IsUserConnected(FALSE, FALSE) \o <<Parse, Show("notes")>>
getNotesOfAdmins == <<CheckDisabled>> \o IsUserConnected(FALSE, FALSE)
                       \o <<Parse, IsUserAdmin("user"), Show("admin notes")>>
sendNoFormatNote == <<CheckDisabled>> \o IsUserConnected(FALSE, FALSE)
                       \o <<Parse, RequireUserAdmin, Show("admin notes")>>
notesListDeepLinkHandler == <<Ask, IsUserInChat("user"), Show("notes")>>
noteDeepLinkHandler == <<Ask, IsUserInChat("user"), Parse, Show("notes")>>
noteDeepLinkOfAdmins ==
    <<Ask, IsUserInChat("user"), Parse, IsUserAdmin("user"), Show("admin notes")>>

NoteCommands ==
    [save |-> addNote, save_again |-> addNoteAgain, clear |-> rmNote,
     privnote |-> privNote, notes |-> notesList, admin_notes |-> notesListOfAdmins,
     clearall |-> rmAllNotes, note_overwrite |-> noteOverWriteHandler,
     notes_clear |-> notesButtonHandler, hashtag |-> notesWatcher,
     hashtag_admin |-> notesWatcherOfAdmins, get |-> getNotes,
     get_admin |-> getNotesOfAdmins, get_noformat |-> sendNoFormatNote,
     link_notes |-> notesListDeepLinkHandler, link_note |-> noteDeepLinkHandler,
     link_admin_note |-> noteDeepLinkOfAdmins]

--------------------------------------------------------------------------------
(* db/filters/repository.go *)
FilterKeys == [filters |-> {"filter_list", "filters_optimized"}]
invalidateFilterCaches == <<Drop({"filter_list"}), Drop({"filters_optimized"})>>
AddFilter == <<Write("filters")>> \o invalidateFilterCaches
UpdateFilter == <<Write("filters")>> \o invalidateFilterCaches
RemoveFilter == <<Write("filters")>> \o invalidateFilterCaches
RemoveAllFilters == <<Write("filters")>> \o invalidateFilterCaches

(* filters.go; fewer than 150 are counted before one is added.                 *)
addFilter == ChangesInfo(FALSE) \o <<Parse>> \o AddFilter \o <<Confirm>>
addFilterAgain == ChangesInfo(FALSE) \o <<Parse, Ask, Offer("filter_overwrite")>>
rmFilter == ChangesInfo(FALSE) \o <<Parse>> \o RemoveFilter \o <<Confirm>>
filtersList == <<CheckDisabled>> \o IsUserConnected(FALSE, TRUE) \o <<Show("filters")>>
rmAllFilters == AskOwner("filters_clear")
filtersButtonHandler == AnsweredByOwner(RemoveAllFilters)
filterOverWriteHandler ==
    <<RequireUserAdmin>> \o consumeOverwriteCache \o <<RequireGroup>>
        \o UpdateFilter \o <<Confirm>>
filtersWatcher == <<Parse, Answer("filters")>>
filtersWatcherNoFormat == <<Parse, RequireUserAdmin, Show("filters")>>

FilterCommands ==
    [filter |-> addFilter, filter_again |-> addFilterAgain, stop |-> rmFilter,
     filters |-> filtersList, stopall |-> rmAllFilters,
     filters_clear |-> filtersButtonHandler,
     filter_overwrite |-> filterOverWriteHandler, filter_hit |-> filtersWatcher,
     filter_noformat |-> filtersWatcherNoFormat]

--------------------------------------------------------------------------------
(* db/blacklists/repository.go *)
BlacklistKeys == [blacklists |-> {"blacklist"}]
AddBlacklist == <<Write("blacklists"), Drop({"blacklist"})>>
RemoveBlacklist == <<Write("blacklists"), Drop({"blacklist"})>>
RemoveAllBlacklist == <<Write("blacklists"), Drop({"blacklist"})>>
SetBlacklistAction == <<Write("blacklists"), Drop({"blacklist"})>>

(* blacklists.go; of several words some may fail, which the reply names.       *)
BlacklistGates ==
    <<IsUserAdmin("user"), IsBotAdmin, CanUserRestrict, CanBotRestrict, Parse>>
addBlacklist == IsUserConnected(TRUE, TRUE) \o BlacklistGates \o AddBlacklist \o <<Confirm>>
removeBlacklist ==
    IsUserConnected(TRUE, TRUE) \o BlacklistGates \o RemoveBlacklist \o <<Confirm>>
listBlacklists ==
    <<CheckDisabled>> \o IsUserConnected(FALSE, TRUE) \o <<Show("blacklist")>>
setBlacklistAction ==
    IsUserConnected(TRUE, TRUE) \o <<CanUserRestrict, CanBotRestrict, Parse>>
        \o SetBlacklistAction \o <<Confirm>>
rmAllBlacklists == <<RequireGroup>> \o AskOwner("blacklist_clear")
buttonHandler == AnsweredByOwner(RemoveAllBlacklist)
\* The message goes, its author is punished as the settings say.
blacklistWatcher ==
    <<Parse, Not(IsUserAdmin("user")), Unapproved, IsBotAdmin, Parse,
      Enforce({"delete"}, "message"),
      Enforce({"mute", "ban", "kick", "nothing"}, "user"), Ask>>

BlacklistCommands ==
    [addblacklist |-> addBlacklist, rmblacklist |-> removeBlacklist,
     blacklists |-> listBlacklists, blaction |-> setBlacklistAction,
     rmallbl |-> rmAllBlacklists, blacklist_clear |-> buttonHandler,
     blacklist_hit |-> blacklistWatcher]

--------------------------------------------------------------------------------
(* db/rules/repository.go: read without a cache.                               *)
SetChatRules == <<Write("rules")>>
SetChatRulesButton == <<Write("rules")>>
SetPrivateRules == <<Write("rules")>>

(* rules.go *)
clearRules == IsUserConnected(TRUE, TRUE) \o SetChatRules \o <<Confirm>>
privaterules == IsUserConnected(TRUE, TRUE) \o <<Parse>> \o SetPrivateRules \o <<Confirm>>
sendRules == <<CheckDisabled>> \o IsUserConnected(FALSE, TRUE) \o <<Show("rules")>>
setRulesToldFirst == IsUserConnected(TRUE, TRUE) \o <<Parse, Confirm>> \o SetChatRules
setRules == IsUserConnected(TRUE, TRUE) \o <<Parse>> \o SetChatRules \o <<Confirm>>
rulesBtn == IsUserConnected(TRUE, TRUE) \o <<IsUserAdmin("user"), Parse>>
               \o SetChatRulesButton \o <<Confirm>>
resetRulesBtn == IsUserConnected(TRUE, TRUE) \o SetChatRulesButton \o <<Confirm>>
rulesDeepLinkHandler == <<Parse, Ask, IsUserInChat("user"), Parse, Show("rules")>>

RuleCommands ==
    [clearrules |-> clearRules, privaterules |-> privaterules, rules |-> sendRules,
     setrules |-> setRules, rulesbutton |-> rulesBtn,
     clearrulesbutton |-> resetRulesBtn, link_rules |-> rulesDeepLinkHandler]

================================================================================
