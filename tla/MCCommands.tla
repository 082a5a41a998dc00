------------------------------- MODULE MCCommands ------------------------------
(* The instance of Commands that TLC checks: all handlers, each begun by       *)
(* whoever may get past one of its checks, or fail just one of them.           *)
EXTENDS Commands, ModerationHandlers, ContentHandlers, SettingsHandlers, ServiceHandlers,
        FederationHandlers, TLC

--------------------------------------------------------------------------------
(* The handlers. *)

AllCommands ==
    BanCommands @@ MuteCommands @@ PurgeCommands @@ PinCommands @@ ReportCommands
      @@ AdminCommands @@ NoteCommands @@ FilterCommands @@ BlacklistCommands
      @@ RuleCommands @@ LockCommands @@ DisablingCommands @@ ReactionCommands
      @@ LogChannelCommands @@ GreetingCommands @@ GuardCommands @@ ApprovalCommands
      @@ ConnectionCommands @@ TeamCommands @@ LanguageCommands @@ FederationCommands
      @@ BackupCommands

Of(commands, names) == [h \in names |-> commands[h]]
AllAnonymous ==
    Of(BanCommands, AnonymousBans) @@ Of(MuteCommands, AnonymousMutes)
      @@ Of(PurgeCommands, AnonymousPurges) @@ AnonymousPins @@ AnonymousAdmin

StepSet(steps) == {steps[i] : i \in DOMAIN steps}
StepsOf(h) == StepSet(AllCommands[h])
                \cup IF h \in DOMAIN AllAnonymous THEN StepSet(AllAnonymous[h]) ELSE {}

(* The tables that are written, the keys that are read from them, and who      *)
(* keeps those that are not the administrators' affair.                        *)
CachedKeys ==
    NoteKeys @@ FilterKeys @@ BlacklistKeys @@ LockKeys @@ DisablingKeys @@ ReactionKeys
      @@ LogChannelKeys @@ GuardKeys @@ ApprovalKeys @@ LanguageKeys @@ FederationKeys
      @@ AntiraidKeys @@ WarnsKeys
Tables == UNION {s.tables : s \in {x \in UNION {StepsOf(h) : h \in DOMAIN AllCommands} :
                                     x.do = "store"}}
Keys == [t \in Tables |-> IF t \in DOMAIN CachedKeys THEN CachedKeys[t] ELSE {}]
Kept ==
    [t \in Tables |->
        CASE t \in {"connections", "user_language", "own_federation"} -> {}
          [] t = "devs" -> {"owner"}
          [] t \in {"federations", "federation_subs"} -> {"fed owner"}
          [] t \in {"federation_bans", "federation_admins"} -> {"fed owner", "fed admin"}
          [] t = "federation_chats" -> {"admin", "fed owner"}
          [] OTHER -> {"admin"}]

(* Handlers that act without asking what the bot may do, or what the target    *)
(* is: see the README.                                                         *)
NotAsking == {"restrict_button", "unrestrict_button", "unbanall_button", "linked_post",
              "service_message", "join_approved", "blacklist_hit", "approve",
              "fban", "fban_private", "fed_hit"}
NotSparing == {"restrict_button", "report_punish", "join_ban", "fban", "fban_private"}

--------------------------------------------------------------------------------
(* Where a handler begins. *)

Rank(u, t, b) == [owner |-> Creator, user |-> u, target |-> t, bot |-> b,
                  anonymous |-> Outside]
Full == AdminWith(Rights)

Gates(h) == {s \in StepsOf(h) : s.do = "gate"}
Asked(h) == {s.has : s \in Gates(h)}
From(h) == {s.from : s \in Gates(h)}
Aims(h) == \E s \in StepsOf(h) : \/ s.do = "gate" /\ s.who = "target"
                                 \/ s.do = "act" /\ s.whom = "target"

(* Everybody has every right, or one of those asked for is missing.            *)
Lacking(h) == {AdminWith(Rights \ {r}) : r \in Rights \cap Asked(h)}
Users(h) == {Member, Full} \cup Lacking(h)
              \cup (IF "creator" \in Asked(h) \/ h = "promote" THEN {Creator} ELSE {})
Targets(h) == IF Aims(h) THEN {Outside, Member, Full, Full \cup {"made"}} ELSE {Member}
Standings(h) == {Rank(u, t, Full) : u \in Users(h), t \in Targets(h)}
                  \cup {Rank(Full, Member, b) : b \in {Member} \cup Lacking(h)}

Group == {"group", "enabled"}
Roles(h) == (IF "team" \in From(h) \/ h = "promote" THEN {"owner", "dev", "sudo"} ELSE {})
              \cup (IF "federation" \in From(h) THEN {"fed owner", "fed admin"} ELSE {})
With(kind, h) == {kind} \cup {kind \cup {r} : r \in Roles(h)}
Chats(h) == With(Group, h) \cup (IF "enabled" \in Asked(h) THEN {{"group"}} ELSE {})
Privately(h) == \/ "connection" \in From(h) \/ "private" \in Asked(h)
                \/ h \in {"link_notes", "link_note", "link_admin_note", "link_rules"}

ByUser ==
    UNION {[handler : {h}, by : {"user"}, chat : Chats(h), rank : Standings(h)] :
             h \in DOMAIN AllCommands}
InPrivate ==
    UNION {[handler : {h}, by : {"user"},
            chat : With({"private"}, h) \cup {{"private", "connected"}},
            rank : {Rank(u, Member, b) : u \in {Outside} \cup Users(h), b \in {Member, Full}}] :
             h \in {x \in DOMAIN AllCommands : Privately(x)}}
ByAnonymous ==
    UNION {[handler : {h}, by : {"anonymous"},
            chat : {Group, Group \cup {"anonymous administrators"}},
            rank : {Rank(u, Member, Full) : u \in Lacking(h) \cup {Member}}] :
             h \in DOMAIN AllAnonymous}
Starts == ByUser \cup InPrivate \cup ByAnonymous

================================================================================
