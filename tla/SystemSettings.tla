---------------------------- MODULE SystemSettings ----------------------------
(***************************************************************************)
(* SystemSettingsService: one group of platform settings, a row per key,   *)
(* and the copy of the group in Redis.  An update upserts the keys one     *)
(* after the other, without a transaction, evicts the copy and then        *)
(* answers as a read does: from the copy, or from the rows, which it       *)
(* stores for 300 s.  Every await is a step of its own.                    *)
(*                                                                         *)
(* A value is the call that wrote it.                                      *)
(***************************************************************************)
EXTENDS Naturals, Sequences

CONSTANTS
    SettingsCalls,   \* the calls in flight at one time, each for one update
    SettingKeys,     \* the keys of the group, in the order of the DTO
    NoSettings       \* the copy is not in Redis

VARIABLES
    setting,         \* common.system_setting: per key, who wrote it
    settingsEntry,   \* the copy, NoSettings if there is none
    settingsCall,    \* per call: op, step, the keys written, the group it has
    overlapped       \* history: the calls that were in flight together with another

settingsVars == <<setting, settingsEntry, settingsCall, overlapped>>

Initially == "seed"
Keys == {SettingKeys[i] : i \in DOMAIN SettingKeys}
Groups == [Keys -> SettingsCalls \cup {Initially}]

ASSUME SettingsAssumption == SettingKeys \in Seq(Keys) /\ SettingKeys # <<>>

\* raced is history: the copy was out of date the moment it was stored.
SettingsEntry == [group : Groups, expires : BOOLEAN, raced : BOOLEAN]

SettingsSteps == {"idle", "upsert", "evict", "lookup", "read", "store", "done", "failed"}

SettingsCall ==
    [op : {"get", "update"}, step : SettingsSteps, written : 0..Len(SettingKeys),
     seen : Groups]

SettingsInit ==
    /\ setting = [k \in Keys |-> Initially]
    /\ settingsEntry = NoSettings
    /\ settingsCall = [c \in SettingsCalls |->
           [op |-> "get", step |-> "idle", written |-> 0, seen |-> setting]]
    /\ overlapped = {}

SettingsRunning(c) == settingsCall[c].step \notin {"idle", "done", "failed"}

\* A call arrives.
StartSettings(c, op) ==
    LET others == {d \in SettingsCalls : SettingsRunning(d)}
    IN /\ settingsCall[c].step = "idle"
       /\ settingsCall' = [settingsCall EXCEPT ![c].op = op, ![c].written = 0,
              ![c].step = IF op = "update" THEN "upsert" ELSE "lookup"]
       /\ overlapped' = overlapped \cup (IF others = {} THEN {} ELSE others \cup {c})
       /\ UNCHANGED <<setting, settingsEntry>>

\* upsertGroup, one key.
UpsertSetting(c) ==
    LET n == settingsCall[c].written + 1
    IN /\ settingsCall[c].step = "upsert"
       /\ setting' = [setting EXCEPT ![SettingKeys[n]] = c]
       /\ settingsCall' = [settingsCall EXCEPT ![c].written = n,
              ![c].step = IF n = Len(SettingKeys) THEN "evict" ELSE @]
       /\ UNCHANGED <<settingsEntry, overlapped>>

\* Mutant: the copy is left where it is.
EvictSettings_Forgotten(c) ==
    /\ settingsCall[c].step = "evict"
    /\ settingsCall' = [settingsCall EXCEPT ![c].step = "lookup"]
    /\ UNCHANGED <<setting, settingsEntry, overlapped>>

EvictSettings(c) ==
    /\ settingsCall[c].step = "evict"
    /\ settingsEntry' = NoSettings
    /\ settingsCall' = [settingsCall EXCEPT ![c].step = "lookup"]
    /\ UNCHANGED <<setting, overlapped>>

\* A read that is answered can be repeated; an update is made once.
Answered(c, group) ==
    settingsCall' = [settingsCall EXCEPT ![c].seen = group,
        ![c].step = IF settingsCall[c].op = "get" THEN "idle" ELSE "done"]

\* get<Group>Settings: the copy, if there is one.
LookUpSettings(c) ==
    /\ settingsCall[c].step = "lookup"
    /\ IF settingsEntry # NoSettings
       THEN Answered(c, settingsEntry.group)
       ELSE settingsCall' = [settingsCall EXCEPT ![c].step = "read"]
    /\ UNCHANGED <<setting, settingsEntry, overlapped>>

\* readGroup: one SELECT of all the keys.
ReadSettings(c) ==
    /\ settingsCall[c].step = "read"
    /\ settingsCall' = [settingsCall EXCEPT ![c].step = "store", ![c].seen = setting]
    /\ UNCHANGED <<setting, settingsEntry, overlapped>>

\* Mutant: the TTL is left to the default of the cache module, which is none.
StoreSettings_NoTtl(c) ==
    /\ settingsCall[c].step = "store"
    /\ settingsEntry' = [group |-> settingsCall[c].seen, expires |-> FALSE,
                         raced |-> settingsCall[c].seen # setting]
    /\ Answered(c, settingsCall[c].seen)
    /\ UNCHANGED <<setting, overlapped>>

StoreSettings(c) ==
    /\ settingsCall[c].step = "store"
    /\ settingsEntry' = [group |-> settingsCall[c].seen, expires |-> TRUE,
                         raced |-> settingsCall[c].seen # setting]
    /\ Answered(c, settingsCall[c].seen)
    /\ UNCHANGED <<setting, overlapped>>

\* The database or Redis fails, or the process ends.
FailSettings(c) ==
    /\ SettingsRunning(c)
    /\ settingsCall' = [settingsCall EXCEPT ![c].step = "failed"]
    /\ UNCHANGED <<setting, settingsEntry, overlapped>>

ExpireSettings ==
    /\ settingsEntry # NoSettings /\ settingsEntry.expires
    /\ settingsEntry' = NoSettings
    /\ UNCHANGED <<setting, settingsCall, overlapped>>

AdvanceSettings(c) ==
    \/ UpsertSetting(c) \/ EvictSettings(c) \/ LookUpSettings(c)
    \/ ReadSettings(c) \/ StoreSettings(c)

SettingsNext ==
    \/ \E c \in SettingsCalls :
           \/ \E op \in {"get", "update"} : StartSettings(c, op)
           \/ AdvanceSettings(c)
           \/ FailSettings(c)
    \/ ExpireSettings

\* A statement is answered or fails, and Redis drops what has expired.
SettingsFairness ==
    /\ \A c \in SettingsCalls : WF_settingsVars(AdvanceSettings(c))
    /\ WF_settingsVars(ExpireSettings)

-----------------------------------------------------------------------------

\* Type invariant.
SettingsTypeOK ==
    /\ setting \in Groups
    /\ settingsEntry \in SettingsEntry \cup {NoSettings}
    /\ settingsCall \in [SettingsCalls -> SettingsCall]
    /\ overlapped \subseteq SettingsCalls

\* An update no other call overlapped answers with what it wrote, all of it,
\* whatever copy an earlier call had left (SystemSettingsService.upsertGroup).
UpdateAnswersItself ==
    \A c \in SettingsCalls :
        LET call == settingsCall[c]
        IN call.op = "update" /\ call.step = "done" /\ c \notin overlapped =>
               call.seen = [k \in Keys |-> c]

\* The copy differs from the rows only if it was read before an update and
\* stored after it, or while the update is on its way, or if one failed.
SettingsStaleExplained ==
    settingsEntry # NoSettings /\ settingsEntry.group # setting =>
        \/ settingsEntry.raced
        \/ \E c \in SettingsCalls :
               /\ settingsCall[c].op = "update"
               /\ settingsCall[c].step \in {"upsert", "evict", "failed"}

\* No copy, or one that is as the rows are.
SettingsFresh == settingsEntry = NoSettings \/ settingsEntry.group = setting
=============================================================================
