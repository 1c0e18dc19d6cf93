---------------------------- MODULE OperationProofs ----------------------------
(***************************************************************************)
(* What runs beside the certification chain, the migrations left aside,    *)
(* for any number of calls, keys, types and codes.                         *)
(*                                                                         *)
(* The caches: what the eviction of each write is worth; copies in Redis   *)
(* are stale only where a race or a failure explains it, and an            *)
(* undisturbed update answers with what it wrote.  The catalogue and the   *)
(* export documents: what a row or a message rests on is there, a          *)
(* deactivated type stays so, codes are unique, documents follow a grant.  *)
(* Last, the types of all the components.                                  *)
(*                                                                         *)
(* A step of Operations is, for each component, one of its own or a        *)
(* stutter; so each component has an invariant of its own.                 *)
(***************************************************************************)
EXTENDS Operations, TLAPS

\* A step is a step of each of the components with a cache, or leaves it alone.
LEMMA CacheSteps ==
    ASSUME [Next]_vars
    PROVE  /\ [SettingsNext]_settingsVars
           /\ [PreferenceNext]_preferenceVars
           /\ [TemplateNext]_templateVars
<1>1. CASE UNCHANGED vars
  BY <1>1 DEF vars, settingsVars, preferenceVars, templateVars
<1>2. CASE Next
  <2> USE DEF In, settingsVars, preferenceVars, templateVars
  <2>1. CASE In("migrations") /\ MigrationNext
    BY <2>1
  <2>2. CASE In("settings") /\ SettingsNext
    BY <2>2
  <2>3. CASE In("preferences") /\ PreferenceNext
    BY <2>3
  <2>4. CASE In("templates") /\ TemplateNext
    BY <2>4
  <2>5. CASE In("statistics") /\ StatisticsNext
    BY <2>5
  <2>6. CASE In("exports") /\ ExportNext
    BY <2>6
  <2>7. CASE In("catalogue") /\ CatalogueNext
    BY <2>7
  <2>8. QED
    BY <1>2, <2>1, <2>2, <2>3, <2>4, <2>5, <2>6, <2>7 DEF Next
<1>3. QED
  BY <1>1, <1>2

-----------------------------------------------------------------------------
(* Preferences *)

PreferenceInv ==
    /\ PreferenceTypeOK
    /\ \A c \in PreferenceCalls :
           preferenceCall[c].step \in {"upsert", "evict"} => preferenceCall[c].op = "upsert"
    /\ PreferenceStaleExplained

LEMMA PreferencesStart == PreferenceInit => PreferenceInv
BY DEF PreferenceInit, PreferenceInv, PreferenceTypeOK, PreferenceStaleExplained,
       PreferenceValues, PreferenceEntry, PreferenceCall

\* The call that wrote the row explains a stale copy until it has evicted it.
LEMMA PreferencesStep ==
    ASSUME PreferenceInv, [PreferenceNext]_preferenceVars
    PROVE  PreferenceInv'
<1> USE DEF PreferenceInv, PreferenceTypeOK, PreferenceStaleExplained,
            PreferenceValues, PreferenceEntry, PreferenceCall, PreferenceStep
<1>1. ASSUME NEW c \in PreferenceCalls, StartPreferences(c)
      PROVE  PreferenceInv'
  BY <1>1 DEF StartPreferences
<1>2. ASSUME NEW c \in PreferenceCalls, UpsertPreferences(c)
      PROVE  PreferenceInv'
  BY <1>2 DEF UpsertPreferences
<1>3. ASSUME NEW c \in PreferenceCalls, EvictPreferences(c)
      PROVE  PreferenceInv'
  BY <1>3 DEF EvictPreferences
<1>4. ASSUME NEW c \in PreferenceCalls, LookUpPreferences(c)
      PROVE  PreferenceInv'
  BY <1>4 DEF LookUpPreferences
<1>5. ASSUME NEW c \in PreferenceCalls, ReadPreferences(c)
      PROVE  PreferenceInv'
  BY <1>5 DEF ReadPreferences
<1>6. ASSUME NEW c \in PreferenceCalls, StorePreferences(c)
      PROVE  PreferenceInv'
  BY <1>6 DEF StorePreferences
<1>7. ASSUME NEW c \in PreferenceCalls, FailPreferences(c)
      PROVE  PreferenceInv'
  BY <1>7 DEF FailPreferences
<1>8. CASE ExpirePreferences
  BY <1>8 DEF ExpirePreferences
<1>9. CASE UNCHANGED preferenceVars
  BY <1>9 DEF preferenceVars
<1>10. QED
  BY <1>1, <1>2, <1>3, <1>4, <1>5, <1>6, <1>7, <1>8, <1>9
     DEF PreferenceNext, AdvancePreferences
-----------------------------------------------------------------------------
(* Settings *)

\* An update has evicted, and on its own it has the rows to itself: no other
\* call can store a copy before it answers.
SettingsInv ==
    /\ SettingsTypeOK
    /\ \A c \in SettingsCalls :
           LET call == settingsCall[c]
           IN /\ call.step \in {"upsert", "evict"} => call.op = "update"
              /\ call.step = "upsert" => call.written < Len(SettingKeys)
              /\ c \notin overlapped /\ SettingsRunning(c) =>
                     \A d \in SettingsCalls \ {c} : ~SettingsRunning(d)
    /\ SettingsStaleExplained

\* All the keys as the call c writes them.
Whole(c) == [k \in Keys |-> c]

\* What an update that is alone has come to.
AloneOf(c) ==
    LET call == settingsCall[c]
    IN call.op = "update" /\ c \notin overlapped =>
          /\ call.step = "upsert" =>
                 \A i \in 1..call.written : setting[SettingKeys[i]] = c
          /\ call.step \in {"evict", "lookup", "read", "store"} => setting = Whole(c)
          /\ call.step \in {"lookup", "read", "store"} => settingsEntry = NoSettings
          /\ call.step \in {"store", "done"} => call.seen = Whole(c)

AloneInv == \A c \in SettingsCalls : AloneOf(c)

LEMMA SettingsStart == SettingsInit => SettingsInv /\ AloneInv
<1> SUFFICES ASSUME SettingsInit PROVE SettingsInv /\ AloneInv
  OBVIOUS
<1>1. Len(SettingKeys) \in Nat /\ Len(SettingKeys) > 0
  BY SettingsAssumption
<1>2. setting \in Groups
  BY DEF SettingsInit, Groups
<1>3. QED
  BY <1>1, <1>2 DEF SettingsInit, SettingsInv, AloneInv, AloneOf, SettingsTypeOK, SettingsCall,
     SettingsSteps, SettingsRunning, SettingsStaleExplained

LEMMA SettingsStep ==
    ASSUME SettingsInv, [SettingsNext]_settingsVars
    PROVE  SettingsInv'
<1> USE DEF SettingsInv, SettingsTypeOK, SettingsStaleExplained, SettingsCall,
            SettingsEntry, SettingsSteps, SettingsRunning
<1>0. Len(SettingKeys) \in Nat /\ Len(SettingKeys) > 0
  BY SettingsAssumption
<1>1. ASSUME NEW c \in SettingsCalls, NEW op \in {"get", "update"}, StartSettings(c, op)
      PROVE  SettingsInv'
  BY <1>0, <1>1 DEF StartSettings
<1>2. ASSUME NEW c \in SettingsCalls, UpsertSetting(c)
      PROVE  SettingsInv'
  <2>1. setting' \in Groups
    BY <1>2 DEF UpsertSetting, Groups
  <2>2. settingsCall[c].written + 1 \in 0..Len(SettingKeys)
    BY <1>0, <1>2 DEF UpsertSetting
  <2>3. SettingsTypeOK'
    <3>1. PICK n \in 0..Len(SettingKeys), step \in {"upsert", "evict"} :
              settingsCall' = [settingsCall EXCEPT ![c].written = n, ![c].step = step]
      BY <1>2, <2>2 DEF UpsertSetting
    <3>2. settingsCall' \in [SettingsCalls -> SettingsCall]
      BY <3>1
    <3>3. QED
      BY <1>2, <2>1, <3>2 DEF UpsertSetting
  <2>4. settingsCall[c].op = "update" /\ settingsCall'[c].step \in {"upsert", "evict"}
    BY <1>2 DEF UpsertSetting
  <2>5. settingsCall'[c].step = "upsert" => settingsCall'[c].written < Len(SettingKeys)
    BY <1>0, <1>2, <2>2 DEF UpsertSetting
  <2>6. SettingsStaleExplained'
    BY <1>2, <2>4 DEF UpsertSetting
  <2>7. QED
    BY <1>2, <2>3, <2>4, <2>5, <2>6 DEF UpsertSetting
<1>3. ASSUME NEW c \in SettingsCalls, EvictSettings(c)
      PROVE  SettingsInv'
  BY <1>3 DEF EvictSettings
<1>4. ASSUME NEW c \in SettingsCalls, LookUpSettings(c)
      PROVE  SettingsInv'
  BY <1>4 DEF LookUpSettings, Answered
<1>5. ASSUME NEW c \in SettingsCalls, ReadSettings(c)
      PROVE  SettingsInv'
  BY <1>5 DEF ReadSettings
<1>6. ASSUME NEW c \in SettingsCalls, StoreSettings(c)
      PROVE  SettingsInv'
  BY <1>6 DEF StoreSettings, Answered
<1>7. ASSUME NEW c \in SettingsCalls, FailSettings(c)
      PROVE  SettingsInv'
  BY <1>7 DEF FailSettings
<1>8. CASE ExpireSettings
  BY <1>8 DEF ExpireSettings
<1>9. CASE UNCHANGED settingsVars
  BY <1>9 DEF settingsVars
<1>10. QED
  BY <1>1, <1>2, <1>3, <1>4, <1>5, <1>6, <1>7, <1>8, <1>9
     DEF SettingsNext, AdvanceSettings

LEMMA AloneStep ==
    ASSUME SettingsInv, AloneInv, [SettingsNext]_settingsVars
    PROVE  AloneInv'
<1> SUFFICES ASSUME NEW x \in SettingsCalls PROVE AloneOf(x)'
  BY DEF AloneInv
<1> USE DEF SettingsInv, SettingsTypeOK, SettingsCall, SettingsSteps, SettingsRunning
<1>a. AloneOf(x)
  BY DEF AloneInv
<1>0. Len(SettingKeys) \in Nat /\ Len(SettingKeys) > 0
  BY SettingsAssumption
<1>1. ASSUME NEW c \in SettingsCalls, NEW op \in {"get", "update"}, StartSettings(c, op)
      PROVE  AloneOf(x)'
  BY <1>a, <1>0, <1>1 DEF StartSettings, AloneOf
\* A step of another call, while x is in flight, says that x has been overlapped.
<1>b. ASSUME NEW c \in SettingsCalls \ {x}, SettingsRunning(c), x \notin overlapped
      PROVE  ~SettingsRunning(x)
  BY <1>b
<1>2. ASSUME NEW c \in SettingsCalls, UpsertSetting(c)
      PROVE  AloneOf(x)'
  <2>1. CASE c # x
    BY <1>a, <1>b, <1>2, <2>1 DEF UpsertSetting, AloneOf
  <2>2. CASE c = x /\ x \notin overlapped
    <3> DEFINE n == settingsCall[x].written + 1
    <3>1. /\ settingsCall[x].op = "update" /\ settingsCall[x].step = "upsert"
          /\ settingsCall'[x].written = n
          /\ settingsCall'[x].step = IF n = Len(SettingKeys) THEN "evict" ELSE "upsert"
          /\ setting' = [setting EXCEPT ![SettingKeys[n]] = x]
      BY <1>2, <2>2 DEF UpsertSetting
    <3>2. n \in 1..Len(SettingKeys) /\ settingsCall[x].written \in Nat
      BY <1>0, <3>1
    <3>3. \A i \in 1..Len(SettingKeys) : SettingKeys[i] \in Keys
      BY SettingsAssumption
    <3>4. DOMAIN setting = Keys
      BY DEF Groups
    <3>5. \A i \in 1..settingsCall[x].written : setting[SettingKeys[i]] = x
      BY <1>a, <2>2, <3>1 DEF AloneOf
    <3>6. \A i \in 1..n : setting'[SettingKeys[i]] = x
      BY <3>1, <3>2, <3>3, <3>4, <3>5
    <3>7. ASSUME n = Len(SettingKeys) PROVE setting' = Whole(x)
      <4>1. DOMAIN SettingKeys = 1..Len(SettingKeys)
        BY SettingsAssumption
      <4>2. \A k \in Keys : setting'[k] = x
        BY <3>6, <3>7, <4>1 DEF Keys
      <4>3. setting' = [k \in Keys |-> setting'[k]]
        BY <3>1, <3>4 DEF Groups
      <4>4. QED
        BY <4>2, <4>3 DEF Whole
    <3>8. QED
      BY <3>1, <3>6, <3>7 DEF AloneOf
  <2>3. CASE c = x /\ x \in overlapped
    BY <1>2, <2>3 DEF UpsertSetting, AloneOf
  <2>4. QED
    BY <2>1, <2>2, <2>3
<1>3. ASSUME NEW c \in SettingsCalls, EvictSettings(c)
      PROVE  AloneOf(x)'
  BY <1>a, <1>b, <1>3 DEF EvictSettings, AloneOf
<1>4. ASSUME NEW c \in SettingsCalls, LookUpSettings(c)
      PROVE  AloneOf(x)'
  BY <1>a, <1>b, <1>4 DEF LookUpSettings, Answered, AloneOf
<1>5. ASSUME NEW c \in SettingsCalls, ReadSettings(c)
      PROVE  AloneOf(x)'
  BY <1>a, <1>b, <1>5 DEF ReadSettings, AloneOf
<1>6. ASSUME NEW c \in SettingsCalls, StoreSettings(c)
      PROVE  AloneOf(x)'
  BY <1>a, <1>b, <1>6 DEF StoreSettings, Answered, AloneOf
<1>7. ASSUME NEW c \in SettingsCalls, FailSettings(c)
      PROVE  AloneOf(x)'
  BY <1>a, <1>7 DEF FailSettings, AloneOf
<1>8. CASE ExpireSettings
  BY <1>a, <1>8 DEF ExpireSettings, AloneOf
<1>9. CASE UNCHANGED settingsVars
  BY <1>a, <1>9 DEF settingsVars, AloneOf
<1>10. QED
  BY <1>1, <1>2, <1>3, <1>4, <1>5, <1>6, <1>7, <1>8, <1>9
     DEF SettingsNext, AdvanceSettings
-----------------------------------------------------------------------------
(* Templates *)

\* The copy of code k is explained.
CopyExplained(k) ==
    \/ CopyFresh(k)
    \/ templateEntry[k].raced
    \/ template[templateEntry[k].id].code # k
    \/ \E c \in TemplateCalls :
           templateCall[c].id = templateEntry[k].id /\ templateCall[c].owes = k

\* What a call saves or stores is a row that is there, as it was once or as the call
\* is to make it; a call owes an eviction only from its UPDATE on.
TemplateCallFits(c) ==
    LET call == templateCall[c]
    IN /\ call.step \in {"diff", "save", "evict"} => c \in TemplateWrites
       /\ call.step = "find" /\ call.op # "seed" => c \in TemplateWrites
       /\ call.owes # NoTemplate =>
              c \in TemplateWrites /\ call.step \in {"evict", "done", "failed"}
       /\ c \in TemplateWrites /\ call.step \in {"find", "diff", "save", "evict"} =>
              call.id \in Existing
       /\ call.step = "store" => call.id \in Existing
       /\ call.step \in {"diff", "save", "store"} => call.seen \in TemplateRow

TemplateInv ==
    /\ TemplateTypeOK
    /\ \A k \in Codes : templateEntry[k] # NoTemplate => templateEntry[k].id \in Existing
    /\ \A c \in TemplateCalls : TemplateCallFits(c)
    /\ \A k \in Codes : CopyExplained(k)

LEMMA IdleTemplateFits ==
    ASSUME Codes # {}
    PROVE  /\ IdleTemplate \in TemplateCall
           /\ IdleTemplate.step = "idle" /\ IdleTemplate.owes = NoTemplate
BY DEF IdleTemplate, TemplateCall, TemplateOps, TemplateSteps

LEMMA TemplatesStart ==
    ASSUME TemplateInit, Codes # {}
    PROVE  TemplateInv
BY IdleTemplateFits
   DEF TemplateInit, TemplateInv, TemplateTypeOK, TemplateCallFits, CopyExplained, CopyFresh

\* A step of one call that leaves rows and copies as they are, and what it owes.
LEMMA TemplateCallMoves ==
    ASSUME TemplateInv, NEW c \in TemplateCalls, NEW call \in TemplateCall,
           UNCHANGED <<template, templateEntry>>,
           templateCall' = [templateCall EXCEPT ![c] = call],
           templateCall[c].owes # NoTemplate =>
               call.owes = templateCall[c].owes /\ call.id = templateCall[c].id,
           TemplateCallFits(c)'
    PROVE  TemplateInv'
<1>1. /\ TemplateTypeOK' /\ Existing' = Existing
      /\ templateCall'[c] = call
      /\ \A d \in TemplateCalls \ {c} : templateCall'[d] = templateCall[d]
  BY DEF TemplateInv, TemplateTypeOK, Existing
<1>2. \A d \in TemplateCalls : TemplateCallFits(d)'
  BY <1>1 DEF TemplateInv, TemplateCallFits
<1>3. \A k \in Codes : CopyExplained(k)'
  BY <1>1, TemplateAssumption DEF TemplateInv, CopyExplained, CopyFresh
<1>4. QED
  BY <1>1, <1>2, <1>3 DEF TemplateInv

\* A call that starts over owes nothing.
LEMMA TemplateCallReturns ==
    ASSUME TemplateInv, Codes # {}, NEW c \in TemplateCalls, TemplateReturns(c),
           UNCHANGED <<template, templateEntry>>, templateCall[c].owes = NoTemplate
    PROVE  TemplateInv'
<1>1. templateCall'[c] = IdleTemplate
  BY DEF TemplateReturns, TemplateInv, TemplateTypeOK
<1>2. TemplateCallFits(c)'
  BY <1>1, IdleTemplateFits DEF TemplateCallFits
<1>3. QED
  BY <1>2, IdleTemplateFits, TemplateCallMoves DEF TemplateReturns

LEMMA EndedCall ==
    ASSUME Codes # {}, templateCall \in [TemplateCalls -> TemplateCall],
           NEW c \in TemplateCalls, NEW step \in {"done", "failed"},
           NEW owes \in Codes \cup {NoTemplate}, TemplateEnds(c, step, owes)
    PROVE  \E call \in TemplateCall :
               /\ templateCall' = [templateCall EXCEPT ![c] = call]
               /\ call.step = step /\ call.owes = owes
               /\ owes # NoTemplate => call.id = templateCall[c].id
<1>1. PICK id \in TemplateIds \cup {NoTemplate} :
         id = IF owes = NoTemplate THEN NoTemplate ELSE templateCall[c].id
  BY DEF TemplateCall
<1>2. PICK call \in TemplateCall :
         call = [IdleTemplate EXCEPT !.step = step, !.owes = owes, !.id = id]
  BY IdleTemplateFits DEF TemplateCall, TemplateSteps
<1>3. call.step = step /\ call.owes = owes /\ call.id = id
  BY <1>2, IdleTemplateFits DEF TemplateCall
<1>4. templateCall' = [templateCall EXCEPT ![c] = call]
  BY <1>1, <1>2 DEF TemplateEnds
<1>5. QED
  BY <1>1, <1>3, <1>4

LEMMA MergedRow ==
    ASSUME TemplateInv, NEW c \in TemplateCalls, templateCall[c].step = "diff",
           NEW entity \in Merged(c)
    PROVE  entity \in TemplateRow
<1>1. templateCall[c].seen \in TemplateRow /\ c \in TemplateWrites
  BY DEF TemplateInv, TemplateCallFits
<1>2. CASE templateCall[c].op = "deactivate"
  BY <1>1, <1>2 DEF Merged, TemplateRow
<1>3. CASE templateCall[c].op # "deactivate"
  <2>1. {templateCall[c].seen.body, c} \subseteq Bodies
    BY <1>1 DEF TemplateRow, Bodies
  <2>2. entity \in [code : Codes, body : {templateCall[c].seen.body, c}, active : BOOLEAN]
    BY <1>3 DEF Merged
  <2>3. QED
    BY <2>1, <2>2 DEF TemplateRow
<1>4. QED
  BY <1>2, <1>3

LEMMA WrittenRow ==
    ASSUME NEW row \in TemplateRow, NEW call \in TemplateCall, call.seen \in TemplateRow
    PROVE  Written(row, call) \in TemplateRow
<1>1. /\ row.code \in Codes /\ row.body \in Bodies /\ row.active \in BOOLEAN
      /\ call.seen.code \in Codes /\ call.seen.body \in Bodies
      /\ call.seen.active \in BOOLEAN
  BY DEF TemplateRow
<1>2. PICK k \in Codes, b \in Bodies, a \in BOOLEAN :
         Written(row, call) = [code |-> k, body |-> b, active |-> a]
  BY <1>1 DEF Written
<1>3. QED
  BY <1>2 DEF TemplateRow

LEMMA TemplatesStep ==
    ASSUME TemplateInv, [TemplateNext]_templateVars, Codes # {}
    PROVE  TemplateInv'
<1>0. /\ TemplateTypeOK
      /\ \A c \in TemplateCalls : TemplateCallFits(c) /\ templateCall[c] \in TemplateCall
      /\ \A i \in Existing : i \in TemplateIds /\ template[i] \in TemplateRow
  BY DEF TemplateInv, TemplateTypeOK, Existing
<1>1. ASSUME NEW c \in TemplateCalls, StartTemplates(c)
      PROVE  TemplateInv'
  <2>1. /\ UNCHANGED <<template, templateEntry>> /\ templateCall[c].step = "idle"
        /\ templateCall[c].owes = NoTemplate /\ Existing' = Existing
    BY <1>0, <1>1 DEF StartTemplates, TemplateIs, TemplateCallFits, Existing
  <2>2. PICK op \in TemplateOps, k \in Codes, i \in Existing \cup {NoTemplate} :
           /\ op \in {"update", "deactivate"} <=> c \in TemplateWrites
           /\ c \in TemplateWrites <=> i # NoTemplate
           /\ templateCall' = [templateCall EXCEPT ![c] =
                  [op |-> op, code |-> k, id |-> i, seen |-> NoTemplate,
                   dirty |-> {}, owes |-> NoTemplate,
                   step |-> CASE op = "send" -> "lookup"
                              [] op = "create" -> "insert"
                              [] OTHER -> "find"]]
    BY <1>1 DEF StartTemplates
  <2>3. PICK step \in {"lookup", "insert", "find"} :
           /\ templateCall' = [templateCall EXCEPT ![c] =
                  [op |-> op, code |-> k, id |-> i, seen |-> NoTemplate,
                   dirty |-> {}, owes |-> NoTemplate, step |-> step]]
           /\ step = "find" => op \in {"seed", "update", "deactivate"}
    BY <2>2 DEF TemplateOps
  <2>4. PICK call \in TemplateCall :
           call = [op |-> op, code |-> k, id |-> i, seen |-> NoTemplate,
                   dirty |-> {}, owes |-> NoTemplate, step |-> step]
    BY <1>0 DEF TemplateCall, TemplateSteps
  <2>5. TemplateCallFits(c)'
    <3>1. templateCall'[c] = call /\ i \in Existing' \cup {NoTemplate}
      BY <1>0, <2>1, <2>3, <2>4 DEF TemplateTypeOK
    <3>2. QED
      BY <2>2, <2>3, <2>4, <3>1 DEF TemplateCallFits
  <2>6. QED
    BY <2>1, <2>3, <2>4, <2>5, TemplateCallMoves
<1>2. ASSUME NEW c \in TemplateCalls, FindTemplate(c)
      PROVE  TemplateInv'
  <2>1. /\ UNCHANGED <<template, templateEntry>> /\ templateCall[c].step = "find"
        /\ templateCall[c].owes = NoTemplate /\ Existing' = Existing
    BY <1>0, <1>2 DEF FindTemplate, TemplateIs, TemplateCallFits, Existing
  <2>2. CASE TemplateReturns(c)
    BY <2>1, <2>2, TemplateCallReturns
  <2>3. CASE TemplateGoes(c, "insert")
    <3>1. PICK call \in TemplateCall : call = [templateCall[c] EXCEPT !.step = "insert"]
      BY <1>0 DEF TemplateCall, TemplateSteps
    <3>2. call.step = "insert" /\ call.owes = NoTemplate
      BY <1>0, <2>1, <3>1 DEF TemplateCall
    <3>3. templateCall' = [templateCall EXCEPT ![c] = call]
      BY <2>3, <3>1 DEF TemplateGoes
    <3>4. TemplateCallFits(c)'
      BY <1>0, <3>2, <3>3 DEF TemplateCallFits, TemplateTypeOK
    <3>5. QED
      BY <2>1, <3>3, <3>4, TemplateCallMoves
  <2>4. CASE /\ templateCall[c].op # "seed"
             /\ templateCall' = [templateCall EXCEPT ![c].step = "diff",
                                     ![c].seen = template[templateCall[c].id]]
    <3>0. c \in TemplateWrites /\ templateCall[c].id \in Existing
      BY <1>0, <2>1, <2>4 DEF TemplateCallFits
    <3>1. PICK row \in TemplateRow : row = template[templateCall[c].id]
      BY <1>0, <3>0
    <3>2. PICK call \in TemplateCall :
             call = [templateCall[c] EXCEPT !.step = "diff", !.seen = row]
      BY <1>0 DEF TemplateCall, TemplateSteps
    <3>3. /\ call.step = "diff" /\ call.owes = NoTemplate /\ call.seen = row
          /\ call.id = templateCall[c].id
      BY <1>0, <2>1, <3>2 DEF TemplateCall
    <3>4. templateCall' = [templateCall EXCEPT ![c] = call]
      BY <2>4, <3>1, <3>2
    <3>5. TemplateCallFits(c)'
      BY <1>0, <2>1, <3>0, <3>3, <3>4 DEF TemplateCallFits, TemplateTypeOK
    <3>6. QED
      BY <2>1, <3>4, <3>5, TemplateCallMoves
  <2>5. QED
    BY <1>2, <2>2, <2>3, <2>4 DEF FindTemplate
<1>3. ASSUME NEW c \in TemplateCalls, InsertTemplate(c)
      PROVE  TemplateInv'
  <2>1. PICK i \in TemplateIds \ Existing, row \in TemplateRow :
           template' = [template EXCEPT ![i] = row]
    <3>1. PICK i \in TemplateIds \ Existing, a \in BOOLEAN :
             template' = [template EXCEPT ![i] =
                  [code |-> templateCall[c].code, active |-> a, body |-> "first"]]
      BY <1>3 DEF InsertTemplate
    <3>2. [code |-> templateCall[c].code, active |-> a, body |-> "first"] \in TemplateRow
      BY <1>0 DEF TemplateRow, Bodies, TemplateCall
    <3>3. QED
      BY <3>1, <3>2
  <2>2. /\ templateCall' = [templateCall EXCEPT ![c] = IdleTemplate]
        /\ templateCall[c].owes = NoTemplate /\ UNCHANGED templateEntry
    BY <1>0, <1>3 DEF InsertTemplate, TemplateReturns, TemplateIs, TemplateCallFits
  <2>3. Existing \subseteq Existing' /\ \A j \in Existing : template'[j] = template[j]
    BY <1>0, <2>1, TemplateAssumption DEF Existing, TemplateTypeOK
  <2>4. TemplateTypeOK'
    BY <1>0, <2>1, <2>2, IdleTemplateFits DEF TemplateTypeOK
  <2>5. \A d \in TemplateCalls :
            templateCall'[d] = IF d = c THEN IdleTemplate ELSE templateCall[d]
    BY <1>0, <2>2 DEF TemplateTypeOK
  <2>6. \A d \in TemplateCalls : TemplateCallFits(d)'
    BY <1>0, <2>3, <2>5, IdleTemplateFits DEF TemplateCallFits
  <2>7. \A k \in Codes : templateEntry[k] # NoTemplate => templateEntry[k].id \in Existing
    BY DEF TemplateInv
  <2>8. ASSUME NEW k \in Codes PROVE CopyExplained(k)'
    BY <2>2, <2>3, <2>5, <2>7, TemplateAssumption DEF TemplateInv, CopyExplained, CopyFresh
  <2>9. QED
    BY <2>2, <2>3, <2>4, <2>6, <2>7, <2>8 DEF TemplateInv
<1>4. ASSUME NEW c \in TemplateCalls, DiffTemplate(c)
      PROVE  TemplateInv'
  <2>1. /\ UNCHANGED <<template, templateEntry>> /\ templateCall[c].step = "diff"
        /\ templateCall[c].owes = NoTemplate /\ Existing' = Existing
        /\ c \in TemplateWrites /\ templateCall[c].id \in Existing
    BY <1>0, <1>4 DEF DiffTemplate, TemplateIs, TemplateCallFits, Existing
  <2>2. PICK entity \in Merged(c), dirty \in SUBSET TemplateColumns :
           templateCall' = [templateCall EXCEPT
                  ![c].step = IF dirty = {} THEN "evict" ELSE "save",
                  ![c].seen = IF dirty = {} THEN NoTemplate ELSE entity,
                  ![c].code = entity.code, ![c].dirty = dirty]
    BY <1>4 DEF DiffTemplate, Differing
  <2>3. entity \in TemplateRow /\ entity.code \in Codes
    BY <2>1, MergedRow DEF TemplateRow
  <2>4. PICK step \in {"evict", "save"}, seen \in TemplateRow \cup {NoTemplate} :
           /\ step = IF dirty = {} THEN "evict" ELSE "save"
           /\ seen = IF dirty = {} THEN NoTemplate ELSE entity
    BY <2>3
  <2>5. PICK call \in TemplateCall :
           call = [templateCall[c] EXCEPT !.step = step, !.seen = seen,
                       !.code = entity.code, !.dirty = dirty]
    BY <1>0, <2>3 DEF TemplateCall, TemplateSteps
  <2>6. /\ call.step = step /\ call.seen = seen /\ call.owes = NoTemplate
        /\ call.id = templateCall[c].id
    BY <1>0, <2>1, <2>5 DEF TemplateCall
  <2>7. templateCall' = [templateCall EXCEPT ![c] = call]
    BY <2>2, <2>4, <2>5
  <2>8. step = "save" => seen \in TemplateRow
    BY <2>3, <2>4
  <2>9. TemplateCallFits(c)'
    BY <1>0, <2>1, <2>6, <2>7, <2>8 DEF TemplateCallFits, TemplateTypeOK
  <2>10. QED
    BY <2>1, <2>7, <2>9, TemplateCallMoves
<1>5. ASSUME NEW c \in TemplateCalls, SaveTemplate(c)
      PROVE  TemplateInv'
  <2>1. /\ templateCall[c].step = "save" /\ UNCHANGED templateEntry
        /\ c \in TemplateWrites /\ templateCall[c].id \in Existing
        /\ templateCall[c].seen \in TemplateRow
    BY <1>0, <1>5 DEF SaveTemplate, TemplateIs, TemplateCallFits
  <2>2. PICK i \in Existing, row \in TemplateRow :
           /\ i = templateCall[c].id /\ row.code \in Codes
           /\ template' = [template EXCEPT ![i] = row]
           /\ templateCall' = [templateCall EXCEPT ![c].step = "evict",
                 ![c].seen = NoTemplate, ![c].dirty = {}, ![c].owes = row.code]
    <3>1. Written(template[templateCall[c].id], templateCall[c]) \in TemplateRow
      BY <1>0, <2>1, WrittenRow
    <3>2. \A row \in TemplateRow : row.code \in Codes
      BY DEF TemplateRow
    <3>3. QED
      BY <1>5, <2>1, <3>1, <3>2 DEF SaveTemplate
  <2>3. PICK call \in TemplateCall :
           call = [templateCall[c] EXCEPT !.step = "evict", !.seen = NoTemplate,
                       !.dirty = {}, !.owes = row.code]
    BY <1>0, <2>2 DEF TemplateCall, TemplateSteps
  <2>4. call.step = "evict" /\ call.owes = row.code /\ call.id = i
    BY <1>0, <2>2, <2>3 DEF TemplateCall
  <2>5. \A d \in TemplateCalls :
            templateCall'[d] = IF d = c THEN call ELSE templateCall[d]
    BY <1>0, <2>2, <2>3 DEF TemplateTypeOK
  <2>6. /\ Existing' = Existing
        /\ \A j \in Existing : template'[j] = IF j = i THEN row ELSE template[j]
    BY <1>0, <2>2, TemplateAssumption DEF Existing, TemplateTypeOK
  <2>7. TemplateTypeOK'
    <3>1. templateCall' = [templateCall EXCEPT ![c] = call]
      BY <2>2, <2>3
    <3>2. templateCall' \in [TemplateCalls -> TemplateCall]
      BY <1>0, <3>1 DEF TemplateTypeOK
    <3>3. template' \in [TemplateIds -> TemplateRow \cup {NoTemplate}]
      BY <1>0, <2>2 DEF TemplateTypeOK
    <3>4. QED
      BY <1>0, <2>1, <3>2, <3>3 DEF TemplateTypeOK
  <2>8. \A d \in TemplateCalls : TemplateCallFits(d)'
    BY <1>0, <2>1, <2>4, <2>5, <2>6 DEF TemplateCallFits
  <2>9. \A k \in Codes : templateEntry[k] # NoTemplate => templateEntry[k].id \in Existing
    BY DEF TemplateInv
  <2>10. ASSUME NEW k \in Codes PROVE CopyExplained(k)'
    <3>1. CASE templateEntry[k] = NoTemplate
      BY <2>1, <3>1 DEF CopyExplained, CopyFresh
    <3>2. CASE templateEntry[k] # NoTemplate /\ templateEntry[k].id = i
      BY <2>1, <2>4, <2>5, <2>6, <3>2 DEF CopyExplained
    <3>3. CASE templateEntry[k] # NoTemplate /\ templateEntry[k].id # i
      <4>1. /\ templateEntry'[k] = templateEntry[k]
            /\ template'[templateEntry[k].id] = template[templateEntry[k].id]
        BY <2>1, <2>6, <2>9, <3>3
      <4>2. \A d \in TemplateCalls : templateCall[d].id = templateEntry[k].id =>
                templateCall'[d] = templateCall[d]
        BY <2>2, <2>5, <3>3
      <4>3. QED
        BY <4>1, <4>2 DEF TemplateInv, CopyExplained, CopyFresh
    <3>4. QED
      BY <3>1, <3>2, <3>3
  <2>11. QED
    BY <2>1, <2>6, <2>7, <2>8, <2>9, <2>10 DEF TemplateInv
<1>6. ASSUME NEW c \in TemplateCalls, EvictTemplate(c)
      PROVE  TemplateInv'
  <2>1. PICK owes \in Codes \cup {NoTemplate} :
           /\ owes = IF templateCall[c].owes = templateCall[c].code THEN NoTemplate
                     ELSE templateCall[c].owes
           /\ TemplateEnds(c, "done", owes)
    BY <1>0, <1>6 DEF EvictTemplate, TemplateCall
  <2>2. /\ templateCall[c].step = "evict" /\ UNCHANGED template /\ Existing' = Existing
        /\ templateEntry' = [templateEntry EXCEPT ![templateCall[c].code] = NoTemplate]
    BY <1>6 DEF EvictTemplate, TemplateIs, Existing
  <2>3. PICK call \in TemplateCall :
           /\ templateCall' = [templateCall EXCEPT ![c] = call]
           /\ call.step = "done" /\ call.owes = owes
           /\ owes # NoTemplate => call.id = templateCall[c].id
    BY <1>0, <2>1, EndedCall DEF TemplateTypeOK
  <2>4. /\ TemplateTypeOK'
        /\ \A d \in TemplateCalls :
               templateCall'[d] = IF d = c THEN call ELSE templateCall[d]
        /\ \A k \in Codes :
               templateEntry'[k] = IF k = templateCall[c].code THEN NoTemplate
                                   ELSE templateEntry[k]
    BY <1>0, <2>2, <2>3 DEF TemplateTypeOK
  <2>5. \A d \in TemplateCalls : TemplateCallFits(d)'
    BY <1>0, <2>1, <2>2, <2>3, <2>4 DEF TemplateCallFits
  <2>6. ASSUME NEW k \in Codes PROVE CopyExplained(k)'
    BY <2>1, <2>2, <2>3, <2>4, TemplateAssumption DEF TemplateInv, CopyExplained, CopyFresh
  <2>7. QED
    BY <2>2, <2>4, <2>5, <2>6 DEF TemplateInv
<1>7. ASSUME NEW c \in TemplateCalls, LookUpTemplate(c)
      PROVE  TemplateInv'
  <2>1. /\ UNCHANGED <<template, templateEntry>> /\ templateCall[c].step = "lookup"
        /\ templateCall[c].owes = NoTemplate /\ Existing' = Existing
    BY <1>0, <1>7 DEF LookUpTemplate, TemplateIs, TemplateCallFits, Existing
  <2>2. CASE TemplateReturns(c)
    BY <2>1, <2>2, TemplateCallReturns
  <2>3. CASE TemplateGoes(c, "select")
    <3>1. PICK call \in TemplateCall : call = [templateCall[c] EXCEPT !.step = "select"]
      BY <1>0 DEF TemplateCall, TemplateSteps
    <3>2. call.step = "select" /\ call.owes = NoTemplate
      BY <1>0, <2>1, <3>1 DEF TemplateCall
    <3>3. templateCall' = [templateCall EXCEPT ![c] = call]
      BY <2>3, <3>1 DEF TemplateGoes
    <3>4. TemplateCallFits(c)'
      BY <1>0, <3>2, <3>3 DEF TemplateCallFits, TemplateTypeOK
    <3>5. QED
      BY <2>1, <3>3, <3>4, TemplateCallMoves
  <2>4. QED
    BY <1>7, <2>2, <2>3 DEF LookUpTemplate
<1>8. ASSUME NEW c \in TemplateCalls, SelectTemplate(c)
      PROVE  TemplateInv'
  <2>1. /\ UNCHANGED <<template, templateEntry>> /\ templateCall[c].step = "select"
        /\ templateCall[c].owes = NoTemplate /\ Existing' = Existing
    BY <1>0, <1>8 DEF SelectTemplate, TemplateIs, TemplateCallFits, Existing
  <2>2. CASE TemplateReturns(c)
    BY <2>1, <2>2, TemplateCallReturns
  <2>3. ASSUME NEW i \in Existing,
               templateCall' = [templateCall EXCEPT ![c].step = "store", ![c].id = i,
                                    ![c].seen = template[i]]
        PROVE  TemplateInv'
    <3>1. PICK row \in TemplateRow : row = template[i] /\ i \in TemplateIds
      BY <1>0
    <3>2. PICK call \in TemplateCall :
             call = [templateCall[c] EXCEPT !.step = "store", !.id = i, !.seen = row]
      BY <1>0, <3>1 DEF TemplateCall, TemplateSteps
    <3>3. /\ call.step = "store" /\ call.owes = NoTemplate /\ call.seen = row
          /\ call.id = i
      BY <1>0, <2>1, <3>2 DEF TemplateCall
    <3>4. templateCall' = [templateCall EXCEPT ![c] = call]
      BY <2>3, <3>1, <3>2
    <3>5. TemplateCallFits(c)'
      BY <1>0, <2>1, <3>3, <3>4 DEF TemplateCallFits, TemplateTypeOK
    <3>6. QED
      BY <2>1, <3>4, <3>5, TemplateCallMoves
  <2>4. QED
    BY <1>8, <2>2, <2>3 DEF SelectTemplate
<1>9. ASSUME NEW c \in TemplateCalls, StoreTemplate(c)
      PROVE  TemplateInv'
  <2>1. /\ templateEntry' = [templateEntry EXCEPT ![templateCall[c].code] =
              [id |-> templateCall[c].id, row |-> templateCall[c].seen, expires |-> TRUE,
               raced |-> template[templateCall[c].id] # templateCall[c].seen]]
        /\ templateCall' = [templateCall EXCEPT ![c] = IdleTemplate]
        /\ templateCall[c].step = "store" /\ UNCHANGED template /\ Existing' = Existing
        /\ templateCall[c].owes = NoTemplate
        /\ templateCall[c].id \in Existing /\ templateCall[c].seen \in TemplateRow
    BY <1>0, <1>9
       DEF StoreTemplate, TemplateIs, TemplateReturns, TemplateCallFits, Existing
  <2>2. PICK entry \in TemplateEntry :
           /\ templateEntry' = [templateEntry EXCEPT ![templateCall[c].code] = entry]
           /\ entry.id = templateCall[c].id /\ entry.row = templateCall[c].seen
           /\ entry.raced = (template[templateCall[c].id] # templateCall[c].seen)
    <3>1. PICK raced \in BOOLEAN : raced = (template[templateCall[c].id] # templateCall[c].seen)
      OBVIOUS
    <3>2. [id |-> templateCall[c].id, row |-> templateCall[c].seen, expires |-> TRUE,
           raced |-> raced] \in TemplateEntry
      BY <1>0, <2>1 DEF TemplateEntry
    <3>3. QED
      BY <2>1, <3>1, <3>2
  <2>3. /\ TemplateTypeOK'
        /\ \A d \in TemplateCalls :
               templateCall'[d] = IF d = c THEN IdleTemplate ELSE templateCall[d]
        /\ \A k \in Codes :
               templateEntry'[k] = IF k = templateCall[c].code THEN entry
                                   ELSE templateEntry[k]
    BY <1>0, <2>1, <2>2, IdleTemplateFits DEF TemplateTypeOK
  <2>4. \A d \in TemplateCalls : TemplateCallFits(d)'
    BY <1>0, <2>1, <2>3, IdleTemplateFits DEF TemplateCallFits
  <2>5. ASSUME NEW k \in Codes PROVE CopyExplained(k)'
    <3>1. CASE k = templateCall[c].code
      <4>1. templateEntry'[k] = entry /\ template' = template
        BY <2>1, <2>3, <3>1
      <4>2. CASE entry.raced
        BY <4>1, <4>2 DEF CopyExplained
      <4>3. CASE ~entry.raced
        <5>1. template'[entry.id] = entry.row
          BY <2>2, <4>1, <4>3
        <5>2. QED
          BY <4>1, <5>1 DEF CopyExplained, CopyFresh
      <4>4. QED
        BY <4>2, <4>3
    <3>2. CASE k # templateCall[c].code
      BY <2>1, <2>3, <3>2, TemplateAssumption DEF TemplateInv, CopyExplained, CopyFresh
    <3>3. QED
      BY <3>1, <3>2
  <2>6. QED
    BY <2>1, <2>2, <2>3, <2>4, <2>5 DEF TemplateInv
<1>10. ASSUME NEW c \in TemplateCalls, FailTemplates(c)
       PROVE  TemplateInv'
  <2>1. UNCHANGED <<template, templateEntry>>
    BY <1>10 DEF FailTemplates
  <2>2. CASE c \notin TemplateWrites
    BY <1>0, <1>10, <2>1, <2>2, TemplateCallReturns DEF FailTemplates, TemplateCallFits
  <2>3. CASE c \in TemplateWrites
    <3>1. PICK owes \in Codes \cup {NoTemplate} :
             owes = templateCall[c].owes /\ TemplateEnds(c, "failed", owes)
      BY <1>0, <1>10, <2>3 DEF FailTemplates, TemplateCall
    <3>2. PICK call \in TemplateCall :
             /\ templateCall' = [templateCall EXCEPT ![c] = call]
             /\ call.step = "failed" /\ call.owes = owes
             /\ owes # NoTemplate => call.id = templateCall[c].id
      BY <1>0, <3>1, EndedCall DEF TemplateTypeOK
    <3>3. TemplateCallFits(c)'
      BY <1>0, <2>3, <3>2 DEF TemplateCallFits, TemplateTypeOK
    <3>4. QED
      BY <2>1, <3>1, <3>2, <3>3, TemplateCallMoves
  <2>4. QED
    BY <2>2, <2>3
<1>11. ASSUME NEW k \in Codes, ExpireTemplate(k)
       PROVE  TemplateInv'
  <2>1. /\ UNCHANGED <<template, templateCall>> /\ Existing' = Existing
        /\ templateEntry' = [templateEntry EXCEPT ![k] = NoTemplate]
    BY <1>11 DEF ExpireTemplate, Existing
  <2>2. TemplateTypeOK' /\ \A c \in TemplateCalls : TemplateCallFits(c)'
    BY <1>0, <2>1 DEF TemplateTypeOK, TemplateCallFits
  <2>3. \A j \in Codes : CopyExplained(j)'
    BY <1>0, <2>1 DEF TemplateInv, TemplateTypeOK, CopyExplained, CopyFresh
  <2>4. QED
    BY <1>0, <2>1, <2>2, <2>3 DEF TemplateInv, TemplateTypeOK
<1>12. CASE UNCHANGED templateVars
  BY <1>12 DEF templateVars, TemplateInv, TemplateTypeOK, TemplateCallFits, CopyExplained,
              CopyFresh, Existing
<1>13. QED
  BY <1>1, <1>2, <1>3, <1>4, <1>5, <1>6, <1>7, <1>8, <1>9, <1>10, <1>11, <1>12
     DEF TemplateNext, AdvanceTemplates
-----------------------------------------------------------------------------

\* The invariants of the three caches, and the one of the updates that no other
\* call overlaps.
CacheInv == SettingsInv /\ AloneInv /\ PreferenceInv /\ TemplateInv

\* However the calls on settings, preferences and templates interleave, every copy
\* in Redis keeps its invariant, with no bound on the calls.
\* (SystemSettingsService, NotificationService, NotificationTemplateService)
THEOREM CachesCorrect ==
    ASSUME Codes # {}
    PROVE  Spec => []CacheInv
<1>1. Init => CacheInv
  BY SettingsStart, PreferencesStart, TemplatesStart DEF Init, CacheInv
<1>2. CacheInv /\ [Next]_vars => CacheInv'
  BY CacheSteps, SettingsStep, AloneStep, PreferencesStep, TemplatesStep DEF CacheInv
<1>3. QED
  BY <1>1, <1>2, PTL DEF Spec

\* Whatever copy an earlier call has left, and however many calls there are, an
\* update that no other call overlaps answers with what it wrote.
\* (SystemSettingsService.upsertGroup)
THEOREM UpdatesAnswerThemselves ==
    ASSUME Codes # {}
    PROVE  Spec => []UpdateAnswersItself
<1>1. CacheInv => UpdateAnswersItself
  BY DEF CacheInv, AloneInv, AloneOf, Whole, UpdateAnswersItself
<1>2. QED
  BY <1>1, CachesCorrect, PTL

\* Copies of settings, preferences and templates are out of date only where a
\* race or a failure explains it: a write that ran its course has evicted the copy
\* of the code it had in hand; if that is not the row's code, another update has
\* given the row another one on the way.
THEOREM StaleCopiesExplained ==
    ASSUME Codes # {}
    PROVE  Spec => []StaleExplained
<1>1. CacheInv => StaleExplained
  BY DEF CacheInv, SettingsInv, PreferenceInv, TemplateInv, CopyExplained, StaleExplained,
     TemplateStaleExplained
<1>2. QED
  BY <1>1, CachesCorrect, PTL

-----------------------------------------------------------------------------
(* The steps of the catalogue and the export documents *)

LEMMA CatalogueSteps ==
    ASSUME [Next]_vars
    PROVE  [CatalogueNext]_catalogueVars /\ [ExportNext]_exportVars
<1>1. CASE UNCHANGED vars
  BY <1>1 DEF vars, catalogueVars, exportVars
<1>2. CASE Next
  <2> USE DEF In, catalogueVars, exportVars
  <2>1. CASE In("migrations") /\ MigrationNext
    BY <2>1
  <2>2. CASE In("settings") /\ SettingsNext
    BY <2>2
  <2>3. CASE In("preferences") /\ PreferenceNext
    BY <2>3
  <2>4. CASE In("templates") /\ TemplateNext
    BY <2>4
  <2>5. CASE In("statistics") /\ StatisticsNext
    BY <2>5
  <2>6. CASE In("exports") /\ ExportNext
    BY <2>6
  <2>7. CASE In("catalogue") /\ CatalogueNext
    BY <2>7
  <2>8. QED
    BY <1>2, <2>1, <2>2, <2>3, <2>4, <2>5, <2>6, <2>7 DEF Next
<1>3. QED
  BY <1>1, <1>2

-----------------------------------------------------------------------------
(* The catalogue *)

\* Two rows never have one code: the UNIQUE of product_type.code.
CodesDistinct ==
    \A i, j \in TypeIds :
        /\ i # j /\ productType[i] # NoType /\ productType[j] # NoType
        => productType[i].code # productType[j].code

\* What a call is about to write or publish has what it rests on.
WritesBacked ==
    \A c \in CatalogueCalls :
        LET call == catalogueCall[c]
        IN /\ call.step = "publish" => c \in record
           /\ call.op = "upload" /\ call.step = "write" => c \in object
           /\ call.step = "put" => call.op = "upload"
           /\ call.op \in {"updateType", "deactivateType"} /\ call.step = "write" =>
                  productType[call.id] # NoType

CatalogueInv ==
    CatalogueTypeOK /\ CodesDistinct /\ WritesBacked /\ RowsAndMessagesBacked

LEMMA CatalogueStart == CatalogueInit => CatalogueInv
<1> SUFFICES ASSUME CatalogueInit PROVE CatalogueInv
  OBVIOUS
<1>1. PICK first \in TypeIds, code \in TypeCodes :
         /\ first = CHOOSE i \in TypeIds : TRUE
         /\ code = CHOOSE k \in TypeCodes : TRUE
  BY CatalogueAssumption
<1>2. PICK known \in {{}, {first}} :
         productType = [i \in TypeIds |->
             IF i \in known THEN [code |-> code, name |-> NoType, active |-> TRUE]
             ELSE NoType]
  BY <1>1 DEF CatalogueInit
<1>3. productType \in [TypeIds -> TypeRow \cup {NoType}] /\ CodesDistinct
  BY <1>1, <1>2 DEF TypeRow, CodesDistinct
<1>4. catalogueCall = [c \in CatalogueCalls |->
         [op |-> "createType", step |-> "idle", id |-> first, code |-> code, seen |-> NoType]]
  BY <1>1 DEF CatalogueInit
<1>5. catalogueCall \in [CatalogueCalls -> CatalogueCall]
  BY <1>1, <1>4 DEF CatalogueCall, CatalogueOps
<1>6. QED
  BY <1>3, <1>4, <1>5 DEF CatalogueInit, CatalogueInv, CatalogueTypeOK, WritesBacked,
     RowsAndMessagesBacked

\* What TypesStayDeactivated says of a step.
TypesKept ==
    \A i \in TypeIds :
        /\ productType[i] # NoType =>
               productType'[i] # NoType /\ (productType'[i].active => productType[i].active)
        /\ productType'[i] # NoType =>
               \A j \in TypeIds \ {i} :
                   productType'[j] # NoType => productType'[j].code # productType'[i].code

\* A step that writes no type.
LEMMA SameTypes ==
    ASSUME CatalogueInv, UNCHANGED productType
    PROVE  CodesDistinct' /\ TypesKept
BY DEF CatalogueInv, CodesDistinct, TypesKept

\* A step of the call c that only moves the call.
LEMMA CallMoves ==
    ASSUME CatalogueInv, NEW c \in CatalogueCalls,
           NEW step \in {"find", "write", "publish", "put", "done", "failed"},
           catalogueCall' = [catalogueCall EXCEPT ![c].step = step]
    PROVE  /\ catalogueCall' \in [CatalogueCalls -> CatalogueCall]
           /\ catalogueCall'[c].step = step
           /\ catalogueCall'[c].op = catalogueCall[c].op
           /\ catalogueCall'[c].id = catalogueCall[c].id
           /\ \A d \in CatalogueCalls \ {c} : catalogueCall'[d] = catalogueCall[d]
BY DEF CatalogueInv, CatalogueTypeOK, CatalogueCall

\* A step of the call c that writes no type: what it may add, and what the call
\* must have for its next statement.
LEMMA CallWrites ==
    ASSUME CatalogueInv, NEW c \in CatalogueCalls,
           NEW step \in {"find", "write", "publish", "put", "done", "failed"},
           catalogueCall' = [catalogueCall EXCEPT ![c].step = step],
           UNCHANGED productType,
           lab' \in [accredited : BOOLEAN, since : BOOLEAN], lab'.since = lab'.accredited,
           record' \in {record, record \cup {c}},
           announced' \in {announced, announced \cup {c}},
           object' \in {object, object \cup {c}},
           documentRow' \in {documentRow, documentRow \cup {c}},
           announced' # announced => c \in record,
           documentRow' # documentRow => c \in object,
           step = "publish" => c \in record',
           step = "put" => catalogueCall[c].op = "upload",
           step = "write" => /\ catalogueCall[c].op \notin {"updateType", "deactivateType"}
                             /\ catalogueCall[c].op = "upload" => c \in object'
    PROVE  CatalogueInv' /\ TypesKept
<1>1. /\ catalogueCall' \in [CatalogueCalls -> CatalogueCall]
      /\ catalogueCall'[c].step = step
      /\ catalogueCall'[c].op = catalogueCall[c].op
      /\ \A d \in CatalogueCalls \ {c} : catalogueCall'[d] = catalogueCall[d]
  BY CallMoves
<1>2. CodesDistinct' /\ TypesKept
  BY SameTypes
<1>3. CatalogueTypeOK'
  BY <1>1 DEF CatalogueInv, CatalogueTypeOK
<1>4. RowsAndMessagesBacked'
  BY DEF CatalogueInv, RowsAndMessagesBacked
<1>5. WritesBacked'
  <2> SUFFICES ASSUME NEW d \in CatalogueCalls
               PROVE  /\ catalogueCall'[d].step = "publish" => d \in record'
                      /\ catalogueCall'[d].op = "upload" /\ catalogueCall'[d].step = "write"
                             => d \in object'
                      /\ catalogueCall'[d].step = "put" => catalogueCall'[d].op = "upload"
                      /\ /\ catalogueCall'[d].op \in {"updateType", "deactivateType"}
                         /\ catalogueCall'[d].step = "write"
                         => productType'[catalogueCall'[d].id] # NoType
    BY DEF WritesBacked
  <2>1. CASE d = c
    BY <1>1, <2>1
  <2>2. CASE d # c
    BY <1>1, <2>2 DEF CatalogueInv, WritesBacked
  <2>3. QED
    BY <2>1, <2>2
<1>6. QED
  BY <1>2, <1>3, <1>4, <1>5 DEF CatalogueInv

\* What FindType reads goes into the call.
LEMMA CallReads ==
    ASSUME NEW calls \in [CatalogueCalls -> CatalogueCall], NEW c \in CatalogueCalls,
           NEW row \in TypeRow \cup {NoType}, NEW step \in {"failed", "write"}
    PROVE  [calls EXCEPT ![c].seen = row, ![c].step = step] \in [CatalogueCalls -> CatalogueCall]
BY DEF CatalogueCall

LEMMA CatalogueStep ==
    ASSUME CatalogueInv, [CatalogueNext]_catalogueVars
    PROVE  CatalogueInv' /\ TypesKept
<1> USE DEF CatalogueTypeOK, WritesBacked, RowsAndMessagesBacked, CatalogueGoes, CatalogueAt,
            typeState, recordState, documentState
<1>1. ASSUME NEW c \in CatalogueCalls, StartCatalogue(c)
      PROVE  CatalogueInv' /\ TypesKept
  <2>1. PICK op \in CatalogueOps, i \in TypeIds, k \in TypeCodes :
           catalogueCall' = [catalogueCall EXCEPT ![c] =
               [op |-> op, id |-> i, code |-> k, seen |-> NoType,
                step |-> IF op \in {"createBatch", "logHarvest"} THEN "write" ELSE "find"]]
    BY <1>1 DEF StartCatalogue
  <2>2. PICK step \in {"find", "write"} :
           /\ catalogueCall' = [catalogueCall EXCEPT ![c] =
                  [op |-> op, id |-> i, code |-> k, seen |-> NoType, step |-> step]]
           /\ step = "write" => op \in {"createBatch", "logHarvest"}
    BY <2>1
  <2>3. UNCHANGED <<typeState, lab, recordState, documentState>>
    BY <1>1 DEF StartCatalogue
  <2>4. CatalogueTypeOK'
    BY <2>2, <2>3 DEF CatalogueInv, CatalogueCall
  <2>5. QED
    BY <2>2, <2>3, <2>4, SameTypes DEF CatalogueInv
<1>2. ASSUME NEW c \in CatalogueCalls, FailCatalogue(c)
      PROVE  CatalogueInv' /\ TypesKept
  BY <1>2, CallWrites DEF FailCatalogue, CatalogueInv
<1>3. ASSUME NEW c \in CatalogueCalls, FindType(c)
      PROVE  CatalogueInv' /\ TypesKept
  <2> DEFINE row == productType[catalogueCall[c].id]
  <2>1. PICK step \in {"failed", "write"} :
           /\ catalogueCall' = [catalogueCall EXCEPT ![c].seen = row, ![c].step = step]
           /\ step = "write" /\ catalogueCall[c].op \in {"updateType", "deactivateType"} =>
                  row # NoType
    BY <1>3 DEF FindType
  <2>2. /\ UNCHANGED <<typeState, lab, recordState, documentState>>
        /\ catalogueCall[c].op \in {"createType", "updateType", "deactivateType"}
    BY <1>3 DEF FindType
  <2>3. row \in TypeRow \cup {NoType}
    BY DEF CatalogueInv, CatalogueCall
  <2>4. CatalogueTypeOK'
    BY <2>1, <2>2, <2>3, CallReads DEF CatalogueInv
  <2>5. WritesBacked'
    BY <2>1, <2>2 DEF CatalogueInv, CatalogueCall
  <2>6. QED
    BY <2>2, <2>4, <2>5, SameTypes DEF CatalogueInv
<1>4. ASSUME NEW c \in CatalogueCalls, CreateType(c)
      PROVE  CatalogueInv' /\ TypesKept
  <2>1. CASE CodeTaken(catalogueCall[c].code, TypeIds)
    BY <1>4, <2>1, CallMoves, SameTypes DEF CreateType, CatalogueInv
  <2>2. CASE ~CodeTaken(catalogueCall[c].code, TypeIds)
    <3> DEFINE row == [code |-> catalogueCall[c].code, name |-> c, active |-> TRUE]
    <3>1. /\ productType[catalogueCall[c].id] = NoType
          /\ productType' = [productType EXCEPT ![catalogueCall[c].id] = row]
          /\ catalogueCall' = [catalogueCall EXCEPT ![c].step = "done"]
          /\ UNCHANGED <<lab, recordState, documentState>>
      BY <1>4, <2>2 DEF CreateType
    <3>2. catalogueCall[c].id \in TypeIds /\ row \in TypeRow
      BY DEF CatalogueInv, CatalogueCall, TypeRow
    <3>3. \A i \in TypeIds : productType[i] # NoType =>
              productType[i].code # row.code /\ productType'[i] = productType[i]
      BY <2>2, <3>1 DEF CodeTaken, CatalogueInv
    <3>4. CodesDistinct' /\ TypesKept
      BY <3>1, <3>2, <3>3 DEF CatalogueInv, CodesDistinct, TypesKept
    <3>5. CatalogueTypeOK'
      BY <3>1, <3>2, CallMoves DEF CatalogueInv
    <3>6. WritesBacked'
      BY <3>1, <3>2, <3>3, CatalogueAssumption, CallMoves DEF CatalogueInv
    <3>7. QED
      BY <3>1, <3>4, <3>5, <3>6 DEF CatalogueInv
  <2>3. QED
    BY <2>1, <2>2
<1>5. ASSUME NEW c \in CatalogueCalls, UpdateType(c)
      PROVE  CatalogueInv' /\ TypesKept
  <2> DEFINE i == catalogueCall[c].id
             k == catalogueCall[c].code
  <2>1. CASE CodeTaken(k, TypeIds \ {i})
    BY <1>5, <2>1, CallMoves, SameTypes DEF UpdateType, CatalogueInv
  <2>2. CASE ~CodeTaken(k, TypeIds \ {i})
    <3> DEFINE row == [productType[i] EXCEPT !.code = k, !.name = c]
    <3>1. /\ productType' = [productType EXCEPT ![i] = row]
          /\ catalogueCall' = [catalogueCall EXCEPT ![c].step = "done"]
          /\ UNCHANGED <<lab, recordState, documentState>>
          /\ productType[i] # NoType
      <4>1. catalogueCall[c].op = "updateType" /\ catalogueCall[c].step = "write"
        BY <1>5 DEF UpdateType
      <4>2. productType[i] # NoType
        BY <4>1 DEF CatalogueInv, WritesBacked
      <4>3. QED
        BY <1>5, <2>2, <4>2 DEF UpdateType
    <3>2. /\ i \in TypeIds /\ k \in TypeCodes /\ productType[i] \in TypeRow
      BY <3>1 DEF CatalogueInv, CatalogueCall
    <3>3. row \in TypeRow /\ row.code = k /\ row.active = productType[i].active
      BY <3>2 DEF TypeRow
    <3>4. \A j \in TypeIds \ {i} :
              /\ productType'[j] = productType[j]
              /\ productType[j] # NoType => productType[j].code # k
      BY <2>2, <3>1 DEF CodeTaken, CatalogueInv
    <3>5. productType'[i] = row /\ row # NoType
      BY <3>1, <3>2, <3>3, CatalogueAssumption DEF CatalogueInv
    <3>6. CodesDistinct' /\ TypesKept
      <4>1. CodesDistinct'
        <5> SUFFICES ASSUME NEW a \in TypeIds, NEW b \in TypeIds, a # b,
                            productType'[a] # NoType, productType'[b] # NoType
                     PROVE  productType'[a].code # productType'[b].code
          BY DEF CodesDistinct
        <5>1. CASE a = i
          <6>1. /\ productType'[a].code = k
                /\ productType'[b] = productType[b] /\ productType[b].code # k
            BY <3>3, <3>4, <3>5, <5>1
          <6>2. QED
            BY <6>1
        <5>2. CASE b = i
          BY <3>3, <3>4, <3>5, <5>2
        <5>3. CASE a # i /\ b # i
          <6>1. productType'[a] = productType[a] /\ productType'[b] = productType[b]
            BY <3>4, <5>3
          <6>2. QED
            BY <6>1 DEF CatalogueInv, CodesDistinct
        <5>4. QED
          BY <5>1, <5>2, <5>3
      <4>2. TypesKept
        BY <3>3, <3>4, <3>5, <4>1 DEF CodesDistinct, TypesKept
      <4>3. QED
        BY <4>1, <4>2
    <3>7. CatalogueTypeOK'
      BY <3>1, <3>2, <3>3, CallMoves DEF CatalogueInv
    <3>8. WritesBacked'
      BY <3>1, <3>2, <3>4, <3>5, CallMoves DEF CatalogueInv
    <3>9. QED
      BY <3>1, <3>6, <3>7, <3>8 DEF CatalogueInv
  <2>3. QED
    BY <2>1, <2>2
<1>6. ASSUME NEW c \in CatalogueCalls, DeactivateType(c)
      PROVE  CatalogueInv' /\ TypesKept
  <2> DEFINE i == catalogueCall[c].id
             row == [productType[i] EXCEPT !.active = FALSE]
  <2>1. /\ productType' = [productType EXCEPT ![i] = row]
        /\ catalogueCall' = [catalogueCall EXCEPT ![c].step = "done"]
        /\ UNCHANGED <<lab, recordState, documentState>>
        /\ productType[i] # NoType
    BY <1>6 DEF DeactivateType, CatalogueInv
  <2>2. i \in TypeIds /\ productType[i] \in TypeRow
    BY <2>1 DEF CatalogueInv, CatalogueCall
  <2>3. row \in TypeRow /\ row.code = productType[i].code /\ ~row.active
    BY <2>2 DEF TypeRow
  <2>4. productType'[i] = row /\ row # NoType
        /\ \A j \in TypeIds \ {i} : productType'[j] = productType[j]
    BY <2>1, <2>2, <2>3, CatalogueAssumption DEF CatalogueInv
  <2>5. CodesDistinct' /\ TypesKept
    BY <2>1, <2>2, <2>3, <2>4 DEF CatalogueInv, CodesDistinct, TypesKept
  <2>6. CatalogueTypeOK'
    BY <2>1, <2>2, <2>3, CallMoves DEF CatalogueInv
  <2>7. WritesBacked'
    BY <2>1, <2>2, <2>4, CallMoves DEF CatalogueInv
  <2>8. QED
    BY <2>1, <2>5, <2>6, <2>7 DEF CatalogueInv
<1>7. ASSUME NEW c \in CatalogueCalls, FindLab(c)
      PROVE  CatalogueInv' /\ TypesKept
  <2>1. PICK step \in {"failed", "write"} :
           catalogueCall' = [catalogueCall EXCEPT ![c].step = step]
    BY <1>7 DEF FindLab
  <2>2. /\ catalogueCall[c].op \in {"accredit", "revoke"}
        /\ UNCHANGED <<typeState, lab, recordState, documentState>>
    BY <1>7 DEF FindLab, CatalogueInv
  <2>3. QED
    BY <2>1, <2>2, CallWrites DEF CatalogueInv
<1>8. ASSUME NEW c \in CatalogueCalls, WriteLab(c)
      PROVE  CatalogueInv' /\ TypesKept
  <2>1. /\ catalogueCall' = [catalogueCall EXCEPT ![c].step = "done"]
        /\ UNCHANGED <<typeState, recordState, documentState>>
        /\ lab' \in [accredited : BOOLEAN, since : BOOLEAN] /\ lab'.since = lab'.accredited
    BY <1>8 DEF WriteLab
  <2>2. QED
    BY <2>1, CallWrites
<1>9. ASSUME NEW c \in CatalogueCalls, FindBatch(c)
      PROVE  CatalogueInv' /\ TypesKept
  <2>1. PICK step \in {"failed", "write"} :
           catalogueCall' = [catalogueCall EXCEPT ![c].step = step]
    BY <1>9 DEF FindBatch
  <2>2. /\ catalogueCall[c].op = "addStep"
        /\ UNCHANGED <<typeState, lab, recordState, documentState>>
    BY <1>9 DEF FindBatch, CatalogueInv
  <2>3. QED
    BY <2>1, <2>2, CallWrites DEF CatalogueInv
<1>10. ASSUME NEW c \in CatalogueCalls, InsertRecord(c)
       PROVE  CatalogueInv' /\ TypesKept
  <2>1. /\ catalogueCall' = [catalogueCall EXCEPT ![c].step = "publish"]
        /\ UNCHANGED <<typeState, lab, announced, documentState>>
        /\ record' = record \cup {c}
    BY <1>10 DEF InsertRecord
  <2>2. QED
    BY <2>1, CallWrites DEF CatalogueInv
<1>11. ASSUME NEW c \in CatalogueCalls, PublishRecord(c)
       PROVE  CatalogueInv' /\ TypesKept
  <2>1. /\ catalogueCall' = [catalogueCall EXCEPT ![c].step = "done"]
        /\ UNCHANGED <<typeState, lab, record, documentState>>
        /\ announced' \in {announced, announced \cup {c}} /\ c \in record
    BY <1>11 DEF PublishRecord, CatalogueInv
  <2>2. QED
    BY <2>1, CallWrites DEF CatalogueInv
<1>12. ASSUME NEW c \in CatalogueCalls, FindProduct(c)
       PROVE  CatalogueInv' /\ TypesKept
  <2>1. PICK step \in {"put", "failed"} :
           catalogueCall' = [catalogueCall EXCEPT ![c].step = step]
    BY <1>12 DEF FindProduct
  <2>2. /\ catalogueCall[c].op = "upload"
        /\ UNCHANGED <<typeState, lab, recordState, documentState>>
    BY <1>12 DEF FindProduct, CatalogueInv
  <2>3. QED
    BY <2>1, <2>2, CallWrites DEF CatalogueInv
<1>13. ASSUME NEW c \in CatalogueCalls, PutObject(c)
       PROVE  CatalogueInv' /\ TypesKept
  <2>1. /\ catalogueCall' = [catalogueCall EXCEPT ![c].step = "write"]
        /\ UNCHANGED <<typeState, lab, recordState, documentRow>>
        /\ object' = object \cup {c} /\ catalogueCall[c].op = "upload"
    BY <1>13 DEF PutObject, CatalogueInv
  <2>2. QED
    BY <2>1, CallWrites DEF CatalogueInv
<1>14. ASSUME NEW c \in CatalogueCalls, InsertDocument(c)
       PROVE  CatalogueInv' /\ TypesKept
  <2>1. /\ catalogueCall' = [catalogueCall EXCEPT ![c].step = "done"]
        /\ UNCHANGED <<typeState, lab, recordState, object>>
        /\ documentRow' = documentRow \cup {c} /\ c \in object
    BY <1>14 DEF InsertDocument, CatalogueInv
  <2>2. QED
    BY <2>1, CallWrites DEF CatalogueInv
<1>15. CASE UNCHANGED catalogueVars
  BY <1>15, SameTypes DEF catalogueVars, CatalogueInv
<1>16. QED
  BY <1>1, <1>2, <1>3, <1>4, <1>5, <1>6, <1>7, <1>8, <1>9, <1>10, <1>11, <1>12, <1>13,
     <1>14, <1>15 DEF CatalogueNext

\* What holds of the catalogue holds with the other components around it.
LEMMA CatalogueHolds == Spec => []CatalogueInv
<1>1. Init => CatalogueInv
  BY CatalogueStart DEF Init
<1>2. CatalogueInv /\ [Next]_vars => CatalogueInv'
  BY CatalogueSteps, CatalogueStep
<1>3. QED
  BY <1>1, <1>2, PTL DEF Spec

\* A document row has its object and a message its record, whatever fails half
\* way (upload, createBatch, logHarvest, addStep), for any number of calls.
THEOREM RowsHaveTheirObjects == Spec => []RowsAndMessagesBacked
<1>1. CatalogueInv => RowsAndMessagesBacked
  BY DEF CatalogueInv
<1>2. QED
  BY <1>1, CatalogueHolds, PTL

\* A deactivated product type stays so and codes stay unique, whichever updates
\* and deactivations overlap (ProductTypeService.update and deactivate).
THEOREM DeactivationStands == Spec => TypesStayDeactivated
<1>1. CatalogueInv /\ [Next]_vars => [TypesKept]_catalogueVars
  BY CatalogueSteps, CatalogueStep
<1>2. Spec => [][TypesKept]_catalogueVars
  BY <1>1, CatalogueHolds, PTL DEF Spec
<1>3. QED
  BY <1>2 DEF TypesStayDeactivated, TypesKept

-----------------------------------------------------------------------------
(* The export documents *)

\* What a call is about to write, it may write.
ExportInv ==
    /\ ExportTypeOK
    /\ \A c \in ExportCalls :
           LET call == exportCall[c]
           IN /\ call.op = "request" /\ call.step \in {"idle", "find", "insert"} =>
                     exportDoc[c] = "none"
              /\ call.step = "idle" => call.op = "request"
              /\ call.step = "insert" =>
                     call.op = "request" /\ (certificate = "GRANTED" \/ lost[c])
              /\ call.step = "update" => exportDoc[call.doc] # "none"
              /\ call.op = "validate" => exportDoc[c] = "none"

\* What ExportsFollowGrant says of a step.
GrantFollowed ==
    \A c \in ExportCalls : exportDoc'[c] # exportDoc[c] =>
        IF exportDoc[c] = "none"
        THEN exportDoc'[c] = "submitted" /\ (certificate = "GRANTED" \/ lost[c])
        ELSE exportDoc'[c] = "approved"

\* What the calls must have, and what a step may do to the documents.
CallReady(calls, docs, c) ==
    /\ calls[c].op = "request" /\ calls[c].step \in {"idle", "find", "insert"} =>
           docs[c] = "none"
    /\ calls[c].step = "idle" => calls[c].op = "request"
    /\ calls[c].step = "insert" =>
           calls[c].op = "request" /\ (certificate = "GRANTED" \/ lost[c])
    /\ calls[c].step = "update" => docs[calls[c].doc] # "none"
    /\ calls[c].op = "validate" => docs[c] = "none"

\* A step of the call c alone.
LEMMA OneExportCall ==
    ASSUME ExportInv, UNCHANGED <<certificate, lost>>, NEW c \in ExportCalls,
           exportCall' \in [ExportCalls -> ExportCall],
           \A d \in ExportCalls : d # c => exportCall'[d] = exportCall[d],
           exportDoc' \in [ExportCalls -> {"none", "submitted", "approved"}],
           \A d \in ExportCalls : d # c /\ exportDoc'[d] # exportDoc[d] =>
               exportDoc[d] # "none" /\ exportDoc'[d] = "approved",
           exportDoc'[c] # exportDoc[c] =>
               IF exportDoc[c] = "none"
               THEN exportDoc'[c] = "submitted" /\ (certificate = "GRANTED" \/ lost[c])
               ELSE exportDoc'[c] = "approved",
           CallReady(exportCall', exportDoc', c)
    PROVE  ExportInv' /\ GrantFollowed
<1>1. GrantFollowed
  BY DEF GrantFollowed
<1>2. ExportTypeOK'
  BY DEF ExportInv, ExportTypeOK
<1>3. ASSUME NEW d \in ExportCalls
      PROVE  CallReady(exportCall', exportDoc', d)
  <2>1. CASE d = c
    BY <2>1
  <2>2. CASE d # c
    <3>1. exportCall'[d] = exportCall[d] /\ exportCall[d].doc \in ExportCalls
      BY <2>2 DEF ExportInv, ExportTypeOK, ExportCall
    <3>2. CallReady(exportCall, exportDoc, d)
      BY DEF ExportInv, CallReady
    <3>3. exportDoc'[d] # exportDoc[d] => exportDoc[d] # "none"
      BY <2>2
    <3>4. \A e \in ExportCalls : exportDoc[e] # "none" => exportDoc'[e] # "none"
      OBVIOUS
    <3>5. QED
      BY <3>1, <3>2, <3>3, <3>4 DEF CallReady
  <2>3. QED
    BY <2>1, <2>2
<1>4. QED
  BY <1>2, <1>1, <1>3 DEF ExportInv, CallReady

\* What the EXCEPTs of the actions leave of a call.
LEMMA MovedCall ==
    ASSUME NEW calls \in [ExportCalls -> ExportCall], NEW c \in ExportCalls,
           NEW step \in {"find", "insert", "update", "done", "failed"},
           NEW next, next = [calls EXCEPT ![c].step = step]
    PROVE  /\ next \in [ExportCalls -> ExportCall]
           /\ \A d \in ExportCalls : d # c => next[d] = calls[d]
           /\ next[c].op = calls[c].op /\ next[c].doc = calls[c].doc /\ next[c].step = step
BY DEF ExportCall

LEMMA StartedCall ==
    ASSUME exportCall \in [ExportCalls -> ExportCall], NEW c \in ExportCalls, StartExport(c)
    PROVE  /\ exportCall' \in [ExportCalls -> ExportCall]
           /\ \A d \in ExportCalls : d # c => exportCall'[d] = exportCall[d]
           /\ exportCall'[c].op \in {"request", "validate"} /\ exportCall'[c].step = "find"
<1>1. PICK op \in {"request", "validate"}, d \in ExportCalls :
         exportCall' = [exportCall EXCEPT ![c] = [op |-> op, doc |-> d, step |-> "find"]]
  BY DEF StartExport
<1>2. [op |-> op, doc |-> d, step |-> "find"] \in ExportCall
  BY DEF ExportCall
<1>3. QED
  BY <1>1, <1>2

LEMMA ExportStep ==
    ASSUME ExportInv, [ExportNext]_exportVars
    PROVE  ExportInv' /\ GrantFollowed
<1> USE DEF ExportTypeOK, ExportGoes
<1>1. CASE CertificateMoves
  <2>1. certificate' \in Statuses
    <3>1. Transitions \subseteq Statuses \X Statuses
      <4>1. \A op \in Ops : From(op) \in Statuses /\ To(op) \in Statuses
        BY DEF Ops, From, To, Edge, Statuses
      <4>2. QED
        BY <4>1 DEF Transitions
    <3>2. QED
      BY <1>1, <3>1 DEF CertificateMoves, Statuses
  <2>2. /\ lost' = [c \in ExportCalls |->
              lost[c] \/ (certificate = "GRANTED" /\ exportCall[c].step = "insert")]
        /\ UNCHANGED <<exportDoc, exportCall>>
    BY <1>1 DEF CertificateMoves
  <2>3. lost' \in [ExportCalls -> BOOLEAN]
    BY <2>2
  <2>4. QED
    BY <2>1, <2>2, <2>3 DEF ExportInv, GrantFollowed
<1>2. exportCall \in [ExportCalls -> ExportCall]
  BY DEF ExportInv
<1>3. ASSUME NEW c \in ExportCalls
      PROVE  /\ exportCall[c].op \in {"request", "validate"}
             /\ exportCall[c].doc \in ExportCalls
             /\ CallReady(exportCall, exportDoc, c)
  BY DEF ExportInv, ExportCall, CallReady
<1>4. ASSUME NEW c \in ExportCalls, StartExport(c)
      PROVE  ExportInv' /\ GrantFollowed
  <2>1. /\ UNCHANGED <<certificate, exportDoc, lost>> /\ exportDoc[c] = "none"
    BY <1>4, <1>3 DEF StartExport, CallReady
  <2>2. /\ exportCall' \in [ExportCalls -> ExportCall]
        /\ \A d \in ExportCalls : d # c => exportCall'[d] = exportCall[d]
        /\ exportCall'[c].op \in {"request", "validate"} /\ exportCall'[c].step = "find"
    BY <1>2, <1>4, StartedCall
  <2>3. CallReady(exportCall', exportDoc', c)
    BY <2>1, <2>2 DEF CallReady
  <2>4. exportDoc' \in [ExportCalls -> {"none", "submitted", "approved"}]
    BY <2>1 DEF ExportInv
  <2>5. QED
    BY <2>1, <2>2, <2>3, <2>4, OneExportCall
<1>5. ASSUME NEW c \in ExportCalls, NEW step \in {"insert", "update", "done", "failed"},
             exportCall' = [exportCall EXCEPT ![c].step = step],
             UNCHANGED <<certificate, exportDoc, lost>>,
             step = "insert" => exportCall[c].op = "request" /\ certificate = "GRANTED",
             step = "insert" => exportCall[c].step = "find",
             step = "update" => exportDoc[exportCall[c].doc] # "none"
      PROVE  ExportInv' /\ GrantFollowed
  <2>1. /\ exportCall' \in [ExportCalls -> ExportCall]
        /\ \A d \in ExportCalls : d # c => exportCall'[d] = exportCall[d]
        /\ exportCall'[c].op = exportCall[c].op /\ exportCall'[c].doc = exportCall[c].doc
        /\ exportCall'[c].step = step
    BY <1>2, <1>5, MovedCall
  <2>2. CallReady(exportCall', exportDoc', c)
    BY <1>3, <1>5, <2>1 DEF CallReady, ExportInv
  <2>3. QED
    <3>1. exportDoc' \in [ExportCalls -> {"none", "submitted", "approved"}]
      BY <1>5 DEF ExportInv
    <3>2. QED
      BY <1>5, <2>1, <2>2, <3>1, OneExportCall
<1>6. ASSUME NEW c \in ExportCalls, FindGranted(c)
      PROVE  ExportInv' /\ GrantFollowed
  <2>1. CASE certificate = "GRANTED"
    BY <1>5, <1>6, <2>1 DEF FindGranted
  <2>2. CASE certificate # "GRANTED"
    BY <1>5, <1>6, <2>2 DEF FindGranted
  <2>3. QED
    BY <2>1, <2>2
<1>7. ASSUME NEW c \in ExportCalls, InsertExport(c)
      PROVE  ExportInv' /\ GrantFollowed
  <2>1. /\ exportDoc' = [exportDoc EXCEPT ![c] = "submitted"]
        /\ exportDoc[c] = "none" /\ (certificate = "GRANTED" \/ lost[c])
        /\ exportCall[c].op = "request"
        /\ UNCHANGED <<certificate, lost>>
    BY <1>3, <1>7 DEF InsertExport, CallReady
  <2>2. /\ exportCall' \in [ExportCalls -> ExportCall]
        /\ \A d \in ExportCalls : d # c => exportCall'[d] = exportCall[d]
        /\ exportCall'[c].op = exportCall[c].op /\ exportCall'[c].doc = exportCall[c].doc
        /\ exportCall'[c].step = "done"
    BY <1>2, <1>7, MovedCall DEF InsertExport
  <2>3. CallReady(exportCall', exportDoc', c)
    BY <2>1, <2>2 DEF CallReady, ExportInv
  <2>4. QED
    <3>1. exportDoc' \in [ExportCalls -> {"none", "submitted", "approved"}]
      BY <2>1 DEF ExportInv
    <3>2. \A d \in ExportCalls : d # c => exportDoc'[d] = exportDoc[d]
      BY <2>1 DEF ExportInv
    <3>3. exportDoc'[c] = "submitted"
      BY <2>1 DEF ExportInv
    <3>4. QED
      BY <2>1, <2>2, <2>3, <3>1, <3>2, <3>3, OneExportCall
<1>8. ASSUME NEW c \in ExportCalls, FindExport(c)
      PROVE  ExportInv' /\ GrantFollowed
  <2>1. CASE exportDoc[exportCall[c].doc] = "none"
    BY <1>5, <1>8, <2>1 DEF FindExport
  <2>2. CASE exportDoc[exportCall[c].doc] # "none"
    BY <1>5, <1>8, <2>2 DEF FindExport
  <2>3. QED
    BY <2>1, <2>2
<1>9. ASSUME NEW c \in ExportCalls, ApproveExport(c)
      PROVE  ExportInv' /\ GrantFollowed
  <2>1. /\ exportDoc' = [exportDoc EXCEPT ![exportCall[c].doc] = "approved"]
        /\ exportDoc[exportCall[c].doc] # "none" /\ exportCall[c].doc \in ExportCalls
        /\ UNCHANGED <<certificate, lost>>
    BY <1>3, <1>9 DEF ApproveExport, CallReady
  <2>2. /\ exportCall' \in [ExportCalls -> ExportCall]
        /\ \A d \in ExportCalls : d # c => exportCall'[d] = exportCall[d]
        /\ exportCall'[c].op = exportCall[c].op /\ exportCall'[c].doc = exportCall[c].doc
        /\ exportCall'[c].step = "done"
    BY <1>2, <1>9, MovedCall DEF ApproveExport
  <2>3. \A d \in ExportCalls : exportDoc'[d] # exportDoc[d] =>
            exportDoc[d] # "none" /\ exportDoc'[d] = "approved"
    BY <2>1 DEF ExportInv
  <2>4. CallReady(exportCall', exportDoc', c)
    BY <1>3, <2>2, <2>3 DEF CallReady, ExportInv
  <2>5. exportDoc' \in [ExportCalls -> {"none", "submitted", "approved"}]
    BY <2>1 DEF ExportInv
  <2>6. QED
    BY <2>1, <2>2, <2>3, <2>4, <2>5, OneExportCall
<1>10. ASSUME NEW c \in ExportCalls, FailExport(c)
       PROVE  ExportInv' /\ GrantFollowed
  BY <1>5, <1>10 DEF FailExport
<1>11. CASE UNCHANGED exportVars
  BY <1>11 DEF exportVars, ExportInv, GrantFollowed
<1>12. QED
  BY <1>1, <1>4, <1>6, <1>7, <1>8, <1>9, <1>10, <1>11 DEF ExportNext

LEMMA ExportStart == Init => ExportInv
BY DEF Init, ExportInit, ExportInv, ExportTypeOK, ExportCall, Statuses

\* Documents come into being under a grant, or by a call during which it went,
\* and only then are approved (requestExportDocument, validateDocument).
THEOREM DocumentsFollowTheGrant == Spec => ExportsFollowGrant
<1>1. ExportInv /\ [Next]_vars => ExportInv' /\ [GrantFollowed]_exportVars
  BY CatalogueSteps, ExportStep
<1>2. Spec => [][GrantFollowed]_exportVars
  BY <1>1, ExportStart, PTL DEF Spec
<1>3. QED
  BY <1>2 DEF ExportsFollowGrant, GrantFollowed

-----------------------------------------------------------------------------
(* The types of all the components *)

\* Which component runs, and the types of those that nothing above is about.
RestInv ==
    /\ focus \in Components
    /\ MigrationTypeOK
    /\ StatisticsTypeOK

LEMMA RestSteps ==
    ASSUME [Next]_vars
    PROVE  UNCHANGED focus /\ [MigrationNext]_migrationVars /\ [StatisticsNext]_statisticsVars
<1>1. CASE UNCHANGED vars
  BY <1>1 DEF vars, migrationVars, statisticsVars
<1>2. CASE Next
  <2> USE DEF In, migrationVars, statisticsVars
  <2>1. CASE In("migrations") /\ MigrationNext
    BY <2>1
  <2>2. CASE In("settings") /\ SettingsNext
    BY <2>2
  <2>3. CASE In("preferences") /\ PreferenceNext
    BY <2>3
  <2>4. CASE In("templates") /\ TemplateNext
    BY <2>4
  <2>5. CASE In("statistics") /\ StatisticsNext
    BY <2>5
  <2>6. CASE In("exports") /\ ExportNext
    BY <2>6
  <2>7. CASE In("catalogue") /\ CatalogueNext
    BY <2>7
  <2>8. QED
    BY <1>2, <2>1, <2>2, <2>3, <2>4, <2>5, <2>6, <2>7 DEF Next
<1>3. QED
  BY <1>1, <1>2

LEMMA Numbers ==
    ASSUME NEW a \in 0..Last
    PROVE  /\ a # 0 => a - 1 \in 0..Last
           /\ \A n \in 1..Last : n \in 0..Last
BY DEF Last

\* No command leaves the 17 migrations, whether it fails or not.
LEMMA MigrationTypes ==
    ASSUME MigrationTypeOK, [MigrationNext]_migrationVars
    PROVE  MigrationTypeOK'
<1> USE DEF MigrationTypeOK, Commands
<1>1. ASSUME NEW n \in 1..Last, Run(n)
      PROVE  MigrationTypeOK'
  <2>1. /\ applied' = n \/ applied' = applied
        /\ residue' = {} \/ residue' = residue
        /\ offending' = offending
    BY <1>1 DEF Run
  <2>2. command' \in Commands
    BY <1>1 DEF Run
  <2>3. applied' \in 0..Last
    BY <1>1, <2>1, Numbers
  <2>4. residue' \subseteq Drifted
    BY <2>1
  <2>5. offending' \subseteq Rows
    BY <2>1
  <2>6. QED
    BY <2>2, <2>3, <2>4, <2>5
<1>2. CASE Revert
  <2>1. \/ UNCHANGED <<applied, offending, residue>>
        \/ /\ applied # 0 /\ applied' = applied - 1
           /\ offending' \subseteq offending
           /\ residue' \subseteq Drifted \cup residue
    BY <1>2 DEF Revert
  <2>2. command' \in Commands
    BY <1>2 DEF Revert
  <2>3. applied' \in 0..Last
    BY <2>1, Numbers
  <2>4. residue' \subseteq Drifted
    BY <2>1
  <2>5. offending' \subseteq Rows
    BY <2>1
  <2>6. QED
    BY <2>2, <2>3, <2>4, <2>5
<1>3. ASSUME NEW r \in Rows, RowsChange(r)
      PROVE  MigrationTypeOK'
  BY <1>3 DEF RowsChange
<1>4. CASE UNCHANGED migrationVars
  BY <1>4 DEF migrationVars
<1>5. QED
  BY <1>1, <1>2, <1>3, <1>4 DEF MigrationNext

LEMMA StatisticsTypes ==
    ASSUME StatisticsTypeOK, [StatisticsNext]_statisticsVars
    PROVE  StatisticsTypeOK'
<1> USE StatisticsAssumption DEF StatisticsTypeOK
<1>1. CASE TablesChange
  BY <1>1 DEF TablesChange
<1>2. ASSUME NEW c \in StatisticsCalls, LookUpFigures(c)
      PROVE  StatisticsTypeOK'
  BY <1>2 DEF LookUpFigures, StatisticsCall, Answers, NoAnswers
<1>3. ASSUME NEW c \in StatisticsCalls, NEW q \in Queries, Count(c, q)
      PROVE  StatisticsTypeOK'
  <2> DEFINE seen == [statisticsCall[c].seen EXCEPT ![q] = changes]
  <2>1. seen \in Answers
    BY DEF StatisticsCall, Answers
  <2>2. PICK step \in {"idle", "count", "store"} :
           statisticsCall' = [statisticsCall EXCEPT ![c].seen = seen, ![c].step = step]
    BY <1>3 DEF Count, StatisticsCall
  <2> HIDE DEF seen
  <2>3. statisticsCall' \in [StatisticsCalls -> StatisticsCall]
    BY <2>1, <2>2 DEF StatisticsCall
  <2>4. QED
    BY <1>3, <2>3 DEF Count
<1>4. ASSUME NEW c \in StatisticsCalls, StoreFigures(c)
      PROVE  StatisticsTypeOK'
  BY <1>4 DEF StoreFigures, StatisticsCall, Figures
<1>5. ASSUME NEW c \in StatisticsCalls, FailStatistics(c)
      PROVE  StatisticsTypeOK'
  BY <1>5 DEF FailStatistics, StatisticsCall
<1>6. CASE ExpireFigures
  BY <1>6 DEF ExpireFigures
<1>7. CASE UNCHANGED statisticsVars
  BY <1>7 DEF statisticsVars
<1>8. QED
  BY <1>1, <1>2, <1>3, <1>4, <1>5, <1>6, <1>7 DEF StatisticsNext, AdvanceStatistics

\* Every component's state keeps its type, whichever of them takes the step.
THEOREM OperationTypes ==
    ASSUME Codes # {}
    PROVE  Spec => []TypeOK
<1>1. Init => RestInv
  BY StatisticsAssumption DEF Init, RestInv, MigrationInit, MigrationTypeOK, Commands, Last,
     StatisticsInit, StatisticsTypeOK, StatisticsCall, Answers, NoAnswers
<1>2. RestInv /\ [Next]_vars => RestInv'
  BY RestSteps, MigrationTypes, StatisticsTypes DEF RestInv
<1>3. ExportInv /\ [Next]_vars => ExportInv'
  BY CatalogueSteps, ExportStep
<1>4. RestInv /\ CacheInv /\ ExportInv /\ CatalogueInv => TypeOK
  BY DEF RestInv, CacheInv, SettingsInv, PreferenceInv, TemplateInv, ExportInv, CatalogueInv,
     TypeOK
<1>5. Spec => []CacheInv
  BY CachesCorrect
<1>6. QED
  BY <1>1, <1>2, <1>3, <1>4, <1>5, ExportStart, CatalogueHolds, PTL DEF Spec
=============================================================================
