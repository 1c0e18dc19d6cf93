------------------------------ MODULE Preferences ------------------------------
(***************************************************************************)
(* The notification preferences of one user: the row, the copy in Redis,   *)
(* getPreferences (which every send begins with) and upsertPreferences.    *)
(* The row is written in one statement; the answer of an upsert is its     *)
(* own DTO, whatever the copy says.                                        *)
(***************************************************************************)

CONSTANTS
    PreferenceCalls,  \* the calls in flight at one time, each for one upsert
    NoPreferences     \* the copy is not in Redis

VARIABLES
    preference,       \* the call that wrote the row, or the default without one
    preferenceEntry,  \* the copy
    preferenceCall    \* per call: op, step and the preferences it has read

preferenceVars == <<preference, preferenceEntry, preferenceCall>>

\* { channels: ['email'], language: 'fr' }
DefaultPreferences == "default"

PreferenceValues == PreferenceCalls \cup {DefaultPreferences}

\* raced is history: the copy was out of date the moment it was stored.
PreferenceEntry == [value : PreferenceValues, expires : BOOLEAN, raced : BOOLEAN]

PreferenceCall ==
    [op : {"get", "upsert"},
     step : {"idle", "upsert", "evict", "lookup", "read", "store", "done", "failed"},
     seen : PreferenceValues]

PreferenceInit ==
    /\ preference = DefaultPreferences
    /\ preferenceEntry = NoPreferences
    /\ preferenceCall = [c \in PreferenceCalls |->
           [op |-> "get", step |-> "idle", seen |-> DefaultPreferences]]

PreferenceStep(c, from, to) ==
    /\ preferenceCall[c].step = from
    /\ preferenceCall' = [preferenceCall EXCEPT ![c].step = to]

StartPreferences(c) ==
    /\ preferenceCall[c].step = "idle"
    /\ \E op \in {"get", "upsert"} :
           preferenceCall' = [preferenceCall EXCEPT ![c].op = op,
               ![c].step = IF op = "get" THEN "lookup" ELSE "upsert"]
    /\ UNCHANGED <<preference, preferenceEntry>>

UpsertPreferences(c) ==
    /\ PreferenceStep(c, "upsert", "evict")
    /\ preference' = c
    /\ UNCHANGED preferenceEntry

\* Mutant: the copy stays.
EvictPreferences_Forgotten(c) ==
    /\ PreferenceStep(c, "evict", "done")
    /\ UNCHANGED <<preference, preferenceEntry>>

EvictPreferences(c) ==
    /\ PreferenceStep(c, "evict", "done")
    /\ preferenceEntry' = NoPreferences
    /\ UNCHANGED preference

LookUpPreferences(c) ==
    /\ PreferenceStep(c, "lookup", IF preferenceEntry = NoPreferences THEN "read" ELSE "idle")
    /\ UNCHANGED <<preference, preferenceEntry>>

ReadPreferences(c) ==
    /\ preferenceCall[c].step = "read"
    /\ preferenceCall' = [preferenceCall EXCEPT ![c].step = "store", ![c].seen = preference]
    /\ UNCHANGED <<preference, preferenceEntry>>

StorePreferences(c) ==
    /\ PreferenceStep(c, "store", "idle")
    /\ preferenceEntry' = [value |-> preferenceCall[c].seen, expires |-> TRUE,
                           raced |-> preferenceCall[c].seen # preference]
    /\ UNCHANGED preference

FailPreferences(c) ==
    /\ preferenceCall[c].step \notin {"idle", "done", "failed"}
    /\ preferenceCall' = [preferenceCall EXCEPT ![c].step = "failed"]
    /\ UNCHANGED <<preference, preferenceEntry>>

ExpirePreferences ==
    /\ preferenceEntry # NoPreferences /\ preferenceEntry.expires
    /\ preferenceEntry' = NoPreferences
    /\ UNCHANGED <<preference, preferenceCall>>

AdvancePreferences(c) ==
    \/ UpsertPreferences(c) \/ EvictPreferences(c) \/ LookUpPreferences(c)
    \/ ReadPreferences(c) \/ StorePreferences(c)

PreferenceNext ==
    \/ \E c \in PreferenceCalls :
           StartPreferences(c) \/ AdvancePreferences(c) \/ FailPreferences(c)
    \/ ExpirePreferences

PreferenceFairness ==
    /\ \A c \in PreferenceCalls : WF_preferenceVars(AdvancePreferences(c))
    /\ WF_preferenceVars(ExpirePreferences)

-----------------------------------------------------------------------------

\* Type invariant.
PreferenceTypeOK ==
    /\ preference \in PreferenceValues
    /\ preferenceEntry \in PreferenceEntry \cup {NoPreferences}
    /\ preferenceCall \in [PreferenceCalls -> PreferenceCall]

\* The copy a send believes differs from the row only if it was read before an
\* upsert and stored after it, or until the upsert has evicted it, or if that
\* failed.
PreferenceStaleExplained ==
    preferenceEntry # NoPreferences /\ preferenceEntry.value # preference =>
        \/ preferenceEntry.raced
        \/ \E c \in PreferenceCalls :
               preferenceCall[c].op = "upsert" /\ preferenceCall[c].step \in {"evict", "failed"}

\* No copy, or one that is as the row is.
PreferenceFresh == preferenceEntry = NoPreferences \/ preferenceEntry.value = preference
=============================================================================
