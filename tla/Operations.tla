------------------------------- MODULE Operations -------------------------------
(***************************************************************************)
(* What runs beside the certification chain and its events: the migrations *)
(* of the schema, the settings, preferences, templates and figures that    *)
(* Redis keeps copies of, the export documents and the catalogue.  They    *)
(* share no state, so a behaviour is one of one component: focus says      *)
(* which, and the others stay as they start.                               *)
(***************************************************************************)
EXTENDS SchemaMigrations, SystemSettings, Preferences, NotificationTemplates,
        Statistics, ExportDocuments, Catalogue

VARIABLE focus

Components == {"migrations", "settings", "preferences", "templates", "statistics",
               "exports", "catalogue"}

vars == <<migrationVars, settingsVars, preferenceVars, templateVars, statisticsVars,
          exportVars, catalogueVars, focus>>

Init ==
    /\ focus \in Components
    /\ MigrationInit /\ SettingsInit /\ PreferenceInit /\ TemplateInit
    /\ StatisticsInit /\ ExportInit /\ CatalogueInit

\* The step is one of the component c.
In(c) ==
    /\ focus = c /\ UNCHANGED focus
    /\ c # "migrations" => UNCHANGED migrationVars
    /\ c # "settings" => UNCHANGED settingsVars
    /\ c # "preferences" => UNCHANGED preferenceVars
    /\ c # "templates" => UNCHANGED templateVars
    /\ c # "statistics" => UNCHANGED statisticsVars
    /\ c # "exports" => UNCHANGED exportVars
    /\ c # "catalogue" => UNCHANGED catalogueVars

Next ==
    \/ In("migrations") /\ MigrationNext
    \/ In("settings") /\ SettingsNext
    \/ In("preferences") /\ PreferenceNext
    \/ In("templates") /\ TemplateNext
    \/ In("statistics") /\ StatisticsNext
    \/ In("exports") /\ ExportNext
    \/ In("catalogue") /\ CatalogueNext

Spec == Init /\ [][Next]_vars

Fairness ==
    SettingsFairness /\ PreferenceFairness /\ TemplateFairness /\ StatisticsFairness

FairSpec == Spec /\ Fairness

-----------------------------------------------------------------------------
(* Properties *)

\* Type invariant of all the components.
TypeOK ==
    /\ focus \in Components
    /\ MigrationTypeOK /\ SettingsTypeOK /\ PreferenceTypeOK /\ TemplateTypeOK
    /\ StatisticsTypeOK /\ ExportTypeOK /\ CatalogueTypeOK

\* A copy in Redis is out of date only where a race or a failure explains it:
\* the eviction of each write (upsertGroup, upsertPreferences, update and
\* deactivate of templates) leaves no other way.  A race is also a template's
\* change of code between the SELECT and the UPDATE of another update's save.
StaleExplained ==
    SettingsStaleExplained /\ PreferenceStaleExplained /\ TemplateStaleExplained

\* Once writing ends, the copies end up and stay as the rows are, whatever was
\* raced, failed or never evicted: all of them expire (cacheManager.set).
CachesSettle == <>[](SettingsFresh /\ PreferenceFresh /\ TemplateFresh /\ FiguresFresh)
=============================================================================
