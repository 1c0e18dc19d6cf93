SPECIFICATION FairSpec
CONSTANTS
    c1 = c1
    c2 = c2
    c3 = c3
    k1 = k1
    k2 = k2
    none = none
    SettingsCalls <- MCCalls
    SettingKeys <- MCSettingKeys
    NoSettings = none
    PreferenceCalls <- MCThree
    NoPreferences = none
    TemplateIds = {1}
    Codes <- MCKeys
    Files <- MCFiles
    TemplateCalls <- MCThree
    TemplateWrites <- MCCalls
    NoTemplate = none
    StatisticsCalls <- MCThree
    Queries <- MCIds
    MaxChanges = 2
    NoFigures = none
    ExportCalls <- MCThree
    TypeIds <- MCIds
    TypeCodes <- MCKeys
    CatalogueCalls <- MCCalls
    NoType = none
INVARIANTS
    TypeOK EntitiesFit SchemaIsBuilt FailuresExplained
    UpdateAnswersItself StaleExplained RowsAndMessagesBacked
PROPERTIES
    ExportsFollowGrant TypesStayDeactivated CachesSettle
CHECK_DEADLOCK FALSE
