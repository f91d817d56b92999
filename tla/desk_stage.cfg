\* faders, masters and a lost widget
SPECIFICATION Spec
CONSTANTS
    DMX_CHANNELS = 4
    Inputs <- StageInputs
    Handlers <- StageHandlers
    InputThread <- StageThread
    Levels <- StageLevels
    Programs <- NoPrograms
    NetChannels <- AnyChannels
    NoChannel <- BadChannel
    NetLevels <- DirectLevels
    ConvertColor <- MCConvertColor
    NoInput = NoInput
    Blank = Blank
    WidgetFails = TRUE
INVARIANTS
    TypeOK
    StageUpToDate
    DarkInBlackout
    LedFollowsFaders
    MasterFollowsFader
PROPERTIES
    ImplementsStage
    ImplementsLink
CHECK_DEADLOCK FALSE
