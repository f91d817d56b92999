\* what must happen with a widget that works
SPECIFICATION FairSpec
CONSTANTS
    DMX_CHANNELS = 2
    Inputs <- LiveInputs
    Handlers <- LiveHandlers
    InputThread <- LiveThread
    Levels <- LiveLevels
    Programs <- TwoPrograms
    NetChannels <- NoChannels
    NoChannel <- BadChannel
    NetLevels <- DirectLevels
    ConvertColor <- MCConvertColor
    NoInput = NoInput
    Blank = Blank
    WidgetFails = FALSE
PROPERTIES
    BlackoutReachesStage
    InputHandled
