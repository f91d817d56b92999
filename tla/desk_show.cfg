\* programs and the inputs that steer them
SPECIFICATION Spec
CONSTANTS
    DMX_CHANNELS = 4
    Inputs <- ShowInputs
    Handlers <- ShowHandlers
    InputThread <- ShowThread
    Levels <- ShowLevels
    Programs <- TwoPrograms
    NetChannels <- NoChannels
    NoChannel <- BadChannel
    NetLevels <- DirectLevels
    ConvertColor <- MCConvertColor
    NoInput = NoInput
    Blank = Blank
    WidgetFails = FALSE
INVARIANTS
    StageUpToDate
    RowInProgram
