SPECIFICATION DataSpec
CONSTANTS
    Days <- DaysAsked
    DefaultDays = 7
    MaxDays = 16
    Codes = {4, 45}
    wmoDescriptions = {0, 45}
    MaxLength = 2
    PreviewBytes = {0, 1, 2, 3, 5}
    DefaultPreviewBytes = 6
    MaxText = 4
INVARIANTS
    ForecastIsUpstreams
    PreviewIsLongestPrefix
CHECK_DEADLOCK FALSE
