\* One message whose callback is still running when the report is built.
SPECIFICATION Spec
CONSTANTS
    Messages = {m1}
    Settings <- EndlessOnly
    ResetAfter = 0
    MaxTime <- NoClock
PROPERTIES
    ReadAfterRecording
