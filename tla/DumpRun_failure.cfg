\* One message whose write fails, and Ctrl-C.
SPECIFICATION Spec
CONSTANTS
    Messages = {m1}
    Ordered = TRUE
    JSON = FALSE
PROPERTIES
    FailureReturned
