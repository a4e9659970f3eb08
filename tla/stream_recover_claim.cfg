SPECIFICATION Spec
CONSTANTS
    MaxEvents = 2
    MaxHidden = 2
PROPERTIES
    StartedResponseLeftAlone
CHECK_DEADLOCK FALSE
