CONSTANTS
    Single <- OneChannel
    Several <- ManyChannels
    Faults <- AllFaults
SPECIFICATION Spec
PROPERTIES
    TasksAreDone
    ImplementsRunControl
