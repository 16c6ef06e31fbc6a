SPECIFICATION FairSpec
CONSTANTS
    MaxCommands = 2
PROPERTIES OffSilences
