SPECIFICATION Spec
CONSTANTS
    Configs <- AllConfigs
    Speeds = {100000, 1000000, 6000000, 12000000, 16000000, 20000000, 24000000, 50000000}
INVARIANT ClocksAsDocumented
PROPERTY HandlersReady
