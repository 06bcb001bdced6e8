SPECIFICATION Spec
CONSTANTS
    Word = 3
    MaxDelay = 2
    Buttons = {b1}
    Leds = {l1}
    OpenDrain = odr
    SampleDelay = 2
    BounceTime = 1
INVARIANTS
    EdgesComplete
    LedsAsAsked
PROPERTIES
    FlipIsReal
    HeldIsSeen
