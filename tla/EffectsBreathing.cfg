CONSTANTS
    solar = solar
    aurora = aurora
    breathing = breathing
    day = day
    sky = sky
    ember = ember
    warm = warm
    red = red
    Bulb = {b1}
    Effect = {breathing}
    NoEffect = none
    Colour = {ember, warm}
    NoColour = none
    White = {warm}
    Warm = warm
    Manual = {}
    FrameOf <- OnceFrame
    Once = {breathing}
    MaxInput = 0
    Faults = {"restore"}
    MaxTrouble = 1
    MaxEvents = 1
SPECIFICATION MCSpec
PROPERTIES ColourIsReclaimed
CHECK_DEADLOCK FALSE
