CONSTANTS
    solar = solar
    aurora = aurora
    breathing = breathing
    day = day
    sky = sky
    ember = ember
    warm = warm
    red = red
    Bulb = {b1}
    Effect = {solar, aurora}
    NoEffect = none
    Colour = {day, sky, warm, red}
    NoColour = none
    White = {day, warm}
    Warm = warm
    Manual = {warm, red}
    FrameOf <- ModeFrames
    Once = {}
    MaxInput = 2
    Faults = {"send", "power", "restore", "link", "restart"}
    MaxTrouble = 2
    MaxEvents = 2
SPECIFICATION MCSpec
INVARIANTS TypeOK WithinOneTick LagIsNotified
PROPERTIES ColourIsReclaimed
CHECK_DEADLOCK FALSE
