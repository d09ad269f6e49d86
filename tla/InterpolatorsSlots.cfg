SPECIFICATION FairSpec
CONSTANTS N = 2 Depth = 1 Scale = 2 Frames = {1, 2} StepCounts = {1, 2} Fading = {FALSE} Range32 = 4
INVARIANTS TypeOK OneTaskPerLamp
PROPERTIES OnlyIstepOverruns PlaysPrograms Advances
