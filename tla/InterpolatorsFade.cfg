SPECIFICATION FairSpec
CONSTANTS N = 1 Depth = 3 Scale = 4 Frames = {3} StepCounts = {1, 2} Fading = {TRUE, FALSE} Range32 = 4
INVARIANTS DeltasAreCurrent
PROPERTIES PlaysPrograms
