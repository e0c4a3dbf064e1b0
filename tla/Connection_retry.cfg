CONSTANT enableTimer = 3
SPECIFICATION ConnectionFairSpec
PROPERTY ReconnectsAlways
