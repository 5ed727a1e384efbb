CONSTANTS
    Numbers = {0, 1, 2, 3, 4, 5, 6, 7}
    Slack = 1
SPECIFICATION FairSpec
INVARIANT NumberHeld
PROPERTIES PreviewHonest ChoiceChanges RequestAnswered
