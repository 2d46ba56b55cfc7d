SPECIFICATION MCSpec
CONSTANTS
    b1 = b1
    b2 = b2
    None = None
    Events <- MCEvents
    Identified <- MCIdentified
    Recorded <- MCRecorded
    Trigger <- MCTrigger
    Buttons <- MCButtons
    Styled <- MCStyled
    Evidence <- MCEvidence
    Bindings <- MCBindings
    Camera <- MCCamera
    MaxPushes = 3
    MaxLives = 2
    MaxMoves = 1
INVARIANTS
    TypeOK
    NameBelongsToEvent
    MotionFollowsPulses
PROPERTIES
    RepetitionOnlyNames
    ImplementsEventFeed
    PictureQueueDrains
CHECK_DEADLOCK FALSE
