SPECIFICATION MCSpec
CONSTANTS
    Buttons = {"obs"}
    Kinds = {"toggle_source_visibility"}
    main = main
    intro = intro
    cam = cam
    mic = mic
    pause = pause
    Scenes = {main, intro}
    Sources = {cam, mic}
    AudioInputs = {mic}
    ItemId <- Items
    Texts = {t1, t2}
    NULL = NULL
    Threads = {th}
    MaxPresses = 1
    MaxEdits = 0
    MaxOpens = 1
    MaxChanges = 1
    MaxLosses = 0
    MaxStarts = 0
    MaxInputs = 3
    Pool = {p1, p2}
    Durations = {1, 2}
    Names = {game, pause}
    NoLabel = NoLabel
    Empty = Empty
    PressBound = 3
    EditBound = 1
    StartBound = 1
    Modulus = 1024
    FirstCounts <- SomeCounts
    Growths <- SomeGrowths
    Memories <- SomeMemories
    MaxReads = 2
    MaxRuns = 2
    MaxRestarts = 1
    MaxExecs = 1
INVARIANT
    OurEventIsTaken
CHECK_DEADLOCK FALSE
