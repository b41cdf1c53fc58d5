CONSTANTS
  MaxOps = 6
  CompactAt = 8
  KeepLast = 3
  Calls = {c1, c2}
  MaxRetries = 1
  Answers <- MCAnswers
  Places = {"kitchen", "hall"}
  Views <- MCViews
  Runs = {1, 2}
  NodesMax = 3
  Targets = 3
  PollsMax = 2
  FramesMax = 2
  Titles <- MCTitles
  Slug <- MCSlug
  TraceFiles <- MCTraceFiles
  UsesMax = 3
  VersionsMax = 2
  Trials = 1
  Attempts = 2
  Experiments = 2
  Target <- MCTarget
  Threshold = 2
  Starts <- MCStarts
  MaxFrames = 5
  StuckAfter = 2
  MaxStuck = 2
  ProgressMin = 1
  Goals = {"door", "cup"}
  WindowMax = 2
  MotionsMax = 3
  TracesMax = 2
  Seconds = 1
  Comparers = {1, 2}
  CommandsMax = 3
  Doors = {"blue", "green"}
  Where <- MCWhere
  Spoken <- MCSpoken
  Meant <- MCMeant
  NoGoal = "nowhere"
  RoomEnd = 5
  Near = 1
SPECIFICATION BrainSpec
INVARIANTS
  TransientIsRetried
CHECK_DEADLOCK FALSE
