SPECIFICATION LabyrinthSpec
CONSTANTS
    Solvers = {m1}
    Members = {m1, m2}
    Channels = {"c1"}
    inv = "=invalid="
    NoFile = NoFile
    Lines <- MCLines
    Words <- MCWords
    Questions <- MCQuestions
    Roles = {"r1"}
    Answers <- MCAnswers
    Leads <- MCLeads
    Hints <- MCHints
    Glue <- MCGlue
    Traps = {"q2"}
    Kick = "KICKTHISUSER"
    Empty = Empty
    MaxEdits = 4
    Settings <- MCSettings
    DefaultWait = 1
    Minute = 2
    MaxTime = 6
    Half = 5
    Torn = Torn
    None = None
INVARIANTS
    ReadsAsGiven
    ToldEnough
PROPERTIES
    LeadsAreFixed
    ChannelComesFirst
    HintsApart
    SettingsKept
