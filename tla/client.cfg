INIT ClientInit
NEXT ClientNext
CONSTANTS
    None = None
    Nodes = {"a", "b", "c", "d"}
    Top = "top"
    Locked = {"d"}
    Barren = {}
    InitKids <- NodeKids
    InitHeld <- NodeHeld
    Linked = {"a", "c"}
    Actives = {"c"}
    MaxChanges = 2
    Nothing = Nothing
    Absent = Absent
    Widths = {800, 910, 1105, 1300}
    InitWidth = 1300
    SidebarRaws = {100, 300}
    PanelRaws = {500}
    OtherPrefs <- OtherTab
    MaxGestures = 2
    Ops = {1, 2}
    Redoable = {1}
    Global = "global"
    Pages = {"page"}
    Notices = {"n1"}
    Limit = 1
    MaxToasts = 3
    Panels = {"m", "p", "q"}
    TriggerOf <- Buttons
    Palette = "palette"
    Cell = "cell"
    NoOne = "none"
    Unloaded = Unloaded
    Subscribers = {"inbox", "data", "workspace"}
    ChannelIds = {"notifications", "w"}
    ChannelOf <- Channel
    Users = {"u1", "u2"}
    NoUser = "none"
    MaxEvents = 6
    MeRetries = 2
    MaxAttempts = 3
    MaxRounds = 3
    MaxFlips = 4
    Home = "/"
    Paths = {"/", "/page"}
    Elsewhere = "//elsewhere"
    NoError = "none"
INVARIANTS ToastsAgree FrameHolds OverlaysAgree PaletteAnswers  ChannelsAgree SignInAgrees TooltipTells
PROPERTIES TreeAgrees MenusAgree HotkeysAgree CellsAgree ControlsAgree ListsAgree SpacesOpen
CHECK_DEADLOCK FALSE
