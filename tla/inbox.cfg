SPECIFICATION InboxSpec
CONSTANTS
    Notes <- Pair
    Account = {1}
    Fresh = {2}
    Kinds <- AllKinds
    ElseKinds <- Elsewhere
    MaxOwn = 2
    MaxElse = 1
    PageNotes = {1, 2, 3}
    AccountOnes = {3}
    ChangedOn <- ChangedDays
    ArchivedOn <- ArchivedDays
    WeekInfo = 0
    Today = 4
    NoNote = 0
    Unloaded = Unloaded
    Parts = {"cache", "page"}
INVARIANT ShownAgrees
PROPERTIES MessagesAreTaken InboxKeepsPlace
CHECK_DEADLOCK FALSE
