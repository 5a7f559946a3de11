SPECIFICATION Spec
CONSTANTS
    Nothing = Nothing
    MaxCalls = 2
    MaxFaults = 1
    MaxOutside = 1
    Invitees = {ann}
    MaxGrants = 2
    PAGE = 2
    MaxPages = 1
    Rows = {r1, r2}
    Machines = {m1, m2}
    Me = me
    Rival = rival
    SideRows = {s1}
    MaxSends = 1
    MaxEvents = 3
    Kinds = {"prompt", "viewer_comment", "input_requested", "tool_call", "stream_end"}
    MaxHeight = 6
    MaxDrafts = 3
    Pages = {"share", "invited", "rows", "bulk", "new", "admin", "side", "list", "feed", "session", "transcript", "tail", "apps", "licences", "push", "palette", "strip", "bell", "seen", "theme", "composer", "typers", "shell", "popover", "menu", "landing"}
SYMMETRY Alike
CHECK_DEADLOCK FALSE
INVARIANTS
    PagesTypeOK ShownIsHeld AnswersFitTheQuestion OneRequestEach ListsAreWhole
    TranscriptIsTheLog LiveIsFollowed BrowsingSkipsNothing RowsFitTheEvents ScreenKeepsUp
    NarrowedIsOffTheFeed AdminsRemain
PROPERTIES StepsAreAskedFor
