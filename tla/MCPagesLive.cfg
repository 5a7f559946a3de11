SPECIFICATION FairSpec
CONSTANTS
    Nothing = Nothing
    MaxCalls = 2
    MaxFaults = 1
    MaxOutside = 1
    Invitees = {ann}
    MaxGrants = 2
    PAGE = 2
    MaxPages = 1
    Rows = {r1, r2}
    Machines = {m1}
    Me = me
    Rival = rival
    SideRows = {s1}
    MaxSends = 0
    MaxEvents = 3
    Kinds = {"prompt", "viewer_comment", "input_requested", "tool_call", "stream_end"}
    MaxHeight = 6
    MaxDrafts = 3
    Pages = {"rows", "side", "new", "session", "bell", "seen", "typers"}
CHECK_DEADLOCK FALSE
PROPERTIES PollsCatchUp EndIsShown
