SPECIFICATION PublicationSpec
CONSTANTS
    Mailers = {m1, m2}
    RoomGens = {rg}
    InvigRuns = {ig}
    Planners = {p1}
    Emails = {"draft", "publishedRooms"}
    NoMail = NoMail
INVARIANTS SendOnce CollectorOwned RoomGenerationLocked
