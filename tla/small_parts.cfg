SPECIFICATION MCSpec
CONSTANT
    Parts = {"requests", "histories", "details", "names", "settings", "forks", "drafts", "resent", "tokens", "trees", "titles", "code", "lists", "update", "messages", "answers", "switch", "notices", "commands", "interrupts", "images", "questions", "metrics"}
INVARIANTS
    CarriedOutOnce
    CachesTellTheTruth
    MessagesAreShownAsMeant
    InputIsKept
    RecordsFollowTheHistory
    EndsAreNoticed
PROPERTY
    NothingIsTakenBack
CHECK_DEADLOCK FALSE
