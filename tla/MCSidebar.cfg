CONSTANTS
    Answers <- MCAnswers
    RowCounts = {1, 2, 4}
    MaxUnread = 1
    NoFeed = NoFeed
SPECIFICATION Spec
INVARIANTS TypeOK SelectionIsEntry SelectionOnScreen ShowsEveryFeedOnce
