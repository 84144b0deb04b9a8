CONSTANTS
    Answers <- MCAnswers
    RowCounts = {4}
    MaxUnread = 1
    NoFeed = NoFeed
SPECIFICATION Spec
PROPERTY BumpReachesFeed
