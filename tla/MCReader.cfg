CONSTANTS
    Articles <- MCArticles
    Sources = {"starred", "feed", "category"}
    Categories = {"category"}
    Ids <- MCIds
    Place <- MCPlace
    Members <- MCMembers
    Selects <- MCSelects
    Fields = {"unread", "marked"}
    Views = {"all_articles"}
    Limit = 1
    MaxCount = 2
    NoSource = NoSource
    NoArticle = NoArticle
SPECIFICATION Spec
VIEW WithoutStatusLine
INVARIANT TypeOK
INVARIANT EveryArticleOnce
PROPERTY DisplayStaysExact
PROPERTY LoadedCountStaysExact
PROPERTY OpeningNeverMarksUnread
