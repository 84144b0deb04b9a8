CONSTANTS
    Sizes <- MCSizes
    Contents <- MCContents
    Notes <- MCNotes
    UrlCells <- MCUrlCells
    NoArticle = NoArticle
SPECIFICATION Spec
INVARIANTS TypeOK WrapFollowsWidth NeverBlank
PROPERTIES LinkRevealed PagingSkipsNothing
