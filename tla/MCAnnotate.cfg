SPECIFICATION Spec
CONSTANTS
    Articles = {1, 2}
    LabelLists <- MCLabelLists
    Notes = {"later"}
    MaxScore = 1
    MaxWrites = 2
    NoArticle = NoArticle
    NoText = NoText
INVARIANTS TypeOK CopiesAgree
PROPERTIES PickerShowsServer KeepsLabelPromise
