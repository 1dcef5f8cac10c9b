CONSTANTS
    i1 = i1
    i2 = i2
    i3 = i3
    Ids = {i1, i2, i3}
    Domains = {"d1", "d2"}
    Names = {"n1", "n2"}
    Keys = {"k1", "k2"}
    FieldsOf <- Fields
    Questions <- AllQuestions
    Times = {1, 2, 3}
    NotGiven = NotGiven
SPECIFICATION Spec
INVARIANT TypeOK
INVARIANT AnswerIsWhole
INVARIANT NothingMissed
INVARIANT PagesInOrder
