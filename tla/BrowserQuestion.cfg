SPECIFICATION SmallSpec
CONSTANTS
    t1 = t1
    t2 = t2
    p1 = p1
    Tabs = {t1, t2}
    Pages = {p1}
    MaxRev = 3
    None = None
PROPERTY QuestionIsShown
