SPECIFICATION Spec
CONSTANTS
    m1 = m1
    m2 = m2
    hi = hi
    bye = bye
    s = s
    t = t
    warm = warm
    None = None
    KnownClasses = {"AIMessage"}
    Calls <- MCLookalikes
    Words = {hi, bye}
    Answers <- MCAnswers
    Encoded <- ToTape
    Decoded <- FromTape
INVARIANT
    AnswersTheQuestion
