SPECIFICATION DSpec
CONSTANTS
    Word = {deep, cheap, std, risk, own}
    deep = deep
    cheap = cheap
    std = std
    risk = risk
    own = own
    BuiltIn <- MCBuiltIn
    Vocabulary <- MCVocabulary
    Provider = {p1, p2}
    Shipped = p1
    Task <- MCTask
    Text <- MCText
    Message <- MCMessage
    Reply <- MCReply
    Unset = Unset
    Typo = Typo
    MaxChanges = 0
    MaxPast = 1
INVARIANT ElevateIsDeliberate
CHECK_DEADLOCK FALSE
