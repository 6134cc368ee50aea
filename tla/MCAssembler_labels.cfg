SPECIFICATION Spec
CONSTANTS
    MaxLines = 2
    Sources <- Texts
    Begins <- NameBegins
    WithDigit <- NamesWithDigit
    OneLetter <- NamesOfOneLetter
INVARIANT LabelReached
CHECK_DEADLOCK FALSE
