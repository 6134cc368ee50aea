SPECIFICATION Spec
CONSTANTS
    MaxLines = 2
    Sources <- Texts
    Begins <- NameBegins
    WithDigit <- NamesWithDigit
    OneLetter <- NamesOfOneLetter
PROPERTY DocumentedAssembled
CHECK_DEADLOCK FALSE
