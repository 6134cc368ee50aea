SPECIFICATION Spec
CONSTANTS
    MaxLines = 3
    Sources <- Texts
    Begins <- NameBegins
    WithDigit <- NamesWithDigit
    OneLetter <- NamesOfOneLetter
INVARIANTS TypeOK ReadAsWritten FirstPassRunsAhead LatestOrLonger RelativeToItself
           ReadToItsEnd OperandsSurvive LoneOperandIsNextOpcode
PROPERTY AssembledIffReadable
CHECK_DEADLOCK FALSE
