SPECIFICATION Spec
CONSTANTS
    Host <- MCHost
    Addr <- MCAddr
    Offset = {0}
    Version <- MCVersion
    Planned = "dng.example.com"
    Typed <- MCTyped
    Count <- MCCount
    Other = Other
INVARIANTS TypeOK AnswersCoherent AnswersStayValid PromptsRejectOnlyHostnames
