\* Every method of the clients, with messages that fill in any fields.
SPECIFICATION Spec
CONSTANTS
    Texts <- MCTexts
    Garbled = "garbled"
    Sample <- MCSample
INVARIANTS
    RequestArrives
    AnswerArrives
\* A call ends.
CHECK_DEADLOCK FALSE
