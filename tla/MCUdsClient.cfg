CONSTANTS
    Client = {1}
    Service = {"read", "write"}
    Did = {7}
    RequestCFs <- MCRequestCFs
    AnswerCFs <- MCAnswerCFs
    SNMod = 16
    NBs = 2  Timeout = 1  P2Star = 2  Wall = 3  NCr = 1
    WftMax = 1  MaxPending = 1
    QueueSize = 2  Blocks = {0, 1}
    MaxRequests = 3
SPECIFICATION Spec
INVARIANTS OnlyOverdueAnswers RequestsNotCutOff GrantsKept
PROPERTIES ExchangeEnds
CHECK_DEADLOCK FALSE
