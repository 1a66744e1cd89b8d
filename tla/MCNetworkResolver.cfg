SPECIFICATION Spec
CONSTANTS
    http = http
    diag = diag
    name1 = name1
    name2 = name2
    literal = literal
    malformed = malformed
    Callers <- TwoCallers
    Slots <- TwoSlots
    Hosts <- EveryKindOfHost
    NumericHosts <- LiteralHosts
    InvalidHosts <- MalformedHosts
    MaxId = 3
    MaxAddresses = 2
    Capacity <- OneAddress
    MailboxSize = 1
    QueryTableSize = 1
    NoCaller = NoCaller
    NoQuery = NoQuery
    NoAnswer = NoAnswer
    NoHost = NoHost
INVARIANTS SlotOwnership AnswerMatchesRequest
PROPERTIES NoWriteAfterReturn
SYMMETRY Alike
