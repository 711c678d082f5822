\* Two well-formed files and four malformed ones, with and without one of the keys.
SPECIFICATION ProxySpec
CONSTANTS
    None = None
    Matching <- MCMatching
    Files <- MCFiles
    Environs <- MCEnvirons
    Token = "token"
    Requests <- MCRequests
    Models <- MCModels
    Questions <- MCQuestions
    Replies <- MCReplies
INVARIANTS
    StreamSaysReply
    ListedCanBeCalled
    CredentialsStay
