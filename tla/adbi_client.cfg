CONSTANTS
    Calls <- MCCalls
    Replies <- MCReplies
    MaxRequests = 2
    SeqSpace = 2
SPECIFICATION Spec
INVARIANT TypeOK
INVARIANT ResponseIsServersReply
INVARIANT StreamAligned
INVARIANT ApiResultIsAgentsAnswer
PROPERTY RequestCompletes
