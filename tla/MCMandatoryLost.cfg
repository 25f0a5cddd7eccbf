CONSTANTS
    None = None
    Incoming <- MCIncoming
SPECIFICATION Spec
INVARIANT MandatoryStaysPending
