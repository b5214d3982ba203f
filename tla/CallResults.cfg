SPECIFICATION Spec
INVARIANTS
    TypeOK
    FetchContract
    FailureReported
    FaultReported
    ActionDone
    ActionFormsAgree
    TicketUsable
