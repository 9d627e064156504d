CONSTANTS
    Session = {s1}
    Client = {c1, c2}
    IOFaults = TRUE
SPECIFICATION RunnerFairSpec
INVARIANTS TypeOK SucceededHasAccount AccountNeedsApproval UsageFetchedOnce ChildHasOwner ExitDelivered
PROPERTIES CancelEndsChild ApprovalSettles StartReturns GoroutinesEnd
