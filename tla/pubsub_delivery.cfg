SPECIFICATION FairSpec
CONSTANTS
    Workers = {"w1", "w2"}
    Events = {"e1", "e2"}
    Origin <- MCOrigin
    MaxFaults = 2
INVARIANTS TypeOK DeliveredOnce DoneIsPublished ChannelOrder
PROPERTIES ImplementsEventChannel SubscriberHears Resubscribes
CHECK_DEADLOCK FALSE
