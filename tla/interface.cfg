SPECIFICATION Spec
CONSTANTS
    Queue <- TwoQueues
    InterfaceOf <- SentBy
    BodyTypeOf <- Bodies
    ScriptsOf <- Scripts
    Raising = {"i"}
    NoInterface = "none"
    NoStep = "no step"
INVARIANTS
    AssertsTheLast
    SentIsOwn
CHECK_DEADLOCK FALSE
