SPECIFICATION MCSpec
CONSTANTS
    Response = {r1, r2}
    Interface = {i1}
    MaxMessages = 2
    InterfaceId = InterfaceId
    Zero = Zero
    t1 = t1
    t2 = t2
    None = None
INVARIANTS
    AskedAsWanted
    EndsReported
    ResumesAccepted
    BytesAsMeant
    DeliveredOnce
    CallsDone
PROPERTIES
    FdStable
    AnswerReachesFuture
