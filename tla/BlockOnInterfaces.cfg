CONSTANTS
    Response = {r1}
    Interface = {i1, i2}
    MaxMessages = 2
    InterfaceId = InterfaceId
    Zero = Zero
SPECIFICATION Spec
INVARIANT InterfaceAsked
CHECK_DEADLOCK FALSE
