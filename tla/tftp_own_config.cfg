\* The configuration of another device.
CONSTANTS
    Devices <- MCDevices
    Size <- MCSize
    Numbers = 2
    Versions = 2
    Nil = Nil
    Torn = Torn
    a = a
    b = b
SPECIFICATION Spec
INVARIANT OwnConfig
