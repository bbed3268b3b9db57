\* Two devices ask while the API changes records and profile.
CONSTANTS
    Devices <- MCDevices
    Size <- MCSize
    Numbers = 2
    Versions = 2
    Nil = Nil
    Torn = Torn
    a = a
    b = b
SPECIFICATION FairSpec
INVARIANT TftpTypeOK
INVARIANT Intact
INVARIANT SuccessMeansReceived
PROPERTY Answered
