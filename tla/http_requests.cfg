SPECIFICATION Spec
CONSTANTS
    Tabs = {t1, t2}
    Methods = {"GET", "POST"}
    Absent = Absent
    Views <- MCViews
    Gifts <- MCGifts
    SecretLength = 2
    Keys <- MCKeys
    MaxRequests = 3
INVARIANTS
    
    
    CalledWithAll
    NewSecretSaved
CHECK_DEADLOCK FALSE
