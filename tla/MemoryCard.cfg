SPECIFICATION Spec
CONSTANTS
    Sectors = 3
    Values = {"zero", "blank", "a", "b", "h"}
    Zero = "zero"
    Blank = "blank"
    Written = {"a", "b"}
    HostCards <- MCHostCards
    Opens = {TRUE, FALSE}
INVARIANTS
    TypeOK
    CleanIsOnDisk
    AckedSurvives
PROPERTIES
    PersonalUntouched
