SPECIFICATION Spec
CONSTANTS
    MaxBytes = 2
    FileCounts = {2}
    Lengths = {1}
    MaxLines = 4
    Incidents = {"foreign"}
    MaxIncidents = 1
    NONE = NONE
PROPERTIES
    WritesAtEnd
