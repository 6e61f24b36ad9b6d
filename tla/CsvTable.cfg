\* Every way to write three groups of one or two fields, some of them more than readCSV() takes,
\* and tables of up to three cells read from that.
CONSTANTS
    Inputs <- MCInputs
    Settings <- MCSettings
    MaxCalls = 3
    Texts <- MCTexts
    MaxRows = 2
    Wide = 10
    MaxColumns = 4
    MaxCells = 3
SPECIFICATION Spec
INVARIANTS
    TypeOK
    RoundTrip
    CellsFound
CHECK_DEADLOCK FALSE
