\* Dates in years of every kind, minutes of the day, and times within four seconds of four nanoseconds;
\* data of up to 5 bytes, numerals, joined items; two threads at the first uses; profiles of up to 3 lines.
CONSTANTS
    Years <- MCYears
    Months <- MCMonths
    Days <- MCDays
    DateTexts <- MCDateTexts
    Zones <- MCZones
    Hours <- MCHours
    Minutes <- MCMinutes
    TimeTexts <- MCTimeTexts
    Amounts <- MCAmounts
    Second = 4
    Timespecs <- MCTimespecs
    MaxSeconds = 4
    Against <- MCAgainst
    Bytes <- MCBytes
    MaxBytes = 5
    Numbers <- MCNumbers
    Items <- MCItems
    Separators <- MCSeparators
    Delimiters = {" ", ","}
    MaxItems = 4
    Callers = {c1, c2}
    hcerc2asc <- MCCodes
    Orders <- MCOrders
    HtmlTexts <- MCTexts
    Seekers = {s1, s2}
    EnumLines <- MCEnumLines
    EnumKeys = {1, 2}
    EnumNames = {"ALFA", "AKA"}
    Profiles <- MCProfiles
    Variables = {"PATH", "HOME"}
    EnvValues <- MCEnvValues
SPECIFICATION UtilitiesSpec
INVARIANTS
    UtilitiesTypeOK
    ReadBack
    AsNumbers
    FirstUseHolds
