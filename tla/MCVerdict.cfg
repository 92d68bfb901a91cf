CONSTANTS
    Missing = "none"
    Mapping <- MCMapping
    IsPid <- MCIsPid
    PidOf <- MCPidOf
    CodeIn <- MCCodeIn
    TimeIn <- MCTimeIn
    Trim <- MCTrim
    IsNumber <- MCIsNumber
    NumberOf <- MCNumberOf
    HasText <- MCHasText
    IsPattern <- MCIsPattern
    Fits <- MCFits
    Esc <- MCEsc
    Comparisons <- MCComparisons
    Docs <- MCDocs
    Alone <- MCAlone
    Places <- MCPlaces
    Reports <- MCReports
    MaxWords <- MCMaxWords
SPECIFICATION Spec
CHECK_DEADLOCK FALSE
INVARIANTS Inv LossesKnown LoadsWhatCanBeRead VerdictAsWritten
