\* The three invariants listed last are refuted.  The others hold.
SPECIFICATION Spec
CONSTANTS
    Order = {"o1"}
    Return = {"r1"}
    Session = {"w1", "w2"}
    NoOne = "nobody"
    Year = {1, 2}
    MaxPuts = 2
INVARIANTS
    TypeOK
    SeriesIsGapless
    OneInvoicePerOrder
    PdfNamesBuyer
    OnePutInFlight
PROPERTIES
    IssuedForever
CHECK_DEADLOCK FALSE
