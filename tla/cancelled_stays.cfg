SPECIFICATION FulfilmentSpec
CONSTANTS
    Order = {o1}
    Handled = {o1}
    NoteKey = {k1}
    Staff = {s1}
    NoShape = NoShape
    LastDay = 2
    MaxSequence = 2
    InvoiceShapes <- MCInvoiceShapes
    CreditAmounts = {3}
CHECK_DEADLOCK FALSE
PROPERTY CancelledStaysCancelled
