\* Five tables and a workbook, two cohorts, two readers.
SPECIFICATION CustodySpec
CONSTANTS
    a = a
    b = b
    c = c
    d = d
    x = x
    r1 = r1
    r2 = r2
    r3 = r3
    Sheets = {a, b, c, d, x}
    Rows = {r1, r2, r3}
    RowsOf <- TheRows
    Legible = {a, b, c, d}
    Books <- TheBooks
    Tasks = {t1, t2}
    Labels = {l1, l2}
    Readers = {p, q}
    NoFile = NoFile
    NoLabel = NoLabel
INVARIANTS
    CustodyInv
    
    OneBudgetPerRow
SYMMETRY CustodySymmetry
\* With everything read or sealed there may be nothing left to do.
CHECK_DEADLOCK FALSE
