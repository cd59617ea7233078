\* As PostHistory.cfg, but with no item that may be missing, and with what the
\* merge says of itself.
SPECIFICATION PSpec
CONSTANTS
 f1 = f1
 f2 = f2
 Facilities = {f1, f2}
 NCodes = 2
 PageSize = 1
 Tolerance = 0
 Share = 10
 MaxClosed = 1
SYMMETRY Symmetry
PROPERTIES ErrorsCloseNothing
