\* Two facilities and two codes; one item is needed, of two one may be missing;
\* one closure is allowed.
SPECIFICATION PSpec
CONSTANTS
 f1 = f1
 f2 = f2
 Facilities = {f1, f2}
 NCodes = 2
 PageSize = 1
 Tolerance = 0
 Share = 2
 MaxClosed = 1
SYMMETRY Symmetry
INVARIANTS PostTypeOK DoneMatchesService
PROPERTIES OnlyShortfallCloses
