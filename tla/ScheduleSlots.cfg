\* two worker processes, a window of two units
SPECIFICATION SSpec
CONSTANTS
 kma = kma
 care = care
 p1 = p1
 p2 = p2
 Kinds = {kma, care}
 Schedulers = {p1, p2}
 Occurs <- MCOccurs
 Window = 2
 MaxTime = 4
SYMMETRY MCSymmetry
INVARIANTS OneJobPerSlot DueSlotIsServed
