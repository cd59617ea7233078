\* a source that reports changes and one that does not, and calcs of two sorts
SPECIFICATION AskedSpec
CONSTANTS
 Calc = calc
 Sources = {care, migration}
 Incremental = {migration}
 Kinds = {care, migration, calc}
INVARIANTS CollectedDataIsDue OnlyOwnStandsIn
