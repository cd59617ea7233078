\* the source that reports whether anything changed
SPECIFICATION CSpec
CONSTANTS
 Calc = calc
 Sources = {migration}
 Incremental = {migration}
 Kinds = {migration, calc}
INVARIANTS StoredDataIsDue
