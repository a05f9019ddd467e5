SPECIFICATION Spec
CONSTANTS
  Names = {a, b}
  NInodes = 4
INVARIANTS EntriesLead  
