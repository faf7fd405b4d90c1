SPECIFICATION FairTail
CONSTANTS
  InitialEntries = 2
  MaxStarts = 2
  MaxJournal = 4
  PromptThreads = TRUE
INVARIANTS
  RunIsConsecutive
PROPERTY EntriesArrive
CHECK_DEADLOCK FALSE
