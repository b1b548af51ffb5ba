SPECIFICATION ProgramsSpec
CONSTANTS
  Answers <- MCAnswers
  to_send = 3
  command_size = 3
  Lines = 2
  PipeCapacity = 1
  Producers <- MCProducers
  RowOf <- MCRowOf
  Chunks = 2
  Leftovers <- MCLeftovers
  NoFile = NoFile
  width = 3
  height = 2
  pixel_max = 7
  Picture <- MCPicture
  MaxThreads = 2
  reps = 4
  Threshold = 3
  Added = 10
  Clients <- MCClients
  NameOf <- MCNameOf
  MAX_CLIENT_COUNT = 2
INVARIANTS TurnsAlternate WinnersHaveLine ColumnEndsGame CountsAreSound TextsInPlace NegatedOnce TableIsSound
PROPERTY ProgramsEnd
CHECK_DEADLOCK FALSE
