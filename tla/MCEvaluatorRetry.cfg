CONSTANTS
  A = A
  B = B
  C = C
  Query = Query
  Values = {1, 2, 3}
  Defs <- MCDefs
  Starts <- MCStarts
  Queries <- MCQueries
  Redefinitions <- MCRedefinitions
  MaxQueries = 2
  AskAgain = TRUE
  RedefineLate = FALSE
  SccOf <- check_scc
  DependenciesOf <- check_dependencies
  Programs <- MCPrograms
  AllTerms <- MCTerms
  ParameterTerms <- MCParameterTerms
  DefsIn <- Applied
  PlacesOf <- MCPlacesOf
  MeaningOf <- Meaning
  DefMeaningOf <- DefMeaning
  Depth <- MCDepth
  SettingsIn <- MCSettingsIn
  LinearPrograms <- MCLinearPrograms
SPECIFICATION Spec
INVARIANT RecursionRefused
CHECK_DEADLOCK FALSE
