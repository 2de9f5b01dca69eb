SPECIFICATION Spec
CONSTANTS
  NPes = 3
  MaxTeams = 3
  MaxCalls = 3
  Fallible = {1}
INVARIANTS
  TypeOK
  TeamsInStep
  MembersAgree
  GridsShareIndex
  GridCovers
  RoundTrip
