SPECIFICATION SpecNested
CONSTANTS
  NPes = 3
  MaxTeams = 3
  MaxCalls = 2
  Fallible = {}
INVARIANT MembersAgree
