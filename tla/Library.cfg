SPECIFICATION LibrarySpec
CONSTANTS
  Items = {x, y}
  NoItem = NoItem
  NoData = NoData
  MaxActs = 2
  MaxFaults = 1
  MaxVisits = 2
INVARIANTS ListKeepsUp
PROPERTIES LinkOpens EndIsTold
