SPECIFICATION FairSpec
CONSTANTS
  KeyProviders = {openai}
  AdcProviders = {vertex}
  Preset = {openai}
  Calls = {c1, c2}
  Boots = {b1, b2}
  MaxChanges = 2
  MaxTroubles = 1
INVARIANTS SavesAreKept QuietStackIsCurrent
PROPERTIES SyncKept PageSettles
