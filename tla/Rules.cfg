SPECIFICATION Spec
CONSTANTS
  PhashBits = 4
  HammingThreshold = 1
  RawTimeout <- MCRawTimeout
  RawRetries <- MCRawRetries
  UrlTtlTicks = 1200
  LeaseTicks = 2400
  Closets <- MCClosets
  Temperatures <- MCTemperatures
  Palettes <- MCPalettes
  RecentWears <- MCRecentWears
  Looks <- MCLooks
  Tappings <- MCTappings
  Scans <- MCScans
  Calls <- MCCalls
  Parses <- MCParses
INVARIANTS
  WeatherGuarantee
  FreshClaimIsTrue
  NoteIsHonest
  SwatchesReachTheCloset
  PairsAreExact
  SettlesInBudget
  OnlyVouchedCutouts
