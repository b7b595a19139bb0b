SPECIFICATION FairSpec

CONSTANTS
  mage = mage
  guard = guard
  spell = spell
  summon = summon
  glow = glow
  MaxRuns = 2
  MaxSignals = 2
  Threads = {main, worker, helper}
  Main = main
  Cpus = {0, 1}
  OneTick = 3
  Latest = 14
  Channels = {left, right}
  MaxRequests = 3
  Actors = {mage, guard}
  Resources = {spell, summon, glow}
  Spells <- CastSpells
  Needs <- NeededResources
  MaxShort = 1
  Size = 3
  Addresses = {1, 2}
  Slots = 1
  MaxEvents = 6

CHECK_DEADLOCK FALSE

INVARIANTS
  EndsClean
  OthersSpread
  PaceKept
  PlayingIsNamed
  NothingSkipped
  SummaryExact

PROPERTIES
  RequestsReturn
  PreloadEnds
