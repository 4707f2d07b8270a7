\* The seconds an answer to misc/ip/ban speaks of.
SPECIFICATION Spec
CONSTANTS
  Files <- MCFiles
  Targets <- MCTargets
  Remotes = {"ip1", "ip2"}
  Passwords = {"secret", "other"}
  Hashes = {"h1", "h2"}
  XXH32 <- MCXXH32
  Params <- MCParams
  Times = {0, 12}
  Thousand = 10
  Word = 256
  NoRequest = NoRequest
INVARIANT SecondsAreSeconds
