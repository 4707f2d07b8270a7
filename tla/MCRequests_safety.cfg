\* Words of 8 bits and 10 ms to the second: 12 s fit an int, 13 s do not, 26 s wrap.
SPECIFICATION Spec
CONSTANTS
  Files <- MCFiles
  Targets <- MCTargets
  Remotes = {"ip1", "ip2"}
  Passwords = {"secret", "other"}
  Hashes = {"h1", "h2"}
  XXH32 <- MCXXH32
  Params <- MCParams
  Times = {0, 12, 26}
  Thousand = 10
  Word = 256
  NoRequest = NoRequest
INVARIANTS
  TypeOK
  CommandsAllowed
  NamesAPlayer
  BanLength
