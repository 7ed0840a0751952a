CONSTANTS
  Make = Make Other = Other
  u1 = u1 u2 = u2 u3 = u3
  Old = Old New = New Part = Part Gone = Gone
  Mirrors = Mirrors Swapped = Swapped Versioned = Versioned Archive = Archive Shim = Shim Renamed = Renamed Lib = Lib Ref = Ref Back = Back
  app = app greet = greet part = part lib = lib ref = ref hail = hail hello = hello
  Procs = {Make}
  Builders = {Make}
  Urls = {u1, u2, u3}
  Hashes = {Old, New}
  Whole = Whole
  Subdirs = {Whole, Part, Gone}
  NoHash = NoHash
  None = None
  Paths = {Mirrors, Swapped, Versioned, Archive, Shim, Renamed, Lib, Ref, Back}
  Projects = {Renamed}
  Names = {app, greet, part, lib, ref, hail, hello}
  Versions = {10, 11, 20, 30}
  Misnamed <- MCMisnamed
  Contents <- MCContents
  Class <- MCClass
  Manifest <- MCManifest
  Worlds <- MCWorlds
  Guests <- MCGuests
  MaxFaults = 0
  MaxAsks = 0
SPECIFICATION Spec
INVARIANT AliasIsLocal
CHECK_DEADLOCK FALSE
