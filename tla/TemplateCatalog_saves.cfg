SPECIFICATION Spec
CONSTANTS
  basic = basic  own = own  clash = clash
  basicFile = basicFile  ownFile = ownFile  b0 = b0  b1 = b1
  Shells = {s1, s2}
  Versions = {basic, own, clash}
  Files = {basicFile, ownFile}
  Bodies = {b0, b1}
  ManifestFile = ManifestFile
  FileOf <- MCFileOf
  Packaged <- MCPackaged
  PackagedFiles <- MCPackagedFiles
  Requests <- MCRequests
  None = None  Broken = Broken  Unknown = Unknown
  MaxFaults = 2
SYMMETRY Symmetry
INVARIANTS TypeOK CatalogKeepsTemplates HealthyMeansResolvable SourcesAreAsListed
