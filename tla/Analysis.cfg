\* Clips of two and three frames, two titles, two barcodes, two databases; any source may fail.
SPECIFICATION Spec
CONSTANTS
  None = None
  c1 = c1
  c2 = c2
  HashW = 3
  HashH = 2
  DedupHamming = 2
  MinKeep = 2
  Shots = {1, 2, 3}
  SimilarShots <- CloseShots
  Clips <- SomeClips
  Keys = {"cola", "water"}
  Forms = {"a", "b"}
  Codes = {c1, c2}
  Hosts <- TwoHosts
  Known <- AllKnown
  Sightings <- SomeSightings
INVARIANTS
  DraftsAreGrounded
CHECK_DEADLOCK FALSE
