\* One product, two requests at a time, an import, two categories and an asset; three commits and one fault.
SPECIFICATION Spec
CONSTANTS
  None = None
  Products = {p1}
  Variants = {v1}
  Slugs = {s1}
  Titles = {t1}
  s1 = s1
  n1 = n1
  n2 = n2
  t1 = t1
  Statuses = {"DRAFT", "ACTIVE"}
  Prices = {1, 2}
  MaxWrites = 3
  MaxFaults = 1
  Editors = {a1, a2}
  Assets = {m1}
  Categories = {c1, c2}
  BrandNames = {n1, n2}
  Sheets <- SmallSheets
INVARIANTS
  
  UploadsAreStored
  

  
SYMMETRY CatalogueSymmetry
CHECK_DEADLOCK FALSE
