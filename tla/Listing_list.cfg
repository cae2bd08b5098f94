SPECIFICATION Spec
CONSTANTS
  Lister = {l1}
  TheDir = aa
  TheBelow = aa_b
  TheBraced = a_2_
  ThePlain1 = x
  ThePlain2 = y
  TheDeep = z
  TheHidden = w
  Dir = {aa, aa_b, a_2_}
  Name = {x, y, z, w}
  Parent <- ParentOf
  Above <- AboveOf
  Spelled <- SpelledOf
  None = None
  BatchSize = 2
  MaxDocs = 3
  MaxUploads = 4
  MaxCalls = 2
INVARIANTS
  TypeOK
  ListedOnce
  ListedWasThere
  StayersAreListed
