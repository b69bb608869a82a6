SPECIFICATION Spec
CONSTANTS
  Upload = {u1, u2}
  Nothing = Nothing
  Call <- Calls
  Owner <- OwnerOf
  Kind <- KindOf
  Part <- PartOf
  MaxUploads = 1
  MaxActive = 2
  Attempt = {a1}
  Chunk = {k1, k2}
  MaxCompleted = 1
  MaxTrouble = 3
INVARIANTS
  TypeOK
  ExecutedOnce
PROPERTIES
  AnswersHold
SYMMETRY Symmetric
CHECK_DEADLOCK FALSE
