SPECIFICATION Spec
CONSTANTS
  Upload = {u1, u2}
  Nothing = Nothing
  Call <- Calls
  Owner <- OwnerOf
  Kind <- KindOf
  Part <- PartOf
  MaxUploads = 1
  MaxActive = 2
  Attempt = {a1, a2}
  Chunk = {k1}
  MaxCompleted = 2
  MaxTrouble = 1
INVARIANTS
  TypeOK
  ExecutedOnce
PROPERTIES
  AnswersHold
  ImplementsUploads
SYMMETRY Symmetric
CHECK_DEADLOCK FALSE
