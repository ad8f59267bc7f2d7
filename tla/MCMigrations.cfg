CONSTANTS
  m1 = m1
  m2 = m2
  Migrator <- TwoMigrators
  NoOne = NoOne
SPECIFICATION Spec
INVARIANTS CleanMeansWhole DirtyIsNear MigrationInv
PROPERTIES SuccessTellsTruth DirtySticks CommandsEnd
