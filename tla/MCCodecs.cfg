CONSTANTS
  BASE = 128
  WORD = 8192
  INT = 256
  MAX_VARINT_BYTES = 2
  Keys = {7, 255}
  Sizes <- SomeSizes
  Nums <- SomeNums
  Diffs <- SomeDiffs
  RawBytes <- SomeTail
  Lines <- Printed
  MaxLen <- Bounds
  ID_BYTES = 2
SPECIFICATION Spec
CHECK_DEADLOCK FALSE
INVARIANTS DiffCarriesTheSuffix HostDiffApplied HeadersCarried UnknownFieldsSkipped DamageContained BootstrapFaithful
