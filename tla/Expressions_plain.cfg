\* A law ends when both sources have been run.
CHECK_DEADLOCK FALSE
CONSTANTS
  Width = 4
  Left = {3}
  Text <- Words
  UpperOf <- ToUpper
  LowerOf <- ToLower
  Narrow = 3
  NameSize = 4
  MaxLayer = 2
  MaxNested = 4
  Letter <- LayerLetters
  Layers <- ShortLayers
  Items <- SomeItems
  Rough = {}
SPECIFICATION Spec
INVARIANTS LawsHold HeldIsThere NoFault
