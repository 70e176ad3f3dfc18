\* A user at the console, who may type too much, letters for a number, or close the input.
CONSTANTS
  Largos <- LosLargos
SPECIFICATION Spec
INVARIANTS
  TypeOK
  TodoPropio
  PrestamoPropio
  PrestamoElegido
PROPERTY SiempreVuelve
CHECK_DEADLOCK FALSE
