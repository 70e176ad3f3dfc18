\* Three processes lend, return and import; two calls fail or two processes die.
CONSTANTS
  p1 = p1
  p2 = p2
  p3 = p3
  Procesos = {p1, p2, p3}
  MaxOperaciones = 3
  MaxFallos = 2
SPECIFICATION Spec
CHECK_DEADLOCK FALSE
SYMMETRY Simetria
INVARIANTS
  TypeOK
  NadaSePierde
  SinRastro
  HistorialTrasLibros
  Recuperable
