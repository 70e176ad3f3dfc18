\* The server and two consoles register two addresses up to four times, restart and fail.
CONSTANTS
  e1 = e1
  e2 = e2
  p1 = p1
  p2 = p2
  Correos = {e1, e2}
  Basura = basura
  IdsBasura = {1, 2}
  Encabezado = encabezado
  Servidor = servidor
  Consolas = {p1, p2}
  MaxAltas = 4
  MaxArranques = 3
  MaxFallos = 1
SPECIFICATION Spec
CHECK_DEADLOCK FALSE
SYMMETRY Simetria
INVARIANTS
  TypeOK
  AceptadosPermanecen
  MismaIdentidad
PROPERTIES
  RegistroVeraz
