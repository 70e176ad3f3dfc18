\* Does generarID give every user an id of its own?
CONSTANTS
  e1 = e1
  e2 = e2
  p1 = p1
  p2 = p2
  Correos = {e1, e2}
  Basura = basura
  IdsBasura = {1, 8}
  Encabezado = encabezado
  Servidor = servidor
  Consolas = {p1, p2}
  MaxAltas = 2
  MaxArranques = 3
  MaxFallos = 0
SPECIFICATION Spec
CHECK_DEADLOCK FALSE
INVARIANT IdsUnicos
