\* Two clients, ordinary and empty texts, failures of the database, deaths, a console that starts.
CONSTANTS
  c1 = c1
  c2 = c2
  Clientes = {c1, c2}
  Nadie = nadie
  Libros = 1
  Cadenas = {"normal", "vacia"}
  Espera = 1
  MaxOrdenes = 2
  MaxFallos = 1
  MaxCaidas = 1
  MaxArranques = 1
SPECIFICATION Spec
CHECK_DEADLOCK FALSE
SYMMETRY Simetria
INVARIANTS
  TypeOK
  Alineado
  BloqueoExplicado
  CacheFiel
PROPERTIES
  RespuestaPropia
