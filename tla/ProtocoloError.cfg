\* Is RESP_ERROR an answer for the client that lists the books?
CONSTANTS
  c1 = c1
  c2 = c2
  Clientes = {c1}
  Nadie = nadie
  Libros = 2
  Cadenas = {"normal", "vacia", "larga"}
  Espera = 1
  MaxOrdenes = 2
  MaxFallos = 1
  MaxCaidas = 0
  MaxArranques = 0
SPECIFICATION Spec
CHECK_DEADLOCK FALSE
INVARIANT ErrorNoEsCantidad
