\* Two clients, every kind of text, that may end or die while attended or in the backlog: who is answered, who is attended.
CONSTANTS
  c1 = c1
  c2 = c2
  Clientes = {c1, c2}
  Nadie = nadie
  Libros = 2
  Cadenas = {"normal", "vacia", "larga"}
  Espera = 2
  MaxOrdenes = 1
  MaxFallos = 1
  MaxCaidas = 1
  MaxArranques = 0
SPECIFICATION SpecViva
CHECK_DEADLOCK FALSE
INVARIANTS
  BloqueoExplicado
PROPERTIES
  Contestado
  Relevo
