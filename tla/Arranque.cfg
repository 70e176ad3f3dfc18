\* Starts of two consoles while the server works: loans, returns, listings.
CONSTANTS
  u1 = u1
  u2 = u2
  corto = corto
  largo = largo
  Usuarios = {u1, u2}
  Catalogo <- DosLibros
  Largos = {largo}
  Corte <- EnLasFechas
  Numero = u2
  CopiasIniciales <- Ejemplares
  LineasIniciales <- UnaDeCada
  Servidor = servidor
  Consolas = {c1, c2}
  LimiteAtrasados = 3
  AbreMenu = TRUE
  MaxArranques = 2
  MaxSucesos = 2
SPECIFICATION Spec
SYMMETRY Simetria
CHECK_DEADLOCK FALSE
INVARIANTS
  TypeOK
  ActivoConFila
  DevolucionesAcotadas
  CatalogoRepetido
  NadieEsperaLineas
PROPERTY InicioFiel
