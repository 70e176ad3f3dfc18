\* The server and a console on one book, with restarts and two interruptions.
CONSTANTS
  u1 = u1
  u2 = u2
  i1 = i1
  i2 = i2
  i3 = i3
  Usuarios = {u1, u2}
  ISBNs = {i1}
  Desconocido = desconocido
  Servidor = servidor
  Consolas = {consola}
  AbreMenu = TRUE
  Plazo = 0
  LimiteAtrasados = 1
  MaxPeticiones = 3
  MaxDia = 1
  MaxFallos = 2
  CopiasIniciales <- UnEjemplar
SPECIFICATION Spec
CHECK_DEADLOCK FALSE
INVARIANTS
  TypeOK
  DisponibleCoherente
  CopiasCSVNoNegativas
  ActivoDevolvible
  BDNuncaSuperaCSV
  ConservacionBD
  HistorialesConcuerdan
PROPERTIES
  CierreDefinitivo
  RespuestaVeraz
  ImplementaInventario
