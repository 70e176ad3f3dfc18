\* Is a loan begun only when there is a copy?
CONSTANTS
  u1 = u1
  u2 = u2
  i1 = i1
  i2 = i2
  i3 = i3
  Usuarios = {u1, u2}
  ISBNs = {i1}
  Desconocido = desconocido
  Servidor = servidor
  Consolas = {}
  AbreMenu = FALSE
  Plazo = 0
  LimiteAtrasados = 3
  MaxPeticiones = 3
  MaxDia = 0
  MaxFallos = 0
  CopiasIniciales <- UnEjemplar
SPECIFICATION Spec
CHECK_DEADLOCK FALSE
INVARIANT VerificaDisponibilidad
