\* Is a user with three overdue loans barred?
CONSTANTS
  u1 = u1
  u2 = u2
  i1 = i1
  i2 = i2
  i3 = i3
  Usuarios = {u1}
  ISBNs = {i1, i2, i3}
  Desconocido = desconocido
  Servidor = servidor
  Consolas = {}
  AbreMenu = FALSE
  Plazo = 0
  LimiteAtrasados = 3
  MaxPeticiones = 4
  MaxDia = 1
  MaxFallos = 0
  CopiasIniciales <- TresLibros
SPECIFICATION Spec
CHECK_DEADLOCK FALSE
PROPERTY AtrasadosBloquean
