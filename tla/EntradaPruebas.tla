---------------------------- MODULE EntradaPruebas ----------------------------
(***************************************************************************)
(* What is proved about Entrada, for lines of any length.                  *)
(***************************************************************************)
EXTENDS Entrada, TLAPS

(***************************************************************************)
(* Every array has room for a sign.                                        *)
(***************************************************************************)
LEMMA HaySitio ==
  ASSUME NEW p \in Textos \cup Opciones
  PROVE  Cabida(p) \in Nat /\ Cabida(p) > 0
  BY DEF Textos, Opciones, Formulario, Sesion, Busquedas, Operables, Cabida, DeISBN

\* stdin is a line, or nothing.
Lineas == [n : Nat, para : Preguntas] \cup {Nada}

(***************************************************************************)
(* Taking signs from a line leaves a line, or nothing.                     *)
(***************************************************************************)
LEMMA TrasEsLinea ==
  ASSUME stdin \in Lineas, Hay, NEW k \in Nat
  PROVE  Tras(k) \in Lineas
  BY DEF Lineas, Hay, Tras

LEMMA LeeEsLinea ==
  ASSUME stdin \in Lineas, NEW k \in Nat, Lee(k)
  PROVE  stdin' \in Lineas
  BY TrasEsLinea DEF Lee

-----------------------------------------------------------------------------
(* Types *)

LEMMA TipoInit == Init => TypeOK
<1> SUFFICES ASSUME Init PROVE TypeOK
  OBVIOUS
<1>1. donde \in Preguntas \cup {"cerrado"}
  BY DEF Init, Preguntas
<1>2. stdin \in [n : Nat, para : Preguntas] \cup {Nada}
  BY DEF Init
<1>3. opcion \in [v : Signos("principal"), de : Origenes]
  BY DEF Init, Basura, Signos, Origenes
<1>4. str \in [v : Signos("menu"), de : Origenes]
  BY DEF Init, Basura, Signos, Origenes
<1>5. ultima \in [op : {"ninguna", "registrar", "entrar"} \cup Operables,
                  opcion : Origenes \cup {"nadie"}, propio : BOOLEAN]
  BY DEF Init
<1>6. fin \in BOOLEAN /\ propio \in BOOLEAN
  BY DEF Init
<1>7. causas \subseteq {"respuesta", "larga", "justa", "fin"}
  BY DEF Init
<1>8. QED
  BY <1>1, <1>2, <1>3, <1>4, <1>5, <1>6, <1>7, Zenon DEF TypeOK

LEMMA QuedaBien ==
  ASSUME TypeOK, NEW o, NEW q \in Queda(o)
  PROVE  /\ donde = "principal" /\ o = opcion => q \in [v : Signos("principal"), de : Origenes]
         /\ donde = "menu" /\ o = str => q \in [v : Signos("menu"), de : Origenes]
  BY DEF Queda, TypeOK, Origenes

LEMMA TipoTexto ==
  ASSUME TypeOK, NEW p \in Textos, Texto(p)
  PROVE  /\ stdin' \in Lineas /\ propio' \in BOOLEAN
         /\ fin' \in BOOLEAN /\ causas' \subseteq {"respuesta", "larga", "justa", "fin"}
         /\ opcion' \in [v : Signos("principal"), de : Origenes]
<1>1. stdin \in Lineas
  BY DEF TypeOK, Lineas
<1>2. stdin' \in Lineas
  BY <1>1, HaySitio, LeeEsLinea DEF Texto
<1>3. propio' \in BOOLEAN
  BY DEF Texto, TypeOK
<1>4. QED
  BY <1>2, <1>3 DEF Texto, TypeOK, usuario


LEMMA HaceBien ==
  ASSUME NEW op \in {"registrar", "entrar"} \cup Operables, NEW o, o.de \in Origenes,
         propio' \in BOOLEAN, Hace(op, o)
  PROVE  ultima' \in [op : {"ninguna", "registrar", "entrar"} \cup Operables,
                      opcion : Origenes \cup {"nadie"}, propio : BOOLEAN]
  BY DEF Hace


\* The shape of what an operation leaves in ultima.
TipoUltima == [op : {"ninguna", "registrar", "entrar"} \cup Operables,
               opcion : Origenes \cup {"nadie"}, propio : BOOLEAN]
TipoCausas == {"respuesta", "larga", "justa", "fin"}

(***************************************************************************)
(* The parts of TypeOK, which the actions are proved to keep one by one.   *)
(***************************************************************************)
LEMMA Partes ==
  ASSUME donde' \in Preguntas \cup {"cerrado"}, stdin' \in Lineas, fin' \in BOOLEAN,
         opcion' \in [v : Signos("principal"), de : Origenes],
         str' \in [v : Signos("menu"), de : Origenes],
         propio' \in BOOLEAN, ultima' \in TipoUltima, causas' \subseteq TipoCausas
  PROVE  TypeOK'
  BY Zenon DEF TypeOK, Lineas, TipoUltima, TipoCausas

LEMMA Tenidas ==
  ASSUME TypeOK
  PROVE  /\ donde \in Preguntas \cup {"cerrado"} /\ stdin \in Lineas /\ fin \in BOOLEAN
         /\ opcion \in [v : Signos("principal"), de : Origenes]
         /\ str \in [v : Signos("menu"), de : Origenes]
         /\ propio \in BOOLEAN /\ ultima \in TipoUltima /\ causas \subseteq TipoCausas
  BY Zenon DEF TypeOK, Lineas, TipoUltima, TipoCausas

LEMMA TipoElige ==
  ASSUME Elige, opcion' \in [v : Signos("principal"), de : Origenes]
  PROVE  donde' \in Preguntas \cup {"cerrado"} /\ propio' \in BOOLEAN
  BY DEF Elige, Preguntas, Textos, Formulario, Sesion, Signos, Cifras

LEMMA TipoPrincipal ==
  ASSUME TypeOK, Principal
  PROVE  TypeOK'
<1> USE Tenidas
<1>1. fin' \in BOOLEAN /\ str' \in [v : Signos("menu"), de : Origenes] /\ ultima' \in TipoUltima
  BY DEF Principal
<1>2. donde = "principal"
  BY DEF Principal
<1>3. CASE /\ stdin' = Nada
           /\ UNCHANGED <<donde, causas, opcion, propio>>
  BY <1>1, <1>3, Partes DEF Lineas
<1>4. CASE /\ \E k \in 1 .. stdin.n, c \in Signos(donde) :
                /\ Lee(k + 1)
                /\ opcion' = [v |-> c, de |-> De(donde)]
           /\ Elige
           /\ UNCHANGED causas
  <2>1. PICK k \in 1 .. stdin.n, c \in Signos(donde) :
          /\ Lee(k + 1)
          /\ opcion' = [v |-> c, de |-> De(donde)]
    BY <1>4
  <2>2. stdin' \in Lineas
    <3>1. k + 1 \in Nat
      BY DEF Lineas, Nada
    <3>2. QED
      BY <2>1, <3>1, LeeEsLinea
  <2>3. opcion' \in [v : Signos("principal"), de : Origenes]
    BY <1>2, <2>1 DEF Signos, De, Origenes
  <2>4. QED
    BY <1>1, <1>4, <2>2, <2>3, TipoElige, Partes
<1>5. CASE /\ Hay /\ stdin.n > 0
           /\ stdin' = Tras(1)
           /\ causas' = IF stdin.para = "principal" THEN causas \cup {"respuesta"} ELSE causas
           /\ opcion' \in Queda(opcion)
           /\ Elige
  <2>1. stdin' \in Lineas
    BY <1>5, TrasEsLinea
  <2>2. opcion' \in [v : Signos("principal"), de : Origenes]
    BY <1>2, <1>5, QuedaBien
  <2>3. causas' \subseteq TipoCausas
    BY <1>5 DEF TipoCausas
  <2>4. QED
    BY <1>1, <1>5, <2>1, <2>2, <2>3, TipoElige, Partes
<1>6. CASE /\ opcion' \in Queda(opcion)
           /\ Elige
           /\ UNCHANGED <<stdin, causas>>
  <2>1. opcion' \in [v : Signos("principal"), de : Origenes]
    BY <1>2, <1>6, QuedaBien
  <2>2. QED
    BY <1>1, <1>6, <2>1, TipoElige, Partes
<1>7. QED
  BY <1>3, <1>4, <1>5, <1>6 DEF Principal

LEMMA TipoRellenar ==
  ASSUME TypeOK, NEW p \in Textos, NEW q \in Preguntas, Rellenar(p, q)
  PROVE  TypeOK'
  BY Tenidas, TipoTexto, Partes DEF Rellenar, TipoCausas

LEMMA TipoRegistrar ==
  ASSUME TypeOK, Registrar
  PROVE  TypeOK'
<1> USE Tenidas
<1>1. Texto("contrasena") /\ "contrasena" \in Textos
  BY DEF Registrar, Textos, Formulario
<1>2. ultima' \in TipoUltima
  BY <1>1, TipoTexto, HaceBien DEF Registrar, TipoUltima
<1>3. donde' \in Preguntas
  BY DEF Registrar, Preguntas
<1>4. QED
  BY <1>1, <1>2, <1>3, TipoTexto, Partes DEF Registrar, TipoCausas

LEMMA TipoSesion ==
  ASSUME TypeOK, IniciarSesion
  PROVE  TypeOK'
<1> USE Tenidas
<1>1. Texto("login_contrasena") /\ "login_contrasena" \in Textos
  BY DEF IniciarSesion, Textos, Sesion
<1>2. donde' \in Preguntas
  BY DEF IniciarSesion, Preguntas, Opciones
<1>3. ultima' \in TipoUltima
  <2>1. CASE Hace("entrar", opcion)
    BY <1>1, <2>1, TipoTexto, HaceBien DEF TipoUltima
  <2>2. CASE UNCHANGED ultima
    BY <2>2
  <2>3. QED
    BY <2>1, <2>2 DEF IniciarSesion
<1>4. str' \in [v : Signos("menu"), de : Origenes]
  BY DEF IniciarSesion, Basura, Signos, Origenes
<1>5. QED
  BY <1>1, <1>2, <1>3, <1>4, TipoTexto, Partes DEF TipoCausas

LEMMA TipoMenu ==
  ASSUME TypeOK, Menu
  PROVE  TypeOK'
<1> USE Tenidas
<1>1. fin' \in BOOLEAN /\ causas' \subseteq TipoCausas /\ propio' \in BOOLEAN
      /\ opcion' \in [v : Signos("principal"), de : Origenes] /\ ultima' \in TipoUltima
  BY DEF Menu, usuario
<1>2. stdin' \in Lineas
  BY HaySitio, LeeEsLinea DEF Menu, Opciones
<1>3. str' \in [v : Signos("menu"), de : Origenes]
  BY QuedaBien DEF Menu, De, Origenes
<1>4. donde' \in Preguntas
  BY DEF Menu, Preguntas, Opciones, Textos, Operables
<1>5. QED
  BY <1>1, <1>2, <1>3, <1>4, Partes

LEMMA TipoBuscar ==
  ASSUME TypeOK, Buscar
  PROVE  TypeOK'
<1> USE Tenidas
<1>1. fin' \in BOOLEAN /\ causas' \subseteq TipoCausas /\ propio' \in BOOLEAN
      /\ opcion' \in [v : Signos("principal"), de : Origenes] /\ ultima' \in TipoUltima
      /\ str' \in [v : Signos("menu"), de : Origenes]
  BY DEF Buscar, usuario
<1>2. stdin' \in Lineas
  BY HaySitio, LeeEsLinea DEF Buscar, Opciones
<1>3. donde' \in Preguntas
  BY DEF Buscar, Preguntas, Opciones, Textos, Busquedas
<1>4. QED
  BY <1>1, <1>2, <1>3, Partes

LEMMA TipoBuscarTexto ==
  ASSUME TypeOK, NEW p \in Busquedas, BuscarTexto(p)
  PROVE  TypeOK'
<1>1. p \in Textos
  BY DEF Textos
<1>2. donde' \in Preguntas
  BY DEF BuscarTexto, Preguntas, Opciones
<1>3. QED
  BY <1>1, <1>2, Tenidas, TipoTexto, Partes DEF BuscarTexto, TipoCausas

LEMMA TipoOperar ==
  ASSUME TypeOK, NEW p \in Operables, Operar(p)
  PROVE  TypeOK'
<1> USE Tenidas
<1>1. Texto(p) /\ p \in Textos
  BY DEF Operar, Textos
<1>2. ultima' \in TipoUltima
  BY <1>1, TipoTexto, HaceBien DEF Operar, TipoUltima
<1>3. donde' \in Preguntas
  BY DEF Operar, Preguntas, Opciones
<1>4. QED
  BY <1>1, <1>2, <1>3, TipoTexto, Partes DEF Operar, TipoCausas

LEMMA TipoEnter ==
  ASSUME TypeOK, Enter
  PROVE  TypeOK'
<1> USE Tenidas
<1>1. stdin' \in Lineas
  BY LeeEsLinea DEF Enter
<1>2. donde' \in Preguntas /\ str' \in [v : Signos("menu"), de : Origenes]
  BY DEF Enter, Preguntas, Basura, Signos, Origenes
<1>3. QED
  BY <1>1, <1>2, Partes DEF Enter, usuario

LEMMA TipoTeclear ==
  ASSUME TypeOK, NEW n \in Largos, Teclear(n)
  PROVE  TypeOK'
<1> USE Tenidas
<1>1. stdin' \in Lineas
  BY ConstantesOK DEF Teclear, Lineas
<1>2. causas' \subseteq TipoCausas
  BY DEF Teclear, Desmedida, DeMas, TipoCausas
<1>3. QED
  BY <1>1, <1>2, Partes DEF Teclear

LEMMA TipoCerrar ==
  ASSUME TypeOK, CerrarEntrada
  PROVE  TypeOK'
  BY Tenidas, Partes DEF CerrarEntrada, TipoCausas

LEMMA TipoPaso == TypeOK /\ [Next]_vars => TypeOK'
<1> SUFFICES ASSUME TypeOK, [Next]_vars PROVE TypeOK'
  OBVIOUS
<1>1. CASE Principal
  BY <1>1, TipoPrincipal
<1>2. CASE \/ Rellenar("nombre", "apellido") \/ Rellenar("apellido", "correo")
           \/ Rellenar("correo", "telefono") \/ Rellenar("telefono", "contrasena")
           \/ Rellenar("login_correo", "login_contrasena")
  BY <1>2, TipoRellenar DEF Textos, Formulario, Sesion, Preguntas
<1>3. CASE Registrar
  BY <1>3, TipoRegistrar
<1>4. CASE IniciarSesion
  BY <1>4, TipoSesion
<1>5. CASE Menu
  BY <1>5, TipoMenu
<1>6. CASE Buscar
  BY <1>6, TipoBuscar
<1>7. CASE Enter
  BY <1>7, TipoEnter
<1>8. CASE \E p \in Busquedas : BuscarTexto(p)
  BY <1>8, TipoBuscarTexto
<1>9. CASE \E p \in Operables : Operar(p)
  BY <1>9, TipoOperar
<1>10. CASE \E n \in Largos : Teclear(n)
  BY <1>10, TipoTeclear
<1>11. CASE CerrarEntrada
  BY <1>11, TipoCerrar
<1>12. CASE UNCHANGED vars
  BY <1>12, Tenidas, Partes DEF vars, usuario
<1>13. QED
  BY <1>1, <1>2, <1>3, <1>4, <1>5, <1>6, <1>7, <1>8, <1>9, <1>10, <1>11, <1>12
  DEF Next, Programa

(***************************************************************************)
(* TypeOK of Entrada holds for lines of any length: no reader goes past    *)
(* the line it reads.                                                      *)
(***************************************************************************)
THEOREM Tipos == Spec => []TypeOK
  BY TipoInit, TipoPaso, PTL DEF Spec

-----------------------------------------------------------------------------
(* A loan or a return is the one chosen, while no line is too long *)

\* The questions that may meet what main or Enter left.
Abiertas == {"principal", "nombre", "login_correo", "cerrado"}

(***************************************************************************)
(* What is left of a line fits what reads it next, or is its end.          *)
(***************************************************************************)
CabeLoQueQueda ==
  Hay =>
    \/ /\ stdin.para = donde
       /\ donde \in {"principal", "enter"} => stdin.n <= 49
       /\ donde \in Textos \cup Opciones => stdin.n <= Cabida(donde)
    \/ stdin.n = 0
    \/ donde \in Abiertas /\ stdin.n < 49

Elegida(o) ==
  \/ o = "propia"
  \/ o \in {"vieja", "basura"} /\ fin

InvElegido ==
  "larga" \notin causas =>
    /\ CabeLoQueQueda
    /\ donde \in Operables => Elegida(str.de)
    /\ ultima.op \in Operables => Elegida(ultima.opcion)

LEMMA Cabidas ==
  /\ Cabida("nombre") = 49 /\ Cabida("apellido") = 49 /\ Cabida("correo") = 99
  /\ Cabida("telefono") = 19 /\ Cabida("contrasena") = 49
  /\ Cabida("login_correo") = 99 /\ Cabida("login_contrasena") = 49
  /\ Cabida("titulo") = 99 /\ Cabida("autor") = 29
  /\ \A p \in DeISBN : Cabida(p) = 13
  /\ Cabida("menu") = 9 /\ Cabida("buscar") = 4
  BY DEF Cabida, DeISBN, Operables

(***************************************************************************)
(* A text or an option leaves at most the end of its line.                 *)
(***************************************************************************)
LEMMA Agota ==
  ASSUME TypeOK, CabeLoQueQueda, NEW p \in Textos \cup Opciones, donde = p, Lee(Cabida(p))
  PROVE  stdin'.n = 0
<1>1. Hay /\ stdin' = Tras(Cabida(p)) /\ stdin.n \in Nat /\ Cabida(p) \in Nat
  BY HaySitio, Tenidas DEF Lee, Lineas, Nada
<1>2. stdin.n <= Cabida(p)
  <2>1. p \notin {"principal", "enter", "cerrado"}
    BY DEF Textos, Opciones, Formulario, Sesion, Busquedas, Operables
  <2>2. CASE stdin.n = 0
    BY <2>2, <1>1
  <2>3. CASE p \in {"nombre", "login_correo"} /\ stdin.n < 49
    BY <2>3, <1>1, Cabidas
  <2>4. QED
    BY <1>1, <2>1, <2>2, <2>3 DEF CabeLoQueQueda, Abiertas
<1>3. CASE Cabida(p) > stdin.n
  BY <1>1, <1>3 DEF Tras, Nada
<1>4. CASE Cabida(p) = stdin.n
  BY <1>1, <1>4 DEF Tras
<1>5. QED
  BY <1>1, <1>2, <1>3, <1>4

LEMMA AgotaTexto ==
  ASSUME TypeOK, CabeLoQueQueda, NEW p \in Textos, Texto(p)
  PROVE  stdin'.n = 0
<1>1. CASE Lee(Cabida(p))
  BY <1>1, Agota DEF Texto
<1>2. CASE Termino /\ UNCHANGED stdin
  BY <1>2 DEF Termino, Hay, Nada
<1>3. QED
  BY <1>1, <1>2 DEF Texto

LEMMA ElegidoPrincipal ==
  ASSUME TypeOK, InvElegido, Principal
  PROVE  InvElegido'
<1> SUFFICES ASSUME "larga" \notin causas'
             PROVE  /\ CabeLoQueQueda'
                    /\ (donde \in Operables => Elegida(str.de))'
                    /\ (ultima.op \in Operables => Elegida(ultima.opcion))'
  BY DEF InvElegido
<1>1. "larga" \notin causas /\ CabeLoQueQueda
  BY DEF InvElegido, Principal
<1>2. fin' = fin /\ ultima' = ultima /\ str' = str /\ donde = "principal"
  BY DEF Principal
<1>3. (ultima.op \in Operables => Elegida(ultima.opcion))'
  BY <1>1, <1>2 DEF InvElegido, Elegida
<1>4. donde' \in Abiertas
  BY <1>2 DEF Principal, Elige, Abiertas
<1>5. stdin.n \in Nat /\ stdin \in Lineas
  BY Tenidas DEF Lineas, Nada
<1>6. Hay => stdin.n <= 49
  BY <1>1, <1>2, <1>5 DEF CabeLoQueQueda
<1>7. stdin'.n = 0 \/ stdin'.n < 49
  <2>1. CASE stdin' = Nada
    BY <2>1 DEF Nada
  <2>2. CASE \E k \in 1 .. stdin.n, c \in Signos(donde) : Lee(k + 1)
    <3>1. PICK k \in 1 .. stdin.n : Lee(k + 1)
      BY <2>2
    <3>2. Hay /\ stdin' = Tras(k + 1) /\ k \in Nat /\ k >= 1
      BY <3>1, <1>5 DEF Lee
    <3>3. QED
      BY <3>2, <1>5, <1>6 DEF Tras, Nada
  <2>3. CASE Hay /\ stdin.n > 0 /\ stdin' = Tras(1)
    BY <2>3, <1>5, <1>6 DEF Tras, Nada
  <2>4. CASE Termino /\ UNCHANGED stdin
    BY <2>4 DEF Termino, Hay, Nada
  <2>5. QED
    BY <2>1, <2>2, <2>3, <2>4 DEF Principal
<1>8. CabeLoQueQueda'
  BY <1>4, <1>7 DEF CabeLoQueQueda
<1>9. donde' \notin Operables
  BY <1>4 DEF Abiertas, Operables
<1>10. QED
  BY <1>3, <1>8, <1>9

LEMMA ElegidoTexto ==
  ASSUME TypeOK, InvElegido, NEW p \in Textos, Texto(p), donde' \notin Operables,
         ultima' = ultima
  PROVE  InvElegido'
<1>1. causas' = causas /\ fin' = fin
  BY DEF Texto, usuario
<1>2. "larga" \notin causas => stdin'.n = 0
  BY AgotaTexto DEF InvElegido
<1>3. QED
  BY <1>1, <1>2 DEF InvElegido, CabeLoQueQueda, Elegida

LEMMA ElegidoMenu ==
  ASSUME TypeOK, InvElegido, Menu
  PROVE  InvElegido'
<1> SUFFICES ASSUME "larga" \notin causas
             PROVE  /\ CabeLoQueQueda'
                    /\ (donde \in Operables => Elegida(str.de))'
                    /\ (ultima.op \in Operables => Elegida(ultima.opcion))'
  BY DEF InvElegido, Menu, usuario
<1>1. CabeLoQueQueda /\ donde = "menu"
  BY DEF InvElegido, Menu
<1>2. fin' = fin /\ ultima' = ultima
  BY DEF Menu, usuario
<1>3. CASE /\ Lee(Cabida("menu"))
           /\ \E c \in Signos("menu") :
                /\ stdin.n = 0 => c = "otra"
                /\ str' = [v |-> c, de |-> De("menu")]
  <2>1. stdin'.n = 0
    BY <1>1, <1>3, Agota DEF Opciones
  <2>2. CASE stdin.n = 0
    <3>1. str'.v = "otra"
      BY <1>3, <2>2
    <3>2. donde' = "menu"
      BY <3>1 DEF Menu
    <3>3. (ultima.op \in Operables => Elegida(ultima.opcion))'
      BY <1>2 DEF InvElegido, Elegida
    <3>4. (CabeLoQueQueda)'
      BY <2>1 DEF CabeLoQueQueda
    <3>5. donde' \notin Operables
      BY <3>2 DEF Operables
    <3>6. QED
      BY <3>3, <3>4, <3>5
  <2>3. CASE stdin.n # 0
    <3>1. stdin.para = "menu"
      BY <1>1, <1>3, <2>3 DEF CabeLoQueQueda, Abiertas, Lee
    <3>2. str'.de = "propia"
      BY <1>3, <3>1 DEF De
    <3>3. (ultima.op \in Operables => Elegida(ultima.opcion))'
      BY <1>2 DEF InvElegido, Elegida
    <3>4. (CabeLoQueQueda)'
      BY <2>1 DEF CabeLoQueQueda
    <3>5. (Elegida(str.de))'
      BY <3>2 DEF Elegida
    <3>6. QED
      BY <3>3, <3>4, <3>5
  <2>4. QED
    BY <2>2, <2>3
<1>4. CASE Termino /\ str' \in Queda(str) /\ UNCHANGED stdin
  <2>1. str'.de \in {"vieja", "basura"}
    BY <1>4 DEF Queda
  <2>2. ~ Hay' /\ fin
    BY <1>4 DEF Termino, Hay
  <2>3. QED
    BY <1>2, <2>1, <2>2 DEF InvElegido, CabeLoQueQueda, Elegida
<1>5. QED
  BY <1>3, <1>4 DEF Menu

LEMMA ElegidoBuscar ==
  ASSUME TypeOK, InvElegido, Buscar
  PROVE  InvElegido'
<1>1. causas' = causas /\ fin' = fin /\ ultima' = ultima /\ donde = "buscar"
  BY DEF Buscar, usuario
<1>2. "larga" \notin causas => stdin'.n = 0
  <2>1. CASE Lee(Cabida("buscar"))
    BY <1>1, <2>1, Agota DEF InvElegido, Opciones
  <2>2. CASE Termino /\ UNCHANGED stdin
    BY <2>2 DEF Termino, Hay, Nada
  <2>3. QED
    BY <2>1, <2>2 DEF Buscar
<1>3. donde' \notin Operables
  BY DEF Buscar, Operables
<1>4. QED
  BY <1>1, <1>2, <1>3 DEF InvElegido, CabeLoQueQueda, Elegida

LEMMA ElegidoOperar ==
  ASSUME TypeOK, InvElegido, NEW p \in Operables, Operar(p)
  PROVE  InvElegido'
<1>1. causas' = causas /\ fin' = fin /\ Texto(p) /\ p \in Textos /\ donde = p
  BY DEF Operar, Texto, usuario, Textos
<1>2. "larga" \notin causas => stdin'.n = 0
  BY <1>1, AgotaTexto DEF InvElegido
<1>3. donde' \notin Operables
  BY DEF Operar, Operables
<1>4. "larga" \notin causas => Elegida(ultima'.opcion)
  BY <1>1 DEF InvElegido, Operar, Hace
<1>5. QED
  BY <1>1, <1>2, <1>3, <1>4 DEF InvElegido, CabeLoQueQueda, Elegida

LEMMA ElegidoNoOpera ==
  ASSUME TypeOK, InvElegido, Registrar \/ IniciarSesion
  PROVE  InvElegido'
<1>1. PICK p \in {"contrasena", "login_contrasena"} : Texto(p)
  BY DEF Registrar, IniciarSesion
<1>2. causas' = causas /\ fin' = fin /\ p \in Textos
  BY <1>1 DEF Texto, usuario, Textos, Formulario, Sesion
<1>3. "larga" \notin causas => stdin'.n = 0
  BY <1>1, <1>2, AgotaTexto DEF InvElegido
<1>4. donde' \notin Operables
  BY DEF Registrar, IniciarSesion, Operables
<1>5. ultima' = ultima \/ ultima'.op \notin Operables
  BY DEF Registrar, IniciarSesion, Hace, Operables
<1>6. QED
  BY <1>2, <1>3, <1>4, <1>5 DEF InvElegido, CabeLoQueQueda, Elegida

LEMMA ElegidoEnter ==
  ASSUME TypeOK, InvElegido, Enter
  PROVE  InvElegido'
<1>1. causas' = causas /\ fin' = fin /\ ultima' = ultima /\ donde = "enter" /\ donde' = "principal"
  BY DEF Enter, usuario
<1>2. stdin.n \in Nat
  BY Tenidas DEF Lineas, Nada
<1>3. "larga" \notin causas => stdin'.n = 0 \/ stdin'.n < 49
  <2>1. CASE Lee(1)
    BY <1>1, <1>2, <2>1 DEF InvElegido, CabeLoQueQueda, Abiertas, Lee, Tras, Nada
  <2>2. CASE Termino /\ UNCHANGED stdin
    BY <2>2 DEF Termino, Hay, Nada
  <2>3. QED
    BY <2>1, <2>2 DEF Enter
<1>4. QED
  BY <1>1, <1>3 DEF InvElegido, CabeLoQueQueda, Abiertas, Elegida, Operables

LEMMA ElegidoTeclear ==
  ASSUME TypeOK, InvElegido, NEW n \in Largos, Teclear(n)
  PROVE  InvElegido'
<1>1. fin' = fin /\ ultima' = ultima /\ donde' = donde /\ str' = str
      /\ stdin' = [n |-> n, para |-> donde] /\ n \in Nat
  BY ConstantesOK DEF Teclear
<1>2. causas \subseteq causas'
  BY DEF Teclear
<1>3. ASSUME "larga" \notin causas'
      PROVE  /\ donde \in {"principal", "enter"} => n <= 49
             /\ donde \in Textos \cup Opciones => n <= Cabida(donde)
  <2>1. CASE donde = "principal" \/ donde = "enter"
    <3>1. "larga" \notin DeMas(1, n) \/ "larga" \notin DeMas(0, n)
      BY <1>3, <2>1 DEF Teclear
    <3>2. n <= 49
      BY <1>1, <3>1, Cabidas DEF DeMas
    <3>3. QED
      BY <2>1, <3>2 DEF Textos, Opciones, Formulario, Sesion, Busquedas, Operables
  <2>2. CASE donde \notin {"principal", "enter"}
    <3>1. "larga" \notin Desmedida(donde, n)
      BY <1>3, <2>2 DEF Teclear
    <3>2. CASE donde \in DeISBN
      BY <1>1, <3>1, <3>2, <2>2, Cabidas DEF Desmedida, LargoISBN
    <3>3. CASE donde \notin DeISBN
      BY <1>1, <3>1, <3>3, <2>2, HaySitio DEF Desmedida
    <3>4. QED
      BY <3>2, <3>3
  <2>3. QED
    BY <2>1, <2>2
<1>4. QED
  BY <1>1, <1>2, <1>3 DEF InvElegido, CabeLoQueQueda, Elegida

LEMMA ElegidoPaso == TypeOK /\ InvElegido /\ [Next]_vars => InvElegido'
<1> SUFFICES ASSUME TypeOK, InvElegido, [Next]_vars PROVE InvElegido'
  OBVIOUS
<1>1. CASE Principal
  BY <1>1, ElegidoPrincipal
<1>2. CASE \/ Rellenar("nombre", "apellido") \/ Rellenar("apellido", "correo")
           \/ Rellenar("correo", "telefono") \/ Rellenar("telefono", "contrasena")
           \/ Rellenar("login_correo", "login_contrasena")
  BY <1>2, ElegidoTexto DEF Rellenar, Textos, Formulario, Sesion, Operables
<1>3. CASE Registrar \/ IniciarSesion
  BY <1>3, ElegidoNoOpera
<1>4. CASE Menu
  BY <1>4, ElegidoMenu
<1>5. CASE Buscar
  BY <1>5, ElegidoBuscar
<1>6. CASE Enter
  BY <1>6, ElegidoEnter
<1>7. CASE \E p \in Busquedas : BuscarTexto(p)
  BY <1>7, ElegidoTexto DEF BuscarTexto, Textos, Operables
<1>8. CASE \E p \in Operables : Operar(p)
  BY <1>8, ElegidoOperar
<1>9. CASE \E n \in Largos : Teclear(n)
  BY <1>9, ElegidoTeclear
<1>10. CASE CerrarEntrada
  BY <1>10 DEF CerrarEntrada, InvElegido, CabeLoQueQueda, Hay, Elegida
<1>11. CASE UNCHANGED vars
  BY <1>11 DEF vars, usuario, InvElegido, CabeLoQueQueda, Hay, Elegida
<1>12. QED
  BY <1>1, <1>2, <1>3, <1>4, <1>5, <1>6, <1>7, <1>8, <1>9, <1>10, <1>11
  DEF Next, Programa

LEMMA ElegidoInit == Init => InvElegido
  BY DEF Init, InvElegido, CabeLoQueQueda, Hay, Operables

(***************************************************************************)
(* PrestamoElegido for lines of any length: while none is longer than what *)
(* reads it, no shift of the answers reaches an operation of the menu.     *)
(***************************************************************************)
THEOREM EligeQuienOpera == Spec => []PrestamoElegido
<1>1. InvElegido => PrestamoElegido
  BY DEF InvElegido, Elegida, PrestamoElegido
<1>2. Spec => []InvElegido
  BY Tipos, ElegidoInit, ElegidoPaso, PTL DEF Spec
<1>3. QED
  BY <1>1, <1>2, PTL

-----------------------------------------------------------------------------
(* A loan or a return has the ISBN typed for it, while texts fit *)

(***************************************************************************)
(* A line that leaves nothing to the next question, but the end of an ISBN *)
(* of 13 signs.                                                            *)
(***************************************************************************)
Ajustada(p, n) ==
  /\ p \in DeISBN => n <= LargoISBN
  /\ p \in (Textos \cup Opciones) \ DeISBN => n < Cabida(p)

LEMMA Ajusta ==
  ASSUME TypeOK, NEW p \in Textos \cup Opciones, Lee(Cabida(p)),
         Ajustada(p, stdin.n) \/ stdin.n = 0
  PROVE  stdin'.n = 0 /\ (p \notin DeISBN => ~ Hay')
<1>1. Hay /\ stdin' = Tras(Cabida(p)) /\ stdin.n \in Nat /\ Cabida(p) \in Nat /\ Cabida(p) > 0
  BY HaySitio, Tenidas DEF Lee, Lineas, Nada
<1>2. CASE p \in DeISBN
  <2>1. Cabida(p) = 13 /\ stdin.n <= 13
    BY <1>1, <1>2, Cabidas DEF Ajustada, LargoISBN
  <2>2. QED
    BY <1>1, <1>2, <2>1 DEF Tras, Nada
<1>3. CASE p \notin DeISBN
  <2>1. stdin.n < Cabida(p)
    BY <1>1, <1>3 DEF Ajustada
  <2>2. QED
    BY <1>1, <2>1 DEF Tras, Nada, Hay
<1>4. QED
  BY <1>2, <1>3

LEMMA MideBien ==
  ASSUME NEW n \in Nat, Teclear(n), causas' \cap {"larga", "justa"} = {}
  PROVE  Ajustada(donde, n) /\ (donde \in {"principal", "enter"} => n <= 49)
<1>1. CASE donde = "principal" \/ donde = "enter"
  <2>1. "larga" \notin DeMas(1, n) \/ "larga" \notin DeMas(0, n)
    BY <1>1 DEF Teclear
  <2>2. n <= 49
    BY <2>1, Cabidas DEF DeMas
  <2>3. QED
    BY <1>1, <2>2 DEF Ajustada, Textos, Opciones, Formulario, Sesion, Busquedas, Operables, DeISBN
<1>2. CASE donde \notin {"principal", "enter"}
  <2>1. Desmedida(donde, n) \cap {"larga", "justa"} = {}
    BY <1>2 DEF Teclear
  <2>2. CASE donde \in DeISBN
    BY <2>1, <2>2, <1>2 DEF Desmedida, LargoISBN, Ajustada
  <2>3. CASE donde \notin DeISBN
    BY <2>1, <2>3, <1>2, HaySitio DEF Desmedida, Ajustada
  <2>4. QED
    BY <2>2, <2>3
<1>3. QED
  BY <1>1, <1>2

(***************************************************************************)
(* Whose is what is left of a line, and how much of it: that of main and   *)
(* of Enter may go on into the first text of a form.                       *)
(***************************************************************************)
RestoPropio ==
  Hay =>
    \/ /\ stdin.para = donde
       /\ Ajustada(donde, stdin.n)
       /\ donde \in {"principal", "enter"} => stdin.n <= 49
    \/ donde \in Abiertas /\ stdin.n < 49
    \/ donde = "menu" /\ stdin.n = 0

InvPrestamo ==
  causas \subseteq {"respuesta"} =>
    /\ ~ fin
    /\ RestoPropio
    /\ donde \in Operables => propio /\ str.de = "propia"
    /\ ultima.op \in Operables => ultima.propio /\ ultima.opcion = "propia"

LEMMA PrestamoPrincipal ==
  ASSUME TypeOK, InvPrestamo, Principal
  PROVE  InvPrestamo'
<1> SUFFICES ASSUME causas' \subseteq {"respuesta"}
             PROVE  InvPrestamo'
  BY DEF InvPrestamo
<1>1. causas \subseteq {"respuesta"} /\ fin' = fin /\ ultima' = ultima /\ str' = str
      /\ donde = "principal"
  BY DEF Principal
<1>2. donde' \in Abiertas /\ donde' \notin Operables
  BY <1>1 DEF Principal, Elige, Abiertas, Operables
<1>3. stdin.n \in Nat /\ (Hay => stdin.n <= 49)
  BY <1>1, Tenidas DEF InvPrestamo, RestoPropio, Lineas, Nada
<1>4. ~ Hay' \/ stdin'.n < 49
  <2>1. CASE stdin' = Nada
    BY <2>1 DEF Hay
  <2>2. CASE \E k \in 1 .. stdin.n, c \in Signos(donde) : Lee(k + 1)
    <3>1. PICK k \in 1 .. stdin.n : Lee(k + 1)
      BY <2>2
    <3>2. Hay /\ stdin' = Tras(k + 1) /\ k \in Nat /\ k >= 1
      BY <3>1, <1>3 DEF Lee
    <3>3. QED
      BY <3>2, <1>3 DEF Tras, Nada
  <2>3. CASE Hay /\ stdin.n > 0 /\ stdin' = Tras(1)
    BY <2>3, <1>3 DEF Tras, Nada
  <2>4. CASE Termino /\ UNCHANGED stdin
    BY <2>4 DEF Termino, Hay
  <2>5. QED
    BY <2>1, <2>2, <2>3, <2>4 DEF Principal
<1>5. QED
  BY <1>1, <1>2, <1>4 DEF InvPrestamo, RestoPropio

(***************************************************************************)
(* A text takes its own line, or what main and Enter left.                 *)
(***************************************************************************)
LEMMA PrestamoTexto ==
  ASSUME TypeOK, InvPrestamo, NEW p \in Textos, Texto(p), causas \subseteq {"respuesta"}
  PROVE  /\ causas' = causas /\ fin' = fin
         /\ ~ Hay' \/ (p \in DeISBN /\ stdin'.n = 0)
         /\ p \in Operables => propio'
<1>1. causas' = causas /\ fin' = fin /\ donde = p /\ ~ Termino
  BY DEF Texto, usuario, InvPrestamo, Termino
<1>2. Lee(Cabida(p)) /\ propio' = (propio /\ stdin.para = p) /\ Hay
  BY <1>1 DEF Texto, Lee
<1>3. p \notin {"principal", "cerrado", "menu"}
  BY DEF Textos, Formulario, Sesion, Busquedas, Operables
<1>4. stdin.n \in Nat
  BY Tenidas DEF Lineas, Nada
<1>5. Ajustada(p, stdin.n)
  <2>1. CASE stdin.para = donde /\ Ajustada(donde, stdin.n)
    BY <1>1, <2>1
  <2>2. CASE p \in {"nombre", "login_correo"} /\ stdin.n < 49
    BY <1>4, <2>2, Cabidas DEF Ajustada, DeISBN, Operables
  <2>3. QED
    BY <1>1, <1>2, <1>3, <2>1, <2>2 DEF InvPrestamo, RestoPropio, Abiertas
<1>6. p \in Operables => stdin.para = p
  BY <1>1, <1>2, <1>3 DEF InvPrestamo, RestoPropio, Abiertas, Operables
<1>7. p \in Operables => propio
  BY <1>1 DEF InvPrestamo
<1>8. QED
  BY <1>1, <1>2, <1>5, <1>6, <1>7, Ajusta

LEMMA PrestamoNoOpera ==
  ASSUME TypeOK, InvPrestamo, NEW p \in Textos, Texto(p),
         donde' = "menu" \/ p \notin DeISBN, donde' \notin Operables,
         ultima' = ultima \/ ultima'.op \notin Operables
  PROVE  InvPrestamo'
<1>1. causas' = causas
  BY DEF Texto, usuario
<1>2. QED
  BY <1>1, PrestamoTexto DEF InvPrestamo, RestoPropio

LEMMA PrestamoOperar ==
  ASSUME TypeOK, InvPrestamo, NEW p \in Operables, Operar(p)
  PROVE  InvPrestamo'
<1>1. p \in Textos /\ Texto(p) /\ donde = p /\ causas' = causas
  BY DEF Operar, Texto, Textos, usuario
<1>2. donde' = "menu" /\ ultima'.propio = propio' /\ ultima'.opcion = str.de
  BY DEF Operar, Hace
<1>3. QED
  BY <1>1, <1>2, PrestamoTexto DEF InvPrestamo, RestoPropio, Operables

LEMMA PrestamoMenu ==
  ASSUME TypeOK, InvPrestamo, Menu
  PROVE  InvPrestamo'
<1> SUFFICES ASSUME causas \subseteq {"respuesta"}
             PROVE  InvPrestamo'
  BY DEF InvPrestamo, Menu, usuario
<1>1. causas' = causas /\ fin' = fin /\ ultima' = ultima /\ donde = "menu" /\ propio'
  BY DEF Menu, usuario
<1>2. ~ Termino
  BY DEF InvPrestamo, Termino
<1>3. PICK c \in Signos("menu") :
        Lee(Cabida("menu")) /\ (stdin.n = 0 => c = "otra") /\ str' = [v |-> c, de |-> De("menu")]
  BY <1>2 DEF Menu
<1>4. (stdin.para = "menu" /\ Ajustada("menu", stdin.n)) \/ stdin.n = 0
  BY <1>1, <1>3 DEF InvPrestamo, RestoPropio, Abiertas, Lee
<1>5. ~ Hay'
  BY <1>3, <1>4, Ajusta DEF Opciones, DeISBN, Operables
<1>6. donde' \in Operables => str'.de = "propia"
  <2>1. CASE stdin.n = 0
    <3>1. str'.v = "otra"
      BY <1>3, <2>1
    <3>2. donde' = "menu"
      BY <3>1 DEF Menu
    <3>3. QED
      BY <3>2 DEF Operables
  <2>2. CASE stdin.para = "menu"
    BY <1>3, <2>2 DEF De
  <2>3. QED
    BY <1>4, <2>1, <2>2
<1>7. QED
  BY <1>1, <1>5, <1>6 DEF InvPrestamo, RestoPropio

LEMMA PrestamoBuscar ==
  ASSUME TypeOK, InvPrestamo, Buscar
  PROVE  InvPrestamo'
<1> SUFFICES ASSUME causas \subseteq {"respuesta"}
             PROVE  InvPrestamo'
  BY DEF InvPrestamo, Buscar, usuario
<1>1. causas' = causas /\ fin' = fin /\ ultima' = ultima /\ donde = "buscar"
      /\ donde' \notin Operables
  BY DEF Buscar, usuario, Operables
<1>2. Lee(Cabida("buscar"))
  BY DEF Buscar, InvPrestamo, Termino
<1>3. Ajustada("buscar", stdin.n)
  BY <1>1, <1>2 DEF InvPrestamo, RestoPropio, Abiertas, Lee
<1>4. ~ Hay'
  BY <1>2, <1>3, Ajusta DEF Opciones, DeISBN, Operables
<1>5. QED
  BY <1>1, <1>4 DEF InvPrestamo, RestoPropio

LEMMA PrestamoEnter ==
  ASSUME TypeOK, InvPrestamo, Enter
  PROVE  InvPrestamo'
<1> SUFFICES ASSUME causas \subseteq {"respuesta"}
             PROVE  InvPrestamo'
  BY DEF InvPrestamo, Enter, usuario
<1>1. causas' = causas /\ fin' = fin /\ ultima' = ultima /\ donde = "enter" /\ donde' = "principal"
  BY DEF Enter, usuario
<1>2. Lee(1) /\ Hay
  BY DEF Enter, InvPrestamo, Termino, Lee
<1>3. stdin.n \in Nat /\ stdin.n <= 49
  BY <1>1, <1>2, Tenidas DEF InvPrestamo, RestoPropio, Abiertas, Lineas, Nada
<1>4. ~ Hay' \/ stdin'.n < 49
  BY <1>2, <1>3 DEF Lee, Tras, Nada, Hay
<1>5. QED
  BY <1>1, <1>4 DEF InvPrestamo, RestoPropio, Abiertas, Operables

LEMMA PrestamoTeclear ==
  ASSUME TypeOK, InvPrestamo, NEW n \in Largos, Teclear(n)
  PROVE  InvPrestamo'
<1>1. /\ fin' = fin /\ ultima' = ultima /\ donde' = donde /\ str' = str /\ propio' = propio
      /\ stdin' = [n |-> n, para |-> donde] /\ n \in Nat /\ causas \subseteq causas'
  BY ConstantesOK DEF Teclear
<1>2. causas' \subseteq {"respuesta"} =>
        Ajustada(donde, n) /\ (donde \in {"principal", "enter"} => n <= 49)
  BY <1>1, MideBien
<1>3. QED
  BY <1>1, <1>2 DEF InvPrestamo, RestoPropio

LEMMA PrestamoPaso == TypeOK /\ InvPrestamo /\ [Next]_vars => InvPrestamo'
<1> SUFFICES ASSUME TypeOK, InvPrestamo, [Next]_vars PROVE InvPrestamo'
  OBVIOUS
<1>1. CASE Principal
  BY <1>1, PrestamoPrincipal
<1>2. CASE \/ Rellenar("nombre", "apellido") \/ Rellenar("apellido", "correo")
           \/ Rellenar("correo", "telefono") \/ Rellenar("telefono", "contrasena")
           \/ Rellenar("login_correo", "login_contrasena")
  BY <1>2, PrestamoNoOpera DEF Rellenar, Textos, Formulario, Sesion, DeISBN, Operables
<1>3. CASE Registrar \/ IniciarSesion
  BY <1>3, PrestamoNoOpera
  DEF Registrar, IniciarSesion, Hace, Textos, Formulario, Sesion, DeISBN, Operables
<1>4. CASE Menu
  BY <1>4, PrestamoMenu
<1>5. CASE Buscar
  BY <1>5, PrestamoBuscar
<1>6. CASE Enter
  BY <1>6, PrestamoEnter
<1>7. CASE \E p \in Busquedas : BuscarTexto(p)
  BY <1>7, PrestamoNoOpera DEF BuscarTexto, Textos, Operables
<1>8. CASE \E p \in Operables : Operar(p)
  BY <1>8, PrestamoOperar
<1>9. CASE \E n \in Largos : Teclear(n)
  BY <1>9, PrestamoTeclear
<1>10. CASE CerrarEntrada
  BY <1>10 DEF CerrarEntrada, InvPrestamo
<1>11. CASE UNCHANGED vars
  BY <1>11 DEF vars, usuario, InvPrestamo, RestoPropio, Hay
<1>12. QED
  BY <1>1, <1>2, <1>3, <1>4, <1>5, <1>6, <1>7, <1>8, <1>9, <1>10, <1>11
  DEF Next, Programa

LEMMA PrestamoInit == Init => InvPrestamo
  BY DEF Init, InvPrestamo, RestoPropio, Hay, Operables

(***************************************************************************)
(* PrestamoPropio for lines of any length: letters typed for a number, and *)
(* what is typed with Enter, shift the forms and never a loan or a return. *)
(***************************************************************************)
THEOREM OperaLoSuyo == Spec => []PrestamoPropio
<1>1. InvPrestamo => PrestamoPropio
  BY DEF InvPrestamo, PrestamoPropio
<1>2. Spec => []InvPrestamo
  BY Tipos, PrestamoInit, PrestamoPaso, PTL DEF Spec
<1>3. QED
  BY <1>1, <1>2, PTL

-----------------------------------------------------------------------------
(* Everything is its own, while nothing is out of measure *)

(***************************************************************************)
(* Every line is read by its question, which leaves at most the end of an  *)
(* ISBN to the menu.                                                       *)
(***************************************************************************)
RestoJusto ==
  Hay =>
    \/ /\ stdin.para = donde
       /\ Ajustada(donde, stdin.n)
       /\ donde = "principal" => stdin.n <= 1
       /\ donde = "enter" => stdin.n = 0
    \/ donde = "menu" /\ stdin.n = 0

InvTodo ==
  causas = {} =>
    /\ ~ fin
    /\ RestoJusto
    /\ propio
    /\ donde \in Formulario \cup Sesion => opcion.de = "propia"
    /\ donde \in Operables => str.de = "propia"
    /\ ultima.propio /\ ultima.opcion \in {"nadie", "propia"}

LEMMA TodoPrincipal ==
  ASSUME TypeOK, InvTodo, Principal
  PROVE  InvTodo'
<1> SUFFICES ASSUME causas' = {}
             PROVE  InvTodo'
  BY DEF InvTodo
<1>1. causas = {} /\ fin' = fin /\ ultima' = ultima /\ str' = str
      /\ donde = "principal" /\ ~ Termino
  BY DEF Principal, InvTodo, Termino
<1>2. stdin.n \in Nat /\ (Hay => stdin.para = "principal" /\ stdin.n <= 1)
  BY <1>1, Tenidas DEF InvTodo, RestoJusto, Lineas, Nada
<1>3. CASE stdin' = Nada /\ UNCHANGED <<donde, propio>>
  BY <1>1, <1>3 DEF InvTodo, RestoJusto, Hay, Formulario, Sesion, Operables
<1>4. CASE /\ \E k \in 1 .. stdin.n, c \in Signos(donde) :
                /\ Lee(k + 1)
                /\ opcion' = [v |-> c, de |-> De(donde)]
           /\ Elige
  <2>1. PICK k \in 1 .. stdin.n, c \in Signos(donde) :
          /\ Lee(k + 1)
          /\ opcion' = [v |-> c, de |-> De(donde)]
    BY <1>4
  <2>2. ~ Hay' /\ opcion'.de = "propia"
    BY <1>1, <1>2, <2>1 DEF Lee, Tras, Hay, De
  <2>3. propio' /\ donde' \notin Operables
    BY <1>4 DEF Elige, Operables
  <2>4. QED
    BY <1>1, <2>2, <2>3 DEF InvTodo, RestoJusto
<1>5. CASE Hay /\ causas' = IF stdin.para = "principal" THEN causas \cup {"respuesta"} ELSE causas
  BY <1>2, <1>5
<1>6. QED
  BY <1>1, <1>3, <1>4, <1>5 DEF Principal

LEMMA TodoTexto ==
  ASSUME TypeOK, InvTodo, NEW p \in Textos, Texto(p), causas = {}
  PROVE  /\ causas' = causas /\ fin' = fin /\ opcion' = opcion
         /\ ~ Hay' \/ (p \in DeISBN /\ stdin'.n = 0)
         /\ propio'
<1>1. causas' = causas /\ fin' = fin /\ opcion' = opcion /\ donde = p /\ ~ Termino
  BY DEF Texto, usuario, InvTodo, Termino
<1>2. Lee(Cabida(p)) /\ propio' = (propio /\ stdin.para = p) /\ Hay
  BY <1>1 DEF Texto, Lee
<1>3. stdin.para = p /\ Ajustada(p, stdin.n)
  BY <1>1, <1>2 DEF InvTodo, RestoJusto, Textos, Formulario, Sesion, Busquedas, Operables
<1>4. propio
  BY DEF InvTodo
<1>5. QED
  BY <1>1, <1>2, <1>3, <1>4, Ajusta

LEMMA TodoRellenar ==
  ASSUME TypeOK, InvTodo, NEW p \in Formulario \cup Sesion, NEW q \in Textos, Rellenar(p, q),
         q \notin Operables
  PROVE  InvTodo'
<1>1. p \in Textos /\ Texto(p) /\ donde = p /\ p \notin DeISBN
  BY DEF Rellenar, Texto, Textos, Formulario, Sesion, DeISBN, Operables
<1>2. donde' = q /\ ultima' = ultima /\ str' = str /\ causas' = causas
  BY <1>1 DEF Rellenar, Texto, usuario
<1>3. QED
  BY <1>1, <1>2, TodoTexto DEF InvTodo, RestoJusto

LEMMA TodoFormulario ==
  ASSUME TypeOK, InvTodo, Registrar \/ IniciarSesion
  PROVE  InvTodo'
<1>1. PICK p \in {"contrasena", "login_contrasena"} : Texto(p)
  BY DEF Registrar, IniciarSesion
<1>2. p \in Textos /\ donde = p /\ p \notin DeISBN /\ p \in Formulario \cup Sesion
  BY <1>1 DEF Texto, Textos, Formulario, Sesion, DeISBN, Operables
<1>3. causas' = causas
  BY <1>1 DEF Texto, usuario
<1>4. donde' \notin Formulario \cup Sesion \cup Operables
  BY DEF Registrar, IniciarSesion, Formulario, Sesion, Operables
<1>5. ultima' = ultima \/ (ultima'.propio = propio' /\ ultima'.opcion = opcion.de)
  BY DEF Registrar, IniciarSesion, Hace
<1>6. QED
  BY <1>1, <1>2, <1>3, <1>4, <1>5, TodoTexto DEF InvTodo, RestoJusto

LEMMA TodoBuscarTexto ==
  ASSUME TypeOK, InvTodo, NEW p \in Busquedas, BuscarTexto(p)
  PROVE  InvTodo'
<1>1. p \in Textos /\ Texto(p) /\ donde' = "menu" /\ ultima' = ultima /\ causas' = causas
  BY DEF BuscarTexto, Texto, Textos, usuario
<1>2. QED
  BY <1>1, TodoTexto DEF InvTodo, RestoJusto, Formulario, Sesion, Operables

LEMMA TodoOperar ==
  ASSUME TypeOK, InvTodo, NEW p \in Operables, Operar(p)
  PROVE  InvTodo'
<1>1. p \in Textos /\ Texto(p) /\ donde = p /\ donde' = "menu" /\ causas' = causas
  BY DEF Operar, Texto, Textos, usuario
<1>2. ultima'.propio = propio' /\ ultima'.opcion = str.de
  BY DEF Operar, Hace
<1>3. QED
  BY <1>1, <1>2, TodoTexto DEF InvTodo, RestoJusto, Formulario, Sesion, Operables

LEMMA TodoMenu ==
  ASSUME TypeOK, InvTodo, Menu
  PROVE  InvTodo'
<1> SUFFICES ASSUME causas = {}
             PROVE  InvTodo'
  BY DEF InvTodo, Menu, usuario
<1>1. causas' = causas /\ fin' = fin /\ ultima' = ultima /\ donde = "menu" /\ propio'
  BY DEF Menu, usuario
<1>2. ~ Termino
  BY DEF InvTodo, Termino
<1>3. PICK c \in Signos("menu") :
        Lee(Cabida("menu")) /\ (stdin.n = 0 => c = "otra") /\ str' = [v |-> c, de |-> De("menu")]
  BY <1>2 DEF Menu
<1>4. (stdin.para = "menu" /\ Ajustada("menu", stdin.n)) \/ stdin.n = 0
  BY <1>1, <1>3 DEF InvTodo, RestoJusto, Lee
<1>5. ~ Hay'
  BY <1>3, <1>4, Ajusta DEF Opciones, DeISBN, Operables
<1>6. donde' \in Operables => str'.de = "propia"
  <2>1. CASE stdin.n = 0
    <3>1. str'.v = "otra"
      BY <1>3, <2>1
    <3>2. donde' = "menu"
      BY <3>1 DEF Menu
    <3>3. QED
      BY <3>2 DEF Operables
  <2>2. CASE stdin.para = "menu"
    BY <1>3, <2>2 DEF De
  <2>3. QED
    BY <1>4, <2>1, <2>2
<1>7. donde' \notin Formulario \cup Sesion
  BY DEF Menu, Formulario, Sesion
<1>8. QED
  BY <1>1, <1>5, <1>6, <1>7 DEF InvTodo, RestoJusto

LEMMA TodoBuscar ==
  ASSUME TypeOK, InvTodo, Buscar
  PROVE  InvTodo'
<1> SUFFICES ASSUME causas = {}
             PROVE  InvTodo'
  BY DEF InvTodo, Buscar, usuario
<1>1. causas' = causas /\ fin' = fin /\ ultima' = ultima /\ propio' = propio /\ donde = "buscar"
      /\ donde' \notin Operables \cup Formulario \cup Sesion
  BY DEF Buscar, usuario, Operables, Formulario, Sesion
<1>2. Lee(Cabida("buscar"))
  BY DEF Buscar, InvTodo, Termino
<1>3. Ajustada("buscar", stdin.n)
  BY <1>1, <1>2 DEF InvTodo, RestoJusto, Lee
<1>4. ~ Hay'
  BY <1>2, <1>3, Ajusta DEF Opciones, DeISBN, Operables
<1>5. QED
  BY <1>1, <1>4 DEF InvTodo, RestoJusto

LEMMA TodoEnter ==
  ASSUME TypeOK, InvTodo, Enter
  PROVE  InvTodo'
<1> SUFFICES ASSUME causas = {}
             PROVE  InvTodo'
  BY DEF InvTodo, Enter, usuario
<1>1. causas' = causas /\ fin' = fin /\ ultima' = ultima /\ propio' = propio
      /\ donde = "enter" /\ donde' = "principal"
  BY DEF Enter, usuario
<1>2. Lee(1) /\ Hay
  BY DEF Enter, InvTodo, Termino, Lee
<1>3. ~ Hay'
  BY <1>1, <1>2 DEF InvTodo, RestoJusto, Lee, Tras, Hay
<1>4. QED
  BY <1>1, <1>3 DEF InvTodo, RestoJusto, Operables, Formulario, Sesion

LEMMA TodoTeclear ==
  ASSUME TypeOK, InvTodo, NEW n \in Largos, Teclear(n)
  PROVE  InvTodo'
<1> SUFFICES ASSUME causas' = {}
             PROVE  InvTodo'
  BY DEF InvTodo
<1>1. /\ fin' = fin /\ ultima' = ultima /\ donde' = donde /\ str' = str /\ propio' = propio
      /\ opcion' = opcion
      /\ stdin' = [n |-> n, para |-> donde] /\ n \in Nat /\ causas = {}
  BY ConstantesOK DEF Teclear
<1>2. Ajustada(donde, n)
  BY <1>1, MideBien
<1>3. donde = "principal" => n <= 1
  BY <1>1 DEF Teclear, DeMas
<1>4. donde = "enter" => n = 0
  BY <1>1 DEF Teclear, DeMas
<1>5. QED
  BY <1>1, <1>2, <1>3, <1>4 DEF InvTodo, RestoJusto

LEMMA TodoPaso == TypeOK /\ InvTodo /\ [Next]_vars => InvTodo'
<1> SUFFICES ASSUME TypeOK, InvTodo, [Next]_vars PROVE InvTodo'
  OBVIOUS
<1>1. CASE Principal
  BY <1>1, TodoPrincipal
<1>2. CASE \/ Rellenar("nombre", "apellido") \/ Rellenar("apellido", "correo")
           \/ Rellenar("correo", "telefono") \/ Rellenar("telefono", "contrasena")
           \/ Rellenar("login_correo", "login_contrasena")
  BY <1>2, TodoRellenar DEF Textos, Formulario, Sesion, Operables
<1>3. CASE Registrar \/ IniciarSesion
  BY <1>3, TodoFormulario
<1>4. CASE Menu
  BY <1>4, TodoMenu
<1>5. CASE Buscar
  BY <1>5, TodoBuscar
<1>6. CASE Enter
  BY <1>6, TodoEnter
<1>7. CASE \E p \in Busquedas : BuscarTexto(p)
  BY <1>7, TodoBuscarTexto
<1>8. CASE \E p \in Operables : Operar(p)
  BY <1>8, TodoOperar
<1>9. CASE \E n \in Largos : Teclear(n)
  BY <1>9, TodoTeclear
<1>10. CASE CerrarEntrada
  BY <1>10 DEF CerrarEntrada, InvTodo
<1>11. CASE UNCHANGED vars
  BY <1>11 DEF vars, usuario, InvTodo, RestoJusto, Hay
<1>12. QED
  BY <1>1, <1>2, <1>3, <1>4, <1>5, <1>6, <1>7, <1>8, <1>9, <1>10, <1>11
  DEF Next, Programa

LEMMA TodoInit == Init => InvTodo
  BY DEF Init, InvTodo, RestoJusto, Hay, Operables, Formulario, Sesion

(***************************************************************************)
(* TodoPropio for lines of any length: who answers in measure has every    *)
(* line read by the question it answers, through both kinds of readers.    *)
(***************************************************************************)
THEOREM CadaLineaSuPregunta == Spec => []TodoPropio
<1>1. InvTodo => TodoPropio
  BY DEF InvTodo, TodoPropio
<1>2. Spec => []InvTodo
  BY Tipos, TodoInit, TodoPaso, PTL DEF Spec
<1>3. QED
  BY <1>1, <1>2, PTL

=============================================================================
