--------------------------- MODULE ArranquePruebas ---------------------------
(***************************************************************************)
(* What is proved about Arranque, for any users, catalogue, consoles,      *)
(* copies, places of the cut and bounds.                                   *)
(***************************************************************************)
EXTENDS Arranque, Numeros, FiniteSetTheorems, SequenceTheorems, TLAPS

-----------------------------------------------------------------------------
(* Sequences and their rows *)

LEMMA LaCola ==
  ASSUME NEW S, NEW s \in Seq(S), s # << >>
  PROVE  /\ Head(s) \in S /\ Head(s) = s[1] /\ Len(s) \in Nat /\ Len(s) >= 1
         /\ Tail(s) \in Seq(S) /\ Len(Tail(s)) = Len(s) - 1
         /\ \A k \in 1 .. Len(s) - 1 : Tail(s)[k] = s[k + 1]
  OBVIOUS

LEMMA AlFinal ==
  ASSUME NEW S, NEW s \in Seq(S), NEW e \in S
  PROVE  /\ Append(s, e) \in Seq(S) /\ Len(Append(s, e)) = Len(s) + 1
         /\ Append(s, e)[Len(s) + 1] = e
         /\ \A k \in 1 .. Len(s) : Append(s, e)[k] = s[k]
  OBVIOUS

(***************************************************************************)
(* DELETE of the row of lowest ID: one row, of those it looks for, and the *)
(* others keep their order.                                                *)
(***************************************************************************)
LEMMA QuitaUna ==
  ASSUME NEW S, NEW s \in Seq(S), NEW e, \E i \in 1 .. Len(s) : s[i] = e
  PROVE  \E k \in 1 .. Len(s) :
           /\ s[k] = e
           /\ RemoveFirst(s, e) \in Seq(S)
           /\ Len(RemoveFirst(s, e)) = Len(s) - 1
           /\ \A j \in 1 .. Len(s) - 1 : RemoveFirst(s, e)[j] = IF j < k THEN s[j] ELSE s[j + 1]
<1> DEFINE I == {i \in 1 .. Len(s) : s[i] = e}
<1>1. SelectInSeq(s, LAMBDA v : v = e) = Min(I)
  BY DEF SelectInSeq
<1>2. I \in SUBSET Nat /\ I # {}
  OBVIOUS
<1>3. PICK x \in I : \A y \in I : x <= y
  <2> HIDE DEF I
  <2>1. QED
    BY <1>2, Minimo
<1>4. Min(I) \in I
  BY <1>3 DEF Min
<1>5. PICK k \in 1 .. Len(s) : s[k] = e /\ k = Min(I)
  BY <1>4
<1>6. RemoveFirst(s, e) = RemoveAt(s, k)
  BY <1>1, <1>5 DEF RemoveFirst
<1> HIDE DEF I
<1> DEFINE a == SubSeq(s, 1, k - 1)
           b == SubSeq(s, k + 1, Len(s))
<1>7. /\ Len(s) \in Nat /\ k \in Nat /\ 1 \in Int /\ k - 1 \in Int /\ k + 1 \in Int /\ Len(s) \in Int
      /\ \A i \in 1 .. k - 1 : s[i] \in S
      /\ \A i \in k + 1 .. Len(s) : s[i] \in S
  OBVIOUS
<1>8. /\ a \in Seq(S) /\ Len(a) = (IF 1 <= k - 1 THEN k - 1 - 1 + 1 ELSE 0)
      /\ \A i \in 1 .. k - 1 - 1 + 1 : a[i] = s[1 + i - 1]
  BY <1>7, SubSeqProperties
<1>9. /\ b \in Seq(S) /\ Len(b) = (IF k + 1 <= Len(s) THEN Len(s) - (k + 1) + 1 ELSE 0)
      /\ \A i \in 1 .. Len(s) - (k + 1) + 1 : b[i] = s[k + 1 + i - 1]
  BY <1>7, SubSeqProperties
<1> HIDE DEF a, b
<1>10. /\ Len(a) = k - 1 /\ Len(b) = Len(s) - k
       /\ \A i \in 1 .. k - 1 : a[i] = s[i]
       /\ \A i \in 1 .. Len(s) - k : b[i] = s[k + i]
  <2>1. \A i \in Nat : 1 + i - 1 = i /\ k + 1 + i - 1 = k + i
    BY <1>7
  <2>2. /\ k - 1 - 1 + 1 = k - 1 /\ Len(s) - (k + 1) + 1 = Len(s) - k
        /\ (IF 1 <= k - 1 THEN k - 1 ELSE 0) = k - 1
        /\ (IF k + 1 <= Len(s) THEN Len(s) - k ELSE 0) = Len(s) - k
    BY <1>7
  <2>3. Len(a) = k - 1 /\ Len(b) = Len(s) - k
    BY <1>8, <1>9, <2>2
  <2>4. ASSUME NEW i \in 1 .. k - 1
        PROVE  a[i] = s[i]
    <3>1. i \in 1 .. k - 1 - 1 + 1 /\ i \in Nat
      BY Len(s) \in Nat
    <3>2. a[i] = s[1 + i - 1]
      BY <1>8, <3>1
    <3>3. QED
      BY <2>1, <3>1, <3>2
  <2>5. ASSUME NEW i \in 1 .. Len(s) - k
        PROVE  b[i] = s[k + i]
    <3>1. i \in 1 .. Len(s) - (k + 1) + 1 /\ i \in Nat
      BY Len(s) \in Nat
    <3>2. b[i] = s[k + 1 + i - 1]
      BY <1>9, <3>1
    <3>3. QED
      BY <2>1, <3>1, <3>2
  <2>6. QED
    BY <2>3, <2>4, <2>5
<1>11. /\ a \o b \in Seq(S) /\ Len(a \o b) = Len(s) - 1
       /\ \A j \in 1 .. Len(s) - 1 : (a \o b)[j] = IF j <= Len(a) THEN a[j] ELSE b[j - Len(a)]
  <2>1. Len(a) + Len(b) = Len(s) - 1
    BY <1>7, <1>10
  <2>2. a \in Seq(S) /\ b \in Seq(S)
    BY <1>8, <1>9
  <2>3. /\ a \o b \in Seq(S) /\ Len(a \o b) = Len(a) + Len(b)
        /\ \A j \in 1 .. Len(a) + Len(b) : (a \o b)[j] = IF j <= Len(a) THEN a[j] ELSE b[j - Len(a)]
    BY <2>2, ConcatProperties
  <2>4. QED
    BY <2>1, <2>3
<1>12. \A j \in 1 .. Len(s) - 1 : (a \o b)[j] = IF j < k THEN s[j] ELSE s[j + 1]
  <2>1. SUFFICES ASSUME NEW j \in 1 .. Len(s) - 1
                 PROVE  (a \o b)[j] = IF j < k THEN s[j] ELSE s[j + 1]
    OBVIOUS
  <2>2. CASE j < k
    <3>1. j \in 1 .. k - 1 /\ j <= k - 1
      BY <1>7, <2>2
    <3>2. QED
      BY <1>10, <1>11, <2>2, <3>1
  <2>3. CASE ~ (j < k)
    <3>1. j - (k - 1) \in 1 .. Len(s) - k /\ k + (j - (k - 1)) = j + 1 /\ ~ (j <= k - 1)
      BY <1>7, <2>3
    <3>2. QED
      BY <1>10, <1>11, <2>3, <3>1
  <2>4. QED
    BY <2>2, <2>3
<1>13. RemoveFirst(s, e) = a \o b
  BY <1>6 DEF RemoveAt, a, b
<1>14. QED
  BY <1>5, <1>11, <1>12, <1>13

-----------------------------------------------------------------------------
(* Where everybody is *)

DeServidor ==
  {"esperando", "restar", "insertar", "anotar", "borrar", "sumar", "cerrar", "enviar",
   "csv_pedir", "csv_prestamo", "csv_historial", "csv_devolver", "csv_cierre"}

DeConsola ==
  {"cerrado", "sonda", "sondeado", "borrado", "abrir", "importar", "menu",
   "csv_pedir", "csv_prestamo", "csv_historial", "csv_devolver", "csv_cierre"}

\* The steps of a loan or a return, which knows its user and its book.
ConOrden ==
  {"restar", "insertar", "anotar", "borrar", "sumar", "cerrar",
   "csv_pedir", "csv_prestamo", "csv_historial", "csv_devolver", "csv_cierre"}

Marcha ==
  /\ pc[Servidor] \in DeServidor
  /\ \A p \in Consolas : pc[p] \in DeConsola
  /\ \A p \in Procesos : IF pc[p] \in ConOrden THEN orden[p] \in Linea ELSE orden[p] = SinOrden

\* What fgets can give of each file.
FilasDeLibros == [isbn : ISBNs, copias : Nat]
Restos   == {<< >>} \cup [usuario : {Numero}] \cup [usuario : {Numero}, isbn : {"ninguno"}]
Piezas   == LineaHistorial \cup Restos

Importacion ==
  /\ pendientes \in [Consolas -> Seq(FilasDeLibros \cup Linea \cup Piezas)]
  /\ \A p \in Consolas :
       /\ Importando(p) <=> tabla[p] # "ninguna"
       /\ pc[p] # "importar" => pendientes[p] = << >>
       /\ tabla[p] = "libros" => pendientes[p] \in Seq(FilasDeLibros)
       /\ tabla[p] = "historial" => pendientes[p] \in Seq(Piezas)
       /\ tabla[p] = "prestamos" => pendientes[p] \in Seq(Linea)

\* A start with a bad handle has been noted.
Manejo ==
  \A p \in Consolas : Importando(p) /\ manejador[p] = "muerto" => "muerto" \in avisos

Base == TypeOK /\ Marcha /\ Importacion /\ Manejo

-----------------------------------------------------------------------------
(* What is read *)

LEMMA TresTablas ==
  /\ ToSet(Tablas) = {"libros", "historial", "prestamos"}
  /\ Tablas[1] = "libros"
<1>1. DOMAIN Tablas = 1 .. 3 /\ Tablas[1] = "libros" /\ Tablas[2] = "historial" /\ Tablas[3] = "prestamos"
  BY DEF Tablas
<1>2. 1 .. 3 = {1, 2, 3}
  OBVIOUS
<1>3. QED
  BY <1>1, <1>2 DEF ToSet

LEMMA TablaSiguiente ==
  ASSUME NEW p \in Consolas, Siguiente(p)
  PROVE  /\ local' = [local EXCEPT ![p] = Residuo("cerrado")]
         /\ tabla[p] = "libros" => tabla' = [tabla EXCEPT ![p] = "historial"] /\ Ir(p, "abrir")
         /\ tabla[p] = "historial" => tabla' = [tabla EXCEPT ![p] = "prestamos"] /\ Ir(p, "abrir")
         /\ tabla[p] = "prestamos" => tabla' = [tabla EXCEPT ![p] = "ninguna"] /\ Ir(p, "menu")
<1> DEFINE n == CHOOSE k \in DOMAIN Tablas : Tablas[k] = tabla[p]
<1>1. /\ DOMAIN Tablas = {1, 2, 3} /\ Len(Tablas) = 3
      /\ Tablas[1] = "libros" /\ Tablas[2] = "historial" /\ Tablas[3] = "prestamos"
  <2>1. 1 .. 3 = {1, 2, 3}
    OBVIOUS
  <2>2. QED
    BY <2>1 DEF Tablas
<1>2. ASSUME NEW k \in DOMAIN Tablas, Tablas[k] = tabla[p]
      PROVE  n \in DOMAIN Tablas /\ Tablas[n] = tabla[p]
  BY <1>2
<1>3. /\ tabla[p] = "libros" => n = 1
      /\ tabla[p] = "historial" => n = 2
      /\ tabla[p] = "prestamos" => n = 3
  BY <1>1, <1>2
<1>4. /\ local' = [local EXCEPT ![p] = Residuo("cerrado")]
      /\ IF n < Len(Tablas)
         THEN tabla' = [tabla EXCEPT ![p] = Tablas[n + 1]] /\ Ir(p, "abrir")
         ELSE tabla' = [tabla EXCEPT ![p] = "ninguna"] /\ Ir(p, "menu")
  BY DEF Siguiente
<1> HIDE DEF n
<1>5. 1 < 3 /\ 2 < 3 /\ ~ (3 < 3) /\ 1 + 1 = 2 /\ 2 + 1 = 3
  OBVIOUS
<1>6. QED
  BY <1>1, <1>3, <1>4, <1>5

LEMMA CamposDeLinea ==
  ASSUME NEW l \in LineaHistorial
  PROVE  DOMAIN l = {"usuario", "isbn", "fecha", "estado"} /\ l.usuario \in Usuarios
         /\ l.isbn \in ISBNs /\ l.fecha \in {Ayer, Hoy} /\ l.estado \in {"activo", "cerrado"}
  BY DEF LineaHistorial

LEMMA CamposDeLeido ==
  ASSUME NEW l \in Leidos
  PROVE  DOMAIN l = {"usuario", "isbn", "fecha", "estado"}
  BY DEF Leidos

LEMMA CamposDeResto ==
  ASSUME NEW r \in Restos
  PROVE  /\ DOMAIN r \in {{}, {"usuario"}, {"usuario", "isbn"}}
         /\ "usuario" \in DOMAIN r => r["usuario"] = Numero
         /\ "isbn" \in DOMAIN r => r["isbn"] = "ninguno"
<1>1. CASE r = << >>
  BY <1>1
<1>2. CASE r \in [usuario : {Numero}]
  BY <1>2
<1>3. CASE r \in [usuario : {Numero}, isbn : {"ninguno"}]
  BY <1>3
<1>4. QED
  BY <1>1, <1>2, <1>3 DEF Restos

LEMMA RestoDe ==
  ASSUME NEW l \in LineaHistorial, l.isbn \in Largos
  PROVE  Resto(l) \in Restos
  BY ConstantesOK DEF Resto, Restos, LineaHistorial

LEMMA PrincipioDe ==
  ASSUME NEW l \in LineaHistorial, l.isbn \in Largos
  PROVE  /\ {"usuario", "isbn"} \subseteq DOMAIN Principio(l)
         /\ DOMAIN Principio(l) \subseteq {"usuario", "isbn", "fecha", "estado"}
         /\ Principio(l)["usuario"] = l.usuario /\ Principio(l)["isbn"] = l.isbn
         /\ "fecha" \in DOMAIN Principio(l) => Principio(l)["fecha"] \in {Ayer, Hoy, "rota"}
         /\ "estado" \in DOMAIN Principio(l) => Principio(l) = l
<1>1. /\ DOMAIN l = {"usuario", "isbn", "fecha", "estado"}
      /\ l.fecha \in {Ayer, Hoy}
  BY CamposDeLinea
<1>2. Corte[l.isbn].hasta \in {"titulos", "media", "fechas", "estado"}
  BY ConstantesOK
<1>3. CASE Corte[l.isbn].hasta = "titulos"
  <2>1. Principio(l) = [usuario |-> l.usuario, isbn |-> l.isbn]
    BY <1>3 DEF Principio
  <2>2. QED
    BY <2>1
<1>4. CASE Corte[l.isbn].hasta = "media"
  <2>1. Principio(l) = [usuario |-> l.usuario, isbn |-> l.isbn, fecha |-> "rota"]
    BY <1>4 DEF Principio
  <2>2. QED
    BY <2>1
<1>5. CASE Corte[l.isbn].hasta = "fechas"
  <2>1. Principio(l) = [usuario |-> l.usuario, isbn |-> l.isbn, fecha |-> l.fecha]
    BY <1>5 DEF Principio
  <2>2. QED
    BY <1>1, <2>1
<1>6. CASE Corte[l.isbn].hasta = "estado"
  <2>1. Principio(l) = l
    BY <1>6 DEF Principio
  <2>2. QED
    BY <1>1, <2>1
<1>7. QED
  BY <1>2, <1>3, <1>4, <1>5, <1>6

(***************************************************************************)
(* A line of libros.csv or of prestamos.csv is read whole.                 *)
(***************************************************************************)
LEMMA LineaEntera ==
  ASSUME NEW S, NEW cola \in Seq(S), cola # << >>,
         \A f \in S : "estado" \notin DOMAIN f
  PROVE  Trozo(cola) = Head(cola) /\ Quedan(cola) = Tail(cola)
<1>1. Head(cola) \in S
  BY LaCola
<1>2. ~ EnDosTrozos(Head(cola))
  BY <1>1 DEF EnDosTrozos
<1>3. QED
  BY <1>2 DEF Trozo, Quedan

LEMMA SinEstado ==
  /\ \A f \in FilasDeLibros : "estado" \notin DOMAIN f
  /\ \A f \in Linea : "estado" \notin DOMAIN f
  BY DEF FilasDeLibros, Linea

\* What is left of historial.csv is lines, and rests of lines.
LEMMA QuedanPiezas ==
  ASSUME NEW cola \in Seq(Piezas), cola # << >>
  PROVE  Quedan(cola) \in Seq(Piezas)
<1>1. Head(cola) \in Piezas /\ Tail(cola) \in Seq(Piezas)
  BY LaCola
<1>2. CASE EnDosTrozos(Head(cola))
  <2>1. Head(cola) \in LineaHistorial
    <3>1. "estado" \in DOMAIN Head(cola)
      BY <1>2 DEF EnDosTrozos
    <3>2. Head(cola) \notin Restos
      BY <3>1, CamposDeResto
    <3>3. QED
      BY <1>1, <3>2 DEF Piezas
  <2>2. Resto(Head(cola)) \in Piezas
    BY <1>2, <2>1, RestoDe DEF EnDosTrozos, Piezas
  <2>3. <<Resto(Head(cola))>> \o Tail(cola) \in Seq(Piezas)
    BY <1>1, <2>2
  <2>4. QED
    BY <1>2, <2>3 DEF Quedan
<1>3. CASE ~ EnDosTrozos(Head(cola))
  BY <1>1, <1>3 DEF Quedan
<1>4. QED
  BY <1>2, <1>3

(***************************************************************************)
(* Whatever sscanf read, the struct holds a line.                          *)
(***************************************************************************)
LEMMA SobreLeido ==
  ASSUME NEW antes \in Leidos, NEW cola \in Seq(Piezas), cola # << >>
  PROVE  Sobre(antes, Trozo(cola)) \in Leidos
<1> DEFINE t == Trozo(cola)
           f == Sobre(antes, t)
<1>1. Head(cola) \in Piezas
  BY LaCola
<1>2. /\ "usuario" \in DOMAIN t => t["usuario"] \in Usuarios \cup {Numero}
      /\ "isbn" \in DOMAIN t => t["isbn"] \in ISBNs \cup {"ninguno"}
      /\ "fecha" \in DOMAIN t => t["fecha"] \in {Ayer, Hoy, "rota"}
      /\ "estado" \in DOMAIN t => t["estado"] \in {"activo", "cerrado"}
  <2>1. CASE Head(cola) \in Restos
    <3>1. "estado" \notin DOMAIN Head(cola) /\ "fecha" \notin DOMAIN Head(cola)
      BY <2>1, CamposDeResto
    <3>2. t = Head(cola)
      BY <3>1 DEF Trozo, EnDosTrozos
    <3>3. QED
      BY <2>1, <3>1, <3>2, CamposDeResto
  <2>2. CASE Head(cola) \in LineaHistorial
    <3>1. /\ Head(cola).usuario \in Usuarios /\ Head(cola).isbn \in ISBNs
          /\ Head(cola).fecha \in {Ayer, Hoy} /\ Head(cola).estado \in {"activo", "cerrado"}
      BY <2>2, CamposDeLinea
    <3>2. CASE EnDosTrozos(Head(cola))
      <4>1. Head(cola).isbn \in Largos /\ t = Principio(Head(cola))
        BY <3>2 DEF EnDosTrozos, Trozo
      <4> HIDE DEF t
      <4>2. QED
        BY <2>2, <3>1, <4>1, PrincipioDe
    <3>3. CASE ~ EnDosTrozos(Head(cola))
      <4>1. t = Head(cola)
        BY <3>3 DEF Trozo
      <4> HIDE DEF t
      <4>2. QED
        BY <3>1, <4>1
    <3>4. QED
      BY <3>2, <3>3
  <2>3. QED
    BY <1>1, <2>1, <2>2 DEF Piezas
<1> HIDE DEF t
<1>3. /\ DOMAIN antes = {"usuario", "isbn", "fecha", "estado"}
      /\ antes["usuario"] \in Usuarios \cup {Numero, "nadie"}
      /\ antes["isbn"] \in ISBNs \cup {"ninguno"}
      /\ antes["fecha"] \in {Ayer, Hoy, "rota"}
      /\ antes["estado"] \in {"activo", "cerrado"}
  BY DEF Leidos
<1>4. /\ DOMAIN f = {"usuario", "isbn", "fecha", "estado"}
      /\ f = [c \in {"usuario", "isbn", "fecha",
           "estado"} |-> IF c \in DOMAIN t THEN t[c] ELSE antes[c]]
  BY <1>3 DEF Sobre
<1>5. /\ f["usuario"] \in Usuarios \cup {Numero, "nadie"}
      /\ f["isbn"] \in ISBNs \cup {"ninguno"}
      /\ f["fecha"] \in {Ayer, Hoy, "rota"}
      /\ f["estado"] \in {"activo", "cerrado"}
  <2>1. \A c \in {"usuario", "isbn", "fecha", "estado"} :
          f[c] = IF c \in DOMAIN t THEN t[c] ELSE antes[c]
    BY <1>4
  <2> HIDE DEF f
  <2>2. QED
    BY <1>2, <1>3, <2>1
<1>6. f = [usuario |-> f["usuario"], isbn |-> f["isbn"], fecha |-> f["fecha"], estado |-> f["estado"]]
  <2> HIDE DEF f
  <2>1. QED
    BY <1>4
<1> HIDE DEF f
<1>7. f \in Leidos
  BY <1>5, <1>6 DEF Leidos
<1>8. QED
  BY <1>7 DEF f, t

LEMMA ResiduoLeido ==
  \A e \in {"activo", "cerrado"} : Residuo(e) \in Leidos
  BY DEF Residuo, Leidos

-----------------------------------------------------------------------------
(* The shape of every variable *)

LEMMA Procesa ==
  /\ Servidor \in Procesos /\ Servidor \notin Consolas
  /\ \A p \in Consolas : p \in Procesos /\ p # Servidor
  BY ConstantesOK DEF Procesos

LEMMA OrdenVacia == SinOrden \notin Linea /\ SinOrden \in Orden
  BY ConstantesOK DEF SinOrden, Linea, Orden

\* A process goes on to a step of its own, with an order if the step has one.
LEMMA MarchaSigue ==
  ASSUME Base, NEW p \in Procesos, NEW paso, NEW o, Ir(p, paso),
         paso \in IF p = Servidor THEN DeServidor ELSE DeConsola,
         orden' = [orden EXCEPT ![p] = o],
         IF paso \in ConOrden THEN o \in Linea ELSE o = SinOrden
  PROVE  Marcha' /\ pc' \in [Procesos -> Pasos] /\ orden' \in [Procesos -> Orden]
<1>1. pc \in [Procesos -> Pasos] /\ orden \in [Procesos -> Orden] /\ Marcha
  BY DEF Base, TypeOK
<1>2. paso \in Pasos
  BY DEF DeServidor, DeConsola, Pasos
<1>3. o \in Orden
  BY OrdenVacia DEF Orden
<1>4. pc' = [pc EXCEPT ![p] = paso]
  BY DEF Ir
<1>5. pc' \in [Procesos -> Pasos] /\ orden' \in [Procesos -> Orden]
  BY <1>1, <1>2, <1>3, <1>4
<1>6. \A q \in Procesos : pc'[q] = (IF q = p THEN paso ELSE pc[q])
                          /\ orden'[q] = (IF q = p THEN o ELSE orden[q])
  BY <1>1, <1>4
<1>7. pc'[Servidor] \in DeServidor
  BY <1>1, <1>6, Procesa DEF Marcha
<1>8. \A q \in Consolas : pc'[q] \in DeConsola
  BY <1>1, <1>6, Procesa DEF Marcha
<1>9. ASSUME NEW q \in Procesos
      PROVE  IF pc'[q] \in ConOrden THEN orden'[q] \in Linea ELSE orden'[q] = SinOrden
  BY <1>1, <1>6 DEF Marcha
<1>10. QED
  BY <1>5, <1>7, <1>8, <1>9 DEF Marcha

LEMMA MarchaConOrden ==
  ASSUME Base, NEW p \in Procesos, NEW paso, Ir(p, paso), UNCHANGED orden,
         paso \in IF p = Servidor THEN DeServidor ELSE DeConsola,
         paso \in ConOrden <=> pc[p] \in ConOrden
  PROVE  Marcha' /\ pc' \in [Procesos -> Pasos] /\ orden' \in [Procesos -> Orden]
<1>1. orden \in [Procesos -> Orden] /\ Marcha
  BY DEF Base, TypeOK
<1>2. orden' = [orden EXCEPT ![p] = orden[p]]
  BY <1>1
<1>3. IF paso \in ConOrden THEN orden[p] \in Linea ELSE orden[p] = SinOrden
  BY <1>1 DEF Marcha
<1>4. QED
  BY <1>2, <1>3, MarchaSigue

LEMMA MarchaTermina ==
  ASSUME Base, NEW p \in Procesos, Termina(p)
  PROVE  Marcha' /\ pc' \in [Procesos -> Pasos] /\ orden' \in [Procesos -> Orden]
<1>1. Reposo(p) \in (IF p = Servidor THEN DeServidor ELSE DeConsola) /\ Reposo(p) \notin ConOrden
  BY DEF Reposo, DeServidor, DeConsola, ConOrden
<1>2. QED
  BY <1>1, MarchaSigue DEF Termina

\* The orders of those who work.
LEMMA OrdenDe ==
  ASSUME Base, NEW p \in Procesos, pc[p] \in ConOrden
  PROVE  orden[p] \in Linea /\ orden[p].usuario \in Usuarios /\ orden[p].isbn \in ISBNs
  BY DEF Base, Marcha, Linea

\* A step of somebody who is not importing leaves the imports alone.
LEMMA ImportacionQuieta ==
  ASSUME Base, NEW p \in Procesos, NEW paso, Ir(p, paso),
         pc[p] \notin {"abrir", "importar"} \/ p \notin Consolas, paso \notin {"abrir", "importar"},
         UNCHANGED importa
  PROVE  Importacion' /\ \A q \in Consolas : (Importando(q))' <=> Importando(q)
<1>1. pc \in [Procesos -> Pasos] /\ Importacion
  BY DEF Base, TypeOK
<1>2. \A q \in Consolas : pc'[q] = pc[q] \/ (pc[q] \notin {"abrir",
     "importar"} /\ pc'[q] \notin {"abrir", "importar"})
  BY <1>1, Procesa DEF Ir
<1>3. tabla' = tabla /\ pendientes' = pendientes
  BY DEF importa
<1>4. \A q \in Consolas : (Importando(q))' <=> Importando(q)
  BY <1>2 DEF Importando
<1>5. \A q \in Consolas : pc'[q] # "importar" => pc[q] # "importar"
  BY <1>2
<1>6. Importacion'
  BY <1>1, <1>3, <1>4, <1>5 DEF Importacion
<1>7. QED
  BY <1>4, <1>6

LEMMA ImportacionAjena ==
  ASSUME Base, NEW p \in Procesos, NEW paso, Ir(p, paso),
         pc[p] \notin {"abrir", "importar"} \/ p \notin Consolas, paso \notin {"abrir", "importar"},
         UNCHANGED importa, avisos \subseteq avisos'
  PROVE  Importacion' /\ Manejo'
<1>1. manejador' = manejador /\ Manejo
  BY DEF importa, Base
<1>2. QED
  BY <1>1, ImportacionQuieta DEF Manejo

\* The types but those of the control.
TipoTablas ==
  /\ librosBD \in Seq([isbn : ISBNs, copias : Int])
  /\ prestamosBD \in Seq(Linea)
  /\ historialBD \subseteq Leidos

TipoFicheros ==
  /\ librosCSV \in [ISBNs -> Nat]
  /\ prestamosCSV \in Seq(Linea)
  /\ historialCSV \in Seq(LineaHistorial)

TipoImporta ==
  /\ tabla \in [Consolas -> {"libros", "historial", "prestamos", "ninguna"}]
  /\ local \in [Consolas -> Leidos]
  /\ manejador \in [Consolas -> {"vivo", "muerto"}]

TipoHistoria ==
  /\ limpio \in [Consolas -> BOOLEAN]
  /\ aperturas \in Nat
  /\ avisos \subseteq {"muerto", "corte", "solape"}
  /\ sobras \in [Linea -> Nat]
  /\ cortadas \subseteq Usuarios \X ISBNs

LEMMA TiposPorPartes ==
  TypeOK <=> /\ TipoTablas /\ TipoFicheros /\ TipoImporta /\ TipoHistoria
             /\ pc \in [Procesos -> Pasos] /\ orden \in [Procesos -> Orden] /\ cuenta \in Nat
<1>1. ToSet(Tablas) \cup {"ninguna"} = {"libros", "historial", "prestamos", "ninguna"}
  BY TresTablas
<1>2. QED
  BY <1>1 DEF TypeOK, TipoTablas, TipoFicheros, TipoImporta, TipoHistoria

LEMMA BaseDespues ==
  ASSUME TipoTablas', TipoFicheros', TipoImporta', TipoHistoria',
         pc' \in [Procesos -> Pasos], orden' \in [Procesos -> Orden], cuenta' \in Nat,
         Marcha', Importacion', Manejo'
  PROVE  Base'
<1>1. ToSet(Tablas) \cup {"ninguna"} = {"libros", "historial", "prestamos", "ninguna"}
  BY TresTablas
<1>2. TypeOK'
  BY <1>1 DEF TypeOK, TipoTablas, TipoFicheros, TipoImporta, TipoHistoria
<1>3. QED
  BY <1>2 DEF Base

LEMMA InitBase == Init => Base
<1> SUFFICES ASSUME Init
             PROVE  Base
  OBVIOUS
<1>1. LineasIniciales \in Seq(LineaHistorial) /\ CopiasIniciales \in [ISBNs -> Nat]
  BY ConstantesOK
<1>2. prestamosCSV \in Seq(Linea)
  <2>1. \A k \in 1 .. Len(LineasIniciales) :
          [usuario |-> LineasIniciales[k].usuario, isbn |-> LineasIniciales[k].isbn] \in Linea
    <3>1. SUFFICES ASSUME NEW k \in 1 .. Len(LineasIniciales)
                   PROVE  [usuario |-> LineasIniciales[k].usuario,
                           isbn |-> LineasIniciales[k].isbn] \in Linea
      OBVIOUS
    <3>2. LineasIniciales[k] \in LineaHistorial
      BY <1>1
    <3>3. QED
      BY <3>2, CamposDeLinea DEF Linea
  <2>2. DOMAIN LineasIniciales = 1 .. Len(LineasIniciales) /\ Len(LineasIniciales) \in Nat
    BY <1>1
  <2>3. QED
    BY <2>1, <2>2 DEF Init
<1>3. TipoTablas /\ TipoFicheros
  BY <1>1, <1>2 DEF Init, TipoTablas, TipoFicheros
<1>4. TipoImporta
  BY ResiduoLeido DEF Init, TipoImporta
<1>5. TipoHistoria /\ cuenta \in Nat
  BY DEF Init, TipoHistoria
<1>6. pc \in [Procesos -> Pasos] /\ orden \in [Procesos -> Orden]
  BY OrdenVacia DEF Init, Pasos
<1>7. \A p \in Consolas : pc[p] = "cerrado" /\ ~ Importando(p)
  BY Procesa DEF Init, Importando
<1>8. Marcha
  BY <1>7, Procesa DEF Init, Marcha, DeServidor, DeConsola, ConOrden
<1>9. Importacion
  <2>1. \A p \in Consolas : tabla[p] = "ninguna" /\ pendientes[p] = << >>
    BY DEF Init
  <2>2. pendientes \in [Consolas -> Seq(FilasDeLibros \cup Linea \cup Piezas)]
    BY DEF Init
  <2>3. QED
    BY <1>7, <2>1, <2>2 DEF Importacion
<1>10. Manejo
  BY <1>7 DEF Manejo
<1>11. QED
  BY <1>3, <1>4, <1>5, <1>6, <1>8, <1>9, <1>10, TiposPorPartes DEF Base

-----------------------------------------------------------------------------
(* The statements of the server *)

LEMMA EscribeBase ==
  ASSUME Base, NEW paso, Escribe(paso), paso \in ConOrden \cap DeServidor,
         pc[Servidor] \in ConOrden
  PROVE  /\ Marcha' /\ pc' \in [Procesos -> Pasos] /\ orden' \in [Procesos -> Orden]
         /\ Importacion' /\ Manejo' /\ TipoFicheros' /\ TipoImporta' /\ cuenta' \in Nat
         /\ limpio' \in [Consolas -> BOOLEAN] /\ aperturas' \in Nat
         /\ avisos' \subseteq {"muerto", "corte", "solape"}
<1>1. Ir(Servidor, paso) /\ UNCHANGED <<csv, orden, cuenta, importa, aperturas, avisos, cotas>>
      /\ limpio' = [q \in Consolas |-> FALSE]
  BY DEF Escribe
<1>2. Marcha' /\ pc' \in [Procesos -> Pasos] /\ orden' \in [Procesos -> Orden]
  BY <1>1, Procesa, MarchaConOrden
<1>3. Importacion' /\ Manejo'
  <2>1. paso \notin {"abrir", "importar"}
    BY DEF DeServidor
  <2>2. avisos \subseteq avisos'
    BY <1>1
  <2>3. QED
    BY <1>1, <2>1, <2>2, Procesa, ImportacionAjena
<1>4. TipoFicheros' /\ TipoImporta' /\ cuenta' \in Nat
  BY <1>1, TiposPorPartes DEF Base, csv, importa, TipoFicheros, TipoImporta
<1>5. QED
  BY <1>1, <1>2, <1>3, <1>4, TiposPorPartes DEF Base, TipoHistoria

LEMMA ConMasTipo ==
  ASSUME Base, NEW i, NEW n \in Int
  PROVE  /\ ConMas(i, n) \in Seq([isbn : ISBNs, copias : Int])
         /\ Len(ConMas(i, n)) = Len(librosBD)
         /\ \A k \in 1 .. Len(librosBD) : ConMas(i, n)[k].isbn = librosBD[k].isbn
<1>1. librosBD \in Seq([isbn : ISBNs, copias : Int])
  BY DEF Base, TypeOK
<1>2. DOMAIN librosBD = 1 .. Len(librosBD) /\ Len(librosBD) \in Nat
  BY <1>1
<1>3. \A k \in 1 .. Len(librosBD) :
        LET f == IF librosBD[k].isbn = i THEN [librosBD[k] EXCEPT !.copias = @ + n] ELSE librosBD[k]
        IN  f \in [isbn : ISBNs, copias : Int] /\ f.isbn = librosBD[k].isbn
  <2>1. SUFFICES ASSUME NEW k \in 1 .. Len(librosBD)
                 PROVE  LET f == IF librosBD[k].isbn = i THEN [librosBD[k] EXCEPT !.copias = @ + n]
                                 ELSE librosBD[k]
                        IN  f \in [isbn : ISBNs, copias : Int] /\ f.isbn = librosBD[k].isbn
    OBVIOUS
  <2>2. librosBD[k] \in [isbn : ISBNs, copias : Int]
    BY <1>1, ElementOfSeq
  <2>3. QED
    BY <2>2
<1>4. QED
  BY <1>2, <1>3 DEF ConMas

LEMMA RestarBase == Base /\ Restar => Base'
<1> SUFFICES ASSUME Base, Restar
             PROVE  Base'
  OBVIOUS
<1>1. pc[Servidor] = "restar" /\ Escribe("insertar")
      /\ librosBD' = ConMas(orden[Servidor].isbn, -1)
      /\ UNCHANGED <<prestamosBD, historialBD, sobras, cortadas>>
  BY DEF Restar
<1>2. "restar" \in ConOrden /\ "insertar" \in ConOrden \cap DeServidor
  BY DEF ConOrden, DeServidor
<1>3. TipoTablas'
  <2>1. librosBD' \in Seq([isbn : ISBNs, copias : Int])
    <3>1. -1 \in Int
      OBVIOUS
    <3>2. QED
      BY <1>1, <3>1, ConMasTipo
  <2>2. QED
    BY <1>1, <2>1, TiposPorPartes DEF Base, TipoTablas
<1>4. TipoHistoria'
  BY <1>1, <1>2, EscribeBase, TiposPorPartes DEF Base, TipoHistoria
<1>5. QED
  BY <1>1, <1>2, <1>3, <1>4, EscribeBase, BaseDespues

LEMMA InsertarBase == Base /\ Insertar => Base'
<1> SUFFICES ASSUME Base, Insertar
             PROVE  Base'
  OBVIOUS
<1>1. pc[Servidor] = "insertar" /\ Escribe("anotar")
      /\ prestamosBD' = Append(prestamosBD, orden[Servidor])
      /\ UNCHANGED <<librosBD, historialBD, sobras, cortadas>>
  BY DEF Insertar
<1>2. "insertar" \in ConOrden /\ "anotar" \in ConOrden \cap DeServidor
  BY DEF ConOrden, DeServidor
<1>3. TipoTablas'
  <2>1. orden[Servidor] \in Linea
    BY <1>1, <1>2, OrdenDe, Procesa
  <2>2. prestamosBD \in Seq(Linea)
    BY DEF Base, TypeOK
  <2>3. prestamosBD' \in Seq(Linea)
    BY <1>1, <2>1, <2>2, AlFinal
  <2>4. QED
    BY <1>1, <2>3, TiposPorPartes DEF Base, TipoTablas
<1>4. TipoHistoria'
  BY <1>1, <1>2, EscribeBase, TiposPorPartes DEF Base, TipoHistoria
<1>5. QED
  BY <1>1, <1>2, <1>3, <1>4, EscribeBase, BaseDespues

LEMMA SobraTipo ==
  ASSUME Base, NEW p \in Procesos, Sobra(p)
  PROVE  sobras' \in [Linea -> Nat]
<1>1. sobras \in [Linea -> Nat]
  BY DEF Base, TypeOK
<1>2. CASE p = Servidor /\ pc[p] \in {"anotar", "csv_pedir", "csv_prestamo"}
  <2>1. orden[p] \in Linea
    BY <1>2, OrdenDe DEF ConOrden
  <2>2. sobras' = [sobras EXCEPT ![orden[p]] = @ + 1]
    BY <1>2 DEF Sobra
  <2>3. QED
    BY <1>1, <2>1, <2>2
<1>3. CASE ~ (p = Servidor /\ pc[p] \in {"anotar", "csv_pedir", "csv_prestamo"})
  BY <1>1, <1>3 DEF Sobra
<1>4. QED
  BY <1>2, <1>3

\* An operation that ends leaves the imports alone.
LEMMA TerminaAjena ==
  ASSUME Base, NEW p \in Procesos, Termina(p), pc[p] \notin {"abrir", "importar"},
         UNCHANGED importa, avisos \subseteq avisos'
  PROVE  Importacion' /\ Manejo'
<1>1. Ir(p, Reposo(p)) /\ Reposo(p) \notin {"abrir", "importar"}
  BY DEF Termina, Reposo
<1>2. QED
  BY <1>1, ImportacionAjena

LEMMA AnotarBase == Base /\ Anotar => Base'
<1> SUFFICES ASSUME Base, Anotar
             PROVE  Base'
  OBVIOUS
<1> DEFINE fila == [usuario |-> orden[Servidor].usuario, isbn |-> orden[Servidor].isbn,
                    fecha |-> Hoy, estado |-> "activo"]
<1>1. pc[Servidor] = "anotar" /\ UNCHANGED <<librosBD, prestamosBD, cortadas>>
  BY DEF Anotar
<1>2. "anotar" \in ConOrden /\ "csv_pedir" \in ConOrden \cap DeServidor
  BY DEF ConOrden, DeServidor
<1>3. CASE /\ historialBD' = historialBD \cup {fila}
           /\ Escribe("csv_pedir")
           /\ UNCHANGED sobras
  <2>1. fila \in Leidos
    BY <1>1, <1>2, OrdenDe, Procesa DEF Leidos
  <2>2. historialBD' \subseteq Leidos
    <3> HIDE DEF fila
    <3>1. QED
      BY <1>3, <2>1 DEF Base, TypeOK
  <2>3. TipoTablas'
    BY <1>1, <2>2, TiposPorPartes DEF Base, TipoTablas
  <2>4. TipoHistoria'
    BY <1>1, <1>2, <1>3, EscribeBase, TiposPorPartes DEF Base, TipoHistoria
  <2>5. QED
    BY <1>1, <1>2, <1>3, <2>3, <2>4, EscribeBase, BaseDespues
<1>4. CASE /\ Sobra(Servidor)
           /\ Termina(Servidor)
           /\ UNCHANGED <<historialBD, csv, cuenta, importa, limpio, aperturas, avisos, cotas>>
  <2>1. TipoTablas' /\ TipoFicheros' /\ TipoImporta' /\ cuenta' \in Nat
    BY <1>1, <1>4, TiposPorPartes DEF Base, TipoTablas, TipoFicheros, TipoImporta, csv, importa
  <2>2. TipoHistoria'
    BY <1>1, <1>4, SobraTipo, Procesa, TiposPorPartes DEF Base, TipoHistoria
  <2>3. Marcha' /\ pc' \in [Procesos -> Pasos] /\ orden' \in [Procesos -> Orden]
    BY <1>4, MarchaTermina, Procesa
  <2>4. Importacion' /\ Manejo'
    BY <1>1, <1>4, TerminaAjena, Procesa
  <2>5. QED
    BY <2>1, <2>2, <2>3, <2>4, BaseDespues
<1>5. QED
  BY <1>3, <1>4 DEF Anotar

(***************************************************************************)
(* What the server looks at between two of its steps stays: the row that   *)
(* it is about to delete, and the books that it has counted.               *)
(***************************************************************************)
Presente ==
  /\ pc[Servidor] = "borrar" => \E k \in 1 .. Len(prestamosBD) : prestamosBD[k] = orden[Servidor]
  /\ NadieEsperaLineas

LEMMA BorrarFilaBase == Base /\ Presente /\ BorrarFila => Base'
<1> SUFFICES ASSUME Base, Presente, BorrarFila
             PROVE  Base'
  OBVIOUS
<1>1. pc[Servidor] = "borrar" /\ Escribe("sumar")
      /\ prestamosBD' = RemoveFirst(prestamosBD, orden[Servidor])
      /\ UNCHANGED <<librosBD, historialBD, sobras, cortadas>>
  BY DEF BorrarFila
<1>2. "borrar" \in ConOrden /\ "sumar" \in ConOrden \cap DeServidor
  BY DEF ConOrden, DeServidor
<1>3. TipoTablas'
  <2>1. \E k \in 1 .. Len(prestamosBD) : prestamosBD[k] = orden[Servidor]
    BY <1>1 DEF Presente
  <2>2. prestamosBD \in Seq(Linea)
    BY DEF Base, TypeOK
  <2>3. prestamosBD' \in Seq(Linea)
    BY <1>1, <2>1, <2>2, QuitaUna
  <2>4. QED
    BY <1>1, <2>3, TiposPorPartes DEF Base, TipoTablas
<1>4. TipoHistoria'
  BY <1>1, <1>2, EscribeBase, TiposPorPartes DEF Base, TipoHistoria
<1>5. QED
  BY <1>1, <1>2, <1>3, <1>4, EscribeBase, BaseDespues

LEMMA SumarBase == Base /\ Sumar => Base'
<1> SUFFICES ASSUME Base, Sumar
             PROVE  Base'
  OBVIOUS
<1>1. pc[Servidor] = "sumar" /\ Escribe("cerrar")
      /\ librosBD' = ConMas(orden[Servidor].isbn, 1)
      /\ UNCHANGED <<prestamosBD, historialBD, sobras, cortadas>>
  BY DEF Sumar
<1>2. "sumar" \in ConOrden /\ "cerrar" \in ConOrden \cap DeServidor
  BY DEF ConOrden, DeServidor
<1>3. TipoTablas'
  <2>1. librosBD' \in Seq([isbn : ISBNs, copias : Int])
    <3>1. 1 \in Int
      OBVIOUS
    <3>2. QED
      BY <1>1, <3>1, ConMasTipo
  <2>2. QED
    BY <1>1, <2>1, TiposPorPartes DEF Base, TipoTablas
<1>4. TipoHistoria'
  BY <1>1, <1>2, EscribeBase, TiposPorPartes DEF Base, TipoHistoria
<1>5. QED
  BY <1>1, <1>2, <1>3, <1>4, EscribeBase, BaseDespues

LEMMA CerradaTipo ==
  /\ \A r \in Leidos, o \in Linea : Cerrada(r, o) \in Leidos
  /\ \A r \in LineaHistorial, o \in Linea : Cerrada(r, o) \in LineaHistorial
  BY DEF Cerrada, Leidos, LineaHistorial

LEMMA CerrarBase == Base /\ Cerrar => Base'
<1> SUFFICES ASSUME Base, Cerrar
             PROVE  Base'
  OBVIOUS
<1>1. pc[Servidor] = "cerrar" /\ Escribe("csv_devolver")
      /\ historialBD' = {Cerrada(r, orden[Servidor]) : r \in historialBD}
      /\ UNCHANGED <<librosBD, prestamosBD, sobras, cortadas>>
  BY DEF Cerrar
<1>2. "cerrar" \in ConOrden /\ "csv_devolver" \in ConOrden \cap DeServidor
  BY DEF ConOrden, DeServidor
<1>3. TipoTablas'
  <2>1. orden[Servidor] \in Linea
    BY <1>1, <1>2, OrdenDe, Procesa
  <2>2. historialBD \subseteq Leidos
    BY DEF Base, TypeOK
  <2>3. historialBD' \subseteq Leidos
    BY <1>1, <2>1, <2>2, CerradaTipo
  <2>4. QED
    BY <1>1, <2>3, TiposPorPartes DEF Base, TipoTablas
<1>4. TipoHistoria'
  BY <1>1, <1>2, EscribeBase, TiposPorPartes DEF Base, TipoHistoria
<1>5. QED
  BY <1>1, <1>2, <1>3, <1>4, EscribeBase, BaseDespues

LEMMA PedirBase ==
  ASSUME Base, NEW u \in Usuarios, NEW i \in ISBNs, Pedir(u, i) \/ Devolver(u, i)
  PROVE  Base'
<1>1. PICK paso \in {"restar", "borrar"} :
        /\ pc[Servidor] = "esperando"
        /\ Ir(Servidor, paso)
        /\ orden' = [orden EXCEPT ![Servidor] = [usuario |-> u, isbn |-> i]]
        /\ UNCHANGED <<bd, csv, cuenta, importa, historia, arranques>>
  BY DEF Pedir, Devolver, Empieza
<1>2. paso \in DeServidor /\ paso \in ConOrden
  BY DEF DeServidor, ConOrden
<1>3. [usuario |-> u, isbn |-> i] \in Linea
  BY DEF Linea
<1>4. Marcha' /\ pc' \in [Procesos -> Pasos] /\ orden' \in [Procesos -> Orden]
  BY <1>1, <1>2, <1>3, Procesa, MarchaSigue
<1>5. avisos \subseteq avisos' /\ paso \notin {"abrir", "importar"}
  BY <1>1 DEF historia
<1>6. Importacion' /\ Manejo'
  BY <1>1, <1>5, Procesa, ImportacionAjena
<1>7. TipoTablas' /\ TipoFicheros' /\ TipoImporta' /\ TipoHistoria' /\ cuenta' \in Nat
  BY <1>1, TiposPorPartes
     DEF Base, bd, csv, importa, historia, TipoTablas, TipoFicheros, TipoImporta, TipoHistoria
<1>8. QED
  BY <1>4, <1>6, <1>7, BaseDespues

LEMMA ContarBase == Base /\ Contar => Base'
<1> SUFFICES ASSUME Base, Contar
             PROVE  Base'
  OBVIOUS
<1>1. /\ pc[Servidor] = "esperando"
      /\ Ir(Servidor, "enviar")
      /\ orden' = [orden EXCEPT ![Servidor] = SinOrden]
      /\ cuenta' = Len(librosBD)
      /\ UNCHANGED <<bd, csv, importa, historia, arranques>>
  BY DEF Contar, Empieza, SinOrden
<1>2. "enviar" \in DeServidor /\ "enviar" \notin ConOrden
  BY DEF DeServidor, ConOrden
<1>3. Marcha' /\ pc' \in [Procesos -> Pasos] /\ orden' \in [Procesos -> Orden]
  BY <1>1, <1>2, Procesa, MarchaSigue
<1>4. Importacion' /\ Manejo'
  <2>1. avisos \subseteq avisos'
    BY <1>1 DEF historia
  <2>2. QED
    BY <1>1, <2>1, Procesa, ImportacionAjena
<1>5. cuenta' \in Nat
  <2>1. Len(librosBD) \in Nat
    BY DEF Base, TypeOK
  <2>2. QED
    BY <1>1, <2>1
<1>6. TipoTablas' /\ TipoFicheros' /\ TipoImporta' /\ TipoHistoria'
  BY <1>1, TiposPorPartes
     DEF Base, bd, csv, importa, historia, TipoTablas, TipoFicheros, TipoImporta, TipoHistoria
<1>7. QED
  BY <1>3, <1>4, <1>5, <1>6, BaseDespues

LEMMA EnviarBase == Base /\ Enviar => Base'
<1> SUFFICES ASSUME Base, Enviar
             PROVE  Base'
  OBVIOUS
<1>1. /\ pc[Servidor] = "enviar" /\ cuenta' = 0 /\ Termina(Servidor)
      /\ UNCHANGED <<bd, csv, importa, historia, cotas>>
  BY DEF Enviar
<1>2. Marcha' /\ pc' \in [Procesos -> Pasos] /\ orden' \in [Procesos -> Orden]
  BY <1>1, Procesa, MarchaTermina
<1>3. Importacion' /\ Manejo'
  BY <1>1, Procesa, TerminaAjena DEF historia
<1>4. TipoTablas' /\ TipoFicheros' /\ TipoImporta' /\ TipoHistoria' /\ cuenta' \in Nat
  BY <1>1, TiposPorPartes
     DEF Base, bd, csv, importa, historia, TipoTablas, TipoFicheros, TipoImporta, TipoHistoria
<1>5. QED
  BY <1>2, <1>3, <1>4, BaseDespues

-----------------------------------------------------------------------------
(* The steps on the files, and what interrupts an operation *)

LEMMA CsvPedirBase ==
  ASSUME Base, NEW p \in Procesos, CsvPedir(p)
  PROVE  Base'
<1>1. /\ pc[p] = "csv_pedir"
      /\ UNCHANGED <<bd, prestamosCSV, historialCSV, cuenta, importa, limpio, aperturas, avisos,
                     cortadas, cotas>>
  BY DEF CsvPedir
<1>2. orden[p] \in Linea /\ orden[p].isbn \in ISBNs
  BY <1>1, OrdenDe DEF ConOrden
<1>3. TipoTablas' /\ TipoImporta' /\ cuenta' \in Nat
  BY <1>1, TiposPorPartes DEF Base, bd, importa, TipoTablas, TipoImporta
<1>4. CASE /\ HayCopias(librosCSV[orden[p].isbn])
           /\ librosCSV' = [librosCSV EXCEPT ![orden[p].isbn] = @ - 1]
           /\ Ir(p, "csv_prestamo")
           /\ UNCHANGED <<orden, sobras>>
  <2>1. librosCSV' \in [ISBNs -> Nat]
    BY <1>2, <1>4 DEF Base, TypeOK, HayCopias
  <2>2. TipoFicheros' /\ TipoHistoria'
    BY <1>1, <1>4, <2>1, TiposPorPartes DEF Base, TipoFicheros, TipoHistoria
  <2>3. Marcha' /\ pc' \in [Procesos -> Pasos] /\ orden' \in [Procesos -> Orden]
    <3>1. /\ "csv_prestamo" \in IF p = Servidor THEN DeServidor ELSE DeConsola
          /\ "csv_prestamo" \in ConOrden /\ "csv_pedir" \in ConOrden
      BY DEF DeServidor, DeConsola, ConOrden
    <3>2. QED
      BY <1>1, <1>4, <3>1, MarchaConOrden
  <2>4. Importacion' /\ Manejo'
    BY <1>1, <1>4, ImportacionAjena
  <2>5. QED
    BY <1>3, <2>2, <2>3, <2>4, BaseDespues
<1>5. CASE Sobra(p) /\ Termina(p) /\ UNCHANGED librosCSV
  <2>1. TipoFicheros' /\ TipoHistoria'
    BY <1>1, <1>5, SobraTipo, TiposPorPartes DEF Base, TipoFicheros, TipoHistoria
  <2>2. Marcha' /\ pc' \in [Procesos -> Pasos] /\ orden' \in [Procesos -> Orden]
    BY <1>5, MarchaTermina
  <2>3. Importacion' /\ Manejo'
    BY <1>1, <1>5, TerminaAjena
  <2>4. QED
    BY <1>3, <2>1, <2>2, <2>3, BaseDespues
<1>6. QED
  BY <1>4, <1>5 DEF CsvPedir

LEMMA CsvPrestamoBase ==
  ASSUME Base, NEW p \in Procesos, CsvPrestamo(p)
  PROVE  Base'
<1>1. /\ pc[p] = "csv_prestamo"
      /\ prestamosCSV' = Append(prestamosCSV, orden[p])
      /\ avisos \subseteq avisos' /\ avisos' \subseteq avisos \cup {"solape"}
      /\ Ir(p, "csv_historial")
      /\ UNCHANGED <<bd, librosCSV, historialCSV, orden, cuenta, importa, limpio, aperturas,
                     sobras, cortadas, cotas>>
  BY DEF CsvPrestamo
<1>2. orden[p] \in Linea
  BY <1>1, OrdenDe DEF ConOrden
<1>3. prestamosCSV' \in Seq(Linea)
  BY <1>1, <1>2, AlFinal DEF Base, TypeOK
<1>4. TipoTablas' /\ TipoFicheros' /\ TipoImporta' /\ TipoHistoria' /\ cuenta' \in Nat
  BY <1>1, <1>3, TiposPorPartes
     DEF Base, bd, importa, TipoTablas, TipoFicheros, TipoImporta, TipoHistoria
<1>5. Marcha' /\ pc' \in [Procesos -> Pasos] /\ orden' \in [Procesos -> Orden]
  <2>1. /\ "csv_historial" \in IF p = Servidor THEN DeServidor ELSE DeConsola
        /\ "csv_historial" \in ConOrden /\ "csv_prestamo" \in ConOrden
    BY DEF DeServidor, DeConsola, ConOrden
  <2>2. QED
    BY <1>1, <2>1, MarchaConOrden
<1>6. Importacion' /\ Manejo'
  BY <1>1, ImportacionAjena
<1>7. QED
  BY <1>4, <1>5, <1>6, BaseDespues

LEMMA CsvHistorialBase ==
  ASSUME Base, NEW p \in Procesos, CsvHistorial(p)
  PROVE  Base'
<1> DEFINE l == [usuario |-> orden[p].usuario, isbn |-> orden[p].isbn,
                 fecha |-> Hoy, estado |-> "activo"]
<1>1. /\ pc[p] = "csv_historial" /\ Termina(p)
      /\ historialCSV' = Append(historialCSV, l)
      /\ UNCHANGED <<bd, librosCSV, prestamosCSV, cuenta, importa, historia, cotas>>
  BY DEF CsvHistorial
<1>2. l \in LineaHistorial
  BY <1>1, OrdenDe DEF ConOrden, LineaHistorial
<1> HIDE DEF l
<1>3. historialCSV' \in Seq(LineaHistorial)
  BY <1>1, <1>2, AlFinal DEF Base, TypeOK
<1>4. TipoTablas' /\ TipoFicheros' /\ TipoImporta' /\ TipoHistoria' /\ cuenta' \in Nat
  BY <1>1, <1>3, TiposPorPartes
     DEF Base, bd, importa, historia, TipoTablas, TipoFicheros, TipoImporta, TipoHistoria
<1>5. Marcha' /\ pc' \in [Procesos -> Pasos] /\ orden' \in [Procesos -> Orden]
  BY <1>1, MarchaTermina
<1>6. Importacion' /\ Manejo'
  BY <1>1, TerminaAjena DEF historia
<1>7. QED
  BY <1>4, <1>5, <1>6, BaseDespues

LEMMA CsvDevolverBase ==
  ASSUME Base, NEW p \in Procesos, CsvDevolver(p)
  PROVE  Base'
<1>1. /\ pc[p] = "csv_devolver"
      /\ UNCHANGED <<bd, prestamosCSV, historialCSV, cuenta, importa, historia, cotas>>
  BY DEF CsvDevolver
<1>2. TipoTablas' /\ TipoImporta' /\ TipoHistoria' /\ cuenta' \in Nat
  BY <1>1, TiposPorPartes DEF Base, bd, importa, historia, TipoTablas, TipoImporta, TipoHistoria
<1>3. CASE /\ librosCSV' = [librosCSV EXCEPT ![orden[p].isbn] = @ + 1]
           /\ Ir(p, "csv_cierre") /\ UNCHANGED orden
  <2>1. TipoFicheros'
    <3>1. librosCSV \in [ISBNs -> Nat]
      BY DEF Base, TypeOK
    <3>2. \A n \in Nat : n + 1 \in Nat
      OBVIOUS
    <3>3. librosCSV' \in [ISBNs -> Nat]
      BY <1>3, <3>1, <3>2
    <3>4. QED
      BY <1>1, <3>3, TiposPorPartes DEF Base, TipoFicheros
  <2>2. Marcha' /\ pc' \in [Procesos -> Pasos] /\ orden' \in [Procesos -> Orden]
    <3>1. /\ "csv_cierre" \in IF p = Servidor THEN DeServidor ELSE DeConsola
          /\ "csv_cierre" \in ConOrden /\ "csv_devolver" \in ConOrden
      BY DEF DeServidor, DeConsola, ConOrden
    <3>2. QED
      BY <1>1, <1>3, <3>1, MarchaConOrden
  <2>3. Importacion' /\ Manejo'
    BY <1>1, <1>3, ImportacionAjena DEF historia
  <2>4. QED
    BY <1>2, <2>1, <2>2, <2>3, BaseDespues
<1>4. CASE Termina(p) /\ UNCHANGED librosCSV
  <2>1. TipoFicheros'
    BY <1>1, <1>4, TiposPorPartes DEF Base, TipoFicheros
  <2>2. Marcha' /\ pc' \in [Procesos -> Pasos] /\ orden' \in [Procesos -> Orden]
    BY <1>4, MarchaTermina
  <2>3. Importacion' /\ Manejo'
    BY <1>1, <1>4, TerminaAjena DEF historia
  <2>4. QED
    BY <1>2, <2>1, <2>2, <2>3, BaseDespues
<1>5. QED
  BY <1>3, <1>4 DEF CsvDevolver

LEMMA CsvCierreBase ==
  ASSUME Base, NEW p \in Procesos, CsvCierre(p)
  PROVE  Base'
<1>1. /\ pc[p] = "csv_cierre" /\ Termina(p)
      /\ \/ historialCSV' = historialCSV
         \/ historialCSV' = [k \in DOMAIN historialCSV |-> Cerrada(historialCSV[k], orden[p])]
      /\ UNCHANGED <<bd, librosCSV, prestamosCSV, cuenta, importa, historia, cotas>>
  BY DEF CsvCierre
<1>2. historialCSV' \in Seq(LineaHistorial)
  <2>1. orden[p] \in Linea
    BY <1>1, OrdenDe DEF ConOrden
  <2>2. historialCSV \in Seq(LineaHistorial)
    BY DEF Base, TypeOK
  <2>3. DOMAIN historialCSV = 1 .. Len(historialCSV) /\ Len(historialCSV) \in Nat
    BY <2>2
  <2>4. \A k \in 1 .. Len(historialCSV) : Cerrada(historialCSV[k], orden[p]) \in LineaHistorial
    BY <2>1, <2>2, ElementOfSeq, CerradaTipo
  <2>5. QED
    BY <1>1, <2>2, <2>3, <2>4
<1>3. TipoTablas' /\ TipoFicheros' /\ TipoImporta' /\ TipoHistoria' /\ cuenta' \in Nat
  BY <1>1, <1>2, TiposPorPartes
     DEF Base, bd, importa, historia, TipoTablas, TipoFicheros, TipoImporta, TipoHistoria
<1>4. Marcha' /\ pc' \in [Procesos -> Pasos] /\ orden' \in [Procesos -> Orden]
  BY <1>1, MarchaTermina
<1>5. Importacion' /\ Manejo'
  BY <1>1, TerminaAjena DEF historia
<1>6. QED
  BY <1>3, <1>4, <1>5, BaseDespues

LEMMA InterrumpeBase ==
  ASSUME Base, NEW p \in Procesos, Interrumpe(p)
  PROVE  Base'
<1>1. /\ orden[p] # SinOrden /\ Sobra(p) /\ Termina(p)
      /\ cortadas' = IF pc[p] \in {"sumar", "cerrar"}
                     THEN cortadas \cup {<<orden[p].usuario, orden[p].isbn>>} ELSE cortadas
      /\ UNCHANGED <<bd, csv, cuenta, importa, limpio, aperturas, avisos, arranques>>
  BY DEF Interrumpe
<1>2. pc[p] \in ConOrden
  BY <1>1 DEF Base, Marcha
<1>3. orden[p].usuario \in Usuarios /\ orden[p].isbn \in ISBNs
  BY <1>2, OrdenDe
<1>4. TipoHistoria'
  BY <1>1, <1>3, SobraTipo, TiposPorPartes DEF Base, TipoHistoria
<1>5. TipoTablas' /\ TipoFicheros' /\ TipoImporta' /\ cuenta' \in Nat
  BY <1>1, TiposPorPartes DEF Base, bd, csv, importa, TipoTablas, TipoFicheros, TipoImporta
<1>6. Marcha' /\ pc' \in [Procesos -> Pasos] /\ orden' \in [Procesos -> Orden]
  BY <1>1, MarchaTermina
<1>7. Importacion' /\ Manejo'
  BY <1>1, <1>2, TerminaAjena DEF ConOrden
<1>8. QED
  BY <1>4, <1>5, <1>6, <1>7, BaseDespues

LEMMA MenuPrincipalBase ==
  ASSUME Base, NEW p \in Consolas, NEW u \in Usuarios, NEW i \in ISBNs, MenuPrincipal(p, u, i)
  PROVE  Base'
<1>1. PICK paso \in {"csv_pedir", "csv_devolver"} :
        /\ pc[p] = "menu"
        /\ Ir(p, paso)
        /\ orden' = [orden EXCEPT ![p] = [usuario |-> u, isbn |-> i]]
        /\ UNCHANGED <<bd, csv, cuenta, importa, historia, arranques>>
  BY DEF MenuPrincipal, Empieza
<1>2. paso \in DeConsola /\ paso \in ConOrden
  BY DEF DeConsola, ConOrden
<1>3. [usuario |-> u, isbn |-> i] \in Linea
  BY DEF Linea
<1>4. Marcha' /\ pc' \in [Procesos -> Pasos] /\ orden' \in [Procesos -> Orden]
  BY <1>1, <1>2, <1>3, Procesa, MarchaSigue
<1>5. avisos \subseteq avisos' /\ paso \notin {"abrir", "importar"}
  BY <1>1 DEF historia
<1>6. Importacion' /\ Manejo'
  BY <1>1, <1>5, Procesa, ImportacionAjena
<1>7. TipoTablas' /\ TipoFicheros' /\ TipoImporta' /\ TipoHistoria' /\ cuenta' \in Nat
  BY <1>1, TiposPorPartes
     DEF Base, bd, csv, importa, historia, TipoTablas, TipoFicheros, TipoImporta, TipoHistoria
<1>8. QED
  BY <1>4, <1>6, <1>7, BaseDespues

-----------------------------------------------------------------------------
(* The start of a console *)

\* A console goes on to a step without an order.
LEMMA MarchaSinOrden ==
  ASSUME Base, NEW p \in Consolas, NEW paso, Ir(p, paso), paso \in DeConsola \ ConOrden,
         pc[p] \notin ConOrden, UNCHANGED orden
  PROVE  Marcha' /\ pc' \in [Procesos -> Pasos] /\ orden' \in [Procesos -> Orden]
  BY Procesa, MarchaConOrden

LEMMA SondearBase ==
  ASSUME Base, NEW p \in Consolas, Sondear(p) \/ CerrarSonda(p)
  PROVE  Base'
<1>1. PICK paso \in {"sonda", "sondeado"} : Ir(p, paso)
  BY DEF Sondear, CerrarSonda
<1>2. pc[p] \in {"cerrado", "sonda"} /\ UNCHANGED <<bd, csv, orden, cuenta, importa, historia>>
  BY DEF Sondear, CerrarSonda
<1>3. paso \in DeConsola \ ConOrden /\ pc[p] \notin ConOrden
  BY <1>2 DEF DeConsola, ConOrden
<1>4. Marcha' /\ pc' \in [Procesos -> Pasos] /\ orden' \in [Procesos -> Orden]
  BY <1>1, <1>2, <1>3, MarchaSinOrden
<1>5. Importacion' /\ Manejo'
  <2>1. avisos \subseteq avisos' /\ paso \notin {"abrir", "importar"} /\ pc[p] \notin {"abrir",
       "importar"}
    BY <1>2 DEF historia
  <2>2. QED
    BY <1>1, <1>2, <2>1, Procesa, ImportacionAjena
<1>6. TipoTablas' /\ TipoFicheros' /\ TipoImporta' /\ TipoHistoria' /\ cuenta' \in Nat
  BY <1>2, TiposPorPartes
     DEF Base, bd, csv, importa, historia, TipoTablas, TipoFicheros, TipoImporta, TipoHistoria
<1>7. QED
  BY <1>4, <1>5, <1>6, BaseDespues

LEMMA SalirBase ==
  ASSUME Base, NEW p \in Consolas, Salir(p)
  PROVE  Base'
<1>1. /\ pc[p] = "menu" /\ Ir(p, "cerrado")
      /\ UNCHANGED <<bd, csv, orden, cuenta, importa, historia, cotas>>
  BY DEF Salir
<1>2. "cerrado" \in DeConsola \ ConOrden /\ "menu" \notin ConOrden
  BY DEF DeConsola, ConOrden
<1>3. Marcha' /\ pc' \in [Procesos -> Pasos] /\ orden' \in [Procesos -> Orden]
  BY <1>1, <1>2, MarchaSinOrden
<1>4. Importacion' /\ Manejo'
  BY <1>1, Procesa, ImportacionAjena DEF historia
<1>5. TipoTablas' /\ TipoFicheros' /\ TipoImporta' /\ TipoHistoria' /\ cuenta' \in Nat
  BY <1>1, TiposPorPartes
     DEF Base, bd, csv, importa, historia, TipoTablas, TipoFicheros, TipoImporta, TipoHistoria
<1>6. QED
  BY <1>3, <1>4, <1>5, BaseDespues

\* Of the imports only that of p changes.
LEMMA ImportacionDe ==
  ASSUME Base, NEW p \in Consolas, NEW paso, Ir(p, paso), NEW t, NEW cola,
         tabla' = [tabla EXCEPT ![p] = t], pendientes' = [pendientes EXCEPT ![p] = cola],
         t \in {"libros", "historial", "prestamos", "ninguna"},
         paso \in {"abrir", "importar"} <=> t # "ninguna",
         paso # "importar" => cola = << >>,
         t = "libros" => cola \in Seq(FilasDeLibros),
         t = "historial" => cola \in Seq(Piezas),
         t = "prestamos" => cola \in Seq(Linea),
         t = "ninguna" => cola = << >>
  PROVE  Importacion' /\ tabla' \in [Consolas -> {"libros", "historial", "prestamos", "ninguna"}]
<1>1. /\ pc \in [Procesos -> Pasos] /\ Importacion
      /\ tabla \in [Consolas -> {"libros", "historial", "prestamos", "ninguna"}]
      /\ pendientes \in [Consolas -> Seq(FilasDeLibros \cup Linea \cup Piezas)]
  BY TiposPorPartes DEF Base, TipoImporta, Importacion
<1>2. cola \in Seq(FilasDeLibros \cup Linea \cup Piezas)
  <2>1. Seq(FilasDeLibros) \subseteq Seq(FilasDeLibros \cup Linea \cup Piezas)
    OBVIOUS
  <2>2. Seq(Piezas) \subseteq Seq(FilasDeLibros \cup Linea \cup Piezas)
    OBVIOUS
  <2>3. Seq(Linea) \subseteq Seq(FilasDeLibros \cup Linea \cup Piezas)
    OBVIOUS
  <2>4. << >> \in Seq(FilasDeLibros \cup Linea \cup Piezas)
    OBVIOUS
  <2>5. QED
    BY <2>1, <2>2, <2>3, <2>4
<1>3. /\ tabla' \in [Consolas -> {"libros", "historial", "prestamos", "ninguna"}]
      /\ pendientes' \in [Consolas -> Seq(FilasDeLibros \cup Linea \cup Piezas)]
  BY <1>1, <1>2
<1>4. \A q \in Consolas : /\ pc'[q] = (IF q = p THEN paso ELSE pc[q])
                          /\ tabla'[q] = (IF q = p THEN t ELSE tabla[q])
                          /\ pendientes'[q] = (IF q = p THEN cola ELSE pendientes[q])
  BY <1>1, Procesa DEF Ir
<1>5. ASSUME NEW q \in Consolas
      PROVE  /\ pc'[q] \in {"abrir", "importar"} <=> tabla'[q] # "ninguna"
             /\ pc'[q] # "importar" => pendientes'[q] = << >>
             /\ tabla'[q] = "libros" => pendientes'[q] \in Seq(FilasDeLibros)
             /\ tabla'[q] = "historial" => pendientes'[q] \in Seq(Piezas)
             /\ tabla'[q] = "prestamos" => pendientes'[q] \in Seq(Linea)
  <2>1. CASE q = p
    BY <1>4, <2>1
  <2>2. CASE q # p
    BY <1>1, <1>4, <2>2 DEF Importacion, Importando
  <2>3. QED
    BY <2>1, <2>2
<1>6. QED
  BY <1>3, <1>5 DEF Importacion, Importando

\* A start goes on with the handle it has.
LEMMA ManejoSigue ==
  ASSUME Base, NEW p \in Consolas, NEW paso, Ir(p, paso), avisos \subseteq avisos',
         manejador' = manejador, paso \in {"abrir", "importar"} => Importando(p)
  PROVE  Manejo'
<1>1. pc \in [Procesos -> Pasos] /\ Manejo
  BY DEF Base, TypeOK
<1>2. \A q \in Consolas : (Importando(q))' => Importando(q)
  BY <1>1, Procesa DEF Ir, Importando
<1>3. QED
  BY <1>1, <1>2 DEF Manejo

\* A file that nobody has open is not being imported into.
LEMMA NadieLaTiene ==
  ASSUME Base, ~ EnUso, NEW q \in Consolas
  PROVE  /\ pc[Servidor] = "esperando" /\ pc[q] \in {"cerrado", "sondeado", "borrado"}
         /\ ~ Importando(q) /\ tabla[q] = "ninguna" /\ pendientes[q] = << >>
  BY DEF EnUso, LaTiene, Importando, Base, Importacion

LEMMA BorrarBase ==
  ASSUME Base, NEW p \in Consolas, Borrar(p)
  PROVE  Base'
<1>1. /\ pc[p] = "sondeado" /\ Ir(p, "borrado")
      /\ IF EnUso THEN UNCHANGED <<bd, historia>> ELSE Vacia
      /\ UNCHANGED <<csv, orden, cuenta, importa, cotas>>
  BY DEF Borrar
<1>2. "borrado" \in DeConsola \ ConOrden /\ "sondeado" \notin ConOrden
  BY DEF DeConsola, ConOrden
<1>3. Marcha' /\ pc' \in [Procesos -> Pasos] /\ orden' \in [Procesos -> Orden]
  BY <1>1, <1>2, MarchaSinOrden
<1>4. Importacion' /\ \A q \in Consolas : (Importando(q))' <=> Importando(q)
  BY <1>1, Procesa, ImportacionQuieta
<1>5. Manejo'
  <2>1. manejador' = manejador /\ Manejo
    BY <1>1 DEF importa, Base
  <2>2. CASE EnUso
    BY <1>1, <1>4, <2>1, <2>2 DEF historia, Manejo
  <2>3. CASE ~ EnUso
    BY <1>4, <2>3, NadieLaTiene DEF Manejo
  <2>4. QED
    BY <2>2, <2>3
<1>6. TipoFicheros' /\ TipoImporta' /\ cuenta' \in Nat
  BY <1>1, TiposPorPartes DEF Base, csv, importa, TipoFicheros, TipoImporta
<1>7. TipoTablas' /\ TipoHistoria'
  <2>1. TipoTablas /\ TipoHistoria
    BY TiposPorPartes DEF Base
  <2>2. CASE EnUso
    BY <1>1, <2>1, <2>2 DEF bd, historia, TipoTablas, TipoHistoria
  <2>3. CASE ~ EnUso
    <3>1. Vacia
      BY <1>1, <2>3
    <3>2. TipoTablas'
      BY <3>1 DEF Vacia, TipoTablas
    <3>3. TipoHistoria'
      BY <3>1 DEF Vacia, TipoHistoria
    <3>4. QED
      BY <3>2, <3>3
  <2>4. QED
    BY <2>2, <2>3
<1>8. QED
  BY <1>3, <1>4, <1>5, <1>6, <1>7, BaseDespues

LEMMA InicializarBase ==
  ASSUME Base, NEW p \in Consolas, Inicializar(p)
  PROVE  Base'
<1>1. PICK m \in {"vivo", "muerto"} :
        /\ manejador' = [manejador EXCEPT ![p] = m]
        /\ avisos' = IF m = "muerto" THEN avisos \cup {"muerto"} ELSE avisos
  BY DEF Inicializar
<1>2. /\ pc[p] = "borrado"
      /\ limpio' = [q \in Consolas |-> q = p /\ aperturas = 0]
      /\ aperturas' = aperturas + 1
      /\ tabla' = [tabla EXCEPT ![p] = "libros"]
      /\ Ir(p, "abrir")
      /\ UNCHANGED <<bd, csv, orden, cuenta, pendientes, local, sobras, cortadas, cotas>>
  BY TresTablas DEF Inicializar
<1>3. "abrir" \in DeConsola \ ConOrden /\ "borrado" \notin ConOrden
  BY DEF DeConsola, ConOrden
<1>4. Marcha' /\ pc' \in [Procesos -> Pasos] /\ orden' \in [Procesos -> Orden]
  BY <1>2, <1>3, MarchaSinOrden
<1>5. TipoFicheros' /\ cuenta' \in Nat
  BY <1>2, TiposPorPartes DEF Base, csv, TipoFicheros
<1>6. Importacion' /\ TipoImporta'
  <2>1. /\ pendientes \in [Consolas -> Seq(FilasDeLibros \cup Linea \cup Piezas)]
        /\ pendientes[p] = << >>
    BY <1>2 DEF Base, Importacion
  <2>2. pendientes' = [pendientes EXCEPT ![p] = << >>]
    BY <1>2, <2>1
  <2>3. << >> \in Seq(FilasDeLibros)
    OBVIOUS
  <2>4. Importacion' /\ tabla' \in [Consolas -> {"libros", "historial", "prestamos", "ninguna"}]
    <3>1. PICK t, cola, paso : t = "libros" /\ cola = << >> /\ paso = "abrir"
      OBVIOUS
    <3>2. /\ Ir(p, paso) /\ tabla' = [tabla EXCEPT ![p] = t]
          /\ pendientes' = [pendientes EXCEPT ![p] = cola]
          /\ cola \in Seq(FilasDeLibros)
      BY <1>2, <2>2, <2>3, <3>1
    <3>3. /\ t \in {"libros", "historial", "prestamos", "ninguna"}
          /\ paso \in {"abrir", "importar"} <=> t # "ninguna"
          /\ paso # "importar" => cola = << >>
          /\ t = "libros" => cola \in Seq(FilasDeLibros)
          /\ t = "historial" => cola \in Seq(Piezas)
          /\ t = "prestamos" => cola \in Seq(Linea)
          /\ t = "ninguna" => cola = << >>
      BY <3>1, <3>2
    <3>4. QED
      BY <3>2, <3>3, ImportacionDe
  <2>5. manejador' \in [Consolas -> {"vivo", "muerto"}] /\ local' \in [Consolas -> Leidos]
    BY <1>1, <1>2, TiposPorPartes DEF Base, TipoImporta
  <2>6. QED
    BY <2>4, <2>5 DEF TipoImporta
<1>7. manejador \in [Consolas -> {"vivo", "muerto"}] /\ manejador'[p] = m
  BY <1>1 DEF Base, TypeOK
<1>8. \A q \in Consolas \ {p} : pc'[q] = pc[q] /\ manejador'[q] = manejador[q]
  BY <1>1, <1>2, <1>7, Procesa DEF Ir, Base, TypeOK
<1>9. Manejo'
  <2>1. SUFFICES ASSUME NEW q \in Consolas, pc'[q] \in {"abrir", "importar"}, manejador'[q] = "muerto"
                 PROVE  "muerto" \in avisos'
    BY DEF Manejo, Importando
  <2>2. CASE q = p
    BY <1>1, <1>7, <2>1, <2>2
  <2>3. CASE q # p
    <3>1. Importando(q) /\ manejador[q] = "muerto"
      BY <1>8, <2>1, <2>3 DEF Importando
    <3>2. "muerto" \in avisos
      BY <3>1 DEF Manejo, Base
    <3>3. QED
      BY <1>1, <3>2
  <2>4. QED
    BY <2>2, <2>3
<1>10. TipoTablas' /\ TipoHistoria'
  <2>1. TipoTablas /\ TipoHistoria
    BY TiposPorPartes DEF Base
  <2>2. TipoTablas'
    BY <1>2, <2>1 DEF bd, TipoTablas
  <2>3. TipoHistoria'
    BY <1>1, <1>2, <2>1 DEF TipoHistoria
  <2>4. QED
    BY <2>2, <2>3
<1>11. QED
  BY <1>4, <1>5, <1>6, <1>9, <1>10, BaseDespues

\* The types of what is read of each file.
LEMMA LineasTipo ==
  ASSUME Base
  PROVE  /\ Lineas("libros") \in Seq(FilasDeLibros)
         /\ Lineas("historial") \in Seq(Piezas)
         /\ Lineas("prestamos") \in Seq(Linea)
<1>1. /\ librosCSV \in [ISBNs -> Nat] /\ prestamosCSV \in Seq(Linea)
      /\ historialCSV \in Seq(LineaHistorial)
  BY DEF Base, TypeOK
<1>2. Lineas("libros") \in Seq(FilasDeLibros)
  <2>1. Catalogo \in Seq(ISBNs)
    BY ConstantesOK
  <2>2. DOMAIN Catalogo = 1 .. Len(Catalogo) /\ Len(Catalogo) \in Nat
    BY <2>1
  <2>3. \A k \in 1 .. Len(Catalogo) :
          [isbn |-> Catalogo[k], copias |-> librosCSV[Catalogo[k]]] \in FilasDeLibros
    BY <1>1, <2>1, ElementOfSeq DEF FilasDeLibros
  <2>4. Lineas("libros") = [k \in 1 .. Len(Catalogo) |->
                              [isbn |-> Catalogo[k], copias |-> librosCSV[Catalogo[k]]]]
    BY <2>2 DEF Lineas
  <2>5. QED
    BY <2>2, <2>3, <2>4
<1>3. Lineas("historial") \in Seq(Piezas)
  <2>1. Seq(LineaHistorial) \subseteq Seq(Piezas)
    BY DEF Piezas
  <2>2. QED
    BY <1>1, <2>1 DEF Lineas
<1>4. Lineas("prestamos") \in Seq(Linea)
  BY <1>1 DEF Lineas
<1>5. QED
  BY <1>2, <1>3, <1>4

\* The end of a table, at its fclose or because it does not open.
LEMMA SiguienteBase ==
  ASSUME Base, NEW p \in Consolas, Importando(p), Siguiente(p),
         pendientes' = [pendientes EXCEPT ![p] = << >>],
         UNCHANGED <<orden, manejador>>, avisos \subseteq avisos'
  PROVE  /\ Marcha' /\ pc' \in [Procesos -> Pasos] /\ orden' \in [Procesos -> Orden]
         /\ Importacion' /\ Manejo' /\ TipoImporta'
<1>1. /\ Importacion /\ TipoImporta
  BY TiposPorPartes DEF Base
<1>2. tabla[p] \in {"libros", "historial", "prestamos"}
  BY <1>1 DEF Importacion, TipoImporta
<1>3. PICK t, paso, cola :
        /\ <<t, paso>> \in {<<"historial", "abrir">>, <<"prestamos", "abrir">>, <<"ninguna", "menu">>}
        /\ tabla' = [tabla EXCEPT ![p] = t] /\ Ir(p, paso) /\ cola = << >>
  BY <1>2, TablaSiguiente
<1>4. local' \in [Consolas -> Leidos]
  BY <1>1, TablaSiguiente, ResiduoLeido DEF TipoImporta
<1>5. /\ t \in {"historial", "prestamos", "ninguna"}
      /\ paso \in {"abrir", "importar"} <=> t # "ninguna"
      /\ paso # "importar"
      /\ paso \in DeConsola \ ConOrden
  BY <1>3 DEF DeConsola, ConOrden
<1>6. pc[p] \notin ConOrden
  BY DEF Importando, ConOrden
<1>7. Marcha' /\ pc' \in [Procesos -> Pasos] /\ orden' \in [Procesos -> Orden]
  BY <1>3, <1>5, <1>6, MarchaSinOrden
<1>8. cola \in Seq(FilasDeLibros) /\ cola \in Seq(Piezas) /\ cola \in Seq(Linea)
      /\ pendientes' = [pendientes EXCEPT ![p] = cola]
  BY <1>3
<1>9. Importacion' /\ tabla' \in [Consolas -> {"libros", "historial", "prestamos", "ninguna"}]
  BY <1>3, <1>5, <1>8, ImportacionDe
<1>10. Manejo'
  BY <1>3, ManejoSigue
<1>11. QED
  BY <1>1, <1>4, <1>7, <1>9, <1>10 DEF TipoImporta

LEMMA AbrirBase ==
  ASSUME Base, NEW p \in Consolas, Abrir(p)
  PROVE  Base'
<1>1. pc[p] = "abrir" /\ Importando(p)
      /\ UNCHANGED <<bd, csv, orden, cuenta, manejador, limpio, aperturas, sobras, cortadas, arranques>>
  BY DEF Abrir, Importando
<1>2. TipoTablas' /\ TipoFicheros' /\ cuenta' \in Nat
  BY <1>1, TiposPorPartes DEF Base, bd, csv, TipoTablas, TipoFicheros
<1>3. /\ TipoImporta /\ Importacion /\ TipoHistoria
      /\ tabla[p] \in {"libros", "historial", "prestamos"}
  BY <1>1, TiposPorPartes DEF Base, Importacion, TipoImporta
<1>4. CASE /\ pendientes' = [pendientes EXCEPT ![p] = Lineas(tabla[p])]
           /\ \E e \in {"activo", "cerrado"} : local' = [local EXCEPT ![p] = Residuo(e)]
           /\ Ir(p, "importar")
           /\ UNCHANGED <<tabla, avisos, sucesos>>
  <2>1. Marcha' /\ pc' \in [Procesos -> Pasos] /\ orden' \in [Procesos -> Orden]
    <3>1. "importar" \in DeConsola \ ConOrden /\ "abrir" \notin ConOrden
      BY DEF DeConsola, ConOrden
    <3>2. QED
      BY <1>1, <1>4, <3>1, MarchaSinOrden
  <2>2. PICK t, cola, paso : t = tabla[p] /\ cola = Lineas(tabla[p]) /\ paso = "importar"
    OBVIOUS
  <2>3. /\ Ir(p, paso) /\ tabla' = [tabla EXCEPT ![p] = t]
        /\ pendientes' = [pendientes EXCEPT ![p] = cola]
    BY <1>3, <1>4, <2>2 DEF TipoImporta
  <2>4. /\ t = "libros" => cola \in Seq(FilasDeLibros)
        /\ t = "historial" => cola \in Seq(Piezas)
        /\ t = "prestamos" => cola \in Seq(Linea)
    BY <2>2, LineasTipo
  <2>5. t \in {"libros", "historial", "prestamos"}
    BY <1>3, <2>2
  <2>6. Importacion' /\ tabla' \in [Consolas -> {"libros", "historial", "prestamos", "ninguna"}]
    BY <2>2, <2>3, <2>4, <2>5, ImportacionDe
  <2>7. Manejo'
    BY <1>1, <1>4, ManejoSigue
  <2>8. TipoImporta'
    BY <1>1, <1>3, <1>4, <2>6, ResiduoLeido DEF TipoImporta
  <2>9. TipoHistoria'
    BY <1>1, <1>3, <1>4 DEF TipoHistoria
  <2>10. QED
    BY <1>2, <2>1, <2>6, <2>7, <2>8, <2>9, BaseDespues
<1>5. CASE /\ avisos' = avisos \cup {"corte"}
           /\ Siguiente(p)
           /\ UNCHANGED pendientes
  <2>1. pendientes' = [pendientes EXCEPT ![p] = << >>]
    BY <1>1, <1>3, <1>5 DEF Importacion
  <2>2. /\ Marcha' /\ pc' \in [Procesos -> Pasos] /\ orden' \in [Procesos -> Orden]
        /\ Importacion' /\ Manejo' /\ TipoImporta'
    BY <1>1, <1>5, <2>1, SiguienteBase
  <2>3. TipoHistoria'
    BY <1>1, <1>3, <1>5 DEF TipoHistoria
  <2>4. QED
    BY <1>2, <2>2, <2>3, BaseDespues
<1>6. QED
  BY <1>4, <1>5 DEF Abrir

LEMMA ImportadoBase ==
  ASSUME Base, NEW p \in Consolas, Importado(p)
  PROVE  Base'
<1>1. /\ pc[p] = "importar" /\ Importando(p) /\ pendientes[p] = << >> /\ Siguiente(p)
      /\ UNCHANGED <<bd, csv, orden, cuenta, pendientes, manejador, historia, cotas>>
  BY DEF Importado, Importando
<1>2. pendientes' = [pendientes EXCEPT ![p] = << >>]
  BY <1>1 DEF Base, Importacion
<1>3. /\ Marcha' /\ pc' \in [Procesos -> Pasos] /\ orden' \in [Procesos -> Orden]
      /\ Importacion' /\ Manejo' /\ TipoImporta'
  BY <1>1, <1>2, SiguienteBase DEF historia
<1>4. TipoTablas' /\ TipoFicheros' /\ TipoHistoria' /\ cuenta' \in Nat
  BY <1>1, TiposPorPartes DEF Base, bd, csv, historia, TipoTablas, TipoFicheros, TipoHistoria
<1>5. QED
  BY <1>3, <1>4, BaseDespues

LEMMA MuereBase ==
  ASSUME Base, NEW p \in Consolas, Muere(p)
  PROVE  Base'
<1>1. /\ Ir(p, "cerrado")
      /\ avisos \subseteq avisos' /\ avisos' \subseteq avisos \cup {"corte"}
      /\ orden' = [orden EXCEPT ![p] = SinOrden]
      /\ local' = [local EXCEPT ![p] = Residuo("cerrado")]
      /\ UNCHANGED <<bd, csv, cuenta, manejador, limpio, aperturas, sobras, cortadas, arranques>>
  BY DEF Muere, Ir
<1>2. Marcha' /\ pc' \in [Procesos -> Pasos] /\ orden' \in [Procesos -> Orden]
  <2>1. /\ "cerrado" \in IF p = Servidor THEN DeServidor ELSE DeConsola
        /\ "cerrado" \notin ConOrden
    BY Procesa DEF DeConsola, ConOrden
  <2>2. QED
    BY <1>1, <2>1, Procesa, MarchaSigue
<1>3. Importacion' /\ tabla' \in [Consolas -> {"libros", "historial", "prestamos", "ninguna"}]
  <2>1. PICK t, cola, paso : t = "ninguna" /\ cola = << >> /\ paso = "cerrado"
    OBVIOUS
  <2>2. /\ Ir(p, paso) /\ tabla' = [tabla EXCEPT ![p] = t]
        /\ pendientes' = [pendientes EXCEPT ![p] = cola]
    BY <1>1, <2>1 DEF Muere
  <2>3. /\ t \in {"libros", "historial", "prestamos", "ninguna"}
        /\ paso \in {"abrir", "importar"} <=> t # "ninguna"
        /\ paso # "importar" => cola = << >>
        /\ t = "libros" => cola \in Seq(FilasDeLibros)
        /\ t = "historial" => cola \in Seq(Piezas)
        /\ t = "prestamos" => cola \in Seq(Linea)
        /\ t = "ninguna" => cola = << >>
    BY <2>1
  <2>4. QED
    BY <2>2, <2>3, ImportacionDe
<1>4. Manejo'
  BY <1>1, ManejoSigue
<1>5. TipoImporta'
  BY <1>1, <1>3, ResiduoLeido, TiposPorPartes DEF Base, TipoImporta
<1>6. TipoTablas' /\ TipoFicheros' /\ TipoHistoria' /\ cuenta' \in Nat
  BY <1>1, TiposPorPartes DEF Base, bd, csv, TipoTablas, TipoFicheros, TipoHistoria
<1>7. QED
  BY <1>2, <1>3, <1>4, <1>5, <1>6, BaseDespues

(***************************************************************************)
(* One line of the import: what is read is of the table, and what is left. *)
(***************************************************************************)
LEMMA LeidaDeSuTabla ==
  ASSUME Base, NEW p \in Consolas, pc[p] = "importar", pendientes[p] # << >>
  PROVE  LET trozo == Trozo(pendientes[p]) IN
         /\ tabla[p] \in {"libros", "historial", "prestamos"}
         /\ tabla[p] = "libros" =>
              /\ trozo = Head(pendientes[p]) /\ trozo \in FilasDeLibros
              /\ Quedan(pendientes[p]) = Tail(pendientes[p])
              /\ Quedan(pendientes[p]) \in Seq(FilasDeLibros)
         /\ tabla[p] = "historial" =>
              /\ Sobre(local[p], trozo) \in Leidos
              /\ Quedan(pendientes[p]) \in Seq(Piezas)
         /\ tabla[p] = "prestamos" =>
              /\ trozo = Head(pendientes[p]) /\ trozo \in Linea
              /\ Quedan(pendientes[p]) = Tail(pendientes[p])
              /\ Quedan(pendientes[p]) \in Seq(Linea)
<1>1. /\ Importando(p) /\ local[p] \in Leidos
      /\ tabla[p] \in {"libros", "historial", "prestamos"}
      /\ tabla[p] = "libros" => pendientes[p] \in Seq(FilasDeLibros)
      /\ tabla[p] = "historial" => pendientes[p] \in Seq(Piezas)
      /\ tabla[p] = "prestamos" => pendientes[p] \in Seq(Linea)
  BY TiposPorPartes DEF Base, Importando, Importacion, TipoImporta
<1>2. CASE tabla[p] = "libros"
  BY <1>1, <1>2, SinEstado, LineaEntera, LaCola
<1>3. CASE tabla[p] = "historial"
  BY <1>1, <1>3, SobreLeido, QuedanPiezas
<1>4. CASE tabla[p] = "prestamos"
  BY <1>1, <1>4, SinEstado, LineaEntera, LaCola
<1>5. QED
  BY <1>1, <1>2, <1>3, <1>4

LEMMA ImportarBase ==
  ASSUME Base, NEW p \in Consolas, Importar(p)
  PROVE  Base'
<1> DEFINE trozo == Trozo(pendientes[p])
           fila  == IF tabla[p] = "historial" THEN Sobre(local[p], trozo) ELSE trozo
<1>1. /\ pc[p] = "importar" /\ pendientes[p] # << >>
      /\ pendientes' = [pendientes EXCEPT ![p] = Quedan(@)]
      /\ local' = IF tabla[p] = "historial" THEN [local EXCEPT ![p] = fila] ELSE local
      /\ Inserta(tabla[p], fila) \/ UNCHANGED bd
      /\ avisos \subseteq avisos' /\ avisos' \subseteq avisos \cup {"corte"}
      /\ UNCHANGED <<csv, pc, orden, cuenta, tabla, manejador, limpio, aperturas, sobras,
                     cortadas, arranques>>
  BY DEF Importar
<1>2. /\ tabla[p] \in {"libros", "historial", "prestamos"}
      /\ tabla[p] = "libros" => fila \in FilasDeLibros /\ Quedan(pendientes[p]) \in Seq(FilasDeLibros)
      /\ tabla[p] = "historial" => fila \in Leidos /\ Quedan(pendientes[p]) \in Seq(Piezas)
      /\ tabla[p] = "prestamos" => fila \in Linea /\ Quedan(pendientes[p]) \in Seq(Linea)
  BY <1>1, LeidaDeSuTabla
<1> HIDE DEF fila, trozo
<1>3. pc \in [Procesos -> Pasos] /\ orden \in [Procesos -> Orden] /\ Marcha /\ Importacion
      /\ Manejo /\ TipoTablas /\ TipoFicheros /\ TipoImporta /\ TipoHistoria /\ cuenta \in Nat
  BY TiposPorPartes DEF Base
<1>4. /\ Marcha' /\ pc' \in [Procesos -> Pasos] /\ orden' \in [Procesos -> Orden]
  BY <1>1, <1>3 DEF Marcha
<1>5. Importacion'
  <2>1. pc' = [pc EXCEPT ![p] = "importar"] /\ tabla' = [tabla EXCEPT ![p] = tabla[p]]
    BY <1>1, <1>3, Procesa DEF TipoImporta
  <2>2. PICK cola, t, paso : cola = Quedan(pendientes[p]) /\ t = tabla[p] /\ paso = "importar"
    OBVIOUS
  <2>3. /\ Ir(p, paso) /\ tabla' = [tabla EXCEPT ![p] = t]
        /\ pendientes' = [pendientes EXCEPT ![p] = cola]
    BY <1>1, <2>1, <2>2 DEF Ir
  <2>4. /\ t \in {"libros", "historial", "prestamos"}
        /\ t = "libros" => cola \in Seq(FilasDeLibros)
        /\ t = "historial" => cola \in Seq(Piezas)
        /\ t = "prestamos" => cola \in Seq(Linea)
    BY <1>2, <2>2
  <2>5. QED
    BY <2>2, <2>3, <2>4, ImportacionDe
<1>6. Manejo'
  BY <1>1, <1>3 DEF Manejo, Importando
<1>7. TipoImporta'
  BY <1>1, <1>2, <1>3 DEF TipoImporta
<1>8. TipoFicheros' /\ TipoHistoria' /\ cuenta' \in Nat
  BY <1>1, <1>3 DEF csv, TipoFicheros, TipoHistoria
<1>9. TipoTablas'
  <2>1. CASE UNCHANGED bd
    BY <1>3, <2>1 DEF bd, TipoTablas
  <2>2. CASE /\ tabla[p] = "libros" /\ librosBD' = Append(librosBD, fila)
             /\ UNCHANGED <<prestamosBD, historialBD>>
    <3>1. fila \in [isbn : ISBNs, copias : Int]
      BY <1>2, <2>2 DEF FilasDeLibros
    <3>2. librosBD' \in Seq([isbn : ISBNs, copias : Int])
      BY <1>3, <2>2, <3>1, AlFinal DEF TipoTablas
    <3>3. QED
      BY <1>3, <2>2, <3>2 DEF TipoTablas
  <2>3. CASE /\ tabla[p] = "historial"
             /\ historialBD' = IF Cabe(fila) THEN historialBD \cup {fila} ELSE historialBD
             /\ UNCHANGED <<librosBD, prestamosBD>>
    BY <1>2, <1>3, <2>3 DEF TipoTablas
  <2>4. CASE /\ tabla[p] = "prestamos" /\ prestamosBD' = Append(prestamosBD, fila)
             /\ UNCHANGED <<librosBD, historialBD>>
    <3>1. prestamosBD' \in Seq(Linea)
      BY <1>2, <1>3, <2>4, AlFinal DEF TipoTablas
    <3>2. QED
      BY <1>3, <2>4, <3>1 DEF TipoTablas
  <2>5. QED
    BY <1>1, <2>1, <2>2, <2>3, <2>4 DEF Inserta
<1>10. QED
  BY <1>4, <1>5, <1>6, <1>7, <1>8, <1>9, BaseDespues

-----------------------------------------------------------------------------
(* What the server has looked at *)

\* The tables grow at their ends.
Crecen ==
  /\ Len(librosBD) <= Len(librosBD')
  /\ Len(prestamosBD) <= Len(prestamosBD')
  /\ \A k \in 1 .. Len(prestamosBD) : prestamosBD'[k] = prestamosBD[k]

LEMMA PresenteSigue ==
  ASSUME Base, Presente, Crecen, UNCHANGED cuenta,
         pc'[Servidor] = pc[Servidor], orden'[Servidor] = orden[Servidor], Base'
  PROVE  Presente'
<1>1. Len(librosBD) \in Nat /\ Len(librosBD') \in Nat /\ Len(prestamosBD) \in Nat
      /\ Len(prestamosBD') \in Nat /\ cuenta \in Nat
  BY DEF Base, TypeOK
<1>2. (NadieEsperaLineas)'
  BY <1>1 DEF Presente, NadieEsperaLineas, Crecen
<1>3. ASSUME pc'[Servidor] = "borrar"
      PROVE  \E k \in 1 .. Len(prestamosBD') : prestamosBD'[k] = orden'[Servidor]
  <2>1. PICK k \in 1 .. Len(prestamosBD) : prestamosBD[k] = orden[Servidor]
    BY <1>3 DEF Presente
  <2>2. k \in 1 .. Len(prestamosBD') /\ prestamosBD'[k] = prestamosBD[k]
    BY <1>1, <2>1 DEF Crecen
  <2>3. QED
    BY <2>1, <2>2
<1>4. QED
  BY <1>2, <1>3 DEF Presente

LEMMA NoCrecen ==
  ASSUME Base, UNCHANGED <<librosBD, prestamosBD>>
  PROVE  Crecen
<1>1. Len(librosBD) \in Nat /\ Len(prestamosBD) \in Nat
  BY DEF Base, TypeOK
<1>2. QED
  BY <1>1 DEF Crecen

\* A step after which the server neither deletes nor has counted.
LEMMA PresenteNuevo ==
  ASSUME pc'[Servidor] \notin {"borrar", "enviar"}
  PROVE  Presente'
  BY DEF Presente, NadieEsperaLineas

LEMMA PasoDe ==
  ASSUME Base, NEW p \in Procesos, NEW paso, Ir(p, paso)
  PROVE  /\ pc'[p] = paso
         /\ \A q \in Procesos \ {p} : pc'[q] = pc[q]
         /\ \A q \in Consolas \ {p} : pc'[q] = pc[q]
         /\ p # Servidor => pc'[Servidor] = pc[Servidor]
  BY Procesa DEF Ir, Base, TypeOK

LEMMA FinDe ==
  ASSUME Base, NEW p \in Procesos, Termina(p)
  PROVE  /\ pc'[p] = Reposo(p)
         /\ \A q \in Procesos \ {p} : pc'[q] = pc[q] /\ orden'[q] = orden[q]
         /\ p # Servidor => pc'[Servidor] = pc[Servidor] /\ orden'[Servidor] = orden[Servidor]
         /\ p = Servidor => pc'[Servidor] = "esperando"
<1>1. Ir(p, Reposo(p)) /\ orden' = [orden EXCEPT ![p] = SinOrden]
  BY DEF Termina
<1>2. QED
  BY <1>1, PasoDe, Procesa DEF Reposo, Base, TypeOK

LEMMA ServidorPresente ==
  ASSUME Base, Presente, PasoServidor, Base'
  PROVE  Presente'
<1>1. CASE \E u \in Usuarios, i \in ISBNs : Pedir(u, i)
  <2>1. Ir(Servidor, "restar")
    BY <1>1 DEF Pedir, Empieza
  <2>2. QED
    BY <2>1, PasoDe, Procesa, PresenteNuevo
<1>2. ASSUME NEW u \in Usuarios, NEW i \in ISBNs, Devolver(u, i)
      PROVE  Presente'
  <2>1. /\ \E k \in DOMAIN prestamosBD : De(prestamosBD[k], u, i)
        /\ Ir(Servidor, "borrar")
        /\ orden' = [orden EXCEPT ![Servidor] = [usuario |-> u, isbn |-> i]]
        /\ prestamosBD' = prestamosBD
    BY <1>2 DEF Devolver, Empieza, bd
  <2>2. pc'[Servidor] = "borrar" /\ orden'[Servidor] = [usuario |-> u, isbn |-> i]
    BY <2>1, PasoDe, Procesa DEF Base, TypeOK
  <2>3. prestamosBD \in Seq(Linea)
    BY DEF Base, TypeOK
  <2>4. PICK k \in 1 .. Len(prestamosBD) : De(prestamosBD[k], u, i)
    BY <2>1, <2>3
  <2>5. prestamosBD[k] = [usuario |-> u, isbn |-> i]
    <3>1. prestamosBD[k] \in Linea
      BY <2>3, <2>4, ElementOfSeq
    <3>2. QED
      BY <2>4, <3>1 DEF Linea, De
  <2>6. QED
    BY <2>1, <2>2, <2>4, <2>5 DEF Presente, NadieEsperaLineas
<1>3. CASE Restar \/ Insertar \/ BorrarFila \/ Sumar \/ Cerrar
  <2>1. PICK paso \in {"insertar", "anotar", "sumar", "cerrar", "csv_devolver"} : Ir(Servidor, paso)
    BY <1>3 DEF Restar, Insertar, BorrarFila, Sumar, Cerrar, Escribe
  <2>2. QED
    BY <2>1, PasoDe, Procesa, PresenteNuevo
<1>4. CASE Anotar
  <2>1. Ir(Servidor, "csv_pedir") \/ Termina(Servidor)
    BY <1>4 DEF Anotar, Escribe
  <2>2. pc'[Servidor] \in {"csv_pedir", "esperando"}
    BY <2>1, PasoDe, FinDe, Procesa
  <2>3. QED
    BY <2>2, PresenteNuevo
<1>5. CASE Contar
  <2>1. pc'[Servidor] = "enviar" /\ cuenta' = Len(librosBD) /\ librosBD' = librosBD
    BY <1>5, PasoDe, Procesa DEF Contar, Empieza, bd
  <2>2. Len(librosBD) \in Nat
    BY DEF Base, TypeOK
  <2>3. QED
    BY <2>1, <2>2 DEF Presente, NadieEsperaLineas
<1>6. CASE Enviar
  <2>1. Termina(Servidor)
    BY <1>6 DEF Enviar
  <2>2. QED
    BY <2>1, FinDe, Procesa, PresenteNuevo
<1>7. QED
  BY <1>1, <1>2, <1>3, <1>4, <1>5, <1>6 DEF PasoServidor

LEMMA CsvPresente ==
  ASSUME Base, Presente, NEW p \in Procesos, PasoCSV(p) \/ Interrumpe(p), Base'
  PROVE  Presente'
<1>1. UNCHANGED <<librosBD, prestamosBD, cuenta>>
  BY DEF PasoCSV, CsvPedir, CsvPrestamo, CsvHistorial, CsvDevolver, CsvCierre, Interrumpe, bd
<1>2. \/ Termina(p)
      \/ UNCHANGED orden /\ \E paso \in {"csv_prestamo", "csv_historial", "csv_cierre"} : Ir(p, paso)
  BY DEF PasoCSV, CsvPedir, CsvPrestamo, CsvHistorial, CsvDevolver, CsvCierre, Interrumpe
<1>3. CASE p = Servidor
  <2>1. pc'[Servidor] \in {"esperando", "csv_prestamo", "csv_historial", "csv_cierre"}
    BY <1>2, <1>3, PasoDe, FinDe
  <2>2. QED
    BY <2>1, PresenteNuevo
<1>4. CASE p # Servidor
  <2>1. pc'[Servidor] = pc[Servidor] /\ orden'[Servidor] = orden[Servidor]
    BY <1>2, <1>4, PasoDe, FinDe
  <2>2. QED
    BY <1>1, <2>1, NoCrecen, PresenteSigue
<1>5. QED
  BY <1>3, <1>4

LEMMA InicioPresente ==
  ASSUME Base, Presente, NEW p \in Consolas,
         Inicio(p) \/ \E u \in Usuarios, i \in ISBNs : MenuPrincipal(p, u, i), Base'
  PROVE  Presente'
<1>1. pc'[Servidor] = pc[Servidor] /\ orden'[Servidor] = orden[Servidor] /\ cuenta' = cuenta
  <2>1. orden' = orden \/ \E o : orden' = [orden EXCEPT ![p] = o]
    BY DEF Inicio, Sondear, CerrarSonda, Borrar, Inicializar, Abrir, Importar, Importado, Salir,
         Muere, MenuPrincipal, Empieza
  <2>2. pc' = pc \/ \E paso : pc' = [pc EXCEPT ![p] = paso]
    BY DEF Inicio, Sondear, CerrarSonda, Borrar, Inicializar, Abrir, Importar, Importado, Salir,
         Muere, MenuPrincipal, Empieza,
           Ir, Siguiente
  <2>3. cuenta' = cuenta
    BY DEF Inicio, Sondear, CerrarSonda, Borrar, Inicializar, Abrir, Importar, Importado, Salir,
         Muere, MenuPrincipal
  <2>4. QED
    BY <2>1, <2>2, <2>3, Procesa DEF Base, TypeOK
<1>2. CASE Borrar(p)
  <2>1. CASE EnUso
    <3>1. UNCHANGED bd
      BY <1>2, <2>1 DEF Borrar
    <3>2. QED
      BY <1>1, <3>1, NoCrecen, PresenteSigue DEF bd
  <2>2. CASE ~ EnUso
    <3>1. pc[Servidor] = "esperando"
      BY <2>2 DEF EnUso
    <3>2. QED
      BY <1>1, <3>1, PresenteNuevo
  <2>3. QED
    BY <2>1, <2>2
<1>3. CASE Importar(p)
  <2>1. Crecen
    <3>1. \/ UNCHANGED bd
          \/ \E fila : Inserta(tabla[p], fila)
      BY <1>3 DEF Importar
    <3>2. /\ librosBD \in Seq([isbn : ISBNs, copias : Int]) /\ prestamosBD \in Seq(Linea)
          /\ librosBD' \in Seq([isbn : ISBNs, copias : Int]) /\ prestamosBD' \in Seq(Linea)
      BY DEF Base, TypeOK
    <3>3. /\ UNCHANGED librosBD \/ \E fila : librosBD' = Append(librosBD, fila)
          /\ UNCHANGED prestamosBD \/ \E fila : prestamosBD' = Append(prestamosBD, fila)
      BY <3>1 DEF Inserta, bd
    <3>4. Len(librosBD) <= Len(librosBD')
      BY <3>2, <3>3
    <3>5. /\ Len(prestamosBD) <= Len(prestamosBD')
          /\ \A k \in 1 .. Len(prestamosBD) : prestamosBD'[k] = prestamosBD[k]
      <4>1. CASE UNCHANGED prestamosBD
        BY <3>2, <4>1
      <4>2. ASSUME NEW fila, prestamosBD' = Append(prestamosBD, fila)
            PROVE  /\ Len(prestamosBD) <= Len(prestamosBD')
                   /\ \A k \in 1 .. Len(prestamosBD) : prestamosBD'[k] = prestamosBD[k]
        BY <3>2, <4>2
      <4>3. QED
        BY <3>3, <4>1, <4>2
    <3>6. QED
      BY <3>4, <3>5 DEF Crecen
  <2>2. QED
    BY <1>1, <2>1, PresenteSigue
<1>4. CASE Sondear(p) \/ CerrarSonda(p) \/ Inicializar(p) \/ Abrir(p) \/ Importado(p)
           \/ Salir(p) \/ Muere(p) \/ \E u \in Usuarios, i \in ISBNs : MenuPrincipal(p, u, i)
  <2>1. UNCHANGED <<librosBD, prestamosBD>>
    BY <1>4 DEF Sondear, CerrarSonda, Inicializar, Abrir, Importado, Salir, Muere, MenuPrincipal, bd
  <2>2. QED
    BY <1>1, <2>1, NoCrecen, PresenteSigue
<1>5. QED
  BY <1>2, <1>3, <1>4 DEF Inicio

\* The deletion that can.
Vaciado(p) == Borrar(p) /\ ~ EnUso

(***************************************************************************)
(* Until somebody opens it again the file is empty: no console is past its *)
(* second open, and the server has nothing to lend.                        *)
(***************************************************************************)
SinAbrir ==
  aperturas = 0 =>
    /\ librosBD = << >> /\ prestamosBD = << >> /\ historialBD = {}
    /\ pc[Servidor] \in {"esperando", "enviar"}
    /\ \A q \in Consolas : pc[q] \in {"cerrado", "sonda", "sondeado", "borrado"}

LEMMA SinAbrirSigue ==
  ASSUME Base, SinAbrir, [Next]_vars
  PROVE  SinAbrir'
<1>1. SUFFICES ASSUME aperturas' = 0
               PROVE  /\ librosBD' = << >> /\ prestamosBD' = << >> /\ historialBD' = {}
                      /\ pc'[Servidor] \in {"esperando", "enviar"}
                      /\ \A q \in Consolas : pc'[q] \in {"cerrado", "sonda", "sondeado", "borrado"}
  BY DEF SinAbrir
<1>2. ASSUME NEW p \in Consolas, Vaciado(p)
      PROVE  /\ librosBD' = << >> /\ prestamosBD' = << >> /\ historialBD' = {}
             /\ pc'[Servidor] \in {"esperando", "enviar"}
             /\ \A q \in Consolas : pc'[q] \in {"cerrado", "sonda", "sondeado", "borrado"}
  <2>1. Vacia /\ Ir(p, "borrado") /\ ~ EnUso
    BY <1>2 DEF Vaciado, Borrar
  <2>2. pc[Servidor] = "esperando" /\ \A q \in Consolas : pc[q] \in {"cerrado", "sondeado", "borrado"}
    BY <1>2, <2>1, NadieLaTiene DEF EnUso
  <2>3. pc'[p] = "borrado" /\ pc'[Servidor] = pc[Servidor] /\ \A q \in Consolas \ {p} : pc'[q] = pc[q]
    BY <1>2, <2>1, PasoDe, Procesa
  <2>4. QED
    BY <2>1, <2>2, <2>3 DEF Vacia
<1>3. CASE UNCHANGED aperturas
  <2>1. /\ librosBD = << >> /\ prestamosBD = << >> /\ historialBD = {}
        /\ pc[Servidor] \in {"esperando", "enviar"}
        /\ \A q \in Consolas : pc[q] \in {"cerrado", "sonda", "sondeado", "borrado"}
    BY <1>1, <1>3 DEF SinAbrir
  <2>2. \A q \in Procesos : pc[q] \in {"esperando", "enviar", "cerrado", "sonda", "sondeado", "borrado"}
    BY <2>1 DEF Procesos
  <2>3. CASE PasoServidor
    <3>1. Contar \/ Enviar
      <4>1. DOMAIN << >> = {}
        OBVIOUS
      <4>2. QED
        BY <2>1, <2>3, <4>1
           DEF PasoServidor, Pedir, Devolver, Restar, Insertar, Anotar, BorrarFila, Sumar, Cerrar
    <3>2. UNCHANGED bd /\ \E paso \in {"enviar", "esperando"} : Ir(Servidor, paso)
      BY <3>1 DEF Contar, Enviar, Empieza, Termina, Reposo
    <3>3. pc'[Servidor] \in {"enviar", "esperando"} /\ \A q \in Consolas : pc'[q] = pc[q]
      BY <3>2, PasoDe, Procesa
    <3>4. QED
      BY <2>1, <3>2, <3>3 DEF bd
  <2>4. ASSUME NEW p \in Procesos, PasoCSV(p) \/ Interrumpe(p)
        PROVE  FALSE
    <3>1. pc[p] \in ConOrden
      BY <2>4 DEF PasoCSV, CsvPedir, CsvPrestamo, CsvHistorial, CsvDevolver, CsvCierre, Interrumpe,
                  ConOrden, Base, Marcha
    <3>2. QED
      BY <2>2, <3>1 DEF ConOrden
  <2>5. ASSUME NEW p \in Consolas,
               Inicio(p) \/ \E u \in Usuarios, i \in ISBNs : MenuPrincipal(p, u, i), ~ Vaciado(p)
        PROVE  UNCHANGED bd /\ \E paso \in {"cerrado", "sonda", "sondeado", "borrado"} : Ir(p, paso)
    <3>1. ~ Inicializar(p)
      <4>1. Inicializar(p) => aperturas' = aperturas + 1
        BY DEF Inicializar
      <4>2. QED
        BY <1>1, <1>3, <4>1
    <3>2. Sondear(p) \/ CerrarSonda(p) \/ (Borrar(p) /\ EnUso) \/ Muere(p)
      BY <2>1, <2>5, <3>1 DEF Inicio, Vaciado, Abrir, Importar, Importado, Salir, MenuPrincipal
    <3>3. QED
      BY <3>2 DEF Sondear, CerrarSonda, Borrar, Muere, Ir
  <2>6. ASSUME NEW p \in Consolas, UNCHANGED bd,
               \E paso \in {"cerrado", "sonda", "sondeado", "borrado"} : Ir(p, paso)
        PROVE  /\ librosBD' = << >> /\ prestamosBD' = << >> /\ historialBD' = {}
               /\ pc'[Servidor] \in {"esperando", "enviar"}
               /\ \A q \in Consolas : pc'[q] \in {"cerrado", "sonda", "sondeado", "borrado"}
    <3>1. /\ pc'[p] \in {"cerrado", "sonda", "sondeado", "borrado"} /\ pc'[Servidor] = pc[Servidor]
          /\ \A q \in Consolas \ {p} : pc'[q] = pc[q]
      BY <2>6, PasoDe, Procesa
    <3>2. QED
      BY <2>1, <2>6, <3>1 DEF bd
  <2>7. CASE UNCHANGED vars
    BY <2>1, <2>7 DEF vars, bd
  <2>8. QED
    BY <1>2, <2>3, <2>4, <2>5, <2>6, <2>7 DEF Next
<1>4. CASE ~ UNCHANGED aperturas
  <2>1. \E p \in Consolas : Borrar(p) \/ Inicializar(p)
    BY <1>4 DEF Next, vars, PasoServidor, Pedir, Devolver, Restar, Insertar, Anotar, BorrarFila, Sumar,
       Cerrar, Contar, Enviar, Escribe, PasoCSV, CsvPedir, CsvPrestamo, CsvHistorial, CsvDevolver,
       CsvCierre, Interrumpe, Inicio, Sondear, CerrarSonda, Abrir, Importar, Importado, Salir, Muere,
       MenuPrincipal, historia
  <2>2. ASSUME NEW p \in Consolas, Inicializar(p)
        PROVE  FALSE
    <3>1. aperturas' = aperturas + 1 /\ aperturas \in Nat
      BY <2>2 DEF Inicializar, Base, TypeOK
    <3>2. QED
      BY <1>1, <3>1
  <2>3. ASSUME NEW p \in Consolas, Borrar(p)
        PROVE  Vaciado(p)
    BY <1>4, <2>3 DEF Vaciado, Borrar, historia
  <2>4. QED
    BY <1>2, <2>1, <2>2, <2>3
<1>5. QED
  BY <1>3, <1>4

Inv == Base /\ Presente /\ SinAbrir

LEMMA InitInv == Init => Inv
<1> SUFFICES ASSUME Init
             PROVE  Inv
  OBVIOUS
<1>1. pc[Servidor] = "esperando"
  BY Procesa DEF Init
<1>2. SinAbrir
  BY Procesa DEF Init, SinAbrir
<1>3. QED
  BY <1>1, <1>2, InitBase DEF Inv, Presente, NadieEsperaLineas

LEMMA NextInv == Inv /\ [Next]_vars => Inv'
<1> SUFFICES ASSUME Base, Presente, SinAbrir, [Next]_vars
             PROVE  Base' /\ Presente'
  BY SinAbrirSigue DEF Inv
<1>1. CASE PasoServidor
  <2>1. Base'
    BY <1>1, PedirBase, RestarBase, InsertarBase, AnotarBase, BorrarFilaBase, SumarBase, CerrarBase,
       ContarBase, EnviarBase DEF PasoServidor
  <2>2. QED
    BY <1>1, <2>1, ServidorPresente
<1>2. ASSUME NEW p \in Procesos, PasoCSV(p) \/ Interrumpe(p)
      PROVE  Base' /\ Presente'
  <2>1. Base'
    BY <1>2, CsvPedirBase, CsvPrestamoBase, CsvHistorialBase, CsvDevolverBase, CsvCierreBase,
       InterrumpeBase DEF PasoCSV
  <2>2. QED
    BY <1>2, <2>1, CsvPresente
<1>3. ASSUME NEW p \in Consolas, Inicio(p) \/ \E u \in Usuarios, i \in ISBNs : MenuPrincipal(p, u, i)
      PROVE  Base' /\ Presente'
  <2>1. Base'
    BY <1>3, SondearBase, BorrarBase, InicializarBase, AbrirBase, ImportarBase, ImportadoBase,
         SalirBase, MuereBase,
       MenuPrincipalBase DEF Inicio
  <2>2. QED
    BY <1>3, <2>1, InicioPresente
<1>4. CASE UNCHANGED vars
  <2>1. Base'
    BY <1>4 DEF vars, bd, csv, importa, historia, cotas, Base, TypeOK, Marcha, Importacion, Importando,
                Manejo
  <2>2. Presente'
    BY <1>4 DEF vars, bd, Presente, NadieEsperaLineas
  <2>3. QED
    BY <2>1, <2>2
<1>5. QED
  BY <1>1, <1>2, <1>3, <1>4 DEF Next

LEMMA SiempreInv == Spec => []Inv
<1>1. QED
  BY InitInv, NextInv, PTL DEF Spec

(***************************************************************************)
(* Every variable keeps its shape, whatever the buffer cuts and whoever    *)
(* is killed: in particular an order is only ever of a process that works, *)
(* and what a start has still to read is of the table it imports.          *)
(***************************************************************************)
THEOREM Tipos == Spec => []TypeOK
<1>1. Inv => TypeOK
  BY DEF Inv, Base
<1>2. QED
  BY <1>1, SiempreInv, PTL

(***************************************************************************)
(* Nothing that can happen between the two queries of CMD_LISTAR_LIBROS    *)
(* takes a row from LibrosBd: the only deletion is that of the file, and   *)
(* the server that is answering has it open.                               *)
(***************************************************************************)
THEOREM NingunaEsperaVana == Spec => []NadieEsperaLineas
<1>1. Inv => NadieEsperaLineas
  BY DEF Inv, Presente
<1>2. QED
  BY <1>1, SiempreInv, PTL

-----------------------------------------------------------------------------
(* Counting rows *)

\* The places of a sequence that hold a row are finitely many.
LEMMA SitiosFinitos ==
  ASSUME NEW n \in Nat, NEW A \in SUBSET (1 .. n)
  PROVE  IsFiniteSet(A) /\ Cardinality(A) \in Nat
<1>1. IsFiniteSet(1 .. n)
  BY FS_Interval
<1>2. IsFiniteSet(A)
  BY <1>1, FS_Subset
<1>3. QED
  BY <1>2, FS_CardinalityType

\* The places among the first n, and perhaps the next one.
LEMMA UnSitioMas ==
  ASSUME NEW n \in Nat, NEW A \in SUBSET (1 .. n)
  PROVE  Cardinality(A \cup {n + 1}) = Cardinality(A) + 1
<1>1. IsFiniteSet(A)
  BY SitiosFinitos
<1>2. n + 1 \notin A
  OBVIOUS
<1>3. QED
  BY <1>1, <1>2, FS_AddElement

-----------------------------------------------------------------------------
(* Who leaves the imports alone *)

\* Everything but that and the steps of a start from its second open to the menu.
Ajeno ==
  \/ PasoServidor
  \/ \E p \in Procesos : PasoCSV(p) \/ Interrumpe(p)
  \/ \E p \in Consolas : Sondear(p) \/ CerrarSonda(p) \/ (Borrar(p) /\ EnUso)
                         \/ Salir(p) \/ \E u \in Usuarios, i \in ISBNs : MenuPrincipal(p, u, i)

LEMMA PasosSegunArranque ==
  ASSUME [Next]_vars
  PROVE  \/ Ajeno
         \/ \E p \in Consolas : Vaciado(p) \/ Inicializar(p) \/ Abrir(p) \/ Importar(p)
                                \/ Importado(p) \/ Muere(p)
         \/ UNCHANGED vars
  BY DEF Next, Inicio, Ajeno, Vaciado

\* One process takes the step, and where to.
LEMMA UnoAjeno ==
  ASSUME Base, Ajeno
  PROVE  \E p \in Procesos : \E paso :
           /\ Ir(p, paso) /\ pc[p] \notin {"abrir", "importar"} /\ paso \notin {"abrir", "importar"}
<1>1. CASE PasoServidor
  <2>1. pc[Servidor] \notin {"abrir", "importar"}
    BY DEF Base, Marcha, DeServidor
  <2>2. PICK paso : Ir(Servidor, paso) /\ paso \notin {"abrir", "importar"}
    <3>1. \/ \E paso \in {"restar", "borrar", "insertar", "anotar", "csv_pedir", "sumar", "cerrar",
                          "csv_devolver", "enviar"} : Ir(Servidor, paso)
          \/ Termina(Servidor)
      BY <1>1 DEF PasoServidor, Pedir, Devolver, Restar, Insertar, Anotar, BorrarFila, Sumar, Cerrar,
                  Contar, Enviar, Empieza, Escribe
    <3>2. QED
      BY <3>1 DEF Termina, Reposo
  <2>3. QED
    BY <2>1, <2>2, Procesa
<1>2. ASSUME NEW p \in Procesos, PasoCSV(p) \/ Interrumpe(p)
      PROVE  \E paso : /\ Ir(p, paso) /\ pc[p] \notin {"abrir", "importar"}
                       /\ paso \notin {"abrir", "importar"}
  <2>1. pc[p] \in ConOrden
    BY <1>2 DEF PasoCSV, CsvPedir, CsvPrestamo, CsvHistorial, CsvDevolver, CsvCierre, Interrumpe,
                ConOrden, Base, Marcha
  <2>2. Termina(p) \/ \E paso \in {"csv_prestamo", "csv_historial", "csv_cierre"} : Ir(p, paso)
    BY <1>2 DEF PasoCSV, CsvPedir, CsvPrestamo, CsvHistorial, CsvDevolver, CsvCierre, Interrumpe
  <2>3. QED
    BY <2>1, <2>2 DEF ConOrden, Termina, Reposo
<1>3. ASSUME NEW p \in Consolas,
             Sondear(p) \/ CerrarSonda(p) \/ (Borrar(p) /\ EnUso)
             \/ Salir(p) \/ \E u \in Usuarios, i \in ISBNs : MenuPrincipal(p, u, i)
      PROVE  \E paso : /\ Ir(p, paso) /\ pc[p] \notin {"abrir", "importar"}
                       /\ paso \notin {"abrir", "importar"}
  <2>1. pc[p] \in {"cerrado", "sonda", "sondeado", "menu"}
    BY <1>3 DEF Sondear, CerrarSonda, Borrar, Salir, MenuPrincipal
  <2>2. \E paso \in {"sonda", "sondeado", "borrado", "cerrado", "csv_pedir",
       "csv_devolver"} : Ir(p, paso)
    BY <1>3 DEF Sondear, CerrarSonda, Borrar, Salir, MenuPrincipal, Empieza
  <2>3. QED
    BY <2>1, <2>2
<1>4. QED
  BY <1>1, <1>2, <1>3, Procesa DEF Ajeno

LEMMA PasoAjeno ==
  ASSUME Base, Ajeno
  PROVE  /\ UNCHANGED <<tabla, pendientes, local, manejador, aperturas>>
         /\ avisos \subseteq avisos' /\ avisos' \subseteq avisos \cup {"solape"}
         /\ \A q \in Consolas : (Importando(q))' <=> Importando(q)
         /\ \A q \in Consolas : Importando(q) => pc'[q] = pc[q]
         /\ limpio' = limpio \/ limpio' = [q \in Consolas |-> FALSE]
<1>0. PICK p \in Procesos : \E paso :
        Ir(p, paso) /\ pc[p] \notin {"abrir", "importar"} /\ paso \notin {"abrir", "importar"}
  BY UnoAjeno
<1>1. PICK paso :
        Ir(p, paso) /\ pc[p] \notin {"abrir", "importar"} /\ paso \notin {"abrir", "importar"}
  BY <1>0
<1>2. /\ \A q \in Consolas : (Importando(q))' <=> Importando(q)
      /\ \A q \in Consolas : Importando(q) => pc'[q] = pc[q]
  BY <1>1, PasoDe DEF Importando
<1>3. UNCHANGED importa
  BY DEF Ajeno, PasoServidor, Pedir, Devolver, Restar, Insertar, Anotar, BorrarFila, Sumar, Cerrar,
         Contar, Enviar, Escribe, PasoCSV, CsvPedir, CsvPrestamo, CsvHistorial, CsvDevolver,
         CsvCierre, Interrumpe, Sondear, CerrarSonda, Borrar, Salir, MenuPrincipal
<1>4. UNCHANGED aperturas
  BY DEF Ajeno, PasoServidor, Pedir, Devolver, Restar, Insertar, Anotar, BorrarFila, Sumar, Cerrar,
         Contar, Enviar, Escribe, PasoCSV, CsvPedir, CsvPrestamo, CsvHistorial, CsvDevolver,
         CsvCierre, Interrumpe, Sondear, CerrarSonda, Borrar, Salir, MenuPrincipal, historia
<1>5. avisos' = avisos \/ avisos' = avisos \cup {"solape"}
  BY DEF Ajeno, PasoServidor, Pedir, Devolver, Restar, Insertar, Anotar, BorrarFila, Sumar, Cerrar,
         Contar, Enviar, Escribe, PasoCSV, CsvPedir, CsvPrestamo, CsvHistorial, CsvDevolver,
         CsvCierre, Interrumpe, Sondear, CerrarSonda, Borrar, Salir, MenuPrincipal, historia
<1>6. limpio' = limpio \/ limpio' = [q \in Consolas |-> FALSE]
  BY DEF Ajeno, PasoServidor, Pedir, Devolver, Restar, Insertar, Anotar, BorrarFila, Sumar, Cerrar,
         Contar, Enviar, Escribe, PasoCSV, CsvPedir, CsvPrestamo, CsvHistorial, CsvDevolver,
         CsvCierre, Interrumpe, Sondear, CerrarSonda, Borrar, Salir, MenuPrincipal, historia
<1>7. QED
  BY <1>2, <1>3, <1>4, <1>5, <1>6 DEF importa

\* The steps that write the books of the database, among those.
LEMMA LibrosAjenos ==
  ASSUME Base, Ajeno
  PROVE  /\ Len(librosBD') = Len(librosBD)
         /\ \A k \in 1 .. Len(librosBD) : librosBD'[k].isbn = librosBD[k].isbn
<1>1. \/ librosBD' = librosBD
      \/ \E n \in {-1, 1} : librosBD' = ConMas(orden[Servidor].isbn, n)
  BY DEF Ajeno, PasoServidor, Pedir, Devolver, Restar, Insertar, Anotar, BorrarFila, Sumar, Cerrar,
         Contar, Enviar, Escribe, PasoCSV, CsvPedir, CsvPrestamo, CsvHistorial, CsvDevolver,
         CsvCierre, Interrumpe, Sondear, CerrarSonda, Borrar, Salir, MenuPrincipal, bd
<1>2. -1 \in Int /\ 1 \in Int
  OBVIOUS
<1>3. QED
  BY <1>1, <1>2, ConMasTipo

-----------------------------------------------------------------------------
(* How often each book is listed *)

FilasDe(i) == {k \in 1 .. Len(librosBD) : librosBD[k].isbn = i}

\* p will still insert a row of the book.
FaltaLibro(p, i) ==
  /\ tabla[p] = "libros"
  /\ pc[p] = "importar" => \E k \in 1 .. Len(pendientes[p]) : pendientes[p][k].isbn = i

Faltan(i) == {p \in Consolas : FaltaLibro(p, i)}

\* What p has still to read of libros.csv has each book once.
Distintos ==
  \A p \in Consolas : tabla[p] = "libros" =>
    \A j, k \in 1 .. Len(pendientes[p]) : pendientes[p][j].isbn = pendientes[p][k].isbn => j = k

Completa == avisos \cap {"corte", "muerto"} = {}

CadaLibro ==
  Completa => \A i \in ISBNs : /\ IsFiniteSet(Faltan(i))
                               /\ Cardinality(FilasDe(i)) + Cardinality(Faltan(i)) = aperturas

InvLibros == Distintos /\ CadaLibro

LEMMA FilasDeFinitas ==
  ASSUME Base, NEW i
  PROVE  IsFiniteSet(FilasDe(i)) /\ Cardinality(FilasDe(i)) \in Nat
<1>1. Len(librosBD) \in Nat
  BY DEF Base, TypeOK
<1>2. FilasDe(i) \in SUBSET (1 .. Len(librosBD))
  BY DEF FilasDe
<1>3. QED
  BY <1>1, <1>2, SitiosFinitos

\* A step that changes neither the titles of the table nor what is to come.
LEMMA LibrosIguales ==
  ASSUME Base, InvLibros, UNCHANGED <<tabla, pendientes, aperturas>>, avisos \subseteq avisos',
         Len(librosBD') = Len(librosBD),
         \A k \in 1 .. Len(librosBD) : librosBD'[k].isbn = librosBD[k].isbn,
         \A q \in Consolas : Importando(q) => pc'[q] = pc[q]
  PROVE  InvLibros'
<1>1. Distintos'
  BY DEF InvLibros, Distintos
<1>2. \A q \in Consolas : tabla[q] = "libros" => Importando(q)
  BY DEF Base, Importacion
<1>3. \A i : (Faltan(i))' = Faltan(i)
  BY <1>2 DEF Faltan, FaltaLibro
<1>4. \A i : (FilasDe(i))' = FilasDe(i)
  BY DEF FilasDe
<1>5. Completa' => Completa
  BY DEF Completa
<1>6. CadaLibro'
  BY <1>3, <1>4, <1>5 DEF InvLibros, CadaLibro
<1>7. QED
  BY <1>1, <1>6 DEF InvLibros

LEMMA AjenoLibros ==
  ASSUME Base, InvLibros, Ajeno
  PROVE  InvLibros'
  BY PasoAjeno, LibrosAjenos, LibrosIguales

\* What a deletion finds: nobody has the file open.
LEMMA VaciadoDe ==
  ASSUME Base, NEW p \in Consolas, Vaciado(p)
  PROVE  /\ Vacia /\ UNCHANGED <<csv, orden, tabla, pendientes, local, manejador>>
         /\ pc'[p] = "borrado" /\ \A q \in Procesos \ {p} : pc'[q] = pc[q]
         /\ pc[Servidor] = "esperando" /\ pc'[Servidor] = "esperando"
         /\ \A q \in Consolas : /\ tabla[q] = "ninguna" /\ pendientes[q] = << >> /\ ~ Importando(q)
                                /\ ~ (Importando(q))'
<1>1. /\ Vacia /\ UNCHANGED <<csv, orden, tabla, pendientes, local, manejador>> /\ Ir(p, "borrado")
      /\ ~ EnUso
  BY DEF Vaciado, Borrar, importa
<1>2. pc'[p] = "borrado" /\ (\A q \in Procesos \ {p} : pc'[q] = pc[q]) /\ pc'[Servidor] = pc[Servidor]
  BY <1>1, PasoDe, Procesa
<1>3. /\ pc[Servidor] = "esperando"
      /\ \A q \in Consolas : tabla[q] = "ninguna" /\ pendientes[q] = << >> /\ ~ Importando(q)
  BY <1>1, NadieLaTiene, Procesa DEF EnUso
<1>4. \A q \in Consolas : ~ (Importando(q))'
  BY <1>2, <1>3, Procesa DEF Importando
<1>5. QED
  BY <1>1, <1>2, <1>3, <1>4

LEMMA InicializarDe ==
  ASSUME Base, NEW p \in Consolas, Inicializar(p)
  PROVE  /\ UNCHANGED <<bd, csv, orden, pendientes, local, sobras, cortadas>>
         /\ tabla' = [tabla EXCEPT ![p] = "libros"]
         /\ tabla \in [Consolas -> {"libros", "historial", "prestamos", "ninguna"}]
         /\ pendientes[p] = << >> /\ tabla[p] = "ninguna" /\ ~ Importando(p) /\ (Importando(p))'
         /\ pc[p] = "borrado" /\ pc'[p] = "abrir" /\ \A q \in Procesos \ {p} : pc'[q] = pc[q]
         /\ aperturas' = aperturas + 1
         /\ limpio' = [q \in Consolas |-> q = p /\ aperturas = 0]
         /\ avisos \subseteq avisos' /\ avisos' \subseteq avisos \cup {"muerto"}
<1>1. /\ UNCHANGED <<bd, csv, orden, pendientes, local, sobras, cortadas>>
      /\ tabla' = [tabla EXCEPT ![p] = "libros"]
      /\ pc[p] = "borrado" /\ Ir(p, "abrir")
      /\ aperturas' = aperturas + 1
      /\ limpio' = [q \in Consolas |-> q = p /\ aperturas = 0]
      /\ avisos \subseteq avisos' /\ avisos' \subseteq avisos \cup {"muerto"}
  BY TresTablas DEF Inicializar
<1>2. tabla \in [Consolas -> {"libros", "historial", "prestamos", "ninguna"}] /\ Importacion
  BY TiposPorPartes DEF Base, TipoImporta
<1>3. pendientes[p] = << >> /\ tabla[p] = "ninguna" /\ ~ Importando(p)
  BY <1>1, <1>2 DEF Importacion, Importando
<1>4. pc'[p] = "abrir" /\ \A q \in Procesos \ {p} : pc'[q] = pc[q]
  BY <1>1, Procesa, PasoDe
<1>5. (Importando(p))'
  BY <1>4 DEF Importando
<1>6. QED
  BY <1>1, <1>2, <1>3, <1>4, <1>5

LEMMA VaciadoLibros ==
  ASSUME Base, NEW p \in Consolas, Vaciado(p)
  PROVE  InvLibros'
<1>1. librosBD' = << >> /\ aperturas' = 0
  BY VaciadoDe DEF Vacia
<1>2. \A q \in Consolas : tabla'[q] = "ninguna"
  BY VaciadoDe
<1>3. ASSUME NEW i \in ISBNs
      PROVE  /\ IsFiniteSet((Faltan(i))')
             /\ Cardinality((FilasDe(i))') + Cardinality((Faltan(i))') = aperturas'
  <2>1. (Faltan(i))' = {}
    BY <1>2 DEF Faltan, FaltaLibro
  <2>2. (FilasDe(i))' = {}
    BY <1>1 DEF FilasDe
  <2>3. IsFiniteSet((Faltan(i))') /\ Cardinality((Faltan(i))') = 0 /\ Cardinality((FilasDe(i))') = 0
    BY <2>1, <2>2, FS_EmptySet
  <2>4. QED
    BY <1>1, <2>3
<1>4. QED
  BY <1>2, <1>3 DEF InvLibros, Distintos, CadaLibro

LEMMA InicializarLibros ==
  ASSUME Base, InvLibros, NEW p \in Consolas, Inicializar(p)
  PROVE  InvLibros'
<1>1. /\ tabla' = [tabla EXCEPT ![p] = "libros"] /\ pendientes' = pendientes
      /\ tabla \in [Consolas -> {"libros", "historial", "prestamos", "ninguna"}]
      /\ pendientes[p] = << >> /\ tabla[p] = "ninguna"
      /\ pc'[p] = "abrir" /\ \A q \in Consolas \ {p} : pc'[q] = pc[q]
  BY InicializarDe, Procesa
<1>2. \A q \in Consolas : tabla'[q] = (IF q = p THEN "libros" ELSE tabla[q])
  BY <1>1
<1>3. Distintos'
  BY <1>1, <1>2 DEF InvLibros, Distintos
<1>4. ASSUME NEW i PROVE (Faltan(i))' = Faltan(i) \cup {p} /\ p \notin Faltan(i)
  BY <1>1, <1>2 DEF Faltan, FaltaLibro
<1>5. UNCHANGED librosBD /\ aperturas' = aperturas + 1 /\ avisos \subseteq avisos'
  BY InicializarDe DEF bd
<1>6. ASSUME Completa', NEW i \in ISBNs
      PROVE  /\ IsFiniteSet((Faltan(i))')
             /\ Cardinality((FilasDe(i))') + Cardinality((Faltan(i))') = aperturas'
  <2>1. IsFiniteSet(Faltan(i)) /\ Cardinality(FilasDe(i)) + Cardinality(Faltan(i)) = aperturas
    BY <1>5, <1>6 DEF InvLibros, CadaLibro, Completa
  <2>2. (FilasDe(i))' = FilasDe(i)
    BY <1>5 DEF FilasDe
  <2>3. IsFiniteSet((Faltan(i))') /\ Cardinality((Faltan(i))') = Cardinality(Faltan(i)) + 1
    BY <1>4, <2>1, FS_AddElement
  <2>4. Cardinality(Faltan(i)) \in Nat /\ Cardinality(FilasDe(i)) \in Nat /\ aperturas \in Nat
    BY <2>1, FS_CardinalityType, FilasDeFinitas DEF Base, TypeOK
  <2>5. QED
    BY <1>5, <2>1, <2>2, <2>3, <2>4
<1>7. QED
  BY <1>3, <1>6 DEF InvLibros, CadaLibro

\* A book of the catalogue has its line, and only one.
LEMMA CadaLibroSuLinea ==
  /\ \A i \in ISBNs : \E k \in 1 .. Len(Lineas("libros")) : Lineas("libros")[k].isbn = i
  /\ \A j, k \in 1 .. Len(Lineas("libros")) :
       Lineas("libros")[j].isbn = Lineas("libros")[k].isbn => j = k
<1>1. /\ Catalogo \in Seq(ISBNs) /\ DOMAIN Catalogo = 1 .. Len(Catalogo) /\ Len(Catalogo) \in Nat
      /\ IsInjective(Catalogo)
  BY ConstantesOK
<1>2. Lineas("libros") = [k \in 1 .. Len(Catalogo) |->
                            [isbn |-> Catalogo[k], copias |-> librosCSV[Catalogo[k]]]]
  BY <1>1 DEF Lineas
<1>3. DOMAIN Lineas("libros") = 1 .. Len(Catalogo)
  BY <1>2
<1>4. Len(Lineas("libros")) = Len(Catalogo)
  BY <1>1, <1>2, <1>3
<1>5. \A k \in 1 .. Len(Catalogo) : Lineas("libros")[k].isbn = Catalogo[k]
  BY <1>2
<1>6. \A i \in ISBNs : \E k \in 1 .. Len(Catalogo) : Catalogo[k] = i
  BY <1>1 DEF ISBNs, ToSet
<1>7. \A j, k \in 1 .. Len(Catalogo) : Catalogo[j] = Catalogo[k] => j = k
  BY <1>1 DEF IsInjective
<1>8. QED
  BY <1>4, <1>5, <1>6, <1>7

\* The end of a table.
LEMMA SiguienteDe ==
  ASSUME Base, NEW p \in Consolas, Importando(p), Siguiente(p)
  PROVE  /\ \A q \in Consolas \ {p} : tabla'[q] = tabla[q] /\ pc'[q] = pc[q]
         /\ \A q \in Procesos \ {p} : pc'[q] = pc[q]
         /\ \/ tabla[p] = "libros" /\ tabla'[p] = "historial" /\ pc'[p] = "abrir"
            \/ tabla[p] = "historial" /\ tabla'[p] = "prestamos" /\ pc'[p] = "abrir"
            \/ tabla[p] = "prestamos" /\ tabla'[p] = "ninguna" /\ pc'[p] = "menu"
<1>1. /\ Importacion /\ tabla \in [Consolas -> {"libros", "historial", "prestamos", "ninguna"}]
  BY TiposPorPartes DEF Base, TipoImporta
<1>2. tabla[p] \in {"libros", "historial", "prestamos"}
  BY <1>1 DEF Importacion
<1>3. PICK t, paso :
        /\ \/ tabla[p] = "libros" /\ t = "historial" /\ paso = "abrir"
           \/ tabla[p] = "historial" /\ t = "prestamos" /\ paso = "abrir"
           \/ tabla[p] = "prestamos" /\ t = "ninguna" /\ paso = "menu"
        /\ tabla' = [tabla EXCEPT ![p] = t] /\ Ir(p, paso)
  BY <1>2, TablaSiguiente
<1>4. tabla'[p] = t /\ \A q \in Consolas \ {p} : tabla'[q] = tabla[q]
  BY <1>1, <1>3
<1>5. pc'[p] = paso /\ (\A q \in Procesos \ {p} : pc'[q] = pc[q])
      /\ \A q \in Consolas \ {p} : pc'[q] = pc[q]
  BY <1>3, PasoDe, Procesa
<1>6. QED
  BY <1>3, <1>4, <1>5

LEMMA AbrirLibros ==
  ASSUME Base, InvLibros, NEW p \in Consolas, Abrir(p)
  PROVE  InvLibros'
<1>1. /\ pc[p] = "abrir" /\ Importando(p) /\ UNCHANGED <<bd, aperturas>>
      /\ Importacion /\ pendientes[p] = << >>
      /\ pendientes \in [Consolas -> Seq(FilasDeLibros \cup Linea \cup Piezas)]
  BY DEF Abrir, Importando, Base, Importacion
<1>2. CASE /\ pendientes' = [pendientes EXCEPT ![p] = Lineas(tabla[p])]
           /\ Ir(p, "importar")
           /\ UNCHANGED <<tabla, avisos>>
  <2>1. /\ pendientes'[p] = Lineas(tabla[p]) /\ \A q \in Consolas \ {p} : pendientes'[q] = pendientes[q]
        /\ pc'[p] = "importar" /\ \A q \in Consolas \ {p} : pc'[q] = pc[q]
    BY <1>1, <1>2, Procesa, PasoDe
  <2>2. Distintos'
    <3>1. SUFFICES ASSUME NEW q \in Consolas, tabla'[q] = "libros",
                          NEW j \in 1 .. Len(pendientes'[q]), NEW k \in 1 .. Len(pendientes'[q]),
                          pendientes'[q][j].isbn = pendientes'[q][k].isbn
                   PROVE  j = k
      BY DEF Distintos
    <3>2. CASE q = p
      BY <1>2, <2>1, <3>1, <3>2, CadaLibroSuLinea
    <3>3. CASE q # p
      BY <1>2, <2>1, <3>1, <3>3 DEF InvLibros, Distintos
    <3>4. QED
      BY <3>2, <3>3
  <2>3. ASSUME NEW i \in ISBNs PROVE (Faltan(i))' = Faltan(i)
    <3>1. ASSUME NEW q \in Consolas PROVE (FaltaLibro(q, i))' <=> FaltaLibro(q, i)
      <4>1. CASE q = p
        <5>1. FaltaLibro(q, i) <=> tabla[p] = "libros"
          BY <1>1, <4>1 DEF FaltaLibro
        <5>2. (FaltaLibro(q, i))' <=> tabla[p] = "libros"
          BY <1>2, <2>1, <4>1, CadaLibroSuLinea DEF FaltaLibro
        <5>3. QED
          BY <5>1, <5>2
      <4>2. CASE q # p
        BY <1>2, <2>1, <4>2 DEF FaltaLibro
      <4>3. QED
        BY <4>1, <4>2
    <3>2. QED
      BY <3>1 DEF Faltan
  <2>4. \A i : (FilasDe(i))' = FilasDe(i)
    BY <1>1 DEF bd, FilasDe
  <2>5. CadaLibro'
    BY <1>1, <1>2, <2>3, <2>4 DEF InvLibros, CadaLibro, Completa
  <2>6. QED
    BY <2>2, <2>5 DEF InvLibros
<1>3. CASE /\ avisos' = avisos \cup {"corte"}
           /\ Siguiente(p)
           /\ UNCHANGED pendientes
  <2>1. ~ Completa'
    BY <1>3 DEF Completa
  <2>2. Distintos'
    BY <1>1, <1>3, SiguienteDe DEF InvLibros, Distintos
  <2>3. QED
    BY <2>1, <2>2 DEF InvLibros, CadaLibro
<1>4. QED
  BY <1>2, <1>3 DEF Abrir

LEMMA ImportadoLibros ==
  ASSUME Base, InvLibros, NEW p \in Consolas, Importado(p)
  PROVE  InvLibros'
<1>1. /\ pc[p] = "importar" /\ Importando(p) /\ pendientes[p] = << >> /\ Siguiente(p)
      /\ UNCHANGED <<librosBD, pendientes, aperturas, avisos>>
  BY DEF Importado, Importando, bd, historia
<1>2. /\ \A q \in Consolas \ {p} : tabla'[q] = tabla[q] /\ pc'[q] = pc[q]
      /\ tabla'[p] # "libros"
  BY <1>1, SiguienteDe
<1>3. Distintos'
  BY <1>1, <1>2 DEF InvLibros, Distintos
<1>4. ASSUME NEW i PROVE (Faltan(i))' = Faltan(i)
  <2>1. \A q \in Consolas \ {p} : (FaltaLibro(q, i))' <=> FaltaLibro(q, i)
    BY <1>1, <1>2 DEF FaltaLibro
  <2>2. ~ (FaltaLibro(p, i))'
    BY <1>2 DEF FaltaLibro
  <2>3. ~ FaltaLibro(p, i)
    BY <1>1 DEF FaltaLibro
  <2>4. QED
    BY <2>1, <2>2, <2>3 DEF Faltan
<1>5. \A i : (FilasDe(i))' = FilasDe(i)
  BY <1>1 DEF FilasDe
<1>6. CadaLibro'
  BY <1>1, <1>4, <1>5 DEF InvLibros, CadaLibro, Completa
<1>7. QED
  BY <1>3, <1>6 DEF InvLibros

LEMMA MuereLibros ==
  ASSUME Base, InvLibros, NEW p \in Consolas, Muere(p)
  PROVE  InvLibros'
<1>1. /\ Ir(p, "cerrado")
      /\ avisos' = IF Importando(p) THEN avisos \cup {"corte"} ELSE avisos
      /\ tabla' = [tabla EXCEPT ![p] = "ninguna"]
      /\ pendientes' = [pendientes EXCEPT ![p] = << >>]
      /\ UNCHANGED <<librosBD, aperturas>>
  BY DEF Muere, Ir, bd
<1>2. /\ Importacion /\ tabla \in [Consolas -> {"libros", "historial", "prestamos", "ninguna"}]
      /\ pendientes \in [Consolas -> Seq(FilasDeLibros \cup Linea \cup Piezas)]
  BY TiposPorPartes DEF Base, TipoImporta, Importacion
<1>3. /\ tabla'[p] = "ninguna"
      /\ \A q \in Consolas \ {p} : tabla'[q] = tabla[q] /\ pendientes'[q] = pendientes[q] /\ pc'[q] = pc[q]
  BY <1>1, <1>2, PasoDe, Procesa
<1>4. Distintos'
  BY <1>3 DEF InvLibros, Distintos
<1>5. CASE Importando(p)
  <2>1. ~ Completa'
    BY <1>1, <1>5 DEF Completa
  <2>2. QED
    BY <1>4, <2>1 DEF InvLibros, CadaLibro
<1>6. CASE ~ Importando(p)
  <2>1. tabla[p] = "ninguna" /\ UNCHANGED avisos
    BY <1>1, <1>2, <1>6 DEF Importacion
  <2>2. \A i : (Faltan(i))' = Faltan(i)
    BY <1>3, <2>1 DEF Faltan, FaltaLibro
  <2>3. \A i : (FilasDe(i))' = FilasDe(i)
    BY <1>1 DEF FilasDe
  <2>4. CadaLibro'
    BY <1>1, <2>1, <2>2, <2>3 DEF InvLibros, CadaLibro, Completa
  <2>5. QED
    BY <1>4, <2>4 DEF InvLibros
<1>7. QED
  BY <1>5, <1>6

\* One line that is read: who changes, and how.
LEMMA ImportarDe ==
  ASSUME Base, NEW p \in Consolas, Importar(p)
  PROVE  /\ pc[p] = "importar" /\ Importando(p) /\ pendientes[p] # << >>
         /\ UNCHANGED <<pc, orden, csv, tabla, manejador, limpio, aperturas, sobras, cortadas>>
         /\ pendientes'[p] = Quedan(pendientes[p])
         /\ \A q \in Consolas \ {p} : pendientes'[q] = pendientes[q]
         /\ avisos \subseteq avisos'
         /\ \/ /\ manejador[p] = "vivo"
               /\ Inserta(tabla[p], IF tabla[p] = "historial" THEN Sobre(local[p], Trozo(pendientes[p]))
                                    ELSE Trozo(pendientes[p]))
            \/ UNCHANGED bd /\ "muerto" \in avisos'
            \/ UNCHANGED bd /\ "corte" \in avisos'
<1>1. /\ pendientes \in [Consolas -> Seq(FilasDeLibros \cup Linea \cup Piezas)] /\ Manejo
      /\ manejador \in [Consolas -> {"vivo", "muerto"}]
  BY DEF Base, Importacion, TypeOK
<1>2. /\ pc[p] = "importar" /\ Importando(p) /\ pendientes[p] # << >>
      /\ UNCHANGED <<pc, orden, csv, tabla, manejador, limpio, aperturas, sobras, cortadas>>
      /\ pendientes' = [pendientes EXCEPT ![p] = Quedan(pendientes[p])]
  BY DEF Importar, Importando
<1>3. \/ /\ manejador[p] = "vivo"
         /\ Inserta(tabla[p], IF tabla[p] = "historial" THEN Sobre(local[p], Trozo(pendientes[p]))
                              ELSE Trozo(pendientes[p]))
         /\ avisos' = avisos
      \/ manejador[p] = "muerto" /\ UNCHANGED bd /\ avisos' = avisos
      \/ UNCHANGED bd /\ avisos' = avisos \cup {"corte"}
  BY DEF Importar
<1>4. manejador[p] = "muerto" => "muerto" \in avisos
  BY <1>1, <1>2 DEF Manejo
<1>5. QED
  BY <1>1, <1>2, <1>3, <1>4

\* What is left of a table that is read line by line.
LEMMA ColaDe ==
  ASSUME Base, NEW p \in Consolas, Importar(p), tabla[p] \in {"libros", "prestamos"}
  PROVE  /\ Trozo(pendientes[p]) = pendientes[p][1]
         /\ Len(pendientes[p]) \in Nat /\ Len(pendientes[p]) >= 1
         /\ Len(pendientes'[p]) = Len(pendientes[p]) - 1
         /\ \A k \in 1 .. Len(pendientes[p]) - 1 : pendientes'[p][k] = pendientes[p][k + 1]
         /\ tabla[p] = "libros" => Trozo(pendientes[p]) \in FilasDeLibros
         /\ tabla[p] = "prestamos" => Trozo(pendientes[p]) \in Linea
<1>1. pc[p] = "importar" /\ pendientes[p] # << >> /\ pendientes'[p] = Quedan(pendientes[p])
  BY ImportarDe
<1>2. /\ Trozo(pendientes[p]) = Head(pendientes[p]) /\ Quedan(pendientes[p]) = Tail(pendientes[p])
      /\ tabla[p] = "libros" => Trozo(pendientes[p]) \in FilasDeLibros
      /\ tabla[p] = "prestamos" => Trozo(pendientes[p]) \in Linea
  BY <1>1, LeidaDeSuTabla
<1>3. pendientes[p] \in Seq(FilasDeLibros) \/ pendientes[p] \in Seq(Linea)
  BY DEF Base, Importacion
<1>4. QED
  BY <1>1, <1>2, <1>3, LaCola

LEMMA ImportarLibros ==
  ASSUME Base, InvLibros, NEW p \in Consolas, Importar(p)
  PROVE  InvLibros'
<1>1. /\ pc[p] = "importar" /\ Importando(p)
      /\ UNCHANGED <<pc, tabla, aperturas>>
      /\ \A q \in Consolas \ {p} : pendientes'[q] = pendientes[q]
      /\ avisos \subseteq avisos'
  BY ImportarDe
<1>2. CASE tabla[p] # "libros"
  <2>1. UNCHANGED librosBD
    BY <1>2, ImportarDe DEF Inserta, bd
  <2>2. \A i : (Faltan(i))' = Faltan(i)
    BY <1>1, <1>2 DEF Faltan, FaltaLibro
  <2>3. \A i : (FilasDe(i))' = FilasDe(i)
    BY <2>1 DEF FilasDe
  <2>4. Distintos'
    BY <1>1, <1>2 DEF InvLibros, Distintos
  <2>5. CadaLibro'
    BY <1>1, <2>2, <2>3 DEF InvLibros, CadaLibro, Completa
  <2>6. QED
    BY <2>4, <2>5 DEF InvLibros
<1>3. CASE tabla[p] = "libros"
  <2> DEFINE c == pendientes[p]
             d == pendientes'[p]
  <2>1. /\ Trozo(c) = c[1] /\ Len(c) \in Nat /\ Len(c) >= 1 /\ Len(d) = Len(c) - 1
        /\ \A k \in 1 .. Len(c) - 1 : d[k] = c[k + 1]
        /\ c[1] \in FilasDeLibros
    BY <1>3, ColaDe
  <2>2. \A j, k \in 1 .. Len(c) : c[j].isbn = c[k].isbn => j = k
    BY <1>3 DEF InvLibros, Distintos
  <2> HIDE DEF c, d
  <2>3. \A j, k \in 1 .. Len(d) : d[j].isbn = d[k].isbn => j = k
    <3>1. SUFFICES ASSUME NEW j \in 1 .. Len(d), NEW k \in 1 .. Len(d), d[j].isbn = d[k].isbn
                   PROVE  j = k
      OBVIOUS
    <3>2. j + 1 \in 1 .. Len(c) /\ k + 1 \in 1 .. Len(c) /\ d[j] = c[j + 1] /\ d[k] = c[k + 1]
      BY <2>1, <3>1
    <3>3. j + 1 = k + 1
      BY <2>2, <3>1, <3>2
    <3>4. QED
      BY <3>3
  <2>4. Distintos'
    BY <1>1, <1>3, <2>3 DEF InvLibros, Distintos, d
  <2>5. ASSUME NEW i \in ISBNs
        PROVE  (Faltan(i))' = IF i = c[1].isbn THEN Faltan(i) \ {p} ELSE Faltan(i)
    <3>1. \A q \in Consolas \ {p} : (FaltaLibro(q, i))' <=> FaltaLibro(q, i)
      BY <1>1 DEF FaltaLibro
    <3>2. (FaltaLibro(p, i))' <=> \E k \in 1 .. Len(d) : d[k].isbn = i
      BY <1>1, <1>3 DEF FaltaLibro, d
    <3>3. FaltaLibro(p, i) <=> \E k \in 1 .. Len(c) : c[k].isbn = i
      BY <1>1, <1>3 DEF FaltaLibro, c
    <3>4. CASE i = c[1].isbn
      <4>1. ASSUME NEW k \in 1 .. Len(d) PROVE d[k].isbn # i
        <5>1. k + 1 \in 1 .. Len(c) /\ d[k] = c[k + 1] /\ 1 \in 1 .. Len(c) /\ k + 1 # 1
          BY <2>1
        <5>2. QED
          BY <2>2, <3>4, <5>1
      <4>2. ~ (FaltaLibro(p, i))'
        BY <3>2, <4>1
      <4>3. QED
        BY <3>1, <3>4, <4>2 DEF Faltan
    <3>5. CASE i # c[1].isbn
      <4>1. ASSUME NEW k \in 1 .. Len(c), c[k].isbn = i
            PROVE  \E j \in 1 .. Len(d) : d[j].isbn = i
        <5>1. k # 1
          BY <3>5, <4>1
        <5>2. k - 1 \in 1 .. Len(c) - 1 /\ k - 1 + 1 = k
          BY <2>1, <5>1
        <5>3. k - 1 \in 1 .. Len(d) /\ d[k - 1] = c[k]
          BY <2>1, <5>2
        <5>4. QED
          BY <4>1, <5>3
      <4>2. ASSUME NEW k \in 1 .. Len(d), d[k].isbn = i
            PROVE  \E j \in 1 .. Len(c) : c[j].isbn = i
        <5>1. k + 1 \in 1 .. Len(c) /\ d[k] = c[k + 1]
          BY <2>1
        <5>2. QED
          BY <4>2, <5>1
      <4>3. (FaltaLibro(p, i))' <=> FaltaLibro(p, i)
        BY <3>2, <3>3, <4>1, <4>2
      <4>4. QED
        BY <3>1, <3>5, <4>3 DEF Faltan
    <3>6. QED
      BY <3>4, <3>5
  <2>6. CASE Completa'
    <3>1. Completa /\ librosBD' = Append(librosBD, c[1])
      <4>1. "muerto" \notin avisos' /\ "corte" \notin avisos'
        BY <2>6 DEF Completa
      <4>2. Inserta("libros", c[1])
        BY <1>3, <2>1, <4>1, ImportarDe DEF c
      <4>3. QED
        BY <1>1, <2>6, <4>2 DEF Inserta, Completa
    <3>2. /\ librosBD \in Seq([isbn : ISBNs, copias : Int]) /\ Len(librosBD) \in Nat
      BY DEF Base, TypeOK
    <3>3. /\ Len(librosBD') = Len(librosBD) + 1 /\ librosBD'[Len(librosBD) + 1] = c[1]
          /\ \A k \in 1 .. Len(librosBD) : librosBD'[k] = librosBD[k]
      BY <3>1, <3>2
    <3>4. ASSUME NEW i \in ISBNs
          PROVE  /\ IsFiniteSet((Faltan(i))')
                 /\ Cardinality((FilasDe(i))') + Cardinality((Faltan(i))') = aperturas'
      <4>1. /\ IsFiniteSet(Faltan(i)) /\ Cardinality(FilasDe(i)) + Cardinality(Faltan(i)) = aperturas
            /\ Cardinality(Faltan(i)) \in Nat /\ Cardinality(FilasDe(i)) \in Nat /\ aperturas \in Nat
        BY <3>1, FS_CardinalityType, FilasDeFinitas DEF InvLibros, CadaLibro, Base, TypeOK
      <4>2. (FilasDe(i))' = {k \in 1 .. Len(librosBD) + 1 : librosBD'[k].isbn = i}
        BY <3>3 DEF FilasDe
      <4>3. CASE i = c[1].isbn
        <5>1. (FilasDe(i))' = FilasDe(i) \cup {Len(librosBD) + 1}
          BY <3>2, <3>3, <4>2, <4>3 DEF FilasDe
        <5>2. FilasDe(i) \in SUBSET (1 .. Len(librosBD))
          BY DEF FilasDe
        <5>3. Cardinality((FilasDe(i))') = Cardinality(FilasDe(i)) + 1
          BY <3>2, <5>1, <5>2, UnSitioMas
        <5>4. p \in Faltan(i)
          <6>1. 1 \in 1 .. Len(c)
            BY <2>1
          <6>2. QED
            BY <1>3, <4>3, <6>1 DEF Faltan, FaltaLibro, c
        <5>5. (Faltan(i))' = Faltan(i) \ {p}
          BY <2>5, <4>3
        <5>6. IsFiniteSet((Faltan(i))') /\ Cardinality((Faltan(i))') = Cardinality(Faltan(i)) - 1
          BY <4>1, <5>4, <5>5, FS_RemoveElement
        <5>7. QED
          BY <1>1, <4>1, <5>3, <5>6
      <4>4. CASE i # c[1].isbn
        <5>1. (FilasDe(i))' = FilasDe(i)
          BY <3>2, <3>3, <4>2, <4>4 DEF FilasDe
        <5>2. (Faltan(i))' = Faltan(i)
          BY <2>5, <4>4
        <5>3. QED
          BY <1>1, <4>1, <5>1, <5>2
      <4>5. QED
        BY <4>3, <4>4
    <3>5. QED
      BY <2>4, <3>4 DEF InvLibros, CadaLibro
  <2>7. CASE ~ Completa'
    BY <2>4, <2>7 DEF InvLibros, CadaLibro
  <2>8. QED
    BY <2>6, <2>7
<1>4. QED
  BY <1>2, <1>3

LEMMA InitLibros == Init => InvLibros
<1> SUFFICES ASSUME Init
             PROVE  InvLibros
  OBVIOUS
<1>1. librosBD = << >> /\ aperturas = 0 /\ \A q \in Consolas : tabla[q] = "ninguna"
  BY DEF Init
<1>2. ASSUME NEW i \in ISBNs
      PROVE  IsFiniteSet(Faltan(i)) /\ Cardinality(FilasDe(i)) + Cardinality(Faltan(i)) = aperturas
  <2>1. Faltan(i) = {} /\ FilasDe(i) = {}
    BY <1>1 DEF Faltan, FaltaLibro, FilasDe
  <2>2. QED
    BY <1>1, <2>1, FS_EmptySet
<1>3. QED
  BY <1>1, <1>2 DEF InvLibros, Distintos, CadaLibro

LEMMA NextLibros == Inv /\ InvLibros /\ [Next]_vars => InvLibros'
<1> SUFFICES ASSUME Base, InvLibros, [Next]_vars
             PROVE  InvLibros'
  BY DEF Inv
<1>1. CASE Ajeno
  BY <1>1, AjenoLibros
<1>2. ASSUME NEW p \in Consolas, Vaciado(p) \/ Inicializar(p) \/ Abrir(p) \/ Importar(p)
                                 \/ Importado(p) \/ Muere(p)
      PROVE  InvLibros'
  BY <1>2, VaciadoLibros, InicializarLibros, AbrirLibros, ImportarLibros, ImportadoLibros, MuereLibros
<1>3. CASE UNCHANGED vars
  BY <1>3 DEF vars, bd, importa, historia, InvLibros, Distintos, CadaLibro, Completa, Faltan,
       FaltaLibro,
              FilasDe
<1>4. QED
  BY <1>1, <1>2, <1>3, PasosSegunArranque

LEMMA SiempreLibros == Spec => []InvLibros
<1>1. QED
  BY InitLibros, NextLibros, SiempreInv, PTL DEF Spec

(***************************************************************************)
(* What listar_libros shows once the starts are over: each book once for   *)
(* each start that has opened the database since it was deleted, whichever *)
(* of them deleted it, and whatever the server did (CatalogoRepetido).     *)
(***************************************************************************)
THEOREM CadaLibroUnaVezPorArranque == Spec => []CatalogoRepetido
<1>1. Inv /\ InvLibros => CatalogoRepetido
  <2>1. SUFFICES ASSUME Base, InvLibros, Asentada, NEW i \in ISBNs
                 PROVE  Cardinality({k \in DOMAIN librosBD : librosBD[k].isbn = i}) = aperturas
    BY DEF Inv, CatalogoRepetido
  <2>2. Completa
    BY <2>1 DEF Asentada, Completa
  <2>3. Faltan(i) = {}
    BY <2>1 DEF Asentada, Faltan, FaltaLibro, Base, Importacion
  <2>4. Cardinality(FilasDe(i)) + 0 = aperturas
    BY <2>1, <2>2, <2>3, FS_EmptySet DEF InvLibros, CadaLibro
  <2>5. Cardinality(FilasDe(i)) \in Nat
    BY <2>1, FilasDeFinitas
  <2>6. DOMAIN librosBD = 1 .. Len(librosBD)
    BY <2>1 DEF Base, TypeOK
  <2>7. {k \in DOMAIN librosBD : librosBD[k].isbn = i} = FilasDe(i)
    BY <2>6 DEF FilasDe
  <2>8. Cardinality(FilasDe(i)) = aperturas
    BY <2>4, <2>5
  <2>9. QED
    BY <2>7, <2>8, Zenon
<1>2. QED
  BY <1>1, SiempreInv, SiempreLibros, PTL

-----------------------------------------------------------------------------
(* How often a row is there *)

Sitios(s, r) == {k \in 1 .. Len(s) : s[k] = r}

LEMMA CuantasEn ==
  ASSUME NEW S, NEW s \in Seq(S), NEW r
  PROVE  /\ Len(s) \in Nat /\ Sitios(s, r) \in SUBSET (1 .. Len(s))
         /\ Cuantas(s, r) = Cardinality(Sitios(s, r))
         /\ IsFiniteSet(Sitios(s, r)) /\ Cuantas(s, r) \in Nat
<1>1. DOMAIN s = 1 .. Len(s) /\ Len(s) \in Nat
  OBVIOUS
<1>2. Sitios(s, r) \in SUBSET (1 .. Len(s)) /\ Cuantas(s, r) = Cardinality(Sitios(s, r))
  BY <1>1 DEF Sitios, Cuantas
<1>3. QED
  BY <1>1, <1>2, SitiosFinitos

LEMMA CuantasAlFinal ==
  ASSUME NEW S, NEW s \in Seq(S), NEW e \in S, NEW r
  PROVE  Cuantas(Append(s, e), r) = Cuantas(s, r) + (IF e = r THEN 1 ELSE 0)
<1>1. /\ Append(s, e) \in Seq(S) /\ Len(Append(s, e)) = Len(s) + 1
      /\ Append(s, e)[Len(s) + 1] = e
      /\ \A k \in 1 .. Len(s) : Append(s, e)[k] = s[k]
  BY AlFinal
<1>2. /\ Len(s) \in Nat /\ Sitios(s, r) \in SUBSET (1 .. Len(s)) /\ Cuantas(s, r) \in Nat
      /\ Cuantas(s, r) = Cardinality(Sitios(s, r))
  BY CuantasEn
<1>3. Cuantas(Append(s, e), r) = Cardinality(Sitios(Append(s, e), r))
  BY <1>1, CuantasEn
<1>4. CASE e = r
  <2>1. Sitios(Append(s, e), r) = Sitios(s, r) \cup {Len(s) + 1}
    BY <1>1, <1>2, <1>4 DEF Sitios
  <2>2. QED
    BY <1>2, <1>3, <1>4, <2>1, UnSitioMas
<1>5. CASE e # r
  <2>1. Sitios(Append(s, e), r) = Sitios(s, r)
    BY <1>1, <1>2, <1>5 DEF Sitios
  <2>2. QED
    BY <1>2, <1>3, <1>5, <2>1
<1>6. QED
  BY <1>4, <1>5

\* A deletion adds no row.
LEMMA CuantasSinUna ==
  ASSUME NEW S, NEW s \in Seq(S), NEW e, \E i \in 1 .. Len(s) : s[i] = e, NEW r
  PROVE  Cuantas(RemoveFirst(s, e), r) <= Cuantas(s, r)
<1> DEFINE t == RemoveFirst(s, e)
<1>1. PICK k \in 1 .. Len(s) :
        /\ t \in Seq(S) /\ Len(t) = Len(s) - 1
        /\ \A j \in 1 .. Len(s) - 1 : t[j] = IF j < k THEN s[j] ELSE s[j + 1]
  BY QuitaUna
<1> HIDE DEF t
<1> DEFINE f == [j \in Sitios(t, r) |-> IF j < k THEN j ELSE j + 1]
<1>2. Len(s) \in Nat /\ k \in Nat
  OBVIOUS
<1>3. ASSUME NEW j \in Sitios(t, r)
      PROVE  j \in Nat /\ (IF j < k THEN j ELSE j + 1) \in Sitios(s, r)
  <2>1. j \in 1 .. Len(s) - 1 /\ t[j] = r /\ j \in Nat
    BY <1>1, <1>2 DEF Sitios
  <2>2. CASE j < k
    <3>1. j \in 1 .. Len(s) /\ s[j] = r
      BY <1>1, <1>2, <2>1, <2>2
    <3>2. QED
      BY <2>1, <2>2, <3>1 DEF Sitios
  <2>3. CASE ~ (j < k)
    <3>1. j + 1 \in 1 .. Len(s) /\ s[j + 1] = r
      BY <1>1, <1>2, <2>1, <2>3
    <3>2. QED
      BY <2>1, <2>3, <3>1 DEF Sitios
  <2>4. QED
    BY <2>2, <2>3
<1>4. f \in Injection(Sitios(t, r), Sitios(s, r))
  <2>1. f \in [Sitios(t, r) -> Sitios(s, r)]
    BY <1>3
  <2>2. \A i, j \in Nat : (IF i < k THEN i ELSE i + 1) = (IF j < k THEN j ELSE j + 1) => i = j
    BY <1>2
  <2>3. \A i, j \in Sitios(t, r) : f[i] = f[j] => i = j
    BY <1>3, <2>2
  <2>4. QED
    <3>1. DOMAIN f = Sitios(t, r)
      OBVIOUS
    <3> HIDE DEF f
    <3>2. QED
      BY <2>1, <2>3, <3>1 DEF Injection, IsInjective
<1>5. Cardinality(Sitios(t, r)) <= Cardinality(Sitios(s, r))
  BY <1>4, CuantasEn, FS_Injection
<1>6. QED
  BY <1>1, <1>5, CuantasEn DEF t

\* The places of the rows, counted from the end.
DesdeElFinal(p, s, r) == {x \in {p} \X Nat : x[2] < Len(s) /\ s[Len(s) - x[2]] = r}

LEMMA CuantasDesdeElFinal ==
  ASSUME NEW S, NEW s \in Seq(S), NEW p, NEW r
  PROVE  /\ IsFiniteSet(DesdeElFinal(p, s, r))
         /\ Cardinality(DesdeElFinal(p, s, r)) = Cuantas(s, r)
<1> DEFINE D == {x \in {p} \X Nat : x[2] < Len(s) /\ s[Len(s) - x[2]] = r}
           g == [k \in Sitios(s, r) |-> <<p, Len(s) - k>>]
<1>1. Len(s) \in Nat /\ IsFiniteSet(Sitios(s, r)) /\ Cuantas(s, r) = Cardinality(Sitios(s, r))
  BY CuantasEn
<1>2. ASSUME NEW k \in Sitios(s, r)
      PROVE  <<p, Len(s) - k>> \in D /\ k \in Nat
  <2>1. k \in 1 .. Len(s) /\ s[k] = r /\ k \in Nat
    BY <1>1 DEF Sitios
  <2>2. Len(s) - k \in Nat /\ Len(s) - k < Len(s) /\ Len(s) - (Len(s) - k) = k
    BY <1>1, <2>1
  <2>3. QED
    BY <2>1, <2>2
<1>3. g \in [Sitios(s, r) -> D]
  <2> HIDE DEF D
  <2>1. QED
    BY <1>2
<1>4. ASSUME NEW j \in Sitios(s, r), NEW k \in Sitios(s, r), g[j] = g[k]
      PROVE  j = k
  <2>1. Len(s) - j = Len(s) - k
    BY <1>4
  <2>2. j \in Nat /\ k \in Nat
    BY <1>2
  <2> HIDE DEF D, g
  <2>3. QED
    BY <1>1, <2>1, <2>2
<1>5. ASSUME NEW x \in D
      PROVE  \E k \in Sitios(s, r) : g[k] = x
  <2>1. x = <<p, x[2]>> /\ x[2] \in Nat /\ x[2] < Len(s) /\ s[Len(s) - x[2]] = r
    BY <1>5
  <2>2. Len(s) - x[2] \in 1 .. Len(s) /\ Len(s) - (Len(s) - x[2]) = x[2]
    BY <1>1, <2>1
  <2>3. Len(s) - x[2] \in Sitios(s, r)
    BY <2>1, <2>2 DEF Sitios
  <2>4. g[Len(s) - x[2]] = x
    BY <2>1, <2>2, <2>3
  <2>5. QED
    BY <2>3, <2>4
<1>6. DOMAIN g = Sitios(s, r)
  OBVIOUS
<1> HIDE DEF D, g
<1>7. g \in Bijection(Sitios(s, r), D)
  BY <1>3, <1>4, <1>5, <1>6 DEF Injection, Surjection, Bijection, IsInjective
<1>8. ExistsBijection(Sitios(s, r), D)
  BY <1>7 DEF ExistsBijection
<1>9. IsFiniteSet(D) /\ Cardinality(D) = Cardinality(Sitios(s, r))
  BY <1>1, <1>8, FS_Bijection
<1>10. D = DesdeElFinal(p, s, r)
  BY DEF D, DesdeElFinal
<1>11. QED
  BY <1>1, <1>9, <1>10

-----------------------------------------------------------------------------
(* How many returns a user is granted *)

\* The starts that have not read prestamos.csv yet.
SinLeer == {p \in Consolas : Importando(p) /\ (tabla[p] = "prestamos" => pc[p] = "abrir")}

\* The lines of a loan that the others have still to insert, from the end of the file.
PorLeer(r) ==
  {x \in Consolas \X Nat :
     /\ tabla[x[1]] = "prestamos"
     /\ x[2] < Len(pendientes[x[1]])
     /\ pendientes[x[1]][Len(pendientes[x[1]]) - x[2]] = r}

\* Each start that has not read the lines will insert every one of them.
Acotada(r) ==
  /\ IsFiniteSet(PorLeer(r))
  /\ Cuantas(prestamosBD, r) + Cardinality(PorLeer(r)) + Cardinality(SinLeer) * Cuantas(prestamosCSV, r)
       <= Veces * Cuantas(prestamosCSV, r) + EnVuelo(r) + sobras[r]

InvDev ==
  /\ IsFiniteSet(SinLeer) /\ Cardinality(SinLeer) <= aperturas
  /\ \A r \in Linea : Acotada(r)

\* What is counted is numbers.
LEMMA SonNumeros ==
  ASSUME Base, IsFiniteSet(SinLeer), NEW r \in Linea, IsFiniteSet(PorLeer(r))
  PROVE  /\ Cuantas(prestamosBD, r) \in Nat /\ Cuantas(prestamosCSV, r) \in Nat
         /\ Cardinality(PorLeer(r)) \in Nat /\ Cardinality(SinLeer) \in Nat
         /\ Veces \in Nat /\ aperturas \in Nat /\ EnVuelo(r) \in Nat /\ sobras[r] \in Nat
         /\ Cardinality(SinLeer) * Cuantas(prestamosCSV, r) \in Nat
         /\ Veces * Cuantas(prestamosCSV, r) \in Nat
<1>1. /\ prestamosBD \in Seq(Linea) /\ prestamosCSV \in Seq(Linea) /\ aperturas \in Nat
      /\ sobras[r] \in Nat
  BY DEF Base, TypeOK
<1>2. /\ Cuantas(prestamosBD, r) \in Nat /\ Cuantas(prestamosCSV, r) \in Nat
      /\ Cardinality(PorLeer(r)) \in Nat /\ Cardinality(SinLeer) \in Nat
  BY <1>1, CuantasEn, FS_CardinalityType
<1>3. Veces \in Nat /\ EnVuelo(r) \in Nat
  BY <1>1 DEF Veces, EnVuelo
<1>4. \A a, b \in Nat : a * b \in Nat
  OBVIOUS
<1>5. QED
  BY <1>1, <1>2, <1>3, <1>4

LEMMA SonNumerosDespues ==
  ASSUME Base', IsFiniteSet(SinLeer'), NEW r \in Linea, IsFiniteSet((PorLeer(r))')
  PROVE  /\ Cuantas(prestamosBD', r) \in Nat /\ Cuantas(prestamosCSV', r) \in Nat
         /\ Cardinality((PorLeer(r))') \in Nat /\ Cardinality(SinLeer') \in Nat
         /\ Veces' \in Nat /\ aperturas' \in Nat /\ (EnVuelo(r))' \in Nat /\ sobras'[r] \in Nat
         /\ Cardinality(SinLeer') * Cuantas(prestamosCSV', r) \in Nat
         /\ Veces' * Cuantas(prestamosCSV', r) \in Nat
<1>1. /\ prestamosBD' \in Seq(Linea) /\ prestamosCSV' \in Seq(Linea) /\ aperturas' \in Nat
      /\ sobras'[r] \in Nat
  BY DEF Base, TypeOK
<1>2. /\ Cuantas(prestamosBD', r) \in Nat /\ Cuantas(prestamosCSV', r) \in Nat
      /\ Cardinality((PorLeer(r))') \in Nat /\ Cardinality(SinLeer') \in Nat
  BY <1>1, CuantasEn, FS_CardinalityType
<1>3. Veces' \in Nat /\ (EnVuelo(r))' \in Nat
  <2>1. Veces' = aperturas' + (IF "solape" \in avisos' THEN 1 ELSE 0)
    BY DEF Veces
  <2>2. (EnVuelo(r))' \in {0, 1}
    BY DEF EnVuelo
  <2>3. \A n \in Nat : n + 0 \in Nat /\ n + 1 \in Nat
    OBVIOUS
  <2>4. Veces' = aperturas' + 0 \/ Veces' = aperturas' + 1
    BY <2>1
  <2>5. 0 \in Nat /\ 1 \in Nat
    OBVIOUS
  <2>6. QED
    BY <1>1, <2>2, <2>3, <2>4, <2>5
<1>4. \A a, b \in Nat : a * b \in Nat
  OBVIOUS
<1>5. QED
  BY <1>1, <1>2, <1>3, <1>4

\* A step that reads no line and writes none.
LEMMA DevolucionesIguales ==
  ASSUME Base, Base', InvDev, UNCHANGED <<aperturas, avisos, prestamosCSV>>, SinLeer' = SinLeer,
         \A r \in Linea : /\ (PorLeer(r))' = PorLeer(r)
                          /\ Cuantas(prestamosBD', r) + EnVuelo(r) + sobras[r]
                               <= Cuantas(prestamosBD, r) + (EnVuelo(r))' + sobras'[r]
  PROVE  InvDev'
<1>1. SUFFICES ASSUME NEW r \in Linea PROVE (Acotada(r))'
  BY DEF InvDev
<1>2. /\ IsFiniteSet(SinLeer) /\ IsFiniteSet(PorLeer(r))
      /\ Cuantas(prestamosBD,
           r) + Cardinality(PorLeer(r)) + Cardinality(SinLeer) * Cuantas(prestamosCSV, r)
           <= Veces * Cuantas(prestamosCSV, r) + EnVuelo(r) + sobras[r]
  BY DEF InvDev, Acotada
<1>3. (PorLeer(r))' = PorLeer(r) /\ Veces' = Veces
  BY DEF Veces
<1>4. \A a, b, c, v, e, s, a2, e2, s2 \in Nat :
        a + b + c <= v + e + s /\ a2 + e + s <= a + e2 + s2 => a2 + b + c <= v + e2 + s2
  OBVIOUS
<1>5. /\ Cuantas(prestamosBD', r) \in Nat /\ (EnVuelo(r))' \in Nat /\ sobras'[r] \in Nat
  BY <1>2, <1>3, SonNumerosDespues
<1>6. Cuantas(prestamosBD',
     r) + Cardinality(PorLeer(r)) + Cardinality(SinLeer) * Cuantas(prestamosCSV, r)
        <= Veces * Cuantas(prestamosCSV, r) + (EnVuelo(r))' + sobras'[r]
  BY <1>2, <1>4, <1>5, SonNumeros
<1>7. QED
  BY <1>2, <1>3, <1>6 DEF Acotada

\* The other processes leave what is to be read alone.
LEMMA AjenoPorLeer ==
  ASSUME Base, Ajeno
  PROVE  SinLeer' = SinLeer /\ \A r : (PorLeer(r))' = PorLeer(r)
<1>1. /\ UNCHANGED <<tabla, pendientes>>
      /\ \A q \in Consolas : (Importando(q))' <=> Importando(q)
      /\ \A q \in Consolas : Importando(q) => pc'[q] = pc[q]
  BY PasoAjeno
<1>2. SinLeer' = SinLeer
  BY <1>1 DEF SinLeer
<1>3. \A r : (PorLeer(r))' = PorLeer(r)
  BY <1>1 DEF PorLeer
<1>4. QED
  BY <1>2, <1>3

\* A loan that stops leaves its row, or has left it already.
LEMMA SobraLaQueEstaba ==
  ASSUME Base, NEW p \in Procesos, Sobra(p), Termina(p), NEW r \in Linea
  PROVE  EnVuelo(r) + sobras[r] <= (EnVuelo(r))' + sobras'[r]
<1>1. sobras \in [Linea -> Nat] /\ EnVuelo(r) \in {0, 1} /\ (EnVuelo(r))' \in {0, 1}
  BY DEF Base, TypeOK, EnVuelo
<1>2. CASE p = Servidor
  <2>1. CASE pc[p] \in {"anotar", "csv_pedir", "csv_prestamo"}
    <3>1. sobras' = [sobras EXCEPT ![orden[p]] = @ + 1]
      BY <1>2, <2>1 DEF Sobra
    <3>2. orden[p] \in Linea
      BY <2>1, OrdenDe DEF ConOrden
    <3>3. EnVuelo(r) = IF r = orden[p] THEN 1 ELSE 0
      BY <1>2, <2>1 DEF EnVuelo
    <3>4. sobras'[r] = IF r = orden[p] THEN sobras[r] + 1 ELSE sobras[r]
      BY <1>1, <3>1, <3>2
    <3>5. sobras[r] \in Nat
      BY <1>1
    <3>6. QED
      BY <1>1, <3>3, <3>4, <3>5
  <2>2. CASE pc[p] \notin {"anotar", "csv_pedir", "csv_prestamo"}
    <3>1. sobras' = sobras /\ EnVuelo(r) = 0
      BY <1>2, <2>2 DEF Sobra, EnVuelo
    <3>2. sobras[r] \in Nat
      BY <1>1
    <3>3. QED
      BY <1>1, <3>1, <3>2
  <2>3. QED
    BY <2>1, <2>2
<1>3. CASE p # Servidor
  <2>1. sobras' = sobras /\ pc'[Servidor] = pc[Servidor] /\ orden'[Servidor] = orden[Servidor]
    BY <1>3, FinDe DEF Sobra
  <2>2. (EnVuelo(r))' = EnVuelo(r) /\ sobras[r] \in Nat
    BY <1>1, <2>1 DEF EnVuelo
  <2>3. QED
    BY <1>1, <2>1, <2>2
<1>4. QED
  BY <1>2, <1>3

\* A step of the server that is on the way neither before nor after, or all the time.
LEMMA MismoVuelo ==
  ASSUME Base, NEW r \in Linea, UNCHANGED <<prestamosBD, sobras>>,
         \/ pc[Servidor] \notin {"anotar", "csv_pedir", "csv_prestamo"}
         \/ pc'[Servidor] \in {"anotar", "csv_pedir",
              "csv_prestamo"} /\ orden'[Servidor] = orden[Servidor]
  PROVE  Cuantas(prestamosBD', r) + EnVuelo(r) + sobras[r]
           <= Cuantas(prestamosBD, r) + (EnVuelo(r))' + sobras'[r]
<1>1. sobras[r] \in Nat /\ Cuantas(prestamosBD, r) \in Nat
  BY CuantasEn DEF Base, TypeOK
<1>2. EnVuelo(r) \in {0, 1} /\ (EnVuelo(r))' \in {0, 1} /\ EnVuelo(r) <= (EnVuelo(r))'
  BY DEF EnVuelo
<1>3. QED
  BY <1>1, <1>2

\* What does not touch the server does not touch its loan.
LEMMA VueloDeOtro ==
  ASSUME Base, NEW r \in Linea, UNCHANGED <<prestamosBD, sobras>>,
         pc'[Servidor] = pc[Servidor], orden'[Servidor] = orden[Servidor]
  PROVE  Cuantas(prestamosBD', r) + EnVuelo(r) + sobras[r]
           <= Cuantas(prestamosBD, r) + (EnVuelo(r))' + sobras'[r]
  BY MismoVuelo

LEMMA SobraDev ==
  ASSUME Base, NEW p \in Procesos, Sobra(p), Termina(p), UNCHANGED prestamosBD, NEW r \in Linea, Base'
  PROVE  Cuantas(prestamosBD', r) + EnVuelo(r) + sobras[r]
           <= Cuantas(prestamosBD, r) + (EnVuelo(r))' + sobras'[r]
<1>1. EnVuelo(r) + sobras[r] <= (EnVuelo(r))' + sobras'[r]
  BY SobraLaQueEstaba
<1>2. /\ EnVuelo(r) \in {0, 1} /\ (EnVuelo(r))' \in {0, 1} /\ sobras[r] \in Nat /\ sobras'[r] \in Nat
      /\ Cuantas(prestamosBD, r) \in Nat /\ prestamosBD' = prestamosBD
  BY CuantasEn DEF Base, TypeOK, EnVuelo
<1>3. QED
  BY <1>1, <1>2

\* The statements of the server, and the listing.
LEMMA ServidorDev ==
  ASSUME Base, Presente, Base', InvDev, PasoServidor
  PROVE  InvDev'
<1>1. SinLeer' = SinLeer /\ \A r : (PorLeer(r))' = PorLeer(r)
  BY AjenoPorLeer DEF Ajeno
<1>2. UNCHANGED <<aperturas, avisos, prestamosCSV>>
  BY DEF PasoServidor, Pedir, Devolver, Restar, Insertar, Anotar, BorrarFila, Sumar, Cerrar, Contar,
         Enviar, Escribe, historia, csv
<1>3. SUFFICES ASSUME NEW r \in Linea
               PROVE  Cuantas(prestamosBD', r) + EnVuelo(r) + sobras[r]
                        <= Cuantas(prestamosBD, r) + (EnVuelo(r))' + sobras'[r]
  BY <1>1, <1>2, DevolucionesIguales
<1>4. /\ prestamosBD \in Seq(Linea) /\ sobras \in [Linea -> Nat] /\ Cuantas(prestamosBD, r) \in Nat
      /\ sobras[r] \in Nat
  BY CuantasEn DEF Base, TypeOK
<1>5. CASE \/ \E u \in Usuarios, i \in ISBNs : Pedir(u, i) \/ Devolver(u, i)
           \/ Restar \/ Sumar \/ Cerrar \/ Contar \/ Enviar
  <2>1. /\ UNCHANGED <<prestamosBD, sobras>>
        /\ pc[Servidor] \in {"esperando", "restar", "sumar", "cerrar", "enviar"}
    BY <1>5 DEF Pedir, Devolver, Restar, Sumar, Cerrar, Contar, Enviar, bd, historia
  <2>2. QED
    BY <2>1, MismoVuelo
<1>6. CASE Insertar
  <2>1. /\ pc[Servidor] = "insertar" /\ Ir(Servidor, "anotar") /\ UNCHANGED <<orden, sobras>>
        /\ prestamosBD' = Append(prestamosBD, orden[Servidor])
    BY <1>6 DEF Insertar, Escribe
  <2>2. pc'[Servidor] = "anotar" /\ orden[Servidor] \in Linea
    BY <2>1, PasoDe, Procesa, OrdenDe DEF ConOrden
  <2>3. Cuantas(prestamosBD', r) = Cuantas(prestamosBD, r) + (IF orden[Servidor] = r THEN 1 ELSE 0)
    BY <1>4, <2>1, <2>2, CuantasAlFinal
  <2>4. EnVuelo(r) = 0 /\ (EnVuelo(r))' = IF orden[Servidor] = r THEN 1 ELSE 0
    BY <2>1, <2>2 DEF EnVuelo
  <2>5. QED
    BY <1>4, <2>1, <2>3, <2>4
<1>7. CASE Anotar
  <2>1. pc[Servidor] = "anotar" /\ UNCHANGED prestamosBD
    BY <1>7 DEF Anotar
  <2>2. CASE Ir(Servidor, "csv_pedir") /\ UNCHANGED <<orden, sobras>>
    <3>1. pc'[Servidor] = "csv_pedir"
      BY <2>2, PasoDe, Procesa
    <3>2. QED
      BY <2>1, <2>2, <3>1, MismoVuelo
  <2>3. CASE Sobra(Servidor) /\ Termina(Servidor)
    BY <2>1, <2>3, SobraDev, Procesa
  <2>4. QED
    BY <1>7, <2>2, <2>3 DEF Anotar, Escribe
<1>8. CASE BorrarFila
  <2>1. /\ pc[Servidor] = "borrar" /\ Ir(Servidor, "sumar") /\ UNCHANGED sobras
        /\ prestamosBD' = RemoveFirst(prestamosBD, orden[Servidor])
    BY <1>8 DEF BorrarFila, Escribe
  <2>2. Cuantas(prestamosBD', r) <= Cuantas(prestamosBD, r)
    BY <1>4, <2>1, CuantasSinUna DEF Presente
  <2>3. EnVuelo(r) = 0 /\ (EnVuelo(r))' = 0
    BY <2>1, PasoDe, Procesa DEF EnVuelo
  <2>4. Cuantas(prestamosBD', r) \in Nat
    BY CuantasEn DEF Base, TypeOK
  <2>5. QED
    BY <1>4, <2>1, <2>2, <2>3, <2>4
<1>9. QED
  BY <1>5, <1>6, <1>7, <1>8 DEF PasoServidor

\* The files, but for the line of the loan.
LEMMA CsvDev ==
  ASSUME Base, Base', InvDev, NEW p \in Procesos,
         CsvPedir(p) \/ CsvHistorial(p) \/ CsvDevolver(p) \/ CsvCierre(p) \/ Interrumpe(p)
  PROVE  InvDev'
<1>1. SinLeer' = SinLeer /\ \A r : (PorLeer(r))' = PorLeer(r)
  BY AjenoPorLeer DEF Ajeno, PasoCSV
<1>2. UNCHANGED <<aperturas, avisos, prestamosCSV, prestamosBD>>
  BY DEF CsvPedir, CsvHistorial, CsvDevolver, CsvCierre, Interrumpe, historia, csv, bd
<1>3. SUFFICES ASSUME NEW r \in Linea
               PROVE  Cuantas(prestamosBD', r) + EnVuelo(r) + sobras[r]
                        <= Cuantas(prestamosBD, r) + (EnVuelo(r))' + sobras'[r]
  BY <1>1, <1>2, DevolucionesIguales
<1>4. CASE Sobra(p) /\ Termina(p)
  BY <1>2, <1>4, SobraDev
<1>5. CASE CsvHistorial(p) \/ CsvDevolver(p) \/ CsvCierre(p)
  <2>1. /\ pc[p] \in {"csv_historial", "csv_devolver", "csv_cierre"} /\ UNCHANGED sobras
        /\ Termina(p) \/ (Ir(p, "csv_cierre") /\ UNCHANGED orden)
    BY <1>5 DEF CsvHistorial, CsvDevolver, CsvCierre, historia
  <2>2. CASE p = Servidor
    BY <1>2, <2>1, <2>2, MismoVuelo
  <2>3. CASE p # Servidor
    <3>1. pc'[Servidor] = pc[Servidor] /\ orden'[Servidor] = orden[Servidor]
      BY <2>1, <2>3, PasoDe, FinDe
    <3>2. QED
      BY <1>2, <2>1, <3>1, VueloDeOtro
  <2>4. QED
    BY <2>2, <2>3
<1>6. CASE pc[p] = "csv_pedir" /\ Ir(p, "csv_prestamo") /\ UNCHANGED <<orden, sobras>>
  <2>1. CASE p = Servidor
    <3>1. pc'[Servidor] = "csv_prestamo" /\ orden'[Servidor] = orden[Servidor]
      BY <1>6, <2>1, PasoDe
    <3>2. QED
      BY <1>2, <1>6, <3>1, MismoVuelo
  <2>2. CASE p # Servidor
    <3>1. pc'[Servidor] = pc[Servidor] /\ orden'[Servidor] = orden[Servidor]
      BY <1>6, <2>2, PasoDe
    <3>2. QED
      BY <1>2, <1>6, <3>1, VueloDeOtro
  <2>3. QED
    BY <2>1, <2>2
<1>7. QED
  BY <1>4, <1>5, <1>6 DEF CsvPedir, Interrumpe

(***************************************************************************)
(* The line of the loan: each start that has not read the lines will read  *)
(* it.  There are at most Veces of them; a line of the server takes the    *)
(* place of the loan on its way, or is noted.                              *)
(***************************************************************************)
LEMMA CsvPrestamoDev ==
  ASSUME Base, SinAbrir, Base', InvDev, NEW p \in Procesos, CsvPrestamo(p)
  PROVE  InvDev'
<1>1. SinLeer' = SinLeer /\ \A r : (PorLeer(r))' = PorLeer(r)
  BY AjenoPorLeer DEF Ajeno, PasoCSV
<1>2. /\ pc[p] = "csv_prestamo"
      /\ prestamosCSV' = Append(prestamosCSV, orden[p])
      /\ Ir(p, "csv_historial")
      /\ UNCHANGED <<prestamosBD, orden, aperturas, sobras>>
      /\ avisos' = IF p = Servidor /\ SinLeer # {} THEN avisos \cup {"solape"} ELSE avisos
  BY DEF CsvPrestamo, bd, SinLeer
<1>3. orden[p] \in Linea
  BY <1>2, OrdenDe DEF ConOrden
<1>4. SUFFICES ASSUME NEW r \in Linea PROVE (Acotada(r))'
  BY <1>1, <1>2 DEF InvDev
<1>5. /\ IsFiniteSet(SinLeer) /\ Cardinality(SinLeer) <= aperturas /\ IsFiniteSet(PorLeer(r))
      /\ Cuantas(prestamosBD,
           r) + Cardinality(PorLeer(r)) + Cardinality(SinLeer) * Cuantas(prestamosCSV, r)
           <= Veces * Cuantas(prestamosCSV, r) + EnVuelo(r) + sobras[r]
  BY DEF InvDev, Acotada
<1>6. Cuantas(prestamosCSV', r) = Cuantas(prestamosCSV, r) + (IF orden[p] = r THEN 1 ELSE 0)
  BY <1>2, <1>3, CuantasAlFinal DEF Base, TypeOK
<1> DEFINE a == Cuantas(prestamosBD, r)
           b == Cardinality(PorLeer(r))
           f == Cardinality(SinLeer)
           c == Cuantas(prestamosCSV, r)
           v == Veces
           w == Veces'
           e == EnVuelo(r)
           g == (EnVuelo(r))'
           s == sobras[r]
<1>7. /\ a \in Nat /\ b \in Nat /\ f \in Nat /\ c \in Nat /\ v \in Nat /\ w \in Nat /\ e \in Nat
      /\ g \in Nat /\ s \in Nat
  BY <1>1, <1>5, SonNumeros, SonNumerosDespues
<1>8. f <= v /\ v <= w
  <2>1. aperturas \in Nat /\ Veces' = aperturas + (IF "solape" \in avisos' THEN 1 ELSE 0)
        /\ Veces = aperturas + (IF "solape" \in avisos THEN 1 ELSE 0)
        /\ ("solape" \in avisos => "solape" \in avisos')
    BY <1>2 DEF Base, TypeOK, Veces
  <2>2. QED
    BY <1>5, <1>7, <2>1
<1>9. a + b + f * c <= v * c + e + s
  BY <1>5
<1>10. CASE orden[p] = r
  <2>1. Cuantas(prestamosCSV', r) = c + 1
    BY <1>6, <1>10
  <2>2. CASE p = Servidor
    <3>1. e = 1 /\ g = 0
      BY <1>2, <1>10, <2>2, PasoDe DEF EnVuelo
    <3>2. CASE f = 0
      <4>1. w >= 1
        <5>1. aperturas \in Nat /\ aperturas # 0
          BY <1>2, <2>2 DEF Base, TypeOK, SinAbrir
        <5>2. w = aperturas + (IF "solape" \in avisos' THEN 1 ELSE 0)
          BY <1>2 DEF Veces
        <5>3. QED
          BY <5>1, <5>2
      <4> HIDE DEF a, b, f, c, v, w, e, g, s
      <4>2. v * c <= w * c /\ w * (c + 1) = w * c + w /\ v * c \in Nat /\ w * c \in Nat
            /\ f * c = 0 /\ f * (c + 1) = 0
        BY <1>7, <1>8, <3>2
      <4>3. a + b + f * (c + 1) <= w * (c + 1) + g + s
        BY <1>7, <1>9, <3>1, <4>1, <4>2
      <4>4. QED
        BY <1>1, <1>2, <1>5, <2>1, <4>3 DEF Acotada, a, b, f, c, v, w, e, g, s
    <3>3. CASE f # 0
      <4>1. w = aperturas + 1 /\ aperturas \in Nat
        <5>1. SinLeer # {}
          BY <3>3, FS_EmptySet
        <5>2. "solape" \in avisos'
          BY <1>2, <2>2, <5>1
        <5>3. QED
          BY <1>2, <5>2 DEF Veces, Base, TypeOK
      <4>2. f <= aperturas
        BY <1>5, <1>7, <4>1
      <4> HIDE DEF a, b, f, c, v, w, e, g, s
      <4>3. v * c <= w * c /\ w * (c + 1) = w * c + w /\ v * c \in Nat /\ w * c \in Nat
            /\ f * (c + 1) = f * c + f /\ f * c \in Nat
        BY <1>7, <1>8
      <4>4. a + b + f * (c + 1) <= w * (c + 1) + g + s
        BY <1>7, <1>9, <3>1, <4>1, <4>2, <4>3
      <4>5. QED
        BY <1>1, <1>2, <1>5, <2>1, <4>4 DEF Acotada, a, b, f, c, v, w, e, g, s
    <3>4. QED
      BY <3>2, <3>3
  <2>3. CASE p # Servidor
    <3>1. e = g
      BY <1>2, <2>3, PasoDe DEF EnVuelo
    <3> HIDE DEF a, b, f, c, v, w, e, g, s
    <3>2. v * c <= w * c /\ w * (c + 1) = w * c + w /\ v * c \in Nat /\ w * c \in Nat
          /\ f * (c + 1) = f * c + f /\ f * c \in Nat
      BY <1>7, <1>8
    <3>3. a + b + f * (c + 1) <= w * (c + 1) + g + s
      BY <1>7, <1>8, <1>9, <3>1, <3>2
    <3>4. QED
      BY <1>1, <1>2, <1>5, <2>1, <3>3 DEF Acotada, a, b, f, c, v, w, e, g, s
  <2>4. QED
    BY <2>2, <2>3
<1>11. CASE orden[p] # r
  <2>1. Cuantas(prestamosCSV', r) = c
    BY <1>6, <1>7, <1>11
  <2>2. e = g
    <3>1. CASE p = Servidor
      BY <1>2, <1>11, <3>1, PasoDe DEF EnVuelo
    <3>2. CASE p # Servidor
      BY <1>2, <3>2, PasoDe DEF EnVuelo
    <3>3. QED
      BY <3>1, <3>2
  <2> HIDE DEF a, b, f, c, v, w, e, g, s
  <2>3. v * c <= w * c /\ v * c \in Nat /\ w * c \in Nat /\ f * c \in Nat
    BY <1>7, <1>8
  <2>4. a + b + f * c <= w * c + g + s
    BY <1>7, <1>9, <2>2, <2>3
  <2>5. QED
    BY <1>1, <1>2, <1>5, <2>1, <2>4 DEF Acotada, a, b, f, c, v, w, e, g, s
<1>12. QED
  BY <1>10, <1>11

\* Fewer to read, and nothing written.
LEMMA MenosPorLeer ==
  ASSUME Base, Base', InvDev, UNCHANGED <<aperturas, prestamosCSV, prestamosBD, sobras>>,
         pc'[Servidor] = pc[Servidor], orden'[Servidor] = orden[Servidor],
         avisos \subseteq avisos', SinLeer' \subseteq SinLeer,
         \A r : (PorLeer(r))' \subseteq PorLeer(r)
  PROVE  InvDev'
<1>1. IsFiniteSet(SinLeer) /\ Cardinality(SinLeer) <= aperturas
  BY DEF InvDev
<1>2. /\ IsFiniteSet(SinLeer') /\ Cardinality(SinLeer') <= Cardinality(SinLeer)
      /\ Cardinality(SinLeer) \in Nat /\ Cardinality(SinLeer') \in Nat
  BY <1>1, FS_Subset, FS_CardinalityType
<1>3. Cardinality(SinLeer') <= aperturas'
  BY <1>1, <1>2 DEF Base, TypeOK
<1>4. ASSUME NEW r \in Linea
      PROVE  (Acotada(r))'
  <2> DEFINE a == Cuantas(prestamosBD, r)
             b == Cardinality(PorLeer(r))
             d == Cardinality((PorLeer(r))')
             f == Cardinality(SinLeer)
             h == Cardinality(SinLeer')
             c == Cuantas(prestamosCSV, r)
             v == Veces
             w == Veces'
             e == EnVuelo(r)
             s == sobras[r]
  <2>1. /\ IsFiniteSet(PorLeer(r)) /\ a + b + f * c <= v * c + e + s
    BY <1>4 DEF InvDev, Acotada
  <2>2. IsFiniteSet((PorLeer(r))') /\ d <= b
    BY <2>1, FS_Subset
  <2>3. /\ a \in Nat /\ b \in Nat /\ d \in Nat /\ f \in Nat /\ h \in Nat /\ c \in Nat /\ v \in Nat
        /\ w \in Nat /\ e \in Nat /\ s \in Nat
    BY <1>1, <1>2, <1>4, <2>1, <2>2, SonNumeros, SonNumerosDespues
  <2>4. v <= w
    <3>1. aperturas \in Nat /\ Veces' = aperturas + (IF "solape" \in avisos' THEN 1 ELSE 0)
          /\ Veces = aperturas + (IF "solape" \in avisos THEN 1 ELSE 0)
      BY DEF Base, TypeOK, Veces
    <3>2. QED
      BY <3>1
  <2>5. h <= f
    BY <1>2
  <2>6. (EnVuelo(r))' = e
    BY DEF EnVuelo
  <2> HIDE DEF a, b, d, f, h, c, v, w, e, s
  <2>7. v * c <= w * c /\ h * c <= f * c /\ v * c \in Nat /\ w * c \in Nat /\ h * c \in Nat /\ f * c \in Nat
    BY <2>3, <2>4, <2>5
  <2>8. a + d + h * c <= w * c + e + s
    BY <2>1, <2>2, <2>3, <2>7
  <2>9. QED
    BY <2>2, <2>6, <2>8 DEF Acotada, a, b, d, f, h, c, v, w, e, s
<1>5. QED
  BY <1>2, <1>3, <1>4 DEF InvDev

LEMMA VaciadoDev ==
  ASSUME Base, Base', NEW p \in Consolas, Vaciado(p)
  PROVE  InvDev'
<1>1. /\ prestamosBD' = << >> /\ sobras' = [r \in Linea |-> 0] /\ aperturas' = 0
      /\ "solape" \notin avisos' /\ pc'[Servidor] = "esperando"
  BY VaciadoDe DEF Vacia
<1>2. \A q \in Consolas : tabla'[q] = "ninguna" /\ ~ (Importando(q))'
  BY VaciadoDe
<1>3. SinLeer' = {}
  BY <1>2 DEF SinLeer
<1>4. IsFiniteSet(SinLeer') /\ Cardinality(SinLeer') = 0
  BY <1>3, FS_EmptySet
<1>5. ASSUME NEW r \in Linea
      PROVE  (Acotada(r))'
  <2>1. (PorLeer(r))' = {}
    BY <1>2 DEF PorLeer
  <2>2. IsFiniteSet((PorLeer(r))') /\ Cardinality((PorLeer(r))') = 0
    BY <2>1, FS_EmptySet
  <2>3. Cuantas(prestamosBD', r) = 0
    <3>1. Sitios(<< >>, r) = {}
      BY DEF Sitios
    <3>2. << >> \in Seq(Linea)
      OBVIOUS
    <3>3. QED
      BY <1>1, <3>1, <3>2, CuantasEn, FS_EmptySet
  <2>4. Veces' = 0 /\ sobras'[r] = 0 /\ (EnVuelo(r))' = 0
    BY <1>1 DEF Veces, EnVuelo
  <2>5. Cuantas(prestamosCSV', r) \in Nat
    BY <1>4, <2>2, SonNumerosDespues
  <2>6. 0 + 0 + 0 * Cuantas(prestamosCSV', r) <= 0 * Cuantas(prestamosCSV', r) + 0 + 0
    BY <2>5
  <2>7. QED
    BY <1>4, <2>2, <2>3, <2>4, <2>6 DEF Acotada
<1>6. QED
  BY <1>1, <1>4, <1>5 DEF InvDev

LEMMA InicializarDev ==
  ASSUME Base, Base', InvDev, NEW p \in Consolas, Inicializar(p)
  PROVE  InvDev'
<1>1. /\ tabla' = [tabla EXCEPT ![p] = "libros"] /\ pendientes' = pendientes
      /\ tabla \in [Consolas -> {"libros", "historial", "prestamos", "ninguna"}]
      /\ tabla[p] = "ninguna" /\ ~ Importando(p)
      /\ pc'[p] = "abrir" /\ pc'[Servidor] = pc[Servidor]
      /\ \A q \in Consolas \ {p} : pc'[q] = pc[q]
      /\ UNCHANGED <<orden, prestamosCSV, prestamosBD, sobras>>
      /\ aperturas' = aperturas + 1
      /\ ("solape" \in avisos' <=> "solape" \in avisos)
  BY InicializarDe, Procesa DEF csv, bd
<1>2. \A q \in Consolas : tabla'[q] = (IF q = p THEN "libros" ELSE tabla[q])
  BY <1>1
<1>3. SinLeer' = SinLeer \cup {p} /\ p \notin SinLeer
  BY <1>1, <1>2 DEF SinLeer, Importando
<1>4. \A r : (PorLeer(r))' = PorLeer(r)
  BY <1>1, <1>2 DEF PorLeer
<1>5. IsFiniteSet(SinLeer) /\ Cardinality(SinLeer) <= aperturas /\ aperturas \in Nat
      /\ Cardinality(SinLeer) \in Nat
  BY FS_CardinalityType DEF InvDev, Base, TypeOK
<1>6. IsFiniteSet(SinLeer') /\ Cardinality(SinLeer') = Cardinality(SinLeer) + 1
  BY <1>3, <1>5, FS_AddElement
<1>7. Cardinality(SinLeer') <= aperturas'
  BY <1>1, <1>5, <1>6
<1>8. ASSUME NEW r \in Linea
      PROVE  (Acotada(r))'
  <2> DEFINE a == Cuantas(prestamosBD, r)
             b == Cardinality(PorLeer(r))
             f == Cardinality(SinLeer)
             c == Cuantas(prestamosCSV, r)
             v == Veces
             e == EnVuelo(r)
             s == sobras[r]
  <2>1. IsFiniteSet(PorLeer(r)) /\ a + b + f * c <= v * c + e + s
    BY <1>8 DEF InvDev, Acotada
  <2>2. a \in Nat /\ b \in Nat /\ f \in Nat /\ c \in Nat /\ v \in Nat /\ e \in Nat /\ s \in Nat
    BY <1>5, <1>8, <2>1, SonNumeros
  <2>3. Veces' = v + 1 /\ (EnVuelo(r))' = e
    BY <1>1, <1>5 DEF Veces, EnVuelo
  <2>4. Cardinality(SinLeer') = f + 1
    BY <1>6
  <2> HIDE DEF a, b, f, c, v, e, s
  <2>5. (v + 1) * c = v * c + c /\ (f + 1) * c = f * c + c /\ v * c \in Nat /\ f * c \in Nat
    BY <2>2
  <2>6. a + b + (f + 1) * c <= (v + 1) * c + e + s
    BY <2>1, <2>2, <2>5
  <2>7. QED
    BY <1>1, <1>4, <2>1, <2>3, <2>4, <2>6 DEF Acotada, a, b, f, c, v, e, s
<1>9. QED
  BY <1>6, <1>7, <1>8 DEF InvDev

\* A console's step at its start leaves the server where it is.
LEMMA ServidorQuieto ==
  ASSUME Base, NEW p \in Consolas, Vaciado(p) \/ Inicializar(p) \/ Abrir(p) \/ Importar(p)
                                   \/ Importado(p) \/ Muere(p)
  PROVE  pc'[Servidor] = pc[Servidor] /\ orden'[Servidor] = orden[Servidor] /\ UNCHANGED csv
<1>1. orden' = orden \/ \E o : orden' = [orden EXCEPT ![p] = o]
  BY DEF Vaciado, Borrar, Inicializar, Abrir, Importar, Importado, Muere
<1>2. pc' = pc \/ \E paso : pc' = [pc EXCEPT ![p] = paso]
  BY DEF Vaciado, Borrar, Inicializar, Abrir, Importar, Importado, Muere, Ir, Siguiente
<1>3. UNCHANGED csv
  BY DEF Vaciado, Borrar, Inicializar, Abrir, Importar, Importado, Muere
<1>4. QED
  BY <1>1, <1>2, <1>3, Procesa DEF Base, TypeOK

LEMMA ImportadoDev ==
  ASSUME Base, Base', InvDev, NEW p \in Consolas, Importado(p)
  PROVE  InvDev'
<1>1. /\ pc[p] = "importar" /\ Importando(p) /\ pendientes[p] = << >> /\ Siguiente(p)
      /\ UNCHANGED <<pendientes, aperturas, prestamosBD, sobras, avisos>>
  BY DEF Importado, Importando, bd, historia
<1>2. /\ \A q \in Consolas \ {p} : tabla'[q] = tabla[q] /\ pc'[q] = pc[q]
      /\ \/ tabla[p] = "libros" /\ tabla'[p] = "historial" /\ pc'[p] = "abrir"
         \/ tabla[p] = "historial" /\ tabla'[p] = "prestamos" /\ pc'[p] = "abrir"
         \/ tabla[p] = "prestamos" /\ tabla'[p] = "ninguna" /\ pc'[p] = "menu"
  BY <1>1, SiguienteDe
<1>3. SinLeer' \subseteq SinLeer
  <2>1. SUFFICES ASSUME NEW q \in SinLeer' PROVE q \in SinLeer
    OBVIOUS
  <2>2. CASE q = p
    BY <1>1, <1>2, <2>1, <2>2 DEF SinLeer, Importando
  <2>3. CASE q # p
    BY <1>2, <2>1, <2>3 DEF SinLeer, Importando
  <2>4. QED
    BY <2>2, <2>3
<1>4. ASSUME NEW r PROVE (PorLeer(r))' \subseteq PorLeer(r)
  <2>1. SUFFICES ASSUME NEW x \in (PorLeer(r))' PROVE x \in PorLeer(r)
    OBVIOUS
  <2>2. x[1] # p
    <3>1. x[1] = p => x[2] < 0 /\ x[2] \in Nat
      BY <1>1, <2>1 DEF PorLeer
    <3>2. QED
      BY <3>1
  <2>3. QED
    BY <1>1, <1>2, <2>1, <2>2 DEF PorLeer
<1>5. UNCHANGED prestamosCSV
  BY ServidorQuieto DEF csv
<1>6. QED
  BY <1>1, <1>3, <1>4, <1>5, ServidorQuieto, MenosPorLeer

LEMMA MuereDev ==
  ASSUME Base, Base', InvDev, NEW p \in Consolas, Muere(p)
  PROVE  InvDev'
<1>1. /\ Ir(p, "cerrado")
      /\ avisos \subseteq avisos'
      /\ tabla' = [tabla EXCEPT ![p] = "ninguna"]
      /\ pendientes' = [pendientes EXCEPT ![p] = << >>]
      /\ UNCHANGED <<prestamosBD, aperturas, sobras>>
  BY DEF Muere, Ir, bd
<1>2. /\ tabla \in [Consolas -> {"libros", "historial", "prestamos", "ninguna"}]
      /\ pendientes \in [Consolas -> Seq(FilasDeLibros \cup Linea \cup Piezas)]
  BY TiposPorPartes DEF Base, TipoImporta, Importacion
<1>3. /\ tabla'[p] = "ninguna" /\ pc'[p] = "cerrado"
      /\ \A q \in Consolas \ {p} : tabla'[q] = tabla[q] /\ pendientes'[q] = pendientes[q] /\ pc'[q] = pc[q]
  BY <1>1, <1>2, PasoDe, Procesa
<1>4. SinLeer' \subseteq SinLeer
  BY <1>3 DEF SinLeer, Importando
<1>5. \A r : (PorLeer(r))' \subseteq PorLeer(r)
  BY <1>3 DEF PorLeer
<1>6. UNCHANGED prestamosCSV
  BY ServidorQuieto DEF csv
<1>7. QED
  BY <1>1, <1>4, <1>5, <1>6, ServidorQuieto, MenosPorLeer

LEMMA AbrirDev ==
  ASSUME Base, Base', InvDev, NEW p \in Consolas, Abrir(p)
  PROVE  InvDev'
<1>1. /\ pc[p] = "abrir" /\ Importando(p) /\ UNCHANGED <<prestamosBD, aperturas, sobras>>
      /\ pendientes[p] = << >>
      /\ pendientes \in [Consolas -> Seq(FilasDeLibros \cup Linea \cup Piezas)]
      /\ avisos \subseteq avisos'
      /\ pc'[Servidor] = pc[Servidor] /\ orden'[Servidor] = orden[Servidor] /\ UNCHANGED prestamosCSV
  BY ServidorQuieto DEF Abrir, Importando, Base, Importacion, bd, csv
<1>2. CASE /\ pendientes' = [pendientes EXCEPT ![p] = Lineas(tabla[p])]
           /\ Ir(p, "importar")
           /\ UNCHANGED <<tabla, avisos>>
  <2>1. /\ pendientes'[p] = Lineas(tabla[p]) /\ \A q \in Consolas \ {p} : pendientes'[q] = pendientes[q]
        /\ pc'[p] = "importar" /\ \A q \in Consolas \ {p} : pc'[q] = pc[q]
    BY <1>1, <1>2, Procesa, PasoDe
  <2>2. CASE tabla[p] # "prestamos"
    <3>1. SinLeer' \subseteq SinLeer
      BY <1>1, <1>2, <2>1, <2>2 DEF SinLeer, Importando
    <3>2. \A r : (PorLeer(r))' \subseteq PorLeer(r)
      BY <1>2, <2>1, <2>2 DEF PorLeer
    <3>3. QED
      BY <1>1, <3>1, <3>2, MenosPorLeer
  <2>3. CASE tabla[p] = "prestamos"
    <3>1. SinLeer' = SinLeer \ {p} /\ p \in SinLeer
      BY <1>1, <1>2, <2>1, <2>3 DEF SinLeer, Importando
    <3>2. pendientes'[p] = prestamosCSV /\ prestamosCSV \in Seq(Linea)
      BY <2>1, <2>3 DEF Lineas, Base, TypeOK
    <3>3. IsFiniteSet(SinLeer) /\ Cardinality(SinLeer) \in Nat /\ Cardinality(SinLeer) <= aperturas
      BY FS_CardinalityType DEF InvDev
    <3>4. IsFiniteSet(SinLeer') /\ Cardinality(SinLeer') = Cardinality(SinLeer) - 1
          /\ Cardinality(SinLeer') \in Nat
      BY <3>1, <3>3, FS_RemoveElement, FS_CardinalityType
    <3>5. ASSUME NEW r \in Linea
          PROVE  (Acotada(r))'
      <4> DEFINE D == {x \in {p} \X Nat :
                         x[2] < Len(prestamosCSV) /\ prestamosCSV[Len(prestamosCSV) - x[2]] = r}
      <4>1. (PorLeer(r))' = PorLeer(r) \cup D
        <5>1. ASSUME NEW x \in (PorLeer(r))' PROVE x \in PorLeer(r) \cup D
          <6>1. CASE x[1] = p
            BY <3>2, <5>1, <6>1 DEF PorLeer
          <6>2. CASE x[1] # p
            BY <1>2, <2>1, <5>1, <6>2 DEF PorLeer
          <6>3. QED
            BY <6>1, <6>2
        <5>2. ASSUME NEW x \in PorLeer(r) PROVE x \in (PorLeer(r))'
          <6>1. x[1] # p
            <7>1. x[1] = p => x[2] < 0 /\ x[2] \in Nat
              BY <1>1, <5>2 DEF PorLeer
            <7>2. QED
              BY <7>1
          <6>2. QED
            BY <1>2, <2>1, <5>2, <6>1 DEF PorLeer
        <5>3. ASSUME NEW x \in D PROVE x \in (PorLeer(r))'
          <6>1. x \in Consolas \X Nat /\ x[1] = p
            BY <5>3
          <6>2. tabla'[x[1]] = "prestamos" /\ pendientes'[x[1]] = prestamosCSV
            BY <1>2, <2>3, <3>2, <6>1
          <6>3. x[2] < Len(prestamosCSV) /\ prestamosCSV[Len(prestamosCSV) - x[2]] = r
            BY <5>3
          <6> HIDE DEF D
          <6>4. QED
            BY <6>1, <6>2, <6>3 DEF PorLeer
        <5>4. QED
          BY <5>1, <5>2, <5>3
      <4>2. PorLeer(r) \cap D = {}
        <5>1. SUFFICES ASSUME NEW x \in PorLeer(r), x \in D PROVE FALSE
          OBVIOUS
        <5>2. x[1] = p
          BY <5>1
        <5>3. x[2] < 0 /\ x[2] \in Nat
          BY <1>1, <5>1, <5>2 DEF PorLeer
        <5>4. QED
          BY <5>3
      <4>3. IsFiniteSet(D) /\ Cardinality(D) = Cuantas(prestamosCSV, r)
        <5>1. D = DesdeElFinal(p, prestamosCSV, r)
          BY DEF DesdeElFinal
        <5>2. PICK s \in Seq(Linea) : s = prestamosCSV
          BY <3>2
        <5>3. /\ IsFiniteSet(DesdeElFinal(p, s, r))
              /\ Cardinality(DesdeElFinal(p, s, r)) = Cuantas(s, r)
          BY CuantasDesdeElFinal
        <5> HIDE DEF D
        <5>4. QED
          BY <5>1, <5>2, <5>3
      <4> HIDE DEF D
      <4> DEFINE a == Cuantas(prestamosBD, r)
                 b == Cardinality(PorLeer(r))
                 d == Cardinality((PorLeer(r))')
                 f == Cardinality(SinLeer)
                 c == Cuantas(prestamosCSV, r)
                 v == Veces
                 e == EnVuelo(r)
                 s == sobras[r]
      <4>4. IsFiniteSet(PorLeer(r)) /\ a + b + f * c <= v * c + e + s
        BY <3>5 DEF InvDev, Acotada
      <4>5. IsFiniteSet((PorLeer(r))') /\ d = b + c
        <5>1. IsFiniteSet(PorLeer(r) \cup D)
              /\ Cardinality(PorLeer(r) \cup D) = Cardinality(PorLeer(r)) + Cardinality(D)
                                                  - Cardinality(PorLeer(r) \cap D)
          BY <4>3, <4>4, FS_Union
        <5>2. Cardinality(PorLeer(r) \cap D) = 0
          BY <4>2, FS_EmptySet
        <5>3. Cardinality(PorLeer(r)) \in Nat /\ Cardinality(D) \in Nat
          BY <4>3, <4>4, FS_CardinalityType
        <5>4. QED
          BY <4>1, <4>3, <5>1, <5>2, <5>3
      <4>6. a \in Nat /\ b \in Nat /\ f \in Nat /\ c \in Nat /\ v \in Nat /\ e \in Nat /\ s \in Nat
        BY <3>3, <3>5, <4>4, SonNumeros
      <4>7. Veces' = v /\ (EnVuelo(r))' = e
        BY <1>1, <1>2 DEF Veces, EnVuelo
      <4>8. Cardinality(SinLeer') = f - 1
        BY <3>4
      <4> HIDE DEF a, b, d, f, c, v, e, s
      <4>9. (f - 1) * c = f * c - c /\ v * c \in Nat /\ f * c \in Nat
        BY <4>6
      <4>10. a + d + (f - 1) * c <= v * c + e + s
        BY <4>4, <4>5, <4>6, <4>9
      <4>11. QED
        BY <1>1, <4>5, <4>7, <4>8, <4>10 DEF Acotada, a, b, d, f, c, v, e, s
    <3>6. Cardinality(SinLeer') <= aperturas'
      BY <1>1, <3>3, <3>4 DEF Base, TypeOK
    <3>7. QED
      BY <3>4, <3>5, <3>6 DEF InvDev
  <2>4. QED
    BY <2>2, <2>3
<1>3. CASE Siguiente(p) /\ UNCHANGED pendientes
  <2>1. /\ \A q \in Consolas \ {p} : tabla'[q] = tabla[q] /\ pc'[q] = pc[q]
        /\ \/ tabla[p] = "libros" /\ tabla'[p] = "historial" /\ pc'[p] = "abrir"
           \/ tabla[p] = "historial" /\ tabla'[p] = "prestamos" /\ pc'[p] = "abrir"
           \/ tabla[p] = "prestamos" /\ tabla'[p] = "ninguna" /\ pc'[p] = "menu"
    BY <1>1, <1>3, SiguienteDe
  <2>2. SinLeer' \subseteq SinLeer
    <3>1. SUFFICES ASSUME NEW q \in SinLeer' PROVE q \in SinLeer
      OBVIOUS
    <3>2. CASE q = p
      BY <1>1, <2>1, <3>1, <3>2 DEF SinLeer, Importando
    <3>3. CASE q # p
      BY <2>1, <3>1, <3>3 DEF SinLeer, Importando
    <3>4. QED
      BY <3>2, <3>3
  <2>3. ASSUME NEW r PROVE (PorLeer(r))' \subseteq PorLeer(r)
    <3>1. SUFFICES ASSUME NEW x \in (PorLeer(r))' PROVE x \in PorLeer(r)
      OBVIOUS
    <3>2. x[1] # p
      <4>1. x[1] = p => x[2] < 0 /\ x[2] \in Nat
        BY <1>1, <1>3, <3>1 DEF PorLeer
      <4>2. QED
        BY <4>1
    <3>3. QED
      BY <1>3, <2>1, <3>1, <3>2 DEF PorLeer
  <2>4. QED
    BY <1>1, <2>2, <2>3, MenosPorLeer
<1>4. QED
  BY <1>2, <1>3 DEF Abrir

LEMMA ImportarDev ==
  ASSUME Base, Base', InvDev, NEW p \in Consolas, Importar(p)
  PROVE  InvDev'
<1>1. /\ pc[p] = "importar" /\ Importando(p)
      /\ UNCHANGED <<pc, tabla, aperturas, sobras>>
      /\ \A q \in Consolas \ {p} : pendientes'[q] = pendientes[q]
      /\ avisos \subseteq avisos'
      /\ pc'[Servidor] = pc[Servidor] /\ orden'[Servidor] = orden[Servidor] /\ UNCHANGED prestamosCSV
  BY ImportarDe, ServidorQuieto DEF csv
<1>2. SinLeer' = SinLeer
  BY <1>1 DEF SinLeer, Importando
<1>3. CASE tabla[p] # "prestamos"
  <2>1. UNCHANGED prestamosBD
    BY <1>3, ImportarDe DEF Inserta, bd
  <2>2. \A r : (PorLeer(r))' = PorLeer(r)
    BY <1>1, <1>3 DEF PorLeer
  <2>3. QED
    BY <1>1, <1>2, <2>1, <2>2, MenosPorLeer
<1>4. CASE tabla[p] = "prestamos"
  <2> DEFINE l == pendientes[p]
             m == pendientes'[p]
  <2>1. /\ Trozo(l) = l[1] /\ Len(l) \in Nat /\ Len(l) >= 1 /\ Len(m) = Len(l) - 1
        /\ \A k \in 1 .. Len(l) - 1 : m[k] = l[k + 1]
        /\ l[1] \in Linea
    BY <1>4, ColaDe
  <2> HIDE DEF l, m
  <2>2. ASSUME NEW r
        PROVE  (PorLeer(r))' = IF l[1] = r THEN PorLeer(r) \ {<<p, Len(l) - 1>>} ELSE PorLeer(r)
    <3>1. ASSUME NEW n \in Nat
          PROVE  n < Len(m) /\ m[Len(m) - n] = r <=> n < Len(l) - 1 /\ l[Len(l) - n] = r
      <4>1. CASE n < Len(l) - 1
        <5>1. Len(m) - n \in 1 .. Len(l) - 1 /\ Len(m) - n + 1 = Len(l) - n
          BY <2>1, <4>1
        <5>2. m[Len(m) - n] = l[Len(l) - n]
          BY <2>1, <5>1
        <5>3. QED
          BY <2>1, <4>1, <5>2
      <4>2. CASE ~ (n < Len(l) - 1)
        BY <2>1, <4>2
      <4>3. QED
        BY <4>1, <4>2
    <3>2. ASSUME NEW n \in Nat
          PROVE  n < Len(l) - 1 /\ l[Len(l) - n] = r
                   <=> n < Len(l) /\ l[Len(l) - n] = r /\ ~ (l[1] = r /\ n = Len(l) - 1)
      <4>1. CASE n = Len(l) - 1
        BY <2>1, <4>1
      <4>2. CASE n # Len(l) - 1
        <5>1. n < Len(l) - 1 <=> n < Len(l)
          BY <2>1, <4>2
        <5>2. QED
          BY <4>2, <5>1
      <4>3. QED
        BY <4>1, <4>2
    <3>3. ASSUME NEW x \in Consolas \X Nat
          PROVE  x \in (PorLeer(r))' <=> x \in PorLeer(r) /\ ~ (l[1] = r /\ x = <<p, Len(l) - 1>>)
      <4>1. x = <<x[1], x[2]>> /\ x[2] \in Nat
        BY <3>3
      <4>2. CASE x[1] = p
        <5>1. x \in (PorLeer(r))' <=> x[2] < Len(m) /\ m[Len(m) - x[2]] = r
          BY <1>1, <1>4, <3>3, <4>2 DEF PorLeer, m
        <5>2. x \in PorLeer(r) <=> x[2] < Len(l) /\ l[Len(l) - x[2]] = r
          BY <1>1, <1>4, <3>3, <4>2 DEF PorLeer, l
        <5>3. x = <<p, Len(l) - 1>> <=> x[2] = Len(l) - 1
          BY <4>1, <4>2
        <5>4. QED
          BY <3>1, <3>2, <4>1, <5>1, <5>2, <5>3
      <4>3. CASE x[1] # p
        <5>1. x # <<p, Len(l) - 1>>
          BY <4>3
        <5>2. x \in (PorLeer(r))' <=> x \in PorLeer(r)
          BY <1>1, <3>3, <4>3 DEF PorLeer
        <5>3. QED
          BY <5>1, <5>2
      <4>4. QED
        BY <4>2, <4>3
    <3>4. PorLeer(r) \subseteq Consolas \X Nat /\ (PorLeer(r))' \subseteq Consolas \X Nat
      BY DEF PorLeer
    <3>5. QED
      BY <3>3, <3>4
  <2>3. CASE UNCHANGED prestamosBD
    BY <1>1, <1>2, <2>2, <2>3, MenosPorLeer
  <2>4. CASE prestamosBD' = Append(prestamosBD, l[1]) /\ avisos' = avisos
    <3>1. SUFFICES ASSUME NEW r \in Linea PROVE (Acotada(r))'
      BY <1>1, <1>2 DEF InvDev
    <3>2. Cuantas(prestamosBD', r) = Cuantas(prestamosBD, r) + (IF l[1] = r THEN 1 ELSE 0)
      BY <2>1, <2>4, CuantasAlFinal DEF Base, TypeOK
    <3> DEFINE a == Cuantas(prestamosBD, r)
               b == Cardinality(PorLeer(r))
               d == Cardinality((PorLeer(r))')
               g == Cardinality(SinLeer) * Cuantas(prestamosCSV, r)
               v == Veces * Cuantas(prestamosCSV, r)
               e == EnVuelo(r)
               s == sobras[r]
    <3>3. IsFiniteSet(SinLeer) /\ IsFiniteSet(PorLeer(r)) /\ a + b + g <= v + e + s
      BY <3>1 DEF InvDev, Acotada
    <3>4. a \in Nat /\ b \in Nat /\ g \in Nat /\ v \in Nat /\ e \in Nat /\ s \in Nat
      BY <3>1, <3>3, SonNumeros
    <3>5. IsFiniteSet((PorLeer(r))') /\ d = IF l[1] = r THEN b - 1 ELSE b
      <4>1. CASE l[1] = r
        <5>1. <<p, Len(l) - 1>> \in PorLeer(r)
          <6>1. Len(l) - 1 \in Nat /\ Len(l) - 1 < Len(l) /\ Len(l) - (Len(l) - 1) = 1
            BY <2>1
          <6>2. QED
            BY <1>4, <4>1, <6>1 DEF PorLeer, l
        <5>2. QED
          BY <2>2, <3>3, <4>1, <5>1, FS_RemoveElement
      <4>2. CASE l[1] # r
        BY <2>2, <3>3, <4>2
      <4>3. QED
        BY <4>1, <4>2
    <3>6. Veces' * Cuantas(prestamosCSV', r) = v /\ (EnVuelo(r))' = e
          /\ Cardinality(SinLeer') * Cuantas(prestamosCSV', r) = g
      BY <1>1, <1>2, <2>4 DEF Veces, EnVuelo
    <3> HIDE DEF a, b, d, g, v, e, s
    <3>7. Cuantas(prestamosBD', r) + d + g <= v + e + s
      <4>1. Cuantas(prestamosBD', r) = a + (IF l[1] = r THEN 1 ELSE 0)
        BY <3>2 DEF a
      <4>2. QED
        BY <3>3, <3>4, <3>5, <4>1
    <3>8. sobras'[r] = s
      BY <1>1 DEF s
    <3>9. QED
      BY <3>5, <3>6, <3>7, <3>8 DEF Acotada, d
  <2>5. QED
    <3>1. \/ UNCHANGED prestamosBD
          \/ prestamosBD' = Append(prestamosBD, l[1]) /\ avisos' = avisos
      BY <1>4, <2>1 DEF Importar, Inserta, bd, l
    <3>2. QED
      BY <2>3, <2>4, <3>1
<1>5. QED
  BY <1>3, <1>4

LEMMA InitDev == Init => InvDev
<1> SUFFICES ASSUME Init
             PROVE  InvDev
  OBVIOUS
<1>1. Base
  BY InitBase
<1>2. \A p \in Consolas : pc[p] = "cerrado" /\ tabla[p] = "ninguna"
  BY Procesa DEF Init
<1>3. SinLeer = {}
  BY <1>2 DEF SinLeer, Importando
<1>4. IsFiniteSet(SinLeer) /\ Cardinality(SinLeer) = 0 /\ aperturas = 0
  BY <1>3, FS_EmptySet DEF Init
<1>5. ASSUME NEW r \in Linea
      PROVE  Acotada(r)
  <2>1. PorLeer(r) = {}
    BY <1>2 DEF PorLeer
  <2>2. IsFiniteSet(PorLeer(r)) /\ Cardinality(PorLeer(r)) = 0
    BY <2>1, FS_EmptySet
  <2>3. Cuantas(prestamosBD, r) = 0
    <3>1. Sitios(<< >>, r) = {}
      BY DEF Sitios
    <3>2. << >> \in Seq(Linea)
      OBVIOUS
    <3>3. prestamosBD = << >>
      BY DEF Init
    <3>4. QED
      BY <3>1, <3>2, <3>3, CuantasEn, FS_EmptySet
  <2>4. /\ EnVuelo(r) \in Nat /\ sobras[r] \in Nat /\ Cuantas(prestamosCSV, r) \in Nat
        /\ Veces * Cuantas(prestamosCSV, r) \in Nat
    BY <1>1, <1>4, <2>2, SonNumeros
  <2>5. 0 + 0 + 0 * Cuantas(prestamosCSV, r) <= Veces * Cuantas(prestamosCSV,
       r) + EnVuelo(r) + sobras[r]
    BY <2>4
  <2>6. QED
    BY <1>4, <2>2, <2>3, <2>5 DEF Acotada
<1>6. QED
  BY <1>4, <1>5 DEF InvDev

LEMMA NextDev == Inv /\ Inv' /\ InvDev /\ [Next]_vars => InvDev'
<1> SUFFICES ASSUME Base, Presente, SinAbrir, Base', InvDev, [Next]_vars
             PROVE  InvDev'
  BY DEF Inv
<1>1. CASE PasoServidor
  BY <1>1, ServidorDev
<1>2. ASSUME NEW p \in Procesos, PasoCSV(p) \/ Interrumpe(p)
      PROVE  InvDev'
  BY <1>2, CsvDev, CsvPrestamoDev DEF PasoCSV
<1>3. ASSUME NEW p \in Consolas,
             Sondear(p) \/ CerrarSonda(p) \/ (Borrar(p) /\ EnUso)
             \/ Salir(p) \/ \E u \in Usuarios, i \in ISBNs : MenuPrincipal(p, u, i)
      PROVE  InvDev'
  <2>1. SinLeer' = SinLeer /\ \A r : (PorLeer(r))' = PorLeer(r)
    BY <1>3, AjenoPorLeer DEF Ajeno
  <2>2. UNCHANGED <<aperturas, avisos, prestamosCSV, prestamosBD, sobras>>
    BY <1>3 DEF Sondear, CerrarSonda, Borrar, Salir, MenuPrincipal, historia, csv, bd
  <2>3. /\ \E paso : Ir(p, paso)
        /\ orden' = orden \/ \E o : orden' = [orden EXCEPT ![p] = o]
    BY <1>3 DEF Sondear, CerrarSonda, Borrar, Salir, MenuPrincipal, Empieza
  <2>4. pc'[Servidor] = pc[Servidor] /\ orden'[Servidor] = orden[Servidor]
    BY <2>3, PasoDe, Procesa DEF Base, TypeOK
  <2>5. \A r \in Linea : Cuantas(prestamosBD', r) + EnVuelo(r) + sobras[r]
                           <= Cuantas(prestamosBD, r) + (EnVuelo(r))' + sobras'[r]
    BY <2>2, <2>4, VueloDeOtro
  <2>6. QED
    BY <2>1, <2>2, <2>5, DevolucionesIguales
<1>4. ASSUME NEW p \in Consolas, Vaciado(p) \/ Inicializar(p) \/ Abrir(p) \/ Importar(p)
                                 \/ Importado(p) \/ Muere(p)
      PROVE  InvDev'
  BY <1>4, VaciadoDev, InicializarDev, AbrirDev, ImportarDev, ImportadoDev, MuereDev
<1>5. CASE UNCHANGED vars
  BY <1>5 DEF vars, bd, csv, importa, historia, InvDev, Acotada, SinLeer, PorLeer, Importando,
       EnVuelo, Veces,
              Cuantas
<1>6. QED
  BY <1>1, <1>2, <1>3, <1>4, <1>5 DEF Next, Inicio, Vaciado

LEMMA SiempreDev == Spec => []InvDev
<1>1. QED
  BY InitDev, NextDev, SiempreInv, PTL DEF Spec

(***************************************************************************)
(* How many rows DELETE FROM Prestamos may find for one line of the file:  *)
(* no import adds more than the lines it read, and no loan more than one   *)
(* (DevolucionesAcotadas).                                                 *)
(***************************************************************************)
THEOREM DevolucionesContadas == Spec => []DevolucionesAcotadas
<1>1. Inv /\ InvDev => DevolucionesAcotadas
  <2>1. SUFFICES ASSUME Base, InvDev, NEW r \in Linea
                 PROVE  Cuantas(prestamosBD, r)
                          <= Veces * Cuantas(prestamosCSV, r) + EnVuelo(r) + sobras[r]
    BY DEF Inv, DevolucionesAcotadas
  <2>2. /\ IsFiniteSet(SinLeer) /\ IsFiniteSet(PorLeer(r))
        /\ Cuantas(prestamosBD,
             r) + Cardinality(PorLeer(r)) + Cardinality(SinLeer) * Cuantas(prestamosCSV, r)
             <= Veces * Cuantas(prestamosCSV, r) + EnVuelo(r) + sobras[r]
    BY <2>1 DEF InvDev, Acotada
  <2>3. \A a, b, c, v, e, s \in Nat : a + b + c <= v + e + s => a <= v + e + s
    OBVIOUS
  <2>4. QED
    BY <2>1, <2>2, <2>3, SonNumeros
<1>2. QED
  BY <1>1, SiempreInv, SiempreDev, PTL

-----------------------------------------------------------------------------
(* Where the row of an active loan is *)

Par(l) == [usuario |-> l.usuario, isbn |-> l.isbn]

Hay(s, r) == \E k \in 1 .. Len(s) : s[k] = r

(***************************************************************************)
(* A line of the history, in the file, in the hands of an import or about  *)
(* to be written, has its line in prestamos.csv, which no one takes away.  *)
(* What an import has in local is such a line unless it is put together    *)
(* from two pieces: the second piece follows the first of a long line,     *)
(* whose book is in local.                                                 *)
(***************************************************************************)
HistorialRespaldado == \A k \in 1 .. Len(historialCSV) : Hay(prestamosCSV, Par(historialCSV[k]))

LeidasRespaldadas ==
  \A p \in Consolas :
    /\ tabla[p] = "historial" =>
         \A k \in 1 .. Len(pendientes[p]) :
           pendientes[p][k] \in LineaHistorial => Hay(prestamosCSV, Par(pendientes[p][k]))
    /\ ~ Compuesta(local[p]) => Hay(prestamosCSV, Par(local[p]))

RestoTrasSuLinea ==
  \A p \in Consolas :
    tabla[p] = "historial" =>
      \A k \in 1 .. Len(pendientes[p]) :
        pendientes[p][k] \in Restos => k = 1 /\ local[p].isbn \in Largos

EscritasRespaldadas ==
  \A q \in Procesos : pc[q] = "csv_historial" => Hay(prestamosCSV, orden[q])

Respaldo == HistorialRespaldado /\ LeidasRespaldadas /\ RestoTrasSuLinea /\ EscritasRespaldadas

\* A start will still insert it.
Viene(r) ==
  \/ SinLeer # {} /\ Hay(prestamosCSV, r)
  \/ \E p \in Consolas : tabla[p] = "prestamos" /\ Hay(pendientes[p], r)

DondeEsta(r) ==
  \/ Hay(prestamosBD, r)
  \/ Devolviendo(r.usuario, r.isbn)
  \/ <<r.usuario, r.isbn>> \in cortadas
  \/ Viene(r)

SinCortes == avisos \cap {"corte", "muerto"} = {}

\* The server writes the row before the history.
Anotada == pc[Servidor] = "anotar" => Hay(prestamosBD, orden[Servidor])

\* A row that is not put together is of a user and a book.
Enteras == \A h \in historialBD : ~ Compuesta(h) => Par(h) \in Linea

Activas ==
  SinCortes =>
    \A h \in historialBD :
      h.estado = "activo" /\ ~ Compuesta(h) /\ Par(h) \in Linea => DondeEsta(Par(h))

LEMMA HayAlFinal ==
  ASSUME NEW S, NEW s \in Seq(S), NEW e \in S
  PROVE  Hay(Append(s, e), e) /\ \A r : Hay(s, r) => Hay(Append(s, e), r)
<1>1. /\ Append(s, e) \in Seq(S) /\ Len(Append(s, e)) = Len(s) + 1
      /\ Append(s, e)[Len(s) + 1] = e
      /\ \A k \in 1 .. Len(s) : Append(s, e)[k] = s[k]
  BY AlFinal
<1>2. Len(s) \in Nat
  OBVIOUS
<1>3. Len(s) + 1 \in 1 .. Len(Append(s, e)) /\ \A k \in 1 .. Len(s) : k \in 1 .. Len(Append(s, e))
  BY <1>1, <1>2
<1>4. QED
  BY <1>1, <1>3 DEF Hay

\* A pair is an order or a line of prestamos.csv.
LEMMA ParDe ==
  /\ \A o \in Linea : Par(o) = o /\ o.usuario \in Usuarios /\ o.isbn \in ISBNs
  /\ \A l : Par(l) \in Linea <=> l.usuario \in Usuarios /\ l.isbn \in ISBNs
  /\ \A l \in LineaHistorial : Par(l) \in Linea
  /\ \A e : Compuesta(Residuo(e))
<1>1. \A o \in Linea : Par(o) = o /\ o.usuario \in Usuarios /\ o.isbn \in ISBNs
  BY DEF Par, Linea
<1>2. \A l : Par(l) \in Linea <=> l.usuario \in Usuarios /\ l.isbn \in ISBNs
  BY DEF Par, Linea
<1>3. \A l \in LineaHistorial : Par(l) \in Linea
  BY <1>2, CamposDeLinea
<1>4. \A e : Compuesta(Residuo(e))
  BY ConstantesOK DEF Residuo, Compuesta
<1>5. QED
  BY <1>1, <1>2, <1>3, <1>4

LEMMA EsDe ==
  ASSUME NEW o \in Linea, NEW h
  PROVE  De(h, o.usuario, o.isbn) <=> Par(h) = o
<1>1. o = [usuario |-> o.usuario, isbn |-> o.isbn]
  BY DEF Linea
<1>2. QED
  BY <1>1 DEF De, Par

(***************************************************************************)
(* A step that writes no line of the history and gives none to an import   *)
(* leaves them backed: prestamos.csv only grows.                           *)
(***************************************************************************)
LEMMA RespaldoSigue ==
  ASSUME Base, Respaldo,
         \A r : Hay(prestamosCSV, r) => Hay(prestamosCSV', r),
         UNCHANGED <<tabla, pendientes, local>>,
         NEW q \in Procesos, NEW paso, Ir(q, paso),
         paso = "csv_historial" => Hay(prestamosCSV', orden'[q]),
         \A x \in Procesos \ {q} : orden'[x] = orden[x],
         \A k \in 1 .. Len(historialCSV') :
           \/ Hay(prestamosCSV', Par(historialCSV'[k]))
           \/ k \in 1 .. Len(historialCSV) /\ Par(historialCSV'[k]) = Par(historialCSV[k])
  PROVE  Respaldo'
<1>1. HistorialRespaldado'
  BY DEF Respaldo, HistorialRespaldado
<1>2. LeidasRespaldadas' /\ RestoTrasSuLinea'
  BY DEF Respaldo, LeidasRespaldadas, RestoTrasSuLinea, Compuesta
<1>3. EscritasRespaldadas'
  BY PasoDe DEF Respaldo, EscritasRespaldadas
<1>4. QED
  BY <1>1, <1>2, <1>3 DEF Respaldo

(***************************************************************************)
(* The user and the book of what sscanf leaves are both of the line it     *)
(* reads or both of the one before, unless the row is put together.        *)
(***************************************************************************)
LEMMA SobreSuLinea ==
  ASSUME NEW antes \in Leidos, NEW cola \in Seq(Piezas), cola # << >>,
         cola[1] \in Restos => antes.isbn \in Largos,
         ~ Compuesta(Sobre(antes, Trozo(cola)))
  PROVE  \/ ~ Compuesta(antes) /\ Par(Sobre(antes, Trozo(cola))) = Par(antes)
         \/ cola[1] \in LineaHistorial /\ Par(Sobre(antes, Trozo(cola))) = Par(cola[1])
<1> DEFINE t == Trozo(cola)
           f == Sobre(antes, t)
<1>1. Head(cola) \in Piezas /\ Head(cola) = cola[1]
  BY LaCola
<1>2. /\ f.usuario = IF "usuario" \in DOMAIN t THEN t["usuario"] ELSE antes.usuario
      /\ f.isbn = IF "isbn" \in DOMAIN t THEN t["isbn"] ELSE antes.isbn
  <2>1. DOMAIN antes = {"usuario", "isbn", "fecha", "estado"}
    BY CamposDeLeido
  <2> HIDE DEF t
  <2>2. QED
    BY <2>1 DEF Sobre
<1>3. f.isbn \in ISBNs /\ ~ (f.isbn \in Largos /\ f.usuario = Numero)
  BY DEF Compuesta
<1>4. CASE Head(cola) \in Restos
  <2>1. "estado" \notin DOMAIN Head(cola)
    BY <1>4, CamposDeResto
  <2>2. t = Head(cola)
    BY <2>1 DEF Trozo, EnDosTrozos
  <2>3. antes.isbn \in Largos
    BY <1>1, <1>4
  <2>4. /\ DOMAIN t \in {{}, {"usuario"}, {"usuario", "isbn"}}
        /\ "usuario" \in DOMAIN t => t["usuario"] = Numero
        /\ "isbn" \in DOMAIN t => t["isbn"] = "ninguno"
    BY <1>4, <2>2, CamposDeResto
  <2> HIDE DEF t, f
  <2>5. "isbn" \notin DOMAIN t
    BY <1>2, <1>3, <2>4, ConstantesOK
  <2>6. "usuario" \notin DOMAIN t
    BY <1>2, <1>3, <2>3, <2>4, <2>5
  <2>7. Par(f) = Par(antes) /\ ~ Compuesta(antes)
    BY <1>2, <1>3, <2>5, <2>6 DEF Par, Compuesta
  <2>8. QED
    BY <2>7 DEF f, t
<1>5. CASE Head(cola) \in LineaHistorial
  <2>1. /\ {"usuario", "isbn"} \subseteq DOMAIN t
        /\ t["usuario"] = Head(cola).usuario /\ t["isbn"] = Head(cola).isbn
    <3>1. CASE EnDosTrozos(Head(cola))
      <4>1. Head(cola).isbn \in Largos /\ t = Principio(Head(cola))
        BY <3>1 DEF EnDosTrozos, Trozo
      <4> HIDE DEF t
      <4>2. QED
        BY <1>5, <4>1, PrincipioDe
    <3>2. CASE ~ EnDosTrozos(Head(cola))
      <4>1. t = Head(cola)
        BY <3>2 DEF Trozo
      <4> HIDE DEF t
      <4>2. QED
        BY <1>5, <4>1, CamposDeLinea
    <3>3. QED
      BY <3>1, <3>2
  <2>2. Par(f) = Par(Head(cola))
    <3> HIDE DEF t, f
    <3>1. QED
      BY <1>2, <2>1 DEF Par
  <2>3. QED
    BY <1>1, <1>5, <2>2
<1>6. QED
  BY <1>1, <1>4, <1>5 DEF Piezas

\* A second piece is what is left of the line just read, which is a long one.
LEMMA RestoDeLarga ==
  ASSUME NEW antes \in Leidos, NEW cola \in Seq(Piezas), cola # << >>,
         \A j \in 1 .. Len(cola) : cola[j] \in Restos => j = 1,
         NEW k \in 1 .. Len(Quedan(cola)), Quedan(cola)[k] \in Restos
  PROVE  k = 1 /\ Sobre(antes, Trozo(cola)).isbn \in Largos
<1>1. /\ Head(cola) \in Piezas /\ Len(cola) \in Nat /\ Len(cola) >= 1 /\ Tail(cola) \in Seq(Piezas)
      /\ Len(Tail(cola)) = Len(cola) - 1
      /\ \A j \in 1 .. Len(cola) - 1 : Tail(cola)[j] = cola[j + 1]
  BY LaCola
<1>2. \A j \in 1 .. Len(cola) - 1 : Tail(cola)[j] \notin Restos
  <2>1. \A j \in 1 .. Len(cola) - 1 : j + 1 \in 1 .. Len(cola) /\ j + 1 # 1
    BY <1>1
  <2>2. QED
    BY <1>1, <2>1
<1>3. EnDosTrozos(Head(cola))
  <2>1. ~ EnDosTrozos(Head(cola)) => Quedan(cola) = Tail(cola)
    BY DEF Quedan
  <2>2. QED
    BY <1>1, <1>2, <2>1
<1>4. Head(cola) \in LineaHistorial /\ Head(cola).isbn \in Largos
  <2>1. "estado" \in DOMAIN Head(cola) /\ Head(cola).isbn \in Largos
    BY <1>3 DEF EnDosTrozos
  <2>2. Head(cola) \notin Restos
    BY <2>1, CamposDeResto
  <2>3. QED
    BY <1>1, <2>1, <2>2 DEF Piezas
<1>5. k = 1
  <2> DEFINE r == Resto(Head(cola))
             q == <<r>> \o Tail(cola)
  <2>1. Quedan(cola) = q
    BY <1>3 DEF Quedan
  <2> HIDE DEF r
  <2>2. Len(q) = Len(cola) /\ \A j \in 2 .. Len(cola) : q[j] = Tail(cola)[j - 1]
    BY <1>1
  <2> HIDE DEF q
  <2>3. ASSUME k # 1
        PROVE  FALSE
    <3>1. k \in 2 .. Len(cola) /\ k - 1 \in 1 .. Len(cola) - 1
      BY <1>1, <2>1, <2>2, <2>3
    <3>2. QED
      BY <1>2, <2>1, <2>2, <3>1
  <2>4. QED
    BY <2>3
<1>6. Sobre(antes, Trozo(cola)).isbn \in Largos
  <2>1. Trozo(cola) = Principio(Head(cola))
    BY <1>3 DEF Trozo
  <2>2. "isbn" \in DOMAIN Trozo(cola) /\ Trozo(cola)["isbn"] = Head(cola).isbn
    BY <1>4, <2>1, PrincipioDe
  <2>3. DOMAIN antes = {"usuario", "isbn", "fecha", "estado"}
    BY CamposDeLeido
  <2>4. Sobre(antes, Trozo(cola)).isbn = Head(cola).isbn
    BY <2>2, <2>3 DEF Sobre
  <2>5. QED
    BY <1>4, <2>4
<1>7. QED
  BY <1>5, <1>6

\* The whole lines that are left were there.
LEMMA QuedanLineas ==
  ASSUME NEW cola \in Seq(Piezas), cola # << >>,
         NEW k \in 1 .. Len(Quedan(cola)), Quedan(cola)[k] \in LineaHistorial
  PROVE  \E j \in 1 .. Len(cola) : cola[j] = Quedan(cola)[k]
<1>1. /\ Head(cola) \in Piezas /\ Len(cola) \in Nat /\ Tail(cola) \in Seq(Piezas)
      /\ Len(Tail(cola)) = Len(cola) - 1
      /\ \A j \in 1 .. Len(cola) - 1 : Tail(cola)[j] = cola[j + 1]
  BY LaCola
<1>2. CASE EnDosTrozos(Head(cola))
  <2>1. Head(cola) \in LineaHistorial
    <3>1. "estado" \in DOMAIN Head(cola)
      BY <1>2 DEF EnDosTrozos
    <3>2. Head(cola) \notin Restos
      BY <3>1, CamposDeResto
    <3>3. QED
      BY <1>1, <3>2 DEF Piezas
  <2> DEFINE r == Resto(Head(cola))
             q == <<r>> \o Tail(cola)
  <2>2. r \in Restos
    BY <1>2, <2>1, RestoDe DEF EnDosTrozos
  <2>3. r \notin LineaHistorial
    BY <2>2, CamposDeResto, CamposDeLinea
  <2>4. Quedan(cola) = q
    BY <1>2 DEF Quedan
  <2> HIDE DEF r
  <2>5. /\ Len(q) = Len(cola) /\ q[1] = r
        /\ \A j \in 2 .. Len(cola) : q[j] = Tail(cola)[j - 1]
    BY <1>1
  <2> HIDE DEF q
  <2>6. k \in 2 .. Len(cola)
    BY <1>1, <2>3, <2>4, <2>5
  <2>7. k - 1 \in 1 .. Len(cola) - 1 /\ k - 1 + 1 = k
    BY <1>1, <2>6
  <2>8. cola[k] = Quedan(cola)[k] /\ k \in 1 .. Len(cola)
    BY <1>1, <2>4, <2>5, <2>6, <2>7
  <2>9. QED
    BY <2>8
<1>3. CASE ~ EnDosTrozos(Head(cola))
  <2>1. Quedan(cola) = Tail(cola)
    BY <1>3 DEF Quedan
  <2>2. k \in 1 .. Len(cola) - 1 /\ k + 1 \in 1 .. Len(cola)
    BY <1>1, <2>1
  <2>3. QED
    BY <1>1, <2>1, <2>2
<1>4. QED
  BY <1>2, <1>3

\* Of the files only those of a loan or a return change, and none gets shorter.
LEMMA RespaldoAjeno ==
  ASSUME Base, Respaldo, Ajeno
  PROVE  Respaldo'
<1>1. UNCHANGED <<tabla, pendientes, local>>
  BY PasoAjeno
<1>2. ASSUME NEW q \in Procesos, CsvPrestamo(q)
      PROVE  Respaldo'
  <2>1. /\ pc[q] = "csv_prestamo" /\ prestamosCSV' = Append(prestamosCSV, orden[q])
        /\ Ir(q, "csv_historial") /\ UNCHANGED <<orden, historialCSV>>
    BY <1>2 DEF CsvPrestamo
  <2>2. orden[q] \in Linea /\ prestamosCSV \in Seq(Linea)
    BY <2>1 DEF Base, Marcha, ConOrden, TypeOK
  <2>3. Hay(prestamosCSV', orden[q]) /\ \A r : Hay(prestamosCSV, r) => Hay(prestamosCSV', r)
    BY <2>1, <2>2, HayAlFinal
  <2>4. QED
    BY <1>1, <2>1, <2>3, RespaldoSigue DEF Respaldo, HistorialRespaldado
<1>3. ASSUME NEW q \in Procesos, CsvHistorial(q)
      PROVE  Respaldo'
  <2> DEFINE l == [usuario |-> orden[q].usuario, isbn |-> orden[q].isbn, fecha |-> Hoy,
       estado |-> "activo"]
  <2>1. /\ pc[q] = "csv_historial" /\ historialCSV' = Append(historialCSV, l)
        /\ Termina(q) /\ UNCHANGED prestamosCSV
    BY <1>3 DEF CsvHistorial
  <2>2. Hay(prestamosCSV, orden[q]) /\ orden[q] \in Linea
    BY <2>1 DEF Respaldo, EscritasRespaldadas, Base, Marcha, ConOrden
  <2>3. Par(l) = orden[q] /\ l \in LineaHistorial
    <3>1. l \in LineaHistorial
      BY <2>2 DEF Linea, LineaHistorial
    <3>2. Par(l) = Par(orden[q])
      BY DEF Par
    <3>3. QED
      BY <2>2, <3>1, <3>2, ParDe
  <2> HIDE DEF l
  <2>4. historialCSV \in Seq(LineaHistorial)
    BY DEF Base, TypeOK
  <2>5. /\ historialCSV'[Len(historialCSV) + 1] = l /\ Len(historialCSV') = Len(historialCSV) + 1
        /\ \A k \in 1 .. Len(historialCSV) : historialCSV'[k] = historialCSV[k]
    BY <2>1, <2>3, <2>4, AlFinal
  <2>6. \A k \in 1 .. Len(historialCSV') : k \in 1 .. Len(historialCSV) \/ k = Len(historialCSV) + 1
    <3>1. Len(historialCSV) \in Nat
      BY <2>4
    <3>2. QED
      BY <2>5, <3>1
  <2>7. \A k \in 1 .. Len(historialCSV') :
          \/ Hay(prestamosCSV', Par(historialCSV'[k]))
          \/ k \in 1 .. Len(historialCSV) /\ Par(historialCSV'[k]) = Par(historialCSV[k])
    BY <2>1, <2>2, <2>3, <2>5, <2>6
  <2>8. /\ Ir(q, Reposo(q)) /\ Reposo(q) # "csv_historial"
        /\ \A x \in Procesos \ {q} : orden'[x] = orden[x]
    BY <2>1, FinDe DEF Termina, Reposo
  <2>9. QED
    BY <1>1, <2>1, <2>7, <2>8, RespaldoSigue
<1>4. ASSUME NEW q \in Procesos, CsvCierre(q)
      PROVE  Respaldo'
  <2>1. /\ pc[q] = "csv_cierre" /\ Termina(q) /\ UNCHANGED prestamosCSV
        /\ \/ UNCHANGED historialCSV
           \/ historialCSV' = [k \in DOMAIN historialCSV |-> Cerrada(historialCSV[k], orden[q])]
    BY <1>4 DEF CsvCierre
  <2>2. \A r, o : Par(Cerrada(r, o)) = Par(r)
    BY DEF Cerrada, Par
  <2>3. historialCSV \in Seq(LineaHistorial)
    BY DEF Base, TypeOK
  <2>4. \A k \in 1 .. Len(historialCSV') :
          k \in 1 .. Len(historialCSV) /\ Par(historialCSV'[k]) = Par(historialCSV[k])
    BY <2>1, <2>2, <2>3
  <2>5. /\ Ir(q, Reposo(q)) /\ Reposo(q) # "csv_historial"
        /\ \A x \in Procesos \ {q} : orden'[x] = orden[x]
    BY <2>1, FinDe DEF Termina, Reposo
  <2>6. QED
    BY <1>1, <2>1, <2>4, <2>5, RespaldoSigue
<1>5. ASSUME ~ \E q \in Procesos : CsvPrestamo(q) \/ CsvHistorial(q) \/ CsvCierre(q)
      PROVE  Respaldo'
  <2>1. UNCHANGED <<prestamosCSV, historialCSV>>
    BY <1>5 DEF Ajeno, PasoServidor, Pedir, Devolver, Restar, Insertar, Anotar, BorrarFila, Sumar,
         Cerrar,
       Contar, Enviar, Escribe, PasoCSV, CsvPedir, CsvDevolver, Interrumpe, Sondear,
       CerrarSonda, Borrar, Salir, MenuPrincipal, csv
  <2>2. PICK q \in Procesos :
          /\ \/ Termina(q)
             \/ \E paso \in Pasos \ {"csv_historial"} : Ir(q, paso)
          /\ orden' = orden \/ \E o : orden' = [orden EXCEPT ![q] = o]
    <3>1. CASE PasoServidor
      <4>1. /\ Termina(Servidor) \/ \E paso \in Pasos \ {"csv_historial"} : Ir(Servidor, paso)
            /\ orden' = orden \/ \E o : orden' = [orden EXCEPT ![Servidor] = o]
        BY <3>1 DEF PasoServidor, Pedir, Devolver, Restar, Insertar, Anotar, BorrarFila, Sumar, Cerrar,
           Contar, Enviar, Escribe, Empieza, Termina, Pasos
      <4>2. QED
        BY <4>1, Procesa
    <3>2. ASSUME NEW q \in Procesos, PasoCSV(q) \/ Interrumpe(q)
          PROVE  /\ Termina(q) \/ \E paso \in Pasos \ {"csv_historial"} : Ir(q, paso)
                 /\ orden' = orden \/ \E o : orden' = [orden EXCEPT ![q] = o]
      BY <1>5, <3>2 DEF PasoCSV, CsvPedir, CsvDevolver, Interrumpe, Termina, Pasos
    <3>3. ASSUME NEW q \in Consolas,
                 Sondear(q) \/ CerrarSonda(q) \/ (Borrar(q) /\ EnUso)
                 \/ Salir(q) \/ \E u \in Usuarios, i \in ISBNs : MenuPrincipal(q, u, i)
          PROVE  /\ \E paso \in Pasos \ {"csv_historial"} : Ir(q, paso)
                 /\ orden' = orden \/ \E o : orden' = [orden EXCEPT ![q] = o]
      BY <3>3 DEF Sondear, CerrarSonda, Borrar, Salir, MenuPrincipal, Empieza, Pasos
    <3>4. QED
      BY <3>1, <3>2, <3>3, Procesa DEF Ajeno
  <2>3. PICK paso : Ir(q, paso) /\ paso # "csv_historial"
    BY <2>2 DEF Termina, Reposo
  <2>4. \A x \in Procesos \ {q} : orden'[x] = orden[x]
    BY <2>2 DEF Base, TypeOK
  <2>5. QED
    BY <1>1, <2>1, <2>3, <2>4, RespaldoSigue
<1>6. QED
  BY <1>2, <1>3, <1>4, <1>5

\* A step of a start: what p has in its hands must be backed.
LEMMA RespaldoDeUno ==
  ASSUME Base, Respaldo, NEW p \in Consolas, UNCHANGED <<prestamosCSV, historialCSV>>,
         \A q \in Procesos \ {p} : pc'[q] = pc[q] /\ orden'[q] = orden[q],
         pc'[p] # "csv_historial",
         \A q \in Consolas \ {p} : /\ tabla'[q] = tabla[q] /\ pendientes'[q] = pendientes[q]
                                   /\ local'[q] = local[q],
         tabla'[p] = "historial" =>
           \A k \in 1 .. Len(pendientes'[p]) :
             pendientes'[p][k] \in LineaHistorial => Hay(prestamosCSV, Par(pendientes'[p][k])),
         tabla'[p] = "historial" =>
           \A k \in 1 .. Len(pendientes'[p]) :
             pendientes'[p][k] \in Restos => k = 1 /\ local'[p].isbn \in Largos,
         ~ Compuesta(local'[p]) => Hay(prestamosCSV, Par(local'[p]))
  PROVE  Respaldo'
<1>1. HistorialRespaldado'
  BY DEF Respaldo, HistorialRespaldado
<1>2. LeidasRespaldadas' /\ RestoTrasSuLinea'
  BY DEF Respaldo, LeidasRespaldadas, RestoTrasSuLinea, Compuesta
<1>3. EscritasRespaldadas'
  BY DEF Respaldo, EscritasRespaldadas
<1>4. QED
  BY <1>1, <1>2, <1>3 DEF Respaldo

\* What the steps of a start change besides the database.
LEMMA InicioDe ==
  ASSUME Base, NEW p \in Consolas, Vaciado(p) \/ Inicializar(p) \/ Abrir(p) \/ Importar(p)
                                   \/ Importado(p) \/ Muere(p)
  PROVE  /\ \A q \in Procesos \ {p} : pc'[q] = pc[q] /\ orden'[q] = orden[q]
         /\ pc'[p] \in {"borrado", "abrir", "importar", "menu", "cerrado"}
         /\ \A q \in Consolas \ {p} : /\ tabla'[q] = tabla[q] /\ pendientes'[q] = pendientes[q]
                                      /\ local'[q] = local[q]
         /\ UNCHANGED csv
<1>1. UNCHANGED csv
  BY ServidorQuieto
<1>2. \A q \in Procesos \ {p} : orden'[q] = orden[q]
  <2>1. orden' = orden \/ \E o : orden' = [orden EXCEPT ![p] = o]
    BY DEF Vaciado, Borrar, Inicializar, Abrir, Importar, Importado, Muere
  <2>2. QED
    BY <2>1 DEF Base, TypeOK
<1>3. /\ \A q \in Procesos \ {p} : pc'[q] = pc[q]
      /\ pc'[p] \in {"borrado", "abrir", "importar", "menu", "cerrado"}
  <2>1. \/ UNCHANGED pc /\ pc[p] = "importar"
        \/ \E paso \in {"borrado", "abrir", "importar", "menu", "cerrado"} : Ir(p, paso)
    BY DEF Vaciado, Borrar, Inicializar, Abrir, Importar, Importado, Muere, Ir, Siguiente
  <2>2. QED
    BY <2>1, PasoDe, Procesa
<1>4. /\ tabla \in [Consolas -> {"libros", "historial", "prestamos", "ninguna"}]
      /\ local \in [Consolas -> Leidos]
      /\ pendientes \in [Consolas -> Seq(FilasDeLibros \cup Linea \cup Piezas)]
  BY TiposPorPartes DEF Base, TipoImporta, Importacion
<1>5. /\ tabla' = tabla \/ \E t : tabla' = [tabla EXCEPT ![p] = t]
      /\ pendientes' = pendientes \/ \E c : pendientes' = [pendientes EXCEPT ![p] = c]
      /\ local' = local \/ \E l : local' = [local EXCEPT ![p] = l]
  BY DEF Vaciado, Borrar, Inicializar, Abrir, Importar, Importado, Muere, Siguiente, importa
<1>6. QED
  BY <1>1, <1>2, <1>3, <1>4, <1>5

LEMMA RespaldoInicio ==
  ASSUME Base, Respaldo, NEW p \in Consolas,
         Vaciado(p) \/ Inicializar(p) \/ Abrir(p) \/ Importar(p) \/ Importado(p) \/ Muere(p)
  PROVE  Respaldo'
<1>1. /\ tabla \in [Consolas -> {"libros", "historial", "prestamos", "ninguna"}]
      /\ local \in [Consolas -> Leidos]
      /\ pendientes \in [Consolas -> Seq(FilasDeLibros \cup Linea \cup Piezas)]
  BY TiposPorPartes DEF Base, TipoImporta, Importacion
<1>2. UNCHANGED <<prestamosCSV, historialCSV>> /\ pc'[p] # "csv_historial"
  BY InicioDe DEF csv
<1>3. /\ \A q \in Procesos \ {p} : pc'[q] = pc[q] /\ orden'[q] = orden[q]
      /\ \A q \in Consolas \ {p} : /\ tabla'[q] = tabla[q] /\ pendientes'[q] = pendientes[q]
                                   /\ local'[q] = local[q]
  BY InicioDe
<1>4. ~ Compuesta(local'[p]) => Hay(prestamosCSV, Par(local'[p]))
  <2>1. CASE local'[p] = local[p]
    BY <2>1 DEF Respaldo, LeidasRespaldadas
  <2>2. CASE \E e : local'[p] = Residuo(e)
    BY <2>2, ParDe
  <2>3. CASE Importar(p) /\ tabla[p] = "historial" /\ local'[p] = Sobre(local[p], Trozo(pendientes[p]))
    <3>1. pendientes[p] \in Seq(Piezas) /\ pendientes[p] # << >> /\ local[p] \in Leidos
      BY <1>1, <2>3 DEF Importar, Base, Importacion
    <3>2. 1 \in 1 .. Len(pendientes[p])
      BY <3>1
    <3>3. ~ Compuesta(local'[p]) =>
            \/ ~ Compuesta(local[p]) /\ Par(local'[p]) = Par(local[p])
            \/ pendientes[p][1] \in LineaHistorial /\ Par(local'[p]) = Par(pendientes[p][1])
      <4>1. pendientes[p][1] \in Restos => local[p].isbn \in Largos
        BY <2>3, <3>2 DEF Respaldo, RestoTrasSuLinea
      <4>2. QED
        BY <2>3, <3>1, <4>1, SobreSuLinea
    <3>4. QED
      BY <2>3, <3>2, <3>3 DEF Respaldo, LeidasRespaldadas
  <2>4. QED
    <3>1. \/ local' = local
          \/ \E e : local' = [local EXCEPT ![p] = Residuo(e)]
          \/ /\ Importar(p) /\ tabla[p] = "historial"
             /\ local' = [local EXCEPT ![p] = Sobre(local[p], Trozo(pendientes[p]))]
      BY DEF Vaciado, Borrar, Inicializar, Abrir, Importar, Importado, Muere, Siguiente, importa
    <3>2. QED
      BY <1>1, <2>1, <2>2, <2>3, <3>1
<1>5. ASSUME tabla'[p] = "historial", NEW k \in 1 .. Len(pendientes'[p]),
             pendientes'[p][k] \in LineaHistorial
      PROVE  Hay(prestamosCSV, Par(pendientes'[p][k]))
  <2>1. CASE pendientes'[p] = << >>
    BY <1>5, <2>1
  <2>2. CASE Abrir(p) /\ tabla[p] = "historial" /\ pendientes'[p] = Lineas("historial")
    BY <1>5, <2>2 DEF Lineas, Respaldo, HistorialRespaldado
  <2>3. CASE Importar(p) /\ tabla[p] = "historial"
    <3>1. pendientes[p] \in Seq(Piezas) /\ pendientes[p] # << >> /\ pendientes'[p] = Quedan(pendientes[p])
      BY <1>1, <2>3 DEF Importar, Base, Importacion
    <3>2. \E j \in 1 .. Len(pendientes[p]) : pendientes[p][j] = pendientes'[p][k]
      BY <1>5, <3>1, QuedanLineas
    <3>3. QED
      BY <1>5, <2>3, <3>2 DEF Respaldo, LeidasRespaldadas
  <2>4. QED
    <3>1. \/ pendientes'[p] = << >>
          \/ Abrir(p) /\ tabla' = tabla /\ pendientes'[p] = Lineas(tabla[p])
          \/ Importar(p) /\ tabla' = tabla
      <4>1. pc[p] # "importar" => pendientes[p] = << >>
        BY DEF Base, Importacion
      <4>2. QED
        BY <1>1, <4>1 DEF Vaciado, Borrar, Inicializar, Abrir, Importar, Importado, Muere,
             Siguiente, importa
    <3>2. QED
      BY <1>5, <2>1, <2>2, <2>3, <3>1
<1>6. ASSUME tabla'[p] = "historial", NEW k \in 1 .. Len(pendientes'[p]), pendientes'[p][k] \in Restos
      PROVE  k = 1 /\ local'[p].isbn \in Largos
  <2>1. ASSUME NEW s \in Seq(LineaHistorial), NEW n \in 1 .. Len(s)
        PROVE  s[n] \notin Restos
    <3>1. s[n] \in LineaHistorial
      OBVIOUS
    <3>2. QED
      BY <3>1, CamposDeResto, CamposDeLinea
  <2>2. CASE pendientes'[p] = << >>
    BY <1>6, <2>2
  <2>3. CASE Abrir(p) /\ tabla[p] = "historial" /\ pendientes'[p] = Lineas("historial")
    <3>1. pendientes'[p] = historialCSV /\ historialCSV \in Seq(LineaHistorial)
      BY <2>3 DEF Lineas, Base, TypeOK
    <3>2. QED
      BY <1>6, <2>1, <3>1
  <2>4. CASE Importar(p) /\ tabla[p] = "historial"
    <3>1. /\ pendientes[p] \in Seq(Piezas) /\ pendientes[p] # << >> /\ local[p] \in Leidos
          /\ pendientes'[p] = Quedan(pendientes[p])
          /\ local'[p] = Sobre(local[p], Trozo(pendientes[p]))
      BY <1>1, <2>4 DEF Importar, Base, Importacion
    <3>2. \A n \in 1 .. Len(pendientes[p]) : pendientes[p][n] \in Restos => n = 1
      BY <2>4 DEF Respaldo, RestoTrasSuLinea
    <3>3. QED
      BY <1>6, <3>1, <3>2, RestoDeLarga
  <2>5. QED
    <3>1. \/ pendientes'[p] = << >>
          \/ Abrir(p) /\ tabla' = tabla /\ pendientes'[p] = Lineas(tabla[p])
          \/ Importar(p) /\ tabla' = tabla
      <4>1. pc[p] # "importar" => pendientes[p] = << >>
        BY DEF Base, Importacion
      <4>2. QED
        BY <1>1, <4>1 DEF Vaciado, Borrar, Inicializar, Abrir, Importar, Importado, Muere,
             Siguiente, importa
    <3>2. QED
      BY <1>6, <2>2, <2>3, <2>4, <3>1
<1>7. QED
  BY <1>2, <1>3, <1>4, <1>5, <1>6, RespaldoDeUno

\* A deletion takes one row, and leaves the others.
LEMMA QuedanLasOtras ==
  ASSUME NEW S, NEW s \in Seq(S), NEW e, \E i \in 1 .. Len(s) : s[i] = e,
         NEW r, r # e, Hay(s, r)
  PROVE  Hay(RemoveFirst(s, e), r)
<1> DEFINE t == RemoveFirst(s, e)
<1>1. PICK k \in 1 .. Len(s) :
        /\ s[k] = e /\ t \in Seq(S) /\ Len(t) = Len(s) - 1
        /\ \A j \in 1 .. Len(s) - 1 : t[j] = IF j < k THEN s[j] ELSE s[j + 1]
  BY QuitaUna
<1> HIDE DEF t
<1>2. PICK j \in 1 .. Len(s) : s[j] = r
  BY DEF Hay
<1>3. Len(s) \in Nat /\ k \in Nat /\ j \in Nat /\ j # k
  BY <1>1, <1>2
<1>4. CASE j < k
  <2>1. j \in 1 .. Len(s) - 1
    BY <1>3, <1>4
  <2>2. t[j] = r /\ j \in 1 .. Len(t)
    BY <1>1, <1>2, <1>4, <2>1
  <2>3. QED
    BY <2>2 DEF Hay, t
<1>5. CASE j > k
  <2>1. j - 1 \in 1 .. Len(s) - 1 /\ ~ (j - 1 < k) /\ j - 1 + 1 = j
    BY <1>3, <1>5
  <2>2. t[j - 1] = r /\ j - 1 \in 1 .. Len(t)
    BY <1>1, <1>2, <2>1
  <2>3. QED
    BY <2>2 DEF Hay, t
<1>6. QED
  BY <1>3, <1>4, <1>5

\* An active row of the history, where its row of Prestamos is.
Activa(r) == \E h \in historialBD : h.estado = "activo" /\ ~ Compuesta(h) /\ Par(h) = r

\* Nothing new to look for, and what is looked for is still somewhere.
LEMMA ActivasSiguen ==
  ASSUME Activas, avisos \subseteq avisos',
         \A r \in Linea : (Activa(r))' => Activa(r) \/ (DondeEsta(r))',
         \A r \in Linea : Activa(r) /\ (Activa(r))' /\ DondeEsta(r) => (DondeEsta(r))'
  PROVE  Activas'
<1>1. SUFFICES ASSUME SinCortes', NEW h \in historialBD', h.estado = "activo", ~ Compuesta(h),
                      Par(h) \in Linea
               PROVE  (DondeEsta(Par(h)))'
  BY DEF Activas, Par, Compuesta
<1>2. SinCortes
  BY <1>1 DEF SinCortes
<1>3. (Activa(Par(h)))'
  BY <1>1 DEF Activa, Compuesta, Par
<1>4. CASE Activa(Par(h))
  <2>1. DondeEsta(Par(h))
    BY <1>1, <1>2, <1>4 DEF Activas, Activa
  <2>2. QED
    BY <1>1, <1>3, <1>4, <2>1
<1>5. QED
  BY <1>1, <1>3, <1>4

\* What a start will insert, it will insert whatever the others do.
LEMMA VieneAjeno ==
  ASSUME Base, Ajeno, NEW r, Viene(r)
  PROVE  (Viene(r))'
<1>1. SinLeer' = SinLeer /\ UNCHANGED <<tabla, pendientes>>
  BY PasoAjeno, AjenoPorLeer
<1>2. Hay(prestamosCSV, r) => Hay(prestamosCSV', r)
  <2>1. UNCHANGED prestamosCSV \/ \E q \in Procesos : CsvPrestamo(q)
    BY DEF Ajeno, PasoServidor, Pedir, Devolver, Restar, Insertar, Anotar, BorrarFila, Sumar, Cerrar,
       Contar, Enviar, Escribe, PasoCSV, CsvPedir, CsvHistorial, CsvCierre, CsvDevolver, Interrumpe,
       Sondear, CerrarSonda, Borrar, Salir, MenuPrincipal, csv
  <2>2. ASSUME NEW q \in Procesos, CsvPrestamo(q)
        PROVE  Hay(prestamosCSV, r) => Hay(prestamosCSV', r)
    <3>1. prestamosCSV' = Append(prestamosCSV, orden[q]) /\ orden[q] \in Linea
      BY <2>2, OrdenDe DEF CsvPrestamo, ConOrden
    <3>2. prestamosCSV \in Seq(Linea)
      BY DEF Base, TypeOK
    <3>3. QED
      BY <3>1, <3>2, HayAlFinal
  <2>3. QED
    BY <2>1, <2>2
<1>3. QED
  BY <1>1, <1>2 DEF Viene

\* The statements of the server: it writes Prestamos first, and deletes there first.
LEMMA ServidorActivas ==
  ASSUME Base, Presente, Activas, Anotada, PasoServidor
  PROVE  Activas' /\ Anotada'
<1>1. avisos \subseteq avisos' /\ cortadas' = cortadas
  BY DEF PasoServidor, Pedir, Devolver, Restar, Insertar, Anotar, BorrarFila, Sumar, Cerrar,
         Contar, Enviar, Escribe, historia
<1>2. \A r : Viene(r) => (Viene(r))'
  BY VieneAjeno DEF Ajeno
<1>3. pc \in [Procesos -> Pasos] /\ orden \in [Procesos -> Orden] /\ prestamosBD \in Seq(Linea)
      /\ Servidor \in Procesos
  BY Procesa DEF Base, TypeOK
<1>4. \A r \in Linea : Devolviendo(r.usuario, r.isbn) <=>
                         pc[Servidor] \in {"sumar", "cerrar"} /\ orden[Servidor] = r
  <2>1. pc[Servidor] \in {"sumar", "cerrar"} => orden[Servidor] \in Linea
    BY OrdenDe, Procesa DEF ConOrden
  <2>2. QED
    BY <2>1, EsDe, ParDe DEF Devolviendo
<1>5. ASSUME NEW u \in Usuarios, NEW i \in ISBNs, Pedir(u, i) \/ Devolver(u, i)
      PROVE  Activas' /\ Anotada'
  <2>1. UNCHANGED bd /\ pc[Servidor] = "esperando" /\ pc'[Servidor] \in {"restar", "borrar"}
    BY <1>3, <1>5 DEF Pedir, Devolver, Empieza, Ir
  <2>2. \A r \in Linea : DondeEsta(r) => (DondeEsta(r))'
    BY <1>1, <1>2, <1>4, <2>1 DEF DondeEsta, Hay, bd
  <2>3. \A r \in Linea : (Activa(r))' => Activa(r)
    BY <2>1 DEF Activa, bd
  <2>4. QED
    BY <1>1, <2>1, <2>2, <2>3, ActivasSiguen DEF Anotada
<1>6. CASE Restar \/ Contar \/ Enviar
  <2>1. UNCHANGED <<prestamosBD, historialBD>> /\ pc[Servidor] \in {"restar", "esperando", "enviar"}
        /\ pc'[Servidor] \in {"insertar", "enviar", "esperando"}
    BY <1>3, <1>6 DEF Restar, Contar, Enviar, Escribe, Empieza, Termina, Reposo, Ir, bd
  <2>2. \A r \in Linea : DondeEsta(r) => (DondeEsta(r))'
    BY <1>1, <1>2, <1>4, <2>1 DEF DondeEsta, Hay
  <2>3. \A r \in Linea : (Activa(r))' => Activa(r)
    BY <2>1 DEF Activa
  <2>4. QED
    BY <1>1, <2>1, <2>2, <2>3, ActivasSiguen DEF Anotada
<1>7. CASE Insertar
  <2>1. prestamosBD' = Append(prestamosBD, orden[Servidor]) /\ UNCHANGED <<historialBD, orden>>
        /\ pc[Servidor] = "insertar" /\ pc'[Servidor] = "anotar" /\ orden[Servidor] \in Linea
    BY <1>3, <1>7, OrdenDe DEF Insertar, Escribe, Ir, ConOrden
  <2>2. Hay(prestamosBD', orden[Servidor]) /\ \A r : Hay(prestamosBD, r) => Hay(prestamosBD', r)
    BY <1>3, <2>1, HayAlFinal
  <2>3. \A r \in Linea : DondeEsta(r) => (DondeEsta(r))'
    BY <1>1, <1>2, <1>4, <2>1, <2>2 DEF DondeEsta
  <2>4. \A r \in Linea : (Activa(r))' => Activa(r)
    BY <2>1 DEF Activa
  <2>5. QED
    BY <1>1, <2>1, <2>2, <2>3, <2>4, ActivasSiguen DEF Anotada
<1>8. CASE Anotar
  <2> DEFINE fila == [usuario |-> orden[Servidor].usuario, isbn |-> orden[Servidor].isbn,
                      fecha |-> Hoy, estado |-> "activo"]
  <2>1. /\ pc[Servidor] = "anotar" /\ pc'[Servidor] \in {"csv_pedir", "esperando"}
        /\ UNCHANGED prestamosBD
        /\ historialBD' \subseteq historialBD \cup {fila}
    BY <1>3, <1>8 DEF Anotar, Escribe, Ir, Termina, Reposo
  <2>2. Hay(prestamosBD, orden[Servidor]) /\ orden[Servidor] \in Linea
    BY <2>1, OrdenDe, Procesa DEF Anotada, ConOrden
  <2>3. Par(fila) = orden[Servidor]
    BY <2>2, ParDe DEF Par
  <2> HIDE DEF fila
  <2>4. \A r \in Linea : DondeEsta(r) => (DondeEsta(r))'
    BY <1>1, <1>2, <1>4, <2>1 DEF DondeEsta
  <2>5. \A r \in Linea : (Activa(r))' => Activa(r) \/ (DondeEsta(r))'
    BY <2>1, <2>2, <2>3 DEF Activa, DondeEsta
  <2>6. QED
    BY <1>1, <2>1, <2>4, <2>5, ActivasSiguen DEF Anotada
<1>9. CASE BorrarFila
  <2>1. /\ pc[Servidor] = "borrar" /\ pc'[Servidor] = "sumar" /\ UNCHANGED <<historialBD, orden>>
        /\ prestamosBD' = RemoveFirst(prestamosBD, orden[Servidor])
        /\ orden[Servidor] \in Linea
        /\ \E k \in 1 .. Len(prestamosBD) : prestamosBD[k] = orden[Servidor]
    BY <1>3, <1>9, OrdenDe DEF BorrarFila, Escribe, Ir, ConOrden, Presente
  <2>2. ASSUME NEW r \in Linea, r # orden[Servidor], Hay(prestamosBD, r)
        PROVE  Hay(prestamosBD', r)
    BY <1>3, <2>1, <2>2, QuedanLasOtras
  <2>3. (Devolviendo(orden[Servidor].usuario, orden[Servidor].isbn))'
    BY <2>1, EsDe, ParDe DEF Devolviendo
  <2>4. \A r \in Linea : DondeEsta(r) => (DondeEsta(r))'
    BY <1>1, <1>2, <1>4, <2>1, <2>2, <2>3 DEF DondeEsta
  <2>5. \A r \in Linea : (Activa(r))' => Activa(r)
    BY <2>1 DEF Activa
  <2>6. QED
    BY <1>1, <2>1, <2>4, <2>5, ActivasSiguen DEF Anotada
<1>10. CASE Sumar
  <2>1. /\ pc[Servidor] = "sumar" /\ pc'[Servidor] = "cerrar"
        /\ UNCHANGED <<prestamosBD, historialBD, orden>>
    BY <1>3, <1>10 DEF Sumar, Escribe, Ir
  <2>2. \A r : Devolviendo(r.usuario, r.isbn) => (Devolviendo(r.usuario, r.isbn))'
    BY <2>1 DEF Devolviendo
  <2>3. \A r \in Linea : DondeEsta(r) => (DondeEsta(r))'
    BY <1>1, <1>2, <2>1, <2>2 DEF DondeEsta
  <2>4. \A r \in Linea : (Activa(r))' => Activa(r)
    BY <2>1 DEF Activa
  <2>5. QED
    BY <1>1, <2>1, <2>3, <2>4, ActivasSiguen DEF Anotada
<1>11. CASE Cerrar
  <2>1. /\ pc[Servidor] = "cerrar" /\ pc'[Servidor] = "csv_devolver" /\ UNCHANGED prestamosBD
        /\ historialBD' = {Cerrada(h, orden[Servidor]) : h \in historialBD}
        /\ orden[Servidor] \in Linea
    BY <1>3, <1>11, OrdenDe DEF Cerrar, Escribe, Ir, ConOrden
  <2>2. ASSUME NEW r \in Linea, (Activa(r))'
        PROVE  Activa(r) /\ r # orden[Servidor]
    <3>1. PICK h \in historialBD : /\ Cerrada(h, orden[Servidor]).estado = "activo"
                                   /\ ~ Compuesta(Cerrada(h, orden[Servidor]))
                                   /\ Par(Cerrada(h, orden[Servidor])) = r
      BY <2>1, <2>2 DEF Activa, Compuesta
    <3>2. h \in Leidos
      BY DEF Base, TypeOK
    <3>3. Cerrada(h, orden[Servidor]) = h /\ h.estado = "activo"
          /\ ~ De(h, orden[Servidor].usuario, orden[Servidor].isbn)
      BY <3>1, <3>2, CamposDeLeido DEF Cerrada
    <3>4. QED
      BY <2>1, <3>1, <3>3, EsDe DEF Activa
  <2>3. \A r \in Linea : (Activa(r))' /\ DondeEsta(r) => (DondeEsta(r))'
    BY <1>1, <1>2, <1>4, <2>1, <2>2 DEF DondeEsta
  <2>4. QED
    BY <1>1, <2>1, <2>2, <2>3, ActivasSiguen DEF Anotada
<1>12. QED
  BY <1>5, <1>6, <1>7, <1>8, <1>9, <1>10, <1>11 DEF PasoServidor

\* A step that does not touch the tables, nor what is under way in the server.
LEMMA ActivasAjenas ==
  ASSUME Base, Activas, Anotada, Ajeno, UNCHANGED bd, cortadas \subseteq cortadas',
         \/ pc'[Servidor] = pc[Servidor] /\ orden'[Servidor] = orden[Servidor]
         \/ /\ pc'[Servidor] # "anotar"
            /\ \A r \in Linea : Devolviendo(r.usuario, r.isbn) => <<r.usuario, r.isbn>> \in cortadas'
  PROVE  Activas' /\ Anotada'
<1>1. avisos \subseteq avisos' /\ UNCHANGED <<prestamosBD, historialBD>>
  BY PasoAjeno DEF bd
<1>2. \A r : Viene(r) => (Viene(r))'
  BY VieneAjeno
<1>3. \A r \in Linea : Devolviendo(r.usuario, r.isbn) =>
                         (Devolviendo(r.usuario, r.isbn))' \/ <<r.usuario, r.isbn>> \in cortadas'
  BY DEF Devolviendo
<1>4. \A r \in Linea : DondeEsta(r) => (DondeEsta(r))'
  BY <1>1, <1>2, <1>3 DEF DondeEsta
<1>5. \A r \in Linea : (Activa(r))' => Activa(r)
  BY <1>1 DEF Activa
<1>6. QED
  BY <1>1, <1>4, <1>5, ActivasSiguen DEF Anotada

LEMMA AjenoActivas ==
  ASSUME Base, Presente, Activas, Anotada, Ajeno
  PROVE  Activas' /\ Anotada'
<1>1. CASE PasoServidor
  BY <1>1, ServidorActivas
<1>2. ASSUME NEW q \in Procesos, PasoCSV(q)
      PROVE  Activas' /\ Anotada'
  <2>1. /\ pc[q] \in {"csv_pedir", "csv_prestamo", "csv_historial", "csv_devolver", "csv_cierre"}
        /\ \/ Termina(q)
           \/ UNCHANGED orden /\ \E paso \in Pasos \ {"anotar"} : Ir(q, paso)
        /\ UNCHANGED bd /\ cortadas' = cortadas
    BY <1>2 DEF PasoCSV, CsvPedir, CsvPrestamo, CsvHistorial, CsvDevolver, CsvCierre, Pasos, historia
  <2>2. CASE q = Servidor
    <3>1. pc'[Servidor] # "anotar"
      BY <2>1, <2>2, PasoDe, FinDe
    <3>2. \A u, i : ~ Devolviendo(u, i)
      BY <2>1, <2>2 DEF Devolviendo
    <3>3. QED
      BY <1>2, <2>1, <3>1, <3>2, ActivasAjenas DEF Ajeno
  <2>3. CASE q # Servidor
    <3>1. pc'[Servidor] = pc[Servidor] /\ orden'[Servidor] = orden[Servidor]
      BY <2>1, <2>3, PasoDe, FinDe
    <3>2. QED
      BY <1>2, <2>1, <3>1, ActivasAjenas DEF Ajeno
  <2>4. QED
    BY <2>2, <2>3
<1>3. ASSUME NEW q \in Procesos, Interrumpe(q)
      PROVE  Activas' /\ Anotada'
  <2>1. Termina(q) /\ UNCHANGED bd /\ cortadas \subseteq cortadas'
    BY <1>3 DEF Interrumpe
  <2>2. CASE q = Servidor
    <3>1. pc'[Servidor] = "esperando"
      BY <2>1, <2>2, FinDe
    <3>2. ASSUME NEW r \in Linea, Devolviendo(r.usuario, r.isbn)
          PROVE  <<r.usuario, r.isbn>> \in cortadas'
      BY <1>3, <2>2, <3>2 DEF Interrumpe, Devolviendo, De
    <3>3. QED
      BY <1>3, <2>1, <3>1, <3>2, ActivasAjenas DEF Ajeno
  <2>3. CASE q # Servidor
    <3>1. pc'[Servidor] = pc[Servidor] /\ orden'[Servidor] = orden[Servidor]
      BY <2>1, <2>3, FinDe
    <3>2. QED
      BY <1>3, <2>1, <3>1, ActivasAjenas DEF Ajeno
  <2>4. QED
    BY <2>2, <2>3
<1>4. ASSUME NEW p \in Consolas,
             Sondear(p) \/ CerrarSonda(p) \/ (Borrar(p) /\ EnUso)
             \/ Salir(p) \/ \E u \in Usuarios, i \in ISBNs : MenuPrincipal(p, u, i)
      PROVE  Activas' /\ Anotada'
  <2>1. UNCHANGED <<bd, cortadas>>
    BY <1>4 DEF Sondear, CerrarSonda, Borrar, Salir, MenuPrincipal, historia
  <2>2. /\ \E paso : Ir(p, paso)
        /\ orden' = orden \/ \E o : orden' = [orden EXCEPT ![p] = o]
    BY <1>4 DEF Sondear, CerrarSonda, Borrar, Salir, MenuPrincipal, Empieza
  <2>3. pc'[Servidor] = pc[Servidor] /\ orden'[Servidor] = orden[Servidor]
    BY <2>2, PasoDe, Procesa DEF Base, TypeOK
  <2>4. QED
    BY <1>4, <2>1, <2>3, ActivasAjenas DEF Ajeno
<1>5. QED
  BY <1>1, <1>2, <1>3, <1>4 DEF Ajeno

\* A step of a start that keeps the rows, and what will come.
LEMMA InicioSigue ==
  ASSUME Base, Activas, Anotada, NEW p \in Consolas,
         Vaciado(p) \/ Inicializar(p) \/ Abrir(p) \/ Importar(p) \/ Importado(p) \/ Muere(p),
         avisos \subseteq avisos', cortadas' = cortadas,
         \A r : Hay(prestamosBD, r) => Hay(prestamosBD', r),
         \A r : Viene(r) => (Viene(r))' \/ Hay(prestamosBD', r),
         \A r \in Linea : (Activa(r))' => Activa(r) \/ (DondeEsta(r))'
  PROVE  Activas' /\ Anotada'
<1>1. pc'[Servidor] = pc[Servidor] /\ orden'[Servidor] = orden[Servidor]
  BY ServidorQuieto
<1>2. \A u, i : Devolviendo(u, i) => (Devolviendo(u, i))'
  BY <1>1 DEF Devolviendo
<1>3. \A r \in Linea : DondeEsta(r) => (DondeEsta(r))'
  BY <1>2 DEF DondeEsta
<1>4. QED
  BY <1>1, <1>3, ActivasSiguen DEF Anotada

LEMMA VaciadoActivas ==
  ASSUME Base, NEW p \in Consolas, Vaciado(p)
  PROVE  Activas' /\ Anotada'
<1>1. historialBD' = {} /\ pc'[Servidor] = "esperando"
  BY VaciadoDe DEF Vacia
<1>2. QED
  BY <1>1 DEF Activas, Anotada

LEMMA InicializarActivas ==
  ASSUME Base, Activas, Anotada, NEW p \in Consolas, Inicializar(p)
  PROVE  Activas' /\ Anotada'
<1>1. /\ tabla' = [tabla EXCEPT ![p] = "libros"] /\ UNCHANGED pendientes
      /\ tabla \in [Consolas -> {"libros", "historial", "prestamos", "ninguna"}]
      /\ tabla[p] = "ninguna" /\ pc'[p] = "abrir" /\ \A q \in Procesos \ {p} : pc'[q] = pc[q]
      /\ UNCHANGED <<prestamosCSV, prestamosBD, historialBD, cortadas>> /\ avisos \subseteq avisos'
  BY InicializarDe DEF csv, bd
<1>2. p \in SinLeer'
  BY <1>1 DEF SinLeer, Importando
<1>3. \A q \in Consolas : tabla[q] = "prestamos" => tabla'[q] = "prestamos"
  BY <1>1
<1>4. \A r : Viene(r) => (Viene(r))'
  BY <1>1, <1>2, <1>3 DEF Viene
<1>5. \A r \in Linea : (Activa(r))' => Activa(r)
  BY <1>1 DEF Activa
<1>6. QED
  BY <1>1, <1>4, <1>5, InicioSigue

LEMMA AbrirActivas ==
  ASSUME Base, Activas, Anotada, NEW p \in Consolas, Abrir(p)
  PROVE  Activas' /\ Anotada'
<1>1. /\ pc[p] = "abrir" /\ pendientes[p] = << >> /\ avisos \subseteq avisos'
      /\ pendientes \in [Consolas -> Seq(FilasDeLibros \cup Linea \cup Piezas)]
      /\ UNCHANGED <<prestamosBD, historialBD, cortadas, prestamosCSV>>
  BY ServidorQuieto DEF Abrir, Base, Importacion, bd, csv
<1>2. \A r \in Linea : (Activa(r))' => Activa(r)
  BY <1>1 DEF Activa
<1>3. CASE "corte" \in avisos'
  <2>1. ~ SinCortes'
    BY <1>3 DEF SinCortes
  <2>2. pc'[Servidor] = pc[Servidor] /\ orden'[Servidor] = orden[Servidor]
    BY ServidorQuieto
  <2>3. QED
    BY <1>1, <2>1, <2>2 DEF Activas, Anotada
<1>4. CASE /\ pendientes' = [pendientes EXCEPT ![p] = Lineas(tabla[p])]
           /\ Ir(p, "importar")
           /\ UNCHANGED tabla
  <2>1. /\ pendientes'[p] = Lineas(tabla[p]) /\ \A q \in Consolas \ {p} : pendientes'[q] = pendientes[q]
        /\ pc'[p] = "importar" /\ \A q \in Consolas \ {p} : pc'[q] = pc[q]
    BY <1>1, <1>4, Procesa, PasoDe
  <2>2. \A r : ~ Hay(pendientes[p], r)
    BY <1>1 DEF Hay
  <2>3. \A r, q : q \in Consolas /\ tabla[q] = "prestamos" /\ Hay(pendientes[q], r) => (Viene(r))'
    BY <1>4, <2>1, <2>2 DEF Viene
  <2>4. \A q \in SinLeer : (q = p /\ tabla[p] = "prestamos") \/ q \in SinLeer'
    BY <1>1, <1>4, <2>1 DEF SinLeer, Importando
  <2>5. tabla[p] = "prestamos" => pendientes'[p] = prestamosCSV
    BY <2>1 DEF Lineas
  <2>6. \A r : Viene(r) => (Viene(r))'
    BY <1>1, <1>4, <2>3, <2>4, <2>5 DEF Viene
  <2>7. QED
    BY <1>1, <1>2, <2>6, InicioSigue
<1>5. QED
  BY <1>3, <1>4 DEF Abrir

LEMMA ImportadoActivas ==
  ASSUME Base, Activas, Anotada, NEW p \in Consolas, Importado(p)
  PROVE  Activas' /\ Anotada'
<1>1. /\ pc[p] = "importar" /\ Importando(p) /\ pendientes[p] = << >> /\ Siguiente(p)
      /\ UNCHANGED <<pendientes, prestamosBD, historialBD, cortadas, avisos, prestamosCSV>>
  BY DEF Importado, Importando, bd, csv, historia
<1>2. /\ \A q \in Consolas \ {p} : tabla'[q] = tabla[q] /\ pc'[q] = pc[q]
      /\ \/ tabla[p] = "libros" /\ tabla'[p] = "historial" /\ pc'[p] = "abrir"
         \/ tabla[p] = "historial" /\ tabla'[p] = "prestamos" /\ pc'[p] = "abrir"
         \/ tabla[p] = "prestamos" /\ tabla'[p] = "ninguna" /\ pc'[p] = "menu"
  BY <1>1, SiguienteDe
<1>3. \A q \in SinLeer : q \in SinLeer'
  BY <1>1, <1>2 DEF SinLeer, Importando
<1>4. \A r : ~ Hay(pendientes[p], r)
  BY <1>1 DEF Hay
<1>5. \A r : Viene(r) => (Viene(r))'
  BY <1>1, <1>2, <1>3, <1>4 DEF Viene
<1>6. \A r \in Linea : (Activa(r))' => Activa(r)
  BY <1>1 DEF Activa
<1>7. QED
  BY <1>1, <1>5, <1>6, InicioSigue

LEMMA MuereActivas ==
  ASSUME Base, Activas, Anotada, NEW p \in Consolas, Muere(p)
  PROVE  Activas' /\ Anotada'
<1>1. /\ Ir(p, "cerrado") /\ tabla' = [tabla EXCEPT ![p] = "ninguna"]
      /\ pendientes' = [pendientes EXCEPT ![p] = << >>]
      /\ avisos' = (IF Importando(p) THEN avisos \cup {"corte"} ELSE avisos)
      /\ UNCHANGED <<prestamosBD, historialBD, cortadas, prestamosCSV>>
  BY DEF Muere, Ir, bd, csv
<1>2. \A r \in Linea : (Activa(r))' => Activa(r)
  BY <1>1 DEF Activa
<1>3. CASE Importando(p)
  <2>1. ~ SinCortes'
    BY <1>1, <1>3 DEF SinCortes
  <2>2. pc'[Servidor] = pc[Servidor] /\ orden'[Servidor] = orden[Servidor]
    BY ServidorQuieto
  <2>3. QED
    BY <1>1, <2>1, <2>2 DEF Activas, Anotada
<1>4. CASE ~ Importando(p)
  <2>1. tabla[p] = "ninguna" /\ \A q \in Consolas \ {p} : pc'[q] = pc[q]
    BY <1>1, <1>4, PasoDe, Procesa DEF Base, Importacion
  <2>2. /\ tabla \in [Consolas -> {"libros", "historial", "prestamos", "ninguna"}]
        /\ pendientes \in [Consolas -> Seq(FilasDeLibros \cup Linea \cup Piezas)]
    BY TiposPorPartes DEF Base, TipoImporta, Importacion
  <2>3. \A q \in Consolas \ {p} : tabla'[q] = tabla[q] /\ pendientes'[q] = pendientes[q]
    BY <1>1, <2>2
  <2>4. \A q \in SinLeer : q \in SinLeer'
    BY <1>4, <2>1, <2>3 DEF SinLeer, Importando
  <2>5. \A r : Viene(r) => (Viene(r))'
    BY <1>1, <2>1, <2>3, <2>4 DEF Viene
  <2>6. QED
    BY <1>1, <1>2, <1>4, <2>5, InicioSigue
<1>5. QED
  BY <1>3, <1>4

\* A line of the history comes before its line of prestamos.csv is read.
LEMMA ImportarActivas ==
  ASSUME Base, Respaldo', Activas, Anotada, NEW p \in Consolas, Importar(p)
  PROVE  Activas' /\ Anotada'
<1>1. /\ pc[p] = "importar" /\ Importando(p)
      /\ UNCHANGED <<pc, tabla, cortadas, prestamosCSV>>
      /\ \A q \in Consolas \ {p} : pendientes'[q] = pendientes[q]
      /\ avisos \subseteq avisos'
  BY ImportarDe DEF csv
<1>2. SinLeer' = SinLeer
  BY <1>1 DEF SinLeer, Importando
<1>3. CASE "corte" \in avisos' \/ "muerto" \in avisos'
  <2>1. ~ SinCortes'
    BY <1>3 DEF SinCortes
  <2>2. pc'[Servidor] = pc[Servidor] /\ orden'[Servidor] = orden[Servidor]
    BY ServidorQuieto
  <2>3. Hay(prestamosBD, orden[Servidor]) => Hay(prestamosBD', orden[Servidor])
    <3>1. \/ UNCHANGED prestamosBD
          \/ prestamosBD' = Append(prestamosBD, Trozo(pendientes[p])) /\ tabla[p] = "prestamos"
      BY ImportarDe DEF Inserta, bd
    <3>2. tabla[p] = "prestamos" => Trozo(pendientes[p]) \in Linea
      BY ColaDe
    <3>3. prestamosBD \in Seq(Linea)
      BY DEF Base, TypeOK
    <3>4. CASE UNCHANGED prestamosBD
      BY <3>4 DEF Hay
    <3>5. CASE prestamosBD' = Append(prestamosBD, Trozo(pendientes[p])) /\ tabla[p] = "prestamos"
      <4>1. PICK e \in Linea : e = Trozo(pendientes[p])
        BY <3>2, <3>5
      <4>2. \A r : Hay(prestamosBD, r) => Hay(Append(prestamosBD, e), r)
        BY <3>3, HayAlFinal
      <4>3. prestamosBD' = Append(prestamosBD, e)
        BY <3>5, <4>1
      <4>4. QED
        BY <2>2, <4>2, <4>3
    <3>6. QED
      BY <3>1, <3>4, <3>5
  <2>4. QED
    BY <2>1, <2>2, <2>3 DEF Activas, Anotada
<1> DEFINE fila == IF tabla[p] = "historial" THEN Sobre(local[p], Trozo(pendientes[p]))
                   ELSE Trozo(pendientes[p])
<1>4. CASE Inserta(tabla[p], fila) /\ tabla[p] = "libros"
  <2>1. UNCHANGED <<prestamosBD, historialBD>>
    BY <1>4 DEF Inserta
  <2>2. \A r : Viene(r) => (Viene(r))'
    BY <1>1, <1>2, <1>4 DEF Viene
  <2>3. \A r \in Linea : (Activa(r))' => Activa(r)
    BY <2>1 DEF Activa
  <2>4. QED
    BY <1>1, <2>1, <2>2, <2>3, InicioSigue
<1>5. CASE Inserta(tabla[p], fila) /\ tabla[p] = "historial"
  <2>1. PICK f : f = fila
    OBVIOUS
  <2>2. UNCHANGED prestamosBD /\ historialBD' \subseteq historialBD \cup {f}
    BY <1>5, <2>1 DEF Inserta
  <2>3. local'[p] = f
    <3>1. local' = [local EXCEPT ![p] = f]
      BY <1>5, <2>1 DEF Importar
    <3>2. local \in [Consolas -> Leidos]
      BY TiposPorPartes DEF Base, TipoImporta
    <3>3. QED
      BY <3>1, <3>2
  <2>4. ~ Compuesta(f) => Hay(prestamosCSV', Par(f))
    BY <2>3 DEF Respaldo, LeidasRespaldadas, Compuesta
  <2>5. p \in SinLeer'
    BY <1>1, <1>2, <1>5 DEF SinLeer
  <2>6. \A r \in Linea : r = Par(f) /\ ~ Compuesta(f) => (Viene(r))'
    BY <2>4, <2>5 DEF Viene
  <2>7. \A r \in Linea : (Activa(r))' => Activa(r) \/ (DondeEsta(r))'
    BY <2>2, <2>6 DEF Activa, DondeEsta, Compuesta
  <2>8. \A r : Viene(r) => (Viene(r))'
    BY <1>1, <1>2, <1>5 DEF Viene
  <2>9. QED
    BY <1>1, <2>2, <2>7, <2>8, InicioSigue
<1>6. CASE Inserta(tabla[p], fila) /\ tabla[p] = "prestamos"
  <2> DEFINE l == pendientes[p]
             m == pendientes'[p]
  <2>1. UNCHANGED historialBD /\ prestamosBD' = Append(prestamosBD,
       Trozo(l)) /\ prestamosBD \in Seq(Linea)
    BY <1>6 DEF Inserta, Base, TypeOK
  <2>2. /\ Trozo(l) = l[1] /\ Len(l) \in Nat /\ Len(l) >= 1 /\ Len(m) = Len(l) - 1
        /\ \A k \in 1 .. Len(l) - 1 : m[k] = l[k + 1]
        /\ l[1] \in Linea
    BY <1>6, ColaDe
  <2>3. Hay(prestamosBD', l[1]) /\ \A r : Hay(prestamosBD, r) => Hay(prestamosBD', r)
    BY <2>1, <2>2, HayAlFinal
  <2>4. ASSUME NEW r, Hay(l, r)
        PROVE  r = l[1] \/ Hay(m, r)
    <3>1. PICK k \in 1 .. Len(l) : l[k] = r
      BY <2>4 DEF Hay
    <3> HIDE DEF l, m
    <3>2. CASE k # 1
      <4>1. k - 1 \in 1 .. Len(l) - 1 /\ k - 1 + 1 = k
        BY <2>2, <3>2
      <4>2. m[k - 1] = r /\ k - 1 \in 1 .. Len(m)
        BY <2>2, <3>1, <4>1
      <4>3. QED
        BY <4>2 DEF Hay
    <3>3. QED
      BY <3>1, <3>2
  <2>5. \A r : Viene(r) => (Viene(r))' \/ Hay(prestamosBD', r)
    BY <1>1, <1>2, <2>3, <2>4 DEF Viene
  <2>6. \A r \in Linea : (Activa(r))' => Activa(r)
    BY <2>1 DEF Activa
  <2>7. QED
    BY <1>1, <2>3, <2>5, <2>6, InicioSigue
<1>7. QED
  BY <1>3, <1>4, <1>5, <1>6, ImportarDe DEF Inserta

(***************************************************************************)
(* The rows are those of the server, of a user and a book, and those an    *)
(* import has in local, which are if they are not put together.            *)
(***************************************************************************)
LEMMA EnterasSigue ==
  ASSUME Base, Base', Enteras, Respaldo', [Next]_vars
  PROVE  Enteras'
<1>1. CASE UNCHANGED historialBD
  BY <1>1 DEF Enteras, Compuesta, Par
<1>2. CASE Anotar /\ ~ UNCHANGED historialBD
  <2> DEFINE fila == [usuario |-> orden[Servidor].usuario, isbn |-> orden[Servidor].isbn,
                      fecha |-> Hoy, estado |-> "activo"]
  <2>1. pc[Servidor] = "anotar" /\ historialBD' \subseteq historialBD \cup {fila}
    BY <1>2 DEF Anotar
  <2>2. orden[Servidor].usuario \in Usuarios /\ orden[Servidor].isbn \in ISBNs
    BY <2>1, OrdenDe, Procesa DEF ConOrden
  <2>3. Par(fila) \in Linea
    BY <2>2, ParDe
  <2> HIDE DEF fila
  <2>4. QED
    BY <2>1, <2>3 DEF Enteras, Compuesta, Par
<1>3. CASE Cerrar
  <2>1. historialBD' = {Cerrada(h, orden[Servidor]) : h \in historialBD}
    BY <1>3 DEF Cerrar
  <2>2. \A r, o : Par(Cerrada(r, o)) = Par(r) /\ (Compuesta(Cerrada(r, o)) <=> Compuesta(r))
    BY DEF Cerrada, Par, Compuesta
  <2>3. \A h \in historialBD' : ~ Compuesta(h) => Par(h) \in Linea
    BY <2>1, <2>2 DEF Enteras
  <2>4. QED
    BY <2>3 DEF Enteras, Compuesta, Par
<1>4. ASSUME NEW p \in Consolas, Vaciado(p)
      PROVE  Enteras'
  BY <1>4 DEF Vaciado, Borrar, Vacia, Enteras
<1>5. ASSUME NEW p \in Consolas, Importar(p), ~ UNCHANGED historialBD
      PROVE  Enteras'
  <2> DEFINE fila == Sobre(local[p], Trozo(pendientes[p]))
  <2>1. PICK f : f = fila
    OBVIOUS
  <2>2. historialBD' \subseteq historialBD \cup {f} /\ tabla[p] = "historial"
    BY <1>5, <2>1 DEF Importar, Inserta, bd
  <2>3. local'[p] = f
    <3>1. local' = [local EXCEPT ![p] = f]
      BY <1>5, <2>1, <2>2 DEF Importar
    <3>2. local \in [Consolas -> Leidos]
      BY TiposPorPartes DEF Base, TipoImporta
    <3>3. QED
      BY <3>1, <3>2
  <2>4. ~ Compuesta(f) => Hay(prestamosCSV', Par(f))
    BY <2>3 DEF Respaldo, LeidasRespaldadas, Compuesta
  <2>5. ~ Compuesta(f) => Par(f) \in Linea
    <3>1. prestamosCSV' \in Seq(Linea)
      BY DEF Base, TypeOK
    <3>2. QED
      BY <2>4, <3>1 DEF Hay
  <2>6. \A h \in historialBD' : ~ Compuesta(h) => Par(h) \in Linea
    BY <2>2, <2>5 DEF Enteras
  <2>7. QED
    BY <2>6 DEF Enteras, Compuesta, Par
<1>6. \/ UNCHANGED historialBD \/ Anotar \/ Cerrar
      \/ \E p \in Consolas : Vaciado(p) \/ Importar(p)
  BY DEF Next, vars, bd, PasoServidor, Pedir, Devolver, Restar, Insertar, BorrarFila, Sumar,
     Contar, Enviar, PasoCSV, CsvPedir, CsvPrestamo, CsvHistorial, CsvDevolver, CsvCierre, Interrumpe,
     Inicio, Sondear, CerrarSonda, Borrar, Vaciado, Inicializar, Abrir, Importado, Salir, Muere,
          MenuPrincipal
<1>7. QED
  BY <1>1, <1>2, <1>3, <1>4, <1>5, <1>6

InvFila == Respaldo /\ Anotada /\ Activas /\ Enteras

LEMMA InitFila == Init => InvFila
<1> SUFFICES ASSUME Init
             PROVE  InvFila
  OBVIOUS
<1>1. Base
  BY InitBase
<1>2. HistorialRespaldado
  <2>1. LineasIniciales \in Seq(LineaHistorial)
    BY ConstantesOK
  <2>2. /\ historialCSV = LineasIniciales /\ DOMAIN LineasIniciales = 1 .. Len(LineasIniciales)
        /\ Len(LineasIniciales) \in Nat
        /\ prestamosCSV = [k \in 1 .. Len(LineasIniciales) |-> Par(LineasIniciales[k])]
    BY <2>1 DEF Init, Par
  <2>3. Len(prestamosCSV) = Len(LineasIniciales)
    BY <2>2
  <2>4. QED
    BY <2>2, <2>3 DEF HistorialRespaldado, Hay
<1>3. \A p \in Consolas : tabla[p] = "ninguna" /\ local[p] = Residuo("cerrado")
  BY DEF Init
<1>4. LeidasRespaldadas /\ RestoTrasSuLinea
  BY <1>3, ParDe DEF LeidasRespaldadas, RestoTrasSuLinea
<1>5. \A p \in Procesos : pc[p] \in {"esperando", "cerrado"}
  BY DEF Init
<1>6. EscritasRespaldadas /\ Anotada
  BY <1>5, Procesa DEF EscritasRespaldadas, Anotada
<1>7. Activas /\ Enteras
  BY DEF Activas, Enteras, Init
<1>8. QED
  BY <1>2, <1>4, <1>6, <1>7 DEF InvFila, Respaldo

LEMMA NextFila == Inv /\ InvFila /\ [Next]_vars => InvFila'
<1> SUFFICES ASSUME Inv, Base, Presente, Respaldo, Anotada, Activas, Enteras, [Next]_vars
             PROVE  InvFila'
  BY DEF Inv, InvFila
<1>1. ASSUME Ajeno
      PROVE  Respaldo' /\ Anotada' /\ Activas'
  BY <1>1, RespaldoAjeno, AjenoActivas
<1>2. ASSUME NEW p \in Consolas, Vaciado(p) \/ Inicializar(p) \/ Abrir(p) \/ Importar(p)
                                 \/ Importado(p) \/ Muere(p)
      PROVE  Respaldo' /\ Anotada' /\ Activas'
  BY <1>2, RespaldoInicio, VaciadoActivas, InicializarActivas, AbrirActivas, ImportarActivas,
     ImportadoActivas, MuereActivas
<1>3. ASSUME UNCHANGED vars
      PROVE  Respaldo' /\ Anotada' /\ Activas'
  <2>1. UNCHANGED <<prestamosBD, historialBD, prestamosCSV, historialCSV, pc, orden, tabla,
                    pendientes, local, avisos, cortadas>>
    BY <1>3 DEF vars, bd, csv, importa, historia
  <2>2. Respaldo'
    BY <2>1 DEF Respaldo, HistorialRespaldado, LeidasRespaldadas, RestoTrasSuLinea,
                EscritasRespaldadas, Hay, Par, Compuesta
  <2>3. Anotada'
    BY <2>1 DEF Anotada, Hay
  <2>4. \A r : (DondeEsta(r))' <=> DondeEsta(r)
    BY <2>1 DEF DondeEsta, Viene, SinLeer, Importando, Devolviendo, Hay
  <2>5. Activas'
    BY <2>1, <2>4 DEF Activas, SinCortes, Par, Compuesta
  <2>6. QED
    BY <2>2, <2>3, <2>5
<1>4. Respaldo' /\ Anotada' /\ Activas'
  BY <1>1, <1>2, <1>3, PasosSegunArranque
<1>5. Base'
  BY NextInv DEF Inv
<1>6. Enteras'
  BY <1>4, <1>5, EnterasSigue
<1>7. QED
  BY <1>4, <1>6 DEF InvFila

LEMMA SiempreFila == Spec => []InvFila
<1>1. QED
  BY InitFila, NextFila, SiempreInv, PTL DEF Spec

(***************************************************************************)
(* A loan that historial shows as active can be returned once no console   *)
(* is starting (ActivoConFila), whatever the server did between the import *)
(* of historial and that of Prestamos, and however many starts import at a *)
(* time.  The rows left out are those that may be put together from the    *)
(* two pieces of a long line; of the others it must be shown that sscanf   *)
(* has filled them from one line of the file.                              *)
(***************************************************************************)
THEOREM CadaActivoSuFila == Spec => []ActivoConFila
<1>1. Inv /\ InvFila => ActivoConFila
  <2>1. SUFFICES ASSUME Base, Activas, Enteras, Asentada,
                        NEW h \in historialBD, h.estado = "activo", ~ Compuesta(h)
                 PROVE  \/ \E k \in DOMAIN prestamosBD : De(prestamosBD[k], h.usuario, h.isbn)
                        \/ Devolviendo(h.usuario, h.isbn)
                        \/ <<h.usuario, h.isbn>> \in cortadas
    BY DEF Inv, InvFila, ActivoConFila
  <2>2. PICK r \in Linea : r = Par(h)
    BY <2>1 DEF Enteras
  <2>3. r.usuario = h.usuario /\ r.isbn = h.isbn
    BY <2>2 DEF Par
  <2>4. DondeEsta(r)
    BY <2>1, <2>2 DEF Activas, SinCortes, Asentada
  <2>5. ~ Viene(r)
    <3>1. SinLeer = {}
      BY <2>1 DEF Asentada, SinLeer
    <3>2. \A p \in Consolas : tabla[p] = "ninguna"
      BY <2>1 DEF Asentada, Base, Importacion
    <3>3. QED
      BY <3>1, <3>2 DEF Viene
  <2>6. CASE Hay(prestamosBD, r)
    <3>1. prestamosBD \in Seq(Linea)
      BY <2>1 DEF Base, TypeOK
    <3>2. PICK k \in 1 .. Len(prestamosBD) : prestamosBD[k] = r
      BY <2>6 DEF Hay
    <3>3. k \in DOMAIN prestamosBD /\ De(prestamosBD[k], h.usuario, h.isbn)
      BY <2>3, <3>1, <3>2 DEF De
    <3>4. QED
      BY <3>3
  <2>7. QED
    BY <2>3, <2>4, <2>5, <2>6 DEF DondeEsta
<1>2. QED
  BY <1>1, SiempreInv, SiempreFila, PTL

-----------------------------------------------------------------------------
(* What a start that has the database for itself leaves in it *)

\* p was the first to open the empty database, nobody else has written in it, and nothing has failed.
Sola(p) == Importando(p) /\ limpio[p] /\ avisos = {}

\* The others have not got to it: the server looks, a console is on its way.
NadieMas(p) ==
  /\ pc[Servidor] \in {"esperando", "restar", "borrar", "enviar"}
  /\ \A q \in Consolas \ {p} : pc[q] \in {"cerrado", "sonda", "sondeado", "borrado"}

\* The lines of historial.csv p is done with; of a line in two pieces, when it has both.
Leidas(p) == Len(historialCSV) - Len(pendientes[p])

EsCorta(k) == historialCSV[k].isbn \notin Largos

(***************************************************************************)
(* What p has still to read of historial.csv, as it is in the file, but    *)
(* for the second piece of a line of which it has read the first: the book *)
(* that one named is in local.                                             *)
(***************************************************************************)
ColaDelHistorial(p) ==
  /\ Len(pendientes[p]) <= Len(historialCSV)
  /\ \A k \in 1 .. Len(pendientes[p]) :
       \/ pendientes[p][k] = historialCSV[Leidas(p) + k]
       \/ /\ k = 1 /\ pendientes[p][1] \in Restos
          /\ ~ EsCorta(Leidas(p) + 1) /\ local[p].isbn \in Largos

(***************************************************************************)
(* Of the first n lines of historial.csv, those of books whose lines fit   *)
(* in the buffer: the first of each key is in the table and the others     *)
(* found their key taken, and the table holds nothing else of those books. *)
(***************************************************************************)
Recogidas(n) ==
  /\ \A r \in DeCortos(historialBD) : \E k \in 1 .. n : r = historialCSV[k] /\ PrimeraDeSuClave(k)
  /\ \A k \in 1 .. n : EsCorta(k) =>
       /\ PrimeraDeSuClave(k) => historialCSV[k] \in historialBD
       /\ \E r \in historialBD : MismaClave(r, historialCSV[k])

\* How far p has got.
EnLibros(p) ==
  /\ prestamosBD = << >> /\ historialBD = {}
  /\ pc[p] = "abrir" => librosBD = << >>
  /\ pc[p] = "importar" => librosBD \o pendientes[p] = Lineas("libros")

EnHistorial(p) ==
  /\ librosBD = Lineas("libros") /\ prestamosBD = << >>
  /\ pc[p] = "abrir" => historialBD = {}
  /\ pc[p] = "importar" => ColaDelHistorial(p) /\ Recogidas(Leidas(p))

EnPrestamos(p) ==
  /\ librosBD = Lineas("libros") /\ Recogidas(Len(historialCSV))
  /\ pc[p] = "abrir" => prestamosBD = << >>
  /\ pc[p] = "importar" => prestamosBD \o pendientes[p] = prestamosCSV

Avance(p) ==
  /\ tabla[p] = "libros" => EnLibros(p)
  /\ tabla[p] = "historial" => EnHistorial(p)
  /\ tabla[p] = "prestamos" => EnPrestamos(p)

InvInicio == \A p \in Consolas : Sola(p) => NadieMas(p) /\ Avance(p)

LEMMA PasaUna ==
  ASSUME NEW S, NEW s \in Seq(S), NEW c \in Seq(S), c # << >>
  PROVE  Append(s, Head(c)) \o Tail(c) = s \o c
<1>1. Head(c) \in S /\ Tail(c) \in Seq(S) /\ <<Head(c)>> \in Seq(S) /\ Head(c) = c[1]
      /\ Len(c) \in Nat /\ Len(c) >= 1 /\ Len(Tail(c)) = Len(c) - 1
      /\ \A k \in 1 .. Len(c) - 1 : Tail(c)[k] = c[k + 1]
  BY LaCola
<1>2. Append(s, Head(c)) = s \o <<Head(c)>>
  BY <1>1, AppendIsConcat
<1>3. (s \o <<Head(c)>>) \o Tail(c) = s \o (<<Head(c)>> \o Tail(c))
  BY <1>1, ConcatAssociative
<1>4. <<Head(c)>> \o Tail(c) = c
  <2> DEFINE d == <<Head(c)>> \o Tail(c)
  <2>1. d \in Seq(S) /\ Len(d) = Len(c)
    BY <1>1, ConcatProperties
  <2>2. ASSUME NEW k \in 1 .. Len(c)
        PROVE  d[k] = c[k]
    <3>1. CASE k = 1
      BY <1>1, <3>1
    <3>2. CASE k # 1
      <4>1. k - 1 \in 1 .. Len(c) - 1 /\ k - 1 + 1 = k
        BY <1>1, <3>2
      <4>2. d[k] = Tail(c)[k - 1]
        BY <1>1, <3>2
      <4>3. QED
        BY <1>1, <4>1, <4>2
    <3>3. QED
      BY <3>1, <3>2
  <2> HIDE DEF d
  <2>3. d = c
    BY <2>1, <2>2, SeqEqual
  <2>4. QED
    BY <2>3 DEF d
<1>5. QED
  BY <1>2, <1>3, <1>4

LEMMA FicherosDe ==
  ASSUME Base
  PROVE  /\ historialCSV \in Seq(LineaHistorial) /\ Len(historialCSV) \in Nat
         /\ \A k \in 1 .. Len(historialCSV) :
              historialCSV[k] \in LineaHistorial /\ historialCSV[k].isbn \in ISBNs
         /\ librosBD \in Seq([isbn : ISBNs, copias : Int]) /\ prestamosBD \in Seq(Linea)
         /\ Lineas("libros") \in Seq([isbn : ISBNs, copias : Int])
<1>1. /\ historialCSV \in Seq(LineaHistorial)
      /\ librosBD \in Seq([isbn : ISBNs, copias : Int]) /\ prestamosBD \in Seq(Linea)
  BY DEF Base, TypeOK
<1>2. \A k \in 1 .. Len(historialCSV) : historialCSV[k] \in LineaHistorial
  BY <1>1
<1>3. Lineas("libros") \in Seq([isbn : ISBNs, copias : Int])
  <2>1. Lineas("libros") \in Seq(FilasDeLibros)
    BY LineasTipo
  <2>2. FilasDeLibros \subseteq [isbn : ISBNs, copias : Int]
    BY DEF FilasDeLibros
  <2>3. QED
    BY <2>1, <2>2, SeqMonotonic
<1>4. QED
  BY <1>1, <1>2, <1>3, CamposDeLinea

\* Nothing p looks at has changed.
LEMMA AvanceSigue ==
  ASSUME NEW p \in Consolas, Avance(p), UNCHANGED <<bd, csv>>,
         tabla'[p] = tabla[p], pendientes'[p] = pendientes[p], local'[p] = local[p],
         pc'[p] = pc[p]
  PROVE  (Avance(p))'
<1>1. UNCHANGED <<librosBD, prestamosBD, historialBD, librosCSV, prestamosCSV, historialCSV>>
  BY DEF bd, csv
<1>2. (Lineas("libros"))' = Lineas("libros")
  BY <1>1 DEF Lineas
<1>3. \A n : (Recogidas(n))' <=> Recogidas(n)
  BY <1>1 DEF Recogidas, DeCortos, EsCorta, PrimeraDeSuClave
<1>4. (Leidas(p))' = Leidas(p)
  BY <1>1 DEF Leidas
<1>5. ColaDelHistorial(p) => (ColaDelHistorial(p))'
  BY <1>1, <1>4 DEF ColaDelHistorial, EsCorta
<1>6. (EnLibros(p))' <=> EnLibros(p)
  BY <1>1, <1>2 DEF EnLibros
<1>7. EnHistorial(p) => (EnHistorial(p))'
  BY <1>1, <1>2, <1>3, <1>4, <1>5 DEF EnHistorial, Recogidas, Leidas, DeCortos, EsCorta,
       PrimeraDeSuClave
<1>8. EnPrestamos(p) => (EnPrestamos(p))'
  BY <1>1, <1>2 DEF EnPrestamos, Recogidas, DeCortos, EsCorta, PrimeraDeSuClave
<1>9. QED
  BY <1>6, <1>7, <1>8 DEF Avance

\* A piece of a line that does not fit leaves the others as they were.
LEMMA RecogeLarga ==
  ASSUME NEW n \in Nat, Recogidas(n), NEW f, f.isbn \notin ISBNs \ Largos,
         historialBD \subseteq historialBD', historialBD' \subseteq historialBD \cup {f},
         UNCHANGED historialCSV
  PROVE  (Recogidas(n))' /\ (~ EsCorta(n + 1) => (Recogidas(n + 1))')
<1>1. (DeCortos(historialBD))' = DeCortos(historialBD)
  BY DEF DeCortos
<1>2. \A k : /\ (PrimeraDeSuClave(k))' <=> PrimeraDeSuClave(k)
             /\ (EsCorta(k))' <=> EsCorta(k)
  BY DEF PrimeraDeSuClave, EsCorta
<1>3. (Recogidas(n))'
  BY <1>1, <1>2 DEF Recogidas
<1>4. ASSUME ~ EsCorta(n + 1)
      PROVE  (Recogidas(n + 1))'
  <2>1. n + 1 \in Nat /\ 1 .. n \subseteq 1 .. n + 1 /\ \A k \in 1 .. n + 1 : k \in 1 .. n \/ k = n + 1
    OBVIOUS
  <2>2. \A k \in 1 .. n + 1 : EsCorta(k) => k \in 1 .. n
    BY <1>4, <2>1
  <2>3. \A r \in DeCortos(historialBD) :
          \E k \in 1 .. n + 1 : r = historialCSV[k] /\ PrimeraDeSuClave(k)
    BY <2>1 DEF Recogidas
  <2>4. \A k \in 1 .. n + 1 : EsCorta(k) =>
          /\ PrimeraDeSuClave(k) => historialCSV[k] \in historialBD
          /\ \E r \in historialBD : MismaClave(r, historialCSV[k])
    BY <2>2 DEF Recogidas
  <2>5. QED
    BY <1>1, <1>2, <2>3, <2>4 DEF Recogidas
<1>5. QED
  BY <1>3, <1>4

\* A line that fits is the first of its key if no row has it.
LEMMA RecogeCorta ==
  ASSUME Base, NEW n \in Nat, n + 1 <= Len(historialCSV), Recogidas(n), EsCorta(n + 1),
         NEW f, f = historialCSV[n + 1],
         historialBD' = IF Cabe(f) THEN historialBD \cup {f} ELSE historialBD,
         UNCHANGED historialCSV
  PROVE  (Recogidas(n + 1))'
<1>1. \A k : /\ (PrimeraDeSuClave(k))' <=> PrimeraDeSuClave(k)
             /\ (EsCorta(k))' <=> EsCorta(k)
  BY DEF PrimeraDeSuClave, EsCorta
<1>2. /\ n + 1 \in 1 .. Len(historialCSV) /\ 1 .. n \subseteq 1 .. Len(historialCSV)
      /\ 1 .. n \subseteq 1 .. n + 1 /\ n + 1 - 1 = n
      /\ \A k \in 1 .. n + 1 : k \in 1 .. n \/ k = n + 1
  BY FicherosDe
<1>3. f.isbn \in ISBNs \ Largos /\ f \in LineaHistorial
  BY <1>2, FicherosDe DEF EsCorta
<1>4. PrimeraDeSuClave(n + 1) <=> \A k \in 1 .. n : ~ MismaClave(historialCSV[k], f)
  BY <1>2 DEF PrimeraDeSuClave
<1>5. Cabe(f) <=> PrimeraDeSuClave(n + 1)
  <2>1. ASSUME Cabe(f), NEW k \in 1 .. n, MismaClave(historialCSV[k], f)
        PROVE  FALSE
    <3>1. EsCorta(k)
      BY <1>3, <2>1 DEF EsCorta, MismaClave, De
    <3>2. PICK r \in historialBD : MismaClave(r, historialCSV[k])
      BY <3>1 DEF Recogidas
    <3>3. MismaClave(r, f)
      BY <2>1, <3>2 DEF MismaClave, De
    <3>4. QED
      BY <2>1, <3>3 DEF Cabe
  <2>2. ASSUME NEW r \in historialBD, MismaClave(r, f)
        PROVE  \E k \in 1 .. n : MismaClave(historialCSV[k], f)
    <3>1. r \in DeCortos(historialBD)
      BY <1>3, <2>2 DEF DeCortos, MismaClave, De
    <3>2. QED
      BY <2>2, <3>1 DEF Recogidas
  <2>3. QED
    BY <1>4, <2>1, <2>2 DEF Cabe
<1>6. \A r \in (DeCortos(historialBD))' :
        \E k \in 1 .. n + 1 : r = historialCSV[k] /\ PrimeraDeSuClave(k)
  <2>1. ASSUME NEW r \in (DeCortos(historialBD))'
        PROVE  \E k \in 1 .. n + 1 : r = historialCSV[k] /\ PrimeraDeSuClave(k)
    <3>1. r \in DeCortos(historialBD) \/ (r = f /\ Cabe(f))
      BY <2>1 DEF DeCortos
    <3>2. CASE r \in DeCortos(historialBD)
      BY <1>2, <3>2 DEF Recogidas
    <3>3. CASE r = f /\ Cabe(f)
      BY <1>5, <3>3
    <3>4. QED
      BY <3>1, <3>2, <3>3
  <2>2. QED
    BY <2>1
<1>7. \A k \in 1 .. n + 1 : EsCorta(k) =>
        /\ PrimeraDeSuClave(k) => historialCSV[k] \in historialBD'
        /\ \E r \in historialBD' : MismaClave(r, historialCSV[k])
  <2>1. CASE Cabe(f)
    <3>1. MismaClave(f, f) /\ f \in historialBD' /\ historialBD \subseteq historialBD'
      BY <2>1 DEF MismaClave, De
    <3>2. QED
      BY <1>2, <3>1 DEF Recogidas
  <2>2. CASE ~ Cabe(f)
    <3>1. historialBD' = historialBD /\ \E r \in historialBD : MismaClave(r, f)
      BY <2>2 DEF Cabe
    <3>2. QED
      BY <1>2, <1>5, <2>2, <3>1 DEF Recogidas
  <2>3. QED
    BY <2>1, <2>2
<1>8. QED
  BY <1>1, <1>6, <1>7 DEF Recogidas

\* Every other process looks, or has written and p has not the database for itself.
LEMMA AjenoInicio ==
  ASSUME Base, InvInicio, Ajeno
  PROVE  InvInicio'
<1>1. SUFFICES ASSUME NEW p \in Consolas, (Sola(p))'
               PROVE  (NadieMas(p) /\ Avance(p))'
  BY DEF InvInicio
<1>2. /\ UNCHANGED <<tabla, pendientes, local>> /\ pc'[p] = pc[p]
      /\ limpio[p] /\ limpio' # [q \in Consolas |-> FALSE] /\ Sola(p)
  BY <1>1, PasoAjeno DEF Sola
<1>3. NadieMas(p) /\ Avance(p)
  BY <1>2 DEF InvInicio
<1>4. pc[p] \in {"abrir", "importar"}
  BY <1>2 DEF Sola, Importando
<1>5. /\ UNCHANGED <<bd, csv>>
      /\ pc'[Servidor] \in {"esperando", "restar", "borrar", "enviar"}
      /\ \A q \in Consolas \ {p} : pc'[q] \in {"cerrado", "sonda", "sondeado", "borrado"}
  <2>1. CASE PasoServidor
    <3>1. /\ UNCHANGED <<bd, csv>>
          /\ \/ \E paso \in {"restar", "borrar", "enviar"} : Ir(Servidor, paso)
             \/ Termina(Servidor)
      BY <1>2, <1>3, <2>1 DEF PasoServidor, Pedir, Devolver, Restar, Insertar, Anotar, BorrarFila,
             Sumar, Cerrar, Contar, Enviar, Empieza, Escribe, NadieMas
    <3>2. \E paso \in {"restar", "borrar", "enviar", "esperando"} : Ir(Servidor, paso)
      BY <3>1 DEF Termina, Reposo
    <3>3. QED
      BY <1>3, <3>1, <3>2, PasoDe, Procesa DEF NadieMas
  <2>2. ASSUME NEW q \in Procesos, PasoCSV(q) \/ Interrumpe(q)
        PROVE  /\ UNCHANGED <<bd, csv>> /\ pc'[Servidor] = "esperando"
               /\ \A x \in Consolas \ {p} : pc'[x] = pc[x]
    <3>1. pc[q] \in ConOrden
      BY <2>2 DEF PasoCSV, CsvPedir, CsvPrestamo, CsvHistorial, CsvDevolver, CsvCierre, Interrumpe,
                  ConOrden, Base, Marcha
    <3>2. q = Servidor /\ pc[q] \in {"restar", "borrar"}
      BY <1>3, <1>4, <3>1 DEF NadieMas, ConOrden, Procesos
    <3>3. Interrumpe(q)
      BY <2>2, <3>2 DEF PasoCSV, CsvPedir, CsvPrestamo, CsvHistorial, CsvDevolver, CsvCierre
    <3>4. UNCHANGED <<bd, csv>> /\ Ir(q, "esperando")
      BY <3>2, <3>3 DEF Interrumpe, Termina, Reposo
    <3>5. QED
      BY <3>2, <3>4, PasoDe, Procesa
  <2>3. ASSUME NEW q \in Consolas,
               Sondear(q) \/ CerrarSonda(q) \/ (Borrar(q) /\ EnUso)
               \/ Salir(q) \/ \E u \in Usuarios, i \in ISBNs : MenuPrincipal(q, u, i)
        PROVE  /\ UNCHANGED <<bd, csv>> /\ pc'[Servidor] = pc[Servidor]
               /\ \A x \in Consolas \ {p} : pc'[x] \in {"cerrado", "sonda", "sondeado", "borrado"}
    <3>1. pc[q] # "menu"
      BY <1>3, <1>4 DEF NadieMas
    <3>2. Sondear(q) \/ CerrarSonda(q) \/ (Borrar(q) /\ EnUso)
      BY <2>3, <3>1 DEF Salir, MenuPrincipal
    <3>3. UNCHANGED <<bd, csv>> /\ \E paso \in {"sonda", "sondeado", "borrado"} : Ir(q, paso)
      BY <3>2 DEF Sondear, CerrarSonda, Borrar
    <3>4. QED
      BY <1>3, <3>3, PasoDe, Procesa DEF NadieMas
  <2>4. QED
    BY <1>3, <2>1, <2>2, <2>3 DEF Ajeno, NadieMas
<1>6. (Avance(p))'
  BY <1>2, <1>3, <1>5, AvanceSigue
<1>7. QED
  BY <1>5, <1>6 DEF NadieMas

\* Nobody has the file that has just been deleted.
LEMMA VaciadoInicio ==
  ASSUME Base, NEW q \in Consolas, Vaciado(q)
  PROVE  InvInicio'
<1>1. limpio' = [x \in Consolas |-> FALSE]
  BY VaciadoDe DEF Vacia
<1>2. QED
  BY <1>1 DEF InvInicio, Sola

\* The first to open it finds it empty, and nobody in it.
LEMMA InicializarInicio ==
  ASSUME Base, SinAbrir, NEW q \in Consolas, Inicializar(q)
  PROVE  InvInicio'
<1>1. SUFFICES ASSUME NEW p \in Consolas, (Sola(p))'
               PROVE  (NadieMas(p) /\ Avance(p))'
  BY DEF InvInicio
<1>2. /\ tabla' = [tabla EXCEPT ![q] = "libros"]
      /\ tabla \in [Consolas -> {"libros", "historial", "prestamos", "ninguna"}]
      /\ pc'[q] = "abrir" /\ \A x \in Procesos \ {q} : pc'[x] = pc[x]
      /\ limpio' = [x \in Consolas |-> x = q /\ aperturas = 0]
      /\ UNCHANGED bd
  BY InicializarDe
<1>3. p = q /\ aperturas = 0
  BY <1>1, <1>2 DEF Sola
<1>4. /\ librosBD' = << >> /\ prestamosBD' = << >> /\ historialBD' = {}
      /\ pc[Servidor] \in {"esperando", "enviar"}
      /\ \A x \in Consolas : pc[x] \in {"cerrado", "sonda", "sondeado", "borrado"}
  BY <1>2, <1>3 DEF SinAbrir, bd
<1>5. (NadieMas(p))'
  BY <1>2, <1>3, <1>4, Procesa DEF NadieMas
<1>6. tabla'[p] = "libros" /\ pc'[p] = "abrir"
  BY <1>2, <1>3
<1>7. (Avance(p))'
  BY <1>4, <1>6 DEF Avance, EnLibros
<1>8. QED
  BY <1>5, <1>7

\* A console that imports is the only one.
LEMMA SoloUna ==
  ASSUME InvInicio, NEW p \in Consolas, NEW q \in Consolas, Sola(p), Importando(q)
  PROVE  q = p /\ NadieMas(p) /\ Avance(p)
  BY DEF InvInicio, NadieMas, Importando

LEMMA AbrirInicio ==
  ASSUME Base, InvInicio, NEW q \in Consolas, Abrir(q)
  PROVE  InvInicio'
<1>1. SUFFICES ASSUME NEW p \in Consolas, (Sola(p))'
               PROVE  (NadieMas(p) /\ Avance(p))'
  BY DEF InvInicio
<1>2. /\ pc[q] = "abrir" /\ Importando(q) /\ UNCHANGED <<bd, csv, limpio>> /\ avisos \subseteq avisos'
      /\ pendientes \in [Consolas -> Seq(FilasDeLibros \cup Linea \cup Piezas)]
  BY DEF Abrir, Importando, Base, Importacion
<1>3. /\ pendientes' = [pendientes EXCEPT ![q] = Lineas(tabla[q])]
      /\ Ir(q, "importar") /\ UNCHANGED tabla
  BY <1>1 DEF Abrir, Sola
<1>4. pc'[q] = "importar" /\ pendientes'[q] = Lineas(tabla[q])
      /\ \A x \in Procesos \ {q} : pc'[x] = pc[x]
  BY <1>2, <1>3, PasoDe, Procesa
<1>5. Sola(p)
  BY <1>1, <1>2, <1>4, Procesa DEF Sola, Importando
<1>6. q = p /\ NadieMas(p) /\ Avance(p)
  BY <1>2, <1>5, SoloUna
<1>7. (NadieMas(p))'
  BY <1>4, <1>6, Procesa DEF NadieMas
<1>8. UNCHANGED <<librosBD, prestamosBD, historialBD, librosCSV, prestamosCSV, historialCSV>>
  BY <1>2 DEF bd, csv
<1>9. (Lineas("libros"))' = Lineas("libros")
  BY <1>8 DEF Lineas
<1>10. CASE tabla[p] = "libros"
  <2>1. librosBD = << >> /\ prestamosBD = << >> /\ historialBD = {}
    BY <1>2, <1>6, <1>10 DEF Avance, EnLibros
  <2>2. << >> \o Lineas("libros") = Lineas("libros")
    BY FicherosDe, ConcatEmptySeq
  <2>3. QED
    BY <1>3, <1>4, <1>6, <1>7, <1>8, <1>9, <1>10, <2>1, <2>2 DEF Avance, EnLibros
<1>11. CASE tabla[p] = "historial"
  <2>1. librosBD = Lineas("libros") /\ prestamosBD = << >> /\ historialBD = {}
    BY <1>2, <1>6, <1>11 DEF Avance, EnHistorial
  <2>2. pendientes'[p] = historialCSV /\ Len(historialCSV) \in Nat
    BY <1>4, <1>6, <1>11, FicherosDe DEF Lineas
  <2>3. (Leidas(p))' = 0
    BY <1>8, <2>2 DEF Leidas
  <2>4. (ColaDelHistorial(p))'
    BY <1>8, <2>2, <2>3 DEF ColaDelHistorial
  <2>5. (Recogidas(Leidas(p)))'
    BY <1>8, <2>1, <2>3 DEF Recogidas, DeCortos
  <2>6. QED
    BY <1>3, <1>4, <1>6, <1>7, <1>8, <1>9, <1>11, <2>1, <2>4, <2>5 DEF Avance, EnHistorial
<1>12. CASE tabla[p] = "prestamos"
  <2>1. librosBD = Lineas("libros") /\ Recogidas(Len(historialCSV)) /\ prestamosBD = << >>
    BY <1>2, <1>6, <1>12 DEF Avance, EnPrestamos
  <2>2. pendientes'[p] = prestamosCSV
    BY <1>4, <1>6, <1>12 DEF Lineas
  <2>3. << >> \o prestamosCSV = prestamosCSV
    BY ConcatEmptySeq DEF Base, TypeOK
  <2>4. (Recogidas(Len(historialCSV)))'
    BY <1>8, <2>1 DEF Recogidas, DeCortos, EsCorta, PrimeraDeSuClave
  <2>5. QED
    BY <1>3, <1>4, <1>6, <1>7, <1>8, <1>9, <1>12, <2>1, <2>2, <2>3, <2>4 DEF Avance, EnPrestamos
<1>13. tabla[p] \in {"libros", "historial", "prestamos"}
  BY <1>2, <1>6, TresTablas DEF Base, TypeOK, Importacion
<1>14. QED
  BY <1>10, <1>11, <1>12, <1>13

LEMMA ImportadoInicio ==
  ASSUME Base, InvInicio, NEW q \in Consolas, Importado(q)
  PROVE  InvInicio'
<1>1. SUFFICES ASSUME NEW p \in Consolas, (Sola(p))'
               PROVE  (NadieMas(p) /\ Avance(p))'
  BY DEF InvInicio
<1>2. /\ pc[q] = "importar" /\ Importando(q) /\ pendientes[q] = << >> /\ Siguiente(q)
      /\ UNCHANGED <<bd, csv, limpio, avisos>>
  BY DEF Importado, Importando, historia
<1>3. /\ \A x \in Procesos \ {q} : pc'[x] = pc[x]
      /\ \/ tabla[q] = "libros" /\ tabla'[q] = "historial" /\ pc'[q] = "abrir"
         \/ tabla[q] = "historial" /\ tabla'[q] = "prestamos" /\ pc'[q] = "abrir"
         \/ tabla[q] = "prestamos" /\ tabla'[q] = "ninguna" /\ pc'[q] = "menu"
  BY <1>2, SiguienteDe
<1>4. Sola(p)
  BY <1>1, <1>2, <1>3, Procesa DEF Sola, Importando
<1>5. q = p /\ NadieMas(p) /\ Avance(p)
  BY <1>2, <1>4, SoloUna
<1>6. (NadieMas(p))'
  BY <1>3, <1>5, Procesa DEF NadieMas
<1>7. UNCHANGED <<librosBD, prestamosBD, historialBD, librosCSV, prestamosCSV, historialCSV>>
  BY <1>2 DEF bd, csv
<1>8. (Lineas("libros"))' = Lineas("libros")
  BY <1>7 DEF Lineas
<1>9. CASE tabla[p] = "libros"
  <2>1. librosBD \o << >> = Lineas("libros") /\ prestamosBD = << >> /\ historialBD = {}
    BY <1>2, <1>5, <1>9 DEF Avance, EnLibros
  <2>2. librosBD = Lineas("libros")
    BY <2>1, FicherosDe, ConcatEmptySeq
  <2>3. QED
    BY <1>3, <1>5, <1>6, <1>7, <1>8, <1>9, <2>1, <2>2 DEF Avance, EnHistorial
<1>10. CASE tabla[p] = "historial"
  <2>1. librosBD = Lineas("libros") /\ prestamosBD = << >> /\ Recogidas(Leidas(p))
    BY <1>2, <1>5, <1>10 DEF Avance, EnHistorial
  <2>2. Leidas(p) = Len(historialCSV)
    BY <1>2, <1>5, FicherosDe DEF Leidas
  <2>3. (Recogidas(Len(historialCSV)))'
    BY <1>7, <2>1, <2>2 DEF Recogidas, DeCortos, EsCorta, PrimeraDeSuClave
  <2>4. QED
    BY <1>3, <1>5, <1>6, <1>7, <1>8, <1>10, <2>1, <2>3 DEF Avance, EnPrestamos
<1>11. tabla[p] # "prestamos"
  BY <1>1, <1>3, <1>5 DEF Sola, Importando
<1>12. QED
  BY <1>3, <1>5, <1>9, <1>10, <1>11

LEMMA MuereInicio ==
  ASSUME Base, InvInicio, NEW q \in Consolas, Muere(q)
  PROVE  InvInicio'
<1>1. SUFFICES ASSUME NEW p \in Consolas, (Sola(p))'
               PROVE  (NadieMas(p) /\ Avance(p))'
  BY DEF InvInicio
<1>2. /\ Ir(q, "cerrado") /\ UNCHANGED <<bd, csv, limpio>>
      /\ avisos' = IF Importando(q) THEN avisos \cup {"corte"} ELSE avisos
      /\ tabla' = [tabla EXCEPT ![q] = "ninguna"]
      /\ pendientes' = [pendientes EXCEPT ![q] = << >>]
      /\ local' = [local EXCEPT ![q] = Residuo("cerrado")]
  BY DEF Muere, Ir
<1>3. pc'[q] = "cerrado" /\ \A x \in Procesos \ {q} : pc'[x] = pc[x]
  BY <1>2, PasoDe, Procesa
<1>4. p # q /\ avisos = {} /\ avisos' = {}
  BY <1>1, <1>2, <1>3 DEF Sola, Importando
<1>5. Sola(p)
  BY <1>1, <1>2, <1>3, <1>4, Procesa DEF Sola, Importando
<1>6. NadieMas(p) /\ Avance(p)
  BY <1>5 DEF InvInicio
<1>7. (NadieMas(p))'
  BY <1>3, <1>6, Procesa DEF NadieMas
<1>8. /\ tabla \in [Consolas -> {"libros", "historial", "prestamos", "ninguna"}]
      /\ pendientes \in [Consolas -> Seq(FilasDeLibros \cup Linea \cup Piezas)]
      /\ local \in [Consolas -> Leidos]
  BY TiposPorPartes DEF Base, TipoImporta, Importacion
<1>9. tabla'[p] = tabla[p] /\ pendientes'[p] = pendientes[p] /\ local'[p] = local[p] /\ pc'[p] = pc[p]
  BY <1>2, <1>3, <1>4, <1>8, Procesa
<1>10. QED
  BY <1>2, <1>6, <1>7, <1>9, AvanceSigue

(***************************************************************************)
(* A piece of historial.csv.  The first of a line that does not fit stays  *)
(* with its book in local, where the second finds it: neither leaves a row *)
(* of a book whose lines fit.                                              *)
(***************************************************************************)
LEMMA ImportarHistorial ==
  ASSUME Base, NEW p \in Consolas, Importar(p), tabla[p] = "historial",
         Inserta("historial", Sobre(local[p], Trozo(pendientes[p]))),
         ColaDelHistorial(p), Recogidas(Leidas(p))
  PROVE  (ColaDelHistorial(p))' /\ (Recogidas(Leidas(p)))'
<1>1. /\ pendientes[p] # << >> /\ pendientes'[p] = Quedan(pendientes[p])
      /\ UNCHANGED <<librosCSV, prestamosCSV, historialCSV>>
  BY ImportarDe DEF csv
<1>2. /\ pendientes[p] \in Seq(Piezas) /\ local[p] \in Leidos /\ local \in [Consolas -> Leidos]
  BY TiposPorPartes DEF Base, Importacion, TipoImporta
<1>3. PICK f : f = Sobre(local[p], Trozo(pendientes[p]))
  OBVIOUS
<1>4. local'[p] = f
  BY <1>2, <1>3 DEF Importar
<1>5. historialBD' = IF Cabe(f) THEN historialBD \cup {f} ELSE historialBD
  BY <1>3 DEF Inserta
<1>6. PICK cola \in Seq(Piezas) : cola = pendientes[p]
  BY <1>2
<1>7. PICK h \in Piezas : h = Head(cola) /\ h = cola[1]
  BY <1>1, <1>6, LaCola
<1>8. /\ Len(cola) \in Nat /\ Len(cola) >= 1 /\ Tail(cola) \in Seq(Piezas)
      /\ Len(Tail(cola)) = Len(cola) - 1
      /\ \A k \in 1 .. Len(cola) - 1 : Tail(cola)[k] = cola[k + 1]
  BY <1>1, <1>6, LaCola
<1>9. PICK n : n = Leidas(p)
  OBVIOUS
<1>10. /\ n \in Nat /\ n + 1 <= Len(historialCSV) /\ n + Len(cola) = Len(historialCSV)
       /\ Len(historialCSV) \in Nat
  BY <1>6, <1>8, <1>9, FicherosDe DEF Leidas, ColaDelHistorial
<1>11. /\ h = historialCSV[n + 1] \/ (h \in Restos /\ ~ EsCorta(n + 1) /\ local[p].isbn \in Largos)
       /\ \A k \in 1 .. Len(cola) : k # 1 => cola[k] = historialCSV[n + k]
  <2>1. 1 \in 1 .. Len(cola)
    BY <1>8
  <2>2. QED
    BY <1>6, <1>7, <1>9, <2>1 DEF ColaDelHistorial
<1>12. f.isbn = IF "isbn" \in DOMAIN Trozo(cola) THEN Trozo(cola)["isbn"] ELSE local[p].isbn
  BY <1>2, <1>3, <1>6, CamposDeLeido DEF Sobre
<1>13. historialBD \subseteq historialBD' /\ historialBD' \subseteq historialBD \cup {f}
  BY <1>5
<1>14. ASSUME pendientes'[p] = Tail(cola)
       PROVE  /\ (Leidas(p))' = n + 1 /\ (ColaDelHistorial(p))'
  <2>1. (Leidas(p))' = n + 1
    BY <1>1, <1>8, <1>10, <1>14 DEF Leidas
  <2>2. ASSUME NEW k \in 1 .. Len(cola) - 1
        PROVE  Tail(cola)[k] = historialCSV[n + 1 + k]
    <3>1. k + 1 \in 1 .. Len(cola) /\ k + 1 # 1 /\ n + (k + 1) = n + 1 + k
      BY <1>8, <1>10
    <3>2. QED
      BY <1>8, <1>11, <3>1
  <2>3. Len(Tail(cola)) <= Len(historialCSV)
    BY <1>8, <1>10
  <2>4. QED
    BY <1>1, <1>8, <1>14, <2>1, <2>2, <2>3 DEF ColaDelHistorial
<1>15. CASE h \in LineaHistorial /\ h.isbn \in Largos
  <2>1. /\ "estado" \in DOMAIN h /\ EnDosTrozos(h)
    BY <1>15, CamposDeLinea DEF EnDosTrozos
  <2>2. Trozo(cola) = Principio(h) /\ Quedan(cola) = <<Resto(h)>> \o Tail(cola)
    BY <1>7, <2>1 DEF Trozo, Quedan
  <2>3. f.isbn = h.isbn
    BY <1>12, <1>15, <2>2, PrincipioDe
  <2>4. PICK r \in Restos : r = Resto(h)
    BY <1>15, RestoDe
  <2>5. PICK m : m = <<r>> \o Tail(cola)
    OBVIOUS
  <2>6. /\ Len(m) = Len(cola) /\ m[1] = r
        /\ \A k \in 2 .. Len(cola) : m[k] = cola[k]
    <3>1. /\ Len(m) = 1 + Len(Tail(cola)) /\ m[1] = r
          /\ \A k \in 2 .. Len(cola) : m[k] = Tail(cola)[k - 1]
      BY <1>8, <2>5
    <3>2. ASSUME NEW k \in 2 .. Len(cola)
          PROVE  m[k] = cola[k]
      <4>1. k - 1 \in 1 .. Len(cola) - 1 /\ k - 1 + 1 = k
        BY <1>8
      <4>2. QED
        BY <1>8, <3>1, <4>1
    <3>3. QED
      BY <1>8, <3>1, <3>2
  <2>7. pendientes'[p] = m
    BY <1>1, <1>6, <2>2, <2>4, <2>5
  <2>8. (Leidas(p))' = n
    BY <1>1, <1>6, <1>9, <2>6, <2>7 DEF Leidas
  <2>9. h = historialCSV[n + 1] /\ ~ EsCorta(n + 1)
    BY <1>11, <1>15, <2>1, CamposDeResto DEF EsCorta
  <2>10. (ColaDelHistorial(p))'
    <3>1. (~ EsCorta(n + 1))'
      BY <1>1, <2>9 DEF EsCorta
    <3>2. ASSUME NEW k \in 1 .. Len(m)
          PROVE  \/ m[k] = historialCSV[n + k]
                 \/ k = 1 /\ m[1] \in Restos
      <4>1. k = 1 \/ k \in 2 .. Len(cola)
        BY <1>8, <2>6
      <4>2. QED
        BY <1>8, <1>11, <2>4, <2>6, <4>1
    <3>3. Len(m) <= Len(historialCSV)
      BY <1>8, <1>10, <2>6
    <3>4. QED
      BY <1>1, <1>4, <1>15, <2>3, <2>7, <2>8, <3>1, <3>2, <3>3 DEF ColaDelHistorial
  <2>11. (Recogidas(n))'
    BY <1>1, <1>9, <1>10, <1>13, <1>15, <2>3, RecogeLarga
  <2>12. QED
    BY <2>8, <2>10, <2>11 DEF Recogidas
<1>16. CASE h \in LineaHistorial /\ h.isbn \notin Largos
  <2>1. ~ EnDosTrozos(h)
    BY <1>16 DEF EnDosTrozos
  <2>2. Trozo(cola) = h /\ Quedan(cola) = Tail(cola)
    BY <1>7, <2>1 DEF Trozo, Quedan
  <2>3. h = historialCSV[n + 1] /\ EsCorta(n + 1)
    BY <1>11, <1>16, CamposDeLinea, CamposDeResto DEF EsCorta
  <2>4. f = h
    BY <1>2, <1>3, <1>6, <1>16, <2>2, CamposDeLeido, CamposDeLinea DEF Sobre, LineaHistorial
  <2>5. (Recogidas(n + 1))'
    BY <1>1, <1>5, <1>9, <1>10, <2>3, <2>4, RecogeCorta
  <2>6. QED
    BY <1>1, <1>6, <1>14, <2>2, <2>5 DEF Recogidas
<1>17. CASE h \in Restos
  <2>1. ~ EnDosTrozos(h)
    BY <1>17, CamposDeResto DEF EnDosTrozos
  <2>2. Trozo(cola) = h /\ Quedan(cola) = Tail(cola)
    BY <1>7, <2>1 DEF Trozo, Quedan
  <2>3. ~ EsCorta(n + 1) /\ local[p].isbn \in Largos
    <3>1. n + 1 \in 1 .. Len(historialCSV)
      BY <1>10
    <3>2. historialCSV[n + 1] \in LineaHistorial
      BY <3>1, FicherosDe
    <3>3. h # historialCSV[n + 1]
      BY <1>17, <3>2, CamposDeLinea, CamposDeResto
    <3>4. QED
      BY <1>11, <3>3
  <2>4. f.isbn \notin ISBNs \ Largos
    BY <1>12, <1>17, <2>2, <2>3, CamposDeResto, ConstantesOK
  <2>5. (Recogidas(n + 1))'
    BY <1>1, <1>9, <1>10, <1>13, <2>3, <2>4, RecogeLarga
  <2>6. QED
    BY <1>1, <1>6, <1>14, <2>2, <2>5 DEF Recogidas
<1>18. QED
  BY <1>15, <1>16, <1>17 DEF Piezas

LEMMA ImportarInicio ==
  ASSUME Base, InvInicio, NEW q \in Consolas, Importar(q)
  PROVE  InvInicio'
<1>1. SUFFICES ASSUME NEW p \in Consolas, (Sola(p))'
               PROVE  (NadieMas(p) /\ Avance(p))'
  BY DEF InvInicio
<1>2. /\ pc[q] = "importar" /\ Importando(q) /\ pendientes[q] # << >>
      /\ UNCHANGED <<pc, csv, tabla, limpio>> /\ avisos \subseteq avisos'
  BY ImportarDe
<1>3. Sola(p)
  BY <1>1, <1>2 DEF Sola, Importando
<1>4. q = p /\ NadieMas(p) /\ Avance(p)
  BY <1>2, <1>3, SoloUna
<1>5. (NadieMas(p))'
  BY <1>2, <1>4 DEF NadieMas
<1>6. UNCHANGED <<librosCSV, prestamosCSV, historialCSV>>
  BY <1>2 DEF csv
<1>7. (Lineas("libros"))' = Lineas("libros")
  BY <1>6 DEF Lineas
<1>8. Inserta(tabla[p], IF tabla[p] = "historial" THEN Sobre(local[p], Trozo(pendientes[p]))
                        ELSE Trozo(pendientes[p]))
  BY <1>1, <1>4, ImportarDe DEF Sola
<1>9. /\ tabla[p] \in {"libros", "historial", "prestamos"}
      /\ tabla[p] \in {"libros", "prestamos"} =>
           /\ Trozo(pendientes[p]) = Head(pendientes[p])
           /\ pendientes'[p] = Tail(pendientes[p])
      /\ tabla[p] = "libros" => pendientes[p] \in Seq(FilasDeLibros)
      /\ tabla[p] = "prestamos" => pendientes[p] \in Seq(Linea)
  BY <1>2, <1>4, LeidaDeSuTabla, ImportarDe DEF Base, Importacion
<1>10. CASE tabla[p] = "libros"
  <2>1. /\ prestamosBD = << >> /\ historialBD = {} /\ librosBD \o pendientes[p] = Lineas("libros")
    BY <1>2, <1>4, <1>10 DEF Avance, EnLibros
  <2>2. /\ librosBD' = Append(librosBD, Head(pendientes[p]))
        /\ UNCHANGED <<prestamosBD, historialBD>>
    BY <1>8, <1>9, <1>10 DEF Inserta
  <2>3. librosBD' \o pendientes'[p] = librosBD \o pendientes[p]
    <3>1. FilasDeLibros \subseteq [isbn : ISBNs, copias : Int]
      BY DEF FilasDeLibros
    <3>2. PICK c \in Seq([isbn : ISBNs, copias : Int]) : c = pendientes[p]
      BY <1>9, <1>10, <3>1, SeqMonotonic
    <3>3. PICK s \in Seq([isbn : ISBNs, copias : Int]) : s = librosBD
      BY FicherosDe
    <3>4. Append(s, Head(c)) \o Tail(c) = s \o c
      BY <1>2, <1>4, <3>2, PasaUna
    <3>5. QED
      BY <1>9, <1>10, <2>2, <3>2, <3>3, <3>4
  <2>4. QED
    BY <1>2, <1>4, <1>5, <1>7, <1>10, <2>1, <2>2, <2>3 DEF Avance, EnLibros
<1>11. CASE tabla[p] = "historial"
  <2>1. /\ librosBD = Lineas("libros") /\ prestamosBD = << >>
        /\ ColaDelHistorial(p) /\ Recogidas(Leidas(p))
    BY <1>2, <1>4, <1>11 DEF Avance, EnHistorial
  <2>2. Inserta("historial", Sobre(local[p], Trozo(pendientes[p])))
    BY <1>8, <1>11
  <2>3. UNCHANGED <<librosBD, prestamosBD>>
    BY <2>2 DEF Inserta
  <2>4. (ColaDelHistorial(p))' /\ (Recogidas(Leidas(p)))'
    BY <1>4, <1>11, <2>1, <2>2, ImportarHistorial
  <2>5. QED
    BY <1>2, <1>4, <1>5, <1>7, <1>11, <2>1, <2>3, <2>4 DEF Avance, EnHistorial
<1>12. CASE tabla[p] = "prestamos"
  <2>1. /\ librosBD = Lineas("libros") /\ Recogidas(Len(historialCSV))
        /\ prestamosBD \o pendientes[p] = prestamosCSV
    BY <1>2, <1>4, <1>12 DEF Avance, EnPrestamos
  <2>2. /\ prestamosBD' = Append(prestamosBD, Head(pendientes[p]))
        /\ UNCHANGED <<librosBD, historialBD>>
    BY <1>8, <1>9, <1>12 DEF Inserta
  <2>3. prestamosBD' \o pendientes'[p] = prestamosBD \o pendientes[p]
    <3>1. PICK c \in Seq(Linea) : c = pendientes[p]
      BY <1>9, <1>12
    <3>2. PICK s \in Seq(Linea) : s = prestamosBD
      BY FicherosDe
    <3>3. Append(s, Head(c)) \o Tail(c) = s \o c
      BY <1>2, <1>4, <3>1, PasaUna
    <3>4. QED
      BY <1>9, <1>12, <2>2, <3>1, <3>2, <3>3
  <2>4. (Recogidas(Len(historialCSV)))'
    BY <1>6, <2>1, <2>2 DEF Recogidas, DeCortos, EsCorta, PrimeraDeSuClave
  <2>5. QED
    BY <1>2, <1>4, <1>5, <1>6, <1>7, <1>12, <2>1, <2>2, <2>3, <2>4 DEF Avance, EnPrestamos
<1>13. QED
  BY <1>9, <1>10, <1>11, <1>12

LEMMA InitInicio == Init => InvInicio
  BY Procesa DEF Init, InvInicio, Sola, Importando

LEMMA NextInicio == Inv /\ InvInicio /\ [Next]_vars => InvInicio'
<1>1. SUFFICES ASSUME Base, SinAbrir, InvInicio, [Next]_vars
               PROVE  InvInicio'
  BY DEF Inv
<1>2. CASE Ajeno
  BY <1>1, <1>2, AjenoInicio
<1>3. ASSUME NEW q \in Consolas, Vaciado(q) \/ Inicializar(q) \/ Abrir(q) \/ Importar(q)
                                 \/ Importado(q) \/ Muere(q)
      PROVE  InvInicio'
  BY <1>1, <1>3, VaciadoInicio, InicializarInicio, AbrirInicio, ImportarInicio, ImportadoInicio,
       MuereInicio
<1>4. CASE UNCHANGED vars
  <2>1. UNCHANGED <<bd, csv, pc, tabla, pendientes, local, limpio, avisos>>
    BY <1>4 DEF vars, importa, historia
  <2>2. ASSUME NEW p \in Consolas, (Sola(p))'
        PROVE  (NadieMas(p) /\ Avance(p))'
    <3>1. Sola(p)
      BY <2>1, <2>2 DEF Sola, Importando
    <3>2. NadieMas(p) /\ Avance(p)
      BY <1>1, <3>1 DEF InvInicio
    <3>3. QED
      BY <2>1, <3>2, AvanceSigue DEF NadieMas
  <2>3. QED
    BY <2>2 DEF InvInicio
<1>5. QED
  BY <1>1, <1>2, <1>3, <1>4, PasosSegunArranque

\* The first lines of their keys, among those of the books whose lines fit.
LEMMA TodasRecogidas ==
  ASSUME Base, Recogidas(Len(historialCSV))
  PROVE  DeCortos(historialBD) = DeCortos(HistorialDelCSV)
<1>1. /\ DOMAIN historialCSV = 1 .. Len(historialCSV)
      /\ \A k \in 1 .. Len(historialCSV) : historialCSV[k].isbn \in ISBNs
  BY FicherosDe
<1>2. ASSUME NEW r \in DeCortos(historialBD)
      PROVE  r \in DeCortos(HistorialDelCSV)
  BY <1>1, <1>2 DEF Recogidas, DeCortos, HistorialDelCSV
<1>3. ASSUME NEW r \in DeCortos(HistorialDelCSV)
      PROVE  r \in DeCortos(historialBD)
  <2>1. PICK k \in 1 .. Len(historialCSV) : r = historialCSV[k] /\ PrimeraDeSuClave(k)
    BY <1>1, <1>3 DEF DeCortos, HistorialDelCSV
  <2>2. r.isbn \in ISBNs \ Largos
    BY <1>3 DEF DeCortos
  <2>3. r \in historialBD
    BY <2>1, <2>2 DEF Recogidas, EsCorta
  <2>4. QED
    BY <2>2, <2>3 DEF DeCortos
<1>4. QED
  BY <1>2, <1>3

(***************************************************************************)
(* Whatever the database held, the start that opens it first after a       *)
(* deletion, has it for itself until its menu, and in which nothing fails, *)
(* leaves in it the catalogue, the loans and the history of the CSV files  *)
(* (InicioFiel), however many consoles deleted it before.                  *)
(***************************************************************************)
THEOREM ElInicioEsFiel == Spec => InicioFiel
<1>1. ASSUME Inv, InvInicio, [Next]_vars, NEW p \in Consolas,
             Importando(p), pc'[p] = "menu", limpio[p], avisos' = {}
      PROVE  /\ librosBD' = (Lineas("libros"))' /\ prestamosBD' = prestamosCSV'
             /\ (DeCortos(historialBD))' = (DeCortos(HistorialDelCSV))'
  <2>1. Base
    BY <1>1 DEF Inv
  <2>2. Importado(p)
    <3>1. ~ Ajeno /\ ~ UNCHANGED vars
      BY <1>1, <2>1, PasoAjeno DEF Importando, vars
    <3>2. PICK q \in Consolas :
            Vaciado(q) \/ Inicializar(q) \/ Abrir(q) \/ Importar(q) \/ Importado(q) \/ Muere(q)
      BY <1>1, <3>1, PasosSegunArranque
    <3>3. ~ Importar(q)
      BY <1>1, <2>1, ImportarDe DEF Importando
    <3>4. ~ Vaciado(q) /\ ~ Inicializar(q)
      BY <1>1, <2>1, VaciadoDe, InicializarDe, Procesa DEF Importando
    <3>5. ~ Muere(q)
      <4>1. Muere(q) => Ir(q, "cerrado")
        BY DEF Muere, Ir
      <4>2. QED
        BY <1>1, <2>1, <4>1, PasoDe, Procesa DEF Importando
    <3>6. ~ Abrir(q)
      <4>1. Abrir(q) => Ir(q, "importar")
        BY <1>1 DEF Abrir
      <4>2. QED
        BY <1>1, <2>1, <4>1, PasoDe, Procesa DEF Importando
    <3>7. Importado(q)
      BY <3>2, <3>3, <3>4, <3>5, <3>6
    <3>8. q = p
      <4>1. Siguiente(q) /\ Importando(q)
        BY <3>7 DEF Importado, Importando
      <4>2. QED
        BY <1>1, <2>1, <4>1, SiguienteDe DEF Importando
    <3>9. QED
      BY <3>7, <3>8
  <2>3. /\ pc[p] = "importar" /\ pendientes[p] = << >> /\ Siguiente(p)
        /\ UNCHANGED <<bd, csv, avisos>>
    BY <2>2 DEF Importado, historia
  <2>4. tabla[p] = "prestamos"
    BY <1>1, <2>1, <2>3, SiguienteDe
  <2>5. Avance(p)
    BY <1>1, <2>3 DEF InvInicio, Sola
  <2>6. /\ librosBD = Lineas("libros") /\ Recogidas(Len(historialCSV))
        /\ prestamosBD \o << >> = prestamosCSV
    BY <2>3, <2>4, <2>5 DEF Avance, EnPrestamos
  <2>7. prestamosBD = prestamosCSV
    BY <2>1, <2>6, FicherosDe, ConcatEmptySeq
  <2>8. DeCortos(historialBD) = DeCortos(HistorialDelCSV)
    BY <2>1, <2>6, TodasRecogidas
  <2>9. UNCHANGED <<librosBD, prestamosBD, historialBD, librosCSV, prestamosCSV, historialCSV>>
    BY <2>3 DEF bd, csv
  <2>10. (Lineas("libros"))' = Lineas("libros")
    BY <2>9 DEF Lineas
  <2>11. (DeCortos(HistorialDelCSV))' = DeCortos(HistorialDelCSV)
         /\ (DeCortos(historialBD))' = DeCortos(historialBD)
    BY <2>9 DEF DeCortos, HistorialDelCSV, PrimeraDeSuClave
  <2>12. QED
    BY <2>6, <2>7, <2>8, <2>9, <2>10, <2>11
<1>2. Inv /\ InvInicio /\ [Next]_vars =>
        [\A p \in Consolas :
           (Importando(p) /\ pc'[p] = "menu" /\ limpio[p] /\ avisos' = {}) =>
             /\ librosBD' = Lineas("libros")'
             /\ prestamosBD' = prestamosCSV'
             /\ DeCortos(historialBD') = DeCortos(HistorialDelCSV')]_vars
  BY <1>1 DEF DeCortos
<1>3. QED
  BY <1>2, InitInicio, NextInicio, SiempreInv, InitInv, NextInv, PTL DEF Spec, InicioFiel
=============================================================================
