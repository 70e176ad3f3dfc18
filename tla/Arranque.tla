------------------------------ MODULE Arranque ------------------------------
(***************************************************************************)
(* The start of a console program, step by step, while the server and the  *)
(* other consoles go on working.                                           *)
(*                                                                         *)
(* main opens datos/libros.db, closes it, deletes it, opens it again, which *)
(* creates the tables, and imports the CSV files into them line by line,   *)
(* each line an INSERT of its own.  A file that some process has open      *)
(* cannot be deleted: the import then goes into the old tables.  Between   *)
(* its close and its second open a console does not have the file open,    *)
(* and another start may delete it as well, or fill it.  The server has    *)
(* the database open while it handles a command, and may begin one at any  *)
(* of these points; a console has it open from its second open to its end. *)
(*                                                                         *)
(* Prestamos looks at the loans and at the steps of a rewritten CSV file,  *)
(* and takes a start to be one step; here the tables are rows, which may   *)
(* be there twice, a start has a step for each call that touches the       *)
(* database or a CSV file, and the replacement of a CSV file is one step.  *)
(* A line of libros.csv is taken to fit in the buffer that reads it.  The  *)
(* users are in Registro.                                                  *)
(***************************************************************************)
EXTENDS Integers, Sequences, FiniteSets, SequencesExt

CONSTANTS
  Usuarios,        \* user ids
  Catalogo,        \* the ISBNs of libros.csv, in the order of the lines
  Largos,          \* books whose lines in historial.csv do not fit in a buffer
  Corte,           \* where the buffer cuts those of each one
  Numero,          \* the id read from the middle of such a line; it may be that of a user
  CopiasIniciales, \* the copies of each book in libros.csv at the beginning
  LineasIniciales, \* the lines of historial.csv at the beginning
  Servidor,        \* the server process
  Consolas,        \* the console programs
  LimiteAtrasados, \* lines that may bar a user; 3 in pedir_libro
  AbreMenu,        \* can menuPrincipal open ../datos/libros.db?
  MaxArranques,    \* bound: starts of consoles
  MaxSucesos       \* bound: requests, calls that fail and processes killed

ISBNs    == ToSet(Catalogo)
Procesos == {Servidor} \cup Consolas

Ayer == "ayer"
Hoy  == "hoy"

Linea == [usuario : Usuarios, isbn : ISBNs]
LineaHistorial ==
  [usuario : Usuarios, isbn : ISBNs, fecha : {Ayer, Hoy}, estado : {"activo", "cerrado"}]

ASSUME ConstantesOK ==
  /\ Catalogo \in Seq(ISBNs)
  /\ IsInjective(Catalogo)
  /\ "ninguno" \notin ISBNs
  /\ Largos \subseteq ISBNs
  /\ Corte \in [Largos -> [hasta : {"titulos", "media", "fechas", "estado"},
                          resto : {"nada", "numero", "texto"}]]
  /\ "nadie" \notin Usuarios \cup {Numero}
  /\ CopiasIniciales \in [ISBNs -> Nat]
  /\ LineasIniciales \in Seq(LineaHistorial)
  /\ Servidor \notin Consolas
  /\ LimiteAtrasados \in Nat \ {0}
  /\ AbreMenu \in BOOLEAN
  /\ MaxArranques \in Nat
  /\ MaxSucesos \in Nat

VARIABLES
  \* datos/libros.db
  librosBD,     \* the rows of LibrosBd, in the order of their ID
  prestamosBD,  \* the rows of Prestamos, in the order of their ID
  historialBD,  \* the rows of historial
  \* datos/*.csv
  librosCSV,    \* the copies of each book
  prestamosCSV, \* line by line
  historialCSV, \* line by line
  \* the processes
  pc,           \* what each process does next
  orden,        \* the loan or return it works on
  cuenta,       \* the number of books the server has counted and sent
  tabla,        \* the table each console imports
  pendientes,   \* what fgets has still to give it
  local,        \* the fields of its last line of historial.csv
  manejador,    \* what the handle main keeps is worth
  \* history variables, read by no action: since the database was deleted,
  limpio,       \* the starts that have had it for themselves
  aperturas,    \* the starts that have opened it to import
  avisos,       \* what else has happened to it
  sobras,       \* rows of Prestamos whose loan stopped before its line
  cortadas,     \* <<usuario, isbn>> of the returns cut
  \* bounds
  arranques, sucesos

bd       == <<librosBD, prestamosBD, historialBD>>
csv      == <<librosCSV, prestamosCSV, historialCSV>>
importa  == <<tabla, pendientes, local, manejador>>
historia == <<limpio, aperturas, avisos, sobras, cortadas>>
cotas    == <<arranques, sucesos>>
vars     == <<bd, csv, pc, orden, cuenta, importa, historia, cotas>>

\* Mutant of Tablas: the loans first.
TablasAlReves == <<"libros", "prestamos", "historial">>

Tablas == <<"libros", "historial", "prestamos">>

SinOrden == [usuario |-> "nadie", isbn |-> "ninguno"]
De(r, u, i) == r.usuario = u /\ r.isbn = i

-----------------------------------------------------------------------------
(* What fgets and sscanf make of the files *)

\* Mutant of Lineas: the first line of libros.csv is taken for a header.
LineasSinCabecera(t) ==
  CASE t = "libros"    -> [k \in 1 .. Len(Catalogo) - 1 |->
                             [isbn |-> Catalogo[k + 1], copias |-> librosCSV[Catalogo[k + 1]]]]
    [] t = "historial" -> historialCSV
    [] t = "prestamos" -> prestamosCSV

Lineas(t) ==
  CASE t = "libros"    -> [k \in DOMAIN Catalogo |->
                             [isbn |-> Catalogo[k], copias |-> librosCSV[Catalogo[k]]]]
    [] t = "historial" -> historialCSV
    [] t = "prestamos" -> prestamosCSV

(***************************************************************************)
(* A line of historial.csv longer than the buffer is read in two pieces.   *)
(* A title and an author that fit in libros.csv leave the cut among the    *)
(* dates and the state: of the first piece sscanf fills the fields that    *)
(* are whole, or a date that is cut; of the second it reads nothing, or a  *)
(* number, stored as the user, or a number and a text, stored as the ISBN. *)
(***************************************************************************)
Principio(l) ==
  CASE Corte[l.isbn].hasta = "titulos" ->
         [usuario |-> l.usuario, isbn |-> l.isbn]
    [] Corte[l.isbn].hasta = "media"   ->
         [usuario |-> l.usuario, isbn |-> l.isbn, fecha |-> "rota"]
    [] Corte[l.isbn].hasta = "fechas"  ->
         [usuario |-> l.usuario, isbn |-> l.isbn, fecha |-> l.fecha]
    [] Corte[l.isbn].hasta = "estado"  -> l

Resto(l) ==
  CASE Corte[l.isbn].resto = "nada"   -> << >>
    [] Corte[l.isbn].resto = "numero" -> [usuario |-> Numero]
    [] Corte[l.isbn].resto = "texto"  -> [usuario |-> Numero, isbn |-> "ninguno"]

\* What fgets gives next, and what it leaves.
EnDosTrozos(l) == "estado" \in DOMAIN l /\ l.isbn \in Largos

Trozo(cola) == IF EnDosTrozos(Head(cola)) THEN Principio(Head(cola)) ELSE Head(cola)

Quedan(cola) ==
  IF EnDosTrozos(Head(cola)) THEN <<Resto(Head(cola))>> \o Tail(cola) ELSE Tail(cola)

(***************************************************************************)
(* procesarLineaHistorial: the fields of the piece over those of the last  *)
(* line.  An invalid date is reported and kept.                            *)
(***************************************************************************)
Sobre(antes, trozo) ==
  [c \in DOMAIN antes |-> IF c \in DOMAIN trozo THEN trozo[c] ELSE antes[c]]

\* The struct is not initialised; a state that is not 0 is "cerrado".
Residuo(estado) ==
  [usuario |-> "nadie", isbn |-> "ninguno", fecha |-> "rota", estado |-> estado]

\* The PRIMARY KEY of historial.
MismaClave(r, q) == De(r, q.usuario, q.isbn) /\ r.fecha = q.fecha

Cabe(fila) == \A r \in historialBD : ~ MismaClave(r, fila)

-----------------------------------------------------------------------------
(* Control *)

Ir(p, paso) == pc' = [pc EXCEPT ![p] = paso]

Reposo(p) == IF p = Servidor THEN "esperando" ELSE "menu"

Termina(p) ==
  /\ Ir(p, Reposo(p))
  /\ orden' = [orden EXCEPT ![p] = SinOrden]

Sucede ==
  /\ sucesos < MaxSucesos
  /\ sucesos' = sucesos + 1

Empieza(p, paso, u, i) ==
  /\ Sucede
  /\ Ir(p, paso)
  /\ orden' = [orden EXCEPT ![p] = [usuario |-> u, isbn |-> i]]

\* p has left the database open behind it, and not yet come to its menu.
Importando(p) == pc[p] \in {"abrir", "importar"}

\* A file that is being read cannot be replaced.
Abierto(t) == \E q \in Consolas : pc[q] = "importar" /\ tabla[q] = t

\* The consoles that have the database open.
LaTiene(q) == pc[q] \notin {"cerrado", "sondeado", "borrado"}

\* Mutant of EnUso: the server does not keep the file from being deleted.
EnUsoPorConsolas == \E q \in Consolas : LaTiene(q)

EnUso == pc[Servidor] # "esperando" \/ \E q \in Consolas : LaTiene(q)

\* A statement of the server: no start has the database for itself.
Escribe(paso) ==
  /\ Ir(Servidor, paso)
  /\ limpio' = [q \in Consolas |-> FALSE]
  /\ UNCHANGED <<csv, orden, cuenta, importa, aperturas, avisos, cotas>>

Init ==
  /\ librosBD = << >> /\ prestamosBD = << >> /\ historialBD = {}
  /\ librosCSV = CopiasIniciales
  /\ historialCSV = LineasIniciales
  /\ prestamosCSV = [k \in DOMAIN LineasIniciales |->
                       [usuario |-> LineasIniciales[k].usuario,
                        isbn |-> LineasIniciales[k].isbn]]
  /\ pc = [p \in Procesos |-> IF p = Servidor THEN "esperando" ELSE "cerrado"]
  /\ orden = [p \in Procesos |-> SinOrden]
  /\ cuenta = 0
  /\ tabla = [p \in Consolas |-> "ninguna"]
  /\ pendientes = [p \in Consolas |-> << >>]
  /\ local = [p \in Consolas |-> Residuo("cerrado")]
  /\ manejador = [p \in Consolas |-> "vivo"]
  /\ limpio = [p \in Consolas |-> FALSE]
  /\ aperturas = 0
  /\ avisos = {}
  /\ sobras = [r \in Linea |-> 0]
  /\ cortadas = {}
  /\ arranques = 0 /\ sucesos = 0

-----------------------------------------------------------------------------
(* The start of a console: main, from the first line to the menu *)

\* sqlite3_open.
Sondear(p) ==
  /\ pc[p] = "cerrado"
  /\ arranques < MaxArranques
  /\ arranques' = arranques + 1
  /\ Ir(p, "sonda")
  /\ UNCHANGED <<bd, csv, orden, cuenta, importa, historia, sucesos>>

\* sqlite3_close_v2.
CerrarSonda(p) ==
  /\ pc[p] = "sonda"
  /\ Ir(p, "sondeado")
  /\ UNCHANGED <<bd, csv, orden, cuenta, importa, historia, cotas>>

\* Mutant of Vacia: remove of ../datos/libros.db.
VaciaOtra ==
  /\ limpio' = [q \in Consolas |-> FALSE]
  /\ aperturas' = 0
  /\ avisos' = {}
  /\ sobras' = [r \in Linea |-> 0]
  /\ cortadas' = {}
  /\ UNCHANGED bd

\* remove, when it can: no rows are left, nor anything that happened to them.
Vacia ==
  /\ librosBD' = << >> /\ prestamosBD' = << >> /\ historialBD' = {}
  /\ limpio' = [q \in Consolas |-> FALSE]
  /\ aperturas' = 0
  /\ avisos' = {}
  /\ sobras' = [r \in Linea |-> 0]
  /\ cortadas' = {}

Borrar(p) ==
  /\ pc[p] = "sondeado"
  /\ Ir(p, "borrado")
  /\ IF EnUso THEN UNCHANGED <<bd, historia>> ELSE Vacia
  /\ UNCHANGED <<csv, orden, cuenta, importa, cotas>>

(***************************************************************************)
(* inicializarBaseDeDatos.  Tables that are there are kept.  bd.c defines  *)
(* the parameter as sqlite3 ** and main passes the closed sqlite3 *: the   *)
(* new handle is written into the block main still points at, which is the *)
(* new connection itself if malloc gave the block again, and otherwise a   *)
(* handle that every call refuses.                                         *)
(***************************************************************************)
Inicializar(p) ==
  /\ pc[p] = "borrado"
  /\ \E m \in {"vivo", "muerto"} :
        /\ manejador' = [manejador EXCEPT ![p] = m]
        /\ avisos' = IF m = "muerto" THEN avisos \cup {"muerto"} ELSE avisos
  /\ limpio' = [q \in Consolas |-> q = p /\ aperturas = 0]
  /\ aperturas' = aperturas + 1
  /\ tabla' = [tabla EXCEPT ![p] = Tablas[1]]
  /\ Ir(p, "abrir")
  /\ UNCHANGED <<bd, csv, orden, cuenta, pendientes, local, sobras, cortadas, cotas>>

\* What follows the table p imports.
Siguiente(p) ==
  LET n == CHOOSE k \in DOMAIN Tablas : Tablas[k] = tabla[p] IN
  /\ local' = [local EXCEPT ![p] = Residuo("cerrado")]
  /\ IF n < Len(Tablas)
     THEN /\ tabla' = [tabla EXCEPT ![p] = Tablas[n + 1]]
          /\ Ir(p, "abrir")
     ELSE /\ tabla' = [tabla EXCEPT ![p] = "ninguna"]
          /\ Ir(p, "menu")

(***************************************************************************)
(* fopen, and the first fgets, which fills the buffer of the stream with   *)
(* the file as it is now.  A file that does not open is skipped.           *)
(***************************************************************************)
Abrir(p) ==
  /\ pc[p] = "abrir"
  /\ \/ /\ pendientes' = [pendientes EXCEPT ![p] = Lineas(tabla[p])]
        /\ \E e \in {"activo", "cerrado"} :
              /\ e = "activo" => tabla[p] = "historial"
              /\ local' = [local EXCEPT ![p] = Residuo(e)]
        /\ Ir(p, "importar")
        /\ UNCHANGED <<tabla, avisos, sucesos>>
     \/ /\ Sucede
        /\ avisos' = avisos \cup {"corte"}
        /\ Siguiente(p)
        /\ UNCHANGED pendientes
  /\ UNCHANGED <<bd, csv, orden, cuenta, manejador, limpio, aperturas, sobras, cortadas,
                 arranques>>

\* Mutant of Inserta: INSERT OR REPLACE.
InsertaOReemplaza(t, fila) ==
  \/ /\ t = "libros"
     /\ librosBD' = Append(librosBD, fila)
     /\ UNCHANGED <<prestamosBD, historialBD>>
  \/ /\ t = "historial"
     /\ historialBD' = {r \in historialBD : ~ MismaClave(r, fila)} \cup {fila}
     /\ UNCHANGED <<librosBD, prestamosBD>>
  \/ /\ t = "prestamos"
     /\ prestamosBD' = Append(prestamosBD, fila)
     /\ UNCHANGED <<librosBD, historialBD>>

(***************************************************************************)
(* One line: an INSERT of its own.  LibrosBd and Prestamos have no key but *)
(* their ID and take a row twice; historial refuses one.                   *)
(***************************************************************************)
Inserta(t, fila) ==
  \/ /\ t = "libros"
     /\ librosBD' = Append(librosBD, fila)
     /\ UNCHANGED <<prestamosBD, historialBD>>
  \/ /\ t = "historial"
     /\ historialBD' = IF Cabe(fila) THEN historialBD \cup {fila} ELSE historialBD
     /\ UNCHANGED <<librosBD, prestamosBD>>
  \/ /\ t = "prestamos"
     /\ prestamosBD' = Append(prestamosBD, fila)
     /\ UNCHANGED <<librosBD, historialBD>>

Importar(p) ==
  LET trozo == Trozo(pendientes[p])
      fila  == IF tabla[p] = "historial" THEN Sobre(local[p], trozo) ELSE trozo
  IN
  /\ pc[p] = "importar"
  /\ pendientes[p] # << >>
  /\ pendientes' = [pendientes EXCEPT ![p] = Quedan(@)]
  /\ local' = IF tabla[p] = "historial" THEN [local EXCEPT ![p] = fila] ELSE local
  /\ \/ /\ manejador[p] = "vivo"
        /\ Inserta(tabla[p], fila)
        /\ UNCHANGED <<avisos, sucesos>>
     \/ /\ manejador[p] = "muerto"
        /\ UNCHANGED <<bd, avisos, sucesos>>
     \/ /\ manejador[p] = "vivo"
        /\ Sucede
        /\ avisos' = avisos \cup {"corte"}
        /\ UNCHANGED bd
  /\ UNCHANGED <<csv, pc, orden, cuenta, tabla, manejador, limpio, aperturas, sobras,
                 cortadas, arranques>>

\* fclose.
Importado(p) ==
  /\ pc[p] = "importar"
  /\ pendientes[p] = << >>
  /\ Siguiente(p)
  /\ UNCHANGED <<bd, csv, orden, cuenta, pendientes, manejador, historia, cotas>>

Salir(p) ==
  /\ pc[p] = "menu"
  /\ Ir(p, "cerrado")
  /\ UNCHANGED <<bd, csv, orden, cuenta, importa, historia, cotas>>

\* Options 4 and 5 of menuPrincipal.
MenuPrincipal(p, u, i) ==
  /\ AbreMenu
  /\ pc[p] = "menu"
  /\ \E paso \in {"csv_pedir", "csv_devolver"} : Empieza(p, paso, u, i)
  /\ UNCHANGED <<bd, csv, cuenta, importa, historia, arranques>>

-----------------------------------------------------------------------------
(* The commands of the server, which change every row of a book *)

ConMas(i, n) ==
  [k \in DOMAIN librosBD |-> IF librosBD[k].isbn = i THEN [librosBD[k] EXCEPT !.copias = @ + n]
                             ELSE librosBD[k]]

(***************************************************************************)
(* pedir_libro_remoto, its checks: a loan that is refused changes nothing. *)
(***************************************************************************)
Pedir(u, i) ==
  /\ pc[Servidor] = "esperando"
  /\ \E k \in DOMAIN librosBD : librosBD[k].isbn = i
  /\ Empieza(Servidor, "restar", u, i)
  /\ UNCHANGED <<bd, csv, cuenta, importa, historia, arranques>>

Restar ==
  /\ pc[Servidor] = "restar"
  /\ librosBD' = ConMas(orden[Servidor].isbn, -1)
  /\ Escribe("insertar")
  /\ UNCHANGED <<prestamosBD, historialBD, sobras, cortadas>>

Insertar ==
  /\ pc[Servidor] = "insertar"
  /\ prestamosBD' = Append(prestamosBD, orden[Servidor])
  /\ Escribe("anotar")
  /\ UNCHANGED <<librosBD, historialBD, sobras, cortadas>>

\* The loan on p stops with its row of Prestamos inserted and its line not written.
Sobra(p) ==
  sobras' = IF p = Servidor /\ pc[p] \in {"anotar", "csv_pedir", "csv_prestamo"}
            THEN [sobras EXCEPT ![orden[p]] = @ + 1] ELSE sobras

Anotar ==
  LET fila == [usuario |-> orden[Servidor].usuario, isbn |-> orden[Servidor].isbn,
               fecha |-> Hoy, estado |-> "activo"]
  IN
  /\ pc[Servidor] = "anotar"
  /\ \/ /\ Cabe(fila)
        /\ historialBD' = historialBD \cup {fila}
        /\ Escribe("csv_pedir")
        /\ UNCHANGED sobras
     \/ /\ ~ Cabe(fila)
        /\ Sobra(Servidor)
        /\ Termina(Servidor)
        /\ UNCHANGED <<historialBD, csv, cuenta, importa, limpio, aperturas, avisos, cotas>>
  /\ UNCHANGED <<librosBD, prestamosBD, cortadas>>

\* devolver_libro_remoto: the row of lowest ID, or a refusal.
Devolver(u, i) ==
  /\ pc[Servidor] = "esperando"
  /\ \E k \in DOMAIN prestamosBD : De(prestamosBD[k], u, i)
  /\ Empieza(Servidor, "borrar", u, i)
  /\ UNCHANGED <<bd, csv, cuenta, importa, historia, arranques>>

\* The imports only append: the row is still the first.
BorrarFila ==
  /\ pc[Servidor] = "borrar"
  /\ prestamosBD' = RemoveFirst(prestamosBD, orden[Servidor])
  /\ Escribe("sumar")
  /\ UNCHANGED <<librosBD, historialBD, sobras, cortadas>>

Sumar ==
  /\ pc[Servidor] = "sumar"
  /\ librosBD' = ConMas(orden[Servidor].isbn, 1)
  /\ Escribe("cerrar")
  /\ UNCHANGED <<prestamosBD, historialBD, sobras, cortadas>>

Cerrada(r, o) ==
  IF De(r, o.usuario, o.isbn) /\ r.estado = "activo" THEN [r EXCEPT !.estado = "cerrado"] ELSE r

Cerrar ==
  /\ pc[Servidor] = "cerrar"
  /\ historialBD' = {Cerrada(r, orden[Servidor]) : r \in historialBD}
  /\ Escribe("csv_devolver")
  /\ UNCHANGED <<librosBD, prestamosBD, sobras, cortadas>>

\* CMD_LISTAR_LIBROS: the query is run to count, and again for the lines.
Contar ==
  /\ pc[Servidor] = "esperando"
  /\ Empieza(Servidor, "enviar", "nadie", "ninguno")
  /\ cuenta' = Len(librosBD)
  /\ UNCHANGED <<bd, csv, importa, historia, arranques>>

Enviar ==
  /\ pc[Servidor] = "enviar"
  /\ cuenta' = 0
  /\ Termina(Servidor)
  /\ UNCHANGED <<bd, csv, importa, historia, cotas>>

-----------------------------------------------------------------------------
(* pedir_libro and devolver_libro, for the server and for a console *)

\* contar_prestamos_atrasados counts all the lines of u, or none (see Prestamos).
PuedeRechazar(u) ==
  Cardinality({k \in DOMAIN prestamosCSV : prestamosCSV[k].usuario = u}) >= LimiteAtrasados

\* Mutant of HayCopias: "curr_copias < 0" for "curr_copias <= 0".
HayCopiasConCero(n) == n >= 0

HayCopias(n) == n > 0

CsvPedir(p) ==
  LET i == orden[p].isbn
      lleva == HayCopias(librosCSV[i]) /\ ~ Abierto("libros")
  IN
  /\ pc[p] = "csv_pedir"
  /\ \/ /\ lleva
        /\ librosCSV' = [librosCSV EXCEPT ![i] = @ - 1]
        /\ Ir(p, "csv_prestamo")
        /\ UNCHANGED <<orden, sobras>>
     \/ /\ PuedeRechazar(orden[p].usuario) \/ ~ lleva
        /\ Sobra(p)
        /\ Termina(p)
        /\ UNCHANGED librosCSV
  /\ UNCHANGED <<bd, prestamosCSV, historialCSV, cuenta, importa, limpio, aperturas, avisos,
                 cortadas, cotas>>

\* A start that has not opened prestamos.csv yet will import the line as well.
CsvPrestamo(p) ==
  /\ pc[p] = "csv_prestamo"
  /\ prestamosCSV' = Append(prestamosCSV, orden[p])
  /\ avisos' = IF /\ p = Servidor
                  /\ \E q \in Consolas : Importando(q) /\ (tabla[q] = "prestamos" => pc[q] = "abrir")
               THEN avisos \cup {"solape"} ELSE avisos
  /\ Ir(p, "csv_historial")
  /\ UNCHANGED <<bd, librosCSV, historialCSV, orden, cuenta, importa, limpio, aperturas,
                 sobras, cortadas, cotas>>

CsvHistorial(p) ==
  /\ pc[p] = "csv_historial"
  /\ historialCSV' =
       Append(historialCSV, [usuario |-> orden[p].usuario, isbn |-> orden[p].isbn,
                             fecha |-> Hoy, estado |-> "activo"])
  /\ Termina(p)
  /\ UNCHANGED <<bd, librosCSV, prestamosCSV, cuenta, importa, historia, cotas>>

CsvDevolver(p) ==
  /\ pc[p] = "csv_devolver"
  /\ \/ /\ ~ Abierto("libros")
        /\ librosCSV' = [librosCSV EXCEPT ![orden[p].isbn] = @ + 1]
        /\ Ir(p, "csv_cierre")
        /\ UNCHANGED orden
     \/ /\ Abierto("libros")
        /\ Termina(p)
        /\ UNCHANGED librosCSV
  /\ UNCHANGED <<bd, prestamosCSV, historialCSV, cuenta, importa, historia, cotas>>

CsvCierre(p) ==
  /\ pc[p] = "csv_cierre"
  /\ historialCSV' =
       IF Abierto("historial") THEN historialCSV
       ELSE [k \in DOMAIN historialCSV |-> Cerrada(historialCSV[k], orden[p])]
  /\ Termina(p)
  /\ UNCHANGED <<bd, librosCSV, prestamosCSV, cuenta, importa, historia, cotas>>

-----------------------------------------------------------------------------
(* Failures *)

(***************************************************************************)
(* An operation stops before its next step: a call fails, or the process   *)
(* is killed (the server is started again, and touches nothing).           *)
(***************************************************************************)
Interrumpe(p) ==
  /\ orden[p] # SinOrden
  /\ Sucede
  /\ Sobra(p)
  /\ cortadas' = IF pc[p] \in {"sumar", "cerrar"}
                 THEN cortadas \cup {<<orden[p].usuario, orden[p].isbn>>} ELSE cortadas
  /\ Termina(p)
  /\ UNCHANGED <<bd, csv, cuenta, importa, limpio, aperturas, avisos, arranques>>

\* A console is killed.
Muere(p) ==
  /\ pc[p] # "cerrado"
  /\ Sucede
  /\ avisos' = IF Importando(p) THEN avisos \cup {"corte"} ELSE avisos
  /\ pc' = [pc EXCEPT ![p] = "cerrado"]
  /\ orden' = [orden EXCEPT ![p] = SinOrden]
  /\ tabla' = [tabla EXCEPT ![p] = "ninguna"]
  /\ pendientes' = [pendientes EXCEPT ![p] = << >>]
  /\ local' = [local EXCEPT ![p] = Residuo("cerrado")]
  /\ UNCHANGED <<bd, csv, cuenta, manejador, limpio, aperturas, sobras, cortadas,
                 arranques>>

-----------------------------------------------------------------------------
Inicio(p) ==
  \/ Sondear(p) \/ CerrarSonda(p) \/ Borrar(p) \/ Inicializar(p)
  \/ Abrir(p) \/ Importar(p) \/ Importado(p)
  \/ Salir(p) \/ Muere(p)

PasoServidor ==
  \/ \E u \in Usuarios, i \in ISBNs : Pedir(u, i) \/ Devolver(u, i)
  \/ Restar \/ Insertar \/ Anotar
  \/ BorrarFila \/ Sumar \/ Cerrar
  \/ Contar \/ Enviar

PasoCSV(p) ==
  CsvPedir(p) \/ CsvPrestamo(p) \/ CsvHistorial(p) \/ CsvDevolver(p) \/ CsvCierre(p)

Next ==
  \/ PasoServidor
  \/ \E p \in Procesos : PasoCSV(p) \/ Interrumpe(p)
  \/ \E p \in Consolas : Inicio(p) \/ \E u \in Usuarios, i \in ISBNs : MenuPrincipal(p, u, i)

Spec == Init /\ [][Next]_vars
-----------------------------------------------------------------------------
(* Properties *)

(***************************************************************************)
(* Every variable keeps its shape; the state of a row is 0 or not, even    *)
(* when the field of the struct was never written.                         *)
(***************************************************************************)
Leidos == [usuario : Usuarios \cup {Numero, "nadie"}, isbn : ISBNs \cup {"ninguno"},
           fecha : {Ayer, Hoy, "rota"}, estado : {"activo", "cerrado"}]
Orden  == Linea \cup {SinOrden}

Pasos == {"esperando", "restar", "insertar", "anotar", "borrar", "sumar", "cerrar", "enviar",
          "cerrado", "sonda", "sondeado", "borrado", "abrir", "importar", "menu",
          "csv_pedir", "csv_prestamo", "csv_historial", "csv_devolver", "csv_cierre"}

TypeOK ==
  /\ librosBD \in Seq([isbn : ISBNs, copias : Int])
  /\ prestamosBD \in Seq(Linea)
  /\ historialBD \subseteq Leidos
  /\ librosCSV \in [ISBNs -> Nat]
  /\ prestamosCSV \in Seq(Linea)
  /\ historialCSV \in Seq(LineaHistorial)
  /\ pc \in [Procesos -> Pasos]
  /\ orden \in [Procesos -> Orden]
  /\ cuenta \in Nat
  /\ tabla \in [Consolas -> ToSet(Tablas) \cup {"ninguna"}]
  /\ local \in [Consolas -> Leidos]
  /\ manejador \in [Consolas -> {"vivo", "muerto"}]
  /\ limpio \in [Consolas -> BOOLEAN]
  /\ aperturas \in Nat
  /\ avisos \subseteq {"muerto", "corte", "solape"}
  /\ sobras \in [Linea -> Nat]
  /\ cortadas \subseteq Usuarios \X ISBNs

(***************************************************************************)
(* A console that is the first to open the database since its deletion,    *)
(* and has it for itself until its menu, leaves in it the catalogue and    *)
(* the loans of the CSV files, in order, and the history of every book     *)
(* whose lines fit in the buffer: the first line of each key, and nothing  *)
(* else.                                                                   *)
(***************************************************************************)
PrimeraDeSuClave(k) ==
  \A j \in 1 .. k - 1 : ~ MismaClave(historialCSV[j], historialCSV[k])

HistorialDelCSV ==
  {historialCSV[k] : k \in {j \in DOMAIN historialCSV : PrimeraDeSuClave(j)}}

DeCortos(filas) == {r \in filas : r.isbn \in ISBNs \ Largos}

InicioFiel ==
  [][\A p \in Consolas :
       (Importando(p) /\ pc'[p] = "menu" /\ limpio[p] /\ avisos' = {}) =>
         /\ librosBD' = Lineas("libros")'
         /\ prestamosBD' = prestamosCSV'
         /\ DeCortos(historialBD') = DeCortos(HistorialDelCSV')]_vars

(***************************************************************************)
(* Once no console is importing, a loan that historial shows as active to  *)
(* a user has the row of Prestamos that its return looks for, although     *)
(* loans and returns went on between the import of the one table and of    *)
(* the other, whatever start could not delete the old tables, and however  *)
(* many deleted them and import together.  Rests on the order of the       *)
(* imports and on the order of the writes.  Not said of a row that may be  *)
(* put together from the two pieces of a line that does not fit in the     *)
(* buffer: its user may be the day of a date.                              *)
(***************************************************************************)
Devolviendo(u, i) ==
  /\ pc[Servidor] \in {"sumar", "cerrar"}
  /\ De(orden[Servidor], u, i)

Asentada == avisos \cap {"corte", "muerto"} = {} /\ \A p \in Consolas : ~ Importando(p)

Compuesta(h) == h.isbn \notin ISBNs \/ (h.isbn \in Largos /\ h.usuario = Numero)

ActivoConFila ==
  Asentada =>
    \A h \in historialBD : h.estado = "activo" /\ ~ Compuesta(h) =>
      \/ \E k \in DOMAIN prestamosBD : De(prestamosBD[k], h.usuario, h.isbn)
      \/ Devolviendo(h.usuario, h.isbn)
      \/ <<h.usuario, h.isbn>> \in cortadas

(***************************************************************************)
(* How many returns a user is granted: a line of prestamos.csv stands for  *)
(* one row of Prestamos for each start that has opened the database since  *)
(* it was deleted, and one more if the server wrote it while a console was *)
(* starting; besides, a loan that stopped before its line leaves a row.    *)
(***************************************************************************)
Cuantas(filas, r) == Cardinality({k \in DOMAIN filas : filas[k] = r})

Veces == aperturas + IF "solape" \in avisos THEN 1 ELSE 0

EnVuelo(r) ==
  IF pc[Servidor] \in {"anotar", "csv_pedir", "csv_prestamo"} /\ orden[Servidor] = r
  THEN 1 ELSE 0

DevolucionesAcotadas ==
  \A r \in Linea :
    Cuantas(prestamosBD, r) <= Veces * Cuantas(prestamosCSV, r) + EnVuelo(r) + sobras[r]

(***************************************************************************)
(* Once no console is importing, the catalogue that the client lists shows *)
(* each book once for each start that has opened the database since it was *)
(* deleted, whether they deleted it together or could not delete it: never *)
(* a book missing, and no book more often than another.                    *)
(***************************************************************************)
CatalogoRepetido ==
  Asentada =>
    \A i \in ISBNs :
      Cardinality({k \in DOMAIN librosBD : librosBD[k].isbn = i}) = aperturas

(***************************************************************************)
(* Between the two queries of a listing the table may grow, by a start     *)
(* that imports into it, and does not shrink: the client never waits for a *)
(* book that was counted and is gone.                                      *)
(***************************************************************************)
NadieEsperaLineas == pc[Servidor] = "enviar" => Len(librosBD) >= cuenta
=============================================================================
