------------------------------ MODULE Prestamos ------------------------------
(***************************************************************************)
(* Loans and returns over the two stores of the library: the SQLite        *)
(* database datos/libros.db and the CSV files of datos/.                   *)
(*                                                                         *)
(* The server (servidor.c) handles one command at a time: it changes the   *)
(* database statement by statement, each one committed on its own, and     *)
(* then calls the CSV routine of the console program (prestamo.c).  The    *)
(* console programs (main.c, menuPrincipal.c) call only the CSV routine,   *)
(* and rebuild the database from the CSV files when they start.  All of    *)
(* them may be interrupted between two statements.                         *)
(*                                                                         *)
(* Granularity: one SQL statement, or one line appended to a file, per     *)
(* step.  libros.csv and historial.csv are rewritten in four steps, and    *)
(* nothing locks them: the file is opened and read; both files are closed, *)
(* and the new text reaches the temporary one; the old file is removed;    *)
(* the temporary file takes its name.  Every process uses the same         *)
(* temporary files.  As in ReemplazoCSV, where every call is a step, a     *)
(* file that some process has open is neither removed nor renamed.         *)
(***************************************************************************)
EXTENDS Integers, Sequences, FiniteSets

CONSTANTS
  Usuarios,       \* ids the clients and the console sessions work with
  ISBNs,          \* the ISBNs of libros.csv
  Desconocido,    \* an ISBN that is not in the catalogue
  CopiasIniciales,\* the copies of each book in libros.csv at the beginning
  Servidor,       \* the server process
  Consolas,       \* the console programs
  AbreMenu,       \* can menuPrincipal open ../datos/libros.db?
  Plazo,          \* days of a loan; 30 in calcular_fecha_devolucion
  LimiteAtrasados,\* overdue loans that bar a user; 3 in pedir_libro
  MaxPeticiones,  \* bound: loans and returns asked for
  MaxDia,         \* bound: last day
  MaxFallos       \* bound: calls that fail and processes that are killed

ASSUME ConstantesOK ==
  /\ Desconocido \notin ISBNs \cup Usuarios
  /\ Servidor \notin Consolas
  /\ CopiasIniciales \in [ISBNs -> Nat]
  /\ AbreMenu \in BOOLEAN
  /\ Plazo \in Nat
  /\ LimiteAtrasados \in Nat \ {0}
  /\ MaxPeticiones \in Nat
  /\ MaxDia \in Nat
  /\ MaxFallos \in Nat

VARIABLES
  \* datos/libros.db
  librosBD,       \* LibrosBd: Copias and Disponible of each book
  prestamosBD,    \* Prestamos: the set of its rows
  siguienteID,    \* AUTOINCREMENT of Prestamos
  historialBD,    \* historial: the set of its rows
  \* datos/*.csv
  librosCSV,      \* libros.csv; its last text when it has been removed
  prestamosCSV,   \* prestamos.csv, line by line
  historialCSV,   \* historial.csv, line by line; likewise
  existe,         \* which of the two that are rewritten exist
  tempLibros,     \* temp.csv
  tempHistorial,  \* temp_hist.csv
  existeTemp,     \* the files whose temporary file exists
  \* the processes
  hoy,            \* the day the clock shows
  pc,             \* what each process does next
  tramo,          \* where it is in the rewriting of a file
  copiaLibros,    \* what it will write to temp.csv when it closes it
  copiaHistorial, \* what it will write to temp_hist.csv
  orden,          \* the arguments and locals of the operation it runs
  resultado,      \* how its last operation ended
  \* history variables, read by no action
  fondo,          \* copies and loans of the database when it was last rebuilt
  perdidas,       \* copies the database lost to interruptions since then
  cortadas,       \* <<usuario, isbn>> of the returns interrupted since then
  deriva,         \* what may have left librosBD ahead of librosCSV since then
  alterados,      \* files on which two processes worked at once since then, or
                  \* that a rewriting cut before its rename has left nowhere
  \* bounds
  peticiones, fallos

bd      == <<librosBD, prestamosBD, siguienteID, historialBD>>
copias  == <<tempLibros, tempHistorial, existeTemp, copiaLibros, copiaHistorial>>
csv     == <<librosCSV, prestamosCSV, historialCSV, existe, copias>>
proceso == <<pc, tramo, orden, resultado>>
historia == <<fondo, perdidas, cortadas, deriva, alterados>>
cotas   == <<peticiones, fallos>>
vars    == <<bd, csv, hoy, proceso, historia, cotas>>

Procesos == {Servidor} \cup Consolas
Pedibles == ISBNs \cup {Desconocido}

ACTIVO   == 0
DEVUELTO == 1
ATRASADO == 2

-----------------------------------------------------------------------------
(* Rows and lines *)

FilaPrestamo  == [id: Nat, usuario: Usuarios, isbn: ISBNs]
LineaPrestamo == [usuario: Usuarios, isbn: ISBNs]
FilaHistorial == [usuario: Usuarios, isbn: ISBNs, fecha: Nat,
                  estado: {ACTIVO, DEVUELTO, ATRASADO}]
Libro         == [copias: Int, disponible: {0, 1}]
Orden         == [usuario: Usuarios \cup {Desconocido}, isbn: Pedibles,
                  fila: Nat, fecha: Nat]

SinOrden == [usuario |-> Desconocido, isbn |-> Desconocido, fila |-> 0, fecha |-> 0]

Archivos == {"libros", "historial"}

(***************************************************************************)
(* The text of libros.csv, and the rows of LibrosBd.  A book is missing    *)
(* when a copy that was cut short has been installed.                      *)
(***************************************************************************)
EsTexto(libros) == \E S \in SUBSET ISBNs : libros \in [S -> Libro]

SinLibros == [i \in {} |-> CopiasIniciales[i]]

LibroInicial(n) == [copias |-> n, disponible |-> IF n > 0 THEN 1 ELSE 0]

\* Mutants: the flag is the counter; the CASE tests the counter before the change;
\* "copias++" is missing.
RestarSQLBanderaContador(l) == [copias |-> l.copias - 1, disponible |-> l.copias - 1]
RestarSQLBanderaVieja(l) ==
  [copias |-> l.copias - 1, disponible |-> IF l.copias > 0 THEN 1 ELSE 0]
SumarCSVNada(l) == l

(***************************************************************************)
(* The four statements that change a book: two UPDATEs of LibrosBd, which  *)
(* see the counter before the change, and two rewrites of a line of        *)
(* libros.csv, which change it first.                                      *)
(***************************************************************************)
RestarSQL(l) ==
  [copias |-> l.copias - 1, disponible |-> IF l.copias - 1 > 0 THEN 1 ELSE 0]

SumarSQL(l) ==
  [copias |-> l.copias + 1, disponible |-> IF l.copias + 1 > 0 THEN 1 ELSE 0]

RestarCSV(l) ==
  LET n == l.copias - 1 IN [copias |-> n, disponible |-> IF n > 0 THEN 1 ELSE 0]

SumarCSV(l) ==
  LET n == l.copias + 1 IN [copias |-> n, disponible |-> IF n > 0 THEN 1 ELSE 0]

\* Mutant of HayCopias: "curr_copias < 0" for "curr_copias <= 0".
HayCopiasConCero(n) == n >= 0

HayCopias(n) == n > 0

De(r, u, i) == r.usuario = u /\ r.isbn = i

Filas(i) == {r \in prestamosBD : r.isbn = i}

EnLaBD(i) == IF i \in DOMAIN librosBD THEN librosBD[i].copias ELSE 0

(***************************************************************************)
(* The lines contar_prestamos_atrasados may count for u.  A line of        *)
(* prestamos.csv has two fields and the format asks for seven, so sscanf   *)
(* never writes "estado" and the comparison reads an uninitialised local,  *)
(* the same stack slot for every line: all the lines of u count, or none.  *)
(***************************************************************************)
Conteos(u) ==
  {0, Cardinality({k \in DOMAIN prestamosCSV : prestamosCSV[k].usuario = u})}

PuedeRechazar(u) == \E n \in Conteos(u) : n >= LimiteAtrasados
PuedeAceptar(u)  == \E n \in Conteos(u) : n < LimiteAtrasados

(***************************************************************************)
(* A return closes every active loan of the book by that user; it is late  *)
(* when the day of return is after fecha_devolucion.                       *)
(***************************************************************************)
Veredicto(fecha) == IF hoy > fecha + Plazo THEN ATRASADO ELSE DEVUELTO

\* Mutants of SeCierra: without "estado = 0"; only the loan of today.
SeCierraSiempre(r, u, i) == De(r, u, i)
SeCierraHoy(r, u, i) == De(r, u, i) /\ r.estado = ACTIVO /\ r.fecha = hoy

SeCierra(r, u, i) == De(r, u, i) /\ r.estado = ACTIVO

Cerrada(r, u, i) ==
  IF SeCierra(r, u, i) THEN [r EXCEPT !.estado = Veredicto(r.fecha)] ELSE r

(***************************************************************************)
(* The PRIMARY KEY of historial is (usuario, isbn, fecha_prestamo).        *)
(***************************************************************************)
MismaClave(r, q) == De(r, q.usuario, q.isbn) /\ r.fecha = q.fecha

-----------------------------------------------------------------------------
(* Control *)

PasosBD  == {"pedir_restar", "pedir_prestamo", "pedir_historial",
             "devolver_borrar", "devolver_sumar", "devolver_historial"}
PasosCSV == {"csv_pedir", "csv_prestamo", "csv_historial",
             "csv_devolver", "csv_cierre"}

(***************************************************************************)
(* A rewriting: "abrir" when it has not begun; with both files open, to be *)
(* closed with the whole text ("cerrar") or given up ("descartar"); with   *)
(* both closed, the old file to be removed, the temporary one to be        *)
(* renamed, or, given up, to be removed ("quitar").                        *)
(***************************************************************************)
Tramos == {"abrir", "cerrar", "descartar", "borrar", "renombrar", "quitar"}

Reposo(p) == IF p = Servidor THEN "esperando" ELSE "menu"
EnCurso(p) == pc[p] \in PasosBD \cup PasosCSV

Empieza(p, paso, u, i, fila) ==
  /\ pc' = [pc EXCEPT ![p] = paso]
  /\ tramo' = [tramo EXCEPT ![p] = "abrir"]
  /\ orden' = [orden EXCEPT ![p] =
                 [usuario |-> u, isbn |-> i, fila |-> fila, fecha |-> 0]]
  /\ resultado' = [resultado EXCEPT ![p] = "nada"]

Sigue(p, paso) ==
  /\ pc' = [pc EXCEPT ![p] = paso]
  /\ tramo' = [tramo EXCEPT ![p] = "abrir"]
  /\ UNCHANGED <<orden, resultado>>

Avanza(p, t) ==
  /\ tramo' = [tramo EXCEPT ![p] = t]
  /\ UNCHANGED <<pc, orden, resultado>>

Termina(p, reposo, r) ==
  /\ pc' = [pc EXCEPT ![p] = reposo]
  /\ tramo' = [tramo EXCEPT ![p] = "abrir"]
  /\ orden' = [orden EXCEPT ![p] = SinOrden]
  /\ resultado' = [resultado EXCEPT ![p] = r]

Pide(p) ==
  /\ peticiones < MaxPeticiones
  /\ peticiones' = peticiones + 1
  /\ UNCHANGED fallos

-----------------------------------------------------------------------------
Init ==
  /\ librosCSV = [i \in ISBNs |-> LibroInicial(CopiasIniciales[i])]
  /\ prestamosCSV = << >>
  /\ historialCSV = << >>
  /\ existe = Archivos
  /\ tempLibros = SinLibros
  /\ tempHistorial = << >>
  /\ existeTemp = {}
  /\ librosBD = librosCSV
  /\ prestamosBD = {}
  /\ siguienteID = 1
  /\ historialBD = {}
  /\ hoy = 0
  /\ pc = [p \in Procesos |-> IF p = Servidor THEN "esperando" ELSE "cerrado"]
  /\ tramo = [p \in Procesos |-> "abrir"]
  /\ copiaLibros = [p \in Procesos |-> SinLibros]
  /\ copiaHistorial = [p \in Procesos |-> << >>]
  /\ orden = [p \in Procesos |-> SinOrden]
  /\ resultado = [p \in Procesos |-> "nada"]
  /\ fondo = CopiasIniciales
  /\ perdidas = [i \in ISBNs |-> 0]
  /\ cortadas = {}
  /\ deriva = [i \in ISBNs |-> 0]
  /\ alterados = {}
  /\ peticiones = 0
  /\ fallos = 0

-----------------------------------------------------------------------------
(* pedir_libro_remoto: a loan asked of the server *)

(***************************************************************************)
(* Steps 1 and 2: the overdue count, and the SELECT.  The number of copies *)
(* is read and not looked at.                                              *)
(***************************************************************************)
PedirRemoto(u, i) ==
  /\ pc[Servidor] = "esperando"
  /\ Pide(Servidor)
  /\ \/ /\ PuedeAceptar(u)
        /\ i \in DOMAIN librosBD
        /\ Empieza(Servidor, "pedir_restar", u, i, 0)
     \/ /\ PuedeRechazar(u) \/ i \notin DOMAIN librosBD
        /\ Termina(Servidor, "esperando", "error")
  /\ UNCHANGED <<bd, csv, hoy, historia>>

(***************************************************************************)
(* Step 3: UPDATE LibrosBd SET Copias = Copias - 1, Disponible = ...       *)
(***************************************************************************)
PedirRestar ==
  /\ pc[Servidor] = "pedir_restar"
  /\ librosBD' = [librosBD EXCEPT ![orden[Servidor].isbn] = RestarSQL(@)]
  /\ Sigue(Servidor, "pedir_prestamo")
  /\ UNCHANGED <<prestamosBD, siguienteID, historialBD, csv, hoy, historia, cotas>>

(***************************************************************************)
(* Step 4: INSERT INTO Prestamos (UsuarioID, ISBN).                        *)
(***************************************************************************)
PedirPrestamo ==
  /\ pc[Servidor] = "pedir_prestamo"
  /\ prestamosBD' = prestamosBD \cup
       {[id |-> siguienteID, usuario |-> orden[Servidor].usuario,
         isbn |-> orden[Servidor].isbn]}
  /\ siguienteID' = siguienteID + 1
  /\ Sigue(Servidor, "pedir_historial")
  /\ UNCHANGED <<librosBD, historialBD, csv, hoy, historia, cotas>>

(***************************************************************************)
(* Step 5: INSERT INTO historial.  A second loan of the same book by the   *)
(* same user on the same day violates the PRIMARY KEY, and the handler     *)
(* returns -1 with steps 3 and 4 already committed.                        *)
(***************************************************************************)
ClaveOcupada(fila) == \E r \in historialBD : MismaClave(r, fila)

\* Mutant of PedirHistorial: the result of sqlite3_step is not looked at.
PedirHistorialSinComprobar ==
  LET fila == [usuario |-> orden[Servidor].usuario, isbn |-> orden[Servidor].isbn,
               fecha |-> hoy, estado |-> ACTIVO]
  IN
  /\ pc[Servidor] = "pedir_historial"
  /\ historialBD' = IF ClaveOcupada(fila) THEN historialBD ELSE historialBD \cup {fila}
  /\ Sigue(Servidor, "csv_pedir")
  /\ UNCHANGED <<librosBD, prestamosBD, siguienteID, csv, hoy, historia, cotas>>

PedirHistorial ==
  LET fila == [usuario |-> orden[Servidor].usuario, isbn |-> orden[Servidor].isbn,
               fecha |-> hoy, estado |-> ACTIVO]
  IN
  /\ pc[Servidor] = "pedir_historial"
  /\ \/ /\ ~ ClaveOcupada(fila)
        /\ historialBD' = historialBD \cup {fila}
        /\ Sigue(Servidor, "csv_pedir")
     \/ /\ ClaveOcupada(fila)
        /\ Termina(Servidor, "esperando", "error")
        /\ UNCHANGED historialBD
  /\ UNCHANGED <<librosBD, prestamosBD, siguienteID, csv, hoy, historia, cotas>>

-----------------------------------------------------------------------------
(* devolver_libro_remoto: a return asked of the server *)

(***************************************************************************)
(* Step 1: SELECT ID FROM Prestamos; the scan gives the row of lowest ID.  *)
(***************************************************************************)
DevolverRemoto(u, i) ==
  /\ pc[Servidor] = "esperando"
  /\ Pide(Servidor)
  /\ \/ \E r \in prestamosBD :
          /\ De(r, u, i)
          /\ \A q \in prestamosBD : De(q, u, i) => r.id <= q.id
          /\ Empieza(Servidor, "devolver_borrar", u, i, r.id)
     \/ /\ \A r \in prestamosBD : ~ De(r, u, i)
        /\ Termina(Servidor, "esperando", "error")
  /\ UNCHANGED <<bd, csv, hoy, historia>>

\* Mutant of DevolverBorrar: DELETE ... WHERE UsuarioID = ? AND ISBN = ?
DevolverBorrarTodos ==
  /\ pc[Servidor] = "devolver_borrar"
  /\ prestamosBD' = {r \in prestamosBD : ~ De(r, orden[Servidor].usuario, orden[Servidor].isbn)}
  /\ Sigue(Servidor, "devolver_sumar")
  /\ UNCHANGED <<librosBD, siguienteID, historialBD, csv, hoy, historia, cotas>>

(***************************************************************************)
(* Step 2: DELETE FROM Prestamos WHERE ID = ?                              *)
(***************************************************************************)
DevolverBorrar ==
  /\ pc[Servidor] = "devolver_borrar"
  /\ prestamosBD' = {r \in prestamosBD : r.id # orden[Servidor].fila}
  /\ Sigue(Servidor, "devolver_sumar")
  /\ UNCHANGED <<librosBD, siguienteID, historialBD, csv, hoy, historia, cotas>>

(***************************************************************************)
(* Step 3: UPDATE LibrosBd SET Copias = Copias + 1, Disponible = ...  With *)
(* no row of the book it changes nothing, and is no error.                 *)
(***************************************************************************)
DevolverSumar ==
  LET i == orden[Servidor].isbn IN
  /\ pc[Servidor] = "devolver_sumar"
  /\ \/ /\ i \in DOMAIN librosBD
        /\ librosBD' = [librosBD EXCEPT ![i] = SumarSQL(@)]
        /\ UNCHANGED perdidas
     \/ /\ i \notin DOMAIN librosBD
        /\ perdidas' = [perdidas EXCEPT ![i] = @ + 1]
        /\ UNCHANGED librosBD
  /\ Sigue(Servidor, "devolver_historial")
  /\ UNCHANGED <<prestamosBD, siguienteID, historialBD, csv, hoy,
                 fondo, cortadas, deriva, alterados, cotas>>

\* Mutant of DevolverHistorial: without "usuario = ?".
DevolverHistorialDeTodos ==
  /\ pc[Servidor] = "devolver_historial"
  /\ historialBD' = {Cerrada(r, r.usuario, orden[Servidor].isbn) : r \in historialBD}
  /\ Sigue(Servidor, "csv_devolver")
  /\ UNCHANGED <<librosBD, prestamosBD, siguienteID, csv, hoy, historia, cotas>>

(***************************************************************************)
(* Step 4: UPDATE historial SET estado = CASE WHEN ... late.               *)
(***************************************************************************)
DevolverHistorial ==
  /\ pc[Servidor] = "devolver_historial"
  /\ historialBD' =
       {Cerrada(r, orden[Servidor].usuario, orden[Servidor].isbn) : r \in historialBD}
  /\ Sigue(Servidor, "csv_devolver")
  /\ UNCHANGED <<librosBD, prestamosBD, siguienteID, csv, hoy, historia, cotas>>

-----------------------------------------------------------------------------
(* pedir_libro and devolver_libro: the CSV files, for the server as the    *)
(* last step of its operation, for a console as the whole of it            *)

(***************************************************************************)
(* The file a process works on, from its fopen to the rename.              *)
(***************************************************************************)
Fichero(p) == IF pc[p] = "csv_cierre" THEN "historial" ELSE "libros"

Reescribe(p, f) == tramo[p] # "abrir" /\ Fichero(p) = f
Abierto(p, f)   == tramo[p] \in {"cerrar", "descartar"} /\ Fichero(p) = f

Libre(f, p) == \A q \in Procesos \ {p} : ~ Abierto(q, f)

\* f is opened, or written to, by p.
Toca(p, f) ==
  alterados' = IF \E q \in Procesos \ {p} : Reescribe(q, f)
               THEN alterados \cup {f} ELSE alterados

Vaciar(f) ==
  /\ existeTemp' = existeTemp \cup {f}
  /\ tempLibros' = IF f = "libros" THEN SinLibros ELSE tempLibros
  /\ tempHistorial' = IF f = "historial" THEN << >> ELSE tempHistorial

(***************************************************************************)
(* fopen(f, "r"), and fopen(temp, "w"), which empties the temporary file   *)
(* whether the other one opened or not.                                    *)
(***************************************************************************)
AbreAmbos(p, f) == Vaciar(f) /\ Toca(p, f)

NoSeAbre(p, f) ==
  /\ f \notin existe
  /\ Termina(p, Reposo(p), "error")
  /\ UNCHANGED <<copiaLibros, copiaHistorial>>

(***************************************************************************)
(* The lines of libros.csv go to the temporary file.                       *)
(***************************************************************************)
Copia(p, texto, t) ==
  /\ copiaLibros' = [copiaLibros EXCEPT ![p] = texto]
  /\ Avanza(p, t)
  /\ UNCHANGED copiaHistorial

Parte(libros, S) == [i \in S |-> libros[i]]

(***************************************************************************)
(* A loan, as far as the copy of libros.csv.  It is barred by the overdue  *)
(* count before any file is opened; a book with no copies stops the copy   *)
(* at its line, and an unknown one is noticed at the end.                  *)
(***************************************************************************)
CsvPedir(p) ==
  LET u == orden[p].usuario
      i == orden[p].isbn
  IN
  /\ pc[p] = "csv_pedir"
  /\ tramo[p] = "abrir"
  /\ \/ /\ PuedeRechazar(u)
        /\ Termina(p, Reposo(p), "error")
        /\ UNCHANGED <<copias, alterados>>
     \/ /\ PuedeAceptar(u)
        /\ AbreAmbos(p, "libros")
        /\ \/ NoSeAbre(p, "libros")
           \/ /\ "libros" \in existe
              /\ i \in DOMAIN librosCSV
              /\ HayCopias(librosCSV[i].copias)
              /\ Copia(p, [librosCSV EXCEPT ![i] = RestarCSV(@)], "cerrar")
           \/ /\ "libros" \in existe
              /\ i \in DOMAIN librosCSV
              /\ ~ HayCopias(librosCSV[i].copias)
              /\ \E S \in SUBSET (DOMAIN librosCSV \ {i}) :
                   Copia(p, Parte(librosCSV, S), "descartar")
           \/ /\ "libros" \in existe
              /\ i \notin DOMAIN librosCSV
              /\ Copia(p, librosCSV, "descartar")
  /\ UNCHANGED <<bd, librosCSV, prestamosCSV, historialCSV, existe, hoy,
                 fondo, perdidas, cortadas, deriva, cotas>>

(***************************************************************************)
(* The dates of the loan are taken, and a line is added to prestamos.csv.  *)
(***************************************************************************)
CsvPrestamo(p) ==
  /\ pc[p] = "csv_prestamo"
  /\ prestamosCSV' =
       Append(prestamosCSV, [usuario |-> orden[p].usuario, isbn |-> orden[p].isbn])
  /\ pc' = [pc EXCEPT ![p] = "csv_historial"]
  /\ orden' = [orden EXCEPT ![p].fecha = hoy]
  /\ UNCHANGED <<bd, librosCSV, historialCSV, existe, copias, hoy,
                 tramo, resultado, historia, cotas>>

(***************************************************************************)
(* A line is added to historial.csv, which fopen(..., "a") creates when it *)
(* is not there.                                                           *)
(***************************************************************************)
CsvHistorial(p) ==
  /\ pc[p] = "csv_historial"
  /\ historialCSV' =
       Append(IF "historial" \in existe THEN historialCSV ELSE << >>,
              [usuario |-> orden[p].usuario, isbn |-> orden[p].isbn,
               fecha |-> orden[p].fecha, estado |-> ACTIVO])
  /\ existe' = existe \cup {"historial"}
  /\ Toca(p, "historial")
  /\ Termina(p, Reposo(p), "ok")
  /\ UNCHANGED <<bd, librosCSV, prestamosCSV, copias, hoy,
                 fondo, perdidas, cortadas, deriva, cotas>>

(***************************************************************************)
(* A return, as far as the copy of libros.csv.  Nothing asks for a loan: a *)
(* console may return a book nobody borrowed.                              *)
(***************************************************************************)
CsvDevolver(p) ==
  LET i == orden[p].isbn IN
  /\ pc[p] = "csv_devolver"
  /\ tramo[p] = "abrir"
  /\ AbreAmbos(p, "libros")
  /\ \/ NoSeAbre(p, "libros")
     \/ /\ "libros" \in existe
        /\ i \in DOMAIN librosCSV
        /\ Copia(p, [librosCSV EXCEPT ![i] = SumarCSV(@)], "cerrar")
     \/ /\ "libros" \in existe
        /\ i \notin DOMAIN librosCSV
        /\ Copia(p, librosCSV, "descartar")
  /\ UNCHANGED <<bd, librosCSV, prestamosCSV, historialCSV, existe, hoy,
                 fondo, perdidas, cortadas, deriva, cotas>>

(***************************************************************************)
(* A return, as far as the copy of historial.csv: the loans are closed     *)
(* with the date of this moment.                                           *)
(***************************************************************************)
CsvCierre(p) ==
  /\ pc[p] = "csv_cierre"
  /\ tramo[p] = "abrir"
  /\ AbreAmbos(p, "historial")
  /\ \/ NoSeAbre(p, "historial")
     \/ /\ "historial" \in existe
        /\ copiaHistorial' = [copiaHistorial EXCEPT ![p] =
             [k \in DOMAIN historialCSV |->
                Cerrada(historialCSV[k], orden[p].usuario, orden[p].isbn)]]
        /\ Avanza(p, "cerrar")
        /\ UNCHANGED copiaLibros
  /\ UNCHANGED <<bd, librosCSV, prestamosCSV, historialCSV, existe, hoy,
                 fondo, perdidas, cortadas, deriva, cotas>>

(***************************************************************************)
(* Both files are closed, and the copy is written from the beginning of    *)
(* the temporary file: what another process has written there is lost as   *)
(* far as the copy reaches.                                                *)
(***************************************************************************)
SobreLibros(nuevo, viejo) ==
  [i \in DOMAIN nuevo \cup DOMAIN viejo |->
     IF i \in DOMAIN nuevo THEN nuevo[i] ELSE viejo[i]]

SobreLineas(nuevo, viejo) == nuevo \o SubSeq(viejo, Len(nuevo) + 1, Len(viejo))

Cerrar(p) ==
  /\ \/ tramo[p] = "cerrar" /\ Avanza(p, "borrar")
     \/ tramo[p] = "descartar" /\ Avanza(p, "quitar")
  /\ \/ /\ Fichero(p) = "libros"
        /\ tempLibros' = SobreLibros(copiaLibros[p], tempLibros)
        /\ copiaLibros' = [copiaLibros EXCEPT ![p] = SinLibros]
        /\ UNCHANGED <<tempHistorial, copiaHistorial>>
     \/ /\ Fichero(p) = "historial"
        /\ tempHistorial' = SobreLineas(copiaHistorial[p], tempHistorial)
        /\ copiaHistorial' = [copiaHistorial EXCEPT ![p] = << >>]
        /\ UNCHANGED <<tempLibros, copiaLibros>>
  /\ UNCHANGED <<bd, librosCSV, prestamosCSV, historialCSV, existe, existeTemp,
                 hoy, historia, cotas>>

(***************************************************************************)
(* remove(f); it fails when there is no file, or another process has it    *)
(* open, and the routine returns -1.                                       *)
(***************************************************************************)
Borrable(p, f) == f \in existe /\ Libre(f, p)

Borrar(p) ==
  /\ tramo[p] = "borrar"
  /\ \/ /\ Borrable(p, Fichero(p))
        /\ existe' = existe \ {Fichero(p)}
        /\ Avanza(p, "renombrar")
     \/ /\ ~ Borrable(p, Fichero(p))
        /\ Termina(p, Reposo(p), "error")
        /\ UNCHANGED existe
  /\ UNCHANGED <<bd, librosCSV, prestamosCSV, historialCSV, copias,
                 hoy, historia, cotas>>

(***************************************************************************)
(* rename(temp, f); it fails when there is no temporary file, when another *)
(* process has it open, or when there is a file of the new name.           *)
(***************************************************************************)
Renombrable(p, f) == f \in existeTemp /\ Libre(f, p) /\ f \notin existe

Instala(f) ==
  /\ existe' = existe \cup {f}
  /\ existeTemp' = existeTemp \ {f}
  /\ \/ /\ f = "libros"
        /\ librosCSV' = tempLibros
        /\ tempLibros' = SinLibros
        /\ UNCHANGED <<historialCSV, tempHistorial>>
     \/ /\ f = "historial"
        /\ historialCSV' = tempHistorial
        /\ tempHistorial' = << >>
        /\ UNCHANGED <<librosCSV, tempLibros>>

\* What each routine does after its rename.
Prosigue(p) ==
  \/ pc[p] = "csv_pedir" /\ Sigue(p, "csv_prestamo")
  \/ pc[p] = "csv_devolver" /\ Sigue(p, "csv_cierre")
  \/ pc[p] = "csv_cierre" /\ Termina(p, Reposo(p), "ok")

Renombrar(p) ==
  /\ tramo[p] = "renombrar"
  /\ \/ /\ Renombrable(p, Fichero(p))
        /\ Instala(Fichero(p))
        /\ Prosigue(p)
        /\ deriva' = IF pc[p] = "csv_pedir" /\ p # Servidor
                     THEN [deriva EXCEPT ![orden[p].isbn] = @ + 1] ELSE deriva
     \/ /\ ~ Renombrable(p, Fichero(p))
        /\ Termina(p, Reposo(p), "error")
        /\ UNCHANGED <<librosCSV, historialCSV, existe, existeTemp,
                       tempLibros, tempHistorial, deriva>>
  /\ UNCHANGED <<bd, prestamosCSV, copiaLibros, copiaHistorial, hoy,
                 fondo, perdidas, cortadas, alterados, cotas>>

(***************************************************************************)
(* remove(temp), of a copy given up; its result is not looked at.          *)
(***************************************************************************)
Quitar(p) ==
  /\ tramo[p] = "quitar"
  /\ IF Libre(Fichero(p), p)
     THEN /\ existeTemp' = existeTemp \ {"libros"}
          /\ tempLibros' = SinLibros
     ELSE UNCHANGED <<existeTemp, tempLibros>>
  /\ Termina(p, Reposo(p), "error")
  /\ UNCHANGED <<bd, librosCSV, prestamosCSV, historialCSV, existe, tempHistorial,
                 copiaLibros, copiaHistorial, hoy, historia, cotas>>

-----------------------------------------------------------------------------
(* The console programs *)

(***************************************************************************)
(* main: the database file is deleted and its tables are filled from the   *)
(* CSV files, line after line; an INSERT that violates a key is skipped.   *)
(* The deletion succeeds when no process has the file open: the server has *)
(* it open while it handles a command, a console from its start to its end.*)
(* A start with the file held open, which imports into the old tables, and *)
(* a command of the server in the middle of the import are in Arranque.    *)
(* A file that does not exist is imported as an empty one.                 *)
(***************************************************************************)
PrimeraDeSuClave(k) ==
  \A j \in 1 .. k - 1 : ~ MismaClave(historialCSV[j], historialCSV[k])

Arrancar(p) ==
  /\ pc[p] = "cerrado"
  /\ ~ EnCurso(Servidor)
  /\ \A q \in Consolas : pc[q] = "cerrado"
  /\ librosBD' = IF "libros" \in existe THEN librosCSV ELSE SinLibros
  /\ prestamosBD' = {[id |-> k, usuario |-> prestamosCSV[k].usuario,
                      isbn |-> prestamosCSV[k].isbn] : k \in DOMAIN prestamosCSV}
  /\ siguienteID' = Len(prestamosCSV) + 1
  /\ historialBD' =
       {historialCSV[k] : k \in {j \in DOMAIN historialCSV :
                                   "historial" \in existe /\ PrimeraDeSuClave(j)}}
  /\ pc' = [pc EXCEPT ![p] = "menu"]
  /\ fondo' = [i \in ISBNs |-> EnLaBD(i)' + Cardinality(Filas(i)')]
  /\ perdidas' = [i \in ISBNs |-> 0]
  /\ cortadas' = {}
  /\ deriva' = [i \in ISBNs |-> 0]
  /\ alterados' = Archivos \ existe
  /\ UNCHANGED <<csv, hoy, tramo, orden, resultado, cotas>>

Salir(p) ==
  /\ pc[p] = "menu"
  /\ pc' = [pc EXCEPT ![p] = "cerrado"]
  /\ UNCHANGED <<bd, csv, hoy, tramo, orden, resultado, historia, cotas>>

(***************************************************************************)
(* Options 4 and 5 of menuPrincipal, which returns at once when it cannot  *)
(* open ../datos/libros.db.                                                *)
(***************************************************************************)
MenuPrincipal(p, u, i) ==
  /\ AbreMenu
  /\ pc[p] = "menu"
  /\ Pide(p)
  /\ \E paso \in {"csv_pedir", "csv_devolver"} : Empieza(p, paso, u, i, 0)
  /\ UNCHANGED <<bd, csv, hoy, historia>>

-----------------------------------------------------------------------------
(* The environment *)

PasaDia ==
  /\ hoy < MaxDia
  /\ hoy' = hoy + 1
  /\ UNCHANGED <<bd, csv, proceso, historia, cotas>>

(***************************************************************************)
(* An operation stops before its next statement, and what it did stays;    *)
(* what it had not written yet is lost.                                    *)
(***************************************************************************)
Interrumpe(p) ==
  LET u == orden[p].usuario
      i == orden[p].isbn
  IN
  /\ EnCurso(p)
  /\ fallos < MaxFallos
  /\ fallos' = fallos + 1
  /\ perdidas' = IF pc[p] \in {"pedir_prestamo", "devolver_sumar"}
                 THEN [perdidas EXCEPT ![i] = @ + 1] ELSE perdidas
  /\ cortadas' = IF pc[p] \in {"devolver_sumar", "devolver_historial"}
                 THEN cortadas \cup {<<u, i>>} ELSE cortadas
  /\ deriva' = IF \/ pc[p] = "devolver_historial"
                  \/ pc[p] = "csv_devolver" /\ p = Servidor
               THEN [deriva EXCEPT ![i] = @ + 1] ELSE deriva
  /\ copiaLibros' = [copiaLibros EXCEPT ![p] = SinLibros]
  /\ copiaHistorial' = [copiaHistorial EXCEPT ![p] = << >>]
  /\ UNCHANGED <<bd, librosCSV, prestamosCSV, historialCSV, existe,
                 hoy, fondo, peticiones>>

\* A file that was removed and is not renamed is lost.
Abandona(p) ==
  alterados' = IF tramo[p] = "renombrar" THEN alterados \cup {Fichero(p)} ELSE alterados

(***************************************************************************)
(* A call fails (a busy database, a file that does not open): the routine  *)
(* returns -1.  fclose is not looked at.                                   *)
(***************************************************************************)
Fallo(p) ==
  /\ tramo[p] \notin {"cerrar", "descartar"}
  /\ Interrumpe(p)
  /\ Termina(p, Reposo(p), "error")
  /\ Abandona(p)
  /\ UNCHANGED <<existeTemp, tempLibros, tempHistorial>>

(***************************************************************************)
(* The file to rewrite does not open, and the temporary one does.          *)
(***************************************************************************)
FalloAlAbrir(p) ==
  /\ pc[p] \in {"csv_pedir", "csv_devolver", "csv_cierre"}
  /\ tramo[p] = "abrir"
  /\ Interrumpe(p)
  /\ Termina(p, Reposo(p), "error")
  /\ AbreAmbos(p, Fichero(p))

(***************************************************************************)
(* The process is killed.  The server is started again and waits for       *)
(* commands; it does not touch the stores when it starts.                  *)
(***************************************************************************)
Caida(p) ==
  /\ Interrumpe(p)
  /\ Termina(p, IF p = Servidor THEN "esperando" ELSE "cerrado", "nada")
  /\ Abandona(p)
  /\ UNCHANGED <<existeTemp, tempLibros, tempHistorial>>

-----------------------------------------------------------------------------
PasoServidor ==
  \/ \E u \in Usuarios, i \in Pedibles : PedirRemoto(u, i) \/ DevolverRemoto(u, i)
  \/ PedirRestar \/ PedirPrestamo \/ PedirHistorial
  \/ DevolverBorrar \/ DevolverSumar \/ DevolverHistorial

PasoCSV(p) ==
  \/ CsvPedir(p) \/ CsvPrestamo(p) \/ CsvHistorial(p)
  \/ CsvDevolver(p) \/ CsvCierre(p)
  \/ Cerrar(p) \/ Borrar(p) \/ Renombrar(p) \/ Quitar(p)

PasoConsola(p) ==
  \/ Arrancar(p) \/ Salir(p)
  \/ \E u \in Usuarios, i \in Pedibles : MenuPrincipal(p, u, i)

Next ==
  \/ PasoServidor
  \/ \E p \in Procesos : PasoCSV(p) \/ Fallo(p) \/ FalloAlAbrir(p) \/ Caida(p)
  \/ \E p \in Consolas : PasoConsola(p)
  \/ PasaDia

Spec == Init /\ [][Next]_vars
-----------------------------------------------------------------------------
(* Properties *)

(***************************************************************************)
(* Every variable keeps its shape, through interruptions and rebuilds.     *)
(***************************************************************************)
TypeOK ==
  /\ EsTexto(librosBD)
  /\ prestamosBD \subseteq FilaPrestamo
  /\ siguienteID \in Nat
  /\ historialBD \subseteq FilaHistorial
  /\ EsTexto(librosCSV)
  /\ prestamosCSV \in Seq(LineaPrestamo)
  /\ historialCSV \in Seq(FilaHistorial)
  /\ existe \subseteq Archivos
  /\ EsTexto(tempLibros)
  /\ tempHistorial \in Seq(FilaHistorial)
  /\ existeTemp \subseteq Archivos
  /\ hoy \in Nat
  /\ pc \in [Procesos -> PasosBD \cup PasosCSV \cup {"esperando", "menu", "cerrado"}]
  /\ tramo \in [Procesos -> Tramos]
  /\ copiaLibros = [p \in Procesos |-> copiaLibros[p]]
  /\ \A p \in Procesos : EsTexto(copiaLibros[p])
  /\ copiaHistorial \in [Procesos -> Seq(FilaHistorial)]
  /\ orden \in [Procesos -> Orden]
  /\ resultado \in [Procesos -> {"nada", "ok", "error"}]
  /\ fondo \in [ISBNs -> Int]
  /\ perdidas \in [ISBNs -> Nat]
  /\ cortadas \subseteq Usuarios \X ISBNs
  /\ deriva \in [ISBNs -> Nat]
  /\ alterados \subseteq Archivos
  /\ peticiones \in Nat
  /\ fallos \in Nat

(***************************************************************************)
(* The flag and the counter of a book agree in the database and in         *)
(* libros.csv, although four different statements write them (two UPDATEs, *)
(* two rewrites of the file), rewrites overlap and are cut, and the        *)
(* rebuild copies both: the catalogue shows Disponible, the loan looks at  *)
(* Copias.                                                                 *)
(***************************************************************************)
Coherente(libros) ==
  \A i \in DOMAIN libros : libros[i].disponible = 1 <=> libros[i].copias > 0

DisponibleCoherente == Coherente(librosBD) /\ Coherente(librosCSV)

(***************************************************************************)
(* libros.csv never shows fewer than zero copies, whoever asks for them,   *)
(* in whatever order, and wherever an operation stops.                     *)
(***************************************************************************)
SinNegativos(libros) == \A i \in DOMAIN libros : libros[i].copias >= 0

CopiasCSVNoNegativas == SinNegativos(librosCSV)

(***************************************************************************)
(* The database accounts for every copy: what LibrosBd shows, the rows of  *)
(* Prestamos, the copy the server holds between its UPDATE of LibrosBd and *)
(* its INSERT or DELETE in Prestamos, and the copies lost to operations    *)
(* cut there or to returns of a book that has no row, add up to what the   *)
(* last rebuild found.                                                     *)
(***************************************************************************)
EnMano(paso, i) ==
  IF pc[Servidor] = paso /\ orden[Servidor].isbn = i THEN 1 ELSE 0

Estante(i)   == EnLaBD(i) + EnMano("pedir_prestamo", i)
Prestados(i) == Cardinality(Filas(i)) + EnMano("devolver_sumar", i)

ConservacionBD ==
  \A i \in ISBNs : Estante(i) + Prestados(i) + perdidas[i] = fondo[i]

(***************************************************************************)
(* A loan that historial shows as active can be returned: Prestamos holds  *)
(* the row devolver_libro_remoto looks for, unless the server is returning *)
(* it now or a return of it was cut short.  Through the rebuild this rests *)
(* on the order in which pedir_libro writes the CSV files, and a stale     *)
(* copy of historial.csv does not break it: prestamos.csv only grows.      *)
(***************************************************************************)
Devolviendo(u, i) ==
  /\ pc[Servidor] \in {"devolver_sumar", "devolver_historial"}
  /\ De(orden[Servidor], u, i)

ActivoDevolvible ==
  \A h \in historialBD : h.estado = ACTIVO =>
    \/ \E r \in prestamosBD : De(r, h.usuario, h.isbn)
    \/ Devolviendo(h.usuario, h.isbn)
    \/ <<h.usuario, h.isbn>> \in cortadas

(***************************************************************************)
(* Between two commands the database never shows more copies of a book     *)
(* than libros.csv, except by the loans taken at a console and the returns *)
(* cut between the two stores since the last rebuild: the server changes   *)
(* the database first, and a loan that fails afterwards leaves it lower,   *)
(* never higher.  It holds as long as no two processes have worked on      *)
(* libros.csv at once: then the text installed last may lack the copy that *)
(* was returned, with every call successful.                               *)
(***************************************************************************)
BDNuncaSuperaCSV ==
  pc[Servidor] = "esperando" /\ "libros" \notin alterados =>
    \A i \in DOMAIN librosBD :
      i \in DOMAIN librosCSV /\ librosBD[i].copias <= librosCSV[i].copias + deriva[i]

(***************************************************************************)
(* The verdict on a loan, returned in time or late, is final: a line of    *)
(* historial.csv is never removed, reordered or edited, except to close it *)
(* once, through the removals and renames of lone processes, refusals,     *)
(* failures and kills.  What undoes it is named in alterados: two          *)
(* processes that work on the file at once (one installs a copy made       *)
(* before the other's line), and a rewriting cut before its rename.        *)
(***************************************************************************)
SeConserva(antes, despues) ==
  /\ Len(antes) <= Len(despues)
  /\ \A k \in DOMAIN antes :
       \/ despues[k] = antes[k]
       \/ /\ antes[k].estado = ACTIVO
          /\ despues[k] \in {[antes[k] EXCEPT !.estado = DEVUELTO],
                             [antes[k] EXCEPT !.estado = ATRASADO]}

CierreDefinitivo ==
  [][ "historial" \notin alterados' => SeConserva(historialCSV, historialCSV') ]_vars

(***************************************************************************)
(* When the server answers yes to a loan, all four places agree: the row   *)
(* in Prestamos, the active row in historial and the line in both CSV      *)
(* files, the one of historial.csv active.  When it answers yes to a       *)
(* return, no loan of the book by that user is active in the database;     *)
(* nor in historial.csv, unless another process has worked on that file at *)
(* the same time: its copy may have been the one installed.                *)
(***************************************************************************)
Activo(r, u, i) == De(r, u, i) /\ r.estado = ACTIVO

EnLosCuatro(u, i) ==
  /\ \E r \in prestamosBD' : De(r, u, i)
  /\ \E h \in historialBD' : Activo(h, u, i)
  /\ \E k \in DOMAIN prestamosCSV' : De(prestamosCSV'[k], u, i)
  /\ \E k \in DOMAIN historialCSV' : Activo(historialCSV'[k], u, i)

Cerrado(u, i) ==
  /\ \A h \in historialBD' : ~ Activo(h, u, i)
  /\ \/ \A k \in DOMAIN historialCSV' : ~ Activo(historialCSV'[k], u, i)
     \/ "historial" \in alterados

RespuestaVeraz ==
  [][LET u == orden[Servidor].usuario
         i == orden[Servidor].isbn
     IN  resultado'[Servidor] = "ok" /\ resultado[Servidor] # "ok" =>
           \/ pc[Servidor] = "csv_historial" /\ EnLosCuatro(u, i)
           \/ pc[Servidor] = "csv_cierre" /\ Cerrado(u, i)]_vars

(***************************************************************************)
(* Between two commands, without interruptions and without overlaps on a   *)
(* file, a loan that the user sees active in historial.csv is active in    *)
(* the database as well, so that the client and the console tell the same  *)
(* story, except for a book taken at a console since the last rebuild, for *)
(* a loan repeated on one day, whose second line the rebuild skips, and    *)
(* for a book that is missing from libros.csv, whose return stops after    *)
(* the database.  The converse fails when the last copy is gone (CsvPedir  *)
(* refuses what the database has granted).                                 *)
(***************************************************************************)
HistorialesConcuerdan ==
  pc[Servidor] = "esperando" /\ fallos = 0 /\ alterados = {} =>
    \A k \in DOMAIN historialCSV : historialCSV[k].estado = ACTIVO =>
      \/ \E h \in historialBD : Activo(h, historialCSV[k].usuario, historialCSV[k].isbn)
      \/ deriva[historialCSV[k].isbn] > 0
      \/ ~ PrimeraDeSuClave(k)
      \/ historialCSV[k].isbn \notin DOMAIN librosCSV

(***************************************************************************)
(* The database implements the inventory: seen through the mapping above,  *)
(* every statement, interruption and rebuild moves one copy between the    *)
(* shelf, the loans and the write-offs, or is a recount.                   *)
(***************************************************************************)
I == INSTANCE Inventario WITH
       estante   <- [i \in ISBNs |-> Estante(i)],
       prestados <- [i \in ISBNs |-> Prestados(i)],
       baja      <- perdidas

ImplementaInventario == I!Spec

-----------------------------------------------------------------------------
(* What the code's comments promise, and the code does not do *)

(***************************************************************************)
(* prestamo.c:248, "2. Verificar disponibilidad del libro": a loan passes  *)
(* the check only when there is a copy to lend.                            *)
(***************************************************************************)
VerificaDisponibilidad ==
  pc[Servidor] = "pedir_restar" => librosBD[orden[Servidor].isbn].copias > 0

(***************************************************************************)
(* prestamo.c:240, "1. Verificar si el usuario tiene demasiados préstamos  *)
(* atrasados": a loan is not begun for a user with LimiteAtrasados loans   *)
(* out past their date.                                                    *)
(***************************************************************************)
Vencidos(u) == {h \in historialBD :
  h.usuario = u /\ h.estado = ACTIVO /\ hoy > h.fecha + Plazo}

AtrasadosBloquean ==
  [][pc[Servidor] = "esperando" /\ pc'[Servidor] = "pedir_restar" =>
       Cardinality(Vencidos(orden'[Servidor].usuario)) < LimiteAtrasados]_vars
=============================================================================
