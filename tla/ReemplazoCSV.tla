---------------------------- MODULE ReemplazoCSV ----------------------------
(***************************************************************************)
(* How pedir_libro and devolver_libro replace libros.csv and historial.csv:*)
(* the new text is written to a temporary file, the file is removed, and   *)
(* the temporary file takes its name.  Nothing is locked; every process    *)
(* uses the same temporary file.                                           *)
(*                                                                         *)
(* The file system is that of Windows, for which the program is written: a *)
(* file that some process has open is neither removed nor renamed, and     *)
(* nothing is renamed to a name that exists.  The text of a file is the    *)
(* set of the operations it shows, with 0 for what it held at first.  The  *)
(* files fit in the buffers of stdio: a file is read by the first fgets    *)
(* and written by fclose.                                                  *)
(***************************************************************************)
EXTENDS Integers

CONSTANTS
  Procesos,        \* the server and the console programs
  MaxOperaciones,  \* bound: loans, returns and starts
  MaxFallos        \* bound: calls that fail and processes that are killed

ASSUME ConstantesOK ==
  /\ MaxOperaciones \in Nat
  /\ MaxFallos \in Nat

Archivos == {"libros", "historial"}

\* Where there is no file; it is not a set of operations.
Ausente == {-1}

VARIABLES
  archivo,     \* libros.csv and historial.csv
  temp,        \* temp.csv and temp_hist.csv
  \* the processes
  pc,          \* what each does next
  clase,       \* the routine it is in
  num,         \* the number of its operation
  en,          \* the file it works on
  abierto,     \* fopen(..., "r") succeeded
  leido,       \* the text it has read
  \* history variables, read by no action
  hechas,      \* operations whose routine has returned 0
  rechazadas,  \* operations refused, or stopped before their first replacement
  avisos,      \* what has happened to each file that may harm it
  \* bounds
  operaciones, fallos

ficheros == <<archivo, temp>>
proceso  == <<pc, clase, num, en, abierto, leido>>
historia == <<hechas, rechazadas, avisos>>
cotas    == <<operaciones, fallos>>
vars     == <<ficheros, proceso, historia, cotas>>

-----------------------------------------------------------------------------
(* Open files *)

Leyendo   == {"leer", "cerrar", "rechazar"}
Volcando  == {"leer", "cerrar", "volcar", "rechazar"}

Abre(p, f) ==
  /\ en[p] = f
  /\ pc[p] \in Leyendo \cup {"importar", "escribir"} \/ (pc[p] = "abrir_temp" /\ abierto[p])

AbreTemp(p, f) == en[p] = f /\ pc[p] \in Volcando

Libre(f)     == \A p \in Procesos : ~ Abre(p, f)
TempLibre(f) == \A p \in Procesos : ~ AbreTemp(p, f)

(***************************************************************************)
(* p is replacing f, from the opening of the file to the rename.  It then  *)
(* shares f with a process that replaces it or adds a line to it.          *)
(***************************************************************************)
Reemplazando ==
  {"abrir_temp", "leer", "cerrar", "volcar", "borrar", "renombrar", "rechazar", "quitar"}

Reemplaza(p, f) == en[p] = f /\ pc[p] \in Reemplazando
Anade(p, f)     == en[p] = f /\ pc[p] = "escribir"

Avisa(f, que) == avisos' = [avisos EXCEPT ![f] = @ \cup que]

Falla ==
  /\ fallos < MaxFallos
  /\ fallos' = fallos + 1

Sigue(p, paso) ==
  /\ pc' = [pc EXCEPT ![p] = paso]
  /\ UNCHANGED <<clase, num, en>>

-----------------------------------------------------------------------------
Init ==
  /\ archivo = [f \in Archivos |-> {0}]
  /\ temp = [f \in Archivos |-> Ausente]
  /\ pc = [p \in Procesos |-> "menu"]
  /\ clase = [p \in Procesos |-> "pedir"]
  /\ num = [p \in Procesos |-> 0]
  /\ en = [p \in Procesos |-> "libros"]
  /\ abierto = [p \in Procesos |-> FALSE]
  /\ leido = [p \in Procesos |-> {}]
  /\ hechas = {}
  /\ rechazadas = {}
  /\ avisos = [f \in Archivos |-> {}]
  /\ operaciones = 0
  /\ fallos = 0

-----------------------------------------------------------------------------
(***************************************************************************)
(* A routine is called; a start of the console imports a file, and closes  *)
(* it before the next.                                                     *)
(***************************************************************************)
Empezar(p, c) ==
  /\ pc[p] = "menu"
  /\ operaciones < MaxOperaciones
  /\ operaciones' = operaciones + 1
  /\ num' = [num EXCEPT ![p] = operaciones + 1]
  /\ clase' = [clase EXCEPT ![p] = c]
  /\ en' = [en EXCEPT ![p] = "libros"]
  /\ pc' = [pc EXCEPT ![p] = "abrir"]
  /\ UNCHANGED <<ficheros, abierto, leido, historia, fallos>>

AbrirImportar(p, f) ==
  /\ pc[p] = "menu"
  /\ operaciones < MaxOperaciones
  /\ operaciones' = operaciones + 1
  /\ archivo[f] # Ausente
  /\ en' = [en EXCEPT ![p] = f]
  /\ pc' = [pc EXCEPT ![p] = "importar"]
  /\ UNCHANGED <<ficheros, clase, num, abierto, leido, historia, fallos>>

CerrarImportado(p) ==
  /\ pc[p] = "importar"
  /\ Sigue(p, "menu")
  /\ UNCHANGED <<ficheros, abierto, leido, historia, cotas>>

\* The routine returns -1.
Fracasa(p) ==
  /\ Sigue(p, "menu")
  /\ rechazadas' = IF en[p] = "libros" THEN rechazadas \cup {num[p]} ELSE rechazadas
  /\ UNCHANGED hechas

-----------------------------------------------------------------------------
(* The replacement *)

AvisoAbrir(p) ==
  IF \E q \in Procesos \ {p} : Reemplaza(q, en[p]) \/ Anade(q, en[p])
  THEN {"solape"} ELSE {}

Abrir(p) ==
  /\ pc[p] = "abrir"
  /\ \/ /\ abierto' = [abierto EXCEPT ![p] = archivo[en[p]] # Ausente]
        /\ UNCHANGED fallos
     \/ Falla /\ abierto' = [abierto EXCEPT ![p] = FALSE]
  /\ Sigue(p, "abrir_temp")
  /\ Avisa(en[p], AvisoAbrir(p))
  /\ UNCHANGED <<ficheros, leido, hechas, rechazadas, operaciones>>

\* Mutant of AbrirTemp: nobody looks at whether the files are open.
AbrirTempSinMirar(p) ==
  /\ pc[p] = "abrir_temp"
  /\ temp' = [temp EXCEPT ![en[p]] = {}]
  /\ Sigue(p, "leer")
  /\ UNCHANGED <<archivo, abierto, leido, historia, cotas>>

(***************************************************************************)
(* The temporary file is emptied even when the other one did not open.     *)
(***************************************************************************)
AbrirTemp(p) ==
  /\ pc[p] = "abrir_temp"
  /\ \/ /\ temp' = [temp EXCEPT ![en[p]] = {}]
        /\ \/ abierto[p] /\ Sigue(p, "leer") /\ UNCHANGED <<hechas, rechazadas>>
           \/ ~ abierto[p] /\ Fracasa(p)
        /\ UNCHANGED fallos
     \/ /\ Falla
        /\ Fracasa(p)
        /\ UNCHANGED temp
  /\ UNCHANGED <<archivo, abierto, leido, avisos, operaciones>>

(***************************************************************************)
(* The file is read; a loan of a book with no copies is refused while both *)
(* files are open.                                                         *)
(***************************************************************************)
Leer(p) ==
  /\ pc[p] = "leer"
  /\ leido' = [leido EXCEPT ![p] = archivo[en[p]]]
  /\ \/ Sigue(p, "cerrar")
     \/ en[p] = "libros" /\ clase[p] = "pedir" /\ Sigue(p, "rechazar")
  /\ UNCHANGED <<ficheros, abierto, historia, cotas>>

\* Both files are closed, with the lines copied so far in the temporary one.
Rechazar(p) ==
  /\ pc[p] = "rechazar"
  /\ \E parte \in SUBSET leido[p] : temp' = [temp EXCEPT ![en[p]] = parte]
  /\ Sigue(p, "quitar")
  /\ UNCHANGED <<archivo, abierto, leido, historia, cotas>>

\* The result of this remove is not looked at.
Quitar(p) ==
  /\ pc[p] = "quitar"
  /\ temp' = IF TempLibre(en[p]) THEN [temp EXCEPT ![en[p]] = Ausente] ELSE temp
  /\ Fracasa(p)
  /\ UNCHANGED <<archivo, abierto, leido, avisos, cotas>>

Cerrar(p) ==
  /\ pc[p] = "cerrar"
  /\ Sigue(p, "volcar")
  /\ UNCHANGED <<ficheros, abierto, leido, historia, cotas>>

Vuelca(p, texto, paso) ==
  /\ pc[p] = "volcar"
  /\ temp' = [temp EXCEPT ![en[p]] = texto]
  /\ Sigue(p, paso)
  /\ UNCHANGED <<abierto, leido, historia, cotas>>

\* Mutants of Volcar: only the line that changes is written; the file is written
\* in its place.
VolcarSoloElCambio(p) == Vuelca(p, {num[p]}, "borrar") /\ UNCHANGED archivo

VolcarEnSuSitio(p) ==
  /\ Vuelca(p, leido[p] \cup {num[p]}, "borrar")
  /\ archivo' = [archivo EXCEPT ![en[p]] = leido[p] \cup {num[p]}]

(***************************************************************************)
(* The temporary file is written.  A book that was not in libros.csv ends  *)
(* the routine here.                                                       *)
(***************************************************************************)
Volcar(p) ==
  /\ \/ Vuelca(p, leido[p] \cup {num[p]}, "borrar")
     \/ en[p] = "libros" /\ Vuelca(p, leido[p], "quitar")
  /\ UNCHANGED archivo

\* Where each routine goes when a file has been replaced.
Continua(p) ==
  \/ /\ en[p] = "libros"
     /\ en' = [en EXCEPT ![p] = "historial"]
     /\ pc' = [pc EXCEPT ![p] = IF clase[p] = "pedir" THEN "anexar" ELSE "abrir"]
     /\ UNCHANGED <<clase, num, hechas>>
  \/ /\ en[p] = "historial"
     /\ Sigue(p, "menu")
     /\ hechas' = hechas \cup {num[p]}

\* Mutant of Borrar: after a failure the routine goes on.
BorrarSinVolver(p) ==
  /\ pc[p] = "borrar"
  /\ \/ /\ archivo[en[p]] # Ausente
        /\ Libre(en[p])
        /\ archivo' = [archivo EXCEPT ![en[p]] = Ausente]
        /\ Sigue(p, "renombrar")
        /\ UNCHANGED hechas
     \/ /\ archivo[en[p]] = Ausente \/ ~ Libre(en[p])
        /\ Continua(p)
        /\ UNCHANGED archivo
  /\ UNCHANGED <<temp, abierto, leido, rechazadas, avisos, cotas>>

(***************************************************************************)
(* remove(f) fails when somebody has f open, and the routine ends; the     *)
(* temporary file stays.                                                   *)
(***************************************************************************)
Borrar(p) ==
  /\ pc[p] = "borrar"
  /\ \/ /\ archivo[en[p]] # Ausente
        /\ Libre(en[p])
        /\ archivo' = [archivo EXCEPT ![en[p]] = Ausente]
        /\ Sigue(p, "renombrar")
        /\ UNCHANGED <<hechas, rechazadas, fallos>>
     \/ /\ archivo[en[p]] = Ausente \/ ~ Libre(en[p])
        /\ Fracasa(p)
        /\ UNCHANGED <<archivo, fallos>>
     \/ /\ Falla
        /\ Fracasa(p)
        /\ UNCHANGED archivo
  /\ UNCHANGED <<temp, abierto, leido, avisos, operaciones>>

Renombrable(f) == temp[f] # Ausente /\ TempLibre(f) /\ archivo[f] = Ausente

(***************************************************************************)
(* When rename fails there is no file any more, and the routine ends.      *)
(***************************************************************************)
Renombrar(p) ==
  /\ pc[p] = "renombrar"
  /\ \/ /\ Renombrable(en[p])
        /\ archivo' = [archivo EXCEPT ![en[p]] = temp[en[p]]]
        /\ temp' = [temp EXCEPT ![en[p]] = Ausente]
        /\ Continua(p)
        /\ UNCHANGED <<rechazadas, avisos, fallos>>
     \/ /\ ~ Renombrable(en[p])
        /\ Sigue(p, "menu")
        /\ UNCHANGED <<ficheros, historia, fallos>>
     \/ /\ Falla
        /\ Sigue(p, "menu")
        /\ Avisa(en[p], {"corte"})
        /\ UNCHANGED <<ficheros, hechas, rechazadas>>
  /\ UNCHANGED <<abierto, leido, operaciones>>

-----------------------------------------------------------------------------
(* pedir_libro: the line of historial.csv.  The one of prestamos.csv, which *)
(* nobody replaces, is left out.                                            *)

AvisoAnexar(p) ==
  (IF \E q \in Procesos \ {p} : Reemplaza(q, en[p]) THEN {"solape"} ELSE {})
    \cup (IF archivo[en[p]] = Ausente THEN {"nuevo"} ELSE {})

\* Mutant of Anexar: the file is opened with "w".
AnexarTruncando(p) ==
  /\ pc[p] = "anexar"
  /\ archivo' = [archivo EXCEPT ![en[p]] = {}]
  /\ Sigue(p, "escribir")
  /\ Avisa(en[p], AvisoAnexar(p))
  /\ UNCHANGED <<temp, abierto, leido, hechas, rechazadas, cotas>>

Anexar(p) ==
  /\ pc[p] = "anexar"
  /\ \/ /\ archivo' = IF archivo[en[p]] = Ausente
                      THEN [archivo EXCEPT ![en[p]] = {}] ELSE archivo
        /\ Sigue(p, "escribir")
        /\ Avisa(en[p], AvisoAnexar(p))
        /\ UNCHANGED fallos
     \/ /\ Falla
        /\ Sigue(p, "menu")
        /\ UNCHANGED <<archivo, avisos>>
  /\ UNCHANGED <<temp, abierto, leido, hechas, rechazadas, operaciones>>

Escribir(p) ==
  /\ pc[p] = "escribir"
  /\ archivo' = [archivo EXCEPT ![en[p]] = @ \cup {num[p]}]
  /\ Sigue(p, "menu")
  /\ hechas' = hechas \cup {num[p]}
  /\ UNCHANGED <<temp, abierto, leido, rechazadas, avisos, cotas>>

-----------------------------------------------------------------------------
(***************************************************************************)
(* The process is killed, and what it had not written is lost.             *)
(***************************************************************************)
Caida(p) ==
  /\ pc[p] # "menu"
  /\ Falla
  /\ Sigue(p, "menu")
  /\ Avisa(en[p], IF pc[p] = "renombrar" THEN {"corte"} ELSE {})
  /\ UNCHANGED <<ficheros, abierto, leido, hechas, rechazadas, operaciones>>

Paso(p) ==
  \/ \E c \in {"pedir", "devolver"} : Empezar(p, c)
  \/ \E f \in Archivos : AbrirImportar(p, f)
  \/ CerrarImportado(p)
  \/ Abrir(p) \/ AbrirTemp(p) \/ Leer(p) \/ Rechazar(p) \/ Quitar(p)
  \/ Cerrar(p) \/ Volcar(p) \/ Borrar(p) \/ Renombrar(p)
  \/ Anexar(p) \/ Escribir(p)
  \/ Caida(p)

Next == \E p \in Procesos : Paso(p)

Spec == Init /\ [][Next]_vars
-----------------------------------------------------------------------------
(* Properties *)

(***************************************************************************)
(* The shape of the variables: what a process has read is the text of a    *)
(* file that was there.                                                    *)
(***************************************************************************)
Pasos == Reemplazando \cup {"menu", "abrir", "importar", "anexar", "escribir"}

TypeOK ==
  /\ archivo \in [Archivos -> (SUBSET Nat) \cup {Ausente}]
  /\ temp \in [Archivos -> (SUBSET Nat) \cup {Ausente}]
  /\ pc \in [Procesos -> Pasos]
  /\ clase \in [Procesos -> {"pedir", "devolver"}]
  /\ num \in [Procesos -> Nat]
  /\ en \in [Procesos -> Archivos]
  /\ abierto \in [Procesos -> BOOLEAN]
  /\ leido \in [Procesos -> SUBSET Nat]
  /\ hechas \subseteq Nat
  /\ rechazadas \subseteq Nat
  /\ avisos \in [Archivos -> SUBSET {"solape", "corte", "nuevo"}]
  /\ operaciones \in Nat
  /\ fallos \in Nat

\* The text that counts: between remove and rename it is the temporary one.
Vigente(f) == IF archivo[f] # Ausente THEN archivo[f] ELSE temp[f]

(***************************************************************************)
(* While no two processes have worked on a file at once, and none was cut  *)
(* between its remove and its rename, the file has what it had at first    *)
(* and every operation that returned 0: whatever was refused, failed or    *)
(* was killed elsewhere, whoever was reading it, and whatever happened to  *)
(* the other file.                                                         *)
(***************************************************************************)
NadaSePierde ==
  \A f \in Archivos : avisos[f] = {} =>
    Vigente(f) # Ausente /\ {0} \cup hechas \subseteq Vigente(f)

(***************************************************************************)
(* Under the same conditions an operation that was refused, or stopped by  *)
(* an error before it replaced libros.csv, never shows in a file, although *)
(* the temporary file it leaves behind may hold its line.                  *)
(***************************************************************************)
SinRastro ==
  \A f \in Archivos : avisos[f] = {} => Vigente(f) \cap rechazadas = {}

(***************************************************************************)
(* Under the same conditions on both files, what historial.csv shows has   *)
(* been counted in libros.csv.                                             *)
(***************************************************************************)
HistorialTrasLibros ==
  avisos["libros"] = {} /\ avisos["historial"] = {} =>
    Vigente("historial") \subseteq Vigente("libros")

(***************************************************************************)
(* After a cut between remove and rename the temporary file has everything *)
(* until the next operation, which cannot open the file and empties the    *)
(* temporary one.                                                          *)
(***************************************************************************)
Recuperable ==
  \A f \in Archivos : avisos[f] = {"corte"} /\ archivo[f] = Ausente =>
    temp[f] = {} \/ {0} \cup hechas \subseteq temp[f]
=============================================================================
