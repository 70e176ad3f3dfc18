------------------------------ MODULE Registro ------------------------------
(***************************************************************************)
(* The users of the library: datos/usuarios.csv and the table usuarios.    *)
(*                                                                         *)
(* A console program registers users in the file only (registrarUsuario).  *)
(* The server registers them in the table and then writes the whole file   *)
(* again from the table (registrar_usuario_remoto).  A console program     *)
(* rebuilds the table from the file when it starts (main), line by line,   *)
(* and deletes the old database first if no process has it open.  The file *)
(* is not locked by anybody.                                               *)
(*                                                                         *)
(* A user is its identifier and its e-mail; the login of the client looks  *)
(* the e-mail up in the table and that of the console in the file.  The    *)
(* registrations of one e-mail are one person's, with one password.        *)
(***************************************************************************)
EXTENDS Naturals, Sequences, FiniteSets, SequencesExt, FiniteSetsExt

CONSTANTS
  Correos,      \* e-mail addresses
  Basura,       \* what an uninitialised array of characters holds
  IdsBasura,    \* what an uninitialised integer may hold
  Encabezado,   \* the first line the server writes
  Servidor,     \* the server
  Consolas,     \* the console programs
  MaxAltas,     \* bound: registrations begun
  MaxArranques, \* bound: starts of console programs
  MaxFallos     \* bound: calls that fail and processes that are killed

ASSUME ConstantesOK ==
  /\ Basura \notin Correos
  /\ IdsBasura \subseteq Nat
  /\ IdsBasura # {}
  /\ Servidor \notin Consolas
  /\ MaxAltas \in Nat
  /\ MaxArranques \in Nat
  /\ MaxFallos \in Nat

Procesos == {Servidor} \cup Consolas
Fila     == [id : Nat, correo : Correos \cup {Basura}]

ASSUME EncabezadoOK == Encabezado \notin Fila

VARIABLES
  usuariosBD,   \* the table usuarios
  usuariosCSV,  \* the lines of usuarios.csv
  pc,           \* what each process does next
  nuevo,        \* the user each process is registering
  pendientes,   \* the lines each console has still to import
  \* history variables, read by no action
  aceptados,    \* the users whose registration the server answered with RESP_OK
  altas,        \* the users registered at a console
  avisos,       \* what has happened that may lose a user or confuse two
  \* bounds
  registros, arranques, fallos

datos    == <<usuariosBD, usuariosCSV>>
proceso  == <<pc, nuevo, pendientes>>
historia == <<aceptados, altas, avisos>>
cotas    == <<registros, arranques, fallos>>
vars     == <<datos, proceso, historia, cotas>>

SinUsuario == [id |-> 0, correo |-> Basura]

Ids(filas)      == {f.id : f \in filas}
CorreosDe(filas) == {f.correo : f \in filas}

\* The lines of a file that are users.
Usuarios(lineas) == ToSet(lineas) \ {Encabezado}

(***************************************************************************)
(* The keys of the table: id INTEGER PRIMARY KEY, correo UNIQUE.  The id   *)
(* of an INSERT without one is the largest plus one.                       *)
(***************************************************************************)
Cabe(f) == f.id \notin Ids(usuariosBD) /\ f.correo \notin CorreosDe(usuariosBD)

\* Mutant of IdSiguiente: the number of rows plus one.
IdSiguientePorCuenta == Cardinality(usuariosBD) + 1

IdSiguiente == IF usuariosBD = {} THEN 1 ELSE Max(Ids(usuariosBD)) + 1

(***************************************************************************)
(* generarID: the last line that begins with a number, plus one.  Only the *)
(* first line may be the header.                                           *)
(***************************************************************************)
GenerarID ==
  IF Usuarios(usuariosCSV) = {} THEN 1 ELSE usuariosCSV[Len(usuariosCSV)].id + 1

Arrancando == \E q \in Consolas : pc[q] \in {"abrir", "importar"}

Avisa(que) == avisos' = avisos \cup que

Falla ==
  /\ fallos < MaxFallos
  /\ fallos' = fallos + 1

Ir(p, paso) == pc' = [pc EXCEPT ![p] = paso]

-----------------------------------------------------------------------------
Init ==
  /\ usuariosBD = {}
  /\ usuariosCSV = << >>
  /\ pc = [p \in Procesos |-> IF p = Servidor THEN "esperando" ELSE "cerrado"]
  /\ nuevo = [p \in Procesos |-> SinUsuario]
  /\ pendientes = [p \in Consolas |-> << >>]
  /\ aceptados = {}
  /\ altas = {}
  /\ avisos = {}
  /\ registros = 0
  /\ arranques = 0
  /\ fallos = 0

-----------------------------------------------------------------------------
(* registrar_usuario_remoto *)

(***************************************************************************)
(* The INSERT; it fails when the e-mail is taken.                          *)
(***************************************************************************)
RegistrarRemoto(e) ==
  LET f == [id |-> IdSiguiente, correo |-> e] IN
  /\ pc[Servidor] = "esperando"
  /\ registros < MaxAltas
  /\ registros' = registros + 1
  /\ \/ /\ e \notin CorreosDe(usuariosBD)
        /\ usuariosBD' = usuariosBD \cup {f}
        /\ nuevo' = [nuevo EXCEPT ![Servidor] = f]
        /\ Ir(Servidor, "truncar")
        /\ Avisa(IF Arrancando THEN {"solape"} ELSE {})
     \/ /\ e \in CorreosDe(usuariosBD)
        /\ UNCHANGED <<usuariosBD, nuevo, pc, avisos>>
  /\ UNCHANGED <<usuariosCSV, pendientes, aceptados, altas, arranques, fallos>>

\* The answer is RESP_OK.
Responde ==
  /\ aceptados' = aceptados \cup {nuevo[Servidor]}
  /\ nuevo' = [nuevo EXCEPT ![Servidor] = SinUsuario]
  /\ Ir(Servidor, "esperando")

(***************************************************************************)
(* fopen(..., "w") empties the file.  When it fails the user is registered *)
(* "pero sin poder escribir CSV", and the answer is the same.              *)
(***************************************************************************)
Truncar ==
  /\ pc[Servidor] = "truncar"
  /\ \/ /\ usuariosCSV' = << >>
        /\ Ir(Servidor, "volcar")
        /\ UNCHANGED <<nuevo, aceptados, avisos, fallos>>
     \/ /\ Falla
        /\ Responde
        /\ Avisa({"corte"})
        /\ UNCHANGED usuariosCSV
  /\ UNCHANGED <<usuariosBD, pendientes, altas, registros, arranques>>

\* The rows in the order of the SELECT, that of their ids.
PorId(filas) ==
  {s \in [1 .. Cardinality(filas) -> filas] : \A j, k \in DOMAIN s : j < k => s[j].id < s[k].id}

\* Mutant of Volcar: the last row is read and not written.
VolcarSinLaUltima ==
  /\ pc[Servidor] = "volcar"
  /\ \E filas \in PorId(usuariosBD) : usuariosCSV' = <<Encabezado>> \o Front(filas)
  /\ Responde
  /\ UNCHANGED <<usuariosBD, pendientes, altas, avisos, cotas>>

(***************************************************************************)
(* The header and the rows are written from the beginning of the file,     *)
(* over what another process may have added since it was emptied.  When    *)
(* the SELECT fails or ends early, the rows that are missing are lost.     *)
(***************************************************************************)
Volcar ==
  /\ pc[Servidor] = "volcar"
  /\ \E filas \in PorId(usuariosBD) :
       \/ /\ usuariosCSV' = <<Encabezado>> \o filas
          /\ UNCHANGED <<avisos, fallos>>
       \/ /\ Falla
          /\ \E n \in 0 .. Len(filas) - 1 :
               usuariosCSV' = <<Encabezado>> \o SubSeq(filas, 1, n)
          /\ Avisa({"corte"})
  /\ Responde
  /\ UNCHANGED <<usuariosBD, pendientes, altas, registros, arranques>>

-----------------------------------------------------------------------------
(* The console program *)

EnUso == pc[Servidor] # "esperando" \/ \E q \in Consolas : pc[q] # "cerrado"

\* Mutant of Arrancar: the old database is always deleted.
ArrancarBorrando(p) ==
  /\ pc[p] = "cerrado"
  /\ arranques < MaxArranques
  /\ arranques' = arranques + 1
  /\ usuariosBD' = {}
  /\ Ir(p, "abrir")
  /\ UNCHANGED <<usuariosCSV, nuevo, pendientes, historia, registros, fallos>>

(***************************************************************************)
(* main, up to the import of the users: the old database is deleted unless *)
(* some process has it open (the server also during the commands that are  *)
(* not modelled here), and the tables are created if they are not there.   *)
(***************************************************************************)
Arrancar(p) ==
  /\ pc[p] = "cerrado"
  /\ arranques < MaxArranques
  /\ arranques' = arranques + 1
  /\ \/ ~ EnUso /\ usuariosBD' = {}
     \/ UNCHANGED usuariosBD
  /\ Ir(p, "abrir")
  /\ UNCHANGED <<usuariosCSV, nuevo, pendientes, historia, registros, fallos>>

\* The file is opened, and read; it may be about to be written again.  When fopen
\* fails no line is imported.
AbrirCSV(p) ==
  /\ pc[p] = "abrir"
  /\ \/ /\ pendientes' = [pendientes EXCEPT ![p] = usuariosCSV]
        /\ Avisa(IF pc[Servidor] = "esperando" THEN {} ELSE {"lectura"})
        /\ Ir(p, "importar")
        /\ UNCHANGED fallos
     \/ /\ Falla
        /\ Avisa({"corte"})
        /\ Ir(p, "menu")
        /\ UNCHANGED pendientes
  /\ UNCHANGED <<datos, nuevo, aceptados, altas, registros, arranques>>

(***************************************************************************)
(* What procesarLineaUsuarios makes of a line.  Nothing can be read from   *)
(* the header, which is the first line: the fields are uninitialised.      *)
(***************************************************************************)
Leidas(linea) ==
  IF linea = Encabezado THEN {[id |-> n, correo |-> Basura] : n \in IdsBasura}
  ELSE {linea}

\* A row that cannot be inserted is reported and skipped.
Inserta(f) == usuariosBD' = IF Cabe(f) THEN usuariosBD \cup {f} ELSE usuariosBD

\* Mutant of ImportarLinea: the id is left to the table.
ImportarLineaSinId(p) ==
  /\ pc[p] = "importar"
  /\ pendientes[p] # << >>
  /\ pendientes' = [pendientes EXCEPT ![p] = Tail(@)]
  /\ \E f \in Leidas(Head(pendientes[p])) : Inserta([f EXCEPT !.id = IdSiguiente])
  /\ UNCHANGED <<usuariosCSV, pc, nuevo, historia, cotas>>

ImportarLinea(p) ==
  /\ pc[p] = "importar"
  /\ pendientes[p] # << >>
  /\ pendientes' = [pendientes EXCEPT ![p] = Tail(@)]
  /\ \/ /\ \E f \in Leidas(Head(pendientes[p])) :
             /\ Inserta(f)
             /\ Avisa(IF /\ f.correo = Basura /\ Cabe(f)
                         /\ \E g \in Usuarios(pendientes[p]) \cup Usuarios(usuariosCSV) :
                              g.id = f.id /\ g.correo # Basura
                      THEN {"basura"} ELSE {})
        /\ UNCHANGED fallos
     \/ Falla /\ Avisa({"corte"}) /\ UNCHANGED usuariosBD
  /\ UNCHANGED <<usuariosCSV, pc, nuevo, aceptados, altas, registros, arranques>>

Importado(p) ==
  /\ pc[p] = "importar"
  /\ pendientes[p] = << >>
  /\ Ir(p, "menu")
  /\ UNCHANGED <<datos, nuevo, pendientes, historia, cotas>>

(***************************************************************************)
(* registrarUsuario: the identifier is chosen, the user types the data,    *)
(* and the line is added.  Nobody asks whether the e-mail is taken.        *)
(***************************************************************************)
ElegirId(p) ==
  /\ pc[p] = "menu"
  /\ registros < MaxAltas
  /\ registros' = registros + 1
  /\ nuevo' = [nuevo EXCEPT ![p].id = GenerarID]
  /\ Ir(p, "alta")
  /\ UNCHANGED <<datos, pendientes, historia, arranques, fallos>>

Anadir(p, e) ==
  LET f == [nuevo[p] EXCEPT !.correo = e] IN
  /\ pc[p] = "alta"
  /\ usuariosCSV' = Append(usuariosCSV, f)
  /\ altas' = altas \cup {f}
  /\ Avisa(IF f.id \in Ids(Usuarios(usuariosCSV) \cup usuariosBD)
           THEN {"doble"} ELSE {})
  /\ nuevo' = [nuevo EXCEPT ![p] = SinUsuario]
  /\ Ir(p, "menu")
  /\ UNCHANGED <<usuariosBD, pendientes, aceptados, cotas>>

Salir(p) ==
  /\ pc[p] = "menu"
  /\ Ir(p, "cerrado")
  /\ UNCHANGED <<datos, nuevo, pendientes, historia, cotas>>

-----------------------------------------------------------------------------
(***************************************************************************)
(* A process is killed between two steps; what it did stays, and what it   *)
(* had not written is lost.                                                *)
(***************************************************************************)
Caida(p) ==
  /\ pc[p] \notin {"esperando", "cerrado", "menu"}
  /\ Falla
  /\ Ir(p, IF p = Servidor THEN "esperando" ELSE "cerrado")
  /\ nuevo' = [nuevo EXCEPT ![p] = SinUsuario]
  /\ pendientes' = [q \in Consolas |-> IF q = p THEN << >> ELSE pendientes[q]]
  /\ Avisa(IF pc[p] = "alta" THEN {} ELSE {"corte"})
  /\ UNCHANGED <<datos, aceptados, altas, registros, arranques>>

PasoServidor == (\E e \in Correos : RegistrarRemoto(e)) \/ Truncar \/ Volcar

PasoConsola(p) ==
  \/ Arrancar(p) \/ AbrirCSV(p) \/ ImportarLinea(p) \/ Importado(p)
  \/ ElegirId(p) \/ (\E e \in Correos : Anadir(p, e)) \/ Salir(p)

Next ==
  \/ PasoServidor
  \/ \E p \in Consolas : PasoConsola(p)
  \/ \E p \in Procesos : Caida(p)

Spec == Init /\ [][Next]_vars
-----------------------------------------------------------------------------
(* Properties *)

(***************************************************************************)
(* The shape of the variables; the table has no two rows with one id or    *)
(* with one e-mail.                                                        *)
(***************************************************************************)
TypeOK ==
  /\ usuariosBD \subseteq Fila
  /\ \A f, g \in usuariosBD : f.id = g.id \/ f.correo = g.correo => f = g
  /\ usuariosCSV \in Seq(Fila \cup {Encabezado})
  /\ pc \in [Procesos -> {"esperando", "truncar", "volcar", "cerrado", "abrir",
                          "importar", "menu", "alta"}]
  /\ nuevo \in [Procesos -> Fila]
  /\ pendientes \in [Consolas -> Seq(Fila \cup {Encabezado})]
  /\ aceptados \subseteq Fila
  /\ altas \subseteq Fila
  /\ avisos \subseteq {"solape", "lectura", "corte", "basura", "doble"}
  /\ registros \in Nat /\ arranques \in Nat /\ fallos \in Nat

\* login_remoto: e enters from the client as user n.
EntraPorBD(e, n) == [id |-> n, correo |-> e] \in usuariosBD

\* iniciarSesion: at the console, the first line with the e-mail gives the id.
EntraPorCSV(e, n) ==
  \E k \in DOMAIN usuariosCSV :
    /\ usuariosCSV[k] = [id |-> n, correo |-> e]
    /\ \A j \in 1 .. k - 1 : usuariosCSV[j] = Encabezado \/ usuariosCSV[j].correo # e

(***************************************************************************)
(* An accepted registration is for good: through restarts of the consoles, *)
(* registrations at them, even with repeated ids or e-mails, and rewrites  *)
(* of the file, the account keeps its id in the table (or is among the     *)
(* lines waiting to be imported), unless a registration overlapped a start,*)
(* a step was cut, or the row made of the header took its id.  A start     *)
(* during a registration does no harm: the database is not deleted then.   *)
(***************************************************************************)
AceptadosPermanecen ==
  avisos \cap {"solape", "corte", "basura"} = {} =>
    \A f \in aceptados :
      \/ f \in usuariosBD
      \/ \E p \in Consolas : f \in ToSet(pendientes[p])
      \/ f \in ToSet(usuariosCSV) /\ \E p \in Consolas : pc[p] = "abrir"

(***************************************************************************)
(* RESP_OK means that the user can enter from the client and from the      *)
(* console, and is the same user in both, unless a step was cut.           *)
(***************************************************************************)
RegistroVeraz ==
  [][\A f \in aceptados' \ aceptados :
       /\ EntraPorBD(f.correo, f.id)'
       /\ EntraPorCSV(f.correo, f.id)' \/ "corte" \in avisos']_vars

(***************************************************************************)
(* Nobody changes identity between the two logins: an e-mail that enters   *)
(* from the client enters from the console too, and with the same id,      *)
(* whatever the consoles have added to the file since; unless an id was    *)
(* given twice, a start and a registration overlapped (either way round)   *)
(* or a step was cut.  The server must be idle: its rewrite of the file    *)
(* follows its INSERT.                                                     *)
(***************************************************************************)
MismaIdentidad ==
  avisos = {} /\ pc[Servidor] = "esperando" =>
    \A e \in Correos : \A n \in Ids(usuariosBD) : EntraPorBD(e, n) => EntraPorCSV(e, n)

(***************************************************************************)
(* registro.c:31, "CREAR IDs UNICOS": no two lines of the file have one id.*)
(***************************************************************************)
IdsUnicos ==
  \A j, k \in {l \in DOMAIN usuariosCSV : usuariosCSV[l] # Encabezado} :
    usuariosCSV[j].id = usuariosCSV[k].id => j = k

(***************************************************************************)
(* registro.c:179, "Escribir todos los usuarios actuales en el CSV": when  *)
(* the server has written the file, the users registered at a console are  *)
(* still in it.                                                            *)
(***************************************************************************)
EscribeTodos ==
  pc[Servidor] = "esperando" => altas \subseteq ToSet(usuariosCSV)
=============================================================================
