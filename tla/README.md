# A verification of the library system

TLA+ models of the university library of `src/Proyecto`, the TLC runs that check
them on small instances, and the theorems about them that TLAPS proves.

Two programs share the directory `datos/`. The **console** (`src/*.c`) is for
somebody sitting at the library; any number of copies of it may run. The
**server** (`servidor/servidor.c`) is for remote users, who run the **client**
(`cliente/*.cpp`). The console keeps its data in CSV files and copies them into
the SQLite database `datos/libros.db` every time it starts; the server works on
the database and, for each operation, then does the same to the CSV files. No
file is locked and no two statements are in one transaction. Most of what is
worth checking comes from there: one fact in two stores, written step by step by
programs that do not know of each other.

## 1. Inventory

| component | source | state | operations | modelled in |
|---|---|---|---|---|
| loans and returns | `src/prestamo.c` | tables `LibrosBd`, `Prestamos`, `historial`; `libros.csv`, `prestamos.csv`, `historial.csv` | `pedir_libro`, `devolver_libro` (console and server), `pedir_libro_remoto`, `devolver_libro_remoto` (server, then the former) | `Inventario`, `Prestamos`, `ReemplazoCSV` |
| users | `src/registro.c`, `login_remoto` | table `usuarios`; `usuarios.csv` | `registrarUsuario` (console), `registrar_usuario_remoto` (server), the two logins | `Registro` |
| schema and start | `src/bd.c`, `src/main.c` | all tables | delete the database, create the tables, import four files line by line | `Arranque`; `Registro` (the users); `Prestamos` (in one step); `Protocolo` (what a listing sees of it) |
| server | `servidor/servidor.c` | one socket | `accept` one client at a time; one command at a time, to the end of the session | `Protocolo` |
| client | `cliente/cliente.cpp`, `red.cpp` | a socket, the cached catalogue | five commands, each a request and a blocking wait for the answer | `Protocolo` |
| console menus | `src/main.c`, `src/menuPrincipal.c`, the forms of `src/registro.c` | stdin, and the option variables | read an option or a text, call the operation | `Entrada` (the reading), `Prestamos` (options 4 and 5) |
| catalogue searches | `src/libro.c` | an array read from the database | searches by title, author and ISBN | not modelled |
| history listing | `src/historial.c` | none | prints a file | not modelled |
| logs, random numbers | `src/log.c`, `servidor/log.c`, `src/random.c` | text nobody reads back | append a line | not modelled |
| functions without a caller | part of `src/bd.c` | - | `pedir_libroBD`, `insertar_prestamo_sqlite` and others | not modelled |
| SQLite | `bd/sqlite3.c` | - | vendored | taken as a store whose statements are atomic, committed one by one, and may fail |

How they interact: client and server exchange integers and length-prefixed
texts over TCP; server and consoles share the files and the database, nothing
else; the console's menus call the CSV routines directly; the server's handlers
call the remote routines, which call the CSV routines last.

What is hard to test in it:

- a loan is three SQL statements and three file writes (a return, three and
  two); a refusal, a failed call or a kill between any two of them leaves the rest;
- the CSV routine makes its own decision after the database has made another,
  on other data;
- `libros.csv` and `historial.csv` are read, copied to a temporary file that every
  process shares, removed and replaced, without a lock: a change made meanwhile, or
  the copy itself, may be lost with every call successful;
- a start of a console replaces the whole database while the server may be using it,
  and while another start does the same;
- the server rewrites `usuarios.csv` from a table that does not hold the users
  registered at the consoles since the last start;
- the two ends of a connection block in `recv` without timeouts, and some
  branches of the server end a request without an answer;
- a start that cannot delete the database imports everything into the old tables,
  two of which have no key that would refuse the second copy;
- `scanf`, `getchar` and `fgets` with arrays of seven sizes share one keyboard: what
  one reader leaves is the next one's answer.

`PROJECT.json` lists each hazard at its line, with the properties that watch it.

What makes each component correct: for loans, that copies are conserved, that
what the two stores say of a book and of a loan agrees, that a loan on record
can be returned, that a closed loan stays closed, and that "yes" means done, in
the database always and in a file unless somebody else was at work on it; for
users, that an accepted registration lasts, that an identifier belongs to one user, and that both logins give the same one; for the
protocol, that commands are looked for where commands are, that an answer is
read as the answer to its own request, and that nobody waits for ever; for a
start, that it leaves the database saying what the files say, and when it cannot,
that the excess is bounded; for the menus, that an answer goes to its question.

## 2. The modules

### Inventario

The abstract specification of the lending database: every copy is on the shelf,
lent, or written off because an operation was cut short; a step moves one copy;
a recount starts a new account. The shelf may be negative, because the code
lends without looking at the number of copies.

### Prestamos

Loans and returns on both stores. One action is one SQL statement, one line
appended, or one of the four steps of a file that is rewritten: both files are
opened and the one is read; both are closed, which writes the temporary one; the
old file is removed; the temporary one takes its name. `tramo` says where each
process is in them, `copiaLibros` and `copiaHistorial` what it has in its buffer.

| action | code |
|---|---|
| `PedirRemoto`, `PedirRestar`, `PedirPrestamo`, `PedirHistorial` | the five steps of `pedir_libro_remoto` (the first two change nothing) |
| `DevolverRemoto`, `DevolverBorrar`, `DevolverSumar`, `DevolverHistorial` | `devolver_libro_remoto` |
| `CsvPedir`, `CsvPrestamo`, `CsvHistorial` | `pedir_libro`: the copy of `libros.csv`; the lines of `prestamos.csv` and `historial.csv` |
| `CsvDevolver`, `CsvCierre` | `devolver_libro`: the copies of `libros.csv` and `historial.csv` |
| `Cerrar`, `Borrar`, `Renombrar`, `Quitar` | the two `fclose`; `remove`; `rename`; `remove` of a copy that was given up |
| `Arrancar`, `Salir`, `MenuPrincipal` | `main`; options 4 and 5 of `menuPrincipal` |
| `PasaDia` | the clock; a day may pass between two steps of one loan |
| `Fallo`, `FalloAlAbrir`, `Caida` | a call fails and the routine returns -1 (when the file does not open the temporary one is emptied all the same); the process is killed |

The four statements that change a book (`RestarSQL`, `SumarSQL`, `RestarCSV`,
`SumarCSV`) are four definitions, each translated from its own lines: an UPDATE
computes the flag from the counter before the change, the console after it.

Every process uses the same `temp.csv` and `temp_hist.csv`. A copy is written from
the beginning of the temporary file over what another process has put there
(`SobreLibros`, `SobreLineas`): its lines replace those of the other, and a longer
text keeps its tail. This takes the lines of two copies to have the same length
at the same place, which the rewriting of a digit nearly always gives; where they
have not, the code leaves pieces of lines. A copy cut at a book with no copies has
any of the lines before it. As in `ReemplazoCSV`, the files are those of Windows: one
that a process has open is neither removed nor renamed.

Undefined behaviour is a choice. `contar_prestamos_atrasados` compares an
integer that `sscanf` never writes (the lines have two fields and the format
seven), so all the lines of a user count as overdue, or none (`Conteos`).

`fondo`, `perdidas`, `cortadas`, `deriva` and `alterados` are history variables: no
action reads them. They say what was found at the last rebuild, what has been cut
since, and on which files two processes have worked at once or a rewriting was cut
before its rename (`Toca`, `Abandona`), so that the invariants can state exactly
when the stores may differ. `RespuestaVeraz` needs `alterados` for one thing only, the
line of `historial.csv` that a return closes: of everything else a "yes" says, it
holds through any overlap.

Left out here: `fopen` and `fclose` as calls of their own and an import that keeps a
file open, modelled by `ReemplazoCSV`; a start step by step, one that cannot delete
the database, and a command of the server in the middle of an import, modelled by
`Arranque`; and dates, which are day numbers (`Veredicto`).

### ReemplazoCSV

What `CsvPedir`, `CsvDevolver`, `CsvCierre` and `CsvHistorial` of `Prestamos` do
to a file, with a step for each file call, and with the starts that read it. The text of a file is the set of the numbers
of the operations it shows, 0 standing for what it held at first.

| action | code |
|---|---|
| `Abrir`, `AbrirTemp` | `fopen` of the file and of the temporary one, which is emptied even when the first failed |
| `Leer`, `Rechazar`, `Quitar` | the loop; the refusal inside it; `remove` of the temporary file |
| `Cerrar`, `Volcar` | the two `fclose`; an unknown book ends the routine after the second |
| `Borrar`, `Renombrar` | `remove(f) != 0 || rename(temp, f) != 0` |
| `Anexar`, `Escribir` | `fopen(historial, "a")` and the `fclose` that writes the line |
| `AbrirImportar`, `CerrarImportado` | a start of a console, reading one file |
| `Empezar`, `Caida` | a routine is called; its process is killed |

The files are those of Windows: a file that a process has open is neither removed
nor renamed, and a rename onto an existing name fails. A text fits the buffer of
stdio, so it is read by the first `fgets` and written by `fclose`; if two
processes write one temporary file, the last text stays. `prestamos.csv`, which
nobody replaces, is left out.

`avisos[f]` records what has happened to f: two processes worked on it at once and
one of them was replacing it ("solape"), one was cut between its `remove` and its
`rename` ("corte"), or a line was added to a file that was not there ("nuevo").
The properties say what holds until then: what can be lost, can be lost only so.

### Registro

The table `usuarios` and `usuarios.csv`. A user is an id and an e-mail; the
registrations of one e-mail are one person's, with one password.

| action | code |
|---|---|
| `RegistrarRemoto`, `Truncar`, `Volcar` | `registrar_usuario_remoto`: the INSERT, `fopen("w")`, the header and the rows |
| `ElegirId`, `Anadir` | `registrarUsuario`: `generarID`, then (after the user has typed) the line |
| `Arrancar`, `AbrirCSV`, `ImportarLinea`, `Importado`, `Salir` | `main` and `cargarUsuariosDesdeCSV`, whose `fopen` may fail: then no line is imported |
| `Caida` | a kill; failing calls are branches of the actions (`Falla`) |

`EntraPorBD` and `EntraPorCSV` are the two logins, which change nothing. The
keys of the table (`Cabe`) decide what an import skips. The header the server
writes is imported as a row of uninitialised fields (`Leidas`): the id is any of
`IdsBasura`, in the run those that the first users get.
`generarID` skips the header, because its first field is not a number.

A start that cannot delete the database (`EnUso`) imports into the old table.
Text a console appends while the server is rewriting the file is overwritten,
because the two positions in the file are independent.

`avisos` records what has happened so far of the things that can lose a user or
confuse two: a registration while a console imports ("solape"), a file read
during a rewrite ("lectura"), a cut step ("corte"), the header's row inserted
with an id that a user of the file, or of the lines still to be imported, has ("basura"), an id given twice ("doble"). Each property names those it
does not survive; that none of the other orders breaks it is what the run shows.

### Arranque

The start of a console (`main`, `inicializarBaseDeDatos`, the imports of `bd.c`)
while the server lends, takes back and lists and the consoles lend and take back
at their menus. The tables are rows: `LibrosBd` and `Prestamos` are sequences in
the order of their ID, where the same row may stand twice; `historial` is a set
with a key.

| action | code |
|---|---|
| `Sondear`, `CerrarSonda` | `sqlite3_open` and `sqlite3_close_v2` of `main` |
| `Borrar` | `remove`, which empties the tables (`Vacia`) unless somebody has the file open (`EnUso`) |
| `Inicializar` | `inicializarBaseDeDatos`: the file is opened again, and the tables that are missing are created |
| `Abrir`, `Importar`, `Importado` | `fopen`; one turn of the loop, with its INSERT; `fclose` and the next table, in the order of `Tablas` |
| `Salir`, `MenuPrincipal`, `Muere` | the end of `main`; options 4 and 5; a kill |
| `Pedir` ... `Anotar`, `Devolver` ... `Cerrar` | the statements of `pedir_libro_remoto` and `devolver_libro_remoto` |
| `CsvPedir` ... `CsvCierre` | the CSV routines, of the server or of a console |
| `Contar`, `Enviar` | the two queries of CMD_LISTAR_LIBROS |
| `Interrumpe` | a call fails, or the server is killed, between two steps |

Between `CerrarSonda` and `Inicializar` a start does not have the file open. Another
start may then delete it as well, and both import into the same tables; or it may
delete what the other is about to fill. A deleted file and one without rows are the
same here: the first statement of a server that opens it finds nothing to lend.

`main` passes `inicializarBaseDeDatos` the handle it has just closed, where a
`sqlite3 **` is expected: the new handle is written into freed memory. If malloc
gave the same block again the handle of `main` works; otherwise every INSERT of
the import is refused. `manejador` chooses ("vivo" or "muerto").

A line of `historial.csv` of 150 characters or more is given by `fgets` in two
pieces, each parsed over the fields of the previous line and inserted. Where the
cut falls is a constant of the instance (`Corte`): after the titles, within a
date, after the dates or after the state, and with a rest that is read as
nothing, as a number, or as a number and a text. The number is a piece of a date and
may be the id of a user (`Numero`; in the run it is one). A row that may have been put
together so (`Compuesta`) is shown to somebody who never had the book, and no row of
`Prestamos` need stand behind it: `ActivoConFila` is not said of it. The columns of copies and
availability, which the import and the loans write in different orders, are one
number here: no property of this module looks at it.

`limpio`, `aperturas`, `avisos`, `sobras` and `cortadas` are history variables,
reset by a deletion: which starts have had the database for themselves, how many
have opened it to import, whether an import was cut, had a dead handle or met a loan
of the server, the rows of loans that stopped half way, and the returns cut.

Left out: the users (`Registro`); the steps of a rewritten file, one here
(`Prestamos`, `ReemplazoCSV`); a line of `libros.csv` of 150 signs or more, which would
be cut as those of the history are; blank lines and lines edited by hand in the
files; a CSV file larger than the first buffer of stdio, of which a later part
could be newer; and SQLITE_BUSY, which is one of the failures.

### Entrada

The console program as a reader of its keyboard. A line is the number of its
signs and the question it was typed for; `Tras(k)` is what is left of it after k
signs, the end of the line being the last.

| action | code |
|---|---|
| `Principal` | `scanf("%d")` and `getchar()` of `main`, and the switch |
| `Rellenar`, `Registrar` | the five texts of `registrarUsuario`, and its line of the file |
| `IniciarSesion` | the two texts of `iniciarSesion`, and the call of `menuPrincipal` |
| `Menu`, `Buscar`, `BuscarTexto`, `Operar`, `Enter` | `menuPrincipal`: the option, the searches, the ISBN of a loan or a return, the last getchar |
| `Teclear`, `CerrarEntrada` | the user types a line, when the program waits for one; the input is closed |

The first sign of a piece is chosen when somebody reads it (`Signos`): a digit of
that menu, or any other. Options that only print are among the others. `scanf("%d")`
takes as many digits as there are, zeros before an option included. `scanf` that converts nothing leaves `opcion`, and
`fgets` at the end of the input leaves its array: the value read before stays
("vieja"), or what the stack held ("basura").

`propio` and `ultima` record whether the texts and the option of the last
operation were typed for it; `causas` what the user has done out of measure: an
answer where one digit or Enter was asked ("respuesta"), a text that exactly fills
its array ("justa") or is longer ("larga"), the end of the input ("fin"). What is
left of an answer to `main` or to Enter is read by the form or the option that
comes next, so one with more signs than a name has is "larga" too. An ISBN of 13
signs always fills its array, and is in measure.

### Protocolo

The conversation of the clients and the server. A channel is a sequence of
pieces (an integer, or the bytes of a text); `recibir_string` consumes what the
code consumes, also when the length is out of range or the bytes are taken for
a length.

| action | code |
|---|---|
| `Conectar`, `Elegir`, `EscribirDatos`, `EscribirId`, `EscribirISBN`, `Salir` | the client up to the wait: the command is sent when it is chosen, the data when they are typed |
| `RecibirRespuesta`, `RecibirId`, `RecibirCantidad`, `RecibirLibro`, `RecibirBytes`, `Cachear` | the client reading its answer |
| `Aceptar`, `LeerOrden`, `LeerId`, `LeerCadena` | `iniciar_servidor`, and `procesar_cliente` reading a request |
| `ContestarLogin`, `ContestarRegistrar`, `ContestarISBN`, `Contar`, `EnviarLineas` | the ends of the handlers, with their silent branches (`Calla`) |
| `Arrancar`, `Importar`, `PerderLineas` | consoles that start meanwhile: the table is emptied, unless the server is listing or a console importing, and filled line by line; an import that loses lines |
| `CaidaCliente`, `CaidaServidor` | deaths; the server is started again |

`LineasDe` and `Formulario` write out the pieces of a listing and of a form. A form
holds at most one abnormal text (empty, or longer than 10000). An integer
arrives whole. What one end had sent before it closed is read by the other.
Whether a request succeeds is a choice here; what it does to the data is in the
other modules. What a listing reads is here: `LibrosBd` is a number of rows
(`libros`), which consoles empty and fill while the server works, and the two queries
give those there are at that moment (`Recorre`), or fewer when a step fails.
`libros.csv` itself keeps its lines; a start that does not find it is
`PerderLineas`. No client sends `CMD_SALIR`; it would end the session like an
unknown command.

`silencios`, `desajustes`, `largas`, `cortadas`, `vistos` and `aMedias` are history
variables. A client is out of step (`desajustes`) after a listing whose count and lines
differed, because a query ended early or a row came between the two; and in one
case more that came out of a proof: a client that has read a count of no lines goes
on, and if the second query of that listing cannot even start, its RESP_ERROR is read
as the answer to the next command. `vistos` is how many rows were counted for a client
and `aMedias` whether an import was under way, or had been cut: a listing made then
agrees with itself, nothing fails, and an incomplete catalogue (or none) is cached for
good. `CacheFiel` names that case.

## 3. What is checked

| run | instance | shows |
|---|---|---|
| `concurrente` | server and one console, two users, one copy, three requests, two interruptions, a change of day (926,616 states) | `TypeOK`; flag and counter agree in both stores (`DisponibleCoherente`); `libros.csv` never below zero (`CopiasCSVNoNegativas`); an active loan can be returned (`ActivoDevolvible`); the database not ahead of `libros.csv` until two processes work on that file at once (`BDNuncaSuperaCSV`); copies are conserved, but for those of cut operations (`ConservacionBD`); without interruptions and overlaps a loan active in `historial.csv` is active in the database (`HistorialesConcuerdan`); a verdict is final until two processes work on the file at once or one is cut (`CierreDefinitivo`); what "yes" means, through any overlap (`RespuestaVeraz`); refinement of `Inventario` (`ImplementaInventario`) |
| `disponibilidad` | violation | the availability check of `pedir_libro_remoto` lets a loan of no copies through |
| `atrasados` | violation | three overdue loans do not bar a user |
| `reemplazo` | three processes, three operations, two failures or kills | `TypeOK`; what returned 0 stays in the file (`NadaSePierde`); what was refused shows in none (`SinRastro`); a loan in `historial.csv` is counted in `libros.csv` (`HistorialTrasLibros`); after a cut the temporary file has everything until somebody opens it (`Recuperable`) |
| `registro_seguro` | server and two consoles, two e-mails, four registrations, three starts, one failure (5,812,942 states) | `TypeOK`; an accepted account lasts (`AceptadosPermanecen`); RESP_OK means the user can enter from both sides (`RegistroVeraz`); who enters through the database enters through the file as the same user (`MismaIdentidad`) |
| `registro_ids` | violation | `generarID` can give one id to two users |
| `registro_todos` | violation | the server's rewrite of the file loses users |
| `protocolo_seguro` | two clients, two commands each, ordinary and empty texts, one book, a backlog of one, one start of a console, one failure, one death or cut import (4,952,706 states) | framing (`Alineado`); an answer is read by its own request (`RespuestaPropia`); what the cache holds, also when a console was importing (`CacheFiel`); the complete list of ways the two ends block each other (`BloqueoExplicado`) |
| `protocolo_vivo` | two clients, one command each, every kind of text, two books, a backlog of two, no start, one failure, one death, under fairness (175,167 states) | requests are answered, or were dropped by a named branch (`Contestado`); who has ended or died keeps nobody behind it waiting (`Relevo`); the ways into a block, with texts too long (`BloqueoExplicado`) |
| `protocolo_error` | violation | RESP_ERROR is read as a number of books |
| `arranque` | server and two consoles, two users (the id of one can be read from a cut line), two books, one out of copies and with lines that do not fit the buffer, two starts, two requests or failures (3,934,277 states) | `TypeOK`; a start that had the database for itself leaves in it what the files say (`InicioFiel`); an active loan has the row its return looks for, whatever went on during the imports, unless it was put together from pieces (`ActivoConFila`); how many returns a loan can be granted (`DevolucionesAcotadas`); each book listed once for each start since the deletion (`CatalogoRepetido`); a listing never promises books that are gone (`NadieEsperaLineas`) |
| `entrada` | lines of 0, 1, 4, 13, 17, 20 and 29 signs, letters, the end of the input | `TypeOK`; answers in measure go to their questions (`TodoPropio`); a loan or a return is the one chosen with the ISBN typed for it, also after letters for a number (`PrestamoPropio`), and is chosen in its menu unless a line was too long (`PrestamoElegido`); the program always comes back to ask (`SiempreVuelve`) |

The violations are disagreements between the code and its own comments; each
finding in `PROJECT.json` quotes the line. Two of them have left their mark in
the data under `datos/`: a book with -1 copies in `libros.db`, and users whose
ids follow 2009661511, the id that the header's row once got.

**Bounds.** Two users and one copy are the least for a contended copy, and two
books tell a wrong row from a right one. Three requests fit the stories the loans
need: two of them overlap on a file, server against console, and the third finds what
they left, after a restart or not; a loan, the same loan again and a return meet the
key of the history. One interruption makes the state that another one, after a
restart, must survive; a copy that another process installs needs none. The fourth
request (the second return of a loan taken twice) is covered by the proofs only.
With `Plazo = 0` one change of day makes a loan late; the verdict depends only
on whether the date has passed. In `ReemplazoCSV` a third process makes a `remove` fail while two work
on the other file, or replaces a file again after a cut; three operations give
every process one, or one process a predecessor and a successor; the two failures
are enough for a stale temporary file to meet a second one. In `Registro` a user is lost by a rewrite and
registered again within three registrations, and the fourth gives the row a
competitor; of three starts two make a rebuild after a rebuild and the third is one that
cannot delete the database. In `Protocolo` one book tells a whole catalogue from an empty one and, imported twice,
from one with a line too many, and one start empties it, fills it or adds to it; a second
command shows what the first one left in the channel, a second client what it
left to others, and a backlog of one fills; one of two holds both clients (three
clients, with liveness, do not fit in the time of a run, nor do texts too long beside a
start of a console: each has its run). In `Arranque` two starts
let one import into the tables of the other, or into those it is filling, or both
delete and then both import;
requests, failures and kills share one bound (`MaxSucesos`), and two of them make
the stories the properties tell: a loan and its return, a loan and a kill, a
listing and a kill. One copy is enough because the module asks how
often a row is there; the second user is the one whose id stands in the middle of a
line; of the two lines of the history one fits the buffer and one
does not, with one place of the cut per book. In `Entrada` the lengths are those
that fill, and those that pass, an array: 1 a digit, 4 the array of the search
menu, 13 an ISBN, 17 an ISBN with its hyphens (whose rest is read as an option), 20 one
more than a telephone, 29 an author; the longer arrays are filled in the
proofs only. The bounds appear only in guards
(`Max...`), and no theorem depends on their values.

**Symmetry** is used only where no liveness is checked and no expression orders
the values (`registro_seguro`, `protocolo_seguro`, `reemplazo`, `arranque`). Deadlock is not an error of
any run: users may stop typing, and the bounds end every behaviour. The deadlock
of the protocol that matters is stated as an invariant (`BloqueoExplicado`).

**Fairness.** `Prestamos`, `ReemplazoCSV`, `Registro` and `Arranque` have safety
properties only. `Entrada` asks weak fairness of the program, one thread that
runs, and nothing of the user.
`SpecViva` of `Protocolo` asks weak fairness of the server's steps and of each
client's receiving steps: they are ordinary code on a running machine, and a
reader whose data has arrived is not starved. Nothing is asked of typing,
connecting, leaving or dying. Hence `Relevo` speaks of those who have only ended clients before them: a
connected user who types nothing keeps the server.

## 4. What is proved

`PrestamosPruebas` proves its theorems for all users, books, numbers of copies,
consoles and bounds that satisfy `ConstantesOK`, `Inventario` its own for any
set of books. What each module assumes of its constants stands in its `ConstantesOK`:
the shapes of the constants, and that the names for "nobody" and "no book" are of
no user and of no book. Nothing is assumed about how many there are, nor which
numbers the ids are.

1. **Types** (`Tipos`): `TypeOK` is not inductive alone. A step writes
   `orden[p].isbn` into a table of books, so the argument needs `OrdenOK`: who
   is where in its operation, and that its user and book are known by then.
2. **Flag and counter** (`BanderaYContador`), **no negatives in the CSV**
   (`SinNegativosEnCSV`): inductive over the actions that touch a book; the
   rebuild carries the first from one store to the other. Both need more than the
   file: the temporary one and the copy in the buffer of every process
   (`TextosCoherentes`, `TextosNoNegativos`), because any of them may end in its place.
3. **Rows** (`FilasBienFormadas`): the table is finite, ids are unique and below
   the counter, and a return under way holds the id of a row of its loan. This
   is what makes "DELETE by id" remove exactly one row, and an INSERT add one.
4. **Refinement** (`Implementa`): with 3, every action maps to a step of
   `Inventario` or a stutter. `Conserva` of `Inventario` then gives
   `ConservacionBD` (`ConservaLaBD`) through the mapping.
5. **A lone copy is faithful** (`CadaCopiaEsFiel`): the lemma the next ones share.
   `Ordenados` says of a file that is not in `alterados` that at most one process
   rewrites it, that the file is there but between its remove and its rename, and that
   the copy, then the temporary file, are the text of the file with the change of that
   operation (`EnRegla`): one book changed, or some loans of one user closed. Hence
   **closed once** (`CierreUnico`, an action property): the only step that changes
   lines is a rename, and what it installs is such a text.
6. **The database is not ahead** (`SinSuperarCSV`), from 5: the property speaks of the
   moments between commands only. `Desfase` extends it to every state by the
   `Adelanto` of the step the server is in: 1 while the copy has left the
   database and not the file, -1 while it is back in the database only.
7. **Active loans have their row** (`ActivosDevolvibles`): through a rebuild the
   property rests on the files, so the invariant is joined by `Respaldado`:
   every line of `historial.csv`, and every line about to be written there, has
   its line in `prestamos.csv`; and so has every line of a copy and of the temporary
   file, whoever installs them. It holds because `pedir_libro` writes the two
   files in that order.
8. **A yes is true** (`RespuestasVeraces`, an action property): `EnCamino` says what
   the server has done in the database before it goes to the files, and that it is
   still so, since nobody else writes the database while it works and a start is
   refused; `Respaldado` of 7 gives the line of `prestamos.csv`, and 5 the closed line of
   `historial.csv`.
9. **The histories agree** (`LosHistorialesConcuerdan`): the property speaks of the
   moments between commands. `Concuerdan` extends it to every state by the return
   that has closed the loans in the database and not yet in the file (`PorCerrar`),
   and by the copy that a loan at a console has already counted before it writes
   its line (`DeLaConsola`). A book that is missing from
   `libros.csv` is an exception that the proof asked for: its return ends at the first
   file, after the database has closed the loan.

`ReemplazoCSVPruebas` proves, for any processes, operations and failures:

10. **Nothing is lost** (`NoSePierde`): `NadaSePierde` is not inductive; it needs
   to know what the replacer holds. Without a warning it is the only one at work
   on its file (`Unico`), so what it has read is the whole text, and what it puts
   in place is that text and its own line (`Guardado`, `Copia`); a file that is
   not there has its replacer at `rename`, which then cannot fail by itself.
11. **No trace** (`NoDejaRastro`): numbers are distinct (`Numeros`), and no text
   that counts has the number of an operation still at `libros.csv` (`Limpio`).
12. **libros.csv first** (`PrimeroLibros`): inductive with 10, because who is at
   `historial.csv` has its number in `libros.csv` (`Completo`).
13. **What is left after a cut** (`SeRecupera`): `Cortado` adds that the file stays
    away and that nobody does more than find it out: a routine that cannot open it
    goes no further than the temporary file. So what the dead process left there is
    complete, by 10, until the next routine empties it.

`EntradaPruebas` proves, for lines of any length:

14. **Types** (`Tipos`): inductive as it stands; every array has room for a sign,
    so a piece read is never empty and leaves a line or nothing.
15. **The option is of who types it** (`EligeQuienOpera`): `PrestamoElegido`
    speaks of the last operation only. `InvElegido` adds what makes it so: while
    no answer is too long, what is left of a line fits what reads it next
    (`CabeLoQueQueda`), so a text ends at its own line, and the menu's `opcion`
    is read from a line typed for the menu, or kept after the input has ended.

16. **Loans and returns are one's own** (`OperaLoSuyo`), **each line to its question**
    (`CadaLineaSuPregunta`): `InvPrestamo` and `InvTodo` say, for each question, how much
    may be left of a line and for which question it was typed. What makes them hold is
    one end of line: `fgets` with an array that the answer does not fill takes it, and
    `scanf` leaves exactly one for the `getchar` that follows, or for the menu.

`RegistroPruebas` proves, for any consoles, e-mails and uninitialised values:

17. **Types** (`Tipos`): the table must be finite for `MAX(id) + 1` to exist, and the
    file has its header before the server writes below it. `Base` collects what the
    other proofs share: the new row of the server belongs to its registration, and the
    accepted accounts are rows that were really given.
18. **RESP_OK is true** (`RespuestaDeRegistroVeraz`): an action property. The row just
    inserted is in the table, and every row of the table is in the order that `Volcar`
    writes, before any other with its e-mail: the e-mail is a key of the table.
19. **Accepted accounts last** (`LosAceptadosPermanecen`): the property says where an
    account is; what is inductive (`Guardado`) says that it is the first line with its
    id or its e-mail wherever it is not in the table yet, and that nobody in the table
    stands in its way, so that the import cannot skip it.
20. **One identity** (`UnaSolaIdentidad`): table and file are related through the place
    at which each import is (`Importadas`), which is not a variable of the program: the
    lines before it have their e-mail in the table, and a row of the table is the first
    line with its e-mail (`PrimeraConCorreo`). The attempt changed the model twice. The
    warning "basura" did not look at the lines of the file already imported, whose
    owners may have been skipped; and `MismaIdentidad` said only that no two identities
    were found, where it now says that the second login succeeds.

`ProtocoloPruebas` proves, for any clients, catalogue, backlog, kinds of text and bounds:

21. **Types** (`Tipos`): with the command that belongs to each step of the server
    (`PasoComando`) and who has a connection open, in the backlog once (`EnCola`,
    `Conexiones`).
22. **Framing** (`LaOrdenDondeToca`): a reader of the stream is at a mark (how many texts
    are due, whether a length, bytes or the user id comes next, and which command they
    belong to); `Lectura` moves it over one piece and `Recorrido` over a stream. The
    invariant `Encuadre` says that what is on its way takes the mark of the server
    (`EnServidor`) to the mark of the client (`EnCliente`), or to one where a text too
    long has left the reader lost. To send appends a walk, to read takes its first
    step, and a command is due exactly where the server looks for one.
23. **Turns** (`AbrazoExplicado`, `CadaRespuestaASuOrden`): the mark also counts the
    commands, so with an empty stream the server has read all that was sent. `Compas`
    adds the way back: at most one command is unanswered, the pieces on their way to a
    client are tagged with its last command (`Etiquetas`) and are what it is about to
    read (`Forma`), and when the server is done with a command the client has got its
    answer (`Servido`) unless a named branch left it without. The proof of the first
    found no other way into the embrace; that of the second found the case of
    the count of no lines told in section 2.
24. **The cache** (`LaCacheEsElCatalogo`): while a listing is read, the lines kept and
    those still expected add up to what was counted for that client (`Catalogo`). While
    no import has lost lines, the rows of the table and those still to be inserted are
    at least the catalogue (`TablaEntera`), so a count outside an import is of all of it.

Induction over data is replaced by the least-number principle (`Numeros`): of the
places where a statement about a sequence or a run of steps would fail, take the
first. `HayMenorQue` gives it from the well-foundedness of the natural numbers.

`ArranquePruebas` proves, for any users, catalogue, consoles and places of the cut:

25. **Types** (`Tipos`) and **listings** (`NingunaEsperaVana`): `Base` adds to the types
    who has an order and which (`Marcha`), what a start has still to read of its table
    (`Importacion`), and that a bad handle is noted (`Manejo`). What `sscanf` leaves
    unwritten is taken from the last line, so the shape of a line is that of two of them
    put together (`SobreLeido`). `Presente` says that what the server has looked at stays
    until it uses it: the imports only append, and while it works nothing is deleted.
    `SinAbrir` says what a deletion leaves: until somebody opens the file again there are
    no rows, nobody imports, and the server can at most list nothing.
26. **Each book once for each start** (`CadaLibroUnaVezPorArranque`): `CadaLibro` counts
    the rows of a book together with the starts that have still to insert one (`Faltan`):
    together they are the starts that have opened the database (`aperturas`), however
    many of them deleted it. A step of an import moves a start from the second count to
    the first.
27. **Returns** (`DevolucionesContadas`): `Acotada` adds to the rows of a loan the lines
    read and not yet inserted (`PorLeer`, counted from the end of what is left, where an
    import does not move them) and, for each start that has not read the file
    (`SinLeer`), all the lines it will find there.

28. **Active loans have their row** (`CadaActivoSuFila`): a line of the history, in the
    file, in the hands of an import or about to be written, has its line in
    `prestamos.csv` (`Respaldo`), because that file is written first and never loses a
    line. So while the tables are filled an active row of `historial` has its row in
    `Prestamos`, is being returned, was cut, or will still be inserted by a start
    (`Viene`). It rests on `historial` being imported before `Prestamos`. `sscanf` leaves
    fields of the previous line: the second piece of a long line follows its first, whose
    book is the one in `local` (`RestoTrasSuLinea`), so a row with the user of one line
    and the book of another is `Compuesta`, and the others are of one line (`Enteras`).

29. **A start is faithful** (`ElInicioEsFiel`, an action property): while a start has
    the database for itself, the server has at most looked and the other consoles are
    at most about to delete (`NadieMas`), so the files do not change either; what is in
    each table and what is still to be read add up to the file (`Avance`). For the
    history: of the lines read so far, the first of each key is in the table and the
    others found their key taken (`Recogidas`), and of a line in two pieces the first
    leaves its book in `local`, where the second finds it (`ColaDelHistorial`).

Two assumptions on the constants came out of these proofs: the catalogue is a
sequence, and the text that `sscanf` may take for an ISBN is of no book. The number
that it may take for a user is any number.

Every invariant and every action property of the passing runs is a theorem. Only
model-checked: liveness under fairness (`Contestado`, `Relevo`, `SiempreVuelve`),
which is beyond the prover.

## 5. What is not modelled, and the plan

Done, in this order: `Inventario`, `Prestamos` with its proofs, `Protocolo`,
`Registro`, `ReemplazoCSV` with its proofs, `Arranque`, `Entrada`; then the proofs of
`Entrada`, `Registro`, `Protocolo` and `Arranque`, and the rest of those of
`Prestamos` and `ReemplazoCSV`. Every part of the program that changes a state is an
action of a module.

`Protocolo` and the data modules are not composed. The server finishes a request
it has read whatever becomes of its client, and a client sends nothing twice; so a
request gives the data modules their arguments and takes from them whether it
succeeded, a free choice in `Protocolo`. A listing takes more, the rows that are there
at each of its two queries: `Protocolo` has the table as a number of rows that starts
empty and fill in any way `Arranque` allows, and more. In the same way `Prestamos` and
`Arranque` each have in one step what the other has in several: an import there, a
rewritten file here. A rewriting that overlaps another while a start imports is
in neither.

Not modelled, and why:

- **Catalogue searches.** They only read. `menuPrincipal` opens
  `../datos/libros.db`, which is not the database of the rest (`datos/libros.db`):
  no program fills it, so the array it searches is empty or foreign. And `libro.c`
  is compiled with a `Libro` of pointers where `bd.c` filled one of arrays: a
  search in a non-empty array is undefined from its first `strstr`.
- **History listing.** `mostrar_historial` prints lines of `historial.csv` in the
  working directory, which no program writes.
- **The two date functions** of `prestamo.c` go through `mktime` and the time zone;
  what matters to the stores is the order of two dates, which is in `Veredicto`.
- **An integer split by the network** (`servidor.c:59`): taken to arrive whole.
- **Functions without a caller** (half of `bd.c`), logs, random numbers, the
  configuration files.
- **SQLite**: vendored, 159249 of the 161911 lines of the implementation; taken as
  a store whose statements are atomic and may fail.
