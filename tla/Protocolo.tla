------------------------------ MODULE Protocolo ------------------------------
(***************************************************************************)
(* The conversation between the clients (cliente.cpp, red.cpp) and the     *)
(* server (servidor.c) over TCP.                                           *)
(*                                                                         *)
(* The server attends one connection at a time, from accept to the end of  *)
(* the session; the connections accepted by the system but not yet by the  *)
(* program wait in the backlog.  A request is a command, sent as soon as   *)
(* it is chosen, and its data, sent as the user types them; the client     *)
(* then blocks until it has read an answer.  There are no timeouts.        *)
(*                                                                         *)
(* A channel is a sequence of the pieces that one side sends and the other *)
(* reads: an integer of four bytes or the bytes of a text.  An integer     *)
(* arrives whole.                                                          *)
(***************************************************************************)
EXTENDS Naturals, Sequences

CONSTANTS
  Clientes,      \* executions of the client program
  Nadie,         \* no client
  Libros,        \* the number of books of libros.csv
  Cadenas,       \* the kinds of text a user types (see Trozos)
  Espera,        \* connections the backlog holds; 3 in iniciar_servidor
  MaxOrdenes,    \* bound: commands of one client
  MaxFallos,     \* bound: failures of the database
  MaxCaidas,     \* bound: deaths of the server and of clients, and imports cut
  MaxArranques   \* bound: consoles started meanwhile

ASSUME ConstantesOK ==
  /\ Nadie \notin Clientes
  /\ Libros \in Nat
  /\ Cadenas \subseteq {"normal", "vacia", "larga"}
  /\ Espera \in Nat
  /\ MaxOrdenes \in Nat
  /\ MaxFallos \in Nat
  /\ MaxCaidas \in Nat
  /\ MaxArranques \in Nat

VARIABLES
  \* the clients
  estado,        \* what each client does next
  orden,         \* the command whose answer it wants
  enviadas,      \* how many commands it has sent
  porRecibir,    \* lines of the catalogue it still expects
  cache,         \* lines in cache_libros
  cacheado,      \* libros_cacheados
  \* the connections
  aServidor,     \* pieces on their way to the server
  aCliente,      \* pieces on their way to the client
  abierta,       \* the server's end of the connection is open
  \* the server
  cola,          \* the backlog
  atiende,       \* the client it attends
  paso,          \* what it does next
  comando,       \* the command it has read
  leidas,        \* how many commands it has read in this session
  faltan,        \* texts still to be read, or lines still to be sent
  mal,           \* recibir_string has returned NULL in this command
  \* the table LibrosBd, which the consoles import while the server lists it
  libros,        \* its rows
  porImportar,   \* the lines of libros.csv that the starts have still to insert
  roto,          \* an import has lost lines since the file was last deleted
  \* history variables, read by no action
  silencios,     \* clients whose request was left without an answer they can use
  desajustes,    \* clients whose count ended early or did not agree with the lines
  largas,        \* clients that sent a text longer than recibir_string takes
  cortadas,      \* clients whose connection broke
  vistos,        \* the rows that were counted for each client; at first, all the books
  aMedias,       \* clients they were counted for during an import, or a cut one
  \* bounds
  fallos, caidas, arranques

cliente  == <<estado, orden, enviadas, porRecibir, cache, cacheado>>
conexion == <<aServidor, aCliente, abierta>>
servidor == <<cola, atiende, paso, comando, leidas, faltan, mal>>
tabla    == <<libros, porImportar, roto, arranques>>
listado  == <<vistos, aMedias>>
historia == <<silencios, desajustes, largas, cortadas, listado>>
cotas    == <<fallos, caidas>>
vars     == <<cliente, conexion, servidor, tabla, historia, cotas>>

ConDatos  == {"login", "registrar"}
ConISBN   == {"pedir", "devolver"}
Ordenes   == ConDatos \cup ConISBN \cup {"listar"}

\* RESP_ERROR
RESP_ERROR == 101

\* The number of texts that go with a command.
Textos(o) == IF o = "registrar" THEN 5 ELSE IF o = "login" THEN 2 ELSE 1

(***************************************************************************)
(* enviar_string: the length and then the bytes.  recibir_string takes a   *)
(* length between 1 and 10000; the bytes of an empty text are no bytes.    *)
(***************************************************************************)
Trozos(s) ==
  CASE s = "vacia"  -> <<"len_cero">>
    [] s = "normal" -> <<"len", "texto">>
    [] s = "larga"  -> <<"len_exceso", "texto">>

\* The two or five texts of a form: the k-th of kind s and the others ordinary.
Formulario(n, k, s) ==
  LET Campo(j) == Trozos(IF j = k THEN s ELSE "normal") IN
  IF n = 2 THEN Campo(1) \o Campo(2)
  ELSE Campo(1) \o Campo(2) \o Campo(3) \o Campo(4) \o Campo(5)

Trozo(v, n) == [valor |-> v, cuantos |-> n, orden |-> leidas]

-----------------------------------------------------------------------------
Init ==
  /\ estado = [c \in Clientes |-> "fuera"]
  /\ orden = [c \in Clientes |-> "ninguna"]
  /\ enviadas = [c \in Clientes |-> 0]
  /\ porRecibir = [c \in Clientes |-> 0]
  /\ cache = [c \in Clientes |-> 0]
  /\ cacheado = [c \in Clientes |-> FALSE]
  /\ aServidor = [c \in Clientes |-> << >>]
  /\ aCliente = [c \in Clientes |-> << >>]
  /\ abierta = [c \in Clientes |-> FALSE]
  /\ cola = << >>
  /\ atiende = Nadie
  /\ paso = "accept"
  /\ comando = "ninguna"
  /\ leidas = 0
  /\ faltan = 0
  /\ mal = FALSE
  /\ silencios = {} /\ desajustes = {} /\ largas = {} /\ cortadas = {}
  /\ libros = Libros /\ porImportar = 0 /\ roto = FALSE
  /\ vistos = [c \in Clientes |-> Libros] /\ aMedias = {}
  /\ fallos = 0 /\ caidas = 0 /\ arranques = 0

-----------------------------------------------------------------------------
(* The client *)

\* A piece sent on a connection the server has closed is lost.
Manda(c, trozos) ==
  aServidor' = IF abierta[c] THEN [aServidor EXCEPT ![c] = @ \o trozos] ELSE aServidor

Pasa(c, e) == estado' = [estado EXCEPT ![c] = e]

(***************************************************************************)
(* The connection is made before the server accepts it; when the backlog   *)
(* is full it is refused and the program ends.                             *)
(***************************************************************************)
Conectar(c) ==
  /\ estado[c] = "fuera"
  /\ \/ /\ Len(cola) < Espera
        /\ cola' = Append(cola, c)
        /\ abierta' = [abierta EXCEPT ![c] = TRUE]
        /\ Pasa(c, "menu")
     \/ /\ Len(cola) >= Espera
        /\ Pasa(c, "fin")
        /\ UNCHANGED <<cola, abierta>>
  /\ UNCHANGED <<orden, enviadas, porRecibir, cache, cacheado, aServidor, aCliente,
                 atiende, paso, comando, leidas, faltan, mal, historia, tabla, cotas>>

\* Option 3 asks the server only while nothing is cached.
Elegir(c, o) ==
  /\ estado[c] = "menu"
  /\ enviadas[c] < MaxOrdenes
  /\ o = "listar" => ~ cacheado[c]
  /\ Pasa(c, IF o = "listar" THEN "espera" ELSE "datos")
  /\ orden' = [orden EXCEPT ![c] = o]
  /\ enviadas' = [enviadas EXCEPT ![c] = @ + 1]
  /\ Manda(c, <<o>>)
  /\ UNCHANGED <<porRecibir, cache, cacheado, aCliente, abierta, servidor, historia,
                 tabla, cotas>>

EscribirDatos(c, s, k) ==
  /\ estado[c] = "datos"
  /\ orden[c] \in ConDatos
  /\ k \in 1 .. Textos(orden[c])
  /\ Manda(c, Formulario(Textos(orden[c]), k, s))
  /\ Pasa(c, "espera")
  /\ largas' = IF s = "larga" THEN largas \cup {c} ELSE largas
  /\ UNCHANGED <<orden, enviadas, porRecibir, cache, cacheado, aCliente, abierta,
                 servidor, silencios, desajustes, cortadas, listado, tabla, cotas>>

EscribirId(c) ==
  /\ estado[c] = "datos"
  /\ orden[c] \in ConISBN
  /\ Manda(c, <<"id">>)
  /\ Pasa(c, "isbn")
  /\ UNCHANGED <<orden, enviadas, porRecibir, cache, cacheado, aCliente, abierta,
                 servidor, historia, tabla, cotas>>

EscribirISBN(c, s) ==
  /\ estado[c] = "isbn"
  /\ Manda(c, Trozos(s))
  /\ Pasa(c, "espera")
  /\ largas' = IF s = "larga" THEN largas \cup {c} ELSE largas
  /\ UNCHANGED <<orden, enviadas, porRecibir, cache, cacheado, aCliente, abierta,
                 servidor, silencios, desajustes, cortadas, listado, tabla, cotas>>

\* recv returns 0 or an error.
Rota(c) == ~ abierta[c] /\ aCliente[c] = << >>

(***************************************************************************)
(* The answer of a command other than listing.  A piece left over from a   *)
(* listing may be taken for it: a length may have the value of             *)
(* RESP_LOGIN_OK, and an integer may be the beginning of a text.           *)
(***************************************************************************)
RecibirRespuesta(c) ==
  /\ estado[c] = "espera"
  /\ orden[c] # "listar"
  /\ \/ /\ aCliente[c] # << >>
        /\ LET v == Head(aCliente[c]).valor IN
           /\ \/ orden[c] = "login" /\ v \in {"login_ok", "len"} /\ Pasa(c, "espera_id")
              \/ ~ (orden[c] = "login" /\ v = "login_ok") /\ Pasa(c, "menu")
           /\ \/ aCliente' = [aCliente EXCEPT ![c] = Tail(@)]
              \/ v = "texto" /\ UNCHANGED aCliente
     \/ Rota(c) /\ Pasa(c, "menu") /\ UNCHANGED aCliente
  /\ UNCHANGED <<orden, enviadas, porRecibir, cache, cacheado, aServidor, abierta,
                 servidor, historia, tabla, cotas>>

RecibirId(c) ==
  /\ estado[c] = "espera_id"
  /\ \/ /\ aCliente[c] # << >>
        /\ \/ aCliente' = [aCliente EXCEPT ![c] = Tail(@)]
           \/ Head(aCliente[c]).valor = "texto" /\ UNCHANGED aCliente
     \/ Rota(c) /\ UNCHANGED aCliente
  /\ Pasa(c, "menu")
  /\ UNCHANGED <<orden, enviadas, porRecibir, cache, cacheado, aServidor, abierta,
                 servidor, historia, tabla, cotas>>

(***************************************************************************)
(* The first integer of a listing is the number of lines, whatever it is.  *)
(***************************************************************************)
RecibirCantidad(c) ==
  /\ estado[c] = "espera"
  /\ orden[c] = "listar"
  /\ \/ /\ aCliente[c] # << >>
        /\ porRecibir' = [porRecibir EXCEPT ![c] = Head(aCliente[c]).cuantos]
        /\ aCliente' = [aCliente EXCEPT ![c] = Tail(@)]
     \/ Rota(c) /\ UNCHANGED <<porRecibir, aCliente>>
  /\ Pasa(c, "lista")
  /\ UNCHANGED <<orden, enviadas, cache, cacheado, aServidor, abierta, servidor,
                 historia, tabla, cotas>>

\* Mutants of RecibirLibro: one turn of the loop too many; every line is kept in
\* the place of the last.
RecibirLibroDeMas(c) ==
  /\ estado[c] = "lista"
  /\ \/ /\ Len(aCliente[c]) >= 2
        /\ Head(aCliente[c]).valor = "len"
        /\ aCliente' = [aCliente EXCEPT ![c] = Tail(Tail(@))]
        /\ cache' = [cache EXCEPT ![c] = @ + 1]
        /\ porRecibir' = [porRecibir EXCEPT ![c] = @ - 1]
        /\ UNCHANGED estado
     \/ /\ aCliente[c] # << >>
        /\ Head(aCliente[c]).valor = "error"
        /\ aCliente' = [aCliente EXCEPT ![c] = Tail(@)]
        /\ Pasa(c, "bytes")
        /\ UNCHANGED <<cache, porRecibir>>
     \/ /\ Rota(c)
        /\ porRecibir' = [porRecibir EXCEPT ![c] = 0]
        /\ UNCHANGED <<estado, aCliente, cache>>
  /\ UNCHANGED <<orden, enviadas, cacheado, aServidor, abierta, servidor, historia,
                 tabla, cotas>>

RecibirLibroEnSitio(c) ==
  /\ estado[c] = "lista"
  /\ porRecibir[c] > 0
  /\ \/ /\ Len(aCliente[c]) >= 2
        /\ Head(aCliente[c]).valor = "len"
        /\ aCliente' = [aCliente EXCEPT ![c] = Tail(Tail(@))]
        /\ cache' = [cache EXCEPT ![c] = 1]
        /\ porRecibir' = [porRecibir EXCEPT ![c] = @ - 1]
        /\ UNCHANGED estado
     \/ /\ aCliente[c] # << >>
        /\ Head(aCliente[c]).valor = "error"
        /\ aCliente' = [aCliente EXCEPT ![c] = Tail(@)]
        /\ Pasa(c, "bytes")
        /\ UNCHANGED <<cache, porRecibir>>
     \/ /\ Rota(c)
        /\ porRecibir' = [porRecibir EXCEPT ![c] = 0]
        /\ UNCHANGED <<estado, aCliente, cache>>
  /\ UNCHANGED <<orden, enviadas, cacheado, aServidor, abierta, servidor, historia,
                 tabla, cotas>>

(***************************************************************************)
(* recibir_string of red.cpp.  A RESP_ERROR in the place of a length makes *)
(* it wait for that many bytes; on a broken connection every call returns  *)
(* an empty text.                                                          *)
(***************************************************************************)
RecibirLibro(c) ==
  /\ estado[c] = "lista"
  /\ porRecibir[c] > 0
  /\ \/ /\ Len(aCliente[c]) >= 2
        /\ Head(aCliente[c]).valor = "len"
        /\ aCliente' = [aCliente EXCEPT ![c] = Tail(Tail(@))]
        /\ cache' = [cache EXCEPT ![c] = @ + 1]
        /\ porRecibir' = [porRecibir EXCEPT ![c] = @ - 1]
        /\ UNCHANGED estado
     \/ /\ aCliente[c] # << >>
        /\ Head(aCliente[c]).valor = "error"
        /\ aCliente' = [aCliente EXCEPT ![c] = Tail(@)]
        /\ Pasa(c, "bytes")
        /\ UNCHANGED <<cache, porRecibir>>
     \/ /\ Rota(c)
        /\ porRecibir' = [porRecibir EXCEPT ![c] = 0]
        /\ UNCHANGED <<estado, aCliente, cache>>
  /\ UNCHANGED <<orden, enviadas, cacheado, aServidor, abierta, servidor, historia,
                 tabla, cotas>>

RecibirBytes(c) ==
  /\ estado[c] = "bytes"
  /\ Rota(c)
  /\ Pasa(c, "lista")
  /\ UNCHANGED <<orden, enviadas, porRecibir, cache, cacheado, conexion, servidor,
                 historia, tabla, cotas>>

\* "libros_cacheados = true", whatever was received.
Cachear(c) ==
  /\ estado[c] = "lista"
  /\ porRecibir[c] = 0
  /\ cacheado' = [cacheado EXCEPT ![c] = TRUE]
  /\ Pasa(c, "menu")
  /\ UNCHANGED <<orden, enviadas, porRecibir, cache, conexion, servidor, historia,
                 tabla, cotas>>

(***************************************************************************)
(* Option 0 closes the socket; CMD_SALIR is never sent.                    *)
(***************************************************************************)
Salir(c) ==
  /\ estado[c] = "menu"
  /\ Pasa(c, "fin")
  /\ aCliente' = [aCliente EXCEPT ![c] = << >>]
  /\ UNCHANGED <<orden, enviadas, porRecibir, cache, cacheado, aServidor, abierta,
                 servidor, historia, tabla, cotas>>

-----------------------------------------------------------------------------
(* The server *)

Contesta(trozos) ==
  aCliente' = IF estado[atiende] = "fin" THEN aCliente
              ELSE [aCliente EXCEPT ![atiende] = @ \o trozos]

Lee == Head(aServidor[atiende])
Consume == aServidor' = [aServidor EXCEPT ![atiende] = Tail(@)]

\* recv returns 0: the client has gone and everything it sent was read.
SeFue == aServidor[atiende] = << >> /\ estado[atiende] = "fin"

Aceptar ==
  /\ paso = "accept"
  /\ cola # << >>
  /\ atiende' = Head(cola)
  /\ cola' = Tail(cola)
  /\ paso' = "orden"
  /\ leidas' = 0
  /\ UNCHANGED <<cliente, conexion, comando, faltan, mal, historia, tabla, cotas>>

(***************************************************************************)
(* The next four bytes are a command.  Those of a text are none, and an    *)
(* unknown command ends the session.                                       *)
(***************************************************************************)
LeerOrden ==
  /\ paso = "orden"
  /\ \/ /\ aServidor[atiende] # << >>
        /\ Lee \in Ordenes
        /\ Consume
        /\ comando' = Lee
        /\ leidas' = leidas + 1
        /\ faltan' = IF Lee = "listar" THEN 0 ELSE Textos(Lee)
        /\ mal' = FALSE
        /\ paso' = IF Lee \in ConDatos THEN "cadenas"
                   ELSE IF Lee \in ConISBN THEN "id" ELSE "contar"
        /\ UNCHANGED <<abierta, atiende, cortadas>>
     \/ /\ SeFue \/ (aServidor[atiende] # << >> /\ Lee \notin Ordenes)
        /\ abierta' = [abierta EXCEPT ![atiende] = FALSE]
        /\ aServidor' = [aServidor EXCEPT ![atiende] = << >>]
        /\ atiende' = Nadie
        /\ paso' = "accept"
        /\ cortadas' = cortadas \cup {atiende}
        /\ UNCHANGED <<comando, leidas, faltan, mal>>
  /\ UNCHANGED <<cliente, aCliente, cola, silencios, desajustes, largas, listado, tabla,
                 cotas>>

\* Mutant of LeerId: the result of recv is not looked at.
LeerIdSinFin ==
  /\ paso = "id"
  /\ aServidor[atiende] # << >>
  /\ Consume
  /\ paso' = "cadenas"
  /\ UNCHANGED <<cliente, aCliente, abierta, cola, atiende, comando, leidas, faltan, mal,
                 historia, tabla, cotas>>

LeerId ==
  /\ paso = "id"
  /\ \/ aServidor[atiende] # << >> /\ Consume /\ paso' = "cadenas"
     \/ SeFue /\ paso' = "orden" /\ UNCHANGED aServidor
  /\ UNCHANGED <<cliente, aCliente, abierta, cola, atiende, comando, leidas, faltan, mal,
                 historia, tabla, cotas>>

\* Mutant of LeerCadena: after a text that cannot be read the rest is not read.
LeerCadenaHastaElError ==
  /\ paso = "cadenas"
  /\ faltan > 0
  /\ \/ /\ Len(aServidor[atiende]) >= 2
        /\ Lee = "len"
        /\ aServidor' = [aServidor EXCEPT ![atiende] = Tail(Tail(@))]
        /\ faltan' = faltan - 1
        /\ UNCHANGED mal
     \/ /\ aServidor[atiende] # << >>
        /\ Lee \in {"len_cero", "len_exceso", "texto"}
        /\ IF Lee = "texto" THEN UNCHANGED aServidor ELSE Consume
        /\ mal' = TRUE
        /\ faltan' = 0
     \/ SeFue /\ mal' = TRUE /\ faltan' = 0 /\ UNCHANGED aServidor
  /\ UNCHANGED <<cliente, aCliente, abierta, cola, atiende, paso, comando, leidas,
                 historia, tabla, cotas>>

(***************************************************************************)
(* recibir_string of servidor.c.  A length out of range is read and what   *)
(* follows is not; the bytes of a text, read as a length, are out of range *)
(* and there are more of them than four.                                   *)
(***************************************************************************)
LeerCadena ==
  /\ paso = "cadenas"
  /\ faltan > 0
  /\ faltan' = faltan - 1
  /\ \/ /\ Len(aServidor[atiende]) >= 2
        /\ Lee = "len"
        /\ aServidor' = [aServidor EXCEPT ![atiende] = Tail(Tail(@))]
        /\ UNCHANGED mal
     \/ /\ aServidor[atiende] # << >>
        /\ Lee \in {"len_cero", "len_exceso", "texto"}
        /\ IF Lee = "texto" THEN UNCHANGED aServidor ELSE Consume
        /\ mal' = TRUE
     \/ SeFue /\ mal' = TRUE /\ UNCHANGED aServidor
  /\ UNCHANGED <<cliente, aCliente, abierta, cola, atiende, paso, comando, leidas,
                 historia, tabla, cotas>>

Falla == fallos < MaxFallos /\ fallos' = fallos + 1

Atiende(o) == paso = "cadenas" /\ faltan = 0 /\ comando \in o

\* "continue": the request is left without an answer.
Calla ==
  /\ silencios' = silencios \cup {atiende}
  /\ UNCHANGED aCliente

SinRespuestaNueva == UNCHANGED <<silencios, fallos>>

\* Mutant of ContestarLogin: the identifier is sent after a failure too.
ContestarLoginConId ==
  /\ Atiende({"login"})
  /\ \/ Contesta(<<Trozo("login_fail", 0), Trozo("id_usuario", 0)>>) /\ SinRespuestaNueva
     \/ ~ mal /\ Falla /\ Calla
     \/ /\ ~ mal
        /\ Contesta(<<Trozo("login_ok", 0), Trozo("id_usuario", 0)>>)
        /\ SinRespuestaNueva
  /\ paso' = "orden"
  /\ UNCHANGED <<cliente, aServidor, abierta, cola, atiende, comando, leidas, faltan, mal,
                 desajustes, largas, cortadas, listado, tabla, caidas>>

(***************************************************************************)
(* The end of CMD_LOGIN: an answer when the data could not be read, none   *)
(* when the database does not open, and the identifier after a success.    *)
(***************************************************************************)
ContestarLogin ==
  /\ Atiende({"login"})
  /\ \/ Contesta(<<Trozo("login_fail", 0)>>) /\ SinRespuestaNueva
     \/ ~ mal /\ Falla /\ Calla
     \/ /\ ~ mal
        /\ Contesta(<<Trozo("login_ok", 0), Trozo("id_usuario", 0)>>)
        /\ SinRespuestaNueva
  /\ paso' = "orden"
  /\ UNCHANGED <<cliente, aServidor, abierta, cola, atiende, comando, leidas, faltan, mal,
                 desajustes, largas, cortadas, listado, tabla, caidas>>

\* Mutant of ContestarRegistrar: the data that could not be read get no answer.
ContestarRegistrarCallando ==
  /\ Atiende({"registrar"})
  /\ \/ mal /\ UNCHANGED <<aCliente, fallos>>
     \/ ~ mal /\ Contesta(<<Trozo("ok", 0)>>) /\ UNCHANGED fallos
     \/ ~ mal /\ Contesta(<<Trozo("error", RESP_ERROR)>>) /\ UNCHANGED fallos
  /\ paso' = "orden"
  /\ UNCHANGED <<cliente, aServidor, abierta, cola, atiende, comando, leidas, faltan, mal,
                 historia, tabla, caidas>>

(***************************************************************************)
(* The end of CMD_REGISTRAR: RESP_ERROR for data that could not be read, a *)
(* database that does not open and a registration that is refused.         *)
(***************************************************************************)
ContestarRegistrar ==
  /\ Atiende({"registrar"})
  /\ \/ ~ mal /\ Contesta(<<Trozo("ok", 0)>>) /\ UNCHANGED fallos
     \/ Contesta(<<Trozo("error", RESP_ERROR)>>) /\ UNCHANGED fallos
  /\ paso' = "orden"
  /\ UNCHANGED <<cliente, aServidor, abierta, cola, atiende, comando, leidas, faltan, mal,
                 historia, tabla, caidas>>

\* Mutant of ContestarISBN: only a success is answered.
ContestarISBNSiExito ==
  /\ Atiende(ConISBN)
  /\ \/ (mal \/ Falla) /\ Calla /\ (mal => UNCHANGED fallos)
     \/ ~ mal /\ Contesta(<<Trozo("uno", 0)>>) /\ SinRespuestaNueva
     \/ ~ mal /\ UNCHANGED aCliente /\ SinRespuestaNueva
  /\ paso' = "orden"
  /\ UNCHANGED <<cliente, aServidor, abierta, cola, atiende, comando, leidas, faltan, mal,
                 desajustes, largas, cortadas, listado, tabla, caidas>>

(***************************************************************************)
(* The end of CMD_PEDIR_LIBRO and CMD_DEVOLVER_LIBRO: no answer when the   *)
(* ISBN could not be read or the database does not open.                   *)
(***************************************************************************)
ContestarISBN ==
  /\ Atiende(ConISBN)
  /\ \/ mal /\ Calla /\ UNCHANGED fallos
     \/ ~ mal /\ Falla /\ Calla
     \/ ~ mal /\ SinRespuestaNueva /\ \E v \in {"uno", "cero"} : Contesta(<<Trozo(v, 0)>>)
  /\ paso' = "orden"
  /\ UNCHANGED <<cliente, aServidor, abierta, cola, atiende, comando, leidas, faltan, mal,
                 desajustes, largas, cortadas, listado, tabla, caidas>>

(***************************************************************************)
(* CMD_LISTAR_LIBROS runs its query twice, to count and to send, and a row *)
(* may come between the two.  Either can fail to start (the file does not  *)
(* open, or has no tables yet), and RESP_ERROR goes where the client reads *)
(* a number; either can end early (SQLITE_BUSY).                           *)
(***************************************************************************)
NoEmpieza ==
  /\ Falla
  /\ Contesta(<<Trozo("error", RESP_ERROR)>>)
  /\ silencios' = silencios \cup {atiende}
  /\ paso' = "orden"

\* The query gives n rows: those there are, or fewer when a step fails.
Recorre(n) ==
  \/ n = libros /\ UNCHANGED fallos
  \/ n < libros /\ Falla

Desajusta(si) == desajustes' = desajustes \cup {c \in {atiende} : si}

Contar ==
  /\ paso = "contar"
  /\ \/ NoEmpieza /\ UNCHANGED <<desajustes, listado>>
     \/ \E n \in 0 .. libros :
          /\ Recorre(n)
          /\ Contesta(<<Trozo("cantidad", n)>>)
          /\ paso' = "enviar"
          /\ Desajusta(n < libros)
          /\ vistos' = [vistos EXCEPT ![atiende] = libros]
          /\ aMedias' = aMedias \cup {c \in {atiende} : roto \/ porImportar > 0}
          /\ UNCHANGED silencios
  /\ UNCHANGED <<cliente, aServidor, abierta, cola, atiende, comando, leidas, faltan, mal,
                 largas, cortadas, tabla, caidas>>

\* n lines: of each, the length and the bytes.
LineasDe(n) ==
  [k \in 1 .. 2 * n |-> IF k % 2 = 1 THEN Trozo("len", 0) ELSE Trozo("texto", 0)]

\* After a count of no lines nobody reads a RESP_ERROR.
EnviarLineas ==
  /\ paso = "enviar"
  /\ \/ NoEmpieza /\ Desajusta(vistos[atiende] = 0)
     \/ \E n \in 0 .. libros :
          /\ Recorre(n)
          /\ Contesta(LineasDe(n))
          /\ paso' = "orden"
          /\ Desajusta(n # vistos[atiende])
          /\ UNCHANGED silencios
  /\ UNCHANGED <<cliente, aServidor, abierta, cola, atiende, comando, leidas, faltan, mal,
                 largas, cortadas, listado, tabla, caidas>>

-----------------------------------------------------------------------------
(* The consoles (main.c), which start while the server is running; the     *)
(* whole of a start is in Arranque.                                        *)

Fuera == <<cliente, conexion, servidor, historia, fallos>>

(***************************************************************************)
(* A start imports libros.csv, into a new file or, when somebody had it    *)
(* open, into the tables there are.  The server has it open while it       *)
(* lists, and a console while it imports.                                  *)
(***************************************************************************)
Arrancar ==
  /\ arranques < MaxArranques
  /\ arranques' = arranques + 1
  /\ \/ /\ paso # "enviar"
        /\ porImportar = 0
        /\ libros' = 0
        /\ porImportar' = Libros
        /\ roto' = FALSE
     \/ porImportar' = porImportar + Libros /\ UNCHANGED <<libros, roto>>
  /\ UNCHANGED <<Fuera, caidas>>

Importar ==
  /\ porImportar > 0
  /\ porImportar' = porImportar - 1
  /\ libros' = libros + 1
  /\ UNCHANGED <<Fuera, roto, arranques, caidas>>

\* An INSERT fails, libros.csv is not there (Recuperable of ReemplazoCSV) or the
\* console is killed.
PerderLineas ==
  /\ caidas < MaxCaidas
  /\ caidas' = caidas + 1
  /\ porImportar > 0
  /\ porImportar' \in 0 .. porImportar - 1
  /\ roto' = TRUE
  /\ UNCHANGED <<Fuera, libros, arranques>>

Consola == Arrancar \/ Importar \/ PerderLineas

-----------------------------------------------------------------------------
(* Deaths *)

CaidaCliente(c) ==
  /\ estado[c] \notin {"fuera", "menu", "fin"}
  /\ caidas < MaxCaidas
  /\ caidas' = caidas + 1
  /\ Pasa(c, "fin")
  /\ aCliente' = [aCliente EXCEPT ![c] = << >>]
  /\ UNCHANGED <<orden, enviadas, porRecibir, cache, cacheado, aServidor, abierta,
                 servidor, historia, tabla, fallos>>

\* The server dies and is started again: every connection breaks.
CaidaServidor ==
  /\ caidas < MaxCaidas
  /\ caidas' = caidas + 1
  /\ cortadas' = cortadas \cup {c \in Clientes : abierta[c]}
  /\ abierta' = [c \in Clientes |-> FALSE]
  /\ aServidor' = [c \in Clientes |-> << >>]
  /\ cola' = << >>
  /\ atiende' = Nadie
  /\ paso' = "accept"
  /\ UNCHANGED <<cliente, aCliente, comando, leidas, faltan, mal, silencios, desajustes,
                 largas, listado, tabla, fallos>>

-----------------------------------------------------------------------------
Recibe(c) ==
  \/ RecibirRespuesta(c) \/ RecibirId(c) \/ RecibirCantidad(c)
  \/ RecibirLibro(c) \/ RecibirBytes(c) \/ Cachear(c)

Teclea(c) ==
  \/ Conectar(c) \/ EscribirId(c) \/ Salir(c)
  \/ \E o \in Ordenes : Elegir(c, o)
  \/ \E s \in Cadenas : EscribirISBN(c, s) \/ \E k \in 1 .. 5 : EscribirDatos(c, s, k)

PasoServidor ==
  \/ Aceptar \/ LeerOrden \/ LeerId \/ LeerCadena
  \/ ContestarLogin \/ ContestarRegistrar \/ ContestarISBN
  \/ Contar \/ EnviarLineas

Next ==
  \/ \E c \in Clientes : Recibe(c) \/ Teclea(c) \/ CaidaCliente(c)
  \/ PasoServidor
  \/ CaidaServidor
  \/ Consola

Spec == Init /\ [][Next]_vars

(***************************************************************************)
(* The processes run; users owe nobody a key.                              *)
(***************************************************************************)
Equidad ==
  /\ WF_vars(PasoServidor)
  /\ \A c \in Clientes : WF_vars(Recibe(c))

SpecViva == Spec /\ Equidad
-----------------------------------------------------------------------------
(* Properties *)

Enviables == {"len", "len_cero", "len_exceso", "texto", "id"} \cup Ordenes
Respuestas == [valor : {"login_ok", "login_fail", "id_usuario", "ok", "error", "uno",
                        "cero", "cantidad", "len", "texto"},
               cuantos : Nat, orden : Nat]

ConversacionOK ==
  /\ estado \in [Clientes -> {"fuera", "menu", "datos", "isbn", "espera", "espera_id",
                              "lista", "bytes", "fin"}]
  /\ orden \in [Clientes -> Ordenes \cup {"ninguna"}]
  /\ enviadas \in [Clientes -> 0 .. MaxOrdenes]
  /\ porRecibir \in [Clientes -> Nat]
  /\ cache \in [Clientes -> Nat]
  /\ cacheado \in [Clientes -> BOOLEAN]
  /\ aServidor \in [Clientes -> Seq(Enviables)]
  /\ aCliente \in [Clientes -> Seq(Respuestas)]
  /\ abierta \in [Clientes -> BOOLEAN]
  /\ cola \in Seq(Clientes)
  /\ atiende \in Clientes \cup {Nadie}
  /\ paso \in {"accept", "orden", "id", "cadenas", "contar", "enviar"}
  /\ atiende = Nadie <=> paso = "accept"
  /\ comando \in Ordenes \cup {"ninguna"}
  /\ leidas \in Nat
  /\ faltan \in Nat
  /\ mal \in BOOLEAN
  /\ silencios \subseteq Clientes
  /\ desajustes \subseteq Clientes
  /\ largas \subseteq Clientes
  /\ cortadas \subseteq Clientes
  /\ fallos \in 0 .. MaxFallos
  /\ caidas \in 0 .. MaxCaidas

TablaOK ==
  /\ libros \in Nat
  /\ porImportar \in Nat
  /\ roto \in BOOLEAN
  /\ arranques \in 0 .. MaxArranques
  /\ vistos \in [Clientes -> Nat]
  /\ aMedias \subseteq Clientes

(***************************************************************************)
(* The shape of the variables; the server attends somebody exactly when it *)
(* is not waiting in accept.                                               *)
(***************************************************************************)
TypeOK == ConversacionOK /\ TablaOK

(***************************************************************************)
(* Framing: whatever could not be read, a command is looked for where a    *)
(* command is, unless the client sent a text longer than recibir_string    *)
(* takes.  Empty texts and the five texts of a registration included.      *)
(***************************************************************************)
Alineado ==
  paso = "orden" /\ aServidor[atiende] # << >> /\ atiende \notin largas =>
    Lee \in Ordenes

(***************************************************************************)
(* A client never takes for the answer of its command a piece that answers *)
(* an earlier one, unless the count and the lines of its listing differed: *)
(* a query ended early, a row came between the two, or RESP_ERROR followed *)
(* a count of none.                                                        *)
(***************************************************************************)
RespuestaPropia ==
  [][\A c \in Clientes :
       estado[c] \in {"espera", "espera_id", "lista"} /\ estado'[c] # "fin"
         /\ Len(aCliente'[c]) < Len(aCliente[c]) =>
           Head(aCliente[c]).orden = enviadas[c] \/ c \in desajustes]_vars

(***************************************************************************)
(* The client waits for the server, the server waits for the client, and   *)
(* everybody in the backlog waits for both.                                *)
(***************************************************************************)
Bloqueado(c) ==
  /\ atiende = c
  /\ paso = "orden"
  /\ aServidor[c] = << >>
  /\ aCliente[c] = << >>
  /\ estado[c] \in {"espera", "espera_id", "bytes"}
       \/ (estado[c] = "lista" /\ porRecibir[c] > 0)

(***************************************************************************)
(* The only ways into that embrace are the five branches of servidor.c     *)
(* that "continue" without an answer to a client that waits for one,       *)
(* RESP_ERROR in a listing, and a listing whose count and lines differ.    *)
(***************************************************************************)
BloqueoExplicado == \A c \in Clientes : Bloqueado(c) => c \in silencios \cup desajustes

(***************************************************************************)
(* What a client keeps as the catalogue for the rest of its life is what   *)
(* LibrosBd held when its rows were counted, unless the count and the      *)
(* lines differed or the connection broke; and that was the whole          *)
(* catalogue, unless a console was importing it just then or had not       *)
(* finished when it was cut.                                               *)
(***************************************************************************)
CacheFiel ==
  \A c \in Clientes :
    cacheado[c] /\ estado[c] # "fin" /\ c \notin desajustes \cup cortadas =>
      /\ cache[c] = vistos[c]
      /\ vistos[c] >= Libros \/ c \in aMedias

(***************************************************************************)
(* The client being attended is answered, or the branches above left it    *)
(* waiting.                                                                *)
(***************************************************************************)
Contestado ==
  \A c \in Clientes :
    estado[c] = "espera" /\ atiende = c ~>
      estado[c] \in {"menu", "fin"} \/ c \in silencios \cup desajustes

(***************************************************************************)
(* Nobody who has ended or died keeps the server, in the middle of a       *)
(* request or in the backlog: a client that has only such clients before   *)
(* it is attended, or the server was started again.                        *)
(***************************************************************************)
LeToca(c) ==
  /\ atiende = Nadie \/ estado[atiende] = "fin"
  /\ \E k \in DOMAIN cola :
       cola[k] = c /\ \A j \in 1 .. k - 1 : estado[cola[j]] = "fin"

Relevo == \A c \in Clientes : LeToca(c) ~> (atiende = c \/ ~ abierta[c])

(***************************************************************************)
(* protocolo.h:14, "Respuestas del servidor al cliente": RESP_ERROR is an  *)
(* answer, never a number of books.                                        *)
(***************************************************************************)
ErrorNoEsCantidad == \A c \in Clientes : porRecibir[c] <= vistos[c]
=============================================================================
