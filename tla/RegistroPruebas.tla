--------------------------- MODULE RegistroPruebas ---------------------------
(***************************************************************************)
(* What is proved about Registro, for all e-mails, consoles, identifiers   *)
(* and bounds.                                                             *)
(***************************************************************************)
EXTENDS Registro, Numeros, FiniteSetTheorems, SequenceTheorems, TLAPS

-----------------------------------------------------------------------------
(* The rows of the table *)

Lineas == Fila \cup {Encabezado}

\* The table is finite, and the header is only ever the first line.
Finita   == IsFiniteSet(usuariosBD)
Cabecera == \A k \in DOMAIN usuariosCSV : usuariosCSV[k] = Encabezado => k = 1

(***************************************************************************)
(* The id the table gives is of no other row.                              *)
(***************************************************************************)
LEMMA IdNuevo ==
  ASSUME TypeOK, Finita
  PROVE  IdSiguiente \in Nat /\ IdSiguiente \notin Ids(usuariosBD)
<1>1. CASE usuariosBD = {}
  BY <1>1 DEF IdSiguiente, Ids
<1>2. CASE usuariosBD # {}
  <2>1. Ids(usuariosBD) \in SUBSET Nat /\ Ids(usuariosBD) # {}
    BY <1>2 DEF Ids, TypeOK, Fila
  <2>2. IsFiniteSet(Ids(usuariosBD))
    <3>1. [f \in usuariosBD |-> f.id] \in Surjection(usuariosBD, Ids(usuariosBD))
      BY DEF Surjection, Ids
    <3>2. QED
      BY <3>1, FS_Surjection DEF Finita
  <2>3. \E x \in Ids(usuariosBD) : \A y \in Ids(usuariosBD) : x >= y
    <3>1. PICK x \in Ids(usuariosBD) : \A y \in Ids(usuariosBD) : y <= x
      BY <2>1, <2>2, Maximo
    <3>2. QED
      BY <2>1, <3>1
  <2>4. /\ Max(Ids(usuariosBD)) \in Ids(usuariosBD)
        /\ \A y \in Ids(usuariosBD) : Max(Ids(usuariosBD)) >= y
    BY <2>3 DEF Max
  <2>5. QED
    BY <1>2, <2>1, <2>4 DEF IdSiguiente
<1>3. QED
  BY <1>1, <1>2

(***************************************************************************)
(* The SELECT gives every row, once.                                       *)
(***************************************************************************)
LEMMA Ordenadas ==
  ASSUME TypeOK, Finita, NEW s \in PorId(usuariosBD)
  PROVE  /\ s \in Seq(usuariosBD)
         /\ \A f \in usuariosBD : \E k \in 1 .. Len(s) : s[k] = f
         /\ \A j, k \in 1 .. Len(s) :
              s[j].id = s[k].id \/ s[j].correo = s[k].correo => j = k
<1> DEFINE n == Cardinality(usuariosBD)
<1>1. n \in Nat /\ s \in [1 .. n -> usuariosBD] /\ DOMAIN s = 1 .. n
  BY FS_CardinalityType DEF PorId, Finita
<1>2. s \in Seq(usuariosBD) /\ Len(s) = n
  BY <1>1
<1>3. \A j \in 1 .. n : s[j].id \in Nat
  BY <1>1 DEF TypeOK, Fila
<1>4. \A j, k \in 1 .. n : j # k => s[j].id # s[k].id
  <2>1. \A j, k \in 1 .. n : j < k => s[j].id < s[k].id
    BY <1>1 DEF PorId
  <2>2. QED
    BY <1>1, <1>3, <2>1
<1>5. \A j, k \in 1 .. n : s[j].id = s[k].id \/ s[j].correo = s[k].correo => j = k
  <2>1. SUFFICES ASSUME NEW j \in 1 .. n, NEW k \in 1 .. n,
                        s[j].id = s[k].id \/ s[j].correo = s[k].correo
                 PROVE  j = k
    OBVIOUS
  <2>2. s[j] \in usuariosBD /\ s[k] \in usuariosBD
    BY <1>1
  <2>3. s[j] = s[k]
    BY <2>1, <2>2 DEF TypeOK
  <2>4. QED
    BY <1>4, <2>3
<1>6. s \in Surjection(1 .. n, usuariosBD)
  <2>1. s \in Injection(1 .. n, usuariosBD)
    BY <1>1, <1>4 DEF Injection, IsInjective
  <2>2. Cardinality(1 .. n) = n
    BY <1>1, FS_Interval
  <2>3. QED
    BY <2>1, <2>2, FS_Injection DEF Finita
<1>7. \A f \in usuariosBD : \E k \in 1 .. n : s[k] = f
  BY <1>6 DEF Surjection
<1>8. QED
  BY <1>2, <1>5, <1>7

-----------------------------------------------------------------------------
(* What every state keeps *)

\* The steps of the server and those of the consoles.
PcOK ==
  /\ pc[Servidor] \in {"esperando", "truncar", "volcar"}
  /\ \A p \in Consolas : pc[p] \in {"cerrado", "abrir", "importar", "menu", "alta"}

\* While the server registers a user, the user is in the table.
NuevoServidor ==
  pc[Servidor] # "esperando" =>
    nuevo[Servidor] \in usuariosBD /\ nuevo[Servidor].correo \in Correos

AceptadosReales == \A f \in aceptados : f.correo \in Correos

Base == TypeOK /\ Finita /\ Cabecera /\ PcOK /\ NuevoServidor /\ AceptadosReales


\* The processes are the server and the consoles, and these are not the server.
LEMMA LosProcesos ==
  /\ Servidor \in Procesos /\ Servidor \notin Consolas
  /\ \A p \in Consolas : p \in Procesos /\ p # Servidor
BY ConstantesOK DEF Procesos

(***************************************************************************)
(* What the server leaves in the file: the header and then rows of the     *)
(* table, no two with one id or one e-mail, and all of them if no step was *)
(* cut.                                                                    *)
(***************************************************************************)
Volcado ==
  /\ usuariosCSV' \in Seq(Lineas)
  /\ Len(usuariosCSV') \in Nat \ {0}
  /\ usuariosCSV'[1] = Encabezado
  /\ \A k \in 2 .. Len(usuariosCSV') : usuariosCSV'[k] \in usuariosBD
  /\ \A j, k \in 2 .. Len(usuariosCSV') :
       \/ usuariosCSV'[j].id = usuariosCSV'[k].id
       \/ usuariosCSV'[j].correo = usuariosCSV'[k].correo
       => j = k
  /\ "corte" \in avisos' \/ \A f \in usuariosBD : \E k \in 2 .. Len(usuariosCSV') : usuariosCSV'[k] = f

LEMMA SeVuelca ==
  ASSUME TypeOK, Finita, Volcar
  PROVE  Volcado
<1>1. PICK filas \in PorId(usuariosBD) :
        \/ /\ usuariosCSV' = <<Encabezado>> \o filas
           /\ UNCHANGED <<avisos, fallos>>
        \/ /\ Falla
           /\ \E n \in 0 .. Len(filas) - 1 :
                usuariosCSV' = <<Encabezado>> \o SubSeq(filas, 1, n)
           /\ Avisa({"corte"})
  BY DEF Volcar
<1>2. /\ filas \in Seq(usuariosBD)
      /\ \A f \in usuariosBD : \E k \in 1 .. Len(filas) : filas[k] = f
      /\ \A j, k \in 1 .. Len(filas) :
           filas[j].id = filas[k].id \/ filas[j].correo = filas[k].correo => j = k
  BY Ordenadas
<1>3. PICK t : /\ t \in Seq(usuariosBD)
               /\ usuariosCSV' = <<Encabezado>> \o t
               /\ Len(t) <= Len(filas)
               /\ \A k \in 1 .. Len(t) : t[k] = filas[k]
               /\ "corte" \in avisos' \/ t = filas
  <2>1. CASE usuariosCSV' = <<Encabezado>> \o filas
    BY <1>2, <2>1
  <2>2. CASE /\ \E n \in 0 .. Len(filas) - 1 :
                  usuariosCSV' = <<Encabezado>> \o SubSeq(filas, 1, n)
             /\ Avisa({"corte"})
    <3>1. PICK n \in 0 .. Len(filas) - 1 :
            usuariosCSV' = <<Encabezado>> \o SubSeq(filas, 1, n)
      BY <2>2
    <3>2. /\ SubSeq(filas, 1, n) \in Seq(usuariosBD)
          /\ Len(SubSeq(filas, 1, n)) = n
          /\ \A k \in 1 .. n : SubSeq(filas, 1, n)[k] = filas[k]
      BY <1>2
    <3>3. "corte" \in avisos'
      BY <2>2 DEF Avisa
    <3>4. n <= Len(filas)
      BY <1>2
    <3>5. PICK t : t = SubSeq(filas, 1, n)
      OBVIOUS
    <3>6. /\ t \in Seq(usuariosBD)
          /\ usuariosCSV' = <<Encabezado>> \o t
          /\ Len(t) <= Len(filas)
          /\ \A k \in 1 .. Len(t) : t[k] = filas[k]
      BY <3>1, <3>2, <3>4, <3>5
    <3>7. QED
      BY <3>3, <3>6
  <2>3. QED
    BY <1>1, <2>1, <2>2
<1>4. /\ Len(usuariosCSV') = Len(t) + 1
      /\ Len(t) \in Nat /\ Len(filas) \in Nat
      /\ usuariosCSV'[1] = Encabezado
      /\ \A k \in 2 .. Len(t) + 1 : k - 1 \in 1 .. Len(t) /\ usuariosCSV'[k] = t[k - 1]
  BY <1>2, <1>3
<1>5. usuariosCSV' \in Seq(Lineas)
  <2>1. t \in Seq(Lineas) /\ <<Encabezado>> \in Seq(Lineas)
    BY <1>3 DEF Lineas, TypeOK
  <2>2. QED
    BY <1>3, <2>1
<1>6. \A k \in 2 .. Len(usuariosCSV') : usuariosCSV'[k] \in usuariosBD
  BY <1>3, <1>4
<1>7. ASSUME NEW j \in 2 .. Len(usuariosCSV'), NEW k \in 2 .. Len(usuariosCSV'),
             \/ usuariosCSV'[j].id = usuariosCSV'[k].id
             \/ usuariosCSV'[j].correo = usuariosCSV'[k].correo
      PROVE  j = k
  <2>1. /\ usuariosCSV'[j] = filas[j - 1] /\ j - 1 \in 1 .. Len(filas)
        /\ usuariosCSV'[k] = filas[k - 1] /\ k - 1 \in 1 .. Len(filas)
    BY <1>3, <1>4
  <2>2. j - 1 = k - 1
    BY <1>2, <1>7, <2>1
  <2>3. QED
    BY <2>2, <1>4
<1>8. ASSUME "corte" \notin avisos', NEW f \in usuariosBD
      PROVE  \E k \in 2 .. Len(usuariosCSV') : usuariosCSV'[k] = f
  <2>1. PICK k \in 1 .. Len(filas) : filas[k] = f
    BY <1>2
  <2>2. t = filas
    BY <1>3, <1>8
  <2>3. k + 1 \in 2 .. Len(usuariosCSV') /\ (k + 1) - 1 = k
    BY <1>4, <2>1, <2>2
  <2>4. QED
    BY <1>4, <2>1, <2>2, <2>3
<1>9. QED
  BY <1>4, <1>5, <1>6, <1>7, <1>8 DEF Volcado


(***************************************************************************)
(* Each operation keeps Base.                                              *)
(***************************************************************************)
LEMMA BaseInicial == Init => Base
<1> SUFFICES ASSUME Init PROVE Base
  OBVIOUS
<1>1. TypeOK
  BY LosProcesos, ConstantesOK DEF Init, TypeOK, Fila, SinUsuario
<1>2. Finita
  BY FS_EmptySet DEF Init, Finita
<1>3. QED
  BY <1>1, <1>2, LosProcesos DEF Init, Base, Cabecera, PcOK, NuevoServidor, AceptadosReales

LEMMA BaseRegistrarRemoto ==
  ASSUME Base, NEW e \in Correos, RegistrarRemoto(e)
  PROVE  Base'
<1> DEFINE f == [id |-> IdSiguiente, correo |-> e]
<1>1. TypeOK /\ Finita
  BY DEF Base
<1>2. CASE e \in CorreosDe(usuariosBD)
  <2>1. UNCHANGED <<usuariosBD, nuevo, pc, avisos>>
    BY <1>2 DEF RegistrarRemoto
  <2>2. registros' \in Nat /\ UNCHANGED <<usuariosCSV, pendientes, aceptados, altas, arranques, fallos>>
    BY <1>1 DEF RegistrarRemoto, TypeOK
  <2>3. QED
    BY <2>1, <2>2 DEF Base, TypeOK, Finita, Cabecera, PcOK, NuevoServidor, AceptadosReales
<1>3. CASE e \notin CorreosDe(usuariosBD)
  <2>1. /\ pc' = [pc EXCEPT ![Servidor] = "truncar"]
        /\ nuevo' = [nuevo EXCEPT ![Servidor] = f]
        /\ usuariosBD' = usuariosBD \cup {f}
        /\ avisos' \subseteq avisos \cup {"solape"}
        /\ registros' \in Nat
        /\ UNCHANGED <<usuariosCSV, pendientes, aceptados, altas, arranques, fallos>>
    BY <1>1, <1>3 DEF RegistrarRemoto, Ir, Avisa, TypeOK
  <2>2. f \in Fila /\ f.correo = e /\ f.id \notin Ids(usuariosBD)
    BY <1>1, IdNuevo DEF Fila
  <2>3. \A g \in usuariosBD : g.id # f.id /\ g.correo # f.correo
    BY <1>3, <2>2 DEF Ids, CorreosDe
  <2> HIDE DEF f
  <2>4. TypeOK'
    <3>1. \A g, h \in usuariosBD' : g.id = h.id \/ g.correo = h.correo => g = h
      BY <1>1, <2>1, <2>3 DEF TypeOK
    <3>2. QED
      BY <1>1, <2>1, <2>2, <3>1 DEF TypeOK
  <2>5. Finita'
    BY <1>1, <2>1, FS_AddElement DEF Finita
  <2>6. (PcOK /\ NuevoServidor)'
    BY <2>1, <2>2, LosProcesos DEF Base, PcOK, NuevoServidor, TypeOK
  <2>7. QED
    BY <2>1, <2>4, <2>5, <2>6 DEF Base, Cabecera, AceptadosReales
<1>4. QED
  BY <1>2, <1>3

\* The answer RESP_OK accepts a user of the table.
LEMMA BaseResponde ==
  ASSUME Base, Responde, pc[Servidor] # "esperando", usuariosBD' = usuariosBD
  PROVE  /\ aceptados' \subseteq Fila
         /\ nuevo' \in [Procesos -> Fila]
         /\ pc' \in [Procesos -> {"esperando", "truncar", "volcar", "cerrado", "abrir",
                                  "importar", "menu", "alta"}]
         /\ pc'[Servidor] = "esperando" /\ \A p \in Consolas : pc'[p] = pc[p]
         /\ PcOK' /\ NuevoServidor' /\ AceptadosReales'
         /\ aceptados' = aceptados \cup {nuevo[Servidor]}
         /\ nuevo[Servidor] \in usuariosBD /\ nuevo[Servidor].correo \in Correos
<1>1. nuevo[Servidor] \in usuariosBD /\ nuevo[Servidor].correo \in Correos /\ nuevo[Servidor] \in Fila
  BY DEF Base, NuevoServidor, TypeOK
<1>2. SinUsuario \in Fila
  BY DEF SinUsuario, Fila
<1>3. /\ pc' = [pc EXCEPT ![Servidor] = "esperando"]
      /\ nuevo' = [nuevo EXCEPT ![Servidor] = SinUsuario]
      /\ aceptados' = aceptados \cup {nuevo[Servidor]}
  BY DEF Responde, Ir
<1>4. QED
  BY <1>1, <1>2, <1>3, LosProcesos
  DEF Base, TypeOK, PcOK, NuevoServidor, AceptadosReales

LEMMA BaseTruncar ==
  ASSUME Base, Truncar
  PROVE  Base'
<1>1. UNCHANGED <<usuariosBD, pendientes, altas, registros, arranques>> /\ pc[Servidor] = "truncar"
  BY DEF Truncar
<1>2. CASE /\ usuariosCSV' = << >>
           /\ Ir(Servidor, "volcar")
           /\ UNCHANGED <<nuevo, aceptados, avisos, fallos>>
  <2>1. pc' = [pc EXCEPT ![Servidor] = "volcar"]
    BY <1>2 DEF Ir
  <2>2. TypeOK'
    <3>1. usuariosCSV' \in Seq(Fila \cup {Encabezado})
      BY <1>2
    <3>2. pc' \in [Procesos -> {"esperando", "truncar", "volcar", "cerrado", "abrir",
                                "importar", "menu", "alta"}]
      BY <2>1 DEF Base, TypeOK
    <3>3. QED
      BY <1>1, <1>2, <3>1, <3>2 DEF Base, TypeOK
  <2>3. (PcOK /\ NuevoServidor)'
    BY <1>1, <1>2, <2>1, LosProcesos DEF Base, PcOK, NuevoServidor, TypeOK
  <2>4. QED
    BY <1>1, <1>2, <2>2, <2>3 DEF Base, Finita, Cabecera, AceptadosReales
<1>3. CASE Falla /\ Responde /\ Avisa({"corte"}) /\ UNCHANGED usuariosCSV
  <2>1. fallos' \in Nat /\ avisos' = avisos \cup {"corte"}
    BY <1>3 DEF Falla, Avisa, Base, TypeOK
  <2>2. TypeOK'
    BY <1>1, <1>3, <2>1, BaseResponde DEF Base, TypeOK
  <2>3. QED
    BY <1>1, <1>3, <2>2, BaseResponde DEF Base, Finita, Cabecera
<1>4. QED
  BY <1>2, <1>3 DEF Truncar

LEMMA BaseVolcar ==
  ASSUME Base, Volcar
  PROVE  Base'
<1>1. /\ Responde
      /\ UNCHANGED <<usuariosBD, pendientes, altas, registros, arranques>>
      /\ pc[Servidor] = "volcar"
      /\ fallos' \in Nat
      /\ avisos' \subseteq avisos \cup {"corte"}
  BY DEF Volcar, Falla, Avisa, Base, TypeOK
<1>2. Volcado
  BY SeVuelca DEF Base
<1>3. TypeOK'
  BY <1>1, <1>2, BaseResponde DEF Base, TypeOK, Volcado, Lineas
<1>4. Cabecera'
  <2>1. \A k \in DOMAIN usuariosCSV' : k = 1 \/ k \in 2 .. Len(usuariosCSV')
    BY <1>2 DEF Volcado
  <2>2. \A k \in 2 .. Len(usuariosCSV') : usuariosCSV'[k] # Encabezado
    BY <1>2, EncabezadoOK DEF Volcado, Base, TypeOK
  <2>3. QED
    BY <2>1, <2>2 DEF Cabecera
<1>5. QED
  BY <1>1, <1>3, <1>4, BaseResponde DEF Base, Finita

LEMMA BaseArrancar ==
  ASSUME Base, NEW p \in Consolas, Arrancar(p)
  PROVE  Base'
<1>1. /\ pc' = [pc EXCEPT ![p] = "abrir"]
      /\ arranques' \in Nat
      /\ usuariosBD' = usuariosBD \/ (usuariosBD' = {} /\ pc[Servidor] = "esperando")
      /\ UNCHANGED <<usuariosCSV, nuevo, pendientes, historia, registros, fallos>>
  BY DEF Arrancar, Ir, EnUso, Base, TypeOK
<1>2. TypeOK'
  BY <1>1 DEF Base, TypeOK, historia
<1>3. Finita'
  BY <1>1, FS_EmptySet DEF Base, Finita
<1>4. (PcOK /\ NuevoServidor)'
  BY <1>1, LosProcesos DEF Base, PcOK, NuevoServidor, TypeOK
<1>5. QED
  BY <1>1, <1>2, <1>3, <1>4 DEF Base, Cabecera, AceptadosReales, historia

LEMMA BaseAbrirCSV ==
  ASSUME Base, NEW p \in Consolas, AbrirCSV(p)
  PROVE  Base'
<1>1. /\ pc' = [pc EXCEPT ![p] = "importar"] \/ pc' = [pc EXCEPT ![p] = "menu"]
      /\ pendientes' = [pendientes EXCEPT ![p] = usuariosCSV] \/ pendientes' = pendientes
      /\ avisos' \subseteq avisos \cup {"lectura", "corte"}
      /\ fallos' \in Nat
      /\ UNCHANGED <<datos, nuevo, aceptados, altas, registros, arranques>>
  BY DEF AbrirCSV, Ir, Avisa, Falla, Base, TypeOK
<1>2. TypeOK'
  <2>1. /\ pc' \in [Procesos -> {"esperando", "truncar", "volcar", "cerrado", "abrir",
                                 "importar", "menu", "alta"}]
        /\ pendientes' \in [Consolas -> Seq(Fila \cup {Encabezado})]
    BY <1>1 DEF Base, TypeOK, datos
  <2>2. QED
    BY <1>1, <2>1 DEF Base, TypeOK, datos
<1>3. (PcOK /\ NuevoServidor)'
  BY <1>1, LosProcesos DEF Base, PcOK, NuevoServidor, TypeOK, datos
<1>4. QED
  BY <1>1, <1>2, <1>3 DEF Base, Finita, Cabecera, AceptadosReales, datos

\* An insertion keeps the keys of the table.
LEMMA SeInserta ==
  ASSUME TypeOK, Finita, NEW f \in Fila, Inserta(f)
  PROVE  /\ usuariosBD' \subseteq Fila
         /\ \A g, h \in usuariosBD' : g.id = h.id \/ g.correo = h.correo => g = h
         /\ Finita'
         /\ usuariosBD \subseteq usuariosBD'
         /\ Cabe(f) => /\ usuariosBD' = usuariosBD \cup {f}
                       /\ \A g \in usuariosBD : g.id # f.id /\ g.correo # f.correo
         /\ ~ Cabe(f) => /\ usuariosBD' = usuariosBD
                         /\ \E g \in usuariosBD : g.id = f.id \/ g.correo = f.correo
<1>1. CASE Cabe(f)
  <2>1. usuariosBD' = usuariosBD \cup {f} /\ \A g \in usuariosBD : g.id # f.id /\ g.correo # f.correo
    BY <1>1 DEF Inserta, Cabe, Ids, CorreosDe
  <2>2. Finita'
    BY <2>1, FS_AddElement DEF Finita
  <2>3. QED
    BY <1>1, <2>1, <2>2 DEF TypeOK
<1>2. CASE ~ Cabe(f)
  <2>1. usuariosBD' = usuariosBD /\ \E g \in usuariosBD : g.id = f.id \/ g.correo = f.correo
    BY <1>2 DEF Inserta, Cabe, Ids, CorreosDe
  <2>2. QED
    BY <1>2, <2>1 DEF TypeOK, Finita
<1>3. QED
  BY <1>1, <1>2

LEMMA SeLee ==
  ASSUME NEW linea \in Lineas, NEW f \in Leidas(linea)
  PROVE  f \in Fila /\ (linea = Encabezado => f.correo = Basura) /\ (linea # Encabezado => f = linea)
BY ConstantesOK DEF Leidas, Lineas, Fila

LEMMA BaseImportarLinea ==
  ASSUME Base, NEW p \in Consolas, ImportarLinea(p)
  PROVE  Base'
<1>1. /\ pc[p] = "importar"
      /\ pendientes[p] # << >>
      /\ pendientes' = [pendientes EXCEPT ![p] = Tail(pendientes[p])]
      /\ avisos' \subseteq avisos \cup {"basura", "corte"}
      /\ fallos' \in Nat
      /\ UNCHANGED <<usuariosCSV, pc, nuevo, aceptados, altas, registros, arranques>>
  BY DEF ImportarLinea, Avisa, Falla, Base, TypeOK
<1>2. pendientes[p] \in Seq(Lineas) /\ Head(pendientes[p]) \in Lineas /\ Tail(pendientes[p]) \in Seq(Lineas)
  BY <1>1 DEF Base, TypeOK, Lineas
<1>3. /\ usuariosBD' \subseteq Fila
      /\ \A g, h \in usuariosBD' : g.id = h.id \/ g.correo = h.correo => g = h
      /\ Finita'
      /\ usuariosBD \subseteq usuariosBD'
  <2>1. CASE \E f \in Leidas(Head(pendientes[p])) : Inserta(f)
    BY <1>2, <2>1, SeInserta, SeLee DEF Base
  <2>2. CASE UNCHANGED usuariosBD
    BY <2>2 DEF Base, TypeOK, Finita
  <2>3. QED
    BY <2>1, <2>2 DEF ImportarLinea
<1>4. TypeOK'
  BY <1>1, <1>2, <1>3 DEF Base, TypeOK, Lineas
<1>5. QED
  BY <1>1, <1>3, <1>4 DEF Base, Cabecera, PcOK, NuevoServidor, AceptadosReales

LEMMA BaseImportado ==
  ASSUME Base, NEW p \in Consolas, Importado(p) \/ Salir(p)
  PROVE  Base'
<1>1. /\ \E paso \in {"menu", "cerrado"} : pc' = [pc EXCEPT ![p] = paso]
      /\ UNCHANGED <<datos, nuevo, pendientes, historia, cotas>>
  BY DEF Importado, Salir, Ir
<1>2. TypeOK'
  BY <1>1 DEF Base, TypeOK, datos, historia, cotas
<1>3. (PcOK /\ NuevoServidor)'
  BY <1>1, LosProcesos DEF Base, PcOK, NuevoServidor, TypeOK, datos
<1>4. QED
  BY <1>1, <1>2, <1>3 DEF Base, Finita, Cabecera, AceptadosReales, datos, historia

\* The id the console gives is a number.
LEMMA IdDeConsola ==
  ASSUME TypeOK, Cabecera
  PROVE  GenerarID \in Nat
<1>1. CASE Usuarios(usuariosCSV) = {}
  BY <1>1 DEF GenerarID
<1>2. CASE Usuarios(usuariosCSV) # {}
  <2>1. PICK k \in 1 .. Len(usuariosCSV) : usuariosCSV[k] # Encabezado
    BY <1>2 DEF Usuarios, ToSet, TypeOK
  <2>2. Len(usuariosCSV) \in Nat \ {0} /\ DOMAIN usuariosCSV = 1 .. Len(usuariosCSV)
    BY <2>1 DEF TypeOK
  <2>3. usuariosCSV[Len(usuariosCSV)] # Encabezado
    BY <2>1, <2>2 DEF Cabecera
  <2>4. usuariosCSV[Len(usuariosCSV)] \in Fila
    BY <2>2, <2>3 DEF TypeOK
  <2>5. QED
    BY <1>2, <2>4 DEF GenerarID, Fila
<1>3. QED
  BY <1>1, <1>2

LEMMA BaseElegirId ==
  ASSUME Base, NEW p \in Consolas, ElegirId(p)
  PROVE  Base'
<1>1. /\ registros' \in Nat
      /\ nuevo' = [nuevo EXCEPT ![p] = [nuevo[p] EXCEPT !.id = GenerarID]]
      /\ pc' = [pc EXCEPT ![p] = "alta"]
      /\ UNCHANGED <<datos, pendientes, historia, arranques, fallos>>
  BY DEF ElegirId, Ir, Base, TypeOK
<1>2. [nuevo[p] EXCEPT !.id = GenerarID] \in Fila
  <2>1. nuevo[p] \in Fila /\ GenerarID \in Nat
    BY LosProcesos, IdDeConsola DEF Base, TypeOK
  <2>2. QED
    BY <2>1 DEF Fila
<1>3. TypeOK'
  BY <1>1, <1>2, LosProcesos DEF Base, TypeOK, datos, historia
<1>4. (PcOK /\ NuevoServidor)'
  BY <1>1, LosProcesos DEF Base, PcOK, NuevoServidor, TypeOK, datos
<1>5. QED
  BY <1>1, <1>3, <1>4 DEF Base, Finita, Cabecera, AceptadosReales, datos, historia

\* The line a console adds is of a user, with an e-mail, and is the last.
LEMMA SeAnade ==
  ASSUME TypeOK, NEW p \in Consolas, NEW e \in Correos, Anadir(p, e)
  PROVE  \E f \in Fila :
           /\ f = [nuevo[p] EXCEPT !.correo = e]
           /\ usuariosCSV' \in Seq(Lineas)
           /\ Len(usuariosCSV) \in Nat /\ Len(usuariosCSV') = Len(usuariosCSV) + 1
           /\ usuariosCSV'[Len(usuariosCSV) + 1] = f
           /\ \A k \in 1 .. Len(usuariosCSV) : usuariosCSV'[k] = usuariosCSV[k]
           /\ f # Encabezado
           /\ altas' = altas \cup {f}
           /\ "doble" \in avisos' \/ f.id \notin Ids(Usuarios(usuariosCSV) \cup usuariosBD)
<1>1. PICK f : f = [nuevo[p] EXCEPT !.correo = e]
  OBVIOUS
<1>2. f \in Fila
  BY <1>1, LosProcesos DEF TypeOK, Fila
<1>3. usuariosCSV' = Append(usuariosCSV, f) /\ altas' = altas \cup {f}
  BY <1>1 DEF Anadir
<1>4. usuariosCSV \in Seq(Lineas) /\ f \in Lineas
  BY <1>2 DEF TypeOK, Lineas
<1>5. "doble" \in avisos' \/ f.id \notin Ids(Usuarios(usuariosCSV) \cup usuariosBD)
  BY <1>1 DEF Anadir, Avisa
<1>6. /\ usuariosCSV' \in Seq(Lineas)
      /\ Len(usuariosCSV) \in Nat /\ Len(usuariosCSV') = Len(usuariosCSV) + 1
      /\ usuariosCSV'[Len(usuariosCSV) + 1] = f
      /\ \A k \in 1 .. Len(usuariosCSV) : usuariosCSV'[k] = usuariosCSV[k]
  BY <1>3, <1>4
<1>7. f # Encabezado
  BY <1>2, EncabezadoOK
<1>8. QED
  BY <1>1, <1>2, <1>3, <1>5, <1>6, <1>7

LEMMA BaseAnadir ==
  ASSUME Base, NEW p \in Consolas, NEW e \in Correos, Anadir(p, e)
  PROVE  Base'
<1>1. /\ pc[p] = "alta"
      /\ avisos' \subseteq avisos \cup {"doble"}
      /\ nuevo' = [nuevo EXCEPT ![p] = SinUsuario]
      /\ pc' = [pc EXCEPT ![p] = "menu"]
      /\ UNCHANGED <<usuariosBD, pendientes, aceptados, cotas>>
  BY DEF Anadir, Ir, Avisa
<1>2. PICK f \in Fila :
           /\ usuariosCSV' \in Seq(Lineas)
           /\ Len(usuariosCSV) \in Nat /\ Len(usuariosCSV') = Len(usuariosCSV) + 1
           /\ usuariosCSV'[Len(usuariosCSV) + 1] = f
           /\ \A k \in 1 .. Len(usuariosCSV) : usuariosCSV'[k] = usuariosCSV[k]
           /\ f # Encabezado
           /\ altas' = altas \cup {f}
  BY SeAnade DEF Base
<1>3. SinUsuario \in Fila
  BY DEF SinUsuario, Fila
<1>4. TypeOK'
  BY <1>1, <1>2, <1>3, LosProcesos DEF Base, TypeOK, cotas, Lineas
<1>5. (PcOK /\ NuevoServidor)'
  BY <1>1, LosProcesos DEF Base, PcOK, NuevoServidor, TypeOK
<1>6. Cabecera'
  <2>1. DOMAIN usuariosCSV = 1 .. Len(usuariosCSV) /\ DOMAIN usuariosCSV' = 1 .. Len(usuariosCSV) + 1
    BY <1>2 DEF Base, TypeOK
  <2>2. \A k \in 1 .. Len(usuariosCSV) + 1 : k \in 1 .. Len(usuariosCSV) \/ k = Len(usuariosCSV) + 1
    BY <1>2
  <2>3. QED
    BY <1>2, <2>1, <2>2 DEF Base, Cabecera
<1>7. QED
  BY <1>1, <1>4, <1>5, <1>6 DEF Base, Finita, AceptadosReales

LEMMA BaseCaida ==
  ASSUME Base, NEW p \in Procesos, Caida(p)
  PROVE  Base'
<1>1. /\ fallos' \in Nat
      /\ pc' = [pc EXCEPT ![p] = IF p = Servidor THEN "esperando" ELSE "cerrado"]
      /\ nuevo' = [nuevo EXCEPT ![p] = SinUsuario]
      /\ pendientes' = [q \in Consolas |-> IF q = p THEN << >> ELSE pendientes[q]]
      /\ avisos' \subseteq avisos \cup {"corte"}
      /\ UNCHANGED <<datos, aceptados, altas, registros, arranques>>
  BY DEF Caida, Falla, Ir, Avisa, Base, TypeOK
<1>2. SinUsuario \in Fila
  BY DEF SinUsuario, Fila
<1>3. TypeOK'
  BY <1>1, <1>2 DEF Base, TypeOK, datos
<1>4. (PcOK /\ NuevoServidor)'
  BY <1>1, LosProcesos DEF Base, PcOK, NuevoServidor, TypeOK, datos, Procesos
<1>5. QED
  BY <1>1, <1>3, <1>4 DEF Base, Finita, Cabecera, AceptadosReales, datos

LEMMA BasePaso == Base /\ [Next]_vars => Base'
<1> SUFFICES ASSUME Base, [Next]_vars PROVE Base'
  OBVIOUS
<1>1. CASE PasoServidor
  BY <1>1, BaseRegistrarRemoto, BaseTruncar, BaseVolcar DEF PasoServidor
<1>2. CASE \E p \in Consolas : PasoConsola(p)
  BY <1>2, BaseArrancar, BaseAbrirCSV, BaseImportarLinea, BaseImportado, BaseElegirId, BaseAnadir
  DEF PasoConsola
<1>3. CASE \E p \in Procesos : Caida(p)
  BY <1>3, BaseCaida
<1>4. CASE UNCHANGED vars
  BY <1>4 DEF vars, datos, proceso, historia, cotas,
              Base, TypeOK, Finita, Cabecera, PcOK, NuevoServidor, AceptadosReales
<1>5. QED
  BY <1>1, <1>2, <1>3, <1>4 DEF Next

(***************************************************************************)
(* The variables keep their shape, and the table its keys, for any         *)
(* consoles, e-mails and uninitialised values.                             *)
(***************************************************************************)
THEOREM Tipos == Spec => []TypeOK
<1>1. Base => TypeOK
  BY DEF Base
<1>2. QED
  BY <1>1, BaseInicial, BasePaso, PTL DEF Spec

(***************************************************************************)
(* An answer RESP_OK is for nuevo[Servidor], a row of the table, and the   *)
(* file has been written from the table, or a step was cut.                *)
(***************************************************************************)
LEMMA QuienSeAcepta ==
  ASSUME Base, [Next]_vars
  PROVE  \/ aceptados' = aceptados
         \/ /\ aceptados' = aceptados \cup {nuevo[Servidor]}
            /\ nuevo[Servidor] \in usuariosBD
            /\ usuariosBD' = usuariosBD
            /\ "corte" \in avisos' \/ Volcar
<1>1. CASE \E e \in Correos : RegistrarRemoto(e)
  BY <1>1 DEF RegistrarRemoto
<1>2. CASE Truncar
  <2>1. CASE Responde /\ Avisa({"corte"})
    <3>1. pc[Servidor] # "esperando" /\ usuariosBD' = usuariosBD
      BY <1>2 DEF Truncar
    <3>2. QED
      BY <2>1, <3>1, BaseResponde DEF Avisa
  <2>2. QED
    BY <1>2, <2>1 DEF Truncar
<1>3. CASE Volcar
  <2>1. pc[Servidor] # "esperando" /\ usuariosBD' = usuariosBD /\ Responde
    BY <1>3 DEF Volcar
  <2>2. QED
    BY <1>3, <2>1, BaseResponde
<1>4. CASE \E p \in Consolas : PasoConsola(p)
  BY <1>4 DEF PasoConsola, Arrancar, AbrirCSV, ImportarLinea, Importado, ElegirId, Anadir, Salir, historia
<1>5. CASE \E p \in Procesos : Caida(p)
  BY <1>5 DEF Caida
<1>6. CASE UNCHANGED vars
  BY <1>6 DEF vars, historia
<1>7. QED
  BY <1>1, <1>2, <1>3, <1>4, <1>5, <1>6 DEF Next, PasoServidor

(***************************************************************************)
(* RESP_OK means that the user can enter from the client, and from the     *)
(* console if no step was cut, and is the same user in both.               *)
(***************************************************************************)
THEOREM RespuestaDeRegistroVeraz == Spec => RegistroVeraz
<1>1. ASSUME Base, [Next]_vars, NEW f \in aceptados' \ aceptados
      PROVE  /\ EntraPorBD(f.correo, f.id)'
             /\ EntraPorCSV(f.correo, f.id)' \/ "corte" \in avisos'
  <2>1. /\ f = nuevo[Servidor]
        /\ f \in usuariosBD /\ usuariosBD' = usuariosBD
        /\ "corte" \in avisos' \/ Volcar
    BY <1>1, QuienSeAcepta
  <2>2. f = [id |-> f.id, correo |-> f.correo]
    BY <1>1, <2>1 DEF Base, TypeOK, Fila
  <2>3. EntraPorBD(f.correo, f.id)'
    BY <2>1, <2>2 DEF EntraPorBD
  <2>4. ASSUME "corte" \notin avisos'
        PROVE  EntraPorCSV(f.correo, f.id)'
    <3>1. Volcado
      BY <1>1, <2>1, <2>4, SeVuelca DEF Base
    <3>2. PICK k \in 2 .. Len(usuariosCSV') : usuariosCSV'[k] = f
      BY <2>1, <2>4, <3>1 DEF Volcado
    <3>3. k \in DOMAIN usuariosCSV'
      BY <3>1 DEF Volcado
    <3>4. ASSUME NEW j \in 1 .. k - 1
          PROVE  usuariosCSV'[j] = Encabezado \/ usuariosCSV'[j].correo # f.correo
      <4>1. j = 1 \/ (j \in 2 .. Len(usuariosCSV') /\ j # k)
        BY <3>1 DEF Volcado
      <4>2. QED
        BY <3>1, <3>2, <4>1 DEF Volcado
    <3>5. QED
      BY <2>2, <3>2, <3>3, <3>4 DEF EntraPorCSV
  <2>5. QED
    BY <2>3, <2>4
<1>2. Base /\ [Next]_vars =>
        [\A f \in aceptados' \ aceptados :
           /\ EntraPorBD(f.correo, f.id)'
           /\ EntraPorCSV(f.correo, f.id)' \/ "corte" \in avisos']_vars
  BY <1>1
<1>3. QED
  BY <1>2, BaseInicial, BasePaso, PTL DEF Spec, RegistroVeraz

-----------------------------------------------------------------------------
(* What accepted registrations keep *)

SinDanos == avisos \cap {"solape", "corte", "basura"} = {}

\* f is a line of s, and no line before it takes its id or its e-mail.
Primera(f, s) ==
  \E k \in 1 .. Len(s) :
    /\ s[k] = f
    /\ \A j \in 1 .. Len(s) :
         j < k => s[j] = Encabezado \/ (s[j].id # f.id /\ s[j].correo # f.correo)

(***************************************************************************)
(* An accepted user is in the table while the server registers another and *)
(* while no console is starting; in the file, before any line that could   *)
(* take its place, unless the server has emptied it; and in what a console *)
(* has still to import, likewise, if it is not in the table.               *)
(***************************************************************************)
Guardado(f) ==
  /\ pc[Servidor] # "esperando" => f \in usuariosBD
  /\ pc[Servidor] # "volcar" => Primera(f, usuariosCSV)
  /\ \A p \in Consolas : pc[p] = "importar" => f \in usuariosBD \/ Primera(f, pendientes[p])
  /\ ~ Arrancando => f \in usuariosBD
  /\ f \in usuariosBD \/ \A g \in usuariosBD : g.id # f.id /\ g.correo # f.correo

InvAceptados == SinDanos => \A f \in aceptados : Guardado(f)

LEMMA AvisosCrecen ==
  ASSUME [Next]_vars
  PROVE  avisos \subseteq avisos'
<1>1. CASE PasoServidor
  BY <1>1 DEF PasoServidor, RegistrarRemoto, Truncar, Volcar, Avisa
<1>2. CASE \E p \in Consolas : PasoConsola(p)
  BY <1>2 DEF PasoConsola, Arrancar, AbrirCSV, ImportarLinea, Importado, ElegirId, Anadir, Salir,
              Avisa, historia
<1>3. CASE \E p \in Procesos : Caida(p)
  BY <1>3 DEF Caida, Avisa
<1>4. CASE UNCHANGED vars
  BY <1>4 DEF vars, historia
<1>5. QED
  BY <1>1, <1>2, <1>3, <1>4 DEF Next

LEMMA PrimeraSeQueda ==
  ASSUME NEW f, NEW s \in Seq(Lineas), NEW t \in Seq(Lineas), Len(t) = Len(s) + 1,
         \A k \in 1 .. Len(s) : t[k] = s[k],
         Primera(f, s)
  PROVE  Primera(f, t)
<1>1. PICK k \in 1 .. Len(s) :
        /\ s[k] = f
        /\ \A j \in 1 .. Len(s) :
             j < k => s[j] = Encabezado \/ (s[j].id # f.id /\ s[j].correo # f.correo)
  BY DEF Primera
<1>2. k \in 1 .. Len(t) /\ t[k] = f
  BY <1>1
<1>3. ASSUME NEW j \in 1 .. Len(t), j < k
      PROVE  t[j] = Encabezado \/ (t[j].id # f.id /\ t[j].correo # f.correo)
  <2>1. j \in 1 .. Len(s)
    BY <1>3
  <2>2. QED
    BY <1>1, <1>3, <2>1
<1>4. QED
  BY <1>2, <1>3 DEF Primera

\* The first pending line is f, or does not take its place.
LEMMA PrimeraEnCola ==
  ASSUME NEW f \in Fila, NEW s \in Seq(Lineas), s # << >>, Primera(f, s)
  PROVE  \/ Head(s) = f
         \/ /\ Primera(f, Tail(s))
            /\ Head(s) = Encabezado \/ (Head(s).id # f.id /\ Head(s).correo # f.correo)
<1>1. PICK k \in 1 .. Len(s) :
        /\ s[k] = f
        /\ \A j \in 1 .. Len(s) :
             j < k => s[j] = Encabezado \/ (s[j].id # f.id /\ s[j].correo # f.correo)
  BY DEF Primera
<1>2. /\ Len(s) \in Nat \ {0} /\ Len(Tail(s)) = Len(s) - 1 /\ Head(s) = s[1]
      /\ \A j \in 1 .. Len(s) - 1 : Tail(s)[j] = s[j + 1]
  OBVIOUS
<1>3. CASE k = 1
  BY <1>1, <1>2, <1>3
<1>4. CASE k # 1
  <2>1. k - 1 \in 1 .. Len(Tail(s)) /\ Tail(s)[k - 1] = f
    BY <1>1, <1>2, <1>4
  <2>2. ASSUME NEW j \in 1 .. Len(Tail(s)), j < k - 1
        PROVE  Tail(s)[j] = Encabezado \/ (Tail(s)[j].id # f.id /\ Tail(s)[j].correo # f.correo)
    <3>1. j + 1 \in 1 .. Len(s) /\ j + 1 < k /\ Tail(s)[j] = s[j + 1]
      BY <1>2, <2>2
    <3>2. QED
      BY <1>1, <3>1
  <2>3. 1 \in 1 .. Len(s) /\ 1 < k
    BY <1>2, <1>4
  <2>4. QED
    BY <1>1, <1>2, <2>1, <2>2, <2>3 DEF Primera
<1>5. QED
  BY <1>3, <1>4

LEMMA PrimeraVolcada ==
  ASSUME Volcado, "corte" \notin avisos', NEW f \in usuariosBD
  PROVE  Primera(f, usuariosCSV')
<1>1. PICK k \in 2 .. Len(usuariosCSV') : usuariosCSV'[k] = f
  BY DEF Volcado
<1>2. k \in 1 .. Len(usuariosCSV')
  BY DEF Volcado
<1>3. ASSUME NEW j \in 1 .. Len(usuariosCSV'), j < k
      PROVE  \/ usuariosCSV'[j] = Encabezado
             \/ usuariosCSV'[j].id # f.id /\ usuariosCSV'[j].correo # f.correo
  <2>1. j = 1 \/ (j \in 2 .. Len(usuariosCSV') /\ j # k)
    BY <1>3 DEF Volcado
  <2>2. QED
    BY <1>1, <2>1 DEF Volcado
<1>4. QED
  BY <1>1, <1>2, <1>3 DEF Primera

LEMMA GuardadoRegistrarRemoto ==
  ASSUME Base, NEW e \in Correos, RegistrarRemoto(e), SinDanos',
         NEW f \in Fila, Guardado(f)
  PROVE  Guardado(f)'
<1>1. UNCHANGED <<usuariosCSV, pendientes>> /\ pc[Servidor] = "esperando"
  BY DEF RegistrarRemoto
<1>2. CASE UNCHANGED <<usuariosBD, pc>>
  BY <1>1, <1>2 DEF Guardado, Arrancando
<1>3. CASE /\ usuariosBD \subseteq usuariosBD'
           /\ pc' = [pc EXCEPT ![Servidor] = "truncar"]
           /\ ~ Arrancando
  <2>1. f \in usuariosBD' /\ f \in usuariosBD
    BY <1>3 DEF Guardado
  <2>2. Primera(f, usuariosCSV)
    BY <1>1 DEF Guardado
  <2>3. QED
    BY <1>1, <1>3, <2>1, <2>2 DEF Guardado
<1>4. QED
  BY <1>2, <1>3 DEF RegistrarRemoto, Avisa, Ir, SinDanos

LEMMA GuardadoTruncar ==
  ASSUME Base, Truncar, SinDanos', NEW f \in Fila, Guardado(f)
  PROVE  Guardado(f)'
<1>1. /\ pc[Servidor] = "truncar"
      /\ pc' = [pc EXCEPT ![Servidor] = "volcar"]
      /\ UNCHANGED <<usuariosBD, pendientes>>
  BY DEF Truncar, Avisa, Ir, SinDanos
<1>2. pc'[Servidor] = "volcar" /\ \A p \in Consolas : pc'[p] = pc[p]
  BY <1>1, LosProcesos DEF Base, TypeOK
<1>3. QED
  BY <1>1, <1>2 DEF Guardado, Arrancando

LEMMA GuardadoVolcar ==
  ASSUME Base, Volcar, SinDanos', NEW f \in usuariosBD
  PROVE  Guardado(f)'
<1>1. UNCHANGED <<usuariosBD, pendientes>> /\ "corte" \notin avisos'
  BY DEF Volcar, SinDanos
<1>2. Primera(f, usuariosCSV')
  BY <1>1, SeVuelca, PrimeraVolcada DEF Base
<1>3. QED
  BY <1>1, <1>2 DEF Guardado

LEMMA GuardadoArrancar ==
  ASSUME Base, NEW p \in Consolas, Arrancar(p), NEW f \in Fila, Guardado(f)
  PROVE  Guardado(f)'
<1>1. /\ pc' = [pc EXCEPT ![p] = "abrir"]
      /\ \/ usuariosBD' = usuariosBD
         \/ /\ usuariosBD' = {} /\ pc[Servidor] = "esperando"
            /\ \A q \in Consolas : pc[q] = "cerrado"
      /\ UNCHANGED <<usuariosCSV, pendientes>>
  BY DEF Arrancar, Ir, EnUso
<1>2. pc'[Servidor] = pc[Servidor] /\ pc'[p] = "abrir" /\ \A q \in Consolas : q # p => pc'[q] = pc[q]
  BY <1>1, LosProcesos DEF Base, TypeOK
<1>3. Arrancando'
  BY <1>2 DEF Arrancando
<1>4. QED
  BY <1>1, <1>2, <1>3 DEF Guardado

LEMMA GuardadoAbrirCSV ==
  ASSUME Base, NEW p \in Consolas, AbrirCSV(p), SinDanos', NEW f \in Fila, Guardado(f)
  PROVE  Guardado(f)'
<1>1. /\ pc[p] = "abrir"
      /\ pc' = [pc EXCEPT ![p] = "importar"]
      /\ pendientes' = [pendientes EXCEPT ![p] = usuariosCSV]
      /\ UNCHANGED <<usuariosBD, usuariosCSV>>
  BY DEF AbrirCSV, Ir, Avisa, SinDanos, datos
<1>2. pc'[Servidor] = pc[Servidor] /\ pc'[p] = "importar" /\ \A q \in Consolas : q # p => pc'[q] = pc[q]
  BY <1>1, LosProcesos DEF Base, TypeOK
<1>3. pendientes'[p] = usuariosCSV /\ \A q \in Consolas : q # p => pendientes'[q] = pendientes[q]
  BY <1>1 DEF Base, TypeOK
<1>4. Arrancando'
  BY <1>2 DEF Arrancando
<1>5. f \in usuariosBD \/ Primera(f, usuariosCSV)
  BY DEF Guardado
<1>6. QED
  BY <1>1, <1>2, <1>3, <1>4, <1>5 DEF Guardado

(***************************************************************************)
(* The import of a line puts f in the table, or does not take its place:   *)
(* the row made of the header is of nobody waiting to be imported.         *)
(***************************************************************************)
LEMMA GuardadoImportarLinea ==
  ASSUME Base, NEW p \in Consolas, ImportarLinea(p), SinDanos',
         NEW f \in Fila, f.correo \in Correos, Guardado(f)
  PROVE  Guardado(f)'
<1>1. /\ pc[p] = "importar"
      /\ pendientes[p] # << >>
      /\ pendientes' = [pendientes EXCEPT ![p] = Tail(pendientes[p])]
      /\ UNCHANGED <<usuariosCSV, pc>>
  BY DEF ImportarLinea
<1>2. pendientes'[p] = Tail(pendientes[p]) /\ \A q \in Consolas : q # p => pendientes'[q] = pendientes[q]
  BY <1>1 DEF Base, TypeOK
<1>3. PICK g \in Leidas(Head(pendientes[p])) :
        /\ Inserta(g)
        /\ ~ /\ g.correo = Basura /\ Cabe(g)
             /\ \E h \in Usuarios(pendientes[p]) \cup Usuarios(usuariosCSV) :
                  h.id = g.id /\ h.correo # Basura
  BY DEF ImportarLinea, Avisa, SinDanos
<1>4. /\ pendientes[p] \in Seq(Lineas) /\ Head(pendientes[p]) \in Lineas
      /\ TypeOK /\ Finita
  BY <1>1 DEF Base, TypeOK, Lineas
<1>5. g \in Fila /\ (Head(pendientes[p]) = Encabezado => g.correo = Basura)
      /\ (Head(pendientes[p]) # Encabezado => g = Head(pendientes[p]))
  BY <1>4, SeLee
<1>6. /\ usuariosBD \subseteq usuariosBD'
      /\ Cabe(g) => /\ usuariosBD' = usuariosBD \cup {g}
                    /\ \A h \in usuariosBD : h.id # g.id /\ h.correo # g.correo
      /\ ~ Cabe(g) => /\ usuariosBD' = usuariosBD
                      /\ \E h \in usuariosBD : h.id = g.id \/ h.correo = g.correo
  BY <1>3, <1>4, <1>5, SeInserta
<1>7. CASE f \in usuariosBD
  BY <1>1, <1>6, <1>7 DEF Guardado, Arrancando
<1>8. CASE f \notin usuariosBD
  <2>1. Primera(f, pendientes[p])
    BY <1>1, <1>8 DEF Guardado
  <2>2. CASE g = f
    <3>1. f \in usuariosBD'
      BY <1>6, <1>8, <2>2 DEF Guardado
    <3>2. QED
      BY <1>1, <3>1 DEF Guardado, Arrancando
  <2>3. CASE g # f
    <3>1. Head(pendientes[p]) # f
      BY <1>5, <2>3, EncabezadoOK
    <3>2. Primera(f, Tail(pendientes[p]))
      BY <1>1, <1>4, <2>1, <3>1, PrimeraEnCola
    <3>3. ~ Cabe(g) \/ (g.id # f.id /\ g.correo # f.correo)
      <4>1. CASE Head(pendientes[p]) # Encabezado
        BY <1>1, <1>4, <1>5, <2>1, <3>1, <4>1, PrimeraEnCola
      <4>2. CASE Head(pendientes[p]) = Encabezado
        <5>1. f \in ToSet(pendientes[p])
          BY <1>4, <2>1 DEF Primera, ToSet
        <5>2. f \in Usuarios(pendientes[p]) /\ f.correo # Basura
          BY <5>1, EncabezadoOK, ConstantesOK DEF Usuarios
        <5>3. QED
          BY <1>3, <1>5, <4>2, <5>2
      <4>3. QED
        BY <4>1, <4>2
    <3>4. \A h \in usuariosBD' : h.id # f.id /\ h.correo # f.correo
      BY <1>6, <1>8, <3>3 DEF Guardado
    <3>5. \A q \in Consolas : pc'[q] = "importar" => Primera(f, pendientes'[q])
      BY <1>1, <1>2, <1>8, <3>2 DEF Guardado
    <3>6. Arrancando'
      BY <1>1 DEF Arrancando
    <3>7. (pc[Servidor] = "esperando") /\ Primera(f, usuariosCSV)
      BY <1>8 DEF Guardado
    <3>8. QED
      BY <1>1, <3>4, <3>5, <3>6, <3>7 DEF Guardado
  <2>4. QED
    BY <2>2, <2>3
<1>9. QED
  BY <1>7, <1>8

LEMMA NoEsPrimeraDeNada ==
  ASSUME NEW f, NEW s, s = << >>
  PROVE  ~ Primera(f, s)
<1>1. Len(s) = 0
  OBVIOUS
<1>2. QED
  BY <1>1 DEF Primera

LEMMA GuardadoImportado ==
  ASSUME Base, NEW p \in Consolas, Importado(p), NEW f \in Fila, Guardado(f)
  PROVE  Guardado(f)'
<1>1. /\ pc[p] = "importar" /\ pendientes[p] = << >>
      /\ pc' = [pc EXCEPT ![p] = "menu"]
      /\ UNCHANGED <<datos, pendientes>>
  BY DEF Importado, Ir
<1>2. f \in usuariosBD
  BY <1>1, NoEsPrimeraDeNada DEF Guardado
<1>3. pc'[Servidor] = pc[Servidor]
  BY <1>1, LosProcesos DEF Base, TypeOK
<1>4. QED
  BY <1>1, <1>2, <1>3 DEF Guardado, datos

\* A step of the menu does not start a console nor touch what is stored.
LEMMA GuardadoMenu ==
  ASSUME Base, NEW p \in Consolas, ElegirId(p) \/ Salir(p), NEW f \in Fila, Guardado(f)
  PROVE  Guardado(f)'
<1>1. /\ pc[p] = "menu"
      /\ \E paso \in {"alta", "cerrado"} : pc' = [pc EXCEPT ![p] = paso]
      /\ UNCHANGED <<datos, pendientes>>
  BY DEF ElegirId, Salir, Ir
<1>2. /\ pc'[Servidor] = pc[Servidor]
      /\ \A q \in Consolas : pc'[q] = pc[q] \/ (q = p /\ pc'[q] \in {"alta", "cerrado"})
  BY <1>1, LosProcesos DEF Base, TypeOK
<1>3. Arrancando' <=> Arrancando
  BY <1>1, <1>2 DEF Arrancando
<1>4. QED
  BY <1>1, <1>2, <1>3 DEF Guardado, datos

LEMMA GuardadoAnadir ==
  ASSUME Base, NEW p \in Consolas, NEW e \in Correos, Anadir(p, e), NEW f \in Fila, Guardado(f)
  PROVE  Guardado(f)'
<1>1. /\ pc[p] = "alta"
      /\ pc' = [pc EXCEPT ![p] = "menu"]
      /\ UNCHANGED <<usuariosBD, pendientes>>
  BY DEF Anadir, Ir
<1>2. /\ pc'[Servidor] = pc[Servidor]
      /\ \A q \in Consolas : pc'[q] = pc[q] \/ (q = p /\ pc'[q] = "menu")
  BY <1>1, LosProcesos DEF Base, TypeOK
<1>3. Arrancando' <=> Arrancando
  BY <1>1, <1>2 DEF Arrancando
<1>4. Primera(f, usuariosCSV) => Primera(f, usuariosCSV')
  <2>1. /\ usuariosCSV \in Seq(Lineas) /\ usuariosCSV' \in Seq(Lineas)
        /\ Len(usuariosCSV') = Len(usuariosCSV) + 1
        /\ \A k \in 1 .. Len(usuariosCSV) : usuariosCSV'[k] = usuariosCSV[k]
    BY SeAnade DEF Base, TypeOK, Lineas
  <2>2. QED
    BY <2>1, PrimeraSeQueda
<1>5. QED
  BY <1>1, <1>2, <1>3, <1>4 DEF Guardado

\* No process is killed in the middle of a registration or of a start.
LEMMA GuardadoCaida ==
  ASSUME Base, NEW p \in Procesos, Caida(p), SinDanos', NEW f \in Fila, Guardado(f)
  PROVE  Guardado(f)'
<1>1. pc[p] = "alta" /\ UNCHANGED datos
  BY DEF Caida, Avisa, SinDanos
<1>2. p \in Consolas /\ p # Servidor
  BY <1>1 DEF Base, PcOK, Procesos
<1>3. /\ pc'[Servidor] = pc[Servidor]
      /\ \A q \in Consolas : pc'[q] = pc[q] \/ (q = p /\ pc'[q] = "cerrado")
      /\ \A q \in Consolas : q # p => pendientes'[q] = pendientes[q]
  BY <1>2, LosProcesos DEF Caida, Ir, Base, TypeOK
<1>4. Arrancando' <=> Arrancando
  BY <1>1, <1>3 DEF Arrancando
<1>5. \A q \in Consolas : pc'[q] = "importar" => pc[q] = "importar" /\ pendientes'[q] = pendientes[q]
  BY <1>1, <1>3
<1>6. QED
  BY <1>1, <1>3, <1>4, <1>5 DEF Guardado, datos

LEMMA GuardadoPaso ==
  ASSUME Base, [Next]_vars, SinDanos', NEW f \in Fila, f.correo \in Correos, Guardado(f)
  PROVE  Guardado(f)'
<1>1. CASE \E e \in Correos : RegistrarRemoto(e)
  BY <1>1, GuardadoRegistrarRemoto
<1>2. CASE Truncar
  BY <1>2, GuardadoTruncar
<1>3. CASE Volcar
  <2>1. f \in usuariosBD
    BY <1>3 DEF Guardado, Volcar
  <2>2. QED
    BY <1>3, <2>1, GuardadoVolcar
<1>4. CASE \E p \in Consolas : PasoConsola(p)
  BY <1>4, GuardadoArrancar, GuardadoAbrirCSV, GuardadoImportarLinea, GuardadoImportado,
     GuardadoMenu, GuardadoAnadir
  DEF PasoConsola
<1>5. CASE \E p \in Procesos : Caida(p)
  BY <1>5, GuardadoCaida
<1>6. CASE UNCHANGED vars
  BY <1>6 DEF vars, datos, proceso, Guardado, Arrancando
<1>7. QED
  BY <1>1, <1>2, <1>3, <1>4, <1>5, <1>6 DEF Next, PasoServidor

LEMMA AceptadosPaso == Base /\ InvAceptados /\ [Next]_vars => InvAceptados'
<1> SUFFICES ASSUME Base, InvAceptados, [Next]_vars, SinDanos', NEW f \in aceptados'
             PROVE  Guardado(f)'
  BY DEF InvAceptados
<1>1. SinDanos
  BY AvisosCrecen DEF SinDanos
<1>2. CASE f \in aceptados
  BY <1>1, <1>2, GuardadoPaso DEF InvAceptados, Base, AceptadosReales, TypeOK
<1>3. CASE f \notin aceptados
  <2>1. f \in usuariosBD /\ Volcar
    BY <1>3, QuienSeAcepta DEF SinDanos
  <2>2. QED
    BY <2>1, GuardadoVolcar
<1>4. QED
  BY <1>2, <1>3

(***************************************************************************)
(* An accepted registration is for good (AceptadosPermanecen), through any *)
(* number of starts, registrations and rewrites of the file.               *)
(***************************************************************************)
THEOREM LosAceptadosPermanecen == Spec => []AceptadosPermanecen
<1>1. Init => InvAceptados
  BY DEF Init, InvAceptados
<1>2. Base /\ InvAceptados => AceptadosPermanecen
  <2> SUFFICES ASSUME Base, InvAceptados, SinDanos, NEW f \in aceptados, f \notin usuariosBD
               PROVE  \/ \E p \in Consolas : f \in ToSet(pendientes[p])
                      \/ f \in ToSet(usuariosCSV) /\ \E p \in Consolas : pc[p] = "abrir"
    BY DEF AceptadosPermanecen, SinDanos
  <2>1. Guardado(f)
    BY DEF InvAceptados
  <2>2. PICK q \in Consolas : pc[q] \in {"abrir", "importar"}
    BY <2>1 DEF Guardado, Arrancando
  <2>3. CASE pc[q] = "importar"
    <3>1. Primera(f, pendientes[q]) /\ pendientes[q] \in Seq(Lineas)
      BY <2>1, <2>3 DEF Guardado, Base, TypeOK, Lineas
    <3>2. QED
      BY <3>1 DEF Primera, ToSet
  <2>4. CASE pc[q] = "abrir"
    <3>1. Primera(f, usuariosCSV) /\ usuariosCSV \in Seq(Lineas)
      BY <2>1 DEF Guardado, Base, TypeOK, Lineas
    <3>2. QED
      BY <2>4, <3>1 DEF Primera, ToSet
  <2>5. QED
    BY <2>2, <2>3, <2>4
<1>3. QED
  BY <1>1, <1>2, BaseInicial, BasePaso, AceptadosPaso, PTL DEF Spec

-----------------------------------------------------------------------------
(* What the file and the table keep between them *)

\* While the server registers, nobody is reading the file.
SinLectores ==
  pc[Servidor] # "esperando" => \A p \in Consolas : pc[p] # "importar"

IdsDeLineas ==
  \A j, k \in 1 .. Len(usuariosCSV) :
    /\ usuariosCSV[j] # Encabezado
    /\ usuariosCSV[k] # Encabezado
    /\ usuariosCSV[j].id = usuariosCSV[k].id
    => j = k

\* A row and a line with one id are the same user.
MismoUsuario ==
  \A g \in usuariosBD : \A k \in 1 .. Len(usuariosCSV) :
    usuariosCSV[k] # Encabezado /\ usuariosCSV[k].id = g.id => usuariosCSV[k] = g

\* p has imported the first a lines: their e-mails are in the table.
Importadas(p, a) ==
  /\ a + Len(pendientes[p]) <= Len(usuariosCSV)
  /\ \A k \in 1 .. Len(pendientes[p]) : pendientes[p][k] = usuariosCSV[a + k]
  /\ \A k \in 1 .. a :
       usuariosCSV[k] # Encabezado => usuariosCSV[k].correo \in CorreosDe(usuariosBD)

\* A row is the first line with its e-mail.
PrimeraConCorreo(g) ==
  \E k \in 1 .. Len(usuariosCSV) :
    /\ usuariosCSV[k] = g
    /\ \A j \in 1 .. k - 1 : usuariosCSV[j] = Encabezado \/ usuariosCSV[j].correo # g.correo

Concuerdan ==
  /\ MismoUsuario
  /\ \A p \in Consolas : pc[p] = "importar" => \E a \in Nat : Importadas(p, a)
  /\ \A g \in usuariosBD : g.correo # Basura => PrimeraConCorreo(g)

(***************************************************************************)
(* The table follows the file while the server is idle: a row is the first *)
(* line with its e-mail, the two agree on whose an id is, and a console    *)
(* that starts is at some line of the file and has left nobody behind.     *)
(***************************************************************************)
InvIdentidad ==
  avisos = {} =>
    /\ SinLectores
    /\ IdsDeLineas
    /\ pc[Servidor] = "esperando" => Concuerdan

\* The file is the same, or has more lines at the end.
Crece ==
  /\ Len(usuariosCSV) \in Nat /\ Len(usuariosCSV') \in Nat
  /\ Len(usuariosCSV) <= Len(usuariosCSV')
  /\ \A k \in 1 .. Len(usuariosCSV) : usuariosCSV'[k] = usuariosCSV[k]

LEMMA SigueImportando ==
  ASSUME Base, Crece, NEW p \in Consolas, NEW a \in Nat, Importadas(p, a),
         pendientes'[p] = pendientes[p], usuariosBD \subseteq usuariosBD'
  PROVE  Importadas(p, a)'
<1>1. Len(pendientes[p]) \in Nat
  BY DEF Base, TypeOK
<1>2. \A k \in 1 .. a : k \in 1 .. Len(usuariosCSV)
  BY <1>1 DEF Importadas, Crece
<1>3. \A k \in 1 .. Len(pendientes[p]) : a + k \in 1 .. Len(usuariosCSV)
  BY <1>1 DEF Importadas, Crece
<1>4. CorreosDe(usuariosBD) \subseteq CorreosDe(usuariosBD')
  BY DEF CorreosDe
<1>5. a + Len(pendientes'[p]) <= Len(usuariosCSV')
  BY <1>1 DEF Importadas, Crece
<1>6. \A k \in 1 .. Len(pendientes'[p]) : pendientes'[p][k] = usuariosCSV'[a + k]
  BY <1>3 DEF Importadas, Crece
<1>7. \A k \in 1 .. a :
        usuariosCSV'[k] # Encabezado => usuariosCSV'[k].correo \in CorreosDe(usuariosBD')
  BY <1>2, <1>4 DEF Importadas, Crece
<1>8. QED
  BY <1>5, <1>6, <1>7 DEF Importadas, CorreosDe

LEMMA SiguePrimera ==
  ASSUME Crece, NEW g, PrimeraConCorreo(g)
  PROVE  PrimeraConCorreo(g)'
<1>1. PICK k \in 1 .. Len(usuariosCSV) :
        /\ usuariosCSV[k] = g
        /\ \A j \in 1 .. k - 1 : usuariosCSV[j] = Encabezado \/ usuariosCSV[j].correo # g.correo
  BY DEF PrimeraConCorreo
<1>2. k \in 1 .. Len(usuariosCSV') /\ \A j \in 1 .. k - 1 : j \in 1 .. Len(usuariosCSV)
  BY DEF Crece
<1>3. QED
  BY <1>1, <1>2 DEF PrimeraConCorreo, Crece

\* A step that reads nothing, opens nothing and leaves file and table alone.
LEMMA IdentidadQuieta ==
  ASSUME Base, InvIdentidad, avisos = {}, UNCHANGED <<usuariosBD, usuariosCSV>>,
         pc'[Servidor] = pc[Servidor],
         \A q \in Consolas : pc'[q] = "importar" =>
           pc[q] = "importar" /\ pendientes'[q] = pendientes[q]
  PROVE  InvIdentidad'
<1>1. Crece
  BY DEF Crece, Base, TypeOK
<1>2. SinLectores' /\ IdsDeLineas'
  BY DEF InvIdentidad, SinLectores, IdsDeLineas
<1>3. ASSUME pc[Servidor] = "esperando"
      PROVE  Concuerdan'
  <2>1. Concuerdan
    BY <1>3 DEF InvIdentidad
  <2>2. MismoUsuario'
    BY <2>1 DEF Concuerdan, MismoUsuario
  <2>3. \A q \in Consolas : pc'[q] = "importar" => \E a \in Nat : Importadas(q, a)'
    BY <1>1, <2>1, SigueImportando DEF Concuerdan
  <2>4. \A g \in usuariosBD' : g.correo # Basura => PrimeraConCorreo(g)'
    BY <1>1, <2>1, SiguePrimera DEF Concuerdan
  <2>5. QED
    BY <2>2, <2>3, <2>4 DEF Concuerdan
<1>4. QED
  BY <1>2, <1>3 DEF InvIdentidad

LEMMA IdentidadRegistrarRemoto ==
  ASSUME Base, InvIdentidad, avisos' = {}, avisos = {}, NEW e \in Correos, RegistrarRemoto(e)
  PROVE  InvIdentidad'
<1>1. UNCHANGED <<usuariosCSV, pendientes>>
  BY DEF RegistrarRemoto
<1>2. CASE UNCHANGED <<usuariosBD, pc>>
  BY <1>1, <1>2, IdentidadQuieta
<1>3. CASE pc' = [pc EXCEPT ![Servidor] = "truncar"] /\ ~ Arrancando
  <2>1. pc'[Servidor] = "truncar" /\ \A p \in Consolas : pc'[p] = pc[p]
    BY <1>3, LosProcesos DEF Base, TypeOK
  <2>2. SinLectores'
    BY <1>3, <2>1 DEF SinLectores, Arrancando
  <2>3. IdsDeLineas'
    BY <1>1 DEF InvIdentidad, IdsDeLineas
  <2>4. QED
    BY <2>1, <2>2, <2>3 DEF InvIdentidad
<1>4. QED
  BY <1>2, <1>3 DEF RegistrarRemoto, Avisa, Ir

LEMMA IdentidadTruncar ==
  ASSUME Base, InvIdentidad, avisos' = {}, avisos = {}, Truncar
  PROVE  InvIdentidad'
<1>1. /\ pc[Servidor] = "truncar"
      /\ pc' = [pc EXCEPT ![Servidor] = "volcar"]
      /\ usuariosCSV' = << >>
  BY DEF Truncar, Avisa, Ir
<1>2. pc'[Servidor] = "volcar" /\ \A p \in Consolas : pc'[p] = pc[p]
  BY <1>1, LosProcesos DEF Base, TypeOK
<1>3. SinLectores'
  BY <1>1, <1>2 DEF InvIdentidad, SinLectores
<1>4. IdsDeLineas'
  <2>1. Len(usuariosCSV') = 0
    BY <1>1
  <2>2. QED
    BY <2>1 DEF IdsDeLineas
<1>5. QED
  BY <1>2, <1>3, <1>4 DEF InvIdentidad

\* The file written from the table is the table.
LEMMA IdentidadVolcar ==
  ASSUME Base, InvIdentidad, avisos' = {}, avisos = {}, Volcar
  PROVE  InvIdentidad'
<1>1. /\ pc[Servidor] = "volcar"
      /\ pc' = [pc EXCEPT ![Servidor] = "esperando"]
      /\ usuariosBD' = usuariosBD
  BY DEF Volcar, Responde, Ir
<1>2. pc'[Servidor] = "esperando" /\ \A p \in Consolas : pc'[p] = pc[p]
  BY <1>1, LosProcesos DEF Base, TypeOK
<1>3. Volcado
  BY SeVuelca DEF Base
<1>4. \A k \in 1 .. Len(usuariosCSV') :
        usuariosCSV'[k] = Encabezado \/ k \in 2 .. Len(usuariosCSV')
  BY <1>3 DEF Volcado
<1>5. IdsDeLineas'
  BY <1>3, <1>4 DEF IdsDeLineas, Volcado
<1>6. MismoUsuario'
  BY <1>1, <1>3, <1>4 DEF MismoUsuario, Volcado, Base, TypeOK
<1>7. \A p \in Consolas : pc'[p] # "importar"
  BY <1>1, <1>2 DEF InvIdentidad, SinLectores
<1>8. ASSUME NEW g \in usuariosBD'
      PROVE  PrimeraConCorreo(g)'
  <2>1. PICK k \in 2 .. Len(usuariosCSV') : usuariosCSV'[k] = g
    BY <1>1, <1>3, <1>8 DEF Volcado
  <2>2. k \in 1 .. Len(usuariosCSV')
    BY <1>3 DEF Volcado
  <2>3. ASSUME NEW j \in 1 .. k - 1
        PROVE  usuariosCSV'[j] = Encabezado \/ usuariosCSV'[j].correo # g.correo
    <3>1. j = 1 \/ (j \in 2 .. Len(usuariosCSV') /\ j # k)
      BY <1>3 DEF Volcado
    <3>2. QED
      BY <1>3, <2>1, <3>1 DEF Volcado
  <2>4. QED
    BY <2>1, <2>2, <2>3 DEF PrimeraConCorreo
<1>9. QED
  BY <1>2, <1>5, <1>6, <1>7, <1>8 DEF InvIdentidad, SinLectores, Concuerdan

LEMMA IdentidadArrancar ==
  ASSUME Base, InvIdentidad, avisos = {}, NEW p \in Consolas, Arrancar(p)
  PROVE  InvIdentidad'
<1>1. /\ pc' = [pc EXCEPT ![p] = "abrir"]
      /\ \/ usuariosBD' = usuariosBD
         \/ usuariosBD' = {} /\ \A q \in Consolas : pc[q] = "cerrado"
      /\ UNCHANGED <<usuariosCSV, pendientes>>
  BY DEF Arrancar, Ir, EnUso
<1>2. pc'[Servidor] = pc[Servidor] /\ pc'[p] = "abrir" /\ \A q \in Consolas : q # p => pc'[q] = pc[q]
  BY <1>1, LosProcesos DEF Base, TypeOK
<1>3. CASE usuariosBD' = usuariosBD
  BY <1>1, <1>2, <1>3, IdentidadQuieta
<1>4. CASE usuariosBD' = {} /\ \A q \in Consolas : pc[q] = "cerrado"
  <2>1. \A q \in Consolas : pc'[q] # "importar"
    BY <1>2, <1>4
  <2>2. SinLectores' /\ IdsDeLineas'
    BY <1>1, <2>1 DEF InvIdentidad, SinLectores, IdsDeLineas
  <2>3. Concuerdan'
    BY <1>4, <2>1 DEF Concuerdan, MismoUsuario
  <2>4. QED
    BY <2>2, <2>3 DEF InvIdentidad
<1>5. QED
  BY <1>1, <1>3, <1>4

LEMMA IdentidadAbrirCSV ==
  ASSUME Base, InvIdentidad, avisos' = {}, avisos = {}, NEW p \in Consolas, AbrirCSV(p)
  PROVE  InvIdentidad'
<1>1. /\ pc[Servidor] = "esperando"
      /\ pc' = [pc EXCEPT ![p] = "importar"]
      /\ pendientes' = [pendientes EXCEPT ![p] = usuariosCSV]
      /\ UNCHANGED <<usuariosBD, usuariosCSV>>
  BY DEF AbrirCSV, Ir, Avisa, datos
<1>2. pc'[Servidor] = pc[Servidor] /\ pc'[p] = "importar" /\ \A q \in Consolas : q # p => pc'[q] = pc[q]
  BY <1>1, LosProcesos DEF Base, TypeOK
<1>3. pendientes'[p] = usuariosCSV /\ \A q \in Consolas : q # p => pendientes'[q] = pendientes[q]
  BY <1>1 DEF Base, TypeOK
<1>4. Concuerdan /\ Crece
  BY <1>1 DEF InvIdentidad, Crece, Base, TypeOK
<1>5. SinLectores' /\ IdsDeLineas'
  BY <1>1, <1>2 DEF InvIdentidad, SinLectores, IdsDeLineas
<1>6. MismoUsuario'
  BY <1>1, <1>4 DEF Concuerdan, MismoUsuario
<1>7. Importadas(p, 0)'
  BY <1>1, <1>3, <1>4 DEF Importadas, Crece
<1>8. \A q \in Consolas : pc'[q] = "importar" => \E a \in Nat : Importadas(q, a)'
  BY <1>1, <1>2, <1>3, <1>4, <1>7, SigueImportando DEF Concuerdan
<1>9. \A g \in usuariosBD' : g.correo # Basura => PrimeraConCorreo(g)'
  BY <1>1, <1>4, SiguePrimera DEF Concuerdan
<1>10. QED
  BY <1>5, <1>6, <1>8, <1>9 DEF InvIdentidad, Concuerdan

(***************************************************************************)
(* The row inserted is the line after those already imported, so it is the *)
(* first with its e-mail and the only one with its id; a line that finds   *)
(* no room has its e-mail in the table, for its id is only its own.        *)
(***************************************************************************)
LEMMA IdentidadImportarLinea ==
  ASSUME Base, InvIdentidad, avisos' = {}, avisos = {}, NEW p \in Consolas, ImportarLinea(p)
  PROVE  InvIdentidad'
<1> DEFINE linea == Head(pendientes[p])
<1>1. /\ pc[p] = "importar"
      /\ pendientes[p] # << >>
      /\ pendientes' = [pendientes EXCEPT ![p] = Tail(pendientes[p])]
      /\ UNCHANGED <<usuariosCSV, pc>>
  BY DEF ImportarLinea
<1>2. pendientes'[p] = Tail(pendientes[p]) /\ \A q \in Consolas : q # p => pendientes'[q] = pendientes[q]
  BY <1>1 DEF Base, TypeOK
<1>3. PICK g \in Leidas(linea) :
        /\ Inserta(g)
        /\ ~ /\ g.correo = Basura /\ Cabe(g)
             /\ \E h \in Usuarios(pendientes[p]) \cup Usuarios(usuariosCSV) :
                  h.id = g.id /\ h.correo # Basura
  BY DEF ImportarLinea, Avisa
<1>4. /\ pendientes[p] \in Seq(Lineas) /\ linea \in Lineas
      /\ usuariosCSV \in Seq(Lineas) /\ TypeOK /\ Finita
  BY <1>1 DEF Base, TypeOK, Lineas
<1>5. /\ g \in Fila
      /\ linea = Encabezado => g.correo = Basura
      /\ linea # Encabezado => g = linea
  BY <1>4, SeLee
<1>6. /\ usuariosBD \subseteq usuariosBD'
      /\ Cabe(g) => /\ usuariosBD' = usuariosBD \cup {g}
                    /\ \A h \in usuariosBD : h.id # g.id /\ h.correo # g.correo
      /\ ~ Cabe(g) => /\ usuariosBD' = usuariosBD
                      /\ \E h \in usuariosBD : h.id = g.id \/ h.correo = g.correo
  BY <1>3, <1>4, <1>5, SeInserta
<1>7. /\ pc[Servidor] = "esperando"
      /\ Concuerdan /\ IdsDeLineas
  BY <1>1 DEF InvIdentidad, SinLectores
<1>8. Crece
  BY <1>1, <1>4 DEF Crece
<1>9. PICK a \in Nat : Importadas(p, a)
  BY <1>1, <1>7 DEF Concuerdan
<1>10. /\ a + 1 \in 1 .. Len(usuariosCSV)
       /\ usuariosCSV[a + 1] = linea
       /\ \A k \in 1 .. a : k \in 1 .. Len(usuariosCSV)
  <2>1. Len(pendientes[p]) \in Nat \ {0} /\ linea = pendientes[p][1] /\ Len(usuariosCSV) \in Nat
    BY <1>1, <1>4
  <2>2. 1 \in 1 .. Len(pendientes[p])
    BY <2>1
  <2> HIDE DEF linea
  <2>3. QED
    BY <2>1, <2>2, <1>9 DEF Importadas
<1> HIDE DEF linea
<1>11. linea # Encabezado => linea.correo \in CorreosDe(usuariosBD')
  <2>1. CASE Cabe(g)
    BY <1>5, <1>6, <2>1 DEF CorreosDe
  <2>2. CASE ~ Cabe(g)
    BY <1>5, <1>6, <1>7, <1>10, <2>2 DEF CorreosDe, Concuerdan, MismoUsuario
  <2>3. QED
    BY <2>1, <2>2
<1>12. Importadas(p, a + 1)'
  <2>1. /\ Len(pendientes[p]) \in Nat \ {0}
        /\ Len(Tail(pendientes[p])) = Len(pendientes[p]) - 1
        /\ \A k \in 1 .. Len(pendientes[p]) - 1 : Tail(pendientes[p])[k] = pendientes[p][k + 1]
    BY <1>1, <1>4
  <2>2. (a + 1) + Len(pendientes'[p]) <= Len(usuariosCSV')
    <3>1. /\ a + Len(pendientes[p]) <= Len(usuariosCSV)
          /\ Len(usuariosCSV) \in Nat /\ Len(pendientes[p]) \in Nat
      BY <1>4, <1>9 DEF Importadas
    <3>2. Len(pendientes'[p]) = Len(pendientes[p]) - 1 /\ Len(usuariosCSV') = Len(usuariosCSV)
      BY <1>1, <1>2, <2>1
    <3>3. \A l, m, n \in Nat : a + l <= n /\ m = l - 1 => (a + 1) + m <= n
      OBVIOUS
    <3>4. Len(pendientes'[p]) \in Nat
      BY <2>1, <3>2
    <3>5. QED
      BY <3>1, <3>2, <3>3, <3>4, Zenon
  <2>3. ASSUME NEW k \in 1 .. Len(pendientes'[p])
        PROVE  pendientes'[p][k] = usuariosCSV'[(a + 1) + k]
    <3>1. k + 1 \in 1 .. Len(pendientes[p]) /\ pendientes'[p][k] = pendientes[p][k + 1]
      BY <1>2, <2>1
    <3>2. a + (k + 1) = (a + 1) + k
      BY <2>1, <1>2
    <3>3. QED
      BY <1>1, <1>9, <3>1, <3>2 DEF Importadas
  <2>4. ASSUME NEW k \in 1 .. a + 1, usuariosCSV[k] # Encabezado
        PROVE  usuariosCSV[k].correo \in CorreosDe(usuariosBD')
    <3>1. CASE k = a + 1
      BY <1>10, <1>11, <2>4, <3>1
    <3>2. CASE k \in 1 .. a
      BY <1>6, <1>9, <2>4, <3>2 DEF Importadas, CorreosDe
    <3>3. QED
      BY <3>1, <3>2
  <2>5. QED
    BY <1>1, <2>2, <2>3, <2>4 DEF Importadas, CorreosDe
<1>13. \A q \in Consolas : pc'[q] = "importar" => \E b \in Nat : Importadas(q, b)'
  <2>1. ASSUME NEW q \in Consolas, pc'[q] = "importar", q # p
        PROVE  \E b \in Nat : Importadas(q, b)'
    BY <1>1, <1>2, <1>6, <1>7, <1>8, <2>1, SigueImportando DEF Concuerdan
  <2>2. a + 1 \in Nat
    OBVIOUS
  <2>3. QED
    BY <1>12, <2>1, <2>2
<1>14. MismoUsuario'
  <2> SUFFICES ASSUME NEW h \in usuariosBD', NEW k \in 1 .. Len(usuariosCSV),
                      usuariosCSV[k] # Encabezado, usuariosCSV[k].id = h.id
               PROVE  usuariosCSV[k] = h
    BY <1>1 DEF MismoUsuario
  <2>1. CASE h \in usuariosBD
    BY <1>7, <2>1 DEF Concuerdan, MismoUsuario
  <2>2. CASE h \notin usuariosBD
    <3>1. h = g /\ Cabe(g)
      BY <1>6, <2>2
    <3>2. CASE linea # Encabezado
      BY <1>5, <1>7, <1>10, <3>1, <3>2 DEF IdsDeLineas
    <3>3. CASE linea = Encabezado
      <4>1. usuariosCSV[k] \in Usuarios(usuariosCSV)
        BY <1>4 DEF Usuarios, ToSet
      <4>2. usuariosCSV[k].correo = Basura /\ g.correo = Basura
        BY <1>3, <1>5, <3>1, <3>3, <4>1
      <4>3. usuariosCSV[k] \in Fila
        BY <1>4 DEF Lineas
      <4>4. QED
        BY <1>5, <3>1, <4>2, <4>3 DEF Fila
    <3>4. QED
      BY <3>2, <3>3
  <2>3. QED
    BY <2>1, <2>2
<1>15. ASSUME NEW h \in usuariosBD', h.correo # Basura
       PROVE  PrimeraConCorreo(h)'
  <2>1. CASE h \in usuariosBD
    BY <1>7, <1>8, <1>15, <2>1, SiguePrimera DEF Concuerdan
  <2>2. CASE h \notin usuariosBD
    <3>1. h = g /\ Cabe(g)
      BY <1>6, <2>2
    <3>2. usuariosCSV[a + 1] = h
      BY <1>5, <1>10, <1>15, <3>1
    <3>3. \A j \in 1 .. (a + 1) - 1 :
            usuariosCSV[j] = Encabezado \/ usuariosCSV[j].correo # h.correo
      <4>1. \A j \in 1 .. a : usuariosCSV[j] = Encabezado \/ usuariosCSV[j].correo # h.correo
        BY <1>6, <1>9, <3>1 DEF Importadas, CorreosDe
      <4>2. QED
        BY <4>1
    <3>4. QED
      BY <1>1, <1>10, <3>2, <3>3 DEF PrimeraConCorreo
  <2>3. QED
    BY <2>1, <2>2
<1>16. SinLectores' /\ IdsDeLineas'
  BY <1>1, <1>7 DEF SinLectores, IdsDeLineas
<1>17. QED
  BY <1>13, <1>14, <1>15, <1>16 DEF InvIdentidad, Concuerdan

LEMMA IdentidadMenu ==
  ASSUME Base, InvIdentidad, avisos = {}, NEW p \in Consolas,
         Importado(p) \/ ElegirId(p) \/ Salir(p)
  PROVE  InvIdentidad'
<1>1. /\ \E paso \in {"menu", "alta", "cerrado"} : pc' = [pc EXCEPT ![p] = paso]
      /\ UNCHANGED <<datos, pendientes>>
  BY DEF Importado, ElegirId, Salir, Ir
<1>2. /\ pc'[Servidor] = pc[Servidor]
      /\ \A q \in Consolas : pc'[q] = "importar" => pc[q] = "importar"
  BY <1>1, LosProcesos DEF Base, TypeOK
<1>3. QED
  BY <1>1, <1>2, IdentidadQuieta DEF datos

\* The new line is the last, and its id is of no line and of no row.
LEMMA IdentidadAnadir ==
  ASSUME Base, InvIdentidad, avisos' = {}, avisos = {},
         NEW p \in Consolas, NEW e \in Correos, Anadir(p, e)
  PROVE  InvIdentidad'
<1>1. /\ pc' = [pc EXCEPT ![p] = "menu"]
      /\ UNCHANGED <<usuariosBD, pendientes>>
  BY DEF Anadir, Ir
<1>2. /\ pc'[Servidor] = pc[Servidor]
      /\ \A q \in Consolas : pc'[q] = "importar" => pc[q] = "importar"
  BY <1>1, LosProcesos DEF Base, TypeOK
<1> DEFINE n == Len(usuariosCSV)
<1>3. PICK f \in Fila :
           /\ usuariosCSV' \in Seq(Lineas)
           /\ n \in Nat /\ Len(usuariosCSV') = n + 1
           /\ usuariosCSV'[n + 1] = f
           /\ \A k \in 1 .. n : usuariosCSV'[k] = usuariosCSV[k]
           /\ f.id \notin Ids(Usuarios(usuariosCSV) \cup usuariosBD)
  BY SeAnade DEF Base
<1>4. Crece
  BY <1>3 DEF Crece
<1>5. \A k \in 1 .. Len(usuariosCSV') : k \in 1 .. n \/ k = n + 1
  BY <1>3
<1>6. \A k \in 1 .. n : usuariosCSV[k] # Encabezado => usuariosCSV[k].id # f.id
  BY <1>3 DEF Ids, Usuarios, ToSet, Base, TypeOK
<1>7. \A g \in usuariosBD : g.id # f.id
  BY <1>3 DEF Ids
<1>8. IdsDeLineas'
  <2> SUFFICES ASSUME NEW j \in 1 .. Len(usuariosCSV'), NEW k \in 1 .. Len(usuariosCSV'),
                      usuariosCSV'[j] # Encabezado, usuariosCSV'[k] # Encabezado,
                      usuariosCSV'[j].id = usuariosCSV'[k].id
               PROVE  j = k
    BY DEF IdsDeLineas
  <2>1. CASE j \in 1 .. n /\ k \in 1 .. n
    BY <1>3, <2>1 DEF InvIdentidad, IdsDeLineas
  <2>2. CASE j \in 1 .. n /\ k = n + 1
    BY <1>3, <1>6, <2>2
  <2>3. CASE j = n + 1 /\ k \in 1 .. n
    BY <1>3, <1>6, <2>3
  <2>4. QED
    BY <1>5, <2>1, <2>2, <2>3
<1>9. SinLectores'
  BY <1>2 DEF InvIdentidad, SinLectores
<1>10. ASSUME pc[Servidor] = "esperando"
       PROVE  Concuerdan'
  <2>1. Concuerdan
    BY <1>10 DEF InvIdentidad
  <2>2. MismoUsuario'
    <3> SUFFICES ASSUME NEW g \in usuariosBD, NEW k \in 1 .. Len(usuariosCSV'),
                        usuariosCSV'[k] # Encabezado, usuariosCSV'[k].id = g.id
                 PROVE  usuariosCSV'[k] = g
      BY <1>1 DEF MismoUsuario
    <3>1. k \in 1 .. n
      BY <1>3, <1>5, <1>7
    <3>2. QED
      BY <1>3, <2>1, <3>1 DEF Concuerdan, MismoUsuario
  <2>3. \A q \in Consolas : pc'[q] = "importar" => \E a \in Nat : Importadas(q, a)'
    BY <1>1, <1>2, <1>4, <2>1, SigueImportando DEF Concuerdan
  <2>4. \A g \in usuariosBD' : g.correo # Basura => PrimeraConCorreo(g)'
    BY <1>1, <1>4, <2>1, SiguePrimera DEF Concuerdan
  <2>5. QED
    BY <2>2, <2>3, <2>4 DEF Concuerdan
<1>11. QED
  BY <1>2, <1>8, <1>9, <1>10 DEF InvIdentidad

LEMMA IdentidadCaida ==
  ASSUME Base, InvIdentidad, avisos' = {}, avisos = {}, NEW p \in Procesos, Caida(p)
  PROVE  InvIdentidad'
<1>1. pc[p] = "alta" /\ UNCHANGED datos
  BY DEF Caida, Avisa
<1>2. p \in Consolas /\ p # Servidor
  BY <1>1 DEF Base, PcOK, Procesos
<1>3. /\ pc'[Servidor] = pc[Servidor]
      /\ \A q \in Consolas : pc'[q] = pc[q] \/ (q = p /\ pc'[q] = "cerrado")
      /\ \A q \in Consolas : q # p => pendientes'[q] = pendientes[q]
  BY <1>2, LosProcesos DEF Caida, Ir, Base, TypeOK
<1>4. \A q \in Consolas : pc'[q] = "importar" => pc[q] = "importar" /\ pendientes'[q] = pendientes[q]
  BY <1>1, <1>3
<1>5. QED
  BY <1>1, <1>3, <1>4, IdentidadQuieta DEF datos

LEMMA IdentidadPaso == Base /\ InvIdentidad /\ [Next]_vars => InvIdentidad'
<1> SUFFICES ASSUME Base, InvIdentidad, [Next]_vars, avisos' = {} PROVE InvIdentidad'
  BY DEF InvIdentidad
<1>1. avisos = {}
  BY AvisosCrecen
<1>2. CASE PasoServidor
  BY <1>1, <1>2, IdentidadRegistrarRemoto, IdentidadTruncar, IdentidadVolcar DEF PasoServidor
<1>3. CASE \E p \in Consolas : PasoConsola(p)
  BY <1>1, <1>3, IdentidadArrancar, IdentidadAbrirCSV, IdentidadImportarLinea, IdentidadMenu,
     IdentidadAnadir
  DEF PasoConsola
<1>4. CASE \E p \in Procesos : Caida(p)
  BY <1>1, <1>4, IdentidadCaida
<1>5. CASE UNCHANGED vars
  BY <1>1, <1>5, IdentidadQuieta DEF vars, datos, proceso
<1>6. QED
  BY <1>2, <1>3, <1>4, <1>5 DEF Next

(***************************************************************************)
(* Nobody changes identity between the two logins (MismaIdentidad),        *)
(* whatever the consoles add to the file and however often they start.     *)
(***************************************************************************)
THEOREM UnaSolaIdentidad == Spec => []MismaIdentidad
<1>1. Init => InvIdentidad
  <2> SUFFICES ASSUME Init PROVE InvIdentidad
    OBVIOUS
  <2>1. Len(usuariosCSV) = 0 /\ usuariosBD = {}
    BY DEF Init
  <2>2. \A p \in Consolas : pc[p] = "cerrado"
    BY LosProcesos DEF Init
  <2>3. QED
    BY <2>1, <2>2 DEF InvIdentidad, SinLectores, IdsDeLineas, Concuerdan, MismoUsuario
<1>2. Base /\ InvIdentidad => MismaIdentidad
  <2> SUFFICES ASSUME Base, InvIdentidad, avisos = {}, pc[Servidor] = "esperando",
                      NEW e \in Correos, NEW n \in Ids(usuariosBD), EntraPorBD(e, n)
               PROVE  EntraPorCSV(e, n)
    BY DEF MismaIdentidad
  <2> DEFINE g == [id |-> n, correo |-> e]
  <2>1. g \in usuariosBD /\ g.correo = e /\ g.correo # Basura
    BY ConstantesOK DEF EntraPorBD
  <2> HIDE DEF g
  <2>2. PrimeraConCorreo(g)
    BY <2>1 DEF InvIdentidad, Concuerdan
  <2>3. DOMAIN usuariosCSV = 1 .. Len(usuariosCSV)
    BY DEF Base, TypeOK
  <2>4. QED
    BY <2>1, <2>2, <2>3 DEF PrimeraConCorreo, EntraPorCSV, g
<1>3. QED
  BY <1>1, <1>2, BaseInicial, BasePaso, IdentidadPaso, PTL DEF Spec
=============================================================================
